--------------------------- MODULE PluginResolver ---------------------------
(***************************************************************************)
(* The activation plan of a scope (resolver.rs, the rules of model.rs):     *)
(* which plugin provides what, what every requirement is bound to, and in  *)
(* which order the plugins are activated; one action per iteration of its  *)
(* loops.                                                                  *)
(*                                                                         *)
(* Plugins and capabilities are numbers in the order of their names; a     *)
(* descriptor maps the capabilities it provides or needs to their major.   *)
(***************************************************************************)
EXTENDS Integers, FiniteSets, Sequences

CONSTANTS
    PluginIds, Capabilities, Majors,
    MAX_RESOLVED_EDGES

ASSUME ResolverAssumption ==
    /\ PluginIds \subseteq Nat \ {0} /\ IsFiniteSet(PluginIds)
    /\ Capabilities \subseteq Nat /\ IsFiniteSet(Capabilities)
    /\ MAX_RESOLVED_EDGES \in Nat

VARIABLES
    descriptors, parent,      \* what is resolved
    phase,                    \* "check", "bind", "cycle", "order" or "done"
    bound,                    \* the requirements with their provider so far
    absent,                   \* the optional ones nobody provides
    stack,                    \* find_closed_path: the path, with the neighbours left
    ready, degree, order,     \* stable_kahn_order
    plan                      \* the plan or the error, or NoPlan

searchvars == <<stack, ready, degree, order>>
planvars == <<descriptors, parent, phase, bound, absent, searchvars, plan>>

NoPlan == [status |-> "none"]
Parent == 0                       \* the plugin of the parent scope

Declarations == UNION {[s -> Majors] : s \in SUBSET Capabilities}
Descriptors == [provides : Declarations, requires : Declarations, optional : Declarations]

PlanInit ==
    /\ descriptors \in [PluginIds -> Descriptors] /\ parent \in Declarations
    /\ phase = "check" /\ plan = NoPlan
    /\ bound = {} /\ absent = {} /\ stack = << >>
    /\ ready = {} /\ degree = [q \in PluginIds |-> 0] /\ order = << >>

Least(s) == CHOOSE x \in s : \A y \in s : x <= y

\* The resolution ends with an error.
Refuse(status) ==
    /\ phase' = "done" /\ plan' = [status |-> status]
    /\ UNCHANGED <<descriptors, parent, bound, absent, searchvars>>

(***************************************************************************)
(* Providers and bindings                                                  *)
(***************************************************************************)

\* validate_for_scope, of what a descriptor that was parsed may still be.
validate_for_scope(d) == DOMAIN d.requires \cap DOMAIN d.optional = {}

\* Who provides a capability: <<plugin, major>>.
Providers(c) ==
    {<<p, descriptors[p].provides[c]>> : p \in {q \in PluginIds : c \in DOMAIN descriptors[q].provides}}
    \cup {<<Parent, parent[d]>> : d \in {c} \cap DOMAIN parent}

DuplicateProvider == \E c \in Capabilities : \E x, y \in Providers(c) : x # y

CheckDescriptors ==
    /\ phase = "check"
    /\ \/ /\ \E p \in PluginIds : ~validate_for_scope(descriptors[p])
          /\ Refuse("InvalidDescriptor")
       \/ /\ \A p \in PluginIds : validate_for_scope(descriptors[p])
          /\ DuplicateProvider
          /\ Refuse("DuplicateProvider")
       \/ /\ \A p \in PluginIds : validate_for_scope(descriptors[p])
          /\ ~DuplicateProvider
          /\ phase' = "bind"
          /\ UNCHANGED <<descriptors, parent, bound, absent, searchvars, plan>>

\* The requirements of the scope: <<plugin, capability>>.
Needs ==
    {n \in PluginIds \X Capabilities :
        n[2] \in DOMAIN descriptors[n[1]].requires \cup DOMAIN descriptors[n[1]].optional}

Required(n) == n[2] \in DOMAIN descriptors[n[1]].requires
Major(n) == IF Required(n) THEN descriptors[n[1]].requires[n[2]] ELSE descriptors[n[1]].optional[n[2]]

\* The requirements that were not looked at, and the one that is next: by
\* plugin, then by capability.
Left == {n \in Needs : n \notin absent /\ \A b \in bound : b[1] # n}
NextNeed ==
    LET p == Least({n[1] : n \in Left})
    IN  <<p, Least({n[2] : n \in {m \in Left : m[1] = p}})>>

BindTo(n, x) ==
    \/ /\ x[2] # Major(n)
       /\ Refuse("IncompatibleCapabilityMajor")
    \/ /\ x[2] = Major(n)
       /\ Cardinality(bound) + 1 > MAX_RESOLVED_EDGES
       /\ Refuse("LimitExceeded")
    \/ /\ x[2] = Major(n)
       /\ Cardinality(bound) + 1 <= MAX_RESOLVED_EDGES
       /\ bound' = bound \cup {<<n, x[1]>>}
       /\ UNCHANGED <<descriptors, parent, phase, absent, searchvars, plan>>

LeaveUnbound(n) ==
    \/ Required(n) /\ Refuse("MissingRequiredCapability")
    \/ /\ ~Required(n)
       /\ absent' = absent \cup {n}
       /\ UNCHANGED <<descriptors, parent, phase, bound, searchvars, plan>>

BindRequirement ==
    /\ phase = "bind" /\ Left # {}
    /\ \/ \E x \in Providers(NextNeed[2]) : BindTo(NextNeed, x)
       \/ Providers(NextNeed[2]) = {} /\ LeaveUnbound(NextNeed)

(***************************************************************************)
(* Order and cycles                                                        *)
(***************************************************************************)

\* stable_adjacency: edges between plugins of this scope, once each.
stable_adjacency ==
    [p \in PluginIds |-> {q \in PluginIds : \E b \in bound : b[2] = p /\ b[1][1] = q}]

\* The degrees counted for every capability and lowered for every plugin.
InDegrees_PerCapability(adj) ==
    [q \in PluginIds |-> Cardinality({b \in bound : b[1][1] = q /\ b[2] \in PluginIds})]

InDegrees(adj) == [q \in PluginIds |-> Cardinality({p \in PluginIds : q \in adj[p]})]

\* The components of kosaraju_scc (petgraph).
Closed(adj, t) == \A p \in t : adj[p] \subseteq t
Reach(adj, s) == {q \in PluginIds : \A t \in SUBSET PluginIds : s \subseteq t /\ Closed(adj, t) => q \in t}
Component(adj, p) == {q \in PluginIds : q \in Reach(adj, {p}) /\ p \in Reach(adj, {q})}
Cyclic(adj) == {p \in PluginIds : p \in Reach(adj, adj[p])}

\* canonical_cycle: from the smallest plugin on a cycle, within its component.
CycleStart == Least(Cyclic(stable_adjacency))
Frame(p) == [plugin |-> p, rest |-> stable_adjacency[p] \cap Component(stable_adjacency, CycleStart)]

\* stable_kahn_order up to its loop.
StartOrder ==
    /\ phase' = "order" /\ order' = << >>
    /\ degree' = InDegrees(stable_adjacency)
    /\ ready' = {q \in PluginIds : InDegrees(stable_adjacency)[q] = 0}

FinishBinding ==
    /\ phase = "bind" /\ Left = {}
    /\ \/ /\ Cyclic(stable_adjacency) = {}
          /\ StartOrder /\ UNCHANGED stack
       \/ /\ Cyclic(stable_adjacency) # {}
          /\ phase' = "cycle" /\ stack' = <<Frame(CycleStart)>>
          /\ UNCHANGED <<ready, degree, order>>
    /\ UNCHANGED <<descriptors, parent, bound, absent, plan>>

\* One iteration of find_closed_path: the smallest neighbour that is left closes
\* the path, lengthens it, or is on it already.
TryNeighbour ==
    /\ phase = "cycle" /\ stack[Len(stack)].rest # {}
    /\ LET q == Least(stack[Len(stack)].rest)
           path == [i \in 1 .. Len(stack) |-> stack[i].plugin]
           tried == [stack EXCEPT ![Len(stack)].rest = @ \ {q}]
       IN  \/ /\ q = CycleStart
              /\ phase' = "done" /\ plan' = [status |-> "DependencyCycle", path |-> Append(path, q)]
              /\ UNCHANGED stack
           \/ /\ q # CycleStart /\ \A i \in DOMAIN path : path[i] # q
              /\ stack' = Append(tried, Frame(q))
              /\ UNCHANGED <<phase, plan>>
           \/ /\ q # CycleStart /\ \E i \in DOMAIN path : path[i] = q
              /\ stack' = tried
              /\ UNCHANGED <<phase, plan>>
    /\ UNCHANGED <<descriptors, parent, bound, absent, ready, degree, order>>

\* A call of find_closed_path returns nothing; the first one leaves no cycle.
GiveUp ==
    /\ phase = "cycle" /\ stack[Len(stack)].rest = {}
    /\ stack' = SubSeq(stack, 1, Len(stack) - 1)
    /\ IF Len(stack) = 1 THEN StartOrder ELSE UNCHANGED <<phase, ready, degree, order>>
    /\ UNCHANGED <<descriptors, parent, bound, absent, plan>>

\* One iteration of stable_kahn_order.
PopReady ==
    /\ phase = "order" /\ ready # {}
    /\ LET p == Least(ready)
           dependents == stable_adjacency[p]
       IN  /\ order' = Append(order, p)
           /\ degree' = [q \in PluginIds |-> IF q \in dependents THEN degree[q] - 1 ELSE degree[q]]
           /\ ready' = (ready \ {p}) \cup {q \in dependents : degree'[q] = 0}
    /\ UNCHANGED <<descriptors, parent, phase, bound, absent, stack, plan>>

FinishPlan ==
    /\ phase = "order" /\ ready = {}
    /\ phase' = "done"
    /\ plan' = [status |-> "planned", order |-> order, bound |-> bound, absent |-> absent]
    /\ UNCHANGED <<descriptors, parent, bound, absent, searchvars>>

PlanNext ==
    \/ CheckDescriptors
    \/ BindRequirement
    \/ FinishBinding
    \/ TryNeighbour
    \/ GiveUp
    \/ PopReady
    \/ FinishPlan

PlanSpec == PlanInit /\ [][PlanNext]_planvars

(***************************************************************************)
(* Properties                                                              *)
(***************************************************************************)

\* Who needs whom.
Edge(p, q) ==
    \E c \in Capabilities :
        /\ c \in DOMAIN descriptors[p].provides
        /\ c \in DOMAIN descriptors[q].requires \cup DOMAIN descriptors[q].optional

Orders == {o \in [1 .. Cardinality(PluginIds) -> PluginIds] : \A i, j \in DOMAIN o : o[i] = o[j] => i = j}
Valid(o) == \A i, j \in DOMAIN o : Edge(o[i], o[j]) => i < j
Before(o, r) == \E i \in DOMAIN o : o[i] < r[i] /\ \A j \in 1 .. i - 1 : o[j] = r[j]

\* Descriptors there is a plan for.
Resolvable ==
    /\ \A p \in PluginIds : validate_for_scope(descriptors[p])
    /\ ~DuplicateProvider
    /\ \A n \in Needs :
          IF Providers(n[2]) = {} THEN ~Required(n) ELSE \A x \in Providers(n[2]) : x[2] = Major(n)
    /\ Cardinality({n \in Needs : Providers(n[2]) # {}}) <= MAX_RESOLVED_EDGES
    /\ \E o \in Orders : Valid(o)

\* Providers before their consumers, in the smallest such order.
CanonicalOrder(r) ==
    /\ r \in Orders /\ Valid(r)
    /\ \A o \in Orders : Valid(o) => ~Before(o, r)

\* Bound to a provider with the major it asks for, or optional and absent.
Settled(n, edges, without) ==
    \/ \E x \in Providers(n[2]) : <<n, x[1]>> \in edges /\ x[2] = Major(n)
    \/ ~Required(n) /\ Providers(n[2]) = {} /\ n \in without

\* A path along the needs of plugins that ends where it starts, and there only.
ClosedPath(path) ==
    /\ Len(path) > 1 /\ path[1] = path[Len(path)]
    /\ \A i \in 1 .. Len(path) - 1 : Edge(path[i], path[i + 1])
    /\ \A i, j \in 1 .. Len(path) - 1 : path[i] = path[j] => i = j

\* A plan is given for exactly the descriptors that have one, and it is the one
\* the code promises: providers before their consumers, the smallest such order,
\* every requirement bound to the only provider with its major or, when it is
\* optional, absent because nobody provides it.  A reported cycle is one, and
\* there is no order then.
PlansAreCanonical ==
    plan # NoPlan =>
        /\ plan.status = "planned" <=> Resolvable
        /\ plan.status = "planned" =>
              CanonicalOrder(plan.order) /\ \A n \in Needs : Settled(n, plan.bound, plan.absent)
        /\ plan.status = "DependencyCycle" =>
              ClosedPath(plan.path) /\ \A o \in Orders : ~Valid(o)
=============================================================================
