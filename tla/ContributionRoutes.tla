------------------------- MODULE ContributionRoutes -------------------------
(***************************************************************************)
(* The contributions of the active plugins: what they may declare, how a   *)
(* package's routes are published and withdrawn with its host              *)
(* (crates/rho-extension-runtime/src/contribution.rs), how a contribution  *)
(* is called (contribution_call.rs) and how they reach the user and an     *)
(* Agent turn (desktop/src-tauri/src/workspace_plugins.rs).                *)
(*                                                                         *)
(* The registry's mutex is taken anew for every section of a call, so      *)
(* plugins are enabled, replaced and torn down between two sections.  What *)
(* a call does with a granted handle is in PluginCalls.                    *)
(***************************************************************************)
EXTENDS Naturals, Sequences, FiniteSets

CONSTANTS
    RoutePlugins,                     \* plugins of the project
    RoutePackages,                    \* packages a plugin may come in: their declarations, in order
    MAX_CONTRIBUTIONS_PER_PROJECT,
    MaxRouteHosts,                    \* bound on the hosts ever started
    MaxRouteCalls                     \* bound on the calls and projections ever made

ASSUME RoutesAssumption ==
    MAX_CONTRIBUTIONS_PER_PROJECT \in Nat /\ MaxRouteHosts \in Nat /\ MaxRouteCalls \in Nat

VARIABLES
    routes,     \* ContributionStore::records: capability -> declaration and the instance it is of
    hosts,      \* RegistryState::active: the host of each plugin
    started,    \* number of hosts started; host ids are never used again
    ask,        \* the call that is under way
    turn,       \* the Agent projection that is under way
    told,       \* the result handed out last
    asks        \* number of calls and projections

routevars == <<routes, hosts, started, ask, turn, told, asks>>

-----------------------------------------------------------------------------
(* Declarations *)

ContributionKinds == {"command", "viewer", "source", "tool", "skill", "panel"}

\* ContributionKind::parse: an id is its prefix and its name, and the prefix tells the kind
kind_of(id) == IF id[1] \in ContributionKinds /\ id[2] # "" THEN id[1] ELSE "none"

\* Fault variant: the declared kind is not compared with the id.
validate_shape_AnyId(d) == d.major # 0 /\ d.text

\* validate_shape; text stands for the label, the purpose and the media types, which are
\* bounded and free of control and bidi characters
validate_shape(d) ==
    /\ d.major # 0
    /\ kind_of(d.id) = d.kind
    /\ d.text
    /\ d.schemas = (IF d.kind = "skill" THEN "none" ELSE "both")
    /\ d.path = (d.kind = "skill")
    /\ d.slot = (d.kind = "panel")
    /\ d.media => d.kind = "viewer"

\* stage: a hidden candidate, complete or none at all
stageable(decls) ==
    /\ \A i \in DOMAIN decls : validate_shape(decls[i])
    /\ \A i \in DOMAIN decls : \A j \in DOMAIN decls : decls[i].id = decls[j].id => i = j

-----------------------------------------------------------------------------
(* The registry *)

NoRouteHost == [pack |-> 0, id |-> 0, state |-> "none", busy |-> FALSE, granted |-> FALSE]
StartedHost(k, n) == [pack |-> k, id |-> n, state |-> "active", busy |-> FALSE, granted |-> TRUE]

Instance(p, k, n) == [plugin |-> p, pack |-> k, host |-> n]
NoInstance == Instance("none", 0, 0)
NoDeclaration == [id |-> <<"none", "">>, kind |-> "none", major |-> 0, schemas |-> "none",
                  path |-> FALSE, slot |-> FALSE, media |-> FALSE, text |-> FALSE]
HostOf(p) == Instance(p, hosts[p].pack, hosts[p].id)
Records(r, p) == {id \in DOMAIN r : r[id].of.plugin = p}

\* current_identity: the instances the plugin's records name (more than one is an error)
current_identity(p) == {routes[id].of : id \in Records(routes, p)}

\* The registry without some records, and with those of a candidate
Without(r, ids) == [id \in DOMAIN r \ ids |-> r[id]]
WithCandidate(r, k, inst) ==
    LET new == {RoutePackages[k][i] : i \in DOMAIN RoutePackages[k]}
    IN [id \in DOMAIN r \cup {d.id : d \in new} |->
            IF id \in DOMAIN r THEN r[id] ELSE [decl |-> CHOOSE d \in new : d.id = id, of |-> inst]]

\* register, for every declaration of a candidate on a copy without the plugin's old records
registrable(r, k) ==
    LET decls == RoutePackages[k]
    IN /\ \A i \in DOMAIN decls : decls[i].id \notin DOMAIN r
       /\ Cardinality(DOMAIN r) + Len(decls) <= MAX_CONTRIBUTIONS_PER_PROJECT

\* publish: expected-old, then all records of the candidate or no change
publishable(p, k, expected) ==
    /\ current_identity(p) = expected
    /\ registrable(Without(routes, Records(routes, p)), k)

\* Fault variant: the records of the replaced instance stay.
publish_KeepsOld(p, k, n) == WithCandidate(routes, k, Instance(p, k, n))

publish(p, k, n) == WithCandidate(Without(routes, Records(routes, p)), k, Instance(p, k, n))

\* clear_instance: exactly the records of one instance
clear_instance(inst) == Without(routes, {id \in DOMAIN routes : routes[id].of = inst})

\* remove_active_plugin
remove_active_plugin(p) ==
    /\ hosts' = [hosts EXCEPT ![p] = NoRouteHost]
    /\ routes' = clear_instance(HostOf(p))

-----------------------------------------------------------------------------
(* Plugins come and go: each of these holds the mutex throughout *)

KeepCalls == UNCHANGED <<ask, turn, told, asks>>

\* prepare_plugin_activation: the candidate is staged, and its publication tried on a copy
preparable(p, k, expected) == stageable(RoutePackages[k]) /\ publishable(p, k, expected)

\* activate_plugin_durable.  A journal write that fails after the publication closes the route
\* again: seen from outside the mutex nothing happened.
ActivatePlugin(p, k) ==
    /\ hosts[p] = NoRouteHost /\ started < MaxRouteHosts
    /\ preparable(p, k, {})
    /\ started' = started + 1
    /\ routes' = publish(p, k, started')
    /\ hosts' = [hosts EXCEPT ![p] = StartedHost(k, started')]
    /\ KeepCalls

\* activate_plugin_replacement_durable: the old host's call is cancelled and the host quiesced,
\* which only an active one does; a journal that fails after the swap leaves neither
ReplacePlugin(p, k) ==
    /\ hosts[p] # NoRouteHost /\ hosts[p].pack # k /\ started < MaxRouteHosts
    /\ preparable(p, k, current_identity(p))
    /\ started' = started + 1
    /\ hosts[p].state = "active"
    /\ \/ /\ routes' = publish(p, k, started')
          /\ hosts' = [hosts EXCEPT ![p] = StartedHost(k, started')]
       \/ /\ routes' = Without(routes, Records(routes, p))
          /\ hosts' = [hosts EXCEPT ![p] = NoRouteHost]
    /\ KeepCalls

\* teardown_plugin, invalidate_project and the heartbeat's eviction
RemovePlugin(p) ==
    /\ hosts[p] # NoRouteHost
    /\ remove_active_plugin(p)
    /\ UNCHANGED started /\ KeepCalls

\* A grant of the plugin is revoked
RevokeHandles(p) ==
    /\ hosts[p] # NoRouteHost /\ hosts[p].granted
    /\ hosts' = [hosts EXCEPT ![p].granted = FALSE]
    /\ UNCHANGED <<routes, started>> /\ KeepCalls

-----------------------------------------------------------------------------
(* A call: invoke_file_contribution *)

Ask(st, id, origin) ==
    [st |-> st, id |-> id, origin |-> origin, crash |-> NoInstance, of |-> NoInstance,
     decl |-> NoDeclaration, step |-> "none", granted |-> FALSE]
NoAsk == Ask("none", <<"none", "">>, "none")

\* The pairs invoke_file_contribution_inner accepts
fits(origin, kind) ==
    <<origin, kind>> \in {<<"AgentTool", "tool">>, <<"TrustedSource", "source">>,
                          <<"UserCommand", "command">>, <<"TrustedViewer", "viewer">>,
                          <<"TrustedPanel", "panel">>}

\* list_contributions
list_contributions(id) ==
    LET r == routes[id]  h == hosts[r.of.plugin]  exact == HostOf(r.of.plugin) = r.of
    IN IF exact /\ h.state = "active" /\ h.granted THEN "ready"
       ELSE IF exact /\ h.state # "active" THEN "host_unavailable"
       ELSE "permission_unavailable"

\* The instance a failure of this call would be blamed on
crash_context(id) ==
    IF id \in DOMAIN routes /\ hosts[routes[id].of.plugin] # NoRouteHost
    THEN HostOf(routes[id].of.plugin) ELSE NoInstance

Start(id, origin) == ask' = [Ask("asked", id, origin) EXCEPT !.crash = crash_context(id)]

\* The user runs a command or opens a viewer or panel that the list offers; the Agent calls a
\* tool it was offered, by the contribution's id alone
UserAsks(id, origin) ==
    /\ ask = NoAsk /\ asks < MaxRouteCalls /\ asks' = asks + 1
    /\ id \in DOMAIN routes /\ list_contributions(id) = "ready"
    /\ Start(id, origin)
    /\ UNCHANGED <<routes, hosts, started, turn, told>>

AgentAsks(id) ==
    /\ ask = NoAsk /\ asks < MaxRouteCalls /\ asks' = asks + 1
    /\ turn.st = "ready" /\ \E item \in turn.items : item.kind = "tool" /\ item.id = id
    /\ Start(id, "AgentTool")
    /\ UNCHANGED <<routes, hosts, started, turn, told>>

\* An item of an Agent turn, labelled with an instance and made by one
Result(kind, id, of, from, status) ==
    [kind |-> kind, id |-> id, of |-> of, from |-> from, status |-> status]

\* The call ends without a result.  persist_crash_if_needed then removes a quarantined host
\* if it is the one the call began with.
CallFails == ask' = [ask EXCEPT !.st = "failed"]

BlameHost ==
    LET c == ask.crash
    IN /\ ask.st = "failed"
       /\ IF c # NoInstance /\ HostOf(c.plugin) = c /\ hosts[c.plugin].state = "quarantined"
          THEN remove_active_plugin(c.plugin)
          ELSE UNCHANGED <<routes, hosts>>
       /\ ask' = NoAsk
       /\ turn' = IF turn.st # "source" THEN turn
                  ELSE [turn EXCEPT !.st = "project",
                           !.items = @ \cup {Result("source", ask.id, turn.record.of, NoInstance, "failed")}]
       /\ UNCHANGED <<started, told, asks>>

\* The kind is compared with the origin in a section of its own
CheckKind ==
    /\ ask.st = "asked"
    /\ IF ask.id \in DOMAIN routes /\ fits(ask.origin, routes[ask.id].decl.kind)
       THEN ask' = [ask EXCEPT !.st = "checked"] ELSE CallFails
    /\ UNCHANGED <<routes, hosts, started, turn, told, asks>>

\* What the guest of an active host makes of a call: a step, or a trap that quarantines it.
\* busy is a guest that waits for the broker.
Guest(p, steps) ==
    \/ \E s \in steps :
          /\ hosts' = [hosts EXCEPT ![p].busy = (s = "broker")]
          /\ ask' = [ask EXCEPT !.st = "stepped", !.step = s, !.of = HostOf(p),
                                !.decl = routes[ask.id].decl, !.granted = hosts[p].granted]
    \/ hosts' = [hosts EXCEPT ![p].state = "quarantined", ![p].busy = FALSE] /\ CallFails

\* begin_contribution_call and ContributionCallSession::begin
BeginContribution ==
    LET p == routes[ask.id].of.plugin
    IN /\ ask.st = "checked"
       /\ \/ /\ ask.id \notin DOMAIN routes
             /\ CallFails /\ UNCHANGED hosts
          \/ /\ ask.id \in DOMAIN routes
             /\ \/ CallFails /\ UNCHANGED hosts      \* the input does not fit, or is too large
                \/ /\ routes[ask.id].decl.kind # "skill" /\ HostOf(p) = routes[ask.id].of
                   /\ hosts[p].state = "active"
                   /\ IF hosts[p].busy           \* BrokerSequenceViolation
                      THEN hosts' = [hosts EXCEPT ![p].state = "quarantined", ![p].busy = FALSE]
                           /\ CallFails
                      ELSE Guest(p, {"broker", "complete", "error"})
       /\ UNCHANGED <<routes, started, turn, told, asks>>

\* ensure_live: the host and the route are still those the call began with
Live ==
    /\ hosts[ask.of.plugin] # NoRouteHost /\ HostOf(ask.of.plugin) = ask.of
    /\ ask.id \in DOMAIN routes /\ routes[ask.id].of = ask.of
    /\ routes[ask.id].decl.major = ask.decl.major

\* resume_contribution_call: what the broker has, or that it has nothing (a guest that asks
\* again is where it was); an error, and the deadline, takes the host of this very call out of
\* the registry
ResumeContribution ==
    LET p == ask.of.plugin
    IN /\ ask.st = "stepped" /\ ask.step = "broker"
       /\ \/ /\ Live /\ hosts[p].busy /\ hosts[p].state = "active"
             /\ \E s \in {"complete", "error"} :
                   /\ hosts' = [hosts EXCEPT ![p].busy = FALSE]
                   /\ ask' = [ask EXCEPT !.step = s]
             /\ UNCHANGED routes
          \/ /\ CallFails
             /\ IF hosts[p] # NoRouteHost /\ HostOf(p) = ask.of
                THEN remove_active_plugin(p) ELSE UNCHANGED <<routes, hosts>>
       /\ UNCHANGED <<started, turn, told, asks>>

\* A denied permission cancels the call of whatever host is active; a journal that fails
\* leaves it waiting
AbandonContribution ==
    LET p == ask.of.plugin
    IN /\ ask.st = "stepped" /\ ask.step = "broker"
       /\ CallFails
       /\ \/ UNCHANGED hosts
          \/ hosts[p] # NoRouteHost /\ HostOf(p) = ask.of
             /\ hosts' = [hosts EXCEPT ![p].busy = FALSE]
       /\ UNCHANGED <<routes, started, turn, told, asks>>

\* finish_contribution_call: the handles supplied at the start are still live, the call is,
\* and the result fits its schema.  A source becomes an item of the turn, labelled with the
\* record the projection listed.
FinishContribution ==
    /\ ask.st = "stepped" /\ ask.step # "broker"
    /\ \/ /\ Live /\ (ask.granted => hosts[ask.of.plugin].granted)
          /\ told' = {[origin |-> ask.origin, id |-> ask.id, decl |-> ask.decl, of |-> ask.of]}
          /\ ask' = NoAsk
          /\ turn' = IF turn.st # "source" THEN turn
                     ELSE [turn EXCEPT !.st = "project",
                              !.items = @ \cup {Result("source", ask.id, turn.record.of, ask.of, "completed")}]
          /\ UNCHANGED <<routes, hosts, asks>>
       \/ /\ CallFails
          /\ UNCHANGED <<routes, hosts, told, turn, asks>>
    /\ UNCHANGED started

-----------------------------------------------------------------------------
(* What an Agent turn is given: agent_projection *)

NoRecord == [decl |-> NoDeclaration, of |-> NoInstance]
NoTurn == [st |-> "none", todo |-> {}, items |-> {}, record |-> NoRecord]

\* The records are listed in one section of the mutex ...
Project ==
    /\ turn.st = "none" /\ ask = NoAsk /\ asks < MaxRouteCalls /\ asks' = asks + 1
    /\ turn' = [NoTurn EXCEPT !.st = "project", !.todo = {routes[id] : id \in DOMAIN routes}]
    /\ UNCHANGED <<routes, hosts, started, ask, told>>

\* read_plugin_skill: the route and the host are still those of the record
read_plugin_skill(r) ==
    /\ r.decl.id \in DOMAIN routes /\ routes[r.decl.id].of = r.of
    /\ HostOf(r.of.plugin) = r.of

\* ... and looked at one by one.  A tool is offered under the name of its package, a source is
\* called unless that would use up an allow-once grant, a skill is read.
ProjectRecord(r) ==
    LET id == r.decl.id
        Item(kind, from, status) == Result(kind, id, r.of, from, status)
        Becomes(kind, from, status) ==
            turn' = [turn EXCEPT !.todo = @ \ {r}, !.items = @ \cup {Item(kind, from, status)}]
    IN /\ turn.st = "project" /\ ask = NoAsk /\ r \in turn.todo
       /\ \/ r.decl.kind = "tool" /\ Becomes("tool", r.of, "offered") /\ UNCHANGED ask
          \/ /\ r.decl.kind = "skill" /\ UNCHANGED ask
             /\ \/ read_plugin_skill(r) /\ Becomes("skill", HostOf(r.of.plugin), "completed")
                \/ Becomes("skill", NoInstance, "failed")      \* or too large for the pack
          \/ /\ r.decl.kind = "source"
             /\ \/ Becomes("source", NoInstance, "deferred_allow_once") /\ UNCHANGED ask
                \/ /\ turn' = [turn EXCEPT !.todo = @ \ {r}, !.st = "source", !.record = r]
                   /\ Start(id, "TrustedSource")
          \/ /\ r.decl.kind \in {"command", "viewer", "panel"}
             /\ turn' = [turn EXCEPT !.todo = @ \ {r}] /\ UNCHANGED ask
       /\ UNCHANGED <<routes, hosts, started, told, asks>>

\* The turn starts with what was projected; a profile over its budget, or a tool whose schema
\* R cannot hold, gives it nothing
EndProjection ==
    /\ turn.st = "project" /\ ask = NoAsk
    /\ \/ turn.todo = {} /\ turn' = [turn EXCEPT !.st = "ready"]
       \/ turn' = NoTurn
    /\ UNCHANGED <<routes, hosts, started, ask, told, asks>>

TurnEnds ==
    /\ turn.st = "ready" /\ ask = NoAsk /\ turn' = NoTurn
    /\ UNCHANGED <<routes, hosts, started, ask, told, asks>>

-----------------------------------------------------------------------------
RoutesInit ==
    /\ routes = [id \in {} |-> NoRecord]
    /\ hosts = [p \in RoutePlugins |-> NoRouteHost]
    /\ started = 0 /\ ask = NoAsk /\ turn = NoTurn /\ told = {} /\ asks = 0

RoutesNext ==
    \/ \E p \in RoutePlugins :
          \/ RemovePlugin(p) \/ RevokeHandles(p)
          \/ \E k \in DOMAIN RoutePackages : ActivatePlugin(p, k) \/ ReplacePlugin(p, k)
    \/ \E id \in DOMAIN routes :
          \E origin \in {"UserCommand", "TrustedViewer", "TrustedPanel"} : UserAsks(id, origin)
    \/ \E item \in turn.items : AgentAsks(item.id)
    \/ CheckKind \/ BeginContribution \/ ResumeContribution \/ AbandonContribution
    \/ FinishContribution \/ BlameHost
    \/ Project \/ EndProjection \/ TurnEnds
    \/ \E r \in turn.todo : ProjectRecord(r)

RoutesSpec == RoutesInit /\ [][RoutesNext]_routevars

-----------------------------------------------------------------------------
(* Properties *)

\* The published routes are those of the hosts that run, all of a package's declarations or
\* none: no route outlives its host or names a host that was replaced, and no replacement
\* leaves a declaration of the package before it behind.
RoutesFollowHosts ==
    /\ \A id \in DOMAIN routes : HostOf(routes[id].of.plugin) = routes[id].of
    /\ \A p \in RoutePlugins : hosts[p] # NoRouteHost =>
          {routes[id].decl : id \in Records(routes, p)} =
              {RoutePackages[hosts[p].pack][i] : i \in DOMAIN RoutePackages[hosts[p].pack]}

\* A result is handed out only for the kind its origin may call, although the kind is checked
\* in one section of the mutex and the call begun in another, and only while the package that
\* made it is the one the contribution is routed to.  The same holds of the skills an Agent
\* reads: a plugin that was replaced after the projection listed it is not quoted.
ResultsAreRouted ==
    [][/\ \A r \in told' \ told :
             /\ fits(r.origin, r.decl.kind)
             /\ r.id \in DOMAIN routes /\ routes[r.id] = [decl |-> r.decl, of |-> r.of]
       /\ \A item \in turn'.items \ turn.items :
             item.kind = "skill" /\ item.status = "completed" =>
                 /\ item.from = item.of
                 /\ item.id \in DOMAIN routes /\ routes[item.id].of = item.of]_routevars

=============================================================================
