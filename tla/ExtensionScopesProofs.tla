------------------------ MODULE ExtensionScopesProofs ------------------------
(***************************************************************************)
(* What ExtensionScopes guarantees for any number of scopes, callers and    *)
(* clients: no effect is disposed under a call that was let in, and no      *)
(* scope is forgotten.                                                      *)
(*                                                                         *)
(* The invariant says who looks after every scope that is not disposed: a   *)
(* slot, a caller that built it, a caller that is to dispose it, or the     *)
(* disposal of its parent.                                                  *)
(***************************************************************************)
EXTENDS ExtensionScopes, TLAPS

\* What a caller is still to dispose, and the candidates it has built
Elems(q) == {q[i] : i \in 1..Len(q)}
InQueue(s, c) == s \in Elems(call[c].queue)
Mine(c) == {call[c].p, call[c].w} \ {None}

\* A scope nobody routes to, owns or disposes
Loose(s) ==
    /\ disposal[s] = Idle /\ ~routing[s] /\ s \notin Current /\ children[s] = {}
    /\ \A x \in Scopes : s \notin children[x]
    /\ \A d \in Callers : ~InQueue(s, d)

\* The tree of scopes is the one of the slots, two levels deep, and no scope has
\* two parents.
TreeInv ==
    /\ children[App] = {slot.project} \ {None}
    /\ slot.project # None => children[slot.project] = {slot.workspace} \ {None}
    /\ slot.project = None => slot.workspace = None
    /\ \A p \in Projects : children[p] \subseteq Workspaces
    /\ \A w \in Workspaces : children[w] = {}
    /\ \A x, y \in Scopes : \A k \in children[x] : k \in children[y] => x = y

\* A caller that holds a candidate has it alone; a caller that disposes has what it
\* is to dispose, which is not current any more unless everything is shut down.
CallerOK(c) ==
    /\ call[c].kind = "switch" <=> call[c].p # None
    /\ call[c].kind = "workspace" => call[c].w # None
    /\ call[c].w # None => call[c].kind \in {"switch", "workspace"}
    /\ call[c].kind = "dispose" <=> call[c].queue # <<>>
    /\ down => call[c].kind \in {"none", "dispose"}
    /\ \A s \in Mine(c) : state[s] = "ready" /\ Loose(s) /\ \A d \in Callers \ {c} : s \notin Mine(d)
    /\ \A s \in Scopes : InQueue(s, c) => s \notin Current \/ down

\* A scope that was not built is loose, one that is disposed is closed and not
\* current, and only an active one is routed to.
ScopeOK(s) ==
    /\ state[s] = "none" => Loose(s) /\ \A c \in Callers : s \notin Mine(c)
    /\ disposal[s].step # "idle" => ~routing[s] /\ (s \notin Current \/ down) /\ state[s] \in {"quiescing", "disposing"}
    /\ disposal[s].step = "children" => state[s] = "disposing" /\ disposal[s].kids \subseteq children[s]
    /\ disposal[s].step # "children" => disposal[s].kids = {}
    /\ routing[s] => state[s] = "active"
    /\ s \in Current /\ ~down => state[s] = "active"
    /\ disposal[s].by \in Scopes => s # App /\ (s \in Projects => down)

\* What the disposal of x has still to reach
Unreached(x) == IF state[x] \in Ended THEN {}
          ELSE IF disposal[x].step = "children" THEN disposal[x].kids ELSE children[x]

\* Somebody looks after a scope: it is current, a caller has it or is to dispose it,
\* or it is yet to be reached by the disposal of such a scope or of its child.
Direct(s) ==
    \/ s \in Current /\ ~down
    \/ \E c \in Callers : s \in Mine(c) \/ InQueue(s, c)
Owed(s) ==
    \/ Direct(s)
    \/ \E x \in Scopes : s \in Unreached(x) /\ (Direct(x) \/ (Direct(App) /\ x \in Unreached(App)))

\* Every scope that was built is disposed, late or looked after.
OwedInv == \A s \in Scopes : state[s] \in Ended \cup {"none"} \/ late[s] \/ Owed(s)

\* Only current scopes are routed to, and what the disposal of a project scope is
\* about to reach.
RoutedInv ==
    \A s \in Scopes : routing[s] /\ ~down =>
        s \in Current \/ \E x \in Projects : s \in Unreached(x) /\ \E c \in Callers : InQueue(x, c)

\* A client that was let in is in a scope that is not disposed, or late.
ClientOK(c) ==
    /\ lease[c].step # "none" => lease[c].scope \in Scopes
    /\ lease[c].step \in {"granted", "task"} =>
         state[lease[c].scope] \in {"ready", "active", "quiescing"} \/ late[lease[c].scope]

ScopesInv ==
    /\ TypeOK /\ TreeInv
    /\ \A c \in Callers : CallerOK(c)
    /\ \A s \in Scopes : ScopeOK(s)
    /\ OwedInv /\ RoutedInv
    /\ \A c \in Clients : ClientOK(c)

-----------------------------------------------------------------------------
(* The types, and steps of clients *)

CallRecords ==
    [kind : CallKinds, p : Projects \cup {None}, w : Workspaces \cup {None},
     expP : Projects \cup {None}, expW : Workspaces \cup {None}, queue : Seq(Scopes)]
Disposals ==
    [step : {"idle", "drain", "children"}, by : Callers \cup Scopes \cup {None}, kids : SUBSET Candidates]
Leases == [scope : Scopes \cup {None}, step : {"none", "looked", "counted", "granted", "task"}]
Slots == [project : Projects \cup {None}, workspace : Workspaces \cup {None}]

\* The parts of the type invariant, by name.
LEMMA TypeParts ==
  TypeOK <=> /\ state \in [Scopes -> States] /\ routing \in [Scopes -> BOOLEAN]
             /\ id \in [Candidates -> Roots \cup {None}]
             /\ children \in [Scopes -> SUBSET Candidates] /\ slot \in Slots
             /\ gate \in Callers \cup {None} /\ call \in [Callers -> CallRecords]
             /\ disposal \in [Scopes -> Disposals] /\ late \in [Scopes -> BOOLEAN]
             /\ lease \in [Clients -> Leases] /\ down \in BOOLEAN
BY DEF TypeOK, CallRecords, Disposals, Leases, Slots

\* What the constants are assumed to be, as the proofs use it.
LEMMA Apart ==
  /\ App \in Scopes /\ Candidates \subseteq Scopes /\ Projects \subseteq Candidates /\ Workspaces \subseteq Candidates
  /\ App \notin Candidates /\ Projects \cap Workspaces = {} /\ App \notin Projects /\ App \notin Workspaces
  /\ None \notin Scopes /\ None \notin Callers /\ None \notin Candidates /\ None \notin Projects /\ None \notin Workspaces
  /\ Callers \cap Scopes = {} /\ \A s \in Scopes : s = App \/ s \in Projects \/ s \in Workspaces
BY ScopesAssumption DEF Scopes, Candidates

\* The parts of the invariant.
LEMMA Parts ==
  ASSUME ScopesInv
  PROVE  /\ TypeOK /\ TreeInv /\ OwedInv /\ RoutedInv
         /\ \A c \in Callers : CallerOK(c)
         /\ \A s \in Scopes : ScopeOK(s)
         /\ \A c \in Clients : ClientOK(c)
BY DEF ScopesInv

\* Nothing that the scopes and the callers do depends on a client.
LEMMA ClientsKeep ==
  ASSUME ScopesInv, UNCHANGED <<state, routing, id, children, slot, gate, call, disposal, late, down>>,
         lease' \in [Clients -> Leases], \A c \in Clients : ClientOK(c)'
  PROVE  ScopesInv'
<1>1. TypeOK'
  BY Parts DEF TypeOK, Leases
<1>2. TreeInv'
  BY Parts DEF TreeInv
<1>3. ASSUME NEW c \in Callers PROVE CallerOK(c)'
  BY Parts DEF CallerOK, Mine, Loose, InQueue, Current
<1>4. ASSUME NEW s \in Scopes PROVE ScopeOK(s)'
  BY Parts DEF ScopeOK, Mine, Loose, InQueue, Current
<1>5. OwedInv'
  BY Parts DEF OwedInv, Owed, Direct, Unreached, Mine, InQueue, Current
<1>6. RoutedInv'
  BY Parts DEF RoutedInv, Unreached, InQueue, Current
<1>. QED BY <1>1, <1>2, <1>3, <1>4, <1>5, <1>6 DEF ScopesInv

\* A client's step: it looks, counts itself, is let in, spawns or ends.
LEMMA ClientNextKeeps ==
  ASSUME ScopesInv, ClientNext
  PROVE  ScopesInv'
<1>1. PICK c \in Clients : LeaseLooks(c) \/ LeaseCounts(c) \/ LeaseRechecks(c) \/ SpawnTask(c) \/ ClientEnds(c)
  BY DEF ClientNext
<1>2. /\ lease \in [Clients -> Leases] /\ ClientOK(c) /\ lease[c] \in Leases
      /\ \A s \in Scopes : ScopeOK(s)
  BY Parts, TypeParts
<1>3. ASSUME NEW l \in Leases, ClientStep(c, l), l.step # "none" => l.scope \in Scopes,
             l.step \in {"granted", "task"} => state[l.scope] \in {"ready", "active", "quiescing"} \/ late[l.scope]
      PROVE  ScopesInv'
  <2>1. /\ lease' = [lease EXCEPT ![c] = l]
        /\ UNCHANGED <<state, routing, id, children, slot, gate, call, disposal, late, down>>
    BY <1>3 DEF ClientStep, manager
  <2>2. lease' \in [Clients -> Leases] /\ lease'[c] = l /\ \A d \in Clients : d # c => lease'[d] = lease[d]
    BY <1>2, <1>3, <2>1
  <2>3. ASSUME NEW d \in Clients PROVE ClientOK(d)'
    <3>1. CASE d = c
      BY <1>3, <2>1, <2>2, <3>1 DEF ClientOK
    <3>2. CASE d # c
      BY <2>1, <2>2, <3>2, Parts DEF ClientOK
    <3>. QED BY <3>1, <3>2
  <2>. QED BY <2>1, <2>2, <2>3, ClientsKeep
<1>4. CASE LeaseLooks(c)
  <2>1. PICK s \in Scopes : ClientStep(c, [scope |-> s, step |-> "looked"])
    BY <1>4 DEF LeaseLooks
  <2>. QED BY <1>3, <2>1 DEF Leases
<1>5. CASE LeaseCounts(c)
  <2>1. lease[c].step = "looked" /\ ClientStep(c, [lease[c] EXCEPT !.step = "counted"])
    BY <1>5 DEF LeaseCounts
  <2>2. PICK l : l = [lease[c] EXCEPT !.step = "counted"]
    OBVIOUS
  <2>3. l \in Leases /\ l.step = "counted" /\ l.scope \in Scopes
    BY <1>2, <2>1, <2>2 DEF Leases, ClientOK
  <2>. QED BY <1>3, <2>1, <2>2, <2>3
<1>6. CASE LeaseRechecks(c)
  <2>1. lease[c].step = "counted" /\ lease[c].scope \in Scopes
    BY <1>2, <1>6 DEF LeaseRechecks, ClientOK
  <2>2. CASE routing[lease[c].scope]
    <3>1. PICK l : l = [lease[c] EXCEPT !.step = "granted"]
      OBVIOUS
    <3>2. l \in Leases /\ l.step = "granted" /\ l.scope = lease[c].scope
      BY <1>2, <3>1 DEF Leases
    <3>3. state[lease[c].scope] = "active" /\ ClientStep(c, l)
      BY <1>2, <1>6, <2>1, <2>2, <3>1 DEF LeaseRechecks, ScopeOK
    <3>. QED BY <1>3, <2>1, <3>2, <3>3
  <2>3. CASE ~routing[lease[c].scope]
    <3>1. ClientStep(c, NoLease) /\ NoLease \in Leases /\ NoLease.step = "none"
      BY <1>6, <2>3 DEF LeaseRechecks, NoLease, Leases
    <3>. QED BY <1>3, <3>1
  <2>. QED BY <2>2, <2>3
<1>7. CASE SpawnTask(c)
  <2>1. PICK s \in Scopes : state[s] \in {"ready", "active"} /\ ClientStep(c, [scope |-> s, step |-> "task"])
    BY <1>7 DEF SpawnTask
  <2>. QED BY <1>3, <2>1 DEF Leases
<1>8. CASE ClientEnds(c)
  <2>1. ClientStep(c, NoLease) /\ NoLease \in Leases /\ NoLease.step = "none"
    BY <1>8 DEF ClientEnds, NoLease, Leases
  <2>. QED BY <1>3, <2>1
<1>. QED BY <1>1, <1>4, <1>5, <1>6, <1>7, <1>8

-----------------------------------------------------------------------------
(* Disposals *)

\* Unreached, after the step
After(x) == IF state'[x] \in Ended THEN {}
            ELSE IF disposal'[x].step = "children" THEN disposal'[x].kids ELSE children'[x]

\* What ScopeOK says of a scope's disposal
DisposalOK(s) ==
    /\ disposal[s].step # "idle" => ~routing[s] /\ (s \notin Current \/ down) /\ state[s] \in {"quiescing", "disposing"}
    /\ disposal[s].step = "children" => state[s] = "disposing" /\ disposal[s].kids \subseteq children[s]
    /\ disposal[s].step # "children" => disposal[s].kids = {}
    /\ disposal[s].by \in Scopes => s # App /\ (s \in Projects => down)

\* A step of a disposal keeps the invariant if it leaves alone what nobody disposes,
\* turns nothing back, and forgets only what is disposed or late.
LEMMA DisposeKeeps ==
  ASSUME ScopesInv, UNCHANGED <<children, lease, id, slot, gate, call, down>>,
         state' \in [Scopes -> States], routing' \in [Scopes -> BOOLEAN],
         disposal' \in [Scopes -> Disposals], late' \in [Scopes -> BOOLEAN],
         \A s \in Scopes : Loose(s) => state'[s] = state[s] /\ routing'[s] = routing[s] /\ disposal'[s] = disposal[s],
         \A s \in Scopes : routing'[s] => routing[s] /\ state'[s] = state[s],
         \A s \in Scopes : late[s] => late'[s],
         \A s \in Scopes : state[s] \in Ended \cup {"none"} => state'[s] = state[s],
         \A s \in Scopes : state'[s] = "none" => state[s] = "none",
         \A s \in Scopes : s \in Current /\ ~down => state'[s] = state[s],
         \A s \in Scopes : DisposalOK(s)',
         \A x \in Scopes : \A k \in Unreached(x) :
            \/ k \in After(x)
            \/ /\ state'[k] \in Ended \/ late'[k]
               /\ \A y \in Unreached(k) : late'[y]
               /\ x \in Projects /\ ~down => ~routing'[k],
         \A c \in Clients : lease[c].step \in {"granted", "task"}
              /\ state[lease[c].scope] \in {"ready", "active", "quiescing"}
            => state'[lease[c].scope] \in {"ready", "active", "quiescing"} \/ late'[lease[c].scope]
  PROVE  ScopesInv'
<1>0. TypeOK'
  BY Parts, TypeParts DEF TypeOK, Disposals
<1>1. TreeInv'
  BY Parts DEF TreeInv
<1>2. ASSUME NEW s \in Scopes, Loose(s) PROVE Loose(s)' /\ state'[s] = state[s]
  BY <1>2 DEF Loose, InQueue, Current
<1>3. ASSUME NEW c \in Callers PROVE CallerOK(c)'
  <2>1. CallerOK(c) /\ Mine(c) \subseteq Scopes
    BY Parts, TypeParts, Apart DEF CallRecords, Mine
  <2>2. \A s \in Mine(c) : Loose(s) /\ state[s] = "ready" /\ \A d \in Callers \ {c} : s \notin Mine(d)
    BY <2>1 DEF CallerOK
  <2>3. ASSUME NEW s \in Mine(c) PROVE state'[s] = "ready" /\ Loose(s)' /\ \A d \in Callers \ {c} : s \notin Mine(d)'
    <3>1. Loose(s)' /\ state'[s] = state[s]
      BY <1>2, <2>1, <2>2
    <3>2. \A d \in Callers \ {c} : s \notin Mine(d)
      BY <2>2
    <3>. QED BY <2>2, <3>1, <3>2 DEF Mine
  <2>4. Mine(c)' = Mine(c)
    BY DEF Mine
  <2>. QED BY <2>1, <2>3, <2>4 DEF CallerOK, InQueue, Current
<1>4. ASSUME NEW s \in Scopes PROVE ScopeOK(s)'
  <2>1. ScopeOK(s) /\ DisposalOK(s)'
    BY Parts
  <2>2. state'[s] = "none" => Loose(s)' /\ \A c \in Callers : s \notin Mine(c)'
    BY <1>2, <2>1 DEF ScopeOK, Mine
  <2>3. /\ routing'[s] => state'[s] = "active"
        /\ s \in Current' /\ ~down' => state'[s] = "active"
    BY <2>1 DEF ScopeOK, Current
  <2>. QED BY <2>1, <2>2, <2>3 DEF ScopeOK, DisposalOK
<1>5. \A x \in Scopes : After(x) = Unreached(x)'
  BY DEF After, Unreached
<1>6. \A s \in Scopes : Direct(s)' <=> Direct(s)
  BY DEF Direct, Mine, InQueue, Current
<1>7. OwedInv'
  <2>1. ASSUME NEW s \in Scopes, state'[s] \notin Ended \cup {"none"}, ~late'[s] PROVE Owed(s)'
    <3>1. Owed(s)
      BY <2>1, Parts DEF OwedInv
    <3>2. CASE Direct(s)
      BY <1>6, <3>2 DEF Owed
    <3>3. ASSUME NEW x \in Scopes, s \in Unreached(x), Direct(x) \/ (Direct(App) /\ x \in Unreached(App))
          PROVE  Owed(s)'
      <4>1. s \in After(x)
        BY <2>1, <3>3
      <4>2. Direct(x) \/ (Direct(App) /\ x \in After(App))
        BY <2>1, <3>3, Apart
      <4>3. s \in Unreached(x)' /\ (Direct(x)' \/ (Direct(App)' /\ x \in Unreached(App)'))
        BY <1>5, <1>6, <4>1, <4>2, Apart
      <4>. QED BY <4>3 DEF Owed
    <3>. QED BY <3>1, <3>2, <3>3 DEF Owed
  <2>. QED BY <2>1 DEF OwedInv
<1>8. RoutedInv'
  <2>1. ASSUME NEW s \in Scopes, routing'[s], ~down
        PROVE  s \in Current' \/ \E x \in Projects : s \in After(x) /\ \E c \in Callers : InQueue(x, c)'
    <3>1. s \in Current \/ \E x \in Projects : s \in Unreached(x) /\ \E c \in Callers : InQueue(x, c)
      BY <2>1, Parts DEF RoutedInv
    <3>2. CASE s \in Current
      BY <3>2 DEF Current
    <3>3. ASSUME NEW x \in Projects, s \in Unreached(x), NEW c \in Callers, InQueue(x, c)
          PROVE  s \in After(x) /\ InQueue(x, c)'
      BY <2>1, <3>3, Apart DEF InQueue
    <3>. QED BY <3>1, <3>2, <3>3
  <2>. QED BY <1>5, <2>1, Apart DEF RoutedInv
<1>9. ASSUME NEW c \in Clients PROVE ClientOK(c)'
  <2>1. ClientOK(c)
    BY Parts
  <2>. QED BY <2>1 DEF ClientOK
<1>. QED BY <1>0, <1>1, <1>3, <1>4, <1>7, <1>8, <1>9 DEF ScopesInv

\* A scope somebody wants disposed was built, and is current only at a shutdown.
LEMMA Wanted ==
  ASSUME ScopesInv, NEW o \in Callers \cup Scopes, NEW s \in Scopes, Wants(o, s)
  PROVE  /\ ~Loose(s) /\ state[s] # "none" /\ (s \notin Current \/ down)
         /\ o \in Scopes => s # App /\ (s \in Projects => down)
<1>1. ScopeOK(s)
  BY Parts
<1>2. CASE o \in Callers
  <2>1. call[o].queue # <<>> /\ Head(call[o].queue) = s /\ call[o].queue \in Seq(Scopes)
    BY <1>2, Parts, TypeParts DEF Wants, CallRecords
  <2>2. InQueue(s, o)
    BY <2>1 DEF InQueue, Elems
  <2>. QED BY <1>1, <1>2, <2>2, Parts, Apart DEF Loose, CallerOK, ScopeOK
<1>3. CASE o \in Scopes
  <2>1. disposal[o].step = "children" /\ s \in disposal[o].kids
    BY <1>3, Apart DEF Wants
  <2>2. s \in children[o] /\ (o \notin Current \/ down) /\ TreeInv /\ s \in Candidates
    BY <1>3, <2>1, Parts, TypeParts DEF ScopeOK
  <2>3. s \in Current => o \in Current
    <3>1. s = slot.project \/ s = slot.workspace => slot.project # None
      BY <2>2, Apart DEF TreeInv
    <3>2. s = slot.project => o = App
      BY <1>3, <2>2, <3>1, Apart DEF TreeInv
    <3>3. s = slot.workspace => o = slot.project
      <4>1. slot.project # None => slot.project \in Scopes
        BY Parts, TypeParts, Apart DEF Slots
      <4>. QED BY <1>3, <2>2, <3>1, <4>1, Apart DEF TreeInv
    <3>. QED BY <2>2, <3>2, <3>3, Apart DEF Current
  <2>4. s # App /\ (s \in Projects => o = App)
    BY <1>3, <2>2, Apart DEF TreeInv
  <2>5. App \in Current
    BY DEF Current
  <2>6. ~Loose(s)
    BY <1>3, <2>2 DEF Loose
  <2>. QED BY <1>1, <2>2, <2>3, <2>4, <2>5, <2>6 DEF ScopeOK
<1>. QED BY <1>2, <1>3

\* The state and the disposal of every scope, and what a step of a disposal leaves alone.
LEMMA Given ==
  ASSUME ScopesInv
  PROVE  /\ state \in [Scopes -> States] /\ routing \in [Scopes -> BOOLEAN]
         /\ children \in [Scopes -> SUBSET Candidates]
         /\ disposal \in [Scopes -> Disposals] /\ late \in [Scopes -> BOOLEAN]
         /\ \A s \in Scopes : ScopeOK(s) /\ DisposalOK(s)
BY Parts, TypeParts DEF ScopeOK, DisposalOK

\* A disposal is one of the possible disposals.
LEMMA DisposalParts ==
  ASSUME NEW d \in Disposals, NEW ks \in SUBSET Candidates
  PROVE  /\ [d EXCEPT !.step = "children", !.kids = ks] \in Disposals
         /\ [d EXCEPT !.step = "children", !.kids = ks].step = "children"
         /\ [d EXCEPT !.step = "children", !.kids = ks].by = d.by
         /\ [d EXCEPT !.step = "children", !.kids = ks].kids = ks
         /\ [d EXCEPT !.kids = ks] \in Disposals /\ [d EXCEPT !.kids = ks].step = d.step
         /\ [d EXCEPT !.kids = ks].by = d.by /\ [d EXCEPT !.kids = ks].kids = ks
BY DEF Disposals

\* Idle is one too.
LEMMA IdleParts == Idle \in Disposals /\ Idle.step = "idle" /\ Idle.by = None /\ Idle.kids = {}
BY DEF Idle, Disposals

\* The disposal of s goes on to d, with state st, and late when lt is set: nothing it
\* has still to reach is forgotten, and no client loses its effects in time.
Moves(s, d, st, lt) ==
    /\ ~Loose(s) /\ state[s] \notin Ended \cup {"none"} /\ (s \notin Current \/ down)
    /\ DisposalStep(s, d) /\ state' = [state EXCEPT ![s] = st]
    /\ routing' = [routing EXCEPT ![s] = FALSE] /\ late' = [late EXCEPT ![s] = lt]
    /\ late[s] => lt
    /\ d.step # "idle" => st \in {"quiescing", "disposing"}
    /\ d.step = "children" => st = "disposing" /\ d.kids \subseteq children[s]
    /\ d.step # "children" => d.kids = {}
    /\ d.by \in Scopes => s # App /\ (s \in Projects => down)
    /\ \A k \in Unreached(s) :
          \/ st \notin Ended /\ (IF d.step = "children" THEN k \in d.kids ELSE k \in children[s])
          \/ k # s /\ state[k] \in Ended
    /\ \A c \in Clients : lease[c].step \in {"granted", "task"} /\ lease[c].scope = s
              /\ state[s] \in {"ready", "active", "quiescing"}
            => st \in {"ready", "active", "quiescing"} \/ lt

\* Such a step keeps the invariant.
LEMMA OneDisposal ==
  ASSUME ScopesInv, NEW s \in Scopes, NEW d \in Disposals, NEW st \in States \ {"none"}, NEW lt \in BOOLEAN,
         Moves(s, d, st, lt)
  PROVE  ScopesInv'
<1>. USE DEF Moves
<1>1. /\ disposal' = [disposal EXCEPT ![s] = d]
      /\ UNCHANGED <<children, lease, id, slot, gate, call, down>>
  BY DEF DisposalStep, manager
<1>2. /\ state' \in [Scopes -> States] /\ routing' \in [Scopes -> BOOLEAN]
      /\ disposal' \in [Scopes -> Disposals] /\ late' \in [Scopes -> BOOLEAN]
      /\ state'[s] = st /\ ~routing'[s] /\ disposal'[s] = d /\ late'[s] = lt
      /\ \A t \in Scopes : t # s => /\ state'[t] = state[t] /\ routing'[t] = routing[t]
                                    /\ disposal'[t] = disposal[t] /\ late'[t] = late[t]
  BY <1>1, Given
<1>3. ASSUME NEW t \in Scopes PROVE DisposalOK(t)'
  <2>1. CASE t = s
    BY <1>1, <1>2, <2>1 DEF DisposalOK, Current
  <2>2. CASE t # s
    BY <1>1, <1>2, <2>2, Given DEF DisposalOK, Current
  <2>. QED BY <2>1, <2>2
<1>4. ASSUME NEW x \in Scopes, NEW k \in Unreached(x)
      PROVE  \/ k \in After(x)
             \/ /\ state'[k] \in Ended \/ late'[k]
                /\ \A y \in Unreached(k) : late'[y]
                /\ x \in Projects /\ ~down => ~routing'[k]
  <2>1. CASE x # s
    BY <1>1, <1>2, <1>4, <2>1 DEF After, Unreached
  <2>2. CASE x = s /\ k \in After(x)
    BY <2>2
  <2>3. CASE x = s /\ k # s /\ state[k] \in Ended
    <3>1. k \in Scopes
      <4>1. k \in Candidates
        BY <1>4, Given DEF Unreached, Disposals
      <4>. QED BY <4>1, Apart
    <3>2. ScopeOK(k) /\ state'[k] \in Ended /\ ~routing'[k] /\ Unreached(k) = {}
      BY <1>2, <2>3, <3>1, Given DEF ScopeOK, Unreached, Ended
    <3>. QED BY <3>2
  <2>4. CASE x = s /\ st \notin Ended /\ (IF d.step = "children" THEN k \in d.kids ELSE k \in children[s])
    BY <1>1, <1>2, <2>4 DEF After
  <2>. QED BY <1>4, <2>1, <2>2, <2>3, <2>4
<1>5. ASSUME NEW c \in Clients, lease[c].step \in {"granted", "task"},
             state[lease[c].scope] \in {"ready", "active", "quiescing"}
      PROVE  state'[lease[c].scope] \in {"ready", "active", "quiescing"} \/ late'[lease[c].scope]
  <2>1. lease[c].scope \in Scopes
    BY <1>5, Parts DEF ClientOK
  <2>. QED BY <1>2, <1>5, <2>1
<1>6. /\ \A t \in Scopes : Loose(t) => state'[t] = state[t] /\ routing'[t] = routing[t] /\ disposal'[t] = disposal[t]
      /\ \A t \in Scopes : routing'[t] => routing[t] /\ state'[t] = state[t]
      /\ \A t \in Scopes : late[t] => late'[t]
      /\ \A t \in Scopes : state[t] \in Ended \cup {"none"} => state'[t] = state[t]
      /\ \A t \in Scopes : state'[t] = "none" => state[t] = "none"
      /\ \A t \in Scopes : t \in Current /\ ~down => state'[t] = state[t]
  BY <1>2
<1>. QED BY <1>1, <1>2, <1>3, <1>4, <1>5, <1>6, DisposeKeeps

\* BeginDispose
LEMMA BeginDisposeKeeps ==
  ASSUME ScopesInv, NEW o \in Callers \cup Scopes, NEW s \in Scopes, BeginDispose(o, s)
  PROVE  ScopesInv'
<1>1. /\ Wants(o, s) /\ disposal[s].step = "idle" /\ state[s] \notin Ended
      /\ state' = Quiesced(state, s) /\ routing' = [routing EXCEPT ![s] = FALSE]
      /\ DisposalStep(s, [step |-> "drain", by |-> o, kids |-> {}]) /\ UNCHANGED late
  BY DEF BeginDispose
<1>2. /\ ~Loose(s) /\ state[s] # "none" /\ (s \notin Current \/ down)
      /\ o \in Scopes => s # App /\ (s \in Projects => down)
  BY <1>1, Wanted
<1>3. PICK d : d = [step |-> "drain", by |-> o, kids |-> {}]
  OBVIOUS
<1>4. d \in Disposals /\ d.step = "drain" /\ d.by = o /\ d.kids = {}
  BY <1>3 DEF Disposals
<1>5. PICK st : st = IF state[s] \in {"ready", "active"} THEN "quiescing" ELSE state[s]
  OBVIOUS
<1>6. st \in {"quiescing", "disposing"} /\ state' = [state EXCEPT ![s] = st] /\ (state[s] = "quiescing" => st = "quiescing")
  BY <1>1, <1>2, <1>5, Given DEF Quiesced, States
<1>7. st \in States \ {"none"} /\ st \notin Ended
  BY <1>6 DEF States, Ended
<1>8. late' = [late EXCEPT ![s] = late[s]] /\ late[s] \in BOOLEAN
  BY <1>1, Given
<1>9. \A k \in Unreached(s) : k \in children[s]
  BY <1>1 DEF Unreached
<1>10. DisposalStep(s, d)
  BY <1>1, <1>3
<1>11. Moves(s, d, st, late[s])
  BY <1>1, <1>2, <1>4, <1>5, <1>6, <1>7, <1>8, <1>9, <1>10 DEF Moves
<1>. QED BY <1>4, <1>7, <1>8, <1>11, OneDisposal

\* A scope under disposal is not loose, closed, and not ended.
LEMMA UnderWay ==
  ASSUME ScopesInv, NEW s \in Scopes, disposal[s].step # "idle"
  PROVE  /\ ~Loose(s) /\ state[s] \notin Ended \cup {"none"} /\ ~routing[s] /\ (s \notin Current \/ down)
         /\ routing = [routing EXCEPT ![s] = FALSE] /\ disposal[s] \in Disposals /\ DisposalOK(s)
         /\ children[s] \in SUBSET Candidates
<1>1. ~Loose(s)
  BY IdleParts DEF Loose
<1>2. state[s] \in {"quiescing", "disposing"} /\ ~routing[s] /\ (s \notin Current \/ down)
  BY Given DEF DisposalOK
<1>. QED BY <1>1, <1>2, Given DEF Ended

\* Drained and DrainTimesOut
LEMMA DrainKeeps ==
  ASSUME ScopesInv, NEW s \in Scopes, Drained(s) \/ DrainTimesOut(s)
  PROVE  ScopesInv'
<1>1. /\ disposal[s].step = "drain" /\ state' = [state EXCEPT ![s] = "disposing"] /\ UNCHANGED routing
      /\ DisposalStep(s, [disposal[s] EXCEPT !.step = "children", !.kids = children[s]])
  BY DEF Drained, DrainTimesOut
<1>2. /\ ~Loose(s) /\ state[s] \notin Ended \cup {"none"} /\ (s \notin Current \/ down)
      /\ routing' = [routing EXCEPT ![s] = FALSE] /\ disposal[s] \in Disposals /\ DisposalOK(s)
      /\ children[s] \in SUBSET Candidates
  BY <1>1, UnderWay
<1>3. PICK d : d = [disposal[s] EXCEPT !.step = "children", !.kids = children[s]]
  OBVIOUS
<1>4. d \in Disposals /\ d.step = "children" /\ d.by = disposal[s].by /\ d.kids = children[s] /\ DisposalStep(s, d)
  BY <1>1, <1>2, <1>3, DisposalParts
<1>5. d.by \in Scopes => s # App /\ (s \in Projects => down)
  BY <1>2, <1>4 DEF DisposalOK
<1>6. \A k \in Unreached(s) : k \in d.kids
  BY <1>1, <1>2, <1>4 DEF Unreached
<1>7. \A c \in Clients : lease[c].step \in {"granted", "task"} /\ lease[c].scope = s => Holders(s) # {}
  BY DEF Holders
<1>8. "disposing" \in States \ {"none"} /\ "disposing" \notin Ended /\ d.kids \subseteq children[s]
  BY <1>4 DEF States, Ended
<1>9. CASE Drained(s)
  <2>1. late' = [late EXCEPT ![s] = late[s]] /\ late[s] \in BOOLEAN /\ Holders(s) = {}
    BY <1>9, Given DEF Drained
  <2>2. \A c \in Clients : ~(lease[c].step \in {"granted", "task"} /\ lease[c].scope = s)
    BY <1>7, <2>1
  <2>3. late' = [late EXCEPT ![s] = late[s]] /\ late[s] \in BOOLEAN
    BY <2>1
  <2>4. Moves(s, d, "disposing", late[s])
    BY <1>1, <1>2, <1>4, <1>5, <1>6, <1>8, <2>2, <2>3 DEF Moves
  <2>. QED BY <1>4, <1>8, <2>3, <2>4, OneDisposal
<1>10. CASE DrainTimesOut(s)
  <2>1. late' = [late EXCEPT ![s] = TRUE]
    BY <1>10 DEF DrainTimesOut
  <2>2. Moves(s, d, "disposing", TRUE)
    BY <1>1, <1>2, <1>4, <1>5, <1>6, <1>8, <2>1 DEF Moves
  <2>. QED BY <1>4, <1>8, <2>2, OneDisposal
<1>. QED BY <1>9, <1>10

\* EffectsDisposed
LEMMA EffectsDisposedKeeps ==
  ASSUME ScopesInv, NEW s \in Scopes, EffectsDisposed(s)
  PROVE  ScopesInv'
<1>1. /\ disposal[s].step = "children" /\ disposal[s].kids = {} /\ DisposalStep(s, Idle) /\ UNCHANGED <<routing, late>>
  BY DEF EffectsDisposed
<1>2. PICK st \in Ended : state' = [state EXCEPT ![s] = st]
  BY DEF EffectsDisposed, Ended
<1>3. /\ ~Loose(s) /\ state[s] \notin Ended \cup {"none"} /\ (s \notin Current \/ down)
      /\ routing' = [routing EXCEPT ![s] = FALSE] /\ DisposalOK(s)
  BY <1>1, UnderWay
<1>4. late' = [late EXCEPT ![s] = late[s]] /\ late[s] \in BOOLEAN
  BY <1>1, Given
<1>5. st \in States \ {"none"} /\ state[s] = "disposing" /\ Unreached(s) = {}
  BY <1>1, <1>2, <1>3 DEF States, Ended, DisposalOK, Unreached
<1>6. Moves(s, Idle, st, late[s])
  BY <1>1, <1>2, <1>3, <1>4, <1>5, IdleParts, Apart DEF Moves
<1>. QED BY <1>4, <1>5, <1>6, IdleParts, OneDisposal

\* ChildReports
LEMMA ChildReportsKeeps ==
  ASSUME ScopesInv, NEW s \in Scopes, NEW k \in Candidates, ChildReports(s, k)
  PROVE  ScopesInv'
<1>1. /\ disposal[s].step = "children" /\ k \in disposal[s].kids /\ state[k] \in Ended
      /\ late' = [late EXCEPT ![s] = late[s] \/ state[k] = "failed"]
      /\ DisposalStep(s, [disposal[s] EXCEPT !.kids = disposal[s].kids \ {k}]) /\ UNCHANGED <<state, routing>>
  BY DEF ChildReports
<1>2. /\ ~Loose(s) /\ state[s] \notin Ended \cup {"none"} /\ (s \notin Current \/ down)
      /\ routing' = [routing EXCEPT ![s] = FALSE] /\ disposal[s] \in Disposals /\ DisposalOK(s)
  BY <1>1, UnderWay
<1>3. PICK d : d = [disposal[s] EXCEPT !.kids = disposal[s].kids \ {k}]
  OBVIOUS
<1>4. disposal[s].kids \ {k} \in SUBSET Candidates
  BY <1>2 DEF Disposals
<1>5. d \in Disposals /\ d.step = "children" /\ d.by = disposal[s].by /\ d.kids = disposal[s].kids \ {k} /\ DisposalStep(s, d)
  BY <1>1, <1>2, <1>3, <1>4, DisposalParts
<1>6. state' = [state EXCEPT ![s] = state[s]] /\ state[s] = "disposing" /\ state[s] \in States \ {"none"}
  BY <1>1, <1>2, Given DEF DisposalOK
<1>7. \A x \in Unreached(s) : x \in d.kids \/ (x # s /\ state[x] \in Ended)
  BY <1>1, <1>2, <1>5 DEF Unreached
<1>8. PICK lt \in BOOLEAN : late' = [late EXCEPT ![s] = lt] /\ (late[s] => lt)
  BY <1>1, Given
<1>9. Moves(s, d, state[s], lt)
  BY <1>1, <1>2, <1>5, <1>6, <1>7, <1>8 DEF Moves, DisposalOK
<1>. QED BY <1>5, <1>6, <1>8, <1>9, OneDisposal

\* ChildTimesOut: the child, its children and the disposals under it are late.
LEMMA ChildTimesOutKeeps ==
  ASSUME ScopesInv, NEW s \in Scopes, NEW k \in Candidates, ChildTimesOut(s, k)
  PROVE  ScopesInv'
<1>1. /\ disposal[s].step = "children" /\ k \in disposal[s].kids /\ state[k] \notin Ended
      /\ disposal[k].step = "idle" => disposal[s].by \in Scopes /\ late[s]
      /\ UNCHANGED <<state, routing, children, lease, id, slot, gate, call, down>>
  BY DEF ChildTimesOut, manager
<1>2. PICK dropped : /\ dropped = IF disposal[k].by = s THEN Within(k) ELSE {}
                     /\ disposal' = [t \in Scopes |-> IF t = s THEN [disposal[s] EXCEPT !.kids = disposal[s].kids \ {k}]
                                           ELSE IF t \in dropped THEN Idle ELSE disposal[t]]
                     /\ late' = [t \in Scopes |-> late[t] \/ t \in {s, k} \cup dropped \cup children[k]]
  BY DEF ChildTimesOut
<1>3. /\ ~Loose(s) /\ state[s] \notin Ended \cup {"none"} /\ (s \notin Current \/ down)
      /\ ~routing[s] /\ disposal[s] \in Disposals /\ DisposalOK(s)
  BY <1>1, UnderWay
<1>4. PICK d : d = [disposal[s] EXCEPT !.kids = disposal[s].kids \ {k}]
  OBVIOUS
<1>5. disposal[s].kids \ {k} \in SUBSET Candidates
  BY <1>3 DEF Disposals
<1>6. d \in Disposals /\ d.step = "children" /\ d.by = disposal[s].by /\ d.kids = disposal[s].kids \ {k}
  BY <1>1, <1>3, <1>4, <1>5, DisposalParts
<1>7. k \in Scopes /\ k \in children[s] /\ dropped \subseteq Scopes /\ k # s
  <2>1. k \in children[s] /\ k \in Scopes
    BY <1>1, <1>3, Apart DEF DisposalOK
  <2>2. k # s
    BY <2>1, Parts, Apart DEF TreeInv
  <2>. QED BY <1>2, <2>1, <2>2, Apart DEF Within
<1>8. /\ disposal' \in [Scopes -> Disposals] /\ late' \in [Scopes -> BOOLEAN]
      /\ disposal'[s] = d /\ \A t \in Scopes : t # s => (disposal'[t] = Idle /\ t \in dropped) \/ disposal'[t] = disposal[t]
  BY <1>2, <1>4, <1>6, IdleParts, Given
<1>9. \A t \in Scopes : disposal[t].by = k => ~Loose(t)
  BY <1>7, IdleParts, Apart DEF Loose
<1>10. /\ ~Loose(k) /\ \A t \in Scopes : Loose(t) => disposal'[t] = disposal[t]
  <2>1. ~Loose(k)
    BY <1>7 DEF Loose
  <2>. QED BY <1>2, <1>3, <1>8, <1>9, <2>1 DEF Within
<1>11. ASSUME NEW t \in Scopes PROVE DisposalOK(t)'
  <2>1. DisposalOK(t)
    BY Given
  <2>2. CASE t = s
    BY <1>1, <1>3, <1>6, <1>8, <2>2 DEF DisposalOK, Current
  <2>3. CASE disposal'[t] = Idle
    BY <2>3, IdleParts, Apart DEF DisposalOK
  <2>4. CASE disposal'[t] = disposal[t]
    BY <1>1, <2>1, <2>4 DEF DisposalOK, Current
  <2>. QED BY <1>8, <2>2, <2>3, <2>4
<1>12. /\ late'[k] /\ \A t \in Scopes : late[t] => late'[t]
       /\ \A y \in children[k] : late'[y]
  BY <1>2, <1>7, Given, Apart
<1>13. ASSUME NEW x \in Scopes, NEW y \in Unreached(x)
       PROVE  \/ y \in After(x)
              \/ /\ state'[y] \in Ended \/ late'[y]
                 /\ \A z \in Unreached(y) : late'[z]
                 /\ x \in Projects /\ ~down => ~routing'[y]
  <2>1. CASE x = s /\ y # k
    BY <1>1, <1>3, <1>6, <1>8, <1>13, <2>1 DEF After, Unreached
  <2>2. CASE x = s /\ y = k
    <3>1. Unreached(k) \subseteq children[k]
      BY <1>7, Given DEF Unreached, DisposalOK
    <3>2. ASSUME s \in Projects, ~down PROVE ~routing[k]
      <4>1. disposal[k].step # "idle"
        BY <1>1, <1>3, <3>2 DEF DisposalOK
      <4>. QED BY <1>7, <4>1, Given DEF DisposalOK
    <3>. QED BY <1>1, <1>12, <2>2, <3>1, <3>2
  <2>3. CASE x # s /\ disposal'[x] = disposal[x]
    BY <1>1, <1>13, <2>3 DEF After, Unreached
  <2>4. CASE x # s /\ disposal'[x] = Idle
    <3>1. y \in children[x] /\ state[x] \notin Ended
      BY <1>13, Given DEF Unreached, DisposalOK
    <3>. QED BY <1>1, <2>4, <3>1, IdleParts DEF After
  <2>. QED BY <1>8, <2>1, <2>2, <2>3, <2>4
<1>. QED BY <1>1, <1>8, <1>10, <1>11, <1>12, <1>13, Given, DisposeKeeps

\* Every step of a disposal keeps the invariant.
LEMMA DisposeNextKeeps ==
  ASSUME ScopesInv, DisposeNext
  PROVE  ScopesInv'
BY BeginDisposeKeeps, DrainKeeps, EffectsDisposedKeeps, ChildReportsKeeps, ChildTimesOutKeeps DEF DisposeNext

-----------------------------------------------------------------------------
(* Calls that only change what a caller is to dispose *)

\* The queues the code builds, and what is left of one.
LEMMA Queues ==
  /\ Elems(<<>>) = {} /\ \A a : Elems(<<a>>) = {a} /\ \A b : Elems(<<a, b>>) = {a, b}
  /\ \A q \in Seq(Scopes) : q # <<>> => /\ Tail(q) \in Seq(Scopes) /\ Head(q) \in Scopes
                                        /\ Elems(q) = {Head(q)} \cup Elems(Tail(q))
  /\ \A q \in Seq(Scopes) : Elems(q) \subseteq Scopes
<1>1. Elems(<<>>) = {}
  BY DEF Elems
<1>2. ASSUME NEW a PROVE Elems(<<a>>) = {a}
  BY DEF Elems
<1>3. ASSUME NEW a, NEW b PROVE Elems(<<a, b>>) = {a, b}
  <2>1. Len(<<a, b>>) = 2 /\ <<a, b>>[1] = a /\ <<a, b>>[2] = b /\ 1..2 = {1, 2}
    OBVIOUS
  <2>. QED BY <2>1 DEF Elems
<1>4. ASSUME NEW q \in Seq(Scopes), q # <<>>
      PROVE  /\ Tail(q) \in Seq(Scopes) /\ Head(q) \in Scopes
             /\ Elems(q) = {Head(q)} \cup Elems(Tail(q))
  <2>1. /\ Len(q) \in Nat /\ Len(q) > 0 /\ Len(Tail(q)) = Len(q) - 1 /\ Head(q) = q[1] /\ Tail(q) \in Seq(Scopes)
        /\ \A i \in 1..Len(Tail(q)) : Tail(q)[i] = q[i + 1]
    BY <1>4
  <2>2. q[1] \in Scopes
    BY <1>4, <2>1
  <2>3. ASSUME NEW x \in Elems(q) PROVE x \in {Head(q)} \cup Elems(Tail(q))
    <3>1. PICK i \in 1..Len(q) : x = q[i]
      BY <2>3 DEF Elems
    <3>2. CASE i = 1
      BY <2>1, <3>1, <3>2
    <3>3. CASE i # 1
      <4>1. i - 1 \in 1..Len(Tail(q)) /\ (i - 1) + 1 = i
        BY <2>1, <3>1, <3>3
      <4>2. Tail(q)[i - 1] = x
        BY <2>1, <3>1, <4>1
      <4>. QED BY <4>1, <4>2 DEF Elems
    <3>. QED BY <3>2, <3>3
  <2>4. ASSUME NEW x \in Elems(Tail(q)) PROVE x \in Elems(q)
    <3>1. PICK i \in 1..Len(Tail(q)) : x = Tail(q)[i]
      BY <2>4 DEF Elems
    <3>2. i + 1 \in 1..Len(q) /\ x = q[i + 1]
      BY <2>1, <3>1
    <3>. QED BY <3>2 DEF Elems
  <2>5. Head(q) \in Elems(q)
    BY <2>1 DEF Elems
  <2>. QED BY <2>1, <2>2, <2>3, <2>4, <2>5
<1>5. ASSUME NEW q \in Seq(Scopes) PROVE Elems(q) \subseteq Scopes
  BY DEF Elems
<1>. QED BY <1>1, <1>2, <1>3, <1>4, <1>5

\* What callers have built and are to dispose are scopes.
LEMMA Held ==
  ASSUME ScopesInv
  PROVE  /\ call \in [Callers -> CallRecords] /\ slot \in Slots /\ gate \in Callers \cup {None} /\ down \in BOOLEAN
         /\ id \in [Candidates -> Roots \cup {None}] /\ lease \in [Clients -> Leases]
         /\ \A c \in Callers : /\ Mine(c) \subseteq Candidates /\ CallerOK(c) /\ call[c] \in CallRecords
                               /\ \A s : InQueue(s, c) => s \in Scopes
         /\ Current \subseteq Scopes \cup {None} /\ App \in Current
<1>1. call \in [Callers -> CallRecords] /\ slot \in Slots /\ gate \in Callers \cup {None} /\ down \in BOOLEAN
  BY Parts, TypeParts
<1>2. id \in [Candidates -> Roots \cup {None}] /\ lease \in [Clients -> Leases]
  BY Parts, TypeParts
<1>3. ASSUME NEW c \in Callers
      PROVE  /\ Mine(c) \subseteq Candidates /\ CallerOK(c) /\ call[c] \in CallRecords
             /\ \A s : InQueue(s, c) => s \in Scopes
  <2>1. call[c] \in CallRecords /\ CallerOK(c)
    BY <1>1, Parts
  <2>2. Mine(c) \subseteq Candidates
    BY <2>1, Apart DEF Mine, CallRecords
  <2>3. call[c].queue \in Seq(Scopes)
    BY <2>1 DEF CallRecords
  <2>. QED BY <2>1, <2>2, <2>3, Queues DEF InQueue
<1>4. Current \subseteq Scopes \cup {None} /\ App \in Current
  BY <1>1, Apart DEF Current, Slots
<1>. QED BY <1>1, <1>2, <1>3, <1>4

\* A call that hands what it has over to its queue, or that takes from its queue
\* what has ended.
LEMMA CallKeeps ==
  ASSUME ScopesInv, NEW c \in Callers, NEW n \in CallRecords, call' = [call EXCEPT ![c] = n],
         UNCHANGED <<state, routing, id, children, slot, disposal, late, lease>>,
         gate' \in Callers \cup {None}, down' \in BOOLEAN, down => down',
         n.kind \in {"none", "dispose"}, n.p = None, n.w = None, n.kind = "dispose" <=> n.queue # <<>>,
         \A s \in Elems(n.queue) : InQueue(s, c) \/ s \in Mine(c) \/ (s = App /\ down'),
         \A s \in Scopes : s \in Mine(c) \/ InQueue(s, c) => s \in Elems(n.queue) \/ state[s] \in Ended,
         down' /\ ~down => App \in Elems(n.queue) /\ \A d \in Callers : call[d].kind = "none"
  PROVE  ScopesInv'
<1>1. /\ call' \in [Callers -> CallRecords] /\ call'[c] = n /\ \A d \in Callers : d # c => call'[d] = call[d]
  BY Held
<1>2. /\ Mine(c)' = {} /\ \A s : InQueue(s, c)' <=> s \in Elems(n.queue)
      /\ \A d \in Callers : d # c => Mine(d)' = Mine(d) /\ \A s : InQueue(s, d)' <=> InQueue(s, d)
  BY <1>1 DEF Mine, InQueue
<1>3. TypeOK'
  BY <1>1, Parts, TypeParts DEF TypeOK, CallRecords
<1>4. TreeInv'
  BY Parts DEF TreeInv
<1>5. ASSUME NEW s \in Scopes, Loose(s), s \notin Mine(c) PROVE Loose(s)'
  <2>1. ~InQueue(s, c) /\ s # App
    BY <1>5, Held DEF Loose
  <2>2. s \notin Elems(n.queue)
    BY <1>5, <2>1
  <2>3. \A d \in Callers : ~InQueue(s, d)'
    BY <1>2, <1>5, <2>2 DEF Loose
  <2>. QED BY <1>5, <2>3 DEF Loose, Current
<1>6. ASSUME NEW d \in Callers PROVE CallerOK(d)'
  <2>1. CallerOK(d) /\ CallerOK(c) /\ Mine(d) \subseteq Scopes
    BY Held, Apart
  <2>2. CASE d = c
    <3>1. ASSUME NEW s \in Scopes, InQueue(s, c)' PROVE s \notin Current' \/ down'
      <4>1. InQueue(s, c) \/ s \in Mine(c) \/ down'
        BY <1>2, <3>1
      <4>2. s \in Mine(c) => s \notin Current
        BY <2>1 DEF CallerOK, Loose
      <4>3. InQueue(s, c) => s \notin Current \/ down
        BY <2>1 DEF CallerOK
      <4>. QED BY <4>1, <4>2, <4>3 DEF Current
    <3>. QED BY <1>1, <1>2, <2>2, <3>1 DEF CallerOK
  <2>3. CASE d # c
    <3>1. ASSUME NEW s \in Mine(d) PROVE state'[s] = "ready" /\ Loose(s)' /\ \A e \in Callers \ {d} : s \notin Mine(e)'
      <4>1. state[s] = "ready" /\ Loose(s) /\ \A e \in Callers \ {d} : s \notin Mine(e)
        BY <2>1 DEF CallerOK
      <4>2. Loose(s)'
        BY <1>5, <2>1, <2>3, <4>1
      <4>. QED BY <1>2, <4>1, <4>2
    <3>2. down' => call[d].kind \in {"none", "dispose"}
      BY <2>1 DEF CallerOK
    <3>3. \A s \in Scopes : InQueue(s, d)' => s \notin Current' \/ down'
      BY <1>2, <2>1, <2>3 DEF CallerOK, Current
    <3>. QED BY <1>1, <1>2, <2>1, <2>3, <3>1, <3>2, <3>3 DEF CallerOK
  <2>. QED BY <2>2, <2>3
<1>7. ASSUME NEW s \in Scopes PROVE ScopeOK(s)'
  <2>1. ScopeOK(s)
    BY Parts
  <2>2. state'[s] = "none" => Loose(s)' /\ \A d \in Callers : s \notin Mine(d)'
    BY <1>2, <1>5, <2>1 DEF ScopeOK
  <2>. QED BY <2>1, <2>2 DEF ScopeOK, Current
<1>8. ASSUME NEW s \in Scopes, Direct(s), state[s] \notin Ended, down' = down PROVE Direct(s)'
  <2>1. CASE s \in Current /\ ~down
    BY <1>8, <2>1 DEF Direct, Current
  <2>2. ASSUME NEW d \in Callers, s \in Mine(d) \/ InQueue(s, d) PROVE Direct(s)'
    <3>1. s \in Mine(d)' \/ InQueue(s, d)'
      BY <1>2, <1>8, <2>2
    <3>. QED BY <3>1 DEF Direct
  <2>. QED BY <1>8, <2>1, <2>2 DEF Direct
<1>9. \A x : Unreached(x)' = Unreached(x)
  BY DEF Unreached
<1>10. OwedInv'
  <2>1. ASSUME NEW s \in Scopes, state[s] \notin Ended \cup {"none"}, ~late[s] PROVE Owed(s)'
    <3>1. Owed(s)
      BY <2>1, Parts DEF OwedInv
    <3>2. CASE down' = down
      <4>1. CASE Direct(s)
        BY <1>8, <2>1, <3>2, <4>1 DEF Owed
      <4>2. ASSUME NEW x \in Scopes, s \in Unreached(x), Direct(x) \/ (Direct(App) /\ x \in Unreached(App))
            PROVE  Owed(s)'
        <5>1. state[x] \notin Ended /\ (x \in Unreached(App) => state[App] \notin Ended)
          BY <4>2 DEF Unreached
        <5>2. Direct(x)' \/ (Direct(App)' /\ x \in Unreached(App)')
          BY <1>8, <1>9, <3>2, <4>2, <5>1, Apart
        <5>3. s \in Unreached(x)'
          BY <1>9, <4>2
        <5>. QED BY <4>2, <5>2, <5>3 DEF Owed
      <4>. QED BY <3>1, <4>1, <4>2 DEF Owed
    <3>3. CASE down' # down
      <4>1. down' /\ ~down /\ InQueue(App, c)' /\ \A d \in Callers : call[d].kind = "none"
        BY <1>2, <3>3, Held
      <4>2. \A d \in Callers : Mine(d) = {} /\ ~InQueue(s, d) /\ \A x : ~InQueue(x, d)
        BY <4>1, Held, Queues DEF CallerOK, Mine, InQueue
      <4>3. Direct(App)' /\ \A x \in Scopes : Direct(x) => x \in Current
        BY <4>1, <4>2 DEF Direct
      <4>4. \A x \in Scopes \cap Current : state[x] = "active" /\ disposal[x].step = "idle" /\ Unreached(x) = children[x]
        BY <4>1, Given DEF ScopeOK, Unreached, Ended
      <4>5. /\ \A x \in Scopes \cap Current : children[x] \subseteq Current
            /\ slot.project # None => slot.project \in children[App]
            /\ slot.workspace # None => slot.project # None /\ slot.workspace \in children[slot.project]
        <5>1. TreeInv /\ slot \in Slots
          BY Parts, Held
        <5>. QED BY <5>1, Apart DEF TreeInv, Current, Slots
      <4>6. s \in Current
        BY <3>1, <4>3, <4>4, <4>5, Apart, Held DEF Owed
      <4>7. CASE s = App
        BY <4>3, <4>7 DEF Owed
      <4>8. CASE s = slot.project
        <5>1. s \in Unreached(App)'
          BY <1>9, <2>1, <4>4, <4>5, <4>8, Apart, Held
        <5>. QED BY <4>3, <5>1, Apart DEF Owed
      <4>9. CASE s = slot.workspace
        <5>1. slot.project \in Scopes /\ slot.project \in children[App] /\ s \in children[slot.project]
          BY <2>1, <4>5, <4>9, Apart, Held DEF Slots
        <5>2. slot.project \in Current
          BY DEF Current
        <5>3. s \in Unreached(slot.project)' /\ slot.project \in Unreached(App)'
          <6>1. PICK y : y = slot.project
            OBVIOUS
          <6>2. Unreached(y) = children[y] /\ Unreached(App) = children[App] /\ Unreached(y)' = Unreached(y) /\ Unreached(App)' = Unreached(App)
            BY <1>9, <4>4, <5>1, <5>2, <6>1, Apart, Held
          <6>3. s \in Unreached(y)' /\ y \in Unreached(App)'
            BY <5>1, <6>1, <6>2
          <6>. QED BY <6>1, <6>3 DEF Unreached
        <5>. QED BY <4>3, <5>1, <5>3, Apart DEF Owed
      <4>. QED BY <4>6, <4>7, <4>8, <4>9 DEF Current
    <3>. QED BY <3>2, <3>3
  <2>. QED BY <2>1 DEF OwedInv
<1>11. RoutedInv'
  <2>1. ASSUME NEW s \in Scopes, routing[s], ~down'
        PROVE  s \in Current' \/ \E x \in Projects : s \in Unreached(x)' /\ \E d \in Callers : InQueue(x, d)'
    <3>1. s \in Current \/ \E x \in Projects : s \in Unreached(x) /\ \E d \in Callers : InQueue(x, d)
      BY <2>1, Parts DEF RoutedInv
    <3>2. CASE s \in Current
      BY <3>2 DEF Current
    <3>3. ASSUME NEW x \in Projects, s \in Unreached(x), NEW d \in Callers, InQueue(x, d)
          PROVE  s \in Unreached(x)' /\ InQueue(x, d)'
      <4>1. state[x] \notin Ended /\ s \in Unreached(x)'
        BY <1>9, <3>3 DEF Unreached
      <4>. QED BY <1>2, <3>3, <4>1, Apart
    <3>. QED BY <3>1, <3>2, <3>3
  <2>. QED BY <2>1 DEF RoutedInv
<1>12. ASSUME NEW d \in Clients PROVE ClientOK(d)'
  BY Parts DEF ClientOK
<1>. QED BY <1>3, <1>4, <1>6, <1>7, <1>10, <1>11, <1>12 DEF ScopesInv

-----------------------------------------------------------------------------
(* Candidates *)

\* The call n of c has what c has built, and s, for itself or in its queue.
Takes(c, s, n) ==
    /\ down => n.kind \in {"none", "dispose"}
    /\ n.kind = "switch" <=> n.p # None
    /\ n.kind = "workspace" => n.w # None
    /\ n.w # None => n.kind \in {"switch", "workspace"}
    /\ n.kind = "dispose" <=> n.queue # <<>>
    /\ ({n.p, n.w} \ {None}) \cap Elems(n.queue) = {}
    /\ ({n.p, n.w} \ {None}) \cup Elems(n.queue) = Mine(c) \cup {s}

\* A call that builds s and keeps what it has, with s, for itself or for its queue.
LEMMA BuildKeeps ==
  ASSUME ScopesInv, NEW c \in Callers, NEW n \in CallRecords, call' = [call EXCEPT ![c] = n],
         NEW s \in Candidates, state[s] = "none", state' = [state EXCEPT ![s] = "ready"],
         id' \in [Candidates -> Roots \cup {None}],
         UNCHANGED <<routing, children, slot, gate, down, disposal, late, lease>>,
         call[c].queue = <<>>, Takes(c, s, n)
  PROVE  ScopesInv'
<1>. PICK M : /\ M = {n.p, n.w} \ {None} /\ M \cap Elems(n.queue) = {}
              /\ M \cup Elems(n.queue) = Mine(c) \cup {s}
  BY DEF Takes
<1>1. /\ call' \in [Callers -> CallRecords] /\ call'[c] = n /\ \A d \in Callers : d # c => call'[d] = call[d]
  BY Held
<1>2. /\ Mine(c)' = M /\ \A t : InQueue(t, c)' <=> t \in Elems(n.queue)
      /\ \A d \in Callers : d # c => Mine(d)' = Mine(d) /\ \A t : InQueue(t, d)' <=> InQueue(t, d)
      /\ \A t : ~InQueue(t, c)
  BY <1>1, Queues DEF Mine, InQueue
<1>3. /\ s \in Scopes /\ s # App /\ Loose(s) /\ \A d \in Callers : s \notin Mine(d)
  BY Parts, Apart DEF ScopeOK
<1>4. /\ state' \in [Scopes -> States] /\ state'[s] = "ready" /\ \A t \in Scopes : t # s => state'[t] = state[t]
  BY <1>3, Given DEF States
<1>5. TypeOK'
  BY <1>1, <1>4, Parts, TypeParts DEF TypeOK, CallRecords
<1>6. TreeInv'
  BY Parts DEF TreeInv
<1>7. ASSUME NEW t \in Scopes, Loose(t), t \notin Elems(n.queue) PROVE Loose(t)'
  <2>1. \A d \in Callers : ~InQueue(t, d)'
    BY <1>2, <1>7 DEF Loose
  <2>. QED BY <1>7, <2>1 DEF Loose, Current
<1>8. \A t \in Mine(c) : state[t] = "ready" /\ Loose(t) /\ \A d \in Callers \ {c} : t \notin Mine(d)
  BY Held DEF CallerOK
<1>9. ASSUME NEW d \in Callers PROVE CallerOK(d)'
  <2>1. CallerOK(d) /\ Mine(d) \subseteq Scopes /\ Mine(c) \subseteq Scopes
    BY Held, Apart
  <2>2. CASE d = c
    <3>1. ASSUME NEW t \in M PROVE state'[t] = "ready" /\ Loose(t)' /\ \A e \in Callers \ {c} : t \notin Mine(e)'
      <4>1. t \in Scopes /\ Loose(t) /\ t \notin Elems(n.queue) /\ state'[t] = "ready"
        BY <1>3, <1>4, <1>8, <2>1, <3>1
      <4>2. \A e \in Callers \ {c} : t \notin Mine(e)
        BY <1>3, <1>8, <3>1
      <4>. QED BY <1>2, <1>7, <4>1, <4>2
    <3>2. ASSUME NEW t \in Scopes, InQueue(t, c)' PROVE t \notin Current'
      <4>1. Loose(t)
        BY <1>2, <1>3, <1>8, <3>2
      <4>. QED BY <4>1 DEF Loose, Current
    <3>. QED BY <1>1, <1>2, <2>2, <3>1, <3>2 DEF CallerOK, Takes
  <2>3. CASE d # c
    <3>1. ASSUME NEW t \in Mine(d) PROVE state'[t] = "ready" /\ Loose(t)' /\ \A e \in Callers \ {d} : t \notin Mine(e)'
      <4>1. /\ t \in Scopes /\ state[t] = "ready" /\ Loose(t) /\ \A e \in Callers \ {d} : t \notin Mine(e)
            /\ t # s /\ t \notin Mine(c)
        BY <1>3, <2>1, <2>3 DEF CallerOK
      <4>2. t \notin Elems(n.queue) /\ t \notin M
        BY <4>1
      <4>3. ASSUME NEW e \in Callers \ {d} PROVE t \notin Mine(e)'
        <5>1. CASE e = c
          BY <1>2, <4>2, <5>1
        <5>2. CASE e # c
          BY <1>2, <4>1, <5>2
        <5>. QED BY <5>1, <5>2
      <4>. QED BY <1>4, <1>7, <4>1, <4>2, <4>3
    <3>2. \A t \in Scopes : InQueue(t, d)' => t \notin Current' \/ down'
      BY <1>2, <2>1, <2>3 DEF CallerOK, Current
    <3>. QED BY <1>1, <1>2, <2>1, <2>3, <3>1, <3>2 DEF CallerOK
  <2>. QED BY <2>2, <2>3
<1>10. ASSUME NEW t \in Scopes PROVE ScopeOK(t)'
  <2>1. ScopeOK(t)
    BY Parts
  <2>2. CASE t = s
    <3>1. disposal[s] = Idle /\ ~routing[s] /\ s \notin Current
      BY <1>3 DEF Loose
    <3>. QED BY <1>4, <2>2, <3>1, IdleParts, Apart DEF ScopeOK, Current
  <2>3. CASE t # s
    <3>1. ASSUME state'[t] = "none" PROVE Loose(t)' /\ \A d \in Callers : t \notin Mine(d)'
      <4>1. Loose(t) /\ \A d \in Callers : t \notin Mine(d)
        BY <1>4, <2>1, <2>3, <3>1 DEF ScopeOK
      <4>2. t \notin M /\ t \notin Elems(n.queue)
        BY <2>3, <4>1
      <4>3. \A d \in Callers : t \notin Mine(d)'
        BY <1>2, <4>1, <4>2
      <4>. QED BY <1>7, <4>1, <4>2, <4>3
    <3>. QED BY <1>4, <2>1, <2>3, <3>1 DEF ScopeOK, Current
  <2>. QED BY <2>2, <2>3
<1>11. ASSUME NEW t \in Scopes, Direct(t) PROVE Direct(t)'
  <2>1. CASE t \in Current /\ ~down
    BY <2>1 DEF Direct, Current
  <2>2. ASSUME NEW d \in Callers, t \in Mine(d) \/ InQueue(t, d) PROVE Direct(t)'
    <3>1. t \in Mine(d)' \/ InQueue(t, d)'
      BY <1>2, <2>2
    <3>. QED BY <3>1 DEF Direct
  <2>. QED BY <1>11, <2>1, <2>2 DEF Direct
<1>12. ASSUME NEW x \in Scopes PROVE Unreached(x)' = Unreached(x)
  <2>1. CASE x = s
    <3>1. children[s] = {} /\ disposal[s].step = "idle"
      BY <1>3, IdleParts DEF Loose
    <3>. QED BY <1>4, <2>1, <3>1 DEF Unreached
  <2>2. CASE x # s
    BY <1>4, <2>2 DEF Unreached
  <2>. QED BY <2>1, <2>2
<1>13. OwedInv'
  <2>1. ASSUME NEW t \in Scopes, state'[t] \notin Ended \cup {"none"}, ~late[t] PROVE Owed(t)'
    <3>1. CASE t = s
      <4>1. s \in Mine(c)' \/ InQueue(s, c)'
        BY <1>2
      <4>. QED BY <3>1, <4>1 DEF Owed, Direct
    <3>2. CASE t # s
      <4>1. Owed(t)
        BY <1>4, <2>1, <3>2, Parts DEF OwedInv
      <4>2. CASE Direct(t)
        BY <1>11, <4>2 DEF Owed
      <4>3. ASSUME NEW x \in Scopes, t \in Unreached(x), Direct(x) \/ (Direct(App) /\ x \in Unreached(App))
            PROVE  Owed(t)'
        <5>1. t \in Unreached(x)' /\ (Direct(x)' \/ (Direct(App)' /\ x \in Unreached(App)'))
          BY <1>11, <1>12, <4>3, Apart
        <5>. QED BY <5>1 DEF Owed
      <4>. QED BY <4>1, <4>2, <4>3 DEF Owed
    <3>. QED BY <3>1, <3>2
  <2>. QED BY <2>1 DEF OwedInv
<1>14. RoutedInv'
  <2>1. ASSUME NEW t \in Scopes, routing[t], ~down
        PROVE  t \in Current' \/ \E x \in Projects : t \in Unreached(x)' /\ \E d \in Callers : InQueue(x, d)'
    <3>1. t \in Current \/ \E x \in Projects : t \in Unreached(x) /\ \E d \in Callers : InQueue(x, d)
      BY <2>1, Parts DEF RoutedInv
    <3>2. CASE t \in Current
      BY <3>2 DEF Current
    <3>3. ASSUME NEW x \in Projects, t \in Unreached(x), NEW d \in Callers, InQueue(x, d)
          PROVE  t \in Unreached(x)' /\ InQueue(x, d)'
      BY <1>2, <1>12, <3>3, Apart
    <3>. QED BY <3>1, <3>2, <3>3
  <2>. QED BY <2>1 DEF RoutedInv
<1>15. ASSUME NEW d \in Clients PROVE ClientOK(d)'
  BY <1>4, Parts DEF ClientOK
<1>. QED BY <1>5, <1>6, <1>9, <1>10, <1>13, <1>14, <1>15 DEF ScopesInv

\* What is current after the step, as far as the slots tell
NextCurrent == {App, slot'.project, slot'.workspace}

\* A call publishes `new', which it has built, and takes `prev' out of the tree:
\* what it has and what was current is current, in its queue Q, or a child of a
\* project scope in Q.
Swap(c, new, prev, Q) ==
    /\ new \subseteq Mine(c) /\ new \subseteq NextCurrent
    /\ prev # None => prev \in Current /\ prev # App /\ prev \in Q
    /\ \A t \in Scopes : t \in NextCurrent => t \in new \/ (t \in Current /\ t # prev)
    /\ \A x \in Scopes : children'[x] = children[x] \/ x \in Current \/ x \in Mine(c)
    /\ \A x \in Scopes : \A k \in children'[x] : k \in children[x] \/ k \in Mine(c)
    /\ \A t \in Q : t \in Mine(c) \/ t = prev
    /\ Q \cap NextCurrent = {}
    /\ \A t \in Mine(c) : t \in NextCurrent \/ t \in Q
    /\ \A t \in Scopes : t \in Current =>
          \/ t \in NextCurrent \/ t = prev
          \/ \E x \in Projects : x \in Q /\ t \in After(x)

\* Such a call keeps the invariant.
LEMMA PublishKeeps ==
  ASSUME ScopesInv, NEW c \in Callers, NEW n \in CallRecords, call' = [call EXCEPT ![c] = n],
         ~down, UNCHANGED <<id, down, disposal, late, lease>>, gate' \in Callers \cup {None},
         call[c].queue = <<>>, n.p = None, n.w = None, n.kind \in {"none", "dispose"},
         n.kind = "dispose" <=> n.queue # <<>>,
         NEW new, NEW prev, Activate(new, prev), Swap(c, new, prev, Elems(n.queue)),
         slot' \in Slots, children' \in [Scopes -> SUBSET Candidates], TreeInv'
  PROVE  ScopesInv'
<1>. PICK Q, Cur :
       /\ Q = Elems(n.queue) /\ Cur = {App, slot'.project, slot'.workspace}
       /\ new \subseteq Mine(c) /\ new \subseteq Cur
       /\ prev # None => prev \in Current /\ prev # App /\ prev \in Q
       /\ \A t \in Scopes : t \in Cur => t \in new \/ (t \in Current /\ t # prev)
       /\ \A x \in Scopes : children'[x] = children[x] \/ x \in Current \/ x \in Mine(c)
       /\ \A x \in Scopes : \A k \in children'[x] : k \in children[x] \/ k \in Mine(c)
       /\ \A t \in Q : t \in Mine(c) \/ t = prev
       /\ Q \cap Cur = {}
       /\ \A t \in Mine(c) : t \in Cur \/ t \in Q
       /\ \A t \in Scopes : t \in Current =>
            \/ t \in Cur \/ t = prev
            \/ \E x \in Projects : x \in Q /\ t \in After(x)
  BY DEF Swap, NextCurrent
<1>1. /\ call' \in [Callers -> CallRecords] /\ call'[c] = n /\ \A d \in Callers : d # c => call'[d] = call[d]
  BY Held
<1>2. /\ Mine(c)' = {} /\ \A t : InQueue(t, c)' <=> t \in Q
      /\ \A d \in Callers : d # c => Mine(d)' = Mine(d) /\ \A t : InQueue(t, d)' <=> InQueue(t, d)
      /\ \A t : ~InQueue(t, c)
  BY <1>1, Queues DEF Mine, InQueue
<1>3. Current' = Cur
  BY DEF Current
<1>4. /\ Mine(c) \subseteq Scopes
      /\ \A t \in Mine(c) : state[t] = "ready" /\ Loose(t) /\ \A d \in Callers \ {c} : t \notin Mine(d)
  BY Held, Apart DEF CallerOK
<1>5. prev # None => /\ prev \in Scopes /\ prev \notin Mine(c)
                     /\ state[prev] = "active" /\ disposal[prev].step = "idle"
  <2>1. prev # None => prev \in Scopes
    BY Held
  <2>. QED BY <1>4, <2>1, Parts DEF ScopeOK, Loose
<1>6. /\ state' \in [Scopes -> States]
      /\ \A t \in new : state'[t] = "active"
      /\ prev # None => state'[prev] = "quiescing"
      /\ \A t \in Scopes : t \notin new /\ t # prev => state'[t] = state[t]
  <2>1. state' = [t \in Scopes |-> IF t \in new THEN "active"
                                   ELSE IF t = prev THEN Quiesced(state, t)[t] ELSE state[t]]
    BY DEF Activate
  <2>2. prev # None => Quiesced(state, prev)[prev] = "quiescing" /\ prev \notin new
    BY <1>5, Given DEF Quiesced
  <2>. QED BY <1>4, <1>5, <2>1, <2>2, Given, Apart DEF States
<1>7. /\ routing' \in [Scopes -> BOOLEAN]
      /\ \A t \in Scopes : routing'[t] => t # prev /\ (routing[t] \/ t \in new)
  BY DEF Activate
<1>8. TypeOK'
  BY <1>1, <1>6, <1>7, Parts, TypeParts DEF TypeOK, CallRecords, Slots
<1>9. ASSUME NEW t \in Scopes, Loose(t), t \notin Mine(c) PROVE Loose(t)' /\ state'[t] = state[t]
  <2>1. t \notin Current /\ t # prev /\ t \notin new /\ t \notin Cur /\ t \notin Q
    BY <1>5, <1>9, Apart DEF Loose
  <2>2. \A d \in Callers : ~InQueue(t, d)'
    BY <1>2, <1>9, <2>1 DEF Loose
  <2>3. children'[t] = {} /\ \A x \in Scopes : t \notin children'[x]
    BY <1>9, <2>1 DEF Loose
  <2>. QED BY <1>3, <1>6, <1>7, <1>9, <2>1, <2>2, <2>3 DEF Loose
<1>10. ASSUME NEW d \in Callers PROVE CallerOK(d)'
  <2>1. CallerOK(d) /\ Mine(d) \subseteq Scopes
    BY Held, Apart
  <2>2. CASE d = c
    BY <1>1, <1>2, <1>3, <2>2 DEF CallerOK
  <2>3. CASE d # c
    <3>1. ASSUME NEW t \in Mine(d) PROVE state'[t] = "ready" /\ Loose(t)' /\ \A e \in Callers \ {d} : t \notin Mine(e)'
      <4>1. /\ t \in Scopes /\ state[t] = "ready" /\ Loose(t) /\ \A e \in Callers \ {d} : t \notin Mine(e)
            /\ t \notin Mine(c)
        BY <2>1, <2>3 DEF CallerOK
      <4>. QED BY <1>2, <1>9, <4>1
    <3>2. ASSUME NEW t \in Scopes, InQueue(t, d)' PROVE t \notin Current'
      <4>1. InQueue(t, d) /\ t \notin Current /\ ~Loose(t)
        BY <1>2, <2>1, <2>3, <3>2 DEF CallerOK, Loose
      <4>. QED BY <1>3, <1>4, <4>1
    <3>. QED BY <1>1, <1>2, <2>1, <2>3, <3>1, <3>2 DEF CallerOK
  <2>. QED BY <2>2, <2>3
<1>11. ASSUME NEW t \in Scopes, disposal[t].step # "idle"
       PROVE  /\ t \notin Current /\ t \notin Mine(c) /\ t \notin new /\ t # prev /\ t \notin Cur
              /\ ~routing'[t] /\ state'[t] = state[t] /\ children'[t] = children[t]
  <2>1. t \notin Current /\ ~routing[t] /\ t \notin Mine(c)
    BY <1>4, <1>11, Given, IdleParts DEF DisposalOK, Loose
  <2>2. t \notin new /\ t # prev
    BY <1>5, <2>1, Apart
  <2>. QED BY <1>6, <1>7, <2>1, <2>2
<1>12. ASSUME NEW t \in Scopes PROVE ScopeOK(t)'
  <2>1. ScopeOK(t)
    BY Parts
  <2>2. state'[t] = "none" => Loose(t)' /\ \A d \in Callers : t \notin Mine(d)'
    <3>1. SUFFICES ASSUME state'[t] = "none" PROVE Loose(t)' /\ \A d \in Callers : t \notin Mine(d)'
      OBVIOUS
    <3>2. state[t] = "none"
      BY <1>5, <1>6, <3>1, Apart
    <3>3. Loose(t) /\ \A d \in Callers : t \notin Mine(d)
      BY <2>1, <3>2 DEF ScopeOK
    <3>. QED BY <1>2, <1>9, <3>3
  <2>3. /\ routing'[t] => state'[t] = "active"
        /\ t \in Current' => state'[t] = "active"
    BY <1>3, <1>6, <1>7, <2>1 DEF ScopeOK
  <2>4. CASE disposal[t].step # "idle"
    BY <1>3, <1>11, <2>1, <2>2, <2>3, <2>4 DEF ScopeOK
  <2>5. CASE disposal[t].step = "idle"
    BY <2>1, <2>2, <2>3, <2>5 DEF ScopeOK
  <2>. QED BY <2>4, <2>5
<1>13. \A x \in Scopes : After(x) = Unreached(x)'
  BY DEF After, Unreached
<1>14. ASSUME NEW x \in Scopes, x \notin Current PROVE Unreached(x) \subseteq After(x)
  <2>1. CASE x \in Mine(c)
    <3>1. children[x] = {} /\ disposal[x].step = "idle"
      BY <1>4, <2>1, IdleParts DEF Loose
    <3>. QED BY <3>1 DEF Unreached
  <2>2. CASE x \notin Mine(c)
    BY <1>6, <1>14, <2>2, Apart DEF Unreached, After
  <2>. QED BY <2>1, <2>2
<1>15. ASSUME NEW t \in Scopes, t \in Current PROVE Owed(t)'
  <2>1. CASE t \in Cur
    BY <1>3, <2>1 DEF Owed, Direct
  <2>2. CASE t = prev
    <3>1. InQueue(t, c)'
      BY <1>2, <2>2, Apart
    <3>. QED BY <3>1 DEF Owed, Direct
  <2>3. ASSUME NEW x \in Projects, x \in Q, t \in After(x) PROVE Owed(t)'
    <3>1. InQueue(x, c)' /\ t \in Unreached(x)' /\ x \in Scopes
      BY <1>2, <1>13, <2>3, Apart
    <3>2. Direct(x)'
      BY <3>1 DEF Direct
    <3>. QED BY <3>1, <3>2 DEF Owed
  <2>. QED BY <1>15, <2>1, <2>2, <2>3
<1>16. ASSUME NEW x \in Scopes, x \in Current, NEW k \in Unreached(x) PROVE k \in Current
  <2>1. k \in children[x]
    BY <1>16, Given DEF Unreached, DisposalOK
  <2>2. TreeInv /\ slot \in Slots
    BY Parts, Held
  <2>. QED BY <1>16, <2>1, <2>2, Apart DEF TreeInv, Current, Slots
<1>17. OwedInv'
  <2>1. ASSUME NEW t \in Scopes, state'[t] \notin Ended \cup {"none"}, ~late[t] PROVE Owed(t)'
    <3>1. Owed(t)
      <4>1. state[t] \notin Ended \cup {"none"}
        <5>1. t \in new => state[t] = "ready"
          BY <1>4
        <5>2. t = prev => state[t] = "active"
          BY <1>5, Apart
        <5>. QED BY <1>6, <2>1, <5>1, <5>2 DEF Ended
      <4>. QED BY <2>1, <4>1, Parts DEF OwedInv
    <3>2. ASSUME NEW d \in Callers, t \in Mine(d) \/ InQueue(t, d) PROVE Owed(t)'
      <4>1. CASE d = c
        <5>1. t \in Cur \/ t \in Q
          BY <1>2, <3>2, <4>1
        <5>2. t \in Current' \/ InQueue(t, c)'
          BY <1>2, <1>3, <5>1
        <5>. QED BY <5>2 DEF Owed, Direct
      <4>2. CASE d # c
        <5>1. t \in Mine(d)' \/ InQueue(t, d)'
          BY <1>2, <3>2, <4>2
        <5>. QED BY <5>1 DEF Owed, Direct
      <4>. QED BY <4>1, <4>2
    <3>3. CASE Direct(t)
      BY <1>15, <3>2, <3>3 DEF Direct
    <3>4. ASSUME NEW x \in Scopes, t \in Unreached(x), Direct(x) \/ (Direct(App) /\ x \in Unreached(App)) PROVE Owed(t)'
      <4>1. CASE x \in Current
        BY <1>15, <1>16, <3>4, <4>1
      <4>2. CASE x \notin Current
        <5>1. Direct(x)
          BY <1>16, <3>4, <4>2, Apart, Held
        <5>2. PICK d \in Callers : x \in Mine(d) \/ InQueue(x, d)
          BY <4>2, <5>1 DEF Direct
        <5>3. x \notin Mine(d)
          <6>1. x \in Mine(d) => Unreached(x) = {}
            BY Held, IdleParts DEF CallerOK, Loose, Unreached
          <6>. QED BY <3>4, <6>1
        <5>4. d # c /\ InQueue(x, d)'
          BY <1>2, <5>2, <5>3
        <5>5. t \in Unreached(x)' /\ Direct(x)'
          BY <1>13, <1>14, <3>4, <4>2, <5>4 DEF Direct
        <5>. QED BY <5>5 DEF Owed
      <4>. QED BY <4>1, <4>2
    <3>. QED BY <3>1, <3>3, <3>4 DEF Owed
  <2>. QED BY <2>1 DEF OwedInv
<1>18. RoutedInv'
  <2>1. ASSUME NEW t \in Scopes, routing'[t]
        PROVE  t \in Current' \/ \E x \in Projects : t \in Unreached(x)' /\ \E d \in Callers : InQueue(x, d)'
    <3>1. t # prev /\ (routing[t] \/ t \in new)
      BY <1>7, <2>1
    <3>2. CASE t \in new
      BY <1>3, <3>2
    <3>3. ASSUME NEW x \in Projects, x \in Q, t \in After(x) PROVE t \in Unreached(x)' /\ InQueue(x, c)'
      BY <1>2, <1>13, <3>3, Apart
    <3>4. CASE t \in Current
      BY <1>3, <3>1, <3>3, <3>4
    <3>5. ASSUME NEW x \in Projects, t \in Unreached(x), NEW d \in Callers, InQueue(x, d)
          PROVE  t \in Unreached(x)' /\ InQueue(x, d)'
      <4>1. x \in Scopes /\ x \notin Current
        BY <3>5, Held, Apart DEF CallerOK
      <4>. QED BY <1>2, <1>13, <1>14, <3>5, <4>1
    <3>6. CASE routing[t]
      <4>1. t \in Current \/ \E x \in Projects : t \in Unreached(x) /\ \E d \in Callers : InQueue(x, d)
        BY <3>6, Parts DEF RoutedInv
      <4>. QED BY <3>4, <3>5, <4>1
    <3>. QED BY <3>1, <3>2, <3>6
  <2>. QED BY <2>1 DEF RoutedInv
<1>19. ASSUME NEW d \in Clients PROVE ClientOK(d)'
  <2>1. ClientOK(d)
    BY Parts
  <2>. QED BY <1>6, <2>1, Apart DEF ClientOK
<1>. QED BY <1>8, <1>10, <1>12, <1>17, <1>18, <1>19 DEF ScopesInv

-----------------------------------------------------------------------------
(* The manager's operations *)

\* The call that an operation leaves behind: none, or one that disposes.
Disposing(q) == IF q = <<>> THEN NoCall ELSE [NoCall EXCEPT !.kind = "dispose", !.queue = q]

\* It has no candidate, and disposes what is in its queue.
LEMMA DisposingParts ==
  ASSUME NEW q \in Seq(Scopes)
  PROVE  /\ Disposing(q) \in CallRecords /\ Disposing(q).p = None /\ Disposing(q).w = None
         /\ Disposing(q).queue = q /\ Disposing(q).kind \in {"none", "dispose"}
         /\ Disposing(q).kind = "dispose" <=> q # <<>>
<1>1. CASE q = <<>>
  BY <1>1 DEF Disposing, NoCall, CallRecords, CallKinds
<1>2. CASE q # <<>>
  BY <1>2 DEF Disposing, NoCall, CallRecords, CallKinds
<1>. QED BY <1>1, <1>2

\* Rollback
LEMMA RollbackKeeps ==
  ASSUME ScopesInv, NEW c \in Callers, Rollback(c)
  PROVE  ScopesInv'
<1>1. PICK q : /\ q = (IF call[c].w = None THEN <<call[c].p>> ELSE <<call[c].w, call[c].p>>)
               /\ call' = [call EXCEPT ![c] = [NoCall EXCEPT !.kind = "dispose", !.queue = q]]
  BY DEF Rollback
<1>2. call[c].kind = "switch" /\ UNCHANGED <<state, routing, id, children, slot, gate, down, disposal, late, lease>>
  BY DEF Rollback, NotDisposing
<1>3. /\ call[c].p \in Projects /\ call[c].w \in Workspaces \cup {None} /\ CallerOK(c)
      /\ call[c].queue = <<>> /\ gate \in Callers \cup {None} /\ down \in BOOLEAN
  BY <1>2, Held DEF CallerOK, CallRecords
<1>4. q \in Seq(Scopes) /\ q # <<>> /\ Elems(q) = Mine(c)
  <2>1. CASE call[c].w = None
    BY <1>1, <1>3, <2>1, Queues, Apart DEF Mine
  <2>2. CASE call[c].w # None
    BY <1>1, <1>3, <2>2, Queues, Apart DEF Mine
  <2>. QED BY <2>1, <2>2
<1>5. call' = [call EXCEPT ![c] = Disposing(q)]
  BY <1>1, <1>4 DEF Disposing
<1>6. PICK n \in CallRecords : /\ n.p = None /\ n.w = None /\ n.queue = q /\ n.kind \in {"none", "dispose"}
                               /\ n.kind = "dispose" <=> n.queue # <<>>
                               /\ call' = [call EXCEPT ![c] = n]
  BY <1>4, <1>5, DisposingParts
<1>7. \A s : ~InQueue(s, c)
  BY <1>3, Queues DEF InQueue
<1>. QED BY <1>2, <1>3, <1>4, <1>6, <1>7, CallKeeps

\* A publication that is refused, but for the one of a tree
LEMMA RejectKeeps ==
  ASSUME ScopesInv, NEW c \in Callers, NEW q \in Seq(Scopes), Reject(c, q), Elems(q) = Mine(c),
         call[c].queue = <<>>
  PROVE  ScopesInv'
<1>1. /\ UNCHANGED <<state, routing, id, children, slot, down, disposal, late, lease>>
      /\ gate' \in Callers \cup {None} /\ call' = [call EXCEPT ![c] = Disposing(q)]
  BY DEF Reject, Holding, NotDisposing, Disposing
<1>2. PICK n \in CallRecords : /\ n.p = None /\ n.w = None /\ n.queue = q /\ n.kind \in {"none", "dispose"}
                               /\ n.kind = "dispose" <=> n.queue # <<>>
                               /\ call' = [call EXCEPT ![c] = n]
  BY <1>1, DisposingParts
<1>3. down \in BOOLEAN /\ \A s : ~InQueue(s, c)
  BY Held, Queues DEF InQueue
<1>. QED BY <1>1, <1>2, <1>3, CallKeeps

\* DisposeReported
LEMMA DisposeReportedKeeps ==
  ASSUME ScopesInv, NEW c \in Callers, DisposeReported(c)
  PROVE  ScopesInv'
<1>1. PICK rest : /\ rest = Tail(call[c].queue)
                  /\ call' = [call EXCEPT ![c] = IF rest = <<>> THEN NoCall ELSE [call[c] EXCEPT !.queue = rest]]
                  /\ gate' = IF gate = c /\ rest = <<>> THEN None ELSE gate
  BY Held DEF DisposeReported
<1>2. /\ call[c].kind = "dispose" /\ state[Head(call[c].queue)] \in Ended
      /\ UNCHANGED <<state, routing, id, children, slot, down, disposal, late, lease>>
  BY DEF DisposeReported, NotDisposing
<1>3. /\ call[c].p = None /\ call[c].w = None /\ call[c].queue # <<>> /\ call[c].queue \in Seq(Scopes)
      /\ gate \in Callers \cup {None} /\ down \in BOOLEAN /\ call[c] \in CallRecords
  BY <1>2, Held DEF CallerOK, CallRecords
<1>4. /\ rest \in Seq(Scopes) /\ \A s : InQueue(s, c) <=> s = Head(call[c].queue) \/ s \in Elems(rest)
      /\ Mine(c) = {}
  BY <1>1, <1>3, Queues DEF InQueue, Mine
<1>5. PICK n : n = IF rest = <<>> THEN NoCall ELSE [call[c] EXCEPT !.queue = rest]
  OBVIOUS
<1>6. /\ n \in CallRecords /\ n.p = None /\ n.w = None /\ n.queue = rest /\ n.kind \in {"none", "dispose"}
      /\ n.kind = "dispose" <=> n.queue # <<>>
  <2>1. CASE rest = <<>>
    BY <1>5, <2>1 DEF NoCall, CallRecords, CallKinds
  <2>2. CASE rest # <<>>
    BY <1>2, <1>3, <1>4, <1>5, <2>2 DEF CallRecords
  <2>. QED BY <2>1, <2>2
<1>7. gate' \in Callers \cup {None} /\ call' = [call EXCEPT ![c] = n]
  BY <1>1, <1>3, <1>5
<1>. QED BY <1>2, <1>3, <1>4, <1>6, <1>7, CallKeeps

\* Shutdown
LEMMA ShutdownKeeps ==
  ASSUME ScopesInv, NEW c \in Callers, Shutdown(c)
  PROVE  ScopesInv'
<1>1. /\ ~down /\ down' /\ gate' = c /\ \A d \in Callers : call[d].kind = "none"
      /\ UNCHANGED <<state, routing, id, children, slot, disposal, late, lease>>
      /\ call' = [call EXCEPT ![c] = [NoCall EXCEPT !.kind = "dispose", !.queue = <<App>>]]
  BY DEF Shutdown, NotDisposing
<1>2. PICK q : q = <<App>>
  OBVIOUS
<1>3. q \in Seq(Scopes) /\ q # <<>> /\ Elems(q) = {App}
  BY <1>2, Queues, Apart
<1>4. call' = [call EXCEPT ![c] = Disposing(q)]
  BY <1>1, <1>2, <1>3 DEF Disposing
<1>5. PICK n \in CallRecords : /\ n.p = None /\ n.w = None /\ n.queue = q /\ n.kind \in {"none", "dispose"}
                               /\ n.kind = "dispose" <=> n.queue # <<>>
                               /\ call' = [call EXCEPT ![c] = n]
  BY <1>3, <1>4, DisposingParts
<1>6. Mine(c) = {} /\ \A s : ~InQueue(s, c)
  BY <1>1, Held, Queues DEF CallerOK, Mine, InQueue
<1>7. down' \in BOOLEAN
  BY DEF Shutdown
<1>. QED BY <1>1, <1>3, <1>5, <1>6, <1>7, CallKeeps

\* PrepareProject
LEMMA PrepareProjectKeeps ==
  ASSUME ScopesInv, NEW c \in Callers, PrepareProject(c)
  PROVE  ScopesInv'
<1>1. PICK p \in Fresh(Projects), r \in Roots :
        Build(c, p, r, [NoCall EXCEPT !.kind = "switch", !.p = p, !.expP = slot.project, !.expW = slot.workspace])
  BY DEF PrepareProject
<1>2. call[c].kind = "none" /\ ~down
  BY DEF PrepareProject
<1>3. p \in Projects /\ state[p] = "none" /\ p # None
  BY <1>1, Apart DEF Fresh
<1>4. Mine(c) = {} /\ call[c].queue = <<>> /\ slot \in Slots /\ id \in [Candidates -> Roots \cup {None}]
  BY <1>2, Held DEF CallerOK, Mine
<1>5. PICK new : new = [NoCall EXCEPT !.kind = "switch", !.p = p, !.expP = slot.project, !.expW = slot.workspace]
  OBVIOUS
<1>6. new \in CallRecords /\ new.kind = "switch" /\ new.p = p /\ new.w = None /\ new.queue = <<>>
  <2>1. new = [kind |-> "switch", p |-> p, w |-> None, expP |-> slot.project, expW |-> slot.workspace, queue |-> <<>>]
    BY <1>5 DEF NoCall
  <2>2. slot.project \in Projects \cup {None} /\ slot.workspace \in Workspaces \cup {None} /\ <<>> \in Seq(Scopes)
    BY <1>4 DEF Slots
  <2>. QED BY <1>3, <2>1, <2>2 DEF CallRecords, CallKinds
<1>7. /\ state' = [state EXCEPT ![p] = "ready"] /\ id' = [id EXCEPT ![p] = r]
      /\ UNCHANGED <<routing, children, slot, gate, down, disposal, late, lease>>
      /\ \/ call' = [call EXCEPT ![c] = new]
         \/ call' = [call EXCEPT ![c] = [NoCall EXCEPT !.kind = "dispose", !.queue = <<p>>]]
  BY <1>1, <1>5, <1>6 DEF Build, NotDisposing
<1>8. id' \in [Candidates -> Roots \cup {None}] /\ p \in Candidates
  BY <1>3, <1>4, <1>7, Apart
<1>9. CASE call' = [call EXCEPT ![c] = new]
  <2>1. Takes(c, p, new)
    BY <1>2, <1>3, <1>4, <1>6, Queues DEF Takes
  <2>. QED BY <1>3, <1>4, <1>6, <1>7, <1>8, <1>9, <2>1, BuildKeeps
<1>10. CASE call' = [call EXCEPT ![c] = [NoCall EXCEPT !.kind = "dispose", !.queue = <<p>>]]
  <2>1. PICK q : q = <<p>>
    OBVIOUS
  <2>2. q \in Seq(Scopes) /\ q # <<>> /\ Elems(q) = {p}
    BY <1>8, <2>1, Queues, Apart
  <2>3. PICK n \in CallRecords : /\ n.p = None /\ n.w = None /\ n.queue = q /\ n.kind = "dispose"
                                 /\ call' = [call EXCEPT ![c] = n]
    BY <1>10, <2>1, <2>2, DisposingParts DEF Disposing
  <2>4. Takes(c, p, n)
    BY <1>2, <1>4, <2>2, <2>3 DEF Takes
  <2>. QED BY <1>3, <1>4, <1>7, <1>8, <2>3, <2>4, BuildKeeps
<1>. QED BY <1>7, <1>9, <1>10

\* PrepareWorkspace
LEMMA PrepareWorkspaceKeeps ==
  ASSUME ScopesInv, NEW c \in Callers, PrepareWorkspace(c)
  PROVE  ScopesInv'
<1>1. PICK w \in Fresh(Workspaces) :
        \/ /\ call[c].kind = "switch" /\ call[c].w = None
           /\ Build(c, w, id[call[c].p], [call[c] EXCEPT !.w = w])
        \/ /\ call[c].kind = "none" /\ ~down /\ slot.project # None
           /\ Build(c, w, id[slot.project], [NoCall EXCEPT !.kind = "workspace", !.w = w, !.expW = slot.workspace])
  BY DEF PrepareWorkspace
<1>2. w \in Workspaces /\ state[w] = "none" /\ w # None /\ w \in Candidates /\ w \in Scopes
  BY <1>1, Apart DEF Fresh
<1>3. /\ CallerOK(c) /\ call[c] \in CallRecords /\ slot \in Slots /\ id \in [Candidates -> Roots \cup {None}]
      /\ call[c].p \in Projects \cup {None}
  BY Held DEF CallRecords
<1>4. ASSUME NEW r \in Roots \cup {None}, NEW new \in CallRecords, Build(c, w, r, new),
             call[c].w = None, call[c].queue = <<>>, ~down, new.w = w, new.p = call[c].p, new.queue = <<>>,
             new.kind \in {"switch", "workspace"}, new.kind = "switch" <=> new.p # None
      PROVE  ScopesInv'
  <2>1. /\ state' = [state EXCEPT ![w] = "ready"] /\ id' = [id EXCEPT ![w] = r]
        /\ UNCHANGED <<routing, children, slot, gate, down, disposal, late, lease>>
        /\ \/ call' = [call EXCEPT ![c] = new]
           \/ call' = [call EXCEPT ![c] = [NoCall EXCEPT !.kind = "dispose",
                                               !.queue = IF new.p \in {w, None} THEN <<w>> ELSE <<w, new.p>>]]
    BY <1>4 DEF Build, NotDisposing
  <2>2. id' \in [Candidates -> Roots \cup {None}]
    BY <1>2, <1>3, <1>4, <2>1
  <2>3. Mine(c) = {call[c].p} \ {None}
    BY <1>4 DEF Mine
  <2>4. CASE call' = [call EXCEPT ![c] = new]
    <3>1. Takes(c, w, new)
      BY <1>2, <1>4, <2>3, Queues DEF Takes
    <3>. QED BY <1>2, <1>4, <2>1, <2>2, <2>4, <3>1, BuildKeeps
  <2>5. CASE call' = [call EXCEPT ![c] = [NoCall EXCEPT !.kind = "dispose",
                                               !.queue = IF new.p \in {w, None} THEN <<w>> ELSE <<w, new.p>>]]
    <3>1. PICK q : q = IF new.p \in {w, None} THEN <<w>> ELSE <<w, new.p>>
      OBVIOUS
    <3>2. new.p # w
      BY <1>2, <1>3, <1>4, Apart
    <3>3. q \in Seq(Scopes) /\ q # <<>> /\ Elems(q) = Mine(c) \cup {w}
      <4>1. CASE new.p = None
        BY <1>2, <1>4, <2>3, <3>1, <4>1, Queues
      <4>2. CASE new.p # None
        BY <1>2, <1>3, <1>4, <2>3, <3>1, <3>2, <4>2, Queues, Apart
      <4>. QED BY <4>1, <4>2
    <3>4. PICK n \in CallRecords : /\ n.p = None /\ n.w = None /\ n.queue = q /\ n.kind = "dispose"
                                   /\ call' = [call EXCEPT ![c] = n]
      BY <2>5, <3>1, <3>3, DisposingParts DEF Disposing
    <3>5. Takes(c, w, n)
      BY <1>4, <3>3, <3>4 DEF Takes
    <3>. QED BY <1>2, <1>4, <2>1, <2>2, <3>4, <3>5, BuildKeeps
  <2>. QED BY <2>1, <2>4, <2>5
<1>5. ASSUME call[c].kind = "switch", call[c].w = None, Build(c, w, id[call[c].p], [call[c] EXCEPT !.w = w])
      PROVE  ScopesInv'
  <2>1. PICK new : new = [call[c] EXCEPT !.w = w]
    OBVIOUS
  <2>2. call[c].p \in Projects /\ call[c].queue = <<>> /\ ~down
    BY <1>3, <1>5 DEF CallerOK
  <2>3. /\ new \in CallRecords /\ new.w = w /\ new.p = call[c].p /\ new.queue = <<>> /\ new.kind = "switch"
        /\ new.p # None
    BY <1>2, <1>3, <1>5, <2>1, <2>2, Apart DEF CallRecords
  <2>4. PICK r \in Roots \cup {None} : r = id[call[c].p]
    BY <1>3, <2>2, Apart
  <2>. QED BY <1>4, <1>5, <2>1, <2>2, <2>3, <2>4
<1>6. ASSUME call[c].kind = "none", ~down, slot.project # None,
             Build(c, w, id[slot.project], [NoCall EXCEPT !.kind = "workspace", !.w = w, !.expW = slot.workspace])
      PROVE  ScopesInv'
  <2>1. PICK new : new = [NoCall EXCEPT !.kind = "workspace", !.w = w, !.expW = slot.workspace]
    OBVIOUS
  <2>2. call[c].p = None /\ call[c].w = None /\ call[c].queue = <<>>
    BY <1>3, <1>6 DEF CallerOK
  <2>3. new \in CallRecords /\ new.w = w /\ new.p = None /\ new.queue = <<>> /\ new.kind = "workspace"
    <3>1. new = [kind |-> "workspace", p |-> None, w |-> w, expP |-> None, expW |-> slot.workspace, queue |-> <<>>]
      BY <2>1 DEF NoCall
    <3>2. slot.workspace \in Workspaces \cup {None} /\ <<>> \in Seq(Scopes)
      BY <1>3 DEF Slots
    <3>. QED BY <1>2, <3>1, <3>2 DEF CallRecords, CallKinds
  <2>4. PICK r \in Roots \cup {None} : r = id[slot.project]
    BY <1>3, <1>6, Apart DEF Slots
  <2>. QED BY <1>4, <1>6, <2>1, <2>2, <2>3, <2>4
<1>. QED BY <1>1, <1>5, <1>6

\* A publication or a removal leaves its queue in its call, and the gate is kept.
LEMMA HoldingKeeps ==
  ASSUME ScopesInv, NEW c \in Callers, NEW q \in Seq(Scopes), Holding(c, q), ~down, call[c].queue = <<>>,
         NEW new, NEW prev, Activate(new, prev), Swap(c, new, prev, Elems(q)),
         slot' \in Slots, children' \in [Scopes -> SUBSET Candidates], TreeInv'
  PROVE  ScopesInv'
<1>1. /\ UNCHANGED <<id, down, disposal, late, lease>>
      /\ gate' \in Callers \cup {None} /\ call' = [call EXCEPT ![c] = Disposing(q)]
  BY DEF Holding, NotDisposing, Disposing
<1>2. PICK n \in CallRecords : /\ n.p = None /\ n.w = None /\ n.queue = q /\ n.kind \in {"none", "dispose"}
                               /\ n.kind = "dispose" <=> n.queue # <<>>
                               /\ call' = [call EXCEPT ![c] = n]
  BY <1>1, DisposingParts
<1>3. Swap(c, new, prev, Elems(n.queue))
  BY <1>2
<1>. QED BY <1>1, <1>2, <1>3, PublishKeeps

\* The current tree, and a scope that is in none.
LEMMA TreeParts ==
  ASSUME ScopesInv
  PROVE  /\ TreeInv /\ slot \in Slots /\ slot.project \in Projects \cup {None} /\ slot.workspace \in Workspaces \cup {None}
         /\ children \in [Scopes -> SUBSET Candidates]
         /\ slot.project # None => slot.project \in Scopes /\ slot.project # App
         /\ slot.workspace # None => slot.workspace \in Scopes /\ slot.project # None /\ slot.workspace \in children[slot.project]
         /\ \A c \in Callers : \A s \in Mine(c) :
              /\ s \in Scopes /\ s \notin Current /\ children[s] = {} /\ \A x \in Scopes : s \notin children[x]
<1>1. /\ TreeInv /\ slot \in Slots /\ slot.project \in Projects \cup {None} /\ slot.workspace \in Workspaces \cup {None}
      /\ children \in [Scopes -> SUBSET Candidates]
  BY Held, Given, Parts DEF Slots
<1>2. ASSUME NEW c \in Callers, NEW s \in Mine(c)
      PROVE  s \in Scopes /\ s \notin Current /\ children[s] = {} /\ \A x \in Scopes : s \notin children[x]
  BY Held, Apart DEF CallerOK, Loose
<1>. QED BY <1>1, <1>2, Apart DEF TreeInv

\* The queue of what is replaced
LEMMA ReplacedParts ==
  ASSUME NEW s \in Scopes \cup {None}
  PROVE  Replaced(s) \in Seq(Scopes) /\ Elems(Replaced(s)) = {s} \ {None}
<1>1. CASE s = None
  BY <1>1, Queues DEF Replaced
<1>2. CASE s # None
  BY <1>2, Queues DEF Replaced
<1>. QED BY <1>1, <1>2

\* PublishProject
LEMMA PublishProjectKeeps ==
  ASSUME ScopesInv, NEW c \in Callers, PublishProject(c)
  PROVE  ScopesInv'
<1>1. call[c].kind = "switch" /\ call[c].w = None
  BY DEF PublishProject
<1>2. PICK p : p = call[c].p
  OBVIOUS
<1>3. p \in Projects /\ p \in Scopes /\ p # None /\ Mine(c) = {p} /\ call[c].queue = <<>> /\ ~down
  <2>1. p \in Projects /\ p # None /\ call[c].queue = <<>> /\ ~down
    BY <1>1, <1>2, Held DEF CallerOK, CallRecords
  <2>. QED BY <1>1, <1>2, <2>1, Apart DEF Mine
<1>4. CASE Reject(c, <<p>>)
  <2>1. <<p>> \in Seq(Scopes) /\ Elems(<<p>>) = Mine(c)
    BY <1>3, Queues
  <2>. QED BY <1>3, <1>4, <2>1, RejectKeeps
<1>5. CASE ~Reject(c, <<p>>)
  <2>1. PICK o : o = slot.project
    OBVIOUS
  <2>2. /\ slot.workspace = None /\ slot' = [slot EXCEPT !.project = p]
        /\ children' = [children EXCEPT ![App] = (children[App] \ {o}) \cup {p}]
        /\ Activate({p}, o) /\ Holding(c, Replaced(o))
    BY <1>2, <1>5, <2>1, TreeParts, Apart DEF PublishProject
  <2>3. /\ o \in Projects \cup {None} /\ o # App /\ (o # None => o \in Scopes /\ o \in Current)
        /\ o # p /\ p \notin Current /\ children[p] = {} /\ \A x \in Scopes : p \notin children[x]
    BY <1>3, <2>1, TreeParts, Apart DEF Current
  <2>4. slot' \in Slots /\ slot'.project = p /\ slot'.workspace = None
    BY <1>3, <2>2, TreeParts DEF Slots
  <2>5. /\ children' \in [Scopes -> SUBSET Candidates] /\ children'[App] = {p}
        /\ \A x \in Scopes : x # App => children'[x] = children[x]
    <3>1. children[App] \ {o} = {}
      BY <2>1, TreeParts DEF TreeInv
    <3>. QED BY <1>3, <2>2, <3>1, TreeParts, Apart
  <2>6. TreeInv'
    <3>1. TreeInv
      BY TreeParts
    <3>. QED BY <1>3, <2>3, <2>4, <2>5, <3>1, Apart DEF TreeInv
  <2>7. Replaced(o) \in Seq(Scopes) /\ Elems(Replaced(o)) = {o} \ {None}
    BY <2>3, ReplacedParts
  <2>8. Swap(c, {p}, o, {o} \ {None})
    <3>1. NextCurrent = {App, p, None} /\ Current = {App, o, None}
      BY <2>1, <2>2, <2>4 DEF NextCurrent, Current
    <3>. QED BY <1>3, <2>3, <2>5, <3>1, Apart DEF Swap
  <2>9. PICK q, new : q \in Seq(Scopes) /\ q = Replaced(o) /\ new = {p}
    BY <2>7
  <2>10. Holding(c, q) /\ Activate(new, o) /\ Swap(c, new, o, Elems(q))
    BY <2>2, <2>7, <2>8, <2>9
  <2>. QED BY <1>3, <2>4, <2>5, <2>6, <2>9, <2>10, HoldingKeeps
<1>. QED BY <1>4, <1>5

\* PublishWorkspace
LEMMA PublishWorkspaceKeeps ==
  ASSUME ScopesInv, NEW c \in Callers, PublishWorkspace(c)
  PROVE  ScopesInv'
<1>1. call[c].kind = "workspace"
  BY DEF PublishWorkspace
<1>2. PICK w : w = call[c].w
  OBVIOUS
<1>3. w \in Workspaces /\ w \in Scopes /\ w # None /\ Mine(c) = {w} /\ call[c].queue = <<>> /\ ~down
  <2>1. w \in Workspaces /\ w # None /\ call[c].queue = <<>> /\ ~down /\ call[c].p = None
    BY <1>1, <1>2, Held DEF CallerOK, CallRecords
  <2>. QED BY <1>2, <2>1, Apart DEF Mine
<1>4. CASE Reject(c, <<w>>)
  <2>1. <<w>> \in Seq(Scopes) /\ Elems(<<w>>) = Mine(c)
    BY <1>3, Queues
  <2>. QED BY <1>3, <1>4, <2>1, RejectKeeps
<1>5. CASE ~Reject(c, <<w>>)
  <2>1. PICK o, p : o = slot.workspace /\ p = slot.project
    OBVIOUS
  <2>2. /\ p # None /\ slot' = [slot EXCEPT !.workspace = w]
        /\ children' = [children EXCEPT ![p] = (children[p] \ {o}) \cup {w}]
        /\ Activate({w}, o) /\ Holding(c, Replaced(o))
    BY <1>2, <1>5, <2>1, TreeParts DEF PublishWorkspace
  <2>3. /\ o \in Workspaces \cup {None} /\ o # App /\ (o # None => o \in Scopes /\ o \in Current)
        /\ p \in Projects /\ p \in Scopes /\ p # App /\ p \in Current /\ p # o /\ p # w
        /\ o # w /\ w \notin Current /\ children[w] = {} /\ \A x \in Scopes : w \notin children[x]
    BY <1>3, <2>1, <2>2, TreeParts, Apart DEF Current
  <2>4. slot' \in Slots /\ slot'.project = p /\ slot'.workspace = w
    BY <1>3, <2>1, <2>2, TreeParts DEF Slots
  <2>5. /\ children' \in [Scopes -> SUBSET Candidates] /\ children'[p] = {w}
        /\ \A x \in Scopes : x # p => children'[x] = children[x]
    <3>1. children[p] \ {o} = {}
      BY <2>1, <2>2, TreeParts DEF TreeInv
    <3>. QED BY <1>3, <2>2, <2>3, <3>1, TreeParts, Apart
  <2>6. TreeInv'
    <3>1. TreeInv
      BY TreeParts
    <3>2. children'[App] = {p} \ {None}
      BY <2>1, <2>3, <2>5, <3>1, Apart DEF TreeInv
    <3>. QED BY <1>3, <2>2, <2>3, <2>4, <2>5, <3>1, <3>2, Apart DEF TreeInv
  <2>7. Replaced(o) \in Seq(Scopes) /\ Elems(Replaced(o)) = {o} \ {None}
    BY <2>3, ReplacedParts
  <2>8. Swap(c, {w}, o, {o} \ {None})
    <3>1. NextCurrent = {App, p, w} /\ Current = {App, p, o}
      BY <2>1, <2>4 DEF NextCurrent, Current
    <3>. QED BY <1>3, <2>3, <2>5, <3>1, Apart DEF Swap
  <2>9. PICK q, new : q \in Seq(Scopes) /\ q = Replaced(o) /\ new = {w}
    BY <2>7
  <2>10. Holding(c, q) /\ Activate(new, o) /\ Swap(c, new, o, Elems(q))
    BY <2>2, <2>7, <2>8, <2>9
  <2>. QED BY <1>3, <2>4, <2>5, <2>6, <2>9, <2>10, HoldingKeeps
<1>. QED BY <1>4, <1>5

\* PublishTree
LEMMA PublishTreeKeeps ==
  ASSUME ScopesInv, NEW c \in Callers, PublishTree(c)
  PROVE  ScopesInv'
<1>1. call[c].kind = "switch" /\ call[c].w # None
  BY DEF PublishTree
<1>2. PICK p, w : p = call[c].p /\ w = call[c].w
  OBVIOUS
<1>3. /\ p \in Projects /\ p \in Scopes /\ p # None /\ w \in Workspaces /\ w \in Scopes /\ w # None
      /\ Mine(c) = {p, w} /\ call[c].queue = <<>> /\ ~down /\ p # w
  <2>1. p \in Projects /\ p # None /\ call[c].queue = <<>> /\ ~down /\ w \in Workspaces
    BY <1>1, <1>2, Held DEF CallerOK, CallRecords
  <2>. QED BY <1>1, <1>2, <2>1, Apart DEF Mine
<1>4. /\ p \notin Current /\ children[p] = {} /\ \A x \in Scopes : p \notin children[x]
      /\ w \notin Current /\ children[w] = {} /\ \A x \in Scopes : w \notin children[x]
  BY <1>3, TreeParts
<1>5. TreeInv /\ slot \in Slots /\ children \in [Scopes -> SUBSET Candidates]
  BY TreeParts
<1>6. PICK owned : owned = [children EXCEPT ![p] = children[p] \cup {w}]
  OBVIOUS
<1>7. /\ owned \in [Scopes -> SUBSET Candidates] /\ owned[p] = {w}
      /\ \A x \in Scopes : x # p => owned[x] = children[x]
  BY <1>3, <1>4, <1>5, <1>6, Apart
<1>8. CASE /\ children' = owned /\ Holding(c, <<w, p>>) /\ UNCHANGED <<state, routing, slot>>
  <2>1. <<w, p>> \in Seq(Scopes) /\ Elems(<<w, p>>) = {w, p}
    BY <1>3, Queues
  <2>2. Activate({}, None)
    BY <1>8, Given, Apart DEF Activate
  <2>3. TreeInv'
    <3>1. slot.project # p /\ App # p /\ (slot.project # None => slot.project \in Scopes)
      BY <1>3, <1>4, TreeParts, Apart DEF Current
    <3>. QED BY <1>3, <1>4, <1>5, <1>7, <1>8, <3>1, Apart DEF TreeInv
  <2>4. Swap(c, {}, None, {w, p})
    <3>1. NextCurrent = Current
      BY <1>8 DEF NextCurrent, Current
    <3>. QED BY <1>3, <1>4, <1>7, <1>8, <3>1, Apart DEF Swap
  <2>5. slot' \in Slots /\ children' \in [Scopes -> SUBSET Candidates]
    BY <1>5, <1>7, <1>8
  <2>. QED BY <1>3, <1>8, <2>1, <2>2, <2>3, <2>4, <2>5, HoldingKeeps
<1>9. CASE ~(children' = owned /\ Holding(c, <<w, p>>) /\ UNCHANGED <<state, routing, slot>>)
  <2>1. PICK o, v : o = slot.project /\ v = slot.workspace
    OBVIOUS
  <2>2. /\ slot' = [project |-> p, workspace |-> w]
        /\ children' = [owned EXCEPT ![App] = (owned[App] \ {o}) \cup {p}]
        /\ Activate({p, w}, o) /\ Holding(c, Replaced(o))
    BY <1>2, <1>6, <1>9, <2>1 DEF PublishTree
  <2>3. /\ o \in Projects \cup {None} /\ o # App /\ (o # None => o \in Scopes /\ o \in Current)
        /\ v \in Workspaces \cup {None} /\ (v # None => v \in Scopes /\ v \in Current /\ o # None /\ v \in children[o])
        /\ o # p /\ v # w
    BY <1>3, <1>4, <2>1, TreeParts, Apart DEF Current
  <2>4. slot' \in Slots /\ slot'.project = p /\ slot'.workspace = w
    BY <1>3, <2>2 DEF Slots
  <2>5. /\ children' \in [Scopes -> SUBSET Candidates] /\ children'[App] = {p} /\ children'[p] = {w}
        /\ \A x \in Scopes : x # App /\ x # p => children'[x] = children[x]
    <3>1. owned[App] \ {o} = {}
      BY <1>3, <1>5, <1>7, <2>1, Apart DEF TreeInv
    <3>. QED BY <1>3, <1>7, <2>2, <3>1, Apart
  <2>6. TreeInv'
    BY <1>3, <1>4, <1>5, <2>4, <2>5, Apart DEF TreeInv
  <2>7. Replaced(o) \in Seq(Scopes) /\ Elems(Replaced(o)) = {o} \ {None}
    BY <2>3, ReplacedParts
  <2>8. v # None => o \in Projects /\ o \in {o} \ {None} /\ v \in After(o)
    <3>1. SUFFICES ASSUME v # None PROVE v \in After(o)
      BY <2>3
    <3>2. o \in Scopes /\ o \in Current /\ v \in children'[o] /\ disposal'[o] = disposal[o]
      BY <2>2, <2>3, <2>5, <3>1 DEF Holding, NotDisposing
    <3>3. disposal[o].step = "idle" /\ state[o] = "active"
      BY <1>3, <3>2, Given DEF ScopeOK
    <3>4. o \notin {p, w}
      BY <1>4, <3>2
    <3>5. state'[o] = Quiesced(state, o)[o]
      BY <2>2, <3>2, <3>4 DEF Activate
    <3>6. state'[o] = "quiescing"
      BY <3>2, <3>3, <3>5, Given DEF Quiesced
    <3>. QED BY <3>2, <3>3, <3>6 DEF After, Ended
  <2>9. Swap(c, {p, w}, o, {o} \ {None})
    <3>1. NextCurrent = {App, p, w} /\ Current = {App, o, v}
      BY <2>1, <2>4 DEF NextCurrent, Current
    <3>2. \A t \in Scopes : t \in Current => \/ t \in NextCurrent \/ t = o
                                             \/ \E x \in Projects : x \in {o} \ {None} /\ t \in After(x)
      BY <2>3, <2>8, <3>1, Apart
    <3>. QED BY <1>3, <1>4, <2>3, <2>5, <3>1, <3>2, Apart DEF Swap
  <2>10. PICK q, new : q \in Seq(Scopes) /\ q = Replaced(o) /\ new = {p, w}
    BY <2>7
  <2>11. Holding(c, q) /\ Activate(new, o) /\ Swap(c, new, o, Elems(q))
    BY <2>2, <2>7, <2>9, <2>10
  <2>. QED BY <1>3, <2>4, <2>5, <2>6, <2>10, <2>11, HoldingKeeps
<1>. QED BY <1>8, <1>9

\* ClearProject
LEMMA ClearProjectKeeps ==
  ASSUME ScopesInv, NEW c \in Callers, ClearProject(c)
  PROVE  ScopesInv'
<1>1. PICK o : o = slot.project
  OBVIOUS
<1>2. /\ call[c].kind = "none" /\ ~down /\ o # None /\ slot.workspace = None
      /\ slot' = [slot EXCEPT !.project = None]
      /\ children' = [children EXCEPT ![App] = children[App] \ {o}]
      /\ Activate({}, o) /\ Holding(c, <<o>>)
  BY <1>1, TreeParts, Apart DEF ClearProject
<1>3. Mine(c) = {} /\ call[c].queue = <<>>
  BY <1>2, Held DEF CallerOK, Mine
<1>4. o \in Projects /\ o \in Scopes /\ o # App /\ o \in Current /\ TreeInv
  BY <1>1, <1>2, TreeParts, Apart DEF Current
<1>5. slot' \in Slots /\ slot'.project = None /\ slot'.workspace = None
  BY <1>2, TreeParts DEF Slots
<1>6. /\ children' \in [Scopes -> SUBSET Candidates] /\ children'[App] = {}
      /\ \A x \in Scopes : x # App => children'[x] = children[x]
  <2>1. children[App] \ {o} = {}
    BY <1>1, <1>4 DEF TreeInv
  <2>. QED BY <1>2, <2>1, TreeParts, Apart
<1>7. TreeInv'
  BY <1>4, <1>5, <1>6, Apart DEF TreeInv
<1>8. <<o>> \in Seq(Scopes) /\ Elems(<<o>>) = {o}
  BY <1>4, Queues
<1>9. Swap(c, {}, o, {o})
  <2>1. NextCurrent = {App, None} /\ Current = {App, o, None}
    BY <1>1, <1>2, <1>5 DEF NextCurrent, Current
  <2>. QED BY <1>2, <1>3, <1>4, <1>6, <2>1, Apart DEF Swap
<1>10. PICK q, new : q \in Seq(Scopes) /\ q = <<o>> /\ new = {}
  BY <1>8
<1>11. Holding(c, q) /\ Activate(new, o) /\ Swap(c, new, o, Elems(q))
  BY <1>2, <1>8, <1>9, <1>10
<1>. QED BY <1>2, <1>3, <1>5, <1>6, <1>7, <1>10, <1>11, HoldingKeeps

\* ClearWorkspace
LEMMA ClearWorkspaceKeeps ==
  ASSUME ScopesInv, NEW c \in Callers, ClearWorkspace(c)
  PROVE  ScopesInv'
<1>1. PICK o, p : o = slot.workspace /\ p = slot.project
  OBVIOUS
<1>2. /\ call[c].kind = "none" /\ ~down /\ o # None /\ p # None
      /\ slot' = [slot EXCEPT !.workspace = None]
      /\ children' = [children EXCEPT ![p] = children[p] \ {o}]
      /\ Activate({}, o) /\ Holding(c, <<o>>)
  BY <1>1, TreeParts DEF ClearWorkspace
<1>3. Mine(c) = {} /\ call[c].queue = <<>>
  BY <1>2, Held DEF CallerOK, Mine
<1>4. /\ o \in Workspaces /\ o \in Scopes /\ o # App /\ o \in Current /\ TreeInv
      /\ p \in Projects /\ p \in Scopes /\ p # App /\ p \in Current /\ p # o
  BY <1>1, <1>2, TreeParts, Apart DEF Current
<1>5. slot' \in Slots /\ slot'.project = p /\ slot'.workspace = None
  BY <1>1, <1>2, TreeParts DEF Slots
<1>6. /\ children' \in [Scopes -> SUBSET Candidates] /\ children'[p] = {}
      /\ \A x \in Scopes : x # p => children'[x] = children[x]
  <2>1. children[p] \ {o} = {}
    BY <1>1, <1>2, <1>4 DEF TreeInv
  <2>. QED BY <1>2, <1>4, <2>1, TreeParts
<1>7. TreeInv'
  <2>1. children'[App] = {p} \ {None}
    BY <1>1, <1>4, <1>6, Apart DEF TreeInv
  <2>. QED BY <1>2, <1>4, <1>5, <1>6, <2>1, Apart DEF TreeInv
<1>8. <<o>> \in Seq(Scopes) /\ Elems(<<o>>) = {o}
  BY <1>4, Queues
<1>9. Swap(c, {}, o, {o})
  <2>1. NextCurrent = {App, p, None} /\ Current = {App, p, o}
    BY <1>1, <1>5 DEF NextCurrent, Current
  <2>. QED BY <1>2, <1>3, <1>4, <1>6, <2>1, Apart DEF Swap
<1>10. PICK q, new : q \in Seq(Scopes) /\ q = <<o>> /\ new = {}
  BY <1>8
<1>11. Holding(c, q) /\ Activate(new, o) /\ Swap(c, new, o, Elems(q))
  BY <1>2, <1>8, <1>9, <1>10
<1>. QED BY <1>2, <1>3, <1>5, <1>6, <1>7, <1>10, <1>11, HoldingKeeps

-----------------------------------------------------------------------------
(* The theorems *)

\* Initially there is the application scope, and nobody has called.
LEMMA InitKeeps ==
  ASSUME Init
  PROVE  ScopesInv
<1>1. /\ state = [s \in Scopes |-> IF s = App THEN "active" ELSE "none"]
      /\ routing = [s \in Scopes |-> s = App] /\ id = [s \in Candidates |-> None]
      /\ children = [s \in Scopes |-> {}] /\ slot = [project |-> None, workspace |-> None]
      /\ gate = None /\ call = [c \in Callers |-> NoCall]
      /\ disposal = [s \in Scopes |-> Idle] /\ late = [s \in Scopes |-> FALSE]
      /\ lease = [c \in Clients |-> NoLease] /\ down = FALSE
  BY DEF Init
<1>2. /\ NoCall \in CallRecords /\ NoCall.kind = "none" /\ NoCall.p = None /\ NoCall.w = None /\ NoCall.queue = <<>>
      /\ NoLease \in Leases /\ NoLease.step = "none"
  BY DEF NoCall, CallRecords, CallKinds, NoLease, Leases
<1>3. slot \in Slots /\ slot.project = None /\ slot.workspace = None /\ Current = {App, None}
  BY <1>1 DEF Slots, Current
<1>4. TypeOK
  BY <1>1, <1>2, <1>3, IdleParts, TypeParts DEF States
<1>5. TreeInv
  BY <1>1, <1>3, Apart DEF TreeInv
<1>6. \A c \in Callers : Mine(c) = {} /\ \A s : ~InQueue(s, c)
  BY <1>1, <1>2, Queues DEF Mine, InQueue
<1>7. \A c \in Callers : CallerOK(c)
  BY <1>1, <1>2, <1>6 DEF CallerOK
<1>8. \A s \in Scopes : s # App => Loose(s)
  BY <1>1, <1>3, <1>6, Apart DEF Loose
<1>9. \A s \in Scopes : ScopeOK(s)
  BY <1>1, <1>3, <1>6, <1>8, IdleParts, Apart DEF ScopeOK
<1>10. OwedInv
  BY <1>1, <1>3 DEF OwedInv, Owed, Direct
<1>11. RoutedInv
  BY <1>1, <1>3 DEF RoutedInv
<1>12. \A c \in Clients : ClientOK(c)
  BY <1>1, <1>2 DEF ClientOK
<1>. QED BY <1>4, <1>5, <1>7, <1>9, <1>10, <1>11, <1>12 DEF ScopesInv

\* Every step keeps the invariant.
LEMMA NextKeeps ==
  ASSUME ScopesInv, [Next]_vars
  PROVE  ScopesInv'
<1>1. CASE ClientNext
  BY <1>1, ClientNextKeeps
<1>2. CASE DisposeNext
  BY <1>2, DisposeNextKeeps
<1>3. CASE CallNext
  <2>1. PICK c \in Callers :
          \/ PrepareProject(c) \/ PrepareWorkspace(c) \/ Rollback(c)
          \/ PublishProject(c) \/ PublishWorkspace(c) \/ PublishTree(c)
          \/ ClearProject(c) \/ ClearWorkspace(c) \/ Shutdown(c)
    BY <1>3 DEF CallNext
  <2>. QED BY <2>1, PrepareProjectKeeps, PrepareWorkspaceKeeps, RollbackKeeps, PublishProjectKeeps,
              PublishWorkspaceKeeps, PublishTreeKeeps, ClearProjectKeeps, ClearWorkspaceKeeps, ShutdownKeeps
<1>4. CASE CallEnds
  BY <1>4, DisposeReportedKeeps DEF CallEnds
<1>5. CASE UNCHANGED vars
  <2>1. UNCHANGED <<state, routing, id, children, slot, gate, call, disposal, late, down>> /\ UNCHANGED lease
    BY <1>5 DEF vars
  <2>2. lease \in [Clients -> Leases] /\ \A c \in Clients : ClientOK(c)
    BY Held, Parts
  <2>3. \A c \in Clients : ClientOK(c)'
    BY <2>1, <2>2 DEF ClientOK
  <2>. QED BY <2>1, <2>2, <2>3, ClientsKeep
<1>. QED BY <1>1, <1>2, <1>3, <1>4, <1>5 DEF Next

\* The invariant holds in every state of the runtime.
THEOREM Invariance == Spec => []ScopesInv
<1>1. Init => ScopesInv
  BY InitKeeps
<1>2. ScopesInv /\ [Next]_vars => ScopesInv'
  BY NextKeeps
<1>. QED BY <1>1, <1>2, PTL DEF Spec

\* Scopes, calls, disposals and leases keep their types, for any number of scopes,
\* callers and clients (ScopeManager and RegistryHub of lifecycle.rs).
THEOREM TypeCorrect == Spec => []TypeOK
<1>1. ScopesInv => TypeOK
  BY DEF ScopesInv
<1>. QED BY <1>1, Invariance, PTL

\* No effect is disposed under a call that RegistryHub::lease let in or a task that
\* ScopedTaskTracker::spawn admitted, unless a deadline expired.
THEOREM CallsKeep == Spec => []CallsKeepEffects
<1>1. ScopesInv => CallsKeepEffects
  BY Parts DEF CallsKeepEffects, ClientOK
<1>. QED BY <1>1, Invariance, PTL

\* When no operation is under way, a scope that is not current is closed and
\* disposed, but for what an expired deadline left (publish_with,
\* publish_project_tree, clear_project, clear_workspace, shutdown).
THEOREM NothingForgotten == Spec => []NothingLeftBehind
<1>1. ASSUME ScopesInv PROVE NothingLeftBehind
  <2>1. SUFFICES ASSUME NEW s \in Scopes, \A c \in Callers : call[c].kind = "none", s \notin Current \/ down
                 PROVE  /\ state[s] \in Ended \cup {"none"} \/ late[s]
                        /\ routing[s] => down
    BY DEF NothingLeftBehind
  <2>2. \A c \in Callers : Mine(c) = {} /\ \A x : ~InQueue(x, c)
    BY <1>1, <2>1, Held, Queues DEF CallerOK, Mine, InQueue
  <2>3. \A x \in Scopes : Direct(x) => x \in Current /\ ~down
    BY <2>2 DEF Direct
  <2>4. \A x \in Scopes : x \in Current => Unreached(x) \subseteq Current
    <3>1. SUFFICES ASSUME NEW x \in Scopes, x \in Current, NEW k \in Unreached(x) PROVE k \in Current
      OBVIOUS
    <3>2. k \in children[x]
      BY <1>1, <3>1, Given DEF Unreached, DisposalOK
    <3>3. TreeInv /\ slot \in Slots
      BY <1>1, Parts, Held
    <3>. QED BY <3>1, <3>2, <3>3, Apart DEF TreeInv, Current, Slots
  <2>5. ~Owed(s)
    BY <2>1, <2>3, <2>4, Apart DEF Owed
  <2>6. state[s] \in Ended \cup {"none"} \/ late[s]
    BY <1>1, <2>5, Parts DEF OwedInv
  <2>7. routing[s] => down
    BY <1>1, <2>1, <2>2, Parts DEF RoutedInv
  <2>. QED BY <2>6, <2>7
<1>2. ScopesInv => NothingLeftBehind
  BY <1>1
<1>. QED BY <1>2, Invariance, PTL

=============================================================================
