-------------------------- MODULE PluginCallsProofs --------------------------
(***************************************************************************)
(* What PluginCalls guarantees for any number of grants, calls and hosts:  *)
(* a grant given once yields one result, a usable handle is the current    *)
(* host's, what a call reserves is given back, and no result goes out      *)
(* through a grant whose revocation has ended.                             *)
(*                                                                         *)
(* A step of a call changes the registry mildly or clears it, and touches  *)
(* no other call (CallEffect); the invariant follows from that alone.      *)
(***************************************************************************)
EXTENDS PluginCalls, TLAPS, WellFoundedInduction

CallRecords ==
    [pc : PCs, kind : Kinds \cup {"none"}, crash : 0..MaxHosts, host : 0..MaxHosts,
     g : Grants \cup {None}, supplied : SUBSET Grants]
HostRecords ==
    [id : 0..MaxHosts, state : {"none", "active", "quarantined"}, call : Calls \cup {None},
     steps : 0..MaxSteps, handles : SUBSET Grants]
HandleTables == [Grants -> [Hosts -> HandleStates]]
GrantStates == {"none", "pending", "denied", "cancelled", "active", "revoked", "consumed"}

Live(g, h) == handle[g][h] \in {"live", "flying"}
Standing(g) == grant[g] \notin {"none", "pending"}

\* Where a call may hold a reservation, and where it is about to use a result
Working == Held \cup {"abort", "abortUsed", "evict"}
Spending == {"completed", "resume"}
Waiting == Suspended \cup {"evict"}

\* The registry's entry is the host the lifecycle started last, nobody is asked
\* about a plugin that runs, and the entry lists handles that were minted.
EntryInv ==
    /\ host.id = 0 => host = NoHost
    /\ host.id # 0 => host.id = life.last /\ review = None
    /\ \A g \in host.handles : handle[g][host.id] # "none"

\* A handle was minted for an answered request and a host that was started; one
\* that was not revoked is the entry's, and if its grant was revoked the
\* revocation is under way; only an allow-once handle is reserved.
HandleOK(g, h) ==
    /\ handle[g][h] # "none" => h <= life.last /\ Standing(g)
    /\ handle[g][h] \in {"live", "flying", "used"} =>
         /\ host.id = h /\ g \in host.handles
         /\ grant[g] = "revoked" => g \in revoking
    /\ handle[g][h] = "flying" => g \in once

\* An allow-once grant was answered; one that yielded a result is used up.
GrantOK(g) ==
    /\ g \in once => Standing(g)
    /\ delivered[g] > 0 => /\ g \in once /\ delivered[g] = 1
                           /\ grant[g] = "consumed" /\ \A h \in Hosts : ~Live(g, h)

\* A call knows its host and, once admitted, its grant; what it was supplied was
\* minted; a call about to use the result of an allow-once grant has consumed it;
\* a call that looks for a crash knows of which host.
CallOK(c) ==
    /\ call[c].pc \in Waiting => call[c].host \in Hosts
    /\ call[c].pc \in Working \cup {"resume"} => call[c].g \in Grants /\ Standing(call[c].g)
    /\ \A g \in call[c].supplied : call[c].host \in Hosts /\ handle[g][call[c].host] # "none"
    /\ call[c].pc \in Spending /\ call[c].g \in once =>
         /\ grant[call[c].g] = "consumed" /\ delivered[call[c].g] = 0
         /\ call[c].pc = "resume" => \A h \in Hosts : ~Live(call[c].g, h)
    /\ call[c].pc \in {"failed", "recording"} => call[c].crash \in Hosts

\* One call at a time is about to use a result of an allow-once grant.
OneSpender ==
    \A c, d \in Calls :
        /\ call[c].pc \in Spending /\ call[d].pc \in Spending
        /\ call[c].g = call[d].g /\ call[c].g \in once
        => c = d

\* The host waits for a call that is under way with it, or that was leaked.
Waits ==
    host.call # None =>
        \/ \E p \in leaked : p[1] = host.call
        \/ call[host.call].pc \in Waiting /\ call[host.call].host = host.id

\* A call holds the reservation of g's handle for host h
Holds(c, g, h) == call[c].g = g /\ call[c].host = h /\ call[c].pc \in Working

\* A reservation is held by a call, or was leaked.
Reserved ==
    \A g \in Grants : \A h \in Hosts :
        handle[g][h] = "flying" => \E c \in Calls : <<c, g>> \in leaked \/ Holds(c, g, h)

CallsInv ==
    /\ TypeOK /\ EntryInv
    /\ \A g \in Grants : GrantOK(g) /\ \A h \in Hosts : HandleOK(g, h)
    /\ \A c \in Calls : CallOK(c)
    /\ OneSpender /\ Waits /\ Reserved

-----------------------------------------------------------------------------
(* What a step of a call does *)

\* Reservations are made and given back, consumption is recorded, and the host
\* stays the host.
RegistryMild ==
    /\ \A g \in Grants : \A h \in Hosts :
         \/ handle'[g][h] = handle[g][h]
         \/ handle[g][h] = "flying" /\ handle'[g][h] \in {"live", "used"}
         \/ handle[g][h] = "live" /\ handle'[g][h] = "flying" /\ g \in once
    /\ host'.id = host.id /\ host'.handles = host.handles /\ (host.id = 0 => host' = host)
    /\ \A g \in Grants : grant'[g] = grant[g] \/ (Standing(g) /\ grant'[g] = "consumed")
    /\ life'.last = life.last /\ UNCHANGED <<review, once, revoking>>

\* The entry goes, and with it every handle that was not revoked.
RegistryCleared ==
    /\ host' = NoHost
    /\ \A g \in Grants : \A h \in Hosts :
         /\ handle'[g][h] \in {"none", "revoked"}
         /\ handle'[g][h] = "none" <=> handle[g][h] = "none"
    /\ UNCHANGED <<grant, life, review, once, revoking>>

\* A call enters the last steps before a result only with the grant active.
Spends(c) ==
    call'[c].pc \in Spending =>
        \/ call[c].pc \in Spending /\ call'[c].g = call[c].g
        \/ grant[call'[c].g] = "active"

\* A result is received by a call that leaves those steps, and uses the grant up.
Delivers(c) ==
    \A g \in Grants :
        \/ delivered'[g] = delivered[g]
        \/ /\ g = call[c].g /\ g \in once /\ call[c].pc \in Spending /\ call'[c].pc \notin Spending
           /\ delivered'[g] = 1 /\ grant'[g] = "consumed"
           /\ \A h \in Hosts : handle'[g][h] \notin {"live", "flying"}

\* The host waits for whom it waited for, or for this call, which then is waiting.
AwaitedBy(c) ==
    /\ leaked \subseteq leaked'
    /\ host'.call # None =>
         /\ host'.id = host.id /\ host'.call \in {host.call, c}
         /\ host'.call = c => \/ \E p \in leaked' : p[1] = c
                              \/ call'[c].pc \in Waiting /\ call'[c].host = host'.id

\* A reservation that is new is this call's, and one it had it keeps or leaks.
ReservedBy(c) ==
    \A g \in Grants : \A h \in Hosts :
        handle'[g][h] = "flying" =>
            /\ handle[g][h] # "flying" => Holds(c, g, h)'
            /\ Holds(c, g, h) => Holds(c, g, h)' \/ <<c, g>> \in leaked'

Types(c) ==
    /\ handle' \in HandleTables /\ host' \in HostRecords /\ call' \in [Calls -> CallRecords]
    /\ grant' \in [Grants -> GrantStates]
    /\ delivered' \in [Grants -> 0..2] /\ leaked' \subseteq Calls \X (Grants \cup {None})
    /\ faults' \in 0..MaxFaults
    /\ life' \in [desired : {"disabled", "enabled"}, last : 0..MaxHosts, shown : BOOLEAN]
    /\ crashed' \subseteq Hosts
    /\ UNCHANGED <<once, due, review, answering, revoking, sweep>>

CallEffect(c) ==
    /\ Types(c)
    /\ RegistryMild \/ RegistryCleared
    /\ \A d \in Calls : d # c => call'[d] = call[d]
    /\ CallOK(c)' /\ Spends(c) /\ Delivers(c) /\ AwaitedBy(c) /\ ReservedBy(c)

\* A call that has ended
Over(k) ==
    /\ k.pc \in {"failed", "done", "returned"} /\ k.g = None /\ k.host = 0 /\ k.supplied = {}
    /\ k.pc = "failed" => k.crash \in Hosts

-----------------------------------------------------------------------------
(* The types *)

\* The parts of the type invariant, by name.
LEMMA TypeParts ==
  ASSUME TypeOK
  PROVE  /\ handle \in HandleTables /\ host \in HostRecords /\ call \in [Calls -> CallRecords]
         /\ grant \in [Grants -> GrantStates]
         /\ delivered \in [Grants -> 0..2] /\ leaked \subseteq Calls \X (Grants \cup {None})
         /\ faults \in 0..MaxFaults
         /\ life \in [desired : {"disabled", "enabled"}, last : 0..MaxHosts, shown : BOOLEAN]
         /\ crashed \subseteq Hosts /\ once \subseteq Grants /\ due \subseteq Grants
         /\ review \in Grants \cup {None}
         /\ answering \subseteq Grants /\ revoking \subseteq Grants /\ sweep \in 0..MaxHosts
BY DEF TypeOK, HandleTables, HostRecords, CallRecords, GrantStates

\* A call's types are the whole state's.
LEMMA TypesKept ==
  ASSUME TypeOK, NEW c, Types(c)
  PROVE  TypeOK'
BY DEF TypeOK, Types, HandleTables, HostRecords, CallRecords, GrantStates

\* The failures stay within their bound.
LEMMA FaultType ==
  ASSUME TypeOK, Fault \/ NoFault
  PROVE  faults' \in 0..MaxFaults
BY CallsAssumption DEF TypeOK, Fault, NoFault

\* invalidate_host leaves a revoked handle where there was one.
LEMMA InvalidatedEffect ==
  ASSUME NEW hs \in HandleTables, NEW h \in Hosts
  PROVE  /\ Invalidated(hs, h) \in HandleTables
         /\ \A g \in Grants : Invalidated(hs, h)[g][h] = IF hs[g][h] = "none" THEN "none" ELSE "revoked"
         /\ \A g \in Grants : \A x \in Hosts : x # h => Invalidated(hs, h)[g][x] = hs[g][x]
BY DEF Invalidated, HandleTables, HandleStates

\* A call that goes on keeps all it knows, and the other calls are not touched.
LEMMA GotoEffect ==
  ASSUME TypeOK, NEW c \in Calls, NEW pc \in PCs, Goto(c, pc)
  PROVE  /\ call' \in [Calls -> CallRecords]
         /\ call'[c].pc = pc /\ call'[c].g = call[c].g /\ call'[c].host = call[c].host
         /\ call'[c].supplied = call[c].supplied /\ call'[c].crash = call[c].crash
         /\ \A d \in Calls : d # c => call'[d] = call[d]
<1>1. call \in [Calls -> CallRecords]
  BY TypeParts
<1>2. /\ [call[c] EXCEPT !.pc = pc] \in CallRecords
      /\ [call[c] EXCEPT !.pc = pc].pc = pc /\ [call[c] EXCEPT !.pc = pc].g = call[c].g
      /\ [call[c] EXCEPT !.pc = pc].host = call[c].host
      /\ [call[c] EXCEPT !.pc = pc].supplied = call[c].supplied
      /\ [call[c] EXCEPT !.pc = pc].crash = call[c].crash
  BY <1>1 DEF CallRecords
<1>3. call' = [call EXCEPT ![c] = [call[c] EXCEPT !.pc = pc]]
  BY DEF Goto
<1>. HIDE DEF CallRecords
<1>. QED BY <1>1, <1>2, <1>3

\* What a call leaves when it ends is a call record.
LEMMA EndedEffect ==
  /\ \A pc \in {"done", "returned"} : Ended(pc) \in CallRecords /\ Over(Ended(pc))
  /\ \A h \in Hosts : LET k == [Ended("failed") EXCEPT !.crash = h] IN k \in CallRecords /\ Over(k)
<1>1. ASSUME NEW pc \in {"done", "returned", "failed"}
      PROVE  Ended(pc) = [pc |-> pc, kind |-> "none", crash |-> 0, host |-> 0, g |-> None, supplied |-> {}]
  BY DEF Ended, Idle
<1>2. 0 \in 0..MaxHosts /\ Hosts \subseteq 0..MaxHosts /\ {"done", "returned", "failed"} \subseteq PCs
  BY CallsAssumption DEF PCs, Hosts
<1>3. ASSUME NEW pc \in {"done", "returned"} PROVE Ended(pc) \in CallRecords /\ Over(Ended(pc))
  BY <1>1, <1>2, <1>3 DEF CallRecords, Over
<1>4. ASSUME NEW h \in Hosts
      PROVE  [Ended("failed") EXCEPT !.crash = h] \in CallRecords /\ Over([Ended("failed") EXCEPT !.crash = h])
  <2>1. [Ended("failed") EXCEPT !.crash = h]
          = [pc |-> "failed", kind |-> "none", crash |-> h, host |-> 0, g |-> None, supplied |-> {}]
    BY <1>1
  <2>. QED BY <1>2, <2>1 DEF CallRecords, Over
<1>. QED BY <1>3, <1>4

\* Whatever a call's error, the call is over.
LEMMA FailedEffect ==
  ASSUME NEW k \in CallRecords
  PROVE  Failed(k) \in CallRecords /\ Over(Failed(k))
<1>1. k.crash # 0 => k.crash \in Hosts
  BY CallsAssumption DEF CallRecords, Hosts
<1>. QED BY <1>1, EndedEffect DEF Failed

\* A call that is given a new record is the only one that changes.
LEMMA PutEffect ==
  ASSUME TypeOK, NEW c \in Calls, NEW k \in CallRecords, call' = [call EXCEPT ![c] = k]
  PROVE  call' \in [Calls -> CallRecords] /\ call'[c] = k /\ \A d \in Calls : d # c => call'[d] = call[d]
BY TypeParts

\* Fail ends the call.
LEMMA FailEffect ==
  ASSUME TypeOK, NEW c \in Calls, Fail(c)
  PROVE  call' \in [Calls -> CallRecords] /\ Over(call'[c]) /\ \A d \in Calls : d # c => call'[d] = call[d]
<1>1. call[c] \in CallRecords
  BY TypeParts
<1>2. call' = [call EXCEPT ![c] = Failed(call[c])]
  BY DEF Fail
<1>. QED BY <1>1, <1>2, FailedEffect, PutEffect

\* End ends it without a crash to look for.
LEMMA EndEffect ==
  ASSUME TypeOK, NEW c \in Calls, NEW pc \in {"done", "returned"}, End(c, pc)
  PROVE  call' \in [Calls -> CallRecords] /\ Over(call'[c]) /\ \A d \in Calls : d # c => call'[d] = call[d]
<1>1. Ended(pc) \in CallRecords /\ Over(Ended(pc))
  BY EndedEffect
<1>. QED BY <1>1, PutEffect DEF End

\* A call that is over owes nothing.
LEMMA OverOK ==
  ASSUME NEW c, Over(call'[c])
  PROVE  CallOK(c)' /\ Spends(c) /\ call'[c].pc \notin Spending /\ call'[c].pc \notin Waiting /\ call'[c].pc \notin Working
BY DEF Over, CallOK, Spends, Spending, Waiting, Working, Suspended, Held, Aborting

\* The host as it is after fail or after its call is taken from it.
LEMMA HostParts ==
  ASSUME NEW hst \in HostRecords
  PROVE  /\ Quarantined(hst) \in HostRecords /\ Quarantined(hst).id = hst.id
         /\ Quarantined(hst).handles = hst.handles /\ Quarantined(hst).call = None
         /\ [hst EXCEPT !.call = None, !.steps = 0] \in HostRecords
         /\ [hst EXCEPT !.call = None, !.steps = 0].id = hst.id
         /\ [hst EXCEPT !.call = None, !.steps = 0].handles = hst.handles
         /\ [hst EXCEPT !.call = None, !.steps = 0].call = None
<1>1. 0 \in 0..MaxSteps
  BY CallsAssumption
<1>2. /\ [hst EXCEPT !.call = None, !.steps = 0] \in HostRecords
      /\ [hst EXCEPT !.call = None, !.steps = 0].id = hst.id
      /\ [hst EXCEPT !.call = None, !.steps = 0].handles = hst.handles
      /\ [hst EXCEPT !.call = None, !.steps = 0].call = None
  BY <1>1 DEF HostRecords
<1>3. /\ Quarantined(hst) \in HostRecords /\ Quarantined(hst).id = hst.id
      /\ Quarantined(hst).handles = hst.handles /\ Quarantined(hst).call = None
  BY <1>1 DEF HostRecords, Quarantined
<1>. QED BY <1>2, <1>3

\* No host is a host record too.
LEMMA NoHostParts == NoHost \in HostRecords /\ NoHost.id = 0 /\ NoHost.call = None /\ NoHost.handles = {}
BY CallsAssumption DEF NoHost, HostRecords

-----------------------------------------------------------------------------
(* What follows from the effect of a call's step *)

\* Answered requests stay answered, consumed grants consumed and without a live
\* handle, and minted handles minted.
Ages ==
    /\ \A g \in Grants : Standing(g) => grant'[g] \notin {"none", "pending"}
    /\ \A g \in Grants : grant[g] = "consumed" => grant'[g] = "consumed"
    /\ \A g \in Grants : \A h \in Hosts :
         /\ handle[g][h] # "none" => handle'[g][h] # "none"
         /\ grant[g] = "consumed" /\ ~Live(g, h) => handle'[g][h] \notin {"live", "flying"}
    /\ once \subseteq once'
    /\ \A g \in once' : g \in once \/ (grant[g] = "pending" /\ grant'[g] \notin {"none", "pending"})

\* Neither a mild step nor a clearing one turns time back.
LEMMA EffectAges ==
  ASSUME CallsInv, RegistryMild \/ RegistryCleared
  PROVE  Ages
<1>1. CASE RegistryMild
  <2>1. ASSUME NEW g \in Grants, NEW h \in Hosts
        PROVE  /\ handle[g][h] # "none" => handle'[g][h] # "none"
               /\ ~Live(g, h) => handle'[g][h] \notin {"live", "flying"}
    BY <1>1 DEF RegistryMild, Live
  <2>. QED BY <1>1, <2>1 DEF RegistryMild, Ages, Standing
<1>2. CASE RegistryCleared
  BY <1>2 DEF RegistryCleared, Ages, Standing
<1>. QED BY <1>1, <1>2

\* A mild step keeps entry and handles together.
LEMMA MildRegistry ==
  ASSUME CallsInv, RegistryMild
  PROVE  EntryInv' /\ \A g \in Grants : \A h \in Hosts : HandleOK(g, h)'
<1>0. /\ host \in HostRecords /\ once \subseteq Grants
      /\ EntryInv
  BY TypeParts DEF CallsInv
<1>1. ASSUME NEW g \in Grants, NEW h \in Hosts PROVE HandleOK(g, h)'
  <2>1. HandleOK(g, h)
    BY DEF CallsInv
  <2>2. \/ handle'[g][h] = handle[g][h]
        \/ handle[g][h] = "flying" /\ handle'[g][h] \in {"live", "used"}
        \/ handle[g][h] = "live" /\ handle'[g][h] = "flying" /\ g \in once
    BY DEF RegistryMild
  <2>3. /\ grant'[g] = grant[g] \/ (Standing(g) /\ grant'[g] = "consumed")
        /\ life'.last = life.last /\ once' = once /\ revoking' = revoking
        /\ host'.id = host.id /\ host'.handles = host.handles
    BY DEF RegistryMild
  <2>. QED BY <2>1, <2>2, <2>3 DEF HandleOK, Standing
<1>2. EntryInv'
  <2>1. /\ host'.id = host.id /\ host'.handles = host.handles /\ (host.id = 0 => host' = host)
        /\ life'.last = life.last /\ review' = review
    BY DEF RegistryMild
  <2>2. ASSUME NEW g \in host'.handles PROVE handle'[g][host'.id] # "none"
    <3>1. g \in Grants /\ handle[g][host.id] # "none" /\ g \in host.handles
      BY <1>0, <2>1, <2>2 DEF HostRecords, EntryInv
    <3>2. host.id \in Hosts
      <4>1. host.id # 0
        BY <1>0, <3>1, NoHostParts DEF EntryInv
      <4>. QED BY <1>0, <4>1, CallsAssumption DEF HostRecords, Hosts
    <3>. QED BY <2>1, <3>1, <3>2 DEF RegistryMild
  <2>. QED BY <1>0, <2>1, <2>2 DEF EntryInv
<1>. QED BY <1>1, <1>2

\* A cleared registry holds nothing.
LEMMA ClearedRegistry ==
  ASSUME CallsInv, RegistryCleared
  PROVE  EntryInv' /\ \A g \in Grants : \A h \in Hosts : HandleOK(g, h)'
<1>1. ASSUME NEW g \in Grants, NEW h \in Hosts PROVE HandleOK(g, h)'
  <2>1. HandleOK(g, h)
    BY DEF CallsInv
  <2>2. /\ handle'[g][h] \in {"none", "revoked"} /\ (handle'[g][h] = "none" <=> handle[g][h] = "none")
        /\ life' = life /\ grant' = grant
    BY DEF RegistryCleared
  <2>. QED BY <2>1, <2>2 DEF HandleOK, Standing
<1>2. EntryInv'
  BY NoHostParts DEF RegistryCleared, EntryInv
<1>. QED BY <1>1, <1>2

\* A call that a step does not touch stays right while the registry ages, unless
\* the step delivers the result it was about to use.
LEMMA OtherCall ==
  ASSUME CallsInv, Ages, NEW d \in Calls, call'[d] = call[d],
         call[d].pc \in Spending => delivered'[call[d].g] = delivered[call[d].g]
  PROVE  CallOK(d)'
<1>. DEFINE k == call[d]
<1>0. CallOK(d) /\ k \in CallRecords
  BY TypeParts DEF CallsInv
<1>1. k.pc \in Waiting => k.host \in Hosts
  BY <1>0 DEF CallOK
<1>2. k.pc \in Working \cup {"resume"} => k.g \in Grants /\ grant'[k.g] \notin {"none", "pending"}
  BY <1>0 DEF CallOK, Ages
<1>3. \A g \in k.supplied : k.host \in Hosts /\ handle'[g][k.host] # "none"
  BY <1>0 DEF CallOK, Ages, CallRecords
<1>4. ASSUME k.pc \in Spending, k.g \in once'
      PROVE  /\ grant'[k.g] = "consumed" /\ delivered'[k.g] = 0
             /\ k.pc = "resume" => \A h \in Hosts : handle'[k.g][h] \notin {"live", "flying"}
  <2>1. k.g \in Grants /\ Standing(k.g)
    BY <1>0, <1>4 DEF CallOK, Spending, Working, Held
  <2>2. k.g \in once
    BY <1>4, <2>1 DEF Ages, Standing
  <2>3. /\ grant[k.g] = "consumed" /\ delivered[k.g] = 0
        /\ k.pc = "resume" => \A h \in Hosts : ~Live(k.g, h)
    BY <1>0, <1>4, <2>2 DEF CallOK
  <2>. QED BY <1>4, <2>1, <2>3 DEF Ages
<1>5. k.pc \in {"failed", "recording"} => k.crash \in Hosts
  BY <1>0 DEF CallOK
<1>. QED BY <1>1, <1>2, <1>3, <1>4, <1>5 DEF CallOK, Standing, Live

\* A result is published by the step of its own call.
LEMMA OthersUntouched ==
  ASSUME NEW d, CallEffect(d), NEW c \in Calls, call[c].pc = "finish", call'[c].pc = "returned"
  PROVE  c = d
<1>1. c # d => call'[c] = call[c]
  BY DEF CallEffect
<1>. QED BY <1>1

\* The invariant is kept by whatever has the effect of a call's step.
LEMMA EffectKeeps ==
  ASSUME CallsInv, NEW c \in Calls, CallEffect(c)
  PROVE  CallsInv'
<1>0. Ages
  BY EffectAges DEF CallEffect
<1>1. TypeOK'
  BY TypesKept DEF CallsInv, CallEffect
<1>2. EntryInv' /\ \A g \in Grants : \A h \in Hosts : HandleOK(g, h)'
  BY MildRegistry, ClearedRegistry DEF CallEffect
<1>3. Types(c) /\ once' = once
  BY DEF CallEffect, Types
<1>4. ASSUME NEW g \in Grants PROVE GrantOK(g)'
  <2>1. GrantOK(g)
    BY DEF CallsInv
  <2>2. g \in once' => grant'[g] \notin {"none", "pending"}
    BY <1>0, <1>3, <2>1 DEF GrantOK, Ages
  <2>3. CASE delivered'[g] = delivered[g]
    BY <1>0, <1>3, <2>1, <2>2, <2>3 DEF GrantOK, Ages, Standing, Live
  <2>4. CASE /\ g \in once /\ delivered'[g] = 1 /\ grant'[g] = "consumed"
             /\ \A h \in Hosts : handle'[g][h] \notin {"live", "flying"}
    BY <1>3, <2>2, <2>4 DEF GrantOK, Standing, Live
  <2>. QED BY <2>3, <2>4 DEF CallEffect, Delivers
<1>5. ASSUME NEW d \in Calls, d # c PROVE CallOK(d)'
  <2>1. call'[d] = call[d]
    BY <1>5 DEF CallEffect
  <2>2. ASSUME call[d].pc \in Spending PROVE delivered'[call[d].g] = delivered[call[d].g]
    <3>1. call[d].g \in Grants
      BY <2>2 DEF CallsInv, CallOK, Spending, Working, Held
    <3>. QED BY <1>5, <2>2, <3>1 DEF CallEffect, Delivers, CallsInv, OneSpender
  <2>. QED BY <1>0, <2>1, <2>2, OtherCall
<1>6. \A d \in Calls : CallOK(d)'
  BY <1>5 DEF CallEffect
<1>7. OneSpender'
  <2>1. ASSUME NEW d \in Calls, d # c, call'[c].pc \in Spending, call'[d].pc \in Spending,
               call'[c].g = call'[d].g, call'[c].g \in once
        PROVE  FALSE
    <3>1. call'[d] = call[d] /\ Spends(c)
      BY <2>1 DEF CallEffect
    <3>2. grant[call[d].g] = "consumed"
      BY <2>1, <3>1 DEF CallsInv, CallOK
    <3>3. call[c].pc \in Spending /\ call'[c].g = call[c].g
      BY <2>1, <3>1, <3>2 DEF Spends
    <3>. QED BY <2>1, <3>1, <3>3 DEF CallsInv, OneSpender
  <2>2. ASSUME NEW d \in Calls, NEW e \in Calls, d # c, e # c,
               call'[e].pc \in Spending, call'[d].pc \in Spending,
               call'[e].g = call'[d].g, call'[e].g \in once
        PROVE  d = e
    <3>1. call'[d] = call[d] /\ call'[e] = call[e]
      BY <2>2 DEF CallEffect
    <3>. QED BY <2>2, <3>1 DEF CallsInv, OneSpender
  <2>. QED BY <1>3, <2>1, <2>2 DEF OneSpender
<1>8. Waits'
  <2>1. SUFFICES ASSUME host'.call # None
                 PROVE  \/ \E p \in leaked' : p[1] = host'.call
                        \/ call'[host'.call].pc \in Waiting /\ call'[host'.call].host = host'.id
    BY DEF Waits
  <2>2. host'.id = host.id /\ host'.call \in {host.call, c} /\ leaked \subseteq leaked'
    BY <2>1 DEF CallEffect, AwaitedBy
  <2>3. CASE host'.call = c
    BY <2>1, <2>3 DEF CallEffect, AwaitedBy
  <2>4. CASE host'.call # c
    <3>1. host'.call = host.call /\ host.call \in Calls
      BY <2>1, <2>2, <2>4, TypeParts DEF HostRecords, CallsInv
    <3>2. call'[host.call] = call[host.call]
      BY <2>4, <3>1 DEF CallEffect
    <3>. QED BY <2>1, <2>2, <3>1, <3>2 DEF CallsInv, Waits
  <2>. QED BY <2>3, <2>4
<1>9. Reserved'
  <2>1. ASSUME NEW g \in Grants, NEW h \in Hosts, handle'[g][h] = "flying"
        PROVE  \E d \in Calls : <<d, g>> \in leaked' \/ (call'[d].g = g /\ call'[d].host = h /\ call'[d].pc \in Working)
    <3>1. ReservedBy(c) /\ leaked \subseteq leaked' /\ \A d \in Calls : d # c => call'[d] = call[d]
      BY DEF CallEffect, AwaitedBy
    <3>2. CASE handle[g][h] # "flying"
      BY <2>1, <3>1, <3>2 DEF ReservedBy, Holds
    <3>3. CASE handle[g][h] = "flying"
      <4>1. PICK d \in Calls : <<d, g>> \in leaked \/ Holds(d, g, h)
        BY <3>3 DEF CallsInv, Reserved
      <4>2. CASE <<d, g>> \in leaked
        BY <3>1, <4>2
      <4>3. CASE Holds(d, g, h) /\ d # c
        BY <3>1, <4>3 DEF Holds
      <4>4. CASE Holds(d, g, h) /\ d = c
        BY <2>1, <3>1, <4>4 DEF Holds, ReservedBy
      <4>. QED BY <4>1, <4>2, <4>3, <4>4
    <3>. QED BY <3>2, <3>3
  <2>. QED BY <2>1 DEF Reserved, Holds
<1>. QED BY <1>1, <1>2, <1>4, <1>6, <1>7, <1>8, <1>9 DEF CallsInv

-----------------------------------------------------------------------------
(* The steps of a call *)

\* hs is the table of handles, with reservations given back or used up
Mild(hs) ==
    /\ hs \in HandleTables
    /\ \A g \in Grants : \A h \in Hosts :
         hs[g][h] = handle[g][h] \/ (handle[g][h] = "flying" /\ hs[g][h] \in {"live", "used"})

\* The host stays, whatever call it is busy with
HostMild ==
    /\ host' \in HostRecords
    /\ host'.id = host.id /\ host'.handles = host.handles /\ (host.id = 0 => host' = host)

\* What the steps of a call leave alone
Aside == UNCHANGED <<once, life, crashed, due, review, answering, revoking, sweep>>

\* The facts about types that the steps use.
LEMMA Facts ==
  ASSUME CallsInv
  PROVE  /\ TypeOK /\ handle \in HandleTables /\ host \in HostRecords /\ call \in [Calls -> CallRecords]
         /\ grant \in [Grants -> GrantStates] /\ once \subseteq Grants
         /\ delivered \in [Grants -> 0..2] /\ leaked \subseteq Calls \X (Grants \cup {None})
         /\ EntryInv /\ (host.id = 0 => host = NoHost /\ host.call = None)
         /\ (host.id # 0 => host.id \in Hosts)
         /\ \A g \in Grants : \A h \in Hosts : HandleOK(g, h)
         /\ Mild(handle)
<1>1. TypeOK /\ EntryInv /\ \A g \in Grants : \A h \in Hosts : HandleOK(g, h)
  BY DEF CallsInv
<1>2. host \in HostRecords /\ handle \in HandleTables
  BY <1>1, TypeParts
<1>3. host.id # 0 => host.id \in Hosts
  BY <1>2, CallsAssumption DEF HostRecords, Hosts
<1>4. host.id = 0 => host = NoHost /\ host.call = None
  BY <1>1, NoHostParts DEF EntryInv
<1>. QED BY <1>1, <1>2, <1>3, <1>4, TypeParts DEF Mild

\* Types and registry of a step that is mild about handles and host.
LEMMA MildTypes ==
  ASSUME CallsInv, NEW c, Mild(handle'), HostMild, Aside, UNCHANGED grant,
         call' \in [Calls -> CallRecords], delivered' \in [Grants -> 0..2],
         leaked' \subseteq Calls \X (Grants \cup {None}), Fault \/ NoFault
  PROVE  Types(c) /\ RegistryMild
<1>1. Types(c)
  BY TypeParts, FaultType DEF CallsInv, Types, Mild, HostMild, Aside
<1>2. RegistryMild
  BY DEF RegistryMild, Mild, HostMild, Aside
<1>. QED BY <1>1, <1>2

\* complete is mild.
LEMMA CompletedMild ==
  ASSUME CallsInv, NEW g \in Grants, NEW h \in Hosts, NEW state \in {"live", "used"}
  PROVE  /\ Mild(Completed(handle, g, h, state))
         /\ Completed(handle, g, h, state)[g][h] # "flying"
<1>1. handle \in HandleTables
  BY Facts
<1>2. CASE handle[g][h] = "flying"
  <2>1. Completed(handle, g, h, state) = [handle EXCEPT ![g][h] = state]
    BY <1>2 DEF Completed
  <2>. QED BY <1>1, <1>2, <2>1 DEF Mild, HandleTables, HandleStates
<1>3. CASE handle[g][h] # "flying"
  <2>1. Completed(handle, g, h, state) = handle
    BY <1>3 DEF Completed
  <2>. QED BY <1>1, <1>3, <2>1 DEF Mild
<1>. QED BY <1>2, <1>3

\* remove_active_plugin revokes all there is.
LEMMA RemovedClears ==
  ASSUME CallsInv, NEW hs, Mild(hs)
  PROVE  /\ Removed(hs) \in HandleTables
         /\ \A g \in Grants : \A h \in Hosts :
              /\ Removed(hs)[g][h] \in {"none", "revoked"}
              /\ Removed(hs)[g][h] = "none" <=> handle[g][h] = "none"
<1>1. \A g \in Grants : \A h \in Hosts :
        /\ hs[g][h] \in HandleStates /\ handle[g][h] \in HandleStates
        /\ h # 0 /\ HandleOK(g, h)
        /\ hs[g][h] = handle[g][h] \/ (handle[g][h] = "flying" /\ hs[g][h] \in {"live", "used"})
  BY Facts, CallsAssumption DEF Mild, HandleTables, Hosts
<1>2. \A g \in Grants : \A h \in Hosts :
        /\ hs[g][h] = "none" <=> handle[g][h] = "none"
        /\ hs[g][h] \in {"none", "revoked"} \/ host.id = h
  BY <1>1 DEF HandleOK, HandleStates
<1>3. CASE host.id = 0
  BY <1>1, <1>2, <1>3 DEF Removed, Mild
<1>4. CASE host.id # 0
  <2>1. host.id \in Hosts /\ Removed(hs) = Invalidated(hs, host.id) /\ hs \in HandleTables
    BY <1>4, Facts DEF Removed, Mild
  <2>2. /\ Removed(hs) \in HandleTables
        /\ \A g \in Grants : Removed(hs)[g][host.id] = IF hs[g][host.id] = "none" THEN "none" ELSE "revoked"
        /\ \A g \in Grants : \A x \in Hosts : x # host.id => Removed(hs)[g][x] = hs[g][x]
    BY <2>1, InvalidatedEffect
  <2>. QED BY <1>2, <2>1, <2>2
<1>. QED BY <1>3, <1>4

\* A call that ends has the effect of a step if the host does not wait for it any
\* more and its reservation is given back.
LEMMA OverEffect ==
  ASSUME CallsInv, NEW c \in Calls, Over(call'[c]), \A d \in Calls : d # c => call'[d] = call[d],
         Types(c), RegistryMild, UNCHANGED delivered, leaked \subseteq leaked',
         host'.call \in {None, host.call}, host'.call = c => \E p \in leaked' : p[1] = c,
         \A g \in Grants : \A h \in Hosts : handle'[g][h] = "flying" =>
            handle[g][h] = "flying" /\ (Holds(c, g, h) => <<c, g>> \in leaked')
  PROVE  CallEffect(c)
<1>1. CallOK(c)' /\ Spends(c) /\ Delivers(c)
  BY OverOK DEF Delivers
<1>2. AwaitedBy(c)
  BY DEF AwaitedBy, RegistryMild
<1>3. ReservedBy(c)
  BY DEF ReservedBy
<1>. QED BY <1>1, <1>2, <1>3 DEF CallEffect

\* A call that ends by having the entry removed.
LEMMA ClearedEffect ==
  ASSUME CallsInv, NEW c \in Calls, call' \in [Calls -> CallRecords],
         CallOK(c)', Spends(c), \A d \in Calls : d # c => call'[d] = call[d],
         NEW hs, Mild(hs), handle' = Removed(hs), host' = NoHost, Aside, Fault \/ NoFault,
         UNCHANGED <<grant, delivered, leaked>>
  PROVE  CallEffect(c)
<1>1. /\ handle' \in HandleTables
      /\ \A g \in Grants : \A h \in Hosts :
           /\ handle'[g][h] \in {"none", "revoked"}
           /\ handle'[g][h] = "none" <=> handle[g][h] = "none"
  BY RemovedClears
<1>2. Types(c)
  BY <1>1, TypeParts, FaultType, NoHostParts DEF CallsInv, Types, Aside
<1>3. RegistryCleared
  BY <1>1 DEF RegistryCleared, Aside
<1>4. Delivers(c) /\ AwaitedBy(c)
  BY NoHostParts DEF Delivers, AwaitedBy
<1>5. ReservedBy(c)
  BY <1>1 DEF ReservedBy
<1>. QED BY <1>2, <1>3, <1>4, <1>5 DEF CallEffect

\* A call that goes on without touching the registry.
LEMMA GotoKeeps ==
  ASSUME CallsInv, NEW c \in Calls, NEW pc \in Waiting \ Spending, Goto(c, pc), call[c].pc \in Waiting,
         pc \in Working => call[c].pc \in Working, call[c].pc \in Working => pc \in Working,
         UNCHANGED <<handle, host, grant, delivered, leaked>>, Aside, Fault \/ NoFault
  PROVE  CallEffect(c)
<1>1. pc \in PCs /\ pc # "resume" /\ pc \notin {"failed", "recording"}
  BY DEF Waiting, PCs, Suspended, Held, Aborting, Spending
<1>2. /\ call' \in [Calls -> CallRecords]
      /\ call'[c].pc = pc /\ call'[c].g = call[c].g /\ call'[c].host = call[c].host
      /\ call'[c].supplied = call[c].supplied
      /\ \A d \in Calls : d # c => call'[d] = call[d]
  BY <1>1, Facts, GotoEffect
<1>3. Types(c) /\ RegistryMild
  BY <1>2, Facts, MildTypes DEF HostMild
<1>4. CallOK(c)
  BY DEF CallsInv
<1>5. CallOK(c)'
  BY <1>1, <1>2, <1>4 DEF CallOK, Standing
<1>6. Spends(c) /\ Delivers(c)
  BY <1>2 DEF Spends, Delivers
<1>7. AwaitedBy(c)
  <2>1. host.call = c => \/ \E p \in leaked : p[1] = c
                         \/ call[c].host = host.id
    BY CallsAssumption DEF CallsInv, Waits
  <2>. QED BY <1>2, <2>1 DEF AwaitedBy
<1>8. ReservedBy(c)
  BY <1>2 DEF ReservedBy, Holds
<1>. QED BY <1>2, <1>3, <1>5, <1>6, <1>7, <1>8 DEF CallEffect

\* A call that returns at once and keeps what it holds is leaked.
LEMMA LeakKeeps ==
  ASSUME CallsInv, NEW c \in Calls, NEW g \in Grants \cup {None}, Leak(c, g),
         Mild(handle'), UNCHANGED <<host, grant, delivered>>, Aside, Fault \/ NoFault,
         \A x \in Grants : \A h \in Hosts : handle'[x][h] = "flying" /\ Holds(c, x, h) => x = g
  PROVE  CallEffect(c)
<1>1. /\ call' \in [Calls -> CallRecords] /\ Over(call'[c]) /\ leaked' = leaked \cup {<<c, g>>}
      /\ \A d \in Calls : d # c => call'[d] = call[d]
  BY Facts, FailEffect DEF Leak
<1>2. Types(c) /\ RegistryMild
  BY <1>1, Facts, MildTypes DEF HostMild
<1>3. \A x \in Grants : \A h \in Hosts : handle'[x][h] = "flying" =>
            handle[x][h] = "flying" /\ (Holds(c, x, h) => <<c, x>> \in leaked')
  BY <1>1 DEF Mild
<1>4. \E p \in leaked' : p[1] = c
  <2>1. <<c, g>> \in leaked' /\ <<c, g>>[1] = c
    BY <1>1
  <2>. QED BY <2>1
<1>. QED BY <1>1, <1>2, <1>3, <1>4, OverEffect

\* A call that fails when it holds nothing.
LEMMA FailKeeps ==
  ASSUME CallsInv, NEW c \in Calls, Over(call'[c]), call' \in [Calls -> CallRecords],
         \A d \in Calls : d # c => call'[d] = call[d],
         Mild(handle'), HostMild, Aside, Fault \/ NoFault, UNCHANGED <<grant, delivered, leaked>>,
         host'.call \in {None, host.call}, host'.call = c => \E p \in leaked : p[1] = c,
         \A g \in Grants : \A h \in Hosts : handle'[g][h] = "flying" => ~Holds(c, g, h)
  PROVE  CallEffect(c)
<1>1. Types(c) /\ RegistryMild
  BY Facts, MildTypes
<1>2. \A g \in Grants : \A h \in Hosts : handle'[g][h] = "flying" =>
            handle[g][h] = "flying" /\ (Holds(c, g, h) => <<c, g>> \in leaked')
  BY DEF Mild
<1>. QED BY <1>1, <1>2, OverEffect

\* A call the host does not wait for is not waiting, or was leaked.
LEMMA NotAwaited ==
  ASSUME CallsInv, NEW c \in Calls, call[c].pc \notin Waiting \/ call[c].host # host.id \/ host.id = 0
  PROVE  host.call = c => \E p \in leaked : p[1] = c
<1>1. host.id = 0 => host.call # c
  BY Facts, CallsAssumption
<1>. QED BY <1>1, CallsAssumption DEF CallsInv, Waits

\* Only a call at work holds anything.
LEMMA HoldsNothing ==
  ASSUME NEW c, call[c].pc \notin Working
  PROVE  \A g \in Grants : \A h \in Hosts : ~Holds(c, g, h)
BY DEF Holds

\* Identify
LEMMA IdentifyEffect ==
  ASSUME CallsInv, NEW c \in Calls, Identify(c)
  PROVE  CallEffect(c)
<1>1. PICK k \in Kinds : call' = [call EXCEPT ![c] = [call[c] EXCEPT !.pc = "begin", !.kind = k, !.crash = host.id]]
  BY DEF Identify
<1>2. /\ call[c].pc = "idle" /\ UNCHANGED <<handle, host, grant, delivered, leaked>> /\ Aside /\ NoFault
  BY DEF Identify, durables, durable, others, Aside
<1>3. PICK n : n = [call[c] EXCEPT !.pc = "begin", !.kind = k, !.crash = host.id]
  OBVIOUS
<1>4. /\ n \in CallRecords /\ n.pc = "begin" /\ n.host = call[c].host /\ n.supplied = call[c].supplied
  BY <1>3, Facts DEF CallRecords, PCs, HostRecords
<1>5. call' \in [Calls -> CallRecords] /\ call'[c] = n /\ \A d \in Calls : d # c => call'[d] = call[d]
  BY <1>1, <1>3, <1>4, Facts, PutEffect
<1>6. Types(c) /\ RegistryMild
  BY <1>2, <1>5, Facts, MildTypes DEF HostMild
<1>7. CallOK(c)' /\ Spends(c) /\ Delivers(c)
  BY <1>2, <1>4, <1>5 DEF CallsInv, CallOK, Spends, Delivers, Waiting, Suspended, Held, Aborting, Working, Spending
<1>8. AwaitedBy(c)
  <2>1. call[c].pc \notin Waiting
    BY <1>2 DEF Waiting, Suspended, Held, Aborting
  <2>. QED BY <1>2, <2>1, NotAwaited DEF AwaitedBy
<1>9. ReservedBy(c)
  BY <1>2 DEF ReservedBy, Holds, Working, Held
<1>. QED BY <1>5, <1>6, <1>7, <1>8, <1>9 DEF CallEffect

\* The record of a call that the guest has begun with, and what it may become.
LEMMA BegunRecord ==
  ASSUME CallsInv, NEW c \in Calls, host.id # 0
  PROVE  LET k == [call[c] EXCEPT !.host = host.id, !.supplied = host.handles] IN
         /\ k \in CallRecords /\ k.host = host.id /\ k.supplied = host.handles
         /\ k.kind = call[c].kind /\ k.pc = call[c].pc
BY Facts DEF CallRecords, HostRecords

\* A call that ends goes to its finish or is over.
LEMMA EndOfEffect ==
  ASSUME NEW k \in CallRecords
  PROVE  /\ EndOf(k) \in CallRecords
         /\ Over(EndOf(k)) \/ (EndOf(k).pc = "finish" /\ EndOf(k).host = k.host /\ EndOf(k).supplied = k.supplied)
<1>1. CASE k.kind = "contribution"
  <2>1. EndOf(k) = [k EXCEPT !.pc = "finish"]
    BY <1>1 DEF EndOf
  <2>. QED BY <2>1 DEF CallRecords, PCs
<1>2. CASE k.kind # "contribution"
  <2>1. EndOf(k) = Ended("returned") /\ 0 \in 0..MaxHosts
    BY <1>2, CallsAssumption DEF EndOf
  <2>. QED BY <2>1, EndedEffect
<1>. QED BY <1>1, <1>2

\* A call at its finish, or over, is right if what it was supplied was minted.
LEMMA FinishOK ==
  ASSUME NEW c,
         \/ Over(call'[c])
         \/ /\ call'[c].pc = "finish"
            /\ \A g \in call'[c].supplied : call'[c].host \in Hosts /\ handle'[g][call'[c].host] # "none"
  PROVE  CallOK(c)' /\ Spends(c) /\ call'[c].pc \notin Spending /\ call'[c].pc \notin Waiting
<1>1. CASE Over(call'[c])
  BY <1>1, OverOK
<1>2. CASE call'[c].pc = "finish"
  BY <1>2 DEF CallOK, Spends, Spending, Waiting, Suspended, Held, Aborting, Working, Over
<1>. QED BY <1>1, <1>2

\* Begin
LEMMA BeginEffect ==
  ASSUME CallsInv, NEW c \in Calls, Begin(c)
  PROVE  CallEffect(c)
<1>1. call[c].pc = "begin" /\ UNCHANGED <<handle, grant, delivered, leaked>> /\ Aside /\ (Fault \/ NoFault)
  BY DEF Begin, GuestBegins, durables, durable, others, Aside
<1>2. call[c].pc \notin Waiting /\ call[c].pc \notin Working
  BY <1>1 DEF Waiting, Suspended, Held, Aborting, Working
<1>3. host.call = c => \E p \in leaked : p[1] = c
  BY <1>2, NotAwaited
<1>4. \A g \in Grants : \A h \in Hosts : ~Holds(c, g, h)
  BY <1>2, HoldsNothing
<1>5. ASSUME call' \in [Calls -> CallRecords], Over(call'[c]), \A d \in Calls : d # c => call'[d] = call[d],
             host' = host \/ (host.id # 0 /\ host' = Quarantined(host))
      PROVE  CallEffect(c)
  <2>1. HostMild /\ host'.call \in {None, host.call} /\ (host'.call = c => host.call = c)
    BY <1>5, Facts, HostParts, CallsAssumption DEF HostMild
  <2>. QED BY <1>1, <1>3, <1>4, <1>5, <2>1, Facts, FailKeeps
<1>6. CASE Fail(c) /\ host' = host
  BY <1>5, <1>6, Facts, FailEffect
<1>7. CASE host.state = "active" /\ BusyBegin(c)
  <2>1. host.id # 0
    BY <1>7, Facts DEF NoHost
  <2>. QED BY <1>5, <1>7, <2>1, Facts, FailEffect DEF BusyBegin
<1>8. CASE host.state = "active" /\ host.call = None /\ GuestBegins(c)
  <2>. DEFINE k == [call[c] EXCEPT !.host = host.id, !.supplied = host.handles]
  <2>1. host.id # 0 /\ host.id \in Hosts
    BY <1>8, Facts DEF NoHost
  <2>2. /\ k \in CallRecords /\ k.host = host.id /\ k.supplied = host.handles
        /\ k.kind = call[c].kind /\ k.pc = call[c].pc
    BY <2>1, BegunRecord
  <2>3. \A g \in k.supplied : g \in Grants /\ handle[g][host.id] # "none"
    BY <2>2, Facts DEF EntryInv, HostRecords
  <2>. HIDE DEF k
  <2>4. CASE call' = [call EXCEPT ![c] = EndOf(k)] /\ UNCHANGED host
    <3>1. /\ call' \in [Calls -> CallRecords] /\ call'[c] = EndOf(k)
          /\ \A d \in Calls : d # c => call'[d] = call[d]
      BY <2>2, <2>4, EndOfEffect, PutEffect, Facts
    <3>2. \/ Over(call'[c])
          \/ /\ call'[c].pc = "finish"
             /\ \A g \in call'[c].supplied : call'[c].host \in Hosts /\ handle'[g][call'[c].host] # "none"
      BY <1>1, <2>1, <2>2, <2>3, <3>1, EndOfEffect
    <3>3. CallOK(c)' /\ Spends(c) /\ Delivers(c)
      BY <1>1, <3>2, FinishOK DEF Delivers
    <3>4. Types(c) /\ RegistryMild
      BY <1>1, <2>4, <3>1, Facts, MildTypes DEF HostMild
    <3>5. AwaitedBy(c) /\ ReservedBy(c)
      BY <1>1, <1>3, <1>4, <2>4 DEF AwaitedBy, ReservedBy
    <3>. QED BY <3>1, <3>3, <3>4, <3>5 DEF CallEffect
  <2>5. ASSUME NEW g \in Shown(host.id), call' = [call EXCEPT ![c] = [k EXCEPT !.pc = "asked", !.g = g]],
               host' = [host EXCEPT !.call = c, !.steps = 1]
        PROVE  CallEffect(c)
    <3>1. PICK n : n = [k EXCEPT !.pc = "asked", !.g = g]
      OBVIOUS
    <3>2. n \in CallRecords /\ n.pc = "asked" /\ n.host = host.id /\ n.supplied = k.supplied
      BY <2>2, <3>1 DEF CallRecords, PCs, Suspended, Shown
    <3>3. /\ call' \in [Calls -> CallRecords] /\ call'[c] = n
          /\ \A d \in Calls : d # c => call'[d] = call[d]
      BY <2>5, <3>1, <3>2, PutEffect, Facts
    <3>4. HostMild /\ host'.call = c
      <4>1. host \in HostRecords /\ 1 \in 0..MaxSteps
        BY Facts, CallsAssumption
      <4>2. host' \in HostRecords /\ host'.id = host.id /\ host'.handles = host.handles /\ host'.call = c
        BY <2>5, <4>1 DEF HostRecords
      <4>. QED BY <2>1, <4>2 DEF HostMild
    <3>5. Types(c) /\ RegistryMild
      BY <1>1, <3>3, <3>4, Facts, MildTypes
    <3>6. CallOK(c)' /\ Spends(c) /\ Delivers(c)
      BY <1>1, <2>1, <2>3, <3>2, <3>3
         DEF CallOK, Spends, Delivers, Waiting, Suspended, Held, Aborting, Working, Spending
    <3>7. AwaitedBy(c) /\ ReservedBy(c)
      BY <1>1, <1>4, <3>2, <3>3, <3>4 DEF AwaitedBy, ReservedBy, HostMild, Waiting, Suspended
    <3>. QED BY <3>3, <3>5, <3>6, <3>7 DEF CallEffect
  <2>6. CASE call' = [call EXCEPT ![c] = Failed(k)] /\ (host' = Quarantined(host) \/ UNCHANGED host)
    <3>1. /\ call' \in [Calls -> CallRecords] /\ call'[c] = Failed(k) /\ Over(Failed(k))
          /\ \A d \in Calls : d # c => call'[d] = call[d]
      BY <2>2, <2>6, FailedEffect, PutEffect, Facts
    <3>. QED BY <1>5, <2>1, <2>6, <3>1
  <2>. QED BY <1>8, <2>4, <2>5, <2>6 DEF GuestBegins, k
<1>. QED BY <1>6, <1>7, <1>8 DEF Begin

\* Admit
LEMMA AdmitEffect ==
  ASSUME CallsInv, NEW c \in Calls, Admit(c)
  PROVE  CallEffect(c)
<1>1. /\ call[c].pc = "asked" /\ UNCHANGED <<grant, host, delivered>> /\ Aside /\ (Fault \/ NoFault)
  BY DEF Admit, durables, durable, others, Aside
<1>2. call[c].pc \notin Working /\ call[c].pc \in Waiting /\ call[c].host \in Hosts
  BY <1>1 DEF Waiting, Suspended, Held, Aborting, Working, CallsInv, CallOK
<1>3. \A g \in Grants : \A h \in Hosts : ~Holds(c, g, h)
  BY <1>2, HoldsNothing
<1>4. CASE host.id = 0 /\ Fail(c) /\ UNCHANGED <<handle, leaked>>
  <2>1. call' \in [Calls -> CallRecords] /\ Over(call'[c]) /\ \A d \in Calls : d # c => call'[d] = call[d]
    BY <1>4, Facts, FailEffect
  <2>2. host.call = c => \E p \in leaked : p[1] = c
    BY <1>4, NotAwaited
  <2>3. HostMild
    BY <1>1, Facts DEF HostMild
  <2>. QED BY <1>1, <1>3, <1>4, <2>1, <2>2, <2>3, Facts, FailKeeps
<1>5. CASE Leak(c, None) /\ UNCHANGED handle
  BY <1>1, <1>3, <1>5, LeakKeeps, Facts
<1>6. CASE Goto(c, "refused") /\ UNCHANGED <<handle, leaked>>
  <2>1. "refused" \in Waiting \ Spending /\ "refused" \notin Working
    BY DEF Waiting, Suspended, Spending, Working, Held
  <2>. QED BY <1>1, <1>2, <1>6, <2>1, GotoKeeps
<1>7. ASSUME host.id # 0, host.id = call[c].host, Revalidates(call[c].g, call[c].host),
             handle' = IF call[c].g \in once THEN [handle EXCEPT ![call[c].g][call[c].host] = "flying"] ELSE handle,
             Goto(c, "admitted"), UNCHANGED leaked
      PROVE  CallEffect(c)
  <2>1. PICK g \in Grants : g = call[c].g
    BY <1>7, Facts DEF Revalidates, CallRecords
  <2>2. PICK h \in Hosts : h = call[c].host /\ h = host.id
    BY <1>2, <1>7
  <2>3. handle[g][h] = "live" /\ HandleOK(g, h)
    BY <1>7, <2>1, <2>2, Facts DEF Revalidates, IsActive
  <2>4. /\ handle' \in HandleTables
        /\ \A x \in Grants : \A y \in Hosts :
             \/ handle'[x][y] = handle[x][y]
             \/ handle[x][y] = "live" /\ handle'[x][y] = "flying" /\ x \in once /\ x = g /\ y = h
    <3>1. CASE g \in once
      BY <1>7, <2>1, <2>2, <2>3, <3>1, Facts DEF HandleTables, HandleStates
    <3>2. CASE g \notin once
      BY <1>7, <2>1, <2>2, <3>2, Facts
    <3>. QED BY <3>1, <3>2
  <2>5. /\ call' \in [Calls -> CallRecords]
        /\ call'[c].pc = "admitted" /\ call'[c].g = g /\ call'[c].host = h
        /\ call'[c].supplied = call[c].supplied
        /\ \A d \in Calls : d # c => call'[d] = call[d]
    BY <1>7, <2>1, <2>2, Facts, GotoEffect DEF PCs, Suspended, Held
  <2>6. Types(c)
    BY <1>1, <1>7, <2>4, <2>5, TypeParts, FaultType DEF CallsInv, Types, Aside
  <2>7. RegistryMild
    BY <1>1, <2>4 DEF RegistryMild, Aside
  <2>8. CallOK(c)'
    <3>1. \A x \in call[c].supplied : x \in Grants /\ call[c].host \in Hosts /\ handle[x][call[c].host] # "none"
      BY Facts DEF CallsInv, CallOK, CallRecords
    <3>2. \A x \in call[c].supplied : handle'[x][h] # "none"
      BY <2>2, <2>4, <3>1
    <3>. QED BY <1>1, <2>2, <2>3, <2>5, <3>2 DEF CallOK, HandleOK, Standing, Spending
  <2>9. Spends(c) /\ Delivers(c)
    BY <1>1, <2>5 DEF Spends, Delivers, Spending
  <2>10. AwaitedBy(c)
    BY <1>1, <1>7, <2>2, <2>5 DEF AwaitedBy, Waiting, Suspended, Held
  <2>11. ReservedBy(c)
    BY <1>3, <2>4, <2>5 DEF ReservedBy, Holds, Working, Held
  <2>. QED BY <2>5, <2>6, <2>7, <2>8, <2>9, <2>10, <2>11 DEF CallEffect
<1>. QED BY <1>1, <1>4, <1>5, <1>6, <1>7 DEF Admit

\* RecordRefusal
LEMMA RecordRefusalEffect ==
  ASSUME CallsInv, NEW c \in Calls, RecordRefusal(c)
  PROVE  CallEffect(c)
<1>1. /\ call[c].pc = "refused" /\ UNCHANGED <<grant, handle, host, delivered>> /\ Aside /\ (Fault \/ NoFault)
  BY DEF RecordRefusal, durables, durable, others, Aside
<1>2. call[c].pc \notin Working /\ call[c].pc \in Waiting
  BY <1>1 DEF Waiting, Suspended, Held, Aborting, Working
<1>3. CASE Leak(c, None)
  BY <1>1, <1>2, <1>3, LeakKeeps, HoldsNothing, Facts
<1>4. ASSUME NEW pc \in {"cancel", "error"}, Goto(c, pc), UNCHANGED leaked PROVE CallEffect(c)
  <2>1. pc \in Waiting \ Spending /\ pc \notin Working
    BY <1>4 DEF Waiting, Suspended, Spending, Working, Held, Aborting
  <2>. QED BY <1>1, <1>2, <1>4, <2>1, GotoKeeps
<1>. QED BY <1>3, <1>4 DEF RecordRefusal

\* RecordAdmission, Dispatch and Recheck go on at work.
LEMMA AtWorkEffect ==
  ASSUME CallsInv, NEW c \in Calls, RecordAdmission(c) \/ Dispatch(c) \/ Recheck(c)
  PROVE  CallEffect(c)
<1>1. /\ call[c].pc \in {"admitted", "dispatch", "read"} /\ UNCHANGED <<grant, handle, host, delivered, leaked>>
      /\ Aside /\ (Fault \/ NoFault)
  BY DEF RecordAdmission, Dispatch, Recheck, durables, durable, others, Aside, WriteFails
<1>2. PICK pc \in {"dispatch", "abort", "read", "failing", "uncertain", "expelled", "checked", "stale"} : Goto(c, pc)
  BY DEF RecordAdmission, Dispatch, Recheck
<1>3. call[c].pc \in Working /\ call[c].pc \in Waiting
  BY <1>1 DEF Waiting, Suspended, Held, Aborting, Working
<1>4. pc \in Waiting \ Spending /\ pc \in Working
  BY <1>2 DEF Waiting, Suspended, Spending, Working, Held, Aborting
<1>. QED BY <1>1, <1>2, <1>3, <1>4, GotoKeeps

\* Grants are consumed, or stay as they are
GrantMild ==
    /\ grant' \in [Grants -> GrantStates]
    /\ \A g \in Grants : grant'[g] = grant[g] \/ (Standing(g) /\ grant'[g] = "consumed")

\* A call that goes on, giving back or using up what it had reserved.
LEMMA GoesOn ==
  ASSUME CallsInv, NEW c \in Calls, NEW pc \in Waiting, Goto(c, pc), call[c].pc \in Waiting,
         pc \in Working \cup {"resume"} => call[c].pc \in Working,
         Mild(handle'), HostMild, GrantMild, Aside, Fault \/ NoFault, UNCHANGED <<delivered, leaked>>,
         host'.call \in {None, host.call},
         \A x \in Grants : \A h \in Hosts : handle'[x][h] = "flying" /\ Holds(c, x, h) => pc \in Working,
         pc \in Spending => call[c].pc \in Spending \/ grant[call[c].g] = "active",
         pc \in Spending /\ call[c].g \in once =>
            /\ grant'[call[c].g] = "consumed" /\ delivered[call[c].g] = 0
            /\ pc = "resume" => \A h \in Hosts : handle'[call[c].g][h] \notin {"live", "flying"}
  PROVE  CallEffect(c)
<1>1. pc \in PCs /\ pc \notin {"failed", "recording"}
  BY DEF Waiting, PCs, Suspended, Held, Aborting
<1>2. /\ call' \in [Calls -> CallRecords]
      /\ call'[c].pc = pc /\ call'[c].g = call[c].g /\ call'[c].host = call[c].host
      /\ call'[c].supplied = call[c].supplied
      /\ \A d \in Calls : d # c => call'[d] = call[d]
  BY <1>1, Facts, GotoEffect
<1>3. Types(c)
  BY <1>2, TypeParts, FaultType DEF CallsInv, Types, Mild, HostMild, Aside, GrantMild
<1>4. RegistryMild
  BY DEF RegistryMild, Mild, HostMild, Aside, GrantMild
<1>5. CallOK(c)'
  <2>1. CallOK(c) /\ call[c] \in CallRecords
    BY Facts DEF CallsInv
  <2>2. \A g \in call[c].supplied : g \in Grants /\ call[c].host \in Hosts /\ handle'[g][call[c].host] # "none"
    BY <2>1 DEF CallOK, CallRecords, Mild
  <2>3. pc \in Working \cup {"resume"} => call[c].g \in Grants /\ grant'[call[c].g] \notin {"none", "pending"}
    BY <2>1 DEF CallOK, GrantMild, Standing
  <2>4. call[c].host \in Hosts
    BY <2>1 DEF CallOK
  <2>. QED BY <1>1, <1>2, <2>2, <2>3, <2>4 DEF CallOK, Standing, Live, Aside
<1>6. Spends(c) /\ Delivers(c)
  BY <1>2 DEF Spends, Delivers
<1>7. AwaitedBy(c)
  <2>1. host.call = c => \/ \E p \in leaked : p[1] = c
                         \/ call[c].host = host.id
    BY CallsAssumption DEF CallsInv, Waits
  <2>. QED BY <1>2, <2>1 DEF AwaitedBy, HostMild
<1>8. ReservedBy(c)
  <2>1. \A g \in Grants : \A h \in Hosts : handle'[g][h] = "flying" => handle[g][h] = "flying"
    BY DEF Mild
  <2>. QED BY <1>2, <2>1 DEF ReservedBy, Holds
<1>. QED BY <1>2, <1>3, <1>4, <1>5, <1>6, <1>7, <1>8 DEF CallEffect

\* Neither a released nor a used up handle is held by the call that had it.
LEMMA GivenBack ==
  ASSUME CallsInv, NEW c \in Calls, call[c].pc \in Working
  PROVE  /\ Mild(Released(handle, call[c].g, call[c].host)) /\ Mild(UsedUp(handle, call[c].g, call[c].host))
         /\ \A x \in Grants : \A h \in Hosts :
              Holds(c, x, h) => /\ Released(handle, call[c].g, call[c].host)[x][h] # "flying"
                                /\ UsedUp(handle, call[c].g, call[c].host)[x][h] # "flying"
<1>1. call[c].g \in Grants /\ call[c].host \in Hosts
  BY DEF CallsInv, CallOK, Working, Waiting, Suspended, Aborting
<1>. QED BY <1>1, CompletedMild DEF Holds, Released, UsedUp

\* The table of handles as it is, and the host.
LEMMA SameMild ==
  ASSUME CallsInv
  PROVE  /\ UNCHANGED handle => Mild(handle')
         /\ UNCHANGED host => HostMild /\ host'.call \in {None, host.call}
         /\ UNCHANGED grant => GrantMild
BY Facts DEF HostMild, GrantMild

\* cancel_broker_call leaves the host with no call.
LEMMA CancelEffect ==
  ASSUME CallsInv, NEW c \in Calls, Cancel(c)
  PROVE  HostMild /\ host'.call = None /\ (Fault \/ NoFault)
<1>1. host \in HostRecords /\ (host.id = 0 => host.call = None) /\ c # None
  BY Facts, CallsAssumption
<1>. QED BY <1>1, HostParts DEF Cancel, HostMild

\* RecordFailure
LEMMA RecordFailureEffect ==
  ASSUME CallsInv, NEW c \in Calls, RecordFailure(c)
  PROVE  CallEffect(c)
<1>. DEFINE k == call[c]
<1>1. /\ k.pc \in {"failing", "expelled", "uncertain"} /\ UNCHANGED <<host, delivered>> /\ Aside /\ (Fault \/ NoFault)
      /\ \/ handle' = UsedUp(handle, k.g, k.host)
         \/ handle' = Released(handle, k.g, k.host)
  BY DEF RecordFailure, others, Aside
<1>2. k.pc \in Working /\ k.pc \in Waiting /\ k.g \in Grants /\ Standing(k.g)
  BY <1>1 DEF Waiting, Suspended, Held, Aborting, Working, CallsInv, CallOK
<1>3. Mild(handle') /\ \A x \in Grants : \A h \in Hosts : Holds(c, x, h) => handle'[x][h] # "flying"
  BY <1>1, <1>2, GivenBack
<1>4. ASSUME NEW pc \in {"error", "cancel"}, Goto(c, pc), UNCHANGED leaked, GrantMild PROVE CallEffect(c)
  <2>1. pc \in Waiting /\ pc \notin Working \cup {"resume"} /\ pc \notin Spending
    BY <1>4 DEF Waiting, Suspended, Spending, Working, Held, Aborting
  <2>. QED BY <1>1, <1>2, <1>3, <1>4, <2>1, SameMild, GoesOn
<1>5. CASE Leak(c, None) /\ UNCHANGED grant
  BY <1>1, <1>3, <1>5, LeakKeeps
<1>6. ASSUME grant' = [grant EXCEPT ![k.g] = IF k.pc = "uncertain" /\ k.g \in once THEN "consumed" ELSE @]
      PROVE  GrantMild
  BY <1>2, <1>6, Facts DEF GrantMild, GrantStates
<1>. QED BY <1>4, <1>5, <1>6, SameMild DEF RecordFailure

\* RecordStale
LEMMA RecordStaleEffect ==
  ASSUME CallsInv, NEW c \in Calls, RecordStale(c)
  PROVE  CallEffect(c)
<1>. DEFINE k == call[c]
<1>1. k.pc = "stale" /\ UNCHANGED <<grant, host, delivered>> /\ Aside /\ (Fault \/ NoFault)
  BY DEF RecordStale, durables, durable, others, Aside
<1>2. k.pc \in Working /\ k.pc \in Waiting /\ k.g \in Grants /\ Standing(k.g)
  BY <1>1 DEF Waiting, Suspended, Held, Aborting, Working, CallsInv, CallOK
<1>3. CASE Goto(c, "abort") /\ UNCHANGED <<leaked, handle>>
  <2>1. "abort" \in Waiting /\ "abort" \in Working /\ "abort" \notin Spending
    BY DEF Waiting, Suspended, Spending, Working, Held, Aborting
  <2>. QED BY <1>1, <1>2, <1>3, <2>1, SameMild, GoesOn
<1>4. CASE Leak(c, k.g) /\ UNCHANGED handle
  BY <1>1, <1>2, <1>4, LeakKeeps, SameMild DEF Holds
<1>5. CASE Goto(c, "error") /\ UNCHANGED leaked /\ handle' = Released(handle, k.g, k.host)
  <2>1. "error" \in Waiting /\ "error" \notin Working \cup {"resume"} /\ "error" \notin Spending
    BY DEF Waiting, Suspended, Spending, Working, Held, Aborting
  <2>2. Mild(handle') /\ \A x \in Grants : \A h \in Hosts : Holds(c, x, h) => handle'[x][h] # "flying"
    BY <1>2, <1>5, GivenBack
  <2>. QED BY <1>1, <1>2, <1>5, <2>1, <2>2, SameMild, GoesOn
<1>. QED BY <1>3, <1>4, <1>5 DEF RecordStale

\* RecordCompletion: the grant is active, so nothing has been delivered through it.
LEMMA RecordCompletionEffect ==
  ASSUME CallsInv, NEW c \in Calls, RecordCompletion(c)
  PROVE  CallEffect(c)
<1>. DEFINE g == call[c].g
<1>1. call[c].pc = "checked" /\ UNCHANGED <<handle, host, delivered, leaked>> /\ Aside /\ (Fault \/ NoFault)
  BY DEF RecordCompletion, others, Aside, WriteFails
<1>2. call[c].pc \in Working /\ call[c].pc \in Waiting /\ g \in Grants /\ Standing(g)
  BY <1>1 DEF Waiting, Suspended, Held, Aborting, Working, CallsInv, CallOK
<1>3. CASE /\ Recordable(g) /\ Goto(c, "completed")
           /\ grant' = [grant EXCEPT ![g] = IF g \in once THEN "consumed" ELSE @]
  <2>1. "completed" \in Waiting /\ "completed" \in Working /\ "completed" # "resume"
    BY DEF Waiting, Suspended, Working, Held
  <2>2. GrantMild /\ (g \in once => grant'[g] = "consumed") /\ grant[g] = "active"
    BY <1>2, <1>3, Facts DEF GrantMild, GrantStates, Recordable
  <2>3. delivered[g] = 0
    <3>1. GrantOK(g) /\ delivered[g] \in 0..2
      BY <1>2, Facts DEF CallsInv
    <3>. QED BY <2>2, <3>1 DEF GrantOK
  <2>. QED BY <1>1, <1>2, <1>3, <2>1, <2>2, <2>3, SameMild, GoesOn
<1>4. ASSUME NEW pc \in {"abort", "abortUsed"}, Goto(c, pc), UNCHANGED grant PROVE CallEffect(c)
  <2>1. pc \in Waiting /\ pc \in Working /\ pc \notin Spending
    BY <1>4 DEF Waiting, Suspended, Spending, Working, Held, Aborting
  <2>. QED BY <1>1, <1>2, <1>4, <2>1, SameMild, GoesOn
<1>. QED BY <1>3, <1>4 DEF RecordCompletion

\* Abort
LEMMA AbortEffect ==
  ASSUME CallsInv, NEW c \in Calls, Abort(c)
  PROVE  CallEffect(c)
<1>. DEFINE k == call[c]
<1>1. /\ k.pc \in Aborting /\ UNCHANGED <<grant, delivered, leaked>> /\ Aside /\ Cancel(c) /\ Fail(c)
  BY DEF Abort, durables, durable, others, Aside
<1>2. HostMild /\ host'.call = None /\ (Fault \/ NoFault) /\ c # None
  BY <1>1, CancelEffect, CallsAssumption
<1>3. call' \in [Calls -> CallRecords] /\ Over(call'[c]) /\ \A d \in Calls : d # c => call'[d] = call[d]
  BY <1>1, Facts, FailEffect
<1>4. Mild(handle') /\ \A x \in Grants : \A h \in Hosts : Holds(c, x, h) => handle'[x][h] # "flying"
  <2>1. CASE k.pc = "abort"
    <3>1. k.pc \in Working /\ handle' = Released(handle, k.g, k.host)
      BY <2>1 DEF Abort, Working
    <3>. QED BY <3>1, GivenBack
  <2>2. CASE k.pc = "abortUsed"
    <3>1. k.pc \in Working /\ handle' = UsedUp(handle, k.g, k.host)
      BY <2>2 DEF Abort, Working
    <3>. QED BY <3>1, GivenBack
  <2>3. CASE k.pc = "cancel"
    <3>1. k.pc \notin Working /\ handle' = handle
      BY <2>3 DEF Abort, Working, Held
    <3>. QED BY <3>1, SameMild, HoldsNothing
  <2>. QED BY <1>1, <2>1, <2>2, <2>3 DEF Aborting
<1>. QED BY <1>1, <1>2, <1>3, <1>4, FailKeeps

\* The guest resumes: the call goes to its end or asks again, and what it received
\* through an allow-once grant has used that grant up.
LEMMA GuestEffect ==
  ASSUME CallsInv, NEW c \in Calls, NEW hs, Mild(hs), GuestResumes(c, hs), call[c].pc \in Waiting,
         UNCHANGED <<grant, leaked>>, Aside, delivered' \in [Grants -> 0..2],
         \A x \in Grants : \A h \in Hosts : Holds(c, x, h) => hs[x][h] # "flying",
         \A g \in Grants :
            \/ delivered'[g] = delivered[g]
            \/ /\ g = call[c].g /\ g \in once /\ call[c].pc \in Spending
               /\ delivered'[g] = 1 /\ grant[g] = "consumed"
               /\ \A h \in Hosts : hs[g][h] \notin {"live", "flying"}
  PROVE  CallEffect(c)
<1>1. handle' = hs /\ host.call = c /\ NoFault
  BY DEF GuestResumes
<1>2. host.id # 0 /\ host.id \in Hosts /\ host \in HostRecords /\ c # None
  BY <1>1, Facts, CallsAssumption
<1>3. CallOK(c) /\ call[c] \in CallRecords
  BY Facts DEF CallsInv
<1>4. \A g \in call[c].supplied : call[c].host \in Hosts /\ handle'[g][call[c].host] # "none"
  BY <1>1, <1>3 DEF CallOK, CallRecords, Mild
<1>5. ASSUME call' \in [Calls -> CallRecords], \A d \in Calls : d # c => call'[d] = call[d],
             HostMild, host'.call \in {None, c}, CallOK(c)', Spends(c), call'[c].pc \notin Spending,
             host'.call = c => call'[c].pc \in Waiting /\ call'[c].host = call[c].host
      PROVE  CallEffect(c)
  <2>1. Types(c) /\ RegistryMild
    BY <1>1, <1>5, Facts, MildTypes
  <2>2. Delivers(c)
    BY <1>1, <1>5 DEF Delivers
  <2>3. AwaitedBy(c)
    <3>1. \/ \E p \in leaked : p[1] = c
          \/ call[c].host = host.id
      BY <1>1, <1>2 DEF CallsInv, Waits
    <3>. QED BY <1>1, <1>2, <1>5, <3>1 DEF AwaitedBy, HostMild
  <2>4. ReservedBy(c)
    BY <1>1 DEF ReservedBy, Mild
  <2>. QED BY <1>5, <2>1, <2>2, <2>3, <2>4 DEF CallEffect
<1>6. CASE host' = [host EXCEPT !.call = None, !.steps = 0] /\ call' = [call EXCEPT ![c] = EndOf(@)]
  <2>1. HostMild /\ host'.call = None
    BY <1>2, <1>6, HostParts DEF HostMild
  <2>2. call' = [call EXCEPT ![c] = EndOf(call[c])]
    BY <1>6
  <2>3. /\ call' \in [Calls -> CallRecords] /\ call'[c] = EndOf(call[c])
        /\ \A d \in Calls : d # c => call'[d] = call[d]
    BY <1>3, <2>2, EndOfEffect, PutEffect, Facts
  <2>4. \/ Over(call'[c])
        \/ /\ call'[c].pc = "finish"
           /\ \A g \in call'[c].supplied : call'[c].host \in Hosts /\ handle'[g][call'[c].host] # "none"
    BY <1>3, <1>4, <2>3, EndOfEffect
  <2>5. CallOK(c)' /\ Spends(c) /\ call'[c].pc \notin Spending
    BY <2>4, FinishOK
  <2>. QED BY <1>2, <1>5, <2>1, <2>3, <2>5
<1>7. ASSUME NEW g \in Shown(host.id), call' = [call EXCEPT ![c].pc = "asked", ![c].g = g],
             MayAsk, host' = [host EXCEPT !.steps = @ + 1]
      PROVE  CallEffect(c)
  <2>1. host.steps + 1 \in 0..MaxSteps
    BY <1>2, <1>7, CallsAssumption DEF HostRecords, MayAsk
  <2>2. host' \in HostRecords /\ host'.id = host.id /\ host'.handles = host.handles /\ host'.call = host.call
    BY <1>2, <1>7, <2>1 DEF HostRecords
  <2>3. PICK n : n = [call[c] EXCEPT !.pc = "asked", !.g = g]
    OBVIOUS
  <2>4. /\ n \in CallRecords /\ n.pc = "asked" /\ n.host = call[c].host /\ n.supplied = call[c].supplied
    BY <1>3, <2>3 DEF CallRecords, PCs, Suspended, Shown
  <2>5. call' = [call EXCEPT ![c] = n]
    BY <1>7, <2>3, Facts
  <2>6. /\ call' \in [Calls -> CallRecords] /\ call'[c] = n
        /\ \A d \in Calls : d # c => call'[d] = call[d]
    BY <2>4, <2>5, PutEffect, Facts
  <2>7. CallOK(c)' /\ Spends(c) /\ call'[c].pc \notin Spending /\ call'[c].pc \in Waiting
    <3>1. call[c].host \in Hosts
      BY <1>3 DEF CallOK
    <3>. QED BY <1>4, <2>4, <2>6, <3>1
             DEF CallOK, Spends, Waiting, Suspended, Held, Aborting, Working, Spending
  <2>8. HostMild
    BY <1>2, <2>2 DEF HostMild
  <2>. QED BY <1>1, <1>5, <2>2, <2>4, <2>6, <2>7, <2>8
<1>. QED BY <1>6, <1>7 DEF GuestResumes

\* The guest breaks: the entry goes.
LEMMA BreakEffect ==
  ASSUME CallsInv, NEW c \in Calls, NEW hs, Mild(hs), GuestBreaks(c, hs),
         UNCHANGED <<grant, delivered, leaked>>, Aside
  PROVE  CallEffect(c)
<1>1. /\ call' \in [Calls -> CallRecords] /\ Over(call'[c]) /\ \A d \in Calls : d # c => call'[d] = call[d]
      /\ host' = NoHost /\ handle' = Removed(hs) /\ (Fault \/ NoFault)
  BY Facts, FailEffect DEF GuestBreaks, Breaks
<1>2. CallOK(c)' /\ Spends(c)
  BY <1>1, OverOK
<1>. QED BY <1>1, <1>2, ClearedEffect

\* A call that fails, not at work, with the host left alone, quarantined or gone.
LEMMA EndsOutside ==
  ASSUME CallsInv, NEW c \in Calls, Over(call'[c]), call' \in [Calls -> CallRecords],
         \A d \in Calls : d # c => call'[d] = call[d], call[c].pc \notin Working,
         call[c].pc \notin Waiting \/ call[c].host # host.id \/ host.id = 0,
         UNCHANGED <<handle, grant, delivered, leaked>>, Aside, Fault \/ NoFault,
         host' = host \/ (host.id # 0 /\ host' = Quarantined(host))
  PROVE  CallEffect(c)
<1>1. HostMild /\ host'.call \in {None, host.call} /\ (host'.call = c => host.call = c)
  BY Facts, HostParts, CallsAssumption DEF HostMild
<1>. QED BY <1>1, NotAwaited, HoldsNothing, SameMild, FailKeeps

\* ResumeError
LEMMA ResumeErrorEffect ==
  ASSUME CallsInv, NEW c \in Calls, ResumeError(c)
  PROVE  CallEffect(c)
<1>1. call[c].pc \in {"asked", "error"} /\ UNCHANGED <<grant, delivered, leaked>> /\ Aside
  BY DEF ResumeError, durables, durable, others, Aside
<1>2. call[c].pc \notin Working /\ call[c].pc \in Waiting
  BY <1>1 DEF Waiting, Suspended, Held, Aborting, Working
<1>3. CASE host.id = 0 /\ Fail(c) /\ UNCHANGED <<host, handle>> /\ NoFault
  BY <1>1, <1>2, <1>3, FailEffect, Facts, EndsOutside
<1>4. CASE GuestResumes(c, handle)
  <2>1. delivered' \in [Grants -> 0..2] /\ \A g \in Grants : delivered'[g] = delivered[g]
    BY <1>1, Facts
  <2>2. Mild(handle) /\ \A x \in Grants : \A h \in Hosts : Holds(c, x, h) => handle[x][h] # "flying"
    BY <1>2, Facts, HoldsNothing
  <2>. QED BY <1>1, <1>2, <1>4, <2>1, <2>2, GuestEffect
<1>5. CASE GuestBreaks(c, handle)
  BY <1>1, <1>5, BreakEffect, Facts
<1>. QED BY <1>3, <1>4, <1>5 DEF ResumeError

\* What a call receives through an allow-once grant is the first, if the grant was
\* consumed for it.
LEMMA ReceivedOnce ==
  ASSUME CallsInv, NEW c \in Calls, call[c].pc \in Spending, Received(call[c].g)
  PROVE  /\ delivered' \in [Grants -> 0..2]
         /\ \A g \in Grants :
              \/ delivered'[g] = delivered[g]
              \/ g = call[c].g /\ g \in once /\ delivered'[g] = 1 /\ grant[g] = "consumed"
<1>1. PICK g \in Grants : g = call[c].g
  BY DEF CallsInv, CallOK, Spending, Working, Held
<1>2. g \in once => grant[g] = "consumed" /\ delivered[g] = 0
  BY <1>1 DEF CallsInv, CallOK
<1>3. delivered \in [Grants -> 0..2]
  BY Facts
<1>4. CASE g \in once
  BY <1>1, <1>2, <1>3, <1>4 DEF Received
<1>5. CASE g \notin once
  BY <1>1, <1>3, <1>5 DEF Received
<1>. QED BY <1>4, <1>5

\* An admitted call's handle is the host's; used up, it was the last one.
LEMMA LastHandle ==
  ASSUME CallsInv, NEW c \in Calls, call[c].pc \in Working, RevalidatesAdmitted(call[c].g, call[c].host)
  PROVE  /\ host.id = call[c].host /\ host.id # 0
         /\ call[c].g \in once =>
              \A h \in Hosts : UsedUp(handle, call[c].g, call[c].host)[call[c].g][h] \notin {"live", "flying"}
<1>1. PICK g \in Grants : g = call[c].g
  BY DEF CallsInv, CallOK
<1>2. PICK h \in Hosts : h = call[c].host
  BY DEF CallsInv, CallOK, Working, Waiting, Suspended, Aborting
<1>3. Live(g, h) /\ (g \in once => handle[g][h] = "flying")
  BY <1>1, <1>2 DEF RevalidatesAdmitted, IsActive, Live
<1>4. host.id = h /\ h # 0
  BY <1>3, Facts, CallsAssumption DEF Live, HandleOK, Hosts
<1>5. ASSUME g \in once, NEW x \in Hosts
      PROVE  UsedUp(handle, g, h)[g][x] \notin {"live", "flying"}
  <2>1. UsedUp(handle, g, h) = [handle EXCEPT ![g][h] = "used"] /\ handle \in HandleTables
    BY <1>3, <1>5, Facts DEF UsedUp, Completed
  <2>2. x # h => handle[g][x] \notin {"live", "flying"}
    BY <1>4, Facts DEF HandleOK
  <2>. QED BY <2>1, <2>2 DEF HandleTables
<1>. QED BY <1>1, <1>2, <1>4, <1>5

\* Deliver
LEMMA DeliverEffect ==
  ASSUME CallsInv, NEW c \in Calls, Deliver(c)
  PROVE  CallEffect(c)
<1>. DEFINE k == call[c]
            hs == UsedUp(handle, k.g, k.host)
<1>1. k.pc = "completed" /\ UNCHANGED <<grant, leaked>> /\ Aside
  BY DEF Deliver, durables, durable, others, Aside
<1>2. k.pc \in Working /\ k.pc \in Waiting /\ k.pc \in Spending /\ k.g \in Grants
  BY <1>1 DEF Waiting, Suspended, Held, Aborting, Working, Spending, CallsInv, CallOK
<1>3. Mild(hs) /\ \A x \in Grants : \A h \in Hosts : Holds(c, x, h) => hs[x][h] # "flying"
  BY <1>2, GivenBack
<1>. HIDE DEF hs
<1>4. ASSUME Goto(c, "evict"), Mild(handle'), HostMild, host'.call \in {None, host.call},
             Fault \/ NoFault, UNCHANGED delivered
      PROVE  CallEffect(c)
  <2>1. "evict" \in Waiting /\ "evict" \in Working /\ "evict" \notin Spending
    BY DEF Waiting, Spending, Working
  <2>. QED BY <1>1, <1>2, <1>4, <2>1, SameMild, GoesOn
<1>5. CASE /\ ~RevalidatesAdmitted(k.g, k.host) /\ Goto(c, "evict") /\ UNCHANGED delivered
           /\ IF k.kind = "file" THEN handle' = hs /\ Cancel(c) ELSE UNCHANGED <<handle, host>> /\ NoFault
  <2>1. CASE handle' = hs /\ Cancel(c)
    BY <1>3, <1>4, <1>5, <2>1, CancelEffect
  <2>2. CASE UNCHANGED <<handle, host>> /\ NoFault
    BY <1>4, <1>5, <2>2, SameMild
  <2>. QED BY <1>5, <2>1, <2>2
<1>6. CASE RevalidatesAdmitted(k.g, k.host) /\ Received(k.g) /\ GuestResumes(c, hs)
  <2>1. k.g \in once => \A h \in Hosts : hs[k.g][h] \notin {"live", "flying"}
    BY <1>2, <1>6, LastHandle DEF hs
  <2>2. /\ delivered' \in [Grants -> 0..2]
        /\ \A g \in Grants :
              \/ delivered'[g] = delivered[g]
              \/ g = k.g /\ g \in once /\ delivered'[g] = 1 /\ grant[g] = "consumed"
    BY <1>2, <1>6, ReceivedOnce
  <2>. QED BY <1>1, <1>2, <1>3, <1>6, <2>1, <2>2, GuestEffect
<1>7. CASE /\ RevalidatesAdmitted(k.g, k.host) /\ handle' = hs /\ host' = Quarantined(host)
           /\ Breaks(c) /\ Goto(c, "evict") /\ UNCHANGED delivered
  <2>1. host.id # 0
    BY <1>2, <1>7, LastHandle
  <2>2. HostMild /\ host'.call = None
    BY <1>7, <2>1, HostParts, Facts DEF HostMild
  <2>3. Fault \/ NoFault
    BY <1>7 DEF Breaks
  <2>. QED BY <1>3, <1>4, <1>7, <2>2, <2>3
<1>. QED BY <1>5, <1>6, <1>7 DEF Deliver, hs

\* Evict
LEMMA EvictEffect ==
  ASSUME CallsInv, NEW c \in Calls, Evict(c)
  PROVE  CallEffect(c)
<1>1. UNCHANGED <<grant, delivered, leaked>> /\ Aside /\ Fail(c) /\ NoFault /\ host' = NoHost /\ handle' = Removed(handle)
  BY DEF Evict, durables, durable, others, Aside
<1>2. call' \in [Calls -> CallRecords] /\ Over(call'[c]) /\ \A d \in Calls : d # c => call'[d] = call[d]
  BY <1>1, Facts, FailEffect
<1>3. CallOK(c)' /\ Spends(c) /\ Mild(handle)
  BY <1>2, OverOK, Facts
<1>. QED BY <1>1, <1>2, <1>3, ClearedEffect

\* Settle
LEMMA SettleEffect ==
  ASSUME CallsInv, NEW c \in Calls, Settle(c)
  PROVE  CallEffect(c)
<1>. DEFINE k == call[c]
<1>1. k.pc = "completed" /\ UNCHANGED <<grant, host, delivered, leaked>> /\ Aside /\ NoFault
      /\ handle' = UsedUp(handle, k.g, k.host)
  BY DEF Settle, durables, durable, others, Aside
<1>2. k.pc \in Working /\ k.pc \in Waiting /\ k.pc \in Spending /\ k.g \in Grants
  BY <1>1 DEF Waiting, Suspended, Held, Aborting, Working, Spending, CallsInv, CallOK
<1>3. Mild(handle') /\ \A x \in Grants : \A h \in Hosts : Holds(c, x, h) => handle'[x][h] # "flying"
  BY <1>1, <1>2, GivenBack
<1>4. CASE RevalidatesAdmitted(k.g, k.host) /\ Goto(c, "resume")
  <2>1. "resume" \in Waiting
    BY DEF Waiting, Suspended
  <2>2. k.g \in once => grant[k.g] = "consumed" /\ delivered[k.g] = 0
    BY <1>2 DEF CallsInv, CallOK
  <2>3. k.g \in once => \A h \in Hosts : handle'[k.g][h] \notin {"live", "flying"}
    BY <1>1, <1>2, <1>4, LastHandle
  <2>. QED BY <1>1, <1>2, <1>3, <1>4, <2>1, <2>2, <2>3, SameMild, GoesOn
<1>5. CASE Goto(c, "cancel")
  <2>1. "cancel" \in Waiting /\ "cancel" \notin Working \cup {"resume"} /\ "cancel" \notin Spending
    BY DEF Waiting, Suspended, Spending, Working, Held, Aborting
  <2>. QED BY <1>1, <1>2, <1>3, <1>5, <2>1, SameMild, GoesOn
<1>. QED BY <1>4, <1>5 DEF Settle

\* ResumeContribution
LEMMA ResumeContributionEffect ==
  ASSUME CallsInv, NEW c \in Calls, ResumeContribution(c)
  PROVE  CallEffect(c)
<1>. DEFINE k == call[c]
<1>1. k.pc \in {"asked", "error", "resume"} /\ UNCHANGED <<grant, leaked>> /\ Aside
  BY DEF ResumeContribution, durables, durable, others, Aside
<1>2. k.pc \notin Working /\ k.pc \in Waiting
  BY <1>1 DEF Waiting, Suspended, Held, Aborting, Working
<1>3. CASE /\ GuestResumes(c, handle)
           /\ IF k.pc = "resume" THEN Received(k.g) ELSE UNCHANGED delivered
  <2>1. Mild(handle) /\ \A x \in Grants : \A h \in Hosts : Holds(c, x, h) => handle[x][h] # "flying"
    BY <1>2, Facts, HoldsNothing
  <2>2. CASE k.pc # "resume"
    <3>1. delivered' \in [Grants -> 0..2] /\ \A g \in Grants : delivered'[g] = delivered[g]
      BY <1>3, <2>2, Facts
    <3>. QED BY <1>1, <1>2, <1>3, <2>1, <3>1, GuestEffect
  <2>3. CASE k.pc = "resume"
    <3>1. k.pc \in Spending /\ k.g \in Grants
      BY <2>3 DEF Spending, CallsInv, CallOK
    <3>2. /\ delivered' \in [Grants -> 0..2]
          /\ \A g \in Grants :
                \/ delivered'[g] = delivered[g]
                \/ g = k.g /\ g \in once /\ delivered'[g] = 1 /\ grant[g] = "consumed"
      BY <1>3, <2>3, <3>1, ReceivedOnce
    <3>3. k.g \in once => \A h \in Hosts : handle[k.g][h] \notin {"live", "flying"}
      BY <2>3, <3>1 DEF CallsInv, CallOK, Live
    <3>. QED BY <1>1, <1>2, <1>3, <2>1, <3>1, <3>2, <3>3, GuestEffect
  <2>. QED BY <2>2, <2>3
<1>4. CASE GuestBreaks(c, handle) /\ UNCHANGED delivered
  BY <1>1, <1>4, BreakEffect, Facts
<1>5. CASE /\ host.id = 0 \/ host.id # k.host
           /\ UNCHANGED host /\ NoFault /\ Fail(c) /\ UNCHANGED <<handle, delivered>>
  <2>1. call' \in [Calls -> CallRecords] /\ Over(call'[c]) /\ \A d \in Calls : d # c => call'[d] = call[d]
    BY <1>5, Facts, FailEffect
  <2>. QED BY <1>1, <1>2, <1>5, <2>1, EndsOutside
<1>6. CASE host.id # 0 /\ host.id # k.host /\ Deadline(c) /\ Fail(c) /\ UNCHANGED <<handle, delivered>>
  <2>1. call' \in [Calls -> CallRecords] /\ Over(call'[c]) /\ \A d \in Calls : d # c => call'[d] = call[d]
    BY <1>6, Facts, FailEffect
  <2>2. (host' = host \/ host' = Quarantined(host)) /\ Fault
    BY <1>6 DEF Deadline
  <2>. QED BY <1>1, <1>2, <1>6, <2>1, <2>2, EndsOutside
<1>. QED BY <1>3, <1>4, <1>5, <1>6 DEF ResumeContribution

\* Finish
LEMMA FinishEffect ==
  ASSUME CallsInv, NEW c \in Calls, Finish(c)
  PROVE  CallEffect(c)
<1>1. call[c].pc = "finish" /\ UNCHANGED <<handle, grant, delivered, leaked>> /\ Aside
  BY DEF Finish, durables, durable, others, Aside
<1>2. call[c].pc \notin Working /\ call[c].pc \notin Waiting
  BY <1>1 DEF Waiting, Suspended, Held, Aborting, Working
<1>3. /\ End(c, "returned") \/ Fail(c)
      /\ Fault \/ NoFault
      /\ host' = host \/ (host.id # 0 /\ host' = Quarantined(host))
  BY DEF Finish, Deadline
<1>4. call' \in [Calls -> CallRecords] /\ Over(call'[c]) /\ \A d \in Calls : d # c => call'[d] = call[d]
  BY <1>3, Facts, FailEffect, EndEffect
<1>. QED BY <1>1, <1>2, <1>3, <1>4, EndsOutside

\* CrashCheck
LEMMA CrashCheckEffect ==
  ASSUME CallsInv, NEW c \in Calls, CrashCheck(c)
  PROVE  CallEffect(c)
<1>1. call[c].pc = "failed" /\ UNCHANGED <<grant, delivered, leaked>> /\ Aside /\ NoFault
  BY DEF CrashCheck, durables, durable, others, Aside
<1>2. call[c].pc \notin Working /\ call[c].pc \notin Waiting
  BY <1>1 DEF Waiting, Suspended, Held, Aborting, Working
<1>3. CASE End(c, "done") /\ UNCHANGED <<host, handle>>
  <2>1. call' \in [Calls -> CallRecords] /\ Over(call'[c]) /\ \A d \in Calls : d # c => call'[d] = call[d]
    BY <1>3, Facts, EndEffect
  <2>. QED BY <1>1, <1>2, <1>3, <2>1, EndsOutside
<1>4. CASE Goto(c, "recording")
  <2>1. /\ call' \in [Calls -> CallRecords]
        /\ call'[c].pc = "recording" /\ call'[c].g = call[c].g /\ call'[c].host = call[c].host
        /\ call'[c].supplied = call[c].supplied /\ call'[c].crash \in Hosts
        /\ \A d \in Calls : d # c => call'[d] = call[d]
    BY <1>1, <1>4, Facts, GotoEffect DEF PCs, CallsInv, CallOK
  <2>2. \A g \in call[c].supplied : g \in Grants /\ call[c].host \in Hosts /\ handle[g][call[c].host] # "none"
    BY Facts DEF CallsInv, CallOK, CallRecords
  <2>3. CASE UNCHANGED <<host, handle>>
    <3>1. CallOK(c)' /\ Spends(c) /\ Delivers(c)
      BY <1>1, <2>1, <2>2, <2>3
         DEF CallOK, Spends, Delivers, Waiting, Suspended, Held, Aborting, Working, Spending
    <3>2. Types(c) /\ RegistryMild
      BY <1>1, <2>1, <2>3, Facts, SameMild, MildTypes
    <3>3. AwaitedBy(c) /\ ReservedBy(c)
      BY <1>1, <1>2, <2>3, NotAwaited, HoldsNothing DEF AwaitedBy, ReservedBy
    <3>. QED BY <2>1, <3>1, <3>2, <3>3 DEF CallEffect
  <2>4. CASE host' = NoHost /\ handle' = Removed(handle)
    <3>1. Mild(handle) /\ \A g \in call[c].supplied : handle'[g][call[c].host] # "none"
      BY <2>2, <2>4, Facts, RemovedClears
    <3>2. CallOK(c)' /\ Spends(c)
      BY <2>1, <2>2, <3>1
         DEF CallOK, Spends, Waiting, Suspended, Held, Aborting, Working, Spending
    <3>. QED BY <1>1, <2>1, <2>4, <3>1, <3>2, ClearedEffect
  <2>. QED BY <1>4, <2>3, <2>4 DEF CrashCheck
<1>. QED BY <1>3, <1>4 DEF CrashCheck

\* What a crash's record changes of the lifecycle row.
LEMMA CrashWrittenEffect ==
  ASSUME TypeOK, NEW h \in Hosts, CrashWritten(h)
  PROVE  /\ life' \in [desired : {"disabled", "enabled"}, last : 0..MaxHosts, shown : BOOLEAN]
         /\ life'.last = life.last /\ crashed' \subseteq Hosts /\ (Fault \/ NoFault)
<1>1. life \in [desired : {"disabled", "enabled"}, last : 0..MaxHosts, shown : BOOLEAN] /\ crashed \subseteq Hosts
  BY TypeParts
<1>2. \/ life' = [life EXCEPT !.shown = FALSE]
      \/ life' = life
  BY DEF CrashWritten
<1>3. crashed' \in {crashed, crashed \cup {h}} /\ (Fault \/ NoFault)
  BY DEF CrashWritten
<1>. QED BY <1>1, <1>2, <1>3

\* RecordCrash
LEMMA RecordCrashEffect ==
  ASSUME CallsInv, NEW c \in Calls, RecordCrash(c)
  PROVE  CallEffect(c)
<1>1. /\ call[c].pc = "recording" /\ CrashWritten(call[c].crash) /\ End(c, "done")
      /\ UNCHANGED <<grant, once, handle, host, delivered, leaked, due, review, answering, revoking, sweep>>
  BY DEF RecordCrash, others
<1>2. call[c].pc \notin Working /\ call[c].pc \notin Waiting /\ call[c].crash \in Hosts
  BY <1>1 DEF Waiting, Suspended, Held, Aborting, Working, CallsInv, CallOK
<1>3. call' \in [Calls -> CallRecords] /\ Over(call'[c]) /\ \A d \in Calls : d # c => call'[d] = call[d]
  BY <1>1, Facts, EndEffect
<1>4. /\ life' \in [desired : {"disabled", "enabled"}, last : 0..MaxHosts, shown : BOOLEAN]
      /\ life'.last = life.last /\ crashed' \subseteq Hosts /\ (Fault \/ NoFault)
  BY <1>1, <1>2, Facts, CrashWrittenEffect
<1>5. Types(c)
  BY <1>1, <1>3, <1>4, Facts, FaultType DEF Types
<1>6. RegistryMild
  BY <1>1, <1>4 DEF RegistryMild
<1>. QED BY <1>1, <1>2, <1>3, <1>5, <1>6, NotAwaited, HoldsNothing, OverEffect

\* Every step of a call keeps the invariant.
LEMMA CallStepKeeps ==
  ASSUME CallsInv, NEW c \in Calls, CallStep(c)
  PROVE  CallsInv'
<1>1. CallEffect(c)
  BY IdentifyEffect, BeginEffect, AdmitEffect, RecordRefusalEffect, AtWorkEffect, RecordFailureEffect,
     RecordStaleEffect, RecordCompletionEffect, AbortEffect, ResumeErrorEffect, DeliverEffect, EvictEffect,
     SettleEffect, ResumeContributionEffect, FinishEffect, CrashCheckEffect, RecordCrashEffect DEF CallStep
<1>. QED BY <1>1, EffectKeeps

-----------------------------------------------------------------------------
(* The steps of the permission and of the host *)

\* What such a step leaves alone of the calls, and its types
StepTypes ==
    /\ handle' \in HandleTables /\ host' \in HostRecords /\ grant' \in [Grants -> GrantStates]
    /\ faults' \in 0..MaxFaults
    /\ life' \in [desired : {"disabled", "enabled"}, last : 0..MaxHosts, shown : BOOLEAN]
    /\ crashed' \subseteq Hosts /\ once' \subseteq Grants /\ due' \subseteq Grants
    /\ review' \in Grants \cup {None} /\ answering' \subseteq Grants /\ revoking' \subseteq Grants
    /\ sweep' \in 0..MaxHosts

\* A step that leaves the calls alone keeps what is said of them, if the registry
\* ages, reserves nothing and lets the host wait for nobody new.
LEMMA CallsKept ==
  ASSUME CallsInv, Ages, UNCHANGED <<call, delivered, leaked>>, StepTypes,
         host'.call # None => host'.call = host.call /\ host'.id = host.id,
         \A g \in Grants : \A h \in Hosts : handle'[g][h] = "flying" => handle[g][h] = "flying",
         EntryInv', \A g \in Grants : \A h \in Hosts : HandleOK(g, h)'
  PROVE  CallsInv'
<1>1. TypeOK'
  BY Facts DEF StepTypes, TypeOK, HandleTables, HostRecords, CallRecords, GrantStates
<1>2. \A c \in Calls : CallOK(c)'
  BY OtherCall
<1>3. ASSUME NEW g \in Grants PROVE GrantOK(g)'
  <2>1. GrantOK(g)
    BY DEF CallsInv
  <2>2. g \in once' => grant'[g] \notin {"none", "pending"}
    <3>1. CASE g \in once
      BY <2>1, <3>1 DEF GrantOK, Ages
    <3>2. CASE g \in once' /\ g \notin once
      BY <3>2 DEF Ages, Standing, GrantOK
    <3>. QED BY <3>1, <3>2
  <2>3. delivered[g] > 0 => /\ g \in once' /\ delivered[g] = 1
                            /\ grant'[g] = "consumed" /\ \A h \in Hosts : handle'[g][h] \notin {"live", "flying"}
    BY <2>1 DEF GrantOK, Ages
  <2>. QED BY <2>2, <2>3 DEF GrantOK, Standing, Live
<1>4. OneSpender'
  <2>1. ASSUME NEW c \in Calls, NEW d \in Calls, call[c].pc \in Spending, call[d].pc \in Spending,
               call[c].g = call[d].g, call[c].g \in once'
        PROVE  c = d
    <3>1. call[c].g \in Grants /\ Standing(call[c].g)
      BY <2>1 DEF CallsInv, CallOK, Spending, Working, Held
    <3>2. call[c].g \in once
      BY <2>1, <3>1 DEF Ages, Standing
    <3>. QED BY <2>1, <3>2 DEF CallsInv, OneSpender
  <2>. QED BY <2>1 DEF OneSpender
<1>5. Waits'
  BY DEF CallsInv, Waits
<1>6. Reserved'
  <2>1. \A g \in Grants : \A h \in Hosts : handle'[g][h] = "flying" =>
            \E c \in Calls : <<c, g>> \in leaked \/ Holds(c, g, h)
    BY DEF CallsInv, Reserved
  <2>. QED BY <2>1 DEF Reserved, Holds
<1>. QED BY <1>1, <1>2, <1>3, <1>4, <1>5, <1>6 DEF CallsInv

\* A set of numbers below a bound has a greatest element.
LEMMA MaxIsGreatest ==
  ASSUME NEW n \in Nat, NEW S, S \subseteq 1..n, S # {}
  PROVE  Max(S) \in S /\ \A y \in S : y <= Max(S)
<1>. DEFINE T == {n - x : x \in S}
            R == OpToRel(<, Nat)
<1>1. T \subseteq Nat /\ T # {}
  <2>1. ASSUME NEW x \in S PROVE n - x \in Nat
    OBVIOUS
  <2>2. PICK x : x \in S
    OBVIOUS
  <2>3. n - x \in T
    BY <2>2
  <2>. QED BY <2>1, <2>3
<1>2. IsWellFoundedOn(R, Nat)
  BY NatLessThanWellFounded
<1>3. \A a, b \in Nat : a < b => <<a, b>> \in R
  BY DEF OpToRel
<1>. HIDE DEF R, T
<1>4. PICK t \in T : \A u \in T : ~(<<u, t>> \in R)
  BY <1>1, <1>2, WFMin
<1>5. ASSUME NEW u \in T PROVE u >= t
  <2>1. u \in Nat /\ t \in Nat /\ ~(<<u, t>> \in R)
    BY <1>1, <1>4
  <2>2. ~(u < t)
    BY <1>3, <2>1
  <2>. QED BY <2>1, <2>2
<1>6. PICK x \in S : t = n - x
  BY DEF T
<1>7. \A y \in S : x >= y
  <2>1. ASSUME NEW y \in S PROVE x >= y
    <3>1. n - y \in T
      BY DEF T
    <3>2. n - y >= n - x
      BY <1>5, <1>6, <3>1
    <3>. QED BY <3>2
  <2>. QED BY <2>1
<1>. QED BY <1>7 DEF Max

\* A step that leaves entry and handles alone; requests are answered, grants revoked.
LEMMA QuietRegistry ==
  ASSUME CallsInv, UNCHANGED <<handle, host>>, life'.last = life.last, host.id # 0 => review' = None,
         \A g \in Grants : Standing(g) => grant'[g] \notin {"none", "pending"},
         \A g \in Grants : grant[g] = "consumed" => grant'[g] = "consumed",
         \A g \in Grants : grant'[g] = "revoked" => g \in revoking' \/ (grant[g] = "revoked" /\ g \notin revoking),
         once \subseteq once',
         \A g \in once' : g \in once \/ (grant[g] = "pending" /\ grant'[g] \notin {"none", "pending"})
  PROVE  Ages /\ EntryInv' /\ \A g \in Grants : \A h \in Hosts : HandleOK(g, h)'
<1>1. Ages
  BY DEF Ages, Live
<1>2. EntryInv'
  BY Facts DEF EntryInv
<1>3. ASSUME NEW g \in Grants, NEW h \in Hosts PROVE HandleOK(g, h)'
  <2>1. HandleOK(g, h)
    BY Facts
  <2>. QED BY <2>1 DEF HandleOK, Standing
<1>. QED BY <1>1, <1>2, <1>3

\* A step that removes the entry.
LEMMA ClearingRegistry ==
  ASSUME CallsInv, host' = NoHost, handle' = Removed(handle), life'.last = life.last,
         \A g \in Grants : Standing(g) => grant'[g] \notin {"none", "pending"},
         \A g \in Grants : grant[g] = "consumed" => grant'[g] = "consumed",
         once' = once
  PROVE  Ages /\ EntryInv' /\ \A g \in Grants : \A h \in Hosts : HandleOK(g, h)'
<1>1. Mild(handle) /\ once \subseteq Grants
  BY Facts
<1>2. \A g \in Grants : \A h \in Hosts :
        /\ handle'[g][h] \in {"none", "revoked"}
        /\ handle'[g][h] = "none" <=> handle[g][h] = "none"
  BY <1>1, RemovedClears
<1>3. Ages
  BY <1>2 DEF Ages
<1>4. EntryInv'
  BY NoHostParts DEF EntryInv
<1>5. ASSUME NEW g \in Grants, NEW h \in Hosts PROVE HandleOK(g, h)'
  <2>1. HandleOK(g, h)
    BY Facts
  <2>. QED BY <1>2, <2>1 DEF HandleOK, Standing
<1>. QED BY <1>3, <1>4, <1>5

\* The types after a step that removes the entry.
LEMMA ClearingTypes ==
  ASSUME CallsInv, handle' = Removed(handle)
  PROVE  /\ handle' \in HandleTables
         /\ \A g \in Grants : \A h \in Hosts : handle'[g][h] # "flying"
BY Facts, RemovedClears

\* prepare_plugin_activation, once nothing runs.
LEMMA ActivatedKeeps ==
  ASSUME CallsInv, NEW g \in Grants, Activated(g, Removed(handle)), UNCHANGED <<grant, once, revoking>>,
         review' = None
  PROVE  /\ Ages /\ EntryInv' /\ \A x \in Grants : \A h \in Hosts : HandleOK(x, h)'
         /\ handle' \in HandleTables /\ host' \in HostRecords /\ host'.call = None
         /\ life' \in [desired : {"disabled", "enabled"}, last : 0..MaxHosts, shown : BOOLEAN]
         /\ \A x \in Grants : \A h \in Hosts : handle'[x][h] # "flying"
<1>. DEFINE n == NextHost
<1>1. /\ n \in Hosts /\ grant[g] = "active"
      /\ handle' = [Removed(handle) EXCEPT ![g][n] = "live"]
      /\ host' = [NoHost EXCEPT !.id = n, !.state = "active", !.handles = {g}]
      /\ life' = [desired |-> "enabled", last |-> n, shown |-> TRUE]
  BY DEF Activated, Recordable
<1>2. /\ Removed(handle) \in HandleTables
      /\ \A x \in Grants : \A h \in Hosts :
           /\ Removed(handle)[x][h] \in {"none", "revoked"}
           /\ Removed(handle)[x][h] = "none" <=> handle[x][h] = "none"
  BY Facts, RemovedClears
<1>3. life.last \in Nat /\ n = life.last + 1 /\ n # 0 /\ n \in 0..MaxHosts
  BY <1>1, Facts, TypeParts, CallsAssumption DEF NextHost, Hosts
<1>. HIDE DEF n
<1>4. /\ host'.id = n /\ host'.handles = {g} /\ host'.call = None /\ host' \in HostRecords
  BY <1>1, <1>3, NoHostParts DEF NoHost, HostRecords
<1>5. /\ handle' \in HandleTables
      /\ \A x \in Grants : \A h \in Hosts :
           \/ x = g /\ h = n /\ handle'[x][h] = "live"
           \/ /\ handle'[x][h] \in {"none", "revoked"}
              /\ handle'[x][h] = "none" <=> handle[x][h] = "none"
  BY <1>1, <1>2 DEF HandleTables, HandleStates
<1>6. Ages
  BY <1>1, <1>5 DEF Ages, Standing
<1>7. EntryInv'
  <2>1. handle'[g][n] = "live" /\ life'.last = n
    BY <1>1, <1>2 DEF HandleTables
  <2>. QED BY <1>3, <1>4, <2>1 DEF EntryInv
<1>8. ASSUME NEW x \in Grants, NEW h \in Hosts PROVE HandleOK(x, h)'
  <2>1. HandleOK(x, h) /\ h \in Nat
    BY Facts DEF Hosts
  <2>2. CASE x = g /\ h = n /\ handle'[x][h] = "live"
    BY <1>1, <1>3, <1>4, <2>2 DEF HandleOK, Standing
  <2>3. CASE /\ handle'[x][h] \in {"none", "revoked"}
             /\ handle'[x][h] = "none" <=> handle[x][h] = "none"
    <3>1. life'.last = life.last + 1
      BY <1>1, <1>3
    <3>. QED BY <1>3, <2>1, <2>3, <3>1 DEF HandleOK, Standing
  <2>. QED BY <1>5, <2>2, <2>3
<1>9. life' \in [desired : {"disabled", "enabled"}, last : 0..MaxHosts, shown : BOOLEAN]
  BY <1>1, <1>3
<1>10. \A x \in Grants : \A h \in Hosts : handle'[x][h] # "flying"
  BY <1>5
<1>. QED BY <1>4, <1>5, <1>6, <1>7, <1>8, <1>9, <1>10

\* The faults of a permission or host step, and the types it leaves alone.
LEMMA Rest ==
  ASSUME CallsInv
  PROVE  /\ Fault \/ NoFault => faults' \in 0..MaxFaults
         /\ life \in [desired : {"disabled", "enabled"}, last : 0..MaxHosts, shown : BOOLEAN]
         /\ crashed \subseteq Hosts /\ once \subseteq Grants /\ due \subseteq Grants
         /\ review \in Grants \cup {None} /\ answering \subseteq Grants /\ revoking \subseteq Grants
         /\ sweep \in 0..MaxHosts /\ NoHost \in HostRecords /\ NoHost.call = None /\ None \notin Grants
         /\ (host.id # 0 => review = None)
BY Facts, FaultType, TypeParts, NoHostParts, CallsAssumption DEF EntryInv

\* Enable
LEMMA EnableKeeps ==
  ASSUME CallsInv, Enable
  PROVE  CallsInv'
<1>1. /\ review = None /\ NoFault /\ UNCHANGED <<once, crashed, due, answering, revoking, sweep, call, delivered, leaked>>
  BY DEF Enable, callsKept
<1>2. ASSUME NEW g \in Grants, Activated(g, Removed(handle)), UNCHANGED <<grant, review>>
      PROVE  CallsInv'
  <2>1. /\ Ages /\ EntryInv' /\ \A x \in Grants : \A h \in Hosts : HandleOK(x, h)'
        /\ handle' \in HandleTables /\ host' \in HostRecords /\ host'.call = None
        /\ life' \in [desired : {"disabled", "enabled"}, last : 0..MaxHosts, shown : BOOLEAN]
        /\ \A x \in Grants : \A h \in Hosts : handle'[x][h] # "flying"
    BY <1>1, <1>2, ActivatedKeeps
  <2>2. StepTypes
    BY <1>1, <1>2, <2>1, Facts, Rest DEF StepTypes
  <2>. QED BY <1>1, <2>1, <2>2, CallsKept
<1>3. ASSUME NEW g \in Grants, grant[g] = "none", grant' = [grant EXCEPT ![g] = "pending"], review' = g,
             life' = [life EXCEPT !.desired = "enabled", !.shown = FALSE],
             host' = NoHost, handle' = Removed(handle)
      PROVE  CallsInv'
  <2>1. life' \in [desired : {"disabled", "enabled"}, last : 0..MaxHosts, shown : BOOLEAN] /\ life'.last = life.last
    BY <1>3, Rest
  <2>2. /\ grant' \in [Grants -> GrantStates]
        /\ \A x \in Grants : Standing(x) => grant'[x] \notin {"none", "pending"}
        /\ \A x \in Grants : grant[x] = "consumed" => grant'[x] = "consumed"
    BY <1>3, Facts DEF Standing, GrantStates
  <2>3. Ages /\ EntryInv' /\ \A x \in Grants : \A h \in Hosts : HandleOK(x, h)'
    BY <1>1, <1>3, <2>1, <2>2, ClearingRegistry
  <2>4. handle' \in HandleTables /\ \A x \in Grants : \A h \in Hosts : handle'[x][h] # "flying"
    BY <1>3, ClearingTypes
  <2>5. StepTypes
    BY <1>1, <1>3, <2>1, <2>2, <2>4, Rest DEF StepTypes
  <2>. QED BY <1>1, <1>3, <2>3, <2>4, <2>5, Rest, CallsKept
<1>. QED BY <1>2, <1>3 DEF Enable

\* Answer, Revoke, Expire and RecordSweep leave entry and handles alone.
LEMMA QuietKeeps ==
  ASSUME CallsInv, UNCHANGED <<handle, host, call, delivered, leaked>>, NoFault \/ Fault,
         life' \in [desired : {"disabled", "enabled"}, last : 0..MaxHosts, shown : BOOLEAN], life'.last = life.last,
         crashed' \subseteq Hosts, due' \subseteq Grants, answering' \subseteq Grants, sweep' \in 0..MaxHosts,
         review' \in {None, review}, revoking \subseteq revoking', revoking' \subseteq Grants,
         once' \subseteq Grants, once \subseteq once', grant' \in [Grants -> GrantStates],
         \A g \in Grants : Standing(g) => grant'[g] \notin {"none", "pending"},
         \A g \in Grants : grant[g] = "consumed" => grant'[g] = "consumed",
         \A g \in Grants : grant'[g] = "revoked" => g \in revoking' \/ grant[g] = "revoked",
         \A g \in once' : g \in once \/ (grant[g] = "pending" /\ grant'[g] \notin {"none", "pending"})
  PROVE  CallsInv'
<1>1. Ages /\ EntryInv' /\ \A g \in Grants : \A h \in Hosts : HandleOK(g, h)'
  <2>1. \A g \in Grants : grant'[g] = "revoked" => g \in revoking' \/ (grant[g] = "revoked" /\ g \notin revoking)
    OBVIOUS
  <2>2. host.id # 0 => review' = None
    BY Rest
  <2>. QED BY <2>1, <2>2, QuietRegistry
<1>2. StepTypes
  BY Facts, Rest DEF StepTypes
<1>. QED BY <1>1, <1>2, CallsKept

\* Answer
LEMMA AnswerKeeps ==
  ASSUME CallsInv, NEW g \in Grants, NEW d, Answer(g, d)
  PROVE  CallsInv'
<1>1. /\ grant[g] = "pending" /\ grant' = [grant EXCEPT ![g] = IF d = "deny" THEN "denied" ELSE "active"]
      /\ once' = (IF d = "allow_once" THEN once \cup {g} ELSE once) /\ answering' = answering \cup {g} /\ NoFault
      /\ UNCHANGED <<life, crashed, due, handle, host, review, revoking, sweep, call, delivered, leaked>>
  BY DEF Answer, callsKept
<1>2. /\ grant' \in [Grants -> GrantStates] /\ grant'[g] \in {"denied", "active"}
      /\ \A x \in Grants : x # g => grant'[x] = grant[x]
  BY <1>1, Facts DEF GrantStates
<1>3. /\ once \subseteq once' /\ once' \subseteq Grants /\ answering' \subseteq Grants
      /\ \A x \in once' : x \in once \/ x = g
  BY <1>1, Rest
<1>4. \A x \in once' : x \in once \/ (grant[x] = "pending" /\ grant'[x] \notin {"none", "pending"})
  BY <1>1, <1>2, <1>3
<1>5. /\ \A x \in Grants : Standing(x) => grant'[x] \notin {"none", "pending"}
      /\ \A x \in Grants : grant[x] = "consumed" => grant'[x] = "consumed"
      /\ \A x \in Grants : grant'[x] = "revoked" => grant[x] = "revoked"
  BY <1>1, <1>2 DEF Standing
<1>. QED BY <1>1, <1>2, <1>3, <1>4, <1>5, Rest, QuietKeeps

\* Grants that stay as they are, in the form QuietKeeps asks for.
LEMMA GrantsKept ==
  ASSUME UNCHANGED <<grant, once>>
  PROVE  /\ \A g \in Grants : Standing(g) => grant'[g] \notin {"none", "pending"}
         /\ \A g \in Grants : grant[g] = "consumed" => grant'[g] = "consumed"
         /\ \A g \in Grants : grant'[g] = "revoked" => grant[g] = "revoked"
         /\ once \subseteq once'
         /\ \A g \in once' : g \in once \/ (grant[g] = "pending" /\ grant'[g] \notin {"none", "pending"})
BY DEF Standing

\* ActivatePending
LEMMA ActivatePendingKeeps ==
  ASSUME CallsInv, NEW g \in Grants, ActivatePending(g)
  PROVE  CallsInv'
<1>1. /\ answering' = answering \ {g} /\ (Fault \/ NoFault)
      /\ UNCHANGED <<grant, once, crashed, due, revoking, sweep, call, delivered, leaked>>
  BY DEF ActivatePending, callsKept
<1>2. CASE /\ UNCHANGED <<handle, host>> /\ review' \in {None, review}
           /\ life' = [life EXCEPT !.shown = FALSE] \/ life' = life
  <2>1. life' \in [desired : {"disabled", "enabled"}, last : 0..MaxHosts, shown : BOOLEAN] /\ life'.last = life.last
    BY <1>2, Rest
  <2>. QED BY <1>1, <1>2, <2>1, Facts, Rest, GrantsKept, QuietKeeps
<1>3. ASSUME NEW x \in Grants, Activated(x, handle), review # None, review' = None
      PROVE  CallsInv'
  <2>1. host.id = 0 /\ Activated(x, Removed(handle))
    BY <1>3, Rest DEF Removed
  <2>2. /\ Ages /\ EntryInv' /\ \A y \in Grants : \A h \in Hosts : HandleOK(y, h)'
        /\ handle' \in HandleTables /\ host' \in HostRecords /\ host'.call = None
        /\ life' \in [desired : {"disabled", "enabled"}, last : 0..MaxHosts, shown : BOOLEAN]
        /\ \A y \in Grants : \A h \in Hosts : handle'[y][h] # "flying"
    BY <1>1, <1>3, <2>1, ActivatedKeeps
  <2>3. StepTypes
    BY <1>1, <1>3, <2>2, Facts, Rest DEF StepTypes
  <2>. QED BY <1>1, <2>2, <2>3, CallsKept
<1>. QED BY <1>2, <1>3 DEF ActivatePending

\* Revoke
LEMMA RevokeKeeps ==
  ASSUME CallsInv, NEW g \in Grants, Revoke(g)
  PROVE  CallsInv'
<1>1. /\ grant[g] = "active" /\ grant' = [grant EXCEPT ![g] = "revoked"]
      /\ revoking' = revoking \cup {g} /\ NoFault
      /\ UNCHANGED <<once, life, crashed, due, handle, host, review, answering, sweep, call, delivered, leaked>>
  BY DEF Revoke, callsKept
<1>2. /\ grant' \in [Grants -> GrantStates] /\ grant'[g] = "revoked"
      /\ \A x \in Grants : x # g => grant'[x] = grant[x]
  BY <1>1, Facts DEF GrantStates
<1>3. /\ \A x \in Grants : Standing(x) => grant'[x] \notin {"none", "pending"}
      /\ \A x \in Grants : grant[x] = "consumed" => grant'[x] = "consumed"
      /\ \A x \in Grants : grant'[x] = "revoked" => x \in revoking' \/ grant[x] = "revoked"
  BY <1>1, <1>2 DEF Standing
<1>. QED BY <1>1, <1>2, <1>3, Rest, QuietKeeps

\* Expire
LEMMA ExpireKeeps ==
  ASSUME CallsInv, NEW g \in Grants, Expire(g)
  PROVE  CallsInv'
<1>1. /\ due' = due \cup {g} /\ NoFault
      /\ UNCHANGED <<grant, once, life, crashed, handle, host, review, answering, revoking, sweep, call, delivered, leaked>>
  BY DEF Expire, durables, durable, callsKept
<1>. QED BY <1>1, Facts, Rest, GrantsKept, QuietKeeps

\* RecordSweep
LEMMA RecordSweepKeeps ==
  ASSUME CallsInv, RecordSweep
  PROVE  CallsInv'
<1>1. /\ sweep # 0 /\ CrashWritten(sweep) /\ sweep' = 0
      /\ UNCHANGED <<grant, once, due, handle, host, review, answering, revoking, call, delivered, leaked>>
  BY DEF RecordSweep, callsKept
<1>2. sweep \in Hosts /\ 0 \in 0..MaxHosts
  BY <1>1, Rest, CallsAssumption DEF Hosts
<1>3. /\ life' \in [desired : {"disabled", "enabled"}, last : 0..MaxHosts, shown : BOOLEAN]
      /\ life'.last = life.last /\ crashed' \subseteq Hosts /\ (Fault \/ NoFault)
  BY <1>1, <1>2, Facts, CrashWrittenEffect
<1>. QED BY <1>1, <1>2, <1>3, Facts, Rest, GrantsKept, QuietKeeps

\* RevokeHandle: a handle that is not revoked is the last host's, hence the one found.
LEMMA RevokeHandleKeeps ==
  ASSUME CallsInv, NEW g \in Grants, RevokeHandle(g)
  PROVE  CallsInv'
<1>. DEFINE minted == {h \in Hosts : handle[g][h] # "none"}
<1>1. /\ revoking' = revoking \ {g} /\ NoFault
      /\ handle' = IF minted = {} THEN handle ELSE [handle EXCEPT ![g][Max(minted)] = "revoked"]
      /\ host' = [host EXCEPT !.handles = host.handles \ {g}]
      /\ UNCHANGED <<due, review, answering, sweep, grant, once, life, crashed, call, delivered, leaked>>
  BY DEF RevokeHandle, durables, durable, callsKept
<1>2. minted # {} => Max(minted) \in minted /\ \A h \in minted : h <= Max(minted)
  <2>1. MaxHosts \in Nat /\ minted \subseteq 1..MaxHosts
    BY CallsAssumption DEF Hosts
  <2>. QED BY <2>1, MaxIsGreatest
<1>3. \A h \in Hosts : handle[g][h] # "none" <=> h \in minted
  OBVIOUS
<1>4. minted \subseteq Hosts
  OBVIOUS
<1>. HIDE DEF minted
<1>5. /\ handle' \in HandleTables
      /\ \A x \in Grants : \A h \in Hosts :
           \/ handle'[x][h] = handle[x][h] /\ (x = g => h # Max(minted) \/ minted = {})
           \/ x = g /\ h = Max(minted) /\ handle[x][h] # "none" /\ handle'[x][h] = "revoked"
  <2>1. CASE minted = {}
    BY <1>1, <2>1, Facts
  <2>2. CASE minted # {}
    BY <1>1, <1>2, <1>3, <1>4, <2>2, Facts DEF HandleTables, HandleStates
  <2>. QED BY <2>1, <2>2
<1>6. ASSUME NEW h \in Hosts PROVE handle'[g][h] \in {"none", "revoked"}
  <2>1. handle[g][h] \in HandleStates /\ HandleOK(g, h) /\ life.last \in Nat
    BY Facts, Rest, CallsAssumption DEF HandleTables
  <2>2. CASE handle[g][h] \in {"none", "revoked"}
    BY <1>5, <2>2
  <2>3. CASE handle[g][h] \in {"live", "flying", "used"}
    <3>1. h \in minted /\ h = host.id /\ h # 0
      BY <1>3, <2>1, <2>3, CallsAssumption DEF HandleOK, Hosts
    <3>2. h = life.last
      BY <3>1, Facts DEF EntryInv
    <3>3. PICK m \in Hosts : m = Max(minted) /\ h <= m /\ handle[g][m] # "none"
      BY <1>2, <1>3, <1>4, <3>1
    <3>4. m <= life.last
      BY <3>3, Facts DEF HandleOK
    <3>5. m = h
      BY <3>2, <3>3, <3>4, CallsAssumption DEF Hosts
    <3>. QED BY <1>5, <3>1, <3>3, <3>5
  <2>. QED BY <2>1, <2>2, <2>3 DEF HandleStates
<1>7. /\ host' \in HostRecords /\ host'.id = host.id /\ host'.call = host.call
      /\ host'.handles = host.handles \ {g} /\ (host.id = 0 => host' = NoHost)
  <2>1. host \in HostRecords
    BY Facts
  <2>2. host.id = 0 => host' = NoHost
    <3>1. SUFFICES ASSUME host = NoHost PROVE host' = NoHost
      BY Facts
    <3>2. NoHost.handles \ {g} = {} /\ host.handles = NoHost.handles
      BY <3>1, NoHostParts
    <3>3. host' = [NoHost EXCEPT !.handles = {}]
      BY <1>1, <3>1, <3>2
    <3>4. [NoHost EXCEPT !.handles = {}] = NoHost
      BY DEF NoHost
    <3>. QED BY <3>3, <3>4
  <2>. QED BY <1>1, <2>1, <2>2 DEF HostRecords
<1>8. Ages
  <2>1. ASSUME NEW x \in Grants, NEW h \in Hosts
        PROVE  /\ handle[x][h] # "none" => handle'[x][h] # "none"
               /\ ~Live(x, h) => handle'[x][h] \notin {"live", "flying"}
    BY <1>5 DEF Live
  <2>. QED BY <1>1, <2>1 DEF Ages, Standing
<1>9. EntryInv'
  <2>1. ASSUME NEW x \in host.handles, x # g PROVE handle'[x][host.id] # "none"
    <3>1. x \in Grants /\ handle[x][host.id] # "none" /\ host.id \in Hosts
      BY <2>1, Facts, NoHostParts DEF EntryInv, HostRecords
    <3>. QED BY <1>5, <2>1, <3>1
  <2>. QED BY <1>1, <1>7, <2>1, Facts DEF EntryInv
<1>10. ASSUME NEW x \in Grants, NEW h \in Hosts PROVE HandleOK(x, h)'
  <2>1. HandleOK(x, h)
    BY Facts
  <2>2. CASE x = g
    <3>1. handle'[x][h] \in {"none", "revoked"} /\ (handle'[x][h] # "none" => handle[x][h] # "none")
      BY <1>5, <1>6, <2>2
    <3>. QED BY <1>1, <2>1, <3>1 DEF HandleOK, Standing
  <2>3. CASE x # g
    <3>1. handle'[x][h] = handle[x][h]
      BY <1>5, <2>3
    <3>. QED BY <1>1, <1>7, <2>1, <2>3, <3>1 DEF HandleOK, Standing
  <2>. QED BY <2>2, <2>3
<1>11. StepTypes
  BY <1>1, <1>5, <1>7, Facts, Rest DEF StepTypes
<1>12. \A x \in Grants : \A h \in Hosts : handle'[x][h] = "flying" => handle[x][h] = "flying"
  BY <1>5
<1>. QED BY <1>1, <1>7, <1>8, <1>9, <1>10, <1>11, <1>12, CallsKept

\* A step that removes the entry keeps the invariant, whatever it writes about
\* requests and allow-once grants.
LEMMA ClearingKeeps ==
  ASSUME CallsInv, host' = NoHost, handle' = Removed(handle), UNCHANGED <<call, delivered, leaked>>,
         life' \in [desired : {"disabled", "enabled"}, last : 0..MaxHosts, shown : BOOLEAN], life'.last = life.last,
         grant' \in {grant, Cancelled(grant), Recovered(Cancelled(grant))}, review' \in {None, review},
         sweep' \in 0..MaxHosts, UNCHANGED <<once, crashed, due, answering, revoking>>, Fault \/ NoFault
  PROVE  CallsInv'
<1>1. /\ grant' \in [Grants -> GrantStates]
      /\ \A g \in Grants : Standing(g) => grant'[g] \notin {"none", "pending"}
      /\ \A g \in Grants : grant[g] = "consumed" => grant'[g] = "consumed"
  <2>1. grant \in [Grants -> GrantStates]
    BY Facts
  <2>2. CASE grant' = grant
    BY <2>1, <2>2 DEF Standing
  <2>3. CASE grant' = Cancelled(grant)
    BY <2>1, <2>3 DEF Standing, Cancelled, GrantStates
  <2>4. CASE grant' = Recovered(Cancelled(grant))
    BY <2>1, <2>4 DEF Standing, Cancelled, Recovered, GrantStates
  <2>. QED BY <2>2, <2>3, <2>4
<1>2. Ages /\ EntryInv' /\ \A g \in Grants : \A h \in Hosts : HandleOK(g, h)'
  BY <1>1, ClearingRegistry
<1>3. handle' \in HandleTables /\ \A g \in Grants : \A h \in Hosts : handle'[g][h] # "flying"
  BY ClearingTypes
<1>4. StepTypes
  BY <1>1, <1>3, Rest DEF StepTypes
<1>. QED BY <1>2, <1>3, <1>4, Rest, CallsKept

\* Disable, Boundary and Heartbeat
LEMMA TeardownKeeps ==
  ASSUME CallsInv, Disable \/ Boundary \/ Heartbeat
  PROVE  CallsInv'
<1>1. CASE Disable
  <2>1. life' = [life EXCEPT !.desired = "disabled", !.shown = FALSE]
    BY <1>1 DEF Disable
  <2>2. life' \in [desired : {"disabled", "enabled"}, last : 0..MaxHosts, shown : BOOLEAN] /\ life'.last = life.last
    BY <2>1, Rest
  <2>. QED BY <1>1, <2>2, Rest, ClearingKeeps DEF Disable, TornDown, callsKept
<1>2. CASE Boundary
  <2>1. life' = [life EXCEPT !.shown = FALSE]
    BY <1>2 DEF Boundary
  <2>2. life' \in [desired : {"disabled", "enabled"}, last : 0..MaxHosts, shown : BOOLEAN] /\ life'.last = life.last
    BY <2>1, Rest
  <2>. QED BY <1>2, <2>2, Rest, ClearingKeeps DEF Boundary, TornDown, callsKept
<1>3. CASE Heartbeat
  <2>1. host.id \in 0..MaxHosts
    BY Facts DEF HostRecords
  <2>. QED BY <1>3, <2>1, Rest, ClearingKeeps DEF Heartbeat, durables, durable, callsKept
<1>. QED BY <1>1, <1>2, <1>3

\* A program that has no handles, no host and no calls is in order, given the rows.
LEMMA Afresh ==
  ASSUME TypeOK, handle = NoHandles, host = NoHost, leaked = {},
         \A c \in Calls : call[c].pc \in {"idle", "done"} /\ call[c].supplied = {},
         \A g \in Grants : g \in once => Standing(g),
         \A g \in Grants : delivered[g] > 0 => g \in once /\ delivered[g] = 1 /\ grant[g] = "consumed"
  PROVE  CallsInv
<1>1. \A g \in Grants : \A h \in Hosts : handle[g][h] = "none"
  BY DEF NoHandles
<1>2. EntryInv /\ Waits /\ Reserved
  BY <1>1, NoHostParts DEF EntryInv, Waits, Reserved
<1>3. \A g \in Grants : GrantOK(g) /\ \A h \in Hosts : HandleOK(g, h)
  BY <1>1 DEF GrantOK, HandleOK, Live
<1>4. OneSpender /\ \A c \in Calls : CallOK(c)
  BY DEF OneSpender, CallOK, Spending, Waiting, Suspended, Held, Aborting, Working
<1>. QED BY <1>2, <1>3, <1>4 DEF CallsInv

\* Restart
LEMMA RestartKeeps ==
  ASSUME CallsInv, Restart
  PROVE  CallsInv'
<1>1. /\ grant' = Recovered(Cancelled(grant)) /\ handle' = NoHandles /\ host' = NoHost /\ review' = None
      /\ answering' = {} /\ revoking' = {} /\ sweep' = 0 /\ leaked' = {} /\ Fault
      /\ call' = [c \in Calls |-> IF call[c].pc = "idle" THEN Idle ELSE Ended("done")]
      /\ UNCHANGED <<once, life, crashed, due, delivered>>
  BY DEF Restart
<1>2. /\ Idle \in CallRecords /\ Idle.pc = "idle" /\ Idle.supplied = {}
      /\ Ended("done") \in CallRecords /\ Ended("done").pc = "done" /\ Ended("done").supplied = {}
  <2>1. Ended("done") = [pc |-> "done", kind |-> "none", crash |-> 0, host |-> 0, g |-> None, supplied |-> {}]
    BY DEF Ended, Idle
  <2>. QED BY <2>1, CallsAssumption DEF Idle, CallRecords, PCs
<1>. HIDE DEF Idle, Ended
<1>3. /\ call' \in [Calls -> CallRecords]
      /\ \A c \in Calls : call'[c].pc \in {"idle", "done"} /\ call'[c].supplied = {}
  BY <1>1, <1>2
<1>4. /\ grant' \in [Grants -> GrantStates]
      /\ \A g \in Grants : Standing(g) => grant'[g] \notin {"none", "pending"}
      /\ \A g \in Grants : grant[g] = "consumed" => grant'[g] = "consumed"
  BY <1>1, Facts DEF Standing, Cancelled, Recovered, GrantStates
<1>5. handle' \in HandleTables /\ NoHost \in HostRecords /\ 0 \in 0..MaxHosts
  BY <1>1, Rest, CallsAssumption DEF NoHandles, HandleTables, HandleStates
<1>6. TypeOK'
  BY <1>1, <1>3, <1>4, <1>5, Facts, Rest DEF TypeOK, HandleTables, HostRecords, CallRecords, GrantStates
<1>7. /\ \A g \in Grants : g \in once => grant'[g] \notin {"none", "pending"}
      /\ \A g \in Grants : delivered[g] > 0 => g \in once /\ delivered[g] = 1 /\ grant'[g] = "consumed"
  BY <1>4 DEF CallsInv, GrantOK
<1>8. \A g \in Grants : \A h \in Hosts : handle'[g][h] = "none"
  BY <1>1 DEF NoHandles
<1>9. EntryInv' /\ Waits' /\ Reserved'
  BY <1>1, <1>8, NoHostParts DEF EntryInv, Waits, Reserved
<1>10. \A g \in Grants : GrantOK(g)' /\ \A h \in Hosts : HandleOK(g, h)'
  BY <1>1, <1>7, <1>8 DEF GrantOK, HandleOK, Live, Standing
<1>11. OneSpender' /\ \A c \in Calls : CallOK(c)'
  BY <1>3 DEF OneSpender, CallOK, Spending, Waiting, Suspended, Held, Aborting, Working
<1>. QED BY <1>6, <1>9, <1>10, <1>11 DEF CallsInv

-----------------------------------------------------------------------------
(* The theorems *)

\* The invariant holds at first.
LEMMA InitCalls == Init => CallsInv
<1>1. SUFFICES ASSUME Init PROVE CallsInv
  OBVIOUS
<1>2. Idle \in CallRecords /\ Idle.pc = "idle" /\ Idle.supplied = {}
  BY CallsAssumption DEF Idle, CallRecords, PCs
<1>3. NoHandles \in HandleTables /\ NoHost \in HostRecords /\ 0 \in 0..MaxHosts /\ 0 \in 0..MaxFaults
  BY NoHostParts, CallsAssumption DEF NoHandles, HandleTables, HandleStates
<1>. HIDE DEF Idle
<1>4. /\ call \in [Calls -> CallRecords]
      /\ \A c \in Calls : call[c].pc \in {"idle", "done"} /\ call[c].supplied = {}
  BY <1>1, <1>2 DEF Init
<1>5. TypeOK
  BY <1>1, <1>3, <1>4 DEF Init, TypeOK, HandleTables, HostRecords, CallRecords
<1>. QED BY <1>1, <1>4, <1>5, Afresh DEF Init

\* Every step keeps it.
LEMMA NextCalls == CallsInv /\ [Next]_vars => CallsInv'
<1>1. SUFFICES ASSUME CallsInv, [Next]_vars PROVE CallsInv'
  OBVIOUS
<1>2. CASE UNCHANGED vars
  <2>1. UNCHANGED <<handle, host, call, delivered, leaked, life, crashed, due, answering, sweep, review, revoking,
                    once, grant>> /\ NoFault
    BY <1>2 DEF vars, NoFault
  <2>. QED BY <1>1, <2>1, Facts, Rest, GrantsKept, QuietKeeps
<1>3. ASSUME NEW c \in Calls, CallStep(c) PROVE CallsInv'
  BY <1>1, <1>3, CallStepKeeps
<1>4. CASE PermissionStep
  BY <1>1, <1>4, EnableKeeps, AnswerKeeps, ActivatePendingKeeps, RevokeKeeps, RevokeHandleKeeps, ExpireKeeps
     DEF PermissionStep
<1>5. CASE HostStep
  BY <1>1, <1>5, TeardownKeeps, RecordSweepKeeps, RestartKeeps DEF HostStep
<1>. QED BY <1>1, <1>2, <1>3, <1>4, <1>5 DEF Next

\* The invariant of calls, grants and handles.
THEOREM Invariance == Spec => []CallsInv
BY InitCalls, NextCalls, PTL DEF Spec

\* Every variable of PluginCalls keeps its type.
THEOREM TypeCorrect == Spec => []TypeOK
<1>1. CallsInv => TypeOK
  BY DEF CallsInv
<1>. QED BY <1>1, Invariance, PTL

\* A grant given once yields one result at most, and then row and handles are shut:
\* a result is received only by the one call that consumed the row, whose handle was
\* the last one (record_plugin_permission_call_event, complete_success).
THEOREM OnceIsOnce == Spec => []OnceDeliversOnce
<1>1. CallsInv => OnceDeliversOnce
  <2>1. SUFFICES ASSUME CallsInv, NEW g \in once
                 PROVE  /\ delivered[g] <= 1
                        /\ delivered[g] = 1 => grant[g] = "consumed" /\ \A h \in Hosts : ~IsActive(g, h)
    BY DEF OnceDeliversOnce
  <2>2. g \in Grants /\ delivered[g] \in 0..2
    BY <2>1, Facts
  <2>3. GrantOK(g)
    BY <2>1, <2>2 DEF CallsInv
  <2>. QED BY <2>2, <2>3 DEF GrantOK, Live, IsActive
<1>. QED BY <1>1, Invariance, PTL

\* A usable handle is the current host's and, once its grant is revoked, about to go;
\* host and reservations wait only for calls under way or leaked (GrantStore, remove_active_plugin).
THEOREM HandlesAccounted == Spec => []HandlesAreAccountedFor
<1>1. CallsInv => LiveHandlesAreOurs
  BY DEF CallsInv, HandleOK, LiveHandlesAreOurs, IsActive
<1>2. CallsInv => HoldersAreAlive
  <2>1. ASSUME CallsInv, host.call # None, \A p \in leaked : p[1] # host.call
        PROVE  call[host.call].pc \in Suspended \cup {"evict"}
    BY <2>1 DEF CallsInv, Waits, Waiting
  <2>2. ASSUME CallsInv, NEW g \in Grants, NEW h \in Hosts, handle[g][h] = "flying"
        PROVE  \/ \E c \in Calls : <<c, g>> \in leaked
               \/ \E c \in Calls : /\ call[c].g = g /\ call[c].host = h
                                  /\ call[c].pc \in Held \cup Aborting \cup {"evict"}
    <3>1. PICK c \in Calls : <<c, g>> \in leaked \/ Holds(c, g, h)
      BY <2>2 DEF CallsInv, Reserved
    <3>2. CASE Holds(c, g, h)
      BY <3>2 DEF Holds, Working, Aborting
    <3>. QED BY <3>1, <3>2
  <2>. QED BY <2>1, <2>2 DEF HoldersAreAlive
<1>. QED BY <1>1, <1>2, Invariance, PTL DEF HandlesAreAccountedFor

\* No result is published or received through a grant whose revocation has ended
\* (finish_contribution_call, the last check before a result is delivered).
THEOREM RevokedEnds == Spec => RevokedAuthorityEnds
<1>. DEFINE Published(c) == call[c].pc = "finish" /\ call'[c].pc = "returned"
               => \A g \in call[c].supplied : grant[g] = "revoked" => g \in revoking
            Got(g) == delivered'[g] > delivered[g] /\ grant[g] = "revoked"
               => g \in revoking \/ \E c \in Calls : call[c].g = g /\ call[c].pc = "resume"
<1>. HIDE DEF Published, Got
<1>1. ASSUME CallsInv, NEW d \in Calls, CallStep(d)
      PROVE  (\A c \in Calls : Published(c)) /\ (\A g \in Grants : Got(g))
  <2>1. CallEffect(d)
    BY <1>1, IdentifyEffect, BeginEffect, AdmitEffect, RecordRefusalEffect, AtWorkEffect, RecordFailureEffect,
     RecordStaleEffect, RecordCompletionEffect, AbortEffect, ResumeErrorEffect, DeliverEffect, EvictEffect,
     SettleEffect, ResumeContributionEffect, FinishEffect, CrashCheckEffect, RecordCrashEffect DEF CallStep
  <2>2. ASSUME NEW g \in Grants, delivered'[g] > delivered[g] PROVE grant[g] # "revoked"
    <3>1. delivered[g] \in 0..2
      BY <1>1, Facts
    <3>2. g = call[d].g /\ g \in once /\ call[d].pc \in Spending
      BY <2>1, <2>2, <3>1 DEF CallEffect, Delivers
    <3>. QED BY <1>1, <3>2 DEF CallsInv, CallOK
  <2>3. ASSUME NEW c \in Calls, call[c].pc = "finish", call'[c].pc = "returned", NEW g \in call[c].supplied,
               grant[g] = "revoked"
        PROVE  g \in revoking
    <3>1. c = d
      BY <2>1, <2>3, OthersUntouched
    <3>2. Finish(c)
      BY <1>1, <2>3, <3>1 DEF CallStep, Identify, Begin, Admit, RecordRefusal, RecordAdmission, Dispatch,
         RecordFailure, Recheck, RecordStale, RecordCompletion, Abort, ResumeError, Deliver, Evict, Settle,
         ResumeContribution, CrashCheck, RecordCrash, Aborting
    <3>3. SuppliedLive(c)
      <4>1. CASE Fail(c)
        <5>1. call'[c] = Failed(call[c])
          BY <1>1, <4>1, Facts DEF Fail
        <5>. QED BY <2>3, <5>1 DEF Failed, Ended, Idle
      <4>. QED BY <3>2, <4>1 DEF Finish
    <3>4. g \in Grants /\ call[c].host \in Hosts /\ handle[g][call[c].host] # "none"
      BY <1>1, <2>3, Facts DEF CallsInv, CallOK, CallRecords
    <3>5. handle[g][call[c].host] \in {"live", "flying", "used"}
      BY <1>1, <2>3, <3>3, <3>4, Facts DEF SuppliedLive, HandleTables, HandleStates
    <3>6. HandleOK(g, call[c].host)
      BY <1>1, <3>4, Facts
    <3>. QED BY <2>3, <3>5, <3>6 DEF HandleOK
  <2>. QED BY <2>2, <2>3 DEF Published, Got
<1>2. ASSUME CallsInv, Restart
      PROVE  (\A c \in Calls : Published(c)) /\ (\A g \in Grants : Got(g))
  <2>1. ASSUME NEW c \in Calls, call[c].pc = "finish" PROVE call'[c].pc # "returned"
    <3>1. call'[c] = Ended("done")
      BY <1>2, <2>1 DEF Restart
    <3>. QED BY <3>1 DEF Ended, Idle
  <2>2. \A g \in Grants : ~(delivered'[g] > delivered[g])
    BY <1>2, Facts DEF Restart
  <2>. QED BY <2>1, <2>2 DEF Published, Got
<1>3. ASSUME CallsInv, UNCHANGED <<call, delivered>>
      PROVE  (\A c \in Calls : Published(c)) /\ (\A g \in Grants : Got(g))
  <2>1. \A g \in Grants : ~(delivered'[g] > delivered[g])
    BY <1>3, Facts
  <2>. QED BY <1>3, <2>1 DEF Published, Got
<1>4. ASSUME CallsInv, [Next]_vars
      PROVE  (\A c \in Calls : Published(c)) /\ (\A g \in Grants : Got(g))
  <2>1. CASE PermissionStep \/ HostStep \/ UNCHANGED vars
    <3>1. Restart \/ UNCHANGED <<call, delivered>>
      BY <2>1 DEF PermissionStep, HostStep, vars, Enable, Answer, ActivatePending, Revoke, RevokeHandle, Expire,
         Disable, Boundary, Heartbeat, RecordSweep, callsKept
    <3>. QED BY <1>2, <1>3, <1>4, <3>1
  <2>2. CASE \E d \in Calls : CallStep(d)
    BY <1>1, <1>4, <2>2
  <2>. QED BY <1>4, <2>1, <2>2 DEF Next
<1>5. CallsInv /\ [Next]_vars =>
        [/\ \A c \in Calls : call[c].pc = "finish" /\ call'[c].pc = "returned"
             => \A g \in call[c].supplied : grant[g] = "revoked" => g \in revoking
         /\ \A g \in Grants : delivered'[g] > delivered[g] /\ grant[g] = "revoked"
             => g \in revoking \/ \E c \in Calls : call[c].g = g /\ call[c].pc = "resume"]_vars
  BY <1>4 DEF Published, Got
<1>. QED BY <1>5, Invariance, PTL DEF Spec, RevokedAuthorityEnds

=============================================================================
