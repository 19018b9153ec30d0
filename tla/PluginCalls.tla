---------------------------- MODULE PluginCalls ----------------------------
(***************************************************************************)
(* One plugin of one project: the permission it asks for, the handles its  *)
(* host holds, and the calls that run through them.                        *)
(*                                                                         *)
(* Every command opens its own store, and the registry's mutex is taken    *)
(* anew for each step of a call: a call therefore interleaves, between any *)
(* two of its steps, with other calls, with answers to permission          *)
(* requests, revocations, teardowns, heartbeats and restarts.  An action   *)
(* is what happens under one acquisition of the mutex or in one store      *)
(* transaction.                                                            *)
(*                                                                         *)
(* A grant is identified with the permission request it answers.  The      *)
(* package, the project and its revision are fixed, so of the identity     *)
(* checks only those on the host instance are left.  How the guest ends a  *)
(* step (traps, asks the broker, ends) and whether a write of the store    *)
(* fails are open.                                                         *)
(***************************************************************************)
EXTENDS Integers, FiniteSets, FiniteSetsExt

CONSTANTS Grants,       \* requests (and the grants that answer them)
          Calls,        \* calls of contributions, of files, Workspace or network
          Kinds,        \* the paths calls take
          MaxHosts,     \* host instances that are started
          MaxSteps,     \* MAX_GUEST_BROKER_STEPS
          MaxFaults,    \* bound: failed writes, traps, hanging hosts, restarts
          MaxExpired    \* bound: grants whose time runs out

CONSTANT None

ASSUME CallsAssumption ==
    /\ Kinds \subseteq {"contribution", "file", "workspace", "network"}
    /\ MaxHosts \in Nat \ {0} /\ MaxSteps \in Nat \ {0}
    /\ MaxFaults \in Nat /\ MaxExpired \in Nat
    /\ None \notin Grants /\ None \notin Calls

VARIABLES
    grant,      \* durable: request and grant rows
    once,       \* durable: the grants given by "allow once"
    life,       \* durable: desired state, last host session, whether it is
                \* shown as active
    crashed,    \* durable: the host instances with a host_quarantined event
    due,        \* the grants whose expiry has passed
    handle,     \* GrantStore: the handle of a grant for a host
    host,       \* RegistryState.active: the host, if there is one
    review,     \* RegistryState.pending: the request that is waited for
    answering,  \* answers that are stored and have not tried to activate
    revoking,   \* revocations that are stored and not yet in memory
    sweep,      \* host that a heartbeat removed and has not yet recorded
    call,       \* the calls
    delivered,  \* history: results received through an allow-once grant (2: more)
    leaked,     \* history: calls (and grants) that were not given back
    faults      \* failures so far

durable == <<grant, once, life, crashed>>
vars == <<grant, once, life, crashed, due, handle, host, review, answering,
          revoking, sweep, call, delivered, leaked, faults>>

Hosts == 1..MaxHosts
HandleStates == {"none", "live", "flying", "used", "revoked"}
NoHost == [id |-> 0, state |-> "none", call |-> None, steps |-> 0, handles |-> {}]

\* Where a call stands between two of its steps.
Held == {"admitted", "dispatch", "read", "checked", "stale", "failing",
         "uncertain", "expelled", "completed"}
Aborting == {"cancel", "abort", "abortUsed"}
Suspended == Held \cup Aborting \cup {"asked", "refused", "error", "resume"}
PCs == {"idle", "begin", "finish", "evict", "failed", "recording", "done", "returned"} \cup Suspended

Idle == [pc |-> "idle", kind |-> "none", crash |-> 0, host |-> 0, g |-> None,
         supplied |-> {}]

NoHandles == [g \in Grants |-> [h \in Hosts |-> "none"]]

Init ==
    /\ grant = [g \in Grants |-> "none"]
    /\ once = {}
    /\ life = [desired |-> "disabled", last |-> 0, shown |-> FALSE]
    /\ crashed = {}
    /\ due = {}
    /\ handle = NoHandles
    /\ host = NoHost
    /\ review = None
    /\ answering = {} /\ revoking = {}
    /\ sweep = 0
    /\ call = [c \in Calls |-> Idle]
    /\ delivered = [g \in Grants |-> 0]
    /\ leaked = {} /\ faults = 0

----------------------------------------------------------------------------
(* GrantStore.                                                             *)

\* invalidate_host: every handle of the instance is revoked, whatever it was.
Invalidated(hs, h) ==
    [g \in Grants |-> [hs[g] EXCEPT ![h] = IF @ = "none" THEN @ ELSE "revoked"]]

\* is_active: neither revoked nor used up nor expired.
IsActive(g, h) == handle[g][h] \in {"live", "flying"} /\ g \notin due

\* revalidation_error of a first admission: nothing else may hold the handle.
Revalidates(g, h) == g # None /\ IsActive(g, h) /\ handle[g][h] # "flying"

\* revalidation_error of an admitted call: allow-once must hold its reservation.
RevalidatesAdmitted(g, h) == IsActive(g, h) /\ (g \in once => handle[g][h] = "flying")

\* complete: only an allow-once handle in flight changes.
Completed(hs, g, h, state) ==
    IF hs[g][h] = "flying" THEN [hs EXCEPT ![g][h] = state] ELSE hs
Released(hs, g, h) == Completed(hs, g, h, "live")

\* Fault variant: the reservation is given back as after a failure.
UsedUp_Released(hs, g, h) == Released(hs, g, h)

UsedUp(hs, g, h) == Completed(hs, g, h, "used")

\* Fault variant: the handles are not looked at again.
SuppliedLive_Unchecked(c) == c \in Calls

\* handle_allows_admitted_completion, of every handle the call was given.
SuppliedLive(c) ==
    \A g \in call[c].supplied :
        handle[g][call[c].host] # "revoked" /\ g \notin due

----------------------------------------------------------------------------
(* The host and the registry entry.                                        *)

\* fail: the instance is quarantined and forgets the call it had.
Quarantined(hst) == [hst EXCEPT !.state = "quarantined", !.call = None, !.steps = 0]

\* Fault variant: the handles of the entry stay.
Removed_KeepsHandles(hs) == hs

\* remove_active_plugin: the entry, its routes and its handles go.
Removed(hs) == IF host.id = 0 THEN hs ELSE Invalidated(hs, host.id)

Fault == faults < MaxFaults /\ faults' = faults + 1
NoFault == UNCHANGED faults

\* cancel_broker_call: nothing to cancel, a call that is not the caller's
\* (a sequence violation), or the guest is told and may trap.
Cancel(c) ==
    \/ host.call = None /\ UNCHANGED host /\ NoFault
    \/ host.call \notin {c, None} /\ host' = Quarantined(host) /\ NoFault
    \/ host.call = c /\ host' = [host EXCEPT !.call = None, !.steps = 0] /\ NoFault
    \/ host.call = c /\ host' = Quarantined(host) /\ Fault

Goto(c, pc) == call' = [call EXCEPT ![c].pc = pc]

\* Where a call goes when it ends with an error: only the file and the
\* contribution paths look for a crash to persist.
Ended(pc) == [Idle EXCEPT !.pc = pc]
Failed(k) == IF k.kind \in {"contribution", "file"} /\ k.crash # 0
             THEN [Ended("failed") EXCEPT !.crash = k.crash] ELSE Ended("done")
End(c, pc) == call' = [call EXCEPT ![c] = Ended(pc)]
Fail(c) == call' = [call EXCEPT ![c] = Failed(@)]

\* What the guest answers when it runs: it ends, asks the broker for something
\* with a handle it was shown, or traps.  Contributions end in their finish.
EndOf(k) == IF k.kind = "contribution" THEN [k EXCEPT !.pc = "finish"] ELSE Ended("returned")
Shown(h) == {g \in Grants : handle[g][h] # "none"} \cup {None}

durables == UNCHANGED durable
others == UNCHANGED <<due, review, answering, revoking, sweep>>

----------------------------------------------------------------------------
(* A call begins.                                                          *)

\* invoke_file_contribution, invoke_plugin_with_hook: the identity a crash
\* would be recorded for is read first, in a lock of its own (without a host
\* there is nothing to call).
Identify(c) ==
    /\ call[c].pc = "idle" /\ host.id # 0
    /\ \E k \in Kinds :
          call' = [call EXCEPT ![c] = [@ EXCEPT !.pc = "begin", !.kind = k, !.crash = host.id]]
    /\ NoFault
    /\ UNCHANGED <<handle, host, delivered, leaked>> /\ durables /\ others

\* begin_broker_call_bounded on an active host that is not busy.
GuestBegins(c) ==
    LET hs == host.handles
        k  == [call[c] EXCEPT !.host = host.id, !.supplied = hs] IN
    \/ /\ call' = [call EXCEPT ![c] = EndOf(k)]
       /\ UNCHANGED host /\ NoFault
    \/ \E g \in Shown(host.id) :
          /\ k.kind = "contribution" => g \in hs
          /\ call' = [call EXCEPT ![c] = [k EXCEPT !.pc = "asked", !.g = g]]
          /\ host' = [host EXCEPT !.call = c, !.steps = 1] /\ NoFault
    \/ /\ host' = Quarantined(host) /\ Fault
       /\ call' = [call EXCEPT ![c] = Failed(k)]
    \/ \* the input is refused, or a handle was asked for that was not supplied
       /\ k.kind = "contribution" /\ UNCHANGED host /\ Fault
       /\ call' = [call EXCEPT ![c] = Failed(k)]

\* begin_contribution_call has no test for a call under way: the host meets
\* it as a sequence violation.  The other paths refuse while one is active.
BusyBegin(c) ==
    /\ host' = IF call[c].kind = "contribution" THEN Quarantined(host) ELSE host
    /\ Fail(c)

Begin(c) ==
    /\ call[c].pc = "begin"
    /\ \/ host.state # "active" /\ Fail(c) /\ UNCHANGED host /\ NoFault
       \/ host.state = "active" /\ host.call # None /\ BusyBegin(c) /\ NoFault
       \/ host.state = "active" /\ host.call = None /\ GuestBegins(c)
    /\ UNCHANGED <<handle, delivered, leaked>> /\ durables /\ others

----------------------------------------------------------------------------
(* A broker request is admitted, carried out and completed.                *)

\* The store takes an event that names a grant only while the grant is active
\* (record_plugin_permission_call_event); any write may fail.
Recordable(g) == grant[g] = "active"
WriteFails(g) == IF Recordable(g) THEN Fault ELSE NoFault

\* A call returns an error and keeps the host's call and its reservation.
Leak(c, g) == Fail(c) /\ leaked' = leaked \cup {<<c, g>>}

\* revalidate: the handle against the host that is active now; allow-once is
\* reserved.
\* A Workspace reference may be refused before that: the call then returns and
\* leaves the host waiting for it.
Admit(c) ==
    LET g == call[c].g
        h == call[c].host
        allowed == host.id = h /\ Revalidates(g, h) IN
    /\ call[c].pc = "asked"
    /\ \/ host.id = 0 /\ Fail(c) /\ UNCHANGED <<handle, leaked>> /\ NoFault
       \/ /\ host.id # 0 /\ call[c].kind = "workspace"
          /\ Leak(c, None) /\ UNCHANGED handle /\ Fault
       \/ /\ host.id # 0 /\ allowed
          /\ handle' = IF g \in once THEN [handle EXCEPT ![g][h] = "flying"] ELSE handle
          /\ Goto(c, "admitted") /\ UNCHANGED leaked /\ NoFault
       \/ /\ host.id # 0 /\ ~allowed
          /\ Goto(c, "refused") /\ UNCHANGED <<handle, leaked>> /\ NoFault
    /\ UNCHANGED <<host, delivered>> /\ durables /\ others

\* call_denied of a refusal.  A contribution then cancels its call, the other
\* paths answer the guest; where the write fails the contribution returns at
\* once and the others cancel.
RecordRefusal(c) ==
    LET contribution == call[c].kind = "contribution" IN
    /\ call[c].pc = "refused"
    /\ \/ Goto(c, IF contribution THEN "cancel" ELSE "error") /\ UNCHANGED leaked /\ NoFault
       \/ contribution /\ Leak(c, None) /\ Fault
       \/ ~contribution /\ Goto(c, "cancel") /\ UNCHANGED leaked /\ Fault
    /\ UNCHANGED <<handle, host, delivered>> /\ durables /\ others

\* call_admitted is written before anything is done.
RecordAdmission(c) ==
    /\ call[c].pc = "admitted"
    /\ \/ Recordable(call[c].g) /\ Goto(c, "dispatch") /\ NoFault
       \/ Goto(c, "abort") /\ WriteFails(call[c].g)
    /\ UNCHANGED <<handle, host, delivered, leaked>> /\ durables /\ others

\* read_project_file, the Workspace dispatch or the fetch.  Each hop of a fetch
\* is authorized against the host and the grant of the moment.
Dispatch(c) ==
    LET k == call[c]
        authorized == host.id = k.host /\ RevalidatesAdmitted(k.g, k.host) IN
    /\ k.pc = "dispatch"
    /\ \/ (k.kind = "network" => authorized) /\ Goto(c, "read") /\ NoFault
       \/ (k.kind = "network" => authorized) /\ Goto(c, "failing") /\ Fault
       \/ k.kind = "network" /\ authorized /\ Goto(c, "uncertain") /\ Fault
       \/ k.kind = "network" /\ ~authorized /\ Goto(c, "expelled") /\ NoFault
    /\ UNCHANGED <<handle, host, delivered, leaked>> /\ durables /\ others

\* The operation failed: call_failed names the grant, call_denied of a fetch
\* whose authority is gone does not, completion_uncertain also consumes.
RecordFailure(c) ==
    LET k == call[c]
        ok == k.pc = "expelled" \/ Recordable(k.g) IN
    /\ k.pc \in {"failing", "expelled", "uncertain"}
    /\ handle' = IF k.pc = "uncertain" THEN UsedUp(handle, k.g, k.host)
                 ELSE Released(handle, k.g, k.host)
    /\ \/ /\ ok /\ NoFault
          /\ grant' = [grant EXCEPT ![k.g] =
                          IF k.pc = "uncertain" /\ k.g \in once THEN "consumed" ELSE @]
          /\ Goto(c, "error") /\ UNCHANGED leaked
       \/ /\ IF ok THEN Fault ELSE NoFault
          /\ IF k.kind = "contribution" THEN Leak(c, None)
             ELSE Goto(c, "cancel") /\ UNCHANGED leaked
          /\ UNCHANGED grant
    /\ UNCHANGED <<host, delivered, once, life, crashed>> /\ others

\* still_admitted: the host of the admission is looked at by files and
\* contributions, the Workspace's identity by Workspace calls.
Recheck(c) ==
    LET k == call[c]
        admitted == /\ RevalidatesAdmitted(k.g, k.host)
                    /\ k.kind \in {"contribution", "file"} => host.id = k.host IN
    /\ k.pc = "read"
    /\ \/ admitted /\ Goto(c, "checked") /\ NoFault
       \/ ~admitted /\ Goto(c, "stale") /\ NoFault
       \/ k.kind = "workspace" /\ Goto(c, "stale") /\ Fault
    /\ UNCHANGED <<handle, host, delivered, leaked>> /\ durables /\ others

\* call_denied "stale_after_dispatch", then the reservation is released.
RecordStale(c) ==
    LET k == call[c] IN
    /\ k.pc = "stale"
    /\ \/ /\ k.kind = "contribution" /\ UNCHANGED handle
          /\ \/ Goto(c, "abort") /\ UNCHANGED leaked /\ NoFault
             \/ Leak(c, k.g) /\ Fault
       \/ /\ k.kind # "contribution" /\ UNCHANGED leaked
          /\ \/ Goto(c, "error") /\ handle' = Released(handle, k.g, k.host) /\ NoFault
             \/ Goto(c, "abort") /\ UNCHANGED handle /\ Fault
    /\ UNCHANGED <<host, delivered>> /\ durables /\ others

\* call_completed, which consumes an allow-once grant in the same transaction.
\* A fetch whose completion cannot be stored counts as done.
RecordCompletion(c) ==
    LET g == call[c].g IN
    /\ call[c].pc = "checked"
    /\ \/ /\ Recordable(g)
          /\ grant' = [grant EXCEPT ![g] = IF g \in once THEN "consumed" ELSE @]
          /\ Goto(c, "completed") /\ NoFault
       \/ /\ Goto(c, IF call[c].kind = "network" THEN "abortUsed" ELSE "abort")
          /\ UNCHANGED grant /\ WriteFails(g)
    /\ UNCHANGED <<handle, host, delivered, leaked, once, life, crashed>> /\ others

\* release_plugin_admission or complete_plugin_uncertain, then
\* cancel_plugin_call / cancel_contribution_call on the host that is active.
Abort(c) ==
    LET k == call[c] IN
    /\ k.pc \in Aborting
    /\ handle' = CASE k.pc = "abort"     -> Released(handle, k.g, k.host)
                   [] k.pc = "abortUsed" -> UsedUp(handle, k.g, k.host)
                   [] k.pc = "cancel"    -> handle
    /\ Cancel(c)
    /\ Fail(c)
    /\ UNCHANGED <<delivered, leaked>> /\ durables /\ others

----------------------------------------------------------------------------
(* The guest resumes.                                                      *)

\* The guest may ask once more only below its step limit.
MayAsk == host.steps < MaxSteps

\* resume_broker_call_bounded of call c, and what becomes of the registry: a
\* call that is not the host's (any more), a call at its step limit or a guest
\* that traps quarantine the host, and the entry that is active then goes.
GuestResumes(c, hs) ==
    /\ handle' = hs
    /\ host.call = c
    /\ \/ /\ host' = [host EXCEPT !.call = None, !.steps = 0]
          /\ call' = [call EXCEPT ![c] = EndOf(@)]
       \/ /\ MayAsk
          /\ \E g \in Shown(host.id) :
                /\ call[c].kind = "contribution" => g \in call[c].supplied
                /\ call' = [call EXCEPT ![c].pc = "asked", ![c].g = g]
          /\ host' = [host EXCEPT !.steps = @ + 1]
    /\ NoFault

Breaks(c) == IF host.call = c /\ MayAsk THEN Fault ELSE NoFault

\* The failing outcomes, for the paths that remove the entry at once.
GuestBreaks(c, hs) ==
    /\ host' = NoHost
    /\ handle' = Removed(hs)
    /\ Fail(c)
    /\ Breaks(c)

\* resume_plugin_error: the entry that is active, whichever host it is.
ResumeError(c) ==
    /\ call[c].pc \in {"asked", "error"} /\ call[c].kind # "contribution"
    /\ \/ host.id = 0 /\ Fail(c) /\ UNCHANGED <<host, handle>> /\ NoFault
       \/ host.id # 0 /\ (GuestResumes(c, handle) \/ GuestBreaks(c, handle))
    /\ UNCHANGED <<delivered, leaked>> /\ durables /\ others

Received(g) ==
    delivered' = IF g \in once /\ delivered[g] < 2 THEN [delivered EXCEPT ![g] = @ + 1]
                 ELSE delivered

\* The last check, complete_success and the result, in one lock.  A check that
\* fails, or a host that does, leads to the removal of the entry.
Deliver(c) ==
    LET k  == call[c]
        hs == UsedUp(handle, k.g, k.host) IN
    /\ k.pc = "completed" /\ k.kind # "contribution"
    /\ \/ /\ ~RevalidatesAdmitted(k.g, k.host)
          /\ IF k.kind = "file"
             THEN handle' = hs /\ Cancel(c)
             ELSE UNCHANGED <<handle, host>> /\ NoFault
          /\ Goto(c, "evict") /\ UNCHANGED delivered
       \/ /\ RevalidatesAdmitted(k.g, k.host)
          /\ Received(k.g)
          /\ GuestResumes(c, hs)
       \/ /\ RevalidatesAdmitted(k.g, k.host)
          /\ handle' = hs
          /\ host' = Quarantined(host) /\ Breaks(c)
          /\ Goto(c, "evict") /\ UNCHANGED delivered
    /\ UNCHANGED leaked /\ durables /\ others

\* remove_active_plugin after a delivery that failed, then call_failed (whose
\* failure changes nothing).
Evict(c) ==
    /\ call[c].pc = "evict"
    /\ host' = NoHost
    /\ handle' = Removed(handle)
    /\ Fail(c) /\ NoFault
    /\ UNCHANGED <<delivered, leaked>> /\ durables /\ others

\* A contribution's last check is in a lock of its own ...
Settle(c) ==
    LET k == call[c] IN
    /\ k.pc = "completed" /\ k.kind = "contribution"
    /\ handle' = UsedUp(handle, k.g, k.host)
    /\ Goto(c, IF RevalidatesAdmitted(k.g, k.host) THEN "resume" ELSE "cancel")
    /\ NoFault
    /\ UNCHANGED <<host, delivered, leaked>> /\ durables /\ others

\* ... and so is resume_contribution_call.  ensure_live: past the deadline the
\* host that is active is told to cancel; another host is left alone.  An error
\* of the call's own host removes the entry.
Deadline(c) == host' = (IF host.call = None THEN host ELSE Quarantined(host)) /\ Fault
ResumeContribution(c) ==
    LET k == call[c]
        own == host.id = k.host
        result == k.pc = "resume" IN
    /\ k.kind = "contribution" /\ k.pc \in {"asked", "error", "resume"}
    /\ \/ /\ host.id # 0 /\ own /\ GuestResumes(c, handle)
          /\ IF result THEN Received(k.g) ELSE UNCHANGED delivered
       \/ /\ host.id # 0 /\ own /\ GuestBreaks(c, handle)
          /\ UNCHANGED delivered
       \/ /\ host.id = 0 \/ ~own
          /\ UNCHANGED host /\ NoFault
          /\ Fail(c) /\ UNCHANGED <<handle, delivered>>
       \/ /\ host.id # 0 /\ ~own /\ Deadline(c)
          /\ Fail(c) /\ UNCHANGED <<handle, delivered>>
    /\ UNCHANGED leaked /\ durables /\ others

\* finish_contribution_call: the handles, the deadline, the host and the route
\* are checked before the result is published.
Finish(c) ==
    LET k == call[c] IN
    /\ k.pc = "finish"
    /\ \/ /\ host.id = k.host /\ SuppliedLive(c)
          /\ End(c, "returned") /\ UNCHANGED host /\ NoFault
       \/ /\ ~(host.id = k.host /\ SuppliedLive(c))
          /\ Fail(c) /\ UNCHANGED host /\ NoFault
       \/ /\ host.id # 0 /\ SuppliedLive(c) /\ Deadline(c)
          /\ Fail(c)
    /\ UNCHANGED <<handle, delivered, leaked>> /\ durables /\ others

----------------------------------------------------------------------------
(* A call that failed looks for a crash to persist.                        *)

\* persist_crash_if_needed: an active host that is not quarantined is no crash.
CrashCheck(c) ==
    LET exact == host.id = call[c].crash IN
    /\ call[c].pc = "failed"
    /\ \/ /\ exact /\ host.state # "quarantined"
          /\ End(c, "done") /\ UNCHANGED <<host, handle>>
       \/ /\ exact /\ host.state = "quarantined"
          /\ host' = NoHost /\ handle' = Removed(handle)
          /\ Goto(c, "recording")
       \/ /\ ~exact /\ Goto(c, "recording") /\ UNCHANGED <<host, handle>>
    /\ NoFault
    /\ UNCHANGED <<delivered, leaked>> /\ durables /\ others

\* record_workspace_plugin_crash: only for the last host of a plugin that is
\* wanted.  Where the write fails the plugin is blocked, whichever its host is
\* (the count of crashes that blocks it is part of PluginLifecycle).
CrashWritten(h) ==
    \/ /\ life.desired = "enabled" /\ life.last = h
       /\ crashed' = crashed \cup {h}
       /\ life' = [life EXCEPT !.shown = FALSE]
       /\ NoFault
    \/ /\ ~(life.desired = "enabled" /\ life.last = h)
       /\ UNCHANGED <<crashed, life>> /\ NoFault
    \/ /\ life' = [life EXCEPT !.shown = FALSE]
       /\ UNCHANGED crashed /\ Fault

RecordCrash(c) ==
    /\ call[c].pc = "recording"
    /\ CrashWritten(call[c].crash)
    /\ End(c, "done")
    /\ UNCHANGED <<grant, once, handle, host, delivered, leaked>> /\ others

----------------------------------------------------------------------------
(* Permission requests and activation.                                     *)

NextHost == life.last + 1
callsKept == UNCHANGED <<call, delivered, leaked>>

\* prepare_plugin_activation, given the grants it may use: a handle is minted
\* unless the grant has expired or has a live handle already, the event of the
\* minting needs the grant active, and the new host is published.
Activated(g, hs) ==
    /\ NextHost \in Hosts
    /\ g \notin due /\ \A h \in Hosts : hs[g][h] \notin {"live", "flying"}
    /\ Recordable(g)
    /\ handle' = [hs EXCEPT ![g][NextHost] = "live"]
    /\ host' = [NoHost EXCEPT !.id = NextHost, !.state = "active", !.handles = {g}]
    /\ life' = [desired |-> "enabled", last |-> NextHost, shown |-> TRUE]

\* request_enable, retry and the reconciliation: a host whose row does not say
\* active is stopped first; a project grant that is active is reused, otherwise
\* the user is asked.
Reusable(g) == grant[g] = "active" /\ g \notin once /\ g \notin due

Enable ==
    /\ host.id = 0 \/ ~life.shown
    /\ review = None
    /\ \/ /\ \E g \in Grants : Reusable(g) /\ Activated(g, Removed(handle))
          /\ UNCHANGED <<grant, review>>
       \/ /\ ~\E g \in Grants : Reusable(g)
          /\ \E g \in Grants :
                /\ grant[g] = "none"
                /\ grant' = [grant EXCEPT ![g] = "pending"]
                /\ review' = g
          /\ life' = [life EXCEPT !.desired = "enabled", !.shown = FALSE]
          /\ host' = NoHost /\ handle' = Removed(handle)
    /\ NoFault
    /\ UNCHANGED <<once, crashed, due, answering, revoking, sweep>> /\ callsKept

\* resolve_plugin_permission_request.
Answer(g, decision) ==
    /\ grant[g] = "pending"
    /\ grant' = [grant EXCEPT ![g] = IF decision = "deny" THEN "denied" ELSE "active"]
    /\ once' = IF decision = "allow_once" THEN once \cup {g} ELSE once
    /\ answering' = answering \cup {g} /\ NoFault
    /\ UNCHANGED <<life, crashed, due, handle, host, review, revoking, sweep>> /\ callsKept

\* respond, once it has the mutex: try_activate_pending.  Every active grant of
\* the package is a candidate, not only the one just given.
ActivatePending(g) ==
    /\ g \in answering
    /\ answering' = answering \ {g}
    /\ \/ /\ review # None /\ grant[review] = "pending"
          /\ UNCHANGED <<handle, host, life, review>> /\ NoFault
       \/ /\ review # None /\ grant[review] = "denied"
          /\ review' = None /\ NoFault
          /\ life' = [life EXCEPT !.shown = FALSE]
          /\ UNCHANGED <<handle, host>>
       \/ /\ review # None /\ grant[review] \notin {"pending", "denied"}
          /\ review' = None
          /\ \/ (\E x \in Grants : Activated(x, handle)) /\ NoFault
             \/ /\ life' = [life EXCEPT !.shown = FALSE]   \* it did not start
                /\ UNCHANGED <<handle, host>>
                /\ IF \E x \in Grants : Recordable(x) /\ x \notin due THEN Fault ELSE NoFault
       \/ review = None /\ UNCHANGED <<handle, host, life, review>> /\ NoFault
    /\ UNCHANGED <<grant, once, crashed, due, revoking, sweep>> /\ callsKept

\* revoke: the store first (a grant that is revoked already has no handle) ...
Revoke(g) ==
    /\ grant[g] = "active" /\ revoking = {}
    /\ grant' = [grant EXCEPT ![g] = "revoked"]
    /\ revoking' = revoking \cup {g} /\ NoFault
    /\ UNCHANGED <<once, life, crashed, due, handle, host, review, answering, sweep>>
    /\ callsKept

\* ... then the handle of the grant and the host's own list.
RevokeHandle(g) ==
    /\ g \in revoking
    /\ revoking' = revoking \ {g} /\ NoFault
    /\ LET minted == {h \in Hosts : handle[g][h] # "none"} IN
          handle' = IF minted = {} THEN handle
                    ELSE [handle EXCEPT ![g][Max(minted)] = "revoked"]
    /\ host' = [host EXCEPT !.handles = @ \ {g}]
    /\ UNCHANGED <<due, review, answering, sweep>> /\ durables /\ callsKept

\* Time passes; the rows of expired grants stay active.
Expire(g) ==
    /\ grant[g] = "active" /\ g \notin due /\ Cardinality(due) < MaxExpired
    /\ due' = due \cup {g} /\ NoFault
    /\ UNCHANGED <<handle, host, review, answering, revoking, sweep>> /\ durables /\ callsKept

----------------------------------------------------------------------------
(* Teardowns, heartbeats and restarts.                                     *)

\* What a teardown does to the registry: the entry and its handles, and the
\* permission review with its requests.
TornDown ==
    /\ host' = NoHost /\ handle' = Removed(handle)
    /\ review' = None

Cancelled(gr) == [g \in Grants |-> IF gr[g] = "pending" THEN "cancelled" ELSE gr[g]]

\* disable_plugin, under the registry's mutex.
Disable ==
    /\ life.desired = "enabled"
    /\ TornDown
    /\ grant' = Cancelled(grant)
    /\ life' = [life EXCEPT !.desired = "disabled", !.shown = FALSE]
    /\ NoFault
    /\ UNCHANGED <<once, crashed, due, answering, revoking, sweep>> /\ callsKept

\* A boundary (project switch, Workspace restart) tears the plugin down, keeps
\* it wanted, and recovers requests and allow-once grants; a recovery that
\* fails is only reported.
Recovered(gr) == [g \in Grants |-> IF gr[g] = "active" /\ g \in once THEN "revoked" ELSE gr[g]]
Boundary ==
    /\ host.id # 0 \/ review # None
    /\ TornDown
    /\ \/ grant' = Recovered(Cancelled(grant)) /\ NoFault
       \/ grant' = Cancelled(grant) /\ Fault
    /\ life' = [life EXCEPT !.shown = FALSE]
    /\ UNCHANGED <<once, crashed, due, answering, revoking, sweep>> /\ callsKept

\* sweep_project_heartbeats: a host that does not answer goes ...
Heartbeat ==
    /\ host.id # 0 /\ sweep = 0
    /\ sweep' = host.id
    /\ IF host.state = "quarantined" THEN NoFault ELSE Fault
    /\ host' = NoHost /\ handle' = Removed(handle)
    /\ UNCHANGED <<due, review, answering, revoking>> /\ durables /\ callsKept

\* ... and is recorded once the mutex is released.
RecordSweep ==
    /\ sweep # 0
    /\ CrashWritten(sweep)
    /\ sweep' = 0
    /\ UNCHANGED <<grant, once, due, handle, host, review, answering, revoking>> /\ callsKept

\* The desktop ends and starts again: the rows are all that is left, and
\* requests and allow-once grants are recovered.
Restart ==
    /\ life.last > 0
    /\ grant' = Recovered(Cancelled(grant))
    /\ handle' = NoHandles
    /\ host' = NoHost /\ review' = None
    /\ answering' = {} /\ revoking' = {} /\ sweep' = 0
    /\ call' = [c \in Calls |-> IF call[c].pc = "idle" THEN Idle ELSE Ended("done")]
    /\ leaked' = {} /\ Fault
    /\ UNCHANGED <<once, life, crashed, due, delivered>>

CallStep(c) ==
    \/ Identify(c) \/ Begin(c) \/ Admit(c) \/ RecordRefusal(c) \/ RecordAdmission(c)
    \/ Dispatch(c) \/ RecordFailure(c) \/ Recheck(c) \/ RecordStale(c)
    \/ RecordCompletion(c) \/ Abort(c) \/ ResumeError(c) \/ Deliver(c) \/ Evict(c)
    \/ Settle(c) \/ ResumeContribution(c) \/ Finish(c) \/ CrashCheck(c) \/ RecordCrash(c)

PermissionStep ==
    \/ Enable
    \/ \E g \in Grants :
          \/ \E d \in {"deny", "allow_once", "allow_project"} : Answer(g, d)
          \/ ActivatePending(g) \/ Revoke(g) \/ RevokeHandle(g) \/ Expire(g)

HostStep == Disable \/ Boundary \/ Heartbeat \/ RecordSweep \/ Restart

Next == (\E c \in Calls : CallStep(c)) \/ PermissionStep \/ HostStep

Spec == Init /\ [][Next]_vars

----------------------------------------------------------------------------
(* Properties.                                                             *)

\* The types of the state.
TypeOK ==
    /\ grant \in [Grants -> {"none", "pending", "denied", "cancelled", "active",
                             "revoked", "consumed"}]
    /\ once \subseteq Grants /\ due \subseteq Grants
    /\ life \in [desired : {"disabled", "enabled"}, last : 0..MaxHosts,
                 shown : BOOLEAN]
    /\ crashed \subseteq Hosts
    /\ handle \in [Grants -> [Hosts -> HandleStates]]
    /\ host \in [id : 0..MaxHosts, state : {"none", "active", "quarantined"},
                 call : Calls \cup {None}, steps : 0..MaxSteps, handles : SUBSET Grants]
    /\ review \in Grants \cup {None}
    /\ answering \subseteq Grants /\ revoking \subseteq Grants
    /\ sweep \in 0..MaxHosts
    /\ call \in [Calls -> [pc : PCs, kind : Kinds \cup {"none"}, crash : 0..MaxHosts,
                           host : 0..MaxHosts, g : Grants \cup {None}, supplied : SUBSET Grants]]
    /\ delivered \in [Grants -> 0..2]
    /\ leaked \subseteq Calls \X (Grants \cup {None})
    /\ faults \in 0..MaxFaults

\* A grant given once yields one result at most, over hosts that are stopped
\* and started in the middle of a call, calls that overlap, failed writes and
\* restarts; and once it has, both of its guards are shut, the row in the store
\* and the handles in memory (record_plugin_permission_call_event and
\* complete_success are steps of their own).
OnceDeliversOnce ==
    \A g \in once :
        /\ delivered[g] <= 1
        /\ delivered[g] = 1 => grant[g] = "consumed" /\ \A h \in Hosts : ~IsActive(g, h)

\* A handle that can still be used is the current host's, and nothing that was
\* revoked to the end (store and memory) or consumed by a result is usable.
LiveHandlesAreOurs ==
    \A g \in Grants : \A h \in Hosts :
        IsActive(g, h) =>
            /\ host.id = h /\ g \in host.handles
            /\ grant[g] = "revoked" => g \in revoking

\* What a call holds is given back: the host waits for a call, and an allow-once
\* handle is reserved, only while that call is under way; calls that a failed
\* write made return at once (leaked) are the exception.
HoldersAreAlive ==
    /\ host.call # None /\ (\A p \in leaked : p[1] # host.call)
          => call[host.call].pc \in Suspended \cup {"evict"}
    /\ \A g \in Grants : \A h \in Hosts :
          IsActive(g, h) /\ handle[g][h] = "flying" =>
              \/ \E c \in Calls : <<c, g>> \in leaked
              \/ \E c \in Calls : /\ call[c].g = g /\ call[c].host = h
                                 /\ call[c].pc \in Held \cup Aborting \cup {"evict"}

\* A usable handle belongs to the host that runs, and a reserved one to a call under way.
HandlesAreAccountedFor == LiveHandlesAreOurs /\ HoldersAreAlive

\* No result is published, and none returned by a file, Workspace or network
\* call, through a grant whose revocation has ended (finish_contribution_call,
\* the last check before a result is delivered).
RevokedAuthorityEnds ==
    [][/\ \A c \in Calls : call[c].pc = "finish" /\ call'[c].pc = "returned"
             => \A g \in call[c].supplied : grant[g] = "revoked" => g \in revoking
       /\ \A g \in Grants : delivered'[g] > delivered[g] /\ grant[g] = "revoked"
             => g \in revoking \/ \E c \in Calls : call[c].g = g /\ call[c].pc = "resume"]_vars

============================================================================
