--------------------------- MODULE PackageCustody ---------------------------
(***************************************************************************)
(* What uninstalling, restoring and purging promise about a package, as if *)
(* each file operation were one step: a package taken out of the project   *)
(* is in one place, it comes back at most once or is discarded, it is      *)
(* discarded only after its retention ended, and the store records a place *)
(* only after the package is there.                                        *)
(***************************************************************************)
CONSTANT Packages      \* one per uninstall

VARIABLES
    place,             \* where each package is
    recorded           \* what the store says of it

vars == <<place, recorded>>

Places == {"project", "trash", "returned", "gone"}
Records == {"none", "kept", "expired", "discarding", "returned", "discarded"}

TypeOK == place \in [Packages -> Places] /\ recorded \in [Packages -> Records]

Init ==
    /\ place = [p \in Packages |-> "project"]
    /\ recorded = [p \in Packages |-> "none"]

Put(p, from, to) == place[p] = from /\ place' = [place EXCEPT ![p] = to]
Record(p, from, to) == recorded[p] = from /\ recorded' = [recorded EXCEPT ![p] = to]

\* What happens to a package ...
Take(p) == recorded[p] = "none" /\ Put(p, "project", "trash")
Return(p) == recorded[p] \in {"kept", "expired", "discarding"} /\ Put(p, "trash", "returned")
Discard(p) == recorded[p] = "discarding" /\ Put(p, "trash", "gone")

\* ... and what is written down of it
RecordTaken(p) == place[p] = "trash" /\ Record(p, "none", "kept")
RecordReturned(p) == place[p] = "returned" /\ Record(p, "kept", "returned")
Expire(p) == Record(p, "kept", "expired")
Decide(p) == Record(p, "expired", "discarding")
RecordDiscarded(p) == place[p] = "gone" /\ Record(p, "discarding", "discarded")

Next ==
    \/ /\ place' # place /\ UNCHANGED recorded
       /\ \E p \in Packages : Take(p) \/ Return(p) \/ Discard(p)
    \/ /\ recorded' # recorded /\ UNCHANGED place
       /\ \E p \in Packages :
             RecordTaken(p) \/ RecordReturned(p) \/ Expire(p) \/ Decide(p) \/ RecordDiscarded(p)

Spec == Init /\ [][Next]_vars

=============================================================================
