--------------------------- MODULE ExtensionProofs ---------------------------
(***************************************************************************)
(* What is guaranteed of what surrounds a plugin's host: a file it reads,  *)
(* the objects it inspects, the package it runs, the requests it sends and *)
(* the contributions it offers, for every bound on the changes, faults,    *)
(* hosts and calls that happen meanwhile; the order its plugins start in,  *)
(* and the uses its permissions allow, for every pattern, path and host.   *)
(***************************************************************************)
EXTENDS NetworkCalls, ProjectFileReads, WorkspaceReferences, PackageCache, ContributionRoutes,
        PluginResolver, PermissionRules, FiniteSetTheorems, SequenceTheorems, TLAPS

-----------------------------------------------------------------------------
(* One project.fs.read *)

Leaves == FileIds \cup {"link", "directory", "gone"}
Directories == {"dir", "repository", "link", "file", "gone"}
Identities == [id : FileIds \cup {Missing}, len : Nat, ver : Nat]
ReadSteps ==
    {"guest", "admitted", "root", "directory", "leaf", "before", "canonical", "open", "first", "second",
     "size", "opened", "path", "end", "read", "failed", "complete", "deliver", "delivered", "ended"}
ReadFailures ==
    {"StaleProject", "TooLarge", "InvalidPath", "ReservedPath", "InvalidProject", "NestedRepository",
     "SymlinkOrReparse", "NotRegularFile", "IoFailed", "OutsideProject", "FileChanged"}
ReadRecords ==
    [step : ReadSteps, root : Nat, before : Identities, open : Leaves, canonical : Leaves \cup {"elsewhere"},
     bytes : Seq(Nat), result : ReadFailures \cup {"none", "value"}]

\* n bytes of version v
Copies(n, v) == [i \in 1 .. n |-> v]
Smaller(m, n) == IF m < n THEN m ELSE n

Unopened == {"guest", "admitted", "root", "directory", "leaf", "before", "canonical", "open"}
Opened == {"first", "second", "size", "opened", "path", "end", "read", "complete", "deliver", "delivered"}
Compared == {"path", "end", "read", "complete", "deliver", "delivered"}

\* The opened file is still the version it had before it was opened.
SameVersion == files[fread.open].ver = fread.before.ver

ReadTypeOK ==
    /\ fread \in ReadRecords /\ files \in [FileIds -> [len : Nat, ver : Nat]] /\ leaf \in Leaves
    /\ rootdir \in Nat /\ dir \in Directories

\* A version has one length; versions only grow.
VersionsInv ==
    fread.before.id \in FileIds =>
        /\ fread.before.ver <= files[fread.before.id].ver
        /\ files[fread.before.id].ver = fread.before.ver => files[fread.before.id].len = fread.before.len

\* What was read is of the version before the file was opened, if that is still the
\* one it has; after the comparison it is all of it.
BytesInv ==
    /\ fread.step \in Unopened \cup {"first"} => fread.bytes = << >>
    /\ fread.step \in Opened => fread.open \in FileIds /\ fread.open = fread.before.id
    /\ fread.step = "second" /\ SameVersion =>
          fread.bytes = Copies(Smaller(fread.before.len, 1), fread.before.ver)
    /\ fread.step \in {"size", "opened"} /\ SameVersion =>
          fread.bytes = Copies(Smaller(fread.before.len, MaxRead + 1), fread.before.ver)
    /\ fread.step = "opened" => Len(fread.bytes) <= MaxRead
    /\ fread.step \in Compared => fread.bytes = Copies(fread.before.len, fread.before.ver)

\* What was recorded, by the step of the call
RowsInv ==
    /\ fread.step \in {"guest", "admitted"} => freadrows = << >>
    /\ fread.step \in (Unopened \ {"guest", "admitted"}) \cup (Opened \ {"deliver", "delivered"}) =>
          freadrows = <<"call_admitted">>
    /\ fread.step \in {"deliver", "delivered"} => freadrows = <<"call_admitted", "call_completed">>

ReadInv == ReadTypeOK /\ VersionsInv /\ BytesInv /\ RowsInv

\* Copies of one version, read one after the other.
LEMMA CopiesParts ==
  ASSUME NEW n \in Nat, NEW v \in Nat
  PROVE  /\ Copies(n, v) \in Seq(Nat) /\ Len(Copies(n, v)) = n
         /\ \A m \in Nat : m <= n => Copies(m, v) \o Copies(n - m, v) = Copies(n, v)
<1>1. \A k \in Nat : Copies(k, v) \in Seq(Nat) /\ Len(Copies(k, v)) = k
  <2>1. ASSUME NEW k \in Nat PROVE Copies(k, v) \in Seq(Nat) /\ Len(Copies(k, v)) = k
    <3>1. PICK s : s = Copies(k, v)
      OBVIOUS
    <3>2. s \in [1 .. k -> Nat] /\ DOMAIN s = 1 .. k
      BY <3>1 DEF Copies
    <3>3. s \in Seq(Nat)
      BY <3>2, SeqDef
    <3>4. Len(s) \in Nat /\ 1 .. Len(s) = 1 .. k
      BY <3>2, <3>3, LenProperties
    <3>5. \A i \in Nat : i \in 1 .. Len(s) <=> i \in 1 .. k
      BY <3>4
    <3>6. Len(s) <= k
      BY <3>4, <3>5
    <3>7. k <= Len(s)
      BY <3>4, <3>5
    <3>. QED BY <3>1, <3>3, <3>4, <3>6, <3>7
  <2>. QED BY <2>1
<1>2. ASSUME NEW m \in Nat, m <= n PROVE Copies(m, v) \o Copies(n - m, v) = Copies(n, v)
  <2>1. PICK s, t : s = Copies(m, v) /\ t = Copies(n - m, v)
    OBVIOUS
  <2>2. n - m \in Nat /\ s \in Seq(Nat) /\ t \in Seq(Nat) /\ Len(s) = m /\ Len(t) = n - m
    BY <1>1, <1>2, <2>1
  <2>3. /\ s \o t \in Seq(Nat) /\ Len(s \o t) = n
        /\ \A i \in 1 .. n : (s \o t)[i] = IF i <= m THEN s[i] ELSE t[i - m]
    <3>1. m + (n - m) = n
      BY <1>2
    <3>2. /\ s \o t \in Seq(Nat) /\ Len(s \o t) = Len(s) + Len(t)
          /\ \A i \in 1 .. Len(s) + Len(t) : (s \o t)[i] = IF i <= Len(s) THEN s[i] ELSE t[i - Len(s)]
      BY <2>2, ConcatProperties
    <3>. QED BY <2>2, <3>1, <3>2
  <2>4. ASSUME NEW i \in 1 .. n PROVE (s \o t)[i] = v
    <3>. i <= m \/ i > m
      OBVIOUS
    <3>1. CASE i <= m
      BY <2>1, <2>3, <3>1 DEF Copies
    <3>2. CASE i > m
      <4>1. i - m \in 1 .. n - m
        BY <2>2, <3>2
      <4>2. t[i - m] = v
        BY <2>1, <4>1 DEF Copies
      <4>. QED BY <2>3, <3>2, <4>2
    <3>. QED BY <3>1, <3>2
  <2>5. PICK c : c = Copies(n, v)
    OBVIOUS
  <2>6. c \in Seq(Nat) /\ Len(c) = n /\ \A i \in 1 .. n : c[i] = v
    BY <1>1, <2>5 DEF Copies
  <2>7. s \o t = c
    BY <2>3, <2>4, <2>6, SeqEqual
  <2>. QED BY <2>1, <2>5, <2>7
<1>. QED BY <1>1, <1>2

\* Initially nothing is read.
LEMMA ReadInitKeeps ==
  ASSUME ReadInit
  PROVE  ReadInv
<1>1. << >> \in Seq(Nat)
  BY EmptySeq
<1>2. /\ fread = [step |-> "guest", root |-> 0, before |-> NoIdentity, open |-> Missing, canonical |-> Missing,
                  bytes |-> << >>, result |-> "none"]
      /\ rootdir = 1 /\ dir = "dir" /\ leaf \in FileIds /\ freadrows = << >>
      /\ files \in [FileIds -> [len : 0 .. MaxRead + 1, ver : {1}]]
  BY DEF ReadInit
<1>3. NoIdentity \in Identities /\ NoIdentity.id \notin FileIds
  <2>1. "gone" \notin FileIds
    BY ReadsAssumption
  <2>2. PICK n : n = NoIdentity
    OBVIOUS
  <2>3. n = [id |-> "gone", len |-> 0, ver |-> 0]
    BY <2>2 DEF NoIdentity, Missing
  <2>4. n \in Identities /\ n.id = "gone"
    BY <2>3 DEF Identities, Missing
  <2>. QED BY <2>1, <2>2, <2>4
<1>4. ReadTypeOK
  <2>1. fread \in ReadRecords
    <3>1. "guest" \in ReadSteps /\ "gone" \in Leaves /\ 0 \in Nat /\ "none" \in ReadFailures \cup {"none", "value"}
      BY DEF ReadSteps, Leaves
    <3>2. PICK b \in Seq(Nat), d \in Identities : b = << >> /\ d = NoIdentity
      BY <1>1, <1>3
    <3>3. fread = [step |-> "guest", root |-> 0, before |-> d, open |-> "gone", canonical |-> "gone",
                   bytes |-> b, result |-> "none"]
      BY <1>2, <3>2 DEF Missing
    <3>. QED BY <3>1, <3>2, <3>3 DEF ReadRecords
  <2>2. files \in [FileIds -> [len : Nat, ver : Nat]]
    BY <1>2, ReadsAssumption
  <2>. QED BY <1>2, <2>1, <2>2 DEF ReadTypeOK, Leaves, Directories
<1>5. fread.step = "guest" /\ fread.before = NoIdentity /\ fread.bytes = << >>
  BY <1>2
<1>. QED BY <1>2, <1>3, <1>4, <1>5 DEF ReadInv, VersionsInv, BytesInv, RowsInv, Unopened, Opened, Compared

\* A step of the call that leaves the disk alone.
LEMMA CallReads ==
  ASSUME ReadInv, NEW n \in ReadRecords, fread' = n, UNCHANGED <<rootdir, dir, leaf, files>>,
         \/ n.before = fread.before
         \/ n.before.id \in FileIds => n.before.len = files[n.before.id].len /\ n.before.ver = files[n.before.id].ver,
         BytesInv', RowsInv'
  PROVE  ReadInv'
<1>1. ReadTypeOK'
  BY DEF ReadInv, ReadTypeOK
<1>2. VersionsInv'
  <2>1. CASE n.before = fread.before
    BY <2>1 DEF ReadInv, VersionsInv
  <2>2. CASE n.before.id \in FileIds => n.before.len = files[n.before.id].len /\ n.before.ver = files[n.before.id].ver
    BY <2>2 DEF ReadInv, ReadTypeOK, VersionsInv
  <2>. QED BY <2>1, <2>2
<1>. QED BY <1>1, <1>2 DEF ReadInv

\* A step that only moves the call on.
LEMMA StepReads ==
  ASSUME ReadInv, NEW s \in ReadSteps, ReadTo(s), UNCHANGED <<rootdir, dir, leaf, files>>, RowsInv',
         s \in Unopened \cup {"first"} => fread.step \in Unopened \cup {"first"},
         s \in Opened => fread.step \in Opened,
         s # "second",
         s \in {"size", "opened"} => fread.step = "size",
         s = "opened" => Len(fread.bytes) <= MaxRead,
         s \in Compared => fread.step \in Compared \/ (fread.step = "opened" /\ SameVersion /\ fread.before.len <= MaxRead)
  PROVE  ReadInv'
<1>1. PICK n : n = [fread EXCEPT !.step = s]
  OBVIOUS
<1>2. fread \in ReadRecords /\ fread' = n /\ BytesInv /\ ReadTypeOK
  BY <1>1 DEF ReadInv, ReadTypeOK, ReadTo
<1>3. /\ n \in ReadRecords /\ n.step = s /\ n.before = fread.before /\ n.bytes = fread.bytes /\ n.open = fread.open
  BY <1>1, <1>2 DEF ReadRecords
<1>4. BytesInv'
  <2>1. fread.before.len \in Nat
    BY <1>2 DEF ReadRecords, Identities
  <2>2. SameVersion' <=> SameVersion
    BY <1>2, <1>3 DEF SameVersion
  <2>3. s \in Compared => n.bytes = Copies(n.before.len, n.before.ver)
    <3>1. CASE fread.step \in Compared
      BY <1>2, <1>3, <3>1 DEF BytesInv
    <3>2. CASE fread.step = "opened" /\ SameVersion /\ fread.before.len <= MaxRead
      BY <1>2, <1>3, <2>1, <3>2, ReadsAssumption DEF BytesInv, Smaller
    <3>. QED BY <3>1, <3>2
  <2>4. s \in Unopened \cup {"first"} => n.bytes = << >>
    BY <1>2, <1>3 DEF BytesInv
  <2>5. s \in Opened => n.open \in FileIds /\ n.open = n.before.id
    BY <1>2, <1>3 DEF BytesInv
  <2>6. s \in {"size", "opened"} /\ SameVersion =>
          n.bytes = Copies(Smaller(n.before.len, MaxRead + 1), n.before.ver)
    BY <1>2, <1>3 DEF BytesInv
  <2>. QED BY <1>2, <1>3, <2>2, <2>3, <2>4, <2>5, <2>6 DEF BytesInv
<1>. QED BY <1>2, <1>3, <1>4, CallReads

\* A read that fails has nothing to say of its bytes.
LEMMA FailReads ==
  ASSUME ReadInv, NEW code \in ReadFailures, ReadFails(code)
  PROVE  ReadInv'
<1>1. PICK n : n = [fread EXCEPT !.step = "failed", !.result = code]
  OBVIOUS
<1>2. fread \in ReadRecords /\ fread' = n /\ UNCHANGED <<rootdir, dir, leaf, files>>
  BY <1>1 DEF ReadInv, ReadTypeOK, ReadFails, quiet, disk
<1>3. n \in ReadRecords /\ n.step = "failed" /\ n.before = fread.before
  BY <1>1, <1>2 DEF ReadRecords, ReadSteps
<1>4. BytesInv' /\ RowsInv'
  BY <1>2, <1>3 DEF BytesInv, RowsInv, Unopened, Opened, Compared
<1>. QED BY <1>2, <1>3, <1>4, CallReads

\* A chunk of the file, after what was read of it before.
LEMMA ChunkReads ==
  ASSUME ReadInv, NEW from, NEW to, NEW n \in Nat, ReadChunk(from, to, n),
         <<from, to, n>> \in {<<"first", "second", 1>>, <<"second", "size", MaxRead + 1>>}
  PROVE  ReadInv'
<1>1. /\ fread \in ReadRecords /\ BytesInv /\ VersionsInv /\ RowsInv /\ fread.step = from /\ files \in [FileIds -> [len : Nat, ver : Nat]]
      /\ UNCHANGED <<rootdir, dir, leaf, files, freadrows>>
  BY DEF ReadInv, ReadTypeOK, ReadChunk, At, quiet, disk
<1>2. from \in Opened /\ fread.open \in FileIds /\ fread.open = fread.before.id
  BY <1>1 DEF BytesInv, Opened
<1>3. PICK f : f = files[fread.open]
  OBVIOUS
<1>4. f \in [len : Nat, ver : Nat] /\ f.len \in Nat /\ f.ver \in Nat
  BY <1>1, <1>2, <1>3
<1>5. PICK upto \in Nat : upto = Smaller(f.len, n)
  BY <1>4 DEF Smaller
<1>6. fread' = [fread EXCEPT !.step = to, !.bytes = fread.bytes \o Copies(upto - Len(fread.bytes), f.ver)]
  BY <1>3, <1>5 DEF ReadChunk, Copies, Smaller
<1>7. fread.bytes \in Seq(Nat) /\ Len(fread.bytes) \in Nat
  BY <1>1, LenProperties DEF ReadRecords
<1>8. PICK t : t = Copies(upto - Len(fread.bytes), f.ver)
  OBVIOUS
<1>9. t \in Seq(Nat)
  <2>1. CASE upto - Len(fread.bytes) \in Nat
    BY <1>4, <1>8, <2>1, CopiesParts
  <2>2. CASE upto - Len(fread.bytes) \notin Nat
    <3>1. 1 .. (upto - Len(fread.bytes)) = {} /\ 1 .. 0 = {}
      BY <1>7, <2>2
    <3>2. t \in [1 .. 0 -> Nat]
      BY <1>8, <3>1 DEF Copies
    <3>. QED BY <3>2, SeqDef
  <2>. QED BY <2>1, <2>2
<1>10. PICK b \in Seq(Nat) : b = fread.bytes \o t
  BY <1>7, <1>9, ConcatProperties
<1>11. PICK r : r = [fread EXCEPT !.step = to, !.bytes = b]
  OBVIOUS
<1>12. /\ fread' = r /\ r \in ReadRecords /\ r.step = to /\ r.before = fread.before /\ r.bytes = b /\ r.open = fread.open
  BY <1>1, <1>6, <1>8, <1>10, <1>11 DEF ReadRecords, ReadSteps
<1>13. SameVersion => b = Copies(Smaller(fread.before.len, n), fread.before.ver)
  <2>1. SUFFICES ASSUME SameVersion PROVE b = Copies(Smaller(fread.before.len, n), fread.before.ver)
    OBVIOUS
  <2>2. f.ver = fread.before.ver /\ f.len = fread.before.len
    BY <1>1, <1>2, <1>3, <2>1 DEF SameVersion, VersionsInv
  <2>3. PICK m \in Nat : fread.bytes = Copies(m, f.ver) /\ m <= upto
    <3>1. CASE from = "first"
      <4>1. fread.bytes = << >> /\ Copies(0, f.ver) = << >>
        <5>1. Copies(0, f.ver) \in Seq(Nat) /\ Len(Copies(0, f.ver)) = 0
          BY <1>4, CopiesParts
        <5>2. Copies(0, f.ver) = << >>
          BY <5>1, EmptySeq
        <5>. QED BY <1>1, <3>1, <5>2 DEF BytesInv
      <4>. QED BY <4>1
    <3>2. CASE from = "second"
      <4>1. fread.bytes = Copies(Smaller(f.len, 1), f.ver) /\ n = MaxRead + 1
        BY <1>1, <2>1, <2>2, <3>2 DEF BytesInv
      <4>2. Smaller(f.len, 1) \in Nat /\ Smaller(f.len, 1) <= upto
        BY <1>4, <1>5, <4>1, ReadsAssumption DEF Smaller
      <4>. QED BY <4>1, <4>2
    <3>. QED BY <3>1, <3>2
  <2>4. Len(fread.bytes) = m
    BY <1>4, <2>3, CopiesParts
  <2>5. b = Copies(m, f.ver) \o Copies(upto - m, f.ver)
    BY <1>8, <1>10, <2>3, <2>4
  <2>6. b = Copies(upto, f.ver)
    BY <1>4, <1>5, <2>3, <2>5, CopiesParts
  <2>. QED BY <1>5, <2>2, <2>6
<1>14. SameVersion' <=> SameVersion
  BY <1>1, <1>12 DEF SameVersion
<1>15. BytesInv'
  BY <1>2, <1>12, <1>13, <1>14 DEF BytesInv, Unopened, Compared, Opened
<1>16. RowsInv'
  BY <1>1, <1>12 DEF RowsInv, Unopened, Opened
<1>. QED BY <1>1, <1>12, <1>15, <1>16, CallReads

\* Another program changes the disk: a file that changed has another version.
LEMMA DiskReads ==
  ASSUME ReadInv, WriteFile \/ ReplaceFile \/ ReplaceDirectory, UNCHANGED readcall
  PROVE  ReadInv'
<1>1. /\ fread \in ReadRecords /\ files \in [FileIds -> [len : Nat, ver : Nat]] /\ leaf \in Leaves /\ rootdir \in Nat
      /\ dir \in Directories /\ VersionsInv /\ BytesInv /\ RowsInv /\ fread' = fread /\ freadrows' = freadrows
  BY DEF ReadInv, ReadTypeOK, readcall
<1>2. fread.before \in Identities /\ fread.before.ver \in Nat
  BY <1>1 DEF ReadRecords, Identities
<1>3. /\ leaf' \in Leaves /\ rootdir' \in Nat /\ dir' \in Directories /\ files' \in [FileIds -> [len : Nat, ver : Nat]]
      /\ \A g \in FileIds : \/ files'[g] = files[g]
                            \/ files'[g].ver = files[g].ver + 1
  <2>1. CASE WriteFile
    <3>1. PICK f \in FileIds, k \in 0 .. MaxRead + 1 :
             files' = [files EXCEPT ![f] = [len |-> k, ver |-> @.ver + 1]]
      BY <2>1 DEF WriteFile
    <3>2. k \in Nat /\ files[f].ver + 1 \in Nat
      BY <1>1, <3>1, ReadsAssumption
    <3>3. PICK r : r = [len |-> k, ver |-> files[f].ver + 1]
      OBVIOUS
    <3>4. r \in [len : Nat, ver : Nat] /\ r.ver = files[f].ver + 1
      BY <3>2, <3>3
    <3>5. files' = [files EXCEPT ![f] = r]
      BY <3>1, <3>3
    <3>. QED BY <1>1, <2>1, <3>4, <3>5 DEF WriteFile
  <2>2. CASE ReplaceFile
    BY <1>1, <2>2 DEF ReplaceFile, Leaves, Missing
  <2>3. CASE ReplaceDirectory
    BY <1>1, <2>3 DEF ReplaceDirectory, Directories, Missing
  <2>. QED BY <2>1, <2>2, <2>3
<1>4. ReadTypeOK'
  BY <1>1, <1>3 DEF ReadTypeOK
<1>5. VersionsInv'
  <2>1. SUFFICES ASSUME fread.before.id \in FileIds
                 PROVE  /\ fread.before.ver <= files'[fread.before.id].ver
                        /\ files'[fread.before.id].ver = fread.before.ver =>
                              files'[fread.before.id].len = fread.before.len
    BY <1>1 DEF VersionsInv
  <2>2. PICK g \in FileIds : g = fread.before.id
    BY <2>1
  <2>3. files[g].ver \in Nat /\ fread.before.ver <= files[g].ver
        /\ (files[g].ver = fread.before.ver => files[g].len = fread.before.len)
    BY <1>1, <2>2 DEF VersionsInv
  <2>4. CASE files'[g] = files[g]
    BY <2>2, <2>3, <2>4
  <2>5. CASE files'[g].ver = files[g].ver + 1
    BY <1>2, <2>2, <2>3, <2>5
  <2>. QED BY <1>3, <2>4, <2>5
<1>6. fread.step \in Opened /\ SameVersion' => SameVersion
  <2>1. SUFFICES ASSUME fread.step \in Opened, SameVersion' PROVE SameVersion
    OBVIOUS
  <2>2. fread.open \in FileIds /\ fread.open = fread.before.id
    BY <1>1, <2>1 DEF BytesInv
  <2>3. files[fread.open].ver \in Nat /\ fread.before.ver <= files[fread.open].ver
    BY <1>1, <2>2 DEF VersionsInv
  <2>4. files'[fread.open].ver = fread.before.ver
    BY <1>1, <2>1 DEF SameVersion
  <2>. QED BY <1>2, <1>3, <2>2, <2>3, <2>4 DEF SameVersion
<1>7. BytesInv'
  BY <1>1, <1>6 DEF BytesInv, Opened, Unopened, Compared
<1>8. RowsInv'
  BY <1>1 DEF RowsInv
<1>. QED BY <1>4, <1>5, <1>7, <1>8 DEF ReadInv

\* The identity of a file, and of what is none.
LEMMA IdentityOf ==
  ASSUME ReadInv, NEW f \in Leaves
  PROVE  /\ metadata_identity(f) \in Identities
         /\ f \in FileIds => /\ metadata_identity(f).id = f /\ metadata_identity(f).len = files[f].len
                             /\ metadata_identity(f).ver = files[f].ver
         /\ f \notin FileIds => metadata_identity(f).id \notin FileIds
<1>1. files \in [FileIds -> [len : Nat, ver : Nat]] /\ "gone" \notin FileIds
  BY ReadsAssumption DEF ReadInv, ReadTypeOK
<1>2. PICK m : m = metadata_identity(f)
  OBVIOUS
<1>3. CASE f \in FileIds
  <2>1. m = [id |-> f, len |-> files[f].len, ver |-> files[f].ver]
    BY <1>2, <1>3 DEF metadata_identity
  <2>. QED BY <1>1, <1>2, <1>3, <2>1 DEF Identities
<1>4. CASE f \notin FileIds
  <2>1. m = [id |-> "gone", len |-> 0, ver |-> 0]
    BY <1>2, <1>4 DEF metadata_identity, NoIdentity, Missing
  <2>. QED BY <1>1, <1>2, <1>4, <2>1 DEF Identities, Missing
<1>. QED BY <1>3, <1>4

\* Where the path leads.
LEMMA PathLeads ==
  ASSUME ReadInv
  PROVE  AtPath \in Leaves /\ CanonicalFile \in Leaves \cup {"elsewhere"}
BY DEF ReadInv, ReadTypeOK, AtPath, CanonicalFile, Leaves, Missing

\* Every step of the call, and every change of the disk below it, keeps the invariant.
LEMMA ReadStep ==
  ASSUME ReadInv, [ReadNext]_freadvars
  PROVE  ReadInv'
<1>. USE DEF At, quiet, disk
<1>0. fread \in ReadRecords /\ BytesInv /\ VersionsInv /\ RowsInv /\ ReadTypeOK /\ fread.before.len \in Nat
      /\ AtPath \in Leaves /\ CanonicalFile \in Leaves \cup {"elsewhere"} /\ fread.bytes \in Seq(Nat)
  BY PathLeads DEF ReadInv, ReadTypeOK, ReadRecords, Identities
<1>1. CASE (WriteFile \/ ReplaceFile \/ ReplaceDirectory) /\ UNCHANGED readcall
  BY <1>1, DiskReads
<1>2. CASE AdmitRead
  <2>1. PICK s : s \in {"admitted", "ended"} /\ ReadTo(s) /\ (s = "admitted" => UNCHANGED freadrows)
    BY <1>2 DEF AdmitRead
  <2>2. fread'.step = s /\ RowsInv'
    BY <1>0, <1>2, <2>1 DEF AdmitRead, ReadTo, ReadRecords, RowsInv, Unopened, Opened
  <2>. QED BY <1>0, <1>2, <2>1, <2>2, StepReads DEF AdmitRead, ReadSteps, Unopened, Opened, Compared
<1>3. CASE RecordReadAdmission
  <2>1. PICK s : s \in {"root", "ended"} /\ ReadTo(s) /\ (s = "root" => ReadRecorded("call_admitted"))
    BY <1>3 DEF RecordReadAdmission
  <2>2. s = "root" => freadrows' = <<"call_admitted">>
    BY <1>0, <1>3, <2>1 DEF RecordReadAdmission, ReadRecorded, RowsInv
  <2>3. fread'.step = s /\ RowsInv'
    BY <1>0, <2>1, <2>2 DEF ReadTo, ReadRecords, RowsInv, Unopened, Opened
  <2>. QED BY <1>0, <1>3, <2>1, <2>3, StepReads DEF RecordReadAdmission, ReadSteps, Unopened, Opened, Compared
<1>4. CASE RootIdentity
  <2>1. CASE \E code \in {"StaleProject", "TooLarge", "InvalidPath", "ReservedPath", "InvalidProject"} : ReadFails(code)
    BY <2>1, FailReads DEF ReadFailures
  <2>2. CASE fread' = [fread EXCEPT !.step = "directory", !.root = rootdir] /\ quiet
    <3>1. PICK n : n = [fread EXCEPT !.step = "directory", !.root = rootdir]
      OBVIOUS
    <3>2. n \in ReadRecords /\ n.step = "directory" /\ n.before = fread.before /\ n.bytes = fread.bytes
      BY <1>0, <3>1 DEF ReadRecords, ReadSteps, ReadTypeOK
    <3>3. BytesInv' /\ RowsInv'
      BY <1>0, <1>4, <2>2, <3>1, <3>2 DEF RootIdentity, BytesInv, RowsInv, Unopened, Opened, Compared
    <3>. QED BY <2>2, <3>1, <3>2, <3>3, CallReads
  <2>. QED BY <1>4, <2>1, <2>2 DEF RootIdentity
<1>5. CASE WalkDirectory \/ WalkLeaf
  <2>1. CASE \E code \in ReadFailures : ReadFails(code)
    BY <2>1, FailReads DEF ReadFailures
  <2>2. CASE \E s \in {"leaf", "before"} : ReadTo(s) /\ quiet /\ fread.step \in {"directory", "leaf"}
    <3>1. PICK s \in {"leaf", "before"} : ReadTo(s) /\ quiet /\ fread.step \in {"directory", "leaf"}
      BY <2>2
    <3>2. fread'.step = s /\ RowsInv'
      BY <1>0, <3>1 DEF ReadTo, ReadRecords, RowsInv, Unopened, Opened
    <3>. QED BY <1>0, <3>1, <3>2, StepReads DEF ReadSteps, Unopened, Opened, Compared
  <2>3. WalkDirectory => (\E code \in ReadFailures : ReadFails(code)) \/ (ReadTo("leaf") /\ quiet /\ fread.step = "directory")
    BY <1>0 DEF WalkDirectory, Missing, ReadTypeOK, Directories, ReadFailures
  <2>4. WalkLeaf => (\E code \in ReadFailures : ReadFails(code)) \/ (ReadTo("before") /\ quiet /\ fread.step = "leaf")
    BY <1>0, ReadsAssumption DEF WalkLeaf, Missing, Leaves, ReadFailures
  <2>. QED BY <1>5, <2>1, <2>2, <2>3, <2>4
<1>6. CASE BeforeIdentity
  <2>1. CASE AtPath = Missing
    BY <1>6, <2>1, FailReads DEF BeforeIdentity, ReadFailures
  <2>2. CASE AtPath # Missing
    <3>1. PICK m \in Identities : m = metadata_identity(AtPath)
      BY <1>0, IdentityOf
    <3>2. m.id \in FileIds => m.len = files[m.id].len /\ m.ver = files[m.id].ver
      BY <1>0, <3>1, IdentityOf
    <3>3. PICK n : n = [fread EXCEPT !.step = "canonical", !.before = m]
      OBVIOUS
    <3>4. n \in ReadRecords /\ n.step = "canonical" /\ n.before = m /\ n.bytes = fread.bytes
      BY <1>0, <3>3 DEF ReadRecords, ReadSteps
    <3>5. fread' = n /\ quiet /\ fread.step = "before"
      BY <1>6, <2>2, <3>1, <3>3 DEF BeforeIdentity
    <3>6. BytesInv' /\ RowsInv'
      BY <1>0, <3>4, <3>5 DEF BytesInv, RowsInv, Unopened, Opened, Compared
    <3>. QED BY <3>2, <3>4, <3>5, <3>6, CallReads
  <2>. QED BY <2>1, <2>2
<1>7. CASE Canonicalize
  <2>1. CASE CanonicalFile \in {Missing, "elsewhere"}
    BY <1>7, <2>1, FailReads DEF Canonicalize, ReadFailures
  <2>2. CASE CanonicalFile \notin {Missing, "elsewhere"}
    <3>1. PICK n : n = [fread EXCEPT !.step = "open", !.canonical = CanonicalFile]
      OBVIOUS
    <3>2. n \in ReadRecords /\ n.step = "open" /\ n.before = fread.before /\ n.bytes = fread.bytes
      BY <1>0, <3>1 DEF ReadRecords, ReadSteps
    <3>3. fread' = n /\ quiet /\ fread.step = "canonical"
      BY <1>7, <2>2, <3>1 DEF Canonicalize
    <3>4. BytesInv' /\ RowsInv'
      BY <1>0, <3>2, <3>3 DEF BytesInv, RowsInv, Unopened, Opened, Compared
    <3>. QED BY <3>2, <3>3, <3>4, CallReads
  <2>. QED BY <2>1, <2>2
<1>8. CASE Open
  <2>1. CASE AtPath \notin FileIds
    BY <1>8, <2>1, FailReads DEF Open, ReadFailures
  <2>2. CASE AtPath \in FileIds /\ metadata_identity(AtPath) # fread.before
    BY <1>8, <2>2, FailReads DEF Open, ReadFailures
  <2>3. CASE AtPath \in FileIds /\ metadata_identity(AtPath) = fread.before
    <3>1. PICK n : n = [fread EXCEPT !.step = "first", !.open = AtPath]
      OBVIOUS
    <3>2. n \in ReadRecords /\ n.step = "first" /\ n.before = fread.before /\ n.bytes = fread.bytes /\ n.open = AtPath
      BY <1>0, <3>1 DEF ReadRecords, ReadSteps
    <3>3. fread' = n /\ quiet /\ fread.step = "open"
      BY <1>8, <2>3, <3>1 DEF Open
    <3>4. n.open = n.before.id
      BY <1>0, <2>3, <3>2, IdentityOf
    <3>5. BytesInv' /\ RowsInv'
      BY <1>0, <2>3, <3>2, <3>3, <3>4 DEF BytesInv, RowsInv, Unopened, Opened, Compared
    <3>. QED BY <3>2, <3>3, <3>5, CallReads
  <2>. QED BY <2>1, <2>2, <2>3
<1>9. CASE FirstChunk
  BY <1>9, ChunkReads DEF FirstChunk
<1>10. CASE SecondChunk
  <2>1. MaxRead + 1 \in Nat
    BY ReadsAssumption
  <2>. QED BY <1>10, <2>1, ChunkReads DEF SecondChunk
<1>11. CASE TestSize
  <2>1. CASE Len(fread.bytes) > MaxRead
    BY <1>11, <2>1, FailReads DEF TestSize, ReadFailures
  <2>2. CASE ~(Len(fread.bytes) > MaxRead)
    <3>1. Len(fread.bytes) <= MaxRead /\ ReadTo("opened") /\ quiet /\ fread.step = "size"
      BY <1>0, <1>11, <2>2, LenProperties, ReadsAssumption DEF TestSize
    <3>2. fread'.step = "opened" /\ RowsInv'
      BY <1>0, <3>1 DEF ReadTo, ReadRecords, RowsInv, Unopened, Opened
    <3>. QED BY <3>1, <3>2, StepReads DEF ReadSteps, Unopened, Opened, Compared
  <2>. QED BY <2>1, <2>2
<1>12. CASE AfterOpened
  <2>1. CASE metadata_identity(fread.open) # fread.before
    BY <1>12, <2>1, FailReads DEF AfterOpened, ReadFailures
  <2>2. CASE metadata_identity(fread.open) = fread.before
    <3>1. ReadTo("path") /\ quiet /\ fread.step = "opened"
      BY <1>12, <2>2 DEF AfterOpened
    <3>2. fread'.step = "path" /\ RowsInv'
      BY <1>0, <3>1 DEF ReadTo, ReadRecords, RowsInv, Unopened, Opened
    <3>3. fread.open \in FileIds /\ fread.open \in Leaves /\ Len(fread.bytes) <= MaxRead
      BY <1>0, <3>1 DEF BytesInv, Opened, Leaves
    <3>4. SameVersion
      BY <2>2, <3>3, IdentityOf DEF SameVersion
    <3>5. fread.bytes = Copies(Smaller(fread.before.len, MaxRead + 1), fread.before.ver)
      BY <1>0, <3>1, <3>4 DEF BytesInv
    <3>6. Smaller(fread.before.len, MaxRead + 1) \in Nat /\ fread.before.ver \in Nat
      BY <1>0, ReadsAssumption DEF Smaller, ReadRecords, Identities
    <3>7. Len(fread.bytes) = Smaller(fread.before.len, MaxRead + 1)
      BY <3>5, <3>6, CopiesParts
    <3>8. fread.before.len <= MaxRead
      BY <1>0, <3>3, <3>7, ReadsAssumption DEF Smaller
    <3>. QED BY <3>1, <3>2, <3>4, <3>8, StepReads DEF ReadSteps, Unopened, Opened, Compared
  <2>. QED BY <2>1, <2>2
<1>13. CASE AfterPath
  <2>1. CASE metadata_identity(AtPath) # fread.before
    BY <1>13, <2>1, FailReads DEF AfterPath, ReadFailures
  <2>2. CASE metadata_identity(AtPath) = fread.before
    <3>1. ReadTo("end") /\ quiet /\ fread.step = "path"
      BY <1>13, <2>2 DEF AfterPath
    <3>2. fread'.step = "end" /\ RowsInv'
      BY <1>0, <3>1 DEF ReadTo, ReadRecords, RowsInv, Unopened, Opened
    <3>. QED BY <3>1, <3>2, StepReads DEF ReadSteps, Unopened, Opened, Compared
  <2>. QED BY <2>1, <2>2
<1>14. CASE AfterRoot
  <2>1. CASE rootdir # fread.root \/ CanonicalFile # fread.canonical
    BY <1>14, <2>1, FailReads DEF AfterRoot, ReadFailures
  <2>2. CASE ~(rootdir # fread.root \/ CanonicalFile # fread.canonical)
    <3>1. PICK n : n = [fread EXCEPT !.step = "read", !.result = "value"]
      OBVIOUS
    <3>2. n \in ReadRecords /\ n.step = "read" /\ n.before = fread.before /\ n.bytes = fread.bytes /\ n.open = fread.open
      BY <1>0, <3>1 DEF ReadRecords, ReadSteps
    <3>3. fread' = n /\ quiet /\ fread.step = "end"
      BY <1>14, <2>2, <3>1 DEF AfterRoot
    <3>4. BytesInv' /\ RowsInv'
      BY <1>0, <3>2, <3>3 DEF BytesInv, RowsInv, Unopened, Opened, Compared
    <3>. QED BY <3>2, <3>3, <3>4, CallReads
  <2>. QED BY <2>1, <2>2
<1>15. CASE ReadFailed
  <2>1. ReadTo("ended") /\ UNCHANGED <<rootdir, dir, leaf, files>>
    BY <1>15 DEF ReadFailed
  <2>2. fread'.step = "ended" /\ RowsInv'
    BY <1>0, <2>1 DEF ReadTo, ReadRecords, RowsInv, Unopened, Opened
  <2>. QED BY <2>1, <2>2, StepReads DEF ReadSteps, Unopened, Opened, Compared
<1>16. CASE AdmitResult
  <2>1. PICK s : s \in {"complete", "ended"} /\ ReadTo(s) /\ (s = "complete" => UNCHANGED freadrows)
    BY <1>16 DEF AdmitResult
  <2>2. fread'.step = s /\ RowsInv'
    BY <1>0, <1>16, <2>1 DEF AdmitResult, ReadTo, ReadRecords, RowsInv, Unopened, Opened
  <2>. QED BY <1>0, <1>16, <2>1, <2>2, StepReads DEF AdmitResult, ReadSteps, Unopened, Opened, Compared
<1>17. CASE CompleteRead
  <2>1. PICK s : s \in {"deliver", "ended"} /\ ReadTo(s) /\ (s = "deliver" => ReadRecorded("call_completed"))
    BY <1>17 DEF CompleteRead
  <2>2. s = "deliver" => freadrows' = <<"call_admitted", "call_completed">>
    <3>1. fread.step = "complete" /\ freadrows = <<"call_admitted">>
      BY <1>0, <1>17 DEF CompleteRead, RowsInv, Unopened, Opened
    <3>. QED BY <2>1, <3>1 DEF ReadRecorded
  <2>3. fread'.step = s /\ RowsInv'
    BY <1>0, <2>1, <2>2 DEF ReadTo, ReadRecords, RowsInv, Unopened, Opened
  <2>. QED BY <1>0, <1>17, <2>1, <2>3, StepReads DEF CompleteRead, ReadSteps, Unopened, Opened, Compared
<1>18. CASE DeliverRead
  <2>1. PICK s : s \in {"delivered", "ended"} /\ ReadTo(s) /\ (s = "delivered" => UNCHANGED freadrows)
    BY <1>18 DEF DeliverRead
  <2>2. fread'.step = s /\ RowsInv'
    BY <1>0, <1>18, <2>1 DEF DeliverRead, ReadTo, ReadRecords, RowsInv, Unopened, Opened
  <2>. QED BY <1>0, <1>18, <2>1, <2>2, StepReads DEF DeliverRead, ReadSteps, Unopened, Opened, Compared
<1>19. CASE EndAuthority
  BY <1>0, <1>19 DEF EndAuthority, ReadInv, ReadTypeOK, VersionsInv, BytesInv, RowsInv, SameVersion
<1>20. CASE UNCHANGED freadvars
  BY <1>0, <1>20 DEF freadvars, ReadInv, ReadTypeOK, VersionsInv, BytesInv, RowsInv, SameVersion
<1>. QED BY <1>1, <1>2, <1>3, <1>4, <1>5, <1>6, <1>7, <1>8, <1>9, <1>10, <1>11, <1>12, <1>13, <1>14, <1>15,
            <1>16, <1>17, <1>18, <1>19, <1>20 DEF ReadNext

\* What a plugin is given of a file is one whole version of the file its path named,
\* whatever other programs do to the project between the calls of plugin_fs.rs.
THEOREM ReadsWhole == ReadSpec => []ReadIsOneVersion
<1>1. ReadInit => ReadInv
  BY ReadInitKeeps
<1>2. ReadInv /\ [ReadNext]_freadvars => ReadInv'
  BY ReadStep
<1>3. ReadInv => ReadIsOneVersion
  BY DEF ReadInv, BytesInv, RowsInv, ReadIsOneVersion, Copies, Opened, Compared
<1>. QED BY <1>1, <1>2, <1>3, PTL DEF ReadSpec

-----------------------------------------------------------------------------
(* The package cache *)

\* A value with the fields of the command that prepares a package
IsJob(j) ==
    j = [step |-> j.step, dir |-> j.dir, man |-> j.man, inv |-> j.inv, cand |-> j.cand, found |-> j.found,
         snap |-> j.snap, temp |-> j.temp, cached |-> j.cached]

\* What was written so far of the package whose digest is d
WrittenOf(d) == {<< >>, <<d[1]>>, <<d[1], d[2]>>}

\* The temporary directory holds a beginning of the snapshot, there is room for it,
\* and what was read back is one package.
JobInv ==
    /\ IsJob(job)
    /\ job.step # "write" => job.temp = << >>
    /\ job.step = "write" => /\ job.temp \in WrittenOf(job.snap.digest)
                             /\ Cardinality(DOMAIN store) < DigestsPerPlugin
    /\ job.step = "cached" => job.cached = <<job.cached[1], job.cached[2]>>

CacheInv == JobInv /\ IsFiniteSet(DOMAIN store) /\ HostsRunReviewedPackages

\* The fields of a command that has not begun.
LEMMA JobFields ==
  IsJob(Idle) /\ Idle.step = "idle" /\ Idle.temp = << >>
BY DEF IsJob, Idle, NoFiles

\* How many of its two files were written.
LEMMA WrittenFiles ==
  ASSUME NEW d
  PROVE  /\ Len(<< >>) = 0 /\ Len(<<d[1]>>) = 1 /\ Len(<<d[1], d[2]>>) = 2
         /\ Append(<< >>, d[1]) = <<d[1]>> /\ Append(<<d[1]>>, d[2]) = <<d[1], d[2]>>
<1>1. PICK a, b : a = d[1] /\ b = d[2]
  OBVIOUS
<1>2. Len(<< >>) = 0 /\ Len(<<a>>) = 1 /\ Len(<<a, b>>) = 2
  OBVIOUS
<1>3. Append(<< >>, a) = <<a>>
  OBVIOUS
<1>4. Append(<<a>>, b) = <<a, b>>
  <2>1. PICK S, s, t : S = {a, b} /\ s = <<a>> /\ t = <<a, b>>
    OBVIOUS
  <2>2. s \in Seq(S) /\ t \in Seq(S) /\ Len(s) = 1 /\ Len(t) = 2 /\ s[1] = a /\ t[1] = a /\ t[2] = b
    BY <1>2, <2>1
  <2>3. /\ Append(s, b) \in Seq(S) /\ Len(Append(s, b)) = 2
        /\ Append(s, b)[1] = a /\ Append(s, b)[2] = b
    BY <2>1, <2>2, AppendProperties
  <2>4. \A i \in 1 .. 2 : Append(s, b)[i] = t[i]
    BY <2>2, <2>3
  <2>5. Append(s, b) = t
    BY <2>2, <2>3, <2>4, SeqEqual
  <2>. QED BY <2>1, <2>5
<1>. QED BY <1>1, <1>2, <1>3, <1>4

\* A step that neither writes nor reads the cache.
LEMMA JobMoves ==
  ASSUME CacheInv, NEW n, job' = n, IsJob(n), n.step \notin {"write", "cached"}, n.temp = << >>,
         UNCHANGED <<store, running>>
  PROVE  CacheInv'
BY DEF CacheInv, JobInv, HostsRunReviewedPackages, Whole

\* The command ends, and a host keeps running or does not.
LEMMA JobEnds ==
  ASSUME CacheInv, job' = Idle, UNCHANGED store, running' \in {running, NoHost}
  PROVE  CacheInv'
<1>1. JobInv'
  BY JobFields DEF JobInv
<1>. QED BY <1>1 DEF CacheInv, HostsRunReviewedPackages, Whole

\* Every step keeps the cache whole and every host on the package that was reviewed.
LEMMA CacheStep ==
  ASSUME CacheInv, [CacheNext]_cachevars
  PROVE  CacheInv'
<1>0. IsJob(job) /\ JobInv
  BY DEF CacheInv, JobInv
<1>1. CASE EditPackage
  BY <1>1 DEF EditPackage, CacheInv, JobInv, HostsRunReviewedPackages, Whole
<1>2. CASE Abandon
  BY <1>2, JobEnds DEF Abandon, apart
<1>3. CASE BeginDiscovery
  <2>1. PICK n : n = [Idle EXCEPT !.step = "discover"]
    OBVIOUS
  <2>2. IsJob(n) /\ n.step = "discover" /\ n.temp = << >>
    BY <2>1 DEF IsJob, Idle, NoFiles
  <2>. QED BY <1>3, <2>1, <2>2, JobMoves DEF BeginDiscovery, apart
<1>4. CASE ReadManifest
  <2>1. CASE job' = [job EXCEPT !.man = pkg[job.dir].man] /\ apart
    <3>1. PICK n : n = [job EXCEPT !.man = pkg[job.dir].man]
      OBVIOUS
    <3>2. IsJob(n) /\ n.step = job.step /\ n.temp = job.temp
      BY <1>0, <3>1 DEF IsJob
    <3>. QED BY <1>0, <1>4, <2>1, <3>1, <3>2, JobMoves DEF ReadManifest, Scans, apart, JobInv
  <2>2. CASE job' = [job EXCEPT !.dir = @ + 1] /\ apart
    <3>1. PICK n : n = [job EXCEPT !.dir = @ + 1]
      OBVIOUS
    <3>2. IsJob(n) /\ n.step = job.step /\ n.temp = job.temp
      BY <1>0, <3>1 DEF IsJob
    <3>. QED BY <1>0, <1>4, <2>2, <3>1, <3>2, JobMoves DEF ReadManifest, Scans, apart, JobInv
  <2>. QED BY <1>2, <1>4, <2>1, <2>2 DEF ReadManifest
<1>5. CASE ReadInventory
  <2>1. PICK n : n = [job EXCEPT !.inv = pkg[job.dir].man + 1]
    OBVIOUS
  <2>2. IsJob(n) /\ n.step = job.step /\ n.temp = job.temp
    BY <1>0, <2>1 DEF IsJob
  <2>. QED BY <1>0, <1>5, <2>1, <2>2, JobMoves DEF ReadInventory, Scans, apart, JobInv
<1>6. CASE FinishRead
  <2>1. PICK p : p = [dir |-> job.dir, man |-> job.man, digest |-> <<job.inv - 1, pkg[job.dir].body>>]
    OBVIOUS
  <2>2. job.step \in {"discover", "find1", "find2", "snapshot"} /\ job.temp = << >>
    BY <1>0, <1>6 DEF FinishRead, Scans, JobInv
  <2>3. CASE job.step = "discover"
    <3>1. PICK n : n = [Idle EXCEPT !.step = "reviewed", !.cand = p]
      OBVIOUS
    <3>2. IsJob(n) /\ n.step = "reviewed" /\ n.temp = << >>
      BY <3>1 DEF IsJob, Idle, NoFiles
    <3>3. job' = n /\ apart
      BY <1>6, <2>1, <2>3, <3>1 DEF FinishRead, find_exact_discovered_plugin, Scans
    <3>. QED BY <3>2, <3>3, JobMoves DEF apart
  <2>4. CASE job.step = "find1"
    <3>1. PICK n : n = [job EXCEPT !.step = "snapshot", !.found = p, !.dir = p.dir, !.man = 0, !.inv = 0]
      OBVIOUS
    <3>2. IsJob(n) /\ n.step = "snapshot" /\ n.temp = << >>
      BY <1>0, <2>2, <3>1 DEF IsJob
    <3>3. Abandon \/ (job' = n /\ apart)
      BY <1>6, <2>1, <2>4, <3>1 DEF FinishRead, find_exact_discovered_plugin, Scans
    <3>. QED BY <1>2, <3>2, <3>3, JobMoves DEF apart
  <2>5. CASE job.step = "find2"
    <3>1. PICK n : n = [job EXCEPT !.step = "inspect"]
      OBVIOUS
    <3>2. IsJob(n) /\ n.step = "inspect" /\ n.temp = << >>
      BY <1>0, <2>2, <3>1 DEF IsJob
    <3>3. Abandon \/ (job' = n /\ apart)
      BY <1>6, <2>1, <2>5, <3>1 DEF FinishRead, find_exact_discovered_plugin, Scans
    <3>. QED BY <1>2, <3>2, <3>3, JobMoves DEF apart
  <2>6. CASE job.step = "snapshot"
    <3>1. PICK n : n = [job EXCEPT !.step = "find2", !.snap = p, !.dir = 1, !.man = 0, !.inv = 0]
      OBVIOUS
    <3>2. IsJob(n) /\ n.step = "find2" /\ n.temp = << >>
      BY <1>0, <2>2, <3>1 DEF IsJob
    <3>3. Abandon \/ (job' = n /\ apart)
      BY <1>6, <2>1, <2>6, <3>1 DEF FinishRead, Scans
    <3>. QED BY <1>2, <3>2, <3>3, JobMoves DEF apart
  <2>. QED BY <2>2, <2>3, <2>4, <2>5, <2>6
<1>7. CASE PrepareExact
  <2>1. PICK n : n = [job EXCEPT !.step = "find1"]
    OBVIOUS
  <2>2. IsJob(n) /\ n.step = "find1" /\ n.temp = job.temp
    BY <1>0, <2>1 DEF IsJob
  <2>. QED BY <1>0, <1>7, <2>1, <2>2, JobMoves DEF PrepareExact, apart, JobInv
<1>8. CASE StoreSnapshot
  <2>1. job.step = "inspect" /\ job.temp = << >>
    BY <1>0, <1>8 DEF StoreSnapshot, JobInv
  <2>2. CASE job' = [job EXCEPT !.step = "readback"] /\ apart
    <3>1. PICK n : n = [job EXCEPT !.step = "readback"]
      OBVIOUS
    <3>2. IsJob(n) /\ n.step = "readback" /\ n.temp = << >>
      BY <1>0, <2>1, <3>1 DEF IsJob
    <3>. QED BY <2>2, <3>1, <3>2, JobMoves DEF apart
  <2>3. CASE ~(Cardinality(DOMAIN store) >= DigestsPerPlugin) /\ job' = [job EXCEPT !.step = "write"] /\ apart
    <3>1. PICK n : n = [job EXCEPT !.step = "write"]
      OBVIOUS
    <3>2. IsJob(n) /\ n.step = "write" /\ n.temp = << >>
      BY <1>0, <2>1, <3>1 DEF IsJob
    <3>3. Cardinality(DOMAIN store) \in Nat
      BY FS_CardinalityType DEF CacheInv
    <3>. QED BY <2>3, <3>1, <3>2, <3>3 DEF apart, CacheInv, JobInv, HostsRunReviewedPackages, Whole, WrittenOf,
                                           DigestsPerPlugin
  <2>. QED BY <1>2, <1>8, <2>2, <2>3 DEF StoreSnapshot
<1>9. CASE WriteCachedFile
  <2>1. CASE job' = Idle
    BY <1>9, <2>1, JobEnds DEF WriteCachedFile, apart
  <2>2. CASE job' = [job EXCEPT !.temp = Append(@, job.snap.digest[Len(@) + 1])] /\ apart
    <3>1. PICK d, t : d = job.snap.digest /\ t = Append(job.temp, d[Len(job.temp) + 1])
      OBVIOUS
    <3>2. job.temp \in {<< >>, <<d[1]>>}
      BY <1>0, <1>9, <3>1, WrittenFiles DEF WriteCachedFile, JobInv, WrittenOf
    <3>3. t \in WrittenOf(d)
      <4>1. CASE job.temp = << >>
        BY <3>1, <4>1, WrittenFiles DEF WrittenOf
      <4>2. CASE job.temp = <<d[1]>>
        <5>1. Len(job.temp) + 1 = 2
          BY <4>2, WrittenFiles
        <5>. QED BY <3>1, <4>2, <5>1, WrittenFiles DEF WrittenOf
      <4>. QED BY <3>2, <4>1, <4>2
    <3>4. PICK n : n = [job EXCEPT !.temp = t]
      OBVIOUS
    <3>5. IsJob(n) /\ n.step = "write" /\ n.temp = t /\ n.snap = job.snap
      BY <1>0, <1>9, <3>4 DEF IsJob, WriteCachedFile
    <3>6. job' = n
      BY <2>2, <3>1, <3>4
    <3>7. JobInv'
      BY <1>0, <1>9, <2>2, <3>1, <3>3, <3>5, <3>6 DEF JobInv, apart, WriteCachedFile
    <3>. QED BY <2>2, <3>7 DEF apart, CacheInv, HostsRunReviewedPackages, Whole
  <2>. QED BY <1>9, <2>1, <2>2 DEF WriteCachedFile
<1>10. CASE Publish
  <2>1. CASE job' = Idle
    <3>1. store' = store /\ running' = running
      <4>1. job' # [job EXCEPT !.step = "readback", !.temp = NoFiles]
        <5>1. PICK n : n = [job EXCEPT !.step = "readback", !.temp = NoFiles]
          OBVIOUS
        <5>2. n.step = "readback"
          BY <1>0, <5>1 DEF IsJob
        <5>. QED BY <2>1, <5>1, <5>2, JobFields
      <4>. QED BY <1>10, <4>1 DEF Publish
    <3>. QED BY <2>1, <3>1, JobEnds
  <2>2. CASE job' # Idle
    <3>1. PICK d, n : d = job.snap.digest /\ n = [job EXCEPT !.step = "readback", !.temp = NoFiles]
      OBVIOUS
    <3>2. /\ store' = [e \in DOMAIN store \cup {d} |-> IF e \in DOMAIN store THEN store[e] ELSE job.temp]
          /\ job' = n /\ running' = running /\ job.step = "write" /\ Len(job.temp) = 2
      BY <1>10, <2>2, <3>1 DEF Publish
    <3>3. IsJob(n) /\ n.step = "readback" /\ n.temp = << >>
      BY <1>0, <3>1 DEF IsJob, NoFiles
    <3>4. job.temp = <<d[1], d[2]>> /\ Cardinality(DOMAIN store) < DigestsPerPlugin
      BY <1>0, <3>1, <3>2, WrittenFiles DEF JobInv, WrittenOf
    <3>5. DOMAIN store' = DOMAIN store \cup {d} /\ \A e \in DOMAIN store' : Whole(e)'
      BY <3>2, <3>4 DEF CacheInv, HostsRunReviewedPackages, Whole
    <3>6. IsFiniteSet(DOMAIN store) /\ Cardinality(DOMAIN store) \in Nat
      BY FS_CardinalityType DEF CacheInv
    <3>7. IsFiniteSet(DOMAIN store') /\ Cardinality(DOMAIN store') <= DigestsPerPlugin
      <4>1. PICK S : S = DOMAIN store
        OBVIOUS
      <4>2. IsFiniteSet(S \cup {d}) /\ (Cardinality(S \cup {d}) = Cardinality(S) \/ Cardinality(S \cup {d}) = Cardinality(S) + 1)
        BY <3>6, <4>1, FS_AddElement
      <4>. QED BY <3>4, <3>5, <3>6, <4>1, <4>2 DEF DigestsPerPlugin
    <3>8. JobInv'
      BY <3>2, <3>3 DEF JobInv
    <3>. QED BY <3>2, <3>5, <3>7, <3>8 DEF CacheInv, HostsRunReviewedPackages
  <2>. QED BY <2>1, <2>2
<1>11. CASE ReadBack
  <2>1. CASE Abandon
    BY <1>2, <2>1
  <2>2. CASE ~Abandon
    <3>1. PICK d, n : d = job.cand.digest /\ n = [job EXCEPT !.step = "cached", !.cached = store[d]]
      OBVIOUS
    <3>2. Whole(d) /\ job' = n /\ apart /\ job.step = "readback"
      BY <1>11, <2>2, <3>1 DEF ReadBack
    <3>3. IsJob(n) /\ n.step = "cached" /\ n.temp = job.temp /\ n.cached = store[d]
      BY <1>0, <3>1 DEF IsJob
    <3>4. n.cached = <<n.cached[1], n.cached[2]>>
      BY <3>2, <3>3 DEF Whole
    <3>5. JobInv'
      BY <1>0, <3>2, <3>3, <3>4 DEF JobInv
    <3>. QED BY <3>2, <3>5 DEF apart, CacheInv, HostsRunReviewedPackages, Whole
  <2>. QED BY <2>1, <2>2
<1>12. CASE LoadExact
  <2>1. PICK d \in DOMAIN store : job' = [Idle EXCEPT !.step = "cached", !.cached = store[d],
                                              !.cand = [dir |-> 0, man |-> store[d][1], digest |-> d]]
    BY <1>12 DEF LoadExact
  <2>2. PICK n : n = [Idle EXCEPT !.step = "cached", !.cached = store[d],
                                  !.cand = [dir |-> 0, man |-> store[d][1], digest |-> d]]
    OBVIOUS
  <2>3. IsJob(n) /\ n.step = "cached" /\ n.temp = << >> /\ n.cached = store[d]
    BY <2>2 DEF IsJob, Idle, NoFiles
  <2>4. n.cached = <<n.cached[1], n.cached[2]>>
    BY <2>1, <2>3 DEF CacheInv, HostsRunReviewedPackages, Whole
  <2>5. JobInv'
    BY <2>1, <2>2, <2>3, <2>4 DEF JobInv
  <2>. QED BY <1>12, <2>5 DEF LoadExact, apart, CacheInv, HostsRunReviewedPackages, Whole
<1>13. CASE Activate
  <2>1. CASE Abandon
    BY <1>2, <2>1
  <2>2. CASE ~Abandon
    <3>1. /\ running' = [man |-> job.cand.man, digest |-> job.cand.digest, body |-> job.cached[2]]
          /\ job.cand.man = job.cached[1] /\ job.cand.digest = job.cached /\ job' = Idle /\ store' = store
      BY <1>13, <2>2 DEF Activate
    <3>2. job.cached = <<job.cached[1], job.cached[2]>>
      BY <1>0, <1>13 DEF Activate, JobInv
    <3>3. running'.digest = <<running'.man, running'.body>>
      BY <3>1, <3>2
    <3>4. JobInv'
      BY <3>1, JobFields DEF JobInv
    <3>. QED BY <3>1, <3>3, <3>4 DEF CacheInv, HostsRunReviewedPackages, Whole
  <2>. QED BY <2>1, <2>2
<1>14. CASE CrashPackages
  BY <1>14, JobEnds DEF CrashPackages
<1>15. CASE UNCHANGED cachevars
  BY <1>15 DEF cachevars, CacheInv, JobInv, HostsRunReviewedPackages, Whole
<1>. QED BY <1>1, <1>3, <1>4, <1>5, <1>6, <1>7, <1>8, <1>9, <1>10, <1>11, <1>12, <1>13, <1>14, <1>15 DEF CacheNext

\* Whatever an author edits between two reads and wherever the process dies, a host
\* runs exactly the package that was reviewed, and a cached copy hashes to its name.
THEOREM PackagesReviewed == CacheSpec => []HostsRunReviewedPackages
<1>1. CacheInit => CacheInv
  <2>1. SUFFICES ASSUME CacheInit PROVE CacheInv
    OBVIOUS
  <2>2. DOMAIN store = {} /\ job = Idle /\ running = NoHost
    BY <2>1 DEF CacheInit
  <2>3. IsFiniteSet({}) /\ Cardinality({}) = 0
    BY FS_EmptySet
  <2>4. JobInv
    BY <2>2, JobFields DEF JobInv
  <2>. QED BY <2>2, <2>3, <2>4 DEF CacheInv, HostsRunReviewedPackages, DigestsPerPlugin
<1>2. CacheInv /\ [CacheNext]_cachevars => CacheInv'
  BY CacheStep
<1>3. CacheInv => HostsRunReviewedPackages
  BY DEF CacheInv
<1>. QED BY <1>1, <1>2, <1>3, PTL DEF CacheSpec

-----------------------------------------------------------------------------
(* The routes of contributions *)

Decls(k) == {RoutePackages[k][i] : i \in DOMAIN RoutePackages[k]}
HostRecords ==
    [pack : DOMAIN RoutePackages \cup {0}, id : Nat, state : {"none", "active", "quarantined"},
     busy : BOOLEAN, granted : BOOLEAN]

\* A record of the registry is a declaration of the package its plugin's host runs.
RouteFits(r, hs, id) ==
    /\ r = [decl |-> r.decl, of |-> r.of]
    /\ r.of.plugin \in RoutePlugins /\ hs[r.of.plugin].id # 0
    /\ r.of = Instance(r.of.plugin, hs[r.of.plugin].pack, hs[r.of.plugin].id)
    /\ r.decl \in Decls(r.of.pack) /\ r.decl.id = id

\* A host runs a package that could be staged.
HostFits(h) ==
    /\ h.id = 0 => h = NoRouteHost
    /\ h.id # 0 => h.pack \in DOMAIN RoutePackages /\ stageable(RoutePackages[h.pack])

\* Every declaration of the package a host runs is routed to its plugin.
Offered(rs, hs, p) ==
    hs[p].id # 0 => \A d \in Decls(hs[p].pack) : d.id \in DOMAIN rs /\ rs[d.id].of.plugin = p

RegistryOf(rs, hs) ==
    /\ hs \in [RoutePlugins -> HostRecords]
    /\ \A p \in RoutePlugins : HostFits(hs[p]) /\ Offered(rs, hs, p)
    /\ \A id \in DOMAIN rs : RouteFits(rs[id], hs, id)

\* A value with the fields of a call, and of a projection
IsAsk(a) ==
    a = [st |-> a.st, id |-> a.id, origin |-> a.origin, crash |-> a.crash, of |-> a.of, decl |-> a.decl,
         step |-> a.step, granted |-> a.granted]
IsTurn(t) == t = [st |-> t.st, todo |-> t.todo, items |-> t.items, record |-> t.record]

\* A call whose kind was checked has an id that its origin may call; one that began has
\* the declaration of that id in the package of its host.
AskFits(a) ==
    /\ IsAsk(a)
    /\ a.crash # NoInstance => a.crash.plugin \in RoutePlugins
    /\ a.st \in {"checked", "stepped"} => fits(a.origin, kind_of(a.id))
    /\ a.st = "stepped" =>
          /\ a.of.plugin \in RoutePlugins /\ stageable(RoutePackages[a.of.pack])
          /\ a.decl \in Decls(a.of.pack) /\ a.decl.id = a.id

RoutesInv == started \in Nat /\ RegistryOf(routes, hosts) /\ AskFits(ask) /\ IsTurn(turn)

\* The declarations of a package that could be staged differ in their ids, which tell
\* their kinds.
LEMMA StagedDecls ==
  ASSUME NEW k, stageable(RoutePackages[k])
  PROVE  /\ \A d \in Decls(k) : kind_of(d.id) = d.kind
         /\ \A d \in Decls(k) : \A e \in Decls(k) : d.id = e.id => d = e
<1>1. ASSUME NEW d \in Decls(k) PROVE kind_of(d.id) = d.kind
  BY <1>1 DEF Decls, stageable, validate_shape
<1>2. ASSUME NEW d \in Decls(k), NEW e \in Decls(k), d.id = e.id PROVE d = e
  <2>1. PICK i \in DOMAIN RoutePackages[k] : d = RoutePackages[k][i]
    BY DEF Decls
  <2>2. PICK j \in DOMAIN RoutePackages[k] : e = RoutePackages[k][j]
    BY DEF Decls
  <2>. QED BY <1>2, <2>1, <2>2 DEF stageable
<1>. QED BY <1>1, <1>2

\* A plugin that leaves takes its records with it and no others.
LEMMA WithoutPlugin ==
  ASSUME NEW rs, NEW hs, RegistryOf(rs, hs), NEW p \in RoutePlugins
  PROVE  RegistryOf(Without(rs, Records(rs, p)), [hs EXCEPT ![p] = NoRouteHost])
<1>1. PICK r0, h0 : r0 = Without(rs, Records(rs, p)) /\ h0 = [hs EXCEPT ![p] = NoRouteHost]
  OBVIOUS
<1>2. hs \in [RoutePlugins -> HostRecords] /\ NoRouteHost \in HostRecords /\ NoRouteHost.id = 0
  BY DEF RegistryOf, NoRouteHost, HostRecords
<1>3. h0 \in [RoutePlugins -> HostRecords] /\ h0[p] = NoRouteHost /\ \A q \in RoutePlugins : q # p => h0[q] = hs[q]
  BY <1>1, <1>2
<1>4. DOMAIN r0 = {id \in DOMAIN rs : rs[id].of.plugin # p} /\ \A id \in DOMAIN r0 : r0[id] = rs[id]
  BY <1>1 DEF Without, Records
<1>5. ASSUME NEW q \in RoutePlugins PROVE HostFits(h0[q]) /\ Offered(r0, h0, q)
  <2>1. CASE q = p
    BY <1>2, <1>3, <2>1 DEF HostFits, Offered
  <2>2. CASE q # p
    BY <1>3, <1>4, <2>2 DEF RegistryOf, Offered
  <2>. QED BY <2>1, <2>2
<1>6. ASSUME NEW id \in DOMAIN r0 PROVE RouteFits(r0[id], h0, id)
  BY <1>3, <1>4, <1>6 DEF RegistryOf, RouteFits
<1>7. RegistryOf(r0, h0)
  BY <1>3, <1>5, <1>6 DEF RegistryOf
<1>. QED BY <1>1, <1>7

\* The records of a host that runs are exactly those of its plugin.
LEMMA InstanceRecords ==
  ASSUME RegistryOf(routes, hosts), NEW p \in RoutePlugins
  PROVE  clear_instance(HostOf(p)) = Without(routes, Records(routes, p))
<1>1. ASSUME NEW id \in DOMAIN routes PROVE routes[id].of = HostOf(p) <=> routes[id].of.plugin = p
  BY <1>1 DEF RegistryOf, RouteFits, HostOf, Instance
<1>2. {id \in DOMAIN routes : routes[id].of = HostOf(p)} = Records(routes, p)
  BY <1>1 DEF Records
<1>. QED BY <1>2 DEF clear_instance

\* A candidate is published whole.
LEMMA WithPlugin ==
  ASSUME NEW rs, NEW hs, RegistryOf(rs, hs), NEW p \in RoutePlugins, hs[p] = NoRouteHost,
         NEW k \in DOMAIN RoutePackages, stageable(RoutePackages[k]), registrable(rs, k), NEW n \in Nat, n # 0
  PROVE  RegistryOf(WithCandidate(rs, k, Instance(p, k, n)), [hs EXCEPT ![p] = StartedHost(k, n)])
<1>1. PICK r0, h0, i0 : /\ r0 = WithCandidate(rs, k, Instance(p, k, n)) /\ h0 = [hs EXCEPT ![p] = StartedHost(k, n)]
                        /\ i0 = Instance(p, k, n)
  OBVIOUS
<1>2. /\ hs \in [RoutePlugins -> HostRecords] /\ StartedHost(k, n) \in HostRecords /\ StartedHost(k, n).id = n
      /\ StartedHost(k, n).pack = k
  BY DEF RegistryOf, StartedHost, HostRecords
<1>3. h0 \in [RoutePlugins -> HostRecords] /\ h0[p] = StartedHost(k, n) /\ \A q \in RoutePlugins : q # p => h0[q] = hs[q]
  BY <1>1, <1>2
<1>4. \A d \in Decls(k) : d.id \notin DOMAIN rs
  BY DEF registrable, Decls
<1>5. /\ DOMAIN r0 = DOMAIN rs \cup {d.id : d \in Decls(k)}
      /\ \A id \in DOMAIN rs : r0[id] = rs[id]
      /\ \A id \in DOMAIN r0 \ DOMAIN rs : r0[id] = [decl |-> CHOOSE d \in Decls(k) : d.id = id, of |-> i0]
  BY <1>1 DEF WithCandidate, Decls
<1>6. ASSUME NEW d \in Decls(k) PROVE d.id \in DOMAIN r0 /\ r0[d.id] = [decl |-> d, of |-> i0]
  <2>1. PICK e : e = CHOOSE f \in Decls(k) : f.id = d.id
    OBVIOUS
  <2>2. e \in Decls(k) /\ e.id = d.id
    BY <2>1
  <2>3. e = d
    BY <2>2, StagedDecls
  <2>. QED BY <1>4, <1>5, <2>1, <2>3
<1>7. i0.plugin = p /\ i0.pack = k /\ i0.host = n
  BY <1>1 DEF Instance
<1>8. ASSUME NEW id \in DOMAIN rs PROVE rs[id].of.plugin # p /\ RouteFits(rs[id], hs, id)
  BY <1>8 DEF RegistryOf, RouteFits, NoRouteHost
<1>9. ASSUME NEW q \in RoutePlugins PROVE HostFits(h0[q]) /\ Offered(r0, h0, q)
  <2>1. CASE q = p
    <3>1. h0[p].id = n /\ h0[p].pack = k
      BY <1>2, <1>3
    <3>2. \A d \in Decls(k) : d.id \in DOMAIN r0 /\ r0[d.id].of.plugin = p
      <4>1. ASSUME NEW d \in Decls(k) PROVE d.id \in DOMAIN r0 /\ r0[d.id].of.plugin = p
        <5>1. PICK x : x = r0[d.id]
          OBVIOUS
        <5>2. x = [decl |-> d, of |-> i0] /\ d.id \in DOMAIN r0
          BY <1>6, <5>1
        <5>3. x.of = i0
          BY <5>2
        <5>. QED BY <1>7, <5>1, <5>2, <5>3
      <4>. QED BY <4>1
    <3>3. HostFits(h0[p])
      BY <3>1 DEF HostFits
    <3>4. Offered(r0, h0, p)
      BY <3>1, <3>2 DEF Offered
    <3>. QED BY <2>1, <3>3, <3>4
  <2>2. CASE q # p
    BY <1>3, <1>5, <2>2 DEF RegistryOf, Offered
  <2>. QED BY <2>1, <2>2
<1>10. ASSUME NEW id \in DOMAIN r0 PROVE RouteFits(r0[id], h0, id)
  <2>1. CASE id \in DOMAIN rs
    BY <1>3, <1>5, <1>8, <2>1 DEF RouteFits
  <2>2. CASE id \notin DOMAIN rs
    <3>1. PICK d \in Decls(k) : d.id = id
      BY <1>5, <2>2
    <3>2. r0[id] = [decl |-> d, of |-> i0]
      BY <1>6, <3>1
    <3>3. i0 = Instance(i0.plugin, h0[i0.plugin].pack, h0[i0.plugin].id)
      BY <1>1, <1>2, <1>3, <1>7
    <3>. QED BY <1>2, <1>3, <1>7, <3>1, <3>2, <3>3 DEF RouteFits
  <2>. QED BY <2>1, <2>2
<1>11. RegistryOf(r0, h0)
  BY <1>3, <1>9, <1>10 DEF RegistryOf
<1>. QED BY <1>1, <1>11

\* A host that changes its state keeps its routes.
LEMMA HostTouched ==
  ASSUME NEW rs, NEW hs, RegistryOf(rs, hs), NEW p \in RoutePlugins, NEW h \in HostRecords,
         h.id = hs[p].id, h.pack = hs[p].pack, h.id # 0
  PROVE  RegistryOf(rs, [hs EXCEPT ![p] = h])
<1>1. PICK h0 : h0 = [hs EXCEPT ![p] = h]
  OBVIOUS
<1>2. hs \in [RoutePlugins -> HostRecords]
  BY DEF RegistryOf
<1>3. h0 \in [RoutePlugins -> HostRecords] /\ h0[p] = h /\ \A q \in RoutePlugins : q # p => h0[q] = hs[q]
  BY <1>1, <1>2
<1>4. \A q \in RoutePlugins : h0[q].id = hs[q].id /\ h0[q].pack = hs[q].pack
  BY <1>3
<1>5. ASSUME NEW q \in RoutePlugins PROVE HostFits(h0[q]) /\ Offered(rs, h0, q)
  <2>1. HostFits(hs[q]) /\ Offered(rs, hs, q)
    BY DEF RegistryOf
  <2>2. Offered(rs, h0, q)
    BY <1>4, <2>1 DEF Offered
  <2>3. HostFits(h0[q])
    <3>1. CASE q = p
      BY <1>3, <2>1, <3>1 DEF HostFits
    <3>2. CASE q # p
      BY <1>3, <2>1, <3>2
    <3>. QED BY <3>1, <3>2
  <2>. QED BY <2>2, <2>3
<1>6. ASSUME NEW id \in DOMAIN rs PROVE RouteFits(rs[id], h0, id)
  <2>1. RouteFits(rs[id], hs, id)
    BY <1>6 DEF RegistryOf
  <2>. QED BY <1>4, <2>1 DEF RouteFits
<1>. QED BY <1>1, <1>3, <1>5, <1>6 DEF RegistryOf

\* What is left of a plugin whose host is removed, and a call that only fails.
LEMMA HostRemoved ==
  ASSUME RegistryOf(routes, hosts), NEW p \in RoutePlugins, remove_active_plugin(p)
  PROVE  RegistryOf(routes', hosts')
BY InstanceRecords, WithoutPlugin DEF remove_active_plugin

LEMMA AskFails ==
  ASSUME AskFits(ask), CallFails
  PROVE  AskFits(ask') /\ IsAsk(ask') /\ ask'.st = "failed"
<1>1. PICK n : n = [ask EXCEPT !.st = "failed"]
  OBVIOUS
<1>2. IsAsk(n) /\ n.st = "failed" /\ n.crash = ask.crash
  BY <1>1 DEF AskFits, IsAsk
<1>. QED BY <1>1, <1>2 DEF CallFails, AskFits

\* A call that begins, and one that does not.
LEMMA AskStarts ==
  ASSUME RegistryOf(routes, hosts), NEW id, NEW origin
  PROVE  AskFits(NoAsk) /\ (Start(id, origin) => AskFits(ask'))
<1>1. NoInstance.plugin = "none"
  BY DEF NoInstance, Instance
<1>2. AskFits(NoAsk)
  BY DEF NoAsk, Ask, AskFits, IsAsk
<1>3. ASSUME Start(id, origin) PROVE AskFits(ask')
  <2>1. PICK c : c = crash_context(id)
    OBVIOUS
  <2>2. PICK n : n = [Ask("asked", id, origin) EXCEPT !.crash = c]
    OBVIOUS
  <2>3. IsAsk(n) /\ n.st = "asked" /\ n.crash = c
    BY <2>2 DEF Ask, IsAsk
  <2>4. c # NoInstance => c.plugin \in RoutePlugins
    BY <2>1 DEF crash_context, HostOf, Instance, RegistryOf, RouteFits
  <2>. QED BY <1>3, <2>1, <2>2, <2>3, <2>4 DEF Start, AskFits
<1>. QED BY <1>2, <1>3

\* The guest of an active host keeps its routes and leaves a call that fits them.
LEMMA GuestSteps ==
  ASSUME RegistryOf(routes, hosts), AskFits(ask), ask.st = "checked", ask.id \in DOMAIN routes,
         NEW p, p = routes[ask.id].of.plugin, HostOf(p) = routes[ask.id].of, hosts[p].state = "active",
         Guest(p, {"broker", "complete", "error"}), UNCHANGED routes
  PROVE  RegistryOf(routes', hosts') /\ AskFits(ask')
<1>1. /\ RouteFits(routes[ask.id], hosts, ask.id) /\ p \in RoutePlugins /\ hosts[p].id # 0 /\ hosts[p] \in HostRecords
      /\ HostFits(hosts[p]) /\ hosts \in [RoutePlugins -> HostRecords]
  BY DEF RegistryOf, RouteFits
<1>2. CASE \E s \in {"broker", "complete", "error"} :
              /\ hosts' = [hosts EXCEPT ![p].busy = (s = "broker")]
              /\ ask' = [ask EXCEPT !.st = "stepped", !.step = s, !.of = HostOf(p),
                                    !.decl = routes[ask.id].decl, !.granted = hosts[p].granted]
  <2>1. PICK s \in {"broker", "complete", "error"} :
              /\ hosts' = [hosts EXCEPT ![p].busy = (s = "broker")]
              /\ ask' = [ask EXCEPT !.st = "stepped", !.step = s, !.of = HostOf(p),
                                    !.decl = routes[ask.id].decl, !.granted = hosts[p].granted]
    BY <1>2
  <2>2. PICK h : h = [hosts[p] EXCEPT !.busy = (s = "broker")]
    OBVIOUS
  <2>3. h \in HostRecords /\ h.id = hosts[p].id /\ h.pack = hosts[p].pack
    BY <1>1, <2>2 DEF HostRecords
  <2>4. hosts' = [hosts EXCEPT ![p] = h]
    BY <1>1, <2>1, <2>2
  <2>5. RegistryOf(routes', hosts')
    BY <1>1, <2>3, <2>4, HostTouched
  <2>6. PICK n : n = [ask EXCEPT !.st = "stepped", !.step = s, !.of = HostOf(p),
                                 !.decl = routes[ask.id].decl, !.granted = hosts[p].granted]
    OBVIOUS
  <2>7. /\ IsAsk(n) /\ n.st = "stepped" /\ n.of = HostOf(p) /\ n.decl = routes[ask.id].decl /\ n.id = ask.id
        /\ n.crash = ask.crash /\ n.origin = ask.origin
    BY <2>6 DEF AskFits, IsAsk
  <2>8. n.of.plugin = p /\ n.of.pack = hosts[p].pack
    BY <2>7 DEF HostOf, Instance
  <2>9. AskFits(n)
    BY <1>1, <2>7, <2>8 DEF AskFits, RouteFits, HostFits
  <2>. QED BY <2>1, <2>5, <2>6, <2>9
<1>3. CASE hosts' = [hosts EXCEPT ![p].state = "quarantined", ![p].busy = FALSE] /\ CallFails
  <2>1. PICK h : h = [hosts[p] EXCEPT !.state = "quarantined", !.busy = FALSE]
    OBVIOUS
  <2>2. h \in HostRecords /\ h.id = hosts[p].id /\ h.pack = hosts[p].pack
    BY <1>1, <2>1 DEF HostRecords
  <2>3. hosts' = [hosts EXCEPT ![p] = h]
    BY <1>1, <1>3, <2>1
  <2>4. RegistryOf(routes', hosts')
    BY <1>1, <2>2, <2>3, HostTouched
  <2>. QED BY <1>3, <2>4, AskFails
<1>. QED BY <1>2, <1>3 DEF Guest

\* A projection that has not begun.
LEMMA TurnFields == IsTurn(NoTurn) /\ NoTurn.items = {}
BY DEF IsTurn, NoTurn

\* What a host loses by a revocation, an answer or a trap is none of its routes.
LEMMA HostChanges ==
  ASSUME RegistryOf(routes, hosts), NEW p \in RoutePlugins, hosts[p] # NoRouteHost, UNCHANGED routes,
         \/ hosts' = [hosts EXCEPT ![p].busy = FALSE]
         \/ hosts' = [hosts EXCEPT ![p].granted = FALSE]
         \/ hosts' = [hosts EXCEPT ![p].state = "quarantined", ![p].busy = FALSE]
  PROVE  RegistryOf(routes', hosts')
<1>1. hosts \in [RoutePlugins -> HostRecords] /\ hosts[p] \in HostRecords /\ hosts[p].id # 0
  BY DEF RegistryOf, HostFits
<1>2. PICK h : /\ \/ h = [hosts[p] EXCEPT !.busy = FALSE] \/ h = [hosts[p] EXCEPT !.granted = FALSE]
                  \/ h = [hosts[p] EXCEPT !.state = "quarantined", !.busy = FALSE]
               /\ hosts' = [hosts EXCEPT ![p] = h]
  BY <1>1
<1>3. h \in HostRecords /\ h.id = hosts[p].id /\ h.pack = hosts[p].pack
  BY <1>1, <1>2 DEF HostRecords
<1>. QED BY <1>1, <1>2, <1>3, HostTouched

\* A candidate that could be prepared replaces the records of its plugin.
LEMMA Republished ==
  ASSUME RegistryOf(routes, hosts), NEW p \in RoutePlugins, NEW k \in DOMAIN RoutePackages, NEW e,
         preparable(p, k, e), NEW n \in Nat, n # 0
  PROVE  RegistryOf(publish(p, k, n), [hosts EXCEPT ![p] = StartedHost(k, n)])
<1>1. PICK r0, h0 : r0 = Without(routes, Records(routes, p)) /\ h0 = [hosts EXCEPT ![p] = NoRouteHost]
  OBVIOUS
<1>2. RegistryOf(r0, h0) /\ hosts \in [RoutePlugins -> HostRecords]
  BY <1>1, WithoutPlugin DEF RegistryOf
<1>3. h0[p] = NoRouteHost /\ [h0 EXCEPT ![p] = StartedHost(k, n)] = [hosts EXCEPT ![p] = StartedHost(k, n)]
  BY <1>1, <1>2
<1>4. stageable(RoutePackages[k]) /\ registrable(r0, k)
  BY <1>1 DEF preparable, publishable
<1>5. RegistryOf(WithCandidate(r0, k, Instance(p, k, n)), [h0 EXCEPT ![p] = StartedHost(k, n)])
  BY <1>2, <1>3, <1>4, WithPlugin
<1>. QED BY <1>1, <1>3, <1>5 DEF publish

\* Plugins that come and go.
LEMMA PluginSteps ==
  ASSUME RoutesInv, NEW p \in RoutePlugins,
         \/ RemovePlugin(p) \/ RevokeHandles(p)
         \/ \E k \in DOMAIN RoutePackages : ActivatePlugin(p, k) \/ ReplacePlugin(p, k)
  PROVE  RoutesInv' /\ UNCHANGED <<told, turn>>
<1>. USE DEF KeepCalls
<1>1. RegistryOf(routes, hosts) /\ started \in Nat
  BY DEF RoutesInv
<1>2. UNCHANGED <<ask, turn, told>>
  BY DEF RemovePlugin, RevokeHandles, ActivatePlugin, ReplacePlugin
<1>3. RegistryOf(routes', hosts') /\ started' \in Nat
  <2>1. CASE RemovePlugin(p)
    BY <1>1, <2>1, HostRemoved DEF RemovePlugin
  <2>2. CASE RevokeHandles(p)
    BY <1>1, <2>2, HostChanges DEF RevokeHandles
  <2>3. ASSUME NEW k \in DOMAIN RoutePackages, ActivatePlugin(p, k) PROVE RegistryOf(routes', hosts') /\ started' \in Nat
    <3>1. PICK n : n = started'
      OBVIOUS
    <3>2. /\ n \in Nat /\ n # 0 /\ preparable(p, k, {}) /\ routes' = publish(p, k, n)
          /\ hosts' = [hosts EXCEPT ![p] = StartedHost(k, n)]
      BY <1>1, <2>3, <3>1 DEF ActivatePlugin
    <3>. QED BY <1>1, <3>1, <3>2, Republished
  <2>4. ASSUME NEW k \in DOMAIN RoutePackages, ReplacePlugin(p, k) PROVE RegistryOf(routes', hosts') /\ started' \in Nat
    <3>1. PICK n : n = started'
      OBVIOUS
    <3>2. n \in Nat /\ n # 0 /\ preparable(p, k, current_identity(p))
      BY <1>1, <2>4, <3>1 DEF ReplacePlugin
    <3>3. CASE routes' = publish(p, k, started') /\ hosts' = [hosts EXCEPT ![p] = StartedHost(k, started')]
      BY <1>1, <3>1, <3>2, <3>3, Republished
    <3>4. CASE routes' = Without(routes, Records(routes, p)) /\ hosts' = [hosts EXCEPT ![p] = NoRouteHost]
      BY <1>1, <3>1, <3>2, <3>4, WithoutPlugin
    <3>. QED BY <2>4, <3>3, <3>4 DEF ReplacePlugin
  <2>. QED BY <2>1, <2>2, <2>3, <2>4
<1>. QED BY <1>2, <1>3 DEF RoutesInv

\* The sections of a call before it ends.
LEMMA CallSteps ==
  ASSUME RoutesInv, CheckKind \/ BeginContribution \/ ResumeContribution \/ AbandonContribution
  PROVE  RoutesInv' /\ UNCHANGED <<told, turn>>
<1>1. RegistryOf(routes, hosts) /\ started \in Nat /\ AskFits(ask) /\ IsAsk(ask)
  BY DEF RoutesInv, AskFits
<1>2. UNCHANGED <<started, turn, told>>
  BY DEF CheckKind, BeginContribution, ResumeContribution, AbandonContribution
<1>3. RegistryOf(routes', hosts') /\ AskFits(ask')
  <2>1. CASE CheckKind
    <3>1. CASE CallFails
      BY <1>1, <2>1, <3>1, AskFails DEF CheckKind
    <3>2. CASE ~CallFails
      <4>1. /\ ask.id \in DOMAIN routes /\ fits(ask.origin, routes[ask.id].decl.kind)
            /\ ask' = [ask EXCEPT !.st = "checked"] /\ UNCHANGED <<routes, hosts>>
        BY <2>1, <3>2 DEF CheckKind
      <4>2. PICK r : r = routes[ask.id]
        OBVIOUS
      <4>3. RouteFits(r, hosts, ask.id) /\ HostFits(hosts[r.of.plugin])
        BY <1>1, <4>1, <4>2 DEF RegistryOf, RouteFits
      <4>4. r.of.pack = hosts[r.of.plugin].pack
        BY <4>3 DEF RouteFits, Instance
      <4>5. stageable(RoutePackages[r.of.pack]) /\ r.decl \in Decls(r.of.pack) /\ r.decl.id = ask.id
        BY <4>3, <4>4 DEF RouteFits, HostFits
      <4>6. kind_of(ask.id) = r.decl.kind
        BY <4>5, StagedDecls
      <4>7. PICK n : n = [ask EXCEPT !.st = "checked"]
        OBVIOUS
      <4>8. IsAsk(n) /\ n.st = "checked" /\ n.id = ask.id /\ n.origin = ask.origin /\ n.crash = ask.crash
        BY <1>1, <4>7 DEF IsAsk
      <4>. QED BY <1>1, <4>1, <4>2, <4>6, <4>7, <4>8 DEF AskFits
    <3>. QED BY <3>1, <3>2
  <2>2. CASE BeginContribution
    <3>1. PICK p : p = routes[ask.id].of.plugin
      OBVIOUS
    <3>2. UNCHANGED routes /\ ask.st = "checked"
      BY <2>2 DEF BeginContribution
    <3>3. CASE CallFails /\ UNCHANGED hosts
      BY <1>1, <3>2, <3>3, AskFails
    <3>4. CASE ~(CallFails /\ UNCHANGED hosts)
      <4>1. /\ ask.id \in DOMAIN routes /\ HostOf(p) = routes[ask.id].of /\ hosts[p].state = "active"
            /\ \/ hosts' = [hosts EXCEPT ![p].state = "quarantined", ![p].busy = FALSE] /\ CallFails
               \/ Guest(p, {"broker", "complete", "error"})
        BY <2>2, <3>1, <3>4 DEF BeginContribution
      <4>2. p \in RoutePlugins /\ hosts[p] # NoRouteHost
        BY <1>1, <3>1, <4>1 DEF RegistryOf, RouteFits, NoRouteHost
      <4>3. CASE hosts' = [hosts EXCEPT ![p].state = "quarantined", ![p].busy = FALSE] /\ CallFails
        BY <1>1, <3>2, <4>2, <4>3, HostChanges, AskFails
      <4>4. CASE Guest(p, {"broker", "complete", "error"})
        BY <1>1, <3>1, <3>2, <4>1, <4>4, GuestSteps
      <4>. QED BY <4>1, <4>3, <4>4
    <3>. QED BY <3>3, <3>4
  <2>3. CASE ResumeContribution
    <3>1. PICK p : p = ask.of.plugin
      OBVIOUS
    <3>2. ask.st = "stepped" /\ p \in RoutePlugins
      BY <1>1, <2>3, <3>1 DEF ResumeContribution, AskFits
    <3>3. CASE CallFails /\ (remove_active_plugin(p) \/ UNCHANGED <<routes, hosts>>)
      BY <1>1, <3>2, <3>3, HostRemoved, AskFails
    <3>4. CASE /\ Live /\ UNCHANGED routes
               /\ \E s \in {"complete", "error"} :
                     hosts' = [hosts EXCEPT ![p].busy = FALSE] /\ ask' = [ask EXCEPT !.step = s]
      <4>1. PICK s : ask' = [ask EXCEPT !.step = s] /\ hosts' = [hosts EXCEPT ![p].busy = FALSE]
        BY <3>4
      <4>2. RegistryOf(routes', hosts')
        BY <1>1, <3>1, <3>2, <3>4, <4>1, HostChanges DEF Live
      <4>3. PICK n : n = [ask EXCEPT !.step = s]
        OBVIOUS
      <4>4. /\ IsAsk(n) /\ n.st = ask.st /\ n.id = ask.id /\ n.origin = ask.origin /\ n.crash = ask.crash
            /\ n.of = ask.of /\ n.decl = ask.decl
        BY <1>1, <4>3 DEF IsAsk
      <4>5. AskFits(n)
        BY <1>1, <4>4 DEF AskFits
      <4>. QED BY <4>1, <4>2, <4>3, <4>5
    <3>. QED BY <2>3, <3>1, <3>3, <3>4 DEF ResumeContribution
  <2>4. CASE AbandonContribution
    <3>1. PICK p : p = ask.of.plugin
      OBVIOUS
    <3>2. ask.st = "stepped" /\ p \in RoutePlugins /\ CallFails /\ UNCHANGED routes
      BY <1>1, <2>4, <3>1 DEF AbandonContribution, AskFits
    <3>3. RegistryOf(routes', hosts')
      <4>1. CASE UNCHANGED hosts
        BY <1>1, <3>2, <4>1
      <4>2. CASE hosts[p] # NoRouteHost /\ hosts' = [hosts EXCEPT ![p].busy = FALSE]
        BY <1>1, <3>2, <4>2, HostChanges
      <4>. QED BY <2>4, <3>1, <4>1, <4>2 DEF AbandonContribution
    <3>. QED BY <1>1, <3>2, <3>3, AskFails
  <2>. QED BY <2>1, <2>2, <2>3, <2>4
<1>. QED BY <1>1, <1>2, <1>3 DEF RoutesInv

\* What a step may hand out: results for the kind of their origin, routed as they were
\* made, and skills of the package that is routed.
ToldRouted ==
    \A r \in told' \ told :
        /\ fits(r.origin, r.decl.kind)
        /\ r.id \in DOMAIN routes /\ routes[r.id] = [decl |-> r.decl, of |-> r.of]
ItemRouted(item) ==
    item.kind = "skill" /\ item.status = "completed" =>
        /\ item.from = item.of
        /\ item.id \in DOMAIN routes /\ routes[item.id].of = item.of
ItemsRouted == \A item \in turn'.items \ turn.items : ItemRouted(item)

\* The kind of an item, and what it says
LEMMA ResultFields ==
  ASSUME NEW kind, NEW id, NEW of, NEW from, NEW status
  PROVE  /\ Result(kind, id, of, from, status).kind = kind /\ Result(kind, id, of, from, status).id = id
         /\ Result(kind, id, of, from, status).of = of /\ Result(kind, id, of, from, status).from = from
         /\ Result(kind, id, of, from, status).status = status
BY DEF Result

\* The end of a call.
LEMMA EndSteps ==
  ASSUME RoutesInv, FinishContribution \/ BlameHost
  PROVE  RoutesInv' /\ ToldRouted /\ ItemsRouted
<1>1. RegistryOf(routes, hosts) /\ started \in Nat /\ AskFits(ask) /\ IsAsk(ask) /\ IsTurn(turn)
  BY DEF RoutesInv, AskFits
<1>2. started' = started
  BY DEF FinishContribution, BlameHost
<1>3. ASSUME NEW it, it.kind = "source",
             turn' = IF turn.st # "source" THEN turn
                     ELSE [turn EXCEPT !.st = "project", !.items = @ \cup {it}]
      PROVE  IsTurn(turn') /\ ItemsRouted
  <2>1. CASE turn.st # "source"
    BY <1>1, <1>3, <2>1 DEF ItemsRouted
  <2>2. CASE turn.st = "source"
    <3>1. turn' = [turn EXCEPT !.st = "project", !.items = @ \cup {it}]
      BY <1>3, <2>2
    <3>2. IsTurn(turn') /\ turn'.items = turn.items \cup {it}
      <4>1. PICK n : n = turn'
        OBVIOUS
      <4>2. n = [st |-> "project", todo |-> turn.todo, items |-> turn.items \cup {it}, record |-> turn.record]
        BY <1>1, <3>1, <4>1 DEF IsTurn
      <4>3. IsTurn(n) /\ n.items = turn.items \cup {it}
        BY <4>2 DEF IsTurn
      <4>. QED BY <4>1, <4>3
    <3>. QED BY <1>3, <3>2 DEF ItemsRouted, ItemRouted
  <2>. QED BY <2>1, <2>2
<1>4. CASE BlameHost
  <2>1. PICK it : it = Result("source", ask.id, turn.record.of, NoInstance, "failed")
    OBVIOUS
  <2>2. IsTurn(turn') /\ ItemsRouted
    <3>1. it.kind = "source"
      BY <2>1, ResultFields
    <3>2. turn' = IF turn.st # "source" THEN turn
                  ELSE [turn EXCEPT !.st = "project", !.items = @ \cup {it}]
      BY <1>4, <2>1 DEF BlameHost
    <3>. QED BY <1>3, <3>1, <3>2
  <2>3. RegistryOf(routes', hosts')
    <3>1. CASE UNCHANGED <<routes, hosts>>
      BY <1>1, <3>1
    <3>2. CASE ~UNCHANGED <<routes, hosts>>
      <4>1. PICK p : p = ask.crash.plugin
        OBVIOUS
      <4>2. ask.crash # NoInstance /\ remove_active_plugin(p)
        BY <1>4, <3>2, <4>1 DEF BlameHost
      <4>. QED BY <1>1, <4>1, <4>2, HostRemoved DEF AskFits
    <3>. QED BY <3>1, <3>2
  <2>4. AskFits(ask')
    BY <1>1, <1>4, AskStarts DEF BlameHost
  <2>. QED BY <1>1, <1>2, <1>4, <2>2, <2>3, <2>4 DEF RoutesInv, ToldRouted, BlameHost
<1>5. CASE FinishContribution
  <2>1. CASE CallFails /\ UNCHANGED <<routes, hosts, told, turn, asks>>
    BY <1>1, <1>2, <2>1, AskFails DEF RoutesInv, ToldRouted, ItemsRouted
  <2>2. CASE /\ Live /\ ask' = NoAsk /\ UNCHANGED <<routes, hosts>>
             /\ told' = {[origin |-> ask.origin, id |-> ask.id, decl |-> ask.decl, of |-> ask.of]}
             /\ turn' = IF turn.st # "source" THEN turn
                        ELSE [turn EXCEPT !.st = "project",
                                 !.items = @ \cup {Result("source", ask.id, turn.record.of, ask.of, "completed")}]
    <3>1. PICK it : it = Result("source", ask.id, turn.record.of, ask.of, "completed")
      OBVIOUS
    <3>2. IsTurn(turn') /\ ItemsRouted
      <4>1. it.kind = "source"
        BY <3>1, ResultFields
      <4>2. turn' = IF turn.st # "source" THEN turn
                    ELSE [turn EXCEPT !.st = "project", !.items = @ \cup {it}]
        BY <2>2, <3>1
      <4>. QED BY <1>3, <4>1, <4>2
    <3>3. AskFits(ask')
      BY <1>1, <2>2, AskStarts
    <3>4. ToldRouted
      <4>1. ask.st = "stepped" /\ ask.id \in DOMAIN routes /\ routes[ask.id].of = ask.of
        BY <1>5, <2>2 DEF FinishContribution, Live
      <4>2. /\ fits(ask.origin, kind_of(ask.id)) /\ stageable(RoutePackages[ask.of.pack])
            /\ ask.decl \in Decls(ask.of.pack) /\ ask.decl.id = ask.id
        BY <1>1, <4>1 DEF AskFits
      <4>3. PICK r : r = routes[ask.id]
        OBVIOUS
      <4>4. r = [decl |-> r.decl, of |-> r.of] /\ r.decl \in Decls(r.of.pack) /\ r.decl.id = ask.id /\ r.of = ask.of
        BY <1>1, <4>1, <4>3 DEF RegistryOf, RouteFits
      <4>5. r.decl = ask.decl /\ kind_of(ask.id) = ask.decl.kind
        BY <4>2, <4>4, StagedDecls
      <4>6. PICK t : t = [origin |-> ask.origin, id |-> ask.id, decl |-> ask.decl, of |-> ask.of]
        OBVIOUS
      <4>7. t.origin = ask.origin /\ t.id = ask.id /\ t.decl = ask.decl /\ t.of = ask.of
        BY <4>6
      <4>8. told' = {t} /\ fits(t.origin, t.decl.kind)
        BY <2>2, <4>2, <4>5, <4>6, <4>7
      <4>9. t.id \in DOMAIN routes /\ routes[t.id] = [decl |-> t.decl, of |-> t.of]
        BY <4>1, <4>3, <4>4, <4>5, <4>7
      <4>. QED BY <4>8, <4>9 DEF ToldRouted
    <3>. QED BY <1>1, <1>2, <2>2, <3>2, <3>3, <3>4 DEF RoutesInv
  <2>. QED BY <1>5, <2>1, <2>2 DEF FinishContribution
<1>. QED BY <1>4, <1>5

\* What an Agent turn is given, and who asks.
LEMMA TurnSteps ==
  ASSUME RoutesInv,
         \/ Project \/ EndProjection \/ TurnEnds \/ (\E r \in turn.todo : ProjectRecord(r))
         \/ (\E id \in DOMAIN routes :
                \E origin \in {"UserCommand", "TrustedViewer", "TrustedPanel"} : UserAsks(id, origin))
         \/ (\E item \in turn.items : AgentAsks(item.id))
  PROVE  RoutesInv' /\ UNCHANGED told /\ ItemsRouted
<1>1. RegistryOf(routes, hosts) /\ started \in Nat /\ AskFits(ask) /\ IsTurn(turn)
  BY DEF RoutesInv
<1>2. UNCHANGED <<routes, hosts, started, told>>
  BY DEF Project, EndProjection, TurnEnds, ProjectRecord, UserAsks, AgentAsks
<1>3. AskFits(ask')
  <2>1. CASE UNCHANGED ask
    BY <1>1, <2>1
  <2>2. CASE \E id, origin : Start(id, origin)
    BY <1>1, <2>2, AskStarts
  <2>. QED BY <2>1, <2>2 DEF Project, EndProjection, TurnEnds, ProjectRecord, UserAsks, AgentAsks
<1>4. IsTurn(turn') /\ ItemsRouted
  <2>1. CASE UNCHANGED turn
    BY <1>1, <2>1 DEF ItemsRouted
  <2>2. CASE turn' = NoTurn
    BY <1>1, <2>2, TurnFields DEF ItemsRouted
  <2>3. CASE Project
    <3>1. PICK n : n = [NoTurn EXCEPT !.st = "project", !.todo = {routes[id] : id \in DOMAIN routes}]
      OBVIOUS
    <3>2. IsTurn(n) /\ n.items = {}
      BY <3>1 DEF NoTurn, IsTurn
    <3>. QED BY <2>3, <3>1, <3>2 DEF Project, ItemsRouted
  <2>4. CASE EndProjection
    <3>1. CASE turn' = [turn EXCEPT !.st = "ready"]
      <4>1. PICK n : n = turn'
        OBVIOUS
      <4>2. n = [st |-> "ready", todo |-> turn.todo, items |-> turn.items, record |-> turn.record]
        BY <1>1, <3>1, <4>1 DEF IsTurn
      <4>3. IsTurn(n) /\ n.items = turn.items
        BY <4>2 DEF IsTurn
      <4>. QED BY <4>1, <4>3 DEF ItemsRouted
    <3>. QED BY <2>2, <2>4, <3>1 DEF EndProjection
  <2>5. ASSUME NEW r \in turn.todo, ProjectRecord(r) PROVE IsTurn(turn') /\ ItemsRouted
    <3>1. PICK id : id = r.decl.id
      OBVIOUS
    <3>2. ASSUME NEW it, turn' = [turn EXCEPT !.todo = @ \ {r}, !.items = @ \cup {it}], ItemRouted(it)
          PROVE  IsTurn(turn') /\ ItemsRouted
      <4>1. PICK n : n = turn'
        OBVIOUS
      <4>2. n = [st |-> turn.st, todo |-> turn.todo \ {r}, items |-> turn.items \cup {it}, record |-> turn.record]
        BY <1>1, <3>2, <4>1 DEF IsTurn
      <4>3. IsTurn(n) /\ n.items = turn.items \cup {it}
        BY <4>2 DEF IsTurn
      <4>. QED BY <3>2, <4>1, <4>3 DEF ItemsRouted
    <3>3. CASE turn' = [turn EXCEPT !.todo = @ \ {r}, !.items = @ \cup {Result("tool", id, r.of, r.of, "offered")}]
      <4>1. PICK it : it = Result("tool", id, r.of, r.of, "offered")
        OBVIOUS
      <4>2. ItemRouted(it)
        BY <4>1, ResultFields DEF ItemRouted
      <4>. QED BY <3>2, <3>3, <4>1, <4>2
    <3>4. CASE /\ read_plugin_skill(r)
               /\ turn' = [turn EXCEPT !.todo = @ \ {r},
                              !.items = @ \cup {Result("skill", id, r.of, HostOf(r.of.plugin), "completed")}]
      <4>1. PICK it : it = Result("skill", id, r.of, HostOf(r.of.plugin), "completed")
        OBVIOUS
      <4>2. it.id = id /\ it.of = r.of /\ it.from = HostOf(r.of.plugin)
        BY <4>1, ResultFields
      <4>3. ItemRouted(it)
        BY <3>1, <3>4, <4>2 DEF ItemRouted, read_plugin_skill
      <4>. QED BY <3>2, <3>4, <4>1, <4>3
    <3>5. CASE turn' = [turn EXCEPT !.todo = @ \ {r}, !.items = @ \cup {Result("skill", id, r.of, NoInstance, "failed")}]
      <4>1. PICK it : it = Result("skill", id, r.of, NoInstance, "failed")
        OBVIOUS
      <4>2. ItemRouted(it)
        BY <4>1, ResultFields DEF ItemRouted
      <4>. QED BY <3>2, <3>5, <4>1, <4>2
    <3>6. CASE turn' = [turn EXCEPT !.todo = @ \ {r},
                           !.items = @ \cup {Result("source", id, r.of, NoInstance, "deferred_allow_once")}]
      <4>1. PICK it : it = Result("source", id, r.of, NoInstance, "deferred_allow_once")
        OBVIOUS
      <4>2. ItemRouted(it)
        BY <4>1, ResultFields DEF ItemRouted
      <4>. QED BY <3>2, <3>6, <4>1, <4>2
    <3>7. CASE turn' = [turn EXCEPT !.todo = @ \ {r}, !.st = "source", !.record = r]
      <4>1. PICK n : n = turn'
        OBVIOUS
      <4>2. n = [st |-> "source", todo |-> turn.todo \ {r}, items |-> turn.items, record |-> r]
        BY <1>1, <3>7, <4>1 DEF IsTurn
      <4>3. IsTurn(n) /\ n.items = turn.items
        BY <4>2 DEF IsTurn
      <4>. QED BY <4>1, <4>3 DEF ItemsRouted
    <3>8. CASE turn' = [turn EXCEPT !.todo = @ \ {r}]
      <4>1. PICK n : n = turn'
        OBVIOUS
      <4>2. n = [st |-> turn.st, todo |-> turn.todo \ {r}, items |-> turn.items, record |-> turn.record]
        BY <1>1, <3>8, <4>1 DEF IsTurn
      <4>3. IsTurn(n) /\ n.items = turn.items
        BY <4>2 DEF IsTurn
      <4>. QED BY <4>1, <4>3 DEF ItemsRouted
    <3>. QED BY <2>5, <3>1, <3>3, <3>4, <3>5, <3>6, <3>7, <3>8 DEF ProjectRecord
  <2>. QED BY <2>1, <2>2, <2>3, <2>4, <2>5 DEF TurnEnds, UserAsks, AgentAsks
<1>. QED BY <1>1, <1>2, <1>3, <1>4 DEF RoutesInv

LEMMA RoutesStep ==
  ASSUME RoutesInv, [RoutesNext]_routevars
  PROVE  RoutesInv' /\ ToldRouted /\ ItemsRouted
<1>1. ASSUME UNCHANGED <<told, turn>> PROVE ToldRouted /\ ItemsRouted
  BY <1>1 DEF ToldRouted, ItemsRouted
<1>2. ASSUME UNCHANGED told PROVE ToldRouted
  BY <1>2 DEF ToldRouted
<1>3. CASE UNCHANGED routevars
  BY <1>1, <1>3 DEF routevars, RoutesInv
<1>4. CASE RoutesNext
  BY <1>1, <1>2, <1>4, PluginSteps, CallSteps, EndSteps, TurnSteps DEF RoutesNext
<1>. QED BY <1>3, <1>4

LEMMA RoutesStart ==
  ASSUME RoutesInit
  PROVE  RoutesInv
<1>1. DOMAIN routes = {} /\ hosts = [p \in RoutePlugins |-> NoRouteHost] /\ started = 0 /\ ask = NoAsk /\ turn = NoTurn
  BY DEF RoutesInit
<1>2. NoRouteHost \in HostRecords /\ NoRouteHost.id = 0
  BY DEF NoRouteHost, HostRecords
<1>3. RegistryOf(routes, hosts)
  BY <1>1, <1>2 DEF RegistryOf, HostFits, Offered
<1>4. AskFits(ask) /\ IsTurn(turn)
  BY <1>1 DEF NoAsk, Ask, AskFits, IsAsk, NoTurn, IsTurn
<1>. QED BY <1>1, <1>3, <1>4 DEF RoutesInv

\* The routes are those of the hosts that run, all of a package's declarations or none,
\* for any number of plugins, packages, hosts and calls.
THEOREM RoutesFollow == RoutesSpec => []RoutesFollowHosts
<1>1. RoutesInit => RoutesInv
  BY RoutesStart
<1>2. RoutesInv /\ [RoutesNext]_routevars => RoutesInv'
  BY RoutesStep
<1>3. RoutesInv => RoutesFollowHosts
  <2>1. SUFFICES ASSUME RoutesInv PROVE RoutesFollowHosts
    OBVIOUS
  <2>2. RegistryOf(routes, hosts)
    BY <2>1 DEF RoutesInv
  <2>3. ASSUME NEW id \in DOMAIN routes PROVE HostOf(routes[id].of.plugin) = routes[id].of
    BY <2>2, <2>3 DEF RegistryOf, RouteFits, HostOf
  <2>4. ASSUME NEW p \in RoutePlugins, hosts[p] # NoRouteHost
        PROVE  {routes[id].decl : id \in Records(routes, p)} = Decls(hosts[p].pack)
    <3>1. HostFits(hosts[p]) /\ hosts[p].id # 0 /\ Offered(routes, hosts, p)
      BY <2>2, <2>4 DEF RegistryOf, HostFits
    <3>2. ASSUME NEW id \in Records(routes, p) PROVE routes[id].decl \in Decls(hosts[p].pack)
      <4>1. PICK r : r = routes[id]
        OBVIOUS
      <4>2. RouteFits(r, hosts, id) /\ r.of.plugin = p
        BY <2>2, <4>1 DEF RegistryOf, Records
      <4>3. r.of.pack = hosts[p].pack
        BY <4>2 DEF RouteFits, Instance
      <4>. QED BY <4>1, <4>2, <4>3 DEF RouteFits
    <3>3. ASSUME NEW d \in Decls(hosts[p].pack) PROVE d.id \in Records(routes, p) /\ routes[d.id].decl = d
      <4>1. d.id \in Records(routes, p)
        BY <3>1, <3>3 DEF Offered, Records
      <4>2. routes[d.id].decl \in Decls(hosts[p].pack) /\ routes[d.id].decl.id = d.id
        BY <2>2, <3>2, <4>1 DEF RegistryOf, RouteFits, Records
      <4>3. stageable(RoutePackages[hosts[p].pack])
        BY <3>1 DEF HostFits
      <4>. QED BY <4>1, <4>2, <4>3, StagedDecls
    <3>. QED BY <3>2, <3>3
  <2>. QED BY <2>3, <2>4 DEF RoutesFollowHosts, Decls
<1>. QED BY <1>1, <1>2, <1>3, PTL DEF RoutesSpec

\* A result, and a skill an Agent reads, is handed out only while the package that made
\* it is the one its contribution is routed to, and to the origin that may call its kind.
THEOREM ResultsRouted == RoutesSpec => ResultsAreRouted
<1>1. RoutesInit => RoutesInv
  BY RoutesStart
<1>2. RoutesInv /\ [RoutesNext]_routevars => RoutesInv' /\ [ToldRouted /\ ItemsRouted]_routevars
  BY RoutesStep
<1>3. ToldRouted /\ ItemsRouted =>
        /\ \A r \in told' \ told :
              /\ fits(r.origin, r.decl.kind)
              /\ r.id \in DOMAIN routes /\ routes[r.id] = [decl |-> r.decl, of |-> r.of]
        /\ \A item \in turn'.items \ turn.items :
              item.kind = "skill" /\ item.status = "completed" =>
                  /\ item.from = item.of
                  /\ item.id \in DOMAIN routes /\ routes[item.id].of = item.of
  BY DEF ToldRouted, ItemsRouted, ItemRouted
<1>. QED BY <1>1, <1>2, <1>3, PTL DEF RoutesSpec, ResultsAreRouted

-----------------------------------------------------------------------------
(* References to Workspace objects *)

WorkspaceIds == [kernel : Nat, state : Nat, project : Nat]

\* What is true now is part of what was ever true.
PastInv ==
    /\ ws \in WorkspaceIds
    /\ \A n \in Names : <<wroot, ws, n, objects[n]>> \in past

\* A reference was true of an object once, and there are not too many.
RecordFits(r) == r.ws \in WorkspaceIds /\ <<r.root, r.ws, r.name, r.shape>> \in past
RefsInv ==
    /\ ids \in Nat /\ IsFiniteSet(DOMAIN refs)
    /\ \A i \in DOMAIN refs : RecordFits(refs[i])
    /\ Cardinality(DOMAIN refs) <= MAX_WORKSPACE_OBJECT_REFERENCES

\* The project of a context is the one there is unless its revision has passed; a
\* snapshot of the revision of its context is of the project of its context.
SnapInv ==
    /\ snap.at \in {"none", "asked", "taken"}
    /\ snap.at # "none" => snap.ws \in WorkspaceIds
    /\ snap.at = "asked" => /\ snap.ws.project <= ws.project
                            /\ snap.ws.project = ws.project => snap.root = wroot
    /\ snap.at = "taken" => /\ snap.seen \in WorkspaceIds /\ DOMAIN snap.objects \subseteq Names
                            /\ snap.seen.project = snap.ws.project =>
                                  \A n \in DOMAIN snap.objects : <<snap.root, snap.seen, n, snap.objects[n]>> \in past

IsAnswer(c) ==
    c = [step |-> c.step, root |-> c.root, ws |-> c.ws, record |-> c.record, op |-> c.op, response |-> c.response,
         at |-> c.at]

\* A call is about a reference of its own project; its answer has an identity.
InspFits(c) ==
    /\ c.step \in {"idle", "guest", "prepared", "answered", "projected", "delivered"}
    /\ c.step \in {"prepared", "answered", "projected", "delivered"} =>
          c.record.ws \in WorkspaceIds /\ c.record.root = c.root
    /\ c.step \in {"answered", "projected", "delivered"} => IsAnswer(c) /\ c.at \in WorkspaceIds
    /\ c.step \in {"projected", "delivered"} => c.record.ws = c.at /\ c.response = c.record.shape

ReferencesInv == PastInv /\ RefsInv /\ SnapInv /\ InspFits(insp)

\* Two identities of one lineage are the same.
LEMMA LineageIsIdentity ==
  ASSUME NEW l \in WorkspaceIds, NEW r \in WorkspaceIds, same_workspace_lineage(l, r)
  PROVE  l = r
BY DEF same_workspace_lineage, WorkspaceIds

\* The objects of a snapshot can be numbered, one id each.
LEMMA NumberedFits ==
  ASSUME ids \in Nat, NEW ns, IsFiniteSet(ns)
  PROVE  /\ Cardinality(ns) \in Nat
         /\ Numbered(ns) \in [ids + 1 .. ids + Cardinality(ns) -> ns]
<1>1. PICK m : m = Cardinality(ns)
  OBVIOUS
<1>2. m \in Nat /\ ExistsBijection(1 .. m, ns)
  BY <1>1, FS_CardinalityType
<1>3. PICK g \in [1 .. m -> ns] : \A x \in ns : \E j \in 1 .. m : g[j] = x
  BY <1>2 DEF ExistsBijection, Bijection, Surjection
<1>4. PICK f : f = [i \in ids + 1 .. ids + m |-> g[i - ids]]
  OBVIOUS
<1>5. f \in [ids + 1 .. ids + m -> ns] /\ DOMAIN f = ids + 1 .. ids + m
  <2>1. ASSUME NEW i \in ids + 1 .. ids + m PROVE g[i - ids] \in ns
    <3>1. i - ids \in 1 .. m
      BY <1>2, <2>1
    <3>. QED BY <1>3, <3>1
  <2>. QED BY <1>4, <2>1
<1>6. ASSUME NEW x \in ns PROVE \E i \in DOMAIN f : f[i] = x
  <2>1. PICK j \in 1 .. m : g[j] = x
    BY <1>3
  <2>2. ids + j \in ids + 1 .. ids + m /\ (ids + j) - ids = j
    BY <1>2
  <2>. QED BY <1>4, <1>5, <2>1, <2>2
<1>7. \E h \in [ids + 1 .. ids + m -> ns] : \A x \in ns : \E i \in DOMAIN h : h[i] = x
  BY <1>5, <1>6
<1>8. (CHOOSE h \in [ids + 1 .. ids + m -> ns] : \A x \in ns : \E i \in DOMAIN h : h[i] = x)
         \in [ids + 1 .. ids + m -> ns]
  BY <1>7
<1>. QED BY <1>1, <1>2, <1>8 DEF Numbered

\* What happens to the Workspace or the project takes nothing back: another project has
\* a later revision, and references are only forgotten.
Onward(r, w, o) ==
    /\ Becomes(r, w, o) /\ w \in WorkspaceIds
    /\ ws.project <= w.project /\ (w.project = ws.project => r = wroot)
    /\ DOMAIN refs' \subseteq DOMAIN refs /\ \A i \in DOMAIN refs' : refs'[i] = refs[i]

LEMMA WorkspaceBecomes ==
  ASSUME ReferencesInv, NEW r, NEW w, NEW o, Onward(r, w, o)
  PROVE  ReferencesInv'
<1>0. /\ Becomes(r, w, o) /\ w \in WorkspaceIds
      /\ ws.project <= w.project /\ (w.project = ws.project => r = wroot)
      /\ DOMAIN refs' \subseteq DOMAIN refs /\ \A i \in DOMAIN refs' : refs'[i] = refs[i]
  BY DEF Onward
<1>1. /\ wroot' = r /\ ws' = w /\ objects' = o /\ past \subseteq past' /\ Truths(r, w, o) \subseteq past'
      /\ UNCHANGED <<ids, snap, insp>>
  BY <1>0 DEF Becomes
<1>2. PastInv'
  BY <1>0, <1>1 DEF PastInv, Truths
<1>3. RefsInv'
  <2>1. IsFiniteSet(DOMAIN refs) /\ IsFiniteSet(DOMAIN refs') /\ Cardinality(DOMAIN refs') <= Cardinality(DOMAIN refs)
    BY <1>0, FS_Subset DEF ReferencesInv, RefsInv
  <2>2. Cardinality(DOMAIN refs) \in Nat /\ Cardinality(DOMAIN refs') \in Nat
    BY <2>1, FS_CardinalityType
  <2>3. Cardinality(DOMAIN refs') <= MAX_WORKSPACE_OBJECT_REFERENCES
    BY <2>1, <2>2 DEF ReferencesInv, RefsInv, MAX_WORKSPACE_OBJECT_REFERENCES
  <2>4. ASSUME NEW i \in DOMAIN refs' PROVE RecordFits(refs[i])'
    BY <1>0, <1>1, <2>4 DEF ReferencesInv, RefsInv, RecordFits
  <2>. QED BY <1>1, <2>1, <2>3, <2>4 DEF ReferencesInv, RefsInv
<1>4. SnapInv'
  <2>1. ws.project \in Nat /\ w.project \in Nat /\ (snap.at = "asked" => snap.ws.project \in Nat)
    BY <1>0 DEF ReferencesInv, PastInv, SnapInv, WorkspaceIds
  <2>2. SnapInv
    BY DEF ReferencesInv
  <2>3. snap.at = "asked" => snap.ws.project <= w.project /\ (snap.ws.project = w.project => snap.root = r)
    BY <1>0, <2>1, <2>2 DEF SnapInv
  <2>. QED BY <1>1, <2>2, <2>3 DEF SnapInv
<1>5. InspFits(insp)'
  BY <1>1 DEF ReferencesInv, InspFits
<1>. QED BY <1>2, <1>3, <1>4, <1>5 DEF ReferencesInv

LEMMA WorkspaceSteps ==
  ASSUME ReferencesInv, RunCode \/ Callback \/ RestartKernel \/ ChangeProject
  PROVE  ReferencesInv'
<1>1. ws \in WorkspaceIds /\ ws.project \in Nat
  BY DEF ReferencesInv, PastInv, WorkspaceIds
<1>2. CASE RunCode
  <2>1. PICK w, o : w = [ws EXCEPT !.state = @ + 1] /\ Becomes(wroot, w, o) /\ UNCHANGED refs
    BY <1>2 DEF RunCode
  <2>2. w \in WorkspaceIds /\ w.project = ws.project
    BY <1>1, <2>1 DEF WorkspaceIds
  <2>3. Onward(wroot, w, o)
    BY <1>1, <2>1, <2>2 DEF Onward
  <2>. QED BY <2>3, WorkspaceBecomes
<1>3. CASE Callback
  <2>1. PICK o : Becomes(wroot, ws, o) /\ UNCHANGED refs
    BY <1>3 DEF Callback
  <2>2. Onward(wroot, ws, o)
    BY <1>1, <2>1 DEF Onward
  <2>. QED BY <2>2, WorkspaceBecomes
<1>4. CASE RestartKernel
  <2>0. PICK o \in [Names -> Shapes] : Becomes(wroot, [ws EXCEPT !.kernel = @ + 1, !.state = 0], o) /\ UNCHANGED refs
    BY <1>4 DEF RestartKernel
  <2>1. PICK w : w = [ws EXCEPT !.kernel = @ + 1, !.state = 0] /\ Becomes(wroot, w, o) /\ UNCHANGED refs
    BY <2>0, Zenon
  <2>2. w \in WorkspaceIds /\ w.project = ws.project
    <3>1. ws.kernel + 1 \in Nat /\ ws.project \in Nat /\ 0 \in Nat
      BY <1>1 DEF WorkspaceIds
    <3>2. w = [kernel |-> ws.kernel + 1, state |-> 0, project |-> ws.project]
      BY <1>1, <2>1 DEF WorkspaceIds
    <3>. QED BY <3>1, <3>2 DEF WorkspaceIds
  <2>3. Onward(wroot, w, o)
    BY <1>1, <2>1, <2>2 DEF Onward
  <2>. QED BY <2>3, WorkspaceBecomes
<1>5. CASE ChangeProject
  <2>1. PICK r, w : w = [ws EXCEPT !.project = @ + 1] /\ Becomes(r, w, objects) /\ invalidate_project(wroot)
    BY <1>5 DEF ChangeProject
  <2>2. w \in WorkspaceIds /\ w.project = ws.project + 1
    BY <1>1, <2>1 DEF WorkspaceIds
  <2>3. DOMAIN refs' \subseteq DOMAIN refs /\ \A i \in DOMAIN refs' : refs'[i] = refs[i]
    BY <2>1 DEF invalidate_project
  <2>4. Onward(r, w, objects)
    BY <1>1, <2>1, <2>2, <2>3 DEF Onward
  <2>. QED BY <2>4, WorkspaceBecomes
<1>. QED BY <1>2, <1>3, <1>4, <1>5

\* References are issued for what was true when the snapshot was taken.
LEMMA IssueSteps ==
  ASSUME ReferencesInv, TakeContext \/ TakeSnapshot \/ issue_from_snapshot \/ invalidate_workspace
  PROVE  ReferencesInv'
<1>. USE DEF still
<1>1. PastInv /\ RefsInv /\ SnapInv /\ InspFits(insp) /\ ws \in WorkspaceIds /\ ws.project \in Nat
  BY DEF ReferencesInv, PastInv, WorkspaceIds
<1>2. UNCHANGED <<wroot, ws, objects, past, insp>>
  BY DEF TakeContext, TakeSnapshot, issue_from_snapshot, invalidate_workspace
<1>3. PastInv' /\ InspFits(insp)'
  BY <1>1, <1>2 DEF PastInv, InspFits
<1>4. ASSUME UNCHANGED <<refs, ids>> PROVE RefsInv'
  BY <1>1, <1>2, <1>4 DEF RefsInv, RecordFits
<1>5. ASSUME snap' = NoSnap PROVE SnapInv'
  BY <1>5 DEF NoSnap, SnapInv
<1>6. CASE TakeContext
  <2>1. PICK s : s = [at |-> "asked", root |-> wroot, ws |-> ws]
    OBVIOUS
  <2>2. s.at = "asked" /\ s.root = wroot /\ s.ws = ws /\ snap' = s
    BY <1>6, <2>1 DEF TakeContext
  <2>3. SnapInv'
    BY <1>1, <1>2, <2>2 DEF SnapInv
  <2>. QED BY <1>3, <1>4, <1>6, <2>3 DEF TakeContext, ReferencesInv
<1>7. CASE TakeSnapshot
  <2>1. PICK ns \in SUBSET Names : snap' = [at |-> "taken", root |-> snap.root, ws |-> snap.ws, seen |-> ws,
                                            objects |-> [n \in ns |-> objects[n]]]
    BY <1>7 DEF TakeSnapshot
  <2>2. PICK s, f : f = [n \in ns |-> objects[n]]
                    /\ s = [at |-> "taken", root |-> snap.root, ws |-> snap.ws, seen |-> ws, objects |-> f]
    OBVIOUS
  <2>3. s.at = "taken" /\ s.root = snap.root /\ s.ws = snap.ws /\ s.seen = ws /\ s.objects = f /\ snap' = s
    BY <2>1, <2>2
  <2>4. snap.ws \in WorkspaceIds /\ (snap.ws.project = ws.project => snap.root = wroot)
    BY <1>1, <1>7 DEF SnapInv, TakeSnapshot
  <2>5. DOMAIN f = ns /\ \A n \in ns : f[n] = objects[n] /\ <<wroot, ws, n, f[n]>> \in past
    BY <1>1, <2>2 DEF PastInv
  <2>6. SnapInv'
    BY <1>1, <1>2, <2>3, <2>4, <2>5 DEF SnapInv
  <2>. QED BY <1>3, <1>4, <1>7, <2>6 DEF TakeSnapshot, ReferencesInv
<1>8. CASE issue_from_snapshot
  <2>1. SnapInv' /\ snap.at = "taken"
    BY <1>5, <1>8 DEF issue_from_snapshot
  <2>2. CASE UNCHANGED <<refs, ids>>
    BY <1>3, <1>4, <2>1, <2>2 DEF ReferencesInv
  <2>3. CASE ~UNCHANGED <<refs, ids>>
    <3>1. PICK ns, at : ns = DOMAIN snap.objects /\ at = Numbered(ns)
      OBVIOUS
    <3>2. /\ same_workspace_lineage(snap.seen, snap.ws)
          /\ Cardinality(DOMAIN refs) + Cardinality(ns) <= MAX_WORKSPACE_OBJECT_REFERENCES
          /\ ids' = ids + Cardinality(ns)
          /\ refs' = [i \in DOMAIN refs \cup DOMAIN at |->
                         IF i \in DOMAIN refs THEN refs[i]
                         ELSE [root |-> snap.root, ws |-> snap.ws, name |-> at[i], shape |-> snap.objects[at[i]]]]
      BY <1>8, <2>3, <3>1 DEF issue_from_snapshot
    <3>3. ns \subseteq Names /\ IsFiniteSet(ns) /\ snap.seen \in WorkspaceIds /\ snap.ws \in WorkspaceIds
      BY <1>1, <2>1, <3>1, ReferencesAssumption, FS_Subset DEF SnapInv
    <3>4. snap.seen = snap.ws
      BY <3>2, <3>3, LineageIsIdentity
    <3>5. \A n \in ns : <<snap.root, snap.ws, n, snap.objects[n]>> \in past
      BY <1>1, <2>1, <3>1, <3>4 DEF SnapInv
    <3>6. PICK m \in Nat : m = Cardinality(ns)
      BY <3>3, FS_CardinalityType
    <3>7. ids \in Nat /\ at \in [ids + 1 .. ids + m -> ns] /\ DOMAIN at = ids + 1 .. ids + m
      BY <1>1, <3>1, <3>3, <3>6, NumberedFits DEF RefsInv
    <3>8. IsFiniteSet(DOMAIN at) /\ Cardinality(DOMAIN at) = m
      BY <3>6, <3>7, FS_Interval
    <3>9. IsFiniteSet(DOMAIN refs) /\ DOMAIN refs' = DOMAIN refs \cup DOMAIN at
      BY <1>1, <3>2 DEF RefsInv
    <3>10. IsFiniteSet(DOMAIN refs') /\ Cardinality(DOMAIN refs') <= MAX_WORKSPACE_OBJECT_REFERENCES
      <4>1. PICK S, T : S = DOMAIN refs /\ T = DOMAIN at
        OBVIOUS
      <4>2. IsFiniteSet(S \cup T) /\ Cardinality(S \cup T) = Cardinality(S) + Cardinality(T) - Cardinality(S \cap T)
        BY <3>8, <3>9, <4>1, FS_Union
      <4>3. IsFiniteSet(S \cap T)
        BY <3>9, <4>1, FS_Subset
      <4>4. Cardinality(S) \in Nat /\ Cardinality(T) = m /\ Cardinality(S \cap T) \in Nat
        BY <3>8, <3>9, <4>1, <4>3, FS_CardinalityType
      <4>5. Cardinality(S) + m <= MAX_WORKSPACE_OBJECT_REFERENCES
        BY <3>2, <3>6, <4>1
      <4>6. Cardinality(S \cup T) <= MAX_WORKSPACE_OBJECT_REFERENCES
        BY <4>2, <4>4, <4>5 DEF MAX_WORKSPACE_OBJECT_REFERENCES
      <4>. QED BY <3>9, <4>1, <4>2, <4>6
    <3>11. ASSUME NEW i \in DOMAIN refs' PROVE RecordFits(refs'[i])
      <4>1. CASE i \in DOMAIN refs
        BY <1>1, <3>2, <3>9, <4>1 DEF RefsInv
      <4>2. CASE i \notin DOMAIN refs
        <5>1. PICK r : r = [root |-> snap.root, ws |-> snap.ws, name |-> at[i], shape |-> snap.objects[at[i]]]
          OBVIOUS
        <5>2. refs'[i] = r /\ at[i] \in ns
          BY <3>2, <3>7, <3>9, <4>2, <5>1
        <5>3. r.root = snap.root /\ r.ws = snap.ws /\ r.name = at[i] /\ r.shape = snap.objects[at[i]]
          BY <5>1
        <5>. QED BY <3>3, <3>5, <5>2, <5>3 DEF RecordFits
      <4>. QED BY <4>1, <4>2
    <3>12. RefsInv'
      <4>1. \A i \in DOMAIN refs' : RecordFits(refs[i])'
        <5>1. ASSUME NEW i \in DOMAIN refs' PROVE RecordFits(refs[i])'
          BY <1>2, <3>11, <5>1 DEF RecordFits
        <5>. QED BY <5>1
      <4>2. ids' \in Nat
        BY <3>2, <3>6, <3>7
      <4>. QED BY <3>10, <4>1, <4>2 DEF RefsInv
    <3>. QED BY <1>3, <2>1, <3>12 DEF ReferencesInv
  <2>. QED BY <2>2, <2>3
<1>9. CASE invalidate_workspace
  <2>1. /\ DOMAIN refs' \subseteq DOMAIN refs /\ (\A i \in DOMAIN refs' : refs'[i] = refs[i]) /\ UNCHANGED <<ids, snap>>
    BY <1>9 DEF invalidate_workspace
  <2>2. IsFiniteSet(DOMAIN refs) /\ IsFiniteSet(DOMAIN refs') /\ Cardinality(DOMAIN refs') <= Cardinality(DOMAIN refs)
    BY <1>1, <2>1, FS_Subset DEF RefsInv
  <2>3. Cardinality(DOMAIN refs) \in Nat /\ Cardinality(DOMAIN refs') \in Nat
    BY <2>2, FS_CardinalityType
  <2>4. Cardinality(DOMAIN refs') <= MAX_WORKSPACE_OBJECT_REFERENCES
    BY <1>1, <2>2, <2>3 DEF RefsInv, MAX_WORKSPACE_OBJECT_REFERENCES
  <2>5. ASSUME NEW i \in DOMAIN refs' PROVE RecordFits(refs[i])'
    BY <1>1, <1>2, <2>1, <2>5 DEF RefsInv, RecordFits
  <2>6. RefsInv'
    BY <1>1, <2>1, <2>2, <2>4, <2>5 DEF RefsInv
  <2>7. SnapInv'
    BY <1>1, <1>2, <2>1 DEF SnapInv
  <2>. QED BY <1>3, <2>6, <2>7 DEF ReferencesInv
<1>. QED BY <1>6, <1>7, <1>8, <1>9

\* A call moves on or is refused.
LEMMA InspectSteps ==
  ASSUME ReferencesInv,
         \/ BeginInspect \/ (\E i \in 1 .. MaxIds : prepare(i)) \/ DispatchInspection \/ finish \/ DeliverInspection
         \/ EndInspection
  PROVE  ReferencesInv'
<1>. USE DEF rest
<1>1. PastInv /\ RefsInv /\ SnapInv /\ InspFits(insp) /\ ws \in WorkspaceIds
  BY DEF ReferencesInv, PastInv
<1>2. UNCHANGED <<wroot, ws, objects, past, refs, ids, snap>>
  BY DEF BeginInspect, prepare, DispatchInspection, finish, DeliverInspection, EndInspection, Refused
<1>3. PastInv' /\ RefsInv' /\ SnapInv'
  BY <1>1, <1>2 DEF PastInv, RefsInv, RecordFits, SnapInv
<1>4. SUFFICES InspFits(insp')
  BY <1>3 DEF ReferencesInv, InspFits, IsAnswer
<1>5. CASE Refused
  BY <1>5 DEF Refused, NoCall, InspFits
<1>6. CASE BeginInspect
  BY <1>6 DEF BeginInspect, InspFits
<1>7. ASSUME NEW i \in 1 .. MaxIds, prepare(i) PROVE InspFits(insp')
  <2>1. CASE ~Refused
    <3>1. PICK op : /\ i \in DOMAIN refs /\ refs[i].root = insp.root
                    /\ insp' = [step |-> "prepared", root |-> insp.root, ws |-> insp.ws, record |-> refs[i], op |-> op]
      BY <1>7, <2>1 DEF prepare
    <3>2. refs[i].ws \in WorkspaceIds
      BY <1>1, <3>1 DEF RefsInv, RecordFits
    <3>. QED BY <3>1, <3>2 DEF InspFits
  <2>. QED BY <1>5, <2>1
<1>8. CASE DispatchInspection
  <2>1. CASE ~Refused
    <3>1. PICK n : n = [step |-> "answered", root |-> insp.root, ws |-> insp.ws, record |-> insp.record,
                        op |-> insp.op, response |-> objects[insp.record.name], at |-> ws]
      OBVIOUS
    <3>2. insp' = n /\ insp.step = "prepared"
      BY <1>8, <2>1, <3>1 DEF DispatchInspection
    <3>3. n.step = "answered" /\ n.root = insp.root /\ n.record = insp.record /\ n.at = ws /\ IsAnswer(n)
      BY <3>1 DEF IsAnswer
    <3>. QED BY <1>1, <3>2, <3>3 DEF InspFits
  <2>. QED BY <1>5, <2>1
<1>9. CASE finish
  <2>1. CASE ~Refused
    <3>1. PICK n : n = [insp EXCEPT !.step = "projected"]
      OBVIOUS
    <3>2. /\ insp' = n /\ insp.step = "answered" /\ same_workspace_lineage(insp.record.ws, insp.at)
          /\ insp.response = insp.record.shape
      BY <1>9, <2>1, <3>1 DEF finish
    <3>3. IsAnswer(insp) /\ insp.at \in WorkspaceIds /\ insp.record.ws \in WorkspaceIds /\ insp.record.root = insp.root
      BY <1>1, <3>2 DEF InspFits
    <3>4. insp.record.ws = insp.at
      BY <3>2, <3>3, LineageIsIdentity
    <3>5. /\ n.step = "projected" /\ n.root = insp.root /\ n.record = insp.record /\ n.at = insp.at
          /\ n.response = insp.response /\ IsAnswer(n)
      BY <3>1, <3>3 DEF IsAnswer
    <3>. QED BY <3>2, <3>3, <3>4, <3>5 DEF InspFits
  <2>. QED BY <1>5, <2>1
<1>10. CASE DeliverInspection
  <2>1. PICK n : n = [insp EXCEPT !.step = "delivered"]
    OBVIOUS
  <2>2. insp' = n /\ insp.step = "projected" /\ IsAnswer(insp)
    BY <1>1, <1>10, <2>1 DEF DeliverInspection, InspFits
  <2>3. /\ n.step = "delivered" /\ n.root = insp.root /\ n.record = insp.record /\ n.at = insp.at
        /\ n.response = insp.response /\ IsAnswer(n)
    BY <2>1, <2>2 DEF IsAnswer
  <2>. QED BY <1>1, <2>2, <2>3 DEF InspFits
<1>11. CASE EndInspection
  BY <1>5, <1>11 DEF EndInspection
<1>. QED BY <1>6, <1>7, <1>8, <1>9, <1>10, <1>11

\* A value told for a reference is of what the reference was issued for, whatever R, a
\* restart or another project did in between; no reference was never true.
THEOREM ReferencesHold == RefSpec => []ValuesAreOfTheirReference
<1>1. RefInit => ReferencesInv
  <2>1. SUFFICES ASSUME RefInit PROVE ReferencesInv
    OBVIOUS
  <2>2. /\ ws = Identity /\ past = Truths(wroot, ws, objects) /\ DOMAIN refs = {} /\ ids = 0
        /\ snap = NoSnap /\ insp = NoCall
    BY <2>1 DEF RefInit
  <2>3. PastInv
    BY <2>2 DEF PastInv, Truths, Identity, WorkspaceIds
  <2>4. RefsInv
    BY <2>2, FS_EmptySet DEF RefsInv, MAX_WORKSPACE_OBJECT_REFERENCES
  <2>5. SnapInv
    BY <2>2 DEF SnapInv, NoSnap
  <2>6. InspFits(insp)
    BY <2>2 DEF InspFits, NoCall
  <2>. QED BY <2>3, <2>4, <2>5, <2>6 DEF ReferencesInv
<1>2. ReferencesInv /\ [RefNext]_refvars => ReferencesInv'
  <2>1. SUFFICES ASSUME ReferencesInv, [RefNext]_refvars PROVE ReferencesInv'
    OBVIOUS
  <2>2. CASE UNCHANGED refvars
    BY <2>1, <2>2 DEF refvars, ReferencesInv, PastInv, RefsInv, RecordFits, SnapInv, InspFits, IsAnswer
  <2>3. CASE RefNext
    BY <2>1, <2>3, WorkspaceSteps, IssueSteps, InspectSteps DEF RefNext
  <2>. QED BY <2>1, <2>2, <2>3
<1>3. ReferencesInv => ValuesAreOfTheirReference
  BY DEF ReferencesInv, RefsInv, RecordFits, InspFits, ValuesAreOfTheirReference
<1>. QED BY <1>1, <1>2, <1>3, PTL DEF RefSpec

-----------------------------------------------------------------------------
(* One network.fetch *)

\* The ranges the code tests cover every reserved IPv4 block ...
LEMMA PublicV4 ==
  ASSUME NEW a \in Octets, NEW b \in Octets, NEW c \in Octets, is_public_ipv4(a, b, c)
  PROVE  \A k \in ReservedV4 : ~InBlock(Bits4(a, b, c), k)
<1>1. PICK v : v = Bits4(a, b, c)
  OBVIOUS
<1>2. v = a * 65536 + b * 256 + c /\ v \in Int
  BY <1>1 DEF Bits4, Octets
<1>4. /\ v >= 65536
      /\ v < 655360 \/ v >= 720896
      /\ v < 8323072 \/ v >= 8388608
      /\ v < 6569984 \/ v >= 6586368
  BY <1>2 DEF is_public_ipv4, Octets
<1>5. /\ v < 11140608 \/ v >= 11140864
      /\ v < 11276288 \/ v >= 11280384
      /\ v < 12582912 \/ v >= 12582913
      /\ v < 12582914 \/ v >= 12582915
      /\ v < 12605539 \/ v >= 12605540
  BY <1>2 DEF is_public_ipv4, Octets
<1>6. /\ v < 12625920 \/ v >= 12626176
      /\ v < 12980736 \/ v >= 12981248
      /\ v < 12989284 \/ v >= 12989285
      /\ v < 13303921 \/ v >= 13303922
      /\ v < 14680064
  BY <1>2 DEF is_public_ipv4, Octets
<1>7. /\ Bits4(0, 0, 0) = 0 /\ Bits4(10, 0, 0) = 655360 /\ Bits4(100, 64, 0) = 6569984 /\ Bits4(127, 0, 0) = 8323072
      /\ Bits4(169, 254, 0) = 11140608 /\ Bits4(172, 16, 0) = 11276288 /\ Bits4(192, 0, 0) = 12582912
      /\ Bits4(192, 0, 2) = 12582914 /\ Bits4(192, 88, 99) = 12605539 /\ Bits4(192, 168, 0) = 12625920
      /\ Bits4(198, 18, 0) = 12980736 /\ Bits4(198, 51, 100) = 12989284 /\ Bits4(203, 0, 113) = 13303921
      /\ Bits4(224, 0, 0) = 14680064
  BY DEF Bits4
<1>8. ASSUME NEW k \in ReservedV4 PROVE ~InBlock(v, k)
  <2>1. \/ k = <<0, 65536>> \/ k = <<655360, 65536>> \/ k = <<6569984, 16384>> \/ k = <<8323072, 65536>>
        \/ k = <<11140608, 256>> \/ k = <<11276288, 4096>> \/ k = <<12582912, 1>> \/ k = <<12582914, 1>>
        \/ k = <<12605539, 1>> \/ k = <<12625920, 256>> \/ k = <<12980736, 512>> \/ k = <<12989284, 1>>
        \/ k = <<13303921, 1>> \/ k = <<14680064, 2097152>>
    BY <1>7, <1>8 DEF ReservedV4
  <2>. QED BY <1>2, <1>4, <1>5, <1>6, <2>1 DEF InBlock
<1>. QED BY <1>1, <1>8

\* ... and every reserved IPv6 block.
LEMMA PublicV6 ==
  ASSUME NEW s \in Segments, NEW t \in Segments, is_public_ipv6(s, t)
  PROVE  /\ InBlock(Bits6(s, t), GlobalV6)
         /\ \A k \in ReservedV6 : ~InBlock(Bits6(s, t), k)
<1>1. PICK v : v = Bits6(s, t)
  OBVIOUS
<1>8. s \in Int /\ t \in Int /\ t >= 0 /\ t <= 65535
  BY DEF Segments
<1>9. v = s * 65536 + t
  BY <1>1 DEF Bits6
<1>2. v \in Int
  BY <1>8, <1>9
<1>3. /\ v >= 536870912 /\ v < 1073741824
      /\ v < 536936448 \/ v >= 536936960
      /\ v < 536939960 \/ v >= 536939961
      /\ v < 537001984 \/ v >= 537067520
      /\ v < 1073676288 \/ v >= 1073676304
  <2>1. s >= 8192 /\ s <= 16383 /\ s # 8194 /\ ~(s = 8193 /\ t <= 511) /\ ~(s = 8193 /\ t = 3512) /\ ~(s = 16383 /\ t < 16)
    BY <1>8 DEF is_public_ipv6
  <2>2. v >= 536870912 /\ v < 1073741824
    BY <1>8, <1>9, <2>1
  <2>3. v < 536936448 \/ v >= 536936960
    BY <1>8, <1>9, <2>1
  <2>4. v < 536939960 \/ v >= 536939961
    BY <1>8, <1>9, <2>1
  <2>5. v < 537001984 \/ v >= 537067520
    BY <1>8, <1>9, <2>1
  <2>6. v < 1073676288 \/ v >= 1073676304
    BY <1>8, <1>9, <2>1
  <2>. QED BY <2>2, <2>3, <2>4, <2>5, <2>6
<1>4. /\ Bits6(8192, 0) = 536870912 /\ Bits6(8193, 0) = 536936448 /\ Bits6(8193, 3512) = 536939960
      /\ Bits6(8194, 0) = 537001984 /\ Bits6(16383, 0) = 1073676288
  BY DEF Bits6
<1>5. InBlock(v, GlobalV6)
  BY <1>2, <1>3, <1>4 DEF InBlock, GlobalV6
<1>6. ASSUME NEW k \in ReservedV6 PROVE ~InBlock(v, k)
  <2>1. \/ k = <<536936448, 512>> \/ k = <<536939960, 1>> \/ k = <<537001984, 65536>> \/ k = <<1073676288, 16>>
    BY <1>4, <1>6 DEF ReservedV6
  <2>. QED BY <1>2, <1>3, <2>1 DEF InBlock
<1>7. \A k \in ReservedV6 : ~InBlock(v, k)
  BY <1>6
<1>. QED BY <1>1, <1>5, <1>7

LEMMA PublicIsOutside ==
  ASSUME NEW x \in Addresses, is_public_ip(x)
  PROVE  Outside(x)
<1>1. CASE x[1] = 4
  <2>1. PICK a, b, c : a = x[2] /\ b = x[3] /\ c = x[4]
    OBVIOUS
  <2>2. a \in Octets /\ b \in Octets /\ c \in Octets /\ is_public_ipv4(a, b, c)
    <3>1. is_public_ipv4(a, b, c)
      BY <1>1, <2>1, Zenon DEF is_public_ip
    <3>2. a \in Octets /\ b \in Octets /\ c \in Octets
      BY <1>1, <2>1, AddressesAssumption
    <3>. QED BY <3>1, <3>2
  <2>3. \A k \in ReservedV4 : ~InBlock(Bits4(a, b, c), k)
    BY <2>2, PublicV4
  <2>. QED BY <1>1, <2>1, <2>3 DEF Outside
<1>2. CASE x[1] # 4
  <2>1. PICK s, t : s = x[2] /\ t = x[3]
    OBVIOUS
  <2>2. s \in Segments /\ t \in Segments /\ is_public_ipv6(s, t)
    <3>1. is_public_ipv6(s, t)
      BY <1>2, <2>1, Zenon DEF is_public_ip
    <3>2. s \in Segments /\ t \in Segments
      BY <1>2, <2>1, AddressesAssumption
    <3>. QED BY <3>1, <3>2
  <2>3. /\ InBlock(Bits6(s, t), GlobalV6)
        /\ \A k \in ReservedV6 : ~InBlock(Bits6(s, t), k)
    BY <2>2, PublicV6
  <2>. QED BY <1>2, <2>1, <2>3 DEF Outside
<1>. QED BY <1>1, <1>2

\* A value with the fields of a fetch
IsNet(n) ==
    n = [step |-> n.step, url |-> n.url, addrs |-> n.addrs, redirects |-> n.redirects, answered |-> n.answered]

Asked == {"resolve", "resolved", "send", "answer", "fetched"}
Sent == {"send", "answer", "fetched", "complete", "deliver"}

\* A hop is of a host of the grant and goes to what was resolved for it.
HopInv ==
    /\ IsNet(net) /\ net.redirects \in 0 .. 3
    /\ net.step \in Asked => validate_url(net.url)
    /\ net.step \in Asked \ {"resolve"} => net.addrs # {} /\ \A x \in net.addrs : Outside(x)

\* What was handed to the transport, by step and by how a fetch failed; an answer that
\* is used came while the authority was live.
SentInv ==
    /\ dispatched \in BOOLEAN
    /\ net.step \in {"guest", "admitted"} => ~dispatched
    /\ net.step \in Sent => dispatched
    /\ net.step = "failed" => \/ net.answered = "denied" /\ ~Authorized
                              \/ net.answered = "uncertain" /\ dispatched
                              \/ net.answered = "certain" /\ ~dispatched
    /\ net.step = "answer" /\ Authorized => net.answered = "live"
    /\ net.step \in {"fetched", "complete", "deliver"} => net.answered = "live"

\* What is recorded, reserved and told, by step.
ToldInv ==
    /\ net.step = "guest" => once = "free"
    /\ net.step = "deliver" => "call_completed" \in nrows
    /\ net.step = "ended" /\ Authorized => once = (IF dispatched THEN "spent" ELSE "free")
    /\ "call_failed" \in nrows => net.step = "ended" /\ ~dispatched
    /\ guest = "value" => net.step = "ended" /\ "call_completed" \in nrows /\ net.answered = "live"

NetInv == HopInv /\ SentInv /\ ToldInv

\* A fetch that moves to a step, and one that fails.
LEMMA StepTo ==
  ASSUME IsNet(net), NEW s, To(s)
  PROVE  /\ IsNet(net') /\ net'.step = s /\ net'.url = net.url /\ net'.addrs = net.addrs
         /\ net'.redirects = net.redirects /\ net'.answered = net.answered
<1>1. PICK n : n = [net EXCEPT !.step = s]
  OBVIOUS
<1>2. /\ IsNet(n) /\ n.step = s /\ n.url = net.url /\ n.addrs = net.addrs /\ n.redirects = net.redirects
      /\ n.answered = net.answered
  BY <1>1 DEF IsNet
<1>. QED BY <1>1, <1>2 DEF To

LEMMA FetchFails ==
  ASSUME NetInv, NEW kind, NEW uncertain, Fails(kind, uncertain), net.step \in {"authorize", "resolve", "resolved", "send", "answer"},
         (uncertain /\ dispatched) \/ (~uncertain /\ ~dispatched),
         kind = "AuthorizationDenied" => ~Authorized
  PROVE  NetInv'
<1>1. PICK a : a = IF kind = "AuthorizationDenied" THEN "denied" ELSE IF uncertain THEN "uncertain" ELSE "certain"
  OBVIOUS
<1>2. PICK n : n = [net EXCEPT !.step = "failed", !.answered = a]
  OBVIOUS
<1>3. net' = n /\ UNCHANGED <<dispatched, authority, once, nrows, guest, netfaults>>
  BY <1>1, <1>2 DEF Fails
<1>4. IsNet(n) /\ n.step = "failed" /\ n.redirects = net.redirects /\ n.answered = a
  BY <1>2 DEF NetInv, HopInv, IsNet
<1>5. HopInv'
  BY <1>3, <1>4 DEF NetInv, HopInv, Asked
<1>6. SentInv'
  <2>1. \/ a = "denied" /\ ~Authorized
        \/ a = "uncertain" /\ dispatched
        \/ a = "certain" /\ ~dispatched
    BY <1>1
  <2>. QED BY <1>3, <1>4, <2>1 DEF NetInv, SentInv, Sent, Authorized
<1>7. ToldInv'
  BY <1>3, <1>4 DEF NetInv, ToldInv
<1>. QED BY <1>5, <1>6, <1>7 DEF NetInv

\* Another thread ends the authority.
LEMMA RevokeKeeps ==
  ASSUME NetInv, Revoke
  PROVE  NetInv'
BY DEF NetInv, HopInv, SentInv, ToldInv, Revoke, Authorized

\* Every step of the call.
LEMMA AdmissionSteps ==
  ASSUME NetInv, RecordAdmission \/ \E r \in Requests : BrokerRequest(r)
  PROVE  NetInv'
<1>1. IsNet(net) /\ HopInv /\ SentInv /\ ToldInv
  BY DEF NetInv, HopInv
<1>2. ASSUME NEW r \in Requests, BrokerRequest(r) PROVE NetInv'
  <2>1. CASE network_request_authorization(r) /\ Authorized
    <3>1. PICK n : n = [net EXCEPT !.step = "admitted", !.url = r.url]
      OBVIOUS
    <3>2. IsNet(n) /\ n.step = "admitted" /\ n.redirects = net.redirects
      BY <1>1, <3>1 DEF IsNet
    <3>3. net' = n /\ UNCHANGED <<dispatched, authority, nrows, guest>> /\ net.step = "guest"
      BY <1>2, <2>1, <3>1 DEF BrokerRequest
    <3>. QED BY <1>1, <3>2, <3>3 DEF NetInv, HopInv, SentInv, ToldInv, Authorized, Asked, Sent
  <2>2. CASE ~(network_request_authorization(r) /\ Authorized)
    <3>1. /\ To("ended") /\ UNCHANGED <<dispatched, authority, once>> /\ net.step = "guest"
          /\ nrows' \in {nrows, nrows \cup {"call_denied"}} /\ guest' \in {guest, "removed", "error"}
      BY <1>2, <2>2 DEF BrokerRequest, Recorded, StoreFails, resume_plugin_error
    <3>2. IsNet(net') /\ net'.step = "ended" /\ net'.redirects = net.redirects
      BY <1>1, <3>1, StepTo
    <3>. QED BY <1>1, <3>1, <3>2 DEF NetInv, HopInv, SentInv, ToldInv, Authorized, Asked, Sent
  <2>. QED BY <2>1, <2>2
<1>3. CASE RecordAdmission
  <2>1. PICK s : /\ s \in {"authorize", "ended", "unopened"} /\ To(s) /\ UNCHANGED <<dispatched, authority, guest>>
                 /\ (s = "ended" => once' = "free") /\ net.step = "admitted" /\ nrows' \in {nrows, nrows \cup {"call_admitted"}}
    BY <1>3 DEF RecordAdmission, Recorded, StoreFails
  <2>2. IsNet(net') /\ net'.step = s /\ net'.redirects = net.redirects
    BY <1>1, <2>1, StepTo
  <2>. QED BY <1>1, <2>1, <2>2 DEF NetInv, HopInv, SentInv, ToldInv, Authorized, Asked, Sent
<1>. QED BY <1>2, <1>3

LEMMA EngineSteps ==
  ASSUME NetInv, Authorize \/ Resolve \/ Dispatch \/ Send \/ Answer \/ Timeout
  PROVE  NetInv'
<1>. USE DEF engine_unchanged
<1>1. IsNet(net) /\ HopInv /\ SentInv /\ ToldInv /\ dispatched \in BOOLEAN
  BY DEF NetInv, HopInv, SentInv
<1>2. ASSUME NEW kind, Fails(kind, dispatched), kind = "AuthorizationDenied" => ~Authorized,
             net.step \in {"authorize", "resolve", "resolved", "send", "answer"}
      PROVE  NetInv'
  BY <1>1, <1>2, FetchFails
<1>3. ASSUME NEW kind, Fails(kind, TRUE), kind = "AuthorizationDenied" => ~Authorized, net.step \in {"send", "answer"}
      PROVE  NetInv'
  <2>1. dispatched
    BY <1>1, <1>3 DEF SentInv, Sent
  <2>. QED BY <1>3, <2>1, FetchFails
<1>4. CASE Authorize
  <2>1. CASE validate_url(net.url) /\ Authorized /\ To("resolve") /\ UNCHANGED dispatched /\ engine_unchanged
    <3>1. IsNet(net') /\ net'.step = "resolve" /\ net'.redirects = net.redirects /\ net'.url = net.url
      BY <1>1, <2>1, StepTo
    <3>. QED BY <1>1, <1>4, <2>1, <3>1 DEF Authorize, NetInv, HopInv, SentInv, ToldInv, Authorized, Asked, Sent
  <2>. QED BY <1>2, <1>4, <2>1 DEF Authorize
<1>5. CASE Resolve
  <2>1. ASSUME NEW as, \A x \in as : x \in Addresses, as # {}, \A x \in as : is_public_ip(x),
               net' = [net EXCEPT !.step = "resolved", !.addrs = as], UNCHANGED dispatched, engine_unchanged
        PROVE  NetInv'
    <3>1. PICK n : n = [net EXCEPT !.step = "resolved", !.addrs = as]
      OBVIOUS
    <3>2. IsNet(n) /\ n.step = "resolved" /\ n.redirects = net.redirects /\ n.url = net.url /\ n.addrs = as
      BY <1>1, <3>1 DEF IsNet
    <3>4. \A x \in as : Outside(x)
      BY <2>1, PublicIsOutside
    <3>5. net' = n /\ net.step = "resolve"
      BY <1>5, <2>1, <3>1 DEF Resolve
    <3>. QED BY <1>1, <2>1, <3>2, <3>4, <3>5 DEF NetInv, HopInv, SentInv, ToldInv, Authorized, Asked, Sent
  <2>. QED BY <1>2, <1>5, <2>1 DEF Resolve
<1>6. CASE Dispatch
  <2>1. CASE Authorized /\ dispatched' = TRUE /\ To("send") /\ engine_unchanged
    <3>1. /\ IsNet(net') /\ net'.step = "send" /\ net'.redirects = net.redirects /\ net'.url = net.url
          /\ net'.addrs = net.addrs /\ net.step = "resolved"
      BY <1>1, <1>6, <2>1, StepTo DEF Dispatch
    <3>. QED BY <1>1, <2>1, <3>1 DEF NetInv, HopInv, SentInv, ToldInv, Authorized, Asked, Sent
  <2>. QED BY <1>2, <1>6, <2>1 DEF Dispatch
<1>7. CASE Send
  <2>1. CASE net' = [net EXCEPT !.step = "answer", !.answered = authority] /\ UNCHANGED dispatched /\ engine_unchanged
    <3>1. PICK n : n = [net EXCEPT !.step = "answer", !.answered = authority]
      OBVIOUS
    <3>2. /\ IsNet(n) /\ n.step = "answer" /\ n.redirects = net.redirects /\ n.url = net.url /\ n.addrs = net.addrs
          /\ n.answered = authority
      BY <1>1, <3>1 DEF IsNet
    <3>3. net' = n /\ net.step = "send"
      BY <1>7, <2>1, <3>1 DEF Send
    <3>. QED BY <1>1, <2>1, <3>2, <3>3 DEF NetInv, HopInv, SentInv, ToldInv, Authorized, Asked, Sent
  <2>. QED BY <1>3, <1>7, <2>1 DEF Send
<1>8. CASE Answer
  <2>1. CASE Authorized /\ To("fetched") /\ UNCHANGED dispatched /\ engine_unchanged
    <3>1. /\ IsNet(net') /\ net'.step = "fetched" /\ net'.redirects = net.redirects /\ net'.url = net.url
          /\ net'.addrs = net.addrs /\ net.step = "answer" /\ net'.answered = net.answered
      BY <1>1, <1>8, <2>1, StepTo DEF Answer
    <3>. QED BY <1>1, <2>1, <3>1 DEF NetInv, HopInv, SentInv, ToldInv, Authorized, Asked, Sent
  <2>2. ASSUME NEW u \in Urls, net.redirects < MAX_PLUGIN_NETWORK_REDIRECTS, UNCHANGED dispatched, engine_unchanged,
               net' = [net EXCEPT !.step = "authorize", !.url = u, !.addrs = {}, !.redirects = @ + 1, !.answered = "none"]
        PROVE  NetInv'
    <3>1. PICK n : n = [net EXCEPT !.step = "authorize", !.url = u, !.addrs = {}, !.redirects = @ + 1, !.answered = "none"]
      OBVIOUS
    <3>2. IsNet(n) /\ n.step = "authorize" /\ n.redirects = net.redirects + 1
      BY <1>1, <3>1 DEF IsNet
    <3>3. net' = n
      BY <2>2, <3>1, Zenon
    <3>a. net.step = "answer"
      BY <1>8 DEF Answer
    <3>4. n.redirects \in 0 .. 3
      BY <1>1, <2>2, <3>2 DEF HopInv, MAX_PLUGIN_NETWORK_REDIRECTS
    <3>. QED BY <1>1, <2>2, <3>2, <3>3, <3>a, <3>4 DEF NetInv, HopInv, SentInv, ToldInv, Authorized, Asked, Sent
  <2>. QED BY <1>3, <1>8, <2>1, <2>2 DEF Answer
<1>9. CASE Timeout
  BY <1>2, <1>9 DEF Timeout
<1>. QED BY <1>4, <1>5, <1>6, <1>7, <1>8, <1>9

LEMMA SettleSteps ==
  ASSUME NetInv, FetchFailed \/ FinalAdmission \/ RecordCompletion \/ Deliver
  PROVE  NetInv'
<1>1. IsNet(net) /\ HopInv /\ SentInv /\ ToldInv /\ dispatched \in BOOLEAN
  BY DEF NetInv, HopInv, SentInv
<1>2. UNCHANGED <<dispatched, authority>>
  BY DEF FetchFailed, FinalAdmission, RecordCompletion, Deliver
<1>3. CASE FetchFailed
  <2>1. PICK s, e : /\ s \in {"ended", "unopened"} /\ To(s) /\ nrows' \in {nrows, nrows \cup {e}}
                    /\ (s = "ended" => Settle(net.answered)) /\ guest' \in {guest, "removed", "error"}
                    /\ (s = "unopened" => nrows' = nrows)
                    /\ e = (IF net.answered = "denied" THEN "call_denied"
                            ELSE IF net.answered = "uncertain" THEN "completion_uncertain" ELSE "call_failed")
    BY <1>3 DEF FetchFailed, Recorded, StoreFails, resume_plugin_error
  <2>2. IsNet(net') /\ net'.step = s /\ net'.redirects = net.redirects /\ net.step = "failed" /\ net'.answered = net.answered
    BY <1>1, <1>3, <2>1, StepTo DEF FetchFailed
  <2>3. e = "call_failed" => ~dispatched
    BY <1>1, <2>1, <2>2 DEF SentInv
  <2>4. s = "ended" /\ Authorized => once' = (IF dispatched THEN "spent" ELSE "free")
    BY <1>1, <2>1, <2>2 DEF SentInv, Settle
  <2>5. "call_failed" \in nrows' => net'.step = "ended" /\ ~dispatched
    BY <1>1, <2>1, <2>2, <2>3 DEF ToldInv
  <2>6. ToldInv'
    BY <1>1, <1>2, <2>1, <2>2, <2>4, <2>5 DEF ToldInv, Authorized
  <2>. QED BY <1>1, <1>2, <2>1, <2>2, <2>6 DEF NetInv, HopInv, SentInv, Authorized, Asked, Sent
<1>4. CASE FinalAdmission
  <2>1. PICK s : /\ s \in {"complete", "ended", "unopened"} /\ To(s) /\ (s = "ended" => ~Authorized)
                 /\ nrows' \in {nrows, nrows \cup {"call_denied"}} /\ guest' \in {guest, "removed", "error"}
    BY <1>4 DEF FinalAdmission, Recorded, StoreFails, resume_plugin_error
  <2>2. IsNet(net') /\ net'.step = s /\ net'.redirects = net.redirects /\ net.step = "fetched" /\ net'.answered = net.answered
    BY <1>1, <1>4, <2>1, StepTo DEF FinalAdmission
  <2>. QED BY <1>1, <1>2, <2>1, <2>2 DEF NetInv, HopInv, SentInv, ToldInv, Authorized, Asked, Sent
<1>5. CASE RecordCompletion
  <2>1. PICK s : /\ s \in {"deliver", "ended", "unopened"} /\ To(s) /\ (s = "ended" => once' = "spent")
                 /\ (s = "deliver" => nrows' = nrows \cup {"call_completed"}) /\ (s # "deliver" => nrows' = nrows)
                 /\ UNCHANGED guest
    BY <1>5 DEF RecordCompletion, Recorded, StoreFails
  <2>2. IsNet(net') /\ net'.step = s /\ net'.redirects = net.redirects /\ net.step = "complete" /\ net'.answered = net.answered
    BY <1>1, <1>5, <2>1, StepTo DEF RecordCompletion
  <2>. QED BY <1>1, <1>2, <2>1, <2>2 DEF NetInv, HopInv, SentInv, ToldInv, Authorized, Asked, Sent
<1>6. CASE Deliver
  <2>1. /\ To("ended") /\ (Authorized => once' = "spent" /\ nrows' = nrows) /\ (~Authorized => guest' = "removed")
        /\ nrows' \in {nrows, nrows \cup {"delivery_failed"}}
    BY <1>6 DEF Deliver, Recorded, StoreFails
  <2>2. IsNet(net') /\ net'.step = "ended" /\ net'.redirects = net.redirects /\ net.step = "deliver" /\ net'.answered = net.answered
    BY <1>1, <1>6, <2>1, StepTo DEF Deliver
  <2>. QED BY <1>1, <1>2, <2>1, <2>2 DEF NetInv, HopInv, SentInv, ToldInv, Authorized, Asked, Sent
<1>. QED BY <1>3, <1>4, <1>5, <1>6

\* Whatever addresses names resolve to, whoever ends the authority and whenever a fetch
\* times out, what left the process went to a host of the grant outside every reserved
\* block, and the grant, the journal and the guest say so.
THEOREM SentAccounted == NetSpec => []SentIsAccountedFor
<1>1. NetInit => NetInv
  <2>1. SUFFICES ASSUME NetInit PROVE NetInv
    OBVIOUS
  <2>2. PICK u : net = [step |-> "guest", url |-> u, addrs |-> {}, redirects |-> 0, answered |-> "none"]
    BY <2>1 DEF NetInit
  <2>3. IsNet(net) /\ net.step = "guest" /\ net.redirects = 0
    BY <2>2 DEF IsNet
  <2>4. dispatched = FALSE /\ once = "free" /\ nrows = {} /\ guest # "value"
    BY <2>1 DEF NetInit
  <2>5. HopInv
    BY <2>3 DEF HopInv, Asked
  <2>6. SentInv
    BY <2>3, <2>4 DEF SentInv, Sent
  <2>7. ToldInv
    BY <2>3, <2>4 DEF ToldInv
  <2>. QED BY <2>5, <2>6, <2>7 DEF NetInv
<1>2. NetInv /\ [NetNext]_netvars => NetInv'
  <2>1. SUFFICES ASSUME NetInv, [NetNext]_netvars PROVE NetInv'
    OBVIOUS
  <2>2. CASE UNCHANGED netvars
    BY <2>1, <2>2 DEF netvars, NetInv, HopInv, SentInv, ToldInv, Authorized
  <2>3. CASE NetNext
    BY <2>1, <2>3, AdmissionSteps, EngineSteps, SettleSteps, RevokeKeeps DEF NetNext
  <2>. QED BY <2>1, <2>2, <2>3
<1>3. NetInv => SentIsAccountedFor
  BY DEF NetInv, HopInv, SentInv, ToldInv, SentIsAccountedFor, validate_url, Asked, Authorized
<1>. QED BY <1>1, <1>2, <1>3, PTL DEF NetSpec

-----------------------------------------------------------------------------
(* The activation plan *)

\* A set of numbers that is not empty has a least one.
LEMMA LeastOf ==
  ASSUME NEW S \in SUBSET Nat, S # {}
  PROVE  Least(S) \in S /\ \A y \in S : Least(S) <= y
<1>1. \E x \in S : \A y \in S : ~ (<<y, x>> \in OpToRel(<, Nat))
  BY NatLessThanWellFounded, WFMin, Zenon
<1>2. \E x \in S : \A y \in S : x <= y
  <2>1. PICK x \in S : \A y \in S : ~ (<<y, x>> \in OpToRel(<, Nat))
    BY <1>1, Zenon
  <2>2. ASSUME NEW y \in S, y < x PROVE FALSE
    <3>1. <<y, x>> \in OpToRel(<, Nat)
      BY <2>2, Zenon DEF OpToRel
    <3>. QED BY <2>1, <3>1, Zenon
  <2>. QED BY <2>2
<1>. QED BY <1>2, Zenon DEF Least

AdjacencyMaps == [PluginIds -> SUBSET PluginIds]

\* An order of all plugins has every one of them.
LEMMA OrdersCover ==
  ASSUME NEW o \in Orders, NEW q \in PluginIds
  PROVE  \E j \in 1 .. Cardinality(PluginIds) : o[j] = q
<1>. DEFINE N == Cardinality(PluginIds)
<1>1. N \in Nat
  BY ResolverAssumption, FS_CardinalityType
<1>2. IsFiniteSet(1 .. N) /\ Cardinality(1 .. N) = N
  BY <1>1, FS_Interval
<1>3. o \in Injection(1 .. N, PluginIds)
  BY DEF Orders, Injection, IsInjective
<1>4. o \in Surjection(1 .. N, PluginIds)
  BY <1>2, <1>3, FS_Injection, ResolverAssumption
<1>. QED BY <1>4 DEF Surjection

\* What is reached from a set is in every closed set around it.
LEMMA Reached ==
  ASSUME NEW A \in AdjacencyMaps, NEW s, NEW q \in Reach(A, s),
         NEW t \in SUBSET PluginIds, s \subseteq t, Closed(A, t)
  PROVE  q \in t
BY DEF Reach

\* The edges of the graph are the needs of plugins of the scope.
EdgesMatch == \A p, q \in PluginIds : Edge(p, q) <=> q \in stable_adjacency[p]

LEMMA Adjacency == stable_adjacency \in AdjacencyMaps
BY DEF stable_adjacency, AdjacencyMaps

\* Where plugins can be put in order there is no cycle.
LEMMA OrderedAcyclic ==
  ASSUME EdgesMatch, NEW o \in Orders, Valid(o)
  PROVE  Cyclic(stable_adjacency) = {}
<1>. DEFINE A == stable_adjacency
            N == Cardinality(PluginIds)
<1>0. A \in AdjacencyMaps /\ N \in Nat /\ DOMAIN o = 1 .. N /\ \A j \in 1 .. N : o[j] \in PluginIds
  BY Adjacency, ResolverAssumption, FS_CardinalityType DEF Orders
<1>. SUFFICES ASSUME NEW p \in PluginIds, p \in Reach(A, A[p]) PROVE FALSE
  BY DEF Cyclic
<1>1. PICK i \in 1 .. N : o[i] = p
  BY OrdersCover
<1>2. DEFINE t == {o[j] : j \in {k \in 1 .. N : k > i}}
<1>3. t \in SUBSET PluginIds
  BY <1>0
<1>4. ASSUME NEW k \in 1 .. N, k >= i, NEW q \in A[o[k]] PROVE q \in t
  <2>1. q \in PluginIds /\ o[k] \in PluginIds
    BY <1>0 DEF AdjacencyMaps
  <2>2. Edge(o[k], q)
    BY <2>1 DEF EdgesMatch
  <2>3. PICK j \in 1 .. N : o[j] = q
    BY <2>1, OrdersCover
  <2>4. k < j
    BY <2>2, <2>3, <1>0 DEF Valid
  <2>5. j > i
    BY <2>4, <1>4, <1>0
  <2>. QED BY <2>3, <2>5
<1>5. A[p] \subseteq t
  BY <1>1, <1>4, <1>0
<1>6. Closed(A, t)
  BY <1>4, <1>0 DEF Closed
<1>7. p \in t
  <2>. HIDE DEF t, A
  <2>. QED BY <1>0, <1>3, <1>5, <1>6, Reached
<1>. QED BY <1>1, <1>7, <1>0 DEF Orders

\* Plugins that all wait for one of them are on or behind a cycle.
LEMMA WaitingCyclic ==
  ASSUME NEW A \in AdjacencyMaps, Cyclic(A) = {}, NEW R \in SUBSET PluginIds,
         \A q \in R : \E p \in R : q \in A[p]
  PROVE  R = {}
<1>. DEFINE Behind(q) == {p \in PluginIds : q \in Reach(A, A[p])}
            Sizes == {Cardinality(Behind(q)) : q \in R}
<1>1. ASSUME NEW q PROVE IsFiniteSet(Behind(q)) /\ Cardinality(Behind(q)) \in Nat
  BY ResolverAssumption, FS_Subset, FS_CardinalityType
<1>2. ASSUME NEW p \in PluginIds, NEW q \in A[p]
      PROVE  Behind(p) \subseteq Behind(q) /\ p \in Behind(q)
  <2>0. q \in PluginIds
    BY DEF AdjacencyMaps
  <2>1. q \in Reach(A, A[p])
    BY <2>0 DEF Reach
  <2>2. ASSUME NEW r \in PluginIds, p \in Reach(A, A[r]) PROVE q \in Reach(A, A[r])
    BY <2>0, <2>2 DEF Reach, Closed
  <2>. QED BY <2>1, <2>2
<1>3. ASSUME NEW p \in PluginIds PROVE p \notin Behind(p)
  BY DEF Cyclic
<1>4. SUFFICES ASSUME R # {} PROVE FALSE
  OBVIOUS
<1>5. Sizes \in SUBSET Nat /\ Sizes # {}
  BY <1>1, <1>4
<1>6. PICK q \in R : \A p \in R : Cardinality(Behind(q)) <= Cardinality(Behind(p))
  <2>1. Least(Sizes) \in Sizes /\ \A y \in Sizes : Least(Sizes) <= y
    <3>. HIDE DEF Sizes
    <3>. QED BY <1>5, LeastOf
  <2>. HIDE DEF Behind
  <2>. QED BY <2>1
<1>7. PICK p \in R : q \in A[p]
  OBVIOUS
<1>8. Behind(p) \subseteq Behind(q) /\ p \in Behind(q) /\ p \notin Behind(p)
  BY <1>7, <1>2, <1>3
<1>. HIDE DEF Behind
<1>9. Cardinality(Behind(p)) <= Cardinality(Behind(q)) /\ Cardinality(Behind(p)) # Cardinality(Behind(q))
  BY <1>8, <1>1, FS_Subset
<1>. QED BY <1>9, <1>6, <1>1

\* A path without repetition along the edges
PathFrom(A, s, n, c) ==
    /\ n \in Nat \ {0} /\ c \in [1 .. n -> PluginIds] /\ c[1] = s
    /\ \A i \in 1 .. n - 1 : c[i + 1] \in A[c[i]]
    /\ \A i, j \in 1 .. n : c[i] = c[j] => i = j

\* A closed one, in the component of its start; After(c, s, n, i) is what follows c[i].
After(c, s, n, i) == IF i = n THEN s ELSE c[i + 1]
CycleOf(A, s, n, c) ==
    /\ PathFrom(A, s, n, c)
    /\ \A i \in 1 .. n : After(c, s, n, i) \in A[c[i]] \cap Component(A, s)

\* A plugin on a cycle is on one without repetition.
LEMMA PathBack ==
  ASSUME NEW A \in AdjacencyMaps, NEW s \in Cyclic(A)
  PROVE  \E n \in Nat : \E c : PathFrom(A, s, n, c) /\ s \in A[c[n]]
<1>. DEFINE T == {q \in PluginIds : \E n \in Nat : \E c : PathFrom(A, s, n, c) /\ q \in A[c[n]]}
<1>0. s \in PluginIds /\ s \in Reach(A, A[s])
  BY DEF Cyclic
<1>1. A[s] \subseteq T
  <2>. DEFINE one == [i \in 1 .. 1 |-> s]
  <2>1. PathFrom(A, s, 1, one) /\ one[1] = s
    BY <1>0 DEF PathFrom
  <2>. HIDE DEF one
  <2>. QED BY <2>1, <1>0 DEF AdjacencyMaps
<1>2. ASSUME NEW q \in T, NEW r \in A[q] PROVE r \in T
  <2>0. q \in PluginIds /\ r \in PluginIds
    BY DEF AdjacencyMaps
  <2>1. PICK n, c : n \in Nat /\ PathFrom(A, s, n, c) /\ q \in A[c[n]]
    OBVIOUS
  <2>2. CASE \E i \in 1 .. n : c[i] = q
    <3>1. PICK i \in 1 .. n : c[i] = q
      BY <2>2
    <3>. DEFINE d == [j \in 1 .. i |-> c[j]]
    <3>2. PathFrom(A, s, i, d) /\ d[i] = q
      BY <2>1, <3>1 DEF PathFrom
    <3>. HIDE DEF d
    <3>3. i \in Nat
      OBVIOUS
    <3>. QED BY <3>2, <3>3, <2>0
  <2>3. CASE \A i \in 1 .. n : c[i] # q
    <3>. DEFINE d == [j \in 1 .. n + 1 |-> IF j = n + 1 THEN q ELSE c[j]]
    <3>0. n \in Nat \ {0} /\ c \in [1 .. n -> PluginIds] /\ c[1] = s
          /\ (\A i \in 1 .. n - 1 : c[i + 1] \in A[c[i]])
          /\ (\A i, j \in 1 .. n : c[i] = c[j] => i = j)
      BY <2>1 DEF PathFrom
    <3>1. d \in [1 .. n + 1 -> PluginIds] /\ d[1] = s /\ d[n + 1] = q /\ \A j \in 1 .. n : d[j] = c[j]
      BY <3>0, <2>0
    <3>. HIDE DEF d
    <3>2. \A i \in 1 .. n : d[i + 1] \in A[d[i]]
      <4>. SUFFICES ASSUME NEW i \in 1 .. n PROVE d[i + 1] \in A[d[i]]
        OBVIOUS
      <4>1. CASE i = n
        BY <4>1, <3>1, <2>1
      <4>2. CASE i # n
        <5>1. i \in 1 .. n - 1 /\ i + 1 \in 1 .. n
          BY <4>2, <3>0
        <5>. QED BY <5>1, <3>0, <3>1
      <4>. QED BY <4>1, <4>2
    <3>3. \A i, j \in 1 .. n + 1 : d[i] = d[j] => i = j
      <4>. SUFFICES ASSUME NEW i \in 1 .. n + 1, NEW j \in 1 .. n + 1, d[i] = d[j] PROVE i = j
        OBVIOUS
      <4>1. (i = n + 1 \/ i \in 1 .. n) /\ (j = n + 1 \/ j \in 1 .. n)
        BY <3>0
      <4>. QED BY <4>1, <3>0, <3>1, <2>3
    <3>4. PathFrom(A, s, n + 1, d)
      <4>1. n + 1 \in Nat \ {0} /\ (n + 1) - 1 = n
        BY <3>0
      <4>. QED BY <4>1, <3>1, <3>2, <3>3 DEF PathFrom
    <3>5. n + 1 \in Nat
      BY <3>0
    <3>. QED BY <3>1, <3>4, <3>5, <2>0
  <2>. QED BY <2>2, <2>3
<1>3. Closed(A, T)
  <2>. HIDE DEF T
  <2>. QED BY <1>2 DEF Closed
<1>4. s \in T
  <2>1. T \in SUBSET PluginIds
    OBVIOUS
  <2>. HIDE DEF T
  <2>. QED BY <1>0, <1>1, <1>3, <2>1, Reached
<1>. QED BY <1>4

\* What is on a closed path is in one component.
LEMMA CycleExists ==
  ASSUME NEW A \in AdjacencyMaps, NEW s \in Cyclic(A)
  PROVE  \E n \in Nat : \E c : CycleOf(A, s, n, c)
<1>1. PICK n, c : n \in Nat /\ PathFrom(A, s, n, c) /\ s \in A[c[n]]
  BY PathBack
<1>2. n \in Nat \ {0} /\ c \in [1 .. n -> PluginIds] /\ c[1] = s
      /\ (\A i \in 1 .. n - 1 : c[i + 1] \in A[c[i]]) /\ s \in PluginIds
  BY <1>1 DEF PathFrom, Cyclic
<1>3. ASSUME NEW t \in SUBSET PluginIds, Closed(A, t), NEW i \in 1 .. n, c[i] \in t, NEW j \in 1 .. n, i <= j
      PROVE  c[j] \in t
  <2>. DEFINE B == {k \in 1 .. n : i <= k /\ c[k] \notin t}
  <2>1. SUFFICES ASSUME B # {} PROVE FALSE
    BY <1>3
  <2>2. B \in SUBSET Nat
    OBVIOUS
  <2>3. PICK k \in B : \A y \in B : k <= y
    <3>. HIDE DEF B
    <3>. QED BY <2>1, <2>2, LeastOf
  <2>4. k # i /\ k \in 1 .. n /\ i <= k /\ c[k] \notin t
    BY <1>3, <2>3
  <2>5. k - 1 \in 1 .. n - 1 /\ k - 1 \in 1 .. n /\ i <= k - 1 /\ ~ (k <= k - 1)
    BY <2>4, <1>2
  <2>6. c[k - 1] \in t
    BY <2>5, <2>3
  <2>7. c[(k - 1) + 1] \in A[c[k - 1]]
    BY <2>5, <1>2
  <2>8. (k - 1) + 1 = k
    BY <2>4
  <2>. QED BY <2>4, <2>6, <2>7, <2>8, <1>3 DEF Closed
<1>4. ASSUME NEW i \in 1 .. n PROVE c[i] \in Component(A, s)
  <2>0. 1 \in 1 .. n /\ n \in 1 .. n /\ 1 <= i /\ i <= n
    BY <1>2
  <2>1. c[i] \in Reach(A, {s})
    BY <2>0, <1>2, <1>3 DEF Reach
  <2>2. s \in Reach(A, {c[i]})
    <3>1. ASSUME NEW t \in SUBSET PluginIds, Closed(A, t), c[i] \in t PROVE s \in t
      <4>1. c[n] \in t
        BY <3>1, <2>0, <1>3
      <4>. QED BY <4>1, <3>1, <1>1 DEF Closed
    <3>. QED BY <3>1, <1>2 DEF Reach
  <2>. QED BY <2>1, <2>2, <1>2 DEF Component
<1>5. ASSUME NEW i \in 1 .. n PROVE After(c, s, n, i) \in A[c[i]] \cap Component(A, s)
  <2>1. CASE i = n
    <3>1. 1 \in 1 .. n
      BY <1>2
    <3>. QED BY <2>1, <3>1, <1>1, <1>2, <1>4 DEF After
  <2>2. CASE i # n
    <3>1. i \in 1 .. n - 1 /\ i + 1 \in 1 .. n
      BY <2>2, <1>2
    <3>. QED BY <3>1, <2>2, <1>2, <1>4 DEF After
  <2>. QED BY <2>1, <2>2
<1>. QED BY <1>1, <1>5 DEF CycleOf

-----------------------------------------------------------------------------
(* Bindings *)

ResolverTypeOK ==
    /\ descriptors \in [PluginIds -> Descriptors] /\ parent \in Declarations
    /\ phase \in {"check", "bind", "cycle", "order", "done"}

Checked == (\A p \in PluginIds : validate_for_scope(descriptors[p])) /\ ~DuplicateProvider

\* Whoever is bound is bound to a provider with the right major.
BoundTo(b) ==
    /\ b = <<b[1], b[2]>> /\ b[1] \in Needs
    /\ \E x \in Providers(b[1][2]) : x[1] = b[2] /\ x[2] = Major(b[1])

BindingsHold ==
    /\ \A b \in bound : BoundTo(b)
    /\ \A n \in absent : n \in Needs /\ ~Required(n) /\ Providers(n[2]) = {}
    /\ IsFiniteSet(bound) /\ Cardinality(bound) <= MAX_RESOLVED_EDGES

\* The requirements with a provider
Provided == {n \in Needs : Providers(n[2]) # {}}

LEMMA NeedsTyped ==
  ASSUME NEW n \in Needs
  PROVE  n = <<n[1], n[2]>> /\ n[1] \in PluginIds /\ n[2] \in Capabilities
BY DEF Needs

LEMMA ProvidedFinite == IsFiniteSet(Provided) /\ Cardinality(Provided) \in Nat
<1>1. IsFiniteSet(PluginIds \X Capabilities)
  BY ResolverAssumption, FS_Product
<1>2. Provided \in SUBSET (PluginIds \X Capabilities)
  BY DEF Provided, Needs
<1>. QED BY <1>1, <1>2, FS_Subset, FS_CardinalityType

\* One provider each
LEMMA OneProvider ==
  ASSUME Checked, NEW c \in Capabilities, NEW x \in Providers(c), NEW y \in Providers(c)
  PROVE  x = y
BY DEF Checked, DuplicateProvider

LEMMA BoundOnce ==
  ASSUME Checked, BindingsHold, NEW a \in bound, NEW b \in bound, a[1] = b[1]
  PROVE  a = b
<1>1. BoundTo(a) /\ BoundTo(b)
  BY DEF BindingsHold
<1>2. a[1][2] \in Capabilities
  BY <1>1, NeedsTyped DEF BoundTo
<1>3. PICK x \in Providers(a[1][2]) : x[1] = a[2]
  BY <1>1 DEF BoundTo
<1>4. PICK y \in Providers(a[1][2]) : y[1] = b[2]
  BY <1>1 DEF BoundTo
<1>5. x = y
  BY <1>2, OneProvider
<1>. QED BY <1>1, <1>3, <1>4, <1>5 DEF BoundTo

LEMMA BoundProvided ==
  ASSUME BindingsHold, NEW b \in bound
  PROVE  b[1] \in Provided
BY DEF BindingsHold, BoundTo, Provided

\* With the next requirement there are more than the limit.
LEMMA OverLimit ==
  ASSUME Checked, BindingsHold, NEW n \in Left, Providers(n[2]) # {},
         Cardinality(bound) + 1 > MAX_RESOLVED_EDGES
  PROVE  ~ (Cardinality(Provided) <= MAX_RESOLVED_EDGES)
<1>. DEFINE f == [b \in bound |-> b[1]]
            W == Provided \ {n}
<1>1. n \in Provided /\ \A b \in bound : b[1] # n
  BY DEF Left, Provided
<1>2. IsFiniteSet(W) /\ Cardinality(W) = Cardinality(Provided) - 1
  BY <1>1, ProvidedFinite, FS_RemoveElement
<1>3. f \in Injection(bound, W)
  <2>1. \A b \in bound : b[1] \in W
    BY <1>1, BoundProvided
  <2>2. \A a, b \in bound : a[1] = b[1] => a = b
    BY BoundOnce
  <2>. QED BY <2>1, <2>2 DEF Injection, IsInjective
<1>4. Cardinality(bound) <= Cardinality(W)
  <2>. HIDE DEF f, W
  <2>. QED BY <1>2, <1>3, FS_Injection
<1>5. Cardinality(bound) \in Nat
  BY FS_CardinalityType DEF BindingsHold
<1>. QED BY <1>2, <1>4, <1>5, ProvidedFinite, ResolverAssumption

\* When nothing is left every requirement is settled.
LEMMA AllSettled ==
  ASSUME Checked, BindingsHold, Left = {}, NEW n \in Needs
  PROVE  Settled(n, bound, absent)
<1>1. CASE n \in absent
  BY <1>1 DEF BindingsHold, Settled
<1>2. CASE n \notin absent
  <2>1. PICK b \in bound : b[1] = n
    BY <1>2 DEF Left
  <2>2. BoundTo(b)
    BY DEF BindingsHold
  <2>. QED BY <2>1, <2>2 DEF BoundTo, Settled
<1>. QED BY <1>1, <1>2

LEMMA WithinLimit ==
  ASSUME Checked, BindingsHold, Left = {}
  PROVE  Cardinality(Provided) <= MAX_RESOLVED_EDGES
<1>. DEFINE f == [b \in bound |-> b[1]]
<1>1. f \in Surjection(bound, Provided)
  <2>1. \A b \in bound : b[1] \in Provided
    BY BoundProvided
  <2>2. ASSUME NEW n \in Provided PROVE \E b \in bound : b[1] = n
    <3>1. n \in Needs /\ Providers(n[2]) # {} /\ n \notin absent
      BY DEF Provided, BindingsHold
    <3>. QED BY <3>1 DEF Left
  <2>. QED BY <2>1, <2>2 DEF Surjection
<1>2. Cardinality(Provided) <= Cardinality(bound)
  <2>. HIDE DEF f
  <2>. QED BY <1>1, FS_Surjection DEF BindingsHold
<1>3. Cardinality(bound) \in Nat
  BY FS_CardinalityType DEF BindingsHold
<1>. QED BY <1>2, <1>3, ProvidedFinite, ResolverAssumption DEF BindingsHold

\* What the requirements ask of their providers
LEMMA MajorsAgree ==
  ASSUME Checked, BindingsHold, Left = {}, NEW n \in Needs
  PROVE  IF Providers(n[2]) = {} THEN ~Required(n) ELSE \A x \in Providers(n[2]) : x[2] = Major(n)
<1>1. Settled(n, bound, absent)
  BY AllSettled
<1>2. n[2] \in Capabilities
  BY NeedsTyped
<1>. QED BY <1>1, <1>2, OneProvider DEF Settled

LEMMA EdgesAreBound ==
  ASSUME ResolverTypeOK, Checked, BindingsHold, Left = {}
  PROVE  EdgesMatch
<1>. SUFFICES ASSUME NEW p \in PluginIds, NEW q \in PluginIds
              PROVE  Edge(p, q) <=> q \in stable_adjacency[p]
  BY DEF EdgesMatch
<1>1. ASSUME Edge(p, q) PROVE q \in stable_adjacency[p]
  <2>1. PICK c \in Capabilities :
            /\ c \in DOMAIN descriptors[p].provides
            /\ c \in DOMAIN descriptors[q].requires \cup DOMAIN descriptors[q].optional
    BY <1>1 DEF Edge
  <2>2. <<q, c>> \in Needs /\ <<q, c>>[2] = c /\ <<q, c>>[1] = q
    BY <2>1 DEF Needs
  <2>3. <<p, descriptors[p].provides[c]>> \in Providers(c)
    BY <2>1 DEF Providers
  <2>4. Settled(<<q, c>>, bound, absent)
    BY <2>2, AllSettled
  <2>5. PICK x \in Providers(c) : <<<<q, c>>, x[1]>> \in bound
    BY <2>2, <2>3, <2>4 DEF Settled
  <2>6. x = <<p, descriptors[p].provides[c]>>
    BY <2>3, <2>5, OneProvider
  <2>7. <<<<q, c>>, p>> \in bound
    BY <2>5, <2>6
  <2>. QED BY <2>7 DEF stable_adjacency
<1>2. ASSUME q \in stable_adjacency[p] PROVE Edge(p, q)
  <2>1. PICK b \in bound : b[2] = p /\ b[1][1] = q
    BY <1>2 DEF stable_adjacency
  <2>2. BoundTo(b)
    BY DEF BindingsHold
  <2>3. b[1] \in Needs /\ \E x \in Providers(b[1][2]) : x[1] = p
    BY <2>1, <2>2 DEF BoundTo
  <2>4. b[1][2] \in Capabilities
        /\ b[1][2] \in DOMAIN descriptors[q].requires \cup DOMAIN descriptors[q].optional
    BY <2>1, <2>3, NeedsTyped DEF Needs
  <2>5. p # 0
    BY ResolverAssumption
  <2>6. b[1][2] \in DOMAIN descriptors[p].provides
    BY <2>3, <2>5 DEF Providers, Parent
  <2>. QED BY <2>4, <2>6 DEF Edge
<1>. QED BY <1>1, <1>2

LEMMA NextNeedLeft == Left # {} => NextNeed \in Left
<1>. SUFFICES ASSUME Left # {} PROVE NextNeed \in Left
  OBVIOUS
<1>. DEFINE P == {n[1] : n \in Left}
            C(p) == {n[2] : n \in {m \in Left : m[1] = p}}
<1>0. \A n \in Left : n = <<n[1], n[2]>> /\ n[1] \in Nat /\ n[2] \in Nat
  BY NeedsTyped, ResolverAssumption DEF Left
<1>1. P \in SUBSET Nat /\ P # {}
  BY <1>0
<1>2. Least(P) \in P
  <2>. HIDE DEF P
  <2>. QED BY <1>1, LeastOf
<1>3. C(Least(P)) \in SUBSET Nat /\ C(Least(P)) # {}
  BY <1>0, <1>2
<1>4. Least(C(Least(P))) \in C(Least(P))
  <2>. HIDE DEF P, C
  <2>. QED BY <1>3, LeastOf
<1>5. PICK n \in Left : n[1] = Least(P) /\ n[2] = Least(C(Least(P)))
  BY <1>4
<1>6. NextNeed = <<Least(P), Least(C(Least(P)))>>
  BY DEF NextNeed
<1>. HIDE DEF P, C
<1>. QED BY <1>0, <1>5, <1>6

-----------------------------------------------------------------------------
(* The search for a cycle *)

\* The path so far, and what is left of the neighbours of everyone on it
PathHolds ==
    /\ stack \in Seq([plugin : PluginIds, rest : SUBSET PluginIds]) /\ stack # << >>
    /\ stack[1].plugin = CycleStart
    /\ \A i \in 1 .. Len(stack) : stack[i].rest \subseteq stable_adjacency[stack[i].plugin]
    /\ \A i \in 1 .. Len(stack) - 1 : stack[i + 1].plugin \in stable_adjacency[stack[i].plugin]
    /\ \A i, j \in 1 .. Len(stack) : stack[i].plugin = stack[j].plugin => i = j

\* The search is on the first k of a closed path, and the next one was not tried.
Along(n, c, k) ==
    /\ k \in 1 .. n /\ k <= Len(stack)
    /\ \A i \in 1 .. k : stack[i].plugin = c[i]
    /\ After(c, CycleStart, n, k) \in stack[k].rest

CycleIn(n, c) == CycleOf(stable_adjacency, CycleStart, n, c)

CycleInv ==
    /\ Cyclic(stable_adjacency) # {} /\ PathHolds
    /\ \E n \in Nat : \E c : CycleIn(n, c) /\ \E k \in Nat : Along(n, c, k)

LEMMA CycleStartCyclic ==
  ASSUME Cyclic(stable_adjacency) # {}
  PROVE  CycleStart \in Cyclic(stable_adjacency) /\ CycleStart \in PluginIds
<1>1. Cyclic(stable_adjacency) \in SUBSET Nat
  BY ResolverAssumption DEF Cyclic
<1>2. CycleStart \in Cyclic(stable_adjacency)
  BY <1>1, LeastOf DEF CycleStart
<1>. QED BY <1>2 DEF Cyclic

LEMMA FrameTyped ==
  ASSUME NEW p \in PluginIds
  PROVE  /\ Frame(p) \in [plugin : PluginIds, rest : SUBSET PluginIds]
         /\ Frame(p).plugin = p
         /\ Frame(p).rest = stable_adjacency[p] \cap Component(stable_adjacency, CycleStart)
<1>1. stable_adjacency[p] \in SUBSET PluginIds
  BY Adjacency DEF AdjacencyMaps
<1>. QED BY <1>1 DEF Frame

\* The graph depends on the bindings only.
LEMMA GraphStays ==
  ASSUME bound' = bound
  PROVE  /\ stable_adjacency' = stable_adjacency /\ CycleStart' = CycleStart
         /\ \A n, c : CycleIn(n, c)' <=> CycleIn(n, c)
BY DEF stable_adjacency, CycleStart, CycleIn

LEMMA CycleStarts ==
  ASSUME Cyclic(stable_adjacency) # {}, bound' = bound, stack' = <<Frame(CycleStart)>>
  PROVE  CycleInv'
<1>1. CycleStart \in Cyclic(stable_adjacency) /\ CycleStart \in PluginIds
  BY CycleStartCyclic
<1>. DEFINE f == Frame(CycleStart)
<1>2. /\ f \in [plugin : PluginIds, rest : SUBSET PluginIds] /\ f.plugin = CycleStart
      /\ f.rest = stable_adjacency[CycleStart] \cap Component(stable_adjacency, CycleStart)
  BY <1>1, FrameTyped
<1>. HIDE DEF f
<1>3. stack' = <<f>>
  BY DEF f
<1>4. PICK n, c : n \in Nat /\ CycleIn(n, c)
  BY <1>1, CycleExists, Adjacency DEF CycleIn
<1>5. n \in Nat \ {0} /\ c[1] = CycleStart /\ 1 \in 1 .. n
      /\ After(c, CycleStart, n, 1) \in stable_adjacency[c[1]] \cap Component(stable_adjacency, CycleStart)
  BY <1>4 DEF CycleIn, CycleOf, PathFrom
<1>6. Along(n, c, 1)'
  BY <1>2, <1>3, <1>5, GraphStays DEF Along
<1>7. PathHolds'
  BY <1>2, <1>3, GraphStays DEF PathHolds
<1>8. CycleIn(n, c)' /\ (Cyclic(stable_adjacency) # {})'
  BY <1>4, GraphStays
<1>. QED BY <1>4, <1>6, <1>7, <1>8 DEF CycleInv

\* The neighbour is tried; when it is new it is looked at next.
Top == Len(stack)
Tried(q) == [stack EXCEPT ![Top].rest = @ \ {q}]

LEMMA TopTyped ==
  ASSUME PathHolds
  PROVE  /\ Top \in Nat \ {0} /\ Top \in 1 .. Top
         /\ \A i \in 1 .. Top : stack[i] \in [plugin : PluginIds, rest : SUBSET PluginIds]
<1>. DEFINE R == [plugin : PluginIds, rest : SUBSET PluginIds]
<1>1. stack \in Seq(R) /\ stack # << >>
  BY DEF PathHolds
<1>. HIDE DEF R
<1>2. Len(stack) \in Nat /\ Len(stack) # 0 /\ \A i \in 1 .. Len(stack) : stack[i] \in R
  BY <1>1, EmptySeq, LenProperties, ElementOfSeq
<1>. QED BY <1>2 DEF Top, R

LEMMA TriedIs ==
  ASSUME PathHolds, NEW q
  PROVE  /\ Tried(q) \in Seq([plugin : PluginIds, rest : SUBSET PluginIds]) /\ Len(Tried(q)) = Top
         /\ \A i \in 1 .. Top : /\ Tried(q)[i].plugin = stack[i].plugin
                                /\ Tried(q)[i].rest = IF i = Top THEN stack[i].rest \ {q} ELSE stack[i].rest
<1>1. Top \in Nat \ {0} /\ Top \in 1 .. Top
      /\ \A i \in 1 .. Top : stack[i] \in [plugin : PluginIds, rest : SUBSET PluginIds]
  BY TopTyped
<1>2. PICK g : g = [stack[Top] EXCEPT !.rest = @ \ {q}]
  OBVIOUS
<1>3. g \in [plugin : PluginIds, rest : SUBSET PluginIds] /\ g.plugin = stack[Top].plugin
      /\ g.rest = stack[Top].rest \ {q}
  BY <1>1, <1>2
<1>4. Tried(q) = [stack EXCEPT ![Top] = g]
  BY <1>2 DEF Tried
<1>5. stack \in Seq([plugin : PluginIds, rest : SUBSET PluginIds]) /\ Len(stack) = Top
  BY DEF PathHolds, Top
<1>6. /\ Tried(q) \in Seq([plugin : PluginIds, rest : SUBSET PluginIds]) /\ Len(Tried(q)) = Top
      /\ \A i \in 1 .. Top : Tried(q)[i] = IF i = Top THEN g ELSE stack[i]
  <2>. DEFINE R == [plugin : PluginIds, rest : SUBSET PluginIds]
  <2>1. g \in R /\ stack \in Seq(R)
    BY <1>3, <1>5
  <2>. HIDE DEF R
  <2>2. Tried(q) \in Seq(R) /\ Len(Tried(q)) = Top
        /\ \A i \in 1 .. Top : Tried(q)[i] = IF i = Top THEN g ELSE stack[i]
    BY <1>1, <2>1, <1>4, <1>5
  <2>. QED BY <2>2 DEF R
<1>. QED BY <1>1, <1>3, <1>6

LEMMA SkipNeighbour ==
  ASSUME PathHolds, NEW q, bound' = bound, stack' = Tried(q)
  PROVE  PathHolds'
<1>1. /\ stack' \in Seq([plugin : PluginIds, rest : SUBSET PluginIds]) /\ Len(stack') = Top
      /\ \A i \in 1 .. Top : /\ stack'[i].plugin = stack[i].plugin
                             /\ stack'[i].rest \subseteq stack[i].rest
  BY TriedIs
<1>2. Top \in Nat \ {0} /\ Len(stack) = Top
  BY TopTyped DEF Top
<1>3. stack' # << >>
  BY <1>1, <1>2
<1>4. stack'[1].plugin = CycleStart
  <2>1. 1 \in 1 .. Top
    BY <1>2
  <2>. QED BY <2>1, <1>1 DEF PathHolds
<1>5. \A i \in 1 .. Len(stack') : stack'[i].rest \subseteq stable_adjacency[stack'[i].plugin]
  BY <1>1, <1>2 DEF PathHolds
<1>6. \A i \in 1 .. Len(stack') - 1 : stack'[i + 1].plugin \in stable_adjacency[stack'[i].plugin]
  <2>. SUFFICES ASSUME NEW i \in 1 .. Top - 1 PROVE stack'[i + 1].plugin \in stable_adjacency[stack'[i].plugin]
    BY <1>1
  <2>1. i \in 1 .. Top /\ i + 1 \in 1 .. Top
    BY <1>2
  <2>. QED BY <2>1, <1>1, <1>2 DEF PathHolds
<1>7. \A i, j \in 1 .. Len(stack') : stack'[i].plugin = stack'[j].plugin => i = j
  BY <1>1, <1>2 DEF PathHolds
<1>. QED BY <1>1, <1>3, <1>4, <1>5, <1>6, <1>7, GraphStays DEF PathHolds

LEMMA AddNeighbour ==
  ASSUME PathHolds, NEW q \in stack[Top].rest, \A i \in 1 .. Top : stack[i].plugin # q,
         bound' = bound, stack' = Append(Tried(q), Frame(q))
  PROVE  PathHolds'
<1>. DEFINE R == [plugin : PluginIds, rest : SUBSET PluginIds]
<1>1. /\ Tried(q) \in Seq(R) /\ Len(Tried(q)) = Top
      /\ \A i \in 1 .. Top : /\ Tried(q)[i].plugin = stack[i].plugin
                             /\ Tried(q)[i].rest \subseteq stack[i].rest
  BY TriedIs
<1>2. Top \in Nat \ {0} /\ Len(stack) = Top /\ q \in PluginIds /\ Top \in 1 .. Top
  BY TopTyped DEF Top
<1>3. Frame(q) \in R /\ Frame(q).plugin = q /\ Frame(q).rest \subseteq stable_adjacency[q]
  BY <1>2, FrameTyped
<1>4. /\ stack' \in Seq(R) /\ Len(stack') = Top + 1 /\ stack'[Top + 1] = Frame(q)
      /\ \A i \in 1 .. Top : stack'[i] = Tried(q)[i]
  <2>. HIDE DEF R
  <2>. QED BY <1>1, <1>2, <1>3
<1>5. \A i \in 1 .. Top : stack'[i].plugin = stack[i].plugin /\ stack'[i].rest \subseteq stack[i].rest
  BY <1>1, <1>4
<1>6. q \in stable_adjacency[stack[Top].plugin]
  BY <1>2 DEF PathHolds
<1>7. ASSUME NEW i \in 1 .. Top + 1 PROVE stack'[i].rest \subseteq stable_adjacency[stack'[i].plugin]
  <2>1. CASE i = Top + 1
    BY <2>1, <1>3, <1>4
  <2>2. CASE i \in 1 .. Top
    <3>1. stack[i].rest \subseteq stable_adjacency[stack[i].plugin]
      BY <2>2, <1>2 DEF PathHolds
    <3>. QED BY <2>2, <3>1, <1>5
  <2>3. i = Top + 1 \/ i \in 1 .. Top
    BY <1>2
  <2>. QED BY <2>1, <2>2, <2>3
<1>8. ASSUME NEW i \in 1 .. Top PROVE stack'[i + 1].plugin \in stable_adjacency[stack'[i].plugin]
  <2>1. CASE i = Top
    BY <2>1, <1>3, <1>4, <1>5, <1>6
  <2>2. CASE i # Top
    <3>1. i \in 1 .. Top - 1 /\ i + 1 \in 1 .. Top
      BY <2>2, <1>2
    <3>. QED BY <3>1, <1>2, <1>5 DEF PathHolds
  <2>. QED BY <2>1, <2>2
<1>9. ASSUME NEW i \in 1 .. Top + 1, NEW j \in 1 .. Top + 1, stack'[i].plugin = stack'[j].plugin PROVE i = j
  <2>1. (i = Top + 1 \/ i \in 1 .. Top) /\ (j = Top + 1 \/ j \in 1 .. Top)
    BY <1>2
  <2>2. stack'[Top + 1].plugin = q
    BY <1>3, <1>4
  <2>3. CASE i \in 1 .. Top /\ j \in 1 .. Top
    BY <2>3, <1>9, <1>5, <1>2 DEF PathHolds
  <2>4. CASE i = Top + 1 /\ j \in 1 .. Top
    BY <2>4, <2>2, <1>9, <1>5
  <2>5. CASE j = Top + 1 /\ i \in 1 .. Top
    BY <2>5, <2>2, <1>9, <1>5
  <2>. QED BY <2>1, <2>3, <2>4, <2>5
<1>10. stack'[1].plugin = CycleStart /\ stack' # << >>
  <2>1. 1 \in 1 .. Top
    BY <1>2
  <2>. QED BY <2>1, <1>4, <1>5, <1>2 DEF PathHolds
<1>11. (Top + 1) - 1 = Top
  BY <1>2
<1>. HIDE DEF R
<1>12. /\ \A i \in 1 .. Len(stack') : stack'[i].rest \subseteq stable_adjacency[stack'[i].plugin]
       /\ \A i \in 1 .. Len(stack') - 1 : stack'[i + 1].plugin \in stable_adjacency[stack'[i].plugin]
       /\ \A i, j \in 1 .. Len(stack') : stack'[i].plugin = stack'[j].plugin => i = j
  BY <1>4, <1>7, <1>8, <1>9, <1>11
<1>. QED BY <1>4, <1>10, <1>12, GraphStays DEF PathHolds, R

\* A closed path the search was on is still ahead of it.
LEMMA StillAhead ==
  ASSUME PathHolds, NEW n \in Nat, NEW c, CycleIn(n, c), NEW k \in Nat, Along(n, c, k),
         bound' = bound, NEW q,
         \A i \in 1 .. Top : stack'[i].plugin = stack[i].plugin,
         \A i \in 1 .. Top : stack'[i].rest = IF i = Top THEN stack[i].rest \ {q} ELSE stack[i].rest,
         Len(stack') \in Nat, Top <= Len(stack'),
         k # Top \/ q # After(c, CycleStart, n, k)
  PROVE  Along(n, c, k)'
<1>1. Top \in Nat \ {0} /\ Len(stack) = Top
  BY TopTyped DEF Top
<1>2. k \in 1 .. n /\ k <= Top /\ k \in 1 .. Top /\ After(c, CycleStart, n, k) \in stack[k].rest
      /\ \A i \in 1 .. k : i \in 1 .. Top /\ stack[i].plugin = c[i]
  BY <1>1 DEF Along
<1>3. After(c, CycleStart, n, k) \in stack'[k].rest
  BY <1>2
<1>4. \A i \in 1 .. k : stack'[i].plugin = c[i]
  BY <1>2
<1>5. k <= Len(stack')
  BY <1>1, <1>2
<1>6. CycleStart' = CycleStart
  BY GraphStays
<1>. QED BY <1>2, <1>3, <1>4, <1>5, <1>6 DEF Along

LEMMA TryNeighbourStep ==
  ASSUME CycleInv, TryNeighbour, phase' = "cycle"
  PROVE  CycleInv'
<1>. DEFINE q == Least(stack[Top].rest)
            path == [i \in 1 .. Top |-> stack[i].plugin]
<1>0. PathHolds /\ bound' = bound /\ stack[Top].rest # {}
  BY DEF CycleInv, TryNeighbour, Top
<1>1. Top \in Nat \ {0} /\ Top \in 1 .. Top /\ stack[Top].rest \in SUBSET PluginIds
  BY <1>0, TopTyped
<1>2. q \in stack[Top].rest /\ q \in PluginIds
  BY <1>0, <1>1, LeastOf, ResolverAssumption
<1>3. q # CycleStart
      /\ \/ (\A i \in 1 .. Top : stack[i].plugin # q) /\ stack' = Append(Tried(q), Frame(q))
         \/ (\E i \in 1 .. Top : stack[i].plugin = q) /\ stack' = Tried(q)
  BY DEF TryNeighbour, Top, Tried
<1>. HIDE DEF q
<1>4. PathHolds'
  BY <1>0, <1>2, <1>3, SkipNeighbour, AddNeighbour
<1>5. PICK n, c : n \in Nat /\ CycleIn(n, c) /\ \E k \in Nat : Along(n, c, k)
  BY DEF CycleInv
<1>6. PICK k \in Nat : Along(n, c, k)
  BY <1>5
<1>7. /\ Tried(q) \in Seq([plugin : PluginIds, rest : SUBSET PluginIds]) /\ Len(Tried(q)) = Top
      /\ \A i \in 1 .. Top : /\ Tried(q)[i].plugin = stack[i].plugin
                             /\ Tried(q)[i].rest = IF i = Top THEN stack[i].rest \ {q} ELSE stack[i].rest
  BY <1>0, TriedIs
<1>8. /\ Frame(q) \in [plugin : PluginIds, rest : SUBSET PluginIds] /\ Frame(q).plugin = q
      /\ Frame(q).rest = stable_adjacency[q] \cap Component(stable_adjacency, CycleStart)
  BY <1>2, FrameTyped
<1>9. /\ Len(stack') \in Nat /\ Top <= Len(stack')
      /\ \A i \in 1 .. Top : stack'[i] = Tried(q)[i]
      /\ stack' = Append(Tried(q), Frame(q)) => Len(stack') = Top + 1 /\ stack'[Top + 1] = Frame(q)
  <2>. DEFINE R == [plugin : PluginIds, rest : SUBSET PluginIds]
  <2>1. Tried(q) \in Seq(R) /\ Frame(q) \in R
    BY <1>7, <1>8
  <2>. HIDE DEF R
  <2>. QED BY <2>1, <1>1, <1>3, <1>7
<1>10. /\ \A i \in 1 .. Top : stack'[i].plugin = stack[i].plugin
       /\ \A i \in 1 .. Top : stack'[i].rest = IF i = Top THEN stack[i].rest \ {q} ELSE stack[i].rest
  BY <1>7, <1>9
<1>11. \E m \in Nat : Along(n, c, m)'
  <2>1. CASE k # Top \/ q # After(c, CycleStart, n, k)
    <3>1. Along(n, c, k)'
      BY <2>1, <1>0, <1>5, <1>6, <1>9, <1>10, StillAhead
    <3>. QED BY <3>1
  <2>2. CASE k = Top /\ q = After(c, CycleStart, n, k)
    <3>1. /\ k \in 1 .. n /\ n \in Nat \ {0} /\ \A i \in 1 .. k : stack[i].plugin = c[i]
          /\ \A i, j \in 1 .. n : c[i] = c[j] => i = j
          /\ \A i \in 1 .. n : After(c, CycleStart, n, i)
                                  \in stable_adjacency[c[i]] \cap Component(stable_adjacency, CycleStart)
      BY <1>5, <1>6 DEF Along, CycleIn, CycleOf, PathFrom
    <3>2. k # n /\ q = c[k + 1]
      BY <2>2, <1>3 DEF After
    <3>3. k + 1 \in 1 .. n /\ k + 1 \in Nat /\ k <= n /\ k \in Nat /\ \A i \in 1 .. k : i \in 1 .. n /\ i # k + 1
      BY <3>1, <3>2
    <3>4. \A i \in 1 .. Top : stack[i].plugin # q
      BY <3>1, <3>2, <3>3, <2>2
    <3>5. stack' = Append(Tried(q), Frame(q))
      BY <3>4, <1>3
    <3>6. Len(stack') = k + 1 /\ stack'[k + 1] = Frame(q)
      BY <3>5, <1>9, <2>2
    <3>7. ASSUME NEW i \in 1 .. k + 1 PROVE stack'[i].plugin = c[i]
      <4>1. CASE i = k + 1
        BY <4>1, <3>2, <3>6, <1>8
      <4>2. CASE i \in 1 .. k
        BY <4>2, <3>1, <1>10, <2>2
      <4>. QED BY <4>1, <4>2, <3>3
    <3>8. After(c, CycleStart, n, k + 1) \in stack'[k + 1].rest
      BY <3>1, <3>2, <3>3, <3>6, <1>8
    <3>9. k + 1 <= Len(stack')
      BY <3>3, <3>6
    <3>10. CycleStart' = CycleStart
      BY <1>0, GraphStays
    <3>11. Along(n, c, k + 1)'
      BY <3>3, <3>7, <3>8, <3>9, <3>10 DEF Along
    <3>. QED BY <3>3, <3>11
  <2>. QED BY <2>1, <2>2
<1>12. CycleIn(n, c)' /\ (Cyclic(stable_adjacency) # {})'
  BY <1>0, <1>5, GraphStays DEF CycleInv
<1>. QED BY <1>4, <1>5, <1>11, <1>12 DEF CycleInv

\* The first call of find_closed_path does not return without a path.
LEMMA GiveUpStep ==
  ASSUME CycleInv, GiveUp
  PROVE  CycleInv' /\ phase' = "cycle"
<1>0. PathHolds /\ bound' = bound /\ stack[Top].rest = {} /\ stack' = SubSeq(stack, 1, Top - 1)
  BY DEF CycleInv, GiveUp, Top
<1>1. Top \in Nat \ {0} /\ Top \in 1 .. Top /\ Len(stack) = Top
  BY <1>0, TopTyped DEF Top
<1>5. PICK n, c : n \in Nat /\ CycleIn(n, c) /\ \E k \in Nat : Along(n, c, k)
  BY DEF CycleInv
<1>6. PICK k \in Nat : Along(n, c, k)
  BY <1>5
<1>7. /\ k \in 1 .. n /\ k <= Top /\ After(c, CycleStart, n, k) \in stack[k].rest
      /\ \A i \in 1 .. k : stack[i].plugin = c[i]
  BY <1>1, <1>6 DEF Along
<1>8. k # Top
  BY <1>0, <1>7
<1>9. Top # 1 /\ k <= Top - 1 /\ k \in 1 .. Top - 1 /\ Top - 1 \in Nat /\ 1 \in 1 .. Top - 1
  BY <1>1, <1>7, <1>8
<1>10. /\ stack' \in Seq([plugin : PluginIds, rest : SUBSET PluginIds])
       /\ Len(stack') = Top - 1 /\ \A i \in 1 .. Top - 1 : stack'[i] = stack[i]
  <2>. DEFINE R == [plugin : PluginIds, rest : SUBSET PluginIds]
  <2>1. stack \in Seq(R)
    BY <1>0 DEF PathHolds
  <2>. HIDE DEF R
  <2>2. stack' \in Seq(R) /\ Len(stack') = Top - 1 /\ \A i \in 1 .. Top - 1 : stack'[i] = stack[i]
    BY <2>1, <1>0, <1>1, <1>9, SubSeqProperties
  <2>. QED BY <2>2 DEF R
<1>11. stack' # << >>
  BY <1>9, <1>10
<1>12. PathHolds'
  <2>1. \A i \in 1 .. Top - 1 : i \in 1 .. Top
    BY <1>1
  <2>2. \A i \in 1 .. (Top - 1) - 1 : i \in 1 .. Top - 1 /\ i + 1 \in 1 .. Top - 1
    BY <1>1
  <2>3. stack'[1].plugin = CycleStart
    BY <1>0, <1>9, <1>10 DEF PathHolds
  <2>4. \A i \in 1 .. Len(stack') : stack'[i].rest \subseteq stable_adjacency[stack'[i].plugin]
    BY <1>0, <1>1, <1>10, <2>1 DEF PathHolds
  <2>5. \A i \in 1 .. Len(stack') - 1 : stack'[i + 1].plugin \in stable_adjacency[stack'[i].plugin]
    <3>. SUFFICES ASSUME NEW i \in 1 .. (Top - 1) - 1
                  PROVE  stack'[i + 1].plugin \in stable_adjacency[stack'[i].plugin]
      BY <1>10
    <3>1. stack'[i + 1] = stack[i + 1] /\ stack'[i] = stack[i] /\ i \in 1 .. Len(stack) - 1
      BY <2>2, <1>1, <1>10
    <3>. QED BY <3>1, <1>0 DEF PathHolds
  <2>6. \A i, j \in 1 .. Len(stack') : stack'[i].plugin = stack'[j].plugin => i = j
    BY <1>0, <1>1, <1>10, <2>1 DEF PathHolds
  <2>. QED BY <1>0, <1>10, <1>11, <2>3, <2>4, <2>5, <2>6, GraphStays DEF PathHolds
<1>13. Along(n, c, k)'
  <2>1. \A i \in 1 .. k : i \in 1 .. Top - 1
    BY <1>9
  <2>2. After(c, CycleStart, n, k) \in stack'[k].rest /\ \A i \in 1 .. k : stack'[i].plugin = c[i]
    BY <2>1, <1>7, <1>9, <1>10
  <2>3. CycleStart' = CycleStart
    BY <1>0, GraphStays
  <2>4. k <= Len(stack')
    BY <1>9, <1>10
  <2>. QED BY <1>7, <2>2, <2>3, <2>4 DEF Along
<1>14. CycleIn(n, c)' /\ (Cyclic(stable_adjacency) # {})'
  BY <1>0, <1>5, GraphStays DEF CycleInv
<1>15. phase' = "cycle"
  BY <1>1, <1>9 DEF GiveUp
<1>. QED BY <1>5, <1>12, <1>13, <1>14, <1>15 DEF CycleInv

\* The path that is reported is closed.
LEMMA CycleFound ==
  ASSUME EdgesMatch, CycleInv, TryNeighbour, phase' # "cycle"
  PROVE  /\ plan'.status = "DependencyCycle" /\ DOMAIN plan' = {"status", "path"}
         /\ ClosedPath(plan'.path) /\ \A o \in Orders : ~Valid(o)
<1>. DEFINE q == Least(stack[Top].rest)
            path == [i \in 1 .. Top |-> stack[i].plugin]
<1>0. PathHolds /\ bound' = bound /\ stack[Top].rest # {} /\ phase = "cycle"
  BY DEF CycleInv, TryNeighbour, Top
<1>1. Top \in Nat \ {0} /\ Top \in 1 .. Top /\ stack[Top].rest \in SUBSET PluginIds /\ Len(stack) = Top
      /\ \A i \in 1 .. Top : stack[i].plugin \in PluginIds
  BY <1>0, TopTyped DEF Top
<1>2. q \in stack[Top].rest /\ q \in PluginIds
  BY <1>0, <1>1, LeastOf, ResolverAssumption
<1>3. q = CycleStart /\ plan' = [status |-> "DependencyCycle", path |-> Append(path, q)]
  BY <1>0 DEF TryNeighbour, Top
<1>4. path \in Seq(PluginIds) /\ Len(path) = Top /\ \A i \in 1 .. Top : path[i] = stack[i].plugin
  BY <1>1
<1>. HIDE DEF q, path
<1>5. /\ Len(Append(path, q)) = Top + 1 /\ Append(path, q)[Top + 1] = q
      /\ \A i \in 1 .. Top : Append(path, q)[i] = stack[i].plugin
  BY <1>1, <1>2, <1>4
<1>6. q \in stable_adjacency[stack[Top].plugin]
  BY <1>0, <1>1, <1>2 DEF PathHolds
<1>7. ASSUME NEW i \in 1 .. Top PROVE Edge(Append(path, q)[i], Append(path, q)[i + 1])
  <2>1. CASE i = Top
    BY <2>1, <1>1, <1>2, <1>5, <1>6 DEF EdgesMatch
  <2>2. CASE i # Top
    <3>1. i \in 1 .. Top - 1 /\ i + 1 \in 1 .. Top
      BY <2>2, <1>1
    <3>2. stack[i + 1].plugin \in stable_adjacency[stack[i].plugin]
      BY <3>1, <1>0, <1>1 DEF PathHolds
    <3>. QED BY <3>1, <3>2, <1>1, <1>5 DEF EdgesMatch
  <2>. QED BY <2>1, <2>2
<1>8. ClosedPath(Append(path, q))
  <2>1. Append(path, q)[1] = q
    <3>1. 1 \in 1 .. Top
      BY <1>1
    <3>. QED BY <3>1, <1>0, <1>3, <1>5 DEF PathHolds
  <2>2. \A i, j \in 1 .. Top : Append(path, q)[i] = Append(path, q)[j] => i = j
    BY <1>0, <1>1, <1>5 DEF PathHolds
  <2>3. (Top + 1) - 1 = Top /\ Top + 1 > 1
    BY <1>1
  <2>. QED BY <2>1, <2>2, <2>3, <1>5, <1>7 DEF ClosedPath
<1>9. \A o \in Orders : ~Valid(o)
  BY OrderedAcyclic DEF CycleInv
<1>10. plan'.status = "DependencyCycle" /\ DOMAIN plan' = {"status", "path"} /\ plan'.path = Append(path, q)
  BY <1>3
<1>. QED BY <1>8, <1>9, <1>10

-----------------------------------------------------------------------------
(* The order *)

Preds(A, q) == {p \in PluginIds : q \in A[p]}
Placed(r, k) == {r[i] : i \in 1 .. k}

\* q can come after the first k of r: it is not among them, whom it needs is.
Free(A, r, q, k) == q \notin Placed(r, k) /\ Preds(A, q) \subseteq Placed(r, k)

\* Everyone on it came when whom it needs was there, the least who could.
LeastFirst(A, r) ==
    \A j \in 1 .. Len(r) :
        Free(A, r, r[j], j - 1) /\ \A q \in PluginIds : Free(A, r, q, j - 1) => r[j] <= q

\* The degrees and who is ready after the plugins of r
Remaining(A, r) == [q \in PluginIds |-> Cardinality(Preds(A, q) \ Placed(r, Len(r)))]
FreeAfter(A, r) == {q \in PluginIds : Free(A, r, q, Len(r))}

OrderInv ==
    /\ Cyclic(stable_adjacency) = {} /\ order \in Seq(PluginIds)
    /\ LeastFirst(stable_adjacency, order)
    /\ degree = Remaining(stable_adjacency, order)
    /\ ready = FreeAfter(stable_adjacency, order)

LEMMA PredsFinite ==
  ASSUME NEW A, NEW q, NEW X
  PROVE  /\ IsFiniteSet(Preds(A, q) \ X) /\ Cardinality(Preds(A, q) \ X) \in Nat
         /\ Cardinality(Preds(A, q) \ X) = 0 <=> Preds(A, q) \subseteq X
<1>1. Preds(A, q) \ X \in SUBSET PluginIds
  BY DEF Preds
<1>2. IsFiniteSet(Preds(A, q) \ X)
  BY <1>1, ResolverAssumption, FS_Subset
<1>. QED BY <1>2, FS_CardinalityType, FS_EmptySet

LEMMA OrderStarts ==
  ASSUME Cyclic(stable_adjacency) = {}, StartOrder, bound' = bound
  PROVE  OrderInv'
<1>. DEFINE A == stable_adjacency
<1>1. stable_adjacency' = A
  BY GraphStays
<1>2. order' = << >> /\ Len(<< >>) = 0 /\ << >> \in Seq(PluginIds)
  BY DEF StartOrder
<1>3. Placed(<< >>, Len(<< >>)) = {}
  BY DEF Placed
<1>4. \A q \in PluginIds : Preds(A, q) \ {} = Preds(A, q)
  OBVIOUS
<1>5. degree' = [q \in PluginIds |-> Cardinality(Preds(A, q))]
  BY DEF StartOrder, InDegrees, Preds
<1>6. degree' = Remaining(A, << >>)
  BY <1>3, <1>4, <1>5 DEF Remaining
<1>7. ready' = {q \in PluginIds : Cardinality(Preds(A, q)) = 0}
  BY DEF StartOrder, InDegrees, Preds
<1>8. \A q \in PluginIds : (Cardinality(Preds(A, q)) = 0) <=> Preds(A, q) \subseteq {}
  BY <1>4, PredsFinite
<1>9. \A q \in PluginIds : Free(A, << >>, q, Len(<< >>)) <=> Preds(A, q) \subseteq {}
  BY <1>3 DEF Free
<1>10. ready' = FreeAfter(A, << >>)
  BY <1>7, <1>8, <1>9 DEF FreeAfter
<1>11. LeastFirst(A, << >>)
  BY <1>2 DEF LeastFirst
<1>. QED BY <1>1, <1>2, <1>6, <1>10, <1>11 DEF OrderInv

\* What was placed is placed.
LEMMA PlacedAppend ==
  ASSUME NEW r \in Seq(PluginIds), NEW p \in PluginIds
  PROVE  /\ Len(Append(r, p)) = Len(r) + 1 /\ Append(r, p)[Len(r) + 1] = p
         /\ \A i \in 1 .. Len(r) : Append(r, p)[i] = r[i]
         /\ \A k \in 0 .. Len(r) : Placed(Append(r, p), k) = Placed(r, k)
         /\ Placed(Append(r, p), Len(r) + 1) = Placed(r, Len(r)) \cup {p}
<1>1. /\ Len(Append(r, p)) = Len(r) + 1 /\ Append(r, p)[Len(r) + 1] = p /\ Len(r) \in Nat
      /\ \A i \in 1 .. Len(r) : Append(r, p)[i] = r[i]
  OBVIOUS
<1>2. ASSUME NEW k \in 0 .. Len(r) PROVE Placed(Append(r, p), k) = Placed(r, k)
  <2>1. \A i \in 1 .. k : Append(r, p)[i] = r[i]
    BY <1>1
  <2>. QED BY <2>1 DEF Placed
<1>3. Placed(Append(r, p), Len(r) + 1) = Placed(r, Len(r)) \cup {p}
  <2>1. \A i \in 1 .. Len(r) + 1 : i = Len(r) + 1 \/ i \in 1 .. Len(r)
    BY <1>1
  <2>2. \A i \in 1 .. Len(r) : i \in 1 .. Len(r) + 1
    BY <1>1
  <2>3. Len(r) + 1 \in 1 .. Len(r) + 1
    BY <1>1
  <2>. DEFINE s == Append(r, p)
              m == Len(r)
              e == Len(r) + 1
  <2>4. /\ \A i \in 1 .. e : i = e \/ i \in 1 .. m
        /\ (\A i \in 1 .. m : i \in 1 .. e) /\ e \in 1 .. e /\ s[e] = p /\ \A i \in 1 .. m : s[i] = r[i]
    BY <1>1, <2>1, <2>2, <2>3
  <2>. HIDE DEF s, m, e
  <2>5. {s[i] : i \in 1 .. e} = {r[i] : i \in 1 .. m} \cup {p}
    BY <2>4
  <2>. QED BY <2>5 DEF Placed, s, m, e
<1>. QED BY <1>1, <1>2, <1>3

\* Whoever is placed came after whom it needs.
LEMMA NeedsPlaced ==
  ASSUME NEW A \in AdjacencyMaps, NEW r \in Seq(PluginIds), LeastFirst(A, r),
         NEW q \in Placed(r, Len(r))
  PROVE  Preds(A, q) \subseteq Placed(r, Len(r))
<1>1. PICK j \in 1 .. Len(r) : r[j] = q
  BY DEF Placed
<1>2. Preds(A, q) \subseteq Placed(r, j - 1)
  BY <1>1 DEF LeastFirst, Free
<1>3. \A i \in 1 .. j - 1 : i \in 1 .. Len(r)
  OBVIOUS
<1>. QED BY <1>2, <1>3 DEF Placed

LEMMA FreeStep ==
  ASSUME NEW A \in AdjacencyMaps, NEW r \in Seq(PluginIds), LeastFirst(A, r), NEW p \in FreeAfter(A, r)
  PROVE  LET s == Append(r, p)
             d == [q \in PluginIds |-> IF q \in A[p] THEN Remaining(A, r)[q] - 1 ELSE Remaining(A, r)[q]]
         IN  /\ d = Remaining(A, s)
             /\ (FreeAfter(A, r) \ {p}) \cup {q \in A[p] : d[q] = 0} = FreeAfter(A, s)
<1>. DEFINE s == Append(r, p)
            d == [q \in PluginIds |-> IF q \in A[p] THEN Remaining(A, r)[q] - 1 ELSE Remaining(A, r)[q]]
            X == Placed(r, Len(r))
<1>1. p \in PluginIds /\ p \notin X /\ Preds(A, p) \subseteq X /\ A[p] \in SUBSET PluginIds
  BY DEF FreeAfter, Free, AdjacencyMaps
<1>2. Placed(s, Len(s)) = X \cup {p}
  BY <1>1, PlacedAppend
<1>. HIDE DEF X
<1>3. ASSUME NEW q \in PluginIds PROVE d[q] = Cardinality(Preds(A, q) \ (X \cup {p}))
  <2>1. Remaining(A, r)[q] = Cardinality(Preds(A, q) \ X)
    BY DEF Remaining, X
  <2>2. Preds(A, q) \ (X \cup {p}) = (Preds(A, q) \ X) \ {p}
    OBVIOUS
  <2>3. p \in Preds(A, q) \ X <=> q \in A[p]
    BY <1>1 DEF Preds
  <2>4. Cardinality((Preds(A, q) \ X) \ {p})
           = IF p \in Preds(A, q) \ X THEN Cardinality(Preds(A, q) \ X) - 1 ELSE Cardinality(Preds(A, q) \ X)
    BY PredsFinite, FS_RemoveElement
  <2>. QED BY <2>1, <2>2, <2>3, <2>4
<1>4. d = Remaining(A, s)
  <2>1. Remaining(A, s) = [q \in PluginIds |-> Cardinality(Preds(A, q) \ (X \cup {p}))]
    BY <1>2 DEF Remaining
  <2>. QED BY <1>3, <2>1
<1>5. \A q \in PluginIds : d[q] = 0 <=> Preds(A, q) \subseteq X \cup {p}
  BY <1>3, PredsFinite
<1>6. FreeAfter(A, s) = {q \in PluginIds : q \notin X \cup {p} /\ Preds(A, q) \subseteq X \cup {p}}
  BY <1>2 DEF FreeAfter, Free
<1>7. FreeAfter(A, r) = {q \in PluginIds : q \notin X /\ Preds(A, q) \subseteq X}
  BY DEF FreeAfter, Free, X
<1>8. \A q \in PluginIds : q \in A[p] <=> p \in Preds(A, q)
  BY <1>1 DEF Preds
<1>9. \A q \in X : Preds(A, q) \subseteq X
  BY NeedsPlaced DEF X
<1>. HIDE DEF d, s
<1>10. (FreeAfter(A, r) \ {p}) \cup {q \in A[p] : d[q] = 0} = FreeAfter(A, s)
  BY <1>1, <1>5, <1>6, <1>7, <1>8, <1>9
<1>. QED BY <1>4, <1>10 DEF s, d

LEMMA LeastFirstStep ==
  ASSUME NEW A \in AdjacencyMaps, NEW r \in Seq(PluginIds), LeastFirst(A, r), FreeAfter(A, r) # {}
  PROVE  LeastFirst(A, Append(r, Least(FreeAfter(A, r))))
<1>. DEFINE p == Least(FreeAfter(A, r))
            s == Append(r, p)
<1>1. p \in FreeAfter(A, r) /\ \A q \in FreeAfter(A, r) : p <= q
  <2>1. FreeAfter(A, r) \in SUBSET Nat
    BY ResolverAssumption DEF FreeAfter
  <2>. QED BY <2>1, LeastOf
<1>2. p \in PluginIds /\ Free(A, r, p, Len(r)) /\ \A q \in PluginIds : Free(A, r, q, Len(r)) => p <= q
  BY <1>1 DEF FreeAfter
<1>. HIDE DEF p
<1>3. /\ Len(s) = Len(r) + 1 /\ s[Len(r) + 1] = p /\ Len(r) \in Nat
      /\ \A i \in 1 .. Len(r) : s[i] = r[i]
      /\ \A k \in 0 .. Len(r) : Placed(s, k) = Placed(r, k)
  BY <1>2, PlacedAppend
<1>. HIDE DEF s
<1>4. \A k \in 0 .. Len(r) : \A q : Free(A, s, q, k) <=> Free(A, r, q, k)
  BY <1>3 DEF Free
<1>5. ASSUME NEW j \in 1 .. Len(s)
      PROVE  Free(A, s, s[j], j - 1) /\ \A q \in PluginIds : Free(A, s, q, j - 1) => s[j] <= q
  <2>1. j - 1 \in 0 .. Len(r)
    BY <1>3
  <2>2. CASE j = Len(r) + 1
    <3>1. j - 1 = Len(r)
      BY <2>2, <1>3
    <3>. QED BY <3>1, <2>1, <2>2, <1>2, <1>3, <1>4
  <2>3. CASE j \in 1 .. Len(r)
    <3>1. Free(A, r, r[j], j - 1) /\ \A q \in PluginIds : Free(A, r, q, j - 1) => r[j] <= q
      BY <2>3 DEF LeastFirst
    <3>. QED BY <3>1, <2>1, <2>3, <1>3, <1>4
  <2>4. j = Len(r) + 1 \/ j \in 1 .. Len(r)
    BY <1>3
  <2>. QED BY <2>2, <2>3, <2>4
<1>6. LeastFirst(A, s)
  BY <1>5 DEF LeastFirst
<1>. QED BY <1>6 DEF s, p

LEMMA PopReadyStep ==
  ASSUME OrderInv, PopReady
  PROVE  OrderInv'
<1>. DEFINE A == stable_adjacency
            p == Least(FreeAfter(A, order))
<1>1. A \in AdjacencyMaps /\ order \in Seq(PluginIds) /\ LeastFirst(A, order) /\ Cyclic(A) = {}
      /\ degree = Remaining(A, order) /\ ready = FreeAfter(A, order) /\ ready # {} /\ bound' = bound
  BY Adjacency DEF OrderInv, PopReady
<1>2. p \in FreeAfter(A, order) /\ p \in PluginIds
  <2>1. FreeAfter(A, order) \in SUBSET Nat
    BY ResolverAssumption DEF FreeAfter
  <2>. QED BY <2>1, <1>1, LeastOf DEF FreeAfter
<1>3. /\ order' = Append(order, p)
      /\ degree' = [q \in PluginIds |-> IF q \in A[p] THEN Remaining(A, order)[q] - 1 ELSE Remaining(A, order)[q]]
      /\ ready' = (FreeAfter(A, order) \ {p}) \cup {q \in A[p] : degree'[q] = 0}
  BY <1>1 DEF PopReady
<1>4. degree' = Remaining(A, order') /\ ready' = FreeAfter(A, order')
  <2>. DEFINE d == [q \in PluginIds |-> IF q \in A[p] THEN Remaining(A, order)[q] - 1 ELSE Remaining(A, order)[q]]
  <2>. HIDE DEF p, A
  <2>1. /\ d = Remaining(A, Append(order, p))
        /\ (FreeAfter(A, order) \ {p}) \cup {q \in A[p] : d[q] = 0} = FreeAfter(A, Append(order, p))
    BY <1>1, <1>2, FreeStep
  <2>2. degree' = d
    BY <1>3
  <2>. HIDE DEF d
  <2>. QED BY <1>3, <2>1, <2>2
<1>5. LeastFirst(A, order') /\ order' \in Seq(PluginIds)
  <2>1. LeastFirst(A, Append(order, p))
    BY <1>1, LeastFirstStep
  <2>. HIDE DEF p, A
  <2>. QED BY <2>1, <1>1, <1>2, <1>3
<1>6. stable_adjacency' = A
  BY <1>1, GraphStays
<1>. HIDE DEF A
<1>. QED BY <1>1, <1>4, <1>5, <1>6 DEF OrderInv

\* When nobody is ready everyone is placed.
LEMMA AllPlaced ==
  ASSUME NEW A \in AdjacencyMaps, Cyclic(A) = {}, NEW r \in Seq(PluginIds), FreeAfter(A, r) = {}
  PROVE  PluginIds \subseteq Placed(r, Len(r))
<1>. DEFINE R == PluginIds \ Placed(r, Len(r))
<1>1. \A q \in R : \E p \in R : q \in A[p]
  BY DEF FreeAfter, Free, Preds
<1>2. R \in SUBSET PluginIds
  OBVIOUS
<1>3. R = {}
  <2>. HIDE DEF R
  <2>. QED BY <1>1, <1>2, WaitingCyclic
<1>. QED BY <1>3

LEMMA LeastFirstInjective ==
  ASSUME NEW A \in AdjacencyMaps, NEW r \in Seq(PluginIds), LeastFirst(A, r),
         NEW i \in 1 .. Len(r), NEW j \in 1 .. Len(r), r[i] = r[j]
  PROVE  i = j
<1>1. ASSUME NEW a \in 1 .. Len(r), NEW b \in 1 .. Len(r), r[a] = r[b], a < b PROVE FALSE
  <2>1. r[b] \notin Placed(r, b - 1)
    BY DEF LeastFirst, Free
  <2>2. a \in 1 .. b - 1
    BY <1>1
  <2>. QED BY <1>1, <2>1, <2>2 DEF Placed
<1>. QED BY <1>1

LEMMA OrderIsCanonical ==
  ASSUME EdgesMatch, OrderInv, ready = {}
  PROVE  CanonicalOrder(order)
<1>. DEFINE A == stable_adjacency
            N == Cardinality(PluginIds)
<1>1. A \in AdjacencyMaps /\ order \in Seq(PluginIds) /\ LeastFirst(A, order) /\ Cyclic(A) = {}
      /\ FreeAfter(A, order) = {}
  BY Adjacency DEF OrderInv
<1>2. PluginIds \subseteq Placed(order, Len(order))
  <2>. HIDE DEF A
  <2>. QED BY <1>1, AllPlaced
<1>3. \A i, j \in 1 .. Len(order) : order[i] = order[j] => i = j
  <2>. HIDE DEF A
  <2>. QED BY <1>1, LeastFirstInjective
<1>4. Len(order) \in Nat /\ order \in [1 .. Len(order) -> PluginIds]
  BY <1>1
<1>5. order \in Injection(1 .. Len(order), PluginIds) /\ order \in Surjection(1 .. Len(order), PluginIds)
  BY <1>2, <1>3, <1>4 DEF Injection, IsInjective, Surjection, Placed
<1>6. N = Len(order)
  <2>1. Cardinality(1 .. Len(order)) = Len(order)
    BY <1>4, FS_Interval
  <2>. QED BY <2>1, <1>5, FS_Injection, ResolverAssumption
<1>7. order \in Orders
  <2>1. DOMAIN order = 1 .. Len(order)
    BY <1>4
  <2>. QED BY <2>1, <1>3, <1>4, <1>6 DEF Orders
<1>8. ASSUME NEW o \in Orders PROVE o \in [1 .. N -> PluginIds] /\ DOMAIN o = 1 .. N /\ N \in Nat
                                    /\ \A i, j \in 1 .. N : o[i] = o[j] => i = j
  BY <1>4, <1>6 DEF Orders
<1>9. Valid(order)
  <2>. SUFFICES ASSUME NEW i \in 1 .. N, NEW j \in 1 .. N, Edge(order[i], order[j]) PROVE i < j
    BY <1>7, <1>8 DEF Valid
  <2>1. order[i] \in PluginIds /\ order[j] \in PluginIds /\ i \in 1 .. Len(order) /\ j \in 1 .. Len(order)
    BY <1>4, <1>6
  <2>2. order[i] \in Preds(A, order[j])
    BY <2>1 DEF EdgesMatch, Preds
  <2>3. order[i] \in Placed(order, j - 1)
    BY <2>1, <2>2, <1>1 DEF LeastFirst, Free
  <2>4. PICK k \in 1 .. j - 1 : order[k] = order[i]
    BY <2>3 DEF Placed
  <2>5. k \in 1 .. Len(order) /\ k < j
    BY <2>1
  <2>6. k = i
    BY <2>1, <2>4, <2>5, <1>3
  <2>. QED BY <2>5, <2>6
<1>10. ASSUME NEW o \in Orders, Valid(o), Before(o, order) PROVE FALSE
  <2>1. PICK i \in 1 .. N : o[i] < order[i] /\ \A j \in 1 .. i - 1 : o[j] = order[j]
    BY <1>8, <1>10 DEF Before
  <2>2. o[i] \in PluginIds /\ order[i] \in PluginIds /\ i \in 1 .. Len(order) /\ o[i] \in Nat /\ order[i] \in Nat
    BY <1>4, <1>6, <1>8, ResolverAssumption
  <2>3. \A j \in 1 .. i - 1 : j \in 1 .. N /\ j # i
    BY <1>8
  <2>4. o[i] \notin Placed(order, i - 1)
    BY <2>1, <2>3, <1>8 DEF Placed
  <2>5. ASSUME NEW p \in Preds(A, o[i]) PROVE p \in Placed(order, i - 1)
    <3>1. p \in PluginIds /\ Edge(p, o[i])
      BY <2>2 DEF Preds, EdgesMatch
    <3>2. PICK k \in 1 .. N : o[k] = p
      BY <3>1, OrdersCover
    <3>3. k < i
      BY <3>1, <3>2, <1>8, <1>10 DEF Valid
    <3>4. k \in 1 .. i - 1
      BY <3>3, <1>8
    <3>. QED BY <3>2, <3>4, <2>1 DEF Placed
  <2>6. Free(A, order, o[i], i - 1)
    BY <2>4, <2>5 DEF Free
  <2>7. order[i] <= o[i]
    BY <2>2, <2>6, <1>1 DEF LeastFirst
  <2>. QED BY <2>1, <2>2, <2>7
<1>. QED BY <1>7, <1>9, <1>10 DEF CanonicalOrder

-----------------------------------------------------------------------------
(* The resolution *)

ResolverInv ==
    /\ ResolverTypeOK
    /\ phase # "done" => plan = NoPlan
    /\ phase = "check" => bound = {} /\ absent = {}
    /\ phase = "bind" => Checked /\ BindingsHold
    /\ phase \in {"cycle", "order"} => Checked /\ BindingsHold /\ Left = {}
    /\ phase = "cycle" => CycleInv
    /\ phase = "order" => OrderInv
    /\ phase = "done" => PlansAreCanonical

InputsStay == UNCHANGED <<descriptors, parent>>

\* What is said of the descriptors does not change.
LEMMA InputFacts ==
  ASSUME InputsStay
  PROVE  /\ (Checked' <=> Checked) /\ (Resolvable' <=> Resolvable) /\ Needs' = Needs
         /\ \A n : Required(n)' <=> Required(n)
         /\ \A n : Major(n)' = Major(n)
         /\ \A c : Providers(c)' = Providers(c)
         /\ \A b : BoundTo(b)' <=> BoundTo(b)
         /\ \A c : ClosedPath(c)' <=> ClosedPath(c)
         /\ \A c : Valid(c)' <=> Valid(c)
         /\ \A r : CanonicalOrder(r)' <=> CanonicalOrder(r)
         /\ \A n, e, w : Settled(n, e, w)' <=> Settled(n, e, w)
<1>1. descriptors' = descriptors /\ parent' = parent
  BY DEF InputsStay
<1>2. Needs' = Needs /\ \A n : (Required(n)' <=> Required(n)) /\ Major(n)' = Major(n)
  BY <1>1 DEF Needs, Required, Major
<1>3. \A c : Providers(c)' = Providers(c)
  BY <1>1 DEF Providers
<1>4. Checked' <=> Checked
  BY <1>1, <1>3 DEF Checked, validate_for_scope, DuplicateProvider
<1>5. \A p, q : Edge(p, q)' <=> Edge(p, q)
  BY <1>1 DEF Edge
<1>6. \A c : Valid(c)' <=> Valid(c)
  BY <1>5 DEF Valid
<1>7. \A c : ClosedPath(c)' <=> ClosedPath(c)
  BY <1>5 DEF ClosedPath
<1>8. \A r : CanonicalOrder(r)' <=> CanonicalOrder(r)
  BY <1>6 DEF CanonicalOrder
<1>9. \A b : BoundTo(b)' <=> BoundTo(b)
  BY <1>2, <1>3 DEF BoundTo
<1>10. \A n, e, w : Settled(n, e, w)' <=> Settled(n, e, w)
  BY <1>2, <1>3 DEF Settled
<1>11. Resolvable' <=> Resolvable
  BY <1>1 DEF Resolvable, Checked, validate_for_scope, DuplicateProvider, Needs, Required, Major, Providers, Valid, Edge
<1>. QED BY <1>2, <1>3, <1>4, <1>6, <1>7, <1>8, <1>9, <1>10, <1>11

\* An error is right when the descriptors have no plan.
LEMMA RefusedPlan ==
  ASSUME ResolverTypeOK, ~Resolvable, NEW s, s \notin {"planned", "DependencyCycle"}, Refuse(s)
  PROVE  ResolverInv'
<1>1. InputsStay /\ phase' = "done" /\ plan' = [status |-> s] /\ plan'.status = s
  BY DEF Refuse, InputsStay
<1>2. ~Resolvable' /\ ResolverTypeOK'
  BY <1>1, InputFacts DEF InputsStay, ResolverTypeOK
<1>3. PlansAreCanonical'
  <2>1. plan'.status # "planned" /\ plan'.status # "DependencyCycle"
    BY <1>1
  <2>. QED BY <1>2, <2>1, Zenon DEF PlansAreCanonical
<1>. QED BY <1>1, <1>2, <1>3 DEF ResolverInv

LEMMA PlanStarts == PlanInit => ResolverInv
BY DEF PlanInit, ResolverInv, ResolverTypeOK

LEMMA CheckStep ==
  ASSUME ResolverInv, CheckDescriptors
  PROVE  ResolverInv'
<1>0. phase = "check" /\ bound = {} /\ absent = {} /\ plan = NoPlan /\ ResolverTypeOK
  BY DEF CheckDescriptors, ResolverInv
<1>1. CASE (\E p \in PluginIds : ~validate_for_scope(descriptors[p])) /\ Refuse("InvalidDescriptor")
  <2>1. ~Resolvable
    BY <1>1 DEF Resolvable
  <2>. QED BY <1>0, <1>1, <2>1, RefusedPlan
<1>2. CASE DuplicateProvider /\ Refuse("DuplicateProvider")
  <2>1. ~Resolvable
    BY <1>2 DEF Resolvable
  <2>. QED BY <1>0, <1>2, <2>1, RefusedPlan
<1>3. CASE /\ \A p \in PluginIds : validate_for_scope(descriptors[p])
           /\ ~DuplicateProvider
           /\ phase' = "bind"
           /\ UNCHANGED <<descriptors, parent, bound, absent, searchvars, plan>>
  <2>1. Checked' /\ InputsStay
    BY <1>3, InputFacts DEF Checked, InputsStay
  <2>2. BindingsHold'
    <3>1. bound' = {} /\ absent' = {}
      BY <1>0, <1>3
    <3>2. IsFiniteSet({}) /\ Cardinality({}) <= MAX_RESOLVED_EDGES
      BY FS_EmptySet, ResolverAssumption
    <3>. QED BY <3>1, <3>2 DEF BindingsHold
  <2>3. ResolverTypeOK' /\ plan' = NoPlan
    BY <1>0, <1>3 DEF ResolverTypeOK
  <2>. QED BY <1>3, <2>1, <2>2, <2>3 DEF ResolverInv, NoPlan
<1>. QED BY <1>1, <1>2, <1>3 DEF CheckDescriptors

\* Something about the descriptors or the limit is wrong.
LEMMA NotResolvable ==
  ASSUME NEW n \in Needs,
         \/ Providers(n[2]) = {} /\ Required(n)
         \/ \E x \in Providers(n[2]) : x[2] # Major(n)
         \/ ~ (Cardinality(Provided) <= MAX_RESOLVED_EDGES)
  PROVE  ~Resolvable
BY DEF Resolvable, Provided

LEMMA BindStep ==
  ASSUME ResolverInv, BindRequirement
  PROVE  ResolverInv'
<1>0. phase = "bind" /\ Checked /\ BindingsHold /\ plan = NoPlan /\ ResolverTypeOK /\ Left # {}
  BY DEF BindRequirement, ResolverInv
<1>1. PICK n \in Left : n = NextNeed
  BY <1>0, NextNeedLeft
<1>2. n \in Needs /\ \A b \in bound : b[1] # n
  BY DEF Left
<1>3. \/ \E x \in Providers(n[2]) : BindTo(n, x)
      \/ Providers(n[2]) = {} /\ LeaveUnbound(n)
  BY <1>1 DEF BindRequirement
<1>4. ASSUME InputsStay, phase' = "bind", plan' = plan, BindingsHold' PROVE ResolverInv'
  <2>1. ResolverTypeOK' /\ Checked'
    BY <1>0, <1>4, InputFacts DEF ResolverTypeOK, InputsStay
  <2>. QED BY <1>0, <1>4, <2>1 DEF ResolverInv
<1>5. Cardinality(bound) \in Nat
  BY <1>0, FS_CardinalityType DEF BindingsHold
<1>6. ASSUME NEW x \in Providers(n[2]), BindTo(n, x) PROVE ResolverInv'
  <2>1. CASE x[2] # Major(n) /\ Refuse("IncompatibleCapabilityMajor")
    <3>1. ~Resolvable
      BY <2>1, <1>2, NotResolvable
    <3>. QED BY <3>1, <2>1, <1>0, RefusedPlan
  <2>2. CASE Cardinality(bound) + 1 > MAX_RESOLVED_EDGES /\ Refuse("LimitExceeded")
    <3>1. ~ (Cardinality(Provided) <= MAX_RESOLVED_EDGES)
      BY <2>2, <1>0, OverLimit
    <3>2. ~Resolvable
      BY <3>1, <1>2, NotResolvable
    <3>. QED BY <3>2, <2>2, <1>0, RefusedPlan
  <2>3. CASE /\ x[2] = Major(n)
             /\ Cardinality(bound) + 1 <= MAX_RESOLVED_EDGES
             /\ bound' = bound \cup {<<n, x[1]>>}
             /\ UNCHANGED <<descriptors, parent, phase, absent, searchvars, plan>>
    <3>1. InputsStay /\ phase' = "bind" /\ plan' = plan /\ absent' = absent
      BY <1>0, <2>3 DEF InputsStay
    <3>2. BoundTo(<<n, x[1]>>)
      BY <1>2, <2>3 DEF BoundTo
    <3>3. \A b \in bound' : BoundTo(b)'
      BY <3>1, <3>2, <2>3, <1>0, InputFacts DEF BindingsHold
    <3>4. IsFiniteSet(bound') /\ Cardinality(bound') <= MAX_RESOLVED_EDGES
      <4>1. IsFiniteSet(bound)
        BY <1>0 DEF BindingsHold
      <4>2. IsFiniteSet(bound \cup {<<n, x[1]>>}) /\ (Cardinality(bound \cup {<<n, x[1]>>}) = Cardinality(bound)
               \/ Cardinality(bound \cup {<<n, x[1]>>}) = Cardinality(bound) + 1)
        BY <4>1, FS_AddElement
      <4>. QED BY <4>2, <2>3, <1>5, ResolverAssumption
    <3>5. \A m \in absent' : m \in Needs' /\ ~Required(m)' /\ Providers(m[2])' = {}
      BY <3>1, <1>0, InputFacts DEF BindingsHold
    <3>6. BindingsHold'
      BY <3>3, <3>4, <3>5 DEF BindingsHold
    <3>. QED BY <3>1, <3>6, <1>4
  <2>. QED BY <1>6, <2>1, <2>2, <2>3 DEF BindTo
<1>7. ASSUME Providers(n[2]) = {}, LeaveUnbound(n) PROVE ResolverInv'
  <2>1. CASE Required(n) /\ Refuse("MissingRequiredCapability")
    <3>1. ~Resolvable
      BY <2>1, <1>2, <1>7, NotResolvable
    <3>. QED BY <3>1, <2>1, <1>0, RefusedPlan
  <2>2. CASE /\ ~Required(n)
             /\ absent' = absent \cup {n}
             /\ UNCHANGED <<descriptors, parent, phase, bound, searchvars, plan>>
    <3>1. InputsStay /\ phase' = "bind" /\ plan' = plan /\ bound' = bound
      BY <1>0, <2>2 DEF InputsStay
    <3>2. \A m \in absent' : m \in Needs' /\ ~Required(m)' /\ Providers(m[2])' = {}
      BY <3>1, <2>2, <1>0, <1>2, <1>7, InputFacts DEF BindingsHold
    <3>3. \A b \in bound' : BoundTo(b)'
      BY <3>1, <1>0, InputFacts DEF BindingsHold
    <3>4. BindingsHold'
      BY <3>1, <3>2, <3>3, <1>0 DEF BindingsHold
    <3>. QED BY <3>1, <3>4, <1>4
  <2>. QED BY <1>7, <2>1, <2>2 DEF LeaveUnbound
<1>. QED BY <1>3, <1>6, <1>7

\* While a cycle or the order is looked for the bindings stay.
LEMMA BindingsStay ==
  ASSUME ResolverTypeOK, Checked, BindingsHold, Left = {}, InputsStay, bound' = bound, absent' = absent,
         phase' \in {"check", "bind", "cycle", "order", "done"}
  PROVE  ResolverTypeOK' /\ Checked' /\ BindingsHold' /\ Left' = {}
<1>1. ResolverTypeOK' /\ Checked'
  BY InputFacts DEF ResolverTypeOK, InputsStay
<1>2. Left' = {}
  BY InputFacts DEF Left
<1>3. \A b \in bound' : BoundTo(b)'
  BY InputFacts DEF BindingsHold
<1>4. \A m \in absent' : m \in Needs' /\ ~Required(m)' /\ Providers(m[2])' = {}
  BY InputFacts DEF BindingsHold
<1>. QED BY <1>1, <1>2, <1>3, <1>4 DEF BindingsHold

LEMMA FinishBindingStep ==
  ASSUME ResolverInv, FinishBinding
  PROVE  ResolverInv'
<1>0. phase = "bind" /\ Checked /\ BindingsHold /\ plan = NoPlan /\ ResolverTypeOK /\ Left = {}
      /\ InputsStay /\ bound' = bound /\ absent' = absent /\ plan' = plan
  BY DEF FinishBinding, ResolverInv, InputsStay
<1>1. CASE Cyclic(stable_adjacency) = {} /\ StartOrder
  <2>1. OrderInv' /\ phase' = "order"
    BY <1>0, <1>1, OrderStarts DEF StartOrder
  <2>2. ResolverTypeOK' /\ Checked' /\ BindingsHold' /\ Left' = {}
    BY <1>0, <2>1, BindingsStay
  <2>. QED BY <1>0, <2>1, <2>2 DEF ResolverInv
<1>2. CASE Cyclic(stable_adjacency) # {} /\ phase' = "cycle" /\ stack' = <<Frame(CycleStart)>>
  <2>1. CycleInv'
    BY <1>0, <1>2, CycleStarts
  <2>2. ResolverTypeOK' /\ Checked' /\ BindingsHold' /\ Left' = {}
    BY <1>0, <1>2, BindingsStay
  <2>. QED BY <1>0, <1>2, <2>1, <2>2 DEF ResolverInv
<1>. QED BY <1>1, <1>2 DEF FinishBinding

LEMMA TryStep ==
  ASSUME ResolverInv, TryNeighbour
  PROVE  ResolverInv'
<1>0. phase = "cycle" /\ Checked /\ BindingsHold /\ plan = NoPlan /\ ResolverTypeOK /\ Left = {} /\ CycleInv
      /\ InputsStay /\ bound' = bound /\ absent' = absent
      /\ ((phase' = "cycle" /\ plan' = plan) \/ phase' = "done")
  BY DEF TryNeighbour, ResolverInv, InputsStay
<1>2. ResolverTypeOK' /\ Checked' /\ BindingsHold' /\ Left' = {}
  BY <1>0, BindingsStay
<1>3. CASE phase' = "cycle" /\ plan' = plan
  <2>1. CycleInv'
    BY <1>0, <1>3, TryNeighbourStep
  <2>. QED BY <1>0, <1>2, <1>3, <2>1 DEF ResolverInv
<1>4. CASE phase' = "done"
  <2>1. EdgesMatch
    BY <1>0, EdgesAreBound
  <2>2. plan'.status = "DependencyCycle" /\ ClosedPath(plan'.path) /\ \A o \in Orders : ~Valid(o)
    BY <2>1, <1>0, <1>4, CycleFound
  <2>3. PICK path : path = plan'.path
    OBVIOUS
  <2>4. ClosedPath(path)' /\ (\A o \in Orders : ~Valid(o)')
    BY <2>2, <2>3, <1>0, InputFacts
  <2>5. ~Resolvable'
    BY <2>4 DEF Resolvable, Orders
  <2>6. PlansAreCanonical'
    <3>1. Orders' = Orders /\ plan'.status # "planned"
      BY <2>2 DEF Orders
    <3>. QED BY <2>2, <2>3, <2>4, <2>5, <3>1, Zenon DEF PlansAreCanonical
  <2>. QED BY <1>2, <1>4, <2>6 DEF ResolverInv
<1>. QED BY <1>0, <1>3, <1>4

LEMMA GiveUpInv ==
  ASSUME ResolverInv, GiveUp
  PROVE  ResolverInv'
<1>0. phase = "cycle" /\ Checked /\ BindingsHold /\ plan = NoPlan /\ ResolverTypeOK /\ Left = {} /\ CycleInv
      /\ InputsStay /\ bound' = bound /\ absent' = absent /\ plan' = plan
  BY DEF GiveUp, ResolverInv, InputsStay
<1>1. CycleInv' /\ phase' = "cycle"
  BY <1>0, GiveUpStep
<1>2. ResolverTypeOK' /\ Checked' /\ BindingsHold' /\ Left' = {}
  BY <1>0, <1>1, BindingsStay
<1>. QED BY <1>0, <1>1, <1>2 DEF ResolverInv

LEMMA PopInv ==
  ASSUME ResolverInv, PopReady
  PROVE  ResolverInv'
<1>0. phase = "order" /\ Checked /\ BindingsHold /\ plan = NoPlan /\ ResolverTypeOK /\ Left = {} /\ OrderInv
      /\ InputsStay /\ bound' = bound /\ absent' = absent /\ plan' = plan /\ phase' = "order"
  BY DEF PopReady, ResolverInv, InputsStay
<1>1. OrderInv'
  BY <1>0, PopReadyStep
<1>2. ResolverTypeOK' /\ Checked' /\ BindingsHold' /\ Left' = {}
  BY <1>0, BindingsStay
<1>. QED BY <1>0, <1>1, <1>2 DEF ResolverInv

LEMMA FinishInv ==
  ASSUME ResolverInv, FinishPlan
  PROVE  ResolverInv'
<1>0. phase = "order" /\ Checked /\ BindingsHold /\ plan = NoPlan /\ ResolverTypeOK /\ Left = {} /\ OrderInv
      /\ InputsStay /\ bound' = bound /\ absent' = absent /\ phase' = "done" /\ ready = {}
      /\ plan' = [status |-> "planned", order |-> order, bound |-> bound, absent |-> absent]
  BY DEF FinishPlan, ResolverInv, InputsStay
<1>1. plan'.status = "planned" /\ plan'.order = order /\ plan'.bound = bound /\ plan'.absent = absent
  BY <1>0
<1>2. ResolverTypeOK' /\ Checked' /\ BindingsHold' /\ Left' = {}
  BY <1>0, BindingsStay
<1>3. EdgesMatch
  BY <1>0, EdgesAreBound
<1>4. CanonicalOrder(order)
  BY <1>0, <1>3, OrderIsCanonical
<1>5. \A n \in Needs : Settled(n, bound, absent)
  BY <1>0, AllSettled
<1>6. Resolvable
  <2>1. Cardinality({n \in Needs : Providers(n[2]) # {}}) <= MAX_RESOLVED_EDGES
    BY <1>0, WithinLimit DEF Provided
  <2>2. \A n \in Needs :
           IF Providers(n[2]) = {} THEN ~Required(n) ELSE \A x \in Providers(n[2]) : x[2] = Major(n)
    BY <1>0, MajorsAgree
  <2>3. \E o \in Orders : Valid(o)
    BY <1>4 DEF CanonicalOrder
  <2>. QED BY <1>0, <2>1, <2>2, <2>3 DEF Resolvable, Checked
<1>7. PICK r, e, w : r = order /\ e = bound /\ w = absent
  OBVIOUS
<1>8. CanonicalOrder(r)' /\ Resolvable' /\ \A n \in Needs' : Settled(n, e, w)'
  BY <1>0, <1>4, <1>5, <1>6, <1>7, InputFacts
<1>9. PlansAreCanonical'
  <2>1. plan'.status # "DependencyCycle" /\ plan'.order = r /\ plan'.bound = e /\ plan'.absent = w
    BY <1>1, <1>7
  <2>. QED BY <2>1, <1>1, <1>8, Zenon DEF PlansAreCanonical
<1>. QED BY <1>0, <1>2, <1>9 DEF ResolverInv

\* A plan is given for exactly the descriptors that have one and is the least order in
\* which providers come before their consumers, with every requirement bound to the only
\* provider of its major; a reported cycle is a closed path of needs and no order exists
\* then; for every set of plugins, capabilities and majors and every limit.
THEOREM PlansCanonical == PlanSpec => []PlansAreCanonical
<1>1. ResolverInv /\ [PlanNext]_planvars => ResolverInv'
  <2>. SUFFICES ASSUME ResolverInv, [PlanNext]_planvars PROVE ResolverInv'
    OBVIOUS
  <2>1. CASE PlanNext
    BY <2>1, CheckStep, BindStep, FinishBindingStep, TryStep, GiveUpInv, PopInv, FinishInv DEF PlanNext
  <2>2. CASE UNCHANGED planvars
    <3>1. InputsStay /\ phase' = phase /\ bound' = bound /\ absent' = absent /\ stack' = stack
          /\ ready' = ready /\ degree' = degree /\ order' = order /\ plan' = plan
      BY <2>2 DEF planvars, searchvars, InputsStay
    <3>2. PlansAreCanonical' <=> PlansAreCanonical
      BY <2>2 DEF planvars, PlansAreCanonical, Resolvable, validate_for_scope, DuplicateProvider, Needs, Providers,
                  Required, Major, Valid, Edge, CanonicalOrder, Settled, ClosedPath
    <3>3. OrderInv' <=> OrderInv
      BY <3>1, GraphStays DEF OrderInv
    <3>4. CycleInv' <=> CycleInv
      <4>1. (PathHolds' <=> PathHolds) /\ \A n, c, k : Along(n, c, k)' <=> Along(n, c, k)
        BY <3>1, GraphStays DEF PathHolds, Along
      <4>2. Cyclic(stable_adjacency)' = Cyclic(stable_adjacency)
        BY <3>1, GraphStays
      <4>. QED BY <3>1, <4>1, <4>2, GraphStays DEF CycleInv
    <3>5. (BindingsHold' <=> BindingsHold) /\ Left' = Left
      BY <3>1, InputFacts DEF BindingsHold, Left
    <3>6. (Checked' <=> Checked) /\ (ResolverTypeOK' <=> ResolverTypeOK)
      BY <3>1, InputFacts DEF ResolverTypeOK, InputsStay
    <3>. QED BY <3>1, <3>2, <3>3, <3>4, <3>5, <3>6 DEF ResolverInv
  <2>. QED BY <2>1, <2>2
<1>2. ResolverInv => PlansAreCanonical
  BY DEF ResolverInv, PlansAreCanonical
<1>. QED BY <1>1, <1>2, PlanStarts, PTL DEF PlanSpec

-----------------------------------------------------------------------------
(* The pieces of a string *)

\* The cuts before one of them
Lower(cuts, c) == {d \in cuts : d < c}

LEMMA LowerFinite ==
  ASSUME NEW cuts \in SUBSET Nat, IsFiniteSet(cuts), NEW c
  PROVE  /\ Lower(cuts, c) \subseteq cuts /\ IsFiniteSet(Lower(cuts, c)) /\ Cardinality(Lower(cuts, c)) \in Nat
<1>1. Lower(cuts, c) \in SUBSET cuts
  BY DEF Lower
<1>. QED BY <1>1, FS_Subset, FS_CardinalityType

\* Two of them have not as many before them.
LEMMA LowerGrows ==
  ASSUME NEW cuts \in SUBSET Nat, IsFiniteSet(cuts), NEW c \in cuts, NEW d \in cuts, c < d
  PROVE  Cardinality(Lower(cuts, c)) < Cardinality(Lower(cuts, d))
<1>0. \A x \in cuts : x < c => x < d
  <2>1. \A x \in cuts : x \in Nat
    OBVIOUS
  <2>. QED BY <2>1
<1>1. Lower(cuts, c) \in SUBSET Lower(cuts, d) /\ c \in Lower(cuts, d) /\ c \notin Lower(cuts, c)
  <2>1. Lower(cuts, c) \in SUBSET Lower(cuts, d)
    BY <1>0 DEF Lower
  <2>2. c \in Lower(cuts, d)
    BY DEF Lower
  <2>3. c \in Nat /\ ~ (c < c)
    OBVIOUS
  <2>4. c \notin Lower(cuts, c)
    BY <2>3 DEF Lower
  <2>. QED BY <2>1, <2>2, <2>4
<1>2. IsFiniteSet(Lower(cuts, d)) /\ Cardinality(Lower(cuts, d)) \in Nat /\ Cardinality(Lower(cuts, c)) \in Nat
  BY LowerFinite
<1>3. Cardinality(Lower(cuts, c)) <= Cardinality(Lower(cuts, d))
      /\ Cardinality(Lower(cuts, c)) # Cardinality(Lower(cuts, d))
  BY <1>1, <1>2, FS_Subset
<1>. QED BY <1>2, <1>3

LEMMA CutIs ==
  ASSUME NEW cuts \in SUBSET Nat, IsFiniteSet(cuts), NEW c \in cuts, NEW i \in Int,
         Cardinality(Lower(cuts, c)) = i - 1
  PROVE  Cut(cuts, i) = c
<1>1. \A d \in cuts : Cardinality(Lower(cuts, d)) = i - 1 => d = c
  <2>. SUFFICES ASSUME NEW d \in cuts, Cardinality(Lower(cuts, d)) = i - 1, d # c PROVE FALSE
    OBVIOUS
  <2>1. c < d \/ d < c
    OBVIOUS
  <2>. QED BY <2>1, LowerGrows
<1>2. Cut(cuts, i) = CHOOSE x \in cuts : Cardinality(Lower(cuts, x)) = i - 1
  BY DEF Cut, Lower
<1>. QED BY <1>1, <1>2

\* There is one for every number of cuts before it.
LEMMA CutExists ==
  ASSUME NEW cuts \in SUBSET Nat, IsFiniteSet(cuts), NEW i \in 1 .. Cardinality(cuts)
  PROVE  Cut(cuts, i) \in cuts /\ Cardinality(Lower(cuts, Cut(cuts, i))) = i - 1
<1>. DEFINE n == Cardinality(cuts)
            f == [c \in cuts |-> Cardinality(Lower(cuts, c))]
<1>1. n \in Nat
  BY FS_CardinalityType
<1>2. \A c \in cuts : Cardinality(Lower(cuts, c)) \in 0 .. n - 1
  <2>. SUFFICES ASSUME NEW c \in cuts PROVE Cardinality(Lower(cuts, c)) \in 0 .. n - 1
    OBVIOUS
  <2>1. Lower(cuts, c) \in SUBSET cuts /\ c \notin Lower(cuts, c)
    BY DEF Lower
  <2>2. Cardinality(Lower(cuts, c)) <= n /\ Cardinality(Lower(cuts, c)) # n
    BY <2>1, FS_Subset
  <2>3. Cardinality(Lower(cuts, c)) \in Nat
    BY LowerFinite
  <2>. QED BY <1>1, <2>2, <2>3
<1>3. f \in Injection(cuts, 0 .. n - 1)
  <2>1. \A c, d \in cuts : Cardinality(Lower(cuts, c)) = Cardinality(Lower(cuts, d)) => c = d
    <3>. SUFFICES ASSUME NEW c \in cuts, NEW d \in cuts, c # d,
                         Cardinality(Lower(cuts, c)) = Cardinality(Lower(cuts, d))
                  PROVE  FALSE
      OBVIOUS
    <3>1. c < d \/ d < c
      OBVIOUS
    <3>2. Cardinality(Lower(cuts, c)) \in Nat /\ Cardinality(Lower(cuts, d)) \in Nat
      BY LowerFinite
    <3>. QED BY <3>1, <3>2, LowerGrows
  <2>. QED BY <1>2, <2>1 DEF Injection, IsInjective
<1>4. IsFiniteSet(0 .. n - 1) /\ Cardinality(0 .. n - 1) = n
  <2>1. n - 1 \in Int /\ 0 \in Int
    BY <1>1
  <2>2. IsFiniteSet(0 .. n - 1) /\ Cardinality(0 .. n - 1) = IF 0 > n - 1 THEN 0 ELSE n - 1 - 0 + 1
    BY <2>1, FS_Interval
  <2>. QED BY <2>2, <1>1
<1>5. f \in Surjection(cuts, 0 .. n - 1)
  <2>. HIDE DEF f, n
  <2>1. Cardinality(cuts) = Cardinality(0 .. n - 1)
    BY <1>4 DEF n
  <2>. QED BY <1>3, <1>4, <2>1, FS_Injection
<1>6. i - 1 \in 0 .. n - 1
  BY <1>1
<1>7. PICK c \in cuts : f[c] = i - 1
  <2>. HIDE DEF f, n
  <2>. QED BY <1>5, <1>6 DEF Surjection
<1>8. Cardinality(Lower(cuts, c)) = i - 1
  BY <1>7
<1>. QED BY <1>8, CutIs

LEMMA CutsTyped ==
  ASSUME NEW s \in Strings, NEW sep
  PROVE  /\ Cuts(s, sep) \in SUBSET (0 .. Len(s) + 1) /\ Cuts(s, sep) \in SUBSET Nat /\ Len(s) \in Nat
         /\ IsFiniteSet(Cuts(s, sep)) /\ Cardinality(Cuts(s, sep)) \in Nat
         /\ 0 \in Cuts(s, sep) /\ Len(s) + 1 \in Cuts(s, sep)
<1>1. Len(s) \in Nat
  BY DEF Strings
<1>2. Cuts(s, sep) \in SUBSET (0 .. Len(s) + 1) /\ 0 \in Cuts(s, sep) /\ Len(s) + 1 \in Cuts(s, sep)
  BY <1>1 DEF Cuts
<1>3. IsFiniteSet(0 .. Len(s) + 1)
  BY <1>1, FS_Interval
<1>. QED BY <1>1, <1>2, <1>3, FS_Subset, FS_CardinalityType

\* A piece is a part of the string.
LEMMA PieceTyped ==
  ASSUME NEW s \in Strings, NEW sep, NEW i \in 1 .. Cardinality(Cuts(s, sep)) - 1
  PROVE  LET a == Cut(Cuts(s, sep), i)
             b == Cut(Cuts(s, sep), i + 1)
         IN  /\ a \in 0 .. Len(s) /\ b \in 1 .. Len(s) + 1 /\ a < b
             /\ SubSeq(s, a + 1, b - 1) \in Strings /\ Len(SubSeq(s, a + 1, b - 1)) = b - a - 1
             /\ \A k \in 1 .. b - a - 1 : SubSeq(s, a + 1, b - 1)[k] = s[a + k]
<1>. DEFINE cuts == Cuts(s, sep)
            a == Cut(cuts, i)
            b == Cut(cuts, i + 1)
<1>1. cuts \in SUBSET (0 .. Len(s) + 1) /\ cuts \in SUBSET Nat /\ IsFiniteSet(cuts) /\ Len(s) \in Nat
      /\ Cardinality(cuts) \in Nat
  BY CutsTyped
<1>. HIDE DEF cuts
<1>2. i \in 1 .. Cardinality(cuts) /\ i + 1 \in 1 .. Cardinality(cuts) /\ i \in Int
  BY <1>1 DEF cuts
<1>3. a \in cuts /\ b \in cuts /\ Cardinality(Lower(cuts, a)) = i - 1 /\ Cardinality(Lower(cuts, b)) = (i + 1) - 1
  BY <1>1, <1>2, CutExists
<1>. HIDE DEF a, b
<1>4. a < b
  <2>1. ~ (b < a) /\ a # b
    BY <1>1, <1>2, <1>3, LowerGrows
  <2>. QED BY <2>1, <1>1, <1>3
<1>5. a \in 0 .. Len(s) /\ b \in 1 .. Len(s) + 1
  BY <1>1, <1>3, <1>4
<1>6. a + 1 \in 1 .. Len(s) + 1 /\ b - 1 \in (a + 1) - 1 .. Len(s) /\ (b - 1) - (a + 1) + 1 = b - a - 1
  BY <1>1, <1>4, <1>5
<1>7. /\ SubSeq(s, a + 1, b - 1) \in Seq(STRING) /\ Len(SubSeq(s, a + 1, b - 1)) = (b - 1) - (a + 1) + 1
      /\ \A k \in 1 .. (b - 1) - (a + 1) + 1 : SubSeq(s, a + 1, b - 1)[k] = s[(a + 1) + k - 1]
  BY <1>6, SubSeqProperties DEF Strings
<1>8. \A k \in 1 .. b - a - 1 : SubSeq(s, a + 1, b - 1)[k] = s[a + k]
  <2>. SUFFICES ASSUME NEW k \in 1 .. b - a - 1 PROVE SubSeq(s, a + 1, b - 1)[k] = s[a + k]
    OBVIOUS
  <2>1. (a + 1) + k - 1 = a + k
    BY <1>5
  <2>. QED BY <2>1, <1>6, <1>7
<1>9. /\ a \in 0 .. Len(s) /\ b \in 1 .. Len(s) + 1 /\ a < b
      /\ SubSeq(s, a + 1, b - 1) \in Strings /\ Len(SubSeq(s, a + 1, b - 1)) = b - a - 1
      /\ \A k \in 1 .. b - a - 1 : SubSeq(s, a + 1, b - 1)[k] = s[a + k]
  BY <1>4, <1>5, <1>6, <1>7, <1>8 DEF Strings
<1>. QED BY <1>9 DEF a, b, cuts

LEMMA SplitTyped ==
  ASSUME NEW s \in Strings, NEW sep
  PROVE  /\ Split(s, sep) \in Seq(Strings) /\ Len(Split(s, sep)) = Cardinality(Cuts(s, sep)) - 1
         /\ Cardinality(Cuts(s, sep)) - 1 \in Nat \ {0}
         /\ \A i \in 1 .. Cardinality(Cuts(s, sep)) - 1 :
               Split(s, sep)[i] = SubSeq(s, Cut(Cuts(s, sep), i) + 1, Cut(Cuts(s, sep), i + 1) - 1)
<1>. DEFINE cuts == Cuts(s, sep)
            n == Cardinality(cuts) - 1
            e(i) == SubSeq(s, Cut(cuts, i) + 1, Cut(cuts, i + 1) - 1)
<1>1. n \in Nat \ {0}
  <2>1. IsFiniteSet(cuts) /\ Cardinality(cuts) \in Nat /\ 0 \in cuts /\ Len(s) + 1 \in cuts /\ Len(s) \in Nat
    BY CutsTyped
  <2>2. Cardinality(cuts) # 0 /\ Cardinality(cuts) # 1
    BY <2>1, FS_EmptySet, FS_Singleton
  <2>. QED BY <2>1, <2>2
<1>2. \A i \in 1 .. n : e(i) \in Strings
  BY PieceTyped
<1>3. Split(s, sep) = [i \in 1 .. n |-> e(i)]
  BY DEF Split
<1>. HIDE DEF n, e
<1>4. Split(s, sep) \in Seq(Strings) /\ Len(Split(s, sep)) = n /\ \A i \in 1 .. n : Split(s, sep)[i] = e(i)
  BY <1>1, <1>2, <1>3
<1>. QED BY <1>1, <1>4 DEF n, e

\* When a separator is before the end of a string, the pieces of the end are the last
\* pieces of the string.
LEMMA EndPieces ==
  ASSUME NEW h \in Strings, NEW d \in Strings, NEW sep, Len(h) > Len(d), h[Len(h) - Len(d)] = sep,
         \A m \in 1 .. Len(d) : h[Len(h) - Len(d) + m] = d[m]
  PROVE  Len(Split(h, sep)) > Len(Split(d, sep)) /\ EndsWith(Split(h, sep), Split(d, sep))
<1>. DEFINE L == Len(h) - Len(d)
            H == Cuts(h, sep)
            D == Cuts(d, sep)
            low == Lower(H, L)
            m == Cardinality(low)
<1>0. /\ H \in SUBSET (0 .. Len(h) + 1) /\ H \in SUBSET Nat /\ IsFiniteSet(H) /\ Cardinality(H) \in Nat
      /\ D \in SUBSET (0 .. Len(d) + 1) /\ D \in SUBSET Nat /\ IsFiniteSet(D) /\ Cardinality(D) \in Nat
      /\ Len(h) \in Nat /\ Len(d) \in Nat /\ 0 \in H /\ 0 \in D
  BY CutsTyped
<1>1. L \in Nat /\ 0 < L /\ Len(h) = L + Len(d)
  BY <1>0
<1>2. \A x \in Nat : x \in D <=> L + x \in H
  <2>. SUFFICES ASSUME NEW x \in Nat PROVE x \in D <=> L + x \in H
    OBVIOUS
  <2>1. CASE x = 0
    <3>1. L \in 1 .. Len(h) /\ h[L] = sep /\ L + x = L
      BY <1>0, <1>1, <2>1
    <3>. QED BY <2>1, <3>1, <1>0 DEF Cuts
  <2>2. CASE x \in 1 .. Len(d)
    <3>1. L + x \in 1 .. Len(h) /\ L + x # 0 /\ L + x # Len(h) + 1 /\ x # 0 /\ x # Len(d) + 1
      BY <1>0, <1>1, <2>2
    <3>2. h[L + x] = d[x]
      BY <2>2
    <3>. QED BY <3>1, <3>2, <2>2 DEF Cuts
  <2>3. CASE x = Len(d) + 1
    <3>1. L + x = Len(h) + 1
      BY <1>0, <1>1, <2>3
    <3>. QED BY <2>3, <3>1 DEF Cuts
  <2>4. CASE x > Len(d) + 1
    <3>1. x \notin 0 .. Len(d) + 1 /\ L + x \notin 0 .. Len(h) + 1
      BY <1>0, <1>1, <2>4
    <3>. QED BY <3>1, <1>0
  <2>5. x = 0 \/ x \in 1 .. Len(d) \/ x = Len(d) + 1 \/ x > Len(d) + 1
    <3>1. Len(d) \in Nat
      BY <1>0
    <3>. QED BY <3>1
  <2>. QED BY <2>1, <2>2, <2>3, <2>4, <2>5
<1>. HIDE DEF L, H, D
<1>3. low \subseteq H /\ IsFiniteSet(low) /\ m \in Nat \ {0} /\ \A y \in low : y \in Nat /\ y < L
  <2>1. low \subseteq H /\ IsFiniteSet(low) /\ m \in Nat
    BY <1>0, LowerFinite
  <2>2. 0 \in low
    BY <1>0, <1>1 DEF Lower
  <2>3. m # 0
    BY <2>1, <2>2, FS_EmptySet
  <2>. QED BY <2>1, <2>3, <1>0 DEF Lower
\* The cuts before a cut of the end are those before the end and those of the end before it.
<1>4. ASSUME NEW c \in Nat
      PROVE  Cardinality(Lower(H, L + c)) = m + Cardinality(Lower(D, c))
  <2>. DEFINE up == {L + x : x \in Lower(D, c)}
              f == [x \in Lower(D, c) |-> L + x]
  <2>1. \A x \in Lower(D, c) : x \in Nat /\ x \in D /\ x < c
    BY <1>0 DEF Lower
  <2>2. f \in Bijection(Lower(D, c), up)
    <3>1. \A x, y \in Lower(D, c) : L + x = L + y => x = y
      BY <2>1, <1>1
    <3>. QED BY <3>1 DEF Bijection, Injection, Surjection, IsInjective
  <2>3. IsFiniteSet(Lower(D, c)) /\ Cardinality(Lower(D, c)) \in Nat
    BY <1>0, LowerFinite
  <2>4. IsFiniteSet(up) /\ Cardinality(up) = Cardinality(Lower(D, c))
    <3>. HIDE DEF up, f
    <3>. QED BY <2>2, <2>3, FS_Bijection DEF ExistsBijection
  <2>5. Lower(H, L + c) = low \cup up
    <3>1. ASSUME NEW y \in Lower(H, L + c) PROVE y \in low \cup up
      <4>1. y \in H /\ y < L + c /\ y \in Nat
        BY <1>0 DEF Lower
      <4>2. CASE y < L
        BY <4>1, <4>2 DEF Lower
      <4>3. CASE ~ (y < L)
        <5>1. y - L \in Nat /\ L + (y - L) = y /\ y - L < c
          BY <4>1, <4>3, <1>1
        <5>2. y - L \in Lower(D, c)
          BY <5>1, <4>1, <1>2 DEF Lower
        <5>. QED BY <5>1, <5>2
      <4>. QED BY <4>2, <4>3
    <3>2. ASSUME NEW y \in low PROVE y \in Lower(H, L + c)
      <4>1. y \in H /\ y \in Nat /\ y < L
        BY <1>3
      <4>2. y < L + c
        BY <4>1, <1>1
      <4>. QED BY <4>1, <4>2 DEF Lower
    <3>3. ASSUME NEW x \in Lower(D, c) PROVE L + x \in Lower(H, L + c)
      <4>1. x \in Nat /\ x \in D /\ x < c
        BY <2>1
      <4>2. L + x \in H /\ L + x < L + c
        BY <4>1, <1>1, <1>2
      <4>. QED BY <4>2 DEF Lower
    <3>. QED BY <3>1, <3>2, <3>3
  <2>6. low \cap up = {}
    <3>1. \A x \in Lower(D, c) : ~ (L + x < L)
      BY <2>1, <1>1
    <3>2. \A y \in low : y < L
      BY <1>3
    <3>3. \A y \in up : ~ (y < L)
      BY <3>1
    <3>. HIDE DEF up, low
    <3>. QED BY <3>2, <3>3
  <2>7. Cardinality(low \cup up) = m + Cardinality(up) - Cardinality(low \cap up)
    <3>. HIDE DEF up
    <3>. QED BY <2>4, <1>3, FS_Union
  <2>8. Cardinality(low \cap up) = 0
    BY <2>6, FS_EmptySet
  <2>9. Cardinality(Lower(H, L + c)) = m + Cardinality(Lower(D, c)) - 0
    BY <2>4, <2>5, <2>7, <2>8
  <2>10. m \in Nat /\ Cardinality(Lower(D, c)) \in Nat
    BY <2>3, <1>3
  <2>. HIDE DEF m
  <2>. QED BY <2>9, <2>10
<1>. HIDE DEF m, low
<1>5. Cardinality(H) = m + Cardinality(D)
  <2>. DEFINE c == Len(d) + 2
  <2>1. c \in Nat
    BY <1>0
  <2>2. Lower(D, c) = D
    <3>1. \A x \in D : x < c
      BY <1>0
    <3>. QED BY <3>1 DEF Lower
  <2>3. Lower(H, L + c) = H
    <3>1. \A x \in H : x < L + c
      BY <1>0, <1>1
    <3>. QED BY <3>1 DEF Lower
  <2>. HIDE DEF c
  <2>. QED BY <2>1, <2>2, <2>3, <1>4
<1>6. ASSUME NEW i \in 1 .. Cardinality(D) PROVE Cut(H, m + i) = L + Cut(D, i) /\ Cut(D, i) \in D
  <2>1. Cut(D, i) \in D /\ Cardinality(Lower(D, Cut(D, i))) = i - 1 /\ Cut(D, i) \in Nat
    BY <1>0, CutExists
  <2>2. L + Cut(D, i) \in H
    BY <2>1, <1>2
  <2>3. m + i \in Int /\ m + (i - 1) = (m + i) - 1
    BY <1>0, <1>3
  <2>4. Cardinality(Lower(H, L + Cut(D, i))) = (m + i) - 1
    BY <2>1, <2>3, <1>4
  <2>. QED BY <2>1, <2>2, <2>3, <2>4, <1>0, CutIs
<1>. DEFINE a == Split(h, sep)
            b == Split(d, sep)
<1>7. /\ a \in Seq(Strings) /\ Len(a) = Cardinality(H) - 1 /\ b \in Seq(Strings) /\ Len(b) = Cardinality(D) - 1
      /\ Cardinality(D) - 1 \in Nat \ {0}
      /\ \A i \in 1 .. Len(a) : a[i] = SubSeq(h, Cut(H, i) + 1, Cut(H, i + 1) - 1)
      /\ \A i \in 1 .. Len(b) : b[i] = SubSeq(d, Cut(D, i) + 1, Cut(D, i + 1) - 1)
  BY SplitTyped DEF H, D
<1>8. Len(a) = m + Len(b) /\ m \in Nat \ {0} /\ Len(b) \in Nat \ {0}
  BY <1>0, <1>3, <1>5, <1>7
<1>9. ASSUME NEW i \in 1 .. Len(b) PROVE a[m + i] = b[i]
  <2>1. i \in 1 .. Cardinality(D) /\ i + 1 \in 1 .. Cardinality(D) /\ m + i \in 1 .. Len(a)
        /\ m + (i + 1) = (m + i) + 1 /\ i \in 1 .. Cardinality(D) - 1 /\ m + i \in 1 .. Cardinality(H) - 1
    BY <1>0, <1>7, <1>8
  <2>2. Cut(H, m + i) = L + Cut(D, i) /\ Cut(H, (m + i) + 1) = L + Cut(D, i + 1)
    BY <2>1, <1>6
  <2>. DEFINE x == Cut(D, i)
              y == Cut(D, i + 1)
  <2>3. /\ x \in 0 .. Len(d) /\ y \in 1 .. Len(d) + 1 /\ x < y
        /\ SubSeq(d, x + 1, y - 1) \in Strings /\ Len(SubSeq(d, x + 1, y - 1)) = y - x - 1
        /\ \A k \in 1 .. y - x - 1 : SubSeq(d, x + 1, y - 1)[k] = d[x + k]
    <3>1. i \in 1 .. Cardinality(Cuts(d, sep)) - 1
      BY <2>1 DEF D
    <3>2. x \in 0 .. Len(d) /\ y \in 1 .. Len(d) + 1 /\ x < y
      BY <3>1, PieceTyped DEF D
    <3>3. /\ SubSeq(d, x + 1, y - 1) \in Strings /\ Len(SubSeq(d, x + 1, y - 1)) = y - x - 1
          /\ \A k \in 1 .. y - x - 1 : SubSeq(d, x + 1, y - 1)[k] = d[x + k]
      BY <3>1, PieceTyped DEF D
    <3>. QED BY <3>2, <3>3
  <2>4. /\ SubSeq(h, L + x + 1, (L + y) - 1) \in Strings
        /\ Len(SubSeq(h, L + x + 1, (L + y) - 1)) = (L + y) - (L + x) - 1
        /\ \A k \in 1 .. (L + y) - (L + x) - 1 : SubSeq(h, L + x + 1, (L + y) - 1)[k] = h[L + x + k]
    <3>. DEFINE u == Cut(H, m + i)
                w == Cut(H, (m + i) + 1)
    <3>1. m + i \in 1 .. Cardinality(Cuts(h, sep)) - 1
      BY <2>1 DEF H
    <3>2. /\ SubSeq(h, u + 1, w - 1) \in Strings /\ Len(SubSeq(h, u + 1, w - 1)) = w - u - 1
          /\ \A k \in 1 .. w - u - 1 : SubSeq(h, u + 1, w - 1)[k] = h[u + k]
      BY <3>1, PieceTyped DEF H
    <3>3. u = L + x /\ w = L + y
      BY <2>2
    <3>. HIDE DEF u, w, x, y
    <3>. QED BY <3>2, <3>3
  <2>5. a[m + i] = SubSeq(h, L + x + 1, (L + y) - 1) /\ b[i] = SubSeq(d, x + 1, y - 1)
    <3>1. a[m + i] = SubSeq(h, Cut(H, m + i) + 1, Cut(H, (m + i) + 1) - 1)
      BY <2>1, <1>7
    <3>2. b[i] = SubSeq(d, x + 1, y - 1)
      BY <1>7
    <3>. QED BY <3>1, <3>2, <2>2
  <2>. HIDE DEF x, y, a, b
  <2>6. (L + y) - (L + x) - 1 = y - x - 1
    BY <2>3, <1>1
  <2>7. \A k \in 1 .. y - x - 1 : h[L + x + k] = d[x + k]
    <3>. SUFFICES ASSUME NEW k \in 1 .. y - x - 1 PROVE h[L + x + k] = d[x + k]
      OBVIOUS
    <3>1. x + k \in 1 .. Len(d) /\ L + x + k = L + (x + k)
      BY <2>3, <1>0, <1>1
    <3>. QED BY <3>1 DEF L
  <2>8. SubSeq(h, L + x + 1, (L + y) - 1) = SubSeq(d, x + 1, y - 1)
    <3>1. /\ SubSeq(h, L + x + 1, (L + y) - 1) \in Seq(STRING) /\ SubSeq(d, x + 1, y - 1) \in Seq(STRING)
          /\ Len(SubSeq(h, L + x + 1, (L + y) - 1)) = y - x - 1 /\ Len(SubSeq(d, x + 1, y - 1)) = y - x - 1
      BY <2>3, <2>4, <2>6 DEF Strings
    <3>2. \A k \in 1 .. y - x - 1 : SubSeq(h, L + x + 1, (L + y) - 1)[k] = SubSeq(d, x + 1, y - 1)[k]
      BY <2>3, <2>4, <2>6, <2>7
    <3>. QED BY <3>1, <3>2, SeqEqual
  <2>. QED BY <2>5, <2>8
<1>. HIDE DEF a, b
<1>10. SubSeq(a, Len(a) - Len(b) + 1, Len(a)) = b
  <2>1. Len(a) - Len(b) + 1 = m + 1 /\ m + 1 \in 1 .. Len(a) + 1 /\ Len(a) \in (m + 1) - 1 .. Len(a)
        /\ Len(a) - (m + 1) + 1 = Len(b)
    BY <1>8
  <2>2. /\ SubSeq(a, m + 1, Len(a)) \in Seq(Strings) /\ Len(SubSeq(a, m + 1, Len(a))) = Len(b)
        /\ \A k \in 1 .. Len(b) : SubSeq(a, m + 1, Len(a))[k] = a[(m + 1) + k - 1]
    <3>1. /\ SubSeq(a, m + 1, Len(a)) \in Seq(Strings)
          /\ Len(SubSeq(a, m + 1, Len(a))) = Len(a) - (m + 1) + 1
          /\ \A k \in 1 .. Len(a) - (m + 1) + 1 : SubSeq(a, m + 1, Len(a))[k] = a[(m + 1) + k - 1]
      <4>1. a \in Seq(Strings)
        BY <1>7
      <4>. QED BY <4>1, <2>1, SubSeqProperties
    <3>. QED BY <3>1, <2>1
  <2>3. \A k \in 1 .. Len(b) : (m + 1) + k - 1 = m + k
    BY <1>8
  <2>4. \A k \in 1 .. Len(b) : SubSeq(a, m + 1, Len(a))[k] = b[k]
    BY <2>2, <2>3, <1>9
  <2>. QED BY <2>1, <2>2, <2>4, <1>7, SeqEqual
<1>11. Len(a) > Len(b) /\ Len(a) >= Len(b)
  BY <1>8
<1>. QED BY <1>10, <1>11 DEF EndsWith, a, b

\* A string that is empty or begins with a separator has an empty first piece.
LEMMA EmptyFirst ==
  ASSUME NEW s \in Strings, NEW sep, s = << >> \/ s[1] = sep
  PROVE  1 \in DOMAIN Split(s, sep) /\ Split(s, sep)[1] = << >>
<1>. DEFINE cuts == Cuts(s, sep)
<1>0. /\ Split(s, sep) \in Seq(Strings) /\ Len(Split(s, sep)) = Cardinality(cuts) - 1
      /\ Cardinality(cuts) - 1 \in Nat \ {0}
      /\ \A i \in 1 .. Cardinality(cuts) - 1 :
               Split(s, sep)[i] = SubSeq(s, Cut(cuts, i) + 1, Cut(cuts, i + 1) - 1)
  BY SplitTyped
<1>1. cuts \in SUBSET Nat /\ IsFiniteSet(cuts) /\ Len(s) \in Nat /\ 0 \in cuts /\ Len(s) + 1 \in cuts
      /\ Cardinality(cuts) \in Nat
  BY CutsTyped
<1>2. 1 \in cuts
  <2>1. CASE Len(s) = 0
    BY <2>1, <1>1
  <2>2. CASE Len(s) # 0
    <3>1. 1 \in 1 .. Len(s) /\ s # << >>
      BY <2>2, <1>1
    <3>. QED BY <3>1 DEF Cuts
  <2>. QED BY <2>1, <2>2
<1>. HIDE DEF cuts
<1>3. Lower(cuts, 0) = {} /\ Lower(cuts, 1) = {0}
  <2>1. \A x \in cuts : x \in Nat
    BY <1>1
  <2>2. \A x \in cuts : ~ (x < 0) /\ (x < 1 <=> x = 0)
    BY <2>1
  <2>. QED BY <2>2, <1>1 DEF Lower
<1>4. PICK one, two \in Int : one = 1 /\ two = 2
  OBVIOUS
<1>5. Cut(cuts, one) = 0 /\ Cut(cuts, two) = 1
  <2>1. Cardinality(Lower(cuts, 0)) = one - 1
    BY <1>3, <1>4, FS_EmptySet
  <2>2. Cardinality(Lower(cuts, 1)) = two - 1
    <3>1. Cardinality({0}) = 1
      BY FS_Singleton, Zenon
    <3>2. Cardinality(Lower(cuts, 1)) = 1
      BY <3>1, <1>3
    <3>. QED BY <3>2, <1>4
  <2>. QED BY <2>1, <2>2, <1>1, <1>2, CutIs
<1>7. one \in 1 .. Cardinality(cuts) - 1 /\ one + 1 = two
  BY <1>1, <1>4, <1>0
<1>8. Split(s, sep)[one] = SubSeq(s, Cut(cuts, one) + 1, Cut(cuts, two) - 1)
  BY <1>0, <1>7
<1>9. one \in 1 .. Cardinality(Cuts(s, sep)) - 1
  BY <1>7 DEF cuts
<1>10. SubSeq(s, Cut(cuts, one) + 1, Cut(cuts, two) - 1) \in Strings
       /\ Len(SubSeq(s, Cut(cuts, one) + 1, Cut(cuts, two) - 1)) = Cut(cuts, two) - Cut(cuts, one) - 1
  <2>1. SubSeq(s, Cut(cuts, one) + 1, Cut(cuts, one + 1) - 1) \in Strings
        /\ Len(SubSeq(s, Cut(cuts, one) + 1, Cut(cuts, one + 1) - 1)) = Cut(cuts, one + 1) - Cut(cuts, one) - 1
    BY <1>9, PieceTyped DEF cuts
  <2>. QED BY <2>1, <1>7
<1>11. Split(s, sep)[one] \in Strings /\ Len(Split(s, sep)[one]) = 0
  BY <1>5, <1>8, <1>10
<1>12. Split(s, sep)[one] = << >>
  BY <1>11, EmptySeq DEF Strings
<1>. QED BY <1>4, <1>0, <1>7, <1>12

\* A host with the suffix of a wildcard after a separator is below its domain.
LEMMA SuffixBelow ==
  ASSUME NEW p \in Strings, NEW h \in Strings, Wildcard(p), SuffixMatches(p, h)
  PROVE  Below(Domain(p), h)
<1>. DEFINE d == Domain(p)
<1>1. Len(p) \in Nat /\ Len(h) \in Nat /\ Len(p) >= 2
  BY DEF Wildcard, Strings
<1>2. d \in Strings
  <2>1. 3 \in 1 .. Len(p) + 1 /\ Len(p) \in 3 - 1 .. Len(p)
    BY <1>1
  <2>2. d = SubSeq(p, 3, Len(p))
    BY DEF Domain
  <2>. QED BY <2>1, <2>2, SubSeqProperties DEF Strings
<1>3. Len(h) > Len(d) /\ Len(h) >= Len(d) /\ SubSeq(h, Len(h) - Len(d) + 1, Len(h)) = d /\ h[Len(h) - Len(d)] = "."
  BY DEF SuffixMatches, EndsWith
<1>. HIDE DEF d
<1>4. Len(d) \in Nat
  BY <1>2 DEF Strings
<1>5. ASSUME NEW m \in 1 .. Len(d) PROVE h[Len(h) - Len(d) + m] = d[m]
  <2>. DEFINE a == Len(h) - Len(d) + 1
  <2>1. a \in 1 .. Len(h) + 1 /\ Len(h) \in a - 1 .. Len(h) /\ Len(h) - a + 1 = Len(d) /\ a + m - 1 = Len(h) - Len(d) + m
    BY <1>1, <1>3, <1>4
  <2>2. SubSeq(h, a, Len(h)) = d
    BY <1>3
  <2>. HIDE DEF a
  <2>3. \A i \in 1 .. Len(h) - a + 1 : SubSeq(h, a, Len(h))[i] = h[a + i - 1]
    BY <2>1, SubSeqProperties DEF Strings
  <2>. QED BY <2>1, <2>2, <2>3
<1>6. Len(Split(h, ".")) > Len(Split(d, ".")) /\ EndsWith(Split(h, "."), Split(d, "."))
  BY <1>2, <1>3, <1>5, EndPieces
<1>. QED BY <1>6 DEF Below, d

-----------------------------------------------------------------------------
(* The language of a pattern *)

\* The positions the rest of a pattern begins at, from those of the units after it
Begins(p, v, f, i) ==
    IF i = Len(p) + 1 THEN {Len(v) + 1}
    ELSE IF Double(p, i)
    THEN {j \in 1 .. Len(v) + 1 : \E k \in j .. Len(v) + 1 :
             k \in f[i + 2] \/ (i + 2 <= Len(p) /\ p[i + 2] = "/" /\ k \in f[i + 3])}
    ELSE IF p[i] = "*"
    THEN {j \in 1 .. Len(v) + 1 : \E k \in j .. Len(v) + 1 :
             k \in f[i + 1] /\ \A m \in j .. k - 1 : v[m] # "/"}
    ELSE {j \in 1 .. Len(v) :
             j + 1 \in f[i + 1] /\ (p[i] = v[j] \/ (p[i] = "?" /\ v[j] # "/"))}

LEMMA BeginsTyped ==
  ASSUME NEW p \in Strings, NEW v \in Strings, NEW f, NEW i
  PROVE  Begins(p, v, f, i) \in SUBSET (1 .. Len(v) + 1)
<1>1. Len(v) \in Nat
  BY DEF Strings
<1>2. Len(v) + 1 \in 1 .. Len(v) + 1 /\ 1 .. Len(v) \subseteq 1 .. Len(v) + 1
  BY <1>1
<1>. QED BY <1>2 DEF Begins

\* What begins at a unit depends on the units after it.
LEMMA BeginsLocal ==
  ASSUME NEW p \in Strings, NEW v \in Strings, NEW f, NEW g, NEW i \in 1 .. Len(p) + 1,
         \A k \in 1 .. Len(p) + 1 : k > i => f[k] = g[k]
  PROVE  Begins(p, v, f, i) = Begins(p, v, g, i)
<1>1. Len(p) \in Nat
  BY DEF Strings
<1>2. CASE i = Len(p) + 1
  BY <1>2 DEF Begins
<1>3. CASE i # Len(p) + 1 /\ Double(p, i)
  <2>1. i + 2 \in 1 .. Len(p) + 1 /\ i + 2 > i
    BY <1>1, <1>3 DEF Double
  <2>2. f[i + 2] = g[i + 2]
    BY <2>1
  <2>3. i + 2 <= Len(p) => f[i + 3] = g[i + 3]
    <3>. HAVE i + 2 <= Len(p)
    <3>1. i + 3 \in 1 .. Len(p) + 1 /\ i + 3 > i
      BY <1>1
    <3>. QED BY <3>1
  <2>. QED BY <1>3, <2>2, <2>3 DEF Begins
<1>4. CASE i # Len(p) + 1 /\ ~ Double(p, i)
  <2>1. i + 1 \in 1 .. Len(p) + 1 /\ i + 1 > i
    BY <1>1, <1>4
  <2>2. f[i + 1] = g[i + 1]
    BY <2>1
  <2>. QED BY <1>4, <2>2 DEF Begins
<1>. QED BY <1>2, <1>3, <1>4

LEMMA LanguageIs ==
  ASSUME NEW p \in Strings, NEW v \in Strings
  PROVE  Language(p, v) = CHOOSE f : f = [i \in 1 .. Len(p) + 1 |-> Begins(p, v, f, i)]
BY DEF Language, Begins

LEMMA LanguageEquations ==
  ASSUME NEW p \in Strings, NEW v \in Strings
  PROVE  /\ Language(p, v) \in [1 .. Len(p) + 1 -> SUBSET (1 .. Len(v) + 1)]
         /\ \A i \in 1 .. Len(p) + 1 : Language(p, v)[i] = Begins(p, v, Language(p, v), i)
<1>. DEFINE n == Len(p)
            T == [1 .. n + 1 -> SUBSET (1 .. Len(v) + 1)]
            Upto(g, m) == \A i \in 1 .. n + 1 : i > n - m => g[i] = Begins(p, v, g, i)
            bad == {m \in Nat : m <= n /\ ~ \E g \in T : Upto(g, m)}
<1>1. n \in Nat
  BY DEF Strings
<1>2. bad = {}
  <2>. SUFFICES ASSUME bad # {} PROVE FALSE
    OBVIOUS
  <2>. DEFINE m == Least(bad)
  <2>1. bad \in SUBSET Nat
    OBVIOUS
  <2>2. m \in bad /\ \A y \in bad : m <= y
    <3>. HIDE DEF bad
    <3>. QED BY <2>1, LeastOf
  <2>. HIDE DEF m
  <2>3. m \in Nat /\ m <= n /\ ~ \E g \in T : Upto(g, m)
    BY <2>2
  <2>4. CASE m = 0
    <3>. DEFINE g == [i \in 1 .. n + 1 |-> {Len(v) + 1}]
    <3>1. g \in T
      <4>1. Len(v) \in Nat
        BY DEF Strings
      <4>2. {Len(v) + 1} \in SUBSET (1 .. Len(v) + 1)
        BY <4>1
      <4>. QED BY <4>2
    <3>2. \A i \in 1 .. n + 1 : i > n - m => i = n + 1
      BY <1>1, <2>4
    <3>3. \A i \in 1 .. n + 1 : g[i] = {Len(v) + 1}
      OBVIOUS
    <3>. HIDE DEF g
    <3>4. Upto(g, m)
      BY <3>2, <3>3 DEF Begins
    <3>. HIDE DEF Upto, T
    <3>. QED BY <3>1, <3>4, <2>3
  <2>5. CASE m # 0
    <3>1. m - 1 \in Nat /\ m - 1 <= n /\ ~ (m <= m - 1)
      BY <1>1, <2>3, <2>5
    <3>2. m - 1 \notin bad
      BY <2>2, <3>1
    <3>3. PICK g \in T : Upto(g, m - 1)
      BY <3>1, <3>2
    <3>. DEFINE i == n - m + 1
                h == [g EXCEPT ![i] = Begins(p, v, g, i)]
    <3>4. i \in 1 .. n + 1 /\ n - (m - 1) = i
      BY <1>1, <2>3, <2>5
    <3>5. Begins(p, v, g, i) \in SUBSET (1 .. Len(v) + 1)
      BY BeginsTyped
    <3>. HIDE DEF i
    <3>6. h \in T /\ h[i] = Begins(p, v, g, i) /\ \A k \in 1 .. n + 1 : k # i => h[k] = g[k]
      BY <3>3, <3>4, <3>5
    <3>. HIDE DEF h
    <3>7. ASSUME NEW k \in 1 .. n + 1, k > n - m PROVE h[k] = Begins(p, v, h, k)
      <4>1. k = i \/ k > i
        BY <3>7, <3>4, <1>1, <2>3 DEF i
      <4>2. \A l \in 1 .. n + 1 : l > k => h[l] = g[l]
        <5>1. \A l \in 1 .. n + 1 : l > k => l # i
          BY <4>1, <3>4, <1>1
        <5>. QED BY <5>1, <3>6
      <4>3. Begins(p, v, h, k) = Begins(p, v, g, k)
        BY <4>2, BeginsLocal
      <4>4. CASE k = i
        BY <4>3, <4>4, <3>6
      <4>5. CASE k > i
        <5>1. k # i /\ k > n - (m - 1)
          BY <4>5, <3>4, <1>1
        <5>2. g[k] = Begins(p, v, g, k)
          BY <5>1, <3>3
        <5>. QED BY <5>1, <5>2, <4>3, <3>6
      <4>. QED BY <4>1, <4>4, <4>5
    <3>8. Upto(h, m)
      BY <3>7
    <3>. HIDE DEF Upto, T
    <3>. QED BY <3>6, <3>8, <2>3
  <2>. QED BY <2>4, <2>5
<1>3. n \notin bad /\ n \in Nat /\ n <= n
  BY <1>1, <1>2
<1>4. PICK g \in T : Upto(g, n)
  BY <1>3
<1>5. \A i \in 1 .. n + 1 : g[i] = Begins(p, v, g, i)
  <2>1. \A i \in 1 .. n + 1 : i > n - n
    BY <1>1
  <2>. QED BY <1>4, <2>1
<1>6. g = [i \in 1 .. n + 1 |-> Begins(p, v, g, i)]
  BY <1>5
<1>. DEFINE f == Language(p, v)
<1>7. f = [i \in 1 .. n + 1 |-> Begins(p, v, f, i)]
  BY <1>6, LanguageIs
<1>. HIDE DEF f
<1>8. \A i \in 1 .. n + 1 : f[i] = Begins(p, v, f, i)
  BY <1>7
<1>9. f \in T
  <2>1. \A i \in 1 .. n + 1 : Begins(p, v, f, i) \in SUBSET (1 .. Len(v) + 1)
    BY BeginsTyped
  <2>. QED BY <1>7, <2>1
<1>. QED BY <1>8, <1>9 DEF f

-----------------------------------------------------------------------------
(* The calls of visit *)

\* The pairs of positions of a pattern and a path, and the frames of visit on them
Places(p, v) == (1 .. Len(p) + 1) \X (1 .. Len(v) + 1)
Frames(p, v) == [at : Places(p, v), left : Seq(Places(p, v))]

Among(t, s) == \E k \in 1 .. Len(s) : s[k] = t

\* visit at one pair calls itself at the other.
Called(p, v, s, t) ==
    /\ s[1] <= Len(p)
    /\ \/ /\ p[s[1]] = "*"
          /\ \/ t = <<AfterStar(p, s[1]), s[2]>>
             \/ /\ Double(p, s[1]) /\ AfterStar(p, s[1]) <= Len(p) /\ p[AfterStar(p, s[1])] = "/"
                /\ t = <<AfterStar(p, s[1]) + 1, s[2]>>
             \/ /\ s[2] <= Len(v) /\ (Double(p, s[1]) \/ v[s[2]] # "/")
                /\ t = <<s[1], s[2] + 1>>
       \/ /\ p[s[1]] # "*" /\ s[2] <= Len(v)
          /\ p[s[1]] = v[s[2]] \/ (p[s[1]] = "?" /\ v[s[2]] # "/")
          /\ t = <<s[1] + 1, s[2] + 1>>

\* The path from the second position is of the language of the pattern from the first.
Begun(p, v, t) == t[2] \in Language(p, v)[t[1]]
End(p, v) == <<Len(p) + 1, Len(v) + 1>>

LEMMA JoinedCalls ==
  ASSUME NEW S, NEW a \in Seq(S), NEW b \in Seq(S)
  PROVE  a \o b \in Seq(S) /\ \A t : Among(t, a \o b) <=> (Among(t, a) \/ Among(t, b))
<1>1. /\ a \o b \in Seq(S) /\ Len(a \o b) = Len(a) + Len(b) /\ Len(a) \in Nat /\ Len(b) \in Nat
      /\ \A i \in 1 .. Len(a) + Len(b) : (a \o b)[i] = IF i <= Len(a) THEN a[i] ELSE b[i - Len(a)]
  BY ConcatProperties
<1>2. ASSUME NEW t, Among(t, a \o b) PROVE Among(t, a) \/ Among(t, b)
  <2>1. PICK k \in 1 .. Len(a) + Len(b) : (a \o b)[k] = t
    BY <1>1, <1>2 DEF Among
  <2>2. CASE k <= Len(a)
    <3>1. k \in 1 .. Len(a)
      BY <2>2, <1>1
    <3>. QED BY <3>1, <2>1, <2>2, <1>1 DEF Among
  <2>3. CASE ~ (k <= Len(a))
    <3>1. k - Len(a) \in 1 .. Len(b)
      BY <2>3, <1>1
    <3>. QED BY <3>1, <2>1, <2>3, <1>1 DEF Among
  <2>. QED BY <2>2, <2>3
<1>3. ASSUME NEW t, Among(t, a) PROVE Among(t, a \o b)
  <2>1. PICK k \in 1 .. Len(a) : a[k] = t
    BY <1>3 DEF Among
  <2>2. k \in 1 .. Len(a) + Len(b) /\ k <= Len(a)
    BY <1>1
  <2>. QED BY <2>1, <2>2, <1>1 DEF Among
<1>4. ASSUME NEW t, Among(t, b) PROVE Among(t, a \o b)
  <2>1. PICK k \in 1 .. Len(b) : b[k] = t
    BY <1>4 DEF Among
  <2>2. Len(a) + k \in 1 .. Len(a) + Len(b) /\ ~ (Len(a) + k <= Len(a)) /\ (Len(a) + k) - Len(a) = k
    BY <1>1
  <2>. QED BY <2>1, <2>2, <1>1 DEF Among
<1>. QED BY <1>1, <1>2, <1>3, <1>4

LEMMA OneCall ==
  ASSUME NEW S, NEW x \in S
  PROVE  /\ <<x>> \in Seq(S) /\ \A t : Among(t, <<x>>) <=> t = x
         /\ << >> \in Seq(S) /\ \A t : ~ Among(t, << >>)
<1>1. <<x>> \in Seq(S) /\ << >> \in Seq(S) /\ Len(<<x>>) = 1 /\ Len(<< >>) = 0 /\ <<x>>[1] = x
  OBVIOUS
<1>2. \A k \in 1 .. 1 : k = 1
  OBVIOUS
<1>3. 1 .. 0 = {} /\ 1 \in 1 .. 1
  OBVIOUS
<1>. QED BY <1>1, <1>2, <1>3 DEF Among

LEMMA PlacesAre ==
  ASSUME NEW p \in Strings, NEW v \in Strings, NEW s \in Places(p, v)
  PROVE  /\ s[1] \in 1 .. Len(p) + 1 /\ s[2] \in 1 .. Len(v) + 1 /\ s = <<s[1], s[2]>>
         /\ Len(p) \in Nat /\ Len(v) \in Nat
BY DEF Places, Strings

\* The calls of a pair are the next pairs, further along.
LEMMA CalledTyped ==
  ASSUME NEW p \in Strings, NEW v \in Strings, NEW s \in Places(p, v), NEW t, Called(p, v, s, t)
  PROVE  t \in Places(p, v) /\ t[1] + t[2] > s[1] + s[2]
<1>1. /\ s[1] \in 1 .. Len(p) + 1 /\ s[2] \in 1 .. Len(v) + 1 /\ s[1] <= Len(p)
      /\ Len(p) \in Nat /\ Len(v) \in Nat
  BY PlacesAre DEF Called
<1>2. /\ AfterStar(p, s[1]) \in 1 .. Len(p) + 1 /\ AfterStar(p, s[1]) > s[1]
  BY <1>1 DEF AfterStar, Double
<1>3. CASE t = <<AfterStar(p, s[1]), s[2]>>
  BY <1>1, <1>2, <1>3 DEF Places
<1>4. CASE AfterStar(p, s[1]) <= Len(p) /\ t = <<AfterStar(p, s[1]) + 1, s[2]>>
  BY <1>1, <1>2, <1>4 DEF Places
<1>5. CASE s[2] <= Len(v) /\ t = <<s[1], s[2] + 1>>
  BY <1>1, <1>5 DEF Places
<1>6. CASE s[2] <= Len(v) /\ t = <<s[1] + 1, s[2] + 1>>
  BY <1>1, <1>6 DEF Places
<1>. QED BY <1>3, <1>4, <1>5, <1>6 DEF Called

LEMMA CallsAre ==
  ASSUME NEW p \in Strings, NEW v \in Strings, NEW s \in Places(p, v)
  PROVE  /\ CallsOf(p, v, s[1], s[2]) \in Seq(Places(p, v))
         /\ \A t : Among(t, CallsOf(p, v, s[1], s[2])) <=> Called(p, v, s, t)
<1>. DEFINE i == s[1]
            j == s[2]
            P == Places(p, v)
            calls == CallsOf(p, v, i, j)
<1>1. /\ i \in 1 .. Len(p) + 1 /\ j \in 1 .. Len(v) + 1 /\ Len(p) \in Nat /\ Len(v) \in Nat
  BY PlacesAre
<1>2. \A t : Called(p, v, s, t) => t \in P
  BY CalledTyped
<1>3. CASE i > Len(p)
  <2>1. calls = << >>
    BY <1>3 DEF CallsOf
  <2>2. \A t : ~ Called(p, v, s, t)
    BY <1>1, <1>3 DEF Called
  <2>. HIDE DEF calls, P
  <2>3. << >> \in Seq(P) /\ \A t : ~ Among(t, << >>)
    <3>1. s \in P
      BY DEF P
    <3>. QED BY <3>1, OneCall
  <2>4. calls \in Seq(P) /\ \A t : Among(t, calls) <=> Called(p, v, s, t)
    BY <2>1, <2>2, <2>3
  <2>. QED BY <2>4 DEF calls, P
<1>4. CASE ~ (i > Len(p)) /\ p[i] = "*"
  <2>. DEFINE A == AfterStar(p, i)
              B == Double(p, i) /\ A <= Len(p) /\ p[A] = "/"
              C == j <= Len(v) /\ (Double(p, i) \/ v[j] # "/")
              x == <<A, j>>
              y == <<A + 1, j>>
              z == <<i, j + 1>>
  <2>1. PICK b, c : /\ calls = <<x>> \o b \o c
                    /\ (B => b = <<y>>) /\ (~ B => b = << >>) /\ (C => c = <<z>>) /\ (~ C => c = << >>)
    <3>. DEFINE b == IF B THEN <<y>> ELSE << >>
                c == IF C THEN <<z>> ELSE << >>
    <3>1. calls = <<x>> \o b \o c
      BY <1>4 DEF CallsOf, IfThen
    <3>2. (B => b = <<y>>) /\ (~ B => b = << >>) /\ (C => c = <<z>>) /\ (~ C => c = << >>)
      OBVIOUS
    <3>. QED BY <3>1, <3>2
  <2>2. \A t : Called(p, v, s, t) <=> (t = x \/ (B /\ t = y) \/ (C /\ t = z))
    BY <1>1, <1>4 DEF Called
  <2>3. x \in P /\ (B => y \in P) /\ (C => z \in P)
    BY <1>2, <2>2
  <2>. HIDE DEF calls, P, B, C, x, y, z, A
  <2>4. <<x>> \in Seq(P) /\ \A t : Among(t, <<x>>) <=> t = x
    BY <2>3, OneCall
  <2>5. b \in Seq(P) /\ \A t : Among(t, b) <=> (B /\ t = y)
    <3>1. CASE B
      <4>1. b = <<y>> /\ y \in P
        BY <3>1, <2>1, <2>3, Zenon
      <4>2. <<y>> \in Seq(P) /\ \A t : Among(t, <<y>>) <=> t = y
        BY <4>1, OneCall
      <4>. QED BY <3>1, <4>1, <4>2, Zenon
    <3>2. CASE ~ B
      BY <3>2, <2>1, <2>3, OneCall
    <3>. QED BY <3>1, <3>2
  <2>6. c \in Seq(P) /\ \A t : Among(t, c) <=> (C /\ t = z)
    <3>1. CASE C
      <4>1. c = <<z>> /\ z \in P
        BY <3>1, <2>1, <2>3, Zenon
      <4>2. <<z>> \in Seq(P) /\ \A t : Among(t, <<z>>) <=> t = z
        BY <4>1, OneCall
      <4>. QED BY <3>1, <4>1, <4>2, Zenon
    <3>2. CASE ~ C
      BY <3>2, <2>1, <2>3, OneCall
    <3>. QED BY <3>1, <3>2
  <2>7. <<x>> \o b \in Seq(P) /\ \A t : Among(t, <<x>> \o b) <=> (Among(t, <<x>>) \/ Among(t, b))
    BY <2>4, <2>5, JoinedCalls
  <2>8. /\ <<x>> \o b \o c \in Seq(P)
        /\ \A t : Among(t, <<x>> \o b \o c) <=> (Among(t, <<x>> \o b) \/ Among(t, c))
    BY <2>6, <2>7, JoinedCalls
  <2>9. calls \in Seq(P) /\ \A t : Among(t, calls) <=> Called(p, v, s, t)
    BY <2>1, <2>2, <2>4, <2>5, <2>6, <2>7, <2>8
  <2>. QED BY <2>9 DEF calls, P
<1>5. CASE ~ (i > Len(p)) /\ p[i] # "*"
  <2>. DEFINE B == j <= Len(v) /\ p[i] = "?" /\ v[j] # "/"
              C == j <= Len(v) /\ p[i] = v[j]
              y == <<i + 1, j + 1>>
  <2>1. PICK b, c : /\ calls = b \o c
                    /\ (B => b = <<y>>) /\ (~ B => b = << >>) /\ (C => c = <<y>>) /\ (~ C => c = << >>)
    <3>. DEFINE b == IF B THEN <<y>> ELSE << >>
                c == IF C THEN <<y>> ELSE << >>
    <3>1. calls = b \o c
      BY <1>5 DEF CallsOf, IfThen
    <3>2. (B => b = <<y>>) /\ (~ B => b = << >>) /\ (C => c = <<y>>) /\ (~ C => c = << >>)
      OBVIOUS
    <3>. QED BY <3>1, <3>2
  <2>2. \A t : Called(p, v, s, t) <=> ((B /\ t = y) \/ (C /\ t = y))
    BY <1>1, <1>5 DEF Called
  <2>3. s \in P /\ (B => y \in P) /\ (C => y \in P)
    BY <1>2, <2>2
  <2>. HIDE DEF calls, P, B, C, y
  <2>5. b \in Seq(P) /\ \A t : Among(t, b) <=> (B /\ t = y)
    <3>1. CASE B
      BY <3>1, <2>1, <2>3, OneCall
    <3>2. CASE ~ B
      BY <3>2, <2>1, <2>3, OneCall
    <3>. QED BY <3>1, <3>2
  <2>6. c \in Seq(P) /\ \A t : Among(t, c) <=> (C /\ t = y)
    <3>1. CASE C
      BY <3>1, <2>1, <2>3, OneCall
    <3>2. CASE ~ C
      BY <3>2, <2>1, <2>3, OneCall
    <3>. QED BY <3>1, <3>2
  <2>7. b \o c \in Seq(P) /\ \A t : Among(t, b \o c) <=> (Among(t, b) \/ Among(t, c))
    BY <2>5, <2>6, JoinedCalls
  <2>9. calls \in Seq(P) /\ \A t : Among(t, calls) <=> Called(p, v, s, t)
    BY <2>1, <2>2, <2>5, <2>6, <2>7
  <2>. QED BY <2>9 DEF calls, P
<1>. QED BY <1>3, <1>4, <1>5

-----------------------------------------------------------------------------
(* The calls follow the language. *)

\* What a call finds is found by its caller.
LEMMA BackStep ==
  ASSUME NEW p \in Strings, NEW v \in Strings, NEW s \in Places(p, v), NEW t,
         Called(p, v, s, t), Begun(p, v, t)
  PROVE  Begun(p, v, s)
<1>. DEFINE L == Language(p, v)
            i == s[1]
            j == s[2]
<1>1. /\ i \in 1 .. Len(p) /\ i # Len(p) + 1 /\ i \in 1 .. Len(p) + 1 /\ j \in 1 .. Len(v) + 1
      /\ Len(p) \in Nat /\ Len(v) \in Nat
  BY PlacesAre DEF Called
<1>2. L[i] = Begins(p, v, L, i)
  BY <1>1, LanguageEquations
<1>3. t \in Places(p, v) /\ t[1] \in 1 .. Len(p) + 1 /\ t[2] \in 1 .. Len(v) + 1 /\ t[2] \in L[t[1]]
  BY CalledTyped, PlacesAre DEF Begun
<1>4. CASE Double(p, i)
  <2>1. AfterStar(p, i) = i + 2 /\ p[i] = "*"
    BY <1>4 DEF AfterStar, Double
  <2>2. L[i] = {x \in 1 .. Len(v) + 1 : \E k \in x .. Len(v) + 1 :
                   k \in L[i + 2] \/ (i + 2 <= Len(p) /\ p[i + 2] = "/" /\ k \in L[i + 3])}
    BY <1>1, <1>2, <1>4 DEF Begins
  <2>. HIDE DEF L
  <2>3. CASE t = <<i + 2, j>>
    <3>1. j \in L[i + 2] /\ j \in j .. Len(v) + 1
      BY <2>3, <1>1, <1>3
    <3>. QED BY <3>1, <2>2, <1>1 DEF Begun, L
  <2>4. CASE i + 2 <= Len(p) /\ p[i + 2] = "/" /\ t = <<(i + 2) + 1, j>>
    <3>1. (i + 2) + 1 = i + 3
      BY <1>1
    <3>2. j \in L[i + 3] /\ j \in j .. Len(v) + 1
      BY <2>4, <3>1, <1>1, <1>3
    <3>. QED BY <3>2, <2>2, <2>4, <1>1 DEF Begun, L
  <2>5. CASE j <= Len(v) /\ t = <<i, j + 1>>
    <3>1. j + 1 \in L[i]
      BY <2>5, <1>1, <1>3
    <3>2. PICK k \in j + 1 .. Len(v) + 1 : k \in L[i + 2] \/ (i + 2 <= Len(p) /\ p[i + 2] = "/" /\ k \in L[i + 3])
      BY <3>1, <2>2
    <3>3. k \in j .. Len(v) + 1
      BY <1>1
    <3>. QED BY <3>2, <3>3, <2>2, <1>1 DEF Begun, L
  <2>. QED BY <2>1, <2>3, <2>4, <2>5 DEF Called
<1>5. CASE ~ Double(p, i) /\ p[i] = "*"
  <2>1. AfterStar(p, i) = i + 1
    BY <1>5 DEF AfterStar
  <2>2. L[i] = {x \in 1 .. Len(v) + 1 : \E k \in x .. Len(v) + 1 :
                  k \in L[i + 1] /\ \A m \in x .. k - 1 : v[m] # "/"}
    BY <1>1, <1>2, <1>5 DEF Begins
  <2>. HIDE DEF L
  <2>3. CASE t = <<i + 1, j>>
    <3>1. j \in L[i + 1] /\ j \in j .. Len(v) + 1 /\ j .. j - 1 = {}
      BY <2>3, <1>1, <1>3
    <3>. QED BY <3>1, <2>2, <1>1 DEF Begun, L
  <2>4. CASE j <= Len(v) /\ v[j] # "/" /\ t = <<i, j + 1>>
    <3>1. j + 1 \in L[i]
      BY <2>4, <1>1, <1>3
    <3>2. PICK k \in j + 1 .. Len(v) + 1 : k \in L[i + 1] /\ \A m \in j + 1 .. k - 1 : v[m] # "/"
      BY <3>1, <2>2
    <3>3. k \in j .. Len(v) + 1 /\ \A m \in j .. k - 1 : m = j \/ m \in j + 1 .. k - 1
      BY <1>1
    <3>4. \A m \in j .. k - 1 : v[m] # "/"
      BY <3>2, <3>3, <2>4
    <3>. QED BY <3>2, <3>3, <3>4, <2>2, <1>1 DEF Begun, L
  <2>. QED BY <1>5, <2>1, <2>3, <2>4 DEF Called
<1>6. CASE ~ Double(p, i) /\ p[i] # "*"
  <2>2. L[i] = {x \in 1 .. Len(v) : x + 1 \in L[i + 1] /\ (p[i] = v[x] \/ (p[i] = "?" /\ v[x] # "/"))}
    BY <1>1, <1>2, <1>6 DEF Begins
  <2>. HIDE DEF L
  <2>3. j <= Len(v) /\ t = <<i + 1, j + 1>> /\ (p[i] = v[j] \/ (p[i] = "?" /\ v[j] # "/"))
    BY <1>6 DEF Called
  <2>4. j + 1 \in L[i + 1] /\ j \in 1 .. Len(v)
    BY <2>3, <1>1, <1>3
  <2>. QED BY <2>2, <2>3, <2>4 DEF Begun, L
<1>. QED BY <1>4, <1>5, <1>6

\* What is of the language is at the end, or a call finds it.
LEMMA ForwardStep ==
  ASSUME NEW p \in Strings, NEW v \in Strings, NEW s \in Places(p, v), Begun(p, v, s)
  PROVE  s = End(p, v) \/ \E t : Called(p, v, s, t) /\ Begun(p, v, t)
<1>. DEFINE L == Language(p, v)
            i == s[1]
            j == s[2]
<1>1. /\ i \in 1 .. Len(p) + 1 /\ j \in 1 .. Len(v) + 1 /\ s = <<i, j>> /\ j \in L[i]
      /\ Len(p) \in Nat /\ Len(v) \in Nat
  BY PlacesAre DEF Begun
<1>2. L[i] = Begins(p, v, L, i)
  BY <1>1, LanguageEquations
<1>3. CASE i = Len(p) + 1
  <2>1. L[i] = {Len(v) + 1}
    BY <1>2, <1>3 DEF Begins
  <2>. QED BY <1>1, <1>3, <2>1 DEF End
<1>4. CASE i # Len(p) + 1 /\ Double(p, i)
  <2>1. AfterStar(p, i) = i + 2 /\ p[i] = "*" /\ i <= Len(p) /\ (i + 2) + 1 = i + 3
    BY <1>1, <1>4 DEF AfterStar, Double
  <2>2. L[i] = {x \in 1 .. Len(v) + 1 : \E k \in x .. Len(v) + 1 :
                   k \in L[i + 2] \/ (i + 2 <= Len(p) /\ p[i + 2] = "/" /\ k \in L[i + 3])}
    BY <1>2, <1>4 DEF Begins
  <2>. HIDE DEF L
  <2>3. PICK k \in j .. Len(v) + 1 : k \in L[i + 2] \/ (i + 2 <= Len(p) /\ p[i + 2] = "/" /\ k \in L[i + 3])
    BY <1>1, <2>2
  <2>4. CASE k = j
    <3>1. CASE k \in L[i + 2]
      <4>. DEFINE t == <<i + 2, j>>
      <4>1. Called(p, v, s, t)
        BY <2>1 DEF Called
      <4>2. Begun(p, v, t)
        BY <2>4, <3>1 DEF Begun, L
      <4>. QED BY <4>1, <4>2
    <3>2. CASE i + 2 <= Len(p) /\ p[i + 2] = "/" /\ k \in L[i + 3]
      <4>. DEFINE t == <<i + 3, j>>
      <4>1. Called(p, v, s, t)
        BY <1>4, <2>1, <3>2 DEF Called
      <4>2. Begun(p, v, t)
        BY <2>4, <3>2 DEF Begun, L
      <4>. QED BY <4>1, <4>2
    <3>. QED BY <3>1, <3>2, <2>3
  <2>5. CASE k # j
    <3>. DEFINE t == <<i, j + 1>>
    <3>1. j <= Len(v) /\ k \in j + 1 .. Len(v) + 1 /\ j + 1 \in 1 .. Len(v) + 1
      BY <1>1, <2>5
    <3>2. Called(p, v, s, t)
      BY <1>4, <2>1, <3>1 DEF Called
    <3>3. j + 1 \in L[i]
      BY <2>2, <2>3, <3>1
    <3>. QED BY <3>2, <3>3 DEF Begun, L
  <2>. QED BY <2>4, <2>5
<1>5. CASE i # Len(p) + 1 /\ ~ Double(p, i) /\ p[i] = "*"
  <2>1. AfterStar(p, i) = i + 1 /\ i <= Len(p)
    BY <1>1, <1>5 DEF AfterStar
  <2>2. L[i] = {x \in 1 .. Len(v) + 1 : \E k \in x .. Len(v) + 1 :
                  k \in L[i + 1] /\ \A m \in x .. k - 1 : v[m] # "/"}
    BY <1>2, <1>5 DEF Begins
  <2>. HIDE DEF L
  <2>3. PICK k \in j .. Len(v) + 1 : k \in L[i + 1] /\ \A m \in j .. k - 1 : v[m] # "/"
    BY <1>1, <2>2
  <2>4. CASE k = j
    <3>. DEFINE t == <<i + 1, j>>
    <3>1. Called(p, v, s, t)
      BY <1>5, <2>1 DEF Called
    <3>2. Begun(p, v, t)
      BY <2>3, <2>4 DEF Begun, L
    <3>. QED BY <3>1, <3>2
  <2>5. CASE k # j
    <3>. DEFINE t == <<i, j + 1>>
    <3>1. j <= Len(v) /\ k \in j + 1 .. Len(v) + 1 /\ j + 1 \in 1 .. Len(v) + 1 /\ j \in j .. k - 1
          /\ \A m \in j + 1 .. k - 1 : m \in j .. k - 1
      BY <1>1, <2>5
    <3>2. Called(p, v, s, t)
      BY <1>5, <2>1, <2>3, <3>1 DEF Called
    <3>3. j + 1 \in L[i]
      BY <2>2, <2>3, <3>1
    <3>. QED BY <3>2, <3>3 DEF Begun, L
  <2>. QED BY <2>4, <2>5
<1>6. CASE i # Len(p) + 1 /\ ~ Double(p, i) /\ p[i] # "*"
  <2>1. i <= Len(p)
    BY <1>1, <1>6
  <2>2. L[i] = {x \in 1 .. Len(v) : x + 1 \in L[i + 1] /\ (p[i] = v[x] \/ (p[i] = "?" /\ v[x] # "/"))}
    BY <1>2, <1>6 DEF Begins
  <2>. HIDE DEF L
  <2>3. j \in 1 .. Len(v) /\ j + 1 \in L[i + 1] /\ (p[i] = v[j] \/ (p[i] = "?" /\ v[j] # "/"))
    BY <1>1, <2>2
  <2>. DEFINE t == <<i + 1, j + 1>>
  <2>4. Called(p, v, s, t)
    BY <1>1, <1>6, <2>1, <2>3 DEF Called
  <2>5. Begun(p, v, t)
    BY <2>3 DEF Begun, L
  <2>. QED BY <2>4, <2>5
<1>. QED BY <1>3, <1>4, <1>5, <1>6

\* Calls that were all made without reaching the end find nothing.
LEMMA NothingFound ==
  ASSUME NEW p \in Strings, NEW v \in Strings, NEW S \in SUBSET Places(p, v), End(p, v) \notin S,
         \A s \in S : \A t : Called(p, v, s, t) => t \in S
  PROVE  \A s \in S : ~ Begun(p, v, s)
<1>. DEFINE rank(s) == (Len(p) + Len(v) + 2) - (s[1] + s[2])
            ranks == {k \in Nat : \E s \in S : Begun(p, v, s) /\ k = rank(s)}
<1>1. \A s \in S : rank(s) \in Nat /\ s[1] \in Nat /\ s[2] \in Nat
  <2>. SUFFICES ASSUME NEW s \in S PROVE rank(s) \in Nat /\ s[1] \in Nat /\ s[2] \in Nat
    OBVIOUS
  <2>1. s[1] \in 1 .. Len(p) + 1 /\ s[2] \in 1 .. Len(v) + 1 /\ Len(p) \in Nat /\ Len(v) \in Nat
    BY PlacesAre
  <2>. QED BY <2>1
<1>2. SUFFICES ASSUME NEW z \in S, Begun(p, v, z) PROVE FALSE
  OBVIOUS
<1>3. ranks \in SUBSET Nat /\ ranks # {}
  BY <1>1, <1>2
<1>. DEFINE m == Least(ranks)
<1>4. m \in ranks /\ \A y \in ranks : m <= y
  <2>. HIDE DEF ranks
  <2>. QED BY <1>3, LeastOf
<1>. HIDE DEF m
<1>5. PICK s \in S : Begun(p, v, s) /\ m = rank(s)
  BY <1>4
<1>6. s \in Places(p, v) /\ s # End(p, v)
  OBVIOUS
<1>7. PICK t : Called(p, v, s, t) /\ Begun(p, v, t)
  BY <1>5, <1>6, ForwardStep
<1>8. t \in S /\ t[1] + t[2] > s[1] + s[2]
  BY <1>6, <1>7, CalledTyped
<1>9. rank(t) < rank(s)
  <2>1. Len(p) \in Nat /\ Len(v) \in Nat
    BY DEF Strings
  <2>. QED BY <2>1, <1>1, <1>8
<1>10. rank(t) \in ranks
  BY <1>1, <1>7, <1>8
<1>11. rank(s) <= rank(t) /\ rank(s) \in Nat /\ rank(t) \in Nat
  BY <1>1, <1>4, <1>5, <1>8, <1>10
<1>. HIDE DEF rank
<1>. QED BY <1>9, <1>11

-----------------------------------------------------------------------------
(* DeliveredAsDeclared *)

\* What is known of the pattern under test: the calls under way find only what the first
\* one finds, a call not made yet is left to one of them, and the end is not behind.
Searching(p, v, vs, sn) ==
    /\ sn \subseteq Places(p, v) /\ <<1, 1>> \in sn
    /\ vs \in Seq(Frames(p, v))
    /\ \A k \in 1 .. Len(vs) : Begun(p, v, vs[k].at) => Begun(p, v, <<1, 1>>)
    /\ \A k \in 1 .. Len(vs) : \A t : Among(t, vs[k].left) => Called(p, v, vs[k].at, t)
    /\ \A s \in sn : \A t : Called(p, v, s, t) =>
          \/ t \in sn
          \/ \E k \in 1 .. Len(vs) : vs[k].at = s /\ Among(t, vs[k].left)
    /\ End(p, v) \in sn => vs # << >> /\ vs[Len(vs)].at = End(p, v)

\* A pattern that was tried does not match, or is under test.
PatternsTried ==
    /\ untried \subseteq perm.paths
    /\ visits # << >> => tested \in perm.paths /\ Searching(tested, use.path, visits, seen)
    /\ \A x \in perm.paths \ untried : ~ Begun(x, use.path, <<1, 1>>) \/ (visits # << >> /\ x = tested)

Accepted == {"manifest", "planned", "stored", "granted", "matching"}

PermInv ==
    /\ perm \in Permissions
    /\ stage # "matching" => visits = << >>
    /\ stage \in Accepted => validate_permission_request(perm)
    /\ stage = "matching" =>
          use \in Uses(perm) /\ use.kind = "read" /\ valid_relative_path(use.path) /\ PatternsTried
    /\ DeliveredAsDeclared

LEMMA MatchesBegun ==
  ASSUME NEW p, NEW v
  PROVE  Matches(p, v) <=> Begun(p, v, <<1, 1>>)
BY DEF Matches, Begun

LEMMA PermTyped ==
  ASSUME perm \in Permissions
  PROVE  /\ perm.paths \in SUBSET Strings /\ perm.hosts \in SUBSET Strings
         /\ perm.max_bytes \in Int /\ perm.max_response_bytes \in Int
         /\ perm.name \in {"project.fs.read", "workspace.r.inspect", "network.fetch"}
BY PermissionAssumption

\* A use of a permission, by its name
LEMMA UseTyped ==
  ASSUME perm \in Permissions, NEW u \in Uses(perm)
  PROVE  /\ u.bytes \in 1 .. MAX_PERMISSION_BYTES
         /\ \/ /\ perm.name = "project.fs.read" /\ u.kind = "read" /\ u.path \in Strings
               /\ Bound(perm) = perm.max_bytes
            \/ perm.name = "workspace.r.inspect" /\ u.kind = "inspect" /\ Bound(perm) = perm.max_bytes
            \/ /\ perm.name = "network.fetch" /\ u.kind = "fetch" /\ u.host \in Strings
               /\ Bound(perm) = perm.max_response_bytes
<1>1. CASE perm.name = "project.fs.read"
  <2>1. u \in [kind : {"read"}, path : ReadPaths, bytes : 1 .. MAX_PERMISSION_BYTES]
    BY <1>1 DEF Uses
  <2>2. Bound(perm) = perm.max_bytes
    BY <1>1 DEF Bound, ShapeOf
  <2>. QED BY <1>1, <2>1, <2>2, PermissionAssumption
<1>2. CASE perm.name = "workspace.r.inspect"
  <2>1. u \in [kind : {"inspect"}, operation : {"metadata", "preview"}, bytes : 1 .. MAX_PERMISSION_BYTES]
    BY <1>2 DEF Uses
  <2>2. Bound(perm) = perm.max_bytes
    BY <1>2 DEF Bound, ShapeOf
  <2>. QED BY <1>2, <2>1, <2>2
<1>3. CASE perm.name = "network.fetch"
  <2>1. u \in [kind : {"fetch"}, host : FetchHosts, method : {"GET", "HEAD"}, bytes : 1 .. MAX_PERMISSION_BYTES]
    BY <1>3 DEF Uses
  <2>2. Bound(perm) = perm.max_response_bytes
    BY <1>3 DEF Bound, ShapeOf
  <2>. QED BY <1>3, <2>1, <2>2, PermissionAssumption
<1>. QED BY <1>1, <1>2, <1>3, PermTyped

\* A path the adapter does not take is unreadable.
LEMMA InvalidUnreadable ==
  ASSUME NEW path \in Strings
  PROVE  /\ ~ valid_relative_path(path) => Unreadable(path)
         /\ reserved_path(path) => Unreadable(path)
         /\ valid_relative_path(path) /\ ~ reserved_path(path) => ~ Unreadable(path)
<1>. DEFINE parts == Split(path, "/")
<1>1. ASSUME path = << >> \/ path[1] = "/" PROVE \E i \in DOMAIN parts : parts[i] = << >>
  BY <1>1, EmptyFirst
<1>. HIDE DEF parts
<1>2. valid_relative_path(path) <=> ((path # << >> /\ path[1] # "/") /\ \A i \in DOMAIN parts : parts[i] # << >>)
  BY DEF valid_relative_path, valid_relative_pattern, parts
<1>3. reserved_path(path) <=> (parts[1] = <<"g">> \/ parts[Len(parts)] = <<"e">>)
  BY DEF reserved_path, parts
<1>4. Unreadable(path) <=>
        (parts[1] = <<"g">> \/ parts[Len(parts)] = <<"e">> \/ \E i \in DOMAIN parts : parts[i] = << >>)
  BY DEF Unreadable, parts
<1>. QED BY <1>1, <1>2, <1>3, <1>4

\* The end of a use that is not of a path, and of one whose path a pattern has.
LEMMA Decided ==
  ASSUME perm \in Permissions, validate_permission_request(perm), NEW u \in Uses(perm),
         u.kind = "read" => valid_relative_path(u.path) /\ \E x \in perm.paths : Matches(x, u.path)
  PROVE  /\ Outcome(u) \in {"delivered", "denied"}
         /\ Outcome(u) = "delivered" =>
              /\ u.bytes <= Bound(perm) /\ Bound(perm) <= MAX_PERMISSION_BYTES
              /\ u.kind = "read" => (\E x \in perm.paths : Matches(x, u.path)) /\ ~ Unreadable(u.path)
              /\ u.kind = "fetch" =>
                    \E h \in perm.hosts : IF Wildcard(h) THEN Below(Domain(h), u.host) ELSE h = u.host
         /\ Outcome(u) = "denied" /\ u.kind = "read" => u.bytes > Bound(perm) \/ Unreadable(u.path)
<1>0. Outcome(u) \in {"delivered", "denied"} /\ Bound(perm) <= MAX_PERMISSION_BYTES
  BY DEF Outcome, validate_permission_request, validate_positive_bound
<1>1. perm.paths \in SUBSET Strings /\ perm.hosts \in SUBSET Strings /\ perm.max_bytes \in Int
      /\ perm.max_response_bytes \in Int
  BY PermTyped
<1>2. CASE perm.name = "project.fs.read"
  <2>1. u.kind = "read" /\ u.path \in Strings /\ Bound(perm) = perm.max_bytes
        /\ u.bytes \in 1 .. MAX_PERMISSION_BYTES
    BY <1>2, UseTyped
  <2>2. permission_use_allowed(perm, u) <=> u.bytes <= perm.max_bytes
    BY <1>2, <2>1 DEF permission_use_allowed
  <2>3. AdapterAccepts(perm, u) <=> ~ reserved_path(u.path)
    BY <2>1 DEF AdapterAccepts
  <2>4. Outcome(u) = "delivered" <=> (u.bytes <= perm.max_bytes /\ ~ reserved_path(u.path))
    BY <2>2, <2>3 DEF Outcome
  <2>5. ~ (u.bytes <= perm.max_bytes) => u.bytes > Bound(perm)
    BY <2>1, <1>1 DEF MAX_PERMISSION_BYTES
  <2>. QED BY <1>0, <2>1, <2>4, <2>5, InvalidUnreadable
<1>3. CASE perm.name = "workspace.r.inspect"
  <2>1. u.kind = "inspect" /\ Bound(perm) = perm.max_bytes
    BY <1>3, UseTyped
  <2>2. permission_use_allowed(perm, u) => u.bytes <= perm.max_bytes
    BY <1>3, <2>1 DEF permission_use_allowed
  <2>. QED BY <1>0, <2>1, <2>2 DEF Outcome
<1>4. CASE perm.name = "network.fetch"
  <2>1. u.kind = "fetch" /\ u.host \in Strings /\ Bound(perm) = perm.max_response_bytes
    BY <1>4, UseTyped
  <2>2. permission_use_allowed(perm, u) => u.bytes <= perm.max_response_bytes
    BY <1>4, <2>1 DEF permission_use_allowed
  <2>3. AdapterAccepts(perm, u) => \E h \in perm.hosts : SuffixMatches(h, u.host)
    BY <2>1 DEF AdapterAccepts, adapter_host_matches
  <2>4. ASSUME NEW h \in perm.hosts, SuffixMatches(h, u.host)
        PROVE  IF Wildcard(h) THEN Below(Domain(h), u.host) ELSE h = u.host
    <3>1. CASE Wildcard(h)
      <4>1. h \in Strings
        BY <1>1
      <4>. QED BY <3>1, <4>1, <2>1, <2>4, SuffixBelow
    <3>2. CASE ~ Wildcard(h)
      BY <3>2, <2>4 DEF SuffixMatches
    <3>. QED BY <3>1, <3>2
  <2>. QED BY <1>0, <2>1, <2>2, <2>3, <2>4 DEF Outcome
<1>. QED BY <1>2, <1>3, <1>4, PermTyped

LEMMA PermInitial == PermInit => PermInv
BY DEF PermInit, PermInv, Accepted, DeliveredAsDeclared

LEMMA TailCalls ==
  ASSUME NEW S, NEW c \in Seq(S), c # << >>
  PROVE  Head(c) \in S /\ Tail(c) \in Seq(S) /\ Among(Head(c), c)
         /\ \A t : Among(t, c) <=> (t = Head(c) \/ Among(t, Tail(c)))
<1>. DEFINE one == 1
<1>1. /\ Tail(c) \in Seq(S) /\ Len(c) \in Nat /\ Len(c) # 0 /\ Len(Tail(c)) = Len(c) - 1 /\ Head(c) = c[1]
      /\ \A i \in 1 .. Len(Tail(c)) : Tail(c)[i] = c[i + 1]
  BY HeadTailProperties
<1>2. 1 \in 1 .. Len(c) /\ Head(c) \in S
  BY <1>1
<1>3. ASSUME NEW t, Among(t, c) PROVE t = Head(c) \/ Among(t, Tail(c))
  <2>1. PICK k \in 1 .. Len(c) : c[k] = t
    BY <1>3 DEF Among
  <2>2. CASE k = 1
    BY <2>1, <2>2, <1>1
  <2>3. CASE k # 1
    <3>1. k - 1 \in 1 .. Len(Tail(c)) /\ (k - 1) + 1 = k
      BY <2>3, <1>1
    <3>. QED BY <3>1, <2>1, <1>1 DEF Among
  <2>. QED BY <2>2, <2>3
<1>4. ASSUME NEW t, Among(t, Tail(c)) PROVE Among(t, c)
  <2>1. PICK k \in 1 .. Len(Tail(c)) : Tail(c)[k] = t
    BY <1>4 DEF Among
  <2>2. k + 1 \in 1 .. Len(c)
    BY <1>1
  <2>. QED BY <2>1, <2>2, <1>1 DEF Among
<1>5. Among(Head(c), c)
  BY <1>1, <1>2 DEF Among
<1>. QED BY <1>1, <1>2, <1>3, <1>4, <1>5

LEMMA VisitTyped ==
  ASSUME NEW p \in Strings, NEW v \in Strings, NEW s \in Places(p, v)
  PROVE  /\ Visit(p, v, s) \in Frames(p, v) /\ Visit(p, v, s).at = s
         /\ \A t : Among(t, Visit(p, v, s).left) <=> Called(p, v, s, t)
<1>. DEFINE calls == CallsOf(p, v, s[1], s[2])
<1>1. calls \in Seq(Places(p, v)) /\ \A t : Among(t, calls) <=> Called(p, v, s, t)
  BY CallsAre
<1>2. Visit(p, v, s) = [at |-> s, left |-> calls]
  BY DEF Visit
<1>. HIDE DEF calls
<1>3. Visit(p, v, s).at = s /\ Visit(p, v, s).left = calls
  BY <1>2
<1>. QED BY <1>1, <1>2, <1>3 DEF Frames

LEMMA SearchStarts ==
  ASSUME NEW p \in Strings, NEW v \in Strings
  PROVE  Searching(p, v, <<Visit(p, v, <<1, 1>>)>>, {<<1, 1>>})
<1>. DEFINE s == <<1, 1>>
            f == Visit(p, v, s)
            vs == <<f>>
            sn == {s}
<1>1. s \in Places(p, v)
  BY DEF Places, Strings
<1>2. f \in Frames(p, v) /\ f.at = s /\ \A t : Among(t, f.left) <=> Called(p, v, s, t)
  BY <1>1, VisitTyped
<1>. HIDE DEF s, f
<1>3. vs \in Seq(Frames(p, v)) /\ vs # << >> /\ Len(vs) = 1 /\ vs[1] = f /\ \A k \in 1 .. Len(vs) : vs[k] = f
  BY <1>2
<1>4. 1 \in 1 .. Len(vs)
  BY <1>3
<1>. HIDE DEF vs
<1>5. \A k \in 1 .. Len(vs) : Begun(p, v, vs[k].at) => Begun(p, v, s)
  BY <1>2, <1>3
<1>6. \A k \in 1 .. Len(vs) : \A t : Among(t, vs[k].left) => Called(p, v, vs[k].at, t)
  BY <1>2, <1>3
<1>7. \A x \in sn : \A t : Called(p, v, x, t) =>
         t \in sn \/ \E k \in 1 .. Len(vs) : vs[k].at = x /\ Among(t, vs[k].left)
  BY <1>2, <1>3, <1>4
<1>8. End(p, v) \in sn => vs # << >> /\ vs[Len(vs)].at = End(p, v)
  BY <1>2, <1>3
<1>9. sn \subseteq Places(p, v) /\ s \in sn
  BY <1>1
<1>10. vs \in Seq(Frames(p, v))
  BY <1>3
<1>. HIDE DEF sn
<1>11. Searching(p, v, vs, sn)
  BY <1>5, <1>6, <1>7, <1>8, <1>9, <1>10 DEF Searching, s
<1>. QED BY <1>11 DEF vs, sn, f, s

\* A call that was made before or is made now: one is left less, a frame may come on top.
LEMMA SearchCalls ==
  ASSUME NEW p \in Strings, NEW v \in Strings, NEW vs, NEW sn, Searching(p, v, vs, sn),
         vs # << >>, vs[Len(vs)].at # End(p, v), vs[Len(vs)].left # << >>
  PROVE  LET h == Head(vs[Len(vs)].left)
             done == [vs EXCEPT ![Len(vs)].left = Tail(@)]
         IN  /\ h \in sn => Searching(p, v, done, sn)
             /\ h \notin sn => Searching(p, v, Append(done, Visit(p, v, h)), sn \cup {h})
<1>. DEFINE n == Len(vs)
            F == Frames(p, v)
            P == Places(p, v)
            c == vs[n].left
            h == Head(c)
            f == [at |-> vs[n].at, left |-> Tail(c)]
            done == [vs EXCEPT ![n].left = Tail(@)]
            more == Append(done, Visit(p, v, h))
<1>0. /\ sn \subseteq P /\ <<1, 1>> \in sn /\ vs \in Seq(F)
      /\ \A k \in 1 .. n : Begun(p, v, vs[k].at) => Begun(p, v, <<1, 1>>)
      /\ \A k \in 1 .. n : \A t : Among(t, vs[k].left) => Called(p, v, vs[k].at, t)
      /\ \A s \in sn : \A t : Called(p, v, s, t) =>
            t \in sn \/ \E k \in 1 .. n : vs[k].at = s /\ Among(t, vs[k].left)
      /\ End(p, v) \notin sn
  BY DEF Searching
<1>1. n \in Nat /\ n # 0 /\ n \in 1 .. n /\ DOMAIN vs = 1 .. n /\ \A k \in 1 .. n : vs[k] \in F
  <2>. HIDE DEF F
  <2>1. n \in Nat /\ n # 0 /\ DOMAIN vs = 1 .. n /\ \A k \in 1 .. n : vs[k] \in F
    BY <1>0
  <2>. QED BY <2>1
<1>2. vs[n] \in F /\ c \in Seq(P) /\ vs[n].at \in P /\ DOMAIN vs[n] = {"at", "left"}
  BY <1>1 DEF Frames
<1>3. h \in P /\ Tail(c) \in Seq(P) /\ Among(h, c) /\ \A t : Among(t, c) <=> (t = h \/ Among(t, Tail(c)))
  <2>. HIDE DEF P
  <2>1. c # << >>
    OBVIOUS
  <2>2. c \in Seq(P)
    BY <1>2
  <2>. HIDE DEF c
  <2>. QED BY <2>1, <2>2, TailCalls
<1>4. f \in F /\ f.at = vs[n].at /\ f.left = Tail(c)
  <2>1. PICK q : q = Tail(c) /\ q \in Seq(P)
    BY <1>3
  <2>2. PICK a : a = vs[n].at /\ a \in P
    BY <1>2
  <2>3. f = [at |-> a, left |-> q]
    BY <2>1, <2>2
  <2>. QED BY <2>1, <2>2, <2>3 DEF Frames
<1>5. done = [vs EXCEPT ![n] = f]
  <2>1. [vs[n] EXCEPT !.left = Tail(@)] = f
    BY <1>2
  <2>. QED BY <2>1, <1>1
<1>. HIDE DEF f, done, F, c
<1>6. done \in Seq(F) /\ Len(done) = n /\ done[n] = f /\ \A k \in 1 .. n : k # n => done[k] = vs[k]
  BY <1>0, <1>1, <1>4, <1>5
<1>7. done # << >>
  BY <1>1, <1>6
<1>8. \A k \in 1 .. n : done[k].at = vs[k].at /\ \A t : Among(t, done[k].left) => Among(t, vs[k].left)
  BY <1>3, <1>4, <1>6 DEF c
\* What a frame had left it has left, or it is the call made now.
<1>9. \A k \in 1 .. n : \A t : Among(t, vs[k].left) => t = h \/ Among(t, done[k].left)
  BY <1>3, <1>4, <1>6 DEF c
<1>10. ASSUME h \in sn PROVE Searching(p, v, done, sn)
  <2>1. \A k \in 1 .. n : Begun(p, v, done[k].at) => Begun(p, v, <<1, 1>>)
    BY <1>0, <1>8
  <2>2. \A k \in 1 .. n : \A t : Among(t, done[k].left) => Called(p, v, done[k].at, t)
    BY <1>0, <1>8
  <2>3. \A s \in sn : \A t : Called(p, v, s, t) =>
            t \in sn \/ \E k \in 1 .. n : done[k].at = s /\ Among(t, done[k].left)
    <3>. SUFFICES ASSUME NEW s \in sn, NEW t, Called(p, v, s, t), t \notin sn
                  PROVE  \E k \in 1 .. n : done[k].at = s /\ Among(t, done[k].left)
      OBVIOUS
    <3>1. PICK k \in 1 .. n : vs[k].at = s /\ Among(t, vs[k].left)
      BY <1>0
    <3>2. t # h
      BY <1>10
    <3>. QED BY <3>1, <3>2, <1>8, <1>9
  <2>. QED BY <2>1, <2>2, <2>3, <1>0, <1>6 DEF Searching, P, F
<1>11. ASSUME h \notin sn PROVE Searching(p, v, more, sn \cup {h})
  <2>. DEFINE g == Visit(p, v, h)
  <2>1. g \in F /\ g.at = h /\ \A t : Among(t, g.left) <=> Called(p, v, h, t)
    BY <1>3, VisitTyped DEF F
  <2>. HIDE DEF g
  <2>0. /\ Append(done, g) \in Seq(F) /\ Len(Append(done, g)) = Len(done) + 1
        /\ \A k \in 1 .. Len(done) : Append(done, g)[k] = done[k]
        /\ Append(done, g)[Len(done) + 1] = g
    BY <1>6, <2>1, AppendProperties
  <2>00. more = Append(done, g)
    BY DEF g
  <2>. HIDE DEF more
  <2>2. more \in Seq(F) /\ Len(more) = n + 1 /\ \A k \in 1 .. n : more[k] = done[k]
    BY <1>6, <2>0, <2>00
  <2>3. more[n + 1] = g /\ n + 1 \in 1 .. n + 1 /\ \A k \in 1 .. n + 1 : k \in 1 .. n \/ k = n + 1
    <3>1. more[n + 1] = g
      BY <1>6, <2>0, <2>00
    <3>2. n + 1 \in 1 .. n + 1 /\ \A k \in 1 .. n + 1 : k \in 1 .. n \/ k = n + 1
      BY <1>1
    <3>. QED BY <3>1, <3>2
  <2>4. \A k \in 1 .. n : k \in 1 .. n + 1
    BY <1>1
  <2>5. Called(p, v, vs[n].at, h)
    BY <1>0, <1>1, <1>3 DEF c
  <2>6. \A k \in 1 .. n + 1 : Begun(p, v, more[k].at) => Begun(p, v, <<1, 1>>)
    <3>1. Begun(p, v, h) => Begun(p, v, vs[n].at)
      BY <2>5, <1>2, BackStep
    <3>. QED BY <3>1, <2>1, <2>2, <2>3, <1>0, <1>1, <1>8
  <2>7. \A k \in 1 .. n + 1 : \A t : Among(t, more[k].left) => Called(p, v, more[k].at, t)
    BY <2>1, <2>2, <2>3, <1>0, <1>8
  <2>8. ASSUME NEW s \in sn \cup {h}, NEW t, Called(p, v, s, t), t \notin sn \cup {h}
        PROVE  \E k \in 1 .. n + 1 : more[k].at = s /\ Among(t, more[k].left)
    <3>1. CASE s = h
      BY <3>1, <2>8, <2>1, <2>3
    <3>2. CASE s \in sn
      <4>1. PICK k \in 1 .. n : vs[k].at = s /\ Among(t, vs[k].left)
        BY <1>0, <2>8, <3>2
      <4>2. t # h
        BY <2>8
      <4>. QED BY <4>1, <4>2, <1>8, <1>9, <2>2, <2>4
    <3>. QED BY <3>1, <3>2
  <2>9. End(p, v) \in sn \cup {h} => more # << >> /\ more[Len(more)].at = End(p, v)
    <3>1. more # << >>
      BY <2>2, <1>1
    <3>. QED BY <3>1, <1>0, <2>1, <2>2, <2>3
  <2>10. sn \cup {h} \subseteq P /\ <<1, 1>> \in sn \cup {h}
    BY <1>0, <1>3
  <2>11. \A k \in 1 .. Len(more) : Begun(p, v, more[k].at) => Begun(p, v, <<1, 1>>)
    BY <2>2, <2>6
  <2>12. \A k \in 1 .. Len(more) : \A t : Among(t, more[k].left) => Called(p, v, more[k].at, t)
    BY <2>2, <2>7
  <2>13. \A s \in sn \cup {h} : \A t : Called(p, v, s, t) =>
            t \in sn \cup {h} \/ \E k \in 1 .. Len(more) : more[k].at = s /\ Among(t, more[k].left)
    BY <2>2, <2>8
  <2>14. more \in Seq(F)
    BY <2>2
  <2>. HIDE DEF h
  <2>. QED BY <2>9, <2>10, <2>11, <2>12, <2>13, <2>14 DEF Searching, P, F
<1>. QED BY <1>10, <1>11 DEF done, c

\* A visit with no call left: the one below goes on; the last one has found nothing.
LEMMA SearchReturns ==
  ASSUME NEW p \in Strings, NEW v \in Strings, NEW vs, NEW sn, Searching(p, v, vs, sn),
         vs # << >>, vs[Len(vs)].at # End(p, v), vs[Len(vs)].left = << >>
  PROVE  LET below == SubSeq(vs, 1, Len(vs) - 1)
         IN  /\ Searching(p, v, below, sn)
             /\ below = << >> => ~ Begun(p, v, <<1, 1>>)
<1>. DEFINE n == Len(vs)
            F == Frames(p, v)
            P == Places(p, v)
            below == SubSeq(vs, 1, n - 1)
<1>0. /\ sn \subseteq P /\ <<1, 1>> \in sn /\ vs \in Seq(F)
      /\ \A k \in 1 .. n : Begun(p, v, vs[k].at) => Begun(p, v, <<1, 1>>)
      /\ \A k \in 1 .. n : \A t : Among(t, vs[k].left) => Called(p, v, vs[k].at, t)
      /\ \A s \in sn : \A t : Called(p, v, s, t) =>
            t \in sn \/ \E k \in 1 .. n : vs[k].at = s /\ Among(t, vs[k].left)
      /\ End(p, v) \notin sn
  BY DEF Searching
<1>. HIDE DEF F, P
<1>1. n \in Nat /\ n # 0
  BY <1>0
<1>2. /\ below \in Seq(F) /\ Len(below) = n - 1 /\ \A k \in 1 .. n - 1 : below[k] = vs[k]
  <2>1. 1 \in 1 .. n + 1 /\ n - 1 \in 1 - 1 .. n /\ n - 1 - 1 + 1 = n - 1
    BY <1>1
  <2>2. /\ below \in Seq(F) /\ Len(below) = n - 1 - 1 + 1 /\ \A k \in 1 .. n - 1 - 1 + 1 : below[k] = vs[1 + k - 1]
    BY <2>1, <1>0, SubSeqProperties
  <2>3. \A k \in 1 .. n - 1 : 1 + k - 1 = k
    BY <1>1
  <2>. QED BY <2>1, <2>2, <2>3
<1>. HIDE DEF below
<1>3. \A k \in 1 .. n - 1 : k \in 1 .. n
  BY <1>1
<1>4. ASSUME NEW s \in sn, NEW t, Called(p, v, s, t), t \notin sn
      PROVE  \E k \in 1 .. n - 1 : below[k].at = s /\ Among(t, below[k].left)
  <2>1. PICK k \in 1 .. n : vs[k].at = s /\ Among(t, vs[k].left)
    BY <1>0, <1>4
  <2>2. ~ Among(t, << >>)
    <3>1. Len(<< >>) = 0 /\ 1 .. 0 = {}
      OBVIOUS
    <3>. QED BY <3>1 DEF Among
  <2>3. k # n
    BY <2>1, <2>2
  <2>4. k \in 1 .. n - 1
    BY <2>3, <1>1
  <2>. QED BY <2>1, <2>4, <1>2
<1>5. Searching(p, v, below, sn)
  <2>1. \A k \in 1 .. Len(below) : Begun(p, v, below[k].at) => Begun(p, v, <<1, 1>>)
    BY <1>0, <1>2, <1>3
  <2>2. \A k \in 1 .. Len(below) : \A t : Among(t, below[k].left) => Called(p, v, below[k].at, t)
    BY <1>0, <1>2, <1>3
  <2>3. \A s \in sn : \A t : Called(p, v, s, t) =>
            t \in sn \/ \E k \in 1 .. Len(below) : below[k].at = s /\ Among(t, below[k].left)
    BY <1>2, <1>4
  <2>. QED BY <2>1, <2>2, <2>3, <1>0, <1>2 DEF Searching, P, F
<1>6. ASSUME below = << >> PROVE ~ Begun(p, v, <<1, 1>>)
  <2>1. n - 1 = 0
    BY <1>2, <1>6
  <2>2. \A s \in sn : \A t : Called(p, v, s, t) => t \in sn
    <3>. HIDE DEF n
    <3>1. \A k \in 1 .. n - 1 : FALSE
      <4>1. n = 1
        BY <2>1, <1>1
      <4>. QED BY <4>1
    <3>. QED BY <1>4, <3>1
  <2>. QED BY <2>2, <1>0, NothingFound DEF P
<1>. QED BY <1>5, <1>6 DEF below

LEMMA EndBegun ==
  ASSUME NEW p \in Strings, NEW v \in Strings
  PROVE  Begun(p, v, End(p, v))
<1>1. Len(p) \in Nat /\ Len(v) \in Nat
  BY DEF Strings
<1>2. Len(p) + 1 \in 1 .. Len(p) + 1
  BY <1>1
<1>3. Language(p, v)[Len(p) + 1] = {Len(v) + 1}
  BY <1>2, LanguageEquations DEF Begins
<1>. QED BY <1>3 DEF Begun, End

\* A step that neither ends a use nor begins to match leaves what holds.
LEMMA GateStep ==
  ASSUME PermInv, stage' \notin {"matching", "delivered", "denied"}, UNCHANGED <<perm, use, globvars>>,
         stage # "matching", stage' \in Accepted => validate_permission_request(perm)
  PROVE  PermInv'
<1>1. visits' = << >> /\ perm' \in Permissions
  BY DEF PermInv, globvars
<1>2. DeliveredAsDeclared'
  BY DEF DeliveredAsDeclared
<1>3. stage' \in Accepted => validate_permission_request(perm')
  OBVIOUS
<1>. QED BY <1>1, <1>2, <1>3 DEF PermInv

LEMMA UseStep ==
  ASSUME PermInv, NEW u \in Uses(perm), UsePermission(u)
  PROVE  PermInv'
<1>0. perm \in Permissions /\ validate_permission_request(perm) /\ visits = << >> /\ stage = "granted"
  BY DEF PermInv, UsePermission, Accepted
<1>1. perm' = perm /\ use' = u
  BY DEF UsePermission
<1>2. CASE u.kind = "read" /\ valid_relative_path(u.path) /\ stage' = "matching" /\ untried' = perm.paths
           /\ UNCHANGED <<tested, visits, seen>>
  <2>1. PatternsTried'
    BY <1>0, <1>1, <1>2 DEF PatternsTried
  <2>2. DeliveredAsDeclared'
    BY <1>2 DEF DeliveredAsDeclared
  <2>. QED BY <1>0, <1>1, <1>2, <2>1, <2>2 DEF PermInv, Accepted
<1>3. CASE u.kind = "read" /\ ~ valid_relative_path(u.path) /\ stage' = "denied" /\ UNCHANGED globvars
  <2>1. u.path \in Strings
    BY <1>0, <1>3, UseTyped
  <2>2. Unreadable(u.path)
    BY <2>1, <1>3, InvalidUnreadable
  <2>3. DeliveredAsDeclared'
    BY <2>2, <1>1, <1>3 DEF DeliveredAsDeclared
  <2>. QED BY <1>0, <1>1, <1>3, <2>3 DEF PermInv, Accepted, globvars
<1>4. CASE u.kind # "read" /\ stage' = Outcome(u) /\ UNCHANGED globvars
  <2>1. /\ Outcome(u) \in {"delivered", "denied"}
        /\ Outcome(u) = "delivered" =>
              /\ u.bytes <= Bound(perm) /\ Bound(perm) <= MAX_PERMISSION_BYTES
              /\ u.kind = "read" => (\E x \in perm.paths : Matches(x, u.path)) /\ ~ Unreadable(u.path)
              /\ u.kind = "fetch" =>
                    \E h \in perm.hosts : IF Wildcard(h) THEN Below(Domain(h), u.host) ELSE h = u.host
    BY <1>0, <1>4, Decided
  <2>2. DeliveredAsDeclared'
    BY <2>1, <1>1, <1>4 DEF DeliveredAsDeclared
  <2>. QED BY <1>0, <1>1, <1>4, <2>1, <2>2 DEF PermInv, Accepted, globvars
<1>. QED BY <1>2, <1>3, <1>4 DEF UsePermission

LEMMA GlobStep ==
  ASSUME PermInv, NEW x \in untried, glob_matches(x)
  PROVE  PermInv'
<1>0. /\ perm \in Permissions /\ validate_permission_request(perm) /\ visits = << >> /\ stage = "matching"
      /\ use \in Uses(perm) /\ use.kind = "read" /\ valid_relative_path(use.path) /\ PatternsTried
  BY DEF PermInv, glob_matches, Accepted
<1>1. /\ UNCHANGED <<perm, stage, use>> /\ untried' = untried \ {x} /\ tested' = x
      /\ visits' = <<Visit(x, use.path, <<1, 1>>)>> /\ seen' = {<<1, 1>>}
  BY DEF glob_matches
<1>2. x \in perm.paths /\ x \in Strings /\ use.path \in Strings
  BY <1>0, PermTyped, UseTyped DEF PatternsTried
<1>3. Searching(tested', use'.path, visits', seen')
  BY <1>1, <1>2, SearchStarts
<1>4. visits' # << >>
  BY <1>1
<1>5. \A y \in perm.paths \ untried' : ~ Begun(y, use.path, <<1, 1>>) \/ y = tested'
  BY <1>0, <1>1 DEF PatternsTried
<1>6. untried' \subseteq perm.paths
  BY <1>0, <1>1 DEF PatternsTried
<1>7. PatternsTried'
  BY <1>1, <1>2, <1>3, <1>4, <1>5, <1>6 DEF PatternsTried
<1>8. DeliveredAsDeclared'
  BY <1>0, <1>1 DEF DeliveredAsDeclared
<1>. QED BY <1>0, <1>1, <1>7, <1>8 DEF PermInv

LEMMA NoPatternStep ==
  ASSUME PermInv, NoPattern
  PROVE  PermInv'
<1>0. /\ perm \in Permissions /\ visits = << >> /\ stage = "matching" /\ untried = {} /\ PatternsTried
  BY DEF PermInv, NoPattern
<1>1. stage' = "denied" /\ UNCHANGED <<perm, use, globvars>>
  BY DEF NoPattern
<1>2. \A x \in perm.paths : ~ Matches(x, use.path)
  BY <1>0, MatchesBegun DEF PatternsTried
<1>3. DeliveredAsDeclared'
  BY <1>1, <1>2 DEF DeliveredAsDeclared
<1>. QED BY <1>0, <1>1, <1>3 DEF PermInv, Accepted, globvars

LEMMA VisitStep ==
  ASSUME PermInv, visit
  PROVE  PermInv'
<1>. DEFINE n == Len(visits)
            here == visits[n]
            done == [visits EXCEPT ![n].left = Tail(@)]
            h == Head(here.left)
<1>0. /\ perm \in Permissions /\ validate_permission_request(perm) /\ visits # << >> /\ stage = "matching"
      /\ use \in Uses(perm) /\ use.kind = "read" /\ valid_relative_path(use.path) /\ PatternsTried
  BY DEF PermInv, visit, Accepted
<1>1. UNCHANGED <<perm, use, untried, tested>>
  BY DEF visit
<1>2. tested \in perm.paths /\ tested \in Strings /\ use.path \in Strings
  BY <1>0, PermTyped, UseTyped DEF PatternsTried
<1>3. Searching(tested, use.path, visits, seen)
  BY <1>0 DEF PatternsTried
<1>4. AtEnd(here.at) <=> here.at = End(tested, use.path)
  BY DEF AtEnd, End
\* A step that goes on with the same pattern
<1>5. ASSUME stage' = stage, Searching(tested, use.path, visits', seen'),
             visits' = << >> => ~ Begun(tested, use.path, <<1, 1>>)
      PROVE  PermInv'
  <2>1. PatternsTried'
    BY <1>0, <1>1, <1>5 DEF PatternsTried
  <2>2. DeliveredAsDeclared'
    BY <1>0, <1>5 DEF DeliveredAsDeclared
  <2>. QED BY <1>0, <1>1, <1>5, <2>1, <2>2 DEF PermInv
<1>6. CASE AtEnd(here.at) /\ stage' = Outcome(use) /\ visits' = << >> /\ UNCHANGED seen
  <2>1. n \in 1 .. n
    <3>. DEFINE F == Frames(tested, use.path)
    <3>1. visits \in Seq(F)
      BY <1>3 DEF Searching
    <3>. HIDE DEF F
    <3>. QED BY <3>1, <1>0
  <2>2. Begun(tested, use.path, <<1, 1>>)
    <3>1. Begun(tested, use.path, here.at)
      BY <1>2, <1>4, <1>6, EndBegun
    <3>2. \A k \in 1 .. n : Begun(tested, use.path, visits[k].at) => Begun(tested, use.path, <<1, 1>>)
      BY <1>3 DEF Searching
    <3>. QED BY <2>1, <3>1, <3>2
  <2>3. \E x \in perm.paths : Matches(x, use.path)
    BY <1>2, <2>2, MatchesBegun
  <2>. PICK u : u = use
    OBVIOUS
  <2>4. /\ Outcome(u) \in {"delivered", "denied"}
        /\ Outcome(u) = "delivered" =>
              /\ u.bytes <= Bound(perm) /\ Bound(perm) <= MAX_PERMISSION_BYTES
              /\ u.kind = "read" => (\E x \in perm.paths : Matches(x, u.path)) /\ ~ Unreadable(u.path)
              /\ u.kind = "fetch" =>
                    \E x \in perm.hosts : IF Wildcard(x) THEN Below(Domain(x), u.host) ELSE x = u.host
        /\ Outcome(u) = "denied" /\ u.kind = "read" => u.bytes > Bound(perm) \/ Unreadable(u.path)
    BY <1>0, <2>3, Decided
  <2>5. DeliveredAsDeclared'
    BY <2>4, <1>0, <1>1, <1>6 DEF DeliveredAsDeclared
  <2>. QED BY <1>0, <1>1, <1>6, <2>4, <2>5 DEF PermInv, Accepted
<1>7. CASE /\ ~ AtEnd(here.at) /\ here.left # << >> /\ h \in seen
           /\ visits' = done /\ UNCHANGED <<stage, seen>>
  <2>1. Searching(tested, use.path, done, seen)
    BY <1>0, <1>2, <1>3, <1>4, <1>7, SearchCalls
  <2>2. done # << >>
    BY <1>0
  <2>. HIDE DEF done, here, h
  <2>. QED BY <1>5, <1>7, <2>1, <2>2
<1>8. CASE /\ ~ AtEnd(here.at) /\ here.left # << >> /\ h \notin seen
           /\ visits' = Append(done, Visit(tested, use.path, h)) /\ seen' = seen \cup {h}
           /\ UNCHANGED stage
  <2>. DEFINE g == Visit(tested, use.path, h)
  <2>1. Searching(tested, use.path, Append(done, g), seen \cup {h})
    BY <1>0, <1>2, <1>3, <1>4, <1>8, SearchCalls
  <2>2. Append(done, g) # << >>
    OBVIOUS
  <2>3. visits' = Append(done, g) /\ seen' = seen \cup {h} /\ stage' = stage
    BY <1>8
  <2>. HIDE DEF done, here, h, g
  <2>. QED BY <1>5, <2>1, <2>2, <2>3
<1>9. CASE ~ AtEnd(here.at) /\ here.left = << >> /\ visits' = SubSeq(visits, 1, n - 1) /\ UNCHANGED <<stage, seen>>
  <2>. DEFINE below == SubSeq(visits, 1, n - 1)
  <2>1. Searching(tested, use.path, below, seen) /\ (below = << >> => ~ Begun(tested, use.path, <<1, 1>>))
    BY <1>0, <1>2, <1>3, <1>4, <1>9, SearchReturns
  <2>. HIDE DEF below
  <2>2. visits' = below
    BY <1>9 DEF below
  <2>. QED BY <1>5, <1>9, <2>1, <2>2
<1>. QED BY <1>6, <1>7, <1>8, <1>9 DEF visit

LEMMA PermStep == PermInv /\ [PermNext]_permvars => PermInv'
<1>. SUFFICES ASSUME PermInv, [PermNext]_permvars PROVE PermInv'
  OBVIOUS
<1>1. CASE ParseManifest
  BY <1>1, GateStep DEF ParseManifest, Gate, Accepted
<1>2. CASE PlanRequest
  BY <1>2, GateStep DEF PlanRequest, Gate, Accepted, PermInv
<1>3. CASE StoreRequest
  BY <1>3, GateStep DEF StoreRequest, Gate, Accepted, PermInv
<1>4. CASE GrantStored
  BY <1>4, GateStep DEF GrantStored, Gate, Accepted, PermInv
<1>5. CASE \E u \in Uses(perm) : UsePermission(u)
  BY <1>5, UseStep
<1>6. CASE \E x \in untried : glob_matches(x)
  BY <1>6, GlobStep
<1>7. CASE NoPattern
  BY <1>7, NoPatternStep
<1>8. CASE visit
  BY <1>8, VisitStep
<1>9. CASE UNCHANGED permvars
  <2>1. UNCHANGED <<perm, stage, use, untried, tested, visits, seen>>
    BY <1>9 DEF permvars, globvars
  <2>2. PatternsTried' <=> PatternsTried
    BY <2>1 DEF PatternsTried
  <2>3. DeliveredAsDeclared' <=> DeliveredAsDeclared
    BY <2>1 DEF DeliveredAsDeclared
  <2>. QED BY <2>1, <2>2, <2>3 DEF PermInv
<1>. QED BY <1>1, <1>2, <1>3, <1>4, <1>5, <1>6, <1>7, <1>8, <1>9 DEF PermNext

\* A use is delivered only if the manifest declares it, and a declared read is not
\* denied, whatever the patterns, the paths and the hosts: the gates of the manifest, the plan, the store
\* and the grant, the recursive visit of glob_matches with its memo and the suffix
\* test of host_matches decide what the language of the declared patterns says.
THEOREM PermissionsDeliver == PermSpec => []DeliveredAsDeclared
<1>1. PermInv => DeliveredAsDeclared
  BY DEF PermInv
<1>. QED BY <1>1, PermInitial, PermStep, PTL DEF PermSpec
==============================================================================
