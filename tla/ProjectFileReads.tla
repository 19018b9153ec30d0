-------------------------- MODULE ProjectFileReads --------------------------
(***************************************************************************)
(* One project.fs.read of a plugin: the call (invoke_plugin_with_hook_inner *)
(* of workspace_plugins.rs) and the read itself (plugin_fs.rs), a sequence *)
(* of file-system calls between which editors, R and Git go on changing    *)
(* the project.                                                            *)
(*                                                                         *)
(* The path that is read has one directory above the file.  A file is its  *)
(* length and a version that every write raises; the bytes read are the    *)
(* versions they come from.  Every write changes length or modification    *)
(* time: a write within the granularity of the clock is not modelled.      *)
(***************************************************************************)
EXTENDS Integers, Sequences, FiniteSets

CONSTANTS
    FileIds,            \* the files the name may stand for
    MaxRead,            \* max_bytes of the request
    MaxFileChanges,     \* bound: changes other programs make
    MaxReadFaults       \* bound: failures of the store

ASSUME ReadsAssumption ==
    MaxRead \in Nat /\ FileIds \cap {"link", "directory", "gone", "elsewhere"} = {}

VARIABLES
    rootdir,     \* the identity of the project root
    dir,         \* what the directory of the path is
    leaf,        \* what its name stands for
    files,       \* the files: length and version
    fread,       \* the call: step, identities read and bytes
    fgrant,      \* the once grant: "free", "reserved", "spent"
    fauth,       \* "live", "revoked", or "gone" with its host
    freadrows,   \* the call events recorded
    changes, readfaults

freadvars == <<rootdir, dir, leaf, files, fread, fgrant, fauth, freadrows, changes, readfaults>>
disk == <<rootdir, dir, leaf, files, changes>>

Missing == "gone"
NoIdentity == [id |-> Missing, len |-> 0, ver |-> 0]

ReadInit ==
    /\ rootdir = 1 /\ dir = "dir" /\ leaf \in FileIds
    /\ files \in [FileIds -> [len : 0 .. MaxRead + 1, ver : {1}]]
    /\ fread = [step |-> "guest", root |-> 0, before |-> NoIdentity, open |-> Missing, canonical |-> Missing,
                bytes |-> << >>, result |-> "none"]
    /\ fgrant = "free" /\ fauth = "live" /\ freadrows = << >>
    /\ changes = 0 /\ readfaults = 0

(***************************************************************************)
(* The project                                                             *)
(***************************************************************************)

\* What the path leads to now, and where it really lies.
AtPath == IF dir \in {"dir", "repository"} THEN leaf ELSE Missing
CanonicalFile == IF dir \in {"dir", "repository"} THEN leaf ELSE "elsewhere"

\* metadata_identity without the modification time.
metadata_identity_LengthOnly(f) ==
    IF f \in FileIds THEN [id |-> f, len |-> files[f].len, ver |-> 1] ELSE NoIdentity

\* metadata_identity: device and inode, length, modification time.
metadata_identity(f) ==
    IF f \in FileIds THEN [id |-> f, len |-> files[f].len, ver |-> files[f].ver] ELSE NoIdentity

\* Another program writes a file, puts another one in its place, or replaces a
\* directory above it.
Changed == changes < MaxFileChanges /\ changes' = changes + 1

WriteFile ==
    /\ Changed
    /\ \E f \in FileIds : \E n \in 0 .. MaxRead + 1 :
          files' = [files EXCEPT ![f] = [len |-> n, ver |-> @.ver + 1]]
    /\ UNCHANGED <<rootdir, dir, leaf>>

ReplaceFile ==
    /\ Changed
    /\ leaf' \in (FileIds \cup {"link", "directory", Missing}) \ {leaf}
    /\ UNCHANGED <<rootdir, dir, files>>

ReplaceDirectory ==
    /\ Changed
    /\ \/ dir' \in {"dir", "repository", "link", "file", Missing} \ {dir} /\ UNCHANGED rootdir
       \/ rootdir' = rootdir + 1 /\ UNCHANGED dir
    /\ UNCHANGED <<leaf, files>>

(***************************************************************************)
(* Admission                                                               *)
(***************************************************************************)

At(s) == fread.step = s
ReadTo(s) == fread' = [fread EXCEPT !.step = s]
ReadRecorded(event) == freadrows' = Append(freadrows, event) /\ UNCHANGED readfaults
ReadStoreFails == readfaults < MaxReadFaults /\ readfaults' = readfaults + 1 /\ UNCHANGED freadrows
ReadAuthorized == fauth = "live"

\* The request of the guest is admitted and its once grant reserved, or it is
\* recorded as denied.
AdmitRead ==
    /\ At("guest")
    /\ \/ ReadAuthorized /\ fgrant' = "reserved" /\ ReadTo("admitted") /\ UNCHANGED <<freadrows, readfaults>>
       \/ ~ReadAuthorized /\ ReadRecorded("call_denied") /\ ReadTo("ended") /\ UNCHANGED fgrant
       \/ ~ReadAuthorized /\ ReadStoreFails /\ ReadTo("ended") /\ UNCHANGED fgrant
    /\ UNCHANGED <<fauth, disk>>

RecordReadAdmission ==
    /\ At("admitted")
    /\ \/ ReadRecorded("call_admitted") /\ ReadTo("root") /\ UNCHANGED fgrant
       \/ ReadStoreFails /\ fgrant' = "free" /\ ReadTo("ended")
    /\ UNCHANGED <<fauth, disk>>

(***************************************************************************)
(* read_project_file                                                       *)
(***************************************************************************)

quiet == UNCHANGED <<fgrant, fauth, freadrows, readfaults, disk>>
ReadFails(code) == fread' = [fread EXCEPT !.step = "failed", !.result = code] /\ quiet

\* The tests of the request (revision, bound, path, reserved names: the rules
\* of PermissionRules), then the root.
RootIdentity ==
    /\ At("root")
    /\ \/ \E code \in {"StaleProject", "TooLarge", "InvalidPath", "ReservedPath", "InvalidProject"} : ReadFails(code)
       \/ fread' = [fread EXCEPT !.step = "directory", !.root = rootdir] /\ quiet

\* The walk down the components, none of which may be a link.
WalkDirectory ==
    /\ At("directory")
    /\ CASE dir = "dir" -> ReadTo("leaf") /\ quiet
         [] dir = "repository" -> ReadFails("NestedRepository")
         [] dir = "link" -> ReadFails("SymlinkOrReparse")
         [] dir = "file" -> ReadFails("NotRegularFile")
         [] dir = Missing -> ReadFails("IoFailed")

WalkLeaf ==
    /\ At("leaf")
    /\ CASE AtPath \in FileIds -> ReadTo("before") /\ quiet
         [] AtPath = "link" -> ReadFails("SymlinkOrReparse")
         [] AtPath = "directory" -> ReadFails("NotRegularFile")
         [] AtPath = Missing -> ReadFails("IoFailed")

\* The identity the file has before it is opened.
BeforeIdentity ==
    /\ At("before")
    /\ IF AtPath = Missing THEN ReadFails("IoFailed")
       ELSE fread' = [fread EXCEPT !.step = "canonical", !.before = metadata_identity(AtPath)] /\ quiet

Canonicalize ==
    /\ At("canonical")
    /\ IF CanonicalFile \in {Missing, "elsewhere"} THEN ReadFails("OutsideProject")
       ELSE fread' = [fread EXCEPT !.step = "open", !.canonical = CanonicalFile] /\ quiet

\* open follows the path as it is now.
Open ==
    /\ At("open")
    /\ IF AtPath \notin FileIds THEN ReadFails("IoFailed")
       ELSE IF metadata_identity(AtPath) # fread.before THEN ReadFails("FileChanged")
       ELSE fread' = [fread EXCEPT !.step = "first", !.open = AtPath] /\ quiet

\* read_to_end of at most max_bytes + 1, in two reads of the opened file.
ReadChunk(from, to, n) ==
    /\ At(from)
    /\ LET f == files[fread.open]
           upto == IF f.len < n THEN f.len ELSE n
       IN  fread' = [fread EXCEPT !.step = to,
                         !.bytes = @ \o [i \in 1 .. upto - Len(@) |-> f.ver]]
    /\ quiet

FirstChunk == ReadChunk("first", "second", 1)
SecondChunk == ReadChunk("second", "size", MaxRead + 1)

TestSize ==
    /\ At("size")
    /\ IF Len(fread.bytes) > MaxRead THEN ReadFails("TooLarge") ELSE ReadTo("opened") /\ quiet

\* Afterwards: the opened file, the path and the root must be what they were.
AfterOpened ==
    /\ At("opened")
    /\ IF metadata_identity(fread.open) # fread.before THEN ReadFails("FileChanged") ELSE ReadTo("path") /\ quiet

AfterPath ==
    /\ At("path")
    /\ IF metadata_identity(AtPath) # fread.before THEN ReadFails("FileChanged") ELSE ReadTo("end") /\ quiet

AfterRoot ==
    /\ At("end")
    /\ IF rootdir # fread.root \/ CanonicalFile # fread.canonical THEN ReadFails("FileChanged")
       ELSE fread' = [fread EXCEPT !.step = "read", !.result = "value"] /\ quiet

(***************************************************************************)
(* What the call makes of it                                               *)
(***************************************************************************)

\* A failed read gives the reservation back and is recorded.
ReadFailed ==
    /\ At("failed")
    /\ ReadRecorded("call_failed") \/ ReadStoreFails
    /\ fgrant' = "free" /\ ReadTo("ended")
    /\ UNCHANGED <<fauth, disk>>

\* The completion of a read whose host or grant went away is a denial.
AdmitResult ==
    /\ At("read")
    /\ \/ ReadAuthorized /\ ReadTo("complete") /\ UNCHANGED <<fgrant, freadrows, readfaults>>
       \/ /\ ~ReadAuthorized
          /\ ReadRecorded("call_denied") \/ ReadStoreFails
          /\ fgrant' = "free" /\ ReadTo("ended")
    /\ UNCHANGED <<fauth, disk>>

CompleteRead ==
    /\ At("complete")
    /\ \/ ReadRecorded("call_completed") /\ ReadTo("deliver") /\ UNCHANGED fgrant
       \/ ReadStoreFails /\ fgrant' = "free" /\ ReadTo("ended")
    /\ UNCHANGED <<fauth, disk>>

\* A result whose grant went stale after it was recorded is not delivered: the
\* grant is spent and the plugin removed.
DeliverRead ==
    /\ At("deliver")
    /\ fgrant' = "spent"
    /\ \/ ReadAuthorized /\ ReadTo("delivered") /\ UNCHANGED <<freadrows, readfaults>>
       \/ /\ ~ReadAuthorized /\ ReadTo("ended")
          /\ ReadRecorded("call_failed") \/ ReadStoreFails
    /\ UNCHANGED <<fauth, disk>>

EndAuthority ==
    /\ ReadAuthorized
    /\ fauth' \in {"revoked", "gone"}
    /\ UNCHANGED <<fread, fgrant, freadrows, readfaults, disk>>

readcall == <<fread, fgrant, fauth, freadrows, readfaults>>

ReadNext ==
    \/ (WriteFile \/ ReplaceFile \/ ReplaceDirectory) /\ UNCHANGED readcall
    \/ AdmitRead
    \/ RecordReadAdmission
    \/ RootIdentity
    \/ WalkDirectory
    \/ WalkLeaf
    \/ BeforeIdentity
    \/ Canonicalize
    \/ Open
    \/ FirstChunk
    \/ SecondChunk
    \/ TestSize
    \/ AfterOpened
    \/ AfterPath
    \/ AfterRoot
    \/ ReadFailed
    \/ AdmitResult
    \/ CompleteRead
    \/ DeliverRead
    \/ EndAuthority

ReadSpec == ReadInit /\ [][ReadNext]_freadvars

(***************************************************************************)
(* Properties                                                              *)
(***************************************************************************)

\* What a plugin is given is one version of one file, whole: no byte of a later
\* write, nothing cut off at the bound, from the file the path named before it
\* was opened; and its completion is the last thing recorded of the call.
ReadIsOneVersion ==
    fread.step = "delivered" =>
        /\ fread.open = fread.before.id
        /\ fread.bytes = [i \in 1 .. fread.before.len |-> fread.before.ver]
        /\ freadrows = <<"call_admitted", "call_completed">>
=============================================================================
