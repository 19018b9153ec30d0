--------------------------- MODULE PermissionRules ---------------------------
(***************************************************************************)
(* What a plugin may do, from its manifest to one use: the shape rules of  *)
(* manifest.rs, the constraints of grant.rs, the rules the store applies   *)
(* to a request (plugin_permission.rs) and the tests an adapter makes of   *)
(* its own (plugin_fs.rs, plugin_network.rs).  Each of them reads the same *)
(* patterns with code of its own; a permission passes through all of them. *)
(*                                                                         *)
(* A string is a sequence of characters.  "e" and "g" are names of one     *)
(* character: a file that is reserved wherever it is (.env, .pem, id_rsa)  *)
(* and a directory reserved at the root (.git, .rho).                      *)
(***************************************************************************)
EXTENDS Integers, FiniteSets, Sequences

CONSTANTS
    Permissions,            \* what manifests may declare
    ReadPaths, FetchHosts   \* the paths that may be read, the hosts that may be asked

Strings == Seq(STRING)

ASSUME PermissionAssumption ==
    /\ Permissions \subseteq [name : {"project.fs.read", "workspace.r.inspect", "network.fetch"},
                              paths : SUBSET Strings, operations : SUBSET STRING, schemes : SUBSET STRING,
                              hosts : SUBSET Strings, methods : SUBSET STRING,
                              max_bytes : Int, max_response_bytes : Int]
    /\ ReadPaths \subseteq Strings /\ FetchHosts \subseteq Strings

VARIABLES
    perm,           \* the permission the manifest declares
    stage,          \* how far it got
    use,            \* the use that was asked for, or NoUse
    untried,        \* the patterns the path was not matched with
    tested,         \* the one it is matched with
    visits,         \* the calls of visit under way, with the calls each has left
    seen            \* the pairs of positions visit was called for

globvars == <<untried, tested, visits, seen>>
permvars == <<perm, stage, use, globvars>>

MAX_PERMISSION_BYTES == 2     \* stands for 1 MiB
NoBound == -1                 \* None
NoUse == [kind |-> "none"]

(***************************************************************************)
(* Strings                                                                 *)
(***************************************************************************)

\* Where a string begins, is cut and ends, and the i-th of these.
Cuts(s, sep) == {0, Len(s) + 1} \cup {i \in 1 .. Len(s) : s[i] = sep}
Cut(cuts, i) == CHOOSE c \in cuts : Cardinality({d \in cuts : d < c}) = i - 1

\* split: the pieces between the separators, empty ones too.
Split(s, sep) ==
    LET cuts == Cuts(s, sep)
    IN  [i \in 1 .. Cardinality(cuts) - 1 |-> SubSeq(s, Cut(cuts, i) + 1, Cut(cuts, i + 1) - 1)]

EndsWith(s, t) == Len(s) >= Len(t) /\ SubSeq(s, Len(s) - Len(t) + 1, Len(s)) = t

\* "*." before a domain.
Wildcard(h) == Len(h) >= 2 /\ h[1] = "*" /\ h[2] = "."
Domain(h) == IF Wildcard(h) THEN SubSeq(h, 3, Len(h)) ELSE h

(***************************************************************************)
(* Path patterns                                                           *)
(***************************************************************************)

\* valid_relative_pattern of grant.rs: no leading separator.
valid_relative_pattern(p) == p # << >> /\ p[1] # "/"

\* valid_relative_path: no empty component either.
valid_relative_path(p) ==
    /\ valid_relative_pattern(p)
    /\ \A i \in DOMAIN Split(p, "/") : Split(p, "/")[i] # << >>

\* validate_relative_paths of manifest.rs: already normalized.
validate_relative_paths(paths) == \A p \in paths : p # << >> /\ valid_relative_path(p)

\* reserved_path_pattern of the store: first and last piece of the pattern.
reserved_path_pattern(p) ==
    LET parts == Split(p, "/")
    IN  parts[1] = <<"g">> \/ parts[Len(parts)] = <<"e">>

\* reserved_path of plugin_fs.rs on the components of a path.
reserved_path(p) ==
    LET parts == Split(p, "/")
    IN  parts[1] = <<"g">> \/ parts[Len(parts)] = <<"e">>

\* "**" crosses separators, "*" does not.
Double(p, i) == i < Len(p) /\ p[i] = "*" /\ p[i + 1] = "*"
AfterStar(p, i) == IF Double(p, i) THEN i + 2 ELSE i + 1
IfThen(b, x) == IF b THEN <<x>> ELSE << >>

\* The calls visit makes at <<i, j>>, in order: past the star, past the separator
\* after two of them, one character into the star; or past one character.
CallsOf(p, v, i, j) ==
    IF i > Len(p) THEN << >>
    ELSE IF p[i] = "*"
    THEN <<<<AfterStar(p, i), j>>>>
         \o IfThen(Double(p, i) /\ AfterStar(p, i) <= Len(p) /\ p[AfterStar(p, i)] = "/",
                   <<AfterStar(p, i) + 1, j>>)
         \o IfThen(j <= Len(v) /\ (Double(p, i) \/ v[j] # "/"), <<i, j + 1>>)
    ELSE IfThen(j <= Len(v) /\ p[i] = "?" /\ v[j] # "/", <<i + 1, j + 1>>)
         \o IfThen(j <= Len(v) /\ p[i] = v[j], <<i + 1, j + 1>>)

Visit(p, v, at) == [at |-> at, left |-> CallsOf(p, v, at[1], at[2])]

(***************************************************************************)
(* Host patterns                                                           *)
(***************************************************************************)

DomainShape(d) ==
    /\ d # << >>
    /\ \E i \in DOMAIN d : d[i] = "."
    /\ d[1] # "." /\ d[Len(d)] # "."
    /\ \A i \in DOMAIN d : d[i] # "*"

\* validate_host_pattern of manifest.rs and valid_host_pattern of the store.
validate_host_pattern(h) == DomainShape(Domain(h))

valid_host_pattern(h) == DomainShape(Domain(h))

\* valid_host of plugin_network.rs: no empty label either.
valid_host(h) ==
    /\ DomainShape(h)
    /\ \A i \in DOMAIN Split(h, ".") : Split(h, ".")[i] # << >>

\* A suffix without the separator before it.
SuffixMatches_NoDot(pattern, host) ==
    IF Wildcard(pattern)
    THEN Len(host) > Len(Domain(pattern)) /\ EndsWith(host, Domain(pattern))
    ELSE pattern = host

\* The bytes before a suffix must end in a separator.
SuffixMatches(pattern, host) ==
    IF Wildcard(pattern)
    THEN LET suffix == Domain(pattern)
         IN  /\ Len(host) > Len(suffix)
             /\ EndsWith(host, suffix)
             /\ host[Len(host) - Len(suffix)] = "."
    ELSE pattern = host

\* host_matches of grant.rs ...
host_matches(pattern, host) ==
    /\ valid_host_pattern(pattern)
    /\ valid_host_pattern(host) /\ ~Wildcard(host)
    /\ SuffixMatches(pattern, host)

\* ... and the one an adapter has.
adapter_host_matches(pattern, host) ==
    /\ valid_host(Domain(pattern)) /\ valid_host(host)
    /\ SuffixMatches(pattern, host)

(***************************************************************************)
(* The gates                                                               *)
(***************************************************************************)

Lists == {"paths", "operations", "schemes", "hosts", "methods"}
Bounds == {"max_bytes", "max_response_bytes"}

\* The fields of a permission that carry something.
Present(p) == {f \in Lists : p[f] # {}} \cup {f \in Bounds : p[f] # NoBound}

\* The lists and the bound each permission has.
ShapeOf(name) ==
    CASE name = "project.fs.read" -> [lists |-> {"paths"}, bound |-> "max_bytes"]
      [] name = "workspace.r.inspect" -> [lists |-> {"operations"}, bound |-> "max_bytes"]
      [] name = "network.fetch" -> [lists |-> {"schemes", "hosts", "methods"},
                                    bound |-> "max_response_bytes"]

Fields(name) == ShapeOf(name).lists \cup {ShapeOf(name).bound}
Bound(p) == p[ShapeOf(p.name).bound]

validate_positive_bound(b) == b > 0 /\ b <= MAX_PERMISSION_BYTES

validate_permission_request(p) ==
    /\ Present(p) = Fields(p.name)
    /\ validate_relative_paths(p.paths)
    /\ p.operations \subseteq {"metadata", "preview"}
    /\ p.schemes \subseteq {"https"}
    /\ \A h \in p.hosts : validate_host_pattern(h)
    /\ p.methods \subseteq {"GET", "HEAD"}
    /\ validate_positive_bound(Bound(p))

\* validate_constraints of grant.rs, called by from_manifest and by grant.
validate_constraints(p) ==
    /\ Present(p) = Fields(p.name)
    /\ \A x \in p.paths : valid_relative_pattern(x)
    /\ p.schemes \subseteq {"https"}
    /\ \A h \in p.hosts : valid_host_pattern(h)
    /\ p.methods \subseteq {"GET", "HEAD"}
    /\ Bound(p) > 0

\* The exact keys of the canonical JSON and their values, in the store.
validate_constraint_shape(p) ==
    /\ Present(p) = Fields(p.name)
    /\ validate_positive_bound(Bound(p))
    /\ \A x \in p.paths : valid_relative_path(x) /\ ~reserved_path_pattern(x)
    /\ p.operations \subseteq {"metadata", "preview"}
    /\ p.schemes \subseteq {"https"}
    /\ \A h \in p.hosts : valid_host_pattern(h)
    /\ p.methods \subseteq {"GET", "HEAD"}

\* permission_use_allowed, but for the patterns of a path.
permission_use_allowed(p, u) ==
    \/ /\ p.name = "project.fs.read" /\ u.kind = "read"
       /\ u.bytes <= p.max_bytes
    \/ /\ p.name = "workspace.r.inspect" /\ u.kind = "inspect"
       /\ u.operation \in p.operations
       /\ u.bytes <= p.max_bytes
    \/ /\ p.name = "network.fetch" /\ u.kind = "fetch"
       /\ "https" \in p.schemes
       /\ \E h \in p.hosts : host_matches(h, u.host)
       /\ u.method \in p.methods
       /\ u.bytes <= p.max_response_bytes

\* What the adapter asks again before it acts.
AdapterAccepts(p, u) ==
    CASE u.kind = "read" ->
            u.bytes \in 1 .. MAX_PERMISSION_BYTES /\ valid_relative_path(u.path) /\ ~reserved_path(u.path)
      [] u.kind = "fetch" ->
            /\ u.bytes \in 1 .. Bound(p)
            /\ u.method \in p.methods
            /\ \E h \in p.hosts : adapter_host_matches(h, u.host)
      [] OTHER -> TRUE

(***************************************************************************)
(* One permission on its way                                               *)
(***************************************************************************)

Uses(p) ==
    CASE p.name = "project.fs.read" ->
            [kind : {"read"}, path : ReadPaths, bytes : 1 .. MAX_PERMISSION_BYTES]
      [] p.name = "workspace.r.inspect" ->
            [kind : {"inspect"}, operation : {"metadata", "preview"}, bytes : 1 .. MAX_PERMISSION_BYTES]
      [] p.name = "network.fetch" ->
            [kind : {"fetch"}, host : FetchHosts, method : {"GET", "HEAD"}, bytes : 1 .. MAX_PERMISSION_BYTES]

PermInit ==
    /\ perm \in Permissions /\ stage = "declared" /\ use = NoUse
    /\ untried = {} /\ tested = << >> /\ visits = << >> /\ seen = {}

Gate(from, accepts, to, refused) ==
    /\ stage = from
    /\ stage' = IF accepts THEN to ELSE refused
    /\ UNCHANGED <<perm, use, globvars>>

ParseManifest == Gate("declared", validate_permission_request(perm), "manifest", "manifest_refused")
PlanRequest == Gate("manifest", validate_constraints(perm), "planned", "plan_refused")
StoreRequest == Gate("planned", validate_constraint_shape(perm), "stored", "store_refused")
GrantStored == Gate("stored", validate_constraints(perm), "granted", "grant_refused")

\* The end of permission_use_allowed, and of the adapter's tests.
Outcome(u) == IF permission_use_allowed(perm, u) /\ AdapterAccepts(perm, u) THEN "delivered" ELSE "denied"

UsePermission(u) ==
    /\ stage = "granted"
    /\ use' = u
    /\ \/ /\ u.kind = "read" /\ valid_relative_path(u.path)
          /\ stage' = "matching" /\ untried' = perm.paths
          /\ UNCHANGED <<tested, visits, seen>>
       \/ /\ u.kind = "read" /\ ~valid_relative_path(u.path)
          /\ stage' = "denied"
          /\ UNCHANGED globvars
       \/ /\ u.kind # "read"
          /\ stage' = Outcome(u)
          /\ UNCHANGED globvars
    /\ UNCHANGED perm

\* glob_matches of the next pattern; no pattern matched.
glob_matches(x) ==
    /\ stage = "matching" /\ visits = << >>
    /\ untried' = untried \ {x} /\ tested' = x
    /\ visits' = <<Visit(x, use.path, <<1, 1>>)>> /\ seen' = {<<1, 1>>}
    /\ UNCHANGED <<perm, stage, use>>

NoPattern ==
    /\ stage = "matching" /\ visits = << >> /\ untried = {}
    /\ stage' = "denied"
    /\ UNCHANGED <<perm, use, globvars>>

\* One step of the innermost visit: it is at the end of both, its next call was
\* made before, is made, or there is none left.
AtEnd(at) == at = <<Len(tested) + 1, Len(use.path) + 1>>

visit ==
    /\ stage = "matching" /\ visits # << >>
    /\ LET n == Len(visits)
           here == visits[n]
           done == [visits EXCEPT ![n].left = Tail(@)]
       IN  \/ /\ AtEnd(here.at)
              /\ stage' = Outcome(use) /\ visits' = << >>
              /\ UNCHANGED seen
           \/ /\ ~AtEnd(here.at) /\ here.left # << >> /\ Head(here.left) \in seen
              /\ visits' = done
              /\ UNCHANGED <<stage, seen>>
           \/ /\ ~AtEnd(here.at) /\ here.left # << >> /\ Head(here.left) \notin seen
              /\ visits' = Append(done, Visit(tested, use.path, Head(here.left)))
              /\ seen' = seen \cup {Head(here.left)}
              /\ UNCHANGED stage
           \/ /\ ~AtEnd(here.at) /\ here.left = << >>
              /\ visits' = SubSeq(visits, 1, n - 1)
              /\ UNCHANGED <<stage, seen>>
    /\ UNCHANGED <<perm, use, untried, tested>>

PermNext ==
    \/ ParseManifest
    \/ PlanRequest
    \/ StoreRequest
    \/ GrantStored
    \/ \E u \in Uses(perm) : UsePermission(u)
    \/ \E x \in untried : glob_matches(x)
    \/ NoPattern
    \/ visit

PermSpec == PermInit /\ [][PermNext]_permvars

(***************************************************************************)
(* Properties                                                              *)
(***************************************************************************)

\* Where in a path the language of the rest of a pattern begins, from its first unit
\* and the language of what follows.
Language(p, v) ==
    LET begins[i \in 1 .. Len(p) + 1] ==
            IF i = Len(p) + 1 THEN {Len(v) + 1}
            ELSE IF Double(p, i)
            THEN {j \in 1 .. Len(v) + 1 : \E k \in j .. Len(v) + 1 :
                     k \in begins[i + 2] \/ (i + 2 <= Len(p) /\ p[i + 2] = "/" /\ k \in begins[i + 3])}
            ELSE IF p[i] = "*"
            THEN {j \in 1 .. Len(v) + 1 : \E k \in j .. Len(v) + 1 :
                     k \in begins[i + 1] /\ \A m \in j .. k - 1 : v[m] # "/"}
            ELSE {j \in 1 .. Len(v) :
                     j + 1 \in begins[i + 1] /\ (p[i] = v[j] \/ (p[i] = "?" /\ v[j] # "/"))}
    IN  begins

Matches(p, v) == 1 \in Language(p, v)[1]

\* The labels of a host end with the labels of the domain.
Below(domain, host) ==
    LET d == Split(domain, ".")
        h == Split(host, ".")
    IN  Len(h) > Len(d) /\ EndsWith(h, d)

\* A reserved first or last name, or a name that is empty.
Unreadable(path) ==
    LET parts == Split(path, "/")
    IN  parts[1] = <<"g">> \/ parts[Len(parts)] = <<"e">> \/ \E i \in DOMAIN parts : parts[i] = << >>

\* A use that is delivered is one the manifest declares: the path is of the
\* language of a declared pattern and not reserved, the host is the declared
\* one or below it label by label, the bytes are within the declared bound;
\* and a declared, unreserved path within the bound is not denied.
DeliveredAsDeclared ==
    /\ stage = "delivered" =>
          /\ use.bytes <= Bound(perm) /\ Bound(perm) <= MAX_PERMISSION_BYTES
          /\ use.kind = "read" => (\E x \in perm.paths : Matches(x, use.path)) /\ ~Unreadable(use.path)
          /\ use.kind = "fetch" =>
                \E h \in perm.hosts : IF Wildcard(h) THEN Below(Domain(h), use.host) ELSE h = use.host
    /\ stage = "denied" /\ use.kind = "read" =>
          \/ use.bytes > Bound(perm)
          \/ \A x \in perm.paths : ~Matches(x, use.path)
          \/ Unreadable(use.path)
=============================================================================
