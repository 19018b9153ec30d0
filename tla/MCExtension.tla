---------------------------- MODULE MCExtension ----------------------------
(***************************************************************************)
(* What surrounds a plugin's host: its package, its plan, its permissions, *)
(* its contributions and the three adapters its calls reach.  They share   *)
(* no state, so they are checked in one run: a behaviour is one of a       *)
(* single part, the others rest in one of their initial states.            *)
(***************************************************************************)
EXTENDS PermissionRules, NetworkCalls, ProjectFileReads, WorkspaceReferences,
        PluginResolver, PackageCache, ContributionRoutes

VARIABLE part    \* the part this behaviour is about

Parts == {"permission", "network", "file", "workspace", "plan", "package", "routes"}

others(p) ==
    /\ p # "permission" => UNCHANGED permvars
    /\ p # "network" => UNCHANGED netvars
    /\ p # "file" => UNCHANGED freadvars
    /\ p # "workspace" => UNCHANGED refvars
    /\ p # "plan" => UNCHANGED planvars
    /\ p # "package" => UNCHANGED cachevars
    /\ p # "routes" => UNCHANGED routevars

\* Every path pattern and every host up to a length, with a fitting bound; and one
\* pattern with every bound and with the fields of another permission.
Words(chars, n) == UNION {[1 .. k -> chars] : k \in 1 .. n}
MCDomains == Words({"a", "b", "."}, 3)
MCHosts == Words({"a", "b", "."}, 5)
MCPaths == Words({"a", "e", "g", "/"}, 3)
Nothing == [name |-> "project.fs.read", paths |-> {}, operations |-> {}, schemes |-> {}, hosts |-> {},
            methods |-> {}, max_bytes |-> NoBound, max_response_bytes |-> NoBound]
MCPermissions ==
    {[Nothing EXCEPT !.paths = {x}, !.max_bytes = 1] : x \in Words({"a", "/", "*", "?"}, 4)}
    \cup {[Nothing EXCEPT !.paths = {<<"a">>, <<"*", "/", "?">>}, !.max_bytes = 2]}
    \cup {[Nothing EXCEPT !.name = "network.fetch", !.hosts = {h}, !.schemes = {"https"},
                          !.methods = {"GET"}, !.max_response_bytes = 1] :
             h \in MCDomains \cup {<<"*", ".">> \o d : d \in MCDomains}}
    \cup {[Nothing EXCEPT !.name = n, !.paths = x, !.operations = o, !.methods = m, !.max_bytes = b] :
             n \in {"project.fs.read", "workspace.r.inspect"}, x \in {{}, {<<"a">>}},
             o \in {{}, {"metadata"}, {"write"}}, m \in {{}, {"GET"}},
             b \in {NoBound, 0, 1, MAX_PERMISSION_BYTES, MAX_PERMISSION_BYTES + 1}}
Unused == [Nothing EXCEPT !.paths = {<<"a">>}, !.max_bytes = 1]

\* Addresses at both ends of every range the code tests
V4 == {<<4, p[1], p[2], p[3]>> :
          p \in {<<8, 8, 8>>, <<0, 1, 1>>, <<10, 0, 0>>, <<11, 0, 0>>, <<127, 0, 0>>, <<100, 63, 0>>,
                 <<100, 64, 0>>, <<100, 127, 0>>, <<100, 128, 0>>, <<169, 254, 0>>, <<172, 15, 0>>,
                 <<172, 16, 0>>, <<172, 31, 0>>, <<172, 32, 0>>, <<192, 168, 0>>, <<192, 0, 0>>,
                 <<192, 0, 1>>, <<192, 0, 2>>, <<192, 88, 99>>, <<198, 17, 0>>, <<198, 18, 0>>,
                 <<198, 19, 0>>, <<198, 20, 0>>, <<198, 51, 100>>, <<203, 0, 113>>, <<223, 255, 0>>,
                 <<224, 0, 0>>, <<255, 255, 255>>}}
V6 == {<<6, p[1], p[2], 0>> :
          p \in {<<0, 0>>, <<8191, 0>>, <<8192, 0>>, <<8193, 511>>, <<8193, 512>>, <<8193, 3512>>,
                 <<8194, 0>>, <<8195, 0>>, <<16383, 15>>, <<16383, 16>>, <<16384, 0>>, <<64512, 0>>,
                 <<65152, 0>>, <<65216, 0>>, <<65280, 0>>}}
MCAddresses == V4 \cup V6

\* Packages that share a skill, call one id a tool and a panel, and offer a panel
Declaration(prefix, kind) ==
    [id |-> <<prefix, "a">>, kind |-> kind, major |-> 1,
     schemas |-> IF kind = "skill" THEN "none" ELSE "both", path |-> kind = "skill",
     slot |-> kind = "panel", media |-> FALSE, text |-> TRUE]
MCPackages ==
    << <<Declaration("skill", "skill"), Declaration("source", "source")>>,
       <<Declaration("skill", "skill"), Declaration("tool", "tool")>>,
       <<Declaration("tool", "panel")>>,
       <<Declaration("panel", "panel")>> >>

Empty == [c \in {} |-> 1]

\* Three plugins that provide up to two capabilities, one of them of another major,
\* and have requirements that are met, missing, twofold or their own; and four that
\* provide one each and need up to two, so that a search for a cycle turns back.
Major1(s) == [c \in s |-> 1]
Silent == [provides |-> Empty, requires |-> Empty, optional |-> Empty]
MCDescriptors ==
    [provides : {Major1(s) : s \in {{}, {1}, {2}, {3}, {1, 2}}} \cup {[c \in {1} |-> 2]},
     requires : {Major1(s) : s \in {{}, {1}, {2}, {1, 2}, {3}}},
     optional : {Empty}]
MCScope ==
    \/ \E d \in [1 .. 3 -> MCDescriptors], o \in {Empty, Major1({3})} :
          descriptors = [p \in PluginIds |-> IF p = 4 THEN Silent
                                            ELSE [d[p] EXCEPT !.optional = IF p = 1 THEN o ELSE @]]
    \/ \E r \in [PluginIds -> {Major1(s) : s \in {t \in SUBSET Capabilities : Cardinality(t) <= 2}}] :
          descriptors = [p \in PluginIds |-> [provides |-> Major1({p}), requires |-> r[p], optional |-> Empty]]
MCParents == {Empty, Major1({1})}
Undeclared == [p \in PluginIds |-> Silent]


Init ==
    /\ part \in Parts
    /\ PermInit /\ (part # "permission" => perm = Unused)
    /\ NetInit
    /\ ReadInit /\ (part # "file" => leaf = "f1" /\ \A f \in FileIds : files[f].len = 0)
    /\ RefInit /\ (part # "workspace" => wroot = "r1" /\ \A n \in Names : objects[n] = "s1")
    /\ IF part = "plan" THEN MCScope /\ parent \in MCParents ELSE descriptors = Undeclared /\ parent = Empty
    /\ PlanInit
    /\ RoutesInit
    /\ CacheInit /\ (part # "package" => \A d \in PackageDirs : pkg[d].man = 0)

Next ==
    /\ \/ part = "permission" /\ PermNext
       \/ part = "network" /\ NetNext
       \/ part = "file" /\ ReadNext
       \/ part = "workspace" /\ RefNext
       \/ part = "plan" /\ PlanNext
       \/ part = "package" /\ CacheNext
       \/ part = "routes" /\ RoutesNext
    /\ others(part)
    /\ UNCHANGED part

Spec == Init /\ [][Next]_<<part, permvars, netvars, freadvars, refvars, planvars, cachevars,
                        routevars>>
=============================================================================
