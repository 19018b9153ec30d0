---------------------------- MODULE ModelAccess ----------------------------
(***************************************************************************)
(* The Agent model settings (desktop agent_llm.rs): providers, models,     *)
(* capability routes, the keys in the system credential store with their   *)
(* session cache, connection tests and model discovery.  Commands that     *)
(* change the settings or a key hold SETTINGS_MUTATION_LOCK; a connection  *)
(* test and a discovery run outside it.                                    *)
(***************************************************************************)
EXTENDS Naturals, FiniteSets

CONSTANTS
    Providers,     \* provider identities
    Models,        \* model identities
    Tests,         \* connection tests that may run at once
    MaxSaves,      \* bound: saves of the settings file, without the last test result
    MaxKeySteps,   \* bound: keys set and deleted
    MaxModelFaults \* bound: failing calls and deaths of the desktop

VARIABLES
    settings,   \* llm-profiles.json as load_settings decodes it
    legacy,     \* the file is still a V1 file
    keychain,   \* provider -> key in the system credential store, or NoKey
    cache,      \* provider -> SessionCredentialCache entry, NoKey, or Uncached
    cacheLock,  \* the reader inside get_or_load, or NoReader
    reader,     \* the credential read of a discovery: [phase, provider, key]
    guard,      \* the command that holds SETTINGS_MUTATION_LOCK
    test,       \* connection test -> its frame
    control,    \* AgentModelTestControl: [pid, cancel]
    modelFaults, keySteps

modelvars == <<settings, legacy, keychain, cache, cacheLock, reader, guard, test, control, modelFaults, keySteps>>

NoKey == "no key"
TheKey == "key"
Uncached == "uncached"
NoModel == "no model"
NoTest == "none"

ASSUME ModelsAssumption == NoModel \notin Models

Free == [op |-> "free"]
Off == [phase |-> "idle"]
Capabilities == {"agent.chat", "agent.act"}
Cap(value, source) == [value |-> value, source |-> source]

(***************************************************************************)
(* The settings file                                                       *)
(***************************************************************************)

\* A model as the catalogue or the user described it.
Described(p, fc, source) ==
    [known |-> TRUE, provider |-> p, enabled |-> TRUE, type |-> "language",
     function_call |-> Cap(fc, source), last |-> NoTest,
     reasoning |-> IF source = "aisdk_catalog" THEN Cap("yes", source) ELSE Cap("unknown", "unknown")]

NoProfile == [known |-> FALSE]
HasModel(s, m) == m \in Models /\ s.models[m].known

validate_capability_value(c) ==
    c.value = "unknown" => c.source \in {"unknown", "user_declared"}

validate_model(m) ==
    validate_capability_value(m.function_call) /\ validate_capability_value(m.reasoning)

\* The model type and the capabilities a standard route asks for.
standard_route_contract(capability) ==
    [type |-> "language", required |-> IF capability = "agent.act" THEN {"function_call"} ELSE {}]

validate_route_candidate(s, capability, m, reject_unknown) ==
    LET contract == standard_route_contract(capability)
    IN  /\ HasModel(s, m)
        /\ s.models[m].enabled
        /\ s.models[m].type \in {"unknown", contract.type}
        /\ reject_unknown => s.models[m].type # "unknown"
        /\ \A name \in contract.required :
              /\ s.models[m].function_call.value # "no"
              /\ reject_unknown => s.models[m].function_call.value = "yes"

validate_settings(s) ==
    /\ s.providers # {}
    /\ \E m \in Models : HasModel(s, m)
    /\ \A m \in Models : HasModel(s, m) =>
          validate_model(s.models[m]) /\ s.models[m].provider \in s.providers
    /\ s.routes["agent.chat"] # NoModel
    /\ \A c \in Capabilities : s.routes[c] # NoModel => validate_route_candidate(s, c, s.routes[c], FALSE)

default_settings(p, m) ==
    [revision |-> 1, providers |-> {p}, config |-> [q \in Providers |-> 0],
     models |-> [n \in Models |-> IF n = m THEN Described(p, "yes", "aisdk_catalog") ELSE NoProfile],
     routes |-> [c \in Capabilities |-> IF c = "agent.chat" THEN m ELSE NoModel]]

\* A V1 file has a selected model and no types; its revision becomes 0.
migrate_settings_v1(p, m, fc) ==
    [default_settings(p, m) EXCEPT
        !.revision = 0,
        !.models[m] = [Described(p, fc, IF fc = "unknown" THEN "unknown" ELSE "user_declared")
                          EXCEPT !.type = "unknown"]]

ModelInit ==
    /\ \E p \in Providers, m \in Models :
          \/ settings = default_settings(p, m) /\ legacy = FALSE
          \/ \E fc \in {"yes", "unknown"} : settings = migrate_settings_v1(p, m, fc) /\ legacy = TRUE
    /\ keychain = [p \in Providers |-> NoKey]
    /\ cache = [p \in Providers |-> Uncached]
    /\ cacheLock = FALSE
    /\ reader = Off
    /\ guard = Free
    /\ test = [i \in Tests |-> Off]
    /\ control = [pid |-> 0, cancel |-> FALSE]
    /\ modelFaults = 0
    /\ keySteps = 0

\* increment_revision and save_settings: a valid file, the V1 file backed up
\* first, one atomic write.  A refused or failed save changes nothing.
Saves(s) == validate_settings(s) /\ settings.revision < MaxSaves

save_settings(s) ==
    /\ settings' = [s EXCEPT !.revision = settings.revision + 1]
    /\ legacy' = FALSE

Failing == modelFaults < MaxModelFaults /\ modelFaults' = modelFaults + 1

\* A command that takes the lock, changes the settings and releases it.
Edit(s) ==
    /\ guard = Free
    /\ Saves(s)
    /\ save_settings(s)
    /\ UNCHANGED <<keychain, cache, cacheLock, reader, guard, test, control,
                   modelFaults, keySteps>>

save_provider(p, config) ==
    Edit([settings EXCEPT !.providers = @ \cup {p}, !.config[p] = config])

\* A known model keeps its evidence, and is not disabled while it is routed.
save_model(m, p, enabled) ==
    /\ HasModel(settings, m) =>
          (enabled \/ \A c \in Capabilities : settings.routes[c] # m)
    /\ Edit([settings EXCEPT !.models[m] =
                IF HasModel(settings, m)
                THEN [@ EXCEPT !.provider = p, !.enabled = enabled]
                ELSE [Described(p, "unknown", "unknown") EXCEPT !.enabled = enabled]])

delete_model(m) ==
    /\ HasModel(settings, m)
    /\ \A c \in Capabilities : settings.routes[c] # m
    /\ Edit([settings EXCEPT !.models[m] = NoProfile])

\* The editors send the revision they were opened with: a later save refuses
\* them, so what they see is the file.
save_capability_route(c, m) ==
    /\ validate_route_candidate(settings, c, m, TRUE)
    /\ Edit([settings EXCEPT !.routes[c] = m])

delete_capability_route ==
    /\ settings.routes["agent.act"] # NoModel
    /\ Edit([settings EXCEPT !.routes["agent.act"] = NoModel])

declare_model_capabilities(m, type, fc) ==
    /\ HasModel(settings, m)
    /\ Edit([settings EXCEPT !.models[m].type = type,
                             !.models[m].function_call = Cap(fc, "user_declared"),
                             !.models[m].reasoning = Cap("no", "user_declared")])

(***************************************************************************)
(* Keys                                                                    *)
(***************************************************************************)

\* SystemCredentialStore::get under the settings lock: nobody writes between.
Known(p) == IF cache[p] = Uncached THEN keychain[p] ELSE cache[p]

\* set: the system store first ...
set_credential(p) ==
    /\ guard = Free
    /\ p \in settings.providers
    /\ keySteps < MaxKeySteps
    /\ keySteps' = keySteps + 1
    /\ keychain' = [keychain EXCEPT ![p] = TheKey]
    /\ guard' = [op |-> "remember", provider |-> p, key |-> TheKey, then |-> "end"]
    /\ UNCHANGED <<settings, legacy, cache, cacheLock, reader, test, control, modelFaults>>

delete_credential(p) ==
    /\ guard = Free
    /\ p \in settings.providers
    /\ keySteps < MaxKeySteps
    /\ keySteps' = keySteps + 1
    /\ keychain' = [keychain EXCEPT ![p] = NoKey]
    /\ guard' = [op |-> "remember", provider |-> p, key |-> NoKey, then |-> "end"]
    /\ UNCHANGED <<settings, legacy, cache, cacheLock, reader, test, control, modelFaults>>

\* ... then the session cache, once a reader has left get_or_load.
RememberKey ==
    /\ guard.op = "remember"
    /\ ~cacheLock
    /\ cache' = [cache EXCEPT ![guard.provider] = guard.key]
    /\ guard' = IF guard.then = "end" THEN Free
                ELSE [op |-> "delete_provider", provider |-> guard.provider, step |-> "save",
                      key |-> guard.then]
    /\ UNCHANGED <<settings, legacy, keychain, cacheLock, reader, test, control,
                   modelFaults, keySteps>>

\* A provider goes with its models, its routes and its key; not the one that
\* serves Chat.
WithoutProvider(p) ==
    LET gone == {m \in Models : HasModel(settings, m) /\ settings.models[m].provider = p}
    IN  [settings EXCEPT
            !.providers = @ \ {p},
            !.models = [m \in Models |-> IF m \in gone THEN NoProfile ELSE settings.models[m]],
            !.routes = [c \in Capabilities |->
                           IF settings.routes[c] \in gone THEN NoModel ELSE settings.routes[c]]]

\* get and delete of the key, before the settings are saved.
delete_provider(p) ==
    /\ guard = Free
    /\ p \in settings.providers
    /\ settings.models[settings.routes["agent.chat"]].provider # p
    /\ Saves(WithoutProvider(p))
    /\ ~cacheLock
    /\ keychain' = [keychain EXCEPT ![p] = NoKey]
    /\ guard' = [op |-> "remember", provider |-> p, key |-> NoKey, then |-> Known(p)]
    /\ UNCHANGED <<settings, legacy, cache, cacheLock, reader, test, control,
                   modelFaults, keySteps>>

ProviderSaved ==
    /\ guard.op = "delete_provider" /\ guard.step = "save"
    /\ guard.provider \in settings.providers
    /\ save_settings(WithoutProvider(guard.provider))
    /\ guard' = Free
    /\ UNCHANGED <<keychain, cache, cacheLock, reader, test, control, modelFaults, keySteps>>

\* The save failed: a key that was there is set again, or is lost.
ProviderNotSaved(restored) ==
    /\ guard.op = "delete_provider" /\ guard.step = "save"
    /\ Failing
    /\ IF guard.key = NoKey \/ ~restored
       THEN guard' = Free /\ UNCHANGED keychain
       ELSE /\ keychain' = [keychain EXCEPT ![guard.provider] = guard.key]
            /\ guard' = [op |-> "remember", provider |-> guard.provider, key |-> guard.key,
                         then |-> "end"]
    /\ UNCHANGED <<settings, legacy, cache, cacheLock, reader, test, control, keySteps>>

\* refresh_credentials_view and the end of the window.
clear_session_credentials ==
    /\ ~cacheLock
    /\ cache' = [p \in Providers |-> Uncached]
    /\ UNCHANGED <<settings, legacy, keychain, cacheLock, reader, guard, test, control,
                   modelFaults, keySteps>>

(***************************************************************************)
(* Model discovery, outside the settings lock                              *)
(***************************************************************************)

\* The lookup without the lock around the load.
get_or_load_Unlocked(p) ==
    /\ reader = Off
    /\ p \in settings.providers
    /\ reader' = [phase |-> "insert", provider |-> p,
                  key |-> IF cache[p] # Uncached THEN cache[p] ELSE keychain[p]]
    /\ UNCHANGED <<settings, legacy, keychain, cache, cacheLock, guard, test, control,
                   modelFaults, keySteps>>

\* get_or_load: a cached key, or the system store under the cache lock.
get_or_load(p) ==
    /\ reader = Off /\ ~cacheLock
    /\ p \in settings.providers
    /\ IF cache[p] # Uncached
       THEN /\ reader' = [phase |-> "request", provider |-> p, key |-> cache[p]]
            /\ UNCHANGED cacheLock
       ELSE /\ reader' = [phase |-> "insert", provider |-> p, key |-> keychain[p]]
            /\ cacheLock' = TRUE
    /\ UNCHANGED <<settings, legacy, keychain, cache, guard, test, control,
                   modelFaults, keySteps>>

InsertLoaded ==
    /\ reader.phase = "insert"
    /\ cache' = [cache EXCEPT ![reader.provider] = reader.key]
    /\ cacheLock' = FALSE
    /\ reader' = [reader EXCEPT !.phase = "request"]
    /\ UNCHANGED <<settings, legacy, keychain, guard, test, control, modelFaults, keySteps>>

\* Answers, refusals, timeouts and malformed lists leave nothing behind.
discover_models ==
    /\ reader.phase = "request"
    /\ reader' = Off
    /\ UNCHANGED <<settings, legacy, keychain, cache, cacheLock, guard, test, control,
                   modelFaults, keySteps>>

(***************************************************************************)
(* Resolution                                                              *)
(***************************************************************************)

\* The route of the mode and the model behind it.
RouteOf(s, mode) ==
    IF mode = "act" /\ s.routes["agent.act"] # NoModel THEN "agent.act" ELSE "agent.chat"

\* The runtime profile: everything a process is started with.
resolve_model_id_with_settings(s, m) ==
    [revision |-> s.revision, model |-> m, provider |-> s.models[m].provider,
     config |-> s.config[s.models[m].provider], tools |-> s.models[m].function_call.value]

Resolvable(s, m) == HasModel(s, m) /\ s.models[m].enabled /\ s.models[m].provider \in s.providers

resolve_model_for_turn(s, mode) ==
    LET m == s.routes[RouteOf(s, mode)]
    IN  /\ Resolvable(s, m)
        /\ mode = "act" => s.models[m].function_call.value = "yes"

\* Model and key are read under one hold of the settings lock.
resolve_model_and_credential_for_turn(mode) ==
    /\ guard = Free /\ ~cacheLock
    /\ resolve_model_for_turn(settings, mode)
    /\ LET p == resolve_model_id_with_settings(
                    settings, settings.routes[RouteOf(settings, mode)]).provider
       IN  cache' = [cache EXCEPT ![p] = Known(p)]
    /\ UNCHANGED <<settings, legacy, keychain, cacheLock, reader, guard, test, control,
                   modelFaults, keySteps>>

\* build_capability_route_view's verdict on the effective model of a route.
route_compatibility(s, c) ==
    LET configured == s.routes[c]
        m == IF configured = NoModel /\ c = "agent.act" THEN s.routes["agent.chat"] ELSE configured
        contract == standard_route_contract(c)
    IN  IF ~HasModel(s, m) THEN "unassigned"
        ELSE IF \/ s.models[m].type \notin {"unknown", contract.type}
                \/ contract.required # {} /\ s.models[m].function_call.value = "no"
             THEN "incompatible"
        ELSE IF \/ s.models[m].type = "unknown"
                \/ contract.required # {} /\ s.models[m].function_call.value = "unknown"
             THEN "needs_review"
        ELSE "compatible"

(***************************************************************************)
(* Connection tests                                                        *)
(***************************************************************************)

\* The settings, the profile and the key are read without the lock; a missing
\* key is an answer of its own.
test_model(i, m) ==
    /\ test[i] = Off
    /\ Resolvable(settings, m) /\ settings.models[m].type = "language"
    /\ LET profile == resolve_model_id_with_settings(settings, m)
           key == Known(profile.provider)
           frame == [phase |-> "running", model |-> m, profile |-> profile, result |-> "none",
                     function_call |-> profile.tools, reasoning |-> "unknown"]
       IN  IF key = NoKey
           THEN /\ test' = [test EXCEPT ![i] = [frame EXCEPT !.phase = "store", !.result = "error"]]
                /\ UNCHANGED control
           ELSE /\ test' = [test EXCEPT ![i] = frame]
                /\ control' = [pid |-> i, cancel |-> FALSE]
    /\ UNCHANGED <<settings, legacy, keychain, cache, cacheLock, reader, guard,
                   modelFaults, keySteps>>

\* run_connection_test: the process answers (with or without a catalogue
\* entry), or fails, or is killed by the timeout.
ProbeEnds(i, result, reasoning) ==
    /\ test[i].phase = "running"
    /\ test' = [test EXCEPT ![i].phase = "exited", ![i].result = result,
                            ![i].reasoning = IF result = "ready" THEN reasoning ELSE "unknown"]
    /\ UNCHANGED <<settings, legacy, keychain, cache, cacheLock, reader, guard, control,
                   modelFaults, keySteps>>

\* The process recorded last is killed; a process that has ended is not there.
cancel_test ==
    /\ control.pid # 0
    /\ control' = [control EXCEPT !.cancel = TRUE]
    /\ test' = [i \in Tests |->
                  IF i = control.pid /\ test[i].phase = "running"
                  THEN [test[i] EXCEPT !.phase = "exited", !.result = "killed"] ELSE test[i]]
    /\ UNCHANGED <<settings, legacy, keychain, cache, cacheLock, reader, guard,
                   modelFaults, keySteps>>

\* The one control of all tests is read and reset.
run_r_json(i) ==
    /\ test[i].phase = "exited"
    /\ control' = [pid |-> 0, cancel |-> FALSE]
    /\ test' = [test EXCEPT ![i] = IF control.cancel \/ test[i].result = "killed" THEN Off
                                   ELSE [test[i] EXCEPT !.phase = "store"]]
    /\ UNCHANGED <<settings, legacy, keychain, cache, cacheLock, reader, guard,
                   modelFaults, keySteps>>

\* What a user declared is kept, the rest becomes a provider response.
Observed(old, value) == IF old.source = "user_declared" THEN old ELSE Cap(value, "provider_response")

update_model_after_test(s, f) ==
    [s EXCEPT !.models[f.model].last = f.result,
              !.models[f.model].function_call = Observed(@, f.function_call),
              !.models[f.model].reasoning = Observed(@, f.reasoning)]

SameConfiguration(f) ==
    /\ Resolvable(settings, f.model)
    /\ resolve_model_id_with_settings(settings, f.model) = f.profile

\* The end of test_model, under the lock.
StoreTest(i) ==
    /\ test[i].phase = "store"
    /\ guard = Free
    /\ settings.revision <= MaxSaves
    /\ test' = [test EXCEPT ![i] = Off]
    /\ IF /\ SameConfiguration(test[i])
          /\ validate_settings(update_model_after_test(settings, test[i]))
       THEN save_settings(update_model_after_test(settings, test[i]))
       ELSE UNCHANGED <<settings, legacy>>
    /\ UNCHANGED <<keychain, cache, cacheLock, reader, guard, control, modelFaults, keySteps>>

\* The desktop dies: the file and the system store remain.
DesktopDies ==
    /\ Failing
    /\ cache' = [p \in Providers |-> Uncached]
    /\ cacheLock' = FALSE
    /\ reader' = Off /\ guard' = Free
    /\ test' = [i \in Tests |-> Off]
    /\ control' = [pid |-> 0, cancel |-> FALSE]
    /\ UNCHANGED <<settings, legacy, keychain, keySteps>>

ModelNext ==
    \/ \E p \in Providers :
          \/ \E config \in {0, 1} : save_provider(p, config)
          \/ \E m \in Models, e \in BOOLEAN : save_model(m, p, e)
          \/ set_credential(p)
          \/ delete_credential(p)
          \/ delete_provider(p)
          \/ get_or_load(p)
    \/ \E m \in Models :
          \/ delete_model(m)
          \/ \E c \in Capabilities : save_capability_route(c, m)
          \/ \E type \in {"language", "image"}, fc \in {"yes", "no"} :
                declare_model_capabilities(m, type, fc)
    \/ delete_capability_route
    \/ RememberKey
    \/ ProviderSaved
    \/ \E restored \in BOOLEAN : ProviderNotSaved(restored)
    \/ clear_session_credentials
    \/ InsertLoaded
    \/ discover_models
    \/ \E mode \in {"ask", "act"} : resolve_model_and_credential_for_turn(mode)
    \/ \E i \in Tests :
          \/ \E m \in Models : test_model(i, m)
          \/ \E result \in {"ready", "error", "killed"}, reasoning \in {"yes", "unknown"} :
                ProbeEnds(i, result, reasoning)
          \/ run_r_json(i)
          \/ StoreTest(i)
    \/ cancel_test
    \/ DesktopDies

ModelSpec == ModelInit /\ [][ModelNext]_modelvars

(***************************************************************************)
(* Properties                                                              *)
(***************************************************************************)

\* A key never outlives its provider, whatever fails or dies while it is
\* deleted, and between two commands the session cache holds nothing but what
\* the system store holds, although a discovery reads outside the lock: the
\* key a turn starts with is the one stored for the provider of its model.
KeysFollowProviders ==
    /\ \A p \in Providers : p \notin settings.providers => keychain[p] = NoKey
    /\ guard = Free => \A p \in Providers : cache[p] \in {Uncached, keychain[p]}

\* The settings page and the turns agree: a route shown as compatible resolves,
\* one shown as incompatible or unassigned does not start an Act turn.
ViewTellsResolution ==
    /\ \A mode \in {"ask", "act"} :
          LET c == IF mode = "act" THEN "agent.act" ELSE "agent.chat"
          IN  route_compatibility(settings, c) = "compatible" => resolve_model_for_turn(settings, mode)
    /\ route_compatibility(settings, "agent.act") \in {"incompatible", "unassigned"} =>
          ~resolve_model_for_turn(settings, "act")

\* What the user sees of keys and routes is what a turn finds.
SettingsTellTurns == KeysFollowProviders /\ ViewTellsResolution
=============================================================================
