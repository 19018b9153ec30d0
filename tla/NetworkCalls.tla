---------------------------- MODULE NetworkCalls ----------------------------
(***************************************************************************)
(* One network.fetch of a plugin: the call around it (invoke_network_plugin *)
(* of workspace_plugins.rs) and the engine (plugin_network.rs), whose every *)
(* hop is authorised before its name is resolved, before it is sent and    *)
(* after it was answered.  Grants are revoked and hosts replaced by other  *)
(* threads between any two of these steps, and a timeout may end the fetch *)
(* wherever it waits.                                                      *)
(*                                                                         *)
(* A URL is whether it is well formed and the host it names; an address is *)
(* its leading octets or segments; the bytes of an answer are their size.  *)
(***************************************************************************)
EXTENDS Integers, FiniteSets

CONSTANTS
    NetHosts, AllowedHosts,      \* hosts there are, and those of the grant
    Addresses,                   \* <<4, octet, octet, octet>>, <<6, segment, segment, 0>>
    MaxNetFaults                 \* bound: store failures in a behaviour

Octets == 0 .. 255
Segments == 0 .. 65535

ASSUME AddressesAssumption ==
    \A x \in Addresses :
        \/ x[1] = 4 /\ x[2] \in Octets /\ x[3] \in Octets /\ x[4] \in Octets
        \/ x[1] = 6 /\ x[2] \in Segments /\ x[3] \in Segments

VARIABLES
    net,         \* the call: its step, URL, addresses, redirects and answer
    dispatched,  \* a hop was handed to the transport
    authority,   \* "live", or how it ended: "revoked", "replaced"
    once,        \* the once grant of the call: "free", "reserved", "spent"
    nrows,       \* the call events recorded
    guest,       \* what the plugin was told: "waiting", "error", "value", "removed"
    netfaults

netvars == <<net, dispatched, authority, once, nrows, guest, netfaults>>

MAX_PLUGIN_NETWORK_REDIRECTS == 3
MaxResponse == 1                 \* stands for the bytes the grant allows

(***************************************************************************)
(* Addresses.  Only what is outside every range is public.                 *)
(***************************************************************************)

is_public_ipv4(a, b, c) ==
    ~ \/ a \in {0, 10, 127}
      \/ a = 100 /\ b \in 64 .. 127
      \/ a = 169 /\ b = 254
      \/ a = 172 /\ b \in 16 .. 31
      \/ a = 192 /\ b = 168
      \/ a = 192 /\ b = 0 /\ c \in {0, 2}
      \/ a = 192 /\ b = 88 /\ c = 99
      \/ a = 198 /\ b \in {18, 19}
      \/ a = 198 /\ b = 51 /\ c = 100
      \/ a = 203 /\ b = 0 /\ c = 113
      \/ a \in 224 .. 255

\* The masks of the code as ranges; loopback, unspecified and mapped addresses
\* begin with 0 and multicast ones with ff, outside 2000::/3.
is_public_ipv6(s, t) ==
    /\ s \in 8192 .. 16383
    /\ ~ \/ s = 8194                                   \* 2002::/16
         \/ s = 8193 /\ t <= 511                       \* 2001::/23
         \/ s = 8193 /\ t = 3512                       \* 2001:db8::/32
         \/ s = 16383 /\ t < 16                        \* 3fff::/28

is_public_ip(x) == IF x[1] = 4 THEN is_public_ipv4(x[2], x[3], x[4]) ELSE is_public_ipv6(x[2], x[3])

(***************************************************************************)
(* State                                                                   *)
(***************************************************************************)

Urls == [valid : BOOLEAN, host : NetHosts]

NetInit ==
    /\ net = [step |-> "guest", url |-> [valid |-> TRUE, host |-> CHOOSE h \in NetHosts : TRUE],
              addrs |-> {}, redirects |-> 0, answered |-> "none"]
    /\ dispatched = FALSE /\ authority = "live" /\ once = "free"
    /\ nrows = {} /\ guest = "waiting" /\ netfaults = 0

Authorized == authority = "live"

To(s) == net' = [net EXCEPT !.step = s]

\* validate_url: the URL is well formed and its host is one of the grant.
validate_url(u) == u.valid /\ u.host \in AllowedHosts

\* record_call_event: the event is written, or the store refuses it.
Recorded(event) == nrows' = nrows \cup {event} /\ UNCHANGED netfaults
StoreFails == netfaults < MaxNetFaults /\ netfaults' = netfaults + 1 /\ UNCHANGED nrows

\* resume_plugin_error: the guest goes on if its host is still the active one.
resume_plugin_error == guest' = IF authority = "replaced" THEN "removed" ELSE "error"

(***************************************************************************)
(* Admission                                                               *)
(***************************************************************************)

\* network_request_authorization, the tests before anything is reserved:
\* revision, bound, method and URL of the request.
network_request_authorization(r) ==
    /\ r.fresh
    /\ r.bytes \in 1 .. MaxResponse
    /\ r.method \in {"GET", "HEAD"}
    /\ validate_url(r.url)

Requests == [fresh : BOOLEAN, bytes : 0 .. MaxResponse + 1, method : {"GET", "POST"}, url : Urls]

\* The broker request of the guest: setup and reservation under one lock.  What
\* is refused is recorded as denied and told.
BrokerRequest(r) ==
    /\ net.step = "guest"
    /\ \/ /\ network_request_authorization(r) /\ Authorized
          /\ once' = "reserved"
          /\ net' = [net EXCEPT !.step = "admitted", !.url = r.url]
          /\ UNCHANGED <<dispatched, authority, nrows, guest, netfaults>>
       \/ /\ ~(network_request_authorization(r) /\ Authorized)
          /\ \/ Recorded("call_denied") /\ resume_plugin_error /\ To("ended")
             \/ StoreFails /\ To("ended") /\ UNCHANGED guest
          /\ UNCHANGED <<dispatched, authority, once>>

\* The admission is recorded before the fetch; a refused record gives the
\* reservation back, a store that does not open leaves it.
RecordAdmission ==
    /\ net.step = "admitted"
    /\ \/ Recorded("call_admitted") /\ To("authorize") /\ UNCHANGED <<once, guest>>
       \/ StoreFails /\ once' = "free" /\ To("ended") /\ UNCHANGED guest
       \/ StoreFails /\ To("unopened") /\ UNCHANGED <<once, guest>>
    /\ UNCHANGED <<dispatched, authority>>

(***************************************************************************)
(* The engine                                                              *)
(***************************************************************************)

\* An error of the engine: a denied authorisation, or another one that is
\* uncertain or not.
Fails(kind, uncertain) ==
    /\ net' = [net EXCEPT !.step = "failed",
                          !.answered = IF kind = "AuthorizationDenied" THEN "denied"
                                       ELSE IF uncertain THEN "uncertain" ELSE "certain"]
    /\ UNCHANGED <<dispatched, authority, once, nrows, guest, netfaults>>

engine_unchanged == UNCHANGED <<authority, once, nrows, guest, netfaults>>

\* The head of a round: the URL, then the first authorisation of the hop.
Authorize ==
    /\ net.step = "authorize"
    /\ \/ ~validate_url(net.url) /\ Fails("InvalidUrl", dispatched)
       \/ validate_url(net.url) /\ ~Authorized /\ Fails("AuthorizationDenied", dispatched)
       \/ validate_url(net.url) /\ Authorized /\ To("resolve") /\ UNCHANGED dispatched /\ engine_unchanged

\* The resolver answers with no address, one or two: every one must be public.
Resolve ==
    /\ net.step = "resolve"
    /\ \/ Fails("DnsFailed", dispatched)
       \/ \E x, y \in Addresses : \E as \in {{}, {x, y}} :
             IF as # {} /\ \A a \in as : is_public_ip(a)
             THEN net' = [net EXCEPT !.step = "resolved", !.addrs = as] /\ UNCHANGED dispatched /\ engine_unchanged
             ELSE Fails("NonPublicAddress", dispatched)

\* The second authorisation; after it the hop is out of the engine's hands.
Dispatch ==
    /\ net.step = "resolved"
    /\ \/ ~Authorized /\ Fails("AuthorizationDenied", dispatched)
       \/ Authorized /\ dispatched' = TRUE /\ To("send") /\ engine_unchanged

\* The transport: an error (connection, header, a body above the bound), a
\* redirect without its body, or a body within the bound.
Send ==
    /\ net.step = "send"
    /\ \/ Fails("TransportFailed", TRUE)
       \/ /\ net' = [net EXCEPT !.step = "answer", !.answered = authority]
          /\ UNCHANGED dispatched /\ engine_unchanged

\* The third authorisation, then a redirect that starts a round of its own or
\* the result.
Answer ==
    /\ net.step = "answer"
    /\ \/ ~Authorized /\ Fails("AuthorizationDenied", TRUE)
       \/ /\ Authorized
          /\ \/ net.redirects >= MAX_PLUGIN_NETWORK_REDIRECTS /\ Fails("TooManyRedirects", TRUE)
             \/ Fails("RedirectMissingLocation", TRUE)
             \/ /\ net.redirects < MAX_PLUGIN_NETWORK_REDIRECTS
                /\ \E u \in Urls :
                      net' = [net EXCEPT !.step = "authorize", !.url = u, !.addrs = {},
                                         !.redirects = @ + 1, !.answered = "none"]
                /\ UNCHANGED dispatched /\ engine_unchanged
             \/ To("fetched") /\ UNCHANGED dispatched /\ engine_unchanged

\* The timeout of fetch, wherever fetch_inner waits.
Timeout ==
    /\ net.step \in {"resolve", "send"}
    /\ Fails("Timeout", dispatched)

(***************************************************************************)
(* What the call makes of it                                               *)
(***************************************************************************)

\* The reservation given back whatever the transport did.
Settle_Released(a) == once' = "free"

\* An error: what is recorded and what becomes of the reservation follow
\* authorisation and uncertainty; the reservation is settled before a refused
\* record is looked at.
Settle(a) == once' = IF a = "uncertain" THEN "spent" ELSE "free"

FetchFailed ==
    /\ net.step = "failed"
    /\ LET event == CASE net.answered = "denied" -> "call_denied"
                      [] net.answered = "uncertain" -> "completion_uncertain"
                      [] OTHER -> "call_failed"
       IN  \/ Recorded(event) /\ Settle(net.answered) /\ resume_plugin_error /\ To("ended")
           \/ StoreFails /\ Settle(net.answered) /\ To("ended") /\ UNCHANGED guest
           \/ StoreFails /\ To("unopened") /\ UNCHANGED <<once, guest>>
    /\ UNCHANGED <<dispatched, authority>>

\* The grant is read again before the completion is recorded.
FinalAdmission ==
    /\ net.step = "fetched"
    /\ \/ Authorized /\ To("complete") /\ UNCHANGED <<once, nrows, guest, netfaults>>
       \/ /\ ~Authorized
          /\ \/ Recorded("call_denied") /\ once' = "free" /\ resume_plugin_error /\ To("ended")
             \/ StoreFails /\ once' = "free" /\ To("ended") /\ UNCHANGED guest
             \/ StoreFails /\ To("unopened") /\ UNCHANGED <<once, guest>>
    /\ UNCHANGED <<dispatched, authority>>

RecordCompletion ==
    /\ net.step = "complete"
    /\ \/ Recorded("call_completed") /\ To("deliver") /\ UNCHANGED once
       \/ StoreFails /\ once' = "spent" /\ To("ended")
       \/ StoreFails /\ To("unopened") /\ UNCHANGED once
    /\ UNCHANGED <<dispatched, authority, guest>>

\* The value is given only if the grant is still admitted; otherwise the
\* plugin is removed and the call recorded as failed.  A host that was replaced
\* took its handles with it, so its grant is stale too.
Deliver ==
    /\ net.step = "deliver"
    /\ \/ Authorized /\ once' = "spent" /\ guest' = "value" /\ To("ended") /\ UNCHANGED <<nrows, netfaults>>
       \/ ~Authorized /\ Recorded("delivery_failed") /\ guest' = "removed" /\ To("ended") /\ UNCHANGED once
       \/ ~Authorized /\ StoreFails /\ guest' = "removed" /\ To("ended") /\ UNCHANGED once
    /\ UNCHANGED <<dispatched, authority>>

\* Another thread revokes the grant, or the host is replaced or torn down; its
\* handles are invalidated with it.
Revoke ==
    /\ Authorized
    /\ authority' \in {"revoked", "replaced"}
    /\ UNCHANGED <<net, dispatched, once, nrows, guest, netfaults>>

NetNext ==
    \/ \E r \in Requests : BrokerRequest(r)
    \/ RecordAdmission
    \/ Authorize
    \/ Resolve
    \/ Dispatch
    \/ Send
    \/ Answer
    \/ Timeout
    \/ FetchFailed
    \/ FinalAdmission
    \/ RecordCompletion
    \/ Deliver
    \/ Revoke

NetSpec == NetInit /\ [][NetNext]_netvars

(***************************************************************************)
(* Properties                                                              *)
(***************************************************************************)

\* The reserved blocks: the first address and how many there are, by the 24 leading
\* bits of an IPv4 address and the 32 leading ones of an IPv6 address.
Bits4(a, b, c) == (a * 256 + b) * 256 + c
Bits6(s, t) == s * 65536 + t

ReservedV4 == {<<Bits4(0, 0, 0), 65536>>, <<Bits4(10, 0, 0), 65536>>, <<Bits4(100, 64, 0), 16384>>,
               <<Bits4(127, 0, 0), 65536>>, <<Bits4(169, 254, 0), 256>>, <<Bits4(172, 16, 0), 4096>>,
               <<Bits4(192, 0, 0), 1>>, <<Bits4(192, 0, 2), 1>>, <<Bits4(192, 88, 99), 1>>,
               <<Bits4(192, 168, 0), 256>>, <<Bits4(198, 18, 0), 512>>, <<Bits4(198, 51, 100), 1>>,
               <<Bits4(203, 0, 113), 1>>, <<Bits4(224, 0, 0), 2097152>>}
GlobalV6 == <<Bits6(8192, 0), 536870912>>
ReservedV6 == {<<Bits6(8193, 0), 512>>, <<Bits6(8193, 3512), 1>>, <<Bits6(8194, 0), 65536>>, <<Bits6(16383, 0), 16>>}

InBlock(v, b) == b[1] <= v /\ v < b[1] + b[2]

Outside(x) ==
    IF x[1] = 4
    THEN \A b \in ReservedV4 : ~InBlock(Bits4(x[2], x[3], x[4]), b)
    ELSE /\ InBlock(Bits6(x[2], x[3]), GlobalV6)
         /\ \A b \in ReservedV6 : ~InBlock(Bits6(x[2], x[3]), b)

\* What left the process is accounted for.  A hop is sent only to a host of the
\* grant at addresses outside every reserved block, at most four of them; a
\* once grant whose request was handed to the transport is spent and one whose
\* request was not is free again, unless the authority ended meanwhile or the
\* store did not open; "failed" is never recorded of a request that was sent;
\* and a value is told only after its completion was recorded, for an answer
\* that came while the authority was live.
SentIsAccountedFor ==
    /\ net.step \in {"send", "answer", "fetched"} =>
          /\ net.url.valid /\ net.url.host \in AllowedHosts
          /\ net.addrs # {} /\ \A x \in net.addrs : Outside(x)
          /\ net.redirects <= 3
    /\ net.step = "ended" /\ Authorized => once = (IF dispatched THEN "spent" ELSE "free")
    /\ "call_failed" \in nrows => ~dispatched
    /\ guest = "value" => "call_completed" \in nrows /\ net.answered = "live"
=============================================================================
