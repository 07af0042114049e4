---------------------------- MODULE OutboundHttp ----------------------------
\* Requests to the providers through OutboundHttpClient: operation policy, the two
\* semaphores of the client, name resolution, a connection pinned to the address
\* that was approved, the checks of the answer, and one deadline around all of it.
\* The network decides what a name resolves to, who answers a connection, which
\* certificate it shows and what it replies.
EXTENDS Naturals, Sequences, FiniteSets

CONSTANTS
    Call,               \* requests
    Client,             \* OutboundHttpClient objects
    Endpoint,           \* providers
    GlobalLimit, ProviderLimit,     \* permits of a client
    ResponseLimit       \* the operation's response_limit_bytes, in chunks

ASSUME OutboundAssumption ==
    /\ GlobalLimit \in Nat \ {0} /\ ProviderLimit \in Nat \ {0}
    /\ ResponseLimit \in Nat

VARIABLES
    calls,              \* Call -> the state of a request, with what it sent and to whom
    globalFree,         \* Client -> permits of its _global_semaphore
    providerFree        \* Client -> Endpoint -> permits

outboundVars == <<calls, globalFree, providerFree>>

Address == {"first", "second", "private"}      \* the first two are public
Operation == {"json", "html_session", "json_session", "html", "unimplemented"}
NoCall == [at |-> "idle"]
NothingSent == [peer |-> "none", cookie |-> FALSE, verified |-> FALSE]

Started(r) == calls[r].at # "idle"
Working(r) == calls[r].at \in {"resolve", "connect", "tls", "answer", "body"}
HoldsGlobal(r) == calls[r].at = "provider" \/ Working(r)

----------------------------------------------------------------------------
\* _validate_operation_policy and _validate_html_operation_policy: a cookie goes
\* only with an HTML operation marked PROVIDER_SESSION.
Allowed(html, operation) ==
    IF html THEN operation = "html_session" ELSE operation = "json"

\* fetch_json or fetch_html up to its first wait; what _prepare_request refuses
\* ends here too.
Fetch(r, c, p, html, operation, wellFormed) ==
    /\ ~Started(r)
    /\ calls' = [calls EXCEPT ![r] =
           IF Allowed(html, operation) /\ wellFormed
           THEN [at |-> "global", client |-> c, endpoint |-> p, html |-> html,
                 operation |-> operation, late |-> FALSE, ip |-> "none", sent |-> NothingSent, size |-> 0]
           ELSE [at |-> "refused"]]
    /\ UNCHANGED <<globalFree, providerFree>>

\* async with self._global_semaphore, provider_semaphore: the global permit is
\* held while the provider's is awaited.
TakeGlobal(r) ==
    /\ calls[r].at = "global"
    /\ globalFree[calls[r].client] > 0
    /\ globalFree' = [globalFree EXCEPT ![calls[r].client] = @ - 1]
    /\ calls' = [calls EXCEPT ![r].at = "provider"]
    /\ UNCHANGED providerFree

TakeProvider(r) ==
    /\ calls[r].at = "provider"
    /\ providerFree[calls[r].client][calls[r].endpoint] > 0
    /\ providerFree' = [providerFree EXCEPT ![calls[r].client][calls[r].endpoint] = @ - 1]
    /\ calls' = [calls EXCEPT ![r].at = "resolve"]
    /\ UNCHANGED globalFree

EndMutant(r, outcome) ==
    LET call == calls[r]
    IN /\ calls' = [calls EXCEPT ![r] = [at |-> outcome]]
       /\ globalFree' = IF Working(r) THEN [globalFree EXCEPT ![call.client] = @ + 1]
                        ELSE globalFree
       /\ providerFree' = IF Working(r)
                          THEN [providerFree EXCEPT ![call.client][call.endpoint] = @ + 1]
                          ELSE providerFree

\* Every way out of the two async with blocks gives back what is held.
End(r, outcome) ==
    LET call == calls[r]
    IN /\ calls' = [calls EXCEPT ![r] = [at |-> outcome]]
       /\ globalFree' = IF HoldsGlobal(r) THEN [globalFree EXCEPT ![call.client] = @ + 1]
                        ELSE globalFree
       /\ providerFree' = IF Working(r)
                          THEN [providerFree EXCEPT ![call.client][call.endpoint] = @ + 1]
                          ELSE providerFree

Proceed(r, step) ==
    /\ calls' = [calls EXCEPT ![r].at = step]
    /\ UNCHANGED <<globalFree, providerFree>>

----------------------------------------------------------------------------
\* _validate_public_addresses: one bad address spoils the answer.
Public(addresses) == \A i \in DOMAIN addresses : addresses[i] # "private"

Resolve(r, addresses) ==
    /\ calls[r].at = "resolve"
    /\ IF addresses = <<>> \/ ~Public(addresses) THEN End(r, "refused")
       ELSE IF calls[r].late THEN End(r, "timeout")
       ELSE /\ calls' = [calls EXCEPT ![r].at = "connect", ![r].ip = addresses[1]]
            /\ UNCHANGED <<globalFree, providerFree>>

\* PinnedNetworkBackend.connect_tcp: the address of the plan, and its peer.
Connect(r, peer) ==
    /\ calls[r].at = "connect"
    /\ IF peer = calls[r].ip THEN Proceed(r, "tls") ELSE End(r, "refused")

\* PinnedNetworkStream.start_tls, and then the request is written: the provider's
\* certificate and, once more, the peer.
StartTls(r, peer, verified) ==
    /\ calls[r].at = "tls"
    /\ IF verified /\ peer = calls[r].ip
       THEN /\ calls' = [calls EXCEPT ![r].at = "answer",
                  ![r].sent = [peer |-> peer, cookie |-> calls[r].html, verified |-> verified]]
            /\ UNCHANGED <<globalFree, providerFree>>
       ELSE End(r, "refused")

\* Status (a redirect is an error), encoding, media type and declared length.
ReadHead(r, accepted) ==
    /\ calls[r].at = "answer"
    /\ IF accepted THEN Proceed(r, "body") ELSE End(r, "refused")

ReadChunk(r, chunk) ==
    /\ calls[r].at = "body"
    /\ IF calls[r].size + chunk > ResponseLimit THEN End(r, "refused")
       ELSE /\ calls' = [calls EXCEPT ![r].size = @ + chunk]
            /\ UNCHANGED <<globalFree, providerFree>>

\* The body is complete; JSON must parse to what the operation expects.
Return(r, parses) ==
    /\ calls[r].at = "body"
    /\ IF calls[r].late THEN End(r, "timeout")
       ELSE IF parses \/ calls[r].html THEN End(r, "success") ELSE End(r, "refused")

\* The ten seconds are over; asyncio.timeout cancels the request at a wait.
Deadline(r) ==
    /\ calls[r].at = "global" \/ HoldsGlobal(r)
    /\ IF calls[r].late THEN End(r, "timeout")
       ELSE /\ calls' = [calls EXCEPT ![r].late = TRUE]
            /\ UNCHANGED <<globalFree, providerFree>>

\* The caller is cancelled, or the connection breaks.
Break(r) ==
    /\ calls[r].at = "global" \/ HoldsGlobal(r)
    /\ End(r, "cancelled")

OutboundInit ==
    /\ calls = [r \in Call |-> NoCall]
    /\ globalFree = [c \in Client |-> GlobalLimit]
    /\ providerFree = [c \in Client |-> [p \in Endpoint |-> ProviderLimit]]

OutboundNext ==
    \E r \in Call :
        \/ \E c \in Client, p \in Endpoint, html \in BOOLEAN, operation \in Operation,
              wellFormed \in BOOLEAN : Fetch(r, c, p, html, operation, wellFormed)
        \/ TakeGlobal(r)
        \/ TakeProvider(r)
        \/ \E addresses \in {<<>>} \cup {<<a>> : a \in Address} \cup (Address \X Address) :
              Resolve(r, addresses)
        \/ \E peer \in Address : Connect(r, peer)
        \/ \E peer \in Address, verified \in BOOLEAN : StartTls(r, peer, verified)
        \/ \E accepted \in BOOLEAN : ReadHead(r, accepted)
        \/ \E chunk \in 1..2 : ReadChunk(r, chunk)
        \/ \E parses \in BOOLEAN : Return(r, parses)
        \/ Deadline(r)
        \/ Break(r)

OutboundSpec == OutboundInit /\ [][OutboundNext]_outboundVars

----------------------------------------------------------------------------
\* Type invariant; no answer grows past its limit.
OutboundTypeOK ==
    /\ \A r \in Call : Working(r) => /\ calls[r].size \in 0..ResponseLimit
                                     /\ calls[r].late \in BOOLEAN
    /\ \A c \in Client : globalFree[c] \in 0..GlobalLimit
    /\ \A c \in Client, p \in Endpoint : providerFree[c][p] \in 0..ProviderLimit

\* However a request ends (refused, timed out, cancelled while it queues for the
\* second semaphore or in the middle of an answer), the client has exactly the
\* permits back that no live request holds: none is lost and none is made up.
PermitsBalanced ==
    \A c \in Client :
        /\ globalFree[c] + Cardinality({r \in Call : HoldsGlobal(r) /\ calls[r].client = c})
              = GlobalLimit
        /\ \A p \in Endpoint :
              providerFree[c][p] + Cardinality({r \in Call :
                  Working(r) /\ calls[r].client = c /\ calls[r].endpoint = p}) = ProviderLimit

\* Nothing leaves for a peer other than the address that was resolved and approved
\* as public, with the provider's certificate, whoever answers the connection
\* before or after the TLS handshake.
OnlyApprovedPeer ==
    \A r \in Call : (Working(r) /\ calls[r].sent # NothingSent) =>
        /\ calls[r].sent.verified
        /\ calls[r].sent.peer = calls[r].ip /\ calls[r].ip # "private"
        /\ calls[r].sent.cookie => calls[r].operation = "html_session"

\* No exit of a request, in any order of its awaits, loses a permit or has sent
\* anything to a peer that was not approved.
OutboundSafe == PermitsBalanced /\ OnlyApprovedPeer
=============================================================================
