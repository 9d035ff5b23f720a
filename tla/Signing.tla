------------------------------- MODULE Signing -------------------------------
(***************************************************************************)
(* Identifying a receiver and signing for it: identify,                    *)
(* verifyReceiverIdentity and signRequest of sdk/aria-ap-ts/src/ap.ts with *)
(* checkIdentity of internal/identity.ts, and the way of the signed        *)
(* request to a receiver that authenticates it (RequestForm).              *)
(*                                                                         *)
(* A client is one attempt of an agent: it identifies the receiver it      *)
(* pinned, waits for the receiver's status, signs, and sends.  Statements  *)
(* and requests pass a network that keeps, repeats and alters them.  The   *)
(* receivers' clock may differ from the agents' by the skew.  A delivery   *)
(* is one step here; its awaits are the subject of Presentation.           *)
(***************************************************************************)
EXTENDS RequestForm

CONSTANTS
    Clients,       \* attempts; a client's name is its nonce
    AgentOf,       \* the agent of each, by its credential's URL
    PinOf,         \* the receiver each expects: [origin, did]
    Inputs,        \* what each may be asked to sign
    Tokens,        \* challenges
    IssuerOf,      \* the receiver that may issue each
    Origin,        \* the receivers' origins (a receiver is its DID, its credential and its key)
    Operations,    \* the operations the receivers describe
    Altered(_),    \* the requests the network may make of one
    MaxAge,        \* STATEMENT_MAX_AGE_MS
    TTL,           \* CHALLENGE_TTL_SECONDS
    Asked,         \* what receivers may be asked to state: a nonce, for an agent
    Drifts,        \* bound: by how much the receivers' clock may be ahead
    Standings,     \* bound: how long the evidence of a receiver's status may hold
    MaxNow         \* bound: the last instant of the agents' clock

Receivers == DOMAIN Origin

Agents == DOMAIN Holders

ASSUME PartiesAssumption ==
    /\ AgentOf \in [Clients -> Agents] /\ IssuerOf \in [Tokens -> Receivers]
    /\ Asked \subseteq Clients \X Agents
    /\ \A d \in Operations : DescriptorOK(d) /\ d.semanticHeaders \cap Derived = {}  \* no field is named so
    /\ \A drift \in Drifts : drift \in -Skew * Second .. Skew * Second
    /\ Standings \subseteq Nat /\ {MaxAge, TTL, MaxNow} \subseteq Nat

VARIABLES
    now,        \* the agents' clock
    drift,      \* how far the receivers' clock is ahead of it
    challenge,  \* what each challenge was issued for, and what became of it
    client,     \* where each client is
    taken       \* what the receiver made of the request that consumed each challenge

vars == <<now, drift, challenge, client, taken>>

There == now + drift

-----------------------------------------------------------------------------
(* identify *)

\* The receiver answers a nonce for a named client: first the challenge.
Issue(c, nonce, audience) ==
    /\ challenge[c] = None
    /\ challenge' = [challenge EXCEPT ![c] =
            [nonce |-> nonce, audience |-> audience, issued |-> There, stated |-> None, used |-> FALSE]]
    /\ UNCHANGED <<now, drift, client, taken>>

\* The store took time: the statement is dated now, and signed.
State(c) ==
    /\ challenge[c] # None /\ challenge[c].stated = None
    /\ challenge' = [challenge EXCEPT ![c].stated = now]
    /\ UNCHANGED <<now, drift, client, taken>>

Stated == {c \in Tokens : challenge[c] # None /\ challenge[c].stated # None}

\* instantText: whole seconds.
Truncated(t) == (t \div Second) * Second

Statement(c) ==
    LET r == IssuerOf[c]
    IN  [subject |-> r, credential |-> r, origin |-> Origin[r], audience |-> challenge[c].audience,
         nonce |-> challenge[c].nonce, challenge |-> c, created |-> Truncated(challenge[c].stated + drift)]

\* A statement made to fit client a, out of one that was signed.
Fitted(c, a) ==
    [Statement(c) EXCEPT !.nonce = a, !.audience = AgentOf[a], !.subject = PinOf[a].did,
                         !.credential = PinOf[a].did, !.origin = PinOf[a].origin]

\* What may reach client a as an answer: any statement ever signed, with its own
\* document or another, and statements made to fit which nobody signed.
IdentityResponses(a) ==
    {[document |-> k, statement |-> Statement(c), signer |-> IssuerOf[c]] : c \in Stated, k \in Receivers \cup {None}}
    \cup {[document |-> PinOf[a].did, statement |-> Fitted(c, a), signer |-> None] : c \in Stated}

-----------------------------------------------------------------------------
(* verifyReceiverIdentity *)

Stale(s) == now - s.created > MaxAge

\* checkIdentity, up to its await.
IdentityTests(p, s, a) ==
    << [fails |-> p.document = None, reason |-> "credential"],
       [fails |-> p.document # s.credential \/ p.document # s.subject, reason |-> "credential"],
       [fails |-> s.subject # PinOf[a].did, reason |-> "unexpected_receiver"],
       [fails |-> s.origin # PinOf[a].origin, reason |-> "origin"],
       [fails |-> s.audience # AgentOf[a], reason |-> "audience"],
       [fails |-> s.nonce # a, reason |-> "nonce"],
       [fails |-> s.created > now + Skew * Second \/ Stale(s), reason |-> "stale"],
       [fails |-> p.signer # p.document, reason |-> "signature"] >>

At(a, pc) == client[a] # None /\ client[a].pc = pc

Goto(a, pc) == client' = [client EXCEPT ![a].pc = pc]

Fresh(s) == [pc |-> "standing", statement |-> s, until |-> None, input |-> None, request |-> None]

CheckIdentity(a, p) ==
    /\ client[a] = None
    /\ FirstFailure(IdentityTests(p, p.statement, a)) = "ok"
    /\ client' = [client EXCEPT ![a] = Fresh(p.statement)]
    /\ UNCHANGED <<now, drift, challenge, taken>>

\* Mutant: the statement was fresh when it was first looked at.
StandsAnyway(a, until) ==
    /\ At(a, "standing")
    /\ client' = [client EXCEPT ![a].pc = "verified", ![a].until = until]
    /\ UNCHANGED <<now, drift, challenge, taken>>

\* The status arrives, good until some instant: the statement must still be fresh.
Stands(a, until) ==
    /\ At(a, "standing")
    /\ client' = [client EXCEPT ![a].pc = IF Stale(client[a].statement) THEN "refused" ELSE "verified",
                                ![a].until = until]
    /\ UNCHANGED <<now, drift, challenge, taken>>

\* Revoked, superseded or unavailable.
DoesNotStand(a) == At(a, "standing") /\ Goto(a, "refused") /\ UNCHANGED <<now, drift, challenge, taken>>

-----------------------------------------------------------------------------
(* signRequest *)

\* The receiver's statement is fresh and its credential stands now.
ReceiverCurrent(a) == now <= client[a].statement.created + MaxAge /\ now <= client[a].until

Reference(a) == [url |-> AgentOf[a], digest |-> Holders[AgentOf[a]].digest]

Prepared(a, i) ==
    SignedRequest(i, PinOf[a].origin, Reference(a), PinOf[a].did, client[a].statement.challenge,
                  Holders[AgentOf[a]], now \div Second)

\* Up to the await: the window is fixed, the base is handed to the signer.
SignRequest(a, i) ==
    /\ At(a, "verified")
    /\ IF ReceiverCurrent(a) /\ Signable(i) /\ Prepares(i, Reference(a), PinOf[a].did)
       THEN client' = [client EXCEPT ![a].pc = "signing", ![a].input = i, ![a].request = Prepared(a, i)]
       ELSE Goto(a, "refused")
    /\ UNCHANGED <<now, drift, challenge, taken>>

Signature(a) == client[a].request.inputs[1]

\* Mutant: the request leaves whatever time its signer took.
SignedWhenever(a) == At(a, "signing") /\ Goto(a, "signed") /\ UNCHANGED <<now, drift, challenge, taken>>

\* The signer took time: everything is asked again, and the window's end.
Signed(a) ==
    /\ At(a, "signing")
    /\ Goto(a, IF ReceiverCurrent(a) /\ now <= Signature(a).params.expires * Second THEN "signed" ELSE "refused")
    /\ UNCHANGED <<now, drift, challenge, taken>>

-----------------------------------------------------------------------------
(* The receiver *)

Live(r) == {c \in Tokens : IssuerOf[c] = r /\ challenge[c] # None /\ ~challenge[c].used /\ challenge[c].issued + TTL > There}

Accepts(q, r) == Authenticate(q, Origin[r], Operations, There, Live(r)) = "ok"

\* Nobody but its holder signs with a key: what the network makes of a request has that
\* request's signature, or some other key's.
Unforged(q, a) ==
    Resolves(q, q.inputs[1]) /\ q.inputs[1].signature.key = Key(q) => q.inputs[1].signature = Signature(a).signature

\* A request made of one that was sent is authenticated; one that is refused changes
\* nothing.
Deliver(a, q, r) ==
    /\ At(a, "signed")
    /\ Accepts(q, r) /\ Unforged(q, a)
    /\ LET c == q.inputs[1].params.nonce
       IN  /\ challenge' = [challenge EXCEPT ![c].used = TRUE]
           /\ taken' = [taken EXCEPT ![c] = [receiver |-> r, value |-> Authenticated(q, Operations, Origin[r])]]
    /\ UNCHANGED <<now, drift, client>>

Tick ==
    /\ now < MaxNow
    /\ now' = now + 1
    /\ UNCHANGED <<drift, challenge, client, taken>>

-----------------------------------------------------------------------------

Init ==
    /\ now = 0
    /\ drift \in Drifts
    /\ challenge = [c \in Tokens |-> None]
    /\ client = [a \in Clients |-> None]
    /\ taken = [c \in Tokens |-> None]

Next ==
    \/ \E c \in Tokens : State(c) \/ \E asked \in Asked : Issue(c, asked[1], asked[2])
    \/ \E a \in Clients :
        \/ \E p \in IdentityResponses(a) : CheckIdentity(a, p)
        \/ \E n \in Standings : Stands(a, now + n)
        \/ DoesNotStand(a)
        \/ \E i \in Inputs[a] : SignRequest(a, i)
        \/ Signed(a)
        \/ \E r \in Receivers : Live(r) # {} /\ At(a, "signed") /\ \E q \in Altered(client[a].request) : Deliver(a, q, r)
    \/ Tick

Spec == Init /\ [][Next]_vars

-----------------------------------------------------------------------------
(* Properties *)

Challenges == [nonce : Clients, audience : Agents, issued : Int, stated : Nat \cup {None}, used : BOOLEAN]

ASSUME NoneAssumption == None \notin Challenges /\ None \notin Nat /\ None \notin Receivers

Pcs == {"standing", "verified", "signing", "signed", "refused"}

\* What is kept of challenges, clients and accepted requests has its shape.
TypeOK ==
    /\ now \in 0 .. MaxNow /\ drift \in Drifts
    /\ challenge \in [Tokens -> Challenges \cup {None}]
    /\ client = [a \in Clients |-> client[a]] /\ taken = [c \in Tokens |-> taken[c]]
    /\ \A a \in Clients : client[a] # None =>
          LET r == client[a]
          IN  /\ r = [pc |-> r.pc, statement |-> r.statement, until |-> r.until, input |-> r.input, request |-> r.request]
              /\ r.pc \in Pcs

\* How long ago, in anybody's time, the receiver made the statement of a client.
Age(a) == now - challenge[client[a].statement.challenge].stated

\* A receiver is taken for verified only if the receiver the client pinned made this
\* statement, to this client and for its nonce, not longer ago than a statement may be
\* old and clocks may differ, and its credential stands at this moment: however long
\* its status was awaited.
VerifiedIsCurrent ==
    [][\A a \in Clients : ~At(a, "verified") /\ At(a, "verified")' =>
        LET c == client[a].statement.challenge
        IN  /\ IssuerOf[c] = PinOf[a].did /\ Origin[IssuerOf[c]] = PinOf[a].origin
            /\ challenge[c].nonce = a /\ challenge[c].audience = AgentOf[a]
            /\ Age(a) <= MaxAge + Skew * Second
            /\ now <= client'[a].until]_vars

\* A request leaves only while its receiver stands, its statement is not too old, and
\* the receiver, whatever its clock, finds it inside its window: however long the
\* signer took.
LeavesUsable ==
    [][\A a \in Clients : ~At(a, "signed") /\ At(a, "signed")' =>
        /\ now <= client[a].until /\ Age(a) <= MaxAge + Skew * Second
        /\ Window(Signature(a).params, There)]_vars

\* The receiver and the agent describe the operation alike.
Agreed(i, q) ==
    /\ i.canonical /\ Cardinality(Matching(q, Operations)) = 1
    /\ \A d \in Matching(q, Operations) :
        /\ d.class = i.class
        /\ HasBody(d.class) => Single(q, "content-type") /\ MediaType(q) = d.mediaType
        /\ Distinct(q.query) /\ Names(q) \subseteq d.query
        /\ d.class = "retrieval" => LookupOf(q) \in Uuids
        /\ Present(d, q) = Semantic(i)

\* What an agent whose credential is accepted signed, for an operation it describes as
\* the receiver does, is accepted by that receiver while the challenge lives and the
\* window is open.
SignedIsAccepted ==
    \A a \in Clients : At(a, "signed") =>
        LET q == client[a].request
            params == Signature(a).params
        IN  Agreed(client[a].input, q) /\ Holders[AgentOf[a]].acceptable
            /\ params.nonce \in Live(PinOf[a].did) /\ Current(params, There)
                => Accepts(q, PinOf[a].did)

\* What of an input is signed: a header the agent does not declare is not.
Meant(i, a) ==
    [Unsigned(i, Reference(a), PinOf[a].did) EXCEPT
        !.fields = [n \in DOMAIN @ \cap Covered(i) |-> @[n]]]

\* What the receiver made of the request that consumed c is what client a meant.
Meaning(c, a) ==
    LET v == taken[c].value
        i == client[a].input
    IN  /\ taken[c].receiver = PinOf[a].did /\ v.audience = PinOf[a].did /\ v.holder = AgentOf[a]
        /\ v.descriptor.class = i.class /\ v.operationId = i.operationId
        /\ Receiptable(i.class) => v.fingerprint = FingerprintOf(v.descriptor, Meant(i, a))
        /\ ~Receiptable(i.class) => v.lookupOf = LookupOf(i)
        /\ v.requestDigest = Signature(a).signature.base

\* Whatever a receiver accepts, out of a network that alters requests, is what the
\* holder of the credential signed for it: the same operation with the same content,
\* and the digest the client keeps to check receipts with.
AcceptedIsMeant == \A c \in Tokens : taken[c] # None => \E a \in Clients : At(a, "signed") /\ Meaning(c, a)

-----------------------------------------------------------------------------

\* A client goes by a statement that the receiver it pinned made to it.
Answered(a) ==
    LET s == client[a].statement
        c == s.challenge
    IN  /\ c \in Stated /\ s = Statement(c)
        /\ IssuerOf[c] = PinOf[a].did /\ Origin[IssuerOf[c]] = PinOf[a].origin
        /\ challenge[c].nonce = a /\ challenge[c].audience = AgentOf[a]

\* What it signs is its input, over that statement's challenge, dated at the time.
Signs(a) ==
    LET i == client[a].input
        created == Signature(a).params.created
    IN  /\ Signable(i) /\ Prepares(i, Reference(a), PinOf[a].did)
        /\ created \in Int /\ created * Second <= now
        /\ client[a].request = SignedRequest(i, PinOf[a].origin, Reference(a), PinOf[a].did,
                                             client[a].statement.challenge, Holders[AgentOf[a]], created)

\* The inductive invariant.
SigningInv ==
    /\ TypeOK
    /\ \A a \in Clients : client[a] # None =>
        /\ Answered(a)
        /\ client[a].pc \in {"signing", "signed"} => Signs(a)
    /\ AcceptedIsMeant

=============================================================================
