---------------------------- MODULE Presentation ----------------------------
(***************************************************************************)
(* The receiver's authentication of signed requests                        *)
(* (sdk/aria-ap-ts/src/internal/request.ts) over its challenge store       *)
(* (sdk/aria-ap-ts/src/challenges.ts), and the issue of challenges with    *)
(* its identity.  Every request delivered is a process that moves from one *)
(* await to the next while time passes, other deliveries (copies of the    *)
(* same request included) do the same, and challenges are issued, expire   *)
(* and are purged.                                                         *)
(*                                                                         *)
(* Time is in seconds, and one clock serves the receiver and its store;    *)
(* a request carries whatever times its sender wrote.                      *)
(***************************************************************************)
EXTENDS Integers, FiniteSets

CONSTANTS
    Tokens,      \* challenges: each names the one identity request that may be given it
    Receivers,   \* the receivers that share the store
    Deliveries,  \* requests that arrive, each handled once
    Requests,    \* what senders signed: [nonce, created, expires, genuine]
    TTL,         \* CHALLENGE_TTL_SECONDS
    MaxLive,     \* maxLive
    MaxWindow,   \* PROFILE.maxWindowSeconds
    Skew,        \* PROFILE.skewSeconds
    MaxNow,      \* bound: the last instant
    None

\* `genuine`: its named credential resolves, by its digest, to the key that signed it.
Request == [nonce : Tokens, created : Int, expires : Int, genuine : BOOLEAN]

ASSUME RequestsAssumption == Requests \subseteq Request
ASSUME TimesAssumption == TTL \in Nat \ {0} /\ MaxWindow \in Nat /\ Skew \in Nat /\ MaxNow \in Nat

VARIABLES
    now,        \* the clock
    store,      \* the challenges held: audience and expiry, or None
    identity,   \* what became of each identity request
    issuer,     \* history: the receiver that issued each challenge, and its expiry
    delivery,   \* where each delivery is, with its request and the receiver it came to
    consumer    \* history: the delivery that consumed each challenge

vars == <<now, store, identity, issuer, delivery, consumer>>

-----------------------------------------------------------------------------
(* The challenge store *)

Entry(r, t) == [audience |-> r, expires |-> t]

Entries == [audience : Receivers, expires : Nat]

Held == {c \in Tokens : store[c] # None}

\* Live strictly before its expiry, for the receiver it was issued by.
Live(c, r) == store[c] # None /\ store[c].audience = r /\ store[c].expires > now

\* Mutant: nothing is purged until the store is full, and then everything.
PurgedWhenFull == IF Cardinality(Held) >= MaxLive THEN [c \in Tokens |-> None] ELSE store

\* Mutant: entries are only dropped when they are consumed.
Unpurged == store

Purged == [c \in Tokens |-> IF store[c] # None /\ store[c].expires <= now THEN None ELSE store[c]]

Kept == {c \in Tokens : Purged[c] # None}

\* `issue` of identify: expired entries go first, then the limit is tested.
Identify(c, r) ==
    /\ identity[c] = "none"
    /\ Cardinality(Kept) < MaxLive
    /\ store' = [Purged EXCEPT ![c] = Entry(r, now + TTL)]
    /\ identity' = [identity EXCEPT ![c] = "issued"]
    /\ issuer' = [issuer EXCEPT ![c] = Entry(r, now + TTL)]
    /\ UNCHANGED <<now, delivery, consumer>>

IdentifyRefused(c) ==
    /\ identity[c] = "none"
    /\ Cardinality(Kept) >= MaxLive
    /\ store' = Purged
    /\ identity' = [identity EXCEPT ![c] = "refused"]
    /\ UNCHANGED <<now, issuer, delivery, consumer>>

-----------------------------------------------------------------------------
(* authenticate *)

\* Where a delivery waits, and how it ends: the reasons of its refusal ("signature"
\* stands for "credential" too), "verified", or "lost" when it is never answered.
Waits == {"challenge_live", "resolve", "consume", "answer"}
Ends  == {"verified", "window", "challenge", "signature", "lost"}

Delivery == [pc : Waits \cup Ends, request : Requests, receiver : Receivers]

ASSUME NoneAssumption == None \notin Entries /\ None \notin Delivery /\ None \notin Deliveries

\* The receiver's clock is inside the request's window, the skew allowed for.
Current(q) == q.created <= now + Skew /\ q.expires >= now - Skew

WindowFits(q) == q.expires > q.created /\ q.expires - q.created <= MaxWindow

At(d, pc) == delivery[d] # None /\ delivery[d].pc = pc

Goto(d, pc) == delivery' = [delivery EXCEPT ![d].pc = pc]

\* A request over an issued challenge arrives (a challenge is random, nobody carries
\* one before its issue); its window is tested before anything is awaited.
Present(d, q, r) ==
    /\ delivery[d] = None
    /\ issuer[q.nonce] # None
    /\ delivery' = [delivery EXCEPT ![d] =
            [pc |-> IF WindowFits(q) /\ Current(q) THEN "challenge_live" ELSE "window",
             request |-> q, receiver |-> r]]
    /\ UNCHANGED <<now, store, identity, issuer, consumer>>

\* Seen live, and not consumed before the signature is verified.
ChallengeLive(d) ==
    /\ At(d, "challenge_live")
    /\ Goto(d, IF Live(delivery[d].request.nonce, delivery[d].receiver) THEN "resolve" ELSE "challenge")
    /\ UNCHANGED <<now, store, identity, issuer, consumer>>

\* Mutant: the challenge is consumed whoever signed.
ResolvedUnverified(d) == IF Current(delivery[d].request) THEN "consume" ELSE "window"

\* The signature is verified with the key the credential resolved to, then the window.
Resolved(d) ==
    LET q == delivery[d].request
    IN  CASE ~q.genuine -> "signature"
          [] q.genuine /\ ~Current(q) -> "window"
          [] q.genuine /\ Current(q) -> "consume"

Resolve(d) ==
    /\ At(d, "resolve")
    /\ Goto(d, Resolved(d))
    /\ UNCHANGED <<now, store, identity, issuer, consumer>>

\* Mutant: what was live when it was looked at is consumed.
ConsumeSeen(d) ==
    LET c == delivery[d].request.nonce
    IN  /\ At(d, "consume")
        /\ Goto(d, "answer")
        /\ store' = [store EXCEPT ![c] = None]
        /\ consumer' = [consumer EXCEPT ![c] = d]
        /\ UNCHANGED <<now, identity, issuer>>

\* One step of the store: still live, and gone.
Consume(d) ==
    LET c == delivery[d].request.nonce
        live == Live(c, delivery[d].receiver)
    IN  /\ At(d, "consume")
        /\ Goto(d, IF live THEN "answer" ELSE "challenge")
        /\ store' = IF live THEN [store EXCEPT ![c] = None] ELSE store
        /\ consumer' = IF live THEN [consumer EXCEPT ![c] = d] ELSE consumer
        /\ UNCHANGED <<now, identity, issuer>>

\* Mutant: the window is not looked at after the store answered.
AnswerUnjudged(d) ==
    /\ At(d, "answer")
    /\ Goto(d, "verified")
    /\ UNCHANGED <<now, store, identity, issuer, consumer>>

\* The window once more, after the wait for the store.
Answer(d) ==
    /\ At(d, "answer")
    /\ Goto(d, IF Current(delivery[d].request) THEN "verified" ELSE "window")
    /\ UNCHANGED <<now, store, identity, issuer, consumer>>

\* The receiver restarts: the deliveries in progress are lost, and "nothing survives"
\* of the store.
Restart ==
    /\ store' = [c \in Tokens |-> None]
    /\ identity' = [c \in Tokens |-> IF store[c] = None THEN identity[c] ELSE "forgotten"]
    /\ delivery' = [d \in Deliveries |->
            IF \E pc \in Waits : At(d, pc) THEN [delivery[d] EXCEPT !.pc = "lost"] ELSE delivery[d]]
    /\ UNCHANGED <<now, issuer, consumer>>

Tick ==
    /\ now < MaxNow
    /\ now' = now + 1
    /\ UNCHANGED <<store, identity, issuer, delivery, consumer>>

-----------------------------------------------------------------------------

Init ==
    /\ now = 0
    /\ store = [c \in Tokens |-> None]
    /\ identity = [c \in Tokens |-> "none"]
    /\ issuer = [c \in Tokens |-> None]
    /\ delivery = [d \in Deliveries |-> None]
    /\ consumer = [c \in Tokens |-> None]

Step(d) == ChallengeLive(d) \/ Resolve(d) \/ Consume(d) \/ Answer(d)

Next ==
    \/ \E c \in Tokens : IdentifyRefused(c) \/ \E r \in Receivers : Identify(c, r)
    \/ \E d \in Deliveries :
        \/ \E q \in Requests, r \in Receivers : Present(d, q, r)
        \/ Step(d)
    \/ Tick
    \/ Restart

Spec == Init /\ [][Next]_vars

-----------------------------------------------------------------------------
(* Properties *)

\* Entries, answers and deliveries have their shapes.
TypeOK ==
    /\ now \in 0 .. MaxNow
    /\ store \in [Tokens -> Entries \cup {None}]
    /\ identity \in [Tokens -> {"none", "issued", "refused", "forgotten"}]
    /\ issuer \in [Tokens -> Entries \cup {None}]
    /\ delivery \in [Deliveries -> Delivery \cup {None}]
    /\ consumer \in [Tokens -> Deliveries \cup {None}]

\* One challenge authenticates one request: of all deliveries that carry it, copies
\* and retries, at whatever receivers, one is verified at most.
OncePerChallenge ==
    \A d, e \in Deliveries :
        At(d, "verified") /\ At(e, "verified") /\ delivery[d].request.nonce = delivery[e].request.nonce
            => d = e

\* A request is verified while its window is open at that instant, by the receiver
\* that issued its challenge, under the key it names.
VerifiedNow ==
    [][\A d \in Deliveries : ~At(d, "verified") /\ At(d, "verified")' =>
        LET q == delivery[d].request
        IN  Current(q) /\ q.genuine /\ issuer[q.nonce].audience = delivery[d].receiver]_vars

\* A live challenge is taken out of the store only by a genuine request that carries
\* it: neither a forged request nor a full store costs its holder the challenge.  (A
\* restart does: the store is in memory.)
OnlyGenuineConsumes ==
    [][\A c \in Tokens : store[c] # None /\ store[c].expires > now /\ store'[c] = None /\ identity'[c] # "forgotten" =>
        \E d \in Deliveries :
            delivery'[d] # delivery[d] /\ delivery[d].request.nonce = c /\ delivery[d].request.genuine]_vars

\* A request to the right receiver is refused for its challenge only if the challenge
\* is over: expired, consumed by another delivery, or forgotten in a restart.
RefusedForCause ==
    \A d \in Deliveries :
        LET c == delivery[d].request.nonce
        IN  At(d, "challenge") /\ issuer[c].audience = delivery[d].receiver
                => issuer[c].expires <= now \/ consumer[c] \notin {None, d} \/ identity[c] = "forgotten"

\* A receiver is refused a challenge only while as many as the limit are live: entries
\* that have expired never count.
RefusedAtLimit ==
    [][\A c \in Tokens : identity[c] = "none" /\ identity'[c] = "refused" =>
        Cardinality({l \in Tokens : store[l] # None /\ store[l].expires > now}) >= MaxLive]_vars

-----------------------------------------------------------------------------

\* A challenge in the store is as it was issued; one that is not was never issued, is
\* over, forgotten, or was consumed by the delivery that carries it.
Accounted ==
    \A c \in Tokens :
        /\ issuer[c] # None <=> identity[c] \in {"issued", "forgotten"}
        /\ store[c] # None => store[c] = issuer[c] /\ consumer[c] = None /\ identity[c] = "issued"
        /\ store[c] = None /\ identity[c] = "issued" => issuer[c].expires <= now \/ consumer[c] # None
        /\ consumer[c] # None =>
              /\ store[c] = None
              /\ issuer[c] # None
              /\ delivery[consumer[c]] # None
              /\ delivery[consumer[c]].request.nonce = c
              /\ delivery[consumer[c]].pc \in {"answer", "verified", "window", "lost"}

\* A delivery that passed the consumption is the consumer of its challenge; one that
\* passed the signature is genuine, and came to the challenge's issuer.
Passed ==
    \A d \in Deliveries : delivery[d] # None =>
        LET q == delivery[d].request
        IN  /\ issuer[q.nonce] # None
            /\ delivery[d].pc \in {"consume", "answer", "verified"} => q.genuine
            /\ delivery[d].pc \in {"answer", "verified"} =>
                  consumer[q.nonce] = d /\ issuer[q.nonce].audience = delivery[d].receiver

\* The inductive invariant of authentication.
PresentationInv == TypeOK /\ Accounted /\ Passed /\ RefusedForCause

=============================================================================
