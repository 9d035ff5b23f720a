------------------------ MODULE Presentation_proofs ------------------------
(***************************************************************************)
(* Theorems about authentication, for any requests, receivers, deliveries  *)
(* and times.                                                              *)
(***************************************************************************)
EXTENDS Presentation, TLAPS

\* Nothing issued, nothing delivered.
LEMMA InitInv == Init => PresentationInv
BY NoneAssumption, TimesAssumption DEF Init, PresentationInv, TypeOK, Accounted, Passed, RefusedForCause, At

\* The fields of a delivery that was made.
LEMMA DeliveryFields ==
  ASSUME TypeOK, NEW d \in Deliveries, delivery[d] # None
  PROVE  /\ delivery[d] \in Delivery
         /\ delivery[d].request \in Requests
         /\ delivery[d].request.nonce \in Tokens
         /\ delivery[d].receiver \in Receivers
         /\ delivery[d].pc \in Waits \cup Ends
BY RequestsAssumption DEF TypeOK, Delivery, Request

\* A challenge that is not live at its issuer is over, forgotten or consumed.
LEMMA NotLiveForCause ==
  ASSUME PresentationInv, NEW c \in Tokens, NEW r \in Receivers, issuer[c] # None,
         issuer[c].audience = r, ~Live(c, r)
  PROVE  issuer[c].expires <= now \/ consumer[c] # None \/ identity[c] = "forgotten"
<1>1. TypeOK /\ Accounted
  BY DEF PresentationInv
<1>2. CASE store[c] = None
  BY <1>1, <1>2 DEF Accounted
<1>3. CASE store[c] # None
  <2>1. store[c] = issuer[c] /\ store[c] \in Entries
    BY <1>1, <1>3 DEF Accounted, TypeOK
  <2>2. ~(store[c].expires > now)
    BY <1>3, <2>1 DEF Live
  <2>3. QED
    BY <1>1, <2>1, <2>2 DEF TypeOK, Entries
<1>4. QED
  BY <1>2, <1>3

\* A delivery moves on and nothing else changes: what its new place claims must hold.
LEMMA MoveInv ==
  ASSUME PresentationInv, NEW d \in Deliveries, NEW pc \in Waits \cup Ends,
         delivery[d] # None, delivery[d].pc \in Waits, Goto(d, pc),
         UNCHANGED <<now, store, identity, issuer, consumer>>,
         pc \in {"consume", "answer", "verified"} => delivery[d].request.genuine,
         pc \in {"answer", "verified"} => delivery[d].pc = "answer",
         delivery[d].pc = "answer" => pc \in {"verified", "window"},
         pc = "challenge" => delivery[d].pc # "answer" /\ ~Live(delivery[d].request.nonce, delivery[d].receiver)
  PROVE  PresentationInv'
<1> DEFINE c == delivery[d].request.nonce
<1>1. TypeOK /\ Accounted /\ Passed /\ RefusedForCause
  BY DEF PresentationInv
<1>2. /\ delivery[d] \in Delivery /\ c \in Tokens /\ delivery[d].receiver \in Receivers
      /\ issuer[c] # None
  BY <1>1, DeliveryFields DEF Passed
<1>3. delivery'[d] \in Delivery /\ delivery'[d] # None /\ delivery'[d].pc = pc
      /\ delivery'[d].request = delivery[d].request /\ delivery'[d].receiver = delivery[d].receiver
  BY <1>1, <1>2, NoneAssumption DEF Goto, TypeOK, Delivery
<1>4. \A e \in Deliveries : e # d => delivery'[e] = delivery[e]
  BY <1>1 DEF Goto, TypeOK
<1>5. TypeOK'
  BY <1>1, <1>3 DEF TypeOK, Goto, Delivery
<1>6. Accounted'
  BY <1>1, <1>3, <1>4 DEF Accounted, TypeOK, Waits
<1>7. Passed'
  BY <1>1, <1>3, <1>4 DEF Passed
<1>8. RefusedForCause'
  <2>1. ASSUME pc = "challenge", issuer[c].audience = delivery[d].receiver
        PROVE  issuer[c].expires <= now \/ consumer[c] \notin {None, d} \/ identity[c] = "forgotten"
    <3>1. consumer[c] # d
      BY <1>1, <1>2, <2>1, NoneAssumption DEF Accounted, Waits
    <3>2. QED
      BY <1>2, <2>1, <3>1, NotLiveForCause
  <2>2. QED
    BY <1>1, <1>3, <1>4, <2>1 DEF RefusedForCause, At
<1>9. QED
  BY <1>5, <1>6, <1>7, <1>8 DEF PresentationInv

\* Present: a delivery starts before the store was asked anything.
LEMMA PresentInv ==
  ASSUME PresentationInv, NEW d \in Deliveries, NEW q \in Requests, NEW r \in Receivers, Present(d, q, r)
  PROVE  PresentationInv'
<1> DEFINE pc == IF WindowFits(q) /\ Current(q) THEN "challenge_live" ELSE "window"
           new == [pc |-> pc, request |-> q, receiver |-> r]
<1>1. TypeOK /\ Accounted /\ Passed /\ RefusedForCause
  BY DEF PresentationInv
<1>2. new \in Delivery /\ new # None /\ new.pc \in {"challenge_live", "window"}
  BY NoneAssumption DEF Delivery, Waits, Ends
<1>3. delivery'[d] = new /\ (\A e \in Deliveries : e # d => delivery'[e] = delivery[e])
  BY <1>1 DEF Present, TypeOK
<1>4. TypeOK'
  BY <1>1, <1>2 DEF TypeOK, Present
<1>5. Accounted'
  BY <1>1, <1>3 DEF Accounted, Present, TypeOK
<1>6. Passed'
  BY <1>1, <1>2, <1>3 DEF Passed, Present
<1>7. RefusedForCause'
  BY <1>1, <1>2, <1>3 DEF RefusedForCause, At, Present
<1>8. QED
  BY <1>4, <1>5, <1>6, <1>7 DEF PresentationInv

\* The waits that change nothing but the delivery.
LEMMA StepInv ==
  ASSUME PresentationInv, NEW d \in Deliveries, ChallengeLive(d) \/ Resolve(d) \/ Answer(d)
  PROVE  PresentationInv'
<1>1. Passed /\ delivery[d] # None
  BY DEF PresentationInv, ChallengeLive, Resolve, Answer, At
<1>2. CASE ChallengeLive(d)
  <2> DEFINE pc == IF Live(delivery[d].request.nonce, delivery[d].receiver) THEN "resolve" ELSE "challenge"
  <2>1. pc \in Waits \cup Ends /\ Goto(d, pc) /\ delivery[d].pc = "challenge_live"
    BY <1>2 DEF ChallengeLive, Waits, Ends, At
  <2>2. pc \in {"resolve", "challenge"} /\ "challenge_live" \in Waits
    BY DEF Waits
  <2>3. QED
    BY <1>1, <1>2, <2>1, <2>2, MoveInv DEF ChallengeLive
<1>3. CASE Resolve(d)
  <2>1. PICK pc \in {"signature", "window", "consume"} :
           pc = Resolved(d) /\ (pc = "consume" => delivery[d].request.genuine)
    <3>1. delivery[d].request.genuine \in BOOLEAN
      BY <1>1, DeliveryFields, RequestsAssumption DEF PresentationInv, Request
    <3>2. QED
      BY <3>1 DEF Resolved
  <2>2. pc \in Waits \cup Ends /\ Goto(d, pc) /\ delivery[d].pc = "resolve" /\ "resolve" \in Waits
    BY <1>3, <2>1 DEF Resolve, Waits, Ends, At
  <2>3. QED
    BY <1>1, <1>3, <2>1, <2>2, MoveInv DEF Resolve
<1>4. CASE Answer(d)
  <2> DEFINE pc == IF Current(delivery[d].request) THEN "verified" ELSE "window"
  <2>1. pc \in Waits \cup Ends /\ Goto(d, pc) /\ delivery[d].pc = "answer"
    BY <1>4 DEF Answer, Waits, Ends, At
  <2>2. pc \in {"verified", "window"} /\ "answer" \in Waits
    BY DEF Waits
  <2>3. delivery[d].request.genuine
    BY <1>1, <2>1 DEF Passed
  <2>4. QED
    BY <1>1, <1>4, <2>1, <2>2, <2>3, MoveInv DEF Answer
<1>5. QED
  BY <1>2, <1>3, <1>4

\* What a consumption finds when the challenge is still live.
LEMMA ConsumedIsIssued ==
  ASSUME PresentationInv, NEW d \in Deliveries, delivery[d] # None,
         Live(delivery[d].request.nonce, delivery[d].receiver)
  PROVE  LET c == delivery[d].request.nonce
         IN  /\ store[c] = issuer[c] /\ issuer[c] # None
             /\ issuer[c].audience = delivery[d].receiver
             /\ consumer[c] = None
BY DeliveryFields DEF PresentationInv, Live, Accounted

\* Consume: the entry, the consumer and the delivery change together.
LEMMA ConsumeInv ==
  ASSUME PresentationInv, NEW d \in Deliveries, Consume(d)
  PROVE  PresentationInv'
<1> DEFINE c == delivery[d].request.nonce
           live == Live(c, delivery[d].receiver)
<1>1. TypeOK /\ Accounted /\ Passed /\ RefusedForCause
  BY DEF PresentationInv
<1>2. delivery[d] # None /\ delivery[d].pc = "consume" /\ delivery[d].request.genuine
  BY <1>1 DEF Consume, At, Passed
<1>3. delivery[d] \in Delivery /\ c \in Tokens /\ delivery[d].receiver \in Receivers
  BY <1>1, <1>2, DeliveryFields
<1>4. CASE ~live
  <2>1. Goto(d, "challenge") /\ UNCHANGED <<now, store, identity, issuer, consumer>>
    BY <1>4 DEF Consume
  <2>2. "challenge" \in Waits \cup Ends /\ "consume" \in Waits
    BY DEF Waits, Ends
  <2>3. QED
    BY <1>2, <1>4, <2>1, <2>2, MoveInv
<1>5. CASE live
  <2>1. /\ store' = [store EXCEPT ![c] = None]
        /\ consumer' = [consumer EXCEPT ![c] = d]
        /\ delivery' = [delivery EXCEPT ![d].pc = "answer"]
        /\ UNCHANGED <<now, identity, issuer>>
    BY <1>5 DEF Consume, Goto
  <2>2. store[c] = issuer[c] /\ issuer[c] # None /\ consumer[c] = None /\ issuer[c].audience = delivery[d].receiver
    BY <1>2, <1>5, ConsumedIsIssued
  <2>3. /\ delivery'[d] \in Delivery /\ delivery'[d] # None /\ delivery'[d].pc = "answer"
        /\ delivery'[d].request = delivery[d].request /\ delivery'[d].receiver = delivery[d].receiver
    BY <1>1, <1>3, <2>1, NoneAssumption DEF TypeOK, Delivery, Waits
  <2>4. \A e \in Deliveries : e # d => delivery'[e] = delivery[e]
    BY <1>1, <2>1 DEF TypeOK
  <2>5. store'[c] = None /\ consumer'[c] = d /\ d # None
    BY <1>1, <1>3, <2>1, NoneAssumption DEF TypeOK
  <2>6. \A t \in Tokens : t # c => store'[t] = store[t] /\ consumer'[t] = consumer[t]
    BY <1>1, <2>1 DEF TypeOK
  <2>7. TypeOK'
    BY <1>1, <2>1, <2>3 DEF TypeOK
  <2>8. Accounted'
    <3>1. ASSUME NEW t \in Tokens, t # c, consumer[t] # None PROVE consumer[t] # d
      BY <1>1, <1>2, <3>1 DEF Accounted
    <3>2. ASSUME NEW t \in Tokens, t # c, consumer[t] # None
          PROVE  delivery'[consumer[t]] = delivery[consumer[t]]
      BY <1>1, <2>4, <3>1, <3>2 DEF TypeOK
    <3>3. QED
      BY <1>1, <2>1, <2>2, <2>3, <2>5, <2>6, <3>2 DEF Accounted
  <2>9. Passed'
    <3>1. ASSUME NEW e \in Deliveries, e # d, delivery[e] # None, delivery[e].pc \in {"answer", "verified"}
          PROVE  delivery[e].request.nonce # c
      BY <1>1, <2>2, <3>1, NoneAssumption DEF Passed
    <3>2. \A e \in Deliveries : delivery[e] # None => delivery[e].request.nonce \in Tokens
      BY <1>1, DeliveryFields
    <3>3. QED
      BY <1>1, <1>2, <2>1, <2>2, <2>3, <2>4, <2>5, <2>6, <3>1, <3>2 DEF Passed
  <2>10. RefusedForCause'
    <3>1. \A e \in Deliveries : delivery[e] # None => delivery[e].request.nonce \in Tokens
      BY <1>1, DeliveryFields
    <3>2. QED
      BY <1>1, <2>1, <2>3, <2>4, <2>5, <2>6, <3>1 DEF RefusedForCause, At
  <2>11. QED
    BY <2>7, <2>8, <2>9, <2>10 DEF PresentationInv
<1>6. QED
  BY <1>4, <1>5

\* Purging drops what is over, and only that.
LEMMA PurgedIsOver ==
  ASSUME PresentationInv, NEW c \in Tokens
  PROVE  /\ Purged[c] \in {store[c], None}
         /\ store[c] # None /\ Purged[c] = None => issuer[c].expires <= now
BY DEF Purged, PresentationInv, Accounted

\* Purging alone, with the identity requests that got no challenge.
LEMMA PurgeInv ==
  ASSUME PresentationInv, NEW c \in Tokens, IdentifyRefused(c)
  PROVE  PresentationInv'
<1>1. TypeOK /\ Accounted /\ Passed /\ RefusedForCause
  BY DEF PresentationInv
<1>2. TypeOK'
  BY <1>1 DEF TypeOK, IdentifyRefused, Purged
<1>3. \A t \in Tokens : identity'[t] = identity[t] \/ (t = c /\ identity[t] = "none" /\ identity'[t] = "refused")
  BY <1>1 DEF TypeOK, IdentifyRefused
<1>4. Accounted'
  BY <1>1, <1>3, PurgedIsOver DEF Accounted, IdentifyRefused
<1>5. Passed'
  BY <1>1 DEF Passed, IdentifyRefused
<1>6. RefusedForCause'
  <2>1. \A d \in Deliveries : delivery[d] # None => delivery[d].request.nonce \in Tokens
    BY <1>1, DeliveryFields
  <2>2. QED
    BY <1>1, <1>3, <2>1 DEF RefusedForCause, At, IdentifyRefused
<1>7. QED
  BY <1>2, <1>4, <1>5, <1>6 DEF PresentationInv

\* A challenge is issued: nobody can have carried it before.
LEMMA IdentifyInv ==
  ASSUME PresentationInv, NEW c \in Tokens, NEW r \in Receivers, Identify(c, r)
  PROVE  PresentationInv'
<1> DEFINE new == Entry(r, now + TTL)
<1>1. TypeOK /\ Accounted /\ Passed /\ RefusedForCause
  BY DEF PresentationInv
<1>2. new \in Entries /\ new # None
  BY <1>1, TimesAssumption, NoneAssumption DEF Entry, Entries, TypeOK
<1>3. /\ store'[c] = new /\ issuer'[c] = new /\ identity'[c] = "issued" /\ identity[c] = "none"
      /\ \A t \in Tokens : t # c =>
            store'[t] = Purged[t] /\ issuer'[t] = issuer[t] /\ identity'[t] = identity[t]
  BY <1>1 DEF Identify, TypeOK, Purged
<1>4. TypeOK'
  BY <1>1, <1>2 DEF TypeOK, Identify, Purged
<1>5. issuer[c] = None /\ consumer[c] = None
  BY <1>1, <1>3 DEF Accounted
<1>6. Accounted'
  <2>1. \A t \in Tokens : t # c =>
            /\ store'[t] \in {store[t], None}
            /\ store[t] # None /\ store'[t] = None => issuer[t].expires <= now
    BY <1>3, PurgedIsOver
  <2>2. UNCHANGED <<now, delivery, consumer>>
    BY DEF Identify
  <2>3. QED
    BY <1>1, <1>2, <1>3, <1>5, <2>1, <2>2 DEF Accounted
<1>7. \A d \in Deliveries : delivery[d] # None =>
         delivery[d].request.nonce \in Tokens /\ delivery[d].request.nonce # c
  BY <1>1, <1>5, DeliveryFields DEF Passed
<1>8. Passed'
  BY <1>1, <1>3, <1>7 DEF Passed, Identify
<1>9. RefusedForCause'
  BY <1>1, <1>3, <1>7 DEF RefusedForCause, At, Identify
<1>10. QED
  BY <1>4, <1>6, <1>8, <1>9 DEF PresentationInv

\* Time passes.
LEMMA TickInv == ASSUME PresentationInv, Tick PROVE PresentationInv'
<1>1. TypeOK /\ Accounted /\ Passed /\ RefusedForCause
  BY DEF PresentationInv
<1>2. TypeOK'
  BY <1>1, TimesAssumption DEF TypeOK, Tick
<1>3. \A t \in Tokens : issuer[t] # None => issuer[t].expires \in Nat
  BY <1>1 DEF TypeOK, Entries
<1>4. Accounted'
  <2>1. \A t \in Tokens : issuer[t] # None /\ issuer[t].expires <= now => issuer[t].expires <= now'
    BY <1>1, <1>3 DEF TypeOK, Tick
  <2>2. \A t \in Tokens : identity[t] = "issued" => issuer[t] # None
    BY <1>1 DEF Accounted
  <2>3. QED
    BY <1>1, <2>1, <2>2 DEF Accounted, Tick
<1>5. Passed'
  BY <1>1 DEF Passed, Tick
<1>6. RefusedForCause'
  <2>1. \A d \in Deliveries : delivery[d] # None =>
           delivery[d].request.nonce \in Tokens /\ issuer[delivery[d].request.nonce] # None
    BY <1>1, DeliveryFields DEF Passed
  <2>2. \A t \in Tokens : issuer[t] # None /\ issuer[t].expires <= now => issuer[t].expires <= now'
    BY <1>1, <1>3 DEF TypeOK, Tick
  <2>3. QED
    BY <1>1, <2>1, <2>2 DEF RefusedForCause, At, Tick
<1>7. QED
  BY <1>2, <1>4, <1>5, <1>6 DEF PresentationInv

\* The store is emptied, and what was in progress never answers.
LEMMA RestartInv == ASSUME PresentationInv, Restart PROVE PresentationInv'
<1>1. TypeOK /\ Accounted /\ Passed /\ RefusedForCause
  BY DEF PresentationInv
<1>2. \A d \in Deliveries :
         \/ delivery'[d] = delivery[d] /\ (delivery[d] = None \/ delivery[d].pc \notin Waits)
         \/ /\ delivery[d] # None /\ delivery[d].pc \in Waits
            /\ delivery'[d] \in Delivery /\ delivery'[d] # None /\ delivery'[d].pc = "lost"
            /\ delivery'[d].request = delivery[d].request /\ delivery'[d].receiver = delivery[d].receiver
  <2> SUFFICES ASSUME NEW d \in Deliveries
               PROVE  \/ delivery'[d] = delivery[d] /\ (delivery[d] = None \/ delivery[d].pc \notin Waits)
                      \/ /\ delivery[d] # None /\ delivery[d].pc \in Waits
                         /\ delivery'[d] \in Delivery /\ delivery'[d] # None /\ delivery'[d].pc = "lost"
                         /\ delivery'[d].request = delivery[d].request /\ delivery'[d].receiver = delivery[d].receiver
    OBVIOUS
  <2>1. CASE delivery[d] = None \/ delivery[d].pc \notin Waits
    BY <2>1 DEF Restart, At
  <2>2. CASE delivery[d] # None /\ delivery[d].pc \in Waits
    <3>1. delivery'[d] = [delivery[d] EXCEPT !.pc = "lost"]
      BY <2>2 DEF Restart, At
    <3>2. delivery[d] \in Delivery
      BY <1>1, <2>2, DeliveryFields
    <3>3. QED
      BY <2>2, <3>1, <3>2, NoneAssumption DEF Delivery, Ends
  <2>3. QED
    BY <2>1, <2>2
<1>3. TypeOK'
  <2>1. delivery' \in [Deliveries -> Delivery \cup {None}]
    <3>1. \A d \in Deliveries : delivery'[d] \in Delivery \cup {None}
      BY <1>1, <1>2 DEF TypeOK
    <3>2. QED
      BY <3>1 DEF Restart
  <2>2. QED
    BY <1>1, <2>1 DEF TypeOK, Restart
<1>4. \A t \in Tokens :
         /\ identity'[t] = IF store[t] = None THEN identity[t] ELSE "forgotten"
         /\ store'[t] = None
  BY DEF Restart
<1>5. Accounted'
  <2>1. \A t \in Tokens : consumer[t] # None => consumer[t] \in Deliveries
    BY <1>1 DEF TypeOK
  <2>2. QED
    BY <1>1, <1>2, <1>4, <2>1 DEF Accounted, Restart
<1>6. Passed'
  BY <1>1, <1>2 DEF Passed, Restart
<1>7. RefusedForCause'
  <2>1. \A d \in Deliveries : delivery[d] # None => delivery[d].request.nonce \in Tokens
    BY <1>1, DeliveryFields
  <2>2. QED
    BY <1>1, <1>2, <1>4, <2>1 DEF RefusedForCause, At, Restart
<1>8. QED
  BY <1>3, <1>5, <1>6, <1>7 DEF PresentationInv

\* One step of authentication, or none.
LEMMA NextInv == PresentationInv /\ [Next]_vars => PresentationInv'
<1> SUFFICES ASSUME PresentationInv, [Next]_vars PROVE PresentationInv'
  OBVIOUS
<1>1. CASE UNCHANGED vars
  BY <1>1 DEF vars, PresentationInv, TypeOK, Accounted, Passed, RefusedForCause, At
<1>2. CASE Next
  BY <1>2, PurgeInv, IdentifyInv, PresentInv, StepInv, ConsumeInv, TickInv, RestartInv DEF Next, Step
<1>3. QED
  BY <1>1, <1>2

\* The invariant holds in every reachable state, for any requests sent at any time.
THEOREM PresentationInvariantHolds == Spec => []PresentationInv
<1>1. QED
  BY InitInv, NextInv, PTL DEF Spec

\* The store, the identity requests and the deliveries always have their types.
THEOREM PresentationTypeCorrect == Spec => []TypeOK
<1>1. PresentationInv => TypeOK
  BY DEF PresentationInv
<1>2. QED
  BY <1>1, PresentationInvariantHolds, PTL

\* However many copies of a request arrive, at whatever receivers and in whatever
\* order they wait, one of them at most is verified.
THEOREM ChallengeUsedOnce == Spec => []OncePerChallenge
<1>1. PresentationInv => OncePerChallenge
  BY DEF PresentationInv, OncePerChallenge, Passed, At
<1>2. QED
  BY <1>1, PresentationInvariantHolds, PTL

\* A challenge is refused only when it is over, consumed or forgotten.
THEOREM RefusalsHaveCause == Spec => []RefusedForCause
<1>1. PresentationInv => RefusedForCause
  BY DEF PresentationInv
<1>2. QED
  BY <1>1, PresentationInvariantHolds, PTL

\* Only the consumption of a genuine request, a purge of what is over or a restart
\* removes a challenge.
THEOREM OnlyGenuineAlwaysConsumes == Spec => OnlyGenuineConsumes
<1> DEFINE Step1 == \A c \in Tokens : store[c] # None /\ store[c].expires > now /\ store'[c] = None /\ identity'[c] # "forgotten" =>
        \E d \in Deliveries :
            delivery'[d] # delivery[d] /\ delivery[d].request.nonce = c /\ delivery[d].request.genuine
<1>1. PresentationInv /\ [Next]_vars => [Step1]_vars
  <2> SUFFICES ASSUME PresentationInv, Next, NEW c \in Tokens,
                      store[c] # None, store[c].expires > now, store'[c] = None, identity'[c] # "forgotten"
               PROVE  \E d \in Deliveries :
                         delivery'[d] # delivery[d] /\ delivery[d].request.nonce = c /\ delivery[d].request.genuine
    OBVIOUS
  <2>1. TypeOK /\ Passed
    BY DEF PresentationInv
  <2>2. ~(store[c].expires <= now)
    BY <2>1 DEF TypeOK, Entries
  <2>3. Purged[c] # None
    BY <2>2 DEF Purged
  <2>4. ASSUME NEW t \in Tokens, NEW r \in Receivers, Identify(t, r) PROVE FALSE
    <3>1. Entry(r, now + TTL) # None
      BY <2>1, TimesAssumption, NoneAssumption DEF Entry, Entries, TypeOK
    <3>2. QED
      BY <2>3, <2>4, <3>1 DEF Identify, Purged
  <2>5. ASSUME NEW d \in Deliveries, Consume(d)
        PROVE  delivery'[d] # delivery[d] /\ delivery[d].request.nonce = c /\ delivery[d].request.genuine
    <3>1. delivery[d] # None /\ delivery[d].pc = "consume" /\ delivery[d].request.genuine
      BY <2>1, <2>5 DEF Consume, At, Passed
    <3>2. delivery[d] \in Delivery
      BY <2>1, <3>1, DeliveryFields
    <3>3. Live(delivery[d].request.nonce, delivery[d].receiver) /\ delivery[d].request.nonce = c
      BY <2>1, <2>5 DEF Consume, TypeOK
    <3>4. delivery'[d].pc = "answer"
      BY <2>1, <2>5, <3>2, <3>3 DEF Consume, Goto, TypeOK, Delivery
    <3>5. QED
      BY <3>1, <3>3, <3>4
  <2>6. ASSUME Restart PROVE FALSE
    BY <2>6 DEF Restart
  <2>7. QED
    BY <2>3, <2>4, <2>5, <2>6
       DEF Next, Step, IdentifyRefused, Present, ChallengeLive, Resolve, Answer, Tick
<1>2. QED
  BY <1>1, PresentationInvariantHolds, PTL DEF Spec, OnlyGenuineConsumes

\* Verified means verified at that instant: the window open, the key the named
\* credential's, the challenge this receiver's.
THEOREM AlwaysVerifiedNow == Spec => VerifiedNow
<1> DEFINE Step1 == \A d \in Deliveries : ~At(d, "verified") /\ At(d, "verified")' =>
        LET q == delivery[d].request
        IN  Current(q) /\ q.genuine /\ issuer[q.nonce].audience = delivery[d].receiver
<1>1. PresentationInv /\ [Next]_vars => [Step1]_vars
  <2> SUFFICES ASSUME PresentationInv, Next, NEW d \in Deliveries, ~At(d, "verified"), At(d, "verified")'
               PROVE  LET q == delivery[d].request
                      IN  Current(q) /\ q.genuine /\ issuer[q.nonce].audience = delivery[d].receiver
    OBVIOUS
  <2>1. TypeOK /\ Passed
    BY DEF PresentationInv
  <2>2. ASSUME NEW e \in Deliveries, NEW pc, delivery[e] # None, Goto(e, pc)
        PROVE  e = d /\ pc = "verified"
    <3>1. delivery[e] \in Delivery
      BY <2>1, <2>2, DeliveryFields
    <3>2. e # d => delivery'[d] = delivery[d]
      BY <2>1, <2>2 DEF Goto, TypeOK
    <3>3. e = d
      BY <3>2 DEF At
    <3>4. delivery'[e].pc = pc
      BY <2>1, <2>2, <3>1 DEF Goto, TypeOK, Delivery
    <3>5. QED
      BY <3>3, <3>4 DEF At
  <2>3. ASSUME NEW e \in Deliveries, ChallengeLive(e) PROVE FALSE
    BY <2>2, <2>3 DEF ChallengeLive, At
  <2>4. ASSUME NEW e \in Deliveries, Resolve(e) PROVE FALSE
    <3>1. delivery[e] # None /\ delivery[e].request.genuine \in BOOLEAN
      BY <2>1, <2>4, DeliveryFields, RequestsAssumption DEF Resolve, At, Request
    <3>2. PICK pc : pc = Resolved(e) /\ pc # "verified"
      BY <3>1 DEF Resolved
    <3>3. QED
      BY <2>2, <2>4, <3>1, <3>2 DEF Resolve
  <2>5. ASSUME NEW e \in Deliveries, Consume(e) PROVE FALSE
    BY <2>2, <2>5 DEF Consume, At
  <2>6. ASSUME NEW e \in Deliveries, Answer(e)
        PROVE  LET q == delivery[d].request
               IN  Current(q) /\ q.genuine /\ issuer[q.nonce].audience = delivery[d].receiver
    <3>1. delivery[e] # None /\ e = d /\ Current(delivery[d].request)
      BY <2>2, <2>6 DEF Answer, At
    <3>2. QED
      BY <2>1, <2>6, <3>1 DEF Passed, Answer, At
  <2>7. ASSUME NEW e \in Deliveries, NEW q \in Requests, NEW r \in Receivers, Present(e, q, r) PROVE FALSE
    <3>1. e # d => delivery'[d] = delivery[d]
      BY <2>1, <2>7 DEF Present, TypeOK
    <3>2. e = d => delivery'[d].pc \in {"challenge_live", "window"}
      BY <2>1, <2>7 DEF Present, TypeOK
    <3>3. QED
      BY <3>1, <3>2 DEF At
  <2>8. ASSUME Restart PROVE FALSE
    <3>1. CASE \E pc \in Waits : At(d, pc)
      <4>1. delivery'[d] = [delivery[d] EXCEPT !.pc = "lost"] /\ delivery[d] \in Delivery
        BY <2>1, <2>8, <3>1, DeliveryFields DEF Restart, At
      <4>2. QED
        BY <4>1 DEF At, Delivery
    <3>2. CASE ~\E pc \in Waits : At(d, pc)
      <4>1. delivery'[d] = delivery[d]
        BY <2>8, <3>2 DEF Restart
      <4>2. QED
        BY <4>1 DEF At
    <3>3. QED
      BY <3>1, <3>2
  <2>9. QED
    BY <2>3, <2>4, <2>5, <2>6, <2>7, <2>8 DEF Next, Step, Identify, IdentifyRefused, Tick, At
<1>2. QED
  BY <1>1, PresentationInvariantHolds, PTL DEF Spec, VerifiedNow

\* A challenge is refused only while as many as the limit are live: the entries left
\* after the purge are exactly the live ones.
THEOREM AlwaysRefusedAtLimit == Spec => RefusedAtLimit
<1> DEFINE Alive == {l \in Tokens : store[l] # None /\ store[l].expires > now}
<1>1. ASSUME PresentationInv, Next, NEW c \in Tokens, identity[c] = "none", identity'[c] = "refused"
      PROVE  Cardinality(Alive) >= MaxLive
  <2>1. TypeOK
    BY <1>1 DEF PresentationInv
  <2>2. ASSUME NEW e \in Tokens, NEW r \in Receivers, Identify(e, r) PROVE FALSE
    <3>1. identity'[c] = identity[c] \/ identity'[c] = "issued"
      BY <2>1, <2>2 DEF Identify, TypeOK
    <3>2. QED
      BY <3>1, <1>1
  <2>3. ~Restart
    BY <1>1 DEF Restart
  <2>4. identity' # identity
    BY <1>1
  <2>5. PICK e \in Tokens : IdentifyRefused(e)
    BY <1>1, <2>2, <2>3, <2>4 DEF Next, Step, Present, ChallengeLive, Resolve, Consume, Answer, Tick
  <2>6. Cardinality(Kept) >= MaxLive
    BY <2>5 DEF IdentifyRefused
  <2>7. Kept = Alive
    <3>1. ASSUME NEW l \in Tokens, store[l] # None
          PROVE  store[l].expires > now <=> ~(store[l].expires <= now)
      <4>1. store[l].expires \in Nat /\ now \in Int
        BY <2>1, <3>1, TimesAssumption DEF TypeOK, Entries
      <4>2. QED
        BY <4>1
    <3>2. ASSUME NEW l \in Tokens PROVE Purged[l] # None <=> store[l] # None /\ ~(store[l].expires <= now)
      BY DEF Purged
    <3>3. QED
      BY <3>1, <3>2 DEF Kept
  <2>8. QED
    BY <2>6, <2>7
<1>2. PresentationInv /\ [Next]_vars =>
        [\A c \in Tokens : identity[c] = "none" /\ identity'[c] = "refused" => Cardinality(Alive) >= MaxLive]_vars
  BY <1>1
<1>3. QED
  BY <1>2, PresentationInvariantHolds, PTL DEF Spec, RefusedAtLimit

=============================================================================
