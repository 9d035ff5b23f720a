--------------------------- MODULE Signing_proofs ---------------------------
(***************************************************************************)
(* Proofs about Signing: what a receiver accepts is what was signed, for   *)
(* any network; a receiver taken for verified is current, and a request    *)
(* leaves only while it is usable, for any clocks within the skew.         *)
(***************************************************************************)
EXTENDS Signing, FiniteSetTheorems, WellFoundedInduction, TLAPS

-----------------------------------------------------------------------------
(* Verdicts *)

\* A nonempty set of naturals has a least element.
LEMMA LeastExists ==
  ASSUME NEW B, B \subseteq Nat, B # {}
  PROVE  (CHOOSE n \in B : \A m \in B : n <= m) \in B
<1>1. PICK n \in B : \A m \in B : <<m, n>> \notin OpToRel(<, Nat)
  BY NatLessThanWellFounded, WFMin
<1>2. ASSUME NEW m \in B PROVE n <= m
  <2>1. m \in Nat /\ n \in Nat
    OBVIOUS
  <2>2. OpToRel(<, Nat) = {ss \in Nat \X Nat : ss[1] < ss[2]}
    BY Zenon DEF OpToRel
  <2>3. <<m, n>> \notin {ss \in Nat \X Nat : ss[1] < ss[2]}
    BY <1>1, <2>2
  <2>4. ~(m < n)
    BY <2>1, <2>3
  <2>5. QED
    BY <2>1, <2>4
<1>3. QED
  BY <1>2

\* A sequence of tests that comes to "ok" has none that fails.
LEMMA NoneFails ==
  ASSUME NEW tests, DOMAIN tests \subseteq Nat, \A n \in DOMAIN tests : tests[n].reason # "ok",
         FirstFailure(tests) = "ok"
  PROVE  \A n \in DOMAIN tests : ~tests[n].fails
<1> DEFINE B == {n \in DOMAIN tests : tests[n].fails}
<1>1. SUFFICES ASSUME B # {} PROVE FALSE
  OBVIOUS
<1>2. (CHOOSE n \in B : \A m \in B : n <= m) \in B
  BY <1>1, LeastExists
<1>3. QED
  BY <1>1, <1>2 DEF FirstFailure

LEMMA FormHolds ==
  ASSUME NEW d, NEW q, FirstFailure(FormTests(d, q)) = "ok"
  PROVE  /\ HasBody(d.class) => q.body # Empty
         /\ ~HasBody(d.class) => q.body = Empty
<1> DEFINE T == FormTests(d, q)
<1>1. /\ DOMAIN T = 1 .. 7
      /\ T[1].fails = (~HasBody(d.class) /\ q.body # Empty)
      /\ T[2].fails = (HasBody(d.class) /\ q.body = Empty)
  BY DEF FormTests
<1>2. \A n \in DOMAIN T : T[n].reason # "ok"
  BY DEF FormTests
<1>3. 1 \in DOMAIN T /\ 2 \in DOMAIN T /\ DOMAIN T \subseteq Nat
  BY <1>1
<1>4. \A n \in DOMAIN T : ~T[n].fails
  BY <1>2, <1>3, NoneFails
<1>5. QED
  BY <1>1, <1>3, <1>4

LEMMA CoverHolds ==
  ASSUME NEW d, NEW q, NEW s, NEW t, FirstFailure(CoverTests(d, q, s, t)) = "ok"
  PROVE  /\ s.covered = Required(d, q)
         /\ HasDigest(d.class) => DigestFits(q)
<1> DEFINE T == CoverTests(d, q, s, t)
<1>1. /\ DOMAIN T = 1 .. 6
      /\ T[3].fails = ~(s.distinct /\ s.covered = Required(d, q))
      /\ T[6].fails = (HasDigest(d.class) /\ ~DigestFits(q))
  BY DEF CoverTests
<1>2. \A n \in DOMAIN T : T[n].reason # "ok"
  BY DEF CoverTests
<1>3. 3 \in DOMAIN T /\ 6 \in DOMAIN T /\ DOMAIN T \subseteq Nat
  BY <1>1
<1>4. \A n \in DOMAIN T : ~T[n].fails
  BY <1>2, <1>3, NoneFails
<1>5. QED
  BY <1>1, <1>3, <1>4

LEMMA ProofHolds ==
  ASSUME NEW q, NEW s, NEW origin, NEW live, FirstFailure(ProofTests(q, s, origin, live)) = "ok"
  PROVE  s.params.nonce \in live /\ Resolves(q, s) /\ Verifies(q, origin, s)
<1> DEFINE T == ProofTests(q, s, origin, live)
<1>1. /\ DOMAIN T = 1 .. 3
      /\ T[1].fails = (s.params.nonce \notin live)
      /\ T[2].fails = ~Resolves(q, s)
      /\ T[3].fails = (Resolves(q, s) /\ ~Verifies(q, origin, s))
  BY DEF ProofTests
<1>2. \A n \in DOMAIN T : T[n].reason # "ok"
  BY DEF ProofTests
<1>3. 1 \in DOMAIN T /\ 2 \in DOMAIN T /\ 3 \in DOMAIN T /\ DOMAIN T \subseteq Nat
  BY <1>1
<1>4. \A n \in DOMAIN T : ~T[n].fails
  BY <1>2, <1>3, NoneFails
<1>5. QED
  BY <1>1, <1>3, <1>4

\* What an authenticated request passed.
LEMMA AuthenticateHolds ==
  ASSUME NEW q, NEW origin, NEW ops, NEW t, NEW live, Authenticate(q, origin, ops, t, live) = "ok"
  PROVE  LET d == Described(q, ops)
             s == q.inputs[1]
         IN  /\ d \in ops
             /\ HasBody(d.class) => q.body # Empty
             /\ ~HasBody(d.class) => q.body = Empty
             /\ s.covered = Required(d, q)
             /\ HasDigest(d.class) => DigestFits(q)
             /\ s.params.nonce \in live /\ Resolves(q, s) /\ Verifies(q, origin, s)
<1> DEFINE d == Described(q, ops)
           s == q.inputs[1]
<1>1. /\ Cardinality(Matching(q, ops)) = 1
      /\ FirstFailure(FormTests(d, q)) = "ok"
      /\ FirstFailure(CoverTests(d, q, s, t)) = "ok"
      /\ FirstFailure(ProofTests(q, s, origin, live)) = "ok"
  BY DEF Authenticate, Then
<1>2. Matching(q, ops) # {}
  BY <1>1, FS_EmptySet
<1>3. d \in ops
  BY <1>2 DEF Described, Matching
<1>4. QED
  BY <1>1, <1>3, FormHolds, CoverHolds, ProofHolds

-----------------------------------------------------------------------------
(* What a signature fixes *)

LEMMA HeaderFacts ==
  ASSUME NEW i, NEW ref, NEW aud, Signable(i)
  PROVE  LET U == Unsigned(i, ref, aud)
         IN  /\ U.method = i.method /\ U.path = i.path /\ U.query = i.query /\ U.body = i.body
             /\ DOMAIN i.fields \subseteq DOMAIN U.fields
             /\ Value(U, "aria-credential") = ref /\ Value(U, "aria-audience") = aud
             /\ HasDigest(i.class) => Value(U, "content-digest") = i.body
             /\ Receiptable(i.class) => Value(U, "aria-operation") = i.operationId
<1> DEFINE U == Unsigned(i, ref, aud)
           H == Headers(i, ref, aud)
<1>1. /\ U.method = i.method /\ U.path = i.path /\ U.query = i.query /\ U.body = i.body
      /\ U.fields = H
  BY DEF Unsigned
<1>2. Receiptable(i.class) => i.operationId # None
  BY UuidsAssumption DEF Signable
<1>3. DOMAIN i.fields \subseteq DOMAIN H
  BY DEF Headers
<1>4. H["aria-credential"] = <<ref>> /\ H["aria-audience"] = <<aud>>
  BY DEF Headers
<1>5. HasDigest(i.class) => H["content-digest"] = <<i.body>>
  BY DEF Headers
<1>6. Receiptable(i.class) => H["aria-operation"] = <<i.operationId>>
  BY <1>2 DEF Headers
<1>7. QED
  BY <1>1, <1>3, <1>4, <1>5, <1>6 DEF Value

LEMMA ClassByFacts ==
  ASSUME NEW c \in RequestClass, NEW e \in RequestClass, HasBody(c) <=> HasBody(e),
         HasDigest(c) <=> HasDigest(e), Receiptable(c) <=> Receiptable(e)
  PROVE  c = e
BY DEF RequestClass, HasBody, HasDigest, Receiptable

\* The signed part of an input (Meant).
SignedPart(i, ref, aud) ==
    [Unsigned(i, ref, aud) EXCEPT !.fields = [n \in DOMAIN @ \cap Covered(i) |-> @[n]]]

\* A request that carries a signature made over an input, and passed the receiver's
\* tests, is that input: the operation, the content, and who it is for and from.
LEMMA SignatureFixesContent ==
  ASSUME NEW d, DescriptorOK(d), d.semanticHeaders \cap Derived = {},
         NEW i, Signable(i), NEW ref, NEW aud, NEW origin, NEW params,
         NEW q, NEW s, NEW there,
         HasBody(d.class) => q.body # Empty,
         s.covered = Required(d, q), HasDigest(d.class) => DigestFits(q),
         SignatureBase(q, there, s.covered, s.params) = SignatureBase(Unsigned(i, ref, aud), origin, Covered(i), params),
         Coverable(Unsigned(i, ref, aud), Covered(i))
  PROVE  /\ d.class = i.class /\ s.params = params
         /\ Value(q, "aria-credential") = ref /\ Value(q, "aria-audience") = aud
         /\ Receiptable(i.class) => Value(q, "aria-operation") = i.operationId
         /\ LookupOf(q) = LookupOf(i)
         /\ FingerprintOf(d, q) = FingerprintOf(d, SignedPart(i, ref, aud))
<1> DEFINE U == Unsigned(i, ref, aud)
           M == SignedPart(i, ref, aud)
<1>1. /\ q.method = U.method /\ q.path = U.path /\ q.query = U.query
      /\ s.covered = Covered(i) /\ s.params = params
      /\ [n \in s.covered \ Derived |-> Value(q, n)] = [n \in Covered(i) \ Derived |-> Value(U, n)]
  BY DEF SignatureBase
<1>2. ASSUME NEW n \in Covered(i) \ Derived PROVE Value(q, n) = Value(U, n)
  BY <1>1
<1>3. /\ U.method = i.method /\ U.path = i.path /\ U.query = i.query /\ U.body = i.body
      /\ DOMAIN i.fields \subseteq DOMAIN U.fields
      /\ Value(U, "aria-credential") = ref /\ Value(U, "aria-audience") = aud
      /\ HasDigest(i.class) => Value(U, "content-digest") = i.body
      /\ Receiptable(i.class) => Value(U, "aria-operation") = i.operationId
  BY HeaderFacts
<1>4. /\ i.class \in RequestClass /\ d.class \in RequestClass
      /\ Semantic(i) \cap AriaFields = {} /\ Semantic(i) \subseteq DOMAIN i.fields
      /\ Present(d, q) \cap (AriaFields \cup {"content-type"}) = {} /\ Present(d, q) \subseteq d.semanticHeaders
      /\ HasBody(i.class) <=> i.body # Empty
  BY DEF Signable, DescriptorOK, Semantic, Present
<1>5. Components(d.class) \cup Present(d, q) = Components(i.class) \cup Semantic(i)
  BY <1>1 DEF Required, Covered
<1>6. \A c : /\ "content-digest" \in Components(c) <=> HasDigest(c)
             /\ "aria-operation" \in Components(c) <=> Receiptable(c)
             /\ "content-type" \in Components(c) <=> HasBody(c)
             /\ {"@method", "@target-uri", "aria-credential", "aria-audience"} \subseteq Components(c)
             /\ Components(c) \subseteq Derived \cup AriaFields \cup {"content-type"}
  BY DEF Components, Optional, Derived, AriaFields
<1>7. HasDigest(d.class) <=> HasDigest(i.class)
  BY <1>4, <1>5, <1>6 DEF AriaFields
<1>8. Receiptable(d.class) <=> Receiptable(i.class)
  BY <1>4, <1>5, <1>6 DEF AriaFields
<1>9. HasDigest(i.class) => q.body = i.body
  <2>1. SUFFICES ASSUME HasDigest(i.class) PROVE q.body = i.body
    OBVIOUS
  <2>2. "content-digest" \in Covered(i) \ Derived
    BY <2>1, <1>6 DEF Covered, Derived
  <2>3. Value(q, "content-digest") = i.body
    BY <2>1, <2>2, <1>2, <1>3
  <2>4. QED
    BY <2>1, <2>3, <1>7 DEF DigestFits
<1>10. HasBody(d.class) <=> HasBody(i.class)
  <2>1. \A c \in RequestClass : HasBody(c) => HasDigest(c)
    BY DEF HasBody, HasDigest
  <2>2. HasBody(d.class) => HasBody(i.class)
    BY <2>1, <1>4, <1>7, <1>9
  <2>3. HasBody(i.class) => HasBody(d.class)
    BY <1>4, <1>5, <1>6
  <2>4. QED
    BY <2>2, <2>3
<1>11. d.class = i.class
  BY <1>4, <1>7, <1>8, <1>10, ClassByFacts
<1>12. {"aria-credential", "aria-audience"} \subseteq Covered(i) \ Derived
  BY <1>6 DEF Covered, Derived
<1>13. Value(q, "aria-credential") = ref /\ Value(q, "aria-audience") = aud
  BY <1>2, <1>3, <1>12
<1>14. Receiptable(i.class) => Value(q, "aria-operation") = i.operationId
  BY <1>2, <1>3, <1>6 DEF Covered, Derived
<1>15. LookupOf(q) = LookupOf(i)
  BY <1>1, <1>3 DEF LookupOf
<1>16. /\ M.method = i.method /\ M.path = i.path /\ M.query = i.query /\ M.body = i.body
       /\ M.fields = [n \in DOMAIN U.fields \cap Covered(i) |-> U.fields[n]]
  BY <1>3 DEF Unsigned, SignedPart
<1>17. Present(d, q) = Present(d, M)
  <2>1. ASSUME NEW h \in Present(d, q) PROVE h \in Present(d, M)
    <3>1. h \in d.semanticHeaders /\ h \notin Derived /\ h \in Covered(i)
      BY <1>4, <1>1 DEF Required
    <3>2. h \in DOMAIN U.fields
      BY <3>1 DEF Coverable, Single
    <3>3. QED
      BY <3>1, <3>2, <1>16 DEF Present
  <2>2. ASSUME NEW h \in Present(d, M) PROVE h \in Present(d, q)
    <3>1. h \in d.semanticHeaders /\ h \in Covered(i)
      BY <1>16 DEF Present
    <3>2. h \notin Components(d.class)
      BY <3>1, <1>6 DEF DescriptorOK
    <3>3. QED
      BY <3>1, <3>2, <1>1 DEF Required
  <2>3. QED
    BY <2>1, <2>2
<1>18. ASSUME NEW h \in Present(d, q) PROVE Value(q, h) = Value(M, h)
  <2>1. h \in Covered(i) \ Derived
    BY <1>4, <1>1 DEF Required
  <2>2. h \in DOMAIN U.fields
    BY <2>1 DEF Coverable, Single
  <2>3. QED
    BY <2>1, <2>2, <1>2, <1>16 DEF Value
<1>19. [h \in Present(d, q) |-> Value(q, h)] = [h \in Present(d, M) |-> Value(M, h)]
  BY <1>17, <1>18
<1>20. q.path = M.path /\ q.query = M.query /\ d.method = d.method
  BY <1>1, <1>3, <1>16
<1>21. HasBody(d.class) => q.body = M.body
  <2>1. HasBody(d.class) => HasDigest(i.class)
    BY <1>4, <1>7 DEF HasBody, HasDigest
  <2>2. QED
    BY <2>1, <1>9, <1>16
<1>22. FingerprintOf(d, q) = FingerprintOf(d, M)
  BY <1>19, <1>20, <1>21 DEF FingerprintOf
<1>23. QED
  BY <1>1, <1>11, <1>13, <1>14, <1>15, <1>22

-----------------------------------------------------------------------------
(* Clocks *)

LEMMA Parameters ==
  /\ Second \in Nat \ {0} /\ Skew \in Nat /\ MaxWindow \in Nat \ {0}
  /\ MaxAge \in Nat /\ MaxNow \in Nat /\ TTL \in Nat
  /\ \A n \in Standings : n \in Nat
BY ProfileAssumption, PartiesAssumption

LEMMA SkewBound == Skew * Second \in Nat
BY Parameters

LEMMA DriftBound ==
  ASSUME drift \in Drifts
  PROVE  drift \in Int /\ -(Skew * Second) <= drift /\ drift <= Skew * Second
<1>1. drift \in -Skew * Second .. Skew * Second
  BY PartiesAssumption
<1>2. -Skew * Second = -(Skew * Second)
  BY Parameters
<1>3. QED
  BY <1>1, <1>2, SkewBound

\* A whole second is not after the instant it is taken of.
LEMMA WholeSecond ==
  ASSUME NEW t \in Int
  PROVE  (t \div Second) \in Int /\ (t \div Second) * Second <= t /\ (t \div Second) * Second \in Int
BY Parameters, Z3

LEMMA NowIsInt == ASSUME TypeOK PROVE now \in Int /\ now \in Nat
BY Parameters DEF TypeOK

\* The age of a statement that is not stale, in anybody's time.
LEMMA AgeBound ==
  ASSUME TypeOK, NEW a \in Clients, Answered(a), ~Stale(client[a].statement)
  PROVE  Age(a) <= MaxAge + Skew * Second
<1> DEFINE s == client[a].statement
           c == s.challenge
           stated == challenge[c].stated
<1>1. now \in Int /\ drift \in Int /\ drift <= Skew * Second
  BY DriftBound, NowIsInt DEF TypeOK
<1>2. stated \in Nat
  <2>1. challenge[c] \in Challenges /\ stated # None
    BY DEF Answered, Stated, TypeOK
  <2>2. QED
    BY <2>1 DEF Challenges
<1>3. s.created = Truncated(stated + drift)
  BY DEF Answered, Statement
<1>4. s.created \in Int /\ s.created <= stated + drift
  <2>1. stated + drift \in Int
    BY <1>1, <1>2
  <2>2. QED
    BY <2>1, <1>3, WholeSecond DEF Truncated
<1>5. now - s.created <= MaxAge
  BY <1>1, <1>4, Parameters DEF Stale
<1>6. QED
  BY <1>1, <1>2, <1>4, <1>5, SkewBound, Parameters DEF Age

-----------------------------------------------------------------------------
(* The invariant *)

Moved(a) == client[a] # None => client'[a] = client[a]

\* Statements stay what they are while challenges are used, issued and stated.
LEMMA StatementStays ==
  ASSUME NEW c \in Stated, drift' = drift, challenge'[c].nonce = challenge[c].nonce,
         challenge'[c].audience = challenge[c].audience, challenge'[c].stated = challenge[c].stated
  PROVE  Statement(c)' = Statement(c)
BY DEF Statement, Truncated

\* What a client goes by survives a step that keeps the facts of its challenge.
LEMMA AnsweredStays ==
  ASSUME drift' = drift, NEW a \in Clients, Answered(a),
         client'[a].statement = client[a].statement,
         LET c == client[a].statement.challenge
         IN  /\ challenge'[c] # None
             /\ challenge'[c].nonce = challenge[c].nonce /\ challenge'[c].audience = challenge[c].audience
             /\ challenge'[c].stated = challenge[c].stated
  PROVE  Answered(a)'
<1> DEFINE c == client[a].statement.challenge
<1>1. c \in Stated /\ c \in Tokens /\ challenge[c].stated # None
  BY DEF Answered, Stated
<1>2. Statement(c)' = Statement(c)
  BY <1>1, StatementStays
<1>3. c \in Stated'
  BY <1>1 DEF Stated
<1>4. QED
  BY <1>1, <1>2, <1>3 DEF Answered

\* So does what it signed.
LEMMA SignsStays ==
  ASSUME NEW a \in Clients, Signs(a), now \in Int, now' \in Int, now <= now',
         client'[a].statement = client[a].statement, client'[a].input = client[a].input,
         client'[a].request = client[a].request
  PROVE  Signs(a)'
<1>1. Signature(a)' = Signature(a)
  BY DEF Signature
<1>2. Signature(a).params.created * Second \in Int
  BY Parameters DEF Signs
<1>3. Signature(a).params.created * Second <= now'
  BY <1>2 DEF Signs
<1>4. Reference(a)' = Reference(a)
  BY DEF Reference
<1>5. QED
  BY <1>1, <1>3, <1>4 DEF Signs

\* And what was accepted, while the clients that signed stay as they are.
LEMMA AcceptedStays ==
  ASSUME AcceptedIsMeant, taken' = taken, \A a \in Clients : At(a, "signed") => client'[a] = client[a]
  PROVE  AcceptedIsMeant'
<1>1. SUFFICES ASSUME NEW c \in Tokens, taken[c] # None
               PROVE  \E a \in Clients : (At(a, "signed") /\ Meaning(c, a))'
  BY DEF AcceptedIsMeant
<1>2. PICK a \in Clients : At(a, "signed") /\ Meaning(c, a)
  BY <1>1 DEF AcceptedIsMeant
<1>3. client'[a] = client[a] /\ taken'[c] = taken[c]
  BY <1>2
<1>4. At(a, "signed")' /\ Meaning(c, a)'
  BY <1>2, <1>3 DEF At, Meaning, Meant, Signature, Reference
<1>5. QED
  BY <1>4

-----------------------------------------------------------------------------
(* Every step keeps the invariant *)

Shape(r) ==
    /\ r = [pc |-> r.pc, statement |-> r.statement, until |-> r.until, input |-> r.input, request |-> r.request]
    /\ r.pc \in Pcs

LEMMA InvInit == ASSUME Init PROVE SigningInv
<1>1. now \in 0 .. MaxNow /\ drift \in Drifts
  BY Parameters DEF Init
<1>2. \A a \in Clients : client[a] = None
  BY DEF Init
<1>3. \A c \in Tokens : taken[c] = None /\ challenge[c] = None
  BY DEF Init
<1>4. TypeOK
  BY <1>1, <1>2 DEF Init, TypeOK
<1>5. QED
  BY <1>2, <1>3, <1>4 DEF SigningInv, AcceptedIsMeant

\* A client that has not signed yet goes on by the same statement.
LEMMA ClientMoves ==
  ASSUME SigningInv, NEW a \in Clients, client[a] # None, ~At(a, "signed"), NEW r, Shape(r),
         r.statement = client[a].statement,
         client' = [client EXCEPT ![a] = r], UNCHANGED <<now, drift, challenge, taken>>,
         r.pc \in {"signing", "signed"} => Signs(a)'
  PROVE  SigningInv'
<1>1. TypeOK /\ client'[a] = r /\ \A b \in Clients : b # a => client'[b] = client[b]
  BY DEF SigningInv, TypeOK
<1>2. TypeOK'
  <2>1. client' = [b \in Clients |-> client'[b]]
    BY DEF SigningInv, TypeOK
  <2>2. \A b \in Clients : client'[b] # None => Shape(client'[b])
    BY <1>1 DEF TypeOK, Shape
  <2>3. QED
    BY <1>1, <2>1, <2>2 DEF TypeOK, Shape
<1>3. ASSUME NEW b \in Clients, client'[b] # None
      PROVE  Answered(b)' /\ (client'[b].pc \in {"signing", "signed"} => Signs(b)')
  <2>1. client[b] # None /\ client'[b].statement = client[b].statement
    BY <1>1, <1>3
  <2>2. Answered(b) /\ now \in Int
    BY <2>1, <1>1, NowIsInt DEF SigningInv
  <2>3. challenge[client[b].statement.challenge] # None
    BY <2>2 DEF Answered, Stated
  <2>4. now <= now' /\ now' \in Int
    BY <2>2
  <2>5. Answered(b)'
    BY <2>1, <2>2, <2>3, AnsweredStays
  <2>6. CASE b = a
    BY <2>5, <2>6, <1>1
  <2>7. CASE b # a
    <3>1. client'[b] = client[b]
      BY <1>1, <2>7
    <3>2. client[b].pc \in {"signing", "signed"} => Signs(b)
      BY <2>1 DEF SigningInv
    <3>3. QED
      BY <3>1, <3>2, <2>2, <2>4, <2>5, SignsStays
  <2>8. QED
    BY <2>6, <2>7
<1>4. AcceptedIsMeant'
  <2>1. \A b \in Clients : At(b, "signed") => client'[b] = client[b]
    BY <1>1
  <2>2. QED
    BY <2>1, AcceptedStays DEF SigningInv
<1>5. QED
  BY <1>2, <1>3, <1>4 DEF SigningInv

\* Challenges and the clock move on; clients stay.
LEMMA ClientsStay ==
  ASSUME SigningInv, TypeOK', UNCHANGED <<drift, client>>, now <= now', AcceptedIsMeant',
         \A c \in Stated : /\ challenge'[c] # None /\ challenge'[c].nonce = challenge[c].nonce
                           /\ challenge'[c].audience = challenge[c].audience
                           /\ challenge'[c].stated = challenge[c].stated
  PROVE  SigningInv'
<1>1. TypeOK /\ now \in Int /\ now' \in Int
  BY Parameters DEF SigningInv, TypeOK
<1>2. ASSUME NEW b \in Clients, client'[b] # None
      PROVE  Answered(b)' /\ (client'[b].pc \in {"signing", "signed"} => Signs(b)')
  <2>1. client[b] # None /\ client'[b] = client[b]
    BY <1>2
  <2>2. Answered(b) /\ client[b].statement.challenge \in Stated
    BY <2>1 DEF SigningInv, Answered
  <2>3. Answered(b)'
    BY <1>1, <2>1, <2>2, AnsweredStays
  <2>4. client[b].pc \in {"signing", "signed"} => Signs(b)
    BY <2>1 DEF SigningInv
  <2>5. QED
    BY <1>1, <2>1, <2>3, <2>4, SignsStays
<1>3. QED
  BY <1>2 DEF SigningInv

LEMMA WorldMoves ==
  ASSUME SigningInv, TypeOK', UNCHANGED <<drift, client, taken>>, now <= now',
         \A c \in Stated : /\ challenge'[c] # None /\ challenge'[c].nonce = challenge[c].nonce
                           /\ challenge'[c].audience = challenge[c].audience
                           /\ challenge'[c].stated = challenge[c].stated
  PROVE  SigningInv'
<1>1. AcceptedIsMeant'
  BY AcceptedStays DEF SigningInv
<1>2. QED
  BY <1>1, ClientsStay

LEMMA InvIssue ==
  ASSUME SigningInv, NEW c \in Tokens, NEW asked \in Asked, Issue(c, asked[1], asked[2])
  PROVE  SigningInv'
<1> DEFINE new == [nonce |-> asked[1], audience |-> asked[2], issued |-> There, stated |-> None, used |-> FALSE]
<1>1. TypeOK /\ now \in Int /\ drift \in Int
  BY NowIsInt, DriftBound DEF SigningInv, TypeOK
<1>2. new \in Challenges
  <2>1. asked[1] \in Clients /\ asked[2] \in Agents
    BY PartiesAssumption
  <2>2. QED
    BY <1>1, <2>1 DEF Challenges, There
<1>3. challenge' = [challenge EXCEPT ![c] = new] /\ challenge[c] = None
  BY DEF Issue
<1>4. TypeOK'
  BY <1>1, <1>2, <1>3 DEF Issue, TypeOK
<1>5. \A d \in Stated : challenge'[d] = challenge[d] /\ challenge[d] # None
  BY <1>1, <1>3 DEF TypeOK, Stated
<1>6. QED
  BY <1>1, <1>4, <1>5, WorldMoves DEF Issue

LEMMA InvState ==
  ASSUME SigningInv, NEW c \in Tokens, State(c)
  PROVE  SigningInv'
<1> DEFINE old == challenge[c]
           new == [old EXCEPT !.stated = now]
<1>1. TypeOK /\ now \in Int /\ now \in Nat /\ old \in Challenges /\ old.stated = None
  BY NowIsInt DEF SigningInv, TypeOK, State
<1>2. new \in Challenges
  BY <1>1 DEF Challenges
<1>3. challenge' = [challenge EXCEPT ![c] = new]
  BY DEF State
<1>4. TypeOK'
  BY <1>1, <1>2, <1>3 DEF State, TypeOK
<1>5. \A d \in Stated : challenge'[d] = challenge[d] /\ challenge[d] # None
  BY <1>1, <1>3 DEF TypeOK, Stated
<1>6. UNCHANGED <<drift, client, taken>> /\ now <= now'
  BY <1>1 DEF State
<1>7. QED
  BY <1>4, <1>5, <1>6, WorldMoves

LEMMA InvTick ==
  ASSUME SigningInv, Tick
  PROVE  SigningInv'
<1>1. TypeOK /\ now \in Int /\ now' = now + 1
  BY NowIsInt DEF SigningInv, Tick
<1>2. TypeOK'
  <2>1. now' \in 0 .. MaxNow
    BY <1>1, Parameters DEF Tick, TypeOK
  <2>2. QED
    BY <1>1, <2>1 DEF Tick, TypeOK
<1>3. \A d \in Stated : challenge'[d] = challenge[d] /\ challenge[d] # None
  BY DEF Tick, Stated
<1>4. QED
  BY <1>1, <1>2, <1>3, WorldMoves DEF Tick

\* What a record of a client is after two or three of its fields change.
Stood(o, p, u) == [o EXCEPT !.pc = p, !.until = u]

Readied(o, p, i, q) == [o EXCEPT !.pc = p, !.input = i, !.request = q]

LEMMA Excepted ==
  ASSUME NEW o, Shape(o), NEW p \in Pcs, NEW u, NEW i, NEW q
  PROVE  LET r == Stood(o, p, u)
             w == Readied(o, p, i, q)
         IN  /\ Shape(r) /\ r.pc = p /\ r.statement = o.statement
             /\ Shape(w) /\ w.pc = p /\ w.statement = o.statement /\ w.input = i /\ w.request = q
<1>1. PICK p0, s0, u0, i0, q0 :
        o = [pc |-> p0, statement |-> s0, until |-> u0, input |-> i0, request |-> q0]
  BY DEF Shape
<1> DEFINE m == [o EXCEPT !.pc = p]
           n == [m EXCEPT !.input = i]
<1>2. m = [pc |-> p, statement |-> s0, until |-> u0, input |-> i0, request |-> q0]
  BY <1>1
<1>3. [o EXCEPT !.pc = p, !.until = u] = [m EXCEPT !.until = u]
  OBVIOUS
<1>4. [o EXCEPT !.pc = p, !.input = i, !.request = q] = [n EXCEPT !.request = q]
  OBVIOUS
<1> HIDE DEF m
<1>5. n = [pc |-> p, statement |-> s0, until |-> u0, input |-> i, request |-> q0]
  BY <1>2
<1> HIDE DEF n
<1>6. [o EXCEPT !.pc = p, !.until = u] = [pc |-> p, statement |-> s0, until |-> u, input |-> i0, request |-> q0]
  BY <1>2, <1>3
<1>7. [o EXCEPT !.pc = p, !.input = i, !.request = q]
        = [pc |-> p, statement |-> s0, until |-> u0, input |-> i, request |-> q]
  BY <1>4, <1>5
<1>8. QED
  BY <1>1, <1>6, <1>7 DEF Shape, Stood, Readied

LEMMA InvStands ==
  ASSUME SigningInv, NEW a \in Clients, NEW n \in Standings, Stands(a, now + n)
  PROVE  SigningInv'
<1> DEFINE pc == IF Stale(client[a].statement) THEN "refused" ELSE "verified"
           r == Stood(client[a], pc, now + n)
<1>1. TypeOK /\ client[a] # None /\ Shape(client[a])
  BY DEF SigningInv, TypeOK, Stands, At, Shape
<1>2. Shape(r) /\ r.statement = client[a].statement /\ r.pc \in {"refused", "verified"}
  <2>1. pc \in {"refused", "verified"} /\ pc \in Pcs
    BY DEF Pcs
  <2> HIDE DEF pc
  <2>2. QED
    BY <1>1, <2>1, Excepted
<1>3. client' = [client EXCEPT ![a] = r]
  BY <1>1 DEF Stands, Stood
<1>4. ~At(a, "signed")
  BY DEF Stands, At
<1>5. QED
  BY <1>1, <1>2, <1>3, <1>4, ClientMoves DEF Stands

\* A client that only changes its pc.
LEMMA GotoMoves ==
  ASSUME SigningInv, NEW a \in Clients, client[a] # None, ~At(a, "signed"), NEW pc \in Pcs,
         client' = [client EXCEPT ![a].pc = pc], UNCHANGED <<now, drift, challenge, taken>>,
         pc \in {"signing", "signed"} => Signs(a)
  PROVE  SigningInv'
<1> DEFINE r == [client[a] EXCEPT !.pc = pc]
<1>1. TypeOK /\ Shape(client[a])
  BY DEF SigningInv, TypeOK, Shape
<1>2. /\ Shape(r) /\ r.statement = client[a].statement /\ r.pc = pc
      /\ r.input = client[a].input /\ r.request = client[a].request
  BY <1>1 DEF Shape
<1>3. client' = [client EXCEPT ![a] = r] /\ client'[a] = r
  BY <1>1 DEF TypeOK
<1>4. r.pc \in {"signing", "signed"} => Signs(a)'
  <2>1. now \in Int /\ now' \in Int /\ now <= now'
    BY <1>1, NowIsInt
  <2>2. QED
    BY <2>1, <1>2, <1>3, SignsStays
<1>5. QED
  BY <1>2, <1>3, <1>4, ClientMoves

LEMMA InvDoesNotStand ==
  ASSUME SigningInv, NEW a \in Clients, DoesNotStand(a)
  PROVE  SigningInv'
<1>1. client[a] # None /\ ~At(a, "signed") /\ "refused" \in Pcs
  BY DEF DoesNotStand, At, Pcs
<1>2. client' = [client EXCEPT ![a].pc = "refused"] /\ UNCHANGED <<now, drift, challenge, taken>>
  BY DEF DoesNotStand, Goto
<1>3. QED
  BY <1>1, <1>2, GotoMoves

LEMMA InvSigned ==
  ASSUME SigningInv, NEW a \in Clients, Signed(a)
  PROVE  SigningInv'
<1> DEFINE pc == IF ReceiverCurrent(a) /\ now <= Signature(a).params.expires * Second THEN "signed" ELSE "refused"
<1>1. client[a] # None /\ ~At(a, "signed") /\ pc \in Pcs
  BY DEF Signed, At, Pcs
<1>2. client' = [client EXCEPT ![a].pc = pc] /\ UNCHANGED <<now, drift, challenge, taken>>
  BY DEF Signed, Goto
<1>3. Signs(a)
  BY DEF SigningInv, Signed, At
<1>4. QED
  BY <1>1, <1>2, <1>3, GotoMoves

\* The one signature of what was prepared.
SignatureOf(i, origin, ref, aud, nonce, holder, created) ==
    LET params == Params(i, nonce, holder.keyid, created)
    IN  [labelled |-> TRUE, covered |-> Covered(i), distinct |-> Semantic(i) \cap Components(i.class) = {},
         params |-> params,
         signature |-> [key |-> holder.key, base |-> SignatureBase(Unsigned(i, ref, aud), origin, Covered(i), params)]]

LEMMA PreparedInput ==
  ASSUME NEW i, NEW origin, NEW ref, NEW aud, NEW nonce, NEW holder, NEW created
  PROVE  SignedRequest(i, origin, ref, aud, nonce, holder, created).inputs[1]
            = SignatureOf(i, origin, ref, aud, nonce, holder, created)
<1> DEFINE U == Unsigned(i, ref, aud)
           s == SignatureOf(i, origin, ref, aud, nonce, holder, created)
           q == SignedRequest(i, origin, ref, aud, nonce, holder, created)
<1>1. q = [U EXCEPT !.inputs = <<s>>]
  BY DEF SignedRequest, SignatureOf
<1>2. U = [method |-> i.method, path |-> i.path, query |-> i.query, canonical |-> i.canonical, body |-> i.body,
           fields |-> Headers(i, ref, aud), inputs |-> <<>>]
  BY DEF Unsigned
<1>3. q.inputs = <<s>>
  <2> HIDE DEF s
  <2>1. QED
    BY <1>1, <1>2
<1>4. q.inputs[1] = s
  <2> HIDE DEF s, q
  <2>1. QED
    BY <1>3
<1>5. QED
  BY <1>4

LEMMA SignatureFacts ==
  ASSUME NEW i, NEW origin, NEW ref, NEW aud, NEW nonce, NEW holder, NEW created
  PROVE  LET s == SignatureOf(i, origin, ref, aud, nonce, holder, created)
             params == Params(i, nonce, holder.keyid, created)
         IN  /\ s.params = params /\ params.created = created /\ params.expires = created + i.window
             /\ s.signature.base = SignatureBase(Unsigned(i, ref, aud), origin, Covered(i), params)
             /\ s.signature.key = holder.key
BY DEF SignatureOf, Params

LEMMA PreparedParams ==
  ASSUME NEW i, NEW origin, NEW ref, NEW aud, NEW nonce, NEW holder, NEW created
  PROVE  SignedRequest(i, origin, ref, aud, nonce, holder, created).inputs[1].params
            = Params(i, nonce, holder.keyid, created)
BY PreparedInput, SignatureFacts

LEMMA InvSignRequest ==
  ASSUME SigningInv, NEW a \in Clients, NEW i \in Inputs[a], SignRequest(a, i)
  PROVE  SigningInv'
<1> DEFINE ok == ReceiverCurrent(a) /\ Signable(i) /\ Prepares(i, Reference(a), PinOf[a].did)
           k == now \div Second
           c == client[a].statement.challenge
           q == Prepared(a, i)
           r == Readied(client[a], "signing", i, q)
<1>1. TypeOK /\ client[a] # None /\ Shape(client[a]) /\ ~At(a, "signed") /\ now \in Int
  BY NowIsInt DEF SigningInv, TypeOK, SignRequest, At, Shape
<1>2. CASE ~ok
  <2>1. client' = [client EXCEPT ![a].pc = "refused"] /\ UNCHANGED <<now, drift, challenge, taken>> /\ "refused" \in Pcs
    BY <1>2 DEF SignRequest, Goto, Pcs
  <2>2. QED
    BY <1>1, <2>1, GotoMoves
<1>3. CASE ok
  <2> HIDE DEF q
  <2>1. client' = [client EXCEPT ![a] = r] /\ UNCHANGED <<now, drift, challenge, taken>> /\ client'[a] = r
    BY <1>1, <1>3 DEF SignRequest, TypeOK, q, Readied
  <2>2. /\ Shape(r) /\ r.statement = client[a].statement /\ r.pc = "signing"
        /\ r.input = i /\ r.request = q
    <3>1. "signing" \in Pcs
      BY DEF Pcs
    <3>2. QED
      BY <1>1, <3>1, Excepted
  <2>3. /\ q = SignedRequest(i, PinOf[a].origin, Reference(a), PinOf[a].did, c, Holders[AgentOf[a]], k)
        /\ q.inputs[1].params = Params(i, c, Holders[AgentOf[a]].keyid, k)
    <3>1. q = SignedRequest(i, PinOf[a].origin, Reference(a), PinOf[a].did, c, Holders[AgentOf[a]], k)
      BY DEF q, Prepared
    <3> DEFINE org == PinOf[a].origin
               ref == Reference(a)
               aud == PinOf[a].did
               holder == Holders[AgentOf[a]]
    <3>2. SignedRequest(i, org, ref, aud, c, holder, k).inputs[1].params = Params(i, c, holder.keyid, k)
      <4> HIDE DEF org, ref, aud, holder, c, k
      <4>1. QED
        BY PreparedParams
    <3>3. QED
      BY <3>1, <3>2
  <2>4. q.inputs[1].params.created = k
    BY <2>3 DEF Params
  <2>5. k \in Int /\ k * Second <= now
    BY <1>1, WholeSecond
  <2>6. Signature(a)' = q.inputs[1]
    BY <2>1, <2>2 DEF Signature
  <2>7. Reference(a)' = Reference(a)
    BY DEF Reference
  <2>8. client'[a].input = i /\ client'[a].request = q /\ client'[a].statement.challenge = c
    BY <2>1, <2>2
  <2>9. Signs(a)'
    BY <1>3, <2>1, <2>3, <2>4, <2>5, <2>6, <2>7, <2>8 DEF Signs
  <2>10. QED
    BY <1>1, <2>1, <2>2, <2>9, ClientMoves
<1>4. QED
  BY <1>2, <1>3

LEMMA IdentityHolds ==
  ASSUME NEW p, NEW s, NEW a, FirstFailure(IdentityTests(p, s, a)) = "ok"
  PROVE  /\ p.document # None /\ p.document = s.subject /\ p.signer = p.document
         /\ s.subject = PinOf[a].did /\ s.origin = PinOf[a].origin
         /\ s.audience = AgentOf[a] /\ s.nonce = a /\ ~Stale(s)
<1> DEFINE T == IdentityTests(p, s, a)
<1>1. /\ DOMAIN T = 1 .. 8
      /\ T[1].fails = (p.document = None)
      /\ T[2].fails = (p.document # s.credential \/ p.document # s.subject)
      /\ T[3].fails = (s.subject # PinOf[a].did)
      /\ T[4].fails = (s.origin # PinOf[a].origin)
      /\ T[5].fails = (s.audience # AgentOf[a])
      /\ T[6].fails = (s.nonce # a)
      /\ T[7].fails = (s.created > now + Skew * Second \/ Stale(s))
      /\ T[8].fails = (p.signer # p.document)
  BY DEF IdentityTests
<1>2. \A n \in DOMAIN T : T[n].reason # "ok"
  BY DEF IdentityTests
<1>3. DOMAIN T \subseteq Nat
  BY <1>1
<1>4. \A n \in DOMAIN T : ~T[n].fails
  BY <1>2, <1>3, NoneFails
<1>5. \A n \in 1 .. 8 : ~T[n].fails
  BY <1>1, <1>4
<1> HIDE DEF T
<1>6. /\ ~T[1].fails /\ ~T[2].fails /\ ~T[3].fails /\ ~T[4].fails
      /\ ~T[5].fails /\ ~T[6].fails /\ ~T[7].fails /\ ~T[8].fails
  BY <1>5
<1>7. QED
  BY <1>1, <1>6

\* A statement that passes was made by the receiver, which alone has its key.
LEMMA InvCheckIdentity ==
  ASSUME SigningInv, NEW a \in Clients, NEW p \in IdentityResponses(a), CheckIdentity(a, p)
  PROVE  SigningInv'
<1> DEFINE s == p.statement
<1>1. /\ TypeOK /\ client[a] = None /\ client' = [client EXCEPT ![a] = Fresh(s)]
      /\ UNCHANGED <<now, drift, challenge, taken>>
  BY DEF SigningInv, CheckIdentity
<1>2. /\ p.document # None /\ p.document = s.subject /\ p.signer = p.document
      /\ s.subject = PinOf[a].did /\ s.origin = PinOf[a].origin
      /\ s.audience = AgentOf[a] /\ s.nonce = a /\ ~Stale(s)
  BY IdentityHolds DEF CheckIdentity
<1>3. PICK c \in Stated : s = Statement(c) /\ p.signer = IssuerOf[c]
  <2>1. p.signer # None
    BY <1>2
  <2>2. \/ \E c \in Stated, k \in Receivers \cup {None} :
             p = [document |-> k, statement |-> Statement(c), signer |-> IssuerOf[c]]
        \/ p.signer = None
    BY DEF IdentityResponses
  <2>3. PICK c \in Stated, k \in Receivers \cup {None} :
           p = [document |-> k, statement |-> Statement(c), signer |-> IssuerOf[c]]
    BY <2>1, <2>2
  <2>4. QED
    BY <2>3
<1>4. /\ s.subject = IssuerOf[c] /\ s.origin = Origin[IssuerOf[c]] /\ s.challenge = c
      /\ s.audience = challenge[c].audience /\ s.nonce = challenge[c].nonce
  BY <1>3 DEF Statement
<1>5. client'[a] = Fresh(s) /\ \A b \in Clients : b # a => client'[b] = client[b]
  BY <1>1 DEF TypeOK
<1>6. Fresh(s).statement = s /\ Fresh(s).pc = "standing" /\ Shape(Fresh(s))
  BY DEF Fresh, Shape, Pcs
<1>7. Answered(a)'
  <2>1. client'[a].statement = s
    BY <1>5, <1>6
  <2>2. Statement(c)' = Statement(c) /\ c \in Stated'
    BY <1>1 DEF Statement, Truncated, Stated
  <2>3. /\ IssuerOf[c] = PinOf[a].did /\ Origin[IssuerOf[c]] = PinOf[a].origin
        /\ challenge'[c].nonce = a /\ challenge'[c].audience = AgentOf[a]
    BY <1>1, <1>2, <1>4
  <2>4. s.challenge = c /\ s = Statement(c)
    BY <1>3, <1>4
  <2> HIDE DEF s
  <2>5. QED
    BY <2>1, <2>2, <2>3, <2>4 DEF Answered
<1>8. ASSUME NEW b \in Clients, client'[b] # None
      PROVE  Answered(b)' /\ (client'[b].pc \in {"signing", "signed"} => Signs(b)')
  <2>1. CASE b = a
    BY <2>1, <1>5, <1>6, <1>7
  <2>2. CASE b # a
    <3>1. client'[b] = client[b] /\ client[b] # None
      BY <1>5, <1>8, <2>2
    <3>2. Answered(b) /\ (client[b].pc \in {"signing", "signed"} => Signs(b))
      BY <3>1 DEF SigningInv
    <3>3. challenge[client[b].statement.challenge] # None
      BY <3>2 DEF Answered, Stated
    <3>4. Answered(b)'
      BY <1>1, <3>1, <3>2, <3>3, AnsweredStays
    <3>5. now \in Int /\ now' \in Int /\ now <= now'
      BY <1>1, NowIsInt
    <3>6. QED
      BY <3>1, <3>2, <3>4, <3>5, SignsStays
  <2>3. QED
    BY <2>1, <2>2
<1>9. TypeOK'
  <2>1. client' = [b \in Clients |-> client'[b]]
    BY <1>1 DEF TypeOK
  <2>2. \A b \in Clients : client'[b] # None => Shape(client'[b])
    BY <1>1, <1>5, <1>6 DEF TypeOK, Shape
  <2>3. QED
    BY <1>1, <2>1, <2>2 DEF TypeOK, Shape
<1>10. AcceptedIsMeant'
  <2>1. \A b \in Clients : At(b, "signed") => client'[b] = client[b]
    BY <1>1, <1>5 DEF At
  <2>2. QED
    BY <1>1, <2>1, AcceptedStays DEF SigningInv
<1>11. QED
  BY <1>8, <1>9, <1>10 DEF SigningInv

\* What is accepted is what its signer meant.
LEMMA InvDeliver ==
  ASSUME SigningInv, NEW a \in Clients, NEW r \in Receivers, NEW q, Deliver(a, q, r)
  PROVE  SigningInv'
<1> DEFINE d == Described(q, Operations)
           s == q.inputs[1]
           c == s.params.nonce
           i == client[a].input
           k == Signature(a).params.created
           ref == Reference(a)
           aud == PinOf[a].did
           origin == PinOf[a].origin
           holder == Holders[AgentOf[a]]
           params == Params(i, client[a].statement.challenge, holder.keyid, k)
           v == Authenticated(q, Operations, Origin[r])
<1>1. /\ d \in Operations
      /\ HasBody(d.class) => q.body # Empty
      /\ s.covered = Required(d, q) /\ (HasDigest(d.class) => DigestFits(q))
      /\ c \in Live(r) /\ Resolves(q, s) /\ Verifies(q, Origin[r], s)
  BY AuthenticateHolds DEF Deliver, Accepts
<1>2. /\ client[a] # None /\ At(a, "signed") /\ Answered(a) /\ Signs(a)
      /\ TypeOK
  BY DEF SigningInv, Deliver, At
<1>3. /\ c \in Tokens /\ IssuerOf[c] = r /\ challenge[c] # None
  BY <1>1 DEF Live
<1>4. s.signature = Signature(a).signature
  BY <1>1 DEF Deliver, Unforged, Verifies
<1>5. Signature(a) = SignatureOf(i, origin, ref, aud, client[a].statement.challenge, holder, k)
  <2> DEFINE n == client[a].statement.challenge
  <2>1. client[a].request = SignedRequest(i, origin, ref, aud, n, holder, k)
    BY <1>2 DEF Signs
  <2>2. Signature(a) = client[a].request.inputs[1]
    BY DEF Signature
  <2> HIDE DEF i, origin, ref, aud, n, holder, k
  <2>3. QED
    BY <2>1, <2>2, PreparedInput DEF n
<1>6. /\ Signature(a).params = params
      /\ Signature(a).signature.base = SignatureBase(Unsigned(i, ref, aud), origin, Covered(i), params)
      /\ params.nonce = client[a].statement.challenge
  <2>1. params.nonce = client[a].statement.challenge
    BY DEF Params
  <2> HIDE DEF i, origin, ref, aud, holder, k
  <2>2. QED
    BY <1>5, <2>1, SignatureFacts
<1>7. SignatureBase(q, Origin[r], s.covered, s.params) = SignatureBase(Unsigned(i, ref, aud), origin, Covered(i), params)
  BY <1>1, <1>4, <1>6 DEF Verifies
<1>8. Signable(i) /\ Coverable(Unsigned(i, ref, aud), Covered(i))
  BY <1>2 DEF Signs, Prepares
<1>9. DescriptorOK(d) /\ d.semanticHeaders \cap Derived = {}
  BY <1>1, PartiesAssumption
<1> DEFINE M == SignedPart(i, ref, aud)
<1>10. /\ d.class = i.class /\ s.params = params
       /\ Value(q, "aria-credential") = ref /\ Value(q, "aria-audience") = aud
       /\ Receiptable(i.class) => Value(q, "aria-operation") = i.operationId
       /\ LookupOf(q) = LookupOf(i)
       /\ FingerprintOf(d, q) = FingerprintOf(d, M)
  <2> HIDE DEF d, s, i, ref, aud, origin, params
  <2>1. QED
    BY <1>1, <1>7, <1>8, <1>9, SignatureFixesContent
<1>11. c = client[a].statement.challenge /\ r = aud
  BY <1>2, <1>3, <1>6, <1>10 DEF Answered
<1>12. /\ challenge' = [challenge EXCEPT ![c].used = TRUE]
       /\ taken' = [taken EXCEPT ![c] = [receiver |-> r, value |-> v]]
       /\ UNCHANGED <<now, drift, client>>
  BY DEF Deliver
<1>13. /\ v.descriptor = d
       /\ v.operationId = (IF Receiptable(d.class) THEN Value(q, "aria-operation") ELSE None)
       /\ v.lookupOf = (IF Receiptable(d.class) THEN None ELSE LookupOf(q))
       /\ v.audience = Value(q, "aria-audience")
       /\ v.fingerprint = (IF Receiptable(d.class) THEN FingerprintOf(d, q) ELSE None)
       /\ v.requestDigest = SignatureBase(q, Origin[r], s.covered, s.params)
       /\ v.holder = Value(q, "aria-credential").url
  BY DEF Authenticated
<1>14. ~Receiptable(i.class) => i.operationId = None
  BY <1>8 DEF Signable
<1>15. ref.url = AgentOf[a]
  BY DEF Reference
<1>16. taken'[c] = [receiver |-> r, value |-> v] /\ \A e \in Tokens : e # c => taken'[e] = taken[e]
  BY <1>2, <1>3, <1>12 DEF TypeOK
<1>17. taken'[c].value = v /\ taken'[c].receiver = r
  BY <1>16
<1>18. Meaning(c, a)'
  <2>1. client'[a] = client[a] /\ Signature(a)' = Signature(a)
    BY <1>12 DEF Signature
  <2>2. Meant(i, a) = M
    BY DEF Meant, SignedPart
  <2>3. client'[a].input = i /\ Meant(i, a)' = Meant(i, a)
    BY <2>1 DEF Meant, Reference
  <2>4. v.requestDigest = Signature(a).signature.base
    BY <1>6, <1>7, <1>13
  <2>5. v.holder = AgentOf[a] /\ v.audience = aud
    BY <1>10, <1>13, <1>15
  <2>6. v.descriptor.class = i.class /\ v.operationId = i.operationId
    BY <1>10, <1>13, <1>14
  <2>7. (Receiptable(i.class) => v.fingerprint = FingerprintOf(v.descriptor, Meant(i, a)))
        /\ (~Receiptable(i.class) => v.lookupOf = LookupOf(i))
    BY <1>10, <1>13, <2>2
  <2> HIDE DEF v, i, c, M, d
  <2>8. QED
    BY <1>11, <1>17, <2>1, <2>3, <2>4, <2>5, <2>6, <2>7 DEF Meaning
<1>19. AcceptedIsMeant'
  <2>1. ASSUME NEW e \in Tokens, taken'[e] # None
        PROVE  \E b \in Clients : (At(b, "signed") /\ Meaning(e, b))'
    <3>1. CASE e = c
      BY <3>1, <1>2, <1>12, <1>18 DEF At
    <3>2. CASE e # c
      <4>1. taken'[e] = taken[e] /\ taken[e] # None
        BY <2>1, <3>2, <1>16
      <4>2. PICK b \in Clients : At(b, "signed") /\ Meaning(e, b)
        BY <4>1 DEF SigningInv, AcceptedIsMeant
      <4>3. At(b, "signed")' /\ Meaning(e, b)'
        BY <4>1, <4>2, <1>12 DEF At, Meaning, Meant, Signature, Reference
      <4>4. QED
        BY <4>3
    <3>3. QED
      BY <3>1, <3>2
  <2>2. QED
    BY <2>1 DEF AcceptedIsMeant
<1>20. TypeOK'
  <2> HIDE DEF c, v
  <2>1. challenge[c] \in Challenges
    BY <1>2, <1>3 DEF TypeOK
  <2>2. [challenge[c] EXCEPT !.used = TRUE] \in Challenges
    BY <2>1 DEF Challenges
  <2>3. challenge' \in [Tokens -> Challenges \cup {None}]
    BY <1>2, <1>12, <2>2 DEF TypeOK
  <2>4. taken' = [e \in Tokens |-> taken'[e]]
    BY <1>2, <1>12 DEF TypeOK
  <2>5. QED
    BY <1>2, <1>12, <2>3, <2>4 DEF TypeOK
<1>21. \A e \in Stated : /\ challenge'[e] # None /\ challenge'[e].nonce = challenge[e].nonce
                          /\ challenge'[e].audience = challenge[e].audience
                          /\ challenge'[e].stated = challenge[e].stated
  <2> HIDE DEF c, v
  <2>1. ASSUME NEW e \in Stated
        PROVE  /\ challenge'[e] # None /\ challenge'[e].nonce = challenge[e].nonce
               /\ challenge'[e].audience = challenge[e].audience
               /\ challenge'[e].stated = challenge[e].stated
    <3>1. e \in Tokens /\ challenge[e] \in Challenges /\ challenge[e] # None
      BY <1>2 DEF Stated, TypeOK
    <3>2. challenge'[e] = IF e = c THEN [challenge[e] EXCEPT !.used = TRUE] ELSE challenge[e]
      BY <1>2, <1>12, <3>1 DEF TypeOK
    <3>3. challenge'[e] \in Challenges \cup {None} /\ None \notin Challenges
      BY <1>20, <3>1, NoneAssumption DEF TypeOK
    <3>4. [challenge[e] EXCEPT !.used = TRUE] \in Challenges
      BY <3>1 DEF Challenges
    <3>5. challenge'[e] # None
      BY <3>1, <3>2, <3>3, <3>4
    <3>6. QED
      BY <3>1, <3>2, <3>5 DEF Challenges
  <2>2. QED
    BY <2>1
<1>22. QED
  <2>1. UNCHANGED <<drift, client>> /\ now <= now'
    BY <1>2, <1>12, NowIsInt
  <2>2. QED
    BY <1>19, <1>20, <1>21, <2>1, ClientsStay

LEMMA InvNext == ASSUME SigningInv, [Next]_vars PROVE SigningInv'
<1>1. CASE Tick
  BY <1>1, InvTick
<1>2. ASSUME NEW c \in Tokens, State(c) \/ \E asked \in Asked : Issue(c, asked[1], asked[2])
      PROVE  SigningInv'
  BY <1>2, InvState, InvIssue
<1>3. ASSUME NEW a \in Clients, NEW p \in IdentityResponses(a), CheckIdentity(a, p)
      PROVE  SigningInv'
  BY <1>3, InvCheckIdentity
<1>4. ASSUME NEW a \in Clients, (\E n \in Standings : Stands(a, now + n)) \/ DoesNotStand(a)
      PROVE  SigningInv'
  BY <1>4, InvStands, InvDoesNotStand
<1>5. ASSUME NEW a \in Clients, (\E i \in Inputs[a] : SignRequest(a, i)) \/ Signed(a)
      PROVE  SigningInv'
  BY <1>5, InvSignRequest, InvSigned
<1>6. ASSUME NEW a \in Clients, NEW r \in Receivers, NEW q, Deliver(a, q, r)
      PROVE  SigningInv'
  BY <1>6, InvDeliver
<1>7. CASE UNCHANGED vars
  <2>1. TypeOK' /\ AcceptedIsMeant'
    BY <1>7, AcceptedStays DEF SigningInv, vars, TypeOK
  <2>2. now <= now'
    BY <1>7, NowIsInt DEF SigningInv, vars
  <2>3. \A c \in Stated : challenge'[c] # None /\ challenge'[c] = challenge[c]
    BY <1>7 DEF Stated, vars
  <2>4. QED
    BY <1>7, <2>1, <2>2, <2>3, ClientsStay DEF vars
<1>8. QED
  BY <1>1, <1>2, <1>3, <1>4, <1>5, <1>6, <1>7 DEF Next

-----------------------------------------------------------------------------
(* The theorems *)

\* The inductive invariant holds: a client goes by a statement made to it, signs its own
\* input, and what receivers accept is that.
THEOREM SigningInvariantHolds == Spec => []SigningInv
<1>1. Init => SigningInv
  BY InvInit
<1>2. SigningInv /\ [Next]_vars => SigningInv'
  BY InvNext
<1>3. QED
  BY <1>1, <1>2, PTL DEF Spec

\* Whatever a receiver accepts is what the holder of the credential signed for it.
THEOREM AcceptedIsMeantHolds == Spec => []AcceptedIsMeant
<1>1. SigningInv => AcceptedIsMeant
  BY DEF SigningInv
<1>2. QED
  BY <1>1, SigningInvariantHolds, PTL
\* Which steps take a client somewhere: only its own.
LEMMA Arrives ==
  ASSUME SigningInv, Next, NEW a \in Clients, NEW pc \in {"verified", "signed"}, ~At(a, pc), At(a, pc)'
  PROVE  \/ pc = "verified" /\ \E n \in Standings : Stands(a, now + n)
         \/ pc = "signed" /\ Signed(a)
<1>1. TypeOK /\ client'[a] # client[a]
  BY DEF SigningInv, At
<1>2. client' # client
  BY <1>1
<1>3. PICK b \in Clients :
        \/ \E p \in IdentityResponses(b) : CheckIdentity(b, p)
        \/ \E n \in Standings : Stands(b, now + n)
        \/ DoesNotStand(b)
        \/ \E i \in Inputs[b] : SignRequest(b, i)
        \/ Signed(b)
  BY <1>2 DEF Next, State, Issue, Deliver, Tick
<1>4. \A r : client' = [client EXCEPT ![b] = r] => b = a
  BY <1>1 DEF TypeOK
<1>5. ASSUME NEW p \in IdentityResponses(b), CheckIdentity(b, p) PROVE FALSE
  <2>1. client' = [client EXCEPT ![b] = Fresh(p.statement)]
    BY <1>5 DEF CheckIdentity
  <2>2. b = a /\ client'[a] = Fresh(p.statement)
    BY <1>1, <1>4, <2>1 DEF TypeOK
  <2>3. QED
    BY <2>2 DEF At, Fresh
<1>6. ASSUME NEW n \in Standings, Stands(b, now + n) PROVE b = a /\ pc = "verified"
  <2> DEFINE p == IF Stale(client[b].statement) THEN "refused" ELSE "verified"
  <2>1. client' = [client EXCEPT ![b] = Stood(client[b], p, now + n)] /\ client[b] # None
    BY <1>6 DEF Stands, Stood, At
  <2>2. p \in {"refused", "verified"} /\ p \in Pcs
    BY DEF Pcs
  <2> HIDE DEF p
  <2>3. b = a /\ client'[a] = Stood(client[a], p, now + n) /\ Shape(client[a])
    BY <1>1, <1>4, <2>1 DEF TypeOK, Shape
  <2>4. client'[a].pc = p
    BY <2>2, <2>3, Excepted
  <2>5. QED
    BY <2>2, <2>3, <2>4 DEF At
<1>7. ASSUME NEW p \in Pcs, Goto(b, p), client[b] # None PROVE b = a /\ p = pc
  <2>1. client' = [client EXCEPT ![b] = [client[b] EXCEPT !.pc = p]]
    BY <1>7 DEF Goto
  <2>2. b = a /\ client'[a] = [client[a] EXCEPT !.pc = p] /\ Shape(client[a])
    BY <1>1, <1>4, <1>7, <2>1 DEF TypeOK, Shape
  <2>3. client'[a].pc = p
    BY <2>2 DEF Shape
  <2>4. QED
    BY <2>2, <2>3 DEF At
<1>8. ~DoesNotStand(b)
  <2>1. ASSUME DoesNotStand(b) PROVE FALSE
    <3>1. Goto(b, "refused") /\ client[b] # None /\ "refused" \in Pcs
      BY <2>1 DEF DoesNotStand, At, Pcs
    <3>2. QED
      BY <3>1, <1>7
  <2>2. QED
    BY <2>1
<1>9. ASSUME NEW i \in Inputs[b], SignRequest(b, i) PROVE FALSE
  <2>1. client[b] # None /\ ~Goto(b, "refused")
    <3>1. "refused" \in Pcs /\ client[b] # None
      BY <1>9 DEF SignRequest, At, Pcs
    <3>2. QED
      BY <3>1, <1>7
  <2>2. client' = [client EXCEPT ![b] = Readied(client[b], "signing", i, Prepared(b, i))]
    BY <1>9, <2>1 DEF SignRequest, Readied
  <2>3. b = a /\ client'[a] = Readied(client[a], "signing", i, Prepared(b, i)) /\ Shape(client[a]) /\ "signing" \in Pcs
    BY <1>1, <1>4, <2>1, <2>2 DEF TypeOK, Shape, Pcs
  <2>4. client'[a].pc = "signing"
    BY <2>3, Excepted
  <2>5. QED
    BY <2>4 DEF At
<1>10. Signed(b) => b = a /\ pc = "signed"
  <2>1. SUFFICES ASSUME Signed(b) PROVE b = a /\ pc = "signed"
    OBVIOUS
  <2>2. PICK p \in {"signed", "refused"} : Goto(b, p)
    BY <2>1 DEF Signed
  <2>3. p \in Pcs /\ client[b] # None
    BY <2>1 DEF Signed, At, Pcs
  <2>4. QED
    BY <1>7, <2>2, <2>3
<1>11. QED
  BY <1>3, <1>5, <1>6, <1>8, <1>9, <1>10

\* A receiver is taken for verified only while it is: by a statement it made to this
\* client, recent at that moment, and a standing that holds at that moment.
THEOREM VerifiedIsCurrentHolds == Spec => VerifiedIsCurrent
<1> DEFINE Step(a) ==
      LET c == client[a].statement.challenge
      IN  /\ IssuerOf[c] = PinOf[a].did /\ Origin[IssuerOf[c]] = PinOf[a].origin
          /\ challenge[c].nonce = a /\ challenge[c].audience = AgentOf[a]
          /\ Age(a) <= MaxAge + Skew * Second
          /\ now <= client'[a].until
<1>1. ASSUME SigningInv, Next, NEW a \in Clients, ~At(a, "verified"), At(a, "verified")'
      PROVE  Step(a)
  <2>1. PICK n \in Standings : Stands(a, now + n)
    BY <1>1, Arrives
  <2> DEFINE p == IF Stale(client[a].statement) THEN "refused" ELSE "verified"
  <2>2. TypeOK /\ client[a] # None /\ Answered(a) /\ Shape(client[a])
    BY <1>1, <2>1 DEF SigningInv, TypeOK, Stands, At, Shape
  <2>3. client'[a] = Stood(client[a], p, now + n)
    BY <2>1, <2>2 DEF Stands, Stood, TypeOK
  <2>4. p \in Pcs
    BY DEF Pcs
  <2>5. client'[a].pc = p
    <3> HIDE DEF p
    <3>1. QED
      BY <2>2, <2>3, <2>4, Excepted
  <2>6. ~Stale(client[a].statement)
    BY <1>1, <2>5 DEF At
  <2>7. client'[a].until = now + n
    BY <2>2, <2>3 DEF Stood, Shape
  <2>8. now <= now + n
    BY <2>2, NowIsInt, Parameters
  <2>9. QED
    BY <2>2, <2>6, <2>7, <2>8, AgeBound DEF Answered
<1>2. SigningInv /\ [Next]_vars => [\A a \in Clients : ~At(a, "verified") /\ At(a, "verified")' => Step(a)]_vars
  BY <1>1
<1>3. QED
  BY <1>2, SigningInvariantHolds, PTL DEF Spec, VerifiedIsCurrent

\* A request leaves only while its receiver stands and finds it inside its window,
\* whatever its clock within the skew.
THEOREM LeavesUsableHolds == Spec => LeavesUsable
<1> DEFINE Step(a) ==
      /\ now <= client[a].until /\ Age(a) <= MaxAge + Skew * Second
      /\ Window(Signature(a).params, There)
<1>1. ASSUME SigningInv, Next, NEW a \in Clients, ~At(a, "signed"), At(a, "signed")'
      PROVE  Step(a)
  <2>1. Signed(a)
    BY <1>1, Arrives
  <2> DEFINE ok == ReceiverCurrent(a) /\ now <= Signature(a).params.expires * Second
             p == IF ok THEN "signed" ELSE "refused"
  <2>2. /\ TypeOK /\ client[a] # None /\ Answered(a) /\ Shape(client[a]) /\ Signs(a)
    BY <1>1, <2>1 DEF SigningInv, TypeOK, Signed, At, Shape
  <2>3. client'[a] = [client[a] EXCEPT !.pc = p]
    BY <2>1, <2>2 DEF Signed, Goto, TypeOK
  <2>4. client'[a].pc = p
    <3> HIDE DEF p
    <3>1. QED
      BY <2>2, <2>3 DEF Shape
  <2>5. ok
    BY <1>1, <2>4 DEF At
  <2>6. now \in Int /\ drift \in Int /\ -(Skew * Second) <= drift /\ drift <= Skew * Second
    BY <2>2, NowIsInt, DriftBound DEF TypeOK
  <2>7. ~Stale(client[a].statement)
    <3>1. client[a].statement.created \in Int
      <4> DEFINE c == client[a].statement.challenge
      <4>1. challenge[c].stated \in Int
        <5>1. challenge[c] \in Challenges /\ challenge[c].stated # None
          BY <2>2 DEF Answered, Stated, TypeOK
        <5>2. QED
          BY <5>1 DEF Challenges
      <4>2. client[a].statement.created = Truncated(challenge[c].stated + drift)
        BY <2>2 DEF Answered, Statement
      <4>3. QED
        BY <4>1, <4>2, <2>6, WholeSecond DEF Truncated
    <3>2. now <= client[a].statement.created + MaxAge
      BY <2>5 DEF ReceiverCurrent
    <3>3. QED
      BY <3>1, <3>2, <2>6, Parameters DEF Stale
  <2>8. Window(Signature(a).params, There)
    <3> DEFINE i == client[a].input
               k == Signature(a).params.created
               params == Signature(a).params
               holder == Holders[AgentOf[a]]
               n == client[a].statement.challenge
               w == Skew * Second
    <3>1. params = Params(i, n, holder.keyid, k)
      <4> DEFINE origin == PinOf[a].origin
                 ref == Reference(a)
                 aud == PinOf[a].did
      <4>1. client[a].request = SignedRequest(i, origin, ref, aud, n, holder, k)
        BY <2>2 DEF Signs
      <4>2. params = client[a].request.inputs[1].params
        BY DEF Signature
      <4> HIDE DEF i, k, params, holder, n, origin, ref, aud
      <4>3. QED
        BY <4>1, <4>2, PreparedParams
    <3>2. params.created = k /\ params.expires = k + i.window
      BY <3>1 DEF Params
    <3>3. i.window \in 1 .. MaxWindow /\ k \in Int /\ k * Second <= now
      BY <2>2 DEF Signs, Signable
    <3>4. now <= params.expires * Second
      BY <2>5
    <3>5. params.expires \in Int /\ k * Second \in Int /\ params.expires * Second \in Int /\ w \in Nat
      BY <3>2, <3>3, Parameters, SkewBound
    <3> HIDE DEF k, params, i, w
    <3>6. params.created * Second <= There + w
      BY <3>2, <3>3, <3>5, <2>6 DEF There, w
    <3>7. params.expires * Second >= There - w
      BY <3>4, <3>5, <2>6 DEF There, w
    <3>8. params.expires > params.created /\ params.expires - params.created <= MaxWindow
      BY <3>2, <3>3, Parameters
    <3>9. QED
      BY <3>6, <3>7, <3>8 DEF Window, Current, w, params
  <2>9. QED
    BY <2>2, <2>5, <2>7, <2>8, AgeBound DEF ReceiverCurrent
<1>2. SigningInv /\ [Next]_vars => [\A a \in Clients : ~At(a, "signed") /\ At(a, "signed")' => Step(a)]_vars
  BY <1>1
<1>3. QED
  BY <1>2, SigningInvariantHolds, PTL DEF Spec, LeavesUsable

-----------------------------------------------------------------------------
(* What is signed is accepted *)

\* Tests of which none fails come to "ok".
LEMMA AllPass ==
  ASSUME NEW tests, \A n \in DOMAIN tests : ~tests[n].fails
  PROVE  FirstFailure(tests) = "ok"
<1> DEFINE B == {n \in DOMAIN tests : tests[n].fails}
<1>1. B = {}
  OBVIOUS
<1>2. QED
  BY <1>1 DEF FirstFailure

\* A request as signRequest makes it of an input (SignedRequest): q of the input i, with
\* the one signature s over the challenge n, dated k.
Made(q, s, i, origin, ref, aud, n, holder, k) ==
    /\ q.method = i.method /\ q.path = i.path /\ q.query = i.query /\ q.canonical = i.canonical /\ q.body = i.body
    /\ q.fields = Headers(i, ref, aud) /\ q.inputs = <<s>>
    /\ s.labelled /\ s.covered = Covered(i) /\ (s.distinct <=> Semantic(i) \cap Components(i.class) = {})
    /\ s.params = Params(i, n, holder.keyid, k)
    /\ s.signature.key = holder.key
    /\ s.signature.base = SignatureBase(Unsigned(i, ref, aud), origin, Covered(i), s.params)

LEMMA RequestIsMade ==
  ASSUME NEW i, NEW origin, NEW ref, NEW aud, NEW n, NEW holder, NEW k
  PROVE  Made(SignedRequest(i, origin, ref, aud, n, holder, k), SignatureOf(i, origin, ref, aud, n, holder, k),
              i, origin, ref, aud, n, holder, k)
<1> DEFINE U == Unsigned(i, ref, aud)
           s == SignatureOf(i, origin, ref, aud, n, holder, k)
           q == SignedRequest(i, origin, ref, aud, n, holder, k)
           H == Headers(i, ref, aud)
<1>1. q = [U EXCEPT !.inputs = <<s>>]
  BY DEF SignedRequest, SignatureOf
<1>2. U = [method |-> i.method, path |-> i.path, query |-> i.query, canonical |-> i.canonical, body |-> i.body,
           fields |-> H, inputs |-> <<>>]
  BY DEF Unsigned
<1>3. /\ q.method = i.method /\ q.path = i.path /\ q.query = i.query /\ q.canonical = i.canonical /\ q.body = i.body
      /\ q.fields = H /\ q.inputs = <<s>>
  <2> HIDE DEF s, H
  <2>1. QED
    BY <1>1, <1>2
<1>4. s.labelled /\ s.covered = Covered(i) /\ (s.distinct <=> Semantic(i) \cap Components(i.class) = {})
  <2> DEFINE C == Covered(i)
             D == Semantic(i) \cap Components(i.class) = {}
             P == Params(i, n, holder.keyid, k)
             G == [key |-> holder.key, base |-> SignatureBase(Unsigned(i, ref, aud), origin, Covered(i), P)]
  <2>1. s = [labelled |-> TRUE, covered |-> C, distinct |-> D, params |-> P, signature |-> G]
    BY DEF SignatureOf
  <2> HIDE DEF s, C, D, P, G
  <2>2. s.labelled /\ s.covered = C
    BY <2>1
  <2>3. s.distinct = D
    BY <2>1
  <2>4. QED
    BY <2>2, <2>3 DEF C, D
<1>5. /\ s.params = Params(i, n, holder.keyid, k) /\ s.signature.key = holder.key
      /\ s.signature.base = SignatureBase(Unsigned(i, ref, aud), origin, Covered(i), s.params)
  BY SignatureFacts
<1> HIDE DEF s, q
<1>6. Made(q, s, i, origin, ref, aud, n, holder, k)
  BY <1>3, <1>4, <1>5 DEF Made
<1>7. QED
  BY <1>6 DEF q, s

\* The components a request is signed over, by its class.
LEMMA ComponentsOf ==
  ASSUME NEW c
  PROVE  /\ "content-digest" \in Components(c) <=> HasDigest(c)
         /\ "aria-operation" \in Components(c) <=> Receiptable(c)
         /\ "content-type" \in Components(c) <=> HasBody(c)
         /\ {"@method", "@target-uri", "aria-credential", "aria-audience"} \subseteq Components(c)
         /\ Components(c) \subseteq Derived \cup AriaFields \cup {"content-type"}
BY DEF Components, Optional, Derived, AriaFields

\* The headers the agent adds are there once each, and no other of these.
LEMMA HeadersAdded ==
  ASSUME NEW q, NEW i, NEW ref, NEW aud, q.fields = Headers(i, ref, aud), Signable(i)
  PROVE  /\ Single(q, "aria-credential") /\ Value(q, "aria-credential") = ref
         /\ HasDigest(i.class) => Single(q, "content-digest") /\ Value(q, "content-digest") = i.body
         /\ Receiptable(i.class) => Single(q, "aria-operation") /\ Value(q, "aria-operation") = i.operationId
         /\ ~Receiptable(i.class) => "aria-operation" \notin DOMAIN q.fields
<1> DEFINE H == Headers(i, ref, aud)
           Added == {"aria-credential", "aria-audience"} \cup (IF HasDigest(i.class) THEN {"content-digest"} ELSE {})
                        \cup (IF i.operationId # None THEN {"aria-operation"} ELSE {})
<1>1. Receiptable(i.class) => i.operationId # None
  BY UuidsAssumption DEF Signable
<1>2. ~Receiptable(i.class) => i.operationId = None
  BY DEF Signable
<1>3. DOMAIN H = DOMAIN i.fields \cup Added
  BY DEF Headers
<1>4. "aria-operation" \notin DOMAIN i.fields
  BY DEF Signable, AriaFields
<1>5. "aria-credential" \in DOMAIN H /\ H["aria-credential"] = <<ref>>
  BY DEF Headers
<1>6. HasDigest(i.class) => "content-digest" \in DOMAIN H /\ H["content-digest"] = <<i.body>>
  BY DEF Headers
<1>7. Receiptable(i.class) => "aria-operation" \in DOMAIN H /\ H["aria-operation"] = <<i.operationId>>
  BY <1>1 DEF Headers
<1>8. ~Receiptable(i.class) => "aria-operation" \notin DOMAIN H
  BY <1>2, <1>3, <1>4
<1> HIDE DEF H
<1>9. \A n, x : H[n] = <<x>> => Len(H[n]) = 1 /\ H[n][1] = x
  OBVIOUS
<1>10. q.fields = H
  BY DEF H
<1>11. QED
  BY <1>5, <1>6, <1>7, <1>8, <1>9, <1>10 DEF Single, Value

\* The agent and the one descriptor that matches agree on an operation (Agreed).
Alike(d, i, q) ==
    /\ d.class = i.class
    /\ HasBody(d.class) => Single(q, "content-type") /\ MediaType(q) = d.mediaType
    /\ Distinct(q.query) /\ Names(q) \subseteq d.query
    /\ d.class = "retrieval" => LookupOf(q) \in Uuids
    /\ Present(d, q) = Semantic(i)

LEMMA FormPasses ==
  ASSUME NEW d, NEW q, NEW s, NEW i, NEW origin, NEW ref, NEW aud, NEW n, NEW holder, NEW k,
         Made(q, s, i, origin, ref, aud, n, holder, k), Signable(i), Alike(d, i, q)
  PROVE  FirstFailure(FormTests(d, q)) = "ok"
<1> DEFINE T == FormTests(d, q)
<1>1. /\ DOMAIN T = 1 .. 7
      /\ T[1].fails = (~HasBody(d.class) /\ q.body # Empty)
      /\ T[2].fails = (HasBody(d.class) /\ q.body = Empty)
      /\ T[3].fails = (HasBody(d.class) /\ ~(Single(q, "content-type") /\ MediaType(q) = d.mediaType))
      /\ T[4].fails = (~(Distinct(q.query) /\ Names(q) \subseteq d.query))
      /\ T[5].fails = (d.class = "retrieval" /\ LookupOf(q) \notin Uuids)
      /\ T[6].fails = (d.class = "retrieval" /\ "aria-operation" \in DOMAIN q.fields)
      /\ T[7].fails = (Receiptable(d.class) /\ ~(Single(q, "aria-operation") /\ Value(q, "aria-operation") \in Uuids))
  BY DEF FormTests
<1> HIDE DEF T
<1>2. q.body = i.body /\ (HasBody(i.class) <=> i.body # Empty) /\ d.class = i.class
  BY DEF Made, Signable, Alike
<1>3. ~T[1].fails /\ ~T[2].fails
  BY <1>1, <1>2
<1>4. ~T[3].fails /\ ~T[4].fails /\ ~T[5].fails
  BY <1>1 DEF Alike
<1>5. ~T[6].fails
  <2>1. d.class = "retrieval" => "aria-operation" \notin DOMAIN q.fields
    BY <1>2, HeadersAdded DEF Made, Receiptable
  <2>2. QED
    BY <1>1, <2>1
<1>6. ~T[7].fails
  <2>1. Receiptable(d.class) => Single(q, "aria-operation") /\ Value(q, "aria-operation") \in Uuids
    BY <1>2, HeadersAdded DEF Made, Signable
  <2>2. QED
    BY <1>1, <2>1
<1>7. \A m \in DOMAIN T : ~T[m].fails
  BY <1>1, <1>3, <1>4, <1>5, <1>6
<1>8. QED
  BY <1>7, AllPass DEF T

LEMMA CoverPasses ==
  ASSUME NEW d, DescriptorOK(d), d.semanticHeaders \cap Derived = {},
         NEW q, NEW s, NEW i, NEW origin, NEW ref, NEW aud, NEW n, NEW holder, NEW k \in Int, NEW t,
         Made(q, s, i, origin, ref, aud, n, holder, k), Signable(i), Alike(d, i, q), Current(s.params, t)
  PROVE  FirstFailure(CoverTests(d, q, s, t)) = "ok"
<1> DEFINE T == CoverTests(d, q, s, t)
<1>1. /\ DOMAIN T = 1 .. 6
      /\ T[1].fails = (Receiptable(d.class) /\ "aria-operation" \notin s.covered)
      /\ T[2].fails = (HasDigest(d.class) /\ "content-digest" \notin s.covered)
      /\ T[3].fails = (~(s.distinct /\ s.covered = Required(d, q)))
      /\ T[4].fails = (~s.params.profiled)
      /\ T[5].fails = (~Window(s.params, t))
      /\ T[6].fails = (HasDigest(d.class) /\ ~DigestFits(q))
  BY DEF CoverTests
<1> HIDE DEF T
<1>2. d.class = i.class /\ Present(d, q) = Semantic(i) /\ s.covered = Components(i.class) \cup Semantic(i)
  BY DEF Alike, Made, Covered
<1>3. ~T[1].fails /\ ~T[2].fails
  <2>1. Receiptable(d.class) => "aria-operation" \in s.covered
    BY <1>2, ComponentsOf
  <2>2. HasDigest(d.class) => "content-digest" \in s.covered
    BY <1>2, ComponentsOf
  <2>3. QED
    BY <1>1, <2>1, <2>2
<1>4. ~T[3].fails
  <2>1. s.covered = Required(d, q)
    BY <1>2 DEF Required
  <2>2. d.semanticHeaders \cap Components(i.class) = {}
    <3>1. d.semanticHeaders \cap (AriaFields \cup {"content-type"}) = {}
      BY DEF DescriptorOK
    <3>2. QED
      BY <3>1, ComponentsOf
  <2>3. Semantic(i) \subseteq d.semanticHeaders
    BY <1>2 DEF Present
  <2>4. Semantic(i) \cap Components(i.class) = {}
    BY <2>2, <2>3
  <2>5. s.distinct
    BY <2>4 DEF Made
  <2>6. QED
    BY <1>1, <2>1, <2>5
<1>5. ~T[4].fails /\ ~T[5].fails
  <2>1. s.params = Params(i, n, holder.keyid, k)
    BY DEF Made
  <2>2. s.params.created = k /\ s.params.expires = k + i.window
    BY <2>1 DEF Params
  <2>3. s.params.profiled
    BY <2>1 DEF Params
  <2>4. i.window \in 1 .. MaxWindow /\ MaxWindow \in Nat
    BY Parameters DEF Signable
  <2>5. s.params.expires > s.params.created /\ s.params.expires - s.params.created <= MaxWindow
    BY <2>2, <2>4
  <2>6. Window(s.params, t)
    BY <2>5 DEF Window
  <2>7. QED
    BY <1>1, <2>3, <2>6
<1>6. ~T[6].fails
  <2>1. HasDigest(d.class) => DigestFits(q)
    BY <1>2, HeadersAdded DEF Made, DigestFits
  <2>2. QED
    BY <1>1, <2>1
<1>7. \A m \in DOMAIN T : ~T[m].fails
  BY <1>1, <1>3, <1>4, <1>5, <1>6
<1>8. QED
  BY <1>7, AllPass DEF T

LEMMA ProofPasses ==
  ASSUME NEW q, NEW s, NEW i, NEW origin, NEW ref, NEW aud, NEW n, NEW holder, NEW k, NEW live,
         Made(q, s, i, origin, ref, aud, n, holder, k), Signable(i), Prepares(i, ref, aud), n \in live,
         ref.url \in DOMAIN Holders, Holders[ref.url] = holder, holder.digest = ref.digest, holder.acceptable
  PROVE  FirstFailure(ProofTests(q, s, origin, live)) = "ok"
<1> DEFINE T == ProofTests(q, s, origin, live)
           U == Unsigned(i, ref, aud)
<1>1. /\ DOMAIN T = 1 .. 3
      /\ T[1].fails = (s.params.nonce \notin live)
      /\ T[2].fails = (~Resolves(q, s))
      /\ T[3].fails = (Resolves(q, s) /\ ~Verifies(q, origin, s))
  BY DEF ProofTests
<1> HIDE DEF T
<1>2. s.params.nonce = n /\ s.params.keyid = holder.keyid
  BY DEF Made, Params
<1>3. Single(q, "aria-credential") /\ Value(q, "aria-credential") = ref
  BY HeadersAdded DEF Made
<1>4. Resolves(q, s)
  BY <1>2, <1>3 DEF Resolves
<1>5. U.method = q.method /\ U.path = q.path /\ U.query = q.query /\ U.fields = q.fields
  BY DEF Made, Unsigned
<1>6. \A name : Single(U, name) = Single(q, name) /\ Value(U, name) = Value(q, name)
  BY <1>5 DEF Single, Value
<1>7. s.covered = Covered(i)
  BY DEF Made
<1>8. Coverable(q, s.covered)
  BY <1>6, <1>7 DEF Prepares, Coverable
<1>9. SignatureBase(q, origin, s.covered, s.params) = SignatureBase(U, origin, Covered(i), s.params)
  BY <1>5, <1>6, <1>7 DEF SignatureBase
<1>10. Verifies(q, origin, s)
  BY <1>3, <1>8, <1>9 DEF Verifies, Made, Key
<1>11. ~T[1].fails /\ ~T[2].fails /\ ~T[3].fails
  BY <1>1, <1>2, <1>4, <1>10
<1>12. \A m \in DOMAIN T : ~T[m].fails
  BY <1>1, <1>11
<1>13. QED
  BY <1>12, AllPass DEF T

\* The tests of one request come to "ok", stage by stage, if the one descriptor it
\* matches is the one the agent went by.
LEMMA AuthenticatePasses ==
  ASSUME NEW ops, \A d \in ops : DescriptorOK(d) /\ d.semanticHeaders \cap Derived = {},
         NEW q, NEW s, NEW i, NEW origin, NEW ref, NEW aud, NEW n, NEW holder, NEW k \in Int, NEW t, NEW live,
         Made(q, s, i, origin, ref, aud, n, holder, k), Signable(i), Prepares(i, ref, aud), n \in live,
         ref.url \in DOMAIN Holders, Holders[ref.url] = holder, holder.digest = ref.digest, holder.acceptable,
         i.canonical, Cardinality(Matching(q, ops)) = 1, \A d \in Matching(q, ops) : Alike(d, i, q),
         Current(s.params, t)
  PROVE  Authenticate(q, origin, ops, t, live) = "ok"
<1> DEFINE d == Described(q, ops)
<1>1. Matching(q, ops) # {}
  <2>1. Cardinality(Matching(q, ops)) = 1
    OBVIOUS
  <2>2. ASSUME Matching(q, ops) = {} PROVE FALSE
    <3>1. Cardinality({}) = 1
      BY <2>1, <2>2, Zenon
    <3>2. QED
      BY <3>1, FS_EmptySet
  <2>3. QED
    BY <2>2
<1>2. d \in Matching(q, ops)
  BY <1>1 DEF Described
<1>3. d \in ops /\ DescriptorOK(d) /\ d.semanticHeaders \cap Derived = {} /\ Alike(d, i, q)
  BY <1>2 DEF Matching
<1> HIDE DEF d
<1>4. FirstFailure(FormTests(d, q)) = "ok"
  BY <1>3, FormPasses
<1>5. FirstFailure(CoverTests(d, q, s, t)) = "ok"
  BY <1>3, CoverPasses
<1>6. FirstFailure(ProofTests(q, s, origin, live)) = "ok"
  BY ProofPasses
<1>7. q.inputs[1] = s /\ OneSignature(q)
  <2>1. q.inputs = <<s>> /\ s.labelled
    BY DEF Made
  <2>2. Len(q.inputs) = 1 /\ q.inputs[1] = s
    BY <2>1
  <2>3. QED
    BY <2>1, <2>2 DEF OneSignature
<1>8. q.method \in Method /\ q.canonical
  <2>1. i.method \in Methods(i.class) /\ i.class \in RequestClass
    BY DEF Signable
  <2>2. i.method \in Method
    BY <2>1 DEF Methods, Method, RequestClass
  <2>3. QED
    BY <2>2 DEF Made
<1>9. QED
  BY <1>4, <1>5, <1>6, <1>7, <1>8 DEF Authenticate, Then, d

\* A request that left, and that the receiver describes as its client did, is accepted
\* while its challenge lives and its window is open, whatever became of the statement.
LEMMA SignedPasses ==
  ASSUME SigningInv, NEW a \in Clients, At(a, "signed"), Agreed(client[a].input, client[a].request),
         Holders[AgentOf[a]].acceptable, Signature(a).params.nonce \in Live(PinOf[a].did),
         Current(Signature(a).params, There)
  PROVE  Accepts(client[a].request, PinOf[a].did)
<1> DEFINE i == client[a].input
           q == client[a].request
           ref == Reference(a)
           holder == Holders[AgentOf[a]]
           aud == PinOf[a].did
           n == client[a].statement.challenge
           k == Signature(a).params.created
           s == SignatureOf(i, PinOf[a].origin, ref, aud, n, holder, k)
<1>1. Answered(a) /\ Signs(a)
  BY DEF SigningInv, At
<1>2. /\ Signable(i) /\ Prepares(i, ref, aud) /\ k \in Int
      /\ q = SignedRequest(i, PinOf[a].origin, ref, aud, n, holder, k)
  BY <1>1 DEF Signs
<1>3. Origin[aud] = PinOf[a].origin
  BY <1>1 DEF Answered
<1>4. ref.url = AgentOf[a] /\ ref.digest = holder.digest
  BY DEF Reference
<1>5. AgentOf[a] \in DOMAIN Holders
  BY PartiesAssumption DEF Agents
<1>6. \A d \in Operations : DescriptorOK(d) /\ d.semanticHeaders \cap Derived = {}
  BY PartiesAssumption
<1>7. i.canonical /\ Cardinality(Matching(q, Operations)) = 1 /\ \A d \in Matching(q, Operations) : Alike(d, i, q)
  BY DEF Agreed, Alike
<1>8. Signature(a) = q.inputs[1]
  BY DEF Signature
<1> HIDE DEF i, q, ref, holder, aud, n, k
<1>9. Made(q, s, i, PinOf[a].origin, ref, aud, n, holder, k) /\ q.inputs[1] = s
  BY <1>2, RequestIsMade, PreparedInput
<1>10. s.params.nonce = n
  BY <1>9 DEF Made, Params
<1> HIDE DEF s
<1>11. n \in Live(aud) /\ Current(s.params, There) /\ holder.acceptable
  BY <1>8, <1>9, <1>10 DEF aud, holder
<1>12. ref.url \in DOMAIN Holders /\ Holders[ref.url] = holder /\ holder.digest = ref.digest
  BY <1>4, <1>5 DEF holder
<1>13. Authenticate(q, PinOf[a].origin, Operations, There, Live(aud)) = "ok"
  BY <1>2, <1>6, <1>7, <1>9, <1>11, <1>12, AuthenticatePasses
<1>14. QED
  BY <1>3, <1>13 DEF Accepts, q, aud

\* What an agent signed is accepted by the receiver it is for, whatever the network did
\* before, for any operations the two describe alike.
THEOREM SignedIsAlwaysAccepted == Spec => []SignedIsAccepted
<1>1. SigningInv => SignedIsAccepted
  BY SignedPasses DEF SignedIsAccepted
<1>2. QED
  BY <1>1, SigningInvariantHolds, PTL

=============================================================================
