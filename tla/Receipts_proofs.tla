--------------------------- MODULE Receipts_proofs ---------------------------
(***************************************************************************)
(* Proofs about Receipts: a client accepts what its receiver signed and    *)
(* nothing else, whatever the network does, now and long after; what is    *)
(* reported with it is true; and a document passes only if the registry    *)
(* issued its content.  For any attempts, credentials, documents and lists.*)
(***************************************************************************)
EXTENDS Receipts, FiniteSetTheorems, WellFoundedInduction, TLAPS

-----------------------------------------------------------------------------
(* Verdicts *)

\* A nonempty set of naturals has a least element.
LEMMA LeastExists ==
  ASSUME NEW B, B \subseteq Nat, B # {}
  PROVE  (CHOOSE n \in B : \A m \in B : n <= m) \in B
<1>1. PICK n \in B : \A m \in B : <<m, n>> \notin OpToRel(<, Nat)
  BY NatLessThanWellFounded, WFMin
<1>2. ASSUME NEW m \in B PROVE n <= m
  <2>1. m \in Nat /\ n \in Nat
    OBVIOUS
  <2>2. OpToRel(<, Nat) = {ss \in Nat \X Nat : ss[1] < ss[2]}
    BY Zenon DEF OpToRel
  <2>3. <<m, n>> \notin {ss \in Nat \X Nat : ss[1] < ss[2]}
    BY <1>1, <2>2
  <2>4. QED
    BY <2>1, <2>3
<1>3. QED
  BY <1>2

\* Otherwise the verdict is the reason of a test that fails.
LEMMA FirstFails ==
  ASSUME NEW tests, DOMAIN tests \subseteq Nat
  PROVE  \/ FirstFailure(tests) = "ok" /\ \A n \in DOMAIN tests : ~tests[n].fails
         \/ \E n \in DOMAIN tests : tests[n].fails /\ FirstFailure(tests) = tests[n].reason
<1> DEFINE B == {n \in DOMAIN tests : tests[n].fails}
<1>1. CASE B = {}
  BY <1>1 DEF FirstFailure
<1>2. CASE B # {}
  <2>1. (CHOOSE n \in B : \A m \in B : n <= m) \in B
    BY <1>2, LeastExists
  <2>2. FirstFailure(tests) = tests[CHOOSE n \in B : \A m \in B : n <= m].reason
    BY <1>2 DEF FirstFailure
  <2>3. QED
    BY <2>1, <2>2
<1>3. QED
  BY <1>1, <1>2

\* Tests come to "ok" exactly if none fails.
LEMMA PassIff ==
  ASSUME NEW tests, DOMAIN tests \subseteq Nat, \A n \in DOMAIN tests : tests[n].reason # "ok"
  PROVE  FirstFailure(tests) = "ok" <=> \A n \in DOMAIN tests : ~tests[n].fails
<1>1. QED
  BY FirstFails DEF FirstFailure

\* Stages come to "ok" exactly if both do.
LEMMA ThenIff ==
  ASSUME NEW v, NEW w PROVE Then(v, w) = "ok" <=> v = "ok" /\ w = "ok"
  BY DEF Then

-----------------------------------------------------------------------------
(* Receipts *)

Outcomes == Refusals \cup Settlements

\* A record of the members of a receipt, whatever its proof.
Plain(r) ==
    r = [type |-> r.type, id |-> r.id, request |-> r.request, receiver |-> r.receiver, issuedAt |-> r.issuedAt,
         outcome |-> r.outcome, proof |-> r.proof]

Same(r, s) ==
    /\ r.type = s.type /\ r.id = s.id /\ r.request = s.request /\ r.receiver = s.receiver
    /\ r.issuedAt = s.issuedAt /\ r.outcome = s.outcome

LEMMA ProofSet ==
  ASSUME NEW r, NEW p, Plain(r)
  PROVE  LET s == [r EXCEPT !.proof = p] IN Plain(s) /\ Same(s, r) /\ s.proof = p
  BY DEF Plain, Same

\* A signature is over the receipt without it.
LEMMA ProvedReceipt ==
  ASSUME NEW r, NEW holder, Plain(r)
  PROVE  LET s == Proved(r, holder)
         IN  /\ Shaped(s) /\ Same(s, r)
             /\ s.proof.alg = "ed25519" /\ s.proof.keyid = holder.id
             /\ s.proof.value = SignatureBy(holder.key, s)
<1> DEFINE u == [r EXCEPT !.proof = Proof(holder, None)]
           p == Proof(holder, SignatureBy(holder.key, u))
           s == [r EXCEPT !.proof = p]
<1>1. Plain(u) /\ Same(u, r) /\ u.proof = Proof(holder, None)
  BY ProofSet
<1>2. Plain(s) /\ Same(s, r) /\ s.proof = p
  BY ProofSet
<1>3. /\ p.alg = "ed25519" /\ p.keyid = holder.id /\ p.value = SignatureBy(holder.key, u)
      /\ p = [alg |-> p.alg, keyid |-> p.keyid, value |-> p.value]
  BY DEF Proof
<1>4. u.proof.alg = "ed25519" /\ u.proof.keyid = holder.id
  BY <1>1 DEF Proof
<1>5. s = Proved(r, holder)
  BY Zenon DEF Proved
<1> HIDE DEF u, s, p
<1>6. SignatureBy(holder.key, u) = SignatureBy(holder.key, s)
  BY <1>1, <1>2, <1>3, <1>4 DEF SignatureBy, Payload, Plain, Same
<1>7. Shaped(s)
  BY <1>2, <1>3 DEF Shaped, Plain
<1>8. QED
  BY <1>2, <1>3, <1>5, <1>6, <1>7

\* A receipt says for whom it was signed, about what, and when.
LEMMA ReceiptFields ==
  ASSUME NEW id, NEW a, NEW k, NEW t, NEW o, NEW r, r = Receipt(id, a, k, t, o)
  PROVE  /\ Shaped(r)
         /\ r.type = RECEIPT_TYPE /\ r.id = id /\ r.issuedAt = t /\ r.outcome = o
         /\ r.request = Request(a)
         /\ r.receiver = Party(k)
         /\ r.proof.alg = "ed25519" /\ r.proof.keyid = SignerOf[k].id
         /\ r.proof.value = SignatureBy(SignerOf[k].key, r)
<1> DEFINE u == [type |-> RECEIPT_TYPE, id |-> id,
                 request |-> Request(a), receiver |-> Party(k), issuedAt |-> t, outcome |-> o, proof |-> None]
<1>1. /\ Plain(u) /\ u.type = RECEIPT_TYPE /\ u.id = id /\ u.issuedAt = t /\ u.outcome = o /\ u.receiver = Party(k)
      /\ u.request = Request(a)
  BY DEF Plain
<1>2. r = Proved(u, SignerOf[k])
  BY DEF Receipt
<1> HIDE DEF u
<1>3. /\ Shaped(r) /\ Same(r, u)
      /\ r.proof.alg = "ed25519" /\ r.proof.keyid = SignerOf[k].id
      /\ r.proof.value = SignatureBy(SignerOf[k].key, r)
  BY <1>1, <1>2, ProvedReceipt
<1>4. QED
  BY <1>1, <1>3 DEF Same

\* Receipts with the same payload and the same value are the same.
LEMMA SamePayload ==
  ASSUME NEW r, NEW s, Shaped(r), Shaped(s), Payload(r) = Payload(s), r.proof.value = s.proof.value
  PROVE  r = s
<1>1. Same(r, s) /\ r.proof.alg = s.proof.alg /\ r.proof.keyid = s.proof.keyid
  <2>1. /\ Same(Payload(r), r) /\ Payload(r).proof.alg = r.proof.alg /\ Payload(r).proof.keyid = r.proof.keyid
        /\ Same(Payload(s), s) /\ Payload(s).proof.alg = s.proof.alg /\ Payload(s).proof.keyid = s.proof.keyid
    BY DEF Shaped, Payload, Same
  <2>2. QED
    BY <2>1 DEF Same
<1>2. QED
  BY <1>1 DEF Shaped, Same

-----------------------------------------------------------------------------
(* The client's verdicts *)

Reads(x) == Legible(x) /\ x.receipt.type = RECEIPT_TYPE /\ WellFormed(x.receipt)

FitsKey(r, key) ==
    /\ r.receiver = [did |-> key.did, credential |-> key.credentialId] /\ r.proof.keyid = key.holderKeyId
    /\ r.proof.value = SignatureBy(key.holderKey, r)

FitsMode(o, mode, status) ==
    /\ mode = "decision" => status = o.status
    /\ mode = "retrieval" => status \in {None, 200} /\ o.applies = "operation"

LEMMA ReadIff ==
  ASSUME NEW x PROVE FirstFailure(ReadTests(x)) = "ok" <=> Reads(x)
<1> DEFINE T == ReadTests(x)
<1>1. /\ DOMAIN T = 1 .. 3
      /\ T[1].fails = (~Legible(x))
      /\ T[2].fails = (x.receipt.type # RECEIPT_TYPE)
      /\ T[3].fails = (~WellFormed(x.receipt))
  BY DEF ReadTests
<1>2. \A n \in DOMAIN T : T[n].reason # "ok"
  BY DEF ReadTests
<1> HIDE DEF T
<1>3. FirstFailure(T) = "ok" <=> ~T[1].fails /\ ~T[2].fails /\ ~T[3].fails
  BY <1>1, <1>2, PassIff
<1>4. FirstFailure(T) = "ok" <=> Reads(x)
  BY <1>1, <1>3 DEF Reads
<1>5. QED
  BY <1>4 DEF T

LEMMA KeyIff ==
  ASSUME NEW r, NEW key PROVE FirstFailure(KeyTests(r, key)) = "ok" <=> FitsKey(r, key)
<1> DEFINE T == KeyTests(r, key)
<1>1. /\ DOMAIN T = 1 .. 2
      /\ T[1].fails = (r.receiver # [did |-> key.did, credential |-> key.credentialId] \/ r.proof.keyid # key.holderKeyId)
      /\ T[2].fails = (r.proof.value # SignatureBy(key.holderKey, r))
  BY DEF KeyTests
<1>2. \A n \in DOMAIN T : T[n].reason # "ok"
  BY DEF KeyTests
<1> HIDE DEF T
<1>3. FirstFailure(T) = "ok" <=> ~T[1].fails /\ ~T[2].fails
  BY <1>1, <1>2, PassIff
<1>4. FirstFailure(T) = "ok" <=> FitsKey(r, key)
  BY <1>1, <1>3 DEF FitsKey
<1>5. QED
  BY <1>4 DEF T

LEMMA BindingIff ==
  ASSUME NEW r, NEW attempts
  PROVE  FirstFailure(BindingTests(r, attempts)) = "ok" <=> Bound(r, attempts)
<1> DEFINE T == BindingTests(r, attempts)
<1>1. /\ DOMAIN T = 1 .. 2
      /\ T[1].fails = (attempts = {})
      /\ T[2].fails = (~Bound(r, attempts))
  BY DEF BindingTests
<1>2. \A n \in DOMAIN T : T[n].reason # "ok"
  BY DEF BindingTests
<1> HIDE DEF T
<1>3. FirstFailure(T) = "ok" <=> ~T[1].fails /\ ~T[2].fails
  BY <1>1, <1>2, PassIff
<1>4. Bound(r, attempts) => attempts # {}
  BY DEF Bound, Selected
<1>5. FirstFailure(T) = "ok" <=> Bound(r, attempts)
  BY <1>1, <1>3, <1>4
<1>6. QED
  BY <1>5 DEF T

LEMMA ModeIff ==
  ASSUME NEW o, NEW mode, NEW status
  PROVE  FirstFailure(ModeTests(o, mode, status)) = "ok" <=> FitsMode(o, mode, status)
<1> DEFINE T == ModeTests(o, mode, status)
<1>1. /\ DOMAIN T = 1 .. 3
      /\ T[1].fails = (mode = "decision" /\ status # o.status)
      /\ T[2].fails = (mode = "retrieval" /\ status # None /\ status # 200)
      /\ T[3].fails = (mode = "retrieval" /\ o.applies # "operation")
  BY DEF ModeTests
<1>2. \A n \in DOMAIN T : T[n].reason # "ok"
  BY DEF ModeTests
<1> HIDE DEF T
<1>3. FirstFailure(T) = "ok" <=> ~T[1].fails /\ ~T[2].fails /\ ~T[3].fails
  BY <1>1, <1>2, PassIff
<1>4. FirstFailure(T) = "ok" <=> FitsMode(o, mode, status)
  BY <1>1, <1>3 DEF FitsMode
<1>5. QED
  BY <1>4 DEF T

\* A receipt is accepted exactly if it reads, comes from the instance, is bound to an
\* attempt and fits the way it came.
LEMMA CheckIff ==
  ASSUME NEW x, NEW key, NEW attempts, NEW mode, NEW status
  PROVE  CheckReceipt(x, key, attempts, mode, status) = "ok" <=>
            /\ Reads(x) /\ FitsKey(x.receipt, key) /\ Bound(x.receipt, attempts)
            /\ FitsMode(x.receipt.outcome, mode, status)
  BY ThenIff, ReadIff, KeyIff, BindingIff, ModeIff DEF CheckReceipt

-----------------------------------------------------------------------------
(* The inductive invariant *)

IInv == TypeOK /\ SignedInv /\ ListsInv

\* Initially nothing is signed and no list is.
LEMMA InitInv == Init => IInv
  BY InstancesAssumption, FS_EmptySet DEF Init, IInv, TypeOK, SignedInv, ListsInv, Operations

\* Refusals are of attempts, and settlements, which are not, of operations.
LEMMA OutcomeKinds ==
  /\ \A o \in Refusals : o.applies = "attempt"
  /\ \A o \in Settlements : o.applies = "operation" /\ o.state \in {"accepted"} \cup Final
  BY DEF Refusals, Settlements, Final

LEMMA NewReceiptGenuine ==
  ASSUME IInv, NEW a \in Attempts, NEW o \in Outcomes, kept[a] # None, SignReceipt(a, o)
  PROVE  LET r == NewReceipt(a, o)
         IN  Genuine(r) /\ WellFormed(r) /\ r.request.digest = a /\ r.request.id = OperationOf[a] /\ r.outcome = o
<1> DEFINE id == ReceiptIds[Cardinality(signed) + 1]
           r == NewReceipt(a, o)
<1>1. now \in 0 .. MaxNow /\ self \in Instances /\ MaxNow \in Nat /\ IsFiniteSet(signed)
  BY InstancesAssumption DEF IInv, TypeOK
<1>2. id \in Ids
  <2>1. Cardinality(signed) \in Nat /\ Len(ReceiptIds) \in Nat /\ DOMAIN ReceiptIds = 1 .. Len(ReceiptIds)
    BY <1>1, FS_CardinalityType, InstancesAssumption
  <2>2. Cardinality(signed) + 1 \in DOMAIN ReceiptIds
    BY <2>1 DEF SignReceipt
  <2>3. QED
    BY <2>2 DEF Ids
<1>3. r = Receipt(id, a, self, now, o)
  BY DEF NewReceipt
<1>4. /\ r.id = id /\ r.issuedAt = now /\ r.outcome = o
      /\ r.request.digest = a /\ r.request.id = OperationOf[a] /\ r.receiver.credential = self
  <2> HIDE DEF id, r
  <2>1. /\ r.id = id /\ r.issuedAt = now /\ r.outcome = o
        /\ r.request = Request(a) /\ r.receiver = Party(self)
    BY <1>3, ReceiptFields
  <2>2. QED
    BY <2>1 DEF Party, Request
<1>5. WellFormed(r)
  BY DEF SignReceipt
<1> HIDE DEF id, r
<1>6. now \in 0 .. now
  BY <1>1
<1>7. r = Receipt(r.id, r.request.digest, r.receiver.credential, r.issuedAt, r.outcome)
  BY <1>3, <1>4
<1>8. Genuine(r)
  BY <1>1, <1>2, <1>4, <1>6, <1>7 DEF Genuine, Outcomes
<1>9. QED
  BY <1>4, <1>5, <1>8 DEF r

LEMMA GenuineFields ==
  ASSUME NEW r, Genuine(r)
  PROVE  LET a == r.request.digest
             k == r.receiver.credential
         IN  /\ Shaped(r) /\ r.type = RECEIPT_TYPE /\ r.request = Request(a) /\ r.receiver = Party(k)
             /\ r.proof.keyid = SignerOf[k].id /\ r.proof.value = SignatureBy(SignerOf[k].key, r)
             /\ r.request.id = OperationOf[a] /\ r.request.sender = SenderOf[a] /\ r.request.id \in Operations
<1> DEFINE a == r.request.digest
           k == r.receiver.credential
<1> HIDE DEF a, k
<1>1. r = Receipt(r.id, a, k, r.issuedAt, r.outcome) /\ a \in Attempts
  BY DEF Genuine, a, k
<1>2. /\ Shaped(r) /\ r.type = RECEIPT_TYPE /\ r.request = Request(a) /\ r.receiver = Party(k)
      /\ r.proof.keyid = SignerOf[k].id /\ r.proof.value = SignatureBy(SignerOf[k].key, r)
  BY <1>1, ReceiptFields
<1>3. r.request.id = OperationOf[a] /\ r.request.sender = SenderOf[a] /\ r.request.id \in Operations
  BY <1>1, <1>2 DEF Request, Operations
<1> QED
  BY <1>2, <1>3 DEF a, k

\* A receipt more, of this attempt: what was signed stays so.
LEMMA SignedGrows ==
  ASSUME IInv, NEW a \in Attempts, NEW o \in Outcomes, kept[a] # None, SignReceipt(a, o),
         UNCHANGED <<now, self, kept, revoked, lists>>
  PROVE  /\ IsFiniteSet(signed') /\ \A r \in signed' : WellFormed(r) /\ Genuine(r)'
         /\ \A r \in signed' : r \notin signed => r.request.id = OperationOf[a] /\ r.outcome = o
<1>1. signed' = signed \cup {NewReceipt(a, o)}
  BY DEF SignReceipt
<1>2. LET r == NewReceipt(a, o) IN Genuine(r) /\ WellFormed(r) /\ r.request.id = OperationOf[a] /\ r.outcome = o
  BY NewReceiptGenuine
<1>3. IsFiniteSet(signed')
  BY <1>1, FS_AddElement DEF IInv, TypeOK
<1>4. \A r : Genuine(r) => Genuine(r)'
  BY DEF Genuine
<1>5. \A r \in signed' : r \in signed \/ r = NewReceipt(a, o)
  BY <1>1
<1>6. \A r \in signed : WellFormed(r) /\ Genuine(r)
  BY DEF IInv, TypeOK, SignedInv
<1> QED
  BY <1>2, <1>3, <1>4, <1>5, <1>6

LEMMA RefusalInv ==
  ASSUME IInv, NEW a \in Attempts, NEW o \in Refusals, BuildAttemptRefusal(a, o)
  PROVE  IInv'
<1> USE DEF BuildAttemptRefusal
<1>1. o \in Outcomes /\ o.applies # "operation"
  BY OutcomeKinds DEF Outcomes
<1>2. /\ IsFiniteSet(signed') /\ \A r \in signed' : WellFormed(r) /\ Genuine(r)'
      /\ \A r \in signed' : r \notin signed => r.outcome = o
  BY <1>1, SignedGrows
<1>3. TypeOK'
  BY <1>2 DEF IInv, TypeOK, Operations
<1>4. SignedInv'
  BY <1>1, <1>2 DEF IInv, SignedInv
<1>5. ListsInv'
  BY DEF IInv, ListsInv, States
<1> QED
  BY <1>3, <1>4, <1>5 DEF IInv

\* After a settlement the record is as every outcome signed before lets it be.
LEMMA SettleInv ==
  ASSUME IInv, NEW a \in Attempts, NEW o \in Settlements, Settle(a, o)
  PROVE  IInv'
<1> USE DEF Settle
<1>1. o \in Outcomes /\ o.state \in {"accepted"} \cup Final
  BY OutcomeKinds DEF Outcomes
<1>2. /\ IsFiniteSet(signed') /\ \A r \in signed' : WellFormed(r) /\ Genuine(r)'
      /\ \A r \in signed' : r \notin signed => r.request.id = OperationOf[a] /\ r.outcome = o
  BY <1>1, SignedGrows
<1>3. OperationOf[a] \in Operations /\ outcome \in [Operations -> {"none", "accepted"} \cup Final]
  BY DEF Operations, IInv, TypeOK
<1>4. outcome'[OperationOf[a]] = o.state /\ \A op \in Operations : op # OperationOf[a] => outcome'[op] = outcome[op]
  BY <1>3
<1>5. TypeOK'
  BY <1>1, <1>2, <1>3 DEF IInv, TypeOK
<1>6. ASSUME NEW r \in signed', r.outcome.applies = "operation"
      PROVE  outcome'[r.request.id] \in After(r.outcome)
  <2>1. CASE r \notin signed
    BY <1>2, <1>4, <2>1 DEF After
  <2>2. CASE r \in signed
    <3>1. outcome[r.request.id] \in After(r.outcome)
      BY <1>6, <2>2 DEF IInv, SignedInv
    <3>2. CASE r.request.id = OperationOf[a]
      <4>1. r.outcome.state = "accepted"
        <5>1. r.outcome \in Outcomes
          BY <2>2 DEF IInv, SignedInv, Genuine, Outcomes
        <5>2. r.outcome.state \in {"accepted"} \cup Final
          BY <1>6, <5>1, OutcomeKinds DEF Outcomes
        <5>3. QED
          BY <3>1, <3>2, <5>2 DEF After
      <4>2. QED
        BY <1>1, <1>4, <3>1, <3>2, <4>1 DEF After
    <3>3. CASE r.request.id # OperationOf[a]
      <4>1. r.request.id \in Operations
        BY <2>2, GenuineFields DEF IInv, SignedInv
      <4>2. QED
        BY <1>4, <3>1, <3>3, <4>1
    <3>4. QED
      BY <3>2, <3>3
  <2>3. QED
    BY <2>1, <2>2
<1>7. SignedInv'
  BY <1>2, <1>6 DEF SignedInv
<1>8. ListsInv'
  BY DEF IInv, ListsInv, States
<1> QED
  BY <1>5, <1>7, <1>8 DEF IInv

LEMMA RecordInv ==
  ASSUME IInv, NEW a \in Attempts, Record(a)
  PROVE  IInv'
<1> USE DEF Record
<1>1. TypeOK'
  <2>1. self \in Instances /\ kept = [b \in Attempts |-> kept[b]]
    BY DEF IInv, TypeOK
  <2>2. kept' = [b \in Attempts |-> kept'[b]] /\ kept'[a] = Attempt(a, self)
    BY <2>1
  <2>3. \A b \in Attempts : b # a => kept'[b] = kept[b]
    BY <2>1
  <2>4. \A b \in Attempts : kept'[b] = None \/ \E k \in Instances : kept'[b] = Attempt(b, k)
    BY <2>1, <2>2, <2>3 DEF IInv, TypeOK
  <2>5. QED
    BY <2>2, <2>4 DEF IInv, TypeOK
<1>2. SignedInv'
  <2>1. \A r \in signed : kept'[r.request.digest] # None
    BY DEF IInv, TypeOK, SignedInv, Genuine
  <2>2. QED
    BY <2>1 DEF IInv, SignedInv, Genuine
<1>3. ListsInv'
  BY DEF IInv, ListsInv, States
<1> QED
  BY <1>1, <1>2, <1>3 DEF IInv

LEMMA RenewInv ==
  ASSUME IInv, NEW k \in Instances, Renew(k)
  PROVE  IInv'
  BY DEF Renew, IInv, TypeOK, SignedInv, Genuine, ListsInv, States

\* Who is revoked now was not before, in any list signed until now.
LEMMA RevokeInv ==
  ASSUME IInv, NEW k \in Revocable, Revoke(k)
  PROVE  IInv'
<1> USE DEF Revoke
<1>1. k \in Instances /\ now \in 0 .. MaxNow /\ MaxNow \in Nat /\ revoked \in [Instances -> (0 .. now) \cup {None}]
  BY InstancesAssumption DEF IInv, TypeOK
<1>2. revoked'[k] = now /\ \A i \in Instances : i # k => revoked'[i] = revoked[i]
  BY <1>1
<1>3. TypeOK'
  BY <1>1 DEF IInv, TypeOK
<1>4. SignedInv'
  BY DEF IInv, SignedInv, Genuine
<1>5. ASSUME NEW t \in 0 .. now, NEW state \in [Instances -> BOOLEAN], States(state, t)
      PROVE  States(state, t)'
  BY <1>1, <1>2, <1>5 DEF States
<1>6. ListsInv'
  BY <1>5 DEF IInv, ListsInv
<1> QED
  BY <1>3, <1>4, <1>6 DEF IInv

LEMMA SignListInv ==
  ASSUME IInv, NEW url \in ListUrls, NEW length \in Lengths, SignList(url, length)
  PROVE  IInv'
<1> USE DEF SignList
<1>1. now \in 0 .. MaxNow /\ MaxNow \in Nat /\ revoked \in [Instances -> (0 .. now) \cup {None}]
  BY InstancesAssumption DEF IInv, TypeOK
<1>2. Revoked \in [Instances -> BOOLEAN] /\ now \in 0 .. now
  BY <1>1 DEF Revoked
<1>3. States(Revoked, now)
  <2>1. \A k \in Instances : Revoked[k] = (revoked[k] # None)
    BY DEF Revoked
  <2>2. \A k \in Instances : revoked[k] # None => revoked[k] <= now
    BY <1>1
  <2>3. QED
    BY <2>1, <2>2 DEF States
<1>4. ListsInv'
  BY <1>2, <1>3 DEF IInv, ListsInv, States
<1>5. TypeOK' /\ SignedInv'
  BY DEF IInv, TypeOK, SignedInv, Genuine
<1> QED
  BY <1>4, <1>5 DEF IInv

LEMMA TickInv ==
  ASSUME IInv, Tick
  PROVE  IInv'
<1> USE DEF Tick
<1>1. now \in 0 .. MaxNow /\ MaxNow \in Nat /\ now' \in 0 .. MaxNow /\ 0 .. now \subseteq 0 .. now'
  BY InstancesAssumption DEF IInv, TypeOK
<1>2. TypeOK'
  BY <1>1 DEF IInv, TypeOK
<1>3. SignedInv' /\ ListsInv'
  BY <1>1 DEF IInv, SignedInv, Genuine, ListsInv, States
<1> QED
  BY <1>2, <1>3 DEF IInv

LEMMA NextInv == IInv /\ [Next]_vars => IInv'
<1> SUFFICES ASSUME IInv, [Next]_vars PROVE IInv'
  OBVIOUS
<1>1. CASE \E a \in Attempts : Record(a)
  BY <1>1, RecordInv
<1>2. CASE \E a \in Attempts, o \in Refusals : BuildAttemptRefusal(a, o)
  BY <1>2, RefusalInv
<1>3. CASE \E a \in Attempts, o \in Settlements : Settle(a, o)
  BY <1>3, SettleInv
<1>4. CASE \E k \in Instances : Renew(k)
  BY <1>4, RenewInv
<1>5. CASE \E k \in Revocable : Revoke(k)
  BY <1>5, RevokeInv
<1>6. CASE \E url \in ListUrls, length \in Lengths : SignList(url, length)
  BY <1>6, SignListInv
<1>7. CASE Tick
  BY <1>7, TickInv
<1>8. CASE UNCHANGED vars
  BY <1>8 DEF vars, IInv, TypeOK, SignedInv, Genuine, ListsInv, States
<1> QED
  BY <1>1, <1>2, <1>3, <1>4, <1>5, <1>6, <1>7, <1>8 DEF Next

LEMMA IInvHolds == Spec => []IInv
  BY InitInv, NextInv, PTL DEF Spec

-----------------------------------------------------------------------------
(* What is accepted was signed *)

\* The instance as its own document tells it.
LEMMA KeyOfInstance ==
  ASSUME NEW k \in Instances
  PROVE  LET key == Facts(Snapshot(Document[k]))
         IN  /\ key.did = ReceiverDid /\ key.credentialId = k
             /\ key.holderKeyId = SignerOf[k].id /\ key.holderKey = SignerOf[k].key
  BY InstancesAssumption DEF Facts, Snapshot

\* A receipt that fits an instance's key has its signature from one that was signed,
\* and so is that one.
LEMMA FittingIsSigned ==
  ASSUME IInv, NEW x \in Wire, NEW k \in Instances, NEW key, key.holderKey = SignerOf[k].key,
         Reads(x), FitsKey(x.receipt, key)
  PROVE  x.receipt \in signed
<1> DEFINE r == x.receipt
<1>1. PICK s \in signed : x \in AlteredOf(s)
  BY DEF Wire
<1>2. Genuine(s)
  BY DEF IInv, SignedInv
<1>3. Shaped(r)
  <2>1. s = Receipt(s.id, s.request.digest, s.receiver.credential, s.issuedAt, s.outcome) /\ s.issuedAt \in 0 .. MaxNow
    BY <1>2, InstancesAssumption DEF Genuine, IInv, TypeOK
  <2>2. x.legible
    BY DEF Reads, Legible
  <2>3. QED
    BY <1>1, <1>2, <2>1, <2>2, NetworkAssumption DEF Genuine
<1>4. r.proof.value = SignatureBy(SignerOf[k].key, r)
  BY DEF FitsKey
<1>5. r.proof.value.key \in {SignerOf[i].key : i \in Instances}
  BY <1>4 DEF SignatureBy
<1>6. PICK t \in signed : r.proof.value = t.proof.value
  BY <1>5 DEF Wire
<1>7. Shaped(t) /\ t.proof.value = SignatureBy(SignerOf[t.receiver.credential].key, t)
  BY GenuineFields DEF IInv, SignedInv
<1>8. Payload(r) = Payload(t)
  BY <1>4, <1>6, <1>7 DEF SignatureBy
<1>9. r = t
  BY <1>3, <1>6, <1>7, <1>8, SamePayload
<1> QED
  BY <1>9

\* The attempts that were sent are those kept, each under its digest.
LEMMA SentAttempt ==
  ASSUME IInv, NEW c \in Sent
  PROVE  /\ c.requestDigest \in Attempts /\ kept[c.requestDigest] = c /\ c # None
         /\ c.operationId = OperationOf[c.requestDigest] /\ c.sender = SenderOf[c.requestDigest]
         /\ c.receiver.credential \in Instances
<1>1. PICK a \in Attempts : c = kept[a] /\ kept[a] # None
  BY DEF Sent
<1>2. PICK k \in Instances : c = Attempt(a, k)
  BY <1>1 DEF IInv, TypeOK
<1>3. /\ c.requestDigest = a /\ c.operationId = OperationOf[a] /\ c.sender = SenderOf[a]
      /\ c.receiver.credential = k
  BY <1>2 DEF Attempt, Party
<1> QED
  BY <1>1, <1>3

\* What is bound is bound to the attempt kept under its digest.
LEMMA BoundToKept ==
  ASSUME IInv, NEW r, Bound(r, Sent)
  PROVE  LET a == kept[r.request.digest]
         IN  a \in Sent /\ a # None /\ a.receiver = r.receiver /\ a.sender = r.request.sender
  BY SentAttempt DEF Bound, Selected

LEMMA AcceptedHolds == IInv => AcceptedIsSigned
<1> SUFFICES ASSUME IInv, NEW x \in Wire, NEW m \in Answers, VerifyReceipt(x, m[1], m[2]) = "ok"
             PROVE  LET r == x.receipt
                        a == kept[r.request.digest]
                    IN  /\ r \in signed
                        /\ a # None /\ a.receiver = r.receiver /\ a.sender = r.request.sender
                        /\ m[1] = "decision" => m[2] = r.outcome.status
                        /\ m[1] = "retrieval" => outcome[r.request.id] \in After(r.outcome)
  BY DEF AcceptedIsSigned
<1> DEFINE r == x.receipt
           k == NamedReceiver(x)
           key == Facts(Snapshot(Document[k]))
<1>1. Identified(k) /\ CheckReceipt(x, key, Sent, m[1], m[2]) = "ok"
  BY DEF VerifyReceipt
<1>2. Reads(x) /\ FitsKey(r, key) /\ Bound(r, Sent) /\ FitsMode(r.outcome, m[1], m[2])
  BY <1>1, CheckIff
<1>3. k \in Instances
  BY <1>1, SentAttempt DEF Identified
<1>4. key.holderKey = SignerOf[k].key
  BY <1>3, KeyOfInstance
<1> HIDE DEF key, k
<1>5. r \in signed
  BY <1>2, <1>3, <1>4, FittingIsSigned
<1>6. kept[r.request.digest] # None /\ kept[r.request.digest].receiver = r.receiver /\ kept[r.request.digest].sender = r.request.sender
  BY <1>2, BoundToKept
<1>7. m[1] = "decision" => m[2] = r.outcome.status
  BY <1>2 DEF FitsMode
<1>8. m[1] = "retrieval" => outcome[r.request.id] \in After(r.outcome)
  BY <1>2, <1>5 DEF FitsMode, IInv, SignedInv
<1> QED
  BY <1>5, <1>6, <1>7, <1>8

\* The state has its types, every receipt that was signed is genuine, every list says who
\* was revoked, and a client accepts nothing but what its receiver signed, for its own
\* attempt and with that same credential: for any network that has no key of a receiver.
THEOREM ReceiptsInvariantHolds == Spec => []ReceiptsInv
<1>1. IInv => ReceiptsInv
  BY AcceptedHolds DEF IInv, ReceiptsInv
<1> QED
  BY <1>1, IInvHolds, PTL

-----------------------------------------------------------------------------
(* What was signed is accepted *)

\* What a receiver signed, for an attempt that was made for that same credential, fits
\* the instance and is bound.
LEMMA SignedFits ==
  ASSUME IInv, NEW r \in signed, kept[r.request.digest].receiver = r.receiver,
         NEW x, Legible(x), x.receipt = r
  PROVE  LET k == r.receiver.credential
         IN  /\ k \in Instances /\ Identified(k) /\ Reads(x)
             /\ FitsKey(r, Facts(Snapshot(Document[k]))) /\ Bound(r, Sent)
<1> DEFINE a == r.request.digest
           k == r.receiver.credential
           key == Facts(Snapshot(Document[k]))
<1>1. Genuine(r) /\ WellFormed(r)
  BY DEF IInv, TypeOK, SignedInv
<1>2. k \in Instances /\ a \in Attempts /\ kept[a] # None
  BY <1>1 DEF Genuine
<1>3. /\ r.type = RECEIPT_TYPE /\ r.receiver = Party(k)
      /\ r.proof.keyid = SignerOf[k].id /\ r.proof.value = SignatureBy(SignerOf[k].key, r)
      /\ r.request.id = OperationOf[a] /\ r.request.sender = SenderOf[a]
  BY <1>1, GenuineFields
<1>4. kept[a] \in Sent
  BY <1>2 DEF Sent
<1>5. Identified(k)
  BY <1>4 DEF Identified
<1>6. /\ key.did = ReceiverDid /\ key.credentialId = k
      /\ key.holderKeyId = SignerOf[k].id /\ key.holderKey = SignerOf[k].key
  BY <1>2, KeyOfInstance
<1>7. Reads(x)
  BY <1>1, <1>3 DEF Reads
<1>8. PICK i \in Instances : kept[a] = Attempt(a, i)
  BY <1>2 DEF IInv, TypeOK
<1>9. Bound(r, Sent)
  <2>1. kept[a].requestDigest = a /\ kept[a].operationId = OperationOf[a] /\ kept[a].sender = SenderOf[a]
    BY <1>8 DEF Attempt
  <2>2. QED
    BY <1>3, <1>4, <2>1 DEF Bound, Selected
<1> HIDE DEF key
<1>10. FitsKey(r, key)
  BY <1>3, <1>6 DEF FitsKey, Party
<1> QED
  BY <1>2, <1>5, <1>7, <1>9, <1>10 DEF key

\* Whatever a receiver signs for an attempt, under the credential the attempt was signed
\* for, the client accepts, with its own status and in a retrieval of an outcome.
LEMMA SignedIsUsable == IInv => SignedIsAccepted
<1> SUFFICES ASSUME IInv, NEW r \in signed, kept[r.request.digest].receiver = r.receiver
             PROVE  Usable(r)
  BY DEF SignedIsAccepted
<1> DEFINE x == [legible |-> TRUE, receipt |-> r]
           k == r.receiver.credential
           key == Facts(Snapshot(Document[k]))
<1>1. Legible(x) /\ x.receipt = r
  BY DEF Legible
<1>2. NamedReceiver(x) = k
  BY <1>1 DEF NamedReceiver
<1> HIDE DEF x
<1>3. Identified(k) /\ Reads(x) /\ FitsKey(r, key) /\ Bound(r, Sent)
  BY <1>1, SignedFits
<1> HIDE DEF k, key
<1>4. ASSUME NEW mode, NEW status, FitsMode(r.outcome, mode, status)
      PROVE  VerifyReceipt(x, mode, status) = "ok"
  <2>1. CheckReceipt(x, key, Sent, mode, status) = "ok"
    BY <1>1, <1>3, <1>4, CheckIff
  <2>2. QED
    BY <1>2, <1>3, <2>1 DEF VerifyReceipt, key
<1>5. FitsMode(r.outcome, "decision", r.outcome.status)
  BY DEF FitsMode
<1>6. r.outcome.applies = "operation" => \A s \in {None, 200} : FitsMode(r.outcome, "retrieval", s)
  BY DEF FitsMode
<1>7. /\ VerifyReceipt(x, "decision", r.outcome.status) = "ok"
      /\ r.outcome.applies = "operation" => \A s \in {None, 200} : VerifyReceipt(x, "retrieval", s) = "ok"
  BY <1>4, <1>5, <1>6
<1> QED
  BY Zenon, <1>7 DEF Usable, x

\* No receipt that a receiver signs is refused by the client it is for: for any attempts,
\* credentials, reasons and outcomes, whatever is revoked or renewed meanwhile.
THEOREM SignedIsAlwaysAccepted == Spec => []SignedIsAccepted
  BY SignedIsUsable, IInvHolds, PTL

-----------------------------------------------------------------------------
(* Documents *)

LEMMA ShapeIff ==
  ASSUME NEW d
  PROVE  /\ FirstFailure(Shape(d)) = "ok" <=> OfSchema(d) /\ Trusted(d)
         /\ FirstFailure(Shape(d)) \in AuthenticityFailures \cup {"ok"}
<1> DEFINE T == Shape(d)
<1>1. /\ DOMAIN T = 1 .. 4
      /\ T[1].fails = (d.form \in {"unread", "no_subject"})
      /\ T[2].fails = (d.form = "other_version")
      /\ T[3].fails = (d.form = "off_schema")
      /\ T[4].fails = (~Trusted(d))
  BY DEF Shape
<1>2. \A n \in DOMAIN T : T[n].reason # "ok" /\ T[n].reason \in AuthenticityFailures
  BY DEF Shape, AuthenticityFailures, CredentialFailures
<1> HIDE DEF T
<1>3. FirstFailure(T) = "ok" <=> ~T[1].fails /\ ~T[2].fails /\ ~T[3].fails /\ ~T[4].fails
  BY <1>1, <1>2, PassIff
<1>4. FirstFailure(T) = "ok" <=> OfSchema(d) /\ Trusted(d)
  BY <1>1, <1>3 DEF OfSchema
<1>5. FirstFailure(T) \in AuthenticityFailures \cup {"ok"}
  BY <1>1, <1>2, FirstFails
<1> QED
  BY <1>4, <1>5 DEF T

Proven(d) ==
    /\ d.proof.profiled /\ d.proof.method = ProfileOf(d).method /\ d.proof.created # None
    /\ VerifyComposite(d, ProfileOf(d).keys) /\ d.validFrom # None /\ d.validUntil # None

LEMMA ProvenanceIff ==
  ASSUME NEW d
  PROVE  /\ FirstFailure(Provenance(d)) = "ok" <=> Proven(d)
         /\ FirstFailure(Provenance(d)) \in AuthenticityFailures \cup {"ok"}
<1> DEFINE T == Provenance(d)
           p == ProfileOf(d)
<1>1. /\ DOMAIN T = 1 .. 3
      /\ T[1].fails = (~(d.proof.profiled /\ d.proof.method = p.method /\ d.proof.created # None))
      /\ T[2].fails = (~VerifyComposite(d, p.keys))
      /\ T[3].fails = (d.validFrom = None \/ d.validUntil = None)
  BY DEF Provenance
<1>2. \A n \in DOMAIN T : T[n].reason # "ok" /\ T[n].reason \in AuthenticityFailures
  BY DEF Provenance, AuthenticityFailures, CredentialFailures
<1> HIDE DEF T
<1>3. FirstFailure(T) = "ok" <=> ~T[1].fails /\ ~T[2].fails /\ ~T[3].fails
  BY <1>1, <1>2, PassIff
<1>4. FirstFailure(T) = "ok" <=> Proven(d)
  BY <1>1, <1>3 DEF Proven
<1>5. FirstFailure(T) \in AuthenticityFailures \cup {"ok"}
  BY <1>1, <1>2, FirstFails
<1> QED
  BY <1>4, <1>5 DEF T

\* The time matters only when it is judged.
LEMMA ValidityIff ==
  ASSUME NEW d, NEW t, NEW judgeTime \in BOOLEAN
  PROVE  /\ FirstFailure(Validity(d, t, judgeTime)) = "ok" <=>
                /\ ~(d.validFrom >= d.validUntil)
                /\ judgeTime => ~(d.validFrom > t + ClockSkew) /\ ~(d.validUntil <= t)
         /\ FirstFailure(Validity(d, t, judgeTime)) \in CredentialFailures \cup {"ok"}
         /\ ~judgeTime => FirstFailure(Validity(d, t, judgeTime)) \in AuthenticityFailures \cup {"ok"}
<1> DEFINE T == Validity(d, t, judgeTime)
           ends == d.validFrom >= d.validUntil
           early == d.validFrom > t + ClockSkew
           late == d.validUntil <= t
<1>1. /\ DOMAIN T = 1 .. 3
      /\ T[1].fails = ends
      /\ T[2].fails = (judgeTime /\ early)
      /\ T[3].fails = (judgeTime /\ late)
  BY DEF Validity
<1>2. /\ \A n \in DOMAIN T : T[n].reason # "ok" /\ T[n].reason \in CredentialFailures
      /\ T[1].reason \in AuthenticityFailures
  BY DEF Validity, AuthenticityFailures, CredentialFailures
<1> HIDE DEF T, ends, early, late
<1>3. FirstFailure(T) = "ok" <=> ~T[1].fails /\ ~T[2].fails /\ ~T[3].fails
  BY <1>1, <1>2, PassIff
<1>4. FirstFailure(T) = "ok" <=> ~ends /\ (judgeTime => ~early /\ ~late)
  BY <1>1, <1>3
<1>5. FirstFailure(T) \in CredentialFailures \cup {"ok"}
  BY <1>1, <1>2, FirstFails
<1>6. ~judgeTime => FirstFailure(T) \in AuthenticityFailures \cup {"ok"}
  <2>1. ~judgeTime => ~T[2].fails /\ ~T[3].fails
    BY <1>1
  <2>2. \A n \in DOMAIN T : n = 1 \/ n = 2 \/ n = 3
    BY <1>1
  <2>3. QED
    BY <1>1, <1>2, <2>1, <2>2, FirstFails
<1> QED
  BY <1>4, <1>5, <1>6 DEF T, ends, early, late

LEMMA RulesReason ==
  ASSUME NEW d PROVE FirstFailure(Rules(d)) \in AuthenticityFailures \cup {"ok"}
<1> DEFINE T == Rules(d)
<1>1. DOMAIN T = 1 .. 5
  BY DEF Rules
<1>2. \A n \in DOMAIN T : T[n].reason \in AuthenticityFailures
  BY DEF Rules, AuthenticityFailures, CredentialFailures
<1> HIDE DEF T
<1>3. FirstFailure(T) \in AuthenticityFailures \cup {"ok"}
  BY <1>1, <1>2, FirstFails
<1> QED
  BY <1>3 DEF T

\* What makes a document authentic, and what makes it pass now.
LEMMA VerdictIff ==
  ASSUME NEW d, NEW t
  PROVE  /\ VerifyAuthenticity(d, t) = "ok" <=>
                /\ OfSchema(d) /\ Trusted(d) /\ Proven(d)
                /\ ~(d.validFrom >= d.validUntil) /\ FirstFailure(Rules(d)) = "ok"
         /\ VerifyCredential(d, t) = "ok" <=>
                VerifyAuthenticity(d, t) = "ok" /\ ~(d.validFrom > t + ClockSkew) /\ ~(d.validUntil <= t)
         /\ VerifyAuthenticity(d, t) \in AuthenticityFailures \cup {"ok"}
         /\ VerifyCredential(d, t) \in CredentialFailures \cup {"ok"}
<1>1. AuthenticityFailures \subseteq CredentialFailures
  BY DEF AuthenticityFailures
<1>2. \A j \in BOOLEAN :
        /\ Verdict(d, t, j) = "ok" <=>
              /\ OfSchema(d) /\ Trusted(d) /\ Proven(d)
              /\ FirstFailure(Validity(d, t, j)) = "ok" /\ FirstFailure(Rules(d)) = "ok"
        /\ Verdict(d, t, j) \in {FirstFailure(Shape(d)), FirstFailure(Provenance(d)), FirstFailure(Validity(d, t, j)), FirstFailure(Rules(d))}
  BY ShapeIff, ProvenanceIff DEF Verdict, Then
<1>3. QED
  BY <1>1, <1>2, ShapeIff, ProvenanceIff, ValidityIff, RulesReason DEF VerifyAuthenticity, VerifyCredential

\* Documents of the same content agree in all that is signed.
LEMMA SameDocument ==
  ASSUME NEW d, NEW g, DocumentShaped(d), DocumentShaped(g), Unproven(d) = Unproven(g)
  PROVE  /\ d.id = g.id /\ d.did = g.did /\ d.holder = g.holder /\ d.issuer = g.issuer
         /\ d.validFrom = g.validFrom /\ d.validUntil = g.validUntil /\ d.list = g.list /\ d.index = g.index
<1>1. /\ Unproven(d).id = d.id /\ Unproven(d).did = d.did /\ Unproven(d).holder = d.holder /\ Unproven(d).issuer = d.issuer
      /\ Unproven(d).validFrom = d.validFrom /\ Unproven(d).validUntil = d.validUntil
      /\ Unproven(d).list = d.list /\ Unproven(d).index = d.index
  BY DEF DocumentShaped, Unproven
<1>2. /\ Unproven(g).id = g.id /\ Unproven(g).did = g.did /\ Unproven(g).holder = g.holder /\ Unproven(g).issuer = g.issuer
      /\ Unproven(g).validFrom = g.validFrom /\ Unproven(g).validUntil = g.validUntil
      /\ Unproven(g).list = g.list /\ Unproven(g).index = g.index
  BY DEF DocumentShaped, Unproven
<1> QED
  BY <1>1, <1>2

LEMMA ProfileExists ==
  ASSUME NEW d, Trusted(d) PROVE ProfileOf(d) \in Profiles /\ ProfileOf(d).issuer = d.issuer
  BY DEF Trusted, ProfileOf

\* An authentic document is, in all that is signed, the one issued under its id.
LEMMA AuthenticIsIssued ==
  ASSUME NEW d \in Retained, NEW t, VerifyAuthenticity(d, t) = "ok"
  PROVE  /\ d.id \in Instances
         /\ LET g == Document[d.id]
            IN  /\ Unproven(d) = Unproven(g) /\ d.did = ReceiverDid /\ d.holder = SignerOf[d.id]
                /\ d.issuer = g.issuer /\ d.list = g.list /\ d.index = g.index
                /\ d.validFrom = g.validFrom /\ d.validUntil = g.validUntil
                /\ d.validFrom \in Int /\ d.validUntil \in Int
<1>1. OfSchema(d) /\ Trusted(d) /\ Proven(d)
  BY VerdictIff
<1>2. SignedWith(ProfileOf(d).keys, d) /\ d.proof.value.over = Unproven(d)
  BY <1>1 DEF Proven, VerifyComposite
<1>3. PICK k \in Instances : Unproven(d) = Unproven(Document[k])
  BY <1>1, <1>2, ProfileExists, DocumentsAssumption
<1>4. Document[k] \in Retained /\ OfSchema(Document[k])
  BY VerdictIff, InstancesAssumption, DocumentsAssumption
<1>5. DocumentShaped(d) /\ DocumentShaped(Document[k])
  BY <1>1, <1>4, DocumentsAssumption
<1>6. d.id = k
  BY <1>3, <1>5, SameDocument, InstancesAssumption
<1>7. Document[k].validFrom \in Int /\ Document[k].validUntil \in Int /\ Document[k].did = ReceiverDid /\ Document[k].holder = SignerOf[k]
  BY DocumentsAssumption, InstancesAssumption
<1> HIDE DEF OfSchema
<1> QED
  BY <1>3, <1>5, <1>6, <1>7, SameDocument

\* The documents the receivers have are authentic at any time.
LEMMA IssuedIsAuthentic ==
  ASSUME NEW k \in Instances, NEW t PROVE VerifyAuthenticity(Document[k], t) = "ok"
<1>1. VerifyAuthenticity(Document[k], 0) = "ok"
  BY DocumentsAssumption
<1> QED
  BY <1>1, VerdictIff

LEMMA VerifiedHolds == IInv => VerifiedIsIssued
<1> SUFFICES ASSUME IInv, NEW d \in Retained
             PROVE  LET authentic == VerifyAuthenticity(d, now)
                        verified == VerifyCredential(d, now)
                    IN  /\ authentic = "ok" => \E k \in Instances : Unproven(d) = Unproven(Document[k])
                        /\ verified = "ok" <=> authentic = "ok" /\ d.validFrom <= now + ClockSkew /\ now < d.validUntil
                        /\ authentic \in AuthenticityFailures \cup {"ok"} /\ verified \in CredentialFailures \cup {"ok"}
  BY DEF VerifiedIsIssued
<1>1. now \in Nat /\ ClockSkew \in Nat
  BY InstancesAssumption, BoundsAssumption DEF IInv, TypeOK
<1>2. VerifyAuthenticity(d, now) = "ok" =>
          d.id \in Instances /\ Unproven(d) = Unproven(Document[d.id]) /\ d.validFrom \in Int /\ d.validUntil \in Int
  BY AuthenticIsIssued
<1>3. VerifyAuthenticity(d, now) = "ok" =>
          (~(d.validFrom > now + ClockSkew) /\ ~(d.validUntil <= now) <=> d.validFrom <= now + ClockSkew /\ now < d.validUntil)
  BY <1>1, <1>2
<1> QED
  BY <1>2, <1>3, VerdictIff

\* A document passes only if the registry issued its content, and passes now exactly if it
\* is authentic and its time is now; otherwise one declared reason is given: for any
\* documents at all, so long as nobody else has both of a profile's keys.
THEOREM VerifiedIsAlwaysIssued == Spec => []VerifiedIsIssued
  BY VerifiedHolds, IInvHolds, PTL

-----------------------------------------------------------------------------
(* Long after *)

LEMMA HistoryIff ==
  ASSUME NEW x, NEW d
  PROVE  VerifyHistoricalReceipt(x, d) = "ok" <=>
            /\ Reads(x) /\ VerifyAuthenticity(d, now) = "ok" /\ d.id = x.receipt.receiver.credential
            /\ FitsKey(x.receipt, HistoricalFacts(Snapshot(d), None)) /\ Bound(x.receipt, Sent)
<1>1. FitsMode(x.receipt.outcome, "historical", None)
  BY DEF FitsMode
<1> QED
  BY <1>1, ThenIff, ReadIff, CheckIff DEF VerifyHistoricalReceipt

\* The key that a document tells, in retrospect.
LEMMA KeyOfDocument ==
  ASSUME NEW d
  PROVE  LET key == HistoricalFacts(Snapshot(d), None)
         IN  /\ key.did = d.did /\ key.credentialId = d.id /\ key.holderKeyId = d.holder.id /\ key.holderKey = d.holder.key
             /\ key.validFrom = d.validFrom /\ key.validUntil = d.validUntil
  BY DEF HistoricalFacts, Snapshot

\* Keys that agree in these members are fitted alike.
LEMMA SameKey ==
  ASSUME NEW r, NEW key, NEW other, FitsKey(r, key), key.did = other.did, key.credentialId = other.credentialId,
         key.holderKeyId = other.holderKeyId, key.holderKey = other.holderKey
  PROVE  FitsKey(r, other)
  BY DEF FitsKey

\* What is accepted long after was signed, for an attempt made for that credential.
LEMMA HistoryIsSigned ==
  ASSUME IInv, NEW x \in Wire, NEW d \in Retained, VerifyHistoricalReceipt(x, d) = "ok"
  PROVE  /\ x.receipt \in signed /\ kept[x.receipt.request.digest].receiver = x.receipt.receiver
         /\ d.id = x.receipt.receiver.credential /\ d.id \in Instances
<1> DEFINE key == HistoricalFacts(Snapshot(d), None)
<1>1. /\ Reads(x) /\ VerifyAuthenticity(d, now) = "ok" /\ d.id = x.receipt.receiver.credential
      /\ FitsKey(x.receipt, key) /\ Bound(x.receipt, Sent)
  BY HistoryIff
<1>2. d.id \in Instances /\ d.holder = SignerOf[d.id]
  BY <1>1, AuthenticIsIssued
<1>3. key.holderKey = SignerOf[d.id].key
  BY <1>2, KeyOfDocument
<1> HIDE DEF key
<1>4. x.receipt \in signed
  BY <1>1, <1>2, <1>3, FittingIsSigned
<1> QED
  BY <1>1, <1>2, <1>4, BoundToKept

LEMMA LiveThenLater ==
  ASSUME IInv, NEW x \in Wire, NEW m \in Answers, VerifyReceipt(x, m[1], m[2]) = "ok"
  PROVE  \E d \in Retained : VerifyHistoricalReceipt(x, d) = "ok"
<1> DEFINE k == NamedReceiver(x)
           d == Document[k]
           key == Facts(Snapshot(d))
           later == HistoricalFacts(Snapshot(d), None)
<1>1. Identified(k) /\ CheckReceipt(x, key, Sent, m[1], m[2]) = "ok"
  BY DEF VerifyReceipt
<1>2. Reads(x) /\ FitsKey(x.receipt, key) /\ Bound(x.receipt, Sent)
  BY <1>1, CheckIff
<1>3. k \in Instances
  BY <1>1, SentAttempt DEF Identified
<1>4. d \in Retained /\ d.id = k /\ d.did = ReceiverDid /\ d.holder = SignerOf[k] /\ VerifyAuthenticity(d, now) = "ok"
  BY <1>3, IssuedIsAuthentic, InstancesAssumption
<1>5. /\ key.did = ReceiverDid /\ key.credentialId = k /\ key.holderKeyId = SignerOf[k].id /\ key.holderKey = SignerOf[k].key
  BY <1>3, KeyOfInstance
<1>6. /\ later.did = ReceiverDid /\ later.credentialId = k
      /\ later.holderKeyId = SignerOf[k].id /\ later.holderKey = SignerOf[k].key
  BY <1>4, KeyOfDocument
<1>7. k = x.receipt.receiver.credential
  BY DEF NamedReceiver
<1> HIDE DEF key, later, d, k
<1>8. FitsKey(x.receipt, later)
  BY <1>2, <1>5, <1>6, SameKey
<1>9. VerifyHistoricalReceipt(x, d) = "ok"
  BY <1>2, <1>4, <1>7, <1>8, HistoryIff DEF later
<1> QED
  BY <1>4, <1>9

LEMMA LaterThenLive ==
  ASSUME IInv, NEW x \in Wire, NEW d \in Retained, VerifyHistoricalReceipt(x, d) = "ok"
  PROVE  AcceptedLive(x)
<1> DEFINE r == x.receipt
           k == r.receiver.credential
           key == Facts(Snapshot(Document[k]))
<1>1. r \in signed /\ kept[r.request.digest].receiver = r.receiver /\ Reads(x)
  BY HistoryIsSigned, HistoryIff
<1>2. Identified(k) /\ FitsKey(r, key) /\ Bound(r, Sent)
  BY <1>1, SignedFits DEF Reads
<1>3. k = NamedReceiver(x)
  BY DEF NamedReceiver
<1> HIDE DEF k, key
<1>4. ASSUME NEW m \in Answers, FitsMode(r.outcome, m[1], m[2])
      PROVE  VerifyReceipt(x, m[1], m[2]) = "ok"
  <2>1. CheckReceipt(x, key, Sent, m[1], m[2]) = "ok"
    BY <1>1, <1>2, <1>4, CheckIff
  <2>2. QED
    BY <1>2, <1>3, <2>1 DEF VerifyReceipt, key
<1>5. r.outcome \in Refusals \cup Settlements
  BY <1>1 DEF IInv, SignedInv, Genuine
<1>6. CASE r.outcome \in Refusals
  <2> DEFINE m == <<"decision", r.outcome.status>>
  <2>1. m \in Answers
    BY <1>6, StatusAssumption DEF Answers, Modes
  <2>2. FitsMode(r.outcome, m[1], m[2])
    BY DEF FitsMode
  <2>3. QED
    BY <1>4, <2>1, <2>2 DEF AcceptedLive
<1>7. CASE r.outcome \in Settlements
  <2> DEFINE m == <<"retrieval", None>>
  <2>1. m \in Answers
    BY DEF Answers, Modes
  <2>2. FitsMode(r.outcome, m[1], m[2])
    BY <1>7, OutcomeKinds DEF FitsMode
  <2>3. QED
    BY <1>4, <2>1, <2>2 DEF AcceptedLive
<1> QED
  BY <1>5, <1>6, <1>7

LEMMA HistoryHolds == IInv => HistoryAgrees
  BY LiveThenLater, LaterThenLive DEF HistoryAgrees, AcceptedLive

\* Long after, with a retained document of the credential it names, a receipt is accepted
\* exactly if it was acceptable when it came, whatever expired or was revoked since.
THEOREM HistoryAlwaysAgrees == Spec => []HistoryAgrees
  BY HistoryHolds, IInvHolds, PTL

-----------------------------------------------------------------------------
(* What is reported is true *)

LEMMA ListReads ==
  ASSUME NEW c, NEW l, ReadList(c, l) = "ok"
  PROVE  /\ l.read /\ l.id = c.statusList /\ VerifyComposite(l, c.profile.keys)
         /\ c.statusIndex \in DOMAIN Unpacked(l)
<1> DEFINE T == ListTests(c, l)
           short == Cardinality(DOMAIN Unpacked(l)) < MinListEntries
<1>1. FirstFailure(T) = "ok"
  BY DEF ReadList, Then
<1>2. /\ DOMAIN T = 1 .. 7
      /\ T[1].fails = (~l.read)
      /\ T[3].fails = (~(NamedList(c, l) /\ l.proof.profiled /\ l.proof.method = c.profile.method))
      /\ T[4].fails = (~VerifyComposite(l, c.profile.keys))
      /\ T[6].fails = (short \/ c.statusIndex \notin DOMAIN Unpacked(l))
  BY DEF ListTests
<1>3. \A n \in DOMAIN T : T[n].reason # "ok"
  BY DEF ListTests
<1> HIDE DEF T, short
<1>4. ~T[1].fails /\ ~T[3].fails /\ ~T[4].fails /\ ~T[6].fails
  BY <1>1, <1>2, <1>3, PassIff
<1> QED
  BY <1>2, <1>4 DEF NamedList

\* Lists of the same content agree in all that is signed.
LEMMA SameList ==
  ASSUME NEW l, NEW m, ListShaped(l), ListShaped(m), Unproven(l) = Unproven(m)
  PROVE  l.id = m.id /\ l.validFrom = m.validFrom /\ Unpacked(l) = Unpacked(m)
<1>1. /\ Unproven(l).id = l.id /\ Unproven(l).validFrom = l.validFrom
      /\ Unproven(l).unpacks = l.unpacks /\ Unproven(l).bits = l.bits
  BY DEF ListShaped, Unproven
<1>2. /\ Unproven(m).id = m.id /\ Unproven(m).validFrom = m.validFrom
      /\ Unproven(m).unpacks = m.unpacks /\ Unproven(m).bits = m.bits
  BY DEF ListShaped, Unproven
<1>3. l.id = m.id /\ l.validFrom = m.validFrom /\ l.unpacks = m.unpacks /\ l.bits = m.bits
  BY <1>1, <1>2
<1> QED
  BY <1>3 DEF Unpacked

\* A list that reads for an authentic document says what the registry did to the very
\* credential it was issued for, as of the list's beginning.
LEMMA ListIsTrue ==
  ASSUME IInv, NEW d \in Retained, VerifyAuthenticity(d, now) = "ok",
         NEW l \in lists, NEW m \in AlteredList(l), ReadList(Snapshot(d), m) = "ok"
  PROVE  IF Unpacked(m)[d.index] THEN revoked[d.id] # None /\ revoked[d.id] <= m.validFrom
         ELSE revoked[d.id] = None \/ revoked[d.id] >= m.validFrom
<1> DEFINE k == d.id
           c == Snapshot(d)
<1>1. k \in Instances /\ d.list = Document[k].list /\ d.index = Document[k].index
  BY AuthenticIsIssued
<1>2. c.statusList = d.list /\ c.statusIndex = d.index /\ c.profile = ProfileOf(d) /\ ProfileOf(d) \in Profiles
  BY VerdictIff, ProfileExists DEF Snapshot
<1> HIDE DEF c, k
<1>3. /\ m.read /\ m.id = d.list /\ VerifyComposite(m, ProfileOf(d).keys)
      /\ d.index \in DOMAIN Unpacked(m)
  BY <1>2, ListReads DEF c
<1>4. PICK url \in ListUrls, t \in 0 .. now, length \in Lengths, state \in [Instances -> BOOLEAN] :
          l = ListOf(url, t, length, state) /\ States(state, t)
  BY DEF IInv, ListsInv
<1>5. t \in 0 .. MaxNow
  BY InstancesAssumption DEF IInv, TypeOK
<1>6. /\ ListShaped(l) /\ l.id = url /\ l.validFrom = t
      /\ \A i \in Instances : Document[i].list = url /\ Document[i].index \in DOMAIN Unpacked(l) =>
             Unpacked(l)[Document[i].index] = state[i]
      /\ m.read => ListShaped(m)
      /\ \A p \in Profiles : SignedWith(p.keys, m) => m.proof.value.over = Unproven(l)
  BY <1>4, <1>5, ListsAssumption
<1>7. Unproven(l) = Unproven(m)
  BY <1>2, <1>3, <1>6 DEF VerifyComposite
<1>8. l.id = m.id /\ l.validFrom = m.validFrom /\ Unpacked(l) = Unpacked(m)
  BY <1>3, <1>6, <1>7, SameList
<1>9. Unpacked(m)[d.index] = state[k]
  BY <1>1, <1>3, <1>6, <1>8
<1> QED
  BY <1>1, <1>4, <1>6, <1>8, <1>9 DEF States, k

LEMMA FindingsHold == IInv => FindingsTrue
<1> SUFFICES ASSUME IInv, NEW x \in Wire, NEW d \in Retained, VerifyHistoricalReceipt(x, d) = "ok",
                    NEW st \in Statuses(d)
             PROVE  LET k == x.receipt.receiver.credential
                        f == Findings(x.receipt, d, st)
                    IN  /\ f.issuedAtWithinValidity <=>
                              \E r \in signed : r = x.receipt /\ r.issuedAt \in Document[k].validFrom .. Document[k].validUntil - 1
                        /\ f.retained.state = "revoked" => revoked[k] # None /\ revoked[k] <= f.retained.period[1]
                        /\ f.retained.state = "active" => revoked[k] = None \/ revoked[k] >= f.retained.period[1]
                        /\ FactsTogether(Snapshot(d), st)
  BY DEF FindingsTrue
<1> DEFINE k == x.receipt.receiver.credential
           f == Findings(x.receipt, d, st)
           c == Snapshot(d)
<1>1. x.receipt \in signed /\ d.id = k /\ k \in Instances /\ VerifyAuthenticity(d, now) = "ok"
  BY HistoryIsSigned, HistoryIff
<1>2. f.issuedAtWithinValidity <=>
          \E r \in signed : r = x.receipt /\ r.issuedAt \in Document[k].validFrom .. Document[k].validUntil - 1
  <2>1. d.validFrom = Document[k].validFrom /\ d.validUntil = Document[k].validUntil /\ d.validFrom \in Int /\ d.validUntil \in Int
    BY <1>1, AuthenticIsIssued
  <2>2. x.receipt.issuedAt \in Int
    BY <1>1 DEF IInv, SignedInv, Genuine
  <2>3. f.issuedAtWithinValidity = (d.validFrom <= x.receipt.issuedAt /\ x.receipt.issuedAt < d.validUntil)
    BY DEF Findings, HistoricalFacts, Snapshot
  <2>4. (d.validFrom <= x.receipt.issuedAt /\ x.receipt.issuedAt < d.validUntil)
          <=> x.receipt.issuedAt \in Document[k].validFrom .. Document[k].validUntil - 1
    <3> HIDE DEF k
    <3>1. QED
      BY <2>1, <2>2
  <2> HIDE DEF f, k
  <2>5. QED
    BY <1>1, <2>3, <2>4, Zenon
<1>3. CASE st = None
  <2>1. f.retained.state = "not_retained"
    BY <1>3 DEF Findings, HistoricalFacts, Reported
  <2>2. FactsTogether(c, st)
    BY <1>3 DEF FactsTogether
  <2> HIDE DEF f, c, k
  <2>3. QED
    BY <1>2, <2>1, <2>2 DEF f, c, k
<1>4. CASE st # None
  <2>1. PICK l \in lists : \E m \in AlteredList(l) : ReadList(c, m) = "ok" /\ st = RetainedStatus(c, m)
    <3> HIDE DEF c
    <3>1. \A s \in Statuses(d) : s = None \/ \E l \in lists : \E m \in AlteredList(l) : ReadList(c, m) = "ok" /\ s = RetainedStatus(c, m)
      BY DEF Statuses, c
    <3>2. QED
      BY <1>4, <3>1
  <2>2. PICK m \in AlteredList(l) : ReadList(c, m) = "ok" /\ st = RetainedStatus(c, m)
    BY <2>1
  <2>3. IF Unpacked(m)[d.index] THEN revoked[k] # None /\ revoked[k] <= m.validFrom
        ELSE revoked[k] = None \/ revoked[k] >= m.validFrom
    BY <1>1, <2>2, ListIsTrue
  <2>4. /\ st.credential = c /\ st.state = IF Unpacked(m)[d.index] THEN "revoked" ELSE "active"
        /\ st.validFrom = m.validFrom
    BY <2>2 DEF RetainedStatus, Snapshot
  <2>5. f.retained.state = "not_retained" \/ (f.retained.state = st.state /\ f.retained.period[1] = st.validFrom)
    <3> DEFINE told == [state |-> st.state, validFrom |-> st.validFrom, validUntil |-> st.validUntil]
    <3>1. f.retained = Reported(told)
      <4> HIDE DEF c
      <4>1. HistoricalFacts(c, st).retainedStatus = told
        BY <1>4 DEF HistoricalFacts
      <4> HIDE DEF told
      <4>2. Findings(x.receipt, d, st).retained = Reported(HistoricalFacts(c, st).retainedStatus)
        BY DEF Findings, c
      <4>3. QED
        BY <4>1, <4>2
    <3>2. told.state = st.state /\ told.validFrom = st.validFrom
      OBVIOUS
    <3> HIDE DEF told, f
    <3>3. QED
      BY <3>1, <3>2 DEF Reported
  <2>6. FactsTogether(c, st)
    BY <2>4 DEF FactsTogether
  <2> HIDE DEF f, c, k
  <2>7. QED
    BY <1>2, <2>3, <2>4, <2>5, <2>6 DEF f, c, k
<1> QED
  BY <1>3, <1>4

\* What is reported with a receipt that is accepted long after is true, whenever it is asked:
\* whether it is of the credential's validity, and whether the registry had revoked that very
\* credential when the retained list began.
THEOREM FindingsAreTrue == Spec => []FindingsTrue
  BY FindingsHold, IInvHolds, PTL

=============================================================================
