------------------------ MODULE OfflineVerifier_proofs ------------------------
(***************************************************************************)
(* Proofs about OfflineVerifier: a result is valid only of what the        *)
(* registry issued, in its time; "active" says what each way of asking can *)
(* establish; and a policy of freshness is kept.  For any credentials,     *)
(* forgeries, lists and clocks.                                            *)
(***************************************************************************)
EXTENDS OfflineVerifier, SequenceTheorems, WellFoundedInduction, TLAPS

-----------------------------------------------------------------------------
(* Verdicts *)

\* A nonempty set of naturals has a least element.
LEMMA LeastExists ==
  ASSUME NEW B, B \subseteq Nat, B # {}
  PROVE  (CHOOSE n \in B : \A m \in B : n <= m) \in B
<1>1. PICK n \in B : \A m \in B : <<m, n>> \notin OpToRel(<, Nat)
  BY NatLessThanWellFounded, WFMin
<1>2. ASSUME NEW m \in B PROVE n <= m
  <2>1. m \in Nat /\ n \in Nat
    OBVIOUS
  <2>2. OpToRel(<, Nat) = {ss \in Nat \X Nat : ss[1] < ss[2]}
    BY Zenon DEF OpToRel
  <2>3. <<m, n>> \notin {ss \in Nat \X Nat : ss[1] < ss[2]}
    BY <1>1, <2>2
  <2>4. QED
    BY <2>1, <2>3
<1>3. QED
  BY <1>2

\* Otherwise the verdict is the reason of a test that fails.
LEMMA FirstFails ==
  ASSUME NEW tests, DOMAIN tests \subseteq Nat
  PROVE  \/ FirstFailure(tests) = "ok" /\ \A n \in DOMAIN tests : ~tests[n].fails
         \/ \E n \in DOMAIN tests : tests[n].fails /\ FirstFailure(tests) = tests[n].reason
<1> DEFINE B == {n \in DOMAIN tests : tests[n].fails}
<1>1. CASE B = {}
  BY <1>1 DEF FirstFailure
<1>2. CASE B # {}
  <2>1. (CHOOSE n \in B : \A m \in B : n <= m) \in B
    BY <1>2, LeastExists
  <2>2. FirstFailure(tests) = tests[CHOOSE n \in B : \A m \in B : n <= m].reason
    BY <1>2 DEF FirstFailure
  <2>3. QED
    BY <2>1, <2>2
<1>3. QED
  BY <1>1, <1>2

\* Tests come to "ok" exactly if none fails.
LEMMA PassIff ==
  ASSUME NEW tests, DOMAIN tests \subseteq Nat, \A n \in DOMAIN tests : tests[n].reason # "ok"
  PROVE  FirstFailure(tests) = "ok" <=> \A n \in DOMAIN tests : ~tests[n].fails
<1>1. QED
  BY FirstFails DEF FirstFailure

-----------------------------------------------------------------------------
(* verifyAgent *)

\* The input is a document to read, or a reason is given.
LEMMA InputReason ==
  ASSUME NEW d
  PROVE  FirstFailure(InputTests(d)) \in {"ok", "INVALID_FORMAT", "INPUT_TOO_LARGE"}
<1> DEFINE T == InputTests(d)
<1>1. /\ DOMAIN T = 1 .. 3 /\ T[1].reason = "INVALID_FORMAT" /\ T[2].reason = "INPUT_TOO_LARGE"
      /\ T[3].reason = "INVALID_FORMAT"
  BY DEF InputTests
<1> HIDE DEF T
<1>2. FirstFailure(T) \in {"ok", "INVALID_FORMAT", "INPUT_TOO_LARGE"}
  BY <1>1, FirstFails
<1>3. QED
  BY <1>2 DEF T

\* A proof passes only if both signatures verify, or a reason is given.
LEMMA ProofVerdict ==
  ASSUME NEW d, NEW k
  PROVE  /\ ProofReason(d, k) = "ok" => BothValid(Signatures(d, k))
         /\ ProofReason(d, k) \in {"ok", "SIGNATURE_INVALID", "CONTENT_HASH_MISMATCH"}
<1> DEFINE T == << [fails |-> ~BothValid(Signatures(d, k)), reason |-> "SIGNATURE_INVALID"],
                   [fails |-> ~ContentHashMatches(d), reason |-> "CONTENT_HASH_MISMATCH"] >>
<1>1. /\ DOMAIN T = 1 .. 2 /\ T[1].fails = (~BothValid(Signatures(d, k)))
      /\ T[1].reason = "SIGNATURE_INVALID" /\ T[2].reason = "CONTENT_HASH_MISMATCH"
  OBVIOUS
<1>2. ProofReason(d, k) = FirstFailure(T)
  BY DEF ProofReason
<1> HIDE DEF T
<1>3. FirstFailure(T) = "ok" => ~T[1].fails
  BY <1>1, PassIff
<1>4. FirstFailure(T) \in {"ok", "SIGNATURE_INVALID", "CONTENT_HASH_MISMATCH"}
  BY <1>1, FirstFails
<1>5. QED
  BY <1>1, <1>2, <1>3, <1>4

\* Both signatures of the keys in force, over this very content.
LEMMA ValidSignatures ==
  ASSUME NEW d, NEW k, d.proof # None, BothValid(Signatures(d, k))
  PROVE  SignedWith(d, k) /\ d.proof.over = Unproven(d)
<1>1. CASE Separate(d.proof)
  <2>1. PqValid(d, k) /\ ClassicalValid(d, k)
    BY <1>1 DEF BothValid, Signatures
  <2>2. QED
    BY <2>1 DEF PqValid, ClassicalValid, SignedWith
<1>2. CASE ~Separate(d.proof)
  <2>1. PqValid(d, k) /\ ClassicalValid(d, k)
    BY <1>2 DEF BothValid, Signatures, VerifyCompositeProof
  <2>2. QED
    BY <2>1 DEF PqValid, ClassicalValid, SignedWith
<1>3. QED
  BY <1>1, <1>2

-----------------------------------------------------------------------------

Reasons == {"INVALID_FORMAT", "INPUT_TOO_LARGE", "MISSING_FIELDS", "EXPIRED", "SIGNATURE_INVALID", "CONTENT_HASH_MISMATCH"}

Fails(r) == \E reason \in Reasons : \E c, s : r = MakeFailResult(reason, c, s)

LEMMA FailFields ==
  ASSUME NEW r, Fails(r)
  PROVE  r.valid = FALSE /\ r.reason \in Reasons /\ r.policy = None
<1>1. PICK reason \in Reasons : \E c, s : r = MakeFailResult(reason, c, s)
  BY DEF Fails
<1>2. PICK c, s : r = MakeFailResult(reason, c, s)
  BY <1>1
<1>3. QED
  BY <1>2 DEF MakeFailResult

LEMMA SuccessFields ==
  ASSUME NEW c, NEW s, NEW policy, NEW t, NEW r, r = Success(c, s, policy, t)
  PROVE  r.reason = None /\ r.subject = c /\ r.signatures = s
  BY DEF Success

LEMMA SuccessIsValid ==
  ASSUME NEW c, NEW s, NEW policy, NEW t, NEW r, r = Success(c, s, policy, t)
  PROVE  r.valid = TRUE
  BY DEF Success

LEMMA SuccessPolicy ==
  ASSUME NEW c, NEW s, NEW policy, NEW t, NEW r, r = Success(c, s, policy, t)
  PROVE  r.policy = IF policy = None THEN None ELSE EvaluatePolicy(policy, c, t)
  BY DEF Success

LEMMA OptionFields ==
  ASSUME NEW policy, NEW skip
  PROVE  VerifyOptions(policy, skip).policy = policy /\ VerifyOptions(policy, skip).skipSignatureCheck = skip
  BY DEF VerifyOptions

\* A document that parsed is judged for its end, then for its proof.
LEMMA ParsedVerdict ==
  ASSUME NEW d, NEW options, NEW k, NEW t
  PROVE  LET r == VerifyParsed(d, Parsed(d, t), options, k, t)
         IN  \/ Fails(r)
             \/ /\ ~Expired(d, t)
                /\ \/ options.skipSignatureCheck /\ r = Success(Parsed(d, t), NoSignatures, options.policy, t)
                   \/ /\ d.proof # None /\ ProofReason(d, k) = "ok"
                      /\ r = Success(Parsed(d, t), Signatures(d, k), options.policy, t)
<1> DEFINE c == Parsed(d, t)
           r == VerifyParsed(d, c, options, k, t)
<1>1. c.expired = Expired(d, t)
  BY DEF Parsed
<1> HIDE DEF c
<1>2. CASE c.expired
  <2>1. r = MakeFailResult("EXPIRED", c, NoSignatures)
    BY <1>2 DEF VerifyParsed
  <2> HIDE DEF r
  <2>2. Fails(r)
    BY <2>1 DEF Fails, Reasons
  <2>3. QED
    BY <2>2 DEF r, c
<1>3. CASE ~c.expired /\ options.skipSignatureCheck
  <2>1. r = Success(c, NoSignatures, options.policy, t)
    BY <1>3 DEF VerifyParsed
  <2> HIDE DEF r
  <2>2. QED
    BY <2>1, <1>1, <1>3 DEF r, c
<1>4. CASE ~c.expired /\ ~options.skipSignatureCheck /\ d.proof = None
  <2>1. r = MakeFailResult("INVALID_FORMAT", c, NoSignatures)
    BY <1>4 DEF VerifyParsed
  <2> HIDE DEF r
  <2>2. Fails(r)
    BY <2>1 DEF Fails, Reasons
  <2>3. QED
    BY <2>2 DEF r, c
<1>5. CASE ~c.expired /\ ~options.skipSignatureCheck /\ d.proof # None
  <2>1. r = IF ProofReason(d, k) = "ok" THEN Success(c, Signatures(d, k), options.policy, t)
            ELSE MakeFailResult(ProofReason(d, k), c, Signatures(d, k))
    BY <1>5 DEF VerifyParsed
  <2> HIDE DEF r
  <2>2. ProofReason(d, k) # "ok" => Fails(r)
    BY <2>1, ProofVerdict DEF Fails, Reasons
  <2>3. QED
    BY <2>1, <2>2, <1>1, <1>5 DEF r, c
<1>6. QED
  BY <1>2, <1>3, <1>4, <1>5

\* And one that does not parse fails.
LEMMA AgentVerdict ==
  ASSUME NEW d, NEW options, NEW k, NEW t
  PROVE  LET r == VerifyAgent(d, options, k, t)
         IN  \/ Fails(r)
             \/ /\ d.read = "aid" /\ Parsed(d, t) # None /\ ~Expired(d, t)
                /\ \/ options.skipSignatureCheck /\ r = Success(Parsed(d, t), NoSignatures, options.policy, t)
                   \/ /\ d.proof # None /\ ProofReason(d, k) = "ok"
                      /\ r = Success(Parsed(d, t), Signatures(d, k), options.policy, t)
<1> DEFINE r == VerifyAgent(d, options, k, t)
<1>1. CASE FirstFailure(InputTests(d)) # "ok"
  <2>1. r = MakeFailResult(FirstFailure(InputTests(d)), None, NoSignatures)
    BY <1>1 DEF VerifyAgent
  <2> HIDE DEF r
  <2>2. Fails(r)
    BY <2>1, <1>1, InputReason DEF Fails, Reasons
  <2>3. QED
    BY <2>2 DEF r
<1>2. CASE FirstFailure(InputTests(d)) = "ok" /\ ParseCredential(d, t) = None
  <2>1. r = MakeFailResult(UnparsedReason(d), None, NoSignatures)
    BY <1>2 DEF VerifyAgent
  <2> HIDE DEF r
  <2>2. UnparsedReason(d) \in Reasons
    BY DEF UnparsedReason, Reasons
  <2>3. Fails(r)
    BY <2>1, <2>2 DEF Fails
  <2>4. QED
    BY <2>3 DEF r
<1>3. CASE FirstFailure(InputTests(d)) = "ok" /\ ParseCredential(d, t) # None
  <2>1. d.read = "aid" /\ ParseCredential(d, t) = Parsed(d, t)
    BY <1>3 DEF ParseCredential
  <2>2. r = VerifyParsed(d, Parsed(d, t), options, k, t)
    BY <1>3, <2>1 DEF VerifyAgent
  <2> HIDE DEF r
  <2>3. QED
    BY <1>3, <2>1, <2>2, ParsedVerdict DEF r
<1>4. QED
  BY <1>1, <1>2, <1>3

\* A result tells what it is of.
LEMMA ResultShape ==
  ASSUME NEW d, NEW policy, NEW skip \in BOOLEAN, NEW k, NEW t
  PROVE  VerifyResult(VerifyAgent(d, VerifyOptions(policy, skip), k, t), skip)
<1> DEFINE r == VerifyAgent(d, VerifyOptions(policy, skip), k, t)
<1>1. CASE Fails(r)
  <2> HIDE DEF r
  <2>1. r.valid = FALSE /\ r.reason \in Reasons /\ r.policy = None
    BY <1>1, FailFields
  <2>2. r.reason # None
    BY <2>1, PoliciesAssumption DEF Reasons
  <2>3. VerifyResult(r, skip)
    BY <2>1, <2>2 DEF VerifyResult
  <2>4. QED
    BY <2>3 DEF r
<1>2. CASE /\ Parsed(d, t) # None
           /\ \/ skip /\ r = Success(Parsed(d, t), NoSignatures, policy, t)
              \/ ProofReason(d, k) = "ok" /\ r = Success(Parsed(d, t), Signatures(d, k), policy, t)
  <2>1. PICK s : r = Success(Parsed(d, t), s, policy, t) /\ (skip \/ BothValid(s))
    BY <1>2, ProofVerdict
  <2> HIDE DEF r
  <2>2. r.valid = TRUE
    BY <2>1, SuccessIsValid
  <2>3. r.reason = None /\ r.subject = Parsed(d, t) /\ r.signatures = s
    BY <2>1, SuccessFields
  <2>4. VerifyResult(r, skip)
    BY <1>2, <2>2, <2>1, <2>3 DEF VerifyResult
  <2>5. QED
    BY <2>4 DEF r
<1> HIDE DEF r
<1>3. QED
  BY <1>1, <1>2, AgentVerdict, OptionFields DEF r

\* The content of a document without its proof says what is kept of it.
LEMMA SameParsed ==
  ASSUME NEW d, NEW e, NEW t, DocumentShaped(d), DocumentShaped(e), Unproven(d) = Unproven(e)
  PROVE  Parsed(d, t) = Parsed(e, t) /\ Expired(d, t) = Expired(e, t)
<1>1. /\ Unproven(d).instance = d.instance /\ Unproven(d).id = d.id /\ Unproven(d).subject = d.subject
      /\ Unproven(d).level = d.level /\ Unproven(d).principal = d.principal /\ Unproven(d).scopes = d.scopes
      /\ Unproven(d).validUntil = d.validUntil
  BY DEF DocumentShaped, Unproven
<1>2. /\ Unproven(e).instance = e.instance /\ Unproven(e).id = e.id /\ Unproven(e).subject = e.subject
      /\ Unproven(e).level = e.level /\ Unproven(e).principal = e.principal /\ Unproven(e).scopes = e.scopes
      /\ Unproven(e).validUntil = e.validUntil
  BY DEF DocumentShaped, Unproven
<1>3. /\ d.instance = e.instance /\ d.id = e.id /\ d.subject = e.subject /\ d.level = e.level
      /\ d.principal = e.principal /\ d.scopes = e.scopes /\ d.validUntil = e.validUntil
  BY <1>1, <1>2
<1>4. /\ Did(d) = Did(e) /\ CredentialId(d) = CredentialId(e) /\ VerificationStatus(d) = VerificationStatus(e)
      /\ Expired(d, t) = Expired(e, t)
  BY <1>3 DEF Did, CredentialId, VerificationStatus, Expired
<1>5. QED
  BY <1>3, <1>4 DEF Parsed

\* Whoever presents it, a valid document says what the registry issued and signed.
LEMMA ValidDocument ==
  ASSUME NEW c \in Credentials, NEW d \in DocumentsOf(Document[c]), NEW k \in RegistryKeys, NEW t \in Int,
         VerifyAgent(d, NoPolicy, k, t).valid
  PROVE  /\ Unproven(d) = Unproven(Document[c]) /\ SignedWith(Document[c], k)
         /\ VerifyAgent(d, NoPolicy, k, t).subject = Parsed(Document[c], t)
         /\ t <= Document[c].validUntil
<1> DEFINE r == VerifyAgent(d, NoPolicy, k, t)
<1>1. NoPolicy.policy = None /\ NoPolicy.skipSignatureCheck = FALSE
  BY OptionFields DEF NoPolicy
<1>2. ~Fails(r)
  <2> HIDE DEF r
  <2>1. r.valid
    BY DEF r
  <2>2. QED
    BY <2>1, FailFields
<1>3. /\ d.read = "aid" /\ ~Expired(d, t) /\ d.proof # None /\ ProofReason(d, k) = "ok"
      /\ r = Success(Parsed(d, t), Signatures(d, k), None, t)
  <2> HIDE DEF r
  <2>1. QED
    BY <1>1, <1>2, AgentVerdict DEF r
<1>4. SignedWith(d, k) /\ d.proof.over = Unproven(d)
  BY <1>3, ProofVerdict, ValidSignatures
<1>5. /\ SignedWith(Document[c], k) /\ d.proof.over = Unproven(Document[c])
      /\ DocumentShaped(d) /\ DocumentShaped(Document[c]) /\ Document[c].validUntil \in Int
  BY <1>3, <1>4, DocumentsAssumption
<1>6. Parsed(d, t) = Parsed(Document[c], t) /\ Expired(d, t) = Expired(Document[c], t)
  BY <1>4, <1>5, SameParsed
<1>7. r.subject = Parsed(d, t)
  <2> HIDE DEF r
  <2>1. r = Success(Parsed(d, t), Signatures(d, k), None, t)
    BY <1>3
  <2>2. QED
    BY <2>1, SuccessFields
<1>8. t <= Document[c].validUntil
  BY <1>3, <1>5, <1>6 DEF Expired
<1> HIDE DEF r
<1>9. QED
  BY <1>4, <1>5, <1>6, <1>7, <1>8 DEF r

LEMMA ValidHolds ==
  ASSUME drift \in Int, now \in Int, keys \in RegistryKeys
  PROVE  ValidIsIssued
<1>1. Clock \in Int
  BY DEF Clock
<1> HIDE DEF Clock
<1>2. ASSUME NEW d \in Presented, VerifyAgent(d, NoPolicy, keys, Clock).valid
      PROVE  \E c \in Issued :
                    /\ Unproven(d) = Unproven(Document[c])
                    /\ Document[c].proof.pq = keys.pq /\ Document[c].proof.classical = keys.classical
                    /\ VerifyAgent(d, NoPolicy, keys, Clock).subject = Parsed(Document[c], Clock)
                    /\ Clock <= Document[c].validUntil
  <2>1. PICK c \in Issued : d \in DocumentsOf(Document[c])
    BY DEF Presented
  <2>2. c \in Credentials
    BY DEF Issued
  <2>3. QED
    BY <1>1, <1>2, <2>1, <2>2, ValidDocument DEF SignedWith
<1>3. QED
  BY <1>2 DEF ValidIsIssued

-----------------------------------------------------------------------------
(* The inductive invariant *)

IInv == StateOK /\ NewestIsIssued /\ AnswerInv /\ ListInv /\ ActiveIsRecent

LEMMA Clocks ==
  ASSUME StateOK
  PROVE  /\ now \in Int /\ drift \in Int /\ Clock \in Int /\ Clock = now + drift
         /\ Start \in Int /\ MaxNow \in Int /\ REQUEST_TIMEOUT_MS \in Int /\ MAX_LIST_VALIDITY_MS \in Int
<1>1. now \in Start .. MaxNow /\ drift \in Drifts
  BY DEF StateOK
<1>2. Start \in Int /\ MaxNow \in Int /\ REQUEST_TIMEOUT_MS \in Int /\ MAX_LIST_VALIDITY_MS \in Int /\ Drifts \subseteq Int
  BY ClocksAssumption
<1>3. now \in Int /\ drift \in Int
  BY <1>1, <1>2
<1>4. QED
  BY <1>2, <1>3 DEF Clock

LEMMA InitInv == Init => IInv
<1> SUFFICES ASSUME Init PROVE IInv
  OBVIOUS
<1>1. Issued \subseteq First /\ First \subseteq Credentials
  BY ClocksAssumption DEF Init, Issued
<1>2. StateOK
  <2>1. now \in Start .. MaxNow /\ Start \in Start .. now
    BY ClocksAssumption DEF Init
  <2>2. issuedAt \in [Credentials -> (Start .. now) \cup {None}] /\ revokedAt \in [Credentials -> (Start .. now) \cup {None}]
    BY <2>1 DEF Init
  <2>3. QED
    BY <2>1, <2>2 DEF Init, StateOK
<1>3. NewestIsIssued
  <2>1. ASSUME NEW did, NEW c \in Of(did) PROVE \A other \in Of(did) : Document[other].serial <= Document[c].serial
    <3>1. \A o \in Of(did) : o \in First /\ Did(Document[o]) = did
      BY <1>1 DEF Of, Issued
    <3>2. \A o \in Of(did) : o = c /\ Document[c].serial \in Int
      BY <2>1, <3>1, <1>1, DocumentsAssumption
    <3>3. QED
      BY <3>2
  <2>2. QED
    BY <2>1 DEF NewestIsIssued
<1>4. call.stage # "answered"
  BY DEF Init, Idle
<1>5. AnswerInv /\ ListInv /\ ActiveIsRecent
  BY <1>4 DEF Init, AnswerInv, ListInv, ActiveIsRecent, Kept
<1>6. QED
  BY <1>2, <1>3, <1>5 DEF IInv

\* Time passes, and the registry issues and revokes.
Grows ==
    /\ drift' = drift /\ now' \in now .. MaxNow
    /\ \A c \in Issued : c \in Issued' /\ issuedAt'[c] = issuedAt[c]
    /\ \A c \in Issued : revokedAt'[c] = revokedAt[c] \/ (revokedAt[c] = None /\ revokedAt'[c] = now)

LEMMA StillAboutIssued ==
  ASSUME Grows, NEW subject, NEW via, AboutIssued(subject, via)
  PROVE  AboutIssued(subject, via)'
  BY DEF Grows, AboutIssued, Subjects

LEMMA StillInForce ==
  ASSUME StateOK, Grows, NEW c, NEW t \in Start + drift .. Clock, InForceSince(c, t)
  PROVE  InForceSince(c, t)'
<1>1. c \in Issued /\ c \in Issued' /\ drift' = drift
  BY DEF InForceSince, Grows
<1>2. revokedAt'[c] # None => revokedAt'[c] >= t - drift
  <2>1. t \in Int /\ t - drift <= now
    BY Clocks
  <2>2. CASE revokedAt'[c] = revokedAt[c]
    BY <2>2 DEF InForceSince
  <2>3. CASE revokedAt'[c] = now
    BY <2>1, <2>3, Clocks
  <2>4. QED
    BY <1>1, <2>2, <2>3 DEF Grows
<1>3. QED
  BY <1>1, <1>2 DEF InForceSince

LEMMA StillOf ==
  ASSUME Grows, NEW did PROVE Of(did) \subseteq Of(did)'
<1>1. ASSUME NEW c \in Of(did) PROVE c \in Of(did)'
  <2>1. c \in Issued /\ Did(Document[c]) = did
    BY DEF Of, Issued
  <2>2. c \in Issued'
    BY <2>1 DEF Grows
  <2>3. QED
    BY <2>1, <2>2 DEF Of, Issued
<1>2. QED
  BY <1>1

LEMMA ClockGrows ==
  ASSUME StateOK, Grows PROVE Clock' \in Int /\ Clock <= Clock' /\ drift' = drift /\ now <= now' /\ now' \in Int
  BY Clocks DEF Grows, Clock

\* A call that goes on stays true.
LEMMA CallStays ==
  ASSUME StateOK, AnswerInv, Grows, call' = call
  PROVE  (call # Idle => CallShaped)' /\ AnswerInv'
<1>1. ASSUME call # Idle PROVE CallShaped'
  <2>1. CallShaped
    BY <1>1 DEF StateOK
  <2>2. AboutIssued(call.subject, call.via)'
    BY <2>1, StillAboutIssued DEF CallShaped
  <2>3. call.at \in Start + drift' .. Clock'
    BY <2>1, ClockGrows, Clocks DEF CallShaped
  <2>4. QED
    BY <2>1, <2>2, <2>3 DEF CallShaped
<1>2. ASSUME call.stage = "answered" PROVE call.at \in Start + drift .. Clock
  <2>1. call # Idle
    BY <1>2 DEF Idle
  <2>2. QED
    BY <2>1 DEF StateOK, CallShaped
<1>3. ASSUME call.stage = "answered", call.via = "online", Online(Document[call.subject], call.answer) = "active"
      PROVE  InForceSince(call.subject, call.at)'
  <2>1. InForceSince(call.subject, call.at)
    BY <1>3 DEF AnswerInv
  <2>2. QED
    BY <1>2, <1>3, <2>1, StillInForce
<1>4. ASSUME call.stage = "answered", call.via = "did", RevocationOf(call.answer) = "active"
      PROVE  \E c \in Of(call.subject)' : InForceSince(c, call.at)'
  <2>1. PICK c \in Of(call.subject) : InForceSince(c, call.at)
    BY <1>4 DEF AnswerInv
  <2>2. QED
    BY <1>2, <1>4, <2>1, StillInForce, StillOf
<1>5. QED
  BY <1>1, <1>3, <1>4 DEF AnswerInv

\* What a check said of a credential, and of a DID.
RecentOf(c) ==
    /\ c \in Issued
    /\ last.checkedAt - last.since <= REQUEST_TIMEOUT_MS
    /\ revokedAt[c] # None => IF last.via = "online" THEN revokedAt[c] >= last.since - drift
                             ELSE revokedAt[c] > last.checkedAt - MAX_LIST_VALIDITY_MS

RecentOfDid(c) == issuedAt[c] <= last.checkedAt - drift /\ (revokedAt[c] # None => revokedAt[c] >= last.since - drift)

LEMMA RecentIff ==
  ActiveIsRecent <=> /\ \A c \in Credentials : Kept(c) => RecentOf(c)
                     /\ \A did \in Subjects \ Credentials : Kept(did) => \E c \in Of(did) : RecentOfDid(c)
  BY DEF ActiveIsRecent, RecentOf, RecentOfDid

\* What the caller keeps stays true of the past.
LEMMA LastStays ==
  ASSUME StateOK, ListInv, ActiveIsRecent, Grows, last' = last
  PROVE  (last # None => LastShaped)' /\ ListInv' /\ ActiveIsRecent'
<1>1. ASSUME last # None
      PROVE  /\ LastShaped /\ last.checkedAt \in Int /\ last.since \in Int
             /\ last.since <= last.checkedAt /\ last.checkedAt - drift <= now
  BY <1>1, Clocks DEF StateOK, LastShaped
<1>2. ASSUME last # None PROVE LastShaped'
  <2>1. AboutIssued(last.subject, last.via)'
    BY <1>1, <1>2, StillAboutIssued DEF LastShaped
  <2>2. last.checkedAt \in Start + drift' .. Clock' /\ last.since \in Start + drift' .. last.checkedAt
    BY <1>1, <1>2, ClockGrows, Clocks DEF LastShaped
  <2>3. QED
    BY <2>1, <2>2 DEF LastShaped
<1>3. ListInv'
  <2>1. ASSUME last # None, last.via = "statusList" PROVE now' > last.checkedAt - MAX_LIST_VALIDITY_MS
    BY <1>1, <2>1, ClockGrows, Clocks DEF ListInv
  <2>2. QED
    BY <2>1 DEF ListInv
<1>4. ASSUME NEW c \in Credentials, Kept(c) PROVE RecentOf(c)'
  <2>1. RecentOf(c) /\ c \in Issued' /\ last # None /\ last.subject = c
    BY <1>4, RecentIff DEF RecentOf, Grows, Kept
  <2>2. last.via # "online" => now > last.checkedAt - MAX_LIST_VALIDITY_MS
    BY <1>1, <2>1 DEF LastShaped, AboutIssued, ListInv
  <2>3. CASE revokedAt'[c] = revokedAt[c]
    BY <2>1, <2>3 DEF RecentOf, Grows
  <2>4. CASE revokedAt'[c] = now
    BY <1>1, <2>1, <2>2, <2>4, Clocks DEF RecentOf, Grows
  <2>5. QED
    BY <2>1, <2>3, <2>4 DEF RecentOf, Grows
<1>5. ASSUME NEW did \in Subjects \ Credentials, Kept(did) PROVE \E c \in Of(did)' : RecentOfDid(c)'
  <2>1. PICK c \in Of(did) : RecentOfDid(c)
    BY <1>5, RecentIff
  <2>2. c \in Of(did)' /\ c \in Issued /\ last # None
    BY <1>5, StillOf DEF Of, Issued, Kept
  <2>3. CASE revokedAt'[c] = revokedAt[c]
    BY <2>1, <2>2, <2>3 DEF RecentOfDid, Grows
  <2>4. CASE revokedAt'[c] = now
    BY <1>1, <2>1, <2>2, <2>4, Clocks DEF RecentOfDid, Grows
  <2>5. revokedAt'[c] = revokedAt[c] \/ revokedAt'[c] = now
    BY <2>2 DEF Grows
  <2>6. QED
    BY <2>2, <2>3, <2>4, <2>5
<1>6. \A subject : Kept(subject)' <=> Kept(subject)
  BY DEF Kept
<1>7. Subjects' = Subjects
  BY DEF Subjects
<1>8. ActiveIsRecent'
  BY <1>4, <1>5, <1>6, <1>7 DEF ActiveIsRecent, RecentOf, RecentOfDid
<1>9. QED
  BY <1>2, <1>3, <1>8

\* The registry's steps.
LEMMA TickInv == IInv /\ Tick => IInv'
<1> SUFFICES ASSUME IInv, Tick PROVE IInv'
  OBVIOUS
<1>1. Grows
  BY Clocks DEF IInv, Tick, Grows, Issued, StateOK
<1>2. /\ (call # Idle => CallShaped)' /\ AnswerInv'
      /\ (last # None => LastShaped)' /\ ListInv' /\ ActiveIsRecent'
  BY <1>1, CallStays, LastStays DEF IInv, Tick
<1>3. StateOK'
  <2>1. now' \in Start .. MaxNow /\ Start .. now \subseteq Start .. now'
    BY Clocks DEF IInv, Tick, StateOK
  <2>2. /\ issuedAt \in [Credentials -> (Start .. now') \cup {None}]
        /\ revokedAt \in [Credentials -> (Start .. now') \cup {None}]
    BY <2>1 DEF IInv, StateOK
  <2>3. QED
    BY <1>2, <2>1, <2>2 DEF IInv, Tick, StateOK, Issued
<1>4. NewestIsIssued'
  BY DEF IInv, Tick, NewestIsIssued, Of
<1>5. QED
  BY <1>2, <1>3, <1>4 DEF IInv

LEMMA SetRegistryKeysInv == ASSUME IInv, NEW k \in RegistryKeys, SetRegistryKeys(k) PROVE IInv'
<1>1. Grows
  BY Clocks DEF IInv, SetRegistryKeys, Grows, Issued, StateOK
<1>2. /\ (call # Idle => CallShaped)' /\ AnswerInv'
      /\ (last # None => LastShaped)' /\ ListInv' /\ ActiveIsRecent'
  BY <1>1, CallStays, LastStays DEF IInv, SetRegistryKeys
<1>3. StateOK' /\ NewestIsIssued'
  BY <1>2 DEF IInv, SetRegistryKeys, StateOK, Issued, NewestIsIssued, Of
<1>4. QED
  BY <1>2, <1>3 DEF IInv

LEMMA IssueInv == ASSUME IInv, NEW c \in Credentials, Issue(c) PROVE IInv'
<1> DEFINE did == Did(Document[c])
<1>1. /\ StateOK /\ now' = now /\ drift' = drift /\ keys' = keys /\ call' = call /\ last' = last
      /\ issuedAt[c] = None /\ issuedAt' = [issuedAt EXCEPT ![c] = now]
      /\ revokedAt' = [o \in Credentials |-> IF o \in Of(did) /\ revokedAt[o] = None THEN now ELSE revokedAt[o]]
      /\ \A other \in Of(did) : Document[other].serial < Document[c].serial
  BY DEF IInv, Issue
<1>2. \A o \in Credentials : o # c => issuedAt'[o] = issuedAt[o]
  BY <1>1 DEF StateOK
<1>3. c \notin Issued /\ Issued \subseteq Credentials
  BY <1>1 DEF Issued
<1>4. \A o \in Credentials : revokedAt'[o] = revokedAt[o] \/ (o \in Issued /\ revokedAt[o] = None /\ revokedAt'[o] = now)
  BY <1>1 DEF Of, Issued
<1>5. Issued \subseteq Issued'
  BY <1>2, <1>3 DEF Issued
<1>6. Grows
  <2>1. now' \in now .. MaxNow
    BY <1>1, Clocks DEF StateOK
  <2>2. QED
    BY <1>1, <1>2, <1>3, <1>4, <1>5, <2>1 DEF Grows
<1>7. /\ (call # Idle => CallShaped)' /\ AnswerInv'
      /\ (last # None => LastShaped)' /\ ListInv' /\ ActiveIsRecent'
  BY <1>1, <1>6, CallStays, LastStays DEF IInv
<1>8. StateOK'
  <2>1. now \in Start .. now
    BY <1>1, Clocks DEF StateOK
  <2>2. issuedAt' \in [Credentials -> (Start .. now) \cup {None}]
    BY <1>1, <2>1 DEF StateOK
  <2>3. revokedAt' \in [Credentials -> (Start .. now) \cup {None}]
    BY <1>1, <2>1 DEF StateOK
  <2>4. ASSUME NEW o \in Credentials, revokedAt'[o] # None PROVE o \in Issued' /\ issuedAt'[o] <= revokedAt'[o]
    <3>1. o \in Issued
      BY <1>1, <1>4, <2>4 DEF StateOK
    <3>2. o \in Issued' /\ issuedAt'[o] = issuedAt[o] /\ issuedAt[o] \in Start .. now
      BY <1>1, <1>2, <1>3, <1>5, <3>1 DEF StateOK, Issued
    <3>3. QED
      BY <1>1, <1>4, <2>4, <3>2, Clocks DEF StateOK
  <2>5. QED
    BY <1>1, <1>7, <2>2, <2>3, <2>4 DEF StateOK
<1>9. NewestIsIssued'
  <2>1. ASSUME NEW d, NEW o \in Of(d)' PROVE o \in Of(d) \/ (o = c /\ d = did)
    BY <1>2, <2>1 DEF Of
  <2>2. ASSUME NEW d \in {Did(Document[o]) : o \in Credentials}, (Of(d) # {})'
        PROVE  \E o \in Of(d)' : \A other \in Of(d)' : Document[other].serial <= Document[o].serial
    <3>1. CASE c \in Of(d)'
      <4>1. d = did
        BY <3>1 DEF Of
      <4>2. \A o \in Credentials : Document[o].serial \in Int
        BY DocumentsAssumption
      <4>3. \A other \in Of(d)' : Document[other].serial <= Document[c].serial
        BY <1>1, <2>1, <4>1, <4>2 DEF Of
      <4>4. QED
        BY <3>1, <4>3
    <3>2. CASE c \notin Of(d)'
      <4>1. Of(d)' \subseteq Of(d)
        BY <2>1, <3>2
      <4>2. Of(d) # {} /\ Of(d) \subseteq Of(d)'
        BY <1>6, <2>2, <4>1, StillOf
      <4>3. PICK o \in Of(d) : \A other \in Of(d) : Document[other].serial <= Document[o].serial
        BY <2>2, <4>2 DEF IInv, NewestIsIssued
      <4>4. QED
        BY <4>1, <4>2, <4>3
    <3>3. QED
      BY <3>1, <3>2
  <2>3. QED
    BY <2>2 DEF NewestIsIssued
<1>10. QED
  BY <1>7, <1>8, <1>9 DEF IInv

LEMMA RevokeInv == ASSUME IInv, NEW c \in Credentials, Revoke(c) PROVE IInv'
<1>1. /\ StateOK /\ now' = now /\ drift' = drift /\ keys' = keys /\ call' = call /\ last' = last
      /\ issuedAt' = issuedAt /\ issuedAt[c] # None /\ revokedAt[c] = None /\ revokedAt' = [revokedAt EXCEPT ![c] = now]
  BY DEF IInv, Revoke
<1>2. \A o \in Credentials : revokedAt'[o] = revokedAt[o] \/ (o = c /\ revokedAt'[o] = now)
  BY <1>1 DEF StateOK
<1>3. Issued' = Issued /\ c \in Issued /\ Issued \subseteq Credentials
  BY <1>1 DEF Issued
<1>4. Grows
  <2>1. now' \in now .. MaxNow
    BY <1>1, Clocks DEF StateOK
  <2>2. QED
    BY <1>1, <1>2, <1>3, <2>1 DEF Grows
<1>5. /\ (call # Idle => CallShaped)' /\ AnswerInv'
      /\ (last # None => LastShaped)' /\ ListInv' /\ ActiveIsRecent'
  BY <1>1, <1>4, CallStays, LastStays DEF IInv
<1>6. StateOK'
  <2>1. now \in Start .. now
    BY <1>1, Clocks DEF StateOK
  <2>2. revokedAt' \in [Credentials -> (Start .. now) \cup {None}]
    BY <1>1, <2>1 DEF StateOK
  <2>3. ASSUME NEW o \in Credentials, revokedAt'[o] # None PROVE o \in Issued' /\ issuedAt'[o] <= revokedAt'[o]
    <3>1. o \in Issued
      BY <1>1, <1>2, <1>3, <2>3 DEF StateOK
    <3>2. issuedAt[o] \in Start .. now
      BY <1>1, <1>3, <3>1 DEF StateOK, Issued
    <3>3. QED
      BY <1>1, <1>2, <1>3, <2>3, <3>1, <3>2, Clocks DEF StateOK
  <2>4. QED
    BY <1>1, <1>5, <2>2, <2>3 DEF StateOK
<1>7. NewestIsIssued'
  BY <1>1 DEF IInv, NewestIsIssued, Of
<1>8. QED
  BY <1>5, <1>6, <1>7 DEF IInv

-----------------------------------------------------------------------------
(* Checks *)

\* Nothing but the check changes.
RegistryStays == now' = now /\ drift' = drift /\ keys' = keys /\ issuedAt' = issuedAt /\ revokedAt' = revokedAt

LEMMA CheckInv ==
  ASSUME IInv, RegistryStays, (call # Idle => CallShaped)', AnswerInv',
         \/ last' = last
         \/ (last # None => LastShaped)' /\ ListInv' /\ ActiveIsRecent'
  PROVE  IInv'
<1>1. StateOK
  BY DEF IInv
<1>2. Grows
  BY <1>1, Clocks DEF RegistryStays, Grows, Issued, StateOK
<1>3. (last # None => LastShaped)' /\ ListInv' /\ ActiveIsRecent'
  BY <1>1, <1>2, LastStays DEF IInv
<1>4. StateOK'
  BY <1>1, <1>3 DEF RegistryStays, StateOK, Issued
<1>5. NewestIsIssued'
  BY DEF IInv, RegistryStays, NewestIsIssued, Of
<1>6. QED
  BY <1>3, <1>4, <1>5 DEF IInv

LEMMA RequestFields ==
  ASSUME NEW s, NEW v, NEW q, q = Request(s, v)
  PROVE  /\ q.stage = "sent" /\ q.subject = s /\ q.via = v /\ q.at = Clock
         /\ q = [stage |-> q.stage, subject |-> q.subject, via |-> q.via, at |-> q.at, answer |-> q.answer]
  BY DEF Request

LEMMA RequestSent ==
  ASSUME IInv, RegistryStays, NEW s, NEW v, call' = Request(s, v), last' = last,
         AboutIssued(s, v), v # "did" => CredentialId(Document[s]) # None
  PROVE  IInv'
<1>1. /\ call'.stage = "sent" /\ call'.subject = s /\ call'.via = v /\ call'.at = Clock
      /\ call' = [stage |-> call'.stage, subject |-> call'.subject, via |-> call'.via, at |-> call'.at,
                  answer |-> call'.answer]
  BY RequestFields
<1>2. AboutIssued(s, v)'
  BY DEF AboutIssued, RegistryStays, Issued, Subjects
<1>3. Clock \in Start + drift' .. Clock'
  BY Clocks DEF IInv, StateOK, RegistryStays, Clock
<1>4. CallShaped'
  BY <1>1, <1>2, <1>3 DEF CallShaped
<1>5. AnswerInv'
  BY <1>1 DEF AnswerInv
<1>6. QED
  BY <1>4, <1>5, CheckInv

LEMMA CheckCredentialStatusInv ==
  ASSUME IInv, NEW c \in Credentials, NEW via \in {"statusList", "online"}, CheckCredentialStatus(c, via)
  PROVE  IInv'
<1>1. AboutIssued(c, via) /\ via # "did" /\ RegistryStays
  BY DEF CheckCredentialStatus, AboutIssued, Issued, RegistryStays
<1>2. QED
  BY <1>1, RequestSent DEF CheckCredentialStatus

LEMMA CheckRevocationInv ==
  ASSUME IInv, NEW did \in Subjects \ Credentials, CheckRevocation(did)
  PROVE  IInv'
<1>1. AboutIssued(did, "did") /\ RegistryStays
  BY DEF CheckRevocation, AboutIssued, RegistryStays
<1>2. QED
  BY <1>1, RequestSent DEF CheckRevocation

\* The registry answers "active" of the newest credential of a DID, which is in force.
LEMMA AnswerIsTrue ==
  ASSUME IInv, NEW did \in {Did(Document[c]) : c \in Credentials}, NEW a \in Answers(did), a.status = "active"
  PROVE  Newest(did) \in Of(did) /\ a.credentialId = CredentialId(Document[Newest(did)]) /\ revokedAt[Newest(did)] = None
<1>1. Of(did) # {} /\ a = [credentialId |-> CredentialId(Document[Newest(did)]),
                           status |-> IF revokedAt[Newest(did)] = None THEN "active" ELSE "revoked"]
  BY DEF Answers
<1>2. a.credentialId = CredentialId(Document[Newest(did)]) /\ revokedAt[Newest(did)] = None
  BY <1>1
<1>3. \E c \in Of(did) : \A other \in Of(did) : Document[other].serial <= Document[c].serial
  BY <1>1 DEF IInv, NewestIsIssued
<1>4. Newest(did) \in Of(did)
  BY <1>3 DEF Newest
<1>5. QED
  BY <1>2, <1>4

LEMMA AnswerInvHolds == ASSUME IInv, NEW a \in Answers(Asked), Answer(a) PROVE IInv'
<1>1. /\ call.stage = "sent" /\ call.via \in {"online", "did"} /\ RegistryStays /\ last' = last
      /\ call' = [call EXCEPT !.stage = "answered", !.answer = a]
  BY DEF Answer, RegistryStays
<1>2. call # Idle /\ CallShaped
  BY <1>1 DEF Idle, IInv, StateOK
<1>3. /\ call'.stage = "answered" /\ call'.subject = call.subject /\ call'.via = call.via /\ call'.at = call.at
      /\ call'.answer = a
      /\ call' = [stage |-> call'.stage, subject |-> call'.subject, via |-> call'.via, at |-> call'.at,
                  answer |-> call'.answer]
  BY <1>1, <1>2 DEF CallShaped
<1>4. CallShaped'
  <2>1. AboutIssued(call.subject, call.via)'
    BY <1>1, <1>2 DEF CallShaped, AboutIssued, RegistryStays, Issued, Subjects
  <2>2. call.at \in Start + drift' .. Clock'
    BY <1>1, <1>2 DEF CallShaped, RegistryStays, Clock
  <2>3. QED
    BY <1>3, <2>1, <2>2 DEF CallShaped
<1>5. ASSUME call.via = "online", Online(Document[call.subject], a) = "active"
      PROVE  InForceSince(call.subject, call.at)
  <2> DEFINE s == call.subject
  <2>1. /\ s \in Issued /\ s \in Credentials /\ Asked = Did(Document[s]) /\ CredentialId(Document[s]) # None
    BY <1>2, <1>5 DEF CallShaped, AboutIssued, Issued, Asked, IInv, AnswerInv
  <2>2. a.status = "active" /\ a.credentialId = Document[s].id
    BY <1>5 DEF Online
  <2>3. Newest(Asked) \in Of(Asked) /\ a.credentialId = CredentialId(Document[Newest(Asked)])
        /\ revokedAt[Newest(Asked)] = None
    BY <2>1, <2>2, AnswerIsTrue
  <2>4. CredentialId(Document[s]) = CredentialId(Document[Newest(Asked)])
    BY <2>1, <2>2, <2>3 DEF CredentialId
  <2>5. Newest(Asked) = s
    BY <2>1, <2>3, <2>4, DocumentsAssumption DEF Of
  <2>6. QED
    BY <2>1, <2>3, <2>5 DEF InForceSince
<1>6. ASSUME call.via = "did", RevocationOf(a) = "active"
      PROVE  \E c \in Of(call.subject) : InForceSince(c, call.at)
  <2>1. Asked = call.subject /\ call.subject \in {Did(Document[c]) : c \in Credentials}
    BY <1>2, <1>6 DEF CallShaped, AboutIssued, Asked, Subjects
  <2>2. a.status = "active"
    BY <1>6 DEF RevocationOf
  <2>3. Newest(Asked) \in Of(Asked) /\ revokedAt[Newest(Asked)] = None
    BY <2>1, <2>2, AnswerIsTrue
  <2>4. QED
    BY <2>1, <2>3 DEF InForceSince, Of, Issued
<1>7. AnswerInv'
  <2>1. (call # Idle /\ call.via # "did" => CredentialId(Document[call.subject]) # None)'
    BY <1>2, <1>3 DEF IInv, AnswerInv
  <2>2. (call.via = "online" /\ Online(Document[call.subject], call.answer) = "active" => InForceSince(call.subject, call.at))'
    BY <1>1, <1>3, <1>5 DEF InForceSince, RegistryStays, Issued
  <2>3. (call.via = "did" /\ RevocationOf(call.answer) = "active" => \E c \in Of(call.subject) : InForceSince(c, call.at))'
    BY <1>1, <1>3, <1>6 DEF InForceSince, RegistryStays, Issued, Of
  <2>4. QED
    BY <2>1, <2>2, <2>3 DEF AnswerInv
<1>8. QED
  BY <1>1, <1>4, <1>7, CheckInv

LEMMA IdleInv == ASSUME call' = Idle PROVE (call # Idle => CallShaped)' /\ AnswerInv'
  BY DEF Idle, AnswerInv

LEMMA ThrowsInv == IInv /\ Throws => IInv'
  BY IdleInv, CheckInv DEF Throws, RegistryStays

\* What a way of asking establishes of the one it asked about.
Established ==
    CASE call.via = "online" -> Clock - call.at <= REQUEST_TIMEOUT_MS /\ InForceSince(call.subject, call.at)
      [] call.via = "did" -> \E c \in Of(call.subject) : InForceSince(c, call.at)
      [] call.via = "statusList" ->
            /\ Clock - call.at <= REQUEST_TIMEOUT_MS /\ now > Clock - MAX_LIST_VALIDITY_MS
            /\ revokedAt[call.subject] # None => revokedAt[call.subject] > Clock - MAX_LIST_VALIDITY_MS

LEMMA ActiveInv ==
  ASSUME IInv, call # Idle, Result("active"), Established
  PROVE  (last # None => LastShaped)' /\ ListInv' /\ ActiveIsRecent'
<1>1. /\ RegistryStays /\ last'.subject = call.subject /\ last'.via = call.via
      /\ last'.since = call.at /\ last'.checkedAt = Clock
  BY DEF Result, RegistryStays
<1>2. CallShaped
  BY DEF IInv, StateOK
<1>3. LastShaped'
  <2>1. AboutIssued(last.subject, last.via)'
    BY <1>1, <1>2 DEF CallShaped, AboutIssued, RegistryStays, Issued, Subjects
  <2>2. Clock \in Start + drift' .. Clock' /\ call.at \in Start + drift' .. Clock
    BY <1>1, <1>2, Clocks DEF CallShaped, RegistryStays, Clock, IInv
  <2>3. QED
    BY <1>1, <2>1, <2>2 DEF LastShaped
<1>4. ListInv'
  BY <1>1 DEF ListInv, Established, RegistryStays
<1>5. ASSUME NEW c \in Credentials, Kept(c)' PROVE RecentOf(c)'
  <2>1. c = call.subject /\ c \in Issued
    BY <1>1, <1>2, <1>5 DEF Kept, CallShaped, AboutIssued
  <2>2. call.via \in {"online", "statusList"}
    BY <1>2, <2>1 DEF CallShaped, AboutIssued
  <2>3. CASE call.via = "online"
    <3>1. Clock - call.at <= REQUEST_TIMEOUT_MS /\ InForceSince(c, call.at)
      BY <2>1, <2>3 DEF Established
    <3>2. QED
      BY <1>1, <2>1, <2>3, <3>1 DEF RecentOf, InForceSince, RegistryStays, Issued
  <2>4. CASE call.via = "statusList"
    <3>1. /\ Clock - call.at <= REQUEST_TIMEOUT_MS
          /\ revokedAt[c] # None => revokedAt[c] > Clock - MAX_LIST_VALIDITY_MS
      BY <2>1, <2>4 DEF Established
    <3>2. QED
      BY <1>1, <2>1, <2>4, <3>1 DEF RecentOf, RegistryStays, Issued
  <2>5. QED
    BY <2>2, <2>3, <2>4
<1>6. ASSUME NEW did \in Subjects \ Credentials, Kept(did)' PROVE \E c \in Of(did)' : RecentOfDid(c)'
  <2>1. did = call.subject /\ call.via = "did"
    BY <1>1, <1>2, <1>6 DEF Kept, CallShaped, AboutIssued, Issued
  <2>2. PICK c \in Of(did) : InForceSince(c, call.at)
    BY <2>1 DEF Established
  <2>3. c \in Of(did)' /\ issuedAt[c] \in Start .. now
    BY <1>1, <2>2 DEF Of, RegistryStays, IInv, StateOK
  <2>4. issuedAt[c] <= Clock - drift
    BY <2>3, Clocks DEF IInv
  <2>5. RecentOfDid(c)'
    BY <1>1, <2>2, <2>4 DEF RecentOfDid, InForceSince, RegistryStays
  <2>6. QED
    BY <2>3, <2>5
<1>7. Subjects' = Subjects
  BY DEF Subjects
<1>8. ActiveIsRecent'
  BY <1>5, <1>6, <1>7 DEF ActiveIsRecent, RecentOf, RecentOfDid
<1>9. QED
  BY <1>3, <1>4, <1>8

LEMMA ResultInv ==
  ASSUME IInv, call # Idle, NEW status, Result(status), status = "active" => Established
  PROVE  IInv'
<1>1. RegistryStays /\ call' = Idle
  BY DEF Result, RegistryStays
<1>2. CASE status = "active"
  BY <1>1, <1>2, ActiveInv, IdleInv, CheckInv
<1>3. CASE status # "active" /\ last' = last
  BY <1>1, <1>3, IdleInv, CheckInv
<1>4. CASE status # "active" /\ last' = None
  <2>1. (last # None => LastShaped)' /\ ListInv' /\ ActiveIsRecent'
    BY <1>4 DEF ListInv, ActiveIsRecent, Kept
  <2>2. QED
    BY <1>1, <2>1, IdleInv, CheckInv
<1>5. status # "active" => last' = last \/ last' = None
  BY DEF Result
<1>6. QED
  BY <1>2, <1>3, <1>4, <1>5

LEMMA SettlesInv ==
  ASSUME IInv, call # Idle, NEW status, Settles(status), status = "active" => Established
  PROVE  IInv'
  BY ResultInv, ThrowsInv DEF Settles

LEMMA OnlineAnsweredInv == IInv /\ OnlineAnswered => IInv'
<1> SUFFICES ASSUME IInv, OnlineAnswered PROVE IInv'
  OBVIOUS
<1>1. call # Idle /\ call.via = "online" /\ call.stage = "answered"
  BY DEF OnlineAnswered, Idle
<1>2. Clock - call.at <= REQUEST_TIMEOUT_MS
  <2>1. call.at \in Int /\ Clock <= call.at + REQUEST_TIMEOUT_MS
    BY <1>1, Clocks DEF OnlineAnswered, InTime, IInv, StateOK, CallShaped
  <2>2. QED
    BY <2>1, Clocks DEF IInv
<1>3. Online(Document[call.subject], call.answer) = "active" => Established
  BY <1>1, <1>2 DEF IInv, AnswerInv, Established
<1>4. QED
  BY <1>1, <1>3, SettlesInv DEF OnlineAnswered

LEMMA DidAnsweredInv == IInv /\ DidAnswered => IInv'
<1> SUFFICES ASSUME IInv, DidAnswered PROVE IInv'
  OBVIOUS
<1>1. call # Idle /\ call.via = "did" /\ call.stage = "answered"
  BY DEF DidAnswered, Idle
<1>2. RevocationOf(call.answer) = "active" => Established
  BY <1>1 DEF IInv, AnswerInv, Established
<1>3. QED
  BY <1>1, <1>2, SettlesInv DEF DidAnswered

\* A list says "active" only if all of this holds.
LEMMA ListSays ==
  ASSUME NEW d, NEW m, NEW k, NEW t, FromStatusList(d, m, k, t) = "active"
  PROVE  /\ Entered(d) /\ m.read /\ m.id = d.url /\ SignedWith(m, k) /\ m.proof.over = Unproven(m)
         /\ BoundedWindow(m) /\ InWindow(m, t) /\ d.index \in DOMAIN Unpacked(m) /\ Unpacked(m)[d.index] # TRUE
<1>1. /\ Entered(d) /\ m.read /\ ListIsNamed(d, m) /\ ListProven(m, k) /\ BoundedWindow(m) /\ InWindow(m, t)
      /\ Bitstring(d, m) /\ Unpacked(m)[d.index] # TRUE
  BY DEF FromStatusList
<1>2. m.proof # None /\ BothValid(VerifyCompositeProof(m, k))
  BY <1>1 DEF ListProven
<1>3. PqValid(m, k) /\ ClassicalValid(m, k)
  BY <1>2 DEF BothValid, VerifyCompositeProof
<1>4. QED
  BY <1>1, <1>2, <1>3 DEF PqValid, ClassicalValid, SignedWith, ListIsNamed, Bitstring

LEMMA SameList ==
  ASSUME NEW l, NEW m, ListShaped(l), ListShaped(m), Unproven(l) = Unproven(m)
  PROVE  l.id = m.id /\ l.validFrom = m.validFrom /\ l.validUntil = m.validUntil /\ Unpacked(l) = Unpacked(m)
<1>1. /\ Unproven(l).id = l.id /\ Unproven(l).validFrom = l.validFrom /\ Unproven(l).validUntil = l.validUntil
      /\ Unproven(l).bitstring = l.bitstring /\ Unproven(l).bits = l.bits
  BY DEF ListShaped, Unproven
<1>2. /\ Unproven(m).id = m.id /\ Unproven(m).validFrom = m.validFrom /\ Unproven(m).validUntil = m.validUntil
      /\ Unproven(m).bitstring = m.bitstring /\ Unproven(m).bits = m.bits
  BY DEF ListShaped, Unproven
<1>3. /\ l.id = m.id /\ l.validFrom = m.validFrom /\ l.validUntil = m.validUntil
      /\ l.bitstring = m.bitstring /\ l.bits = m.bits
  BY <1>1, <1>2
<1>4. QED
  BY <1>3 DEF Unpacked

\* A list is of an instant of the past, and of who was revoked by then.
LEMMA SignedLists ==
  ASSUME StateOK, NEW l \in ListsSigned
  PROVE  \E url \in ListUrls, t \in Start .. now, length \in Lengths, k \in RegistryKeys, b \in Int :
            l = ListOf(url, t, length, k, RevokedBy(b)) /\ t <= b + 1
<1>1. PICK url \in ListUrls, t \in Start .. now, length \in Lengths, k \in RegistryKeys :
          l = ListOf(url, t, length, k, RevokedBy(t)) \/ l = ListOf(url, t, length, k, RevokedBy(t - 1))
  BY DEF ListsSigned
<1>2. t \in Int /\ t - 1 \in Int /\ t <= t + 1 /\ t <= (t - 1) + 1
  BY Clocks
<1>3. QED
  BY <1>1, <1>2

LEMMA ListEstablishes ==
  ASSUME IInv, call.stage = "sent", call.via = "statusList", InTime,
         NEW l \in ListsSigned, NEW m \in AlteredList(l),
         FromStatusList(Document[call.subject], m, keys, Clock) = "active"
  PROVE  Established
<1> DEFINE c == call.subject
           d == Document[c]
<1>1. StateOK /\ c \in Issued /\ c \in Credentials /\ keys \in RegistryKeys /\ call.at \in Int
  BY Clocks DEF IInv, StateOK, CallShaped, AboutIssued, Issued, Idle
<1> HIDE DEF c
<1>2. /\ d.entry /\ m.read /\ m.id = d.url /\ SignedWith(m, keys) /\ m.proof.over = Unproven(m)
      /\ BoundedWindow(m) /\ InWindow(m, Clock) /\ d.index \in DOMAIN Unpacked(m) /\ Unpacked(m)[d.index] # TRUE
  <2> HIDE DEF d
  <2>1. FromStatusList(d, m, keys, Clock) = "active"
    BY DEF c, d
  <2>2. QED
    BY <2>1, ListSays DEF Entered
<1>3. PICK url \in ListUrls, t \in Start .. now, length \in Lengths, k \in RegistryKeys, b \in Int :
          l = ListOf(url, t, length, k, RevokedBy(b)) /\ t <= b + 1
  BY <1>1, SignedLists
<1>4. t \in Start .. MaxNow /\ RevokedBy(b) \in SUBSET Credentials
  BY <1>1, <1>3, Clocks DEF StateOK, RevokedBy
<1>5. /\ ListShaped(l) /\ l.id = url /\ l.validFrom = t /\ l.validUntil \in Int
      /\ \A e \in RevokedBy(b) : Document[e].entry /\ Document[e].url = url /\ Document[e].index \in DOMAIN Unpacked(l) =>
             Unpacked(l)[Document[e].index] = TRUE
      /\ m.read => ListShaped(m)
      /\ \A key \in RegistryKeys : SignedWith(m, key) => m.proof.over = Unproven(l)
  BY <1>3, <1>4, ListsAssumption
<1>6. l.id = m.id /\ l.validFrom = m.validFrom /\ l.validUntil = m.validUntil /\ Unpacked(l) = Unpacked(m)
  BY <1>1, <1>2, <1>5, SameList
<1>7. c \notin RevokedBy(b)
  BY <1>2, <1>5, <1>6
<1>8. t > Clock - MAX_LIST_VALIDITY_MS
  <2>1. m.validUntil > Clock /\ m.validUntil - t <= MAX_LIST_VALIDITY_MS /\ m.validUntil \in Int
    BY <1>2, <1>5, <1>6 DEF BoundedWindow, InWindow
  <2>2. QED
    BY <1>1, <2>1, Clocks
<1>9. revokedAt[c] # None => revokedAt[c] >= t
  BY <1>1, <1>3, <1>7, Clocks DEF RevokedBy, StateOK
<1>10. Clock - call.at <= REQUEST_TIMEOUT_MS
  BY <1>1, Clocks DEF InTime
<1>11. now > Clock - MAX_LIST_VALIDITY_MS
  BY <1>1, <1>8, Clocks
<1>12. revokedAt[c] # None => revokedAt[c] > Clock - MAX_LIST_VALIDITY_MS
  BY <1>1, <1>8, <1>9, Clocks DEF StateOK
<1>13. QED
  BY <1>10, <1>11, <1>12 DEF Established, c

LEMMA ListAnsweredInv ==
  ASSUME IInv, call.stage = "sent", NEW l \in ListsSigned, NEW m \in AlteredList(l), ListAnswered(m) PROVE IInv'
<1>1. call # Idle
  BY DEF Idle
<1>2. QED
  BY <1>1, ListEstablishes, SettlesInv DEF ListAnswered

LEMMA NextInv == IInv /\ [Next]_vars => IInv'
<1> SUFFICES ASSUME IInv, [Next]_vars PROVE IInv'
  OBVIOUS
<1>1. CASE Tick
  BY <1>1, TickInv
<1>2. CASE \E k \in RegistryKeys : SetRegistryKeys(k)
  BY <1>2, SetRegistryKeysInv
<1>3. CASE \E c \in Credentials : Issue(c)
  BY <1>3, IssueInv
<1>4. CASE \E c \in Credentials : Revoke(c)
  BY <1>4, RevokeInv
<1>5. CASE \E c \in Credentials, via \in {"statusList", "online"} : CheckCredentialStatus(c, via)
  BY <1>5, CheckCredentialStatusInv
<1>6. CASE \E did \in Subjects \ Credentials : CheckRevocation(did)
  BY <1>6, CheckRevocationInv
<1>7. CASE \E a \in Answers(Asked) : Answer(a)
  BY <1>7, AnswerInvHolds
<1>8. CASE OnlineAnswered
  BY <1>8, OnlineAnsweredInv
<1>9. CASE DidAnswered
  BY <1>9, DidAnsweredInv
<1>10. CASE Abort
  BY <1>10, ThrowsInv DEF Abort
<1>11. CASE call.stage = "sent" /\ \E m \in UNION {AlteredList(l) : l \in ListsSigned} : ListAnswered(m)
  BY <1>11, ListAnsweredInv
<1>12. CASE UNCHANGED vars
  <2>1. RegistryStays /\ call' = call /\ last' = last
    BY <1>12 DEF vars, RegistryStays
  <2>2. QED
    BY <2>1 DEF IInv, RegistryStays, StateOK, NewestIsIssued, AnswerInv, ListInv, ActiveIsRecent, Kept, Issued, Of, Clock,
                CallShaped, LastShaped, AboutIssued, InForceSince, Subjects
<1>13. QED
  BY <1>1, <1>2, <1>3, <1>4, <1>5, <1>6, <1>7, <1>8, <1>9, <1>10, <1>11, <1>12 DEF Next

LEMMA IInvHolds == Spec => []IInv
<1>1. QED
  BY InitInv, NextInv, PTL DEF Spec

LEMMA OfflineHolds == IInv => OfflineInv
<1> SUFFICES ASSUME IInv PROVE OfflineInv
  OBVIOUS
<1>1. TypeOK
  BY ResultShape DEF IInv, TypeOK
<1>2. ValidIsIssued
  BY ValidHolds, Clocks DEF IInv, StateOK
<1>3. QED
  BY <1>1, <1>2 DEF IInv, OfflineInv

\* The state keeps its shape, an answer that is being read was true, and, whatever holders
\* make of their documents, one verifies only as what the registry issued, under the keys
\* now in force and in its time.
THEOREM OfflineInvariantHolds == Spec => []OfflineInv
  BY IInvHolds, OfflineHolds, PTL

\* "Active" says that the credential was in force within the call, or within the validity
\* of a list; and of a DID, that a credential of it was.
THEOREM ActiveIsAlwaysRecent == Spec => []ActiveIsRecent
<1>1. IInv => ActiveIsRecent
  BY DEF IInv
<1>2. QED
  BY <1>1, IInvHolds, PTL

-----------------------------------------------------------------------------
(* Policies *)

\* A policy with a maximum age passes only if none of its tests of age fails.
LEMMA AgesPass ==
  ASSUME NEW policy, NEW c, NEW t, policy.maxOfflineAge # None, EvaluatePolicy(policy, c, t) = "ok"
  PROVE  ~(policy.requireRevocationCheck /\ ~Checked(policy)) /\ ~OfflineTooLong(policy, t)
<1> DEFINE S == << [fails |-> ~LevelMet(policy, c), reason |-> "TRUST_LEVEL"],
                   [fails |-> ~PrincipalMet(policy, c), reason |-> "PRINCIPAL_NOT_VERIFIED"],
                   [fails |-> ~ScopesMet(policy, c), reason |-> "MISSING_SCOPES"] >>
           A == << [fails |-> policy.requireRevocationCheck /\ ~Checked(policy), reason |-> "REVOCATION_CHECK_REQUIRED"],
                   [fails |-> OfflineTooLong(policy, t), reason |-> "OFFLINE_TOO_LONG"] >>
           T == S \o A
<1>1. AgeTests(policy, t) = A
  BY DEF AgeTests
<1>2. FirstFailure(T) = "ok"
  BY <1>1 DEF EvaluatePolicy
<1>3. /\ A[1].fails = (policy.requireRevocationCheck /\ ~Checked(policy)) /\ A[2].fails = OfflineTooLong(policy, t)
      /\ S[1].reason # "ok" /\ S[2].reason # "ok" /\ S[3].reason # "ok" /\ A[1].reason # "ok" /\ A[2].reason # "ok"
  OBVIOUS
<1>4. Len(S) = 3 /\ Len(A) = 2
  OBVIOUS
<1>5. DOMAIN S = 1 .. 3 /\ DOMAIN A = 1 .. 2
  OBVIOUS
<1>6. /\ DOMAIN T = 1 .. 5 /\ T[1] = S[1] /\ T[2] = S[2] /\ T[3] = S[3] /\ T[4] = A[1] /\ T[5] = A[2]
  <2> DEFINE R == {S[1], S[2], S[3], A[1], A[2]}
  <2>1. S \in Seq(R) /\ A \in Seq(R)
    <3>1. S = <<S[1], S[2], S[3]>> /\ A = <<A[1], A[2]>>
      OBVIOUS
    <3> HIDE DEF S, A
    <3>2. <<S[1], S[2], S[3]>> \in Seq(R) /\ <<A[1], A[2]>> \in Seq(R)
      OBVIOUS
    <3>3. QED
      BY <3>1, <3>2, Zenon
  <2> HIDE DEF S, A, R
  <2>2. /\ T \in Seq(R) /\ Len(T) = Len(S) + Len(A)
        /\ \A i \in 1 .. Len(S) + Len(A) : T[i] = IF i <= Len(S) THEN S[i] ELSE A[i - Len(S)]
    BY <2>1, ConcatProperties
  <2> HIDE DEF T
  <2>3. DOMAIN T = 1 .. 5
    BY <1>4, <2>2
  <2>4. T[1] = S[1] /\ T[2] = S[2] /\ T[3] = S[3]
    BY <1>4, <2>2
  <2>5. T[4] = A[1] /\ T[5] = A[2]
    BY <1>4, <2>2
  <2>6. QED
    BY <2>3, <2>4, <2>5
<1> HIDE DEF S, A, T
<1>7. FirstFailure(T) = "ok" => ~T[4].fails /\ ~T[5].fails
  BY <1>3, <1>6, PassIff
<1>8. QED
  BY <1>2, <1>3, <1>6, <1>7

\* A policy that comes to "ok" was judged of a document that verified.
LEMMA PolicyPasses ==
  ASSUME NEW d, NEW options, NEW k, NEW t, VerifyAgent(d, options, k, t).policy = "ok"
  PROVE  EvaluatePolicy(options.policy, Parsed(d, t), t) = "ok"
<1> DEFINE r == VerifyAgent(d, options, k, t)
<1>1. None # "ok"
  BY PoliciesAssumption
<1>2. r.policy = "ok"
  OBVIOUS
<1>3. \/ Fails(r)
      \/ r = Success(Parsed(d, t), NoSignatures, options.policy, t)
      \/ r = Success(Parsed(d, t), Signatures(d, k), options.policy, t)
  BY AgentVerdict
<1> HIDE DEF r
<1>4. ~Fails(r)
  BY <1>1, <1>2, FailFields
<1>5. PICK s : r = Success(Parsed(d, t), s, options.policy, t)
  BY <1>3, <1>4
<1>6. r.policy = IF options.policy = None THEN None ELSE EvaluatePolicy(options.policy, Parsed(d, t), t)
  BY <1>5, SuccessPolicy
<1>7. QED
  BY <1>1, <1>2, <1>6

\* The caller's policy, with its last check.
LEMMA PolicyFields ==
  ASSUME NEW p \in Policies, NEW c
  PROVE  LET q == WithCheck(p, c).policy
         IN  /\ q.maxOfflineAge = p.maxOfflineAge /\ q.requireRevocationCheck = p.requireRevocationCheck
             /\ q.lastRevocationCheck = IF Kept(c) THEN last.checkedAt ELSE None
<1> DEFINE q == [name \in DOMAIN p \cup {"lastRevocationCheck"} |->
                    IF name # "lastRevocationCheck" THEN p[name] ELSE IF Kept(c) THEN last.checkedAt ELSE None]
<1>1. {"maxOfflineAge", "requireRevocationCheck"} \subseteq DOMAIN p
  BY PoliciesAssumption
<1>2. /\ q["maxOfflineAge"] = p["maxOfflineAge"] /\ q["requireRevocationCheck"] = p["requireRevocationCheck"]
      /\ q["lastRevocationCheck"] = IF Kept(c) THEN last.checkedAt ELSE None
  BY <1>1
<1>3. WithCheck(p, c).policy = q
  <2>1. WithCheck(p, c) = VerifyOptions(q, FALSE)
    BY DEF WithCheck
  <2> HIDE DEF q
  <2>2. QED
    BY <2>1, OptionFields
<1> HIDE DEF q
<1>4. QED
  BY <1>2, <1>3

LEMMA FreshHolds == IInv => PolicyIsFresh
<1> SUFFICES ASSUME IInv, NEW c \in Issued, NEW p \in Policies,
                    p.requireRevocationCheck, p.maxOfflineAge # None, Passes(p, c)
             PROVE  /\ Kept(c)
                    /\ revokedAt[c] # None =>
                           IF last.via = "online" THEN revokedAt[c] >= Clock - drift - p.maxOfflineAge - REQUEST_TIMEOUT_MS
                           ELSE revokedAt[c] > Clock - p.maxOfflineAge - MAX_LIST_VALIDITY_MS
  BY DEF PolicyIsFresh
<1> DEFINE q == WithCheck(p, c).policy
           d == Document[c]
<1>1. /\ q.maxOfflineAge = p.maxOfflineAge /\ q.requireRevocationCheck = p.requireRevocationCheck
      /\ q.lastRevocationCheck = IF Kept(c) THEN last.checkedAt ELSE None
  BY PolicyFields
<1>2. EvaluatePolicy(q, Parsed(d, Clock), Clock) = "ok"
  BY PolicyPasses DEF Passes
<1> HIDE DEF q, d
<1>3. Checked(q) /\ ~OfflineTooLong(q, Clock)
  BY <1>1, <1>2, AgesPass
<1>4. Kept(c) /\ q.lastRevocationCheck = last.checkedAt
  BY <1>1, <1>3 DEF Checked
<1>5. ~(Clock - last.checkedAt > p.maxOfflineAge) /\ p.maxOfflineAge \in Int
  BY <1>1, <1>3, <1>4, PoliciesAssumption DEF OfflineTooLong
<1>6. /\ c \in Credentials /\ last.checkedAt \in Int /\ last.since \in Int
      /\ revokedAt[c] # None => revokedAt[c] \in Int
  BY <1>4, Clocks DEF IInv, StateOK, LastShaped, Kept, Issued
<1>7. RecentOf(c)
  BY <1>4, <1>6, RecentIff DEF IInv
<1>8. last.via = "online" /\ revokedAt[c] # None => revokedAt[c] >= Clock - drift - p.maxOfflineAge - REQUEST_TIMEOUT_MS
  BY <1>5, <1>6, <1>7, Clocks DEF RecentOf, IInv
<1>9. last.via # "online" /\ revokedAt[c] # None => revokedAt[c] > Clock - p.maxOfflineAge - MAX_LIST_VALIDITY_MS
  BY <1>5, <1>6, <1>7, Clocks DEF RecentOf, IInv
<1>10. QED
  BY <1>4, <1>8, <1>9

\* A policy that requires a check within an age passes no credential that was revoked for
\* longer than that age and the age of what the check itself rests on.
THEOREM PolicyIsAlwaysFresh == Spec => []PolicyIsFresh
  BY IInvHolds, FreshHolds, PTL

=============================================================================
