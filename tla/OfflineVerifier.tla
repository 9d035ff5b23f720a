--------------------------- MODULE OfflineVerifier ---------------------------
(***************************************************************************)
(* The offline verifier (sdk/verify-ts): verifyAgent with parseCredential, *)
(* the composite proof and the policies; checkCredentialStatus by status   *)
(* list and online; the deprecated checkRevocation; setRegistryKeys.       *)
(*                                                                         *)
(* The registry issues credentials, renews them, which revokes the one     *)
(* renewed, revokes them and signs status lists; a holder presents what it *)
(* makes of its document, and the network any list that was ever signed,   *)
(* or an altered one.  The caller keeps what its last "active" check was    *)
(* about and when it was, for PolicyConfig.lastRevocationCheck.            *)
(* Documents are records; half a signature is the key that made it, and    *)
(* `over` the content it was made over.                                    *)
(***************************************************************************)
EXTENDS Integers, FiniteSets, Verdicts

CONSTANTS
    Credentials,       \* the credentials the registry may issue
    Document,          \* the document of each
    DocumentsOf(_),    \* what a holder may make of one
    ListOf(_, _, _, _, _),  \* a list signed: url, instant, length, keys, who is revoked
    AlteredList(_),    \* what the network may make of one
    ListUrls,
    Lengths,           \* the validities of lists
    RegistryKeys,      \* the registry's key pairs: [pq, classical]
    Policies,          \* the policies of callers, without lastRevocationCheck
    Drifts,            \* how far the verifier's clock may be from the registry's
    ONE_HOUR_MS, TWENTY_FOUR_HOURS_MS, FIFTEEN_MINUTES_MS,
    REQUEST_TIMEOUT_MS, CLOCK_SKEW_MS, MAX_LIST_VALIDITY_MS,
    First, Revocable,  \* bound: the credentials issued at the start, and those revoked but for a renewal
    Start, MaxNow,     \* bound: the first and the last instant
    None

ASSUME ClocksAssumption ==
    /\ Drifts \subseteq Int /\ {Start, MaxNow, REQUEST_TIMEOUT_MS, MAX_LIST_VALIDITY_MS} \subseteq Int
    /\ Start <= MaxNow /\ First \subseteq Credentials

VARIABLES
    now,        \* the registry's clock
    drift,      \* the verifier's clock, less the registry's
    keys,       \* the registry keys in force in the verifier
    issuedAt,   \* when each credential was issued
    revokedAt,  \* and revoked
    call,       \* the check in flight
    last        \* what the caller keeps: the last check that said "active", or None

vars == <<now, drift, keys, issuedAt, revokedAt, call, last>>

Clock == now + drift

-----------------------------------------------------------------------------
(* parseCredential *)

\* `read` says how far the document gets as JSON, as an object and as a credential.
Readings == {"aid", "absent", "not_an_object", "too_large", "cyclic", "not_json", "no_subject", "incomplete"}

\* Before 1.0 the top-level id was the DID.
Did(d) == IF d.instance /\ d.subject # None THEN d.subject ELSE d.id

CredentialId(d) == IF d.instance THEN d.id ELSE None

VERIFICATION_STATUS == {"self-declared", "registry-confirmed", "legal-verified"}

VerificationStatus(d) == IF d.principal \in VERIFICATION_STATUS THEN d.principal ELSE None

Expired(d, t) == d.validUntil < t

\* What is kept of a document that parses.
Parsed(d, t) ==
    [did |-> Did(d), credentialId |-> CredentialId(d), trustLevel |-> d.level, scopes |-> d.scopes,
     verificationStatus |-> VerificationStatus(d), expired |-> Expired(d, t)]

ParseCredential(d, t) == IF d.read = "aid" THEN Parsed(d, t) ELSE None

-----------------------------------------------------------------------------
(* Proofs *)

Unproven(d) == [d EXCEPT !.proof = None]

\* What is signed of a document that parses are these members.
DocumentShaped(d) ==
    d = [read |-> d.read, instance |-> d.instance, id |-> d.id, subject |-> d.subject, level |-> d.level,
         principal |-> d.principal, scopes |-> d.scopes, validUntil |-> d.validUntil, issuer |-> d.issuer, entry |-> d.entry,
         url |-> d.url, index |-> d.index, serial |-> d.serial, proof |-> d.proof]

\* Both halves are of the registry's keys k, whatever they are over.
SignedWith(d, k) == d.proof # None /\ d.proof.pq = k.pq /\ d.proof.classical = k.classical

\* One proofValue: a length prefix and both signatures, with or without "u".
Composite(p) == p.form = "composite"

\* Test fixtures: proofValuePq and proofValueClassical in place of proofValue.
Separate(p) == p.form = "separate"

\* The registry signs documents that parse, and nobody else signs with its keys: what a
\* holder makes of a document has such a signature from that document.  A credential's
\* identifier is its own.
ASSUME DocumentsAssumption ==
    /\ \A c \in Credentials :
        /\ DocumentShaped(Document[c]) /\ Document[c].validUntil \in Int /\ Document[c].serial \in Int
        /\ \A d \in DocumentsOf(Document[c]) :
            /\ d.read = "aid" => DocumentShaped(d)
            /\ \A k \in RegistryKeys :
                SignedWith(d, k) => SignedWith(Document[c], k) /\ d.proof.over = Unproven(Document[c])
    /\ \A c, e \in Credentials :
        CredentialId(Document[c]) # None /\ CredentialId(Document[c]) = CredentialId(Document[e]) => c = e
    /\ \A c, e \in First : Did(Document[c]) = Did(Document[e]) => c = e

PqValid(d, k) == d.proof.pq = k.pq /\ d.proof.over = Unproven(d)

ClassicalValid(d, k) == d.proof.classical = k.classical /\ d.proof.over = Unproven(d)

VerifyCompositeProof(d, k) ==
    [pqValid |-> Composite(d.proof) /\ PqValid(d, k), classicalValid |-> Composite(d.proof) /\ ClassicalValid(d, k)]

NoSignatures == [pqValid |-> FALSE, classicalValid |-> FALSE]

\* Mutant: the proof is verified over the content that it names.
SignaturesAsStated(d, k) ==
    [pqValid |-> d.proof.pq = k.pq, classicalValid |-> d.proof.classical = k.classical]

Signatures(d, k) ==
    IF Separate(d.proof)
    THEN [pqValid |-> PqValid(d, k), classicalValid |-> ClassicalValid(d, k)]
    ELSE VerifyCompositeProof(d, k)

BothValid(s) == s.pqValid /\ s.classicalValid

-----------------------------------------------------------------------------
(* Policies *)

Levels == <<"L0", "L1", "L2", "L3">>

TRUST_LEVEL_ORDER == [l \in {Levels[n] : n \in DOMAIN Levels} |-> CHOOSE n \in DOMAIN Levels : Levels[n] = l]

\* A policy that asks for what is given, and for nothing else.
Policy(age, level, check) ==
    [maxOfflineAge |-> age, minTrustLevel |-> level, requireRevocationCheck |-> check,
     requiredScopes |-> {}, requirePrincipalVerified |-> FALSE]

PolicyLevel ==
    [COMMERCE   |-> Policy(None, "L0", FALSE),
     FINANCIAL  |-> Policy(TWENTY_FOUR_HOURS_MS, "L2", FALSE),
     HEALTHCARE |-> Policy(ONE_HOUR_MS, "L1", FALSE),
     GOVERNMENT |-> Policy(ONE_HOUR_MS, "L2", FALSE),
     SOVEREIGN  |-> Policy(FIFTEEN_MINUTES_MS, "L3", TRUE)]

\* An unknown level meets no minimum.
LevelMet(policy, c) ==
    policy.minTrustLevel # None =>
        /\ {c.trustLevel, policy.minTrustLevel} \subseteq DOMAIN TRUST_LEVEL_ORDER
        /\ TRUST_LEVEL_ORDER[c.trustLevel] >= TRUST_LEVEL_ORDER[policy.minTrustLevel]

PrincipalMet(policy, c) ==
    policy.requirePrincipalVerified => c.verificationStatus \notin {None, "self-declared"}

ScopesMet(policy, c) == policy.requiredScopes \subseteq c.scopes

\* An age is asked for, or none; and a verdict is not the absence of one.
ASSUME PoliciesAssumption ==
    /\ \A p \in Policies : {"maxOfflineAge", "requireRevocationCheck"} \subseteq DOMAIN p /\ p.maxOfflineAge \in Int \cup {None}
    /\ None \notin {"ok", "INVALID_FORMAT", "INPUT_TOO_LARGE", "MISSING_FIELDS", "EXPIRED", "SIGNATURE_INVALID", "CONTENT_HASH_MISMATCH"}

\* A reading of 0 is falsy.
Checked(policy) == policy.lastRevocationCheck \notin {None, 0}

\* Mutant: a check is fresh whenever it was made.
OfflineUnmeasured(policy, t) == FALSE

OfflineTooLong(policy, t) == Checked(policy) /\ t - policy.lastRevocationCheck > policy.maxOfflineAge

\* Without a maximum age no check is asked for, required or not.
AgeTests(policy, t) ==
    IF policy.maxOfflineAge = None THEN <<>>
    ELSE << [fails |-> policy.requireRevocationCheck /\ ~Checked(policy), reason |-> "REVOCATION_CHECK_REQUIRED"],
            [fails |-> OfflineTooLong(policy, t), reason |-> "OFFLINE_TOO_LONG"] >>

EvaluatePolicy(policy, c, t) ==
    FirstFailure(<< [fails |-> ~LevelMet(policy, c), reason |-> "TRUST_LEVEL"],
                    [fails |-> ~PrincipalMet(policy, c), reason |-> "PRINCIPAL_NOT_VERIFIED"],
                    [fails |-> ~ScopesMet(policy, c), reason |-> "MISSING_SCOPES"] >> \o AgeTests(policy, t))

-----------------------------------------------------------------------------
(* verifyAgent *)

InputTests(d) ==
    << [fails |-> d.read = "absent", reason |-> "INVALID_FORMAT"],
       [fails |-> d.read = "too_large", reason |-> "INPUT_TOO_LARGE"],
       [fails |-> d.read \in {"cyclic", "not_an_object"}, reason |-> "INVALID_FORMAT"] >>

\* Why a document that does not parse does not.
UnparsedReason(d) == IF d.read = "not_json" THEN "INVALID_FORMAT" ELSE "MISSING_FIELDS"

MakeFailResult(reason, c, signatures) ==
    [valid |-> FALSE, reason |-> reason, subject |-> c, signatures |-> signatures, policy |-> None]

\* A failed policy leaves the result valid.
Success(c, signatures, policy, t) ==
    [valid |-> TRUE, reason |-> None, subject |-> c, signatures |-> signatures,
     policy |-> IF policy = None THEN None ELSE EvaluatePolicy(policy, c, t)]

ContentHashMatches(d) == d.proof.hash \in {None, Unproven(d)}

\* Both signatures, over this very content; then the optional hash.
ProofReason(d, k) ==
    FirstFailure(<< [fails |-> ~BothValid(Signatures(d, k)), reason |-> "SIGNATURE_INVALID"],
                    [fails |-> ~ContentHashMatches(d), reason |-> "CONTENT_HASH_MISMATCH"] >>)

VerifyParsed(d, c, options, k, t) ==
    CASE c.expired -> MakeFailResult("EXPIRED", c, NoSignatures)
      [] ~c.expired /\ options.skipSignatureCheck -> Success(c, NoSignatures, options.policy, t)
      [] ~c.expired /\ ~options.skipSignatureCheck /\ d.proof = None -> MakeFailResult("INVALID_FORMAT", c, NoSignatures)
      [] OTHER -> IF ProofReason(d, k) = "ok" THEN Success(c, Signatures(d, k), options.policy, t)
                  ELSE MakeFailResult(ProofReason(d, k), c, Signatures(d, k))

VerifyAgent(d, options, k, t) ==
    IF FirstFailure(InputTests(d)) # "ok" THEN MakeFailResult(FirstFailure(InputTests(d)), None, NoSignatures)
    ELSE IF ParseCredential(d, t) = None THEN MakeFailResult(UnparsedReason(d), None, NoSignatures)
    ELSE VerifyParsed(d, ParseCredential(d, t), options, k, t)

VerifyOptions(policy, skip) == [policy |-> policy, skipSignatureCheck |-> skip]

-----------------------------------------------------------------------------
(* checkCredentialStatus *)

Entered(d) == d.entry

ListIsNamed(d, l) == l.id = d.url /\ l.issuer = d.issuer /\ l.typed

ListProven(l, k) == l.proof # None /\ BothValid(VerifyCompositeProof(l, k))

Dated(l) == l.validFrom # None /\ l.validUntil # None

BoundedWindow(l) == l.validUntil > l.validFrom /\ l.validUntil - l.validFrom <= MAX_LIST_VALIDITY_MS

InWindow(l, t) == l.validFrom <= t + CLOCK_SKEW_MS /\ l.validUntil > t

\* GZIP data that does not unpack to more than a list may hold.
Unpacked(l) == IF l.bitstring THEN l.bits ELSE <<>>

ListShaped(l) ==
    l = [read |-> l.read, id |-> l.id, issuer |-> l.issuer, typed |-> l.typed, validFrom |-> l.validFrom,
         validUntil |-> l.validUntil, bitstring |-> l.bitstring, bits |-> l.bits, proof |-> l.proof]

\* A list has the bit of every revoked credential that names it, as of when it was signed;
\* and an altered one has its signature from the list it was made of.
ASSUME ListsAssumption ==
    \A url \in ListUrls, t \in Start .. MaxNow, length \in Lengths, k \in RegistryKeys, revoked \in SUBSET Credentials :
        LET l == ListOf(url, t, length, k, revoked)
        IN  /\ ListShaped(l) /\ l.id = url /\ l.validFrom = t /\ l.validUntil \in Int
            /\ \A c \in revoked :
                Document[c].entry /\ Document[c].url = url /\ Document[c].index \in DOMAIN Unpacked(l) =>
                    Unpacked(l)[Document[c].index] = TRUE
            /\ \A m \in AlteredList(l) :
                /\ m.read => ListShaped(m)
                /\ \A key \in RegistryKeys : SignedWith(m, key) => m.proof.over = Unproven(l)

\* A revocation bitstring, with an entry for the credential.
Bitstring(d, l) == d.index \in DOMAIN Unpacked(l)

FromStatusList(d, l, k, t) ==
    IF Entered(d) /\ l.read /\ ListIsNamed(d, l) /\ ListProven(l, k) /\ Dated(l) /\ BoundedWindow(l) /\ InWindow(l, t)
       /\ Bitstring(d, l)
    THEN IF Unpacked(l)[d.index] THEN "revoked" ELSE "active"
    ELSE "error"

\* An answer that names no credential, or no status that is known, is an error.
Recognized(a) == a.credentialId # None /\ a.status \in {"active", "revoked"}

\* Mutant: the answer's status is taken for the credential's, whichever it names.
OnlineOfDid(d, a) == IF Recognized(a) THEN a.status ELSE "error"

\* The answer is about the DID's current credential, and names it.
Online(d, a) ==
    IF Recognized(a) THEN IF a.credentialId = d.id THEN a.status ELSE "superseded" ELSE "error"

\* The deprecated question about a DID.
RevocationOf(a) == IF a.status \in {"active", "revoked"} THEN a.status ELSE "error"

Subjects == Credentials \cup {Did(Document[c]) : c \in Credentials}

\* In a call the request was sent, and then an answer began to arrive.
Idle == [stage |-> "idle"]

Request(subject, via) ==
    [stage |-> "sent", subject |-> subject, via |-> via, at |-> Clock, answer |-> None]

\* A credential of before 1.0 has no identifier of its own, and its check throws.
CheckCredentialStatus(c, via) ==
    /\ call = Idle /\ issuedAt[c] # None
    /\ CredentialId(Document[c]) # None
    /\ call' = Request(c, via)
    /\ UNCHANGED <<now, drift, keys, issuedAt, revokedAt, last>>

CheckRevocation(did) ==
    /\ call = Idle
    /\ call' = Request(did, "did")
    /\ UNCHANGED <<now, drift, keys, issuedAt, revokedAt, last>>

\* The caller has a check of this subject that said "active".
Kept(subject) == last # None /\ last.subject = subject

\* What a check came to: "active" at the reading of the clock after the await.
Result(status) ==
    /\ call' = Idle
    /\ last' = CASE status = "active" -> [subject |-> call.subject, via |-> call.via, since |-> call.at, checkedAt |-> Clock]
                 [] status # "active" -> IF Kept(call.subject) THEN None ELSE last
    /\ UNCHANGED <<now, drift, keys, issuedAt, revokedAt>>

\* A check that throws says nothing, and the caller keeps what it had.
Throws == call' = Idle /\ UNCHANGED <<now, drift, keys, issuedAt, revokedAt, last>>

Settles(status) == IF status = "error" THEN Throws ELSE Result(status)

\* The controller aborts a call, its body too, after the timeout.
InTime == call.stage # "idle" /\ Clock <= call.at + REQUEST_TIMEOUT_MS

OnlineAnswered == call.stage = "answered" /\ call.via = "online" /\ InTime /\ Settles(Online(Document[call.subject], call.answer))

\* checkRevocation clears the timeout before it reads the body.
DidAnswered == call.stage = "answered" /\ call.via = "did" /\ Settles(RevocationOf(call.answer))

ListAnswered(l) ==
    /\ call.stage = "sent" /\ call.via = "statusList" /\ InTime
    /\ Settles(FromStatusList(Document[call.subject], l, keys, Clock))

\* Mutant: the timer of every call is cleared when its answer begins to arrive.
AbortUnanswered == call.stage = "sent" /\ Throws

\* No answer in time, or none that is JSON with a status of 200.
Abort == call.stage # "idle" /\ ~(call.stage = "answered" /\ call.via = "did") /\ Throws

SetRegistryKeys(k) == keys' = k /\ UNCHANGED <<now, drift, issuedAt, revokedAt, call, last>>

-----------------------------------------------------------------------------
(* The registry and the network *)

Of(did) == {c \in Credentials : issuedAt[c] # None /\ Did(Document[c]) = did}

Newest(did) == CHOOSE c \in Of(did) : \A other \in Of(did) : Document[other].serial <= Document[c].serial

\* A renewal revokes the credential it renews.
Issue(c) ==
    /\ issuedAt[c] = None
    /\ \A other \in Of(Did(Document[c])) : Document[other].serial < Document[c].serial
    /\ issuedAt' = [issuedAt EXCEPT ![c] = now]
    /\ revokedAt' = [o \in Credentials |->
                        IF o \in Of(Did(Document[c])) /\ revokedAt[o] = None THEN now ELSE revokedAt[o]]
    /\ UNCHANGED <<now, drift, keys, call, last>>

Revoke(c) ==
    /\ c \in Revocable /\ issuedAt[c] # None /\ revokedAt[c] = None
    /\ revokedAt' = [revokedAt EXCEPT ![c] = now]
    /\ UNCHANGED <<now, drift, keys, issuedAt, call, last>>

\* What /v1/verify/{did} answers: of the newest credential, or not of any.
Answers(did) ==
    {[credentialId |-> None, status |-> "unknown"]}
    \cup (IF Of(did) = {} THEN {}
          ELSE {[credentialId |-> CredentialId(Document[Newest(did)]),
                 status |-> IF revokedAt[Newest(did)] = None THEN "active" ELSE "revoked"]})

Asked == IF call.via = "did" THEN call.subject ELSE Did(Document[call.subject])

Answer(a) ==
    /\ call.stage = "sent" /\ call.via \in {"online", "did"} /\ a \in Answers(Asked)
    /\ call' = [call EXCEPT !.stage = "answered", !.answer = a]
    /\ UNCHANGED <<now, drift, keys, issuedAt, revokedAt, last>>

RevokedBy(t) == {c \in Credentials : revokedAt[c] # None /\ revokedAt[c] <= t}

\* The lists signed so far, any of which may come: who was revoked within the instant a
\* list was signed at may be in it or not.
ListsSigned ==
    UNION {{ListOf(u, t, n, k, RevokedBy(t)), ListOf(u, t, n, k, RevokedBy(t - 1))} :
           u \in ListUrls, t \in Start .. now, n \in Lengths, k \in RegistryKeys}

Tick == now < MaxNow /\ now' = now + 1 /\ UNCHANGED <<drift, keys, issuedAt, revokedAt, call, last>>

-----------------------------------------------------------------------------

Init ==
    /\ now = Start /\ drift \in Drifts /\ keys \in RegistryKeys
    /\ issuedAt = [c \in Credentials |-> IF c \in First THEN now ELSE None] /\ revokedAt = [c \in Credentials |-> None]
    /\ call = Idle /\ last = None

Next ==
    \/ Tick
    \/ \E k \in RegistryKeys : SetRegistryKeys(k)
    \/ \E c \in Credentials : Issue(c) \/ Revoke(c) \/ (\E via \in {"statusList", "online"} : CheckCredentialStatus(c, via))
    \/ \E did \in Subjects \ Credentials : CheckRevocation(did)
    \/ call.stage = "sent" /\ \E a \in Answers(Asked) : Answer(a)
    \/ OnlineAnswered \/ DidAnswered \/ Abort
    \/ call.stage = "sent" /\ \E l \in UNION {AlteredList(l) : l \in ListsSigned} : ListAnswered(l)

\* The abort of a call is a timer; nobody else owes it an answer.
Spec == Init /\ [][Next]_vars /\ WF_vars(Abort)

-----------------------------------------------------------------------------
(* Properties *)

Issued == {c \in Credentials : issuedAt[c] # None}

\* What holders can come with.
Presented == UNION {DocumentsOf(Document[c]) : c \in Issued}

NoPolicy == VerifyOptions(None, FALSE)

\* The policy, with what the caller keeps of its checks of the credential.
WithCheck(policy, c) ==
    VerifyOptions([name \in DOMAIN policy \cup {"lastRevocationCheck"} |->
                      IF name # "lastRevocationCheck" THEN policy[name]
                      ELSE IF Kept(c) THEN last.checkedAt ELSE None], FALSE)

Passes(policy, c) == VerifyAgent(Document[c], WithCheck(policy, c), keys, Clock).policy = "ok"

\* A result is valid exactly when it gives no reason; both signatures of a valid one
\* verified, unless they were skipped; and a policy is judged only of a valid one.
VerifyResult(r, skipped) ==
    /\ r.valid <=> r.reason = None
    /\ r.valid => r.subject # None /\ (BothValid(r.signatures) \/ skipped)
    /\ r.policy # None => r.valid

\* A check of a credential is of one that was issued; the deprecated one is of a DID.
AboutIssued(subject, via) ==
    IF via = "did" THEN subject \in Subjects \ Credentials
    ELSE via \in {"statusList", "online"} /\ subject \in Issued

CallShaped ==
    /\ call = [stage |-> call.stage, subject |-> call.subject, via |-> call.via, at |-> call.at, answer |-> call.answer]
    /\ call.stage \in {"sent", "answered"} /\ AboutIssued(call.subject, call.via)
    /\ call.at \in Start + drift .. Clock

LastShaped ==
    /\ AboutIssued(last.subject, last.via)
    /\ last.checkedAt \in Start + drift .. Clock /\ last.since \in Start + drift .. last.checkedAt

\* The caller's records are of a call in flight and of a check that was made.
StateOK ==
    /\ now \in Start .. MaxNow /\ drift \in Drifts /\ keys \in RegistryKeys
    /\ issuedAt \in [Credentials -> (Start .. now) \cup {None}]
    /\ revokedAt \in [Credentials -> (Start .. now) \cup {None}]
    /\ \A c \in Credentials : revokedAt[c] # None => c \in Issued /\ issuedAt[c] <= revokedAt[c]
    /\ call # Idle => CallShaped
    /\ last # None => LastShaped

\* The state has its shape, and every result that of VerifyResult.
TypeOK ==
    /\ StateOK
    /\ \A d \in Presented, skip \in BOOLEAN :
           VerifyResult(VerifyAgent(d, VerifyOptions(None, skip), keys, Clock), skip)

\* A document verifies only if the registry issued this very content, signed by both of
\* the keys now in force, and it has not ended; and the result says what the registry
\* issued, whatever else the holder made of it.
ValidIsIssued ==
    \A d \in Presented :
        LET r == VerifyAgent(d, NoPolicy, keys, Clock)
        IN  r.valid =>
                \E c \in Issued :
                    /\ Unproven(d) = Unproven(Document[c])
                    /\ Document[c].proof.pq = keys.pq /\ Document[c].proof.classical = keys.classical
                    /\ r.subject = Parsed(Document[c], Clock)
                    /\ Clock <= Document[c].validUntil

\* The credentials of a DID have a newest, of which the registry answers.
NewestIsIssued ==
    \A did \in {Did(Document[c]) : c \in Credentials} : Of(did) # {} => \E c \in Of(did) : \A other \in Of(did) : Document[other].serial <= Document[c].serial

\* c was in force at t of the verifier's clock, or issued after it.
InForceSince(c, t) == c \in Issued /\ (revokedAt[c] # None => revokedAt[c] >= t - drift)

\* An answer of "active" that is being read was true at an instant of its call.
AnswerInv ==
    /\ call # Idle /\ call.via # "did" => CredentialId(Document[call.subject]) # None
    /\ call.stage = "answered" =>
        /\ call.via = "online" /\ Online(Document[call.subject], call.answer) = "active" => InForceSince(call.subject, call.at)
        /\ call.via = "did" /\ RevocationOf(call.answer) = "active" => \E c \in Of(call.subject) : InForceSince(c, call.at)

\* A list that said "active" was not signed in the registry's future.
ListInv == last # None /\ last.via = "statusList" => now > last.checkedAt - MAX_LIST_VALIDITY_MS

\* The state and every result have their types, what is being read was true, and no
\* result is valid of anything else.
OfflineInv == TypeOK /\ NewestIsIssued /\ AnswerInv /\ ListInv /\ ValidIsIssued

\* A credential reads "active" online only if it was in force at an instant of the call,
\* which the timeout bounds; from a list only if it was not yet revoked as long before
\* as a list may be valid; and a DID only if a credential of it was in force.
ActiveIsRecent ==
    /\ \A c \in Credentials : Kept(c) =>
           /\ c \in Issued
           /\ last.checkedAt - last.since <= REQUEST_TIMEOUT_MS
           /\ revokedAt[c] # None => IF last.via = "online" THEN revokedAt[c] >= last.since - drift
                                    ELSE revokedAt[c] > last.checkedAt - MAX_LIST_VALIDITY_MS
    /\ \A did \in Subjects \ Credentials : Kept(did) =>
           \E c \in Of(did) :
               /\ issuedAt[c] <= last.checkedAt - drift
               /\ revokedAt[c] # None => revokedAt[c] >= last.since - drift

\* A policy that requires a revocation check within a maximum age passes no credential
\* that was revoked for longer than that age and the age of the check's own evidence.
PolicyIsFresh ==
    \A c \in Issued, p \in Policies :
        p.requireRevocationCheck /\ p.maxOfflineAge # None /\ Passes(p, c) =>
            /\ Kept(c)
            /\ revokedAt[c] # None =>
                   IF last.via = "online" THEN revokedAt[c] >= Clock - drift - p.maxOfflineAge - REQUEST_TIMEOUT_MS
                   ELSE revokedAt[c] > Clock - p.maxOfflineAge - MAX_LIST_VALIDITY_MS

\* A check of a credential ends, whatever the network does with it.
CheckEnds == call # Idle /\ call.via # "did" ~> call = Idle

=============================================================================
