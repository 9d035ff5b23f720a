------------------------ MODULE CredentialVerification ------------------------
(***************************************************************************)
(* The credential verifier's judgment of documents and of retained status  *)
(* lists: verifyCredentialDocument, readList and what the verifier makes   *)
(* of them (sdk/aria-ts/src/internal/verify-credential.ts,                 *)
(* internal/check-status.ts, internal/composite.ts, verifier.ts).          *)
(*                                                                         *)
(* A digest is the document it is taken of; half a signature is the key    *)
(* that made it and the content it was made over.  A document that does    *)
(* not get as far as its fields has a `form` that says where it fails.     *)
(***************************************************************************)
EXTENDS Integers, FiniteSets, Verdicts

CONSTANTS
    Profiles,         \* the trust profiles: [id, issuer, method, keys, maxLevel, statusLists]
    Keys,             \* holder keys that are acceptable Ed25519 keys
    ClockSkew,        \* skewSeconds
    MaxListValidity,  \* MAX_LIST_VALIDITY_MS
    MinListEntries,   \* MIN_LIST_BYTES, in entries
    None

LEVELS == <<"L0", "L1", "L2", "L3">>

Rank(level) == CHOOSE n \in DOMAIN LEVELS : LEVELS[n] = level

\* snapshotProfiles throws on any other configuration.
SnapshotProfiles(profiles) ==
    /\ profiles # {} /\ \A p \in profiles : p.maxLevel \in {LEVELS[n] : n \in DOMAIN LEVELS}
    /\ \A p, q \in profiles : p.issuer = q.issuer => p = q

ASSUME ProfilesAssumption == SnapshotProfiles(Profiles)

ASSUME BoundsAssumption == {ClockSkew, MaxListValidity, MinListEntries} \subseteq Nat

CredentialFailures ==
    {"malformed", "unsupported_version", "unsupported_proof", "untrusted_issuer", "level_not_trusted", "signature_invalid",
     "not_yet_valid", "expired", "invalid_validity", "holder_key_invalid", "semantic_invalid", "status_list_untrusted"}

\* The failures of a retained document: no current time.
AuthenticityFailures == CredentialFailures \ {"not_yet_valid", "expired"}

RetainedStatusFailures == {"malformed", "signature_invalid", "wrong_issuer", "invalid_validity"}

-----------------------------------------------------------------------------
(* Signatures *)

\* The proof is outside the signed bytes.
Unproven(d) == [d EXCEPT !.proof = None]

Composite(keys, d) == [mldsa65 |-> keys.mldsa65, ed25519 |-> keys.ed25519, over |-> Unproven(d)]

\* Signed with both keys, whatever it is over.
SignedWith(keys, d) ==
    d.proof.value # None /\ d.proof.value.mldsa65 = keys.mldsa65 /\ d.proof.value.ed25519 = keys.ed25519

\* Mutant: one half is enough.
EitherHalf(d, keys) ==
    /\ d.proof.value # None /\ d.proof.value.over = Unproven(d)
    /\ d.proof.value.mldsa65 = keys.mldsa65 \/ d.proof.value.ed25519 = keys.ed25519

\* Both halves, over this very content.
VerifyComposite(d, keys) == SignedWith(keys, d) /\ d.proof.value.over = Unproven(d)

-----------------------------------------------------------------------------
(* verifyCredentialDocument *)

Trusted(d) == \E p \in Profiles : p.issuer = d.issuer

ProfileOf(d) == CHOOSE p \in Profiles : p.issuer = d.issuer

Shape(d) ==
    << [fails |-> d.form \in {"unread", "no_subject"}, reason |-> "malformed"],
       [fails |-> d.form = "other_version", reason |-> "unsupported_version"],
       [fails |-> d.form = "off_schema", reason |-> "malformed"],
       [fails |-> ~Trusted(d), reason |-> "untrusted_issuer"] >>

\* What gets as far as its fields has those of the schema.
OfSchema(d) == d.form \notin {"unread", "no_subject", "other_version", "off_schema"}

DocumentShaped(d) ==
    d = [form |-> d.form, issuer |-> d.issuer, id |-> d.id, did |-> d.did, holder |-> d.holder, scopes |-> d.scopes,
         hitl |-> d.hitl, level |-> d.level, validFrom |-> d.validFrom, validUntil |-> d.validUntil,
         list |-> d.list, index |-> d.index, proof |-> d.proof]

Provenance(d) ==
    LET p == ProfileOf(d)
    IN  << [fails |-> ~(d.proof.profiled /\ d.proof.method = p.method /\ d.proof.created # None),
            reason |-> "unsupported_proof"],
           [fails |-> ~VerifyComposite(d, p.keys), reason |-> "signature_invalid"],
           [fails |-> d.validFrom = None \/ d.validUntil = None, reason |-> "invalid_validity"] >>

\* Mutant: a retained document must not have expired either.
ValidityAlways(d, t, judgeTime) ==
    << [fails |-> d.validFrom >= d.validUntil, reason |-> "invalid_validity"],
       [fails |-> judgeTime /\ d.validFrom > t + ClockSkew, reason |-> "not_yet_valid"],
       [fails |-> d.validUntil <= t, reason |-> "expired"] >>

\* The bounds are checked as data, and against t only when the time is judged.
Validity(d, t, judgeTime) ==
    << [fails |-> d.validFrom >= d.validUntil, reason |-> "invalid_validity"],
       [fails |-> judgeTime /\ d.validFrom > t + ClockSkew, reason |-> "not_yet_valid"],
       [fails |-> judgeTime /\ d.validUntil <= t, reason |-> "expired"] >>

Rules(d) ==
    LET p == ProfileOf(d)
    IN  << [fails |-> ~(d.holder.of = d.did /\ d.holder.key \in Keys), reason |-> "holder_key_invalid"],
           [fails |-> ~(d.hitl \subseteq d.scopes), reason |-> "semantic_invalid"],
           [fails |-> Rank(d.level) > Rank(p.maxLevel), reason |-> "level_not_trusted"],
           [fails |-> d.list \notin p.statusLists, reason |-> "status_list_untrusted"],
           [fails |-> d.index = None, reason |-> "semantic_invalid"] >>

Verdict(d, t, judgeTime) ==
    Then(FirstFailure(Shape(d)),
         Then(FirstFailure(Provenance(d)),
              Then(FirstFailure(Validity(d, t, judgeTime)), FirstFailure(Rules(d)))))

VerifyCredential(d, t) == Verdict(d, t, TRUE)

VerifyAuthenticity(d, t) == Verdict(d, t, FALSE)

\* What the verifier keeps of a document that passed.
Snapshot(d) ==
    [profile |-> ProfileOf(d), credentialId |-> d.id, digest |-> d, did |-> d.did, holderKeyId |-> d.holder.id,
     holderKey |-> d.holder.key, level |-> d.level, scopes |-> d.scopes, validFrom |-> d.validFrom,
     validUntil |-> d.validUntil, statusList |-> d.list, statusIndex |-> d.index]

\* What it tells of a credential it verified; `verifiedAt` is left out, so that the same
\* document gives the same snapshot whenever it is read.
Facts(c) ==
    [credentialId |-> c.credentialId, digest |-> c.digest, did |-> c.did, holderKeyId |-> c.holderKeyId,
     holderKey |-> c.holderKey, level |-> c.level, scopes |-> c.scopes, validFrom |-> c.validFrom, validUntil |-> c.validUntil]

-----------------------------------------------------------------------------
(* readRetainedStatus and historicalFacts *)

\* Mutant: any list of the issuer will do.
AnyListOfIssuer(c, l) == TRUE

\* Another genuine list of the same issuer is not this credential's list.
NamedList(c, l) == l.id = c.statusList

ListShaped(l) ==
    l = [read |-> l.read, issuer |-> l.issuer, id |-> l.id, subject |-> l.subject, unpacks |-> l.unpacks, bits |-> l.bits,
         validFrom |-> l.validFrom, validUntil |-> l.validUntil, proof |-> l.proof]

\* The bits, if the string decodes and unpacks to not more than a list may hold.
Unpacked(l) == IF l.unpacks THEN l.bits ELSE <<>>

ListTests(c, l) ==
    << [fails |-> ~l.read, reason |-> "malformed"],
       [fails |-> l.issuer # c.profile.issuer, reason |-> "wrong_issuer"],
       [fails |-> ~(NamedList(c, l) /\ l.proof.profiled /\ l.proof.method = c.profile.method), reason |-> "malformed"],
       [fails |-> ~VerifyComposite(l, c.profile.keys), reason |-> "signature_invalid"],
       [fails |-> ~l.subject, reason |-> "malformed"],
       [fails |-> Cardinality(DOMAIN Unpacked(l)) < MinListEntries \/ c.statusIndex \notin DOMAIN Unpacked(l), reason |-> "malformed"],
       [fails |-> l.validFrom = None \/ l.validUntil = None, reason |-> "invalid_validity"] >>

ListValidity(l) ==
    << [fails |-> l.validUntil <= l.validFrom \/ l.validUntil - l.validFrom > MaxListValidity, reason |-> "invalid_validity"] >>

ReadList(c, l) == Then(FirstFailure(ListTests(c, l)), FirstFailure(ListValidity(l)))

\* What a list that reads says about c, in its own validity.
RetainedStatus(c, l) ==
    [credential |-> c, state |-> IF Unpacked(l)[c.statusIndex] THEN "revoked" ELSE "active",
     validFrom |-> l.validFrom, validUntil |-> l.validUntil]

\* A retained status about another document is a usage error.
FactsTogether(c, status) ==
    status # None => status.credential.credentialId = c.credentialId /\ status.credential.digest = c.digest

\* What retained evidence tells, and nothing about now.
HistoricalFacts(c, status) ==
    [credentialId |-> c.credentialId, did |-> c.did, holderKeyId |-> c.holderKeyId, holderKey |-> c.holderKey,
     validFrom |-> c.validFrom, validUntil |-> c.validUntil,
     retainedStatus |-> IF status = None THEN None
                        ELSE [state |-> status.state, validFrom |-> status.validFrom, validUntil |-> status.validUntil]]

=============================================================================
