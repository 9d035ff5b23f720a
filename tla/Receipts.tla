------------------------------ MODULE Receipts ------------------------------
(***************************************************************************)
(* Receipts: what a receiver signs (buildAttemptRefusal of                 *)
(* sdk/aria-ap-ts/src/ap.ts, settle of operations.ts), and what the client *)
(* makes of the receipts that reach it, at once (verifyReceipt) and long   *)
(* after (verifyHistoricalReceipt), with internal/receipt.ts.              *)
(*                                                                         *)
(* An instance of the receiver is one of its credentials: the receiver     *)
(* renews its credential, and the registry revokes credentials and signs   *)
(* status lists.  The client keeps the attempts it signed, the receiver's  *)
(* documents and the lists.  A network keeps receipts, alters them and     *)
(* answers with them in any order, under any HTTP status.                  *)
(***************************************************************************)
EXTENDS CredentialVerification

CONSTANTS
    Attempts,        \* signed requests; an attempt's name is its digest
    OperationOf,     \* the operation of each, by its id
    SenderOf,        \* the sender of each: [did, credential]
    Instances,       \* the receiver's credentials, by reference
    First,           \* the one it starts with
    ReceiverDid,
    Document,        \* the document the registry issued for each
    SignerOf,        \* the key that a receiver with each signs with
    Retained,        \* the documents the client may come with later, genuine or not
    ListUrls,        \* the registry's status lists
    ListOf(_, _, _, _),  \* one, as it signs it at an instant for a length, given who is revoked
    Lengths,         \* the validities it states
    AlteredOf(_),    \* the receipts the network may make of one
    AlteredList(_),  \* and the lists
    HttpStatus,      \* the statuses an answer may come with
    ReceiverCodes,   \* the receiver's own codes (isReceiverCode)
    ReceiptIds,      \* bound: the receipts it signs, by fresh ids
    RefusalCodes,    \* bound: the codes refusals give
    Renewals,        \* bound: <<old, new>> credentials
    Revocable,       \* bound: the instances the registry may revoke
    MaxNow,          \* bound: the last instant
    MaxLists         \* bound: lists signed

Modes == {"decision", "retrieval"}

Ids == {ReceiptIds[n] : n \in DOMAIN ReceiptIds}

ASSUME InstancesAssumption ==
    /\ First \in Instances /\ Revocable \subseteq Instances /\ MaxNow \in Nat /\ ReceiptIds \in Seq(Ids)
    /\ Document \in [Instances -> Retained]
    /\ \A k \in Instances : Document[k].id = k /\ Document[k].did = ReceiverDid /\ Document[k].holder = SignerOf[k]
    /\ {OperationOf[a] : a \in Attempts} \cap Ids = {}

VARIABLES
    now,      \* everybody's clock
    self,     \* the instance the receiver works with
    kept,     \* the attempts the client signed and kept
    outcome,  \* the state of each operation's record
    signed,   \* the receipts the receiver signed
    revoked,  \* when the registry revoked each instance
    lists     \* the lists it signed

vars == <<now, self, kept, outcome, signed, revoked, lists>>

Operations == {OperationOf[a] : a \in Attempts}

Party(k) == [did |-> ReceiverDid, credential |-> k]

-----------------------------------------------------------------------------
(* The receipt *)

RECEIPT_TYPE == "aria-ap-receipt/1"

\* The reasons a signed refusal of an attempt may give, with their status.
REASONS ==
    [c \in {"aria.audience_mismatch", "aria.credential_expired", "aria.credential_revoked", "aria.credential_superseded",
            "aria.level_insufficient", "aria.scope_missing", "aria.scope_denied", "aria.intent_mismatch",
            "aria.approval_required", "aria.approval_invalid", "aria.delegation_unsupported",
            "aria.idempotency_conflict", "aria.operation_in_progress", "aria.status_unavailable"} |->
        CASE c \in {"aria.idempotency_conflict", "aria.operation_in_progress"} -> 409
          [] c = "aria.status_unavailable" -> 503
          [] c \notin {"aria.idempotency_conflict", "aria.operation_in_progress", "aria.status_unavailable"} -> 403]

Completed(o) == o.state = "completed" /\ o.applies = "operation" /\ o.code = "aria.completed" /\ o.status \in {200, 201}

Accepted(o) == o.state = "accepted" /\ o.applies = "operation" /\ o.code = "aria.accepted" /\ o.status = 202

RejectedOperation(o) == o.state = "rejected" /\ o.applies = "operation" /\ o.code \in ReceiverCodes /\ o.status = 422

RejectedAttempt(o) ==
    /\ o.state = "rejected" /\ o.applies = "attempt"
    /\ IF o.code \in DOMAIN REASONS THEN o.status = REASONS[o.code] ELSE o.code \in ReceiverCodes /\ o.status = 403

\* The outcome's state, what it applies to, its status and its code agree with the registry.
OutcomeConsistent(o) == Completed(o) \/ Accepted(o) \/ RejectedOperation(o) \/ RejectedAttempt(o)

\* The closed data model, so far as it is not the shape of the record.
WellFormed(r) == r.id # r.request.id /\ OutcomeConsistent(r.outcome) /\ r.proof.alg = "ed25519"

\* What is signed: the receipt, but for the value of its proof.
Payload(r) == [r EXCEPT !.proof = [alg |-> r.proof.alg, keyid |-> r.proof.keyid]]

SignatureBy(key, r) == [key |-> key, over |-> Payload(r)]

Proof(holder, value) == [alg |-> "ed25519", keyid |-> holder.id, value |-> value]

Proved(r, holder) ==
    [r EXCEPT !.proof = Proof(holder, SignatureBy(holder.key, [r EXCEPT !.proof = Proof(holder, None)]))]

Request(a) == [id |-> OperationOf[a], sender |-> SenderOf[a], digest |-> a]

\* The receipt for attempt a that a receiver signs with its credential k at t.
Receipt(id, a, k, t, o) ==
    Proved([type |-> RECEIPT_TYPE, id |-> id, request |-> Request(a), receiver |-> Party(k), issuedAt |-> t,
            outcome |-> o, proof |-> None],
           SignerOf[k])

\* Signed in the name of the instance the receiver works with.
NewReceipt(a, o) == Receipt(ReceiptIds[Cardinality(signed) + 1], a, self, now, o)

\* signReceipt throws unless the receipt fits the data model.
SignReceipt(a, o) ==
    /\ Cardinality(signed) < Len(ReceiptIds)
    /\ WellFormed(NewReceipt(a, o))
    /\ signed' = signed \cup {NewReceipt(a, o)}

-----------------------------------------------------------------------------
(* The receiver, the registry and the agent *)

Attempt(a, k) == [operationId |-> OperationOf[a], requestDigest |-> a, sender |-> SenderOf[a], receiver |-> Party(k)]

\* signRequest, for the instance just identified; the tracker keeps the attempt.
Record(a) ==
    /\ kept[a] = None
    /\ kept' = [kept EXCEPT ![a] = Attempt(a, self)]
    /\ UNCHANGED <<now, self, outcome, signed, revoked, lists>>

Refusals ==
    {[state |-> "rejected", applies |-> "attempt", status |-> REASONS[c], code |-> c] : c \in DOMAIN REASONS \cap RefusalCodes}
    \cup {[state |-> "rejected", applies |-> "attempt", status |-> 403, code |-> c] : c \in ReceiverCodes \cap RefusalCodes}

\* Admission, or the ledger, refused this attempt: buildAttemptRefusal signs it.
BuildAttemptRefusal(a, o) ==
    /\ kept[a] # None
    /\ SignReceipt(a, o)
    /\ UNCHANGED <<now, self, kept, outcome, revoked, lists>>

\* An answer bears the status of the receipt in it.
ASSUME StatusAssumption == None \notin HttpStatus /\ \A o \in Refusals : o.status \in HttpStatus

\* outcomeOf throws on any other settlement.
Settlements ==
    {[state |-> "completed", applies |-> "operation", status |-> s, code |-> "aria.completed"] : s \in {200, 201} \cap HttpStatus}
    \cup {[state |-> "accepted", applies |-> "operation", status |-> 202, code |-> "aria.accepted"]}
    \cup {[state |-> "rejected", applies |-> "operation", status |-> s, code |-> c] : c \in ReceiverCodes, s \in {422} \cap HttpStatus}

Final == {"completed", "rejected"}

\* An operation is settled, once accepted and once for good (the subject of OperationLedger).
Settle(a, o) ==
    /\ kept[a] # None
    /\ outcome[OperationOf[a]] \notin Final /\ outcome[OperationOf[a]] # o.state
    /\ SignReceipt(a, o)
    /\ outcome' = [outcome EXCEPT ![OperationOf[a]] = o.state]
    /\ UNCHANGED <<now, self, kept, revoked, lists>>

\* The receiver goes on with another of its credentials.
Renew(k) ==
    /\ <<self, k>> \in Renewals
    /\ self' = k
    /\ UNCHANGED <<now, kept, outcome, signed, revoked, lists>>

Revoke(k) ==
    /\ revoked[k] = None
    /\ revoked' = [revoked EXCEPT ![k] = now]
    /\ UNCHANGED <<now, self, kept, outcome, signed, lists>>

Revoked == [k \in Instances |-> revoked[k] # None]

SignList(url, length) ==
    /\ Cardinality(lists) < MaxLists
    /\ lists' = lists \cup {ListOf(url, now, length, Revoked)}
    /\ UNCHANGED <<now, self, kept, outcome, signed, revoked>>

Tick ==
    /\ now < MaxNow
    /\ now' = now + 1
    /\ UNCHANGED <<self, kept, outcome, signed, revoked, lists>>

-----------------------------------------------------------------------------
(* What reaches the client *)

\* The data model is closed: these members, and no other.
Shaped(r) ==
    r = [type |-> r.type, id |-> r.id, request |-> r.request, receiver |-> r.receiver, issuedAt |-> r.issuedAt,
         outcome |-> r.outcome, proof |-> [alg |-> r.proof.alg, keyid |-> r.proof.keyid, value |-> r.proof.value]]

ASSUME NetworkAssumption ==
    \A id \in Ids, a \in Attempts, k \in Instances, t \in 0 .. MaxNow, o \in Refusals \cup Settlements :
        \A x \in AlteredOf(Receipt(id, a, k, t, o)) : x.legible => Shaped(x.receipt)

\* The registry issues documents that pass, and nobody else signs with a profile's keys:
\* a document with such a signature has it from one the registry issued.
ASSUME DocumentsAssumption ==
    /\ \A k \in Instances :
        VerifyAuthenticity(Document[k], 0) = "ok" /\ Document[k].validFrom \in Int /\ Document[k].validUntil \in Int
    /\ \A d \in Retained :
        /\ OfSchema(d) => DocumentShaped(d)
        /\ \A p \in Profiles :
            SignedWith(p.keys, d) => \E k \in Instances : d.proof.value.over = Unproven(Document[k])

\* A list holds the state of every credential that names it, of when it was signed; and
\* an altered one has its signature from the list it was made of.
ASSUME ListsAssumption ==
    \A url \in ListUrls, t \in 0 .. MaxNow, length \in Lengths, state \in [Instances -> BOOLEAN] :
        LET l == ListOf(url, t, length, state)
        IN  /\ ListShaped(l) /\ l.id = url /\ l.validFrom = t
            /\ \A k \in Instances : Document[k].list = url /\ Document[k].index \in DOMAIN Unpacked(l) =>
                Unpacked(l)[Document[k].index] = state[k]
            /\ \A m \in AlteredList(l) :
                /\ m.read => ListShaped(m)
                /\ \A p \in Profiles : SignedWith(p.keys, m) => m.proof.value.over = Unproven(l)

-----------------------------------------------------------------------------
(* The client *)

\* Nobody but its holder signs with a key.
Wire ==
    {x \in UNION {AlteredOf(r) : r \in signed} :
        x.receipt.proof.value.key \in {SignerOf[k].key : k \in Instances} =>
            \E r \in signed : x.receipt.proof.value = r.proof.value}

\* Text that parses into the receipt data model.
Legible(x) == x.legible

\* Too large, not JSON of the data model, another type, or not well formed.
ReadTests(x) ==
    << [fails |-> ~Legible(x), reason |-> "malformed"],
       [fails |-> x.receipt.type # RECEIPT_TYPE, reason |-> "unsupported_type"],
       [fails |-> ~WellFormed(x.receipt), reason |-> "malformed"] >>

\* The instance a receipt must come from (ReceiverKey): its credential and its holder key.
KeyTests(r, key) ==
    << [fails |-> r.receiver # [did |-> key.did, credential |-> key.credentialId] \/ r.proof.keyid # key.holderKeyId,
        reason |-> "receiver_mismatch"],
       [fails |-> r.proof.value # SignatureBy(key.holderKey, r), reason |-> "signature_invalid"] >>

Selected(r, attempts) == {a \in attempts : a.requestDigest = r.request.digest}

\* Mutant: the digest, which is signed, is binding enough.
BoundByDigest(r, attempts) == Selected(r, attempts) # {}

\* The digest only selects an attempt: everything else is compared with it.
Bound(r, attempts) ==
    \E a \in Selected(r, attempts) :
        a.operationId = r.request.id /\ a.sender = r.request.sender /\ a.receiver = r.receiver

BindingTests(r, attempts) ==
    << [fails |-> attempts = {}, reason |-> "binding_unverifiable"],
       [fails |-> ~Bound(r, attempts), reason |-> "binding"] >>

\* Mutant: the answer's status is always the receipt's.
ModeTestsAlways(o, mode, status) ==
    << [fails |-> mode # "historical" /\ status # None /\ status # o.status, reason |-> "status_mismatch"],
       [fails |-> mode = "retrieval" /\ o.applies # "operation", reason |-> "not_operation"] >>

\* The HTTP status, as the mode has it; a retrieval returns outcomes of operations only.
ModeTests(o, mode, status) ==
    << [fails |-> mode = "decision" /\ status # o.status, reason |-> "status_mismatch"],
       [fails |-> mode = "retrieval" /\ status # None /\ status # 200, reason |-> "status_mismatch"],
       [fails |-> mode = "retrieval" /\ o.applies # "operation", reason |-> "not_operation"] >>

CheckReceipt(x, key, attempts, mode, status) ==
    LET r == x.receipt
    IN  Then(FirstFailure(ReadTests(x)),
             Then(FirstFailure(KeyTests(r, key)),
                  Then(FirstFailure(BindingTests(r, attempts)), FirstFailure(ModeTests(r.outcome, mode, status)))))

Sent == {kept[a] : a \in {b \in Attempts : kept[b] # None}}

\* The client verified this instance before it signed an attempt for it.
Identified(k) == k \in {a.receiver.credential : a \in Sent}

\* Read before anything of the receipt is checked: it only selects the receiver.
NamedReceiver(x) == x.receipt.receiver.credential

\* The tracker checks a receipt with the receiver it names, if an attempt was signed for it.
VerifyReceipt(x, mode, status) ==
    LET k == NamedReceiver(x)
    IN  IF Identified(k) THEN CheckReceipt(x, Facts(Snapshot(Document[k])), Sent, mode, status) ELSE "receiver_mismatch"

\* The evidence must be the credential the receipt names, authentic.
VerifyHistoricalReceipt(x, d) ==
    Then(FirstFailure(ReadTests(x)),
         IF VerifyAuthenticity(d, now) # "ok" \/ d.id # x.receipt.receiver.credential
         THEN "evidence_missing"
         ELSE CheckReceipt(x, HistoricalFacts(Snapshot(d), None), Sent, "historical", None))

\* The state of a retained status and the time it is about.
Reported(st) == IF st = None THEN [state |-> "not_retained", period |-> None]
                             ELSE [state |-> st.state, period |-> <<st.validFrom, st.validUntil>>]

\* What the evidence says, reported apart.
Findings(r, d, status) ==
    LET f == HistoricalFacts(Snapshot(d), status)
    IN  [issuedAtWithinValidity |-> f.validFrom <= r.issuedAt /\ r.issuedAt < f.validUntil, retained |-> Reported(f.retainedStatus)]

\* The statuses that can be read for a document out of the lists that were kept.
Statuses(d) ==
    LET c == Snapshot(d)
    IN  {None} \cup {RetainedStatus(c, l) : l \in {m \in UNION {AlteredList(m) : m \in lists} : ReadList(c, m) = "ok"}}

-----------------------------------------------------------------------------

Init ==
    /\ now = 0
    /\ self = First
    /\ kept = [a \in Attempts |-> None]
    /\ outcome = [op \in Operations |-> "none"]
    /\ signed = {}
    /\ revoked = [k \in Instances |-> None]
    /\ lists = {}

Next ==
    \/ \E a \in Attempts :
        \/ Record(a)
        \/ \E o \in Refusals : BuildAttemptRefusal(a, o)
        \/ \E o \in Settlements : Settle(a, o)
    \/ \E k \in Instances : Renew(k)
    \/ \E k \in Revocable : Revoke(k)
    \/ \E url \in ListUrls, length \in Lengths : SignList(url, length)
    \/ Tick

Spec == Init /\ [][Next]_vars

-----------------------------------------------------------------------------
(* Properties *)

ReceiptFailures ==
    {"malformed", "unsupported_type", "receiver_mismatch", "signature_invalid", "binding", "binding_unverifiable",
     "status_mismatch", "not_operation"}

\* Every verdict is one of those declared, and the records have their shapes.
TypeOK ==
    /\ now \in 0 .. MaxNow /\ self \in Instances
    /\ kept = [a \in Attempts |-> kept[a]]
    /\ \A a \in Attempts : kept[a] = None \/ \E k \in Instances : kept[a] = Attempt(a, k)
    /\ outcome \in [Operations -> {"none", "accepted"} \cup Final]
    /\ revoked \in [Instances -> (0 .. now) \cup {None}]
    /\ IsFiniteSet(signed) /\ \A r \in signed : WellFormed(r)

Answers == {m \in Modes \X (HttpStatus \cup {None}) : m[1] = "decision" => m[2] # None}

AcceptedLive(x) == \E m \in Answers : VerifyReceipt(x, m[1], m[2]) = "ok"

\* What the record of an operation is after an outcome of it was signed.
After(o) == {o.state} \cup (IF o.state = "accepted" THEN Final ELSE {})

\* A receipt that a client accepts out of such a network is, to the letter, one its
\* receiver signed, for an attempt the client signed for that same credential of the
\* receiver; it came under the status it states, or was retrieved and is an outcome
\* that the operation has, or had before its final one.
AcceptedIsSigned ==
    \A x \in Wire : \A m \in Answers : VerifyReceipt(x, m[1], m[2]) = "ok" =>
        LET r == x.receipt
            a == kept[r.request.digest]
        IN  /\ r \in signed
            /\ a # None /\ a.receiver = r.receiver /\ a.sender = r.request.sender
            /\ m[1] = "decision" => m[2] = r.outcome.status
            /\ m[1] = "retrieval" => outcome[r.request.id] \in After(r.outcome)

\* What a client can do with r: it accepts the answer it comes with, and a retrieval's
\* of it if it is an operation's.
Usable(r) ==
    LET x == [legible |-> TRUE, receipt |-> r]
    IN  /\ VerifyReceipt(x, "decision", r.outcome.status) = "ok"
        /\ r.outcome.applies = "operation" => \A s \in {None, 200} : VerifyReceipt(x, "retrieval", s) = "ok"

\* Whatever the receiver signs, under the credential the attempt was signed for, the
\* client accepts, in an answer and in a retrieval: refusals of every reason, and
\* outcomes of every kind, whatever became of the credential since.
SignedIsAccepted == \A r \in signed : kept[r.request.digest].receiver = r.receiver => Usable(r)

\* Long after, with the retained document of the credential it names, a receipt is
\* accepted exactly if it would have been then: whatever expired or was revoked.
HistoryAgrees == \A x \in Wire : AcceptedLive(x) <=> \E d \in Retained : VerifyHistoricalReceipt(x, d) = "ok"

\* What is reported with it is true, whenever it is asked: whether the receipt is of
\* the credential's validity, and whether the registry had revoked that very credential
\* when the list began.
FindingsTrue ==
    \A x \in Wire, d \in Retained : VerifyHistoricalReceipt(x, d) = "ok" =>
        LET k == x.receipt.receiver.credential
        IN  \A st \in Statuses(d) :
            LET f == Findings(x.receipt, d, st)
            IN  /\ f.issuedAtWithinValidity <=>
                        \E r \in signed : r = x.receipt /\ r.issuedAt \in Document[k].validFrom .. Document[k].validUntil - 1
                /\ f.retained.state = "revoked" => revoked[k] # None /\ revoked[k] <= f.retained.period[1]
                /\ f.retained.state = "active" => revoked[k] = None \/ revoked[k] >= f.retained.period[1]
                /\ FactsTogether(Snapshot(d), st)

\* A document passes only if the registry issued its content, and passes now exactly if
\* it is authentic and its time is now; otherwise one reason is given, of those declared.
VerifiedIsIssued ==
    \A d \in Retained :
        LET authentic == VerifyAuthenticity(d, now)
            verified == VerifyCredential(d, now)
        IN  /\ authentic = "ok" => \E k \in Instances : Unproven(d) = Unproven(Document[k])
            /\ verified = "ok" <=> authentic = "ok" /\ d.validFrom <= now + ClockSkew /\ now < d.validUntil
            /\ authentic \in AuthenticityFailures \cup {"ok"} /\ verified \in CredentialFailures \cup {"ok"}

-----------------------------------------------------------------------------

\* What a receiver signs, it signs for an attempt, in the name of one of its credentials.
Genuine(r) ==
    /\ r.id \in Ids /\ r.request.digest \in Attempts /\ r.receiver.credential \in Instances
    /\ r.issuedAt \in 0 .. now /\ r.outcome \in Refusals \cup Settlements
    /\ r = Receipt(r.id, r.request.digest, r.receiver.credential, r.issuedAt, r.outcome)
    /\ kept[r.request.digest] # None

SignedInv ==
    \A r \in signed : Genuine(r) /\ (r.outcome.applies = "operation" => outcome[r.request.id] \in After(r.outcome))

\* To the instant, a list of t says who was revoked at t.
States(state, t) ==
    \A k \in Instances : IF state[k] THEN revoked[k] # None /\ revoked[k] <= t ELSE revoked[k] = None \/ revoked[k] >= t

ListsInv ==
    \A l \in lists :
        \E url \in ListUrls, t \in 0 .. now, length \in Lengths, state \in [Instances -> BOOLEAN] :
            l = ListOf(url, t, length, state) /\ States(state, t)

\* The inductive invariant, and that nothing is accepted that was not signed.
ReceiptsInv == TypeOK /\ SignedInv /\ ListsInv /\ AcceptedIsSigned

=============================================================================
