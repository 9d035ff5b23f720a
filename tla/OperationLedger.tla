--------------------------- MODULE OperationLedger ---------------------------
(***************************************************************************)
(* The operation state machine of sdk/aria-ap-ts/src/operations.ts over    *)
(* the storage it drives, for ONE operation key (the ledger never relates  *)
(* two keys).  Every asynchronous call of OperationLedger is a process that *)
(* moves from one `await` to the next; each storage method is one atomic   *)
(* compare-and-set; between two awaits any other call, a lapse of an       *)
(* admission or a crash may happen.  No discipline is assumed of callers:  *)
(* a claim may be settled and failed concurrently, by any number of calls. *)
(*                                                                         *)
(* `settle` runs inside the transaction of the business effect: its        *)
(* `replace` is provisional until that transaction commits, and a commit   *)
(* applies the effect and the record together.                             *)
(***************************************************************************)
EXTENDS Naturals, Sequences

CONSTANTS
    Attempts,      \* admitted attempts at the operation; an admission is used once,
                   \* so an attempt also names the one claim id it can create
    Workers,       \* slots for calls in flight of the handlers' workers
    Supervisors,   \* slots for calls in flight of the receiver's recovery
    Lapsing,       \* the attempts whose admission may lapse
    Settlements,   \* the outcomes handlers settle with
    Fingerprints,  \* content fingerprints
    Fingerprint,   \* the fingerprint of each attempt
    None           \* no claim, no fingerprint

Calls == Workers \cup Supervisors

Finals   == {"completed", "rejected"}
Outcomes == {"accepted"} \cup Finals

ASSUME NoneAssumption == None \notin Attempts /\ None \notin Fingerprints
ASSUME FingerprintAssumption == Fingerprint \in [Attempts -> Fingerprints]

ASSUME BoundsAssumption == Lapsing \subseteq Attempts /\ Settlements \subseteq Outcomes

VARIABLES
    record,   \* the StoredOperation, or Absent
    adm,      \* what judge() says of each attempt's admission now
    reply,    \* what begin / resume answered to each attempt
    claims,   \* the OperationClaim issued to each attempt: the record it was made from
    spent,    \* the claims this ledger object no longer honours (#spent)
    call,     \* the calls in flight
    log,      \* history: every receipt whose transaction committed, in order
    answers   \* history: every governing receipt given in an `existing` answer

vars == <<record, adm, reply, claims, spent, call, log, answers>>

-----------------------------------------------------------------------------
(* Data *)

Receipt == [attempt : Attempts, outcome : Outcomes]

\* Receipts oldest first; the mark stands for `uncertain?: { at }`.
Absent == [state |-> "absent", fingerprint |-> None, revision |-> 0,
           claim |-> None, mark |-> "none", receipts |-> <<>>]

ClaimedRecord == [state : {"claimed"}, fingerprint : Fingerprints, revision : Nat \ {0},
                  claim : Attempts, mark : {"none", "uncertain"}, receipts : Seq(Receipt)]

SettledRecord == [state : Outcomes, fingerprint : Fingerprints, revision : Nat \ {0},
                  claim : {None}, mark : {"none"}, receipts : Seq(Receipt) \ {<<>>}]

StoredOperation == {Absent} \cup ClaimedRecord \cup SettledRecord

Verdicts == {"allow", "refused", "expired"}
Replies  == {"none", "pending", "claimed", "existing", "conflict", "in_progress",
             "refused", "expired", "no_operation", "lost"}

\* A call that returned or threw: "stale" is StaleClaim, "violation" InvariantViolation.
Ready == {"idle", "stale", "violation"}
PCs   == Ready \cup {"begin_get", "begin_create", "answer", "resume_get", "resume_got",
                     "resume_reclaim", "granting", "undo",
                     "settle_get", "settle_replace", "settle_commit",
                     "fail_get", "fail_mark", "fail_release",
                     "mark_get", "mark_replace",
                     "reconcile_get", "reconcile_release"}
Args  == Outcomes \cup {"rolled-back", "uncertain", "assured", "unassured"}
                  \cup Verdicts \cup {"none"}

Call == [pc : PCs, attempt : Attempts \cup {None}, seen : StoredOperation, arg : Args]

\* The governing receipt: the final one if any, else the latest `accepted`.
Governing(receipts) ==
    LET finals == {i \in 1 .. Len(receipts) : receipts[i].outcome \in Finals}
    IN  IF finals = {} THEN receipts[Len(receipts)]
        ELSE receipts[CHOOSE i \in finals : \A j \in finals : i <= j]

-----------------------------------------------------------------------------
(* Storage: the conditional writes, and the records the ledger writes *)

\* Mutant: a release back to no record starts the revisions again, so that only
\* the claim id tells two first claims apart; this write does not compare it.
MatchesRevision(expected) == record.state = "claimed" /\ record.revision = expected.revision

\* Mutant: any claim will do.
MatchesState(expected) == record.state = "claimed"

\* `replace` and `remove` expect the revision and the claim that were read.
Matches(expected) ==
    /\ record.state = "claimed"
    /\ record.revision = expected.revision
    /\ record.claim = expected.claim

\* `create`'s and `reclaim`'s record: the first claim, or the continuation of `prior`.
NewClaim(a, prior, fingerprint) ==
    [state |-> "claimed", fingerprint |-> fingerprint, revision |-> prior.revision + 1,
     claim |-> a, mark |-> "none", receipts |-> prior.receipts]

\* Mutant: a mark that is not a new revision.
MarkedAtRevision(r) == [r EXCEPT !.mark = "uncertain"]

MarkedUncertain(r) == [r EXCEPT !.revision = @ + 1, !.mark = "uncertain"]

\* Back to no record, or to `accepted` when the claim continued an accepted operation.
Released(r) ==
    IF r.receipts = <<>> THEN Absent
    ELSE [state |-> "accepted", fingerprint |-> r.fingerprint, revision |-> r.revision + 1,
          claim |-> None, mark |-> "none", receipts |-> r.receipts]

\* Mutant: the conditional delete compares the revision alone.
RemovableAtRevision(r) == record # Absent /\ record.revision = r.revision

\* `remove` also requires a record without receipts.
Removable(r) == Matches(r) /\ (r.receipts = <<>> => record.receipts = <<>>)

\* The settled record, built from the claim the worker holds and the revision read.
Settled(claim, revision, o) ==
    [state |-> o, fingerprint |-> claim.fingerprint, revision |-> revision + 1,
     claim |-> None, mark |-> "none",
     receipts |-> Append(claim.receipts, [attempt |-> claim.claim, outcome |-> o])]

-----------------------------------------------------------------------------
(* Control of a call *)

Waiting(c, pc) == call[c].pc = pc

Enter(c, pc, a, seen, arg) ==
    call' = [call EXCEPT ![c] = [pc |-> pc, attempt |-> a, seen |-> seen, arg |-> arg]]

\* The next await, with what the call has read so far.
Goto(c, pc) == Enter(c, pc, call[c].attempt, call[c].seen, call[c].arg)

GotoSeeing(c, pc, r) == Enter(c, pc, call[c].attempt, r, call[c].arg)

Returned(pc) == [pc |-> pc, attempt |-> None, seen |-> Absent, arg |-> "none"]

Return(c, pc) == call' = [call EXCEPT ![c] = Returned(pc)]

Answer(c, a, kind) == Return(c, "idle") /\ reply' = [reply EXCEPT ![a] = kind]

-----------------------------------------------------------------------------
(* begin and resume *)

\* An admission used once; it no longer authorizes work when the call is made.
RefuseCall(a) ==
    /\ reply[a] = "none"
    /\ adm[a] # "allow"
    /\ reply' = [reply EXCEPT ![a] = adm[a]]
    /\ UNCHANGED <<record, adm, claims, spent, call, log, answers>>

AdmittedCall(c, a, pc) ==
    /\ call[c].pc \in Ready
    /\ reply[a] = "none"
    /\ adm[a] = "allow"
    /\ Enter(c, pc, a, Absent, "none")
    /\ reply' = [reply EXCEPT ![a] = "pending"]
    /\ UNCHANGED <<record, adm, claims, spent, log, answers>>

BeginCall(c, a)  == AdmittedCall(c, a, "begin_get")
ResumeCall(c, a) == AdmittedCall(c, a, "resume_get")

BeginGet(c) ==
    /\ Waiting(c, "begin_get")
    /\ IF record = Absent THEN Goto(c, "begin_create") ELSE GotoSeeing(c, "answer", record)
    /\ UNCHANGED <<record, adm, reply, claims, spent, log, answers>>

\* `create`: claims the operation if there is no record, else returns the record.
BeginCreate(c) ==
    LET a == call[c].attempt
        first == NewClaim(a, Absent, Fingerprint[a])
    IN  /\ Waiting(c, "begin_create")
        /\ IF record = Absent
           THEN record' = first /\ GotoSeeing(c, "granting", first)
           ELSE UNCHANGED record /\ GotoSeeing(c, "answer", record)
        /\ UNCHANGED <<adm, reply, claims, spent, log, answers>>

\* Mutant: the stored outcome is answered without judging the admission again.
ExistingUnjudged(a, r) ==
    CASE r.fingerprint # Fingerprint[a] -> "conflict"
      [] r.fingerprint = Fingerprint[a] /\ r.state = "claimed" -> "in_progress"
      [] OTHER -> "existing"

\* The judged answer of #existing to attempt a, for the record r it read.
Existing(a, r) ==
    CASE adm[a] # "allow" -> adm[a]
      [] adm[a] = "allow" /\ r.fingerprint # Fingerprint[a] -> "conflict"
      [] adm[a] = "allow" /\ r.fingerprint = Fingerprint[a] /\ r.state = "claimed" -> "in_progress"
      [] OTHER -> "existing"

AnswerExisting(c) ==
    LET a == call[c].attempt
        kind == Existing(a, call[c].seen)
    IN  /\ Answer(c, a, kind)
        /\ answers' = IF kind = "existing" THEN answers \cup {Governing(call[c].seen.receipts)}
                      ELSE answers
        /\ UNCHANGED <<record, adm, claims, spent, log>>

BeginAnswer(c) == Waiting(c, "answer") /\ AnswerExisting(c)

ResumeGet(c) ==
    /\ Waiting(c, "resume_get")
    /\ IF record = Absent
       THEN Answer(c, call[c].attempt, "no_operation")
       ELSE GotoSeeing(c, "resume_got", record) /\ UNCHANGED reply
    /\ UNCHANGED <<record, adm, claims, spent, log, answers>>

Resumable(a, r) == adm[a] = "allow" /\ r.state = "accepted" /\ r.fingerprint = Fingerprint[a]

ResumeRead(c) ==
    LET a == call[c].attempt
    IN  /\ Waiting(c, "resume_got")
        /\ IF Resumable(a, call[c].seen)
           THEN Goto(c, "resume_reclaim") /\ UNCHANGED <<record, adm, reply, claims, spent, log, answers>>
           ELSE AnswerExisting(c)

ReclaimExpects(r) == record.state = "accepted" /\ record.revision = r.revision

ResumeReclaim(c) ==
    LET a == call[c].attempt
        next == NewClaim(a, call[c].seen, call[c].seen.fingerprint)
    IN  /\ Waiting(c, "resume_reclaim")
        /\ IF ReclaimExpects(call[c].seen)
           THEN record' = next /\ GotoSeeing(c, "granting", next) /\ UNCHANGED reply
           ELSE Answer(c, a, "in_progress") /\ UNCHANGED record
        /\ UNCHANGED <<adm, claims, spent, log, answers>>

\* Judged again after the write: the claim is issued only while the admission holds.
Grant(c) ==
    LET a == call[c].attempt
    IN  /\ Waiting(c, "granting")
        /\ adm[a] = "allow"
        /\ claims' = [claims EXCEPT ![a] = call[c].seen]
        /\ Answer(c, a, "claimed")
        /\ UNCHANGED <<record, adm, spent, log, answers>>

GrantLapsed(c) ==
    LET a == call[c].attempt
    IN  /\ Waiting(c, "granting")
        /\ adm[a] # "allow"
        /\ Enter(c, "undo", a, call[c].seen, adm[a])
        /\ UNCHANGED <<record, adm, reply, claims, spent, log, answers>>

\* Whether the release succeeded is not looked at.
Undo(c) ==
    /\ Waiting(c, "undo")
    /\ record' = IF Removable(call[c].seen) THEN Released(call[c].seen) ELSE record
    /\ Answer(c, call[c].attempt, call[c].arg)
    /\ UNCHANGED <<adm, claims, spent, log, answers>>

-----------------------------------------------------------------------------
(* settle *)

Issued(a) == claims[a] # Absent

\* #claimOf: a spent claim throws StaleClaim before anything is read.
ClaimCall(c, a, pc, arg) ==
    /\ call[c].pc \in Ready
    /\ Issued(a)
    /\ Enter(c, IF a \in spent THEN "stale" ELSE pc, a, Absent, arg)
    /\ UNCHANGED <<record, adm, reply, claims, spent, log, answers>>

SettleCall(c, a, o) == ClaimCall(c, a, "settle_get", o)

\* The record read is still this worker's claim.
StillClaimed(c) == record.state = "claimed" /\ record.claim = call[c].attempt

SettleGet(c) ==
    /\ Waiting(c, "settle_get")
    /\ IF StillClaimed(c) THEN GotoSeeing(c, "settle_replace", record) ELSE Return(c, "stale")
    /\ UNCHANGED <<record, adm, reply, claims, spent, log, answers>>

SettleReplace(c) ==
    /\ Waiting(c, "settle_replace")
    /\ IF Matches(call[c].seen)
       THEN Goto(c, "settle_commit") /\ spent' = spent \cup {call[c].attempt}
       ELSE Return(c, "stale") /\ UNCHANGED spent
    /\ UNCHANGED <<record, adm, reply, claims, log, answers>>

\* Mutant: the commit applies the record whatever happened since the replace.
SettleCommitUnchecked(c) ==
    LET a == call[c].attempt
    IN  /\ Waiting(c, "settle_commit")
        /\ record' = Settled(claims[a], call[c].seen.revision, call[c].arg)
        /\ log' = Append(log, [attempt |-> a, outcome |-> call[c].arg])
        /\ Return(c, "idle")
        /\ UNCHANGED <<adm, reply, claims, spent, answers>>

\* The transaction of the effect commits, if its compare-and-set still holds.
SettleCommit(c) ==
    LET a == call[c].attempt
        next == Settled(claims[a], call[c].seen.revision, call[c].arg)
    IN  /\ Waiting(c, "settle_commit")
        /\ Matches(call[c].seen)
        /\ record' = next
        /\ log' = Append(log, [attempt |-> a, outcome |-> call[c].arg])
        /\ Return(c, "idle")
        /\ UNCHANGED <<adm, reply, claims, spent, answers>>

\* The transaction rolls back: at will, or because the compare-and-set no longer holds.
SettleRollback(c) ==
    /\ Waiting(c, "settle_commit")
    /\ Return(c, "idle")
    /\ UNCHANGED <<record, adm, reply, claims, spent, log, answers>>

-----------------------------------------------------------------------------
(* fail and markUncertain *)

FailCall(c, a, failure) == ClaimCall(c, a, "fail_get", failure)

FailGet(c) ==
    /\ Waiting(c, "fail_get")
    /\ CASE ~StillClaimed(c) -> Return(c, "stale")
         [] StillClaimed(c) /\ call[c].arg = "rolled-back" -> GotoSeeing(c, "fail_release", record)
         [] StillClaimed(c) /\ call[c].arg = "uncertain" ->
                IF record.mark = "uncertain" THEN Return(c, "idle")
                ELSE GotoSeeing(c, "fail_mark", record)
    /\ UNCHANGED <<record, adm, reply, claims, spent, log, answers>>

\* `replace` of the record read by the same record marked uncertain.
WriteMark(c) ==
    /\ IF Matches(call[c].seen)
       THEN record' = MarkedUncertain(call[c].seen) /\ Return(c, "idle")
       ELSE UNCHANGED record /\ Return(c, "stale")
    /\ UNCHANGED <<adm, reply, claims, spent, log, answers>>

FailMark(c) == Waiting(c, "fail_mark") /\ WriteMark(c)

\* Mutant: waits until its own release succeeds.
FailUntilReleased(c) ==
    /\ Waiting(c, "fail_release")
    /\ Removable(call[c].seen)
    /\ record' = Released(call[c].seen)
    /\ spent' = spent \cup {call[c].attempt}
    /\ Return(c, "idle")
    /\ UNCHANGED <<adm, reply, claims, log, answers>>

FailRelease(c) ==
    /\ Waiting(c, "fail_release")
    /\ IF Removable(call[c].seen)
       THEN /\ record' = Released(call[c].seen)
            /\ spent' = spent \cup {call[c].attempt}
            /\ Return(c, "idle")
       ELSE UNCHANGED <<record, spent>> /\ Return(c, "stale")
    /\ UNCHANGED <<adm, reply, claims, log, answers>>

\* A supervisor names the claim and revision it observed in storage.
MarkCall(c) ==
    /\ call[c].pc \in Ready
    /\ record.state = "claimed"
    /\ Enter(c, "mark_get", None, record, "none")
    /\ UNCHANGED <<record, adm, reply, claims, spent, log, answers>>

MarkGet(c) ==
    /\ Waiting(c, "mark_get")
    /\ CASE ~Matches(call[c].seen) -> Return(c, "stale")
         [] Matches(call[c].seen) /\ record.mark = "uncertain" -> Return(c, "idle")
         [] Matches(call[c].seen) /\ record.mark = "none" -> GotoSeeing(c, "mark_replace", record)
    /\ UNCHANGED <<record, adm, reply, claims, spent, log, answers>>

MarkReplace(c) == Waiting(c, "mark_replace") /\ WriteMark(c)

-----------------------------------------------------------------------------
(* reconcile *)

\* The adopter observes its effect and the record together, and then calls.
ReconcileCall(c, assurance) ==
    /\ call[c].pc \in Ready
    /\ record # Absent
    /\ Enter(c, "reconcile_get", None, record, assurance)
    /\ UNCHANGED <<record, adm, reply, claims, spent, log, answers>>

\* An effect is committed with the outcome of its settle, never before it.
ObservedCommitted(c) == call[c].seen.state \in Outcomes

Releasable(c) == record.mark = "uncertain" /\ call[c].arg = "assured"

ReconcileGet(c) ==
    LET disagree == IF record.state \in Outcomes THEN ~ObservedCommitted(c) ELSE ObservedCommitted(c)
        current  == record.claim = call[c].seen.claim /\ record.revision = call[c].seen.revision
    IN  /\ Waiting(c, "reconcile_get")
        /\ CASE disagree -> Return(c, "violation")
             [] ~disagree /\ record.state # "claimed" -> Return(c, "idle")
             [] ~disagree /\ record.state = "claimed" /\ ~current -> Return(c, "stale")
             [] ~disagree /\ record.state = "claimed" /\ current ->
                    IF Releasable(c) THEN GotoSeeing(c, "reconcile_release", record)
                    ELSE Return(c, "idle")
        /\ UNCHANGED <<record, adm, reply, claims, spent, log, answers>>

ReconcileRelease(c) ==
    /\ Waiting(c, "reconcile_release")
    /\ IF Removable(call[c].seen)
       THEN record' = Released(call[c].seen) /\ Return(c, "idle")
       ELSE UNCHANGED record /\ Return(c, "stale")
    /\ UNCHANGED <<adm, reply, claims, spent, log, answers>>

-----------------------------------------------------------------------------
(* The environment *)

\* Time passes or the credential stops standing: an admission never holds again.
Lapse(a) ==
    \E v \in {"refused", "expired"} :
        /\ adm[a] # "expired"
        /\ adm[a] # v
        /\ adm' = [adm EXCEPT ![a] = v]
        /\ UNCHANGED <<record, reply, claims, spent, call, log, answers>>

\* A worker stops, or a storage call throws, at an await; its caller gets no answer.
Crash(c) ==
    /\ call[c].pc \notin Ready
    /\ Return(c, "idle")
    /\ reply' = [a \in Attempts |-> IF a = call[c].attempt /\ reply[a] = "pending"
                                    THEN "lost" ELSE reply[a]]
    /\ UNCHANGED <<record, adm, claims, spent, log, answers>>

-----------------------------------------------------------------------------

Init ==
    /\ record = Absent
    /\ adm = [a \in Attempts |-> "allow"]
    /\ reply = [a \in Attempts |-> "none"]
    /\ claims = [a \in Attempts |-> Absent]
    /\ spent = {}
    /\ call = [c \in Calls |-> Returned("idle")]
    /\ log = <<>>
    /\ answers = {}

Work(c) ==
    \E a \in Attempts :
        \/ BeginCall(c, a)
        \/ ResumeCall(c, a)
        \/ \E o \in Settlements : SettleCall(c, a, o)
        \/ \E f \in {"rolled-back", "uncertain"} : FailCall(c, a, f)

Recover(c) ==
    \/ MarkCall(c)
    \/ \E s \in {"assured", "unassured"} : ReconcileCall(c, s)

Step(c) ==
    \/ BeginGet(c) \/ BeginCreate(c) \/ BeginAnswer(c)
    \/ ResumeGet(c) \/ ResumeRead(c) \/ ResumeReclaim(c)
    \/ Grant(c) \/ GrantLapsed(c) \/ Undo(c)
    \/ SettleGet(c) \/ SettleReplace(c) \/ SettleCommit(c) \/ SettleRollback(c)
    \/ FailGet(c) \/ FailMark(c) \/ FailRelease(c)
    \/ MarkGet(c) \/ MarkReplace(c)
    \/ ReconcileGet(c) \/ ReconcileRelease(c)

Next ==
    \/ \E c \in Workers : Work(c)
    \/ \E c \in Supervisors : Recover(c)
    \/ \E c \in Calls : Step(c) \/ Crash(c)
    \/ \E a \in Attempts : RefuseCall(a)
    \/ \E a \in Lapsing : Lapse(a)

Spec == Init /\ [][Next]_vars

\* A call that has not crashed reaches its next await; a transaction ends.
FairSpec == Spec /\ \A c \in Calls : WF_vars(Step(c))

-----------------------------------------------------------------------------
(* Properties *)

\* The stored operation, the claims issued, the answers and the calls in flight have
\* the shapes of their TypeScript types; a claimed record has a claim and a settled
\* one has receipts and none.
TypeOK ==
    /\ record \in StoredOperation
    /\ adm \in [Attempts -> Verdicts]
    /\ reply \in [Attempts -> Replies]
    /\ claims \in [Attempts -> {Absent} \cup ClaimedRecord]
    /\ spent \subseteq Attempts
    /\ call \in [Calls -> Call]
    /\ log \in Seq(Receipt)
    /\ answers \subseteq Receipt

\* Nothing that committed is lost, repeated or reordered by a release, a
\* continuation or a stale worker: the stored receipts are exactly the committed
\* ones, and only the last of them may be final.
OutcomesRecordedOnce ==
    /\ record.receipts = log
    /\ \A i \in 1 .. Len(log) : log[i].outcome \in Finals => i = Len(log)

\* A final record is never replaced, whoever writes ("a stale worker cannot
\* replace a final outcome"); a record with receipts is never removed, and its
\* revision grows with every write.
FinalIsFinal ==
    [][/\ record.state \in Finals => record' = record
       /\ record.receipts # <<>> /\ record' # record => record'.revision = record.revision + 1]_vars

\* The call that takes the next step is c.
Acts(c) == call'[c] # call[c]

\* A claim ends only at the hand of the attempt that made it (its settle, its
\* fail, the undo of its own begin), or of a reconciliation that read it marked
\* uncertain and was given an assurance.
ClaimEndsByRight ==
    [][record.state = "claimed" /\ record'.claim # record.claim =>
        \E c \in Calls :
            /\ Acts(c)
            /\ \/ call[c].attempt = record.claim
               \/ /\ call[c].pc = "reconcile_release"
                  /\ call[c].arg = "assured"
                  /\ record.mark = "uncertain"]_vars

\* One operation id, one content: every outcome was produced by attempts with the
\* record's fingerprint, across releases and continuations.
OneContent ==
    record # Absent =>
        \A i \in 1 .. Len(log) : Fingerprint[log[i].attempt] = record.fingerprint

\* Every governing receipt ever answered is a committed outcome, and an answer that
\* was final agrees with the record for ever: no two retries hear different ends.
AnswersAgree ==
    \A r \in answers :
        /\ \E i \in 1 .. Len(log) : log[i] = r
        /\ r.outcome \in Finals => r = log[Len(log)] /\ record.state = r.outcome

\* Work is started, and a stored outcome disclosed, only on an admission that
\* holds when the answer leaves, after the last storage wait.
AnswersAreAdmitted ==
    [][\A a \in Attempts :
        reply[a] = "pending" /\ reply'[a] \in {"claimed", "existing"} => adm[a] = "allow"]_vars

\* The ledger implements the promise of OnceOperation.
Once == INSTANCE OnceOperation WITH holder <- record.claim, outcomes <- record.receipts
ImplementsOnce == Once!ASpec

\* Every call returns or throws: none waits for another's claim to end.
CallsReturn == \A c \in Calls : call[c].pc \notin Ready ~> call[c].pc \in Ready

-----------------------------------------------------------------------------
(* What comments and documents say, which the code does not do *)

\* "An authenticated refusal of one attempt, which neither claims nor changes its
\* operation": a refused attempt leaves no claim of its own behind.
RefusalLeavesNoClaim ==
    record.state = "claimed" => reply[record.claim] # "refused"

InFlight(a) == {c \in Calls : call[c].pc \notin Ready /\ call[c].attempt = a}

\* "The effect's transaction rolled back: nothing happened. The claim is released":
\* `fail(claim, 'rolled-back')`, called while storage still has this worker's
\* claim, unmarked, and no other call on it is in flight, is not told StaleClaim.
RolledBackIsReleased ==
    [][\A c \in Calls :
        /\ Acts(c)
        /\ call[c].pc \in Ready
        /\ call'[c].arg = "rolled-back"
        /\ record.state = "claimed" /\ record.mark = "none"
        /\ record.claim = call'[c].attempt
        /\ InFlight(record.claim) = {}
        => call'[c].pc # "stale"]_vars

=============================================================================
