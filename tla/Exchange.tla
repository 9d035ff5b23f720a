------------------------------ MODULE Exchange ------------------------------
(***************************************************************************)
(* One operation end to end: the agent of examples/agent-client.ts, which  *)
(* sends up to `Tries` attempts and looks the operation up before each     *)
(* retry, and the receiver of examples/protected-handler.ts, over a        *)
(* network that loses, delays and repeats, with handlers that crash and    *)
(* transactions that roll back, and a supervisor that reconciles.          *)
(*                                                                         *)
(* A call of the ledger is one step here: OperationLedger shows that its   *)
(* interleavings implement that, and OperationTracker details `observe`.   *)
(* The receiver may also accept an operation, and continue it by `resume`  *)
(* on a later attempt's admission, as the API documents.                   *)
(***************************************************************************)
EXTENDS Naturals, Sequences, SequencesExt

CONSTANTS
    Tries,        \* attempts the client makes
    Settlements,  \* what the receiver settles operations as
    None

ASSUME TriesAssumption == Tries \in Nat \ {0}

Finals == {"completed", "rejected"}

ASSUME SettlementsAssumption == Settlements \subseteq {"accepted"} \cup Finals

Attempts  == 1 .. Tries
Transfers == {<<"transfer", n>> : n \in Attempts}
Requests  == Transfers \cup {<<"lookup", n>> : n \in Attempts}

VARIABLES
    client,    \* the agent: where it is, which try, and what is left to observe
    tracker,   \* its tracker: state, terminal receipt, attempts recorded
    sent,      \* the requests that were sent; the network keeps them
    answers,   \* the answers that were sent
    handled,   \* how far the receiver is with each request
    record,    \* the operation's record, or None
    moved      \* how often money was moved

vars == <<client, tracker, sent, answers, handled, record, moved>>

Problem == [kind |-> "problem"]

Answer(q, message) == answers' = answers \cup {[to |-> q, message |-> message]}

-----------------------------------------------------------------------------
(* The receiver *)

Stage(q, stage) == handled' = [handled EXCEPT ![q] = stage]

\* verifyPresentation: the request's challenge is consumed with the first copy.
Authenticate(q) ==
    /\ q \in sent /\ handled[q] = "none"
    /\ Stage(q, "authenticated")
    /\ UNCHANGED <<client, tracker, sent, answers, record, moved>>

\* A copy, or a request whose challenge is gone, gets an unsigned answer.
Unauthenticated(q) ==
    /\ q \in sent
    /\ Answer(q, Problem)
    /\ UNCHANGED <<client, tracker, sent, handled, record, moved>>

\* The lookup is admitted, or its credential is refused, or there is no such operation.
Lookup(q) ==
    /\ q \notin Transfers /\ handled[q] = "authenticated"
    /\ Stage(q, "ended")
    /\ \/ Answer(q, Problem)
       \/ record # None /\ Answer(q, [kind |-> "history", history |-> record.receipts])
    /\ UNCHANGED <<client, tracker, sent, record, moved>>

Governing ==
    LET finals == {i \in DOMAIN record.receipts : record.receipts[i].state \in Finals}
    IN  record.receipts[IF finals # {} THEN Min(finals) ELSE Len(record.receipts)]

OfAttempt(n) == [by |-> n, state |-> "rejected", applies |-> "attempt"]

Receipt(r) == [kind |-> "receipt", receipt |-> r]

\* Admission, or the ledger while the operation is claimed, refuses this attempt only.
Refuse(n) ==
    /\ handled[<<"transfer", n>>] = "authenticated"
    /\ Stage(<<"transfer", n>>, "ended")
    /\ Answer(<<"transfer", n>>, Receipt(OfAttempt(n)))
    /\ UNCHANGED <<client, tracker, sent, record, moved>>

\* begin: the operation is claimed for the first attempt admitted.
Claim(n) ==
    /\ handled[<<"transfer", n>>] = "authenticated"
    /\ record = None
    /\ Stage(<<"transfer", n>>, "claimed")
    /\ record' = [state |-> "claimed", claim |-> n, uncertain |-> FALSE, receipts |-> <<>>]
    /\ UNCHANGED <<client, tracker, sent, answers, moved>>

\* begin: an outcome that is stored is answered, and nothing runs.
Existing(n) ==
    /\ handled[<<"transfer", n>>] = "authenticated"
    /\ record # None /\ record.claim = None
    /\ Stage(<<"transfer", n>>, "answered")
    /\ Answer(<<"transfer", n>>, Receipt(Governing))
    /\ UNCHANGED <<client, tracker, sent, record, moved>>

\* resume: the accepted operation goes on, on a later attempt's admission.
Resume(n) ==
    /\ handled[<<"transfer", n>>] = "answered"
    /\ record # None /\ record.state = "accepted" /\ record.claim = None
    /\ Stage(<<"transfer", n>>, "resumed")
    /\ record' = [record EXCEPT !.state = "claimed", !.claim = n]
    /\ UNCHANGED <<client, tracker, sent, answers, moved>>

Working(n) == handled[<<"transfer", n>>] \in {"claimed", "resumed"}

\* Mutant: as long as there is a record.
HeldByAny(n) == record # None

\* The conditional write of settle, and of fail, finds this worker's claim.
Held(n) == record # None /\ record.claim = n

\* The money moves and the outcome is recorded, in one transaction.
Commit(n, o) ==
    /\ Working(n) /\ Held(n)
    /\ Stage(<<"transfer", n>>, "committed")
    /\ moved' = IF o = "completed" THEN moved + 1 ELSE moved
    /\ record' = [record EXCEPT !.state = o, !.claim = None, !.uncertain = FALSE,
                                !.receipts = Append(@, [by |-> n, state |-> o, applies |-> "operation"])]
    /\ UNCHANGED <<client, tracker, sent, answers>>

\* The recorded outcome is answered.
Respond(n) ==
    /\ handled[<<"transfer", n>>] = "committed"
    /\ Stage(<<"transfer", n>>, "ended")
    /\ Answer(<<"transfer", n>>, Receipt(CHOOSE r \in ToSet(record.receipts) : r.by = n))
    /\ UNCHANGED <<client, tracker, sent, record, moved>>

\* The commit's own answer is lost: fail finds no claim of this worker's, and throws.
CommitUnseen(n) ==
    /\ handled[<<"transfer", n>>] = "committed"
    /\ Stage(<<"transfer", n>>, "ended")
    /\ Answer(<<"transfer", n>>, Problem)
    /\ UNCHANGED <<client, tracker, sent, record, moved>>

\* Mutant: what was accepted before is forgotten.
ReleasedWhole == None

\* Back to no record, or to accepted when the claim continued an accepted operation.
Released ==
    IF record.receipts = <<>> THEN None
    ELSE [record EXCEPT !.state = "accepted", !.claim = None, !.uncertain = FALSE]

\* The transaction threw: fail releases, or marks, the claim if it is still this worker's.
Fail(n, rolledBack) ==
    /\ Working(n)
    /\ Stage(<<"transfer", n>>, "ended")
    /\ Answer(<<"transfer", n>>, Problem)
    /\ record' = IF ~Held(n) THEN record ELSE IF rolledBack THEN Released ELSE [record EXCEPT !.uncertain = TRUE]
    /\ UNCHANGED <<client, tracker, sent, moved>>

\* Mutant: the outcome of settle is answered, whatever becomes of its transaction.
AnsweredBefore(n) ==
    /\ Working(n) /\ Held(n)
    /\ Stage(<<"transfer", n>>, "ended")
    /\ \E o \in Settlements : Answer(<<"transfer", n>>, Receipt([by |-> n, state |-> o, applies |-> "operation"]))
    /\ UNCHANGED <<client, tracker, sent, record, moved>>

\* It rolled back after settle: the claim is spent, fail throws, and the record is still claimed.
RollBackSettled(n) ==
    /\ Working(n) /\ Held(n)
    /\ Stage(<<"transfer", n>>, "ended")
    /\ Answer(<<"transfer", n>>, Problem)
    /\ UNCHANGED <<client, tracker, sent, record, moved>>

\* The handler stops between two steps: what is committed stays, nothing is answered.
Crash(q) ==
    /\ handled[q] \in {"authenticated", "claimed", "resumed", "committed", "answered"}
    /\ Stage(q, "ended")
    /\ UNCHANGED <<client, tracker, sent, answers, record, moved>>

-----------------------------------------------------------------------------
(* The supervisor *)

\* Mutant: only claims that their workers marked are looked after.
SupervisesFailed == FALSE

\* It may take a worker for dead that is not.
Supervises == record # None /\ record.claim # None /\ ~record.uncertain

MarkUncertain ==
    /\ Supervises
    /\ record' = [record EXCEPT !.uncertain = TRUE]
    /\ UNCHANGED <<client, tracker, sent, answers, handled, moved>>

\* A claim that is marked, assured by the transaction: a worker that lives cannot commit any more.
Reconcile ==
    /\ record # None /\ record.claim # None /\ record.uncertain
    /\ record' = Released
    /\ UNCHANGED <<client, tracker, sent, answers, handled, moved>>

-----------------------------------------------------------------------------
(* The client *)

\* observe: verified receipts of operations move the state, forward only.
Applied(t, r) ==
    IF r.applies = "attempt" \/ r.by \notin t.sent \/ (r.state = "accepted" /\ t.state # "unknown") THEN t
    ELSE IF r.state = "accepted" THEN [t EXCEPT !.state = "accepted"]
    ELSE IF t.terminal # None /\ t.terminal # r THEN [t EXCEPT !.state = "inconsistent"]
    ELSE IF t.state = "inconsistent" THEN t
    ELSE [t EXCEPT !.state = r.state, !.terminal = r]

\* Mutant: a try that failed is not counted.
NextTryUncounted(n) ==
    [pc |-> IF n < Tries /\ tracker'.state \in {"unknown", "accepted"} THEN "loop" ELSE "done", try |-> n, todo |-> <<>>]

\* The loop: another attempt while there are tries left and the state is not final.
NextTry(n) ==
    [pc |-> IF n < Tries /\ tracker'.state \in {"unknown", "accepted"} THEN "loop" ELSE "done", try |-> n + 1, todo |-> <<>>]

Current == <<IF client.pc \in {"looking", "observing"} THEN "lookup" ELSE "transfer", client.try>>

\* The receiver could not be authenticated anew: the operation is not called unsent.
Unauthentic ==
    /\ client.pc \in {"loop", "mutate"}
    /\ UNCHANGED <<tracker, sent, answers, handled, record, moved>>
    /\ client' = NextTry(client.try)

SendLookup ==
    /\ client.pc = "loop" /\ tracker.sent # {}
    /\ client' = [client EXCEPT !.pc = "looking"]
    /\ sent' = sent \cup {<<"lookup", client.try>>}
    /\ UNCHANGED <<tracker, answers, handled, record, moved>>

\* Each receipt of the history is checked and applied in turn.
LookedUp(answer) ==
    /\ client.pc = "looking" /\ answer.to = Current /\ answer.message.kind = "history"
    /\ client' = [client EXCEPT !.pc = "observing", !.todo = answer.message.history]
    /\ UNCHANGED <<tracker, sent, answers, handled, record, moved>>

ObserveNext ==
    /\ client.pc = "observing" /\ client.todo # <<>>
    /\ tracker' = Applied(tracker, Head(client.todo))
    /\ client' = [client EXCEPT !.todo = Tail(@)]
    /\ UNCHANGED <<sent, answers, handled, record, moved>>

\* Anything known ends the loop; otherwise, or if the lookup brought nothing, the attempt follows.
LookupOver ==
    /\ \/ client.pc = "observing" /\ client.todo = <<>>
       \/ client.pc = "looking"
       \/ client.pc = "loop" /\ tracker.sent = {}
    /\ client' = [client EXCEPT !.pc = IF @ = "observing" /\ tracker.state # "unknown" THEN "done" ELSE "mutate"]
    /\ UNCHANGED <<tracker, sent, answers, handled, record, moved>>

\* The attempt is kept before it is sent.
SendAttempt ==
    /\ client.pc = "mutate"
    /\ client' = [client EXCEPT !.pc = "waiting"]
    /\ tracker' = [tracker EXCEPT !.sent = @ \cup {client.try}]
    /\ sent' = sent \cup {<<"transfer", client.try>>}
    /\ UNCHANGED <<answers, handled, record, moved>>

\* An answer with a receipt is observed; without one, or with none at all, the loop goes on.
Answered(answer) ==
    /\ client.pc = "waiting" /\ answer.to = Current /\ answer.message.kind = "receipt"
    /\ tracker' = Applied(tracker, answer.message.receipt)
    /\ client' = NextTry(client.try)
    /\ UNCHANGED <<sent, answers, handled, record, moved>>

Lost ==
    /\ client.pc = "waiting"
    /\ UNCHANGED <<tracker, sent, answers, handled, record, moved>>
    /\ client' = NextTry(client.try)

-----------------------------------------------------------------------------

Init ==
    /\ client = [pc |-> "loop", try |-> 1, todo |-> <<>>]
    /\ tracker = [state |-> "unknown", terminal |-> None, sent |-> {}]
    /\ sent = {} /\ answers = {}
    /\ handled = [q \in Requests |-> "none"]
    /\ record = None
    /\ moved = 0

Client ==
    \/ Unauthentic \/ SendLookup \/ ObserveNext \/ LookupOver \/ SendAttempt \/ Lost
    \/ \E answer \in answers : LookedUp(answer) \/ Answered(answer)

Receiver ==
    \/ \E q \in Requests : Authenticate(q) \/ Unauthenticated(q) \/ Lookup(q) \/ Crash(q)
    \/ \E n \in Attempts :
        \/ Refuse(n) \/ Claim(n) \/ Existing(n) \/ Resume(n) \/ Respond(n) \/ CommitUnseen(n) \/ RollBackSettled(n)
        \/ \E o \in Settlements : Commit(n, o)
        \/ \E rolledBack \in BOOLEAN : Fail(n, rolledBack)

Next == Client \/ Receiver \/ MarkUncertain \/ Reconcile

\* The client waits for no answer for ever, and the supervisor comes round.
Spec == Init /\ [][Next]_vars /\ WF_vars(Client) /\ WF_vars(MarkUncertain) /\ WF_vars(Reconcile)

-----------------------------------------------------------------------------
(* Properties *)

Outcomes == [by : Attempts, state : {"accepted"} \cup Finals, applies : {"operation"}]

Messages ==
    {Problem} \cup [kind : {"receipt"}, receipt : Outcomes \cup {OfAttempt(n) : n \in Attempts}]
    \cup [kind : {"history"}, history : Seq(Outcomes)]

Records ==
    [state : {"claimed", "accepted"} \cup Finals, claim : Attempts \cup {None}, uncertain : BOOLEAN, receipts : Seq(Outcomes)]

ASSUME NoneAssumption == None \notin Nat /\ None \notin Outcomes /\ None \notin Records

\* The agent, its tracker, the messages and the record are where the code can have them.
TypeOK ==
    /\ client \in [pc : {"loop", "looking", "observing", "mutate", "waiting", "done"}, try : 1 .. Tries + 1, todo : Seq(Outcomes)]
    /\ client.pc # "done" => client.try \in Attempts
    /\ tracker \in [state : {"unknown", "accepted", "inconsistent"} \cup Finals, terminal : Outcomes \cup {None}, sent : SUBSET Attempts]
    /\ sent \subseteq Requests
    /\ answers \subseteq [to : Requests, message : Messages]
    /\ handled \in [Requests -> {"none", "authenticated", "claimed", "answered", "resumed", "committed", "ended"}]
    /\ record \in Records \cup {None}
    /\ moved \in Nat

\* The money moves at most once, and has moved exactly if the record says so: whatever
\* was lost or repeated, whoever crashed, and whatever the supervisor took for dead.
EffectOnce == moved <= 1 /\ (moved = 1 <=> record # None /\ record.state = "completed")

\* What the agent ends with is so: a final state is the record's, by the receipt that
\* governs it, "accepted" was recorded, and an operation without attempts never ran.
ClientAgrees ==
    /\ tracker.state # "inconsistent"
    /\ tracker.state \in Finals => record # None /\ record.state = tracker.state /\ Governing = tracker.terminal
    /\ tracker.state = "accepted" => record # None /\ record.receipts # <<>>
    /\ tracker.sent = {} => record = None /\ moved = 0

\* The outcomes recorded.
Recorded == IF record = None THEN {} ELSE ToSet(record.receipts)

\* A receipt of the operation that anyone was answered with is in the record for good.
AnsweredIsRecorded ==
    \A answer \in answers :
        LET m == answer.message
        IN  /\ m.kind = "receipt" /\ m.receipt.applies = "operation" => m.receipt \in Recorded
            /\ m.kind = "history" => ToSet(m.history) \subseteq Recorded

\* Whatever happens to its worker, no claim holds the operation for ever.
ClaimsEnd == \A n \in Attempts : (record # None /\ record.claim = n) ~> (record = None \/ record.claim # n)

\* The agent ends, after so many tries.
ClientEnds == <>(client.pc = "done")

Labelled(r) == [label |-> r.by, state |-> r.state, applies |-> r.applies]

Labels(rs) == [i \in DOMAIN rs |-> Labelled(rs[i])]

\* A claim that continues an accepted operation leaves it accepted there.
AbstractOf(r) ==
    [state |-> IF r.state = "claimed" /\ r.receipts # <<>> THEN "accepted" ELSE r.state,
     fingerprint |-> "body", claim |-> r.claim, uncertain |-> r.uncertain, receipts |-> Labels(r.receipts)]

Labelings == [label : Attempts, state : {"accepted"} \cup Finals, applies : {"operation"}]

AbstractRecords ==
    [state : {"claimed", "accepted"} \cup Finals, fingerprint : {"body"}, claim : Attempts \cup {None}, uncertain : BOOLEAN,
     receipts : Seq(Labelings)]

ASSUME AbstractNoneAssumption == None \notin AbstractRecords

AbstractRecord == IF record = None THEN None ELSE AbstractOf(record)

AbstractReceipts == IF record = None THEN {} ELSE {Labelled(record.receipts[i]) : i \in DOMAIN record.receipts}

AbstractClient ==
    [state |-> tracker.state, terminal |-> IF tracker.terminal = None THEN None ELSE tracker.terminal.by,
     everSent |-> tracker.sent # {}]

Consumed == {q \in Requests : handled[q] \notin {"none", "authenticated"}}

Reference ==
    INSTANCE ConformanceReference WITH
        Operations <- {"op"}, OperationOf <- [n \in Attempts |-> "op"], FingerprintOf <- [n \in Attempts |-> "body"],
        Challenges <- Requests, External <- FALSE, Given <- {},
        consumed <- Consumed, receipts <- AbstractReceipts,
        records <- [op \in {"op"} |-> AbstractRecord],
        effects <- [op \in {"op"} |-> moved],
        clients <- [op \in {"op"} |-> AbstractClient]

\* Each step of agent and receiver is one of the reference model, or none of its
\* business: the sequences that conformance tests are drawn from cover this exchange.
ImplementsReference == Reference!RSpec

-----------------------------------------------------------------------------

\* A record is claimed or says what its last receipt does, and only that may be final.
RecordFits ==
    record # None =>
        /\ record.claim # None <=> record.state = "claimed"
        /\ record.uncertain => record.claim # None
        /\ \A i \in DOMAIN record.receipts :
                record.receipts[i].state \in Finals => i = Len(record.receipts) /\ record.state = record.receipts[i].state
        /\ record.state # "claimed" => record.receipts # <<>> /\ record.state = record.receipts[Len(record.receipts)].state

\* Nothing is handled, claimed or committed that the agent did not keep and send.
Reached ==
    /\ \A n \in Attempts : <<"transfer", n>> \in sent => n \in tracker.sent
    /\ \A q \in Requests : handled[q] # "none" => q \in sent
    /\ record # None => tracker.sent # {}
    /\ \A n \in Attempts : handled[<<"transfer", n>>] = "committed" => \E r \in Recorded : r.by = n

\* What the agent goes by, and what it still has to observe, is recorded.
Founded ==
    /\ ToSet(client.todo) \subseteq Recorded
    /\ tracker.terminal = None => tracker.state \in {"unknown", "accepted"}
    /\ tracker.terminal # None =>
            tracker.terminal \in Recorded /\ tracker.terminal.state \in Finals /\ tracker.state = tracker.terminal.state
    /\ tracker.state = "accepted" => Recorded # {}

\* The inductive invariant.
ExchangeInv == TypeOK /\ RecordFits /\ Reached /\ EffectOnce /\ AnsweredIsRecorded /\ Founded

=============================================================================
