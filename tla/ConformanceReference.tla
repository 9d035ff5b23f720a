------------------------ MODULE ConformanceReference ------------------------
(***************************************************************************)
(* The reference model of the operation rules, conformance/ap/model.mjs:   *)
(* the state machine that the conformance sequences run against, one       *)
(* action per step.  A step's result matters here only for the receipts    *)
(* that reach the client: a refusal changes nothing of the operation.      *)
(***************************************************************************)
EXTENDS Naturals, Sequences, SequencesExt

CONSTANTS
    Operations,
    Attempts,
    OperationOf,    \* the operation of each attempt
    FingerprintOf,  \* and its content's fingerprint
    Challenges,     \* the challenges issued
    External,       \* whether an effect lands by itself, apart from its outcome
    Given,          \* receipts a client may be shown from elsewhere
    None

VARIABLES
    consumed,  \* the challenges consumed
    records,   \* the record of each operation, or None
    effects,   \* the effects that reached the world, counted apart from the record
    receipts,  \* every receipt, by its label
    clients    \* the client's view of each operation

rvars == <<consumed, records, effects, receipts, clients>>

Outcomes == {"completed", "accepted", "rejected"}

\* The first final receipt, or else the latest.
Governing(record) ==
    LET terminal == SelectSeq(record.receipts, LAMBDA r : r.state # "accepted")
    IN  IF terminal # <<>> THEN Head(terminal) ELSE Last(record.receipts)

\* The operation's state moves on operation receipts only.
ObserveReceipt(c, r) ==
    IF r.applies = "attempt" \/ (r.state = "accepted" /\ c.state # "unknown") THEN c
    ELSE IF r.state = "accepted" THEN [c EXCEPT !.state = "accepted"]
    ELSE IF c.terminal # None /\ c.terminal # r.label THEN [c EXCEPT !.state = "inconsistent"]
    ELSE IF c.state = "inconsistent" THEN c
    ELSE [c EXCEPT !.state = r.state, !.terminal = r.label]

\* What is delivered of a result: the receipt it carries, or all of them, in order.
Observed(op, r) == [clients EXCEPT ![op] = ObserveReceipt(@, r)]

AllObserved(op, rs) == [clients EXCEPT ![op] = FoldLeft(ObserveReceipt, @, rs)]

Sent(op) == [clients EXCEPT ![op].everSent = TRUE]

SentAndObserved(op, r) == [clients EXCEPT ![op] = ObserveReceipt([@ EXCEPT !.everSent = TRUE], r)]

Consume(challenge) == challenge \in Challenges \ consumed /\ consumed' = consumed \cup {challenge}

\* Released without effect: back to no record, or to accepted when resumed from it.
Released(record) ==
    IF record.receipts = <<>> THEN None
    ELSE [record EXCEPT !.state = "accepted", !.claim = None, !.uncertain = FALSE]

-----------------------------------------------------------------------------
(* The steps *)

\* An attempt that does not arrive, or whose challenge is not live.
AttemptLost(a) ==
    /\ clients' = Sent(OperationOf[a])
    /\ UNCHANGED <<consumed, records, effects, receipts>>

\* Denied, or of other content, or while the operation is claimed.
AttemptRefused(a, challenge) ==
    /\ Consume(challenge)
    /\ clients' = Sent(OperationOf[a])
    /\ UNCHANGED <<records, effects, receipts>>

AttemptClaims(a, challenge) ==
    LET op == OperationOf[a]
    IN  /\ Consume(challenge)
        /\ records[op] = None
        /\ records' = [records EXCEPT ![op] = [state |-> "claimed", fingerprint |-> FingerprintOf[a], claim |-> a,
                                               uncertain |-> FALSE, receipts |-> <<>>]]
        /\ clients' = Sent(op)
        /\ UNCHANGED <<effects, receipts>>

AttemptExisting(a, challenge, delivered) ==
    LET op == OperationOf[a]
    IN  /\ Consume(challenge)
        /\ records[op] # None /\ records[op].fingerprint = FingerprintOf[a] /\ records[op].claim = None
        /\ clients' = IF delivered THEN SentAndObserved(op, Governing(records[op])) ELSE Sent(op)
        /\ UNCHANGED <<records, effects, receipts>>

Holds(a) == records[OperationOf[a]] # None /\ records[OperationOf[a]].claim = a

Settled(record, r) ==
    [record EXCEPT !.state = r.state, !.claim = None, !.uncertain = FALSE, !.receipts = Append(@, r)]

\* An external effect was counted when it landed.
Settle(a, label, o, delivered) ==
    LET op == OperationOf[a]
        r == [label |-> label, state |-> o, applies |-> "operation"]
    IN  /\ Holds(a)
        /\ records' = [records EXCEPT ![op] = Settled(@, r)]
        /\ effects' = IF o = "completed" /\ ~External THEN [effects EXCEPT ![op] = @ + 1] ELSE effects
        /\ receipts' = receipts \cup {r}
        /\ clients' = IF delivered THEN Observed(op, r) ELSE clients
        /\ UNCHANGED consumed

FailUncertain(a) ==
    /\ Holds(a)
    /\ records' = [records EXCEPT ![OperationOf[a]].uncertain = TRUE]
    /\ UNCHANGED <<consumed, effects, receipts, clients>>

FailRolledBack(a) ==
    /\ Holds(a)
    /\ records' = [records EXCEPT ![OperationOf[a]] = Released(@)]
    /\ UNCHANGED <<consumed, effects, receipts, clients>>

\* Of a claim marked uncertain, that was the one observed, with an assurance.
Reconcile(op) ==
    /\ records[op] # None /\ records[op].claim # None /\ records[op].uncertain
    /\ records' = [records EXCEPT ![op] = Released(@)]
    /\ UNCHANGED <<consumed, effects, receipts, clients>>

Resume(a) ==
    LET op == OperationOf[a]
    IN  /\ records[op] # None /\ records[op].state = "accepted" /\ records[op].claim = None
        /\ records[op].fingerprint = FingerprintOf[a]
        /\ records' = [records EXCEPT ![op].claim = a]
        /\ UNCHANGED <<consumed, effects, receipts, clients>>

Effect(op) ==
    /\ External
    /\ effects' = [effects EXCEPT ![op] = @ + 1]
    /\ UNCHANGED <<consumed, records, receipts, clients>>

Lookup(op, challenge, delivered) ==
    /\ Consume(challenge)
    /\ clients' = IF delivered /\ records[op] # None THEN AllObserved(op, records[op].receipts) ELSE clients
    /\ UNCHANGED <<records, effects, receipts>>

ClientObserve(op, r) ==
    /\ r \in receipts \cup Given
    /\ receipts' = receipts \cup {r}
    /\ clients' = Observed(op, r)
    /\ UNCHANGED <<consumed, records, effects>>

RInit ==
    /\ consumed = {}
    /\ records = [op \in Operations |-> None]
    /\ effects = [op \in Operations |-> 0]
    /\ receipts = {}
    /\ clients = [op \in Operations |-> [state |-> "unknown", terminal |-> None, everSent |-> FALSE]]

\* A receipt is labelled by the attempt that settled.
RNext ==
    \/ \E a \in Attempts :
        \/ AttemptLost(a) \/ FailUncertain(a) \/ FailRolledBack(a) \/ Resume(a)
        \/ \E challenge \in Challenges :
            \/ AttemptRefused(a, challenge) \/ AttemptClaims(a, challenge)
            \/ \E delivered \in BOOLEAN : AttemptExisting(a, challenge, delivered)
        \/ \E o \in Outcomes, delivered \in BOOLEAN : Settle(a, a, o, delivered)
    \/ \E op \in Operations :
        \/ Reconcile(op) \/ Effect(op)
        \/ \E challenge \in Challenges, delivered \in BOOLEAN : Lookup(op, challenge, delivered)
        \/ \E r \in receipts \cup Given : ClientObserve(op, r)

RSpec == RInit /\ [][RNext]_rvars

=============================================================================
