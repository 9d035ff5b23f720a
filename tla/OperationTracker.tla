-------------------------- MODULE OperationTracker --------------------------
(***************************************************************************)
(* The client's view of one operation: class OperationTracker of           *)
(* sdk/aria-ap-ts/src/receipt.ts, with the check every receipt passes      *)
(* before it counts (checkReceipt of internal/receipt.ts).                 *)
(*                                                                         *)
(* Receipts come from answers and from lookups, late, repeated, in any     *)
(* order, to several calls of `observe` at once.  `Signed` holds whatever  *)
(* the receivers signed, contradictions included: a receipt that does not  *)
(* verify under its receiver's key is not in it, and changes nothing.      *)
(***************************************************************************)
EXTENDS Naturals, Sequences, FiniteSets

CONSTANTS
    Attempts,     \* attempts signed by the client, named by their request digests
    Operation,    \* the operation tracked
    OperationOf,  \* the operation each attempt was signed for, with its sender and receiver
    ReceiverOf,   \* the receiver credential each attempt was signed for
    Signed,       \* the receipts signed by receivers
    Observers,    \* slots for calls of observe and observeLookup in flight
    Histories,    \* bound: the answers of a lookup, each a sequence of receipts
    None

Finals   == {"completed", "rejected"}
Outcomes == {"accepted"} \cup Finals
States   == {"unknown", "inconsistent"} \cup Outcomes

\* A receipt is its signed content, which is what its digest identifies; `id` is
\* the receiver's choice.  An attempt receipt is always a refusal.
ASSUME SignedAssumption ==
    \A r \in Signed :
        /\ {"id", "operation", "digest", "receiver", "applies", "state"} \subseteq DOMAIN r
        /\ r.applies \in {"operation", "attempt"}
        /\ r.state \in Outcomes
        /\ r.applies = "attempt" => r.state = "rejected"

ASSUME NoneAssumption == None \notin Signed

ASSUME HistoryAssumption == Histories \subseteq Seq(Signed)

VARIABLES
    sent,      \* the attempts recorded
    current,   \* the state of the operation
    terminal,  \* the final receipt that governs, or None
    kept,      \* every verified statement
    ids,       \* the statement first seen under each receipt id
    call       \* the calls in flight: what is left to observe, and what was checked

vars == <<sent, current, terminal, kept, ids, call>>

Ids == {r.id : r \in Signed}

Call == [todo : Seq(Signed), mode : {"decision", "retrieval"}, seen : Signed \cup {None}]

Idle == [todo |-> <<>>, mode |-> "decision", seen |-> None]

-----------------------------------------------------------------------------
(* record *)

\* Mutant: an attempt is taken whatever operation it belongs to.
RecordAny(a) == sent' = sent \cup {a} /\ UNCHANGED <<current, terminal, kept, ids, call>>

\* Another operation's attempt, or another sender's or receiver's, throws.
Record(a) ==
    /\ OperationOf[a] = Operation
    /\ sent' = sent \cup {a}
    /\ UNCHANGED <<current, terminal, kept, ids, call>>

-----------------------------------------------------------------------------
(* observe and observeLookup *)

\* Mutant: the digest alone binds a receipt to an attempt.
BoundByDigest(r) == r.digest \in sent

\* The kept attempt its digest selects has the receipt's operation and receiver.
Bound(r) ==
    /\ r.digest \in sent
    /\ OperationOf[r.digest] = r.operation
    /\ ReceiverOf[r.digest] = r.receiver

\* A lookup returns operation receipts only.  (A decision whose transport status is
\* not its receipt's is one more receipt that does not verify.)
Admissible(r, mode) == Bound(r) /\ (mode = "retrieval" => r.applies = "operation")

Busy(o) == call[o].todo # <<>> \/ call[o].seen # None

Observe(o, r) ==
    /\ ~Busy(o)
    /\ call' = [call EXCEPT ![o] = [todo |-> <<r>>, mode |-> "decision", seen |-> None]]
    /\ UNCHANGED <<sent, current, terminal, kept, ids>>

\* The receipts of a lookup's answer are observed one after the other.
ObserveLookup(o, history) ==
    /\ ~Busy(o)
    /\ call' = [call EXCEPT ![o] = [todo |-> history, mode |-> "retrieval", seen |-> None]]
    /\ UNCHANGED <<sent, current, terminal, kept, ids>>

\* Mutant: a receipt that fails the check ends the loop over a lookup's answer.
CheckOrStop(o) ==
    LET r == Head(call[o].todo)
        ok == Admissible(r, call[o].mode)
    IN  /\ call[o].seen = None
        /\ call[o].todo # <<>>
        /\ call' = [call EXCEPT ![o].todo = IF ok THEN Tail(@) ELSE <<>>,
                                ![o].seen = IF ok THEN r ELSE None]
        /\ UNCHANGED <<sent, current, terminal, kept, ids>>

\* The check, up to the await: a receipt that fails it is not this operation's
\* evidence, and the next one is looked at.
Check(o) ==
    LET r == Head(call[o].todo)
    IN  /\ call[o].seen = None
        /\ call[o].todo # <<>>
        /\ call' = [call EXCEPT ![o].todo = Tail(@),
                                ![o].seen = IF Admissible(r, call[o].mode) THEN r ELSE None]
        /\ UNCHANGED <<sent, current, terminal, kept, ids>>

\* The same id was first seen with other content.
Equivocal(s) == ids[s.id] # None /\ ids[s.id] # s

\* Mutant: an accepted receipt sets the state whatever it was.
NextStateAccepting(s) ==
    CASE Equivocal(s) -> "inconsistent"
      [] ~Equivocal(s) /\ s.state = "accepted" -> "accepted"
      [] ~Equivocal(s) /\ s.state \in Finals /\ terminal \notin {None, s} -> "inconsistent"
      [] OTHER -> IF current = "inconsistent" THEN current ELSE s.state

\* Mutant: two final receipts with the same state agree.
NextStateByOutcome(s) ==
    CASE Equivocal(s) -> "inconsistent"
      [] ~Equivocal(s) /\ s.state = "accepted" -> IF current = "unknown" THEN "accepted" ELSE current
      [] ~Equivocal(s) /\ s.state \in Finals /\ terminal # None /\ current # s.state -> "inconsistent"
      [] OTHER -> IF current = "inconsistent" THEN current ELSE s.state

\* The state after an operation receipt.
NextState(s) ==
    CASE Equivocal(s) -> "inconsistent"
      [] ~Equivocal(s) /\ s.state = "accepted" -> IF current = "unknown" THEN "accepted" ELSE current
      [] ~Equivocal(s) /\ s.state \in Finals /\ terminal \notin {None, s} -> "inconsistent"
      [] OTHER -> IF current = "inconsistent" THEN current ELSE s.state

\* A final receipt governs from then on, unless the state is already inconsistent.
Governs(s) == s.state \in Finals /\ ~Equivocal(s) /\ terminal \in {None, s} /\ current # "inconsistent"

\* After the await: the verified statement is kept, and an operation receipt applied.
Apply(o) ==
    LET s == call[o].seen
    IN  /\ s # None
        /\ kept' = kept \cup {s}
        /\ ids' = [ids EXCEPT ![s.id] = IF @ = None THEN s ELSE @]
        /\ current' = IF s.applies = "operation" THEN NextState(s) ELSE current
        /\ terminal' = IF s.applies = "operation" /\ Governs(s) THEN s ELSE terminal
        /\ call' = [call EXCEPT ![o].seen = None]
        /\ UNCHANGED sent

-----------------------------------------------------------------------------

Init ==
    /\ sent = {}
    /\ current = "unknown"
    /\ terminal = None
    /\ kept = {}
    /\ ids = [i \in Ids |-> None]
    /\ call = [o \in Observers |-> Idle]

Step(o) == Check(o) \/ Apply(o)

Next ==
    \/ \E a \in Attempts : Record(a)
    \/ \E o \in Observers :
        \/ \E r \in Signed : Observe(o, r)
        \/ \E h \in Histories : ObserveLookup(o, h)
        \/ Step(o)

Spec == Init /\ [][Next]_vars

\* A checked receipt is applied: verifyReceipt settles.
FairSpec == Spec /\ \A o \in Observers : WF_vars(Step(o))

-----------------------------------------------------------------------------
(* Properties *)

\* The tracker's members and the calls in flight have the shapes of the class.
TypeOK ==
    /\ sent \subseteq Attempts
    /\ current \in States
    /\ terminal \in Signed \cup {None}
    /\ kept \subseteq Signed
    /\ ids \in [Ids -> Signed \cup {None}]
    /\ call \in [Observers -> Call]

\* The verified receipts of the operation.
Told == {s \in kept : s.applies = "operation"}

\* Two receipts with one id and different contents.
Clash(s, t) == s # t /\ s.id = t.id

\* Two different ends.
Dispute(s, t) == s # t /\ s.state \in Finals /\ t.state \in Finals

\* What the receipts kept say when none contradicts another.
Verdict ==
    IF \E s \in Told : s.state \in Finals
    THEN (CHOOSE s \in Told : s.state \in Finals).state
    ELSE IF Told = {} THEN "unknown" ELSE "accepted"

\* The first statement of each id is kept, and only the terminal one governs: the
\* state is explained by the operation receipts kept, and by nothing else.
Explained ==
    /\ \A s \in kept : ids[s.id] # None
    /\ \A i \in Ids : ids[i] # None => ids[i] \in kept /\ ids[i].id = i
    /\ terminal # None => /\ terminal \in Told
                          /\ terminal.state \in Finals
                          /\ current \in {terminal.state, "inconsistent"}
    /\ current = "unknown" <=> Told = {}
    /\ current \in Finals => terminal # None
    /\ current # "inconsistent" =>
          /\ \A s \in Told : s.state \in Finals => s = terminal
          /\ \A s, t \in Told : ~Clash(s, t)
    /\ current = "inconsistent" =>
          \/ \E s \in Told, t \in kept : Clash(s, t)
          \/ \E s, t \in Told : Dispute(s, t)

\* What was checked and is about to be applied is bound, as what was applied is.
BoundInFlight ==
    /\ \A s \in kept : Bound(s)
    /\ \A o \in Observers : call[o].seen # None => Bound(call[o].seen)
    /\ \A a \in sent : OperationOf[a] = Operation

\* The inductive invariant of the tracker.
TrackerInv == TypeOK /\ Explained /\ BoundInFlight

\* The state is the evidence's, whatever the order the receipts came in and however
\* often: contradicting operation receipts are always told, and where no receipt
\* contradicts another the state is what they say.
StateIsTheEvidence ==
    /\ (\E s, t \in Told : Clash(s, t) \/ Dispute(s, t)) => current = "inconsistent"
    /\ ~(\E s \in Told, t \in kept : Clash(s, t)) /\ ~(\E s, t \in Told : Dispute(s, t))
          => current = Verdict

\* "It never moves back": a state is left only towards a later one, and an
\* inconsistent operation stays so.
Rank(state) == CASE state = "unknown" -> 0
                 [] state = "accepted" -> 1
                 [] state \in Finals -> 2
                 [] state = "inconsistent" -> 3

NeverMovesBack == [][current' # current => Rank(current') > Rank(current)]_vars

\* A statement counts only if it is this operation's, signed by the receiver that
\* the attempt it names was sent to; and the state moves on such a statement alone.
EvidenceIsBound ==
    /\ \A s \in kept :
          s.digest \in sent /\ s.operation = Operation /\ s.receiver = ReceiverOf[s.digest]
    /\ current # "unknown" => Told # {}

\* A receipt that names an attempt recorded before is kept in the end, once it was
\* given to observe or is in a lookup's answer, whatever else that answer holds.
DeliveredIsKept ==
    \A o \in Observers, r \in Signed :
        (\E i \in 1 .. Len(call[o].todo) : call[o].todo[i] = r) /\ Admissible(r, call[o].mode)
            ~> r \in kept

-----------------------------------------------------------------------------

\* "the same `id` with other content is also `inconsistent`": whichever of the two came first.
EquivocationIsTold ==
    (\E s \in Told, t \in kept : Clash(s, t)) => current = "inconsistent"

=============================================================================
