--------------------------- MODULE Exchange_proofs ---------------------------
(***************************************************************************)
(* The exchange of agent and receiver, for any number of tries.  Its       *)
(* invariant is inductive: types, then what each step does to the record   *)
(* and to the effect, then what is answered, where requests come from, and *)
(* what the agent concludes; each relies on what is recorded staying so.   *)
(* Then the refinement: what each step of the code does to the variables of*)
(* the reference model, and which step of the reference that is.           *)
(***************************************************************************)
EXTENDS Exchange, SequenceTheorems, TLAPS

\* Attempts and lookups are requests.
LEMMA RequestIn ==
  \A n \in Attempts : <<"transfer", n>> \in Requests /\ <<"transfer", n>> \in Transfers /\ <<"lookup", n>> \in Requests
  BY DEF Requests, Transfers

\* What the receiver answers is a message.
LEMMA MessageIn ==
  /\ Problem \in Messages
  /\ \A r \in Outcomes : Receipt(r) \in Messages
  /\ \A n \in Attempts : Receipt(OfAttempt(n)) \in Messages
  /\ \A h \in Seq(Outcomes) : [kind |-> "history", history |-> h] \in Messages
  BY DEF Messages, Receipt

\* What a message carries.
LEMMA MessageParts ==
  ASSUME NEW m \in Messages
  PROVE  /\ m.kind = "receipt" => m.receipt \in Outcomes \cup {OfAttempt(n) : n \in Attempts}
         /\ m.kind = "history" => m.history \in Seq(Outcomes)
  BY DEF Messages, Problem

\* What a record consists of.
LEMMA RecordParts ==
  ASSUME TypeOK, record # None
  PROVE  /\ record \in Records
         /\ record.receipts \in Seq(Outcomes) /\ record.claim \in Attempts \cup {None}
         /\ Len(record.receipts) \in Nat /\ DOMAIN record.receipts = 1 .. Len(record.receipts)
         /\ Recorded = {record.receipts[i] : i \in 1 .. Len(record.receipts)}
         /\ Recorded \subseteq Outcomes
  <1>1. record \in Records /\ record.receipts \in Seq(Outcomes) /\ record.claim \in Attempts \cup {None}
    BY DEF TypeOK, Records
  <1>2. Len(record.receipts) \in Nat /\ DOMAIN record.receipts = 1 .. Len(record.receipts)
    BY <1>1
  <1>3. Recorded = {record.receipts[i] : i \in 1 .. Len(record.receipts)}
    BY <1>2 DEF Recorded, ToSet
  <1>. QED BY <1>1, <1>2, <1>3

\* Each step leaves a record that has the record's type: a release,
LEMMA ReleasedIn ==
  ASSUME TypeOK, record # None PROVE Released \in Records \cup {None}
  BY RecordParts DEF Released, Records

\* a mark,
LEMMA MarkedIn ==
  ASSUME TypeOK, record # None PROVE [record EXCEPT !.uncertain = TRUE] \in Records
  BY RecordParts DEF Records

\* a claim,
LEMMA ClaimedIn ==
  ASSUME NEW n \in Attempts PROVE [state |-> "claimed", claim |-> n, uncertain |-> FALSE, receipts |-> <<>>] \in Records
  BY DEF Records

\* a continuation,
LEMMA ResumedIn ==
  ASSUME TypeOK, record # None, NEW n \in Attempts PROVE [record EXCEPT !.state = "claimed", !.claim = n] \in Records
  BY RecordParts DEF Records

\* and a commit.
LEMMA CommittedIn ==
  ASSUME TypeOK, record # None, NEW n \in Attempts, NEW o \in Settlements
  PROVE  [record EXCEPT !.state = o, !.claim = None, !.uncertain = FALSE,
                        !.receipts = Append(@, [by |-> n, state |-> o, applies |-> "operation"])] \in Records
  <1>1. [by |-> n, state |-> o, applies |-> "operation"] \in Outcomes /\ o \in {"claimed", "accepted"} \cup Finals
    BY SettlementsAssumption DEF Outcomes
  <1>2. Append(record.receipts, [by |-> n, state |-> o, applies |-> "operation"]) \in Seq(Outcomes)
    BY <1>1, RecordParts
  <1>. QED BY <1>1, <1>2, RecordParts DEF Records

\* What a receipt of the operation says.
LEMMA OutcomeParts ==
  ASSUME NEW r \in Outcomes
  PROVE  r.by \in Attempts /\ r.state \in {"accepted"} \cup Finals /\ r.applies = "operation"
  BY DEF Outcomes

\* The agent after a try has its type.
LEMMA NextTryIn ==
  ASSUME NEW n \in Attempts
  PROVE  /\ NextTry(n) \in [pc : {"loop", "looking", "observing", "mutate", "waiting", "done"}, try : 1 .. Tries + 1, todo : Seq(Outcomes)]
         /\ NextTry(n).pc # "done" => NextTry(n).try \in Attempts
         /\ NextTry(n).todo = <<>>
  <1>1. n + 1 \in 1 .. Tries + 1 /\ (n < Tries => n + 1 \in Attempts)
    BY TriesAssumption DEF Attempts
  <1>2. <<>> \in Seq(Outcomes)
    OBVIOUS
  <1>. QED BY <1>1, <1>2 DEF NextTry

\* The answers keep their type.
LEMMA Answering ==
  ASSUME TypeOK, NEW q \in Requests, NEW m \in Messages, Answer(q, m)
  PROVE  answers' \subseteq [to : Requests, message : Messages]
  BY DEF TypeOK, Answer

\* The handlers' progress keeps its type.
LEMMA Staging ==
  ASSUME TypeOK, NEW q \in Requests, NEW stage \in {"none", "authenticated", "claimed", "answered", "resumed", "committed", "ended"}, Stage(q, stage)
  PROVE  handled' \in [Requests -> {"none", "authenticated", "claimed", "answered", "resumed", "committed", "ended"}]
  BY DEF TypeOK, Stage

\* Of the receipts to observe, the first and the others.
LEMMA TodoIn ==
  ASSUME TypeOK, client.todo # <<>>
  PROVE  /\ Head(client.todo) \in Outcomes /\ Tail(client.todo) \in Seq(Outcomes)
         /\ Head(client.todo) \in ToSet(client.todo) /\ ToSet(Tail(client.todo)) \subseteq ToSet(client.todo)
  <1>1. client.todo \in Seq(Outcomes)
    BY DEF TypeOK
  <1>2. Head(client.todo) \in Outcomes /\ Tail(client.todo) \in Seq(Outcomes)
    BY <1>1
  <1>3. 1 \in DOMAIN client.todo /\ Head(client.todo) = client.todo[1]
    BY <1>1
  <1>4. \A i \in DOMAIN Tail(client.todo) : i + 1 \in DOMAIN client.todo /\ Tail(client.todo)[i] = client.todo[i + 1]
    BY <1>1
  <1>. QED BY <1>2, <1>3, <1>4 DEF ToSet

\* The tracker keeps its type.
LEMMA AppliedIn ==
  ASSUME TypeOK, NEW r \in Outcomes \cup {OfAttempt(n) : n \in Attempts}
  PROVE  Applied(tracker, r) \in [state : {"unknown", "accepted", "inconsistent"} \cup Finals, terminal : Outcomes \cup {None}, sent : SUBSET Attempts]
  <1>1. CASE r \in Outcomes
    BY <1>1, OutcomeParts DEF TypeOK, Applied
  <1>2. CASE r \in {OfAttempt(n) : n \in Attempts}
    BY <1>2 DEF TypeOK, Applied, OfAttempt
  <1>. QED BY <1>1, <1>2

\* The governing receipt is one of the record's, and the final one if there is one.
LEMMA GoverningIn ==
  ASSUME TypeOK, RecordFits, record # None, record.claim = None
  PROVE  /\ Governing \in Recorded /\ Governing \in Outcomes
         /\ Governing = record.receipts[Len(record.receipts)] /\ Governing.state = record.state
  <1>1. record.receipts \in Seq(Outcomes) /\ record.receipts # <<>> /\ record.state = record.receipts[Len(record.receipts)].state
    BY RecordParts DEF RecordFits
  <1>2. Len(record.receipts) \in 1 .. Len(record.receipts)
    BY <1>1
  <1> DEFINE finals == {i \in DOMAIN record.receipts : record.receipts[i].state \in Finals}
  <1>3. finals \subseteq {Len(record.receipts)}
    BY <1>1 DEF RecordFits
  <1>4. finals # {} => Min(finals) = Len(record.receipts)
    BY <1>2, <1>3 DEF Min
  <1>5. Governing = record.receipts[Len(record.receipts)]
    BY <1>4 DEF Governing
  <1>. QED BY <1>1, <1>2, <1>5, RecordParts

\* What the handler answers after its commit is the receipt it recorded.
LEMMA OwnIn ==
  ASSUME TypeOK, Reached, NEW n \in Attempts, handled[<<"transfer", n>>] = "committed"
  PROVE  (CHOOSE r \in ToSet(record.receipts) : r.by = n) \in Recorded /\ (CHOOSE r \in ToSet(record.receipts) : r.by = n) \in Outcomes
  <1>1. PICK r \in Recorded : r.by = n
    BY DEF Reached
  <1>2. record # None /\ Recorded = ToSet(record.receipts)
    BY <1>1 DEF Recorded
  <1>. QED BY <1>1, <1>2, RecordParts

\* The commit keeps all types.
LEMMA CommitIn ==
  ASSUME TypeOK, NEW n \in Attempts, NEW o \in Settlements, Commit(n, o) PROVE TypeOK'
  <1>1. record' \in Records
    BY CommittedIn DEF Commit, Held
  <1>2. handled' \in [Requests -> {"none", "authenticated", "claimed", "answered", "resumed", "committed", "ended"}]
    BY RequestIn, Staging DEF Commit
  <1>3. moved' \in Nat
    BY DEF Commit, TypeOK
  <1>. QED BY <1>1, <1>2, <1>3 DEF TypeOK, Commit

\* The types stay.
LEMMA TypeNext ==
  ASSUME TypeOK, RecordFits, Reached, [Next]_vars
  PROVE  TypeOK'
<1>. USE DEF TypeOK
<1>1. CASE UNCHANGED vars
  BY <1>1 DEF vars
<1>2. CASE Unauthentic
  BY <1>2, NextTryIn DEF Unauthentic
<1>3. CASE SendLookup
  BY <1>3, RequestIn DEF SendLookup, Attempts
<1>4. CASE ObserveNext
  BY <1>4, AppliedIn, TodoIn DEF ObserveNext
<1>5. CASE LookupOver
  BY <1>5, RequestIn DEF LookupOver
<1>6. CASE SendAttempt
  BY <1>6, RequestIn DEF SendAttempt, Attempts
<1>7. CASE Lost
  BY <1>7, NextTryIn DEF Lost
<1>8. ASSUME NEW answer \in answers, LookedUp(answer) PROVE TypeOK'
  BY <1>8, MessageParts DEF LookedUp
<1>9. ASSUME NEW answer \in answers, Answered(answer) PROVE TypeOK'
  BY <1>9, NextTryIn, AppliedIn, MessageParts DEF Answered
<1>10. ASSUME NEW q \in Requests, Authenticate(q) PROVE TypeOK'
  BY <1>10, Staging DEF Authenticate
<1>11. ASSUME NEW q \in Requests, Unauthenticated(q) PROVE TypeOK'
  BY <1>11, RequestIn, MessageIn, Answering, Staging, RecordParts DEF Unauthenticated
<1>12. ASSUME NEW q \in Requests, Lookup(q) PROVE TypeOK'
  BY <1>12, RequestIn, MessageIn, Answering, Staging, RecordParts DEF Lookup
<1>13. ASSUME NEW q \in Requests, Crash(q) PROVE TypeOK'
  BY <1>13, Staging DEF Crash
<1>14. ASSUME NEW n \in Attempts, Refuse(n) PROVE TypeOK'
  BY <1>14, RequestIn, MessageIn, Answering, Staging, RecordParts DEF Refuse
<1>15. ASSUME NEW n \in Attempts, Claim(n) PROVE TypeOK'
  BY <1>15, RequestIn, Staging, ClaimedIn DEF Claim
<1>16. ASSUME NEW n \in Attempts, Existing(n) PROVE TypeOK'
  BY <1>16, RequestIn, MessageIn, Answering, Staging, GoverningIn DEF Existing
<1>17. ASSUME NEW n \in Attempts, Resume(n) PROVE TypeOK'
  BY <1>17, RequestIn, Staging, ResumedIn DEF Resume
<1>18. ASSUME NEW n \in Attempts, Respond(n) PROVE TypeOK'
  BY <1>18, RequestIn, MessageIn, Answering, Staging, OwnIn DEF Respond
<1>19. ASSUME NEW n \in Attempts, CommitUnseen(n) PROVE TypeOK'
  BY <1>19, RequestIn, MessageIn, Answering, Staging, RecordParts DEF CommitUnseen
<1>20. ASSUME NEW n \in Attempts, RollBackSettled(n) PROVE TypeOK'
  BY <1>20, RequestIn, MessageIn, Answering, Staging, RecordParts DEF RollBackSettled
<1>21. ASSUME NEW n \in Attempts, NEW o \in Settlements, Commit(n, o) PROVE TypeOK'
  BY <1>21, CommitIn
<1>22. ASSUME NEW n \in Attempts, NEW rolledBack \in BOOLEAN, Fail(n, rolledBack) PROVE TypeOK'
  BY <1>22, RequestIn, MessageIn, Answering, Staging, ReleasedIn, MarkedIn DEF Fail, Held
<1>23. CASE MarkUncertain
  BY <1>23, MarkedIn DEF MarkUncertain, Supervises
<1>24. CASE Reconcile
  BY <1>24, ReleasedIn DEF Reconcile
<1>. QED BY <1>1, <1>2, <1>3, <1>4, <1>5, <1>6, <1>7, <1>8, <1>9, <1>10, <1>11, <1>12, <1>13, <1>14, <1>15, <1>16, <1>17, <1>18, <1>19, <1>20, <1>21, <1>22, <1>23, <1>24 DEF Next, Client, Receiver

-----------------------------------------------------------------------------
(* The record, and the effect *)

\* While an operation is claimed or accepted, no final receipt is recorded.
LEMMA NoFinalYet ==
  ASSUME TypeOK, RecordFits, record # None, record.state = "claimed" \/ record.state = "accepted"
  PROVE  \A i \in DOMAIN record.receipts : record.receipts[i].state = "accepted"
  BY RecordParts, OutcomeParts DEF RecordFits, Finals

\* What a claim,
LEMMA Claims ==
  ASSUME record = None, NEW n \in Attempts, EffectOnce, UNCHANGED moved,
         record' = [state |-> "claimed", claim |-> n, uncertain |-> FALSE, receipts |-> <<>>]
  PROVE  RecordFits' /\ EffectOnce' /\ Recorded \subseteq Recorded'
  BY NoneAssumption DEF RecordFits, EffectOnce, Recorded, Attempts

\* resume,
LEMMA Resumes ==
  ASSUME TypeOK, RecordFits, EffectOnce, record # None, record.state = "accepted", NEW n \in Attempts, UNCHANGED moved,
         record' = [record EXCEPT !.state = "claimed", !.claim = n]
  PROVE  RecordFits' /\ EffectOnce' /\ Recorded \subseteq Recorded'
  <1>0. n # None
    BY NoneAssumption, TriesAssumption DEF Attempts
  <1>1. record \in Records /\ n # None /\ record' \in Records /\ record' # None
    BY <1>0, RecordParts, ResumedIn, NoneAssumption
  <1>2. record'.receipts = record.receipts /\ record'.state = "claimed" /\ record'.claim = n
    BY <1>1 DEF Records
  <1>. QED BY <1>1, <1>2, NoFinalYet DEF RecordFits, EffectOnce, Recorded, Finals

\* a mark,
LEMMA Marks ==
  ASSUME TypeOK, RecordFits, EffectOnce, record # None, record.claim # None, UNCHANGED moved,
         record' = [record EXCEPT !.uncertain = TRUE]
  PROVE  RecordFits' /\ EffectOnce' /\ Recorded \subseteq Recorded'
  <1>1. record \in Records /\ record' # None
    BY RecordParts, MarkedIn, NoneAssumption
  <1>2. record'.receipts = record.receipts /\ record'.state = record.state /\ record'.claim = record.claim
    BY <1>1 DEF Records
  <1>. QED BY <1>1, <1>2 DEF RecordFits, EffectOnce, Recorded

\* a release,
LEMMA Releases ==
  ASSUME TypeOK, RecordFits, EffectOnce, record # None, record.claim # None, UNCHANGED moved, record' = Released
  PROVE  RecordFits' /\ EffectOnce' /\ Recorded \subseteq Recorded'
  <1>0. record \in Records /\ record.state = "claimed" /\ record.receipts \in Seq(Outcomes)
    BY RecordParts DEF RecordFits
  <1>1. CASE record.receipts = <<>>
    <2>1. record' = None /\ Recorded = {}
      BY <1>1, RecordParts DEF Released
    <2>. QED BY <2>1, <1>0 DEF RecordFits, EffectOnce
  <1>2. CASE record.receipts # <<>>
    <2>1. record' \in Records /\ record' # None
      BY <1>0, <1>2, NoneAssumption DEF Released, Records
    <2>2. record'.receipts = record.receipts /\ record'.state = "accepted" /\ record'.claim = None /\ record'.uncertain = FALSE
      BY <1>0, <1>2 DEF Released, Records
    <2>3. Len(record.receipts) \in DOMAIN record.receipts
      BY <1>0, <1>2
    <2>. QED BY <1>0, <1>2, <2>1, <2>2, <2>3, NoFinalYet DEF RecordFits, EffectOnce, Recorded, Finals
  <1>. QED BY <1>1, <1>2

\* and a commit do to the record and the effect.
LEMMA Commits ==
  ASSUME TypeOK, RecordFits, EffectOnce, NEW n \in Attempts, NEW o \in Settlements, Commit(n, o)
  PROVE  /\ RecordFits' /\ EffectOnce' /\ Recorded \subseteq Recorded'
         /\ \E r \in Recorded' : r.by = n
  <1> DEFINE new == [by |-> n, state |-> o, applies |-> "operation"]
  <1>1. record # None /\ record.claim # None /\ record \in Records /\ record.receipts \in Seq(Outcomes) /\ record.state = "claimed"
    BY RecordParts, NoneAssumption DEF Commit, Held, RecordFits, Attempts
  <1>2. record' \in Records /\ record' # None
    BY <1>1, CommittedIn, NoneAssumption DEF Commit
  <1>3. record'.state = o /\ record'.claim = None /\ record'.uncertain = FALSE /\ record'.receipts = Append(record.receipts, new)
    BY <1>1 DEF Commit, Records
  <1>4. new \in Outcomes /\ o \in {"accepted"} \cup Finals
    BY SettlementsAssumption DEF Outcomes
  <1>5. /\ Len(record'.receipts) = Len(record.receipts) + 1 /\ DOMAIN record'.receipts = 1 .. Len(record.receipts) + 1
        /\ record'.receipts[Len(record.receipts) + 1] = new
        /\ \A i \in DOMAIN record.receipts : i \in 1 .. Len(record.receipts) + 1 /\ record'.receipts[i] = record.receipts[i]
        /\ Len(record.receipts) \in Nat /\ DOMAIN record.receipts = 1 .. Len(record.receipts)
    BY <1>1, <1>3, <1>4
  <1>6. \A i \in 1 .. Len(record.receipts) + 1 :
            record'.receipts[i].state \in Finals => i = Len(record.receipts) + 1 /\ record'.receipts[i].state = o
    <2> SUFFICES ASSUME NEW i \in 1 .. Len(record.receipts) + 1, i # Len(record.receipts) + 1 PROVE record'.receipts[i].state \notin Finals
      BY <1>5
    <2>1. i \in DOMAIN record.receipts
      BY <1>5
    <2>. QED BY <2>1, <1>1, <1>5, NoFinalYet DEF Finals
  <1>7. RecordFits'
    BY <1>2, <1>3, <1>4, <1>5, <1>6 DEF RecordFits, Finals
  <1>8. EffectOnce'
    BY <1>1, <1>2, <1>3 DEF EffectOnce, Commit, TypeOK
  <1>9. Recorded \subseteq Recorded' /\ new \in Recorded'
    BY <1>1, <1>2, <1>5 DEF Recorded, ToSet
  <1>. QED BY <1>7, <1>8, <1>9

\* Other steps leave both alone.
LEMMA RecordKept ==
  ASSUME RecordFits, EffectOnce, UNCHANGED <<record, moved>>
  PROVE  RecordFits' /\ EffectOnce' /\ Recorded \subseteq Recorded'
  BY DEF RecordFits, EffectOnce, Recorded

\* The record stays as it must be, and what is recorded stays recorded.
LEMMA RecordNext ==
  ASSUME TypeOK, RecordFits, EffectOnce, [Next]_vars
  PROVE  RecordFits' /\ EffectOnce' /\ Recorded \subseteq Recorded'
<1>1. CASE UNCHANGED vars
  BY <1>1, RecordKept DEF vars
<1>2. CASE Unauthentic
  BY <1>2, RecordKept DEF Unauthentic
<1>3. CASE SendLookup
  BY <1>3, RecordKept DEF SendLookup
<1>4. CASE ObserveNext
  BY <1>4, RecordKept DEF ObserveNext
<1>5. CASE LookupOver
  BY <1>5, RecordKept DEF LookupOver
<1>6. CASE SendAttempt
  BY <1>6, RecordKept DEF SendAttempt
<1>7. CASE Lost
  BY <1>7, RecordKept DEF Lost
<1>8. ASSUME NEW answer \in answers, LookedUp(answer) PROVE RecordFits' /\ EffectOnce' /\ Recorded \subseteq Recorded'
  BY <1>8, RecordKept DEF LookedUp
<1>9. ASSUME NEW answer \in answers, Answered(answer) PROVE RecordFits' /\ EffectOnce' /\ Recorded \subseteq Recorded'
  BY <1>9, RecordKept DEF Answered
<1>10. ASSUME NEW q \in Requests, Authenticate(q) PROVE RecordFits' /\ EffectOnce' /\ Recorded \subseteq Recorded'
  BY <1>10, RecordKept DEF Authenticate
<1>11. ASSUME NEW q \in Requests, Unauthenticated(q) PROVE RecordFits' /\ EffectOnce' /\ Recorded \subseteq Recorded'
  BY <1>11, RecordKept DEF Unauthenticated
<1>12. ASSUME NEW q \in Requests, Lookup(q) PROVE RecordFits' /\ EffectOnce' /\ Recorded \subseteq Recorded'
  BY <1>12, RecordKept DEF Lookup
<1>13. ASSUME NEW q \in Requests, Crash(q) PROVE RecordFits' /\ EffectOnce' /\ Recorded \subseteq Recorded'
  BY <1>13, RecordKept DEF Crash
<1>14. ASSUME NEW n \in Attempts, Refuse(n) PROVE RecordFits' /\ EffectOnce' /\ Recorded \subseteq Recorded'
  BY <1>14, RecordKept DEF Refuse
<1>15. ASSUME NEW n \in Attempts, Claim(n) PROVE RecordFits' /\ EffectOnce' /\ Recorded \subseteq Recorded'
  BY <1>15, Claims DEF Claim
<1>16. ASSUME NEW n \in Attempts, Existing(n) PROVE RecordFits' /\ EffectOnce' /\ Recorded \subseteq Recorded'
  BY <1>16, RecordKept DEF Existing
<1>17. ASSUME NEW n \in Attempts, Resume(n) PROVE RecordFits' /\ EffectOnce' /\ Recorded \subseteq Recorded'
  BY <1>17, Resumes DEF Resume
<1>18. ASSUME NEW n \in Attempts, Respond(n) PROVE RecordFits' /\ EffectOnce' /\ Recorded \subseteq Recorded'
  BY <1>18, RecordKept DEF Respond
<1>19. ASSUME NEW n \in Attempts, CommitUnseen(n) PROVE RecordFits' /\ EffectOnce' /\ Recorded \subseteq Recorded'
  BY <1>19, RecordKept DEF CommitUnseen
<1>20. ASSUME NEW n \in Attempts, RollBackSettled(n) PROVE RecordFits' /\ EffectOnce' /\ Recorded \subseteq Recorded'
  BY <1>20, RecordKept DEF RollBackSettled
<1>21. ASSUME NEW n \in Attempts, NEW o \in Settlements, Commit(n, o) PROVE RecordFits' /\ EffectOnce' /\ Recorded \subseteq Recorded'
  BY <1>21, Commits
<1>22. ASSUME NEW n \in Attempts, NEW rolledBack \in BOOLEAN, Fail(n, rolledBack) PROVE RecordFits' /\ EffectOnce' /\ Recorded \subseteq Recorded'
  <2>1. CASE Held(n)
    <3>1. n # None
      BY NoneAssumption, TriesAssumption DEF Attempts
    <3>. QED BY <1>22, <2>1, <3>1, Releases, Marks DEF Fail, Held
  <2>2. CASE ~Held(n)
    BY <1>22, <2>2, RecordKept DEF Fail
  <2>. QED BY <2>1, <2>2
<1>23. CASE MarkUncertain
  BY <1>23, Marks DEF MarkUncertain, Supervises
<1>24. CASE Reconcile
  BY <1>24, Releases DEF Reconcile
<1>. QED BY <1>1, <1>2, <1>3, <1>4, <1>5, <1>6, <1>7, <1>8, <1>9, <1>10, <1>11, <1>12, <1>13, <1>14, <1>15, <1>16, <1>17, <1>18, <1>19, <1>20, <1>21, <1>22, <1>23, <1>24 DEF Next, Client, Receiver

-----------------------------------------------------------------------------
(* What is answered *)

\* What was recorded stays so, whoever was told.
LEMMA AnsweredKept ==
  ASSUME AnsweredIsRecorded, UNCHANGED answers, Recorded \subseteq Recorded'
  PROVE  AnsweredIsRecorded'
  BY DEF AnsweredIsRecorded

\* A problem, a refusal of an attempt, or what is recorded may be answered.
LEMMA AnsweredMore ==
  ASSUME AnsweredIsRecorded, Recorded \subseteq Recorded', NEW q, NEW m, Answer(q, m),
         m.kind = "receipt" /\ m.receipt.applies = "operation" => m.receipt \in Recorded,
         m.kind = "history" => ToSet(m.history) \subseteq Recorded
  PROVE  AnsweredIsRecorded'
  <1>1. \A answer \in answers' : answer \in answers \/ answer.message = m
    BY DEF Answer
  <1>. QED BY <1>1 DEF AnsweredIsRecorded

\* An answer without a receipt says nothing.
LEMMA Harmless ==
  ASSUME AnsweredIsRecorded, Recorded \subseteq Recorded', NEW q, Answer(q, Problem)
  PROVE  AnsweredIsRecorded'
  BY AnsweredMore DEF Problem

\* An answer with a receipt tells what is recorded, or refuses an attempt.
LEMMA Tells ==
  ASSUME AnsweredIsRecorded, Recorded \subseteq Recorded', NEW q, NEW r, r \in Recorded \/ r.applies = "attempt", Answer(q, Receipt(r))
  PROVE  AnsweredIsRecorded'
  BY AnsweredMore DEF Receipt

\* What anyone is told is recorded.
LEMMA AnsweredNext ==
  ASSUME TypeOK, RecordFits, Reached, AnsweredIsRecorded, Recorded \subseteq Recorded', [Next]_vars
  PROVE  AnsweredIsRecorded'
<1>1. CASE UNCHANGED vars
  BY <1>1, AnsweredKept DEF vars
<1>2. CASE Unauthentic
  BY <1>2, AnsweredKept DEF Unauthentic
<1>3. CASE SendLookup
  BY <1>3, AnsweredKept DEF SendLookup
<1>4. CASE ObserveNext
  BY <1>4, AnsweredKept DEF ObserveNext
<1>5. CASE LookupOver
  BY <1>5, AnsweredKept DEF LookupOver
<1>6. CASE SendAttempt
  BY <1>6, AnsweredKept DEF SendAttempt
<1>7. CASE Lost
  BY <1>7, AnsweredKept DEF Lost
<1>8. ASSUME NEW answer \in answers, LookedUp(answer) PROVE AnsweredIsRecorded'
  BY <1>8, AnsweredKept DEF LookedUp
<1>9. ASSUME NEW answer \in answers, Answered(answer) PROVE AnsweredIsRecorded'
  BY <1>9, AnsweredKept DEF Answered
<1>10. ASSUME NEW q \in Requests, Authenticate(q) PROVE AnsweredIsRecorded'
  BY <1>10, AnsweredKept DEF Authenticate
<1>11. ASSUME NEW q \in Requests, Unauthenticated(q) PROVE AnsweredIsRecorded'
  BY <1>11, Harmless DEF Unauthenticated
<1>12. ASSUME NEW q \in Requests, Lookup(q) PROVE AnsweredIsRecorded'
  BY <1>12, Harmless, AnsweredMore DEF Lookup, Recorded
<1>13. ASSUME NEW q \in Requests, Crash(q) PROVE AnsweredIsRecorded'
  BY <1>13, AnsweredKept DEF Crash
<1>14. ASSUME NEW n \in Attempts, Refuse(n) PROVE AnsweredIsRecorded'
  BY <1>14, Tells DEF Refuse, OfAttempt
<1>15. ASSUME NEW n \in Attempts, Claim(n) PROVE AnsweredIsRecorded'
  BY <1>15, AnsweredKept DEF Claim
<1>16. ASSUME NEW n \in Attempts, Existing(n) PROVE AnsweredIsRecorded'
  BY <1>16, Tells, GoverningIn DEF Existing
<1>17. ASSUME NEW n \in Attempts, Resume(n) PROVE AnsweredIsRecorded'
  BY <1>17, AnsweredKept DEF Resume
<1>18. ASSUME NEW n \in Attempts, Respond(n) PROVE AnsweredIsRecorded'
  BY <1>18, Tells, OwnIn DEF Respond
<1>19. ASSUME NEW n \in Attempts, CommitUnseen(n) PROVE AnsweredIsRecorded'
  BY <1>19, Harmless DEF CommitUnseen
<1>20. ASSUME NEW n \in Attempts, RollBackSettled(n) PROVE AnsweredIsRecorded'
  BY <1>20, Harmless DEF RollBackSettled
<1>21. ASSUME NEW n \in Attempts, NEW o \in Settlements, Commit(n, o) PROVE AnsweredIsRecorded'
  BY <1>21, AnsweredKept DEF Commit
<1>22. ASSUME NEW n \in Attempts, NEW rolledBack \in BOOLEAN, Fail(n, rolledBack) PROVE AnsweredIsRecorded'
  BY <1>22, Harmless DEF Fail
<1>23. CASE MarkUncertain
  BY <1>23, AnsweredKept DEF MarkUncertain
<1>24. CASE Reconcile
  BY <1>24, AnsweredKept DEF Reconcile
<1>. QED BY <1>1, <1>2, <1>3, <1>4, <1>5, <1>6, <1>7, <1>8, <1>9, <1>10, <1>11, <1>12, <1>13, <1>14, <1>15, <1>16, <1>17, <1>18, <1>19, <1>20, <1>21, <1>22, <1>23, <1>24 DEF Next, Client, Receiver

-----------------------------------------------------------------------------
(* Where requests and records come from *)

\* Observing a receipt forgets no attempt.
LEMMA SentKept ==
  ASSUME TypeOK, NEW r PROVE Applied(tracker, r).sent = tracker.sent
  BY DEF Applied, TypeOK

\* The agent's own steps, and those of the supervisor.
LEMMA ReachedKept ==
  ASSUME Reached, UNCHANGED handled, sent \subseteq sent', tracker.sent \subseteq tracker'.sent,
         \A n \in Attempts : <<"transfer", n>> \in sent' => n \in tracker'.sent,
         record' # None => record # None, Recorded \subseteq Recorded'
  PROVE  Reached'
  BY DEF Reached

\* The receiver's steps, the commit excepted.
LEMMA ReachedStaged ==
  ASSUME TypeOK, Reached, UNCHANGED <<sent, tracker>>, Recorded \subseteq Recorded',
         NEW q \in sent, NEW stage \in {"authenticated", "claimed", "answered", "resumed", "ended"}, Stage(q, stage),
         record' # None => tracker.sent # {}
  PROVE  Reached'
  <1>1. q \in Requests /\ \A p \in Requests : handled'[p] = IF p = q THEN stage ELSE handled[p]
    BY DEF TypeOK, Stage
  <1>. QED BY <1>1, RequestIn DEF Reached

\* The commit records an outcome of its attempt.
LEMMA ReachedCommits ==
  ASSUME TypeOK, Reached, RecordFits, EffectOnce, NEW n \in Attempts, NEW o \in Settlements, Commit(n, o)
  PROVE  Reached'
  <1>1. \A p \in Requests : handled'[p] = IF p = <<"transfer", n>> THEN "committed" ELSE handled[p]
    BY RequestIn DEF TypeOK, Stage, Commit
  <1>2. Recorded \subseteq Recorded' /\ \E r \in Recorded' : r.by = n
    BY Commits
  <1>3. \A m \in Attempts : <<"transfer", m>> = <<"transfer", n>> <=> m = n
    OBVIOUS
  <1>4. UNCHANGED <<sent, tracker>> /\ record # None /\ <<"transfer", n>> \in sent
    BY RequestIn DEF Commit, Held, Reached, Working
  <1>. QED BY <1>1, <1>2, <1>3, <1>4, RequestIn DEF Reached

\* Nothing is handled or recorded that was not kept and sent first.
LEMMA ReachedNext ==
  ASSUME TypeOK, RecordFits, EffectOnce, Reached, Recorded \subseteq Recorded', [Next]_vars
  PROVE  Reached'
<1>1. CASE UNCHANGED vars
  BY <1>1, ReachedKept DEF vars, Reached
<1>2. CASE Unauthentic
  BY <1>2, ReachedKept DEF Unauthentic, Reached
<1>3. CASE SendLookup
  BY <1>3, ReachedKept DEF SendLookup, Reached, Attempts
<1>4. CASE ObserveNext
  BY <1>4, ReachedKept, SentKept DEF ObserveNext, Reached
<1>5. CASE LookupOver
  BY <1>5, ReachedKept DEF LookupOver, Reached
<1>6. CASE SendAttempt
  BY <1>6, ReachedKept DEF SendAttempt, Reached, TypeOK
<1>7. CASE Lost
  BY <1>7, ReachedKept DEF Lost, Reached
<1>8. ASSUME NEW answer \in answers, LookedUp(answer) PROVE Reached'
  BY <1>8, ReachedKept DEF LookedUp, Reached
<1>9. ASSUME NEW answer \in answers, Answered(answer) PROVE Reached'
  BY <1>9, ReachedKept, SentKept DEF Answered, Reached
<1>10. ASSUME NEW q \in Requests, Authenticate(q) PROVE Reached'
  BY <1>10, ReachedStaged, RequestIn DEF Authenticate, Reached
<1>11. ASSUME NEW q \in Requests, Unauthenticated(q) PROVE Reached'
  BY <1>11, ReachedKept DEF Unauthenticated, Reached
<1>12. ASSUME NEW q \in Requests, Lookup(q) PROVE Reached'
  BY <1>12, ReachedStaged, RequestIn DEF Lookup, Reached
<1>13. ASSUME NEW q \in Requests, Crash(q) PROVE Reached'
  BY <1>13, ReachedStaged, RequestIn DEF Crash, Reached
<1>14. ASSUME NEW n \in Attempts, Refuse(n) PROVE Reached'
  BY <1>14, ReachedStaged, RequestIn DEF Refuse, Reached
<1>15. ASSUME NEW n \in Attempts, Claim(n) PROVE Reached'
  BY <1>15, ReachedStaged, RequestIn DEF Claim, Reached
<1>16. ASSUME NEW n \in Attempts, Existing(n) PROVE Reached'
  BY <1>16, ReachedStaged, RequestIn DEF Existing, Reached
<1>17. ASSUME NEW n \in Attempts, Resume(n) PROVE Reached'
  BY <1>17, ReachedStaged, RequestIn DEF Resume, Reached
<1>18. ASSUME NEW n \in Attempts, Respond(n) PROVE Reached'
  BY <1>18, ReachedStaged, RequestIn DEF Respond, Reached
<1>19. ASSUME NEW n \in Attempts, CommitUnseen(n) PROVE Reached'
  BY <1>19, ReachedStaged, RequestIn DEF CommitUnseen, Reached
<1>20. ASSUME NEW n \in Attempts, RollBackSettled(n) PROVE Reached'
  BY <1>20, ReachedStaged, RequestIn DEF RollBackSettled, Reached, Working
<1>21. ASSUME NEW n \in Attempts, NEW o \in Settlements, Commit(n, o) PROVE Reached'
  BY <1>21, ReachedCommits
<1>22. ASSUME NEW n \in Attempts, NEW rolledBack \in BOOLEAN, Fail(n, rolledBack) PROVE Reached'
  BY <1>22, ReachedStaged, RequestIn DEF Fail, Reached, Working, Held
<1>23. CASE MarkUncertain
  BY <1>23, ReachedKept DEF MarkUncertain, Reached, Supervises
<1>24. CASE Reconcile
  BY <1>24, ReachedKept DEF Reconcile, Reached
<1>. QED BY <1>1, <1>2, <1>3, <1>4, <1>5, <1>6, <1>7, <1>8, <1>9, <1>10, <1>11, <1>12, <1>13, <1>14, <1>15, <1>16, <1>17, <1>18, <1>19, <1>20, <1>21, <1>22, <1>23, <1>24 DEF Next, Client, Receiver

-----------------------------------------------------------------------------
(* What the agent concludes *)

\* There is one final receipt at most.
LEMMA FinalsAgree ==
  ASSUME TypeOK, RecordFits, NEW r \in Recorded, r.state \in Finals
  PROVE  record # None /\ r = record.receipts[Len(record.receipts)] /\ record.state = r.state /\ record.claim = None
  <1>1. record # None
    BY DEF Recorded
  <1>2. PICK i \in DOMAIN record.receipts : r = record.receipts[i]
    BY <1>1, RecordParts
  <1>. QED BY <1>1, <1>2 DEF RecordFits, Finals

\* The agent's tracker does not change, and it observes nothing unrecorded.
LEMMA FoundedKept ==
  ASSUME Founded, UNCHANGED tracker, Recorded \subseteq Recorded', ToSet(client'.todo) \subseteq ToSet(client.todo)
  PROVE  Founded'
  BY DEF Founded

\* After a try there is nothing left to observe.
LEMMA NoneLeft ==
  ASSUME NEW n PROVE ToSet(NextTry(n).todo) = {}
  BY DEF NextTry, ToSet

\* The agent observes a receipt of the record, or one of an attempt.
LEMMA FoundedApplied ==
  ASSUME TypeOK, RecordFits, Founded, Recorded \subseteq Recorded', ToSet(client'.todo) \subseteq ToSet(client.todo),
         NEW r \in Outcomes \cup {OfAttempt(n) : n \in Attempts}, r.applies = "operation" => r \in Recorded, tracker' = Applied(tracker, r)
  PROVE  Founded'
  <1>1. CASE tracker' = tracker
    BY <1>1, FoundedKept
  <1>2. CASE tracker' # tracker
    <2>1. r \in Outcomes /\ r \in Recorded /\ r.state \in {"accepted"} \cup Finals
      BY <1>2, OutcomeParts DEF Applied, OfAttempt
    <2>2. CASE r.state = "accepted"
      <3>1. tracker.state = "unknown" /\ tracker' = [tracker EXCEPT !.state = "accepted"]
        BY <1>2, <2>2 DEF Applied
      <3>2. tracker.terminal = None /\ tracker'.terminal = None /\ tracker'.state = "accepted"
        BY <3>1 DEF TypeOK, Founded, Finals
      <3>. QED BY <2>1, <3>2 DEF Founded, Finals
    <2>3. CASE r.state \in Finals
      <3>1. tracker.terminal = None \/ tracker.terminal = r
        BY <2>1, <2>3, FinalsAgree DEF Founded
      <3>2. tracker' = [tracker EXCEPT !.state = r.state, !.terminal = r]
        BY <1>2, <2>3, <3>1 DEF Applied, Finals
      <3>3. tracker'.state = r.state /\ tracker'.terminal = r /\ r # None
        BY <3>2, <2>1, NoneAssumption DEF TypeOK
      <3>. QED BY <2>1, <2>3, <3>3 DEF Founded, Finals
    <2>. QED BY <2>1, <2>2, <2>3
  <1>. QED BY <1>1, <1>2

\* What the agent concludes is recorded.
LEMMA FoundedNext ==
  ASSUME TypeOK, RecordFits, AnsweredIsRecorded, Founded, Recorded \subseteq Recorded', [Next]_vars
  PROVE  Founded'
<1>1. CASE UNCHANGED vars
  BY <1>1, FoundedKept DEF vars
<1>2. CASE Unauthentic
  BY <1>2, FoundedKept, NoneLeft DEF Unauthentic
<1>3. CASE SendLookup
  BY <1>3, FoundedKept DEF SendLookup
<1>4. CASE ObserveNext
  BY <1>4, TodoIn, FoundedApplied DEF ObserveNext, Founded
<1>5. CASE LookupOver
  BY <1>5, FoundedKept DEF LookupOver
<1>6. CASE SendAttempt
  BY <1>6 DEF SendAttempt, Founded, TypeOK
<1>7. CASE Lost
  BY <1>7, FoundedKept, NoneLeft DEF Lost
<1>8. ASSUME NEW answer \in answers, LookedUp(answer) PROVE Founded'
  BY <1>8, MessageParts DEF LookedUp, Founded, AnsweredIsRecorded, TypeOK
<1>9. ASSUME NEW answer \in answers, Answered(answer) PROVE Founded'
  <2>1. answer.message \in Messages /\ answer.message.kind = "receipt" /\ client'.todo = NextTry(client.try).todo
    BY <1>9 DEF Answered, TypeOK
  <2>2. answer.message.receipt \in Outcomes \cup {OfAttempt(n) : n \in Attempts}
    BY <2>1, MessageParts
  <2>3. answer.message.receipt.applies = "operation" => answer.message.receipt \in Recorded
    BY <1>9, <2>1 DEF AnsweredIsRecorded
  <2>4. ToSet(client'.todo) \subseteq ToSet(client.todo)
    BY <2>1, NoneLeft
  <2>. QED BY <1>9, <2>2, <2>3, <2>4, FoundedApplied DEF Answered
<1>10. ASSUME NEW q \in Requests, Authenticate(q) PROVE Founded'
  BY <1>10, FoundedKept DEF Authenticate
<1>11. ASSUME NEW q \in Requests, Unauthenticated(q) PROVE Founded'
  BY <1>11, FoundedKept DEF Unauthenticated
<1>12. ASSUME NEW q \in Requests, Lookup(q) PROVE Founded'
  BY <1>12, FoundedKept DEF Lookup
<1>13. ASSUME NEW q \in Requests, Crash(q) PROVE Founded'
  BY <1>13, FoundedKept DEF Crash
<1>14. ASSUME NEW n \in Attempts, Refuse(n) PROVE Founded'
  BY <1>14, FoundedKept DEF Refuse
<1>15. ASSUME NEW n \in Attempts, Claim(n) PROVE Founded'
  BY <1>15, FoundedKept DEF Claim
<1>16. ASSUME NEW n \in Attempts, Existing(n) PROVE Founded'
  BY <1>16, FoundedKept DEF Existing
<1>17. ASSUME NEW n \in Attempts, Resume(n) PROVE Founded'
  BY <1>17, FoundedKept DEF Resume
<1>18. ASSUME NEW n \in Attempts, Respond(n) PROVE Founded'
  BY <1>18, FoundedKept DEF Respond
<1>19. ASSUME NEW n \in Attempts, CommitUnseen(n) PROVE Founded'
  BY <1>19, FoundedKept DEF CommitUnseen
<1>20. ASSUME NEW n \in Attempts, RollBackSettled(n) PROVE Founded'
  BY <1>20, FoundedKept DEF RollBackSettled
<1>21. ASSUME NEW n \in Attempts, NEW o \in Settlements, Commit(n, o) PROVE Founded'
  BY <1>21, FoundedKept DEF Commit
<1>22. ASSUME NEW n \in Attempts, NEW rolledBack \in BOOLEAN, Fail(n, rolledBack) PROVE Founded'
  BY <1>22, FoundedKept DEF Fail
<1>23. CASE MarkUncertain
  BY <1>23, FoundedKept DEF MarkUncertain
<1>24. CASE Reconcile
  BY <1>24, FoundedKept DEF Reconcile
<1>. QED BY <1>1, <1>2, <1>3, <1>4, <1>5, <1>6, <1>7, <1>8, <1>9, <1>10, <1>11, <1>12, <1>13, <1>14, <1>15, <1>16, <1>17, <1>18, <1>19, <1>20, <1>21, <1>22, <1>23, <1>24 DEF Next, Client, Receiver

-----------------------------------------------------------------------------
(* The theorems *)

\* The invariant holds at first,
LEMMA InvInit ==
  ASSUME Init PROVE ExchangeInv
  <1>1. Recorded = {} /\ ToSet(client.todo) = {} /\ client.todo \in Seq(Outcomes)
    BY DEF Init, Recorded, ToSet
  <1>2. TypeOK
    BY <1>1, TriesAssumption DEF Init, TypeOK, Attempts
  <1>3. Reached
    BY RequestIn DEF Init, Reached
  <1>. QED BY <1>1, <1>2, <1>3 DEF Init, ExchangeInv, RecordFits, EffectOnce, AnsweredIsRecorded, Founded

\* and every step keeps it.
LEMMA InvNext ==
  ASSUME ExchangeInv, [Next]_vars PROVE ExchangeInv'
  <1>1. TypeOK'
    BY TypeNext DEF ExchangeInv
  <1>2. RecordFits' /\ EffectOnce' /\ Recorded \subseteq Recorded'
    BY RecordNext DEF ExchangeInv
  <1>3. Reached'
    BY <1>2, ReachedNext DEF ExchangeInv
  <1>4. AnsweredIsRecorded'
    BY <1>2, AnsweredNext DEF ExchangeInv
  <1>5. Founded'
    BY <1>2, FoundedNext DEF ExchangeInv
  <1>. QED BY <1>1, <1>2, <1>3, <1>4, <1>5 DEF ExchangeInv

\* For any number of tries: the record, what is on its way, and what the agent concluded
\* fit each other in every state of the exchange.
THEOREM ExchangeInvariantHolds == Spec => []ExchangeInv
  BY InvInit, InvNext, PTL DEF Spec

\* For any number of tries: the money moves at most once, and has moved exactly if the
\* record says that the operation is completed.
THEOREM EffectHappensOnce == Spec => []EffectOnce
  <1>1. ExchangeInv => EffectOnce
    BY DEF ExchangeInv
  <1>. QED BY <1>1, ExchangeInvariantHolds, PTL

\* For any number of tries: every receipt of the operation that anyone was answered with
\* is in the record for good.
THEOREM AnswersAreRecorded == Spec => []AnsweredIsRecorded
  <1>1. ExchangeInv => AnsweredIsRecorded
    BY DEF ExchangeInv
  <1>. QED BY <1>1, ExchangeInvariantHolds, PTL

\* The invariant says what the agent's conclusions rest on.
LEMMA AgentFounded ==
  ASSUME ExchangeInv PROVE ClientAgrees
  <1>. USE DEF ExchangeInv
  <1>1. tracker.state # "inconsistent"
    BY DEF Founded, Finals
  <1>2. ASSUME tracker.state \in Finals
        PROVE  record # None /\ record.state = tracker.state /\ Governing = tracker.terminal
    <2>1. tracker.terminal \in Recorded /\ tracker.terminal.state \in Finals /\ tracker.state = tracker.terminal.state
      BY <1>2 DEF Founded, Finals
    <2>2. /\ record # None /\ record.claim = None /\ record.state = tracker.state
          /\ tracker.terminal = record.receipts[Len(record.receipts)]
      BY <2>1, FinalsAgree
    <2>. QED BY <2>2, GoverningIn
  <1>3. tracker.state = "accepted" => record # None /\ record.receipts # <<>>
    BY RecordParts DEF Founded, Recorded, ToSet
  <1>4. tracker.sent = {} => record = None /\ moved = 0
    BY DEF Reached, EffectOnce, TypeOK
  <1>. QED BY <1>1, <1>2, <1>3, <1>4 DEF ClientAgrees

\* For any number of tries: what the agent ends with is what the receiver recorded, and
\* the agent that sent nothing knows that nothing happened.
THEOREM ClientAlwaysAgrees == Spec => []ClientAgrees
  BY AgentFounded, ExchangeInvariantHolds, PTL

-----------------------------------------------------------------------------
(* The exchange implements the reference model of the conformance tests *)

AbstractClients ==
    [state : {"unknown", "accepted", "inconsistent"} \cup Finals, terminal : Attempts \cup {None}, everSent : BOOLEAN]

View == <<Consumed, AbstractRecord, moved, AbstractReceipts, AbstractClient>>

-----------------------------------------------------------------------------
(* The reference's variables *)

\* The reference sees the record,
LEMMA RecordSame ==
  ASSUME UNCHANGED record PROVE UNCHANGED <<AbstractRecord, AbstractReceipts>>
  BY DEF AbstractRecord, AbstractReceipts

\* the client's tracker,
LEMMA ClientSame ==
  ASSUME UNCHANGED tracker PROVE UNCHANGED AbstractClient
  BY DEF AbstractClient

\* the challenges,
LEMMA HandledSame ==
  ASSUME UNCHANGED handled PROVE UNCHANGED Consumed
  BY DEF Consumed

\* of which one is consumed once its request's fate is decided,
LEMMA Consumes ==
  ASSUME TypeOK, NEW q \in Requests, NEW stage \in {"claimed", "answered", "resumed", "committed", "ended"}, Stage(q, stage),
         handled[q] = "authenticated"
  PROVE  q \notin Consumed /\ Consumed' = Consumed \cup {q}
  <1>1. \A p \in Requests : handled'[p] = IF p = q THEN stage ELSE handled[p]
    BY DEF TypeOK, Stage
  <1>. QED BY <1>1 DEF Consumed

\* and by nothing else that happens to the request.
LEMMA ConsumesNone ==
  ASSUME TypeOK, NEW q \in Requests, NEW stage, Stage(q, stage),
         handled[q] \in {"none", "authenticated"} <=> stage \in {"none", "authenticated"}
  PROVE  UNCHANGED Consumed
  <1>1. \A p \in Requests : handled'[p] = IF p = q THEN stage ELSE handled[p]
    BY DEF TypeOK, Stage
  <1>. QED BY <1>1 DEF Consumed

\* A client that has sent something has done so.
LEMMA SentAlready ==
  ASSUME TypeOK, tracker.sent # {} PROVE [AbstractClient EXCEPT !.everSent = TRUE] = AbstractClient
  <1> DEFINE terminal == IF tracker.terminal = None THEN None ELSE tracker.terminal.by
  <1>1. (tracker.sent # {}) = TRUE
    OBVIOUS
  <1>2. AbstractClient = [state |-> tracker.state, terminal |-> terminal, everSent |-> TRUE]
    BY <1>1, Zenon DEF AbstractClient
  <1>3. AbstractClient \in [state : {tracker.state}, terminal : {terminal}, everSent : BOOLEAN] /\ AbstractClient.everSent = TRUE
    BY <1>2
  <1>. QED BY <1>3

-----------------------------------------------------------------------------
(* The reference's steps *)

\* What changes none of its variables is no step of the reference.
LEMMA Stutters ==
  ASSUME UNCHANGED View PROVE UNCHANGED Reference!rvars
  BY DEF View, Reference!rvars

\* An attempt is lost:
LEMMA LosesStep ==
  ASSUME NEW n \in Attempts, UNCHANGED <<Consumed, AbstractRecord, moved, AbstractReceipts>>,
         AbstractClient' = [AbstractClient EXCEPT !.everSent = TRUE]
  PROVE  Reference!RNext
  <1>1. Reference!AttemptLost(n)
    BY DEF Reference!AttemptLost, Reference!Sent
  <1>. QED BY <1>1 DEF Reference!RNext

\* it is refused:
LEMMA RefusesStep ==
  ASSUME TypeOK, NEW n \in Attempts, NEW q \in Requests, q \notin Consumed, Consumed' = Consumed \cup {q},
         UNCHANGED <<AbstractRecord, moved, AbstractReceipts, AbstractClient>>, tracker.sent # {}
  PROVE  Reference!RNext
  <1>1. AbstractClient' = [AbstractClient EXCEPT !.everSent = TRUE]
    BY SentAlready
  <1>2. Reference!AttemptRefused(n, q)
    BY <1>1 DEF Reference!AttemptRefused, Reference!Sent, Reference!Consume
  <1>. QED BY <1>2 DEF Reference!RNext

\* a lookup is answered, or not:
LEMMA LooksUpStep ==
  ASSUME NEW q \in Requests, q \notin Consumed, Consumed' = Consumed \cup {q},
         UNCHANGED <<AbstractRecord, moved, AbstractReceipts, AbstractClient>>
  PROVE  Reference!RNext
  <1>1. Reference!Lookup("op", q, FALSE)
    BY DEF Reference!Lookup, Reference!Consume
  <1>. QED BY <1>1 DEF Reference!RNext

\* an operation is claimed:
LEMMA ClaimsStep ==
  ASSUME TypeOK, NEW n \in Attempts, NEW q \in Requests, q \notin Consumed, Consumed' = Consumed \cup {q},
         AbstractRecord = None,
         AbstractRecord' = [state |-> "claimed", fingerprint |-> "body", claim |-> n, uncertain |-> FALSE, receipts |-> <<>>],
         UNCHANGED <<moved, AbstractReceipts, AbstractClient>>, tracker.sent # {}
  PROVE  Reference!RNext
  <1>1. AbstractClient' = [AbstractClient EXCEPT !.everSent = TRUE]
    BY SentAlready
  <1>2. Reference!AttemptClaims(n, q)
    BY <1>1 DEF Reference!AttemptClaims, Reference!Sent, Reference!Consume
  <1>. QED BY <1>2 DEF Reference!RNext

\* its outcome exists:
LEMMA ExistsStep ==
  ASSUME TypeOK, NEW n \in Attempts, NEW q \in Requests, q \notin Consumed, Consumed' = Consumed \cup {q},
         AbstractRecord # None, AbstractRecord.fingerprint = "body", AbstractRecord.claim = None,
         UNCHANGED <<AbstractRecord, moved, AbstractReceipts, AbstractClient>>, tracker.sent # {}
  PROVE  Reference!RNext
  <1>1. AbstractClient' = [AbstractClient EXCEPT !.everSent = TRUE]
    BY SentAlready
  <1>2. Reference!AttemptExisting(n, q, FALSE)
    BY <1>1 DEF Reference!AttemptExisting, Reference!Sent, Reference!Consume
  <1>. QED BY <1>2 DEF Reference!RNext

\* it is settled:
LEMMA SettlesStep ==
  ASSUME NEW n \in Attempts, NEW o \in {"completed", "accepted", "rejected"}, AbstractRecord # None, AbstractRecord.claim = n,
         AbstractRecord' = Reference!Settled(AbstractRecord, [label |-> n, state |-> o, applies |-> "operation"]),
         moved' = IF o = "completed" THEN moved + 1 ELSE moved,
         AbstractReceipts' = AbstractReceipts \cup {[label |-> n, state |-> o, applies |-> "operation"]},
         UNCHANGED <<Consumed, AbstractClient>>
  PROVE  Reference!RNext
  <1>1. Reference!Settle(n, n, o, FALSE)
    BY DEF Reference!Settle, Reference!Holds
  <1>. QED BY <1>1 DEF Reference!RNext, Reference!Outcomes

\* its claim is marked:
LEMMA MarksStep ==
  ASSUME NEW n \in Attempts, AbstractRecord # None, AbstractRecord.claim = n,
         AbstractRecord' = [AbstractRecord EXCEPT !.uncertain = TRUE],
         UNCHANGED <<Consumed, moved, AbstractReceipts, AbstractClient>>
  PROVE  Reference!RNext
  <1>1. Reference!FailUncertain(n)
    BY DEF Reference!FailUncertain, Reference!Holds
  <1>. QED BY <1>1 DEF Reference!RNext

\* or released:
LEMMA ReleasesStep ==
  ASSUME NEW n \in Attempts, AbstractRecord # None, AbstractRecord.claim = n,
         AbstractRecord' = IF AbstractRecord.receipts = <<>> THEN None
                           ELSE [AbstractRecord EXCEPT !.state = "accepted", !.claim = None, !.uncertain = FALSE],
         UNCHANGED <<Consumed, moved, AbstractReceipts, AbstractClient>>
  PROVE  Reference!RNext
  <1>1. Reference!FailRolledBack(n)
    BY DEF Reference!FailRolledBack, Reference!Holds, Reference!Released
  <1>. QED BY <1>1 DEF Reference!RNext

\* it is continued:
LEMMA ResumesStep ==
  ASSUME NEW n \in Attempts, AbstractRecord # None, AbstractRecord.state = "accepted", AbstractRecord.claim = None,
         AbstractRecord.fingerprint = "body", AbstractRecord' = [AbstractRecord EXCEPT !.claim = n],
         UNCHANGED <<Consumed, moved, AbstractReceipts, AbstractClient>>
  PROVE  Reference!RNext
  <1>1. Reference!Resume(n)
    BY DEF Reference!Resume
  <1>. QED BY <1>1 DEF Reference!RNext

\* the client observes a receipt.
LEMMA ObservesStep ==
  ASSUME NEW r \in AbstractReceipts, AbstractClient' = Reference!ObserveReceipt(AbstractClient, r),
         UNCHANGED <<Consumed, AbstractRecord, moved, AbstractReceipts>>
  PROVE  Reference!RNext
  <1>1. Reference!ClientObserve("op", r)
    BY DEF Reference!ClientObserve, Reference!Observed
  <1>. QED BY <1>1 DEF Reference!RNext

-----------------------------------------------------------------------------
(* Records and what they are in the reference *)

\* A receipt by its label.
LEMMA OutcomeOf ==
  ASSUME NEW r \in Outcomes
  PROVE  Labelled(r) \in Labelings /\ Labelled(r) = [label |-> r.by, state |-> r.state, applies |-> "operation"]
  BY OutcomeParts DEF Labelled, Labelings

\* A history by its labels,
LEMMA LabelsOf ==
  ASSUME NEW rs \in Seq(Outcomes)
  PROVE  /\ Labels(rs) \in Seq(Labelings) /\ Len(Labels(rs)) = Len(rs)
         /\ \A i \in 1 .. Len(rs) : Labels(rs)[i] = Labelled(rs[i])
         /\ Labels(rs) = <<>> <=> rs = <<>>
  <1>1. DOMAIN rs = 1 .. Len(rs) /\ Len(rs) \in Nat /\ \A i \in DOMAIN rs : rs[i] \in Outcomes
    OBVIOUS
  <1>2. Labels(rs) \in Seq(Labelings) /\ Len(Labels(rs)) = Len(rs)
    BY <1>1, OutcomeOf DEF Labels
  <1>. QED BY <1>1, <1>2 DEF Labels

\* and one more receipt in it.
LEMMA LabelsMore ==
  ASSUME NEW rs \in Seq(Outcomes), NEW r \in Outcomes
  PROVE  Labels(Append(rs, r)) = Append(Labels(rs), Labelled(r))
  <1>1. Append(rs, r) \in Seq(Outcomes) /\ Len(Append(rs, r)) = Len(rs) + 1 /\ Len(rs) \in Nat
    OBVIOUS
  <1>2. Append(rs, r)[Len(rs) + 1] = r /\ \A i \in 1 .. Len(rs) : Append(rs, r)[i] = rs[i]
    OBVIOUS
  <1>3. /\ Labels(Append(rs, r)) \in Seq(Labelings) /\ Len(Labels(Append(rs, r))) = Len(rs) + 1
        /\ \A i \in 1 .. Len(rs) + 1 : Labels(Append(rs, r))[i] = Labelled(Append(rs, r)[i])
    BY <1>1, LabelsOf
  <1> DEFINE more == Append(Labels(rs), Labelled(r))
  <1>4. Labels(rs) \in Seq(Labelings) /\ Labelled(r) \in Labelings /\ Len(Labels(rs)) = Len(rs)
    BY LabelsOf, OutcomeOf
  <1>5. more \in Seq(Labelings) /\ Len(more) = Len(rs) + 1
    BY <1>4
  <1>6. more[Len(rs) + 1] = Labelled(r) /\ \A i \in 1 .. Len(rs) : more[i] = Labels(rs)[i]
    BY <1>1, <1>4
  <1>7. \A i \in 1 .. Len(rs) + 1 : more[i] = Labels(Append(rs, r))[i]
    BY <1>1, <1>2, <1>3, <1>6, LabelsOf
  <1> HIDE DEF more
  <1>8. Len(more) = Len(Labels(Append(rs, r))) /\ \A i \in 1 .. Len(more) : more[i] = Labels(Append(rs, r))[i]
    BY <1>3, <1>5, <1>7
  <1>9. more = Labels(Append(rs, r))
    BY <1>3, <1>5, <1>8, SeqEqual
  <1>. QED BY <1>9 DEF more

\* A record in the reference.
LEMMA RecordOf ==
  ASSUME NEW c \in Records
  PROVE  /\ AbstractOf(c) \in AbstractRecords /\ AbstractOf(c) # None
         /\ AbstractOf(c).state = IF c.state = "claimed" /\ c.receipts # <<>> THEN "accepted" ELSE c.state
         /\ AbstractOf(c).fingerprint = "body" /\ AbstractOf(c).claim = c.claim /\ AbstractOf(c).uncertain = c.uncertain
         /\ AbstractOf(c).receipts = Labels(c.receipts)
         /\ AbstractOf(c).receipts = <<>> <=> c.receipts = <<>>
  <1>1. c.receipts \in Seq(Outcomes) /\ Labels(c.receipts) \in Seq(Labelings) /\ (Labels(c.receipts) = <<>> <=> c.receipts = <<>>)
    BY LabelsOf DEF Records
  <1>2. AbstractOf(c) \in AbstractRecords
    BY <1>1 DEF AbstractOf, AbstractRecords, Records
  <1>. QED BY <1>1, <1>2, AbstractNoneAssumption DEF AbstractOf

\* Records of the reference are what their fields are.
LEMMA SameRecord ==
  ASSUME NEW a \in AbstractRecords, NEW b \in AbstractRecords, a.state = b.state, a.claim = b.claim, a.uncertain = b.uncertain,
         a.receipts = b.receipts
  PROVE  a = b
  BY DEF AbstractRecords

\* Continuing,
LEMMA ResumedOf ==
  ASSUME NEW c \in Records, NEW n \in Attempts, c.state = "accepted", c.receipts # <<>>
  PROVE  AbstractOf([c EXCEPT !.state = "claimed", !.claim = n]) = [AbstractOf(c) EXCEPT !.claim = n]
  <1> DEFINE d == [c EXCEPT !.state = "claimed", !.claim = n]
             a == AbstractOf(c)
  <1>1. d \in Records /\ d.state = "claimed" /\ d.claim = n /\ d.uncertain = c.uncertain /\ d.receipts = c.receipts
    BY DEF Records
  <1>2. a \in AbstractRecords /\ a.state = "accepted" /\ a.uncertain = c.uncertain /\ a.receipts = Labels(c.receipts)
    BY RecordOf
  <1> HIDE DEF d, a
  <1>3. /\ [a EXCEPT !.claim = n] \in AbstractRecords /\ [a EXCEPT !.claim = n].state = "accepted" /\ [a EXCEPT !.claim = n].claim = n
        /\ [a EXCEPT !.claim = n].uncertain = c.uncertain /\ [a EXCEPT !.claim = n].receipts = Labels(c.receipts)
    BY <1>2 DEF AbstractRecords
  <1>5. /\ AbstractOf(d) \in AbstractRecords /\ AbstractOf(d).state = "accepted" /\ AbstractOf(d).claim = n
        /\ AbstractOf(d).uncertain = c.uncertain /\ AbstractOf(d).receipts = Labels(c.receipts)
    BY <1>1, RecordOf
  <1>4. AbstractOf(d) = [a EXCEPT !.claim = n]
    BY <1>3, <1>5, SameRecord
  <1>. QED BY <1>4 DEF d, a

\* marking,
LEMMA MarkedOf ==
  ASSUME NEW c \in Records
  PROVE  AbstractOf([c EXCEPT !.uncertain = TRUE]) = [AbstractOf(c) EXCEPT !.uncertain = TRUE]
  <1> DEFINE d == [c EXCEPT !.uncertain = TRUE]
             a == AbstractOf(c)
  <1>1. d \in Records /\ d.state = c.state /\ d.claim = c.claim /\ d.uncertain = TRUE /\ d.receipts = c.receipts
    BY DEF Records
  <1>2. a \in AbstractRecords
    BY RecordOf
  <1> HIDE DEF d, a
  <1>3. /\ [a EXCEPT !.uncertain = TRUE] \in AbstractRecords /\ [a EXCEPT !.uncertain = TRUE].state = a.state
        /\ [a EXCEPT !.uncertain = TRUE].claim = a.claim /\ [a EXCEPT !.uncertain = TRUE].uncertain = TRUE
        /\ [a EXCEPT !.uncertain = TRUE].receipts = a.receipts
    BY <1>2 DEF AbstractRecords
  <1>5. /\ AbstractOf(d) \in AbstractRecords /\ AbstractOf(d).uncertain = TRUE
        /\ a.state = AbstractOf(d).state /\ a.claim = AbstractOf(d).claim /\ a.receipts = AbstractOf(d).receipts
    BY <1>1, RecordOf DEF a
  <1>4. AbstractOf(d) = [a EXCEPT !.uncertain = TRUE]
    BY <1>3, <1>5, SameRecord
  <1>. QED BY <1>4 DEF d, a

\* releasing,
LEMMA ReleasedOf ==
  ASSUME NEW c \in Records, c.receipts # <<>>
  PROVE  AbstractOf([c EXCEPT !.state = "accepted", !.claim = None, !.uncertain = FALSE]) =
         [AbstractOf(c) EXCEPT !.state = "accepted", !.claim = None, !.uncertain = FALSE]
  <1> DEFINE d == [c EXCEPT !.state = "accepted", !.claim = None, !.uncertain = FALSE]
             a == AbstractOf(c)
             b == [a EXCEPT !.state = "accepted", !.claim = None, !.uncertain = FALSE]
  <1>1. d \in Records /\ d.state = "accepted" /\ d.claim = None /\ d.uncertain = FALSE /\ d.receipts = c.receipts
    BY DEF Records
  <1>2. a \in AbstractRecords /\ a.receipts = Labels(c.receipts)
    BY RecordOf
  <1> HIDE DEF d, a
  <1>3. b \in AbstractRecords /\ b.state = "accepted" /\ b.claim = None /\ b.uncertain = FALSE /\ b.receipts = Labels(c.receipts)
    BY <1>2 DEF AbstractRecords
  <1> HIDE DEF b
  <1>5. /\ AbstractOf(d) \in AbstractRecords /\ AbstractOf(d).state = "accepted" /\ AbstractOf(d).claim = None
        /\ AbstractOf(d).uncertain = FALSE /\ AbstractOf(d).receipts = Labels(c.receipts)
    BY <1>1, RecordOf
  <1>4. AbstractOf(d) = b
    BY <1>3, <1>5, SameRecord
  <1>. QED BY <1>4 DEF d, a, b

\* and settling a record are the same there.
LEMMA CommittedOf ==
  ASSUME NEW c \in Records, NEW n \in Attempts, NEW o \in {"accepted"} \cup Finals
  PROVE  AbstractOf([c EXCEPT !.state = o, !.claim = None, !.uncertain = FALSE,
                              !.receipts = Append(@, [by |-> n, state |-> o, applies |-> "operation"])]) =
         Reference!Settled(AbstractOf(c), [label |-> n, state |-> o, applies |-> "operation"])
  <1> DEFINE new == [by |-> n, state |-> o, applies |-> "operation"]
             label == [label |-> n, state |-> o, applies |-> "operation"]
             d == [c EXCEPT !.state = o, !.claim = None, !.uncertain = FALSE, !.receipts = Append(@, new)]
             a == AbstractOf(c)
             b == [a EXCEPT !.state = label.state, !.claim = None, !.uncertain = FALSE, !.receipts = Append(@, label)]
  <1>1. new \in Outcomes /\ label \in Labelings /\ Labelled(new) = label /\ label.state = o
    BY DEF Outcomes, Labelled, Labelings
  <1> HIDE DEF new, label
  <1>2. c.receipts \in Seq(Outcomes) /\ Append(c.receipts, new) \in Seq(Outcomes)
    BY <1>1 DEF Records
  <1>3. d \in Records /\ d.state = o /\ d.claim = None /\ d.uncertain = FALSE /\ d.receipts = Append(c.receipts, new)
    BY <1>2 DEF Records
  <1>4. a \in AbstractRecords /\ a.receipts = Labels(c.receipts) /\ Append(Labels(c.receipts), label) \in Seq(Labelings)
    BY <1>1, <1>2, RecordOf, LabelsOf
  <1> HIDE DEF d, a
  <1>5. b \in AbstractRecords /\ b.state = o /\ b.claim = None /\ b.uncertain = FALSE /\ b.receipts = Append(Labels(c.receipts), label)
    BY <1>1, <1>4 DEF AbstractRecords
  <1>6. b = Reference!Settled(a, label)
    BY DEF Reference!Settled
  <1> HIDE DEF b
  <1>7. o # "claimed"
    BY DEF Finals
  <1>9. /\ AbstractOf(d) \in AbstractRecords /\ AbstractOf(d).state = o /\ AbstractOf(d).claim = None
        /\ AbstractOf(d).uncertain = FALSE /\ AbstractOf(d).receipts = Labels(Append(c.receipts, new))
    BY <1>3, <1>7, RecordOf
  <1>10. Labels(Append(c.receipts, new)) = Append(Labels(c.receipts), label)
    BY <1>1, <1>2, LabelsMore
  <1>8. AbstractOf(d) = b
    BY <1>5, <1>9, <1>10, SameRecord
  <1>. QED BY <1>6, <1>8 DEF d, a, label, new

-----------------------------------------------------------------------------
(* The steps of the exchange *)

\* What is recorded, by its labels.
LEMMA ReceiptsOf ==
  ASSUME TypeOK, record # None
  PROVE  AbstractReceipts = {Labelled(r) : r \in Recorded} /\ AbstractRecord = AbstractOf(record) /\ AbstractRecord # None
  BY RecordParts, RecordOf DEF AbstractReceipts, AbstractRecord

\* The receiver's claims,
LEMMA ClaimRefines ==
  ASSUME ExchangeInv, NEW n \in Attempts, Claim(n) PROVE Reference!RNext
  <1> DEFINE c == [state |-> "claimed", claim |-> n, uncertain |-> FALSE, receipts |-> <<>>]
  <1>1. c \in Records /\ c # None /\ record = None /\ record' = c
    BY ClaimedIn, NoneAssumption DEF Claim
  <1>2. AbstractRecord = None /\ AbstractRecord' = AbstractOf(c) /\ AbstractReceipts = {} /\ AbstractReceipts' = {}
    BY <1>1 DEF AbstractRecord, AbstractReceipts
  <1>3. AbstractOf(c) = [state |-> "claimed", fingerprint |-> "body", claim |-> n, uncertain |-> FALSE, receipts |-> <<>>]
    BY DEF AbstractOf, Labels
  <1>4. tracker.sent # {} /\ <<"transfer", n>> \in Requests /\ UNCHANGED <<moved, AbstractClient>>
    BY RequestIn, ClientSame DEF Claim, ExchangeInv, Reached
  <1>5. <<"transfer", n>> \notin Consumed /\ Consumed' = Consumed \cup {<<"transfer", n>>}
    BY <1>4, Consumes DEF Claim, ExchangeInv
  <1>. QED BY <1>2, <1>3, <1>4, <1>5, ClaimsStep DEF ExchangeInv

\* continuations,
LEMMA ResumeRefines ==
  ASSUME ExchangeInv, NEW n \in Attempts, Resume(n) PROVE Reference!RNext
  <1>1. record # None /\ record \in Records /\ record.state = "accepted" /\ record.claim = None /\ record.receipts # <<>>
    BY RecordParts DEF Resume, ExchangeInv, RecordFits
  <1>2. record' \in Records /\ record' # None /\ record' = [record EXCEPT !.state = "claimed", !.claim = n]
    BY <1>1, ResumedIn, NoneAssumption DEF Resume, ExchangeInv
  <1>3. AbstractRecord' = [AbstractRecord EXCEPT !.claim = n]
    BY <1>1, <1>2, ResumedOf DEF AbstractRecord
  <1>4. UNCHANGED AbstractReceipts
    BY <1>1, <1>2 DEF AbstractReceipts, Records
  <1>5. UNCHANGED <<Consumed, moved, AbstractClient>>
    BY RequestIn, ConsumesNone, ClientSame DEF Resume, ExchangeInv
  <1>6. /\ AbstractRecord # None /\ AbstractRecord.state = "accepted" /\ AbstractRecord.claim = None
        /\ AbstractRecord.fingerprint = "body"
    BY <1>1, RecordOf DEF AbstractRecord
  <1>. QED BY <1>3, <1>4, <1>5, <1>6, ResumesStep

\* outcomes,
LEMMA CommitRefines ==
  ASSUME ExchangeInv, NEW n \in Attempts, NEW o \in Settlements, Commit(n, o) PROVE Reference!RNext
  <1> DEFINE new == [by |-> n, state |-> o, applies |-> "operation"]
             c == [record EXCEPT !.state = o, !.claim = None, !.uncertain = FALSE, !.receipts = Append(@, new)]
  <1>1. record # None /\ record \in Records /\ record.claim = n /\ o \in {"accepted"} \cup Finals
    BY RecordParts, SettlementsAssumption DEF Commit, Held, ExchangeInv
  <1>2. c \in Records /\ c # None /\ record' = c
    BY <1>1, CommittedIn, NoneAssumption DEF Commit, ExchangeInv
  <1>3. AbstractOf(c) = Reference!Settled(AbstractOf(record), [label |-> n, state |-> o, applies |-> "operation"])
    BY <1>1, CommittedOf
  <1>4. record'.receipts = Append(record.receipts, new) /\ record.receipts \in Seq(Outcomes) /\ new \in Outcomes
    BY <1>1, <1>2 DEF Records, Outcomes
  <1> HIDE DEF c
  <1>5. AbstractRecord # None /\ AbstractRecord.claim = n /\ AbstractRecord = AbstractOf(record) /\ AbstractRecord' = AbstractOf(c)
    BY <1>1, <1>2, RecordOf DEF AbstractRecord
  <1>6. AbstractReceipts' = AbstractReceipts \cup {[label |-> n, state |-> o, applies |-> "operation"]}
    <2>1. Labelled(new) = [label |-> n, state |-> o, applies |-> "operation"]
      BY DEF Labelled
    <2> HIDE DEF new
    <2>2. DOMAIN record'.receipts = 1 .. Len(record.receipts) + 1 /\ DOMAIN record.receipts = 1 .. Len(record.receipts) /\ Len(record.receipts) \in Nat
      BY <1>4
    <2>3. /\ record'.receipts[Len(record.receipts) + 1] = new
          /\ \A i \in 1 .. Len(record.receipts) : record'.receipts[i] = record.receipts[i]
      BY <1>4
    <2>4. AbstractReceipts' = AbstractReceipts \cup {Labelled(new)}
      <3>1. AbstractReceipts' = {Labelled(record'.receipts[i]) : i \in 1 .. Len(record.receipts) + 1}
        BY <1>2, <2>2 DEF AbstractReceipts
      <3>2. AbstractReceipts = {Labelled(record.receipts[i]) : i \in 1 .. Len(record.receipts)}
        BY <1>1, <2>2 DEF AbstractReceipts
      <3>. QED BY <3>1, <3>2, <2>2, <2>3
    <2>. QED BY <2>1, <2>4
  <1>7. UNCHANGED <<Consumed, AbstractClient>>
    BY RequestIn, ConsumesNone, ClientSame DEF Commit, Working, ExchangeInv
  <1>8. moved' = IF o = "completed" THEN moved + 1 ELSE moved
    BY DEF Commit
  <1>. QED BY <1>1, <1>3, <1>5, <1>6, <1>7, <1>8, SettlesStep DEF Finals

\* marks of a claim,
LEMMA MarkRefines ==
  ASSUME ExchangeInv, record # None, record.claim # None, record' = [record EXCEPT !.uncertain = TRUE],
         UNCHANGED <<Consumed, moved, tracker>>
  PROVE  Reference!RNext
  <1>1. record \in Records /\ record.claim \in Attempts /\ record' \in Records /\ record' # None
    BY RecordParts, MarkedIn, NoneAssumption DEF ExchangeInv
  <1>2. AbstractRecord' = [AbstractRecord EXCEPT !.uncertain = TRUE] /\ AbstractRecord # None /\ AbstractRecord.claim = record.claim
    BY <1>1, MarkedOf, RecordOf DEF AbstractRecord
  <1>3. UNCHANGED AbstractReceipts
    BY <1>1 DEF AbstractReceipts, Records
  <1>. QED BY <1>1, <1>2, <1>3, ClientSame, MarksStep

\* and releases are those of the reference.
LEMMA ReleaseRefines ==
  ASSUME ExchangeInv, record # None, record.claim # None, record' = Released, UNCHANGED <<Consumed, moved, tracker>>
  PROVE  Reference!RNext
  <1>1. record \in Records /\ record.claim \in Attempts
    BY RecordParts DEF ExchangeInv
  <1>2. /\ AbstractRecord = AbstractOf(record) /\ AbstractRecord # None /\ AbstractRecord.claim = record.claim
        /\ AbstractRecord.receipts = <<>> <=> record.receipts = <<>>
    BY <1>1, RecordOf DEF AbstractRecord
  <1>3. CASE record.receipts = <<>>
    <2>1. record' = None
      BY <1>3 DEF Released
    <2>2. AbstractReceipts = {} /\ AbstractReceipts' = {} /\ AbstractRecord' = None
      BY <1>3, <2>1 DEF AbstractReceipts, AbstractRecord
    <2>. QED BY <1>1, <1>2, <1>3, <2>2, ClientSame, ReleasesStep
  <1>4. CASE record.receipts # <<>>
    <2>1. record' = [record EXCEPT !.state = "accepted", !.claim = None, !.uncertain = FALSE]
      BY <1>4 DEF Released
    <2>2. record' \in Records /\ record' # None /\ record'.receipts = record.receipts
      BY <1>1, <2>1, NoneAssumption DEF Records
    <2>3. AbstractRecord' = [AbstractRecord EXCEPT !.state = "accepted", !.claim = None, !.uncertain = FALSE]
      BY <1>1, <1>2, <1>4, <2>1, <2>2, ReleasedOf DEF AbstractRecord
    <2>4. UNCHANGED AbstractReceipts
      BY <2>2 DEF AbstractReceipts
    <2>. QED BY <1>1, <1>2, <1>4, <2>3, <2>4, ClientSame, ReleasesStep
  <1>. QED BY <1>3, <1>4

\* The tracker in the reference.
LEMMA ClientOf ==
  ASSUME NEW t \in [state : {"unknown", "accepted", "inconsistent"} \cup Finals, terminal : Outcomes \cup {None}, sent : SUBSET Attempts]
  PROVE  [state |-> t.state, terminal |-> IF t.terminal = None THEN None ELSE t.terminal.by, everSent |-> t.sent # {}] \in AbstractClients
  <1>1. (t.sent # {}) \in BOOLEAN
    BY Zenon
  <1>2. (IF t.terminal = None THEN None ELSE t.terminal.by) \in Attempts \cup {None}
    BY OutcomeParts
  <1>. QED BY <1>1, <1>2 DEF AbstractClients

\* Clients of the reference are what their fields are.
LEMMA SameClient ==
  ASSUME NEW a \in AbstractClients, NEW b \in AbstractClients, a.state = b.state, a.terminal = b.terminal, a.everSent = b.everSent
  PROVE  a = b
  BY DEF AbstractClients

\* The client observes as the reference's does, or what is none of its business.
LEMMA ObserveRefines ==
  ASSUME ExchangeInv, NEW r \in Outcomes \cup {OfAttempt(n) : n \in Attempts}, r.applies = "operation" => r \in Recorded,
         tracker' = Applied(tracker, r), UNCHANGED <<handled, record, moved>>
  PROVE  [Reference!RNext]_(Reference!rvars)
  <1>1. UNCHANGED <<Consumed, AbstractRecord, moved, AbstractReceipts>>
    BY RecordSame, HandledSame
  <1>2. CASE tracker' = tracker
    BY <1>1, <1>2, ClientSame, Stutters DEF View
  <1>3. CASE tracker' # tracker
    <2>1. r \in Outcomes /\ r \in Recorded /\ r.state \in {"accepted"} \cup Finals /\ r.applies = "operation"
      BY <1>3, OutcomeParts DEF Applied, OfAttempt
    <2>2. record # None
      BY <2>1 DEF Recorded
    <2>3. Labelled(r) \in AbstractReceipts
      BY <2>1, <2>2, ReceiptsOf DEF ExchangeInv
    <2>4. Labelled(r).label = r.by /\ Labelled(r).state = r.state /\ Labelled(r).applies = "operation"
      BY <2>1, OutcomeOf
    <2>5. AbstractClient' = Reference!ObserveReceipt(AbstractClient, Labelled(r))
      <3> DEFINE c == AbstractClient
                 d == AbstractClient'
      <3>1. tracker' \in [state : {"unknown", "accepted", "inconsistent"} \cup Finals, terminal : Outcomes \cup {None}, sent : SUBSET Attempts]
        BY AppliedIn DEF ExchangeInv
      <3>2. c \in AbstractClients /\ d \in AbstractClients
        BY <3>1, ClientOf DEF AbstractClient, ExchangeInv, TypeOK
      <3>3. /\ c.state = tracker.state /\ c.terminal = IF tracker.terminal = None THEN None ELSE tracker.terminal.by
            /\ d.state = tracker'.state /\ d.terminal = IF tracker'.terminal = None THEN None ELSE tracker'.terminal.by
        BY DEF AbstractClient
      <3>4. d.everSent = c.everSent
        BY SentKept DEF AbstractClient, ExchangeInv
      <3> HIDE DEF c, d
      <3>5. CASE r.state = "accepted"
        <4>1. tracker.state = "unknown" /\ tracker' = [tracker EXCEPT !.state = "accepted"]
          BY <1>3, <3>5 DEF Applied
        <4>2. tracker'.state = "accepted" /\ tracker'.terminal = tracker.terminal
          BY <4>1 DEF ExchangeInv, TypeOK
        <4> DEFINE e == [c EXCEPT !.state = "accepted"]
        <4>3. e \in AbstractClients /\ e.state = "accepted" /\ e.terminal = c.terminal /\ e.everSent = c.everSent
          BY <3>2 DEF AbstractClients
        <4>4. Reference!ObserveReceipt(c, Labelled(r)) = e
          BY <2>4, <3>3, <3>5, <4>1 DEF Reference!ObserveReceipt
        <4> HIDE DEF e
        <4>5. d.terminal = c.terminal
          BY <3>3, <4>2
        <4>6. d = e
          BY <3>2, <3>3, <3>4, <4>2, <4>3, <4>5, SameClient
        <4>. QED BY <4>4, <4>6 DEF c, d
      <3>6. CASE r.state \in Finals
        <4>1. tracker.state # "inconsistent" /\ (tracker.terminal = None \/ tracker.terminal = r)
          BY <2>1, <3>6, FinalsAgree DEF Founded, ExchangeInv, Finals
        <4>2. tracker' = [tracker EXCEPT !.state = r.state, !.terminal = r]
          BY <1>3, <3>6, <4>1 DEF Applied, Finals
        <4>3. tracker'.state = r.state /\ tracker'.terminal = r /\ r # None
          BY <2>1, <4>2, NoneAssumption DEF ExchangeInv, TypeOK
        <4> DEFINE e == [c EXCEPT !.state = r.state, !.terminal = r.by]
        <4>4. e \in AbstractClients /\ e.state = r.state /\ e.terminal = r.by /\ e.everSent = c.everSent
          BY <2>1, <3>2, <3>6, OutcomeParts DEF AbstractClients
        <4>5. Reference!ObserveReceipt(c, Labelled(r)) = e
          BY <2>4, <3>3, <3>6, <4>1 DEF Reference!ObserveReceipt, Finals
        <4> HIDE DEF e
        <4>6. d = e
          BY <3>2, <3>3, <3>4, <4>3, <4>4, SameClient
        <4>. QED BY <4>5, <4>6 DEF c, d
      <3>. QED BY <2>1, <3>5, <3>6
    <2>. QED BY <1>1, <2>3, <2>5, ObservesStep
  <1>. QED BY <1>2, <1>3

\* An attempt that is sent may be lost, for all the reference knows.
LEMMA SendRefines ==
  ASSUME ExchangeInv, SendAttempt PROVE Reference!RNext
  <1>1. client.try \in Attempts /\ UNCHANGED <<handled, record, moved>>
    BY DEF SendAttempt, ExchangeInv, TypeOK
  <1>2. /\ tracker'.state = tracker.state /\ tracker'.terminal = tracker.terminal /\ tracker'.sent # {}
        /\ tracker' \in [state : {"unknown", "accepted", "inconsistent"} \cup Finals, terminal : Outcomes \cup {None}, sent : SUBSET Attempts]
    BY <1>1 DEF SendAttempt, ExchangeInv, TypeOK
  <1> DEFINE c == AbstractClient
             d == AbstractClient'
             e == [c EXCEPT !.everSent = TRUE]
  <1>3. c \in AbstractClients /\ d \in AbstractClients
    BY <1>2, ClientOf DEF AbstractClient, ExchangeInv, TypeOK
  <1>4. d.state = c.state /\ d.terminal = c.terminal
    BY <1>2 DEF AbstractClient
  <1>5. d.everSent = TRUE
    <2>1. (tracker'.sent # {}) = TRUE
      BY <1>2
    <2>. QED BY <2>1, Zenon DEF AbstractClient
  <1> HIDE DEF c, d
  <1>6. e \in AbstractClients /\ e.state = c.state /\ e.terminal = c.terminal /\ e.everSent = TRUE
    BY <1>3 DEF AbstractClients
  <1> HIDE DEF e
  <1>7. d = e
    BY <1>3, <1>4, <1>5, <1>6, SameClient
  <1>8. UNCHANGED <<Consumed, AbstractRecord, moved, AbstractReceipts>>
    BY <1>1, RecordSame, HandledSame
  <1>. QED BY <1>1, <1>7, <1>8, LosesStep DEF c, d, e

\* An outcome that is stored may be on its way for ever.
LEMMA ExistingRefines ==
  ASSUME ExchangeInv, NEW n \in Attempts, Existing(n) PROVE Reference!RNext
  <1>1. record \in Records /\ record # None /\ record.claim = None
    BY RecordParts DEF Existing, ExchangeInv
  <1>2. AbstractRecord # None /\ AbstractRecord.claim = None /\ AbstractRecord.fingerprint = "body"
    BY <1>1, RecordOf DEF AbstractRecord
  <1>3. <<"transfer", n>> \in Requests /\ tracker.sent # {}
    BY <1>1, RequestIn DEF ExchangeInv, Reached
  <1>4. <<"transfer", n>> \notin Consumed /\ Consumed' = Consumed \cup {<<"transfer", n>>}
    BY <1>3, Consumes DEF Existing, ExchangeInv
  <1>5. UNCHANGED <<AbstractRecord, moved, AbstractReceipts, AbstractClient>>
    BY RecordSame, ClientSame DEF Existing
  <1>. QED BY <1>2, <1>3, <1>4, <1>5, ExistsStep DEF ExchangeInv

\* A handler that stopped before it decided has consumed the challenge in vain.
LEMMA CrashRefines ==
  ASSUME ExchangeInv, NEW q \in Requests, Crash(q) PROVE [Reference!RNext]_(Reference!rvars)
  <1>1. UNCHANGED <<AbstractRecord, moved, AbstractReceipts, AbstractClient>> /\ Stage(q, "ended")
    BY RecordSame, ClientSame DEF Crash
  <1>2. CASE handled[q] = "authenticated"
    <2>1. q \notin Consumed /\ Consumed' = Consumed \cup {q}
      BY <1>1, <1>2, Consumes DEF ExchangeInv
    <2>. QED BY <1>1, <2>1, LooksUpStep
  <1>3. CASE handled[q] # "authenticated"
    BY <1>1, <1>3, ConsumesNone, Stutters DEF Crash, View, ExchangeInv
  <1>. QED BY <1>2, <1>3

\* A worker that failed releases its claim, marks it, or has none any more.
LEMMA FailRefines ==
  ASSUME ExchangeInv, NEW n \in Attempts, NEW rolledBack \in BOOLEAN, Fail(n, rolledBack)
  PROVE  [Reference!RNext]_(Reference!rvars)
  <1>1. UNCHANGED <<Consumed, moved, tracker>>
    BY RequestIn, ConsumesNone DEF Fail, Working, ExchangeInv
  <1>2. CASE ~Held(n)
    BY <1>1, <1>2, RecordSame, ClientSame, Stutters DEF Fail, View
  <1>3. CASE Held(n)
    <2>1. record # None /\ record.claim # None
      BY <1>3, NoneAssumption, TriesAssumption DEF Held, Attempts
    <2>. QED BY <1>1, <1>3, <2>1, MarkRefines, ReleaseRefines DEF Fail
  <1>. QED BY <1>2, <1>3

\* Every step is one of the reference, or none of its business.
LEMMA StepRefines ==
  ASSUME ExchangeInv, [Next]_vars PROVE [Reference!RNext]_(Reference!rvars)
<1>. USE DEF ExchangeInv
<1>1. CASE UNCHANGED vars
  BY <1>1, Stutters, RecordSame, ClientSame, HandledSame DEF View, vars
<1>2. CASE Unauthentic
  BY <1>2, Stutters, RecordSame, ClientSame, HandledSame DEF View, Unauthentic
<1>3. CASE SendLookup
  BY <1>3, Stutters, RecordSame, ClientSame, HandledSame DEF View, SendLookup
<1>4. CASE ObserveNext
  BY <1>4, TodoIn, ObserveRefines DEF ObserveNext, Founded
<1>5. CASE LookupOver
  BY <1>5, Stutters, RecordSame, ClientSame, HandledSame DEF View, LookupOver
<1>6. CASE SendAttempt
  BY <1>6, SendRefines
<1>7. CASE Lost
  BY <1>7, Stutters, RecordSame, ClientSame, HandledSame DEF View, Lost
<1>8. ASSUME NEW answer \in answers, LookedUp(answer) PROVE [Reference!RNext]_(Reference!rvars)
  BY <1>8, Stutters, RecordSame, ClientSame, HandledSame DEF View, LookedUp
<1>9. ASSUME NEW answer \in answers, Answered(answer) PROVE [Reference!RNext]_(Reference!rvars)
  BY <1>9, MessageParts, ObserveRefines DEF Answered, AnsweredIsRecorded, TypeOK
<1>10. ASSUME NEW q \in Requests, Authenticate(q) PROVE [Reference!RNext]_(Reference!rvars)
  BY <1>10, ConsumesNone, Stutters, RecordSame, ClientSame DEF View, Authenticate
<1>11. ASSUME NEW q \in Requests, Unauthenticated(q) PROVE [Reference!RNext]_(Reference!rvars)
  BY <1>11, Stutters, RecordSame, ClientSame, HandledSame DEF View, Unauthenticated
<1>12. ASSUME NEW q \in Requests, Lookup(q) PROVE [Reference!RNext]_(Reference!rvars)
  BY <1>12, Consumes, RecordSame, ClientSame, LooksUpStep DEF Lookup
<1>13. ASSUME NEW q \in Requests, Crash(q) PROVE [Reference!RNext]_(Reference!rvars)
  BY <1>13, CrashRefines
<1>14. ASSUME NEW n \in Attempts, Refuse(n) PROVE [Reference!RNext]_(Reference!rvars)
  BY <1>14, RequestIn, Consumes, RecordSame, ClientSame, RefusesStep DEF Refuse, Reached
<1>15. ASSUME NEW n \in Attempts, Claim(n) PROVE [Reference!RNext]_(Reference!rvars)
  BY <1>15, ClaimRefines
<1>16. ASSUME NEW n \in Attempts, Existing(n) PROVE [Reference!RNext]_(Reference!rvars)
  BY <1>16, ExistingRefines
<1>17. ASSUME NEW n \in Attempts, Resume(n) PROVE [Reference!RNext]_(Reference!rvars)
  BY <1>17, ResumeRefines
<1>18. ASSUME NEW n \in Attempts, Respond(n) PROVE [Reference!RNext]_(Reference!rvars)
  BY <1>18, RequestIn, ConsumesNone, Stutters, RecordSame, ClientSame DEF View, Respond
<1>19. ASSUME NEW n \in Attempts, CommitUnseen(n) PROVE [Reference!RNext]_(Reference!rvars)
  BY <1>19, RequestIn, ConsumesNone, Stutters, RecordSame, ClientSame DEF View, CommitUnseen
<1>20. ASSUME NEW n \in Attempts, RollBackSettled(n) PROVE [Reference!RNext]_(Reference!rvars)
  BY <1>20, RequestIn, ConsumesNone, Stutters, RecordSame, ClientSame DEF View, RollBackSettled, Working
<1>21. ASSUME NEW n \in Attempts, NEW o \in Settlements, Commit(n, o) PROVE [Reference!RNext]_(Reference!rvars)
  BY <1>21, CommitRefines
<1>22. ASSUME NEW n \in Attempts, NEW rolledBack \in BOOLEAN, Fail(n, rolledBack) PROVE [Reference!RNext]_(Reference!rvars)
  BY <1>22, FailRefines
<1>23. CASE MarkUncertain
  BY <1>23, HandledSame, MarkRefines DEF MarkUncertain, Supervises
<1>24. CASE Reconcile
  BY <1>24, HandledSame, ReleaseRefines DEF Reconcile
<1>. QED BY <1>1, <1>2, <1>3, <1>4, <1>5, <1>6, <1>7, <1>8, <1>9, <1>10, <1>11, <1>12, <1>13, <1>14, <1>15, <1>16, <1>17, <1>18, <1>19, <1>20, <1>21, <1>22, <1>23, <1>24 DEF Next, Client, Receiver

\* The exchange begins as the reference does.
LEMMA InitRefines ==
  ASSUME Init PROVE Reference!RInit
  <1>1. Consumed = {} /\ AbstractRecord = None /\ AbstractReceipts = {} /\ moved = 0
    BY DEF Init, Consumed, AbstractRecord, AbstractReceipts
  <1>2. AbstractClient = [state |-> "unknown", terminal |-> None, everSent |-> FALSE]
    <2>1. ({} # {}) = FALSE
      OBVIOUS
    <2>2. tracker.state = "unknown" /\ tracker.terminal = None /\ tracker.sent = {}
      BY DEF Init
    <2>. QED BY <2>1, <2>2, Zenon DEF AbstractClient
  <1>. QED BY <1>1, <1>2 DEF Reference!RInit

\* For any number of tries: agent, receiver, supervisor and network together behave as
\* the sequential model does that the conformance sequences are drawn from.
THEOREM ExchangeImplementsReference == Spec => ImplementsReference
  <1>1. Init => Reference!RInit
    BY InitRefines
  <1>2. ExchangeInv /\ [Next]_vars => [Reference!RNext]_(Reference!rvars)
    BY StepRefines
  <1>. QED BY <1>1, <1>2, ExchangeInvariantHolds, PTL DEF Spec, ImplementsReference, Reference!RSpec

=============================================================================
