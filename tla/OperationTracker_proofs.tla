---------------------- MODULE OperationTracker_proofs ----------------------
(***************************************************************************)
(* Theorems about the client's tracker, for any attempts, receipts signed  *)
(* and calls in flight.                                                    *)
(***************************************************************************)
EXTENDS OperationTracker, TLAPS

\* The tracker starts in its invariant: nothing sent, nothing seen.
LEMMA InitInv == Init => TrackerInv
BY NoneAssumption DEF Init, TrackerInv, TypeOK, Explained, BoundInFlight, Call, Idle, States,
   Told, Finals, Outcomes, Ids

\* Only Apply changes what the tracker knows.
LEMMA UntoldKeepsExplained ==
  ASSUME Explained, UNCHANGED <<current, terminal, kept, ids>>
  PROVE  Explained'
BY DEF Explained, Told, Clash, Dispute

\* The statement applied is a signed receipt, bound to an attempt that was recorded.
LEMMA AppliedIsSigned ==
  ASSUME TrackerInv, NEW o \in Observers, Apply(o)
  PROVE  call[o].seen \in Signed /\ Bound(call[o].seen)
BY DEF TrackerInv, TypeOK, Call, BoundInFlight, Apply

\* record leaves everything bound bound, as attempts are never dropped.
LEMMA RecordInv ==
  ASSUME TrackerInv, NEW a \in Attempts, Record(a)
  PROVE  TrackerInv'
<1>1. TypeOK'
  BY DEF TrackerInv, TypeOK, Record
<1>2. Explained'
  BY UntoldKeepsExplained DEF TrackerInv, Record
<1>3. BoundInFlight'
  BY DEF TrackerInv, BoundInFlight, Record, Bound
<1>4. QED
  BY <1>1, <1>2, <1>3 DEF TrackerInv

\* A call of observe or observeLookup knows nothing yet.
LEMMA CallInv ==
  ASSUME TrackerInv, NEW o \in Observers, NEW h \in Seq(Signed), NEW m \in {"decision", "retrieval"},
         call' = [call EXCEPT ![o] = [todo |-> h, mode |-> m, seen |-> None]],
         UNCHANGED <<sent, current, terminal, kept, ids>>
  PROVE  TrackerInv'
<1>1. TypeOK'
  BY DEF TrackerInv, TypeOK, Call
<1>2. Explained'
  BY UntoldKeepsExplained DEF TrackerInv
<1>3. BoundInFlight'
  BY DEF TrackerInv, TypeOK, BoundInFlight, Bound
<1>4. QED
  BY <1>1, <1>2, <1>3 DEF TrackerInv

\* A receipt goes on to be applied only if it is bound.
LEMMA CheckInv ==
  ASSUME TrackerInv, NEW o \in Observers, Check(o)
  PROVE  TrackerInv'
<1> DEFINE r == Head(call[o].todo)
<1>1. call[o] \in Call /\ r \in Signed /\ Tail(call[o].todo) \in Seq(Signed)
  BY DEF TrackerInv, TypeOK, Call, Check
<1>2. TypeOK'
  BY <1>1 DEF TrackerInv, TypeOK, Check, Call
<1>3. Explained'
  BY UntoldKeepsExplained DEF TrackerInv, Check
<1>4. \A d \in Observers : call'[d].seen # None =>
          \/ call'[d].seen = call[d].seen
          \/ call'[d].seen = r /\ Bound(r)
  BY <1>1 DEF TrackerInv, TypeOK, Check, Call, Admissible
<1>5. \A t : Bound(t)' <=> Bound(t)
  BY DEF Bound, Check
<1>6. BoundInFlight'
  BY <1>4, <1>5 DEF TrackerInv, BoundInFlight, Check
<1>7. QED
  BY <1>2, <1>3, <1>6 DEF TrackerInv

\* The statement applied explains the state it moves to.
LEMMA ApplyExplains ==
  ASSUME TrackerInv, NEW o \in Observers, Apply(o)
  PROVE  Explained'
<1> DEFINE s == call[o].seen
<1>1. s \in Signed /\ s # None /\ s.id \in Ids /\ ids \in [Ids -> Signed \cup {None}]
  BY AppliedIsSigned DEF Apply, Ids, TrackerInv, TypeOK
<1>2. kept' = kept \cup {s} /\ ids' = [ids EXCEPT ![s.id] = IF @ = None THEN s ELSE @]
  BY DEF Apply
<1>3. Explained
  BY DEF TrackerInv
<1>4. (\A t \in kept : ids[t.id] # None)' /\ (\A i \in Ids : ids[i] # None => ids[i] \in kept /\ ids[i].id = i)'
  BY <1>1, <1>2, <1>3 DEF Explained
<1>5. s.state \in Outcomes
  BY <1>1, SignedAssumption
<1>6. CASE s.applies # "operation"
  <2>1. Told' = Told /\ UNCHANGED <<current, terminal>>
    BY <1>2, <1>6 DEF Told, Apply
  <2>2. QED
    BY <1>2, <1>3, <1>4, <2>1 DEF Explained, Clash, Dispute
<1>7. CASE s.applies = "operation"
  <2>1. Told' = Told \cup {s} /\ s \in Told'
    BY <1>2, <1>7 DEF Told
  <2>2. current' = NextState(s) /\ terminal' = IF Governs(s) THEN s ELSE terminal
    BY <1>7 DEF Apply
  <2>3. current \in States /\ current' # "unknown"
    BY <1>1, <1>3, <1>5, <2>2 DEF TrackerInv, TypeOK, NextState, Finals, Outcomes, States, Explained
  <2>4. CASE Equivocal(s)
    <3>1. ids[s.id] \in kept /\ Clash(s, ids[s.id])
      BY <1>1, <1>3, <2>4 DEF Explained, Equivocal, Clash
    <3>2. \E t \in Told', u \in kept' : Clash(t, u)
      BY <1>2, <2>1, <3>1
    <3>3. current' = "inconsistent" /\ terminal' = terminal
      BY <2>2, <2>4 DEF NextState, Governs
    <3>4. (terminal # None => terminal \in Told /\ terminal.state \in Finals)'
      BY <1>3, <2>1, <3>3 DEF Explained
    <3>5. QED
      BY <1>4, <2>1, <3>2, <3>3, <3>4 DEF Explained, Finals
  <2>5. ASSUME ~Equivocal(s), current # "inconsistent", NEW t \in Told
        PROVE  ~Clash(s, t) /\ ~Clash(t, s)
    <3>1. t \in kept /\ t \in Signed /\ t.id \in Ids /\ ids[t.id] # None
      BY <1>3 DEF Explained, Told, TrackerInv, TypeOK, Ids
    <3>2. CASE s.id = t.id
      <4>1. ids[s.id] = s /\ s \in kept
        BY <1>1, <1>3, <2>5, <3>1, <3>2 DEF Explained, Equivocal
      <4>2. s \in Told
        BY <1>7, <4>1 DEF Told
      <4>3. QED
        BY <1>3, <2>5, <4>2 DEF Explained
    <3>3. QED
      BY <3>2 DEF Clash
  <2>6. ASSUME ~Equivocal(s), current # "inconsistent"
        PROVE  \A t, u \in Told' : ~Clash(t, u)
    BY <1>3, <2>1, <2>5, <2>6 DEF Explained, Clash
  <2>7. CASE ~Equivocal(s) /\ current = "inconsistent"
    <3>1. current' = "inconsistent" /\ terminal' = terminal
      BY <1>5, <2>2, <2>7 DEF NextState, Governs, Outcomes, Finals
    <3>2. QED
      BY <1>2, <1>3, <1>4, <2>1, <2>7, <3>1 DEF Explained, Finals, Clash, Dispute
  <2>8. CASE ~Equivocal(s) /\ current # "inconsistent" /\ s.state = "accepted"
    <3>1. current' = IF current = "unknown" THEN "accepted" ELSE current
      BY <2>2, <2>8 DEF NextState, Finals
    <3>2. terminal' = terminal
      BY <2>2, <2>8 DEF Governs, Finals
    <3>3. current' # "inconsistent" /\ (\A t \in Told' : t.state \in Finals => t = terminal')
      BY <1>3, <2>1, <2>8, <3>1, <3>2 DEF Explained, Finals
    <3>4. (terminal # None => /\ terminal \in Told
                              /\ terminal.state \in Finals
                              /\ current \in {terminal.state, "inconsistent"})'
      BY <1>3, <2>1, <2>8, <3>1, <3>2 DEF Explained, Finals
    <3>5. (current \in Finals => terminal # None)'
      BY <1>3, <2>8, <3>1, <3>2 DEF Explained, Finals
    <3>6. QED
      BY <1>4, <2>1, <2>3, <2>6, <2>8, <3>3, <3>4, <3>5 DEF Explained
  <2>9. CASE ~Equivocal(s) /\ current # "inconsistent" /\ s.state \in Finals /\ terminal \in {None, s}
    <3>1. current' = s.state /\ terminal' = s /\ current' # "inconsistent"
      BY <2>2, <2>9 DEF NextState, Governs, Finals
    <3>2. \A t \in Told' : t.state \in Finals => t = terminal'
      BY <1>3, <2>1, <2>9, <3>1, NoneAssumption DEF Explained, Told, TrackerInv, TypeOK
    <3>3. QED
      BY <1>1, <1>4, <2>1, <2>3, <2>6, <2>9, <3>1, <3>2 DEF Explained
  <2>10. CASE ~Equivocal(s) /\ current # "inconsistent" /\ s.state \in Finals /\ terminal \notin {None, s}
    <3>1. current' = "inconsistent" /\ terminal' = terminal
      BY <2>2, <2>10 DEF NextState, Governs, Finals
    <3>2. terminal \in Told' /\ terminal.state \in Finals /\ Dispute(s, terminal)
      BY <1>3, <2>1, <2>10 DEF Explained, Dispute
    <3>3. QED
      BY <1>4, <2>1, <3>1, <3>2 DEF Explained, Finals
  <2>11. QED
    BY <1>5, <2>4, <2>7, <2>8, <2>9, <2>10 DEF Outcomes
<1>8. QED
  BY <1>6, <1>7

\* One step of a call, or none.
LEMMA NextInv == TrackerInv /\ [Next]_vars => TrackerInv'
<1> SUFFICES ASSUME TrackerInv, [Next]_vars PROVE TrackerInv'
  OBVIOUS
<1>1. ASSUME NEW a \in Attempts, Record(a) PROVE TrackerInv'
  BY <1>1, RecordInv
<1>2. ASSUME NEW o \in Observers, NEW r \in Signed, Observe(o, r) PROVE TrackerInv'
  <2>1. <<r>> \in Seq(Signed)
    OBVIOUS
  <2>2. QED
    BY <1>2, <2>1, CallInv DEF Observe
<1>3. ASSUME NEW o \in Observers, NEW h \in Histories, ObserveLookup(o, h) PROVE TrackerInv'
  <2>1. h \in Seq(Signed)
    BY HistoryAssumption
  <2>2. QED
    BY <1>3, <2>1, CallInv DEF ObserveLookup
<1>4. ASSUME NEW o \in Observers, Check(o) PROVE TrackerInv'
  BY <1>4, CheckInv
<1>5. ASSUME NEW o \in Observers, Apply(o) PROVE TrackerInv'
  <2> DEFINE s == call[o].seen
  <2>1. s \in Signed /\ Bound(s) /\ s.id \in Ids
    BY <1>5, AppliedIsSigned DEF Ids
  <2>2. s.state \in Outcomes
    BY <2>1, SignedAssumption
  <2>3. NextState(s) \in States
    BY <2>2 DEF TrackerInv, TypeOK, NextState, States, Outcomes, Finals
  <2>4. TypeOK'
    BY <1>5, <2>1, <2>3 DEF TrackerInv, TypeOK, Apply, Call
  <2>5. BoundInFlight'
    BY <1>5, <2>1 DEF TrackerInv, TypeOK, BoundInFlight, Apply, Call, Bound
  <2>6. QED
    BY <1>5, <2>4, <2>5, ApplyExplains DEF TrackerInv
<1>6. CASE UNCHANGED vars
  BY <1>6 DEF TrackerInv, TypeOK, Explained, BoundInFlight, Bound, Told, Clash, Dispute, vars
<1>7. QED
  BY <1>1, <1>2, <1>3, <1>4, <1>5, <1>6 DEF Next, Step

\* The invariant holds in every reachable state of the tracker, for any receipts signed.
THEOREM TrackerInvariantHolds == Spec => []TrackerInv
<1>1. QED
  BY InitInv, NextInv, PTL DEF Spec

\* The members of the tracker and its calls in flight always have their types.
THEOREM TrackerTypeCorrect == Spec => []TypeOK
<1>1. TrackerInv => TypeOK
  BY DEF TrackerInv
<1>2. QED
  BY <1>1, TrackerInvariantHolds, PTL

\* What the client is told depends on the receipts it verified, and not on their
\* order, their repetition or the calls they came through.
THEOREM StateAlwaysIsTheEvidence == Spec => []StateIsTheEvidence
<1>1. TrackerInv => StateIsTheEvidence
  <2> SUFFICES ASSUME TrackerInv PROVE StateIsTheEvidence
    OBVIOUS
  <2>1. Explained /\ current \in States
    BY DEF TrackerInv, TypeOK
  <2>2. (\E s, t \in Told : Clash(s, t) \/ Dispute(s, t)) => current = "inconsistent"
    BY <2>1 DEF Explained, Dispute
  <2>3. ASSUME ~(\E s \in Told, t \in kept : Clash(s, t)), ~(\E s, t \in Told : Dispute(s, t))
        PROVE  current = Verdict
    <3>1. current # "inconsistent"
      BY <2>1, <2>3 DEF Explained
    <3>2. CASE \E s \in Told : s.state \in Finals
      <4>1. (CHOOSE s \in Told : s.state \in Finals) = terminal
        BY <2>1, <3>1, <3>2 DEF Explained
      <4>2. terminal # None
        BY <2>1, <3>1, <3>2, NoneAssumption DEF Explained, Told, TrackerInv, TypeOK
      <4>3. QED
        BY <2>1, <3>1, <3>2, <4>1, <4>2 DEF Explained, Verdict
    <3>3. CASE ~\E s \in Told : s.state \in Finals
      <4>1. current \notin Finals
        BY <2>1, <3>3 DEF Explained
      <4>2. QED
        BY <2>1, <3>1, <3>3, <4>1 DEF Explained, Verdict, States, Outcomes
    <3>4. QED
      BY <3>2, <3>3
  <2>4. QED
    BY <2>2, <2>3 DEF StateIsTheEvidence
<1>2. QED
  BY <1>1, TrackerInvariantHolds, PTL

\* Every statement kept was signed for this operation by the receiver its attempt was
\* sent to, and the state has moved only on such a statement.
THEOREM EvidenceIsAlwaysBound == Spec => []EvidenceIsBound
<1>1. TrackerInv => EvidenceIsBound
  BY DEF TrackerInv, EvidenceIsBound, BoundInFlight, Bound, Explained
<1>2. QED
  BY <1>1, TrackerInvariantHolds, PTL

\* The order of the states.
LEMMA Ranks ==
  /\ Rank("unknown") = 0 /\ Rank("accepted") = 1 /\ Rank("inconsistent") = 3
  /\ \A f \in Finals : Rank(f) = 2
BY DEF Rank, Finals

\* The state of the operation is never taken back.
THEOREM StateNeverMovesBack == Spec => NeverMovesBack
<1> DEFINE Forward == current' # current => Rank(current') > Rank(current)
<1>1. TrackerInv /\ [Next]_vars => [Forward]_vars
  <2> SUFFICES ASSUME TrackerInv, Next PROVE Forward
    OBVIOUS
  <2>1. ASSUME NEW o \in Observers, Apply(o) PROVE Forward
    <3> DEFINE s == call[o].seen
    <3>1. s \in Signed /\ s.state \in Outcomes /\ s # None
      BY <2>1, AppliedIsSigned, SignedAssumption, NoneAssumption
    <3>2. Explained /\ current \in States
      BY DEF TrackerInv, TypeOK
    <3>3. current \in Finals => terminal # None /\ current = terminal.state
      BY <3>2 DEF Explained, Finals
    <3>4. CASE s.applies # "operation"
      BY <2>1, <3>4 DEF Apply
    <3>5. CASE s.applies = "operation"
      <4>1. current' = NextState(s)
        BY <2>1, <3>5 DEF Apply
      <4>2. ASSUME current' = "inconsistent" PROVE Forward
        BY <3>2, <4>2, Ranks DEF States, Outcomes, Finals
      <4>3. CASE Equivocal(s)
        BY <4>1, <4>2, <4>3 DEF NextState
      <4>4. CASE ~Equivocal(s) /\ s.state \in Finals /\ terminal \notin {None, s}
        <5>1. current' = "inconsistent"
          BY <4>1, <4>4 DEF NextState, Finals
        <5>2. QED
          BY <4>2, <5>1
      <4>5. CASE ~Equivocal(s) /\ s.state = "accepted"
        <5>1. current' = IF current = "unknown" THEN "accepted" ELSE current
          BY <4>1, <4>5 DEF NextState, Finals
        <5>2. QED
          BY <5>1, Ranks
      <4>6. CASE ~Equivocal(s) /\ s.state \in Finals /\ terminal \in {None, s}
        <5>1. current' = IF current = "inconsistent" THEN current ELSE s.state
          BY <4>1, <4>6 DEF NextState, Finals
        <5>2. QED
          BY <3>2, <3>3, <4>6, <5>1, Ranks DEF States, Outcomes, Finals
      <4>7. s.state = "accepted" \/ s.state \in Finals
        BY <3>1 DEF Outcomes
      <4>8. QED
        BY <4>3, <4>4, <4>5, <4>6, <4>7
    <3>6. QED
      BY <3>4, <3>5
  <2>2. QED
    BY <2>1 DEF Next, Step, Record, Observe, ObserveLookup, Check
<1>2. QED
  BY <1>1, TrackerInvariantHolds, PTL DEF Spec, NeverMovesBack

=============================================================================
