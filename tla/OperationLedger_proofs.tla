----------------------- MODULE OperationLedger_proofs -----------------------
(***************************************************************************)
(* LedgerInv is inductive: the initial state satisfies it, and each action *)
(* of OperationLedger preserves each of its parts.  From it, what every run*)
(* of the ledger keeps, for any number of attempts, calls and contents.    *)
(***************************************************************************)
EXTENDS OperationLedgerInv, TLAPS

\* Nothing claimed, nothing read, nothing recorded.
LEMMA InitInv == Init => LedgerInv
<1> SUFFICES ASSUME Init PROVE LedgerInv
  OBVIOUS
<1> USE NoneAssumption, FingerprintAssumption, BoundsAssumption DEF Init
<1>1. TypeOK
  BY DEF TypeOK, StoredOperation, Absent, Call, Returned, PCs, Ready, Args, Verdicts, Replies, Receipt
<1>2. FreshClaims
  BY DEF FreshClaims, NeverClaimed, Absent, Returned, Unclaimed, Claiming
<1>3. ReadsFit
  BY DEF ReadsFit, Absent, Returned, SettlePCs, FailPCs, Claiming
<1>4. ReadsPrecede
  BY DEF ReadsPrecede, Absent, Returned, Outcomes, Finals
<1>5. ClaimsAreCurrent
  BY DEF ClaimsAreCurrent
<1>6. HistoriesFit
  BY DEF HistoriesFit, HistoryFits, Absent, Returned, Outcomes, Finals
<1>7. ContentFits
  BY DEF ContentFits, OneContent, Absent
<1>8. QED
  BY <1>1, <1>2, <1>3, <1>4, <1>5, <1>6, <1>7 DEF LedgerInv

\* The attempts that were issued a claim.
Claimants == {a \in Attempts : claims[a] # Absent}

\* Only call c moves.
Moves(c) == call' = [call EXCEPT ![c] = call'[c]]

\* A step of call c leaves the other calls where they are.
LEMMA OthersStay ==
  ASSUME LedgerInv, NEW c \in Calls, NEW k, call' = [call EXCEPT ![c] = k]
  PROVE  Moves(c) /\ call'[c] = k
BY DEF LedgerInv, TypeOK, Moves

\* A step of call c that writes no new claim id keeps the claim ids new.
LEMMA FreshKept ==
  ASSUME LedgerInv, NEW c \in Calls, Moves(c),
         claims' = claims,
         record'.claim \in {record.claim, None},
         \A a \in Attempts : reply'[a] = "none" => reply[a] = "none",
         call'[c].seen.claim \in {record.claim, call[c].seen.claim, None},
         call'[c].attempt \in {call[c].attempt, None} \cup Claimants,
         call'[c].pc \in Unclaimed => call[c].pc \in Unclaimed,
         call'[c].pc \in Unclaimed \cup Claiming =>
            call[c].pc \in Unclaimed \cup Claiming /\ call'[c].attempt = call[c].attempt
  PROVE  FreshClaims'
<1> USE NoneAssumption
<1>1. \A d \in Calls \ {c} : call'[d] = call[d]
  BY DEF LedgerInv, TypeOK, Moves
<1>2. ASSUME NEW a \in Attempts, NeverClaimed(a)
      PROVE  NeverClaimed(a)'
  BY <1>1, <1>2 DEF NeverClaimed
<1>3. ASSUME NEW d \in Calls, call'[d].pc \in Unclaimed \cup Claiming
      PROVE  /\ call[d].pc \in Unclaimed \cup Claiming
             /\ call'[d].attempt = call[d].attempt
             /\ call[d].attempt \in Attempts
             /\ claims[call[d].attempt] = Absent
             /\ \A e \in Calls \ {d} : call[e].attempt # call[d].attempt
  BY <1>1, <1>3 DEF LedgerInv, FreshClaims
<1>4. ASSUME NEW a \in Attempts, reply'[a] = "none"
      PROVE  NeverClaimed(a)' /\ \A d \in Calls : call'[d].attempt # a
  <2>1. NeverClaimed(a) /\ \A d \in Calls : call[d].attempt # a
    BY <1>4 DEF LedgerInv, FreshClaims
  <2>2. call'[c].attempt # a
    BY <2>1 DEF NeverClaimed, Claimants
  <2> QED
    BY <1>1, <1>2, <2>1, <2>2
<1>5. ASSUME NEW d \in Calls, NEW a \in Attempts,
             call'[d].pc \in Unclaimed, call'[d].attempt = a
      PROVE  NeverClaimed(a)'
  <2>1. call[d].pc \in Unclaimed /\ call[d].attempt = a
    BY <1>1, <1>3, <1>5
  <2> QED
    BY <1>2, <2>1 DEF LedgerInv, FreshClaims
<1>6. ASSUME NEW d \in Calls, call'[d].pc \in Unclaimed \cup Claiming
      PROVE  /\ call'[d].attempt \in Attempts
             /\ claims'[call'[d].attempt] = Absent
             /\ \A e \in Calls \ {d} : call'[e].attempt # call'[d].attempt
  <2> DEFINE a == call[d].attempt
  <2>1. /\ call'[d].attempt = a /\ a \in Attempts /\ claims[a] = Absent
        /\ \A e \in Calls \ {d} : call[e].attempt # a
    BY <1>3, <1>6
  <2>2. call[c].attempt = a => c = d
    BY <2>1
  <2>3. c # d => call'[c].attempt # a
    BY <2>1, <2>2 DEF Claimants
  <2> HIDE DEF a
  <2> QED
    BY <1>1, <2>1, <2>3
<1> QED
  BY <1>4, <1>5, <1>6 DEF FreshClaims, NeverClaimed

\* A step of call c that writes nothing, and has read at most the record, keeps
\* every earlier reading and claim in agreement with it.
LEMMA ReadKept ==
  ASSUME LedgerInv, NEW c \in Calls, Moves(c),
         record' = record, claims' = claims, log' = log,
         call'[c].seen \in {record, call[c].seen, Absent}
  PROVE  ReadsPrecede' /\ ClaimsAreCurrent' /\ HistoriesFit' /\ ContentFits'
<1>1. \A d \in Calls \ {c} : call'[d] = call[d]
  BY DEF LedgerInv, TypeOK, Moves
<1>2. HistoryFits(Absent)
  BY DEF HistoryFits, Absent, Outcomes, Finals
<1>3. HistoriesFit'
  <2>1. HistoryFits(record) /\ record'.receipts = log' /\ \A d \in Calls : HistoryFits(call[d].seen)
    BY DEF LedgerInv, HistoriesFit
  <2>2. HistoryFits(record)' /\ HistoryFits(call'[c].seen)
    BY <1>2, <2>1 DEF HistoryFits
  <2> QED
    BY <1>1, <2>1, <2>2 DEF HistoriesFit, HistoryFits
<1>4. record \in StoredOperation /\ call[c].seen \in StoredOperation
  BY DEF LedgerInv, TypeOK, Call
<1>5. call'[c].seen = record => ReadsPrecede'
  BY <1>1, <1>4 DEF LedgerInv, ReadsPrecede, SameClaim, Precedes, StoredOperation, ClaimedRecord,
     SettledRecord, Outcomes, Finals, Absent
<1>6. call'[c].seen \in {call[c].seen, Absent} => ReadsPrecede'
  BY <1>1, NoneAssumption DEF LedgerInv, ReadsPrecede, SameClaim, Precedes, Absent, Outcomes, Finals
<1>7. ClaimsAreCurrent' /\ ContentFits'
  BY DEF LedgerInv, ClaimsAreCurrent, ContentFits, OneContent
<1> QED
  BY <1>3, <1>5, <1>6, <1>7

-----------------------------------------------------------------------------
(* The steps that write nothing *)

\* The call record of a returned call.
LEMMA ReturnedTyped ==
  ASSUME NEW pc \in Ready
  PROVE  /\ Returned(pc) \in Call
         /\ Returned(pc).pc = pc
         /\ Returned(pc).attempt = None
         /\ Returned(pc).seen = Absent
         /\ pc \notin Unclaimed \cup Claiming \cup SettlePCs \cup FailPCs
  BY DEF Returned, Call, PCs, Ready, Args, StoredOperation, Unclaimed, Claiming, SettlePCs, FailPCs

\* A call of begin or resume has read nothing, and its attempt is used from here on.
LEMMA AdmittedCallInv ==
  ASSUME LedgerInv, NEW c \in Calls, NEW a \in Attempts,
         BeginCall(c, a) \/ ResumeCall(c, a)
  PROVE  LedgerInv'
<1> USE NoneAssumption
<1>1. PICK pc \in {"begin_get", "resume_get"} : AdmittedCall(c, a, pc)
  BY DEF BeginCall, ResumeCall
<1> DEFINE k == [pc |-> pc, attempt |-> a, seen |-> Absent, arg |-> "none"]
<1>2. k \in Call /\ call' = [call EXCEPT ![c] = k]
  BY <1>1 DEF AdmittedCall, Enter, Call, PCs, Args, StoredOperation
<1>3. TypeOK'
  BY <1>1, <1>2 DEF LedgerInv, TypeOK, AdmittedCall, Replies
<1>4. ReadsPrecede' /\ ClaimsAreCurrent' /\ HistoriesFit' /\ ContentFits'
  <2>1. Moves(c) /\ call'[c] = k
    BY <1>2, OthersStay
  <2>2. record' = record /\ claims' = claims /\ log' = log
    BY <1>1 DEF AdmittedCall
  <2> QED
    BY <2>1, <2>2, ReadKept
<1>5. ReadsFit'
  BY <1>1, <1>2 DEF LedgerInv, TypeOK, ReadsFit, AdmittedCall, Call, Claiming, SettlePCs, FailPCs
<1>6. call'[c] = k /\ \A d \in Calls \ {c} : call'[d] = call[d]
  BY <1>2 DEF LedgerInv, TypeOK
<1>7. NeverClaimed(a) /\ \A d \in Calls : call[d].attempt # a
  BY <1>1 DEF LedgerInv, FreshClaims, AdmittedCall
<1>8. \A b \in Attempts : NeverClaimed(b) => NeverClaimed(b)'
  BY <1>1, <1>6 DEF NeverClaimed, AdmittedCall, Absent
<1>9. claims' = claims /\ \A b \in Attempts : reply'[b] = "none" => reply[b] = "none" /\ b # a
  BY <1>1 DEF AdmittedCall, LedgerInv, TypeOK
<1>10. FreshClaims'
  <2>1. ASSUME NEW b \in Attempts, reply'[b] = "none"
        PROVE  NeverClaimed(b)' /\ \A d \in Calls : call'[d].attempt # b
    BY <1>6, <1>8, <1>9, <2>1 DEF LedgerInv, FreshClaims
  <2>2. ASSUME NEW d \in Calls, NEW b \in Attempts,
               call'[d].pc \in Unclaimed, call'[d].attempt = b
        PROVE  NeverClaimed(b)'
    BY <1>6, <1>7, <1>8, <2>2 DEF LedgerInv, FreshClaims
  <2>3. ASSUME NEW d \in Calls, call'[d].pc \in Unclaimed \cup Claiming
        PROVE  /\ call'[d].attempt \in Attempts
               /\ claims'[call'[d].attempt] = Absent
               /\ \A e \in Calls \ {d} : call'[e].attempt # call'[d].attempt
    <3>1. CASE d = c
      BY <1>6, <1>7, <1>9, <3>1 DEF NeverClaimed
    <3>2. CASE d # c
      BY <1>6, <1>7, <1>9, <2>3, <3>2 DEF LedgerInv, FreshClaims
    <3> QED
      BY <3>1, <3>2
  <2> QED
    BY <2>1, <2>2, <2>3 DEF FreshClaims, NeverClaimed
<1> QED
  BY <1>3, <1>4, <1>5, <1>10 DEF LedgerInv

\* A step of call c that writes no record and issues no claim: typing and the fit
\* of what it has read are all that is left to show.
LEMMA QuietInv ==
  ASSUME LedgerInv, NEW c \in Calls, Moves(c),
         record' = record, claims' = claims, log' = log,
         call'[c].seen \in {record, call[c].seen, Absent},
         call'[c].attempt \in {call[c].attempt, None} \cup Claimants,
         call'[c].pc \in Unclaimed => call[c].pc \in Unclaimed,
         call'[c].pc \in Unclaimed \cup Claiming =>
            call[c].pc \in Unclaimed \cup Claiming /\ call'[c].attempt = call[c].attempt,
         \A a \in Attempts : reply'[a] = "none" => reply[a] = "none",
         TypeOK',
         ReadsFit'
  PROVE  LedgerInv'
<1>1. ReadsPrecede' /\ ClaimsAreCurrent' /\ HistoriesFit' /\ ContentFits'
  BY ReadKept
<1>2. call'[c].seen.claim \in {record.claim, call[c].seen.claim, None}
  BY DEF Absent
<1>3. FreshClaims'
  BY <1>2, FreshKept
<1> QED
  BY <1>1, <1>3 DEF LedgerInv

\* A call that returns or throws without having written.
LEMMA ReturnInv ==
  ASSUME LedgerInv, NEW c \in Calls, NEW pc \in Ready, Return(c, pc),
         record' = record, claims' = claims, log' = log,
         \A a \in Attempts : reply'[a] = "none" => reply[a] = "none",
         adm' = adm, reply' \in [Attempts -> Replies],
         spent' \subseteq Attempts, answers' \subseteq Receipt
  PROVE  LedgerInv'
<1>1. Moves(c) /\ call'[c] = Returned(pc)
  BY OthersStay DEF Return
<1>2. TypeOK'
  BY ReturnedTyped DEF LedgerInv, TypeOK, Return
<1>3. /\ call'[c].pc \in Ready
      /\ call'[c].attempt = None
      /\ call'[c].seen = Absent
      /\ call'[c].pc \notin Unclaimed \cup Claiming
  BY <1>1, ReturnedTyped
<1>4. ReadsFit'
  BY <1>1, <1>3 DEF LedgerInv, TypeOK, ReadsFit, Moves, Ready, Claiming, SettlePCs, FailPCs
<1> QED
  BY <1>1, <1>2, <1>3, <1>4, QuietInv

\* A call that goes on to its next await without having written.
LEMMA GoesOnInv ==
  ASSUME LedgerInv, NEW c \in Calls, NEW pc \in PCs, NEW arg \in Args,
         NEW seen \in {record, call[c].seen},
         Enter(c, pc, call[c].attempt, seen, arg),
         record' = record, claims' = claims, log' = log, reply' = reply,
         adm' = adm, spent' \subseteq Attempts, answers' = answers,
         pc \in Unclaimed => call[c].pc \in Unclaimed,
         pc \in Unclaimed \cup Claiming => call[c].pc \in Unclaimed \cup Claiming,
         ReadsFit'
  PROVE  LedgerInv'
<1>1. /\ Moves(c)
      /\ call'[c] = [pc |-> pc, attempt |-> call[c].attempt, seen |-> seen, arg |-> arg]
  BY OthersStay DEF Enter
<1>2. TypeOK'
  BY DEF LedgerInv, TypeOK, Call, Enter
<1>3. /\ call'[c].pc = pc
      /\ call'[c].attempt = call[c].attempt
      /\ call'[c].seen \in {record, call[c].seen}
  BY <1>1
<1> QED
  BY <1>1, <1>2, <1>3, QuietInv

\* begin reads the record it will answer from, or finds none.
LEMMA BeginGetInv ==
  ASSUME LedgerInv, NEW c \in Calls, BeginGet(c)
  PROVE  LedgerInv'
<1> USE DEF BeginGet, Waiting, Goto, GotoSeeing
<1>1. call[c].pc = "begin_get" /\ call[c].arg \in Args /\ spent \subseteq Attempts
  BY DEF LedgerInv, TypeOK, Call
<1>2. ReadsFit'
  BY DEF Enter, LedgerInv, TypeOK, Call, ReadsFit, Unclaimed, Claiming, SettlePCs, FailPCs
<1>3. CASE record = Absent
  BY <1>1, <1>2, <1>3, GoesOnInv DEF PCs, Unclaimed
<1>4. CASE record # Absent
  BY <1>1, <1>2, <1>4, GoesOnInv DEF PCs, Unclaimed
<1> QED
  BY <1>3, <1>4

\* The answer of #existing: only an outcome's governing receipt is disclosed.
LEMMA AnswerExistingInv ==
  ASSUME LedgerInv, NEW c \in Calls, call[c].pc \in {"answer", "resume_got"}, AnswerExisting(c)
  PROVE  LedgerInv'
<1> DEFINE a == call[c].attempt
           r == call[c].seen
           kind == Existing(a, r)
<1>1. a \in Attempts /\ r \in StoredOperation /\ r # Absent
  BY DEF LedgerInv, TypeOK, Call, FreshClaims, ReadsFit, Unclaimed
<1>2. kind \in Replies \ {"none"}
  BY <1>1 DEF LedgerInv, TypeOK, Existing, Replies, Verdicts
<1>3. kind = "existing" => Governing(r.receipts) \in Receipt
  <2> SUFFICES ASSUME kind = "existing" PROVE Governing(r.receipts) \in Receipt
    OBVIOUS
  <2>1. r \in SettledRecord
    BY <1>1 DEF LedgerInv, TypeOK, Existing, StoredOperation, ClaimedRecord, Verdicts
  <2>2. r.receipts \in Seq(Receipt) /\ Len(r.receipts) \in Nat \ {0}
    BY <2>1 DEF SettledRecord
  <2>3. \A i \in 1 .. Len(r.receipts) : r.receipts[i].outcome \in Finals => i = Len(r.receipts)
    BY DEF LedgerInv, HistoriesFit, HistoryFits
  <2> DEFINE finals == {i \in 1 .. Len(r.receipts) : r.receipts[i].outcome \in Finals}
  <2>4. finals # {} => finals = {Len(r.receipts)}
    BY <2>2, <2>3
  <2>5. finals # {} => (CHOOSE i \in finals : \A j \in finals : i <= j) = Len(r.receipts)
    BY <2>2, <2>4
  <2>6. r.receipts[Len(r.receipts)] \in Receipt
    BY <2>2
  <2> QED
    BY <2>5, <2>6 DEF Governing
<1>4. /\ Return(c, "idle")
      /\ reply' = [reply EXCEPT ![a] = kind]
      /\ answers' \subseteq Receipt
      /\ UNCHANGED <<record, adm, claims, spent, log>>
  BY <1>3 DEF AnswerExisting, Answer, LedgerInv, TypeOK
<1>5. /\ reply' \in [Attempts -> Replies]
      /\ \A b \in Attempts : reply'[b] = "none" => reply[b] = "none"
  BY <1>1, <1>2, <1>4 DEF LedgerInv, TypeOK
<1>6. spent' \subseteq Attempts
  BY <1>4 DEF LedgerInv, TypeOK
<1> QED
  BY <1>4, <1>5, <1>6, ReturnInv DEF Ready

\* resume reads the record it will judge.
LEMMA ResumeGetInv ==
  ASSUME LedgerInv, NEW c \in Calls, ResumeGet(c)
  PROVE  LedgerInv'
<1> USE DEF ResumeGet, Waiting, GotoSeeing
<1>1. /\ call[c].pc = "resume_get" /\ call[c].arg \in Args
      /\ spent \subseteq Attempts /\ answers \subseteq Receipt
      /\ call[c].attempt \in Attempts
  BY DEF LedgerInv, TypeOK, Call, FreshClaims, Unclaimed
<1>2. CASE record = Absent
  <2>1. /\ reply' \in [Attempts -> Replies]
        /\ \A a \in Attempts : reply'[a] = "none" => reply[a] = "none"
    BY <1>1, <1>2 DEF Answer, LedgerInv, TypeOK, Replies
  <2> QED
    BY <1>1, <1>2, <2>1, ReturnInv DEF Answer, Ready
<1>3. CASE record # Absent
  <2>1. ReadsFit'
    BY <1>3 DEF Enter, LedgerInv, TypeOK, Call, ReadsFit, Unclaimed, Claiming, SettlePCs, FailPCs
  <2> QED
    BY <1>1, <1>3, <2>1, GoesOnInv DEF PCs, Unclaimed
<1> QED
  BY <1>2, <1>3

\* resume goes on only with an accepted record of its own content.
LEMMA ResumeReadInv ==
  ASSUME LedgerInv, NEW c \in Calls, ResumeRead(c)
  PROVE  LedgerInv'
<1>1. /\ call[c].pc = "resume_got" /\ call[c].arg \in Args /\ spent \subseteq Attempts
  BY DEF LedgerInv, TypeOK, Call, ResumeRead, Waiting
<1>2. CASE ~Resumable(call[c].attempt, call[c].seen)
  BY <1>1, <1>2, AnswerExistingInv DEF ResumeRead
<1>3. CASE Resumable(call[c].attempt, call[c].seen)
  <2>1. /\ Enter(c, "resume_reclaim", call[c].attempt, call[c].seen, call[c].arg)
        /\ UNCHANGED <<record, adm, reply, claims, spent, log, answers>>
    BY <1>3 DEF ResumeRead, Goto
  <2>2. ReadsFit'
    BY <1>3, <2>1 DEF Enter, Resumable, LedgerInv, TypeOK, Call, ReadsFit, Unclaimed, Claiming, SettlePCs, FailPCs
  <2> QED
    BY <1>1, <2>1, <2>2, GoesOnInv DEF PCs, Unclaimed
<1> QED
  BY <1>2, <1>3

\* A claim that was written and not granted is to be undone by its own call.
LEMMA GrantLapsedInv ==
  ASSUME LedgerInv, NEW c \in Calls, GrantLapsed(c)
  PROVE  LedgerInv'
<1> DEFINE v == adm[call[c].attempt]
<1>1. /\ call[c].pc = "granting" /\ call[c].attempt \in Attempts /\ spent \subseteq Attempts
      /\ v \in {"refused", "expired"}
  BY DEF LedgerInv, TypeOK, FreshClaims, Claiming, GrantLapsed, Waiting, Verdicts
<1>2. /\ Enter(c, "undo", call[c].attempt, call[c].seen, v)
      /\ UNCHANGED <<record, adm, reply, claims, spent, log, answers>>
  BY DEF GrantLapsed
<1>3. ReadsFit'
  BY <1>1, <1>2 DEF Enter, LedgerInv, TypeOK, Call, ReadsFit, Unclaimed, Claiming, SettlePCs, FailPCs
<1>4. "undo" \in PCs /\ v \in Args /\ "undo" \notin Unclaimed /\ call[c].pc \in Claiming
  BY <1>1 DEF PCs, Args, Verdicts, Unclaimed, Claiming
<1> HIDE DEF v
<1> QED
  BY <1>1, <1>2, <1>3, <1>4, GoesOnInv

\* A settle or a fail is called with an issued claim.
LEMMA ClaimCallInv ==
  ASSUME LedgerInv, NEW c \in Calls, NEW a \in Attempts,
         NEW pc \in {"settle_get", "fail_get"}, NEW arg \in Args,
         pc = "settle_get" => arg \in Outcomes,
         pc = "fail_get" => arg \in {"rolled-back", "uncertain"},
         ClaimCall(c, a, pc, arg)
  PROVE  LedgerInv'
<1> DEFINE at == IF a \in spent THEN "stale" ELSE pc
           k == [pc |-> at, attempt |-> a, seen |-> Absent, arg |-> arg]
<1>1. /\ Moves(c) /\ call'[c] = k /\ call' = [call EXCEPT ![c] = k]
      /\ UNCHANGED <<record, adm, reply, claims, spent, log, answers>>
      /\ a \in Claimants
  BY OthersStay DEF ClaimCall, Enter, Issued, Claimants
<1>2. at \in {"stale", "settle_get", "fail_get"} /\ k \in Call
  BY DEF Call, PCs, Ready, StoredOperation
<1>3. TypeOK'
  BY <1>1, <1>2 DEF LedgerInv, TypeOK
<1>4. ReadsFit'
  BY <1>1, <1>2 DEF LedgerInv, TypeOK, ReadsFit, Claimants, Unclaimed, Claiming, SettlePCs, FailPCs
<1>5. call'[c].pc \notin Unclaimed \cup Claiming /\ call'[c].seen = Absent /\ call'[c].attempt = a
  BY <1>1, <1>2 DEF Unclaimed, Claiming
<1> HIDE DEF at, k
<1> QED
  BY <1>1, <1>3, <1>4, <1>5, QuietInv

\* settle goes on only with its own claim.
LEMMA SettleGetInv ==
  ASSUME LedgerInv, NEW c \in Calls, SettleGet(c)
  PROVE  LedgerInv'
<1> USE DEF SettleGet, Waiting
<1>1. /\ call[c].pc = "settle_get" /\ call[c].arg \in Args /\ reply \in [Attempts -> Replies]
      /\ spent \subseteq Attempts /\ answers \subseteq Receipt
  BY DEF LedgerInv, TypeOK, Call
<1>2. CASE ~StillClaimed(c)
  BY <1>1, <1>2, ReturnInv DEF Ready
<1>3. CASE StillClaimed(c)
  <2>1. Enter(c, "settle_replace", call[c].attempt, record, call[c].arg)
    BY <1>3 DEF GotoSeeing
  <2>2. ReadsFit'
    BY <1>3, <2>1 DEF StillClaimed, Enter, LedgerInv, TypeOK, Call, ReadsFit, Unclaimed, Claiming, SettlePCs, FailPCs
  <2> QED
    BY <1>1, <2>1, <2>2, GoesOnInv DEF PCs, Unclaimed, Claiming
<1> QED
  BY <1>2, <1>3

\* A provisional replace changes no record yet: the claim is spent.
LEMMA SettleReplaceInv ==
  ASSUME LedgerInv, NEW c \in Calls, SettleReplace(c)
  PROVE  LedgerInv'
<1> USE DEF SettleReplace, Waiting
<1>1. /\ call[c].pc = "settle_replace" /\ call[c].arg \in Args /\ call[c].attempt \in Attempts
      /\ reply \in [Attempts -> Replies] /\ spent \subseteq Attempts /\ answers \subseteq Receipt
  BY DEF LedgerInv, TypeOK, Call, ReadsFit, SettlePCs
<1>2. CASE ~Matches(call[c].seen)
  BY <1>1, <1>2, ReturnInv DEF Ready
<1>3. CASE Matches(call[c].seen)
  <2>1. Enter(c, "settle_commit", call[c].attempt, call[c].seen, call[c].arg)
    BY <1>3 DEF Goto
  <2>2. ReadsFit'
    BY <2>1 DEF Enter, LedgerInv, TypeOK, Call, ReadsFit, Unclaimed, Claiming, SettlePCs, FailPCs
  <2>3. spent' \subseteq Attempts
    BY <1>1, <1>3
  <2> QED
    BY <1>1, <2>1, <2>2, <2>3, GoesOnInv DEF PCs, Unclaimed, Claiming
<1> QED
  BY <1>2, <1>3

\* A transaction that rolls back leaves the record.
LEMMA SettleRollbackInv ==
  ASSUME LedgerInv, NEW c \in Calls, SettleRollback(c)
  PROVE  LedgerInv'
BY ReturnInv DEF SettleRollback, Ready, LedgerInv, TypeOK

\* fail goes on only with its own claim.
LEMMA FailGetInv ==
  ASSUME LedgerInv, NEW c \in Calls, FailGet(c)
  PROVE  LedgerInv'
<1> USE DEF FailGet, Waiting
<1>1. /\ call[c].pc = "fail_get" /\ call[c].arg \in Args /\ call[c].arg \in {"rolled-back", "uncertain"}
      /\ reply \in [Attempts -> Replies] /\ spent \subseteq Attempts /\ answers \subseteq Receipt
  BY DEF LedgerInv, TypeOK, Call, ReadsFit, FailPCs
<1>2. ASSUME Return(c, "stale") \/ Return(c, "idle")
      PROVE  LedgerInv'
  BY <1>1, <1>2, ReturnInv DEF Ready
<1>3. ASSUME StillClaimed(c), NEW pc \in {"fail_release", "fail_mark"}, GotoSeeing(c, pc, record)
      PROVE  LedgerInv'
  <2>1. Enter(c, pc, call[c].attempt, record, call[c].arg)
    BY <1>3 DEF GotoSeeing
  <2>2. ReadsFit'
    BY <1>1, <1>3, <2>1 DEF StillClaimed, Enter, LedgerInv, TypeOK, Call, ReadsFit, Unclaimed, Claiming, SettlePCs, FailPCs
  <2>3. pc \in PCs /\ pc \notin Unclaimed \cup Claiming
    BY DEF PCs, Unclaimed, Claiming
  <2> QED
    BY <1>1, <2>1, <2>2, <2>3, GoesOnInv
<1> QED
  BY <1>1, <1>2, <1>3

\* A supervisor calls with what it read.
LEMMA RecoveryCallInv ==
  ASSUME LedgerInv, NEW c \in Calls, NEW pc \in {"mark_get", "reconcile_get"}, NEW arg \in Args,
         Enter(c, pc, None, record, arg),
         UNCHANGED <<record, adm, reply, claims, spent, log, answers>>
  PROVE  LedgerInv'
<1> DEFINE k == [pc |-> pc, attempt |-> None, seen |-> record, arg |-> arg]
<1>1. Moves(c) /\ call'[c] = k /\ call' = [call EXCEPT ![c] = k]
  BY OthersStay DEF Enter
<1>2. k \in Call
  BY DEF Call, PCs, LedgerInv, TypeOK
<1>3. TypeOK'
  BY <1>1, <1>2 DEF LedgerInv, TypeOK
<1>4. ReadsFit'
  BY <1>1, <1>2 DEF LedgerInv, TypeOK, ReadsFit, Unclaimed, Claiming, SettlePCs, FailPCs
<1>5. call'[c].pc \notin Unclaimed \cup Claiming /\ call'[c].seen = record /\ call'[c].attempt = None
  BY <1>1 DEF Unclaimed, Claiming
<1> HIDE DEF k
<1> QED
  BY <1>1, <1>3, <1>4, <1>5, QuietInv

\* markUncertain goes on only with the claim and revision it was given.
LEMMA MarkGetInv ==
  ASSUME LedgerInv, NEW c \in Calls, MarkGet(c)
  PROVE  LedgerInv'
<1> USE DEF MarkGet, Waiting
<1>1. /\ call[c].pc = "mark_get" /\ call[c].arg \in Args /\ record \in StoredOperation
      /\ reply \in [Attempts -> Replies] /\ spent \subseteq Attempts /\ answers \subseteq Receipt
  BY DEF LedgerInv, TypeOK, Call
<1>2. ASSUME Return(c, "stale") \/ Return(c, "idle")
      PROVE  LedgerInv'
  BY <1>1, <1>2, ReturnInv DEF Ready
<1>3. ASSUME Matches(call[c].seen), GotoSeeing(c, "mark_replace", record)
      PROVE  LedgerInv'
  <2>1. Enter(c, "mark_replace", call[c].attempt, record, call[c].arg)
    BY <1>3 DEF GotoSeeing
  <2>2. ReadsFit'
    BY <1>1, <1>3, <2>1 DEF Matches, Enter, LedgerInv, TypeOK, Call, ReadsFit, Unclaimed, Claiming, SettlePCs, FailPCs
  <2> QED
    BY <1>1, <2>1, <2>2, GoesOnInv DEF PCs, Unclaimed, Claiming
<1>4. record.mark \in {"none", "uncertain"}
  BY <1>1 DEF StoredOperation, ClaimedRecord, SettledRecord, Absent
<1> QED
  BY <1>1, <1>2, <1>3, <1>4

\* reconcile goes on to release only a marked claim.
LEMMA ReconcileGetInv ==
  ASSUME LedgerInv, NEW c \in Calls, ReconcileGet(c)
  PROVE  LedgerInv'
<1> USE DEF ReconcileGet, Waiting
<1>1. /\ call[c].pc = "reconcile_get" /\ call[c].arg \in Args
      /\ reply \in [Attempts -> Replies] /\ spent \subseteq Attempts /\ answers \subseteq Receipt
  BY DEF LedgerInv, TypeOK, Call
<1>2. ASSUME NEW pc \in Ready, Return(c, pc)
      PROVE  LedgerInv'
  BY <1>1, <1>2, ReturnInv
<1>3. ASSUME record.state = "claimed", Releasable(c), GotoSeeing(c, "reconcile_release", record)
      PROVE  LedgerInv'
  <2>1. Enter(c, "reconcile_release", call[c].attempt, record, call[c].arg)
    BY <1>3 DEF GotoSeeing
  <2>2. ReadsFit'
    BY <1>3, <2>1 DEF Enter, Releasable, LedgerInv, TypeOK, Call, ReadsFit, Unclaimed, Claiming, SettlePCs, FailPCs
  <2> QED
    BY <1>1, <2>1, <2>2, GoesOnInv DEF PCs, Unclaimed, Claiming
<1>4. \/ \E pc \in Ready : Return(c, pc)
      \/ record.state = "claimed" /\ Releasable(c) /\ GotoSeeing(c, "reconcile_release", record)
  BY DEF Ready
<1> QED
  BY <1>2, <1>3, <1>4

\* A call that stops leaves storage as it is.
LEMMA CrashInv ==
  ASSUME LedgerInv, NEW c \in Calls, Crash(c)
  PROVE  LedgerInv'
<1>1. /\ reply' \in [Attempts -> Replies]
      /\ \A a \in Attempts : reply'[a] = "none" => reply[a] = "none"
  BY DEF LedgerInv, TypeOK, Crash, Replies
<1> QED
  BY <1>1, ReturnInv DEF Crash, Ready, LedgerInv, TypeOK

\* A refused call and a lapse touch no call and no record.
LEMMA EnvironmentInv ==
  ASSUME LedgerInv,
         UNCHANGED <<record, claims, spent, call, log, answers>>,
         adm' \in [Attempts -> Verdicts], reply' \in [Attempts -> Replies],
         \A a \in Attempts : reply'[a] = "none" => reply[a] = "none"
  PROVE  LedgerInv'
<1>1. TypeOK'
  BY DEF LedgerInv, TypeOK
<1>2. FreshClaims'
  BY DEF LedgerInv, FreshClaims, NeverClaimed
<1>3. ReadsFit'
  BY DEF LedgerInv, ReadsFit
<1>4. ReadsPrecede' /\ ClaimsAreCurrent'
  BY DEF LedgerInv, ReadsPrecede, SameClaim, Precedes, ClaimsAreCurrent
<1>5. HistoriesFit' /\ ContentFits'
  BY DEF LedgerInv, HistoriesFit, HistoryFits, ContentFits, OneContent
<1> QED
  BY <1>1, <1>2, <1>3, <1>4, <1>5 DEF LedgerInv

\* A refused attempt is used and leaves no trace.
LEMMA RefuseCallInv ==
  ASSUME LedgerInv, NEW a \in Attempts, RefuseCall(a)
  PROVE  LedgerInv'
<1>1. /\ reply' \in [Attempts -> Replies]
      /\ \A b \in Attempts : reply'[b] = "none" => reply[b] = "none"
  BY DEF LedgerInv, TypeOK, RefuseCall, Replies, Verdicts
<1> QED
  BY <1>1, EnvironmentInv DEF RefuseCall, LedgerInv, TypeOK

\* No part of the invariant depends on the admissions.
LEMMA LapseInv ==
  ASSUME LedgerInv, NEW a \in Attempts, Lapse(a)
  PROVE  LedgerInv'
<1>1. adm' \in [Attempts -> Verdicts]
  BY DEF LedgerInv, TypeOK, Lapse, Verdicts
<1> QED
  BY <1>1, EnvironmentInv DEF Lapse, LedgerInv, TypeOK

-----------------------------------------------------------------------------
(* The steps that issue a claim, or write the record *)

\* The claim issued is the record written: nothing could be recorded in its name since.
LEMMA GrantInv ==
  ASSUME LedgerInv, NEW c \in Calls, Grant(c)
  PROVE  LedgerInv'
<1> DEFINE a == call[c].attempt
           seen == call[c].seen
<1>1. /\ a \in Attempts
      /\ claims[a] = Absent
      /\ \A d \in Calls \ {c} : call[d].attempt # a
      /\ seen.state = "claimed" /\ seen.claim = a
      /\ seen \in ClaimedRecord
  <2>1. call[c].pc = "granting" /\ seen \in StoredOperation
    BY DEF Grant, Waiting, LedgerInv, TypeOK, Call
  <2>2. seen.state = "claimed" /\ seen.claim = a
    BY <2>1 DEF LedgerInv, ReadsFit, Claiming
  <2>3. seen \in ClaimedRecord
    BY <2>1, <2>2 DEF StoredOperation, SettledRecord, Outcomes, Finals, Absent
  <2> QED
    BY <2>1, <2>2, <2>3 DEF LedgerInv, FreshClaims, Claiming
<1>2. /\ call' = [call EXCEPT ![c] = Returned("idle")]
      /\ claims' = [claims EXCEPT ![a] = seen]
      /\ reply' = [reply EXCEPT ![a] = "claimed"]
      /\ UNCHANGED <<record, adm, spent, log, answers>>
  BY DEF Grant, Answer, Return
<1>3. /\ Returned("idle") \in Call
      /\ Returned("idle").seen = Absent
      /\ Returned("idle").attempt = None
      /\ Returned("idle").pc = "idle"
  BY ReturnedTyped DEF Ready
<1>4. call'[c] = Returned("idle") /\ \A d \in Calls \ {c} : call'[d] = call[d]
  BY <1>2 DEF LedgerInv, TypeOK
<1>5. seen # Absent
  BY <1>1 DEF Absent
<1> HIDE DEF a, seen
<1>6. claims'[a] = seen /\ \A b \in Attempts \ {a} : claims'[b] = claims[b]
  BY <1>1, <1>2 DEF LedgerInv, TypeOK
<1>7. TypeOK'
  BY <1>1, <1>2, <1>3 DEF LedgerInv, TypeOK, Replies
<1>8. FreshClaims'
  <2>1. \A b \in Attempts : reply'[b] = "none" => reply[b] = "none" /\ b # a
    BY <1>1, <1>2 DEF LedgerInv, TypeOK
  <2>2. \A b \in Attempts \ {a} : NeverClaimed(b) => NeverClaimed(b)'
    BY <1>2, <1>3, <1>4, <1>6, NoneAssumption DEF NeverClaimed, Absent
  <2>3. ASSUME NEW b \in Attempts, reply'[b] = "none"
        PROVE  NeverClaimed(b)' /\ \A d \in Calls : call'[d].attempt # b
    BY <1>3, <1>4, <2>1, <2>2, <2>3, NoneAssumption DEF LedgerInv, FreshClaims
  <2>4. ASSUME NEW d \in Calls, NEW b \in Attempts,
               call'[d].pc \in Unclaimed, call'[d].attempt = b
        PROVE  NeverClaimed(b)'
    BY <1>1, <1>3, <1>4, <2>2, <2>4 DEF LedgerInv, FreshClaims, Unclaimed
  <2>5. ASSUME NEW d \in Calls, call'[d].pc \in Unclaimed \cup Claiming
        PROVE  /\ call'[d].attempt \in Attempts
               /\ claims'[call'[d].attempt] = Absent
               /\ \A e \in Calls \ {d} : call'[e].attempt # call'[d].attempt
    <3>1. d # c
      BY <1>3, <1>4, <2>5 DEF Unclaimed, Claiming
    <3> QED
      BY <1>1, <1>3, <1>4, <1>6, <2>5, <3>1, NoneAssumption DEF LedgerInv, FreshClaims
  <2> QED
    BY <2>3, <2>4, <2>5 DEF FreshClaims, NeverClaimed
<1>9. ReadsFit'
  BY <1>1, <1>2, <1>3, <1>4, <1>5, <1>6 DEF LedgerInv, ReadsFit, Claiming, SettlePCs, FailPCs
<1>10. ReadsPrecede'
  BY <1>2, <1>3, <1>4, NoneAssumption DEF LedgerInv, ReadsPrecede, SameClaim, Precedes, Absent, Outcomes, Finals
<1>11. ClaimsAreCurrent'
  <2>1. record.claim = a => seen.receipts = record.receipts /\ seen.fingerprint = record.fingerprint
    BY <1>1 DEF LedgerInv, ReadsPrecede, SameClaim, seen
  <2> QED
    BY <1>1, <1>2, <1>6, <2>1 DEF LedgerInv, ClaimsAreCurrent
<1>12. HistoriesFit' /\ ContentFits'
  <2>1. HistoryFits(Absent)
    BY DEF HistoryFits, Absent, Outcomes, Finals
  <2> QED
    BY <1>2, <1>3, <1>4, <2>1 DEF LedgerInv, HistoriesFit, HistoryFits, ContentFits, OneContent
<1> QED
  BY <1>7, <1>8, <1>9, <1>10, <1>11, <1>12 DEF LedgerInv

\* The compare-and-set tells the truth: what matches the record is the record.
LEMMA MatchedIsRecord ==
  ASSUME LedgerInv, NEW c \in Calls, call[c].seen.state = "claimed", Matches(call[c].seen)
  PROVE  call[c].seen = record /\ record \in ClaimedRecord
<1>1. call[c].seen = record
  BY DEF LedgerInv, ReadsPrecede, SameClaim, Matches
<1> QED
  BY <1>1 DEF LedgerInv, TypeOK, StoredOperation, SettledRecord, Outcomes, Finals, Absent

\* A write by the claim's own compare-and-set that ends the claim or keeps it.
LEMMA WriteInv ==
  ASSUME LedgerInv, NEW c \in Calls, NEW pc \in Ready, Return(c, pc),
         record \in ClaimedRecord,
         record' \in StoredOperation,
         record'.claim \in {record.claim, None},
         record'.claim = record.claim =>
            record'.receipts = record.receipts /\ record'.fingerprint = record.fingerprint,
         record.receipts # <<>> => record'.receipts # <<>>,
         record' = Absent \/ record'.revision = record.revision + 1,
         record'.receipts = log', log' \in Seq(Receipt), HistoryFits(record)', ContentFits',
         claims' = claims, adm' = adm, spent' \subseteq Attempts, answers' = answers,
         reply' \in [Attempts -> Replies],
         \A a \in Attempts : reply'[a] = "none" => reply[a] = "none"
  PROVE  LedgerInv'
<1> USE NoneAssumption
<1>1. Moves(c) /\ call'[c] = Returned(pc)
  BY OthersStay DEF Return
<1>2. \A d \in Calls \ {c} : call'[d] = call[d]
  BY <1>1 DEF LedgerInv, TypeOK, Moves
<1>3. /\ call'[c].pc \in Ready
      /\ call'[c].attempt = None
      /\ call'[c].seen = Absent
      /\ call'[c].pc \notin Unclaimed \cup Claiming \cup SettlePCs \cup FailPCs
  BY <1>1, ReturnedTyped
<1>4. TypeOK'
  BY ReturnedTyped DEF LedgerInv, TypeOK, Return
<1>5. FreshClaims'
  <2>1. call'[c].seen.claim = None
    BY <1>3 DEF Absent
  <2> QED
    BY <1>1, <1>3, <2>1, FreshKept
<1>6. ReadsFit'
  BY <1>2, <1>3 DEF LedgerInv, ReadsFit, Ready, Claiming, SettlePCs, FailPCs
<1>7. ReadsPrecede'
  <2>1. record.revision \in Nat /\ record.claim # None /\ record.state = "claimed"
    BY DEF ClaimedRecord
  <2>2. record'.claim = record.claim => record'.revision = record.revision + 1
    BY <2>1 DEF Absent
  <2>3. record.receipts # <<>> => record'.revision = record.revision + 1
    BY DEF Absent
  <2>4. ASSUME NEW d \in Calls, call[d].seen.state = "claimed", call[d].seen.claim = record'.claim
        PROVE  SameClaim(call[d].seen, record')
    <3>1. call[d].seen \in ClaimedRecord
      BY <2>4 DEF LedgerInv, TypeOK, Call, StoredOperation, SettledRecord, Outcomes, Finals, Absent
    <3>2. record'.claim = record.claim
      BY <2>4, <3>1 DEF ClaimedRecord
    <3>3. SameClaim(call[d].seen, record) /\ call[d].seen.revision \in Nat
      BY <2>4, <3>1, <3>2 DEF LedgerInv, ReadsPrecede, ClaimedRecord
    <3> QED
      BY <2>1, <2>2, <3>2, <3>3 DEF SameClaim
  <2>5. ASSUME NEW d \in Calls, call[d].seen.state \in Outcomes
        PROVE  Precedes(call[d].seen, record')
    <3>1. call[d].seen.revision \in Nat
      BY <2>5 DEF LedgerInv, TypeOK, Call, StoredOperation, ClaimedRecord, SettledRecord, Absent
    <3>2. Precedes(call[d].seen, record)
      BY <2>5 DEF LedgerInv, ReadsPrecede
    <3> QED
      BY <2>1, <2>3, <3>1, <3>2 DEF Precedes
  <2>6. Absent.state \notin Outcomes \cup {"claimed"}
    BY DEF Absent, Outcomes, Finals
  <2> QED
    BY <1>2, <1>3, <2>4, <2>5, <2>6 DEF ReadsPrecede, SameClaim, Precedes
<1>8. ClaimsAreCurrent'
  BY DEF LedgerInv, ClaimsAreCurrent, ClaimedRecord
<1>9. HistoriesFit'
  <2>1. HistoryFits(Absent)
    BY DEF HistoryFits, Absent, Outcomes, Finals
  <2>2. \A d \in Calls : HistoryFits(call[d].seen)
    BY DEF LedgerInv, HistoriesFit
  <2>3. \A d \in Calls : HistoryFits(call'[d].seen)
    BY <1>2, <1>3, <2>1, <2>2
  <2> QED
    BY <2>3 DEF HistoriesFit, HistoryFits
<1> QED
  BY <1>4, <1>5, <1>6, <1>7, <1>8, <1>9 DEF LedgerInv

\* `replace` by the same claim marked uncertain.
LEMMA WriteMarkInv ==
  ASSUME LedgerInv, NEW c \in Calls, call[c].seen.state = "claimed", WriteMark(c)
  PROVE  LedgerInv'
<1>1. CASE ~Matches(call[c].seen)
  BY <1>1, ReturnInv DEF WriteMark, Ready, LedgerInv, TypeOK
<1>2. CASE Matches(call[c].seen)
  <2>1. record \in ClaimedRecord /\ call[c].seen = record
    BY <1>2, MatchedIsRecord
  <2>2. /\ record' = [record EXCEPT !.revision = record.revision + 1, !.mark = "uncertain"]
        /\ Return(c, "idle")
        /\ UNCHANGED <<adm, reply, claims, spent, log, answers>>
    BY <1>2, <2>1 DEF WriteMark, MarkedUncertain
  <2>3. /\ record' \in ClaimedRecord
        /\ record'.state = record.state
        /\ record'.claim = record.claim
        /\ record'.receipts = record.receipts
        /\ record'.fingerprint = record.fingerprint
        /\ record'.revision = record.revision + 1
    <3>1. record.revision \in Nat /\ record.revision + 1 \in Nat \ {0}
      BY <2>1 DEF ClaimedRecord
    <3>2. record' \in ClaimedRecord
      BY <2>1, <2>2, <3>1 DEF ClaimedRecord
    <3> QED
      BY <2>1, <2>2, <3>2 DEF ClaimedRecord
  <2>4. HistoryFits(record)' /\ record'.receipts = log' /\ log' \in Seq(Receipt)
    BY <2>2, <2>3 DEF LedgerInv, TypeOK, HistoriesFit, HistoryFits
  <2>5. ContentFits'
    BY <2>1, <2>2, <2>3 DEF LedgerInv, ContentFits, OneContent, ClaimedRecord, Absent
  <2>6. /\ record' \in StoredOperation /\ "idle" \in Ready
        /\ spent' \subseteq Attempts /\ reply' = reply /\ reply' \in [Attempts -> Replies]
    BY <2>2, <2>3 DEF StoredOperation, Ready, LedgerInv, TypeOK
  <2> QED
    BY <2>1, <2>2, <2>3, <2>4, <2>5, <2>6, WriteInv
<1> QED
  BY <1>1, <1>2

\* A release by the claim's own compare-and-set.
LEMMA ReleaseInv ==
  ASSUME LedgerInv, NEW c \in Calls, call[c].seen.state = "claimed",
         Removable(call[c].seen), record' = Released(call[c].seen), Return(c, "idle"),
         UNCHANGED <<adm, claims, log, answers>>, spent' \subseteq Attempts,
         reply' \in [Attempts -> Replies],
         \A a \in Attempts : reply'[a] = "none" => reply[a] = "none"
  PROVE  LedgerInv'
<1>1. record \in ClaimedRecord /\ record' = Released(record)
  BY MatchedIsRecord DEF Removable
<1>2. CASE record.receipts = <<>>
  <2>1. record' = Absent /\ log' = <<>>
    BY <1>1, <1>2 DEF Released, LedgerInv, HistoriesFit
  <2>2. HistoryFits(record)' /\ ContentFits'
    BY <2>1 DEF HistoryFits, ContentFits, OneContent, Absent, Outcomes, Finals
  <2>3. record'.receipts = log' /\ record'.claim = None /\ record' \in StoredOperation
        /\ log' \in Seq(Receipt) /\ "idle" \in Ready
    BY <2>1 DEF Absent, StoredOperation, Ready
  <2>4. record.claim # None
    BY <1>1, NoneAssumption DEF ClaimedRecord
  <2> QED
    BY <1>1, <1>2, <2>1, <2>2, <2>3, <2>4, WriteInv
<1>3. CASE record.receipts # <<>>
  <2>1. record' = [state |-> "accepted", fingerprint |-> record.fingerprint,
                   revision |-> record.revision + 1, claim |-> None, mark |-> "none",
                   receipts |-> record.receipts]
    BY <1>1, <1>3 DEF Released
  <2>2. /\ record' \in SettledRecord
        /\ record'.state = "accepted" /\ record'.claim = None
        /\ record'.receipts = record.receipts
        /\ record'.fingerprint = record.fingerprint
        /\ record'.revision = record.revision + 1
    BY <1>1, <1>3, <2>1 DEF ClaimedRecord, SettledRecord, Outcomes
  <2>3. /\ \A i \in 1 .. Len(record.receipts) : record.receipts[i].outcome = "accepted"
        /\ Len(record.receipts) \in 1 .. Len(record.receipts)
    BY <1>1, <1>3 DEF LedgerInv, HistoriesFit, HistoryFits, ClaimedRecord
  <2>4. HistoryFits(record)'
    BY <2>2, <2>3 DEF HistoryFits, Outcomes, Finals
  <2>5. record'.receipts = log' /\ log' \in Seq(Receipt)
    BY <2>2 DEF LedgerInv, HistoriesFit, TypeOK
  <2>6. ContentFits'
    BY <1>1, <2>2 DEF LedgerInv, ContentFits, OneContent, ClaimedRecord, Absent
  <2>7. record' \in StoredOperation /\ record.claim # None /\ "idle" \in Ready
    BY <1>1, <2>2, NoneAssumption DEF StoredOperation, ClaimedRecord, Ready
  <2> QED
    BY <1>1, <1>3, <2>2, <2>4, <2>5, <2>6, <2>7, WriteInv
<1> QED
  BY <1>2, <1>3

\* An undo releases the claim it wrote, or nothing.
LEMMA UndoInv ==
  ASSUME LedgerInv, NEW c \in Calls, Undo(c)
  PROVE  LedgerInv'
<1>1. /\ call[c].seen.state = "claimed"
      /\ call[c].arg \in {"refused", "expired"}
      /\ call[c].attempt \in Attempts
  BY DEF Undo, Waiting, LedgerInv, ReadsFit, FreshClaims, Claiming
<1>2. /\ Return(c, "idle") /\ UNCHANGED <<adm, claims, spent, log, answers>>
      /\ reply' = [reply EXCEPT ![call[c].attempt] = call[c].arg]
  BY DEF Undo, Answer
<1>3. /\ reply' \in [Attempts -> Replies]
      /\ \A a \in Attempts : reply'[a] = "none" => reply[a] = "none"
  BY <1>1, <1>2 DEF LedgerInv, TypeOK, Replies
<1>4. spent' \subseteq Attempts /\ answers' \subseteq Receipt
  BY <1>2 DEF LedgerInv, TypeOK
<1>5. CASE Removable(call[c].seen)
  <2>1. record' = Released(call[c].seen)
    BY <1>5 DEF Undo
  <2> QED
    BY <1>1, <1>2, <1>3, <1>4, <1>5, <2>1, ReleaseInv
<1>6. CASE ~Removable(call[c].seen)
  <2>1. record' = record
    BY <1>6 DEF Undo
  <2> QED
    BY <1>2, <1>3, <1>4, <2>1, ReturnInv DEF Ready
<1> QED
  BY <1>5, <1>6

\* fail releases the claim it read, or nothing.
LEMMA FailReleaseInv ==
  ASSUME LedgerInv, NEW c \in Calls, FailRelease(c)
  PROVE  LedgerInv'
<1>1. call[c].seen.state = "claimed" /\ call[c].attempt \in Attempts
  BY DEF FailRelease, Waiting, LedgerInv, ReadsFit, FailPCs
<1>2. CASE Removable(call[c].seen)
  BY <1>1, <1>2, ReleaseInv DEF FailRelease, LedgerInv, TypeOK
<1>3. CASE ~Removable(call[c].seen)
  BY <1>3, ReturnInv DEF FailRelease, Ready, LedgerInv, TypeOK
<1> QED
  BY <1>2, <1>3

\* reconcile releases the claim it read, or nothing.
LEMMA ReconcileReleaseInv ==
  ASSUME LedgerInv, NEW c \in Calls, ReconcileRelease(c)
  PROVE  LedgerInv'
<1>1. call[c].seen.state = "claimed"
  BY DEF ReconcileRelease, Waiting, LedgerInv, ReadsFit
<1>2. CASE Removable(call[c].seen)
  BY <1>1, <1>2, ReleaseInv DEF ReconcileRelease, LedgerInv, TypeOK
<1>3. CASE ~Removable(call[c].seen)
  BY <1>3, ReturnInv DEF ReconcileRelease, Ready, LedgerInv, TypeOK
<1> QED
  BY <1>2, <1>3

\* A mark is a new revision of the same claim.
LEMMA MarkInv ==
  ASSUME LedgerInv, NEW c \in Calls, FailMark(c) \/ MarkReplace(c)
  PROVE  LedgerInv'
<1>1. call[c].seen.state = "claimed" /\ WriteMark(c)
  BY DEF FailMark, MarkReplace, Waiting, LedgerInv, ReadsFit
<1> QED
  BY <1>1, WriteMarkInv

\* The commit of a settle: it appends to the stored history, because the claim
\* carries the receipts of the record it matches.
LEMMA SettleCommitEffect ==
  ASSUME LedgerInv, NEW c \in Calls, SettleCommit(c)
  PROVE  LET r == [attempt |-> call[c].attempt, outcome |-> call[c].arg]
         IN  /\ r \in Receipt
             /\ record \in ClaimedRecord
             /\ record.claim = call[c].attempt
             /\ record' = [state |-> call[c].arg, fingerprint |-> record.fingerprint,
                           revision |-> record.revision + 1, claim |-> None, mark |-> "none",
                           receipts |-> Append(record.receipts, r)]
             /\ log' = Append(log, r)
<1> DEFINE a == call[c].attempt
           r == [attempt |-> a, outcome |-> call[c].arg]
<1>1. /\ call[c].pc = "settle_commit" /\ Matches(call[c].seen)
      /\ record' = Settled(claims[a], call[c].seen.revision, call[c].arg)
      /\ log' = Append(log, r)
  BY DEF SettleCommit, Waiting
<1>2. /\ call[c].seen.state = "claimed" /\ call[c].seen.claim = a
      /\ a \in Attempts /\ claims[a] # Absent /\ call[c].arg \in Outcomes
  BY <1>1 DEF LedgerInv, ReadsFit, SettlePCs
<1>3. call[c].seen = record /\ record \in ClaimedRecord
  BY <1>1, <1>2, MatchedIsRecord
<1>4. /\ claims[a].claim = a
      /\ claims[a].receipts = record.receipts
      /\ claims[a].fingerprint = record.fingerprint
  BY <1>2, <1>3 DEF LedgerInv, ClaimsAreCurrent
<1> QED
  BY <1>1, <1>2, <1>3, <1>4 DEF Settled, Receipt

\* A commit appends one receipt to the record it was read from, and ends its claim.
LEMMA SettleCommitInv ==
  ASSUME LedgerInv, NEW c \in Calls, SettleCommit(c)
  PROVE  LedgerInv'
<1> DEFINE r == [attempt |-> call[c].attempt, outcome |-> call[c].arg]
<1>1. /\ r \in Receipt
      /\ record \in ClaimedRecord
      /\ record.claim = call[c].attempt
      /\ record' = [state |-> call[c].arg, fingerprint |-> record.fingerprint,
                    revision |-> record.revision + 1, claim |-> None, mark |-> "none",
                    receipts |-> Append(record.receipts, r)]
      /\ log' = Append(log, r)
  BY SettleCommitEffect
<1>2. /\ Return(c, "idle") /\ UNCHANGED <<adm, reply, claims, spent, answers>>
      /\ call[c].arg \in Outcomes
  BY DEF SettleCommit, Waiting, LedgerInv, ReadsFit, SettlePCs
<1>3. r.outcome = call[c].arg /\ r.attempt = record.claim
  BY <1>1
<1> HIDE DEF r
<1> DEFINE n == Len(record.receipts)
           rs == Append(record.receipts, r)
<1>4. /\ record.receipts \in Seq(Receipt) /\ n \in Nat
      /\ rs \in Seq(Receipt) /\ Len(rs) = n + 1 /\ rs[n + 1] = r
      /\ \A i \in 1 .. n : rs[i] = record.receipts[i]
      /\ rs # <<>>
  BY <1>1 DEF ClaimedRecord
<1>5. /\ record' \in SettledRecord
      /\ record'.state = call[c].arg /\ record'.claim = None
      /\ record'.receipts = rs
      /\ record'.fingerprint = record.fingerprint
      /\ record'.revision = record.revision + 1
  <2> HIDE DEF rs
  <2> QED
    BY <1>1, <1>2, <1>4 DEF SettledRecord, ClaimedRecord, rs
<1>6. \A i \in 1 .. n : record.receipts[i].outcome = "accepted"
  BY <1>1 DEF LedgerInv, HistoriesFit, HistoryFits, ClaimedRecord
<1>7. HistoryFits(record)'
  <2>1. record'.state # "claimed"
    BY <1>2, <1>5 DEF Outcomes, Finals
  <2>2. \A i \in 1 .. n + 1 : rs[i].outcome \in Finals => i = n + 1
    BY <1>4, <1>6 DEF Finals
  <2>3. rs[n + 1].outcome = call[c].arg
    BY <1>3, <1>4
  <2> HIDE DEF rs, n
  <2> QED
    BY <1>4, <1>5, <2>1, <2>2, <2>3 DEF HistoryFits
<1>8. log = record.receipts /\ log' = rs
  BY <1>1 DEF LedgerInv, HistoriesFit
<1>9. ContentFits'
  <2>1. \A i \in 1 .. n : Fingerprint[record.receipts[i].attempt] = record.fingerprint
    BY <1>1, <1>8 DEF LedgerInv, ContentFits, OneContent, ClaimedRecord, Absent
  <2>2. Fingerprint[r.attempt] = record.fingerprint
    BY <1>1, <1>3 DEF LedgerInv, ContentFits, ClaimedRecord
  <2>3. \A i \in 1 .. n + 1 : Fingerprint[rs[i].attempt] = record.fingerprint
    BY <1>4, <2>1, <2>2
  <2>4. record'.state # "claimed"
    BY <1>2, <1>5 DEF Outcomes, Finals
  <2> HIDE DEF rs, n
  <2> QED
    BY <1>4, <1>5, <1>8, <2>3, <2>4 DEF ContentFits, OneContent
<1>10. /\ record' \in StoredOperation /\ record.claim # None /\ "idle" \in Ready
       /\ spent' \subseteq Attempts /\ reply' = reply /\ reply' \in [Attempts -> Replies]
  BY <1>1, <1>2, <1>5, NoneAssumption DEF StoredOperation, ClaimedRecord, Ready, LedgerInv, TypeOK
<1> HIDE DEF rs, n
<1> QED
  BY <1>1, <1>2, <1>4, <1>5, <1>7, <1>8, <1>9, <1>10, WriteInv

\* A new claim: the first one, or the continuation of the accepted record.
LEMMA ClaimInv ==
  ASSUME LedgerInv, NEW c \in Calls, NEW a \in Attempts,
         call[c].pc \in Unclaimed, call[c].attempt = a,
         record = Absent \/ record.state = "accepted",
         record # Absent => record.fingerprint = Fingerprint[a],
         record' = NewClaim(a, record, Fingerprint[a]),
         GotoSeeing(c, "granting", record'),
         UNCHANGED <<adm, reply, claims, spent, log, answers>>
  PROVE  LedgerInv'
<1> DEFINE k == [pc |-> "granting", attempt |-> a, seen |-> record', arg |-> call[c].arg]
<1> USE NoneAssumption
<1>1. /\ record.revision \in Nat /\ record.receipts \in Seq(Receipt) /\ record.claim = None
      /\ record.receipts = <<>> <=> record = Absent
  <2>1. CASE record = Absent
    BY <2>1 DEF Absent
  <2>2. CASE record.state = "accepted"
    <3>1. record # Absent /\ record \notin ClaimedRecord
      BY <2>2 DEF Absent, ClaimedRecord
    <3>2. record \in SettledRecord
      BY <3>1 DEF LedgerInv, TypeOK, StoredOperation
    <3> QED
      BY <3>1, <3>2 DEF SettledRecord
  <2> QED
    BY <2>1, <2>2
<1>2. /\ record' \in ClaimedRecord
      /\ record'.state = "claimed" /\ record'.claim = a
      /\ record'.fingerprint = Fingerprint[a]
      /\ record'.receipts = record.receipts
      /\ record'.revision = record.revision + 1
  BY <1>1, FingerprintAssumption DEF NewClaim, ClaimedRecord
<1>3. /\ Moves(c) /\ call'[c] = k /\ call' = [call EXCEPT ![c] = k] /\ k \in Call
      /\ \A d \in Calls \ {c} : call'[d] = call[d]
  <2>1. call' = [call EXCEPT ![c] = k]
    BY DEF GotoSeeing, Enter
  <2>2. k \in Call
    BY <1>2 DEF Call, PCs, StoredOperation, LedgerInv, TypeOK
  <2> QED
    BY <2>1, <2>2, OthersStay DEF LedgerInv, TypeOK
<1>4. TypeOK'
  BY <1>2, <1>3 DEF LedgerInv, TypeOK, StoredOperation
<1>5. call'[c].pc = "granting" /\ call'[c].attempt = a /\ call'[c].seen = record'
  BY <1>3
<1> HIDE DEF k
<1>6. NeverClaimed(a) /\ \A d \in Calls \ {c} : call[d].attempt # a
  BY DEF LedgerInv, FreshClaims
<1>7. reply[a] # "none"
  BY DEF LedgerInv, FreshClaims
<1>8. FreshClaims'
  <2>1. \A b \in Attempts \ {a} : NeverClaimed(b) => NeverClaimed(b)'
    BY <1>2, <1>3, <1>5 DEF NeverClaimed
  <2>2. ASSUME NEW b \in Attempts, reply'[b] = "none"
        PROVE  NeverClaimed(b)' /\ \A d \in Calls : call'[d].attempt # b
    BY <1>3, <1>5, <1>7, <2>1, <2>2 DEF LedgerInv, FreshClaims
  <2>3. ASSUME NEW d \in Calls, NEW b \in Attempts,
               call'[d].pc \in Unclaimed, call'[d].attempt = b
        PROVE  NeverClaimed(b)'
    <3>1. d # c
      BY <1>5, <2>3 DEF Unclaimed
    <3> QED
      BY <1>3, <1>6, <2>1, <2>3, <3>1 DEF LedgerInv, FreshClaims
  <2>4. ASSUME NEW d \in Calls, call'[d].pc \in Unclaimed \cup Claiming
        PROVE  /\ call'[d].attempt \in Attempts
               /\ claims'[call'[d].attempt] = Absent
               /\ \A e \in Calls \ {d} : call'[e].attempt # call'[d].attempt
    <3>1. \A e \in Calls : call'[e].attempt = call[e].attempt
      BY <1>3, <1>5
    <3>2. call[d].pc \in Unclaimed \cup Claiming
      BY <1>3, <2>4
    <3> QED
      BY <3>1, <3>2 DEF LedgerInv, FreshClaims
  <2> QED
    BY <2>2, <2>3, <2>4 DEF FreshClaims, NeverClaimed
<1>9. ReadsFit'
  BY <1>2, <1>3, <1>5 DEF LedgerInv, ReadsFit, Unclaimed, Claiming, SettlePCs, FailPCs
<1>10. ReadsPrecede'
  <2>1. ASSUME NEW d \in Calls \ {c}
        PROVE  /\ ~(call[d].seen.state = "claimed" /\ call[d].seen.claim = record'.claim)
               /\ call[d].seen.state \in Outcomes => Precedes(call[d].seen, record')
    <3>1. call[d].seen.claim # a
      BY <1>6 DEF NeverClaimed
    <3>2. ASSUME call[d].seen.state \in Outcomes
          PROVE  Precedes(call[d].seen, record')
      <4>1. call[d].seen.revision \in Nat
        BY <3>2 DEF LedgerInv, TypeOK, Call, StoredOperation, ClaimedRecord, SettledRecord, Absent
      <4>2. Precedes(call[d].seen, record)
        BY <3>2 DEF LedgerInv, ReadsPrecede
      <4> QED
        BY <1>1, <1>2, <4>1, <4>2 DEF Precedes
    <3> QED
      BY <1>2, <3>1, <3>2
  <2>2. record'.revision \in Nat /\ record'.state \notin Outcomes
    BY <1>2 DEF ClaimedRecord, Outcomes, Finals
  <2> QED
    BY <1>3, <1>5, <2>1, <2>2 DEF ReadsPrecede, SameClaim, Precedes
<1>11. ClaimsAreCurrent'
  BY <1>2, <1>6 DEF LedgerInv, ClaimsAreCurrent, NeverClaimed
<1>12. HistoriesFit'
  <2>1. \A i \in 1 .. Len(record.receipts) : record.receipts[i].outcome = "accepted"
    <3>1. CASE record = Absent
      BY <3>1 DEF Absent
    <3>2. CASE record.state = "accepted"
      <4>1. HistoryFits(record) /\ record.state \in Outcomes
        BY <3>2 DEF LedgerInv, HistoriesFit, Outcomes
      <4>2. ASSUME NEW i \in 1 .. Len(record.receipts)
            PROVE  record.receipts[i].outcome = "accepted"
        <5>1. record.receipts[i].outcome \in Outcomes
          <6>1. record.receipts[i] \in Receipt
            BY <1>1
          <6> QED
            BY <6>1 DEF Receipt
        <5>2. record.receipts[Len(record.receipts)].outcome = "accepted"
          BY <3>2, <4>1 DEF HistoryFits
        <5> QED
          BY <4>1, <5>1, <5>2 DEF HistoryFits, Outcomes, Finals
      <4> QED
        BY <4>2
    <3> QED
      BY <3>1, <3>2
  <2>2. HistoryFits(record)'
    BY <1>2, <2>1 DEF HistoryFits, Outcomes, Finals
  <2>3. HistoryFits(call'[c].seen)
    BY <1>5, <2>2 DEF HistoryFits
  <2>4. \A d \in Calls : HistoryFits(call[d].seen)
    BY DEF LedgerInv, HistoriesFit
  <2>5. \A d \in Calls : HistoryFits(call'[d].seen)
    BY <1>3, <2>3, <2>4
  <2> QED
    BY <1>2, <2>2, <2>5 DEF LedgerInv, HistoriesFit, HistoryFits
<1>13. ContentFits'
  BY <1>1, <1>2 DEF LedgerInv, ContentFits, OneContent, HistoriesFit, Absent
<1> QED
  BY <1>4, <1>8, <1>9, <1>10, <1>11, <1>12, <1>13 DEF LedgerInv

\* A first claim is written only where there is no record, under a new claim id.
LEMMA BeginCreateInv ==
  ASSUME LedgerInv, NEW c \in Calls, BeginCreate(c)
  PROVE  LedgerInv'
<1> DEFINE a == call[c].attempt
<1>1. /\ call[c].pc \in Unclaimed /\ a \in Attempts
      /\ call[c].arg \in Args /\ spent \subseteq Attempts
      /\ UNCHANGED <<adm, reply, claims, spent, log, answers>>
  BY DEF BeginCreate, Waiting, Unclaimed, LedgerInv, TypeOK, Call, FreshClaims
<1>2. CASE record = Absent
  <2>1. record' = NewClaim(a, record, Fingerprint[a]) /\ GotoSeeing(c, "granting", record')
    BY <1>2 DEF BeginCreate
  <2> QED
    BY <1>1, <1>2, <2>1, ClaimInv
<1>3. CASE record # Absent
  <2>1. record' = record /\ Enter(c, "answer", a, record, call[c].arg)
    BY <1>3 DEF BeginCreate, GotoSeeing
  <2>2. ReadsFit'
    BY <1>1, <1>3, <2>1 DEF Enter, LedgerInv, TypeOK, Call, ReadsFit, Claiming, SettlePCs, FailPCs
  <2> QED
    BY <1>1, <2>1, <2>2, GoesOnInv DEF PCs, Unclaimed
<1> QED
  BY <1>2, <1>3

\* A continuation claims the accepted record it read, under a new claim id.
LEMMA ResumeReclaimInv ==
  ASSUME LedgerInv, NEW c \in Calls, ResumeReclaim(c)
  PROVE  LedgerInv'
<1> DEFINE a == call[c].attempt
           seen == call[c].seen
<1>1. /\ call[c].pc = "resume_reclaim" /\ call[c].pc \in Unclaimed /\ a \in Attempts
      /\ seen.state = "accepted" /\ seen.fingerprint = Fingerprint[a]
      /\ UNCHANGED <<adm, claims, spent, log, answers>>
  BY DEF ResumeReclaim, Waiting, Unclaimed, LedgerInv, FreshClaims, ReadsFit
<1>2. CASE ReclaimExpects(seen)
  <2>1. seen = record
    BY <1>1, <1>2 DEF ReclaimExpects, LedgerInv, ReadsPrecede, Precedes, Outcomes
  <2>2. /\ record' = NewClaim(a, record, Fingerprint[a])
        /\ GotoSeeing(c, "granting", record')
        /\ reply' = reply
    BY <1>1, <1>2, <2>1 DEF ResumeReclaim
  <2>3. record.state = "accepted" /\ record.fingerprint = Fingerprint[a]
    BY <1>1, <2>1
  <2> QED
    BY <1>1, <2>2, <2>3, ClaimInv
<1>3. CASE ~ReclaimExpects(seen)
  <2>1. /\ record' = record /\ Return(c, "idle")
        /\ reply' = [reply EXCEPT ![a] = "in_progress"]
    BY <1>3 DEF ResumeReclaim, Answer
  <2>2. /\ reply' \in [Attempts -> Replies]
        /\ \A b \in Attempts : reply'[b] = "none" => reply[b] = "none"
    BY <1>1, <2>1 DEF LedgerInv, TypeOK, Replies
  <2>3. spent' \subseteq Attempts /\ answers' \subseteq Receipt
    BY <1>1 DEF LedgerInv, TypeOK
  <2> QED
    BY <1>1, <2>1, <2>2, <2>3, ReturnInv DEF Ready
<1> QED
  BY <1>2, <1>3

\* An answer changes no record.
LEMMA BeginAnswerInv ==
  ASSUME LedgerInv, NEW c \in Calls, BeginAnswer(c)
  PROVE  LedgerInv'
BY AnswerExistingInv DEF BeginAnswer, Waiting

\* The calls that enter with an issued claim, and those of the recovery.
LEMMA EntryInv ==
  ASSUME LedgerInv, NEW c \in Calls, Work(c) \/ Recover(c)
  PROVE  LedgerInv'
<1>1. CASE Work(c)
  <2>1. PICK a \in Attempts :
           \/ BeginCall(c, a)
           \/ ResumeCall(c, a)
           \/ \E o \in Settlements : SettleCall(c, a, o)
           \/ \E f \in {"rolled-back", "uncertain"} : FailCall(c, a, f)
    BY <1>1 DEF Work
  <2>2. CASE BeginCall(c, a) \/ ResumeCall(c, a)
    BY <2>2, AdmittedCallInv
  <2>3. ASSUME NEW o \in Settlements, SettleCall(c, a, o)
        PROVE  LedgerInv'
    <3>1. o \in Outcomes /\ o \in Args
      BY BoundsAssumption DEF Args
    <3> QED
      BY <2>3, <3>1, ClaimCallInv DEF SettleCall
  <2>4. ASSUME NEW f \in {"rolled-back", "uncertain"}, FailCall(c, a, f)
        PROVE  LedgerInv'
    BY <2>4, ClaimCallInv DEF FailCall, Args
  <2> QED
    BY <2>1, <2>2, <2>3, <2>4
<1>2. CASE MarkCall(c)
  BY <1>2, RecoveryCallInv DEF MarkCall, Args
<1>3. ASSUME NEW s \in {"assured", "unassured"}, ReconcileCall(c, s)
      PROVE  LedgerInv'
  BY <1>3, RecoveryCallInv DEF ReconcileCall, Args
<1> QED
  BY <1>1, <1>2, <1>3 DEF Recover

\* Every continuation of a call preserves the invariant.
LEMMA StepInv ==
  ASSUME LedgerInv, NEW c \in Calls, Step(c)
  PROVE  LedgerInv'
<1>1. CASE BeginGet(c) \/ BeginCreate(c) \/ BeginAnswer(c)
  BY <1>1, BeginGetInv, BeginCreateInv, BeginAnswerInv
<1>2. CASE ResumeGet(c) \/ ResumeRead(c) \/ ResumeReclaim(c)
  BY <1>2, ResumeGetInv, ResumeReadInv, ResumeReclaimInv
<1>3. CASE Grant(c) \/ GrantLapsed(c) \/ Undo(c)
  BY <1>3, GrantInv, GrantLapsedInv, UndoInv
<1>4. CASE SettleGet(c) \/ SettleReplace(c) \/ SettleCommit(c) \/ SettleRollback(c)
  BY <1>4, SettleGetInv, SettleReplaceInv, SettleCommitInv, SettleRollbackInv
<1>5. CASE FailGet(c) \/ FailMark(c) \/ FailRelease(c)
  BY <1>5, FailGetInv, MarkInv, FailReleaseInv
<1>6. CASE MarkGet(c) \/ MarkReplace(c)
  BY <1>6, MarkGetInv, MarkInv
<1>7. CASE ReconcileGet(c) \/ ReconcileRelease(c)
  BY <1>7, ReconcileGetInv, ReconcileReleaseInv
<1> QED
  BY <1>1, <1>2, <1>3, <1>4, <1>5, <1>6, <1>7 DEF Step

\* LedgerInv is inductive.
LEMMA NextInv == LedgerInv /\ [Next]_vars => LedgerInv'
<1> SUFFICES ASSUME LedgerInv, [Next]_vars PROVE LedgerInv'
  OBVIOUS
<1>1. ASSUME NEW c \in Workers, Work(c) PROVE LedgerInv'
  BY <1>1, EntryInv DEF Calls
<1>2. ASSUME NEW c \in Supervisors, Recover(c) PROVE LedgerInv'
  BY <1>2, EntryInv DEF Calls
<1>3. ASSUME NEW c \in Calls, Step(c) \/ Crash(c) PROVE LedgerInv'
  BY <1>3, StepInv, CrashInv
<1>4. ASSUME NEW a \in Attempts, RefuseCall(a) PROVE LedgerInv'
  BY <1>4, RefuseCallInv
<1>5. ASSUME NEW a \in Lapsing, Lapse(a) PROVE LedgerInv'
  BY <1>5, LapseInv, BoundsAssumption
<1>6. CASE UNCHANGED vars
  BY <1>6, EnvironmentInv DEF vars, LedgerInv, TypeOK
<1> QED
  BY <1>1, <1>2, <1>3, <1>4, <1>5, <1>6 DEF Next

-----------------------------------------------------------------------------
(* The theorems of Spec *)

\* The record and the history after a step, as the invariant lets them change.
Unwritten == record' = record /\ log' = log

Claimed ==
    /\ record = Absent \/ record.state = "accepted"
    /\ \E a \in Attempts : record' = NewClaim(a, record, Fingerprint[a])
    /\ log' = log

Marked == record \in ClaimedRecord /\ record' = MarkedUncertain(record) /\ log' = log

\* The right to end a claim that was not settled.
RightToRelease(c) ==
    \/ call[c].attempt = record.claim
    \/ call[c].pc = "reconcile_release" /\ call[c].arg = "assured" /\ record.mark = "uncertain"

ReleasedBy(c) ==
    /\ record \in ClaimedRecord
    /\ record' = Released(record)
    /\ log' = log
    /\ Acts(c)
    /\ RightToRelease(c)

SettledBy(c) ==
    /\ record \in ClaimedRecord
    /\ call[c].attempt = record.claim
    /\ Acts(c)
    /\ \E o \in Outcomes :
          LET r == [attempt |-> record.claim, outcome |-> o]
          IN  /\ record' = [state |-> o, fingerprint |-> record.fingerprint,
                            revision |-> record.revision + 1, claim |-> None, mark |-> "none",
                            receipts |-> Append(record.receipts, r)]
              /\ log' = Append(log, r)

Writes(c) == Unwritten \/ Claimed \/ Marked \/ ReleasedBy(c) \/ SettledBy(c)

\* A call that returns from an await acts.
LEMMA ReturnActs ==
  ASSUME LedgerInv, NEW c \in Calls, call[c].pc \notin Ready, Return(c, "idle")
  PROVE  Acts(c)
<1>1. call'[c].pc = "idle"
  BY DEF Return, Returned, LedgerInv, TypeOK
<1> QED
  BY <1>1 DEF Acts, Ready

LEMMA ReleaseWrites ==
  ASSUME LedgerInv, NEW c \in Calls,
         Undo(c) \/ FailRelease(c) \/ ReconcileRelease(c)
  PROVE  Unwritten \/ ReleasedBy(c)
<1>1. CASE ~Removable(call[c].seen)
  BY <1>1 DEF Undo, FailRelease, ReconcileRelease, Unwritten
<1>2. CASE Removable(call[c].seen)
  <2>1. /\ record' = Released(call[c].seen) /\ log' = log /\ Return(c, "idle")
        /\ call[c].pc \in {"undo", "fail_release", "reconcile_release"}
    BY <1>2 DEF Undo, FailRelease, ReconcileRelease, Waiting, Answer
  <2>2. /\ call[c].seen.state = "claimed"
        /\ call[c].pc # "reconcile_release" => call[c].seen.claim = call[c].attempt
        /\ call[c].pc = "reconcile_release" =>
              call[c].arg = "assured" /\ call[c].seen.mark = "uncertain"
    BY <2>1 DEF LedgerInv, ReadsFit, Claiming
  <2>3. call[c].seen = record /\ record \in ClaimedRecord
    BY <1>2, <2>2, MatchedIsRecord DEF Removable
  <2>4. Acts(c)
    BY <2>1, ReturnActs DEF Ready
  <2> QED
    BY <2>1, <2>2, <2>3, <2>4 DEF ReleasedBy, RightToRelease
<1> QED
  BY <1>1, <1>2

LEMMA MarkWrites ==
  ASSUME LedgerInv, NEW c \in Calls, FailMark(c) \/ MarkReplace(c)
  PROVE  Unwritten \/ Marked
<1>1. call[c].seen.state = "claimed" /\ WriteMark(c)
  BY DEF FailMark, MarkReplace, Waiting, LedgerInv, ReadsFit
<1>2. CASE ~Matches(call[c].seen)
  BY <1>1, <1>2 DEF WriteMark, Unwritten
<1>3. CASE Matches(call[c].seen)
  <2>1. call[c].seen = record /\ record \in ClaimedRecord
    BY <1>1, <1>3, MatchedIsRecord
  <2> QED
    BY <1>1, <1>3, <2>1 DEF WriteMark, Marked
<1> QED
  BY <1>2, <1>3

LEMMA ClaimWrites ==
  ASSUME LedgerInv, NEW c \in Calls, BeginCreate(c) \/ ResumeReclaim(c)
  PROVE  Unwritten \/ Claimed
<1> DEFINE a == call[c].attempt
           seen == call[c].seen
<1>1. a \in Attempts
  BY DEF BeginCreate, ResumeReclaim, Waiting, Unclaimed, LedgerInv, FreshClaims
<1>2. CASE BeginCreate(c)
  BY <1>1, <1>2 DEF BeginCreate, Unwritten, Claimed
<1>3. CASE ResumeReclaim(c) /\ ~ReclaimExpects(seen)
  BY <1>3 DEF ResumeReclaim, Unwritten
<1>4. CASE ResumeReclaim(c) /\ ReclaimExpects(seen)
  <2>1. seen.state = "accepted" /\ seen.fingerprint = Fingerprint[a]
    BY <1>4 DEF ResumeReclaim, Waiting, LedgerInv, ReadsFit
  <2>2. seen = record
    BY <1>4, <2>1 DEF ReclaimExpects, LedgerInv, ReadsPrecede, Precedes, Outcomes
  <2> QED
    BY <1>1, <1>4, <2>1, <2>2 DEF ResumeReclaim, Claimed
<1> QED
  BY <1>2, <1>3, <1>4

LEMMA SettleWrites ==
  ASSUME LedgerInv, NEW c \in Calls, SettleCommit(c)
  PROVE  SettledBy(c)
<1>1. call[c].arg \in Outcomes
  BY DEF SettleCommit, Waiting, LedgerInv, ReadsFit, SettlePCs
<1>2. Acts(c)
  BY ReturnActs DEF SettleCommit, Waiting, Ready
<1> QED
  BY <1>1, <1>2, SettleCommitEffect DEF SettledBy

LEMMA StepWrites ==
  ASSUME LedgerInv, NEW c \in Calls, Step(c)
  PROVE  Writes(c)
<1>1. CASE BeginCreate(c) \/ ResumeReclaim(c)
  BY <1>1, ClaimWrites DEF Writes
<1>2. CASE Undo(c) \/ FailRelease(c) \/ ReconcileRelease(c)
  BY <1>2, ReleaseWrites DEF Writes
<1>3. CASE FailMark(c) \/ MarkReplace(c)
  BY <1>3, MarkWrites DEF Writes
<1>4. CASE SettleCommit(c)
  BY <1>4, SettleWrites DEF Writes
<1>5. CASE BeginGet(c) \/ BeginAnswer(c) \/ ResumeGet(c) \/ ResumeRead(c) \/ Grant(c) \/ GrantLapsed(c)
  BY <1>5 DEF BeginGet, BeginAnswer, ResumeGet, ResumeRead, Grant, GrantLapsed, AnswerExisting,
     Writes, Unwritten
<1>6. CASE SettleGet(c) \/ SettleReplace(c) \/ SettleRollback(c) \/ FailGet(c) \/ MarkGet(c) \/ ReconcileGet(c)
  BY <1>6 DEF SettleGet, SettleReplace, SettleRollback, FailGet, MarkGet, ReconcileGet, Writes, Unwritten
<1> QED
  BY <1>1, <1>2, <1>3, <1>4, <1>5, <1>6 DEF Step

\* Only the step of a call writes.
LEMMA NextWrites ==
  ASSUME LedgerInv, [Next]_vars
  PROVE  Unwritten \/ \E c \in Calls : Writes(c)
<1>1. ASSUME NEW c \in Workers, Work(c) PROVE Unwritten
  BY <1>1 DEF Work, BeginCall, ResumeCall, AdmittedCall, SettleCall, FailCall, ClaimCall, Unwritten
<1>2. ASSUME NEW c \in Supervisors, Recover(c) PROVE Unwritten
  BY <1>2 DEF Recover, MarkCall, ReconcileCall, Unwritten
<1>3. ASSUME NEW c \in Calls, Crash(c) PROVE Unwritten
  BY <1>3 DEF Crash, Unwritten
<1>4. ASSUME NEW a \in Attempts, RefuseCall(a) \/ Lapse(a) PROVE Unwritten
  BY <1>4 DEF RefuseCall, Lapse, Unwritten
<1>5. CASE UNCHANGED vars
  BY <1>5 DEF vars, Unwritten
<1> QED
  BY <1>1, <1>2, <1>3, <1>4, <1>5, StepWrites, BoundsAssumption DEF Next

-----------------------------------------------------------------------------
(* What the writes keep *)

\* A record is settled exactly when it has an outcome, and holds no claim then.
LEMMA RecordShape ==
  ASSUME LedgerInv
  PROVE  /\ record.state = "claimed" => record \in ClaimedRecord
         /\ record.state \in Outcomes => record \in SettledRecord
         /\ record \notin ClaimedRecord => record.claim = None
BY DEF LedgerInv, TypeOK, StoredOperation, ClaimedRecord, SettledRecord, Absent, Outcomes, Finals

LEMMA WritesGrow ==
  ASSUME LedgerInv, NEW c \in Calls, Writes(c)
  PROVE  /\ record.state \in Finals => record' = record
         /\ record.receipts # <<>> /\ record' # record => record'.revision = record.revision + 1
<1>1. record \in ClaimedRecord => record.state = "claimed"
  BY DEF ClaimedRecord
<1>2. "claimed" \notin Finals /\ "accepted" \notin Finals /\ Absent.state \notin Finals
      /\ Absent.receipts = <<>>
  BY DEF Finals, Absent
<1>3. CASE Unwritten
  BY <1>3 DEF Unwritten
<1>4. CASE Claimed
  BY <1>2, <1>4 DEF Claimed, NewClaim
<1>5. CASE Marked
  <2>1. record' = [record EXCEPT !.revision = record.revision + 1, !.mark = "uncertain"]
        /\ record \in ClaimedRecord
    BY <1>5 DEF Marked, MarkedUncertain
  <2> QED
    BY <1>1, <1>2, <2>1 DEF ClaimedRecord
<1>6. CASE ReleasedBy(c)
  BY <1>1, <1>2, <1>6 DEF ReleasedBy, Released
<1>7. CASE SettledBy(c)
  BY <1>1, <1>2, <1>7 DEF SettledBy
<1> QED
  BY <1>3, <1>4, <1>5, <1>6, <1>7 DEF Writes

LEMMA WritesEndByRight ==
  ASSUME LedgerInv, NEW c \in Calls, Writes(c),
         record.state = "claimed", record'.claim # record.claim
  PROVE  Acts(c) /\ RightToRelease(c)
<1>1. record \in ClaimedRecord
  BY RecordShape
<1>2. ~Unwritten
  BY DEF Unwritten
<1>3. ~Claimed
  BY DEF Claimed, Absent
<1>4. ~Marked
  BY <1>1 DEF Marked, MarkedUncertain, ClaimedRecord
<1> QED
  BY <1>2, <1>3, <1>4 DEF Writes, ReleasedBy, SettledBy, RightToRelease

LEMMA LedgerInvGivesOnce == LedgerInv => OutcomesRecordedOnce
BY DEF LedgerInv, HistoriesFit, HistoryFits, OutcomesRecordedOnce

-----------------------------------------------------------------------------
(* Invariants *)

\* The inductive invariant holds in every reachable state.
THEOREM InvariantHolds == Spec => []LedgerInv
<1>1. Init => LedgerInv
  BY InitInv
<1>2. LedgerInv /\ [Next]_vars => LedgerInv'
  BY NextInv
<1> QED
  BY <1>1, <1>2, PTL DEF Spec

\* Stored operations, claims, answers and calls in flight keep their types.
THEOREM TypeCorrect == Spec => []TypeOK
<1>1. LedgerInv => TypeOK
  BY DEF LedgerInv
<1> QED
  BY <1>1, InvariantHolds, PTL

\* What committed is what storage says, once and in order, and nothing follows a
\* final outcome, whatever workers, supervisors, lapses and crashes do.
THEOREM OutcomesAreRecordedOnce == Spec => []OutcomesRecordedOnce
BY LedgerInvGivesOnce, InvariantHolds, PTL

\* One operation id has one content: `resume` and `begin` never continue it with another.
THEOREM OperationHasOneContent == Spec => []OneContent
<1>1. LedgerInv => OneContent
  BY DEF LedgerInv, ContentFits
<1> QED
  BY <1>1, InvariantHolds, PTL

-----------------------------------------------------------------------------
(* Action properties *)

\* No worker, however stale, replaces a final outcome, and a record with receipts
\* is only ever written over at the next revision.
THEOREM FinalOutcomeStays == Spec => FinalIsFinal
<1> DEFINE A == /\ record.state \in Finals => record' = record
                /\ record.receipts # <<>> /\ record' # record => record'.revision = record.revision + 1
<1>1. LedgerInv /\ [Next]_vars => A
  BY NextWrites, WritesGrow DEF Unwritten
<1>2. LedgerInv /\ [Next]_vars => [A]_vars
  BY <1>1
<1> QED
  BY <1>2, InvariantHolds, PTL DEF Spec, FinalIsFinal

\* A claim is ended by its own attempt, or by a reconciliation that read it marked
\* uncertain and was given an assurance; no other call can take it away.
THEOREM ClaimIsEndedByRight == Spec => ClaimEndsByRight
<1> DEFINE A == record.state = "claimed" /\ record'.claim # record.claim =>
                  \E c \in Calls :
                     /\ Acts(c)
                     /\ \/ call[c].attempt = record.claim
                        \/ /\ call[c].pc = "reconcile_release"
                           /\ call[c].arg = "assured"
                           /\ record.mark = "uncertain"
<1>1. LedgerInv /\ [Next]_vars => A
  BY NextWrites, WritesEndByRight DEF Unwritten, RightToRelease
<1>2. LedgerInv /\ [Next]_vars => [A]_vars
  BY <1>1
<1> QED
  BY <1>2, InvariantHolds, PTL DEF Spec, ClaimEndsByRight

-----------------------------------------------------------------------------
(* Answers *)

\* After a step, a call has read nothing but what it or the record already showed,
\* or holds the claim it just wrote.
LEMMA SeenAfter ==
  ASSUME LedgerInv, [Next]_vars, NEW d \in Calls
  PROVE  call'[d].seen \in {call[d].seen, record, Absent} \/ call'[d].seen.state = "claimed"
<1>1. ASSUME NEW c \in Calls, NEW pc \in PCs, Return(c, pc) \/ GotoSeeing(c, pc, record)
      PROVE  call'[d].seen \in {call[d].seen, record, Absent}
  BY <1>1 DEF LedgerInv, TypeOK, Enter, GotoSeeing, Return, Returned
<1>2. /\ record.mark \in {"none", "uncertain"}
      /\ \A c \in Calls : call[c].pc = "fail_get" => call[c].arg \in {"rolled-back", "uncertain"}
  BY DEF LedgerInv, TypeOK, StoredOperation, ClaimedRecord, SettledRecord, Absent, ReadsFit, FailPCs
<1> USE DEF LedgerInv, TypeOK, Enter, Goto, GotoSeeing, Return, Returned, Answer
<1>3. ASSUME NEW c \in Calls, Work(c) \/ Recover(c)
      PROVE  call'[d].seen \in {call[d].seen, record, Absent}
  BY <1>3 DEF Work, BeginCall, ResumeCall, AdmittedCall, SettleCall, FailCall, ClaimCall,
     Recover, MarkCall, ReconcileCall
<1>4. ASSUME NEW c \in Calls, Step(c) \/ Crash(c)
      PROVE  call'[d].seen \in {call[d].seen, record, Absent} \/ call'[d].seen.state = "claimed"
  <2>1. CASE BeginCreate(c) \/ ResumeReclaim(c)
    BY <2>1 DEF BeginCreate, ResumeReclaim, NewClaim
  <2>2. CASE BeginGet(c) \/ BeginAnswer(c) \/ ResumeGet(c) \/ ResumeRead(c) \/ Grant(c) \/ GrantLapsed(c)
    BY <2>2 DEF BeginGet, BeginAnswer, ResumeGet, ResumeRead, Grant, GrantLapsed, AnswerExisting
  <2>3. CASE SettleGet(c) \/ SettleReplace(c) \/ SettleCommit(c) \/ SettleRollback(c)
    BY <2>3 DEF SettleGet, SettleReplace, SettleCommit, SettleRollback
  <2>4. CASE FailGet(c)
    <3>1. \E pc \in PCs : Return(c, pc) \/ GotoSeeing(c, pc, record)
      BY <1>2, <2>4 DEF FailGet, Waiting, PCs, Ready
    <3> QED
      BY <1>1, <3>1
  <2>5. CASE MarkGet(c)
    <3>1. \E pc \in PCs : Return(c, pc) \/ GotoSeeing(c, pc, record)
      BY <1>2, <2>5 DEF MarkGet, PCs, Ready
    <3> QED
      BY <1>1, <3>1
  <2>6. CASE ReconcileGet(c)
    <3>1. \E pc \in PCs : Return(c, pc) \/ GotoSeeing(c, pc, record)
      BY <2>6 DEF ReconcileGet, PCs, Ready
    <3> QED
      BY <1>1, <3>1
  <2>7. CASE Undo(c) \/ FailRelease(c) \/ ReconcileRelease(c) \/ FailMark(c) \/ MarkReplace(c) \/ Crash(c)
    BY <2>7 DEF Undo, FailRelease, ReconcileRelease, FailMark, MarkReplace, WriteMark, Crash
  <2> QED
    BY <1>4, <2>1, <2>2, <2>3, <2>4, <2>5, <2>6, <2>7 DEF Step
<1>5. ASSUME call' = call PROVE call'[d].seen = call[d].seen
  BY <1>5
<1> QED
  BY <1>3, <1>4, <1>5 DEF Next, Calls, RefuseCall, Lapse, vars

\* An outcome is disclosed only by the judged answer to a record that has been read.
Disclosed(c) ==
    /\ call[c].pc \in {"answer", "resume_got"}
    /\ Existing(call[c].attempt, call[c].seen) = "existing"
    /\ answers' = answers \cup {Governing(call[c].seen.receipts)}

LEMMA AnswersAfter ==
  ASSUME LedgerInv, [Next]_vars
  PROVE  answers' = answers \/ \E c \in Calls : Disclosed(c)
<1>1. ASSUME NEW c \in Calls, Work(c) \/ Recover(c) PROVE answers' = answers
  BY <1>1 DEF Work, BeginCall, ResumeCall, AdmittedCall, SettleCall, FailCall, ClaimCall,
     Recover, MarkCall, ReconcileCall
<1>2. ASSUME NEW c \in Calls, Step(c) \/ Crash(c)
      PROVE  answers' = answers \/ Disclosed(c)
  <2>1. CASE BeginGet(c) \/ BeginCreate(c) \/ ResumeGet(c) \/ ResumeReclaim(c) \/ Grant(c) \/ GrantLapsed(c)
    BY <2>1 DEF BeginGet, BeginCreate, ResumeGet, ResumeReclaim, Grant, GrantLapsed
  <2>2. CASE BeginAnswer(c) \/ ResumeRead(c)
    BY <2>2 DEF BeginAnswer, ResumeRead, AnswerExisting, Waiting, Disclosed
  <2>3. CASE SettleGet(c) \/ SettleReplace(c) \/ SettleCommit(c) \/ SettleRollback(c)
    BY <2>3 DEF SettleGet, SettleReplace, SettleCommit, SettleRollback
  <2>4. CASE FailGet(c) \/ MarkGet(c) \/ ReconcileGet(c)
    BY <2>4 DEF FailGet, MarkGet, ReconcileGet
  <2>5. CASE Undo(c) \/ FailRelease(c) \/ ReconcileRelease(c) \/ FailMark(c) \/ MarkReplace(c) \/ Crash(c)
    BY <2>5 DEF Undo, FailRelease, ReconcileRelease, FailMark, MarkReplace, WriteMark, Crash
  <2> QED
    BY <1>2, <2>1, <2>2, <2>3, <2>4, <2>5 DEF Step
<1> QED
  BY <1>1, <1>2 DEF Next, Calls, RefuseCall, Lapse, vars

\* The history only grows, and not at all once it is final.
LEMMA LogGrows ==
  ASSUME LedgerInv, [Next]_vars
  PROVE  /\ log' = log \/ \E r \in Receipt : log' = Append(log, r)
         /\ record.state \in Finals => record' = record /\ log' = log
<1>1. ASSUME NEW c \in Calls, SettledBy(c)
      PROVE  \E r \in Receipt : log' = Append(log, r)
  BY <1>1 DEF SettledBy, Receipt, ClaimedRecord
<1>2. record.state \in Finals => record' = record
  BY NextWrites, WritesGrow DEF Unwritten
<1>3. record' = record => log' = log
  <2>1. LedgerInv'
    BY NextInv
  <2> QED
    BY <2>1 DEF LedgerInv, HistoriesFit
<1> QED
  BY <1>1, <1>2, <1>3, NextWrites DEF Writes, Unwritten, Claimed, Marked, ReleasedBy

\* A settled record that a call has read governs by its last receipt.
LEMMA DisclosedGoverns ==
  ASSUME LedgerInv, NEW c \in Calls, Disclosed(c)
  PROVE  LET r == call[c].seen
         IN  /\ r.state \in Outcomes
             /\ Governing(r.receipts) = r.receipts[Len(r.receipts)]
             /\ r.receipts[Len(r.receipts)].outcome = r.state
<1> DEFINE r == call[c].seen
<1>1. r \in StoredOperation /\ r # Absent /\ HistoryFits(r)
  BY DEF Disclosed, LedgerInv, TypeOK, Call, ReadsFit, HistoriesFit
<1>2. call[c].attempt \in Attempts
  BY DEF Disclosed, LedgerInv, FreshClaims, Unclaimed
<1>3. r \in SettledRecord
  BY <1>1, <1>2 DEF Disclosed, Existing, LedgerInv, TypeOK, StoredOperation, ClaimedRecord, Verdicts
<1>4. Len(r.receipts) \in Nat \ {0}
  BY <1>3 DEF SettledRecord
<1> DEFINE finals == {i \in 1 .. Len(r.receipts) : r.receipts[i].outcome \in Finals}
<1>5. finals # {} => finals = {Len(r.receipts)}
  BY <1>1, <1>4 DEF HistoryFits
<1>6. finals # {} => (CHOOSE i \in finals : \A j \in finals : i <= j) = Len(r.receipts)
  BY <1>4, <1>5
<1>7. r.state \in Outcomes
  BY <1>3 DEF SettledRecord
<1> QED
  BY <1>1, <1>6, <1>7 DEF Governing, HistoryFits

LEMMA AnswerStep == LedgerInv /\ AnswerInv /\ [Next]_vars => AnswerInv'
<1> SUFFICES ASSUME LedgerInv, AnswerInv, [Next]_vars PROVE AnswerInv'
  OBVIOUS
<1> DEFINE InLog(r) == \E i \in 1 .. Len(log) : log[i] = r
           StaysInLog(r) == \E i \in 1 .. Len(log') : log'[i] = r
<1>1. /\ log \in Seq(Receipt) /\ record.receipts = log /\ HistoryFits(record)
  BY DEF LedgerInv, TypeOK, HistoriesFit
<1>2. ASSUME NEW r, InLog(r) PROVE StaysInLog(r)
  <2>1. CASE log' = log
    BY <1>2, <2>1
  <2>2. ASSUME NEW s \in Receipt, log' = Append(log, s) PROVE StaysInLog(r)
    BY <1>1, <1>2, <2>2
  <2> QED
    BY <2>1, <2>2, LogGrows
<1>3. record.state \in Outcomes => InLog(record.receipts[Len(record.receipts)])
  <2> SUFFICES ASSUME record.state \in Outcomes PROVE InLog(log[Len(log)])
    BY <1>1
  <2>1. log # <<>>
    BY <1>1, RecordShape DEF SettledRecord
  <2>2. Len(log) \in 1 .. Len(log)
    BY <1>1, <2>1
  <2> QED
    BY <2>2
<1>4. SeenCommitted'
  <2> SUFFICES ASSUME NEW d \in Calls, call'[d].seen.state \in Outcomes
               PROVE  /\ StaysInLog(call'[d].seen.receipts[Len(call'[d].seen.receipts)])
                      /\ call'[d].seen.state \in Finals => call'[d].seen = record'
    BY DEF SeenCommitted
  <2>1. call'[d].seen \in {call[d].seen, record}
    BY SeenAfter DEF Outcomes, Finals, Absent
  <2> DEFINE seen == call'[d].seen
  <2>2. InLog(seen.receipts[Len(seen.receipts)])
    BY <1>3, <2>1 DEF AnswerInv, SeenCommitted
  <2>3. seen.state \in Finals => seen = record
    BY <2>1 DEF AnswerInv, SeenCommitted, Outcomes
  <2>4. seen.state \in Finals => seen = record'
    BY <2>3, LogGrows
  <2>5. StaysInLog(seen.receipts[Len(seen.receipts)])
    BY <1>2, <2>2
  <2> QED
    BY <2>4, <2>5
<1>5. ASSUME NEW r, InLog(r), r.outcome \in Finals => r = log[Len(log)] /\ record.state = r.outcome
      PROVE  /\ StaysInLog(r)
             /\ r.outcome \in Finals => r = log'[Len(log')] /\ record'.state = r.outcome
  BY <1>2, <1>5, LogGrows
<1>6. ASSUME NEW c \in Calls, Disclosed(c), NEW r, r = Governing(call[c].seen.receipts)
      PROVE  InLog(r) /\ (r.outcome \in Finals => r = log[Len(log)] /\ record.state = r.outcome)
  <2> DEFINE seen == call[c].seen
  <2>1. seen.state \in Outcomes /\ r = seen.receipts[Len(seen.receipts)] /\ r.outcome = seen.state
    BY <1>6, DisclosedGoverns
  <2>2. InLog(r) /\ (seen.state \in Finals => seen = record)
    BY <2>1 DEF AnswerInv, SeenCommitted
  <2> QED
    BY <1>1, <2>1, <2>2
<1>7. AnswersAgree'
  <2>1. \A r \in answers : InLog(r) /\ (r.outcome \in Finals => r = log[Len(log)] /\ record.state = r.outcome)
    BY DEF AnswerInv, AnswersAgree
  <2>2. \A r \in answers' : InLog(r) /\ (r.outcome \in Finals => r = log[Len(log)] /\ record.state = r.outcome)
    BY <1>6, <2>1, AnswersAfter DEF Disclosed
  <2> QED
    BY <1>5, <2>2 DEF AnswersAgree
<1> QED
  BY <1>4, <1>7 DEF AnswerInv

\* Every answer ever given names a committed outcome, and a final one agrees with
\* the record for ever: no two retries of an operation hear different ends.
THEOREM AnswersAlwaysAgree == Spec => []AnswersAgree
<1>1. Init => AnswerInv
  BY DEF Init, AnswerInv, AnswersAgree, SeenCommitted, Returned, Absent, Outcomes, Finals
<1>2. AnswerInv => AnswersAgree
  BY DEF AnswerInv
<1> QED
  BY <1>1, <1>2, AnswerStep, InvariantHolds, PTL DEF Spec

-----------------------------------------------------------------------------
(* Refinement *)

LEMMA InitMaps == Init => Once!AInit
BY DEF Init, Absent, Once!AInit

\* Every step of the ledger is a claim, a release or a settlement of the abstract
\* operation, or changes neither its holder nor its outcomes.
LEMMA WritesMap ==
  ASSUME LedgerInv, NEW c \in Calls, Writes(c)
  PROVE  [Once!ANext]_(Once!avars)
<1> USE DEF Once!avars
<1>1. CASE Unwritten
  BY <1>1 DEF Unwritten
<1>2. CASE Marked
  <2>1. record'.claim = record.claim /\ record'.receipts = record.receipts
    BY <1>2 DEF Marked, MarkedUncertain, ClaimedRecord
  <2> QED
    BY <2>1
<1>3. CASE Claimed
  <2>1. PICK a \in Attempts : record' = NewClaim(a, record, Fingerprint[a])
    BY <1>3 DEF Claimed
  <2>2. record'.claim = a /\ record'.receipts = record.receipts
    BY <2>1 DEF NewClaim
  <2>3. record \notin ClaimedRecord
    BY <1>3 DEF Claimed, ClaimedRecord, Absent
  <2>4. record.claim = None
    BY <2>3, RecordShape
  <2>5. ~Once!Closed
    <3>1. CASE record = Absent
      BY <3>1 DEF Absent, Once!Closed
    <3>2. CASE record.state = "accepted"
      <4>1. HistoryFits(record) /\ record \in SettledRecord
        BY <3>2, RecordShape DEF LedgerInv, HistoriesFit, Outcomes
      <4>2. record.receipts[Len(record.receipts)].outcome = "accepted"
        BY <3>2, <4>1 DEF HistoryFits, Outcomes
      <4>3. \A i \in 1 .. Len(record.receipts) : record.receipts[i].outcome \notin Finals
        BY <4>1, <4>2 DEF HistoryFits, Finals
      <4> QED
        BY <4>3 DEF Once!Closed, Once!FinalStates, Finals
    <3> QED
      BY <1>3, <3>1, <3>2 DEF Claimed
  <2>6. Once!Claim(a)
    BY <2>2, <2>4, <2>5 DEF Once!Claim
  <2> QED
    BY <2>6 DEF Once!ANext
<1>4. CASE ReleasedBy(c)
  <2>1. record'.claim = None /\ record'.receipts = record.receipts
    BY <1>4 DEF ReleasedBy, Released, Absent
  <2>2. record.claim # None
    BY <1>4, NoneAssumption DEF ReleasedBy, ClaimedRecord
  <2>3. Once!Release
    BY <2>1, <2>2 DEF Once!Release
  <2> QED
    BY <2>3 DEF Once!ANext
<1>5. CASE SettledBy(c)
  <2>1. PICK o \in Outcomes :
           record' = [state |-> o, fingerprint |-> record.fingerprint,
                      revision |-> record.revision + 1, claim |-> None, mark |-> "none",
                      receipts |-> Append(record.receipts, [attempt |-> record.claim, outcome |-> o])]
    BY <1>5 DEF SettledBy
  <2>2. /\ record'.claim = None
        /\ record'.receipts = Append(record.receipts, [attempt |-> record.claim, outcome |-> o])
    BY <2>1
  <2>3. record.claim # None
    BY <1>5, NoneAssumption DEF SettledBy, ClaimedRecord
  <2>4. Once!Settle(o)
    BY <2>2, <2>3 DEF Once!Settle
  <2>5. o \in {"accepted"} \cup Once!FinalStates
    BY DEF Outcomes, Finals, Once!FinalStates
  <2> QED
    BY <2>4, <2>5 DEF Once!ANext
<1> QED
  BY <1>1, <1>2, <1>3, <1>4, <1>5 DEF Writes

\* The ledger, with its reads and conditional writes spread over awaits, implements
\* an operation that one attempt at a time holds and that ends at most once.
THEOREM LedgerImplementsOnce == Spec => ImplementsOnce
<1>1. LedgerInv /\ [Next]_vars => [Once!ANext]_(Once!avars)
  <2>1. Unwritten => UNCHANGED Once!avars
    BY DEF Unwritten, Once!avars
  <2> QED
    BY <2>1, NextWrites, WritesMap
<1> QED
  BY <1>1, InitMaps, InvariantHolds, PTL DEF Spec, ImplementsOnce, Once!ASpec

-----------------------------------------------------------------------------
(* Admissions *)

\* A call that answers does so to its own attempt, and only so is an attempt answered.
LEMMA AnswersOwn ==
  ASSUME LedgerInv, NEW c \in Calls, NEW kind \in Replies, NEW b, Answer(c, b, kind),
         NEW a \in Attempts, reply'[a] # reply[a]
  PROVE  a = b /\ reply'[a] = kind
BY DEF LedgerInv, TypeOK, Answer

\* What an existing record is answered with is judged.
LEMMA ExistingIsJudged ==
  ASSUME LedgerInv, NEW c \in Calls, AnswerExisting(c), NEW a \in Attempts,
         reply'[a] # reply[a], reply'[a] \in {"claimed", "existing"}
  PROVE  adm[a] = "allow"
<1> DEFINE b == call[c].attempt
           kind == Existing(b, call[c].seen)
<1>1. reply' = [reply EXCEPT ![b] = kind]
  BY DEF AnswerExisting, Answer
<1>2. a = b /\ reply'[a] = kind
  BY <1>1 DEF LedgerInv, TypeOK
<1>3. adm[b] # "allow" => kind = adm[b]
  BY DEF Existing
<1>4. adm[a] \in Verdicts
  BY DEF LedgerInv, TypeOK
<1>5. QED
  BY <1>2, <1>3, <1>4 DEF Verdicts

\* Work is started, and a stored outcome disclosed, only on an admission that holds when
\* the answer leaves, after the last storage wait.
THEOREM AnswersAreAlwaysAdmitted == Spec => AnswersAreAdmitted
<1> DEFINE Out == {"claimed", "existing"}
<1>1. ASSUME LedgerInv, Next, NEW a \in Attempts, reply[a] = "pending", reply'[a] \in Out
      PROVE  adm[a] = "allow"
  <2>1. TypeOK /\ reply'[a] # reply[a] /\ reply' # reply
    BY <1>1 DEF LedgerInv
  <2>2. ASSUME NEW c \in Calls, Work(c) PROVE FALSE
    <3>1. PICK b \in Attempts : reply' = [reply EXCEPT ![b] = "pending"]
      BY <2>1, <2>2 DEF Work, BeginCall, ResumeCall, AdmittedCall, SettleCall, FailCall, ClaimCall
    <3>2. QED
      BY <1>1, <2>1, <3>1 DEF TypeOK
  <2>3. ASSUME NEW b \in Attempts, RefuseCall(b) PROVE FALSE
    <3>1. reply[b] = "none" /\ reply' = [reply EXCEPT ![b] = adm[b]]
      BY <2>3 DEF RefuseCall
    <3>2. QED
      BY <1>1, <2>1, <3>1 DEF TypeOK
  <2>4. ASSUME NEW c \in Calls, Crash(c) PROVE FALSE
    BY <1>1, <2>1, <2>4 DEF Crash
  <2>5. ASSUME NEW c \in Calls, BeginAnswer(c) \/ ResumeRead(c) PROVE adm[a] = "allow"
    <3>1. AnswerExisting(c)
      BY <2>1, <2>5 DEF BeginAnswer, ResumeRead
    <3>2. QED
      BY <1>1, <2>1, <3>1, ExistingIsJudged
  <2>6. ASSUME NEW c \in Calls, Grant(c) PROVE adm[a] = "allow"
    <3>1. Answer(c, call[c].attempt, "claimed") /\ adm[call[c].attempt] = "allow"
      BY <2>6 DEF Grant
    <3>2. QED
      BY <1>1, <2>1, <3>1, AnswersOwn DEF Replies
  <2>7. ASSUME NEW c \in Calls, ResumeGet(c) \/ ResumeReclaim(c) PROVE FALSE
    <3>1. PICK kind \in {"no_operation", "in_progress"} : Answer(c, call[c].attempt, kind)
      BY <2>1, <2>7 DEF ResumeGet, ResumeReclaim
    <3>2. kind \in Replies
      BY DEF Replies
    <3>3. QED
      BY <1>1, <2>1, <3>1, <3>2, AnswersOwn
  <2>8. ASSUME NEW c \in Calls, Undo(c) PROVE FALSE
    <3>1. call[c].arg \in {"refused", "expired"}
      BY <1>1, <2>8 DEF LedgerInv, ReadsFit, Undo, Waiting
    <3>2. Answer(c, call[c].attempt, call[c].arg) /\ call[c].arg \in Replies
      BY <2>8, <3>1 DEF Undo, Replies
    <3>3. QED
      BY <1>1, <2>1, <3>1, <3>2, AnswersOwn
  <2>9. ASSUME NEW c \in Calls, Step(c) PROVE adm[a] = "allow"
    <3>1. ~(BeginGet(c) \/ BeginCreate(c) \/ GrantLapsed(c) \/ SettleGet(c) \/ SettleReplace(c) \/ SettleCommit(c)
            \/ SettleRollback(c))
      BY <2>1 DEF BeginGet, BeginCreate, GrantLapsed, SettleGet, SettleReplace, SettleCommit, SettleRollback
    <3>2. ~(FailGet(c) \/ FailMark(c) \/ FailRelease(c) \/ MarkGet(c) \/ MarkReplace(c) \/ ReconcileGet(c)
            \/ ReconcileRelease(c))
      BY <2>1 DEF FailGet, FailMark, FailRelease, MarkGet, MarkReplace, WriteMark, ReconcileGet, ReconcileRelease
    <3>3. QED
      BY <2>5, <2>6, <2>7, <2>8, <2>9, <3>1, <3>2 DEF Step
  <2>10. ~(\E c \in Calls : Recover(c)) /\ ~(\E b \in Lapsing : Lapse(b))
    BY <2>1 DEF Recover, MarkCall, ReconcileCall, Lapse
  <2>11. Workers \subseteq Calls /\ Supervisors \subseteq Calls
    BY DEF Calls
  <2>12. QED
    BY <1>1, <2>2, <2>3, <2>4, <2>9, <2>10, <2>11 DEF Next
<1>2. LedgerInv /\ [Next]_vars =>
        [\A a \in Attempts : reply[a] = "pending" /\ reply'[a] \in Out => adm[a] = "allow"]_vars
  BY <1>1
<1> QED
  BY <1>2, InvariantHolds, PTL DEF Spec, AnswersAreAdmitted

=============================================================================
