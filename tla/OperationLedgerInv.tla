------------------------- MODULE OperationLedgerInv -------------------------
(***************************************************************************)
(* The inductive invariant of OperationLedger.  Its heart is that a record *)
(* read earlier, or a claim object issued earlier, is either of a claim    *)
(* generation that is over for good, or agrees with the stored record on   *)
(* everything but what the revision says has changed since.                *)
(***************************************************************************)
EXTENDS OperationLedger

\* Calls of begin and resume, before and after their conditional write.
Unclaimed == {"begin_get", "begin_create", "answer", "resume_get", "resume_got", "resume_reclaim"}
Claiming  == {"granting", "undo"}

\* Calls made with an issued claim.
SettlePCs == {"settle_get", "settle_replace", "settle_commit"}
FailPCs   == {"fail_get", "fail_mark", "fail_release"}

\* No claim of attempt a was ever written.
NeverClaimed(a) ==
    /\ claims[a] = Absent
    /\ record.claim # a
    /\ \A c \in Calls : call[c].seen.claim # a

\* Claim ids are new: an attempt that has not been used, or is still reading, has
\* left no trace, and only one call is its begin or resume.
FreshClaims ==
    /\ \A a \in Attempts : reply[a] = "none" =>
          NeverClaimed(a) /\ \A c \in Calls : call[c].attempt # a
    /\ \A c \in Calls, a \in Attempts :
          call[c].pc \in Unclaimed /\ call[c].attempt = a => NeverClaimed(a)
    /\ \A c \in Calls : call[c].pc \in Unclaimed \cup Claiming =>
          /\ call[c].attempt \in Attempts
          /\ claims[call[c].attempt] = Absent
          /\ \A d \in Calls \ {c} : call[d].attempt # call[c].attempt

\* What a call has read, and is about to write with, fits where it is.
ReadsFit ==
    \A c \in Calls :
        LET pc == call[c].pc
            seen == call[c].seen
        IN  /\ pc \in {"answer", "resume_got"} => seen # Absent
            /\ pc = "resume_reclaim" =>
                  seen.state = "accepted" /\ seen.fingerprint = Fingerprint[call[c].attempt]
            /\ pc \in Claiming => seen.state = "claimed" /\ seen.claim = call[c].attempt
            /\ pc = "undo" => call[c].arg \in {"refused", "expired"}
            /\ pc \in SettlePCs \cup FailPCs =>
                  call[c].attempt \in Attempts /\ claims[call[c].attempt] # Absent
            /\ pc \in SettlePCs => call[c].arg \in Outcomes
            /\ pc \in FailPCs => call[c].arg \in {"rolled-back", "uncertain"}
            /\ pc \in {"settle_replace", "settle_commit", "fail_mark", "fail_release"} =>
                  seen.state = "claimed" /\ seen.claim = call[c].attempt
            /\ pc \in {"mark_replace", "reconcile_release"} => seen.state = "claimed"
            /\ pc = "reconcile_release" => call[c].arg = "assured" /\ seen.mark = "uncertain"

\* The records of one claim differ only in the mark, which the revision tells.
SameClaim(s, r) ==
    /\ s.fingerprint = r.fingerprint
    /\ s.receipts = r.receipts
    /\ s.revision <= r.revision
    /\ s.revision = r.revision => s = r

\* A record with receipts stays, and every write of it raises its revision.
Precedes(s, r) ==
    /\ r.receipts # <<>>
    /\ s.revision <= r.revision
    /\ s.revision = r.revision => s = r

ReadsPrecede ==
    \A c \in Calls :
        LET seen == call[c].seen
        IN  /\ seen.state = "claimed" /\ seen.claim = record.claim => SameClaim(seen, record)
            /\ seen.state \in Outcomes => Precedes(seen, record)

\* An issued claim carries the receipts and the content of the stored one.
ClaimsAreCurrent ==
    \A a \in Attempts : claims[a] # Absent =>
        /\ claims[a].claim = a
        /\ record.claim = a => claims[a].receipts = record.receipts
                               /\ claims[a].fingerprint = record.fingerprint

\* Only the last receipt of a settled record is final, if its state is; a claim
\* continues accepted receipts only.
HistoryFits(r) ==
    /\ \A i \in 1 .. Len(r.receipts) : r.receipts[i].outcome \in Finals => i = Len(r.receipts)
    /\ r.state \in Outcomes => r.receipts[Len(r.receipts)].outcome = r.state
    /\ r.state = "claimed" => \A i \in 1 .. Len(r.receipts) : r.receipts[i].outcome = "accepted"

HistoriesFit ==
    /\ HistoryFits(record)
    /\ record.receipts = log
    /\ \A c \in Calls : HistoryFits(call[c].seen)

\* Every outcome and the claim itself are of the record's content.
ContentFits ==
    /\ OneContent
    /\ record.state = "claimed" => record.fingerprint = Fingerprint[record.claim]

\* The inductive invariant of the ledger: everything a call holds is either of a
\* claim generation that is over, or agrees with the stored record.
LedgerInv ==
    /\ TypeOK
    /\ FreshClaims
    /\ ReadsFit
    /\ ReadsPrecede
    /\ ClaimsAreCurrent
    /\ HistoriesFit
    /\ ContentFits

\* A settled record that a call has read ends with a committed outcome, and is
\* still the stored record if that outcome was final.
SeenCommitted ==
    \A c \in Calls :
        LET seen == call[c].seen
        IN  seen.state \in Outcomes =>
                /\ \E i \in 1 .. Len(log) : log[i] = seen.receipts[Len(seen.receipts)]
                /\ seen.state \in Finals => seen = record

\* The invariant of the answers, inductive relative to LedgerInv: what was answered
\* is committed for ever, because what is about to be answered already is.
AnswerInv == AnswersAgree /\ SeenCommitted

=============================================================================
