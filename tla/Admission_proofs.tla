--------------------------- MODULE Admission_proofs ---------------------------
(***************************************************************************)
(* Proofs about admission.  First what a judgement is: the rules in their  *)
(* order come to the same as the conditions in no order (JudgeAllows),     *)
(* what they refuse has a cause (JudgeBlames), and time only ever takes    *)
(* away (AllowedBefore).  Then the inductive invariant: evidence written   *)
(* by checkStatus is sound when it is written and stays so (FineKept).     *)
(* Then the properties: every grant is a judgement of that instant.        *)
(***************************************************************************)
EXTENDS Admission, WellFoundedInduction, TLAPS

\* A set of naturals has the least element that Evaluate chooses.
LEMMA LeastExists ==
  ASSUME NEW B, B \subseteq Nat, B # {}
  PROVE  (CHOOSE n \in B : \A m \in B : n <= m) \in B
<1>1. PICK n \in B : \A m \in B : <<m, n>> \notin OpToRel(<, Nat)
  BY NatLessThanWellFounded, WFMin
<1>2. ASSUME NEW m \in B PROVE n <= m
  <2>1. m \in Nat /\ n \in Nat
    OBVIOUS
  <2>2. OpToRel(<, Nat) = {ss \in Nat \X Nat : ss[1] < ss[2]}
    BY Zenon DEF OpToRel
  <2>3. <<m, n>> \notin {ss \in Nat \X Nat : ss[1] < ss[2]}
    BY <1>1, <2>2
  <2>4. ~(m < n)
    BY <2>1, <2>3
  <2>5. QED
    BY <2>1, <2>4
<1>3. QED
  BY <1>2

\* The reasons that are not about the standing.
Others ==
    {"audience_mismatch", "level_insufficient", "scope_missing", "scope_denied", "delegation_unsupported",
     "approval_required", "approval_invalid"}

Standings == {"not_valid_now", "unknown", "revoked", "superseded", "good"}

\* standing gives one of its five states.
LEMMA StandingRange ==
  ASSUME NEW k, NEW st \in Status, NEW t
  PROVE  Standing(k, st, t) \in Standings
<1>1. st.state \in {"active", "unavailable"} \cup Whys
  BY DEF Status
<1>2. CASE ~ValidAt(k, t)
  BY <1>2 DEF Standing, Standings
<1>3. CASE ValidAt(k, t) /\ ~Established(k, st, t)
  BY <1>3 DEF Standing, Standings
<1>4. CASE ValidAt(k, t) /\ Established(k, st, t)
  <2>1. st.state # "unavailable"
    BY <1>4 DEF Established
  <2>2. QED
    BY <1>1, <1>4, <2>1 DEF Standing, Standings, Whys
<1>5. QED
  BY <1>2, <1>3, <1>4

\* A credential stands when it is in its validity and its evidence, about it and fresh, says active.
LEMMA StandingGood ==
  ASSUME NEW k, NEW st \in Status, NEW t
  PROVE  Standing(k, st, t) = "good" <=> ValidAt(k, t) /\ Established(k, st, t) /\ st.state = "active"
<1>1. st.state \in {"active", "unavailable"} \cup Whys
  BY DEF Status
<1>2. CASE ~ValidAt(k, t)
  BY <1>2 DEF Standing
<1>3. CASE ValidAt(k, t) /\ ~Established(k, st, t)
  BY <1>3 DEF Standing
<1>4. CASE ValidAt(k, t) /\ Established(k, st, t)
  BY <1>1, <1>4 DEF Standing, Whys
<1>5. QED
  BY <1>2, <1>3, <1>4

\* A rule that does not hold gives its own reason, or the one of the standing.
LEMMA RuleReason ==
  ASSUME NEW i, NEW st \in Status, NEW t, NEW n \in DOMAIN RulesOf(i, st, t), ~RulesOf(i, st, t)[n].holds
  PROVE  \/ RulesOf(i, st, t)[n].reason \in Others
         \/ /\ Standing(i.credential, st, t) # "good"
            /\ RulesOf(i, st, t)[n].reason = StandingReason[Standing(i.credential, st, t)]
<1> DEFINE R == RulesOf(i, st, t)
<1>1. R[1].reason \in Others /\ R[1] = AudienceRule(i) /\ R[2] = StandingRule(i, st, t)
  BY DEF RulesOf, Rules, LookupRules, AudienceRule, Others
<1>2. CASE n = 1
  BY <1>1, <1>2
<1>3. CASE n = 2
  <2>1. ~StandingRule(i, st, t).holds
    BY <1>1, <1>3
  <2>2. Standing(i.credential, st, t) # "good"
    BY <2>1 DEF StandingRule
  <2>3. QED
    BY <1>1, <1>3, <2>2 DEF StandingRule
<1>4. CASE n # 1 /\ n # 2
  <2>1. ~i.retrieval /\ R = Rules(i, st, t)
    BY <1>4 DEF RulesOf, LookupRules
  <2>2. n \in {3, 4, 5, 6, 7, 8}
    BY <1>4, <2>1 DEF Rules
  <2>3. R[3].reason \in Others /\ R[4].reason \in Others /\ R[5].reason \in Others
    BY <2>1 DEF Rules, Others
  <2>4. R[6].reason \in Others /\ R[7].reason \in Others /\ R[8].reason \in Others
    BY <2>1 DEF Rules, Others
  <2>5. QED
    BY <2>2, <2>3, <2>4
<1>5. QED
  BY <1>2, <1>3, <1>4

\* evaluate gives the reason of a rule that does not hold.
LEMMA EvaluateRefuses ==
  ASSUME NEW i, NEW st, NEW t, Broken(RulesOf(i, st, t)) # {}
  PROVE  \E n \in Broken(RulesOf(i, st, t)) : Evaluate(RulesOf(i, st, t)) = RulesOf(i, st, t)[n].reason
<1> DEFINE R == RulesOf(i, st, t)
           B == Broken(R)
<1>1. DOMAIN R \subseteq Nat
  BY DEF RulesOf, Rules, LookupRules
<1>2. B \subseteq Nat
  BY <1>1 DEF Broken
<1>3. (CHOOSE n \in B : \A m \in B : n <= m) \in B
  BY <1>2, LeastExists
<1>4. QED
  BY <1>3 DEF Evaluate

\* Either every rule holds or the judgement is one of the refusals.
LEMMA EvaluateCases ==
  ASSUME NEW i, NEW st \in Status, NEW t
  PROVE  \/ Broken(RulesOf(i, st, t)) = {} /\ Evaluate(RulesOf(i, st, t)) = "allow"
         \/ Broken(RulesOf(i, st, t)) # {} /\ Evaluate(RulesOf(i, st, t)) \in Others
         \/ /\ Broken(RulesOf(i, st, t)) # {}
            /\ Standing(i.credential, st, t) # "good"
            /\ Evaluate(RulesOf(i, st, t)) = StandingReason[Standing(i.credential, st, t)]
<1> DEFINE R == RulesOf(i, st, t)
<1>1. CASE Broken(R) = {}
  BY <1>1 DEF Evaluate
<1>2. CASE Broken(R) # {}
  <2>1. PICK n \in Broken(R) : Evaluate(R) = R[n].reason
    BY <1>2, EvaluateRefuses
  <2>2. n \in DOMAIN R /\ ~R[n].holds
    BY DEF Broken
  <2>3. \/ R[n].reason \in Others
        \/ /\ Standing(i.credential, st, t) # "good"
           /\ R[n].reason = StandingReason[Standing(i.credential, st, t)]
    BY <2>2, RuleReason
  <2>4. QED
    BY <1>2, <2>1, <2>3
<1>3. QED
  BY <1>1, <1>2

\* The types of what callers pass and of what credentials state.
LEMMA InputFacts ==
  ASSUME NEW i \in Inputs
  PROVE  /\ i.credential \in Credentials /\ i.retrieval \in BOOLEAN /\ i.audience \in BOOLEAN
         /\ i.expiresAt \in Int /\ i.minLevel \in Nat
         /\ i.approval # None => i.approval.expiresAt \in Int /\ i.approval.matches \in BOOLEAN
         /\ i.policy # None => \A r \in i.policy : r.effect \in {"allow", "deny"}
         /\ Level[i.credential] \in Nat /\ Delegated[i.credential] \in BOOLEAN
         /\ ValidFrom[i.credential] \in Int /\ ValidUntil[i.credential] \in Int
BY InputsAssumption, TimesAssumption DEF AdmissionInput, ApprovalEvidence, ScopeRule

\* The standing rules, as a caller would state them.
Stands(k, st, t) ==
    /\ ValidFrom[k] <= t + Skew /\ t < ValidUntil[k]
    /\ st.credential = k /\ st.state = "active" /\ Fresh(st, t)

\* The rules that are about the operation.
OperationAllowed(i, t) ==
    LET k == i.credential
    IN  /\ Level[k] >= i.minLevel /\ i.scope \in Scopes[k] /\ ~Delegated[k]
        /\ i.policy # None => ScopeAllowed(i.policy, i.scope)
        /\ i.scope \in HitlRequired[k] =>
              i.approval # None /\ i.approval.matches /\ i.approval.expiresAt > t

\* The standing rule in the caller's terms.
LEMMA GoodStands ==
  ASSUME NEW i \in Inputs, NEW st \in Status, NEW t \in Int
  PROVE  Standing(i.credential, st, t) = "good" <=> Stands(i.credential, st, t)
<1>1. ValidAt(i.credential, t) <=> ValidFrom[i.credential] <= t + Skew /\ t < ValidUntil[i.credential]
  BY InputFacts DEF ValidAt
<1>2. Established(i.credential, st, t) <=> st.credential = i.credential /\ st.state # "unavailable" /\ Fresh(st, t)
  BY DEF Established
<1>3. QED
  BY <1>1, <1>2, StandingGood DEF Stands

\* What the rules of a retrieval come to.
LEMMA LookupRulesHold ==
  ASSUME NEW i \in Inputs, NEW st \in Status, NEW t \in Int
  PROVE  Broken(LookupRules(i, st, t)) = {} <=> i.audience /\ Stands(i.credential, st, t)
<1> DEFINE R == LookupRules(i, st, t)
<1>1. DOMAIN R = {1, 2} /\ R[1] = AudienceRule(i) /\ R[2] = StandingRule(i, st, t)
  BY DEF LookupRules
<1>2. AudienceRule(i).holds <=> i.audience
  BY InputFacts DEF AudienceRule
<1>3. StandingRule(i, st, t).holds <=> Standing(i.credential, st, t) = "good"
  BY DEF StandingRule
<1>4. Broken(R) = {} <=> R[1].holds /\ R[2].holds
  BY <1>1 DEF Broken
<1>5. QED
  BY <1>1, <1>2, <1>3, <1>4, GoodStands

\* What the eight rules of evaluate come to.
LEMMA RulesHold ==
  ASSUME NEW i \in Inputs, NEW st \in Status, NEW t \in Int
  PROVE  Broken(Rules(i, st, t)) = {} <=>
           i.audience /\ Stands(i.credential, st, t) /\ OperationAllowed(i, t)
<1> DEFINE R == Rules(i, st, t)
           k == i.credential
<1>1. DOMAIN R = 1 .. 8 /\ R[1] = AudienceRule(i) /\ R[2] = StandingRule(i, st, t)
  BY DEF Rules
<1>2. AudienceRule(i).holds <=> i.audience
  BY InputFacts DEF AudienceRule
<1>3. StandingRule(i, st, t).holds <=> Standing(k, st, t) = "good"
  BY DEF StandingRule
<1>4. /\ R[3].holds <=> Level[k] >= i.minLevel
      /\ R[4].holds <=> i.scope \in Scopes[k]
      /\ R[5].holds <=> (i.policy = None \/ ScopeAllowed(i.policy, i.scope))
  BY DEF Rules
<1>5. /\ R[6].holds <=> ~Delegated[k]
      /\ R[7].holds <=> (Needs(i) => i.approval # None)
      /\ R[8].holds <=> (Needs(i) /\ i.approval # None => Approved(i.approval, t))
  BY DEF Rules
<1>6. Broken(R) = {} <=> \A n \in 1 .. 8 : R[n].holds
  BY <1>1 DEF Broken
<1>7. (\A n \in 1 .. 8 : R[n].holds) <=>
        /\ R[1].holds /\ R[2].holds /\ R[3].holds /\ R[4].holds
        /\ R[5].holds /\ R[6].holds /\ R[7].holds /\ R[8].holds
  <2>1. \A n : n \in 1 .. 8 <=> n \in {1, 2, 3, 4, 5, 6, 7, 8}
    OBVIOUS
  <2>2. QED
    BY <2>1
<1>8. Needs(i) <=> i.scope \in HitlRequired[k]
  BY DEF Needs
<1>9. i.approval # None => (Approved(i.approval, t) <=> i.approval.matches /\ i.approval.expiresAt > t)
  BY InputFacts DEF Approved
<1>10. QED
  BY <1>1, <1>2, <1>3, <1>4, <1>5, <1>6, <1>7, <1>8, <1>9, GoodStands DEF OperationAllowed

\* A scope policy in which no matching rule denies and one allows.
LEMMA ScopeDecision ==
  ASSUME NEW rules, NEW scope, \A r \in rules : r.effect \in {"allow", "deny"}
  PROVE  ScopeAllowed(rules, scope) <=>
           /\ \E r \in rules : r.effect = "allow" /\ Matches(r, scope)
           /\ \A r \in rules : Matches(r, scope) => r.effect = "allow"
BY DEF ScopeAllowed

\* The judgement allows what every rule allows and nothing else.
LEMMA JudgeAllows ==
  ASSUME NEW i \in Inputs, NEW st \in Status, NEW t \in Int
  PROVE  Judge(i, st, t) = "allow" <=> Allowed(i, st, t)
<1>1. Evaluate(RulesOf(i, st, t)) = "allow" <=> Broken(RulesOf(i, st, t)) = {}
  <2>1. Standing(i.credential, st, t) # "good" => StandingReason[Standing(i.credential, st, t)] # "allow"
    BY StandingRange DEF Standings, StandingReason
  <2>2. QED
    BY <2>1, EvaluateCases DEF Others
<1>2. Broken(RulesOf(i, st, t)) = {} <=>
        i.audience /\ Stands(i.credential, st, t) /\ (~i.retrieval => OperationAllowed(i, t))
  BY LookupRulesHold, RulesHold, InputFacts DEF RulesOf
<1>3. OperationAllowed(i, t) <=>
        LET k == i.credential
        IN  /\ Level[k] >= i.minLevel /\ i.scope \in Scopes[k] /\ ~Delegated[k]
            /\ i.policy # None =>
                  /\ \E r \in i.policy : r.effect = "allow" /\ Matches(r, i.scope)
                  /\ \A r \in i.policy : Matches(r, i.scope) => r.effect = "allow"
            /\ i.scope \in HitlRequired[k] =>
                  i.approval # None /\ i.approval.matches /\ t < i.approval.expiresAt
  BY ScopeDecision, InputFacts DEF OperationAllowed
<1>4. t > i.expiresAt <=> ~(t <= i.expiresAt)
  BY InputFacts
<1>5. Judge(i, st, t) = "allow" <=> t <= i.expiresAt /\ Evaluate(RulesOf(i, st, t)) = "allow"
  BY <1>4 DEF Judge
<1>6. QED
  BY <1>1, <1>2, <1>3, <1>5 DEF Allowed, Stands

\* Reasons other than "allow" and the deadline come from the rule that names them.
LEMMA JudgeCases ==
  ASSUME NEW i \in Inputs, NEW st \in Status, NEW t \in Int
  PROVE  \/ Judge(i, st, t) \in Others \cup {"allow"}
         \/ Judge(i, st, t) = "expired" /\ t > i.expiresAt
         \/ /\ Standing(i.credential, st, t) # "good"
            /\ Judge(i, st, t) = StandingReason[Standing(i.credential, st, t)]
BY EvaluateCases DEF Judge

\* A judgement is one of the reasons.
LEMMA JudgeRange ==
  ASSUME NEW i \in Inputs, NEW st \in Status, NEW t \in Int
  PROVE  Judge(i, st, t) \in Reasons
<1>1. StandingReason[Standing(i.credential, st, t)] \in Reasons
  BY StandingRange DEF Standings, StandingReason, Reasons
<1>2. QED
  BY <1>1, JudgeCases DEF Others, Reasons

\* The deadline is the whole of the judgement once it has passed.
LEMMA JudgeExpired ==
  ASSUME NEW i \in Inputs, NEW st \in Status, NEW t \in Int
  PROVE  Judge(i, st, t) = "expired" <=> t > i.expiresAt
<1>1. Evaluate(RulesOf(i, st, t)) # "expired"
  <2>1. StandingReason[Standing(i.credential, st, t)] # "expired"
    BY StandingRange DEF Standings, StandingReason
  <2>2. QED
    BY <2>1, EvaluateCases DEF Others
<1>2. QED
  BY <1>1 DEF Judge

\* What a judgement blames on the standing, the standing says.
LEMMA JudgeBlames ==
  ASSUME NEW i \in Inputs, NEW st \in Status, NEW t \in Int
  PROVE  /\ Judge(i, st, t) = "credential_revoked" => st.credential = i.credential /\ st.state = "revoked"
         /\ Judge(i, st, t) = "credential_superseded" => st.credential = i.credential /\ st.state = "superseded"
         /\ Judge(i, st, t) = "credential_expired" => ~ValidAt(i.credential, t)
<1> DEFINE S == Standing(i.credential, st, t)
<1>1. /\ Judge(i, st, t) = "credential_revoked" => S = "revoked"
      /\ Judge(i, st, t) = "credential_superseded" => S = "superseded"
      /\ Judge(i, st, t) = "credential_expired" => S = "not_valid_now"
  BY JudgeCases, StandingRange DEF Others, Standings, StandingReason
<1>2. S \in {"revoked", "superseded"} => st.state = S /\ st.credential = i.credential
  <2>1. CASE ~ValidAt(i.credential, t)
    BY <2>1 DEF Standing
  <2>2. CASE ValidAt(i.credential, t) /\ ~Established(i.credential, st, t)
    BY <2>2 DEF Standing
  <2>3. CASE ValidAt(i.credential, t) /\ Established(i.credential, st, t)
    BY <2>3 DEF Standing, Established
  <2>4. QED
    BY <2>1, <2>2, <2>3
<1>3. S = "not_valid_now" => ~ValidAt(i.credential, t)
  <2>1. CASE ValidAt(i.credential, t) /\ ~Established(i.credential, st, t)
    BY <2>1 DEF Standing
  <2>2. CASE ValidAt(i.credential, t) /\ Established(i.credential, st, t)
    BY <2>2 DEF Standing, Status, Whys
  <2>3. QED
    BY <2>1, <2>2
<1>4. QED
  BY <1>1, <1>2, <1>3

\* What time allows later it allowed before, once the credential's validity has begun.
LEMMA AllowedBefore ==
  ASSUME NEW i \in Inputs, NEW st \in Status, NEW t \in Int, NEW u \in Int, t <= u,
         ValidFrom[i.credential] <= t + Skew, Allowed(i, st, u)
  PROVE  Allowed(i, st, t)
<1>1. st.since \in Int /\ st.until \in Int /\ st.fetchedAt \in Nat
  BY DEF Status
<1>2. Fresh(st, u) => Fresh(st, t)
  BY <1>1, TimesAssumption DEF Fresh
<1>3. t <= i.expiresAt /\ t < ValidUntil[i.credential]
  BY InputFacts DEF Allowed
<1>4. i.approval # None /\ u < i.approval.expiresAt => t < i.approval.expiresAt
  BY InputFacts
<1>5. QED
  BY <1>2, <1>3, <1>4 DEF Allowed

-----------------------------------------------------------------------------
(* The invariant *)

\* Evidence as the invariant has it.
Fine(st) == Dated(st) /\ Sound(st) /\ Truthful(st)

WithdrawnInThePast == \A k \in Credentials : withdrawn[k] # None => withdrawn[k].at <= now

\* The type of a withdrawal.
LEMMA WithdrawalFacts ==
  ASSUME StatusTypeOK, NEW k \in Credentials, withdrawn[k] # None
  PROVE  withdrawn[k].at \in Nat /\ withdrawn[k].why \in Whys
<1>1. withdrawn[k] \in Withdrawal
  BY DEF StatusTypeOK
<1>2. QED
  BY <1>1 DEF Withdrawal

\* The types of evidence.
LEMMA StatusFacts ==
  ASSUME NEW st \in Status
  PROVE  /\ st.credential \in Credentials /\ st.source \in {"status-list", "online"}
         /\ st.state \in {"active", "unavailable"} \cup Whys
         /\ st.since \in Int /\ st.until \in Int /\ st.fetchedAt \in Nat
BY DEF Status

\* A withdrawal does not make evidence of earlier unsound.
LEMMA WithdrawKeepsFine ==
  ASSUME StatusTypeOK, NEW st \in Status, Fine(st), NEW k \in Credentials, NEW why \in Whys, Withdraw(k, why)
  PROVE  Fine(st)'
<1>1. now' = now /\ now \in Nat
  BY TimesAssumption DEF Withdraw, StatusTypeOK
<1>2. withdrawn' = [withdrawn EXCEPT ![k] = [why |-> why, at |-> now]] /\ withdrawn[k] = None
      /\ withdrawn \in [Credentials -> Withdrawal \cup {None}]
  BY DEF Withdraw, StatusTypeOK
<1>3. st.since <= now + Skew /\ st.fetchedAt <= now
  BY DEF Fine, Dated
<1>4. CASE st.credential = k
  <2>1. withdrawn'[st.credential] = [why |-> why, at |-> now]
    BY <1>2, <1>4
  <2>2. st.state \notin Whys
    BY <1>2, <1>4 DEF Fine, Truthful
  <2>3. now + Timeout >= now
    BY <1>1, TimesAssumption
  <2>4. QED
    BY <1>1, <1>3, <2>1, <2>2, <2>3, StatusFacts, TimesAssumption DEF Fine, Dated, Sound, Truthful
<1>5. CASE st.credential # k
  <2>1. withdrawn'[st.credential] = withdrawn[st.credential]
    BY <1>2, <1>5, StatusFacts
  <2>2. QED
    BY <1>1, <2>1 DEF Fine, Dated, Sound, Truthful
<1>6. QED
  BY <1>4, <1>5

\* Nor does time.
LEMMA TickKeepsFine ==
  ASSUME StatusTypeOK, NEW st \in Status, Fine(st), Tick
  PROVE  Fine(st)'
<1>1. now' = now + 1 /\ now \in Nat /\ withdrawn' = withdrawn
  BY TimesAssumption DEF Tick, StatusTypeOK
<1>2. Dated(st)'
  BY <1>1, StatusFacts, TimesAssumption DEF Fine, Dated
<1>3. QED
  BY <1>1, <1>2 DEF Fine, Sound, Truthful

\* Nor does a step of anybody else.
LEMMA OthersKeepFine ==
  ASSUME NEW st \in Status, Fine(st), UNCHANGED <<now, withdrawn>>
  PROVE  Fine(st)'
BY DEF Fine, Dated, Sound, Truthful

\* Whatever the issuer and the clock do, evidence stays as sound as it was.
LEMMA FineKept ==
  ASSUME StatusTypeOK, NEW st \in Status, Fine(st), [Next]_vars
  PROVE  Fine(st)'
<1>1. CASE \E k \in Credentials, why \in Whys : Withdraw(k, why)
  BY <1>1, WithdrawKeepsFine
<1>2. CASE Tick
  BY <1>2, TickKeepsFine
<1>3. CASE UNCHANGED <<now, withdrawn>>
  BY <1>3, OthersKeepFine
<1>4. CASE \E f \in Fetches : CheckStatus(f)
  <2>1. UNCHANGED <<now, withdrawn>>
    BY <1>4 DEF CheckStatus, FromStatusList, FetchFails, AskOnline, AnswerOnline, FromOnline, Obtained
  <2>2. QED
    BY <2>1, OthersKeepFine
<1>5. CASE \E a \in Attempts : (\E i \in Inputs, f \in Fetches : Admit(a, i, f)) \/ Step(a)
  <2>1. UNCHANGED <<now, withdrawn>>
    BY <1>5 DEF Admit, Step, AuthorizerRefuses, AuthorizerAllows, Use, Claim, CallLookup, Release, Judged, statusVars
  <2>2. QED
    BY <2>1, OthersKeepFine
<1>6. QED
  BY <1>1, <1>2, <1>3, <1>4, <1>5 DEF Next, StatusNext, vars

\* What a call of checkStatus returns is of its type and sound.
LEMMA ListIsFine ==
  ASSUME StatusTypeOK, WithdrawnInThePast, NEW f \in Fetches, NEW k \in Credentials,
         NEW signed \in 0 .. now, NEW ahead \in 0 .. Skew, NEW validity \in ListValidities, NEW revoked \in BOOLEAN,
         FromStatusList(f, k, signed, signed + ahead, validity, revoked)
  PROVE  \E st \in Status : Fine(st) /\ status' = [status EXCEPT ![f] = st]
<1> DEFINE from == signed + ahead
           read == [credential |-> k, source |-> "status-list", state |-> IF revoked THEN "revoked" ELSE "active",
                    since |-> from, until |-> from + validity, fetchedAt |-> now]
<1>1. now \in Nat /\ Skew \in Nat /\ Timeout \in Nat /\ signed \in Nat /\ ahead \in Nat /\ validity \in Nat
  BY TimesAssumption DEF StatusTypeOK
<1>2. CASE UsableList(from, from + validity)
  <2>1. status' = [status EXCEPT ![f] = read]
    BY <1>2 DEF FromStatusList, Obtained
  <2>2. read \in Status
    BY <1>1 DEF Status, Whys
  <2>3. Dated(read)
    BY <1>1, <1>2 DEF UsableList, Dated
  <2>4. withdrawn[k] # None => withdrawn[k].at \in Nat
    BY WithdrawalFacts
  <2>5. /\ withdrawn[k] # None /\ withdrawn[k].at < signed => revoked
        /\ withdrawn[k] = None => ~revoked
    BY DEF FromStatusList, Bits
  <2>6. Sound(read)
    BY <1>1, <2>4, <2>5 DEF Sound
  <2>7. Truthful(read)
    BY <2>5 DEF Truthful, Whys
  <2>8. QED
    BY <2>1, <2>2, <2>3, <2>6, <2>7 DEF Fine
<1>3. CASE ~UsableList(from, from + validity)
  <2> DEFINE none == Unavailable(k, "status-list")
  <2>1. status' = [status EXCEPT ![f] = none]
    BY <1>3 DEF FromStatusList, Obtained
  <2>2. none \in Status /\ Fine(none)
    BY <1>1 DEF Unavailable, Status, Fine, Dated, Sound, Truthful, Whys
  <2>3. QED
    BY <2>1, <2>2
<1>4. QED
  BY <1>2, <1>3

\* Unavailable evidence says nothing.
LEMMA FailureIsFine ==
  ASSUME StatusTypeOK, NEW f \in Fetches, NEW k \in Credentials, NEW source \in {"status-list", "online"},
         FetchFails(f, k, source)
  PROVE  \E st \in Status : Fine(st) /\ status' = [status EXCEPT ![f] = st]
<1> DEFINE none == Unavailable(k, source)
<1>1. status' = [status EXCEPT ![f] = none]
  BY DEF FetchFails, Obtained
<1>2. none \in Status /\ Fine(none)
  BY TimesAssumption DEF StatusTypeOK, Unavailable, Status, Fine, Dated, Sound, Truthful, Whys
<1>3. QED
  BY <1>1, <1>2

\* An online answer is as old as its request may be.
LEMMA AnswerIsFine ==
  ASSUME StatusTypeOK, AnswersSound, NEW f \in Fetches, FromOnline(f)
  PROVE  \E st \in Status : Fine(st) /\ status' = [status EXCEPT ![f] = st]
<1> DEFINE q == asked[f]
           k == q.credential
           st == [credential |-> k, source |-> "online", state |-> q.answer, since |-> now, until |-> now, fetchedAt |-> now]
<1>1. q # None /\ q.answer # "none" /\ now - q.at <= Timeout /\ status' = [status EXCEPT ![f] = st]
  BY DEF FromOnline, Obtained
<1>2. q \in Request
  BY <1>1 DEF StatusTypeOK
<1>3. k \in Credentials /\ q.at \in Nat /\ q.answer \in {"active"} \cup Whys
  BY <1>1, <1>2 DEF Request
<1>4. now \in Nat /\ Skew \in Nat /\ Timeout \in Nat
  BY TimesAssumption DEF StatusTypeOK
<1>5. st \in Status
  BY <1>3, <1>4 DEF Status
<1>6. /\ q.answer = "active" /\ withdrawn[k] # None => q.at <= withdrawn[k].at
      /\ q.answer \in Whys => withdrawn[k] # None /\ withdrawn[k].why = q.answer
  BY <1>1 DEF AnswersSound
<1>7. withdrawn[k] # None => withdrawn[k].at \in Nat
  BY <1>3, WithdrawalFacts
<1>8. Dated(st) /\ Sound(st)
  BY <1>1, <1>3, <1>4, <1>6, <1>7 DEF Dated, Sound
<1>9. Truthful(st)
  BY <1>6 DEF Truthful
<1>10. QED
  BY <1>1, <1>5, <1>8, <1>9 DEF Fine

\* Every step is one of the issuer, of a call of checkStatus, of the clock or of an attempt.
StatusMoves ==
    \/ \E k \in Credentials, why \in Whys : Withdraw(k, why)
    \/ \E f \in Fetches : CheckStatus(f)
    \/ Tick

\* The type of an online request.
LEMMA RequestFacts ==
  ASSUME StatusTypeOK, NEW f \in Fetches, asked[f] # None
  PROVE  /\ asked[f] \in Request /\ asked[f].credential \in Credentials /\ asked[f].at \in Nat
         /\ asked[f].answer \in {"none", "active"} \cup Whys
<1>1. asked[f] \in Request
  BY DEF StatusTypeOK
<1>2. QED
  BY <1>1 DEF Request

\* Evidence is written by three steps of checkStatus, and is sound when it is.
LEMMA EvidenceWritten ==
  ASSUME StatusTypeOK, WithdrawnInThePast, AnswersSound, NEW f \in Fetches, CheckStatus(f)
  PROVE  \/ status' = status
         \/ \E st \in Status : Fine(st) /\ status' = [status EXCEPT ![f] = st]
<1>1. ASSUME NEW k \in Credentials, NEW signed \in 0 .. now, NEW ahead \in 0 .. Skew,
             NEW validity \in ListValidities, NEW revoked \in BOOLEAN,
             FromStatusList(f, k, signed, signed + ahead, validity, revoked)
      PROVE  \E st \in Status : Fine(st) /\ status' = [status EXCEPT ![f] = st]
  BY <1>1, ListIsFine
<1>2. ASSUME NEW k \in Credentials, NEW source \in {"status-list", "online"}, FetchFails(f, k, source)
      PROVE  \E st \in Status : Fine(st) /\ status' = [status EXCEPT ![f] = st]
  BY <1>2, FailureIsFine
<1>3. CASE FromOnline(f)
  BY <1>3, AnswerIsFine
<1>4. CASE (\E k \in Credentials : AskOnline(f, k)) \/ AnswerOnline(f)
  BY <1>4 DEF AskOnline, AnswerOnline
<1>5. QED
  BY <1>1, <1>2, <1>3, <1>4 DEF CheckStatus

\* Types of the evidence's side are kept.
LEMMA StatusTypeNext ==
  ASSUME StatusTypeOK, WithdrawnInThePast, AnswersSound, StatusMoves
  PROVE  StatusTypeOK'
<1>0. now \in Nat /\ now <= MaxNow
  BY TimesAssumption DEF StatusTypeOK
<1>1. ASSUME NEW k \in Credentials, NEW why \in Whys, Withdraw(k, why)
      PROVE  StatusTypeOK'
  <2>1. [why |-> why, at |-> now] \in Withdrawal
    BY <1>0 DEF Withdrawal
  <2>2. QED
    BY <1>1, <2>1 DEF StatusTypeOK, Withdraw
<1>2. ASSUME NEW f \in Fetches, CheckStatus(f)
      PROVE  StatusTypeOK'
  <2>1. status' \in [Fetches -> Status \cup {None}]
    BY <1>2, EvidenceWritten DEF StatusTypeOK
  <2>2. asked' \in [Fetches -> Request \cup {None}]
    <3>1. CASE \E k \in Credentials : AskOnline(f, k)
      <4>1. PICK k \in Credentials : AskOnline(f, k)
        BY <3>1
      <4>2. [credential |-> k, at |-> now, answer |-> "none"] \in Request
        BY <1>0 DEF Request
      <4>3. QED
        BY <4>1, <4>2 DEF AskOnline, StatusTypeOK
    <3>2. CASE AnswerOnline(f)
      <4> DEFINE w == withdrawn[asked[f].credential]
      <4>1. asked[f] \in Request /\ asked[f].credential \in Credentials /\ asked[f].answer = "none"
        BY <3>2, RequestFacts DEF AnswerOnline
      <4>2. PICK answer \in {"active"} \cup Whys : asked' = [asked EXCEPT ![f].answer = answer]
        BY <3>2, <4>1, WithdrawalFacts DEF AnswerOnline
      <4>3. [asked[f] EXCEPT !.answer = answer] \in Request
        BY <4>1, <4>2 DEF Request
      <4>4. QED
        BY <4>2, <4>3 DEF StatusTypeOK
    <3>3. CASE asked' = asked \/ asked' = [asked EXCEPT ![f] = None]
      BY <3>3 DEF StatusTypeOK
    <3>4. QED
      BY <1>2, <3>1, <3>2, <3>3 DEF CheckStatus, FromStatusList, FetchFails, FromOnline
  <2>3. now' = now /\ withdrawn' = withdrawn
    BY <1>2 DEF CheckStatus, FromStatusList, FetchFails, AskOnline, AnswerOnline, FromOnline, Obtained
  <2>4. QED
    BY <2>1, <2>2, <2>3 DEF StatusTypeOK
<1>3. ASSUME Tick
      PROVE  StatusTypeOK'
  BY <1>0, <1>3, TimesAssumption DEF StatusTypeOK, Tick
<1>4. QED
  BY <1>1, <1>2, <1>3 DEF StatusMoves

\* So is what answers under way say.
LEMMA AnswersNext ==
  ASSUME StatusTypeOK, WithdrawnInThePast, AnswersSound, StatusMoves
  PROVE  AnswersSound'
<1>0. now \in Nat
  BY TimesAssumption DEF StatusTypeOK
<1>1. ASSUME NEW k \in Credentials, NEW why \in Whys, Withdraw(k, why)
      PROVE  AnswersSound'
  <2>1. /\ now' = now /\ asked' = asked /\ withdrawn[k] = None
        /\ withdrawn' = [withdrawn EXCEPT ![k] = [why |-> why, at |-> now]]
        /\ withdrawn \in [Credentials -> Withdrawal \cup {None}]
    BY <1>1 DEF Withdraw, StatusTypeOK
  <2>2. SUFFICES ASSUME NEW f \in Fetches, asked[f] # None
                 PROVE  LET w == withdrawn'[asked[f].credential]
                        IN  /\ asked[f].at <= now
                            /\ asked[f].answer = "active" /\ w # None => asked[f].at <= w.at
                            /\ asked[f].answer \in Whys => w # None /\ w.why = asked[f].answer
    BY <2>1 DEF AnswersSound
  <2>3. CASE asked[f].credential = k
    <3>1. withdrawn'[asked[f].credential] = [why |-> why, at |-> now]
      BY <2>1, <2>3
    <3>2. QED
      BY <2>1, <2>2, <2>3, <3>1 DEF AnswersSound
  <2>4. CASE asked[f].credential # k
    <3>1. withdrawn'[asked[f].credential] = withdrawn[asked[f].credential]
      BY <2>1, <2>2, <2>4, RequestFacts
    <3>2. QED
      BY <2>2, <3>1 DEF AnswersSound
  <2>5. QED
    BY <2>3, <2>4
<1>2. ASSUME NEW f \in Fetches, CheckStatus(f)
      PROVE  AnswersSound'
  <2>1. now' = now /\ withdrawn' = withdrawn
    BY <1>2 DEF CheckStatus, FromStatusList, FetchFails, AskOnline, AnswerOnline, FromOnline, Obtained
  <2>2. CASE \E k \in Credentials : AskOnline(f, k)
    <3>1. PICK k \in Credentials : asked' = [asked EXCEPT ![f] = [credential |-> k, at |-> now, answer |-> "none"]]
      BY <2>2 DEF AskOnline
    <3>2. SUFFICES ASSUME NEW g \in Fetches, asked'[g] # None
                   PROVE  LET w == withdrawn[asked'[g].credential]
                          IN  /\ asked'[g].at <= now
                              /\ asked'[g].answer = "active" /\ w # None => asked'[g].at <= w.at
                              /\ asked'[g].answer \in Whys => w # None /\ w.why = asked'[g].answer
      BY <2>1 DEF AnswersSound
    <3>3. CASE g = f
      <4>1. asked'[g] = [credential |-> k, at |-> now, answer |-> "none"]
        BY <3>1, <3>3 DEF StatusTypeOK
      <4>2. QED
        BY <1>0, <4>1 DEF Whys
    <3>4. CASE g # f
      <4>1. asked'[g] = asked[g]
        BY <3>1, <3>4 DEF StatusTypeOK
      <4>2. QED
        BY <3>2, <4>1 DEF AnswersSound
    <3>5. QED
      BY <3>3, <3>4
  <2>3. CASE AnswerOnline(f)
    <3> DEFINE w == withdrawn[asked[f].credential]
               answer == IF w = None THEN "active" ELSE w.why
    <3>1. asked[f] # None /\ asked' = [asked EXCEPT ![f].answer = answer]
      BY <2>3 DEF AnswerOnline
    <3>2. SUFFICES ASSUME NEW g \in Fetches, asked'[g] # None
                   PROVE  LET x == withdrawn[asked'[g].credential]
                          IN  /\ asked'[g].at <= now
                              /\ asked'[g].answer = "active" /\ x # None => asked'[g].at <= x.at
                              /\ asked'[g].answer \in Whys => x # None /\ x.why = asked'[g].answer
      BY <2>1 DEF AnswersSound
    <3>3. CASE g = f
      <4>1. asked[f] \in Request /\ asked[f].at <= now
        BY <3>1, RequestFacts DEF AnswersSound
      <4>2. asked'[g] = [asked[f] EXCEPT !.answer = answer]
        BY <3>1, <3>3 DEF StatusTypeOK
      <4>3. asked'[g].credential = asked[f].credential /\ asked'[g].at = asked[f].at /\ asked'[g].answer = answer
        BY <4>1, <4>2 DEF Request
      <4>4. w # None => w.why \in Whys
        BY <3>1, RequestFacts, WithdrawalFacts
      <4>5. QED
        BY <4>1, <4>3, <4>4 DEF Whys
    <3>4. CASE g # f
      <4>1. asked'[g] = asked[g]
        BY <3>1, <3>4 DEF StatusTypeOK
      <4>2. QED
        BY <3>2, <4>1 DEF AnswersSound
    <3>5. QED
      BY <3>3, <3>4
  <2>4. CASE asked' = asked \/ asked' = [asked EXCEPT ![f] = None]
    <3>1. ASSUME NEW g \in Fetches, asked'[g] # None PROVE asked'[g] = asked[g]
      BY <2>4, <3>1 DEF StatusTypeOK
    <3>2. QED
      BY <2>1, <3>1 DEF AnswersSound
  <2>5. QED
    BY <1>2, <2>2, <2>3, <2>4 DEF CheckStatus, FromStatusList, FetchFails, FromOnline
<1>3. ASSUME Tick
      PROVE  AnswersSound'
  <2>1. now' = now + 1 /\ asked' = asked /\ withdrawn' = withdrawn
    BY <1>3 DEF Tick
  <2>2. \A f \in Fetches : asked[f] # None => asked[f].at \in Nat
    BY RequestFacts
  <2>3. QED
    BY <1>0, <2>1, <2>2 DEF AnswersSound
<1>4. QED
  BY <1>1, <1>2, <1>3 DEF StatusMoves

\* So is what evidence says.
LEMMA EvidenceNext ==
  ASSUME StatusTypeOK, AnswersSound, EvidenceSound, StatusMoves, UNCHANGED attempt
  PROVE  EvidenceSound'
<1>0. now \in Nat /\ WithdrawnInThePast /\ [Next]_vars
  BY TimesAssumption DEF StatusTypeOK, EvidenceSound, WithdrawnInThePast, Next, StatusNext, StatusMoves
<1>1. ASSUME NEW f \in Fetches, status[f] # None PROVE status[f] \in Status /\ Fine(status[f])
  BY <1>1 DEF StatusTypeOK, EvidenceSound, Fine
<1>2. ASSUME NEW f \in Fetches, status[f] # None PROVE Fine(status[f])'
               \/ status'[f] # status[f]
  <2>1. PICK st \in Status : st = status[f]
    BY <1>1, <1>2
  <2>2. Fine(st)
    BY <1>1, <1>2, <2>1
  <2>3. Fine(st)'
    BY <1>0, <2>2, FineKept
  <2>4. QED
    BY <2>1, <2>3 DEF Fine, Dated, Sound, Truthful
<1>3. ASSUME NEW f \in Fetches, status'[f] # None PROVE (Dated(status[f]) /\ Sound(status[f]) /\ Truthful(status[f]))'
  <2>1. CASE status'[f] = status[f]
    BY <1>2, <1>3, <2>1 DEF Fine
  <2>2. CASE status'[f] # status[f]
    <3>1. PICK g \in Fetches : CheckStatus(g) /\ status' # status
      BY <2>2 DEF StatusMoves, Withdraw, Tick
    <3>2. PICK st \in Status : Fine(st) /\ status' = [status EXCEPT ![g] = st]
      BY <1>0, <3>1, EvidenceWritten
    <3>3. status'[f] = st
      BY <2>2, <3>2 DEF StatusTypeOK
    <3>4. Fine(st)'
      BY <1>0, <3>2, FineKept
    <3>5. QED
      BY <3>3, <3>4 DEF Fine, Dated, Sound, Truthful
  <2>3. QED
    BY <2>1, <2>2
<1>4. ASSUME NEW k \in Credentials, withdrawn'[k] # None PROVE withdrawn'[k].at <= now'
  <2>1. CASE \E j \in Credentials, why \in Whys : Withdraw(j, why)
    <3>1. PICK j \in Credentials, why \in Whys : Withdraw(j, why)
      BY <2>1
    <3>2. now' = now /\ withdrawn' = [withdrawn EXCEPT ![j] = [why |-> why, at |-> now]]
          /\ withdrawn \in [Credentials -> Withdrawal \cup {None}]
      BY <3>1 DEF Withdraw, StatusTypeOK
    <3>3. CASE k = j
      BY <1>0, <3>2, <3>3
    <3>4. CASE k # j
      BY <1>0, <1>4, <3>2, <3>4 DEF WithdrawnInThePast
    <3>5. QED
      BY <3>3, <3>4
  <2>2. CASE \E f \in Fetches : CheckStatus(f)
    <3>1. now' = now /\ withdrawn' = withdrawn
      BY <2>2 DEF CheckStatus, FromStatusList, FetchFails, AskOnline, AnswerOnline, FromOnline, Obtained
    <3>2. QED
      BY <1>0, <1>4, <3>1 DEF WithdrawnInThePast
  <2>3. CASE Tick
    <3>1. now' = now + 1 /\ withdrawn' = withdrawn
      BY <2>3 DEF Tick
    <3>2. QED
      BY <1>0, <1>4, <3>1, WithdrawalFacts DEF WithdrawnInThePast
  <2>4. QED
    BY <2>1, <2>2, <2>3 DEF StatusMoves
<1>5. QED
  BY <1>3, <1>4 DEF EvidenceSound

\* An attempt that is judged goes where it says, or is refused, or lapses.
Goes(a, next) == At(a, next[1]) /\ Judged(a, next[2])

JudgedSteps ==
    {<<"authorizing", "admitted">>, <<"admitted", "claiming">>, <<"claiming", "claimed">>,
     <<"readable", "reading">>, <<"reading", "released">>}

\* A step of an attempt is the authorizer's refusal or a judgement.
LEMMA StepCases ==
  ASSUME NEW a \in Attempts, Step(a)
  PROVE  AuthorizerRefuses(a) \/ \E next \in JudgedSteps : Goes(a, next)
BY DEF Step, AuthorizerAllows, Use, Claim, CallLookup, Release, JudgedSteps, Goes

\* Where a judgement leads.
LEMMA OutcomeFacts ==
  ASSUME NEW v, NEW next
  PROVE  /\ v = "allow" => Outcome(v, next) = next
         /\ v = "expired" => Outcome(v, next) = "expired"
         /\ v \notin {"allow", "expired"} => Outcome(v, next) = "refused"
BY DEF Outcome

\* The types of an attempt.
LEMMA AttemptFacts ==
  ASSUME TypeOK, NEW a \in Attempts, attempt[a] # None
  PROVE  /\ attempt[a] \in Attempt /\ attempt[a].pc \in Pcs /\ attempt[a].input \in Inputs
         /\ attempt[a].status \in Status /\ attempt[a].verdict \in Reasons
<1>1. attempt[a] \in Attempt
  BY DEF TypeOK, Attempt
<1>2. QED
  BY <1>1 DEF Attempt

\* What a step of a judged attempt does: every use is a judgement of this instant.
LEMMA GoesFacts ==
  ASSUME TypeOK, NEW a \in Attempts, NEW next \in JudgedSteps, Goes(a, next)
  PROVE  LET v == Judge(attempt[a].input, attempt[a].status, now)
         IN  /\ attempt[a] # None /\ attempt[a].pc = next[1]
             /\ attempt' \in [Attempts -> Attempt \cup {None}]
             /\ attempt'[a] # None /\ attempt'[a].pc = Outcome(v, next[2]) /\ attempt'[a].verdict = v
             /\ attempt'[a].input = attempt[a].input /\ attempt'[a].status = attempt[a].status
             /\ \A b \in Attempts : b # a => attempt'[b] = attempt[b]
             /\ UNCHANGED <<now, withdrawn, asked, status>>
<1> DEFINE v == Judge(attempt[a].input, attempt[a].status, now)
<1>1. attempt[a] # None /\ attempt[a].pc = next[1]
  BY DEF Goes, At
<1>2. attempt' = [attempt EXCEPT ![a].pc = Outcome(v, next[2]), ![a].verdict = v]
      /\ UNCHANGED <<now, withdrawn, asked, status>>
  BY DEF Goes, Judged, statusVars
<1>3. attempt[a] \in Attempt /\ attempt[a].input \in Inputs /\ attempt[a].status \in Status
  BY <1>1, AttemptFacts
<1>4. now \in Int
  BY DEF TypeOK, StatusTypeOK
<1>5. v \in Reasons
  BY <1>3, <1>4, JudgeRange
<1>6. Outcome(v, next[2]) \in Pcs
  BY OutcomeFacts DEF JudgedSteps, Pcs
<1>7. attempt \in [Attempts -> Attempt \cup {None}] /\ None \notin Attempt
  BY AttemptsAssumption DEF TypeOK, Attempt
<1>8. PICK pc \in Pcs, verdict \in Reasons : pc = Outcome(v, next[2]) /\ verdict = v
  BY <1>5, <1>6
<1> DEFINE r == [attempt[a] EXCEPT !.pc = pc, !.verdict = verdict]
<1>9. attempt' = [attempt EXCEPT ![a] = r]
  BY <1>2, <1>8
<1>10. r \in Attempt
  BY <1>3 DEF Attempt
<1>11. r.pc = pc /\ r.input = attempt[a].input /\ r.status = attempt[a].status /\ r.verdict = verdict
  BY <1>3 DEF Attempt
<1>12. attempt'[a] = r /\ (\A b \in Attempts : b # a => attempt'[b] = attempt[b])
       /\ attempt' \in [Attempts -> Attempt \cup {None}]
  BY <1>7, <1>9, <1>10
<1>13. QED
  BY <1>1, <1>2, <1>7, <1>8, <1>10, <1>11, <1>12

\* What a call of admit or admitLookup does.
LEMMA AdmitFacts ==
  ASSUME TypeOK, NEW a \in Attempts, NEW i \in Inputs, NEW f \in Fetches, Admit(a, i, f)
  PROVE  LET v == Judge(i, status[f], now)
         IN  /\ attempt[a] = None /\ status[f] \in Status
             /\ attempt' \in [Attempts -> Attempt \cup {None}]
             /\ attempt'[a] # None /\ attempt'[a].verdict = v
             /\ attempt'[a].pc = Outcome(v, IF i.retrieval THEN "readable" ELSE "authorizing")
             /\ attempt'[a].input = i /\ attempt'[a].status = status[f]
             /\ \A b \in Attempts : b # a => attempt'[b] = attempt[b]
             /\ UNCHANGED <<now, withdrawn, asked, status>>
<1> DEFINE v == Judge(i, status[f], now)
           next == IF i.retrieval THEN "readable" ELSE "authorizing"
<1>1. attempt[a] = None /\ status[f] # None /\ UNCHANGED <<now, withdrawn, asked, status>>
      /\ attempt' = [attempt EXCEPT ![a] = [pc |-> Outcome(v, next), input |-> i, status |-> status[f], verdict |-> v]]
  BY DEF Admit, statusVars
<1>2. status[f] \in Status /\ now \in Int
  BY <1>1 DEF TypeOK, StatusTypeOK
<1>3. v \in Reasons
  BY <1>2, JudgeRange
<1>4. Outcome(v, next) \in Pcs
  BY OutcomeFacts DEF Pcs
<1>5. PICK pc \in Pcs, verdict \in Reasons : pc = Outcome(v, next) /\ verdict = v
  BY <1>3, <1>4
<1> DEFINE r == [pc |-> pc, input |-> i, status |-> status[f], verdict |-> verdict]
<1>6. attempt \in [Attempts -> Attempt \cup {None}] /\ None \notin Attempt
  BY AttemptsAssumption DEF TypeOK
<1>7. r \in Attempt
  BY <1>2 DEF Attempt
<1>8. attempt' = [attempt EXCEPT ![a] = r]
  BY <1>1, <1>5
<1>9. attempt'[a] = r /\ (\A b \in Attempts : b # a => attempt'[b] = attempt[b])
      /\ attempt' \in [Attempts -> Attempt \cup {None}]
  BY <1>6, <1>7, <1>8
<1>10. QED
  BY <1>1, <1>2, <1>5, <1>6, <1>7, <1>9

\* What a refusal of the authorizer does.
LEMMA RefusedFacts ==
  ASSUME TypeOK, NEW a \in Attempts, AuthorizerRefuses(a)
  PROVE  /\ attempt[a] # None
         /\ attempt' \in [Attempts -> Attempt \cup {None}]
         /\ attempt'[a] # None /\ attempt'[a].verdict = "forbidden" /\ attempt'[a].pc = "refused"
         /\ attempt'[a].input = attempt[a].input /\ attempt'[a].status = attempt[a].status
         /\ \A b \in Attempts : b # a => attempt'[b] = attempt[b]
         /\ UNCHANGED <<now, withdrawn, asked, status>>
<1> DEFINE r == [attempt[a] EXCEPT !.pc = "refused", !.verdict = "forbidden"]
<1>1. attempt[a] # None /\ UNCHANGED <<now, withdrawn, asked, status>> /\ attempt' = [attempt EXCEPT ![a] = r]
  BY DEF AuthorizerRefuses, At, statusVars
<1>2. attempt[a] \in Attempt
  BY <1>1, AttemptFacts
<1>3. attempt \in [Attempts -> Attempt \cup {None}] /\ None \notin Attempt
  BY AttemptsAssumption DEF TypeOK
<1>4. r \in Attempt
  BY <1>2 DEF Attempt, Pcs, Reasons
<1>5. r.pc = "refused" /\ r.input = attempt[a].input /\ r.status = attempt[a].status /\ r.verdict = "forbidden"
  BY <1>2 DEF Attempt
<1>6. attempt'[a] = r /\ (\A b \in Attempts : b # a => attempt'[b] = attempt[b])
      /\ attempt' \in [Attempts -> Attempt \cup {None}]
  BY <1>1, <1>3, <1>4
<1>7. QED
  BY <1>1, <1>3, <1>4, <1>5, <1>6

\* An attempt that moves was refused by the authorizer, or judged at that very instant.
LEMMA Moved ==
  ASSUME AdmissionInv, Next, NEW a \in Attempts, attempt'[a] # attempt[a]
  PROVE  /\ UNCHANGED <<now, withdrawn, asked, status>>
         /\ attempt' \in [Attempts -> Attempt \cup {None}] /\ attempt'[a] # None
         /\ Fine(attempt'[a].status)
         /\ attempt[a] # None =>
               attempt'[a].input = attempt[a].input /\ attempt'[a].status = attempt[a].status
         /\ \/ attempt'[a].verdict = "forbidden" /\ attempt'[a].pc = "refused"
            \/ /\ attempt'[a].verdict = Judge(attempt'[a].input, attempt'[a].status, now)
               /\ \E next \in Pcs \ {"refused", "expired"} : attempt'[a].pc = Outcome(attempt'[a].verdict, next)
<1>0. TypeOK
  BY DEF AdmissionInv
<1>1. attempt' # attempt
  OBVIOUS
<1>2. PICK b \in Attempts : (\E i \in Inputs, f \in Fetches : Admit(b, i, f)) \/ Step(b)
  BY <1>1 DEF Next
<1>3. ASSUME NEW i \in Inputs, NEW f \in Fetches, Admit(b, i, f)
      PROVE  a = b /\ status[f] # None
  BY <1>0, <1>3, AdmitFacts DEF Admit
<1>4. CASE \E i \in Inputs, f \in Fetches : Admit(b, i, f)
  <2>1. PICK i \in Inputs, f \in Fetches : Admit(a, i, f) /\ status[f] # None
    BY <1>3, <1>4
  <2>2. Fine(status[f])
    BY <2>1 DEF AdmissionInv, EvidenceSound, Fine
  <2>3. PICK next \in {"readable", "authorizing"} : next = IF i.retrieval THEN "readable" ELSE "authorizing"
    OBVIOUS
  <2>4. QED
    BY <1>0, <2>1, <2>2, <2>3, AdmitFacts DEF Pcs
<1>5. CASE AuthorizerRefuses(b)
  <2>1. a = b
    BY <1>0, <1>5, RefusedFacts
  <2>2. Fine(attempt[a].status)
    BY <1>0, <1>5, <2>1, RefusedFacts DEF AdmissionInv, Backed, Fine
  <2>3. QED
    BY <1>0, <1>5, <2>1, <2>2, RefusedFacts
<1>6. CASE \E next \in JudgedSteps : Goes(b, next)
  <2>1. PICK next \in JudgedSteps : Goes(b, next)
    BY <1>6
  <2>2. a = b /\ attempt[a] # None
    BY <1>0, <2>1, GoesFacts
  <2>3. Fine(attempt[a].status)
    BY <2>2 DEF AdmissionInv, Backed, Fine
  <2>4. next[2] \in Pcs \ {"refused", "expired"}
    BY DEF JudgedSteps, Pcs
  <2>5. QED
    BY <1>0, <2>1, <2>2, <2>3, <2>4, GoesFacts
<1>7. QED
  BY <1>2, <1>4, <1>5, <1>6, StepCases

\* Only what is allowed goes on.
LEMMA OutcomeGoesOn ==
  ASSUME NEW v, NEW next, Outcome(v, next) \notin {"refused", "expired"}
  PROVE  v = "allow" /\ Outcome(v, next) = next
BY OutcomeFacts

\* The invariant holds at the start.
LEMMA InvInit == Init => AdmissionInv
<1> SUFFICES ASSUME Init PROVE AdmissionInv
  OBVIOUS
<1>1. TypeOK
  BY TimesAssumption DEF Init, StatusInit, TypeOK, StatusTypeOK
<1>2. AnswersSound /\ EvidenceSound
  BY DEF Init, StatusInit, AnswersSound, EvidenceSound
<1>3. Backed /\ Going
  BY DEF Init, Backed, Going
<1>4. QED
  BY <1>1, <1>2, <1>3 DEF AdmissionInv

\* The clock stays or goes on by one.
LEMMA TimeGoesForward ==
  ASSUME StatusTypeOK, [Next]_vars
  PROVE  now \in Nat /\ now' \in {now, now + 1}
<1>1. CASE \E k \in Credentials, why \in Whys : Withdraw(k, why)
  BY <1>1, TimesAssumption DEF Withdraw, StatusTypeOK
<1>2. CASE \E f \in Fetches : CheckStatus(f)
  BY <1>2, TimesAssumption
  DEF CheckStatus, FromStatusList, FetchFails, AskOnline, AnswerOnline, FromOnline, Obtained, StatusTypeOK
<1>3. CASE Tick
  BY <1>3, TimesAssumption DEF Tick, StatusTypeOK
<1>4. CASE \E a \in Attempts : (\E i \in Inputs, f \in Fetches : Admit(a, i, f)) \/ Step(a)
  BY <1>4, TimesAssumption
  DEF Admit, Step, AuthorizerRefuses, AuthorizerAllows, Use, Claim, CallLookup, Release, Judged, statusVars, StatusTypeOK
<1>5. CASE UNCHANGED vars
  BY <1>5, TimesAssumption DEF vars, StatusTypeOK
<1>6. QED
  BY <1>1, <1>2, <1>3, <1>4, <1>5 DEF Next, StatusNext

\* Every step keeps the invariant.
LEMMA InvNext == AdmissionInv /\ [Next]_vars => AdmissionInv'
<1> SUFFICES ASSUME AdmissionInv, [Next]_vars PROVE AdmissionInv'
  OBVIOUS
<1>0. TypeOK /\ StatusTypeOK /\ AnswersSound /\ EvidenceSound /\ WithdrawnInThePast
      /\ attempt \in [Attempts -> Attempt \cup {None}]
  BY DEF AdmissionInv, TypeOK, EvidenceSound, WithdrawnInThePast
<1>1. CASE UNCHANGED vars
  BY <1>1 DEF vars, AdmissionInv, TypeOK, StatusTypeOK, AnswersSound, EvidenceSound, Backed, Going, Dated, Sound, Truthful
<1>2. CASE Next
  <2>1. /\ StatusTypeOK' /\ AnswersSound' /\ EvidenceSound'
        /\ attempt' \in [Attempts -> Attempt \cup {None}]
    <3>1. CASE StatusMoves /\ UNCHANGED attempt
      BY <1>0, <3>1, StatusTypeNext, AnswersNext, EvidenceNext
    <3>2. CASE UNCHANGED <<now, withdrawn, asked, status>>
      <4>1. StatusTypeOK' /\ AnswersSound' /\ EvidenceSound'
        BY <1>0, <3>2 DEF StatusTypeOK, AnswersSound, EvidenceSound, Dated, Sound, Truthful
      <4>2. CASE attempt' = attempt
        BY <1>0, <4>1, <4>2
      <4>3. CASE attempt' # attempt
        <5>1. PICK b \in Attempts : (\E i \in Inputs, f \in Fetches : Admit(b, i, f)) \/ Step(b)
          BY <1>2, <4>3 DEF Next
        <5>2. attempt' \in [Attempts -> Attempt \cup {None}]
          BY <1>0, <5>1, AdmitFacts, RefusedFacts, GoesFacts, StepCases
        <5>3. QED
          BY <4>1, <5>2
      <4>4. QED
        BY <4>2, <4>3
    <3>3. (StatusMoves /\ UNCHANGED attempt) \/ UNCHANGED <<now, withdrawn, asked, status>>
      <4>1. CASE StatusNext /\ UNCHANGED attempt
        BY <4>1 DEF StatusNext, StatusMoves
      <4>2. CASE \E b \in Attempts : (\E i \in Inputs, f \in Fetches : Admit(b, i, f)) \/ Step(b)
        BY <1>0, <4>2, AdmitFacts, RefusedFacts, GoesFacts, StepCases
      <4>3. QED
        BY <1>2, <4>1, <4>2 DEF Next
    <3>4. QED
      BY <3>1, <3>2, <3>3
  <2>2. TypeOK'
    BY <2>1 DEF TypeOK
  <2>3. ASSUME NEW a \in Attempts, attempt'[a] # None
        PROVE  (Dated(attempt[a].status) /\ Sound(attempt[a].status) /\ Truthful(attempt[a].status))'
    <3>1. PICK st \in Status : st = attempt'[a].status
      BY <2>1, <2>3 DEF Attempt
    <3>2. Fine(st)
      <4>1. CASE attempt'[a] = attempt[a]
        BY <2>3, <3>1, <4>1 DEF AdmissionInv, Backed, Fine
      <4>2. CASE attempt'[a] # attempt[a]
        BY <1>2, <3>1, <4>2, Moved
      <4>3. QED
        BY <4>1, <4>2
    <3>3. Fine(st)'
      BY <1>0, <3>2, FineKept
    <3>4. QED
      BY <3>1, <3>3 DEF Fine, Dated, Sound, Truthful
  <2>4. ASSUME NEW a \in Attempts, attempt'[a] # None, attempt'[a].pc \notin {"refused", "expired"}
        PROVE  attempt'[a].verdict = "allow" /\ ValidFrom[attempt'[a].input.credential] <= now' + Skew
    <3>1. now \in Nat /\ now' \in {now, now + 1}
      BY <1>0, TimeGoesForward
    <3>2. attempt'[a].input \in Inputs /\ attempt'[a].status \in Status
      BY <2>1, <2>4 DEF Attempt
    <3>3. CASE attempt'[a] = attempt[a]
      <4>1. attempt[a].verdict = "allow" /\ ValidFrom[attempt[a].input.credential] <= now + Skew
        BY <2>4, <3>3 DEF AdmissionInv, Going
      <4>2. QED
        <5>1. ValidFrom[attempt[a].input.credential] \in Int /\ Skew \in Nat
          BY <3>2, <3>3, InputFacts, TimesAssumption
        <5>2. ValidFrom[attempt[a].input.credential] <= now' + Skew
          BY <3>1, <4>1, <5>1
        <5>3. QED
          BY <3>3, <4>1, <5>2
    <3>4. CASE attempt'[a] # attempt[a]
      <4>1. attempt'[a].verdict = Judge(attempt'[a].input, attempt'[a].status, now) /\ now' = now
        BY <1>2, <2>4, <3>4, Moved
      <4>2. attempt'[a].verdict = "allow"
        BY <1>2, <2>4, <3>4, Moved, OutcomeGoesOn
      <4>3. now \in Int
        BY <3>1
      <4>4. Allowed(attempt'[a].input, attempt'[a].status, now)
        BY <3>2, <4>1, <4>2, <4>3, JudgeAllows
      <4>5. QED
        BY <4>1, <4>2, <4>4 DEF Allowed
    <3>5. QED
      BY <3>3, <3>4
  <2>5. Backed'
    BY <2>3 DEF Backed
  <2>6. Going'
    BY <2>4 DEF Going
  <2>7. QED
    BY <2>1, <2>2, <2>5, <2>6 DEF AdmissionInv
<1>3. QED
  BY <1>1, <1>2

\* The inductive invariant of admission (checkStatus, admit, admitLookup and the uses of
\* what they return): the evidence anybody holds is sound, whatever the issuer does and
\* however long anybody waits.
THEOREM AdmissionInvariantHolds == Spec => []AdmissionInv
<1>1. QED
  BY InvInit, InvNext, PTL DEF Spec

\* The clock, the requests, the evidence and the attempts of admit and admitLookup always
\* have their types.
THEOREM AdmissionTypeCorrect == Spec => []TypeOK
<1>1. AdmissionInv => TypeOK
  BY DEF AdmissionInv
<1>2. QED
  BY <1>1, AdmissionInvariantHolds, PTL

-----------------------------------------------------------------------------
(* The properties *)

\* A grant is a judgement of that instant, on sound evidence.
LEMMA GrantIsJudged ==
  ASSUME AdmissionInv, Next, NEW a \in Attempts, Granted(a)
  PROVE  /\ UNCHANGED <<now, withdrawn>> /\ Fine(attempt'[a].status)
         /\ attempt'[a].input \in Inputs /\ attempt'[a].status \in Status
         /\ Allowed(attempt'[a].input, attempt'[a].status, now)
<1>1. attempt'[a] # attempt[a] /\ attempt'[a].pc \in Grants /\ attempt'[a].pc \notin {"refused", "expired"}
  BY DEF Granted, Grants
<1>2. /\ UNCHANGED <<now, withdrawn>> /\ Fine(attempt'[a].status)
      /\ attempt' \in [Attempts -> Attempt \cup {None}] /\ attempt'[a] # None
      /\ attempt'[a].verdict = Judge(attempt'[a].input, attempt'[a].status, now)
      /\ attempt'[a].verdict = "allow"
  BY <1>1, Moved, OutcomeGoesOn
<1>3. attempt'[a].input \in Inputs /\ attempt'[a].status \in Status
  BY <1>2 DEF Attempt
<1>4. now \in Int
  BY DEF AdmissionInv, TypeOK, StatusTypeOK
<1>5. QED
  BY <1>2, <1>3, <1>4, JudgeAllows

\* Whatever admit, admitLookup or the ledger grants is allowed by every documented rule
\* at that instant.
THEOREM EveryGrantIsAllowed == Spec => GrantedByEveryRule
<1>1. AdmissionInv /\ [Next]_vars =>
        [\A a \in Attempts : Granted(a) => Allowed(attempt'[a].input, attempt'[a].status, now)]_vars
  BY GrantIsJudged
<1>2. QED
  BY <1>1, AdmissionInvariantHolds, PTL DEF Spec, GrantedByEveryRule

\* Nothing is granted to a withdrawn credential for longer than its evidence may live.
THEOREM WithdrawalAlwaysTakesEffect == Spec => WithdrawalTakesEffect
<1>1. ASSUME AdmissionInv, Next, NEW a \in Attempts, Granted(a),
             withdrawn[attempt'[a].input.credential] # None
      PROVE  now <= withdrawn[attempt'[a].input.credential].at +
                      IF attempt'[a].status.source = "status-list" THEN StatusMaxAge + Skew ELSE OnlineMaxAge + Timeout
  <2>1. PICK i \in Inputs, st \in Status : i = attempt'[a].input /\ st = attempt'[a].status
    BY <1>1, GrantIsJudged
  <2>2. Fine(st) /\ Allowed(i, st, now)
    BY <1>1, <2>1, GrantIsJudged
  <2>3. st.credential = i.credential /\ st.state = "active" /\ Fresh(st, now)
    BY <2>2 DEF Allowed
  <2>4. withdrawn[i.credential].at \in Nat /\ now \in Nat
    BY <1>1, <2>1, InputFacts, WithdrawalFacts, TimesAssumption DEF AdmissionInv, TypeOK, StatusTypeOK
  <2>5. CASE st.source = "status-list"
    <3>1. st.since <= withdrawn[i.credential].at + Skew /\ now - st.since <= StatusMaxAge
      BY <1>1, <2>1, <2>2, <2>3, <2>5 DEF Fine, Sound, Fresh
    <3>2. now <= withdrawn[i.credential].at + (StatusMaxAge + Skew)
      BY <2>4, <3>1, StatusFacts, TimesAssumption
    <3>3. QED
      BY <2>1, <2>5, <3>2
  <2>6. CASE st.source # "status-list"
    <3>1. st.fetchedAt <= withdrawn[i.credential].at + Timeout /\ now - st.fetchedAt <= OnlineMaxAge
      BY <1>1, <2>1, <2>2, <2>3, <2>6 DEF Fine, Sound, Fresh
    <3>2. now <= withdrawn[i.credential].at + (OnlineMaxAge + Timeout)
      BY <2>4, <3>1, StatusFacts, TimesAssumption
    <3>3. QED
      BY <2>1, <2>6, <3>2
  <2>7. QED
    BY <2>5, <2>6
<1>2. AdmissionInv /\ [Next]_vars =>
        [\A a \in Attempts : Granted(a) =>
            LET st == attempt'[a].status
                w == withdrawn[attempt'[a].input.credential]
            IN  w # None => now <= w.at + IF st.source = "status-list" THEN StatusMaxAge + Skew
                                                                       ELSE OnlineMaxAge + Timeout]_vars
  BY <1>1
<1>3. QED
  BY <1>2, AdmissionInvariantHolds, PTL DEF Spec, WithdrawalTakesEffect

\* admit and admitLookup refuse a credential as revoked, superseded or expired only when it is.
THEOREM RefusalsAreTrue == Spec => RefusalIsTrue
<1>1. ASSUME AdmissionInv, Next, NEW a \in Attempts, attempt'[a] # attempt[a], attempt'[a].pc = "refused"
      PROVE  LET k == attempt'[a].input.credential
                 v == attempt'[a].verdict
             IN  /\ v = "credential_revoked" => withdrawn[k] # None
                 /\ v = "credential_superseded" => withdrawn[k] # None /\ withdrawn[k].why = "superseded"
                 /\ v = "credential_expired" => ~ValidAt(k, now)
  <2>1. Fine(attempt'[a].status) /\ attempt' \in [Attempts -> Attempt \cup {None}] /\ attempt'[a] # None
        /\ (attempt'[a].verdict = "forbidden" \/ attempt'[a].verdict = Judge(attempt'[a].input, attempt'[a].status, now))
    BY <1>1, Moved
  <2>2. PICK i \in Inputs, st \in Status : i = attempt'[a].input /\ st = attempt'[a].status
    BY <2>1 DEF Attempt
  <2>3. now \in Int
    BY <1>1 DEF AdmissionInv, TypeOK, StatusTypeOK
  <2>4. CASE attempt'[a].verdict = "forbidden"
    BY <2>4
  <2>5. CASE attempt'[a].verdict = Judge(i, st, now)
    BY <2>1, <2>2, <2>3, <2>5, JudgeBlames DEF Fine, Truthful, Whys
  <2>6. QED
    BY <2>1, <2>2, <2>4, <2>5
<1>2. AdmissionInv /\ [Next]_vars =>
        [\A a \in Attempts : attempt'[a] # attempt[a] /\ attempt'[a].pc = "refused" =>
            LET k == attempt'[a].input.credential
                v == attempt'[a].verdict
            IN  /\ v = "credential_revoked" => withdrawn[k] # None
                /\ v = "credential_superseded" => withdrawn[k] # None /\ withdrawn[k].why = "superseded"
                /\ v = "credential_expired" => ~ValidAt(k, now)]_vars
  BY <1>1
<1>3. QED
  BY <1>2, AdmissionInvariantHolds, PTL DEF Spec, RefusalIsTrue

\* Once an admission is no longer allowed, no later use of it is; and a deadline that
\* passed stays the answer.
THEOREM AdmissionsLapseForGood == Spec => LapsesForGood
<1>1. ASSUME AdmissionInv, Next, NEW a \in Attempts, attempt[a] # None, attempt[a].pc \notin {"refused", "expired"}
      PROVE  Lapses(a)
  <2>1. now \in Nat /\ now' \in {now, now + 1}
    BY <1>1, TimeGoesForward DEF AdmissionInv, TypeOK
  <2>2. PICK i \in Inputs, st \in Status : i = attempt[a].input /\ st = attempt[a].status
    BY <1>1, AttemptFacts DEF AdmissionInv
  <2>3. i = attempt'[a].input /\ st = attempt'[a].status
    BY <1>1, <2>2, Moved
  <2>4. ValidFrom[i.credential] <= now + Skew
    BY <1>1, <2>2 DEF AdmissionInv, Going
  <2>5. Judge(i, st, now') = "allow" => Judge(i, st, now) = "allow"
    BY <2>1, <2>4, JudgeAllows, AllowedBefore
  <2>6. Judge(i, st, now) = "expired" => Judge(i, st, now') = "expired"
    BY <2>1, JudgeExpired, InputFacts
  <2>7. QED
    BY <2>2, <2>3, <2>5, <2>6 DEF Lapses
<1>2. AdmissionInv /\ [Next]_vars =>
        [\A a \in Attempts : attempt[a] # None /\ attempt[a].pc \notin {"refused", "expired"} => Lapses(a)]_vars
  BY <1>1
<1>3. QED
  BY <1>2, AdmissionInvariantHolds, PTL DEF Spec, LapsesForGood

=============================================================================
