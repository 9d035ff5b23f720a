------------------------------ MODULE Admission ------------------------------
(***************************************************************************)
(* Admission of verified presentations (admit and admitLookup of           *)
(* sdk/aria-ap-ts/src/ap.ts, internal/judge.ts, internal/policy.ts,        *)
(* internal/scope-policy.ts) over the status evidence of                   *)
(* CredentialStatus, and the uses of an admission by the ledger            *)
(* (operations.ts), each of which judges it again.                         *)
(*                                                                         *)
(* An attempt is one call of admit or admitLookup and what is done with    *)
(* the admission it returns; attempts share nothing but the clock and the  *)
(* issuer.                                                                 *)
(***************************************************************************)
EXTENDS CredentialStatus, Sequences

CONSTANTS
    Attempts,
    Inputs,        \* what callers of admit pass: the presentation, the approval, the scope policy
    Level, Scopes, HitlRequired, Delegated  \* facts of each credential

\* A human's approval: `matches` when it is of this operation by this caller.
ApprovalEvidence(approval) == approval.expiresAt \in Int /\ approval.matches \in BOOLEAN

ScopeRule(rule) == rule.effect \in {"allow", "deny"}

AdmissionInput(i) ==
    /\ {"credential", "retrieval", "expiresAt", "audience", "scope", "minLevel", "approval", "policy"} \subseteq DOMAIN i
    /\ i.credential \in Credentials /\ i.retrieval \in BOOLEAN /\ i.audience \in BOOLEAN
    /\ i.expiresAt \in Int /\ i.minLevel \in Nat
    /\ i.approval # None => ApprovalEvidence(i.approval)
    /\ i.policy # None => \A rule \in i.policy : ScopeRule(rule)

ASSUME InputsAssumption ==
    /\ Level \in [Credentials -> Nat] /\ Delegated \in [Credentials -> BOOLEAN]
    /\ \A i \in Inputs : AdmissionInput(i)

VARIABLE attempt  \* where each attempt is, with its input, its evidence and its last verdict

vars == <<now, withdrawn, asked, status, attempt>>

-----------------------------------------------------------------------------
(* judge *)

Matches(rule, scope) == rule.resource = scope.resource /\ rule.action \in {scope.action, "*"}

\* A matching deny wins, otherwise a matching allow is needed.
ScopeAllowed(rules, scope) ==
    /\ ~\E r \in rules : r.effect = "deny" /\ Matches(r, scope)
    /\ \E r \in rules : r.effect = "allow" /\ Matches(r, scope)

StandingReason ==
    [not_valid_now |-> "credential_expired", unknown |-> "status_unavailable",
     revoked |-> "credential_revoked", superseded |-> "credential_superseded", good |-> "allow"]

Needs(i) == i.scope \in HitlRequired[i.credential]

Approved(a, t) == a.matches /\ a.expiresAt > t

AudienceRule(i) == [holds |-> i.audience, reason |-> "audience_mismatch"]

StandingRule(i, st, t) ==
    LET standing == Standing(i.credential, st, t)
    IN  [holds |-> standing = "good", reason |-> StandingReason[standing]]

\* The rules of evaluate, in their fixed order.
Rules(i, st, t) ==
    LET k == i.credential
    IN  << AudienceRule(i),
           StandingRule(i, st, t),
           [holds |-> Level[k] >= i.minLevel, reason |-> "level_insufficient"],
           [holds |-> i.scope \in Scopes[k], reason |-> "scope_missing"],
           [holds |-> i.policy = None \/ ScopeAllowed(i.policy, i.scope), reason |-> "scope_denied"],
           [holds |-> ~Delegated[k], reason |-> "delegation_unsupported"],
           [holds |-> Needs(i) => i.approval # None, reason |-> "approval_required"],
           [holds |-> Needs(i) /\ i.approval # None => Approved(i.approval, t), reason |-> "approval_invalid"] >>

\* A retrieval has no scope, level or approval of its own.
LookupRules(i, st, t) == << AudienceRule(i), StandingRule(i, st, t) >>

Broken(rules) == {n \in DOMAIN rules : ~rules[n].holds}

Evaluate(rules) ==
    IF Broken(rules) = {}
    THEN "allow"
    ELSE rules[CHOOSE n \in Broken(rules) : \A m \in Broken(rules) : n <= m].reason

RulesOf(i, st, t) == IF i.retrieval THEN LookupRules(i, st, t) ELSE Rules(i, st, t)

\* Mutant: the rules come before the deadline.
JudgeRulesFirst(i, st, t) ==
    LET v == Evaluate(RulesOf(i, st, t))
    IN  IF v = "allow" /\ t > i.expiresAt THEN "expired" ELSE v

\* The deadline, then the rules, at instant t.
Judge(i, st, t) == IF t > i.expiresAt THEN "expired" ELSE Evaluate(RulesOf(i, st, t))

-----------------------------------------------------------------------------
(* admit and admitLookup, and the uses of what they return *)

Outcome(v, next) ==
    CASE v = "allow" -> next [] v = "expired" -> "expired" [] v \notin {"allow", "expired"} -> "refused"

At(a, pc) == attempt[a] # None /\ attempt[a].pc = pc

\* The attempt is judged with the evidence it has, and goes on to `next` if allowed.
Judged(a, next) ==
    LET v == Judge(attempt[a].input, attempt[a].status, now)
    IN  /\ attempt' = [attempt EXCEPT ![a].pc = Outcome(v, next), ![a].verdict = v]
        /\ UNCHANGED statusVars

\* admit up to the authorizer, or admitLookup, with whatever evidence the caller has.
Admit(a, i, f) ==
    /\ attempt[a] = None
    /\ status[f] # None
    /\ LET v == Judge(i, status[f], now)
           next == IF i.retrieval THEN "readable" ELSE "authorizing"
       IN  attempt' = [attempt EXCEPT ![a] =
               [pc |-> Outcome(v, next), input |-> i, status |-> status[f], verdict |-> v]]
    /\ UNCHANGED statusVars

AuthorizerRefuses(a) ==
    /\ At(a, "authorizing")
    /\ attempt' = [attempt EXCEPT ![a].pc = "refused", ![a].verdict = "forbidden"]
    /\ UNCHANGED statusVars

\* Mutant: the authorizer's answer ends the admission.
AuthorizedAtOnce(a) ==
    /\ At(a, "authorizing")
    /\ attempt' = [attempt EXCEPT ![a].pc = "admitted"]
    /\ UNCHANGED statusVars

\* The authorizer took time: everything is judged again.
AuthorizerAllows(a) == At(a, "authorizing") /\ Judged(a, "admitted")

\* The ledger judges an admission before and after it claims.
Use(a) == At(a, "admitted") /\ Judged(a, "claiming")

Claim(a) == At(a, "claiming") /\ Judged(a, "claimed")

\* lookup: judged when it is called, and when the data is released.
CallLookup(a) == At(a, "readable") /\ Judged(a, "reading")

Release(a) == At(a, "reading") /\ Judged(a, "released")

-----------------------------------------------------------------------------

Init == StatusInit /\ attempt = [a \in Attempts |-> None]

Step(a) == AuthorizerRefuses(a) \/ AuthorizerAllows(a) \/ Use(a) \/ Claim(a) \/ CallLookup(a) \/ Release(a)

Next ==
    \/ StatusNext /\ UNCHANGED attempt
    \/ \E a \in Attempts :
        \/ \E i \in Inputs, f \in Fetches : Admit(a, i, f)
        \/ Step(a)

Spec == Init /\ [][Next]_vars

-----------------------------------------------------------------------------
(* Properties *)

Pcs == {"authorizing", "admitted", "claiming", "claimed", "readable", "reading", "released", "refused", "expired"}

Grants == {"admitted", "claimed", "readable", "released"}

Reasons ==
    {"allow", "expired", "forbidden", "audience_mismatch", "credential_expired", "status_unavailable",
     "credential_revoked", "credential_superseded", "level_insufficient", "scope_missing", "scope_denied",
     "delegation_unsupported", "approval_required", "approval_invalid"}

Attempt == [pc : Pcs, input : Inputs, status : Status, verdict : Reasons]

ASSUME AttemptsAssumption == None \notin Attempt

\* Attempts have the shape of their calls.
TypeOK ==
    /\ StatusTypeOK
    /\ attempt \in [Attempts -> Attempt \cup {None}]

\* What a caller may rely on when it is granted something: as the documentation of
\* admission lists it, in no order.
Allowed(i, st, t) ==
    LET k == i.credential
    IN  /\ t <= i.expiresAt
        /\ i.audience
        /\ ValidFrom[k] <= t + Skew /\ t < ValidUntil[k]
        /\ st.credential = k /\ st.state = "active" /\ Fresh(st, t)
        /\ ~i.retrieval =>
              /\ Level[k] >= i.minLevel /\ i.scope \in Scopes[k] /\ ~Delegated[k]
              /\ i.policy # None =>
                    /\ \E r \in i.policy : r.effect = "allow" /\ Matches(r, i.scope)
                    /\ \A r \in i.policy : Matches(r, i.scope) => r.effect = "allow"
              /\ i.scope \in HitlRequired[k] =>
                    i.approval # None /\ i.approval.matches /\ t < i.approval.expiresAt

\* A grant: an admission returned, a claim given, data released.
Granted(a) == attempt'[a] # attempt[a] /\ attempt'[a].pc \in Grants

\* Whatever is granted is allowed by every rule at that instant, however long the
\* authorizer or the storage took.
GrantedByEveryRule ==
    [][\A a \in Attempts : Granted(a) => Allowed(attempt'[a].input, attempt'[a].status, now)]_vars

\* A withdrawal takes effect: nothing is granted to a credential later than the
\* largest age of its evidence after it was revoked or superseded, a list that was
\* dated ahead or an answer that was long under way allowed for.
WithdrawalTakesEffect ==
    [][\A a \in Attempts : Granted(a) =>
        LET st == attempt'[a].status
            w == withdrawn[attempt'[a].input.credential]
        IN  w # None => now <= w.at + IF st.source = "status-list" THEN StatusMaxAge + Skew
                                                                   ELSE OnlineMaxAge + Timeout]_vars

\* A refusal tells the truth: only a credential that was withdrawn is called revoked,
\* only one with a successor superseded, only one outside its validity expired.
RefusalIsTrue ==
    [][\A a \in Attempts : attempt'[a] # attempt[a] /\ attempt'[a].pc = "refused" =>
        LET k == attempt'[a].input.credential
            v == attempt'[a].verdict
        IN  /\ v = "credential_revoked" => withdrawn[k] # None
            /\ v = "credential_superseded" => withdrawn[k] # None /\ withdrawn[k].why = "superseded"
            /\ v = "credential_expired" => ~ValidAt(k, now)]_vars

\* An admission lapses for good: once it is no longer allowed it never is again, and
\* once its deadline has passed that is what it is told.  (OperationLedger takes this
\* of the verdicts it is given.)
Lapses(a) ==
    LET v == Judge(attempt[a].input, attempt[a].status, now)
    IN  /\ v # "allow" => Judge(attempt'[a].input, attempt'[a].status, now') # "allow"
        /\ v = "expired" => Judge(attempt'[a].input, attempt'[a].status, now') = "expired"

LapsesForGood ==
    [][\A a \in Attempts : attempt[a] # None /\ attempt[a].pc \notin {"refused", "expired"} => Lapses(a)]_vars

\* The inductive invariant: the evidence anybody holds is sound, and an attempt that
\* went on had it, and its presentation, good once.
Going ==
    \A a \in Attempts : attempt[a] # None /\ attempt[a].pc \notin {"refused", "expired"} =>
        LET i == attempt[a].input
        IN  /\ attempt[a].verdict = "allow"
            /\ ValidFrom[i.credential] <= now + Skew

Backed ==
    \A a \in Attempts : attempt[a] # None => Dated(attempt[a].status) /\ Sound(attempt[a].status) /\ Truthful(attempt[a].status)

AdmissionInv == TypeOK /\ AnswersSound /\ EvidenceSound /\ Backed /\ Going

=============================================================================
