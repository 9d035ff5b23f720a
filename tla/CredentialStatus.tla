-------------------------- MODULE CredentialStatus --------------------------
(***************************************************************************)
(* Status evidence and standing: checkStatus and standing of the           *)
(* credential verifier (sdk/aria-ts/src/verifier.ts,                       *)
(* internal/check-status.ts, internal/standing.ts), with the issuer that   *)
(* withdraws credentials, signs status lists and answers online.           *)
(*                                                                         *)
(* Evidence is a value: once obtained it does not change, whatever the     *)
(* issuer does next, and it is judged again at each use.  One clock that   *)
(* does not go back serves everybody, except that the issuer's may be      *)
(* ahead by up to the skew when it dates a list.                           *)
(***************************************************************************)
EXTENDS Integers

CONSTANTS
    Credentials,     \* credentials verified
    ValidFrom, ValidUntil,  \* their signed validity
    Fetches,         \* calls of checkStatus
    ListValidities,  \* the lengths of validity the issuer states
    MaxListValidity, \* MAX_LIST_VALIDITY_MS
    StatusMaxAge,    \* statusMaxAgeSeconds
    OnlineMaxAge,    \* onlineStatusMaxAgeSeconds
    Skew,            \* skewSeconds
    Timeout,         \* timeoutMs: how long a request may take
    MaxNow,          \* bound: the last instant
    None

ASSUME TimesAssumption ==
    /\ ValidFrom \in [Credentials -> Int] /\ ValidUntil \in [Credentials -> Int]
    /\ ListValidities \subseteq Nat \ {0}
    /\ {MaxListValidity, StatusMaxAge, OnlineMaxAge, Skew, Timeout, MaxNow} \subseteq Nat

VARIABLES
    now,        \* the clock
    withdrawn,  \* what the issuer did to each credential, and when
    asked,      \* the online requests in flight
    status      \* the evidence each call of checkStatus returned

statusVars == <<now, withdrawn, asked, status>>

Whys == {"revoked", "superseded"}

Withdrawal == [why : Whys, at : Nat]

Request == [credential : Credentials, at : Nat, answer : {"none", "active"} \cup Whys]

\* `since` is a list's validFrom, or when an online answer was observed.
Status ==
    [credential : Credentials, source : {"status-list", "online"}, state : {"active", "unavailable"} \cup Whys,
     since : Int, until : Int, fetchedAt : Nat]

ASSUME StatusNoneAssumption == None \notin Withdrawal /\ None \notin Request /\ None \notin Status

-----------------------------------------------------------------------------
(* The issuer and the clock *)

Withdraw(k, why) ==
    /\ withdrawn[k] = None
    /\ withdrawn' = [withdrawn EXCEPT ![k] = [why |-> why, at |-> now]]
    /\ UNCHANGED <<now, asked, status>>

Tick ==
    /\ now < MaxNow
    /\ now' = now + 1
    /\ UNCHANGED <<withdrawn, asked, status>>

\* The bits that a list signed at t may hold for k: either, at the instant of withdrawal.
Bits(k, t) ==
    {b \in BOOLEAN : /\ withdrawn[k] # None /\ withdrawn[k].at < t => b
                     /\ withdrawn[k] = None \/ withdrawn[k].at > t => ~b}

-----------------------------------------------------------------------------
(* checkStatus *)

Unavailable(k, source) ==
    [credential |-> k, source |-> source, state |-> "unavailable", since |-> now, until |-> now, fetchedAt |-> now]

Obtained(f, st) ==
    /\ status' = [status EXCEPT ![f] = st]
    /\ UNCHANGED <<now, withdrawn>>

\* Read and judged once the list is processed.
UsableList(from, until) ==
    /\ until - from <= MaxListValidity
    /\ from <= now + Skew
    /\ until > now
    /\ now - from <= StatusMaxAge

\* The list that arrives may have been signed at any time before.
FromStatusList(f, k, signed, from, validity, revoked) ==
    /\ status[f] = None /\ asked[f] = None
    /\ signed <= now /\ from \in signed .. signed + Skew
    /\ revoked \in Bits(k, signed)
    /\ Obtained(f,
         IF UsableList(from, from + validity)
         THEN [credential |-> k, source |-> "status-list", state |-> IF revoked THEN "revoked" ELSE "active",
               since |-> from, until |-> from + validity, fetchedAt |-> now]
         ELSE Unavailable(k, "status-list"))
    /\ UNCHANGED asked

\* No policy, a failure, an answer too large, malformed or signed by another.
FetchFails(f, k, source) ==
    /\ status[f] = None
    /\ asked[f] # None => source = "online" /\ k = asked[f].credential
    /\ Obtained(f, Unavailable(k, source))
    /\ asked' = [asked EXCEPT ![f] = None]

AskOnline(f, k) ==
    /\ status[f] = None /\ asked[f] = None
    /\ asked' = [asked EXCEPT ![f] = [credential |-> k, at |-> now, answer |-> "none"]]
    /\ UNCHANGED <<now, withdrawn, status>>

\* The issuer answers for the DID: another current document means superseded.
AnswerOnline(f) ==
    /\ asked[f] # None /\ asked[f].answer = "none"
    /\ LET w == withdrawn[asked[f].credential]
       IN  asked' = [asked EXCEPT ![f].answer = IF w = None THEN "active" ELSE w.why]
    /\ UNCHANGED <<now, withdrawn, status>>

\* Mutant: the request is not bounded in time.
FromOnlineWhenever(f) ==
    /\ asked[f] # None /\ asked[f].answer # "none"
    /\ Obtained(f,
         [credential |-> asked[f].credential, source |-> "online", state |-> asked[f].answer,
          since |-> now, until |-> now, fetchedAt |-> now])
    /\ asked' = [asked EXCEPT ![f] = None]

\* Dated when the answer is observed; a request that took longer was aborted.
FromOnline(f) ==
    /\ asked[f] # None /\ asked[f].answer # "none"
    /\ now - asked[f].at <= Timeout
    /\ Obtained(f,
         [credential |-> asked[f].credential, source |-> "online", state |-> asked[f].answer,
          since |-> now, until |-> now, fetchedAt |-> now])
    /\ asked' = [asked EXCEPT ![f] = None]

StatusInit ==
    /\ now = 0
    /\ withdrawn = [k \in Credentials |-> None]
    /\ asked = [f \in Fetches |-> None]
    /\ status = [f \in Fetches |-> None]

CheckStatus(f) ==
    \/ \E k \in Credentials :
        \/ \E signed \in 0 .. now, ahead \in 0 .. Skew, validity \in ListValidities, revoked \in BOOLEAN :
               FromStatusList(f, k, signed, signed + ahead, validity, revoked)
        \/ \E source \in {"status-list", "online"} : FetchFails(f, k, source)
        \/ AskOnline(f, k)
    \/ AnswerOnline(f)
    \/ FromOnline(f)

StatusNext ==
    \/ \E k \in Credentials, why \in Whys : Withdraw(k, why)
    \/ \E f \in Fetches : CheckStatus(f)
    \/ Tick

-----------------------------------------------------------------------------
(* standing *)

ValidAt(k, t) == ValidUntil[k] > t /\ ValidFrom[k] <= t + Skew

\* Mutant: a list is as old as its retrieval.
FreshSinceFetch(st, t) ==
    t - st.fetchedAt <= IF st.source = "status-list" THEN StatusMaxAge ELSE OnlineMaxAge

\* A list ages from its own validFrom, whenever it was retrieved.
Fresh(st, t) ==
    IF st.source = "status-list"
    THEN st.until > t /\ t - st.since <= StatusMaxAge
    ELSE t - st.fetchedAt <= OnlineMaxAge

\* Mutant: the evidence of any credential will do.
EstablishedOfAny(k, st, t) == st.state # "unavailable" /\ Fresh(st, t)

\* Evidence about that very credential, available and fresh.
Established(k, st, t) == st.credential = k /\ st.state # "unavailable" /\ Fresh(st, t)

\* Judged at every use, at that instant: validity, then the evidence, then what it says.
Standing(k, st, t) ==
    CASE ~ValidAt(k, t) -> "not_valid_now"
      [] ValidAt(k, t) /\ ~Established(k, st, t) -> "unknown"
      [] ValidAt(k, t) /\ Established(k, st, t) -> IF st.state = "active" THEN "good" ELSE st.state

-----------------------------------------------------------------------------

\* The clock, the issuer's deeds, the requests and the evidence have their shapes.
StatusTypeOK ==
    /\ now \in 0 .. MaxNow
    /\ withdrawn \in [Credentials -> Withdrawal \cup {None}]
    /\ asked \in [Fetches -> Request \cup {None}]
    /\ status \in [Fetches -> Status \cup {None}]

\* What evidence of an active credential says about a later withdrawal.
Sound(st) ==
    st.state = "active" /\ withdrawn[st.credential] # None =>
        IF st.source = "status-list"
        THEN st.since <= withdrawn[st.credential].at + Skew
        ELSE st.fetchedAt <= withdrawn[st.credential].at + Timeout

\* What evidence of a withdrawal says: there was one, and online for what reason.
Truthful(st) ==
    st.state \in Whys =>
        /\ withdrawn[st.credential] # None
        /\ st.state = "superseded" => withdrawn[st.credential].why = "superseded"

\* The answers under way are as sound and as true.
AnswersSound ==
    \A f \in Fetches : asked[f] # None =>
        LET w == withdrawn[asked[f].credential]
        IN  /\ asked[f].at <= now
            /\ asked[f].answer = "active" /\ w # None => asked[f].at <= w.at
            /\ asked[f].answer \in Whys => w # None /\ w.why = asked[f].answer

\* Evidence is not of the future, but for a list dated ahead.
Dated(st) == st.since <= now + Skew /\ st.fetchedAt <= now

EvidenceSound ==
    /\ \A k \in Credentials : withdrawn[k] # None => withdrawn[k].at <= now
    /\ \A f \in Fetches : status[f] # None => Dated(status[f]) /\ Sound(status[f]) /\ Truthful(status[f])

=============================================================================
