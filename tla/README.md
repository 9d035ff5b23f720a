# ARIA protocol: formal models

TLA+ models of the ARIA protocol's TypeScript implementation, model-checked with TLC, and
theorems about them, proved with TLAPS. Paths below are relative to the repository
(`src/sdk/aria-ap-ts/src/operations.ts` is the file at `sdk/aria-ap-ts/src/operations.ts`);
`operations.ts`, `ap.ts`, `receipt.ts`... without a directory are files of
`src/sdk/aria-ap-ts/src/`.

## 1. The system

An agent (the *sender*, known by a DID and a credential) asks a *receiver* to run an
operation: it signs an HTTP request over a challenge of the receiver, the receiver
authenticates the request, admits it under its policy, runs the operation **once per
operation id** whatever the number of attempts, and answers with a signed receipt. The
sender keeps its attempts and the receipts and works out what became of the operation.

| component | state it keeps | operations |
| --- | --- | --- |
| operation ledger (`operations.ts` 180-427) | spent claims, admissions used; everything else in storage | `begin`, `settle`, `fail`, `markUncertain`, `resume`, `reconcile`, `lookup` |
| operation storage (`operations.ts` 55-72, 444-478) | one `StoredOperation` per key: state, content fingerprint, revision, claim, mark, receipts | `get`, `create`, `replace`, `reclaim`, `remove`: each an atomic compare-and-set; `replace` inside the effect's transaction |
| challenge store (`challenges.ts`) | live challenges with audience and expiry | `issue`, `live`, `consume` |
| request authentication (`internal/request.ts` 169-313, `ap.ts` 153-188) | none; consumes a challenge | `verifyPresentation` |
| admission (`ap.ts` 190-238, `internal/judge.ts`, `internal/policy.ts`, `internal/scope-policy.ts`) | none; an admission is a value with the facts it was made from, judged again whenever it is used | `admit`, `admitLookup`, `buildAttemptRefusal` |
| receiver identity and request signing (`ap.ts` 258-370, `internal/identity.ts`) | none | `identify`, `verifyReceiverIdentity`, `signRequest` |
| receipts (`internal/receipt.ts`, `ap.ts` 240-256, 372-404) | none | `signReceipt`, `verifyReceipt`, `verifyHistoricalReceipt` |
| operation tracker (`receipt.ts` 173-251) | the client's state of one operation, its attempts, the statements kept, the id of each | `record`, `observe`, `observeLookup` |
| credential verifier (`src/sdk/aria-ts/src/`) | provenance of what it verified | `verifyCredential`, `checkStatus`, `standing`, `readRetainedStatus` |
| handler and client (`src/sdk/aria-ap-ts/examples/`) | the client's tracker; the receiver's storage | `handle`; `main`, which looks up, sends, observes and retries |
| historical verifier (`src/sdk/verify-ts/src/`) | the registry keys in force | `verifyAgent` and its policies, `checkCredentialStatus`, `checkRevocation`, `setRegistryKeys`; the older, offline SDK |
| conformance (`src/conformance/`) | a sequential reference model and vectors | test equipment |

How they interact: `handle` of `src/sdk/aria-ap-ts/examples/protected-handler.ts` is the
receiver's documented composition: `verifyPresentation` (reads and consumes the challenge),
`checkStatus` (network), `admit` (judges, awaits the adopter's rule, judges again),
`ledger.begin` (storage), the effect with `ledger.settle` in one transaction, `ledger.fail`
when that throws. A supervisor of the receiver calls `markUncertain` and `reconcile` for
workers that stopped. The client calls `signRequest`, sends, and feeds every receipt it
gets, from the answer or from a later lookup, to its `OperationTracker`.

**What is hard.** Nothing holds a lock: every method is a sequence of awaits on storage the
other workers write too, so correctness rests on the compare-and-sets, on re-judging the
admission after each wait, and on the order of those. A claim outlives the worker that made
it (crashes, storage errors, a transaction whose commit is unknown), and a worker outlives
its claim (a supervisor released it; a stale worker comes back and settles). A release back
to "no record" makes revision numbers start again. Windows, approvals and credentials lapse
between any two awaits. Receipts reach the client late, repeated and out of order.

**What makes each component correct.** Ledger: one holder at a time, each settlement
recorded once, nothing after a final outcome, a claim ended only by who may end it, one
content per operation id, answers that agree for ever and leave only on an admission that
holds, calls that return. Challenge store and authentication: a challenge authenticates at
most one request, of its audience, within its life. Admission: an allowed answer was allowed
by the facts of that instant. Tracker: what it says depends on the receipts seen and not on
their order, never moves back, and two different ends are told. Verifier: a
credential stands only on evidence that is current when the answer is given. Identity and signing: a
client signs for the receiver it pinned, on a statement made to it that is recent, and what a receiver
accepts is what was signed and meant. Receipts: what a client accepts, then or long after, the
receiver signed for that attempt. All together: the effect happens once, and the client's conclusion
is the truth.

## 2. Modules

| module | what it is |
| --- | --- |
| `OnceOperation` | abstract: what a receiver promises of one operation: claim, release, settle |
| `OperationLedger` | the ledger and its storage for one operation key, await by await; properties and mutants |
| `OperationLedgerInv` | the inductive invariant |
| `OperationLedger_proofs` | every action preserves every part of the invariant, and the theorems |
| `OperationTracker` | the client's view of one operation, with the check its receipts pass |
| `OperationTracker_proofs` | its inductive invariant and theorems |
| `Presentation` | authentication of requests over the challenge store, with time, copies, forgeries and restarts |
| `Presentation_proofs` | its inductive invariant and theorems |
| `CredentialStatus` | status evidence and standing: `checkStatus` and `standing`, with the issuer and the clock |
| `Admission` | `admit`, `admitLookup`, and every later use of what they return, over `CredentialStatus` |
| `Admission_proofs` | what a judgement is, the inductive invariant of both, and their theorems |
| `Verdicts` | ordered tests of which the first that fails decides |
| `RequestForm` | a signed HTTP request: what an agent puts into it, what a receiver tests of it |
| `Signing` | a receiver's identity, what is signed for it and what arrives, over `RequestForm` |
| `Signing_proofs` | what an accepted request says, the inductive invariant and the theorems of both |
| `CredentialVerification` | documents and status lists: `verifyCredential`, `verifyAuthenticity`, `readRetainedStatus` |
| `Receipts` | receipts signed, checked at once and long after, over `CredentialVerification` |
| `Receipts_proofs` | when a receipt, a document and a list pass, the inductive invariant and the theorems of both |
| `ConformanceReference` | abstract: the sequential model `src/conformance/ap/model.mjs` |
| `Exchange` | handler, client and supervisor over a network, implementing `ConformanceReference` |
| `Exchange_proofs` | its inductive invariant and theorems; that it implements the reference |
| `OfflineVerifier` | the historical verifier, with the registry and the network it asks |
| `OfflineVerifier_proofs` | its inductive invariant and theorems |
| `MCOperationLedger`, `MCOperationTracker`, `MCPresentation`, `MCAdmission`, `MCSigning`, `MCReceipts`, `MCOfflineVerifier` | constants, the network's alterations and symmetry for TLC |

### OperationLedger

One operation key: no code path relates two keys. An *attempt* is an admission object; as
`#admitted` (378-385) uses an admission once, an attempt begins or resumes at most once, so
its name also stands for the random claim id its call may write.

| variable | in the code |
| --- | --- |
| `record` | the `StoredOperation` of the key, `Absent` for `null`; the transaction's uncommitted `replace` is not in it |
| `adm` | what `judge` answers of each admission if asked now |
| `reply` | what `begin` or `resume` answered to each attempt |
| `claims` | the `ClaimSnapshot` behind each `OperationClaim` issued |
| `spent` | `#spent` |
| `call` | the asynchronous calls in flight: where they wait, what they have read |
| `log`, `answers` | history: committed receipts in order; governing receipts answered |

A call is a process; `pc` names the await at which it stands, an action is the code from one
await to the next. So `BeginGet` is `storage.get` and the test at 213, `BeginCreate` is
`create` and 215, `Grant`/`GrantLapsed` are the judgement at 218 after it, `Undo` is 371;
`ResumeGet`, `ResumeRead`, `ResumeReclaim` are 297-305; `SettleGet` and `SettleReplace` are
244-248; `SettleCommit`/`SettleRollback` end the transaction `settle` was called in;
`FailGet`, `FailMark`, `FailRelease` are 259-268; `MarkGet`, `MarkReplace` 277-281;
`ReconcileGet`, `ReconcileRelease` 320-336. `Lapse` lets the window pass or the
standing, approval or policy stop holding; `Crash` stops a worker, or lets a storage call
throw, at any await. Callers have **no discipline**: any worker may settle or fail any issued
claim, with any outcome, several at once, and a supervisor may mark and reconcile at any
time, with or without an assurance. What it may not do is lie about the effect: an
observation is of the effect and record at one instant (`ReconcileCall`).

A settlement's signature, the receipts' identifiers and times, HTTP statuses and codes
are left out: a receipt is who settled and with which outcome. Errors of misuse
(`AriaUsageError` for another receiver's admission, a used one, another ledger's claim)
leave before any effect and are guards, except `no_operation` of `resume`.
`SettleCommit` needs `replace`'s condition to hold at the commit too, as a database's
row lock or serialisation check gives it; the doc at 55-61 asks for that ("runs in the same
transaction as the business effect").

Bounds. Revisions and histories need none: an attempt is used once, so a run of `n`
attempts ends. Deadlock is not checked in these runs for the same reason: a system whose
attempts are all used and whose claims are all ended has really stopped.

Fairness (`FairSpec`): weak fairness of `Step(c)`, the continuation of a call in flight. A
promise that settles resumes its function; storage that never answers is a `Crash` (its
error). No fairness is given to callers: nobody need ever call `fail`, `settle` or `reconcile`.

### Properties of the ledger, and the mutants that break them

| property | says | broken by |
| --- | --- | --- |
| `ImplementsOnce` | refines `OnceOperation`: one holder, settled by the holder, nothing after a final outcome | a commit that does not check the record |
| `OutcomesRecordedOnce` | stored receipts = committed receipts; only the last may be final | `replace` that accepts any claim |
| `ClaimEndsByRight` | a claim ends by its own attempt or by an assured reconcile that read it marked | `replace` that compares the revision only |
| `FinalIsFinal` | a final record never changes; revisions of a record with receipts only grow | `remove` that compares the revision only |
| `AnswersAgree` | an answered outcome is committed; a final answer is the record for ever | `remove` that compares the revision only |
| `AnswersAreAdmitted` | a claim or stored outcome leaves only while the admission holds | the answer without the second judgement (224) |
| `CallsReturn` | every call returns or throws | a `fail` that retries until its release succeeds |
| `LedgerInv` | the inductive invariant, with the types and `OneContent`: all outcomes come from attempts with the record's fingerprint | a mark without a new revision |

### OperationTracker

| variable | in the code (`receipt.ts`) |
| --- | --- |
| `sent` | `sent` and `receivers` |
| `current`, `terminal` | `current`, `terminal` (the receipt instead of its digest) |
| `kept`, `ids` | `kept`, `ids` (statements instead of their digests) |
| `call` | calls of `observe` and `observeLookup` in flight: what is left to observe, what was checked |

A receipt is its signed content, so equality of records is equality of digests. The set
`Signed` holds what receivers signed, whatever it is: several ends, one id on several
contents, other operations. `Check(o)` is `observe` up to the await at 226 with the
bindings of `checkReceipt` (`internal/receipt.ts` 237-250), `Apply(o)` is the code after it;
other calls' steps fall in between. `ObserveLookup` takes
one of `Histories`, repetitions included, which its loop observes one after the other. Receipts
that do not parse or verify change nothing (227), so they are not in `Signed`; the
value `observe` returns is left out, as it only reports the step.

| property | says | broken by |
| --- | --- | --- |
| `StateIsTheEvidence` | contradicting receipts are always told; otherwise the state is what the set of receipts kept says, whatever their order | comparing two ends by their outcome, not their digest |
| `NeverMovesBack` | a state is left only towards a later one; `inconsistent` for ever | an `accepted` that overwrites the state |
| `EvidenceIsBound` | all that is kept is this operation's, by the receiver its attempt was sent to | the digest alone selects |
| `DeliveredIsKept` | a receipt that names an attempt recorded, once given to the tracker, is kept in the end | a failing receipt that ends the loop of `observeLookup` |

Fairness: weak fairness of `Step(o)` only, the continuation of a call in flight
(`verifyReceipt` settles); none for who delivers receipts. No run stops: calls can always be
made, so deadlock is checked.

### Presentation

| variable | in the code |
| --- | --- |
| `store` | `#challenges` of `MemoryChallengeStore` |
| `identity` | what each identity request got: a challenge, a refusal at the limit; `forgotten` after a restart |
| `delivery` | the calls of `authenticate`: where each waits, with its request and receiver |
| `now` | the clock, of the receiver and of its store alike |
| `issuer`, `consumer` | history: who issued each challenge and until when; who consumed it |

A challenge stands for the one identity request that may be given it (it is 16 random
bytes). A request is what it was signed over: challenge, `created`, `expires`, and whether
the credential it names resolves to the key that signed it (`genuine`: lines 283-291 of
`internal/request.ts`, whose two reasons are one here). The same request may be delivered
several times, to several receivers. `Present` is `authenticate` up to 267 (of the tests
there only the window depends on state), `ChallengeLive` is 268, `Resolve` is 283-295,
`Consume` is 296 with `consume` (`challenges.ts` 39-43), `Answer` is 297-312. `Tick` may
fall anywhere. `Identify` is `issue` with its purge and its limit. `Restart` loses the
deliveries in progress and the store, which is in memory.

| property | says | broken by |
| --- | --- | --- |
| `OncePerChallenge` | of all deliveries over a challenge one at most is verified | a `consume` that trusts the earlier look |
| `VerifiedNow` | verified = window open now, key the credential's, challenge this receiver's | no test of the window after the wait for the store |
| `OnlyGenuineConsumes` | a live challenge leaves the store only through a genuine request over it (or a restart) | consuming whoever signed |
| `RefusedAtLimit` | no challenge is refused while fewer than the limit are live | no purge before the limit is tested |
| `PresentationInv` | the inductive invariant: types, where each challenge is, and `RefusedForCause`: refused for the challenge only if it is over, consumed by another, or forgotten | a purge that empties a full store |

Everything in this model happens once (deliveries, identity requests) and time ends at
`MaxNow`, so it stops and deadlock is not checked. It has no liveness property: a
delivery waits on nothing but its own awaits, and a lost one is simply not answered.

### CredentialStatus and Admission

| variable | in the code |
| --- | --- |
| `now` | the clock of verifier and receiver |
| `withdrawn` | the issuer's doing: when each credential was revoked or superseded |
| `asked` | `boundedGet` calls of `fromOnline` in flight, with the issuer's answer once given |
| `status` | the `StatusSnapshot` each call of `checkStatus` returned |
| `attempt` | each call of `admit` or `admitLookup` and what followed: its input, its evidence, its last judgement |

The issuer signs a list at some instant, may date it up to the skew ahead, and the verifier may
receive it at any later one (a cache, a slow issuer, a list fetched again): `FromStatusList`
takes any `signed <= now`, and judges it as 131-136 of
`src/sdk/aria-ts/src/internal/check-status.ts` do, at the clock read after all the work. An
online request is three steps (asked, answered, observed); the evidence is dated when
it is observed. `FetchFails` is every way to end with `unavailable`. `Standing` is
`internal/standing.ts` line by line. It takes the instant as a parameter, as the code does, and so
do the rules: a judgement is a function of its input and of `now`.

`Rules` lists the tests of `evaluate` (`internal/policy.ts` 43-79) in their order, `Judge` puts
the deadline first (`internal/judge.ts` 15). `Admit` is `admit` up to the adopter's
`authorize`, `AuthorizerAllows` is the second judgement after it (206-208 of `ap.ts`); `Use`
and `Claim` are the ledger's judgements before and after it writes a claim (`operations.ts`
210, 218), `CallLookup` and `Release` those of `lookup` (342, 345). Anything may pass between two
of them. `OperationLedger` takes these judgements as a variable that lapses once and stays so;
`LapsesForGood` is what entitles it to.

| property | says | broken by |
| --- | --- | --- |
| `GrantedByEveryRule` | an admission, a claim, released data: all conditions documented hold at that instant | an authorizer's answer that ends the admission |
| `WithdrawalTakesEffect` | nothing is granted later after a withdrawal than the evidence's largest age plus the skew (list) or the time-out (online) | a list whose age counts from its retrieval |
| `RefusalIsTrue` | "revoked", "superseded", "expired" are said of nobody else | evidence of any credential will do |
| `LapsesForGood` | refused or expired once, never allowed again; expired stays expired | the rules before the deadline |
| `AdmissionInv` | the inductive invariant | a request that is not bounded in time |

Assumed: one clock that does not go back; the injected `fetch` honours its abort signal, so that an
answer observed is at most the time-out old. What withdraws a credential is the issuer, which does so
once and answers truthfully; a lying issuer is outside what these properties say. The form of
documents and lists is `CredentialVerification`'s. Everything happens once and time ends at `MaxNow`:
deadlock is not checked, and nothing is claimed of liveness (`admit` waits for the adopter alone).

### RequestForm and Signing

| variable | in the code |
| --- | --- |
| `now`, `drift` | the agents' clock, and how far the receivers' is ahead of it |
| `challenge` | a challenge: the nonce and the agent it was issued for, when, when its statement was dated, whether it was consumed |
| `client` | one attempt of an agent: the statement it goes by, how long the receiver's status holds, what it signs |
| `taken` | what the receiver made of the request that consumed each challenge |

`RequestForm` has both ends of a request as operators: `SignedRequest` is what `prepareSignature` and
`signRequest` put together (`internal/request.ts` 57-166), `Authenticate` the receiver's tests in their
order (169-313), `FormTests`, `CoverTests`, `ProofTests` stage by stage, and `Authenticated` the
presentation returned. A digest is the content it is of, a signature the key and the base; field values are
taken as they arrive, without surrounding white space.

`Issue` and `State` are `identify` (`ap.ts` 258-277) around its store's await; `CheckIdentity` is
`checkIdentity` (`internal/identity.ts` 41-64) up to the await of the standing, `Stands` and
`DoesNotStand` what comes of it (65-69, `ap.ts` 290-297); `SignRequest` and `Signed` are `signRequest`
(310-370) around the signer's await. `Deliver` is `verifyPresentation` in one step, since its awaits are
`Presentation`'s subject. The network answers a client with any statement ever signed, with any document, or
with one made to fit it that nobody signed; it keeps requests and changes each part of them
(`MCAltered`); only the holder signs with its key.

| property | says | broken by |
| --- | --- | --- |
| `SignedIsAccepted` | what an agent signs is accepted while its challenge lives and its window is open, if both describe the operation alike | covering the components of the class and not the headers present |
| `VerifiedIsCurrent` | verified = the pinned receiver's own statement, to this client, not too old, and its status holds now | no test of the age after the wait for the status |
| `LeavesUsable` | a request leaves only with a current receiver and inside its window, on either clock | no test after the wait for the signer |
| `SigningInv` | the inductive invariant, with `AcceptedIsMeant`: what a receiver makes of an accepted request is what its agent meant, for this receiver, content and all | a digest that is only asked to be there |

`Agreed` is the condition of `SignedIsAccepted`: an agent with another idea of the class, the media
type or the query is refused, and rightly; so is one whose credential the receiver does not accept. `Meant` drops the header fields that the agent chose not to declare
semantic: the receiver then sees them unsigned, and its fingerprint says so.

### CredentialVerification and Receipts

| variable | in the code |
| --- | --- |
| `self` | the receiver's credential in use, which renewals change |
| `kept` | the client's `AttemptRecord`s |
| `outcome` | the state of each operation's record |
| `signed` | the receipts that the receiver's key signed |
| `revoked`, `lists` | the registry: when it revoked each credential, and the lists it signed |

`CredentialVerification` is `verifyCredentialDocument` with its composite signature, the profile's tests and
the validity (`src/sdk/aria-ts/src/internal/verify-credential.ts`), `readList`
(`internal/check-status.ts` 66-128) and what the verifier returns of both: facts about now, or historical
facts that say nothing of now. `BuildAttemptRefusal` and `Settle` sign receipts (`ap.ts` 240-256,
`operations.ts` 230-250); `CheckReceipt` is `internal/receipt.ts` 207-251 in its order, `VerifyReceipt` and
`VerifyHistoricalReceipt` are `ap.ts` 372-404. The network (`Wire`) answers with any receipt signed so far,
whole, cut off, of another type, with each part changed, or signed anew by another key; the client retains
documents and lists, genuine ones and others.

| property | says | broken by |
| --- | --- | --- |
| `ReceiptsInv` | types, and `AcceptedIsSigned`: what a client accepts was signed for that very attempt and receiver, under the status it states, or is retrieved and the operation's | selecting the attempt by digest, without its bindings |
| `SignedIsAccepted` | whatever the receiver signs under the credential of the attempt is accepted | a status compared in retrievals too |
| `HistoryAgrees` | long after, a receipt passes with its document exactly if it passed then, expired or revoked | a validity that is always judged |
| `FindingsTrue` | the findings reported beside it are so: within validity, revoked or not when the list began, and of that credential | any list of the issuer |
| `VerifiedIsIssued` | a document passes only if the registry issued that content | either half of the composite signature |

### Exchange and ConformanceReference

| variable | in the code |
| --- | --- |
| `client`, `tracker` | the loop of `examples/agent-client.ts` (its place, its try, the history it observes) and its `OperationTracker` |
| `sent`, `answers` | the network: it keeps everything, so everything may be lost, late or repeated |
| `handled` | how far `examples/protected-handler.ts` is with each request |
| `record` | the operation's `StoredOperation` |
| `moved` | how often the protected effect happened |

The handler's stages are 41-88 of `protected-handler.ts`: `Authenticate`, `Refuse`, `Claim`,
`Existing`, `Commit` (effect and outcome in one transaction), `Respond`, and the ways its transaction fails:
`Fail` (rolled back, or unknown), `RollBackSettled` (rolled back after `settle` returned: the claim object is
spent, see `LedgerRolledBack`), `CommitUnseen` (committed, and its answer lost). `Crash` stops it at any
stage. The client's are 27-80 of `agent-client.ts`. The supervisor marks and reconciles any claim, with the
assurance `transactional`: it cannot tell a dead worker from a slow one. A call of the ledger is one step here;
that its awaits interleave without harm is what `OperationLedger` shows, and the receipts' checks are those of
`Receipts` and `OperationTracker`. Two things go beyond the example: the receiver may settle `accepted` and
`resume` on a later attempt (`API.md` 189), and a request may be refused at admission at any time.

| property | says | broken by |
| --- | --- | --- |
| `EffectOnce` | the effect happens at most once, and has happened exactly if the record is `completed` | a settle that finds a claim, not its own |
| `ClientAgrees` | a final state of the client is the record's, `accepted` was recorded, nothing sent means nothing happened; never `inconsistent` | answering settle's outcome before the commit |
| `ImplementsReference` | every step is one of the reference model, or none of its business | releasing a continued operation to no record |
| `ClaimsEnd` | no claim holds the operation for ever, whatever became of its worker | a supervisor of marked claims only |
| `ClientEnds` | the client's loop ends | a failed try that is not counted |

`ConformanceReference` is translated from `src/conformance/ap/model.mjs`, from whose sequences the
vectors for every implementation are drawn. That `Exchange` implements it says that the documented
composition under faults shows nothing that the vectors' model forbids.

Fairness: weak, of the client (each of its waits ends: a request has a time-out), and of the supervisor's two
steps (it "comes round"). None for the handler, which may stop anywhere. The client stops in the end,
so deadlock is not checked.

### OfflineVerifier

| variable | in the code |
| --- | --- |
| `now`, `drift` | the registry's clock and how far the verifier's is from it |
| `keys` | the registry keys in force (`registry-key.ts`) |
| `issuedAt`, `revokedAt` | the registry: credentials issued, renewed (which revokes the one before), revoked |
| `call` | the check of a status in flight, with the answer once given |
| `last` | what the caller keeps of its last check that said "active" |

`VerifyAgent` is `verifyAgent` (`verify.ts` 214-447) with `parseCredential`, the three forms of the composite proof,
and `EvaluatePolicy` (87-163) with the presets. `CheckCredentialStatus`, `CheckRevocation`,
`ListAnswered`, `OnlineAnswered`, `DidAnswered` and `Abort` are `status.ts` 76-287 and `revocation.ts` 77-125
around their awaits. The registry may be asked at one instant and answer at another; lists
are kept by the network and handed out later. A document that reads "active" was verified first, and only such
a check is kept. Hours are scaled (fifteen minutes 0, one hour 1, a day and a list's longest validity 2).

| property | says | broken by |
| --- | --- | --- |
| `OfflineInv` | types of every result, and `ValidIsIssued`: valid = the registry issued this very content, signed with both keys in force, and it has not ended | the signatures that the document states |
| `ActiveIsRecent` | "active" was so during the call (online), or at most a list's validity ago; of a DID, for a credential of it | an online answer about the DID taken for the credential |
| `PolicyIsFresh` | a policy with a largest age passes no credential revoked longer ago than that age and the evidence's | an age that is not measured |
| `CheckEnds` | every check of a credential's status ends | an abort that works only before the answer |

Fairness: weak, of `Abort` only, which is a timer.

## 3. Runs

| run | instance | states | what it shows |
| --- | --- | --- | --- |
| `LedgerRace` | 2 attempts (one lapsing), 2 workers' calls, `FairSpec` | 150 thousand | every race of claiming, settling and failing; refinement; answers only on a current admission; every call returns |
| `LedgerRecovery` | 3 attempts (one of other content, one lapsing), 1 worker's call, 1 recovery call | 720 thousand | the inductive invariant and the history properties through continuations, conflicts, uncertain marks and reconciliations |
| `TrackerOrder` | 3 attempts (one of another operation) for 2 credentials, contradicting receipts, 2 calls, `FairSpec` | 84 thousand | the state is the evidence's, in every order and interleaving; bindings; a bad receipt hides no good one |
| `PresentationRace` | 2 challenges, 2 deliveries, 2 receivers, 5 requests, limit 1, lifetime 2, window 2, skew 1, instants 0 to 5 | 320 thousand | copies, forgeries, expiry in every wait, the limit, restarts |
| `Admission` | 2 credentials (one not yet valid and delegated), 1 call of `checkStatus`, 13 inputs, ages 2 and 1, skew 1, time-out 1, instants 0 to 6 | 1.5 million | withdrawals, late and predated evidence, lapses in every wait, every rule |
| `Signing` | 2 clients, 2 receivers, 2 challenges, 4 operations, 9 inputs, every part of a request changed, drift 1 second either way, instants 0 to 5 (half seconds) | 268 thousand | requests of every class, from the identity request to what the receiver makes of them |
| `Receipts` | 2 attempts, 2 credentials of the receiver, 10 retained documents, 1 list, instants 0 and 1 | 19 thousand | every receipt altered in every part, at once and historically |
| `Exchange` | 2 tries, all three settlements | 28 thousand | the whole exchange under loss, repetition, crashes, roll-backs and a hasty supervisor |
| `Offline` | 3 credentials of 2 DIDs, every form of document, policy and answer, drift 1 either way, instants 2 to 4 | 55 thousand | the historical verifier against a registry that changes |

Why that is enough for the ledger: two calls in flight exhibit every two-party race on one
record, and a recovery call every race with a supervisor; three attempts are the
least for accept, release of a continuation and a second continuation; two fingerprints the
least for a conflict. `Settlements` has `accepted` and one final outcome per run, as
`completed` and `rejected` are treated alike. The theorems then hold for all sizes.

For the tracker, two calls in flight give every race between a check and an application, and
`Contradictions` holds each kind of pair: a continuation, two ends, one id on two operation
receipts, one id on an end and a refusal. For authentication, a challenge can be contended by
two deliveries and a limit of one is reached by two identity requests; five instants let a
challenge of lifetime 2 be issued late, expire in any wait and be purged by the next.

For admission one attempt and one piece of evidence are enough: attempts share nothing but the
clock and the issuer, and an attempt uses the evidence it was given. A list validity of 4 is over its
limit of 3, one of 2 ends before its largest age can matter when it is dated early; six instants let
a credential of validity 2 to 5 begin, be withdrawn and end.

For signing, two clients with different pins are the least for a statement or request that reaches the
wrong one; a second is two ticks, so that truncation shows; a statement lives 2 and a challenge 3, so that each
ends before the other in some wait. For receipts, two attempts of one operation are the least for a
receipt that fits the wrong one, two instances for a renewal, and one list each of which may be asked for the other's
credential; the properties judge single receipts. For the exchange, two tries are
the least for a retry whose first attempt is still running; `accepted` makes the second a continuation.
For the historical verifier, a renewal needs two credentials of a DID and a mistaken identity a third of another.

Three runs show where a comment or a document promises more than the code does (the runs find the
statement violated):

- `LedgerRefusal`: "an authenticated refusal of one attempt, which neither claims nor changes
  its operation" (`operations.ts` 91-92). At line 371 the boolean of `undo()` is dropped. If a
  supervisor marked the new claim between `create` and the undo, the conditional delete
  fails, the attempt is refused and its claim stays, held by nobody. Recovery then needs
  `reconcile` with an assurance; no outcome is lost.
- `LedgerRolledBack`: "The effect's transaction rolled back: nothing happened. The claim is
  released" (line 119). When the rollback comes after `settle` returned, the claim object is
  already in `#spent` (line 248), `fail` throws `StaleClaim`, and the claim stays until a
  supervisor marks and reconciles it. This is the path of the example handler when the commit
  itself fails cleanly (`protected-handler.ts` 69-85); `ClaimsEnd` holds because the supervisor comes round.
- `TrackerSharedId`: "the same `id` with other content is also `inconsistent`"
  (`src/sdk/aria-ap-ts/API.md` 226-228; `receipt.ts` 181). An attempt refusal returns at
  line 232, before the test of its id at 233: after an operation receipt, a refusal with its id
  leaves the state as it was, while in the other order the state becomes `inconsistent`.
  This is also why `StateIsTheEvidence` is stated for operation receipts.

Divergences and limits met while modelling, which the models follow and no run is spent on:

- `operations.ts` 267 against the comment at 36: `fail(claim, 'rolled-back')` releases a claim that is marked
  uncertain; "only `reconcile` with an assurance releases it".
- `operations.ts` 327 against 317-318: an observation made before its worker settled throws
  `InvariantViolation`, where "an observation of an earlier generation throws `StaleClaim`".
- `operations.ts` 238: a receipt names the receiver's present credential. After a renewal between attempt and
  outcome it is not the one the attempt was signed for, and the client, which compares them, cannot use the
  receipt. `SignedIsAccepted` of `Receipts` is stated for the credential of the attempt.
- `verify-ts`: `requireRevocationCheck` passes a credential never checked when `maxOfflineAge` is null
  (`types.ts` 226), or when none was ever made under the presets of `policies.ts`; a
  `lastRevocationCheck` of 0 counts as none; `validFrom` is never judged, and at `validUntil` itself
  a credential is still valid (`parse.ts` 113); a failed policy leaves `valid` true, and with
  `skipSignatureCheck` `valid` says nothing of signatures (`types.ts` 19); the time-out of `checkRevocation` is
  cleared before the body is read (`revocation.ts` 94; five seconds at 51). `PolicyIsFresh` and `OfflineInv`
  say what holds.

## 4. Proofs

### The ledger

Assumptions: `NoneAssumption`, `FingerprintAssumption`, `BoundsAssumption` of
`OperationLedger`: `None` is nobody's name, every attempt has a fingerprint, and the
instance's subsets are subsets. Nothing about sizes.

`LedgerInv` is the strengthening. The properties speak of the stored record, but a step
writes what some call read earlier, so the invariant must say what an old read is worth:

- `FreshClaims`: an attempt that has not written its claim has left no trace anywhere, so the
  claim id it writes is new. This is what keeps a generation apart from an earlier one whose
  revisions were the same.
- `ReadsFit`: what a call holds fits where it waits (the claim it settles is its own...).
- `ReadsPrecede`: a claim read earlier, if it is still the stored one, has the same
  receipts and content, and is equal to it if the revision is; a record with receipts read
  earlier is never followed by fewer. So a compare-and-set that succeeds writes from the
  record as it is.
- `ClaimsAreCurrent`: an issued claim object, if it is still the stored claim, carries its
  receipts. This is why `settle` may build the new record from the claim object (line 246).
- `HistoriesFit`, `ContentFits`: only the last receipt may be final, a claim continues
  accepted receipts only, and claim, record and outcomes have one content.

`OperationLedger_proofs` proves `Init => LedgerInv` and, one lemma per action and per part,
`LedgerInv /\ [Next]_vars => LedgerInv'`. Its last part concludes:
`InvariantHolds`, `TypeCorrect`, `OutcomesAreRecordedOnce`, `OperationHasOneContent`,
`FinalOutcomeStays`, `ClaimIsEndedByRight`, `AnswersAlwaysAgree` (with `SeenCommitted`, inductive
relative to `LedgerInv`), `LedgerImplementsOnce`, the refinement: the initial state
maps to `AInit`, each step to `Claim`, `Release`, `Settle` or a stutter; and `AnswersAreAlwaysAdmitted`, where
`ReadsFit` is needed once more: an undone claim is answered with the verdict that undid it, never with a claim.

Only model-checked: `CallsReturn` (liveness under fairness, which needs ENABLED).

### The tracker

Assumptions: `SignedAssumption` (a receipt has its fields; an attempt receipt is a refusal,
as `wellFormed` of `internal/receipt.ts` demands), `NoneAssumption`, `HistoryAssumption`. `TrackerInv` is
`TypeOK`, `Explained` (the governing receipt is kept, is the only end when the state is not
inconsistent, and an inconsistent state has its two witnesses) and `BoundInFlight` (what is
checked and not yet applied is bound; attempts are never dropped, so it stays so while its
call waits). `ApplyExplains` splits on the branches of lines 233-242.
`StateAlwaysIsTheEvidence`, `EvidenceIsAlwaysBound` and `StateNeverMovesBack` follow.
Only model-checked: `DeliveredIsKept` (liveness).

### Authentication

Assumptions: `RequestsAssumption`, `TimesAssumption` (lifetimes and bounds are naturals),
`NoneAssumption`. Nothing about the times a sender writes. `PresentationInv` is `TypeOK`,
`Accounted` (a challenge is in the store as it was issued, or is over, forgotten, or consumed
by a delivery that carries it), `Passed` (a delivery past the consumption is its
challenge's only consumer) and `RefusedForCause` itself. `MoveInv` is shared by the steps
that change nothing but a delivery. `ChallengeUsedOnce`, `RefusalsHaveCause`,
`OnlyGenuineAlwaysConsumes` and `AlwaysVerifiedNow` follow, and `AlwaysRefusedAtLimit`: what the purge leaves is
exactly what is live, so the limit counts nothing else. All properties of this part are proved.

### Admission

Assumptions: `TimesAssumption`, `StatusNoneAssumption`, `InputsAssumption`, `AttemptsAssumption`:
times are integers, bounds naturals, a rule allows or denies. Nothing about the order of the
bounds. First come facts about judgements, for every input and instant: the ordered rules allow
exactly what the unordered conditions allow (`JudgeAllows`), what a judgement blames is so
(`JudgeBlames`), and what is allowed later was allowed earlier once the validity has begun
(`AllowedBefore`). `AdmissionInv` adds to the types what evidence is worth: an active list is
dated at most the skew after a later withdrawal, an active online answer at most the time-out after it
(`Sound`); a withdrawal it tells of happened (`Truthful`); it is not of the future (`Dated`, without which
a withdrawal of this instant would break `Sound`). `AnswersSound` says the same of
answers under way, `Going` that an attempt that goes on was allowed once, so its validity
has begun. `FineKept` shows that no step makes evidence unsound, `Moved` that an attempt moves only by
a judgement of that instant. From these: `EveryGrantIsAllowed`, `WithdrawalAlwaysTakesEffect`,
`RefusalsAreTrue`, `AdmissionsLapseForGood`. All properties of this part are proved.

### Signing

Assumptions: `PartiesAssumption`, `UuidsAssumption`, `ProfileAssumption`, `NoneAssumption`: clients, receivers and
challenges have names, descriptors are those `checkDescriptors` lets pass (and name no field `@method` or
`@target-uri`), bounds are naturals, a second is at least one tick. Nothing about the network, which may
alter any part of what it carries (`Altered` is a constant operator).

The first half of `Signing_proofs` is about requests. `NoneFails`: an ordered list of tests that comes to "ok"
has none that fails; `FormHolds` and its companions read off what an accepted request then satisfies, and from the
base that was signed follows that it says what its agent meant. `SigningInv` is `TypeOK`; `Answered`: a client that is past its
checks goes by a statement signed by the receiver it pinned, over its own nonce, for a challenge that was issued
to it; `Signs`: what it is about to sign carries that challenge, digest and window; and `AcceptedIsMeant`.
`SigningInvariantHolds`, `AcceptedIsMeantHolds`, `VerifiedIsCurrentHolds` and `LeavesUsableHolds` follow.

`SignedIsAlwaysAccepted` is the converse of the first half: a request as `signRequest` makes it (`Made`) passes the
form (`FormPasses`), the coverage and the window (`CoverPasses`), and the challenge, credential and signature
(`ProofPasses`), so `AuthenticatePasses`. It uses `Signs` for the request and `Answered` for the origin, which agent
and receiver otherwise read from different places. The attempt at the proof showed that the property
had left out one condition which the instance happens to meet: the agent's credential must be `acceptable` to the
receiver. It is now stated. All properties of this part are proved.

### Receipts and credential documents

Assumptions, beyond types and bounds: the registry issues documents that pass its own verifier, and the lists it signs
are well formed and say of each index whether that credential is revoked (`DocumentsAssumption`, `ListsAssumption`: what
its issuer is trusted for, and outside the code modelled); and nobody else signs
with a key of a profile or of a receiver, so that what the network makes of a signed thing has its signature from
that thing or none that verifies. A receipt that reads has the members the parser asks for (`NetworkAssumption`,
`Shaped`). Otherwise the network, the retained documents and the altered lists are arbitrary.

`Receipts_proofs` first turns each ordered list of tests into the conjunction it stands for, with *exactly if*:
`ReadIff`, `KeyIff`, `BindingIff`, `ModeIff` and from them `CheckIff`; `ShapeIff`, `ProvenanceIff`, `ValidityIff` and
`VerdictIff` for documents; `ListReads`; `HistoryIff`. So the theorems can conclude that something is accepted as well as
what follows if it is. The inductive part of `ReceiptsInv` is `SignedInv` (every receipt signed is genuine: of a
kept attempt, of the instance that then was in use, dated, and of an outcome that the operation's record still bears out) and
`ListsInv` (every list signed at `t` says who was revoked at `t`, to the instant). `SignedInv` is what makes
`AcceptedIsSigned` hold through renewals: the key is looked up under the credential the receipt names, and that
instance signed it. `ListsInv` is needed since a revocation of the present instant may or may not be in a list of that instant, so a
list of `t` is true of `t` although the registry goes on within `t`.

`ReceiptsInvariantHolds`, `SignedIsAlwaysAccepted`, `VerifiedIsAlwaysIssued` (`SameDocument`: documents that agree in
what is signed agree in all that is judged), `HistoryAlwaysAgrees` (`LiveThenLater`, `LaterThenLive`) and
`FindingsAreTrue`. All properties of this part are proved.

### Exchange

Assumptions: `TriesAssumption`, `SettlementsAssumption`, `NoneAssumption`. The number of tries is any.
`ExchangeInv` is inductive: `TypeOK`; `RecordFits`: a record is claimed or says what its last receipt does, and only
that receipt may be final; `Reached`: nothing is handled, claimed or committed that the client did not keep and send
first; `EffectOnce`; `AnsweredIsRecorded`: what anyone was answered with is recorded; `Founded`: what the client goes by, and
what it has still to observe, is recorded. The parts lean on one fact, proved first: what is recorded
stays recorded (`RecordNext`), since a release to no record happens only without receipts. That there is one final
receipt at most (`FinalsAgree`) then excludes `inconsistent`. `EffectHappensOnce`, `AnswersAreRecorded`
and `ClientAlwaysAgrees` follow.

The rest of `Exchange_proofs` proves the refinement, `ExchangeImplementsReference`. `AbstractNoneAssumption` is added: `None` is no
record of the reference either. The reference sees `Consumed`, `AbstractRecord`, `moved`, `AbstractReceipts` and
`AbstractClient`; one lemma for each step of the reference says when a change of these is that step (`SettlesStep`,
`ReleasesStep`...), one for each kind of step of the code says what it does to them (`CommitRefines`, `ReleaseRefines`...). An answer
that is sent changes nothing there: the reference delivers it when the client observes it (`ObserveRefines`, where
`FinalsAgree` shows that comparing labels, as the reference does, and comparing receipts, as the tracker does, come to the same).

Only model-checked: `ClaimsEnd`, `ClientEnds` (liveness).

### The historical verifier

Assumptions: `ClocksAssumption` (times and bounds are integers; no bound on the drift), `PoliciesAssumption` (a policy says
whether it requires a check, and within what age), `DocumentsAssumption`: the documents the registry issues are
well formed, credential ids are not shared, it starts with one credential of each DID, and a document a holder
makes has a registry key's signature only over what the registry signed; `ListsAssumption` likewise: a list has the bit of
everyone who was revoked when it was signed, and an altered one has its signature from it.

The inductive invariant is `StateOK`, `NewestIsIssued`, `AnswerInv`, `ListInv` and `ActiveIsRecent`. What a caller keeps
was decided by an answer read earlier, about a registry that had moved on when the answer came, so:

- `AnswerInv`: an answer in flight that reads "active" was true at an instant since its request
  was made (`InForceSince`); so the time-out bounds its age when it is kept.
- `NewestIsIssued`: the registry answers for a DID by its newest credential, which must exist; renewal
  revokes the one before, so "the newest is in force" is what the answer says (`AnswerIsTrue`).
- `ListInv`: a list that said "active" is not from the registry's future by more than its validity, or
  a later revocation could fall before what the list is worth.

`ListEstablishes` carries the lists: one that verifies under the keys in force is one the registry signed in the past. `ValidDocument`
and `SameParsed` show that what verifies is issued content, at every state and without induction. From these
`OfflineInvariantHolds`, `ActiveIsAlwaysRecent` and, by what a met policy must have tested (`AgesPass`, `PolicyPasses`),
`PolicyIsAlwaysFresh`. Only model-checked: `CheckEnds` (liveness).

### What is only model-checked

Every invariant and every action property that a run checks is proved. Liveness under fairness is beyond the
prover: `CallsReturn`, `DeliveredIsKept`, `ClaimsEnd`, `ClientEnds`, `CheckEnds` stay with TLC. So do the three statements
that the code violates, which have nothing to prove.

## 5. Not modelled, and the plan

Not modelled: byte encodings, canonical JSON, HTTP structured fields, multibase and
the signature algorithms (pure computations over data; a signature is modelled as who signed
what), JSON schemas and the OpenAPI contract (data formats), the conformance harnesses and the generators of
vectors (test equipment; their reference model is `ConformanceReference`), release scripts and CI.
Provenance (`WeakMap`s from SDK objects to their snapshots) is the models' identity of an
object and its snapshot. `boundedGet` is what its caller sees, a document in time or none.

Worth doing next: an abstract specification of `Presentation` (a challenge is accepted at most once, at one
instant of its life at which the request is current) which it implements, so that `Signing` may take a delivery for
one step by a theorem and not by the argument of section 2; and the same for `OperationLedger` and the one-step ledger of `Exchange`.
