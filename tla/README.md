# Formal verification of the KYC case-verification service

TLA+ models of the service in `src/` (a Python application whose package is
`src/src/`), the TLC configurations that check them on small instances, and
theorems about them that TLAPS checks for every value of the constants.
`PROJECT.json` has, for every definition that models code, the lines it models,
and for every property a mutation of the code it catches.

Paths below are those of the repository's tree: `src/src/review/store.py` is
package `src.review.store`.

## 1. The system

The service answers two kinds of request. `POST /v1/cases/{case_id}/verify` takes an
application by its id, reads its documents' texts, runs a chain of rule engines
and answers APPROVE, REVIEW or REJECT. The review endpoints open a human review
for a REVIEW decision and move it through a small lifecycle, with an audit trail,
in an SQLite file that a Streamlit console, a second process, shares.

### Inventory

| Part | Code | State | Operations | What is hard | What makes it correct |
|---|---|---|---|---|---|
| Review store | `review/store.py` | one sqlite3 connection and one `threading.Lock` per instance; tables `review_cases`, `review_audit_log` | `create_review`, `find_open_review_for_case`, `get_review`, `list_reviews`, `apply_transition`, `get_audit_log`, `purge_review` | threads on one connection, several processes on one file, implicit transactions never rolled back, crashes, the 5 s timeout | status and audit trail agree and commit together; rows only appended; terminal states final; every lock released |
| Review lifecycle | `review/models.py` | none (`ALLOWED_TRANSITIONS`) | the transition table | – | every recorded history is a run of the lifecycle |
| Review workflow | `review/workflow.py`, `review/__init__.py` | the lazily created default store | `open_review_case`, eligibility, priority | find, then create, in two critical sections; the default store created without a lock | one open review per case; one store in a process |
| Reviewer summary | `review/summary.py` | none | prose about a result | – | – |
| HTTP application | `app.py` | the two module-level singletons below | endpoints, exception handlers, correlation middleware, lifespan, readiness | sync endpoints run on a thread pool, so every handler races every other one; an exception may leave any span, the middleware too | every request answered, with the answer of its own error; "ready" only with an open store |
| Transition endpoint | `app.py: transition_review` | – | rate limit, idempotency, transition | retries overlapping their first attempt; expiry and restart between them | one key, one transition, one answer |
| Rate limiter | `security/limits.py` | `_hits`, a lock | `check` | the clock is read outside the lock | no window over the limit; no refusal without cause |
| Idempotency cache | `security/idempotency.py` | `_entries` with times, a lock | `get_or_compute` | the lock is held across the store's work; errors in `compute` | nothing cached of a failure; lock always freed |
| Authorization | `security/auth.py` | credential table, built once | `authenticate`, role check | – | a role only through a credential |
| Identifiers, redaction, logging | `security/*.py`, `observability/logging_config.py` | none | string functions | – | – |
| Case verification service | `service.py`, `repository.py`, `ocr.py` | the record of one request | `verify_case` | any stage may end it early | the decision follows from the inputs |
| Parser and legacy rules | `parser.py`, `rules.py`, `policy.py` | none | `parse`, `evaluate` | repeated labels, boundaries | agree with the newer rules |
| Document intelligence | `document_intelligence/` | none | classify, quality, evidence | – | every field's evidence is what the text says |
| Evidence validation | `evidence_validation/` | none | per-document rules, duplicate types | boundaries of dates | no finding lost |
| Identity resolution | `identity_resolution/` | none | compare sources pairwise | similarity that depends on argument order | contradictions not outvoted |
| Text normalisation | `identity_resolution/normalization.py` | none | string functions | – | – |
| Fraud signals | `fraud_signals/` | none | document and case signals | – | no finding lost |
| Decision policy | `decision_policy/` | none | risk factors, decision | severity and hard stop set separately in many places | REJECT exactly on a hard stop |
| Evidence scoring | `decision_policy/scoring.py` | none | two descriptive numbers | – | no decision reads them |
| Provider resilience | `providers/` | none | `call_with_retries`, null providers | retry and timeout | called by no stage at this commit |
| Tracing and context | `observability/context.py`, `tracing.py` | `_current_span_id`, one dictionary for all threads; the context of a request | `start_span`, bind and reset | spans of overlapping requests; every way out of a span | the spans of a request are its call tree; nothing is left in the dictionary |
| Metrics, lineage, versions | `observability/` | counters, each behind a lock | increments, records | errors are counted in two places | the counters agree with the answers and the traces |
| Streamlit console | `ui/app.py` | its own process and `ReviewStore` | open, form submission, rerun, over the same workflow functions | no lock shared with the API; the script restarts at any interaction, on a page drawn earlier | one transition per submission, of the review it was made for; the store's promises across processes |
| Evaluation, scripts, tests | `eval/`, `scripts/`, `tests/` | none | offline | – | – |

### How the parts interact

Everything inside the API process is a call: endpoint → limiter → cache → store,
and endpoint → `verify_case` → the engines in a fixed order → `open_review_case` →
store. The limiter, the cache and the store each have a lock, and the only
nesting is cache → store. Processes interact through the SQLite file alone, with SQLite's
own locks. Nothing of the limiter or the cache is persisted.

## 2. The modules

| Module | Models | Lines it comes from |
|---|---|---|
| `ReviewModels` | lifecycle states, transition table, audit rows | `review/models.py` |
| `ReviewLedger` | *abstract*: an atomic ledger of reviews and their histories | what `ReviewStore`'s docstrings promise, in the terms of its two tables |
| `ReviewStore` | the store, statement by statement, and `open_review_case` | `review/store.py`, `review/workflow.py` |
| `ReviewStoreProperties` | its properties; `INSTANCE ReviewLedger` | – |
| `ReviewStoreInvariants` | their inductive strengthenings | – |
| `RateLimiter` | `check()` with its early clock reading | `security/limits.py`, `security/auth.py` |
| `TransitionEndpoint` | `transition_review` over limiter, cache and ledger | `app.py`, `security/idempotency.py` |
| `ApiServer` | lifespan, default store, middleware, exception handlers, spans, counters, readiness | `app.py`, `review/__init__.py`, `observability/`, the spans of `service.py` |
| `ReviewConsole` | the review panel's script, its buttons and its form, over the ledger | `ui/app.py` |
| `DocumentIntelligence` | parser, classification, quality, evidence | `parser.py`, `document_intelligence/` |
| `EvidenceValidation` | document rules, duplicate check | `evidence_validation/` |
| `IdentityResolution` | sources, comparison, worst status | `identity_resolution/` |
| `DocumentRules` | the older rules | `rules.py` |
| `FraudSignals` | signals of a document and of a case | `fraud_signals/` |
| `DecisionPolicy` | risk factors, decision, priority | `decision_policy/`, `review/workflow.py` |
| `CaseVerification` | the stages of a request, and opening its review | `service.py`, `app.py`, `review/workflow.py` |
| `CaseProperties` | what the decision promises of the inputs | – |
| `MC*` | the small instances | – |
| `*Proofs` | theorems | – |

`ReviewStore` implements `ReviewLedger`; `TransitionEndpoint` composes the ledger
with the cache and the limiter, and `ReviewConsole` with the console's scripts;
`ApiServer` is the process around the endpoints; the engines are operators that
`CaseVerification` runs in the order of the service.

### ReviewStore

*State.* `status` and `log` are the committed rows of the two tables,
`draftStatus` and `draftLog` the same rows as the open write transaction sees
them (SQLite admits one writer at a time, so one draft is enough; without a
writer it equals the file). `tx[s]` is the transaction of connection `s` together
with its lock on the file: `none`, `begun` (BEGIN issued, then the statement
failed), `shared` (a SELECT inside such a transaction), `reserved`, `pending`.
`lock[s]` is the instance's `_lock`. `pc`, `rev`, `want`, `seen` are each thread's
place and local variables, `reply` what its call returned or raised.

*Actions.* One per SQL statement, with the acquisition or the release of the lock
that stands next to it: `Find` and `Create` of an open; `Select`, `Update`,
`Insert`, `Commit` and the separate `Reread` of a transition; `DeleteLog`,
`DeleteCase` and `Commit` of a purge; `Read`. Where the code waits on the file,
`AwaitReaders` takes SQLite's PENDING lock and `CommitTimeout`, `ReadTimeout` and
`WriteTimeout` are the `OperationalError` after five seconds: the code has no
rollback anywhere, so they leave the transaction as it is, behind a released lock.
`Crash` kills a process between any two statements and restarts it on the file.

*Abstractions.* The snapshot and the free text of a review, timestamps and actors
are left out: no code branches on them, and histories are ordered by row id. Which of several open
reviews is the newest is left open. `uuid4` never returns an id twice. The lock is
taken together with the first statement inside it, which no other thread can tell
apart.

### RateLimiter

`now` is a thread's clock reading, `admitted` the history of admissions with the
time recorded and the time it really was, `hits` the indices the list `_hits[key]`
still holds. `ReadClock` is outside the lock; `Admit` and `RefuseCall` are the two
outcomes of the critical section. The clock is discrete, and stops at `MaxClock`.

### TransitionEndpoint

The store is the atomic ledger it is proved to implement while it has the file to
itself, followed by the separate read that makes `apply_transition`'s answer. The
limiter is the number of hits inside its window; `WindowMoves` lets any of them leave. The
cache has a lock, entries and the set of entries past their TTL, which are deleted
only when their own key is used. `Purge` and `Restart` may come at any point.
`applied` and `answers` are history variables: the keys whose transition was
applied, within the life of the process and of the entry, and what was answered
to requests with them. Authorization and the validation of the request come before
and change nothing.

### ApiServer

*State.* `phase`, `starts`, `default`, `created`, `closed` are the lifespan and the
module-level `_default_store`, instances being numbered. Of each request: what it calls
and its correlation id (`endpoint`, `cid`), its place `pc`, the `status` of its answer,
the `store` its dependency returned, the readiness `verdict`, the `stack` of spans it is
inside of and the exception under way (`raised`). `current` is `_current_span_id`,
`exported` the spans handed to the exporter, `metrics` the counters summed over their labels.

*Actions.* `StartUp` and `ShutDown` are the two halves of `lifespan`. `Receive` binds
the context and opens `http.request`; `TestDefaultStore` and `TakeDefaultStore` are
the two halves of `get_default_review_store`, which has no lock; `EnterSpan` and
`LeaveSpan` follow the call tree (`Calls`) that the endpoints of `app.py` and the `start_span` blocks of
`service.py` and `workflow.py` make; `CheckReadiness` is `ready()`. `Raise` lets an exception arise in the innermost
span, `Unwind` takes it out of a span below the root, `HandleException` is a
handler inside the middleware, `EscapeMiddleware` and `UnhandledException` the way of
an exception that has none. `Return`, `LeaveRequestSpan` and `CountRequest` are
the ordinary end.

*Abstractions.* What an endpoint computes is in the other modules; any span's body may raise an
unexpected exception at any point, and what it raises by design (`Raises`) before
its first inner span. `AuthorizationError` has its handler, but every configured
credential has the one role. Span attributes, latencies and labels are left out, and a 201 is a 200. The
end of a span and the counter next to it are one step, so `MetricsAgree` does not see the moment between them. That the
server ends the lifespan only after the requests under way, and that no lifespan begins
twice at once, is how ASGI servers run it.

### ReviewConsole

Streamlit runs the whole script at every interaction. `page[s]` is what a browser shows, `event[s]`
the interaction its script runs for, `pc` and `seen` the place in the script and the
review as the script read it. `FindExisting`, `OpenFinds`, `OpenCreates`, `DrawPanel`,
`ApplyTransition` and `Rerun` are the steps between which other sessions, the API and
purges (`Others`) may act. `Interact` may stop a script between two steps, except on
the way into the store, and starts a new one. Streamlit itself is external: that a form's
submission belongs to the key of the form, and that a selectbox without a key is a new
widget when its options change (`WidgetValue`). The store is the atomic ledger, so what two processes
on one file can do to each other is in `store_shared_file` and not here. The branch for a
terminal status (`ui/app.py:160-162`) is not reached, since the panel looks for open reviews only.

### The case pipeline

A document's text is a sequence of labelled values and a set of marks (tampered,
degraded, rotated, unlabelled lines); a value is a date, a name, an address, or one of
`Malformed`, `Blank` and `Absent`. Each engine is an operator from what the one
before it produced; findings are records with category, severity and hard stop, as
in the code. `CaseVerification` has one action per stage and one per early end: a
document that is not on file, an identity that cannot be resolved because a
submitted name or address is blank (`matching.py` raises, and the request ends in
a 500), a decision that opens no review.

*Abstractions.* The comparison of two different names or addresses is a constant on
ordered pairs, so that an asymmetric similarity is one of the cases. Dates are
integers; spellings of one date are one value. Texts of reasons and explanations,
trigger labels, confidences, scores and lineage decide nothing and are
left out. The three keys of `config/baseline.json` that `policy.py` reads have their default values and are
written as constants; no code reads its `review_if_parse_errors`, `reject_if_expired` and
`reject_if_tamper_marker`, and what the code does instead is in section 5. The text of a document, which the
code reads twice, is read once, and the two equal copies of the field schema are one, so the schema rule always holds.

## 3. The runs

`tlc -config X.cfg M` for each row; all finish in about two minutes or less on two workers.

| Run | Shows | Bounds | Distinct states |
|---|---|---|---|
| `store_one_process` | Three threads and crashes in one process: the store implements the ledger, terminal states are final, answers are never stale, and no transaction is left behind | 2 review ids of one case, a second case that is not eligible, 5 audit rows | 73,084 |
| `store_shared_file` | The API and the console on one file, with timeouts, half-finished transactions and API crashes: the audit trail stays sound and append-only, an acknowledged transition stays recorded, every lock is released | 1 review, 3 audit rows, 2 + 1 threads | 38,979 |
| `two_open_reviews` | *violation* of `OneOpenReviewPerCase` | two openers | – |
| `shared_file_lost_transition` | *violation* of `TerminalIsFinal` | two processes | – |
| `rate_limiter` | What the limiter keeps although threads overtake each other before the lock | 3 threads, limit 2, window 2, clock 0..4, 4 admissions | 27,743 |
| `rate_limit_overrun` | *violation* of `WindowBound` | 5 admissions | – |
| `transition_retries` | One key: one transition, one answer, with overlapping retries, expiry, purge and restart; no review takes a transition twice, even when the cache has forgotten it | 3 threads, 1 key or none, 2 requested states, limit 2 | 173,560 |
| `transition_retry_limited` | *violation* of `RetryNeverRefused` | limit 1 | – |
| `case_verification` | The decision against what the inputs alone call for | 6,044 cases of 0–3 documents | 46,971 |
| `api_server` | Spans form the call tree of their own request, leave nothing behind and show where an exception passed; the counters agree with the answers; one store, open while the verdict is "ready"; every request is answered | 2 requests of 4 kinds with one correlation id, 2 documents, 2 lifespans | 276,446 |
| `review_console` | One transition per submission, of the right review and from the status its options were made of; the trail on a page is never older than its status | 2 sessions, 2 reviews, the API, purges | 557,244 |
| `console_choice` | *violation* of `ChoiceHonoured` | the same | – |

### Why the bounds are enough

*Store.* A hazard of one process takes two threads on one review and a third that
purges or opens; two ids let a case be opened again after a purge or a terminal
state. Five audit rows are more than the longest run of the lifecycle, from OPEN
through IN_REVIEW to a terminal state, so `MaxLog` cuts
off no run of it. On a shared file two connections give every pair of SQLite lock
states; the third thread lets one process be inside a call while another of its
threads commits what a timeout left open. *Limiter.* Two admissions fill the window
and the third shows an overrun; the clock runs to twice the window, so hits expire.
*Endpoint.* Two retries overlap one first attempt; a request without a key
interferes. *Cases.* Every line of every document type takes each of its values,
one at a time in a single document and in pairs over two; the third document is
there for what pairs cannot show (a contradiction outvoted). Dates 0..5 around the
reference date 3 include the day itself and both neighbours. *Server.* Two requests meet in every
pair of places, with the worst correlation id, the same one; a second document
makes two siblings of one kind, and a second lifespan finds the closed store of the first. *Console.* Two
sessions on a page each, one of which is overtaken; a second review takes
the place of a purged or finished one.

`rate_limiter` is symmetric in its threads and `review_console` in sessions and reviews; neither
checks liveness. Deadlock is checked in the store's and the endpoint's runs; it is off in
the limiter's, whose clock and admissions are bounded, in the cases', which end
with their reply, in the server's, whose requests and lifespans are, and in the console's, where the ids of reviews run out.

### What the runs leave to each other

`store_one_process` has one opener and no statement that fails: two opens race in `two_open_reviews` only, and a
transaction behind a released lock arises in `store_shared_file`, where `AuditTrailSound` judges it.
There `TerminalIsFinal` would fail (`shared_file_lost_transition`); with one store it follows from the lock, and from
`ImplementsLedger`. `LockAlwaysFreed` is about the stores' threading locks: SQLite's lock on the file may stay with a transaction that
was left open until its connection commits again. `CacheLockAlwaysFreed` is about the errors of the
store's calls; their waits are in `store_shared_file`.

### Fairness

Weak fairness of each thread's next step, `WF_vars(Step(t))`: a thread that is
inside a call and can move is scheduled again. Python's threads and the timeouts of
SQLite justify it; clients need not send anything, and nobody need crash or not
crash. It is used for `LockAlwaysFreed` and `CacheLockAlwaysFreed`. In `ApiServer` it is
`WF_vars(Handle(r))` for each request: the thread pool and the event loop run what they
have begun; no request need arrive, and the lifespan need not end. `EveryRequestAnswered`
rests on it.

## 4. What is proved

Every invariant and every action property of the passing runs, and the refinement of the
ledger, for every value of the constants.

| Theorem | Says |
|---|---|
| `ReviewLedgerProofs!LedgerAlwaysConsistent` | the audit rows of a stored review are a run of the lifecycle from OPEN to its status |
| `ReviewStoreProofs!TypeCorrect` | types, for any stores, threads and roles |
| `ReviewStoreProofs!AuditTrailSoundCorrect` | **any number of processes** on the file: a stored status is its newest audit row's, and every row is a legal transition |
| `ReviewStoreProofs!AcknowledgedIsRecordedCorrect`, `HistoryAppendOnlyCorrect` | **any number of processes**: a transition that was acknowledged is in the history, and histories only grow, as long as the review is not purged |
| `ReviewStoreProofs!NoTransactionLeftOpenCorrect` | one store on the file: no transaction behind a released lock |
| `ReviewStoreProofs!StoreImplementsLedger` | one store on the file: statements, locks and crashes implement the atomic ledger |
| `ReviewStoreProofs!LedgerConsistentCorrect`, `TerminalIsFinalCorrect` | one store on the file: the ledger's consistency, and terminal states |
| `ReviewStoreProofs!ReplyNotEarlierCorrect` | one store on the file: the status a transition answers with is its own or a later one |
| `ReviewStoreProofs!OneOpenReviewPerCaseCorrect` | one store on the file and one thread that opens: a case has at most one open review |
| `RateLimiterProofs!TypeCorrect`, `HitsBoundedCorrect`, `RecentKeptCorrect`, `RefusalJustifiedCorrect`, `InOrderWindowBoundCorrect` | the limiter, for any threads, limit and window |
| `TransitionEndpointProofs!TypeCorrect`, `OneAnswerPerKeyCorrect`, `AppliedOncePerKeyCorrect`, `NoTransitionTwiceCorrect`, `CachedStatusHappenedCorrect` | the endpoint, for any threads, keys and reviews |
| `ApiServerProofs!TypeCorrect`, `OneOpenStoreCorrect`, `ReadyTellsTruthCorrect`, `SpansFormCallTreeCorrect`, `NoTraceLeakCorrect` | the server process, for any requests, correlation ids, documents and lifespans |
| `ApiServerProofs!ErrorsReachHandlerCorrect` | a span below the root is OK only if every call in its body was made and ended OK, an error below shows in the answer, and the root is marked exactly for an unhandled exception |
| `ApiServerProofs!MetricsAgreeCorrect` | the counters agree with each other, with the answers and with the spans, in every state of the model |
| `CaseVerificationProofs!TracedCorrect`, `TypeOKCorrect` | each stage's product is its operator applied to the application, and has its type |
| `CaseVerificationProofs!NothingCriticalInReviewCorrect`, `RejectedExactlyOnHardStopCorrect`, `ApprovedExactlyWhenPassingCorrect` | the decision, for any applications with any number of documents |
| `CaseVerificationProofs!UnparsedLinesOverlookedCorrect` | lines the parser could not read change no decision, in disagreement with the configured policy (section 5) |
| `CaseVerificationProofs!RulesAgreeCorrect` | the older rules and the evidence checks of one document say the same where they overlap |
| `CaseVerificationProofs!OrderIndependentCorrect`, `NoDocumentRescuesCorrect` | the order of two documents does not matter, and a case that is rejected without one of its documents is rejected with it |
| `ReviewConsoleProofs!TypeOKCorrect`, `OneTransitionPerSubmissionCorrect`, `AppliesToStatusItReadCorrect` | the panel, for any sessions and reviews: a submission applies at most one transition, from the status its own run of the script has read |
| `ReviewConsoleProofs!TrailNotOlderCorrect` | the trail the panel draws is not older than the status above it, unless the review was purged |

*Assumptions.* The named `ASSUME`s of the modules (a thread has a store, null values
are not ids, the limits are naturals, applications are made of the values the model
knows, and verdicts are match statuses). `NormalizedSymmetric`, that a normalised match of
two texts does not depend on which is the first, is what the equality and the token rules of
`matching.py` give; nothing is assumed of the order in a ratio. Two hypotheses are stated in the
theorems that need them, and a run shows what happens without them: `SoleStore`, one store on the
file (`shared_file_lost_transition`: a terminal state is overwritten), and `SoleOpener`, one thread
that opens reviews (`two_open_reviews`).

*The store.* `AuditTrailSound` alone is not inductive: a COMMIT publishes the draft.
`DraftSound` says the same of the draft, except for the review whose second
statement is still to come; that exception ends only with the statement itself,
because (`ExclusionInv`) the thread between the two statements holds its store's lock,
its connection holds the file's write lock, and no one else writes. `UpdatedDraft`
ties the INSERT to the UPDATE before it, and fresh ids have no rows for a creation to
inherit. The timeouts keep all of this since they change no row.
`HistoryInv` compares the draft with the file: a draft has all committed rows of a review, or
purges the review (`DraftKeepsOrPurges`), and a transition writes on kept rows
(`TransitionOnKeptRows`); a COMMIT therefore never takes an acknowledged row away
(`RecordedOrGone`). None of this needs `SoleStore`.

For one store, `SoleStoreInv` adds exactly how the draft differs from the file at each statement;
each COMMIT then is one action of the ledger, and everything else a stutter. The
ledger's own invariant carries over to the store by the refinement. `ReplyInv`
follows the review between the two critical sections of a transition: its status is the one
that was written or a later one of the lifecycle, or the review is gone. `OpenerInv` says that what
the opener's SELECT found is still so when it creates: the others only move
reviews towards their end or delete them, and terminal reviews do not reopen.

*The limiter.* The key is `Forgotten`: an admission that is no longer in the list lies
more than a window before another one that is recorded. Pruning with an old clock
reading then never drops a recent admission, and if readings are in order the
last one of a window has seen all the others.

*The endpoint.* `LockInv`: the lock is held exactly by the keyed request that is
computing. `HistoryInv`: the transition of an applied key is in the cache and is
everything its requests were answered, or its thread is about to store it and nobody
has been answered. `LedgerInv`: the log of a review is a run of the lifecycle, whose states never
repeat; a status in the cache is one its review has had, unless it has been purged.

*The server.* `ProcessInv` ties the depth of a request's stack to its place and the one
store to the number of lifespans: the first creates it, nothing replaces it, it closes only
between requests. `TreeInv`: the open spans of a request are a chain of calls
(`ChainInv`) whose end is the current span of its trace (`CurrentInv`), which no other
request has, since trace ids are minted; so a span that ends has its parent still open or
ended after it (`EndedInv`), and the root is the only one without (`RootInv`).
`RequestInv` says how far each request is: its span ids are told apart (`IdsOK`), which call of each open body is under way and how many
have returned (`BodiesOK`), with which outcome the bodies of its ended spans were left (`DoneOK`), how the place of the
request follows from them (`AnswerOK`), and that the decision ends before the review is opened (`OrderOK`). `CountersInv` is
the rest of `MetricsAgree`: each counter is the size of a set, of requests or of spans, that
starts empty and gains one member with each increment, so that an inclusion of the sets
is an inequality of the counters.

*The decision.* `Traced` says that what each stage has produced is its operator applied
to the application; the rest are lemmas on the operators. `RejectedByRules`, `BirthDateConflict` and
`CriticalIsHardStop` show that a finding is critical exactly when it is a hard stop,
and which inputs raise one. `OutcomeRejects` and `OutcomeApproves` then give the decision as a function of
the inputs, for cases whose resolution does not fail. For `RulesAgree`, `RulesSatisfied` and `SharedRules`
say when each of the rules fails. Exchanging two documents permutes the findings and keeps the worst
verdicts (`PassingWhenExchanged`, `OutcomeOfSwapped`); the comparison of two sources agrees
or not in both orders, by `NormalizedSymmetric`. Unparsed lines change neither a hard stop nor what passes (`OutcomeOfUnparsed`).

*The console.* `ConsoleInv` keeps the ledger's invariant, that review ids are used once, and that pages and
submissions are made of non-terminal statuses. What a script has read has since moved only along the
lifecycle or away (`SeenOK`), and a script that has written has done so once for its submission (`WrittenOK`). An
option of one form is never a legal target from a status the review reaches later (`Lifecycle`): that is why a
transition which succeeds applies to the status that was read.

### Model-checked only

Liveness under fairness is outside what TLAPS proves here: `LockAlwaysFreed`,
`CacheLockAlwaysFreed` and `EveryRequestAnswered` rest on TLC, as would anything about ENABLED or about recursive
data for every input. So do the properties of the violation runs, which are false.

## 5. Where code and documentation differ

Each has a run that shows it; `PROJECT.json` quotes the two sides.

1. Two overlapping opens of one case create two reviews (`workflow.py:95`,
   `data_dictionary.md:384`).
2. Two processes that transition one review both succeed, and the second overwrites
   a terminal state (`store.py:193`, `models.py:19`): the SELECT is outside the
   transaction, and the UPDATE does not ask for the status it read. With one process
   this cannot happen, and that is proved.
3. A thread overtaken between its clock reading and the lock lets a window hold more
   than the limit (`limits.py:35`).
4. A retry of an applied transition may be answered 429 (`app.py:222`,
   `test_architecture.py:234`).
5. A submission in the console whose review has moved meanwhile, or a second press of its
   button, applies the first option of the new form, ESCALATED, and not the choice that was made
   (`ui/app.py:165`, `src/README.md:98`).

Met while modelling and not checked by a run, since they follow from one line each:

- All credentials have the one subject (`auth.py:75`) and so share the
  transition limit, which `data_dictionary.md:388` calls "per credential".
- A malformed document number is reviewed and not rejected (`rules.py:30`); `data_dictionary.md:277`
  counts the format among the hard stops. `HardStop`, and so `RejectedExactlyOnHardStop`, is the code's.
- A document with lines the parser could not read is approved: their `UNPARSED_LINE` warning (`parser.py:16`)
  goes into the reply, `rules.evaluate` returns a decision from warnings of its own (`rules.py:28-31`), and no factor is derived
  from the rest. `config/baseline.json:5` says `"review_if_parse_errors": true`, which no code reads, and
  `docs/assessment/risk_register.md:34` (R-11) that any warning forces REVIEW. `ApprovedExactlyWhenPassing` therefore describes
  the code and not that policy: `PassingDocument` lets such lines through. The cases of `case_verification` include them, and
  `UnparsedLinesOverlookedCorrect` proves that they change no decision, whatever else the application contains.
- A document without its issue date is approved without a remark (`checks.py:82`), which `PassingDocument` says too;
  `docs/release/production_readiness_report.md:29` says missing evidence never silently passes.
- The header `x-trace-id` is the correlation id, while the spans' trace id is minted
  (`app.py:79`, `context.py:51-54`): the runbook's lookup by that header (`docs/operations/runbook.md:58`)
  and the comment at `context.py:46-50` describe another id. The mutant `TraceIsHeader` shows that the ids
  had better differ, since two requests may carry one header.
- An unhandled exception counts as an error and never as a request, so the error rate of
  `slis_slos.md:36` divides by too few; and the context is already reset
  when its log record is written, which `known_limitations.md:85` expects to carry the correlation id.
- A second lifespan in one process starts with the closed store of the first (`app.py:52`,
  `app.py:61`), although the comment above it says it fails fast; readiness reports it (`ReadyTellsTruth`).
- `models.py:62` calls the tables insert-only while
  `purge_review` deletes (`HistoryAppendOnly` states what does hold); a blank submitted
  name or address ends a verification in a 500 (`ResolutionFails`).

## 6. Not modelled, and why

The reviewer's summary, scoring, lineage, version records, redaction, identifier
validation, text normalisation and logging are pure functions or write-only records that no
decision reads. `/health/live`, `/metrics` and `/v1/cases` read and answer. Provider resilience
(`providers/`) is called by no stage at this commit: there is no caller whose timeouts or
retries could interleave with anything. Authorization appears through the errors it raises, through readiness
and through its effect on the limiter's key; credentials are a constant table. The
console's tabs and sidebar are layout. The evaluation harness and the scripts run
offline, one case after the other, around `verify_case`. Hazards without a property are in
`PROJECT.json`, each with the reason.

## 7. Plan

Order of work so far: the lifecycle, the ledger and the store, since everything a reviewer sees rests on
them; the limiter; the endpoint over both; the pipeline stage by stage; the server process around the endpoints;
the console; then the theorems, in the same order. What is left:

1. The refinement of the ledger by the endpoint and the console. Both are written over the ledger's
   actions; a theorem that their steps are the ledger's or stutters would join them to
   `StoreImplementsLedger`.
2. For any number of stores, which of the ledger's promises survive besides `AuditTrailSound`,
   `AcknowledgedIsRecorded` and `HistoryAppendOnly`.
3. The hazards that no property covers, each with its reason in `PROJECT.json`.
