----------------------------- MODULE ReviewStore -----------------------------
(***************************************************************************)
(* src/src/review/store.py (ReviewStore) and the one caller that strings   *)
(* two of its operations together, open_review_case of                     *)
(* src/src/review/workflow.py.                                             *)
(*                                                                         *)
(* A "store" here is one ReviewStore instance: one sqlite3 connection and  *)
(* one threading.Lock.  Threads call into the store of their process; the  *)
(* stores (the API's, the Streamlit console's, an operator script's) share *)
(* one database file.  One action is one stretch of code that no other     *)
(* thread can interleave with: a SQL statement, with the acquisition or    *)
(* release of the lock next to it.                                         *)
(*                                                                         *)
(* The file is SQLite's, in its default rollback-journal mode, as used by  *)
(* python's sqlite3 in its default mode: SELECT runs outside a transaction *)
(* unless one is open, the first INSERT, UPDATE or DELETE issues BEGIN,    *)
(* and a statement or COMMIT that meets another connection's lock for      *)
(* longer than the 5 s timeout raises.  No method of the store rolls back. *)
(***************************************************************************)
EXTENDS ReviewModels, FiniteSets

CONSTANTS
    Stores,       \* ReviewStore instances, one per process
    Threads,      \* threads that call them
    StoreOf,      \* StoreOf[t]: the instance thread t calls
    Reviews,      \* review ids uuid4 may mint, none twice
    Cases,        \* case ids
    CaseOf,       \* CaseOf[r]: the case in the id RVW-<case>-<uuid>
    ReviewCases,  \* the cases whose decision is REVIEW
    Openers,      \* threads that open reviews
    Reviewers,    \* threads that request transitions
    Purgers,      \* threads that purge
    Readers,      \* threads that get or list
    Crashing,     \* stores whose process may be killed and restarted
    MaxLog,       \* bound: audit entries per review, begun or written
    Nobody,       \* the lock's owner when it is free
    NoReview      \* None where a review id is expected

ASSUME StoreOfAssumption == StoreOf \in [Threads -> Stores]
ASSUME CaseOfAssumption == CaseOf \in [Reviews -> Cases]
ASSUME NullAssumption == Nobody \notin Threads /\ NoReview \notin Reviews
ASSUME RolesAssumption ==
    /\ ReviewCases \subseteq Cases
    /\ Openers \cup Reviewers \cup Purgers \cup Readers \subseteq Threads
    /\ Crashing \subseteq Stores
    /\ MaxLog \in Nat

VARIABLES
    status,       \* the committed review_cases.status of each review
    log,          \* the committed review_audit_log rows of each review
    draftStatus,  \* the same two as the open write transaction sees them;
    draftLog,     \* equal to the committed ones when there is none
    tx,           \* each connection's transaction and its lock on the file
    lock,         \* the owner of each store's _lock
    minted,       \* the review ids already given out
    pc,           \* where each thread is
    rev,          \* the review_id each thread works on
    want,         \* its new_status
    seen,         \* the prior_status its SELECT returned
    reply         \* what its last call returned or raised

fileVars == <<status, log>>
draftVars == <<draftStatus, draftLog>>
threadVars == <<pc, rev, want, seen, reply>>
vars == <<status, log, draftStatus, draftLog, tx, lock, minted,
          pc, rev, want, seen, reply>>

(* "none": no transaction.  "begun": BEGIN issued, no lock on the file,    *)
(* because the statement after it failed.  "shared": a later SELECT in     *)
(* that transaction took and keeps SHARED.  "reserved": it has written.    *)
(* "pending": a COMMIT is waiting, or has timed out, on a SHARED lock.     *)
Writing == {"reserved", "pending"}
TxState == {"none", "begun", "shared"} \cup Writing

TransitionSteps == {"select", "update", "insert", "commitTransition", "reread"}
Steps == {"idle", "find", "create", "commitCreate", "deleteLog", "deleteCase",
          "commitPurge", "read"} \cup TransitionSteps

ReplyKind == {"none", "ineligible", "existing", "created", "updated", "purged",
              "read", "not_found", "invalid", "locked"}
Reply == [kind : ReplyKind, rev : Reviews \cup {NoReview}, status : StatusOrAbsent]
NoReply == [kind |-> "none", rev |-> NoReview, status |-> Absent]

TypeOK ==
    /\ status \in [Reviews -> StatusOrAbsent]
    /\ log \in [Reviews -> Seq(AuditEntry)]
    /\ draftStatus \in [Reviews -> StatusOrAbsent]
    /\ draftLog \in [Reviews -> Seq(AuditEntry)]
    /\ tx \in [Stores -> TxState]
    /\ lock \in [Stores -> Threads \cup {Nobody}]
    /\ minted \subseteq Reviews
    /\ pc \in [Threads -> Steps]
    /\ rev \in [Threads -> Reviews \cup Cases \cup {NoReview}]
    /\ want \in [Threads -> StatusOrAbsent]
    /\ seen \in [Threads -> StatusOrAbsent]
    /\ reply \in [Threads -> Reply]

\* An empty database file, its schema created, and no call in progress.
Init ==
    /\ status = [r \in Reviews |-> Absent]
    /\ log = [r \in Reviews |-> <<>>]
    /\ draftStatus = status
    /\ draftLog = log
    /\ tx = [s \in Stores |-> "none"]
    /\ lock = [s \in Stores |-> Nobody]
    /\ minted = {}
    /\ pc = [t \in Threads |-> "idle"]
    /\ rev = [t \in Threads |-> NoReview]
    /\ want = [t \in Threads |-> Absent]
    /\ seen = [t \in Threads |-> Absent]
    /\ reply = [t \in Threads |-> NoReply]
-----------------------------------------------------------------------------
(***************************************************************************)
(* The file's locks, as one statement or COMMIT of store s meets them.     *)
(***************************************************************************)
Others(s, states) == \E o \in Stores \ {s} : tx[o] \in states

\* SHARED can be had unless another connection is PENDING.
CanRead(s) == tx[s] \in {"shared"} \cup Writing \/ ~Others(s, {"pending"})

\* RESERVED can be had unless another connection has it.
CanWrite(s) == tx[s] \in Writing \/ ~Others(s, Writing)

\* EXCLUSIVE can be had once no other connection reads.
CanCommit(s) == ~Others(s, {"shared"})

\* What a SELECT of store s reads.
SeenStatus(s) == IF tx[s] \in Writing THEN draftStatus ELSE status

\* A SELECT inside an open transaction keeps its SHARED lock; outside, the
\* lock goes with the cursor.
TxAfterRead(s) == IF tx[s] = "begun" THEN [tx EXCEPT ![s] = "shared"] ELSE tx
TxAfterWrite(s) == [tx EXCEPT ![s] = IF @ \in Writing THEN @ ELSE "reserved"]

\* A failed statement leaves the BEGIN before it open: nothing rolls back.
TxAfterFailedWrite(s) == [tx EXCEPT ![s] = IF @ = "none" THEN "begun" ELSE @]
-----------------------------------------------------------------------------
(***************************************************************************)
(* A thread's control.                                                     *)
(***************************************************************************)
Goto(t, step) == pc' = [pc EXCEPT ![t] = step]

\* The call returns or raises: the thread is free for another one.
Answer(t, kind, r, st) ==
    /\ Goto(t, "idle")
    /\ rev' = [rev EXCEPT ![t] = NoReview]
    /\ want' = [want EXCEPT ![t] = Absent]
    /\ seen' = [seen EXCEPT ![t] = Absent]
    /\ reply' = [reply EXCEPT ![t] = [kind |-> kind, rev |-> r, status |-> st]]

\* A call begins: x is the review id, or for an open the case id.
Call(t, step, x, new) ==
    /\ pc[t] = "idle"
    /\ Goto(t, step)
    /\ rev' = [rev EXCEPT ![t] = x]
    /\ want' = [want EXCEPT ![t] = new]
    /\ reply' = [reply EXCEPT ![t] = NoReply]
    /\ UNCHANGED <<fileVars, draftVars, tx, lock, minted, seen>>

LockFree(t) == lock[StoreOf[t]] = Nobody
Acquire(t) == LockFree(t) /\ lock' = [lock EXCEPT ![StoreOf[t]] = t]
Release(t) == lock' = [lock EXCEPT ![StoreOf[t]] = Nobody]
-----------------------------------------------------------------------------
(***************************************************************************)
(* open_review_case: find, then create, each in its own critical section.  *)
(***************************************************************************)
Fresh(c) == {r \in Reviews \ minted : CaseOf[r] = c}

\* Bound: every open in progress can still be given an id.
IdLeft(c) ==
    LET opening == {u \in Threads : pc[u] \in {"find", "create"} /\ rev[u] = c}
    IN  Cardinality(opening) < Cardinality(Fresh(c))

RequestOpen(t, c) ==
    /\ c \in ReviewCases
    /\ IdLeft(c)
    /\ Call(t, "find", c, Absent)

\* Any other decision raises ReviewNotEligibleError before the store is used.
RefuseOpen(t, c) ==
    /\ pc[t] = "idle"
    /\ c \notin ReviewCases
    /\ Answer(t, "ineligible", NoReview, Absent)
    /\ UNCHANGED <<fileVars, draftVars, tx, lock, minted>>

FindStatusesOpenOnly == {"OPEN"}

\* The states find_open_review_for_case selects.
FindStatuses == {"OPEN", "IN_REVIEW"}

\* find_open_review_for_case; which of several is newest by created_at, a
\* wall clock reading taken before the INSERT, is left open.
Find(t) ==
    LET s == StoreOf[t]
        found == {r \in Reviews : CaseOf[r] = rev[t] /\ SeenStatus(s)[r] \in FindStatuses}
    IN  /\ pc[t] = "find"
        /\ LockFree(t)
        /\ CanRead(s)
        /\ tx' = TxAfterRead(s)
        /\ \/ /\ found = {}
              /\ Goto(t, "create")
              /\ UNCHANGED <<rev, want, seen, reply>>
           \/ \E r \in found : Answer(t, "existing", r, SeenStatus(s)[r])
        /\ UNCHANGED <<fileVars, draftVars, lock, minted>>

\* create_review up to its INSERT, under an id never used before.
Create(t) ==
    LET s == StoreOf[t]
    IN  /\ pc[t] = "create"
        /\ Acquire(t)
        /\ CanWrite(s)
        /\ \E r \in Fresh(rev[t]) :
              /\ minted' = minted \cup {r}
              /\ rev' = [rev EXCEPT ![t] = r]
              /\ draftStatus' = [draftStatus EXCEPT ![r] = "OPEN"]
        /\ tx' = TxAfterWrite(s)
        /\ Goto(t, "commitCreate")
        /\ UNCHANGED <<fileVars, draftLog, want, seen, reply>>
-----------------------------------------------------------------------------
(***************************************************************************)
(* apply_transition.                                                       *)
(***************************************************************************)
\* Bound: the entries of r, with those of transitions under way, stay below
\* MaxLog.
LogRoom(r) ==
    LET under_way == {u \in Threads : pc[u] \in TransitionSteps /\ rev[u] = r}
    IN  /\ Len(log[r]) + Cardinality(under_way) < MaxLog
        /\ Len(draftLog[r]) + Cardinality(under_way) < MaxLog

RequestTransition(t, r, new) ==
    /\ LogRoom(r)
    /\ Call(t, "select", r, new)

PermittedReopening(prior, new) ==
    new \in ALLOWED_TRANSITIONS[prior] \/ (prior = "ESCALATED" /\ new = "IN_REVIEW")

Permitted(prior, new) == new \in ALLOWED_TRANSITIONS[prior]

\* Raising inside "with self._lock" releases it.
Refuse(t, kind, prior) == Answer(t, kind, rev[t], prior) /\ UNCHANGED lock

\* The SELECT and the two checks: an error leaves the critical section, and
\* otherwise the lock stays held up to the commit.
Select(t) ==
    LET s == StoreOf[t]
        prior == SeenStatus(s)[rev[t]]
    IN  /\ pc[t] = "select"
        /\ LockFree(t)
        /\ CanRead(s)
        /\ tx' = TxAfterRead(s)
        /\ \/ /\ prior = Absent
              /\ Refuse(t, "not_found", prior)
           \/ /\ prior # Absent
              /\ ~Permitted(prior, want[t])
              /\ Refuse(t, "invalid", prior)
           \/ /\ prior # Absent
              /\ Permitted(prior, want[t])
              /\ Acquire(t)
              /\ Goto(t, "update")
              /\ seen' = [seen EXCEPT ![t] = prior]
              /\ UNCHANGED <<rev, want, reply>>
        /\ UNCHANGED <<fileVars, draftVars, minted>>

\* UPDATE ... WHERE review_id: no row, no change.
Update(t) ==
    LET s == StoreOf[t]
        r == rev[t]
    IN  /\ pc[t] = "update"
        /\ CanWrite(s)
        /\ draftStatus' = [draftStatus EXCEPT ![r] = IF @ = Absent THEN @ ELSE want[t]]
        /\ tx' = TxAfterWrite(s)
        /\ Goto(t, "insert")
        /\ UNCHANGED <<fileVars, draftLog, lock, minted, rev, want, seen, reply>>

AuditRowWithoutPrior(t) == [prior |-> Absent, new |-> want[t]]

AuditRowPriorReread(t) == [prior |-> draftStatus[rev[t]], new |-> want[t]]

\* prior_state is the status the SELECT returned.
AuditRow(t) == [prior |-> seen[t], new |-> want[t]]

WithLastRowOnly(rows, row) == <<row>>

WithRow(rows, row) == Append(rows, row)

InsertSkipped(t) ==
    /\ pc[t] = "insert"
    /\ Goto(t, "commitTransition")
    /\ UNCHANGED <<fileVars, draftVars, tx, lock, minted, rev, want, seen, reply>>

Insert(t) ==
    /\ pc[t] = "insert"
    /\ draftLog' = [draftLog EXCEPT ![rev[t]] = WithRow(@, AuditRow(t))]
    /\ Goto(t, "commitTransition")
    /\ UNCHANGED <<fileVars, draftStatus, tx, lock, minted, rev, want, seen, reply>>

ShownFromFirstRead(t) == seen[t]

ShownStatus(t) == SeenStatus(StoreOf[t])[rev[t]]

\* return self.get_review(review_id): a second critical section.
Reread(t) ==
    LET s == StoreOf[t]
    IN  /\ pc[t] = "reread"
        /\ LockFree(t)
        /\ CanRead(s)
        /\ tx' = TxAfterRead(s)
        /\ Answer(t, "updated", rev[t], ShownStatus(t))
        /\ UNCHANGED <<fileVars, draftVars, lock, minted>>
-----------------------------------------------------------------------------
(***************************************************************************)
(* purge_review, and get_review, list_reviews and get_audit_log.           *)
(***************************************************************************)
RequestPurge(t, r) == Call(t, "deleteLog", r, Absent)

DeleteLog(t) ==
    LET s == StoreOf[t]
    IN  /\ pc[t] = "deleteLog"
        /\ Acquire(t)
        /\ CanWrite(s)
        /\ draftLog' = [draftLog EXCEPT ![rev[t]] = <<>>]
        /\ tx' = TxAfterWrite(s)
        /\ Goto(t, "deleteCase")
        /\ UNCHANGED <<fileVars, draftStatus, minted, rev, want, seen, reply>>

DeleteCaseUncommitted(t) ==
    /\ pc[t] = "deleteCase"
    /\ draftStatus' = [draftStatus EXCEPT ![rev[t]] = Absent]
    /\ Release(t)
    /\ Answer(t, "purged", rev[t], Absent)
    /\ UNCHANGED <<fileVars, draftLog, tx, minted>>

DeleteCase(t) ==
    /\ pc[t] = "deleteCase"
    /\ draftStatus' = [draftStatus EXCEPT ![rev[t]] = Absent]
    /\ Goto(t, "commitPurge")
    /\ UNCHANGED <<fileVars, draftLog, tx, lock, minted, rev, want, seen, reply>>

RequestRead(t, r) == Call(t, "read", r, Absent)

\* One SELECT in one critical section; of the rows it returns, the status.
Read(t) ==
    LET s == StoreOf[t]
    IN  /\ pc[t] = "read"
        /\ LockFree(t)
        /\ CanRead(s)
        /\ tx' = TxAfterRead(s)
        /\ Answer(t, "read", rev[t], SeenStatus(s)[rev[t]])
        /\ UNCHANGED <<fileVars, draftVars, lock, minted>>
-----------------------------------------------------------------------------
(***************************************************************************)
(* commit(), timeouts and crashes.                                         *)
(***************************************************************************)
Committing == {"commitCreate", "commitTransition", "commitPurge"}

\* The commit that ends each of the three writing methods, and the release.
Commit(t) ==
    LET s == StoreOf[t]
    IN  /\ pc[t] \in Committing
        /\ CanCommit(s)
        /\ status' = draftStatus
        /\ log' = draftLog
        /\ tx' = [tx EXCEPT ![s] = "none"]
        /\ Release(t)
        /\ \/ /\ pc[t] = "commitTransition"
              /\ Goto(t, "reread")
              /\ UNCHANGED <<rev, want, seen, reply>>
           \/ pc[t] = "commitCreate" /\ Answer(t, "created", rev[t], "OPEN")
           \/ pc[t] = "commitPurge" /\ Answer(t, "purged", rev[t], Absent)
        /\ UNCHANGED <<draftVars, minted>>

\* COMMIT meets a reader: it keeps new readers out and waits.
AwaitReaders(t) ==
    LET s == StoreOf[t]
    IN  /\ pc[t] \in Committing
        /\ ~CanCommit(s)
        /\ tx[s] = "reserved"
        /\ tx' = [tx EXCEPT ![s] = "pending"]
        /\ UNCHANGED <<fileVars, draftVars, lock, minted, threadVars>>

CommitTimeoutNever(t) == FALSE /\ UNCHANGED vars

\* The wait ends in OperationalError: the transaction, its writes and its
\* PENDING lock stay.
CommitTimeout(t) ==
    LET s == StoreOf[t]
    IN  /\ pc[t] \in Committing
        /\ ~CanCommit(s)
        /\ tx[s] = "pending"
        /\ Release(t)
        /\ Answer(t, "locked", rev[t], Absent)
        /\ UNCHANGED <<fileVars, draftVars, tx, minted>>

\* A SELECT that finds the file PENDING past the timeout.
ReadTimeout(t) ==
    /\ pc[t] \in {"find", "select", "reread", "read"}
    /\ LockFree(t)
    /\ ~CanRead(StoreOf[t])
    /\ Answer(t, "locked", NoReview, Absent)
    /\ UNCHANGED <<fileVars, draftVars, tx, lock, minted>>

\* A first INSERT, UPDATE or DELETE that finds another writer past it.
WriteTimeout(t) ==
    LET s == StoreOf[t]
    IN  /\ \/ pc[t] \in {"create", "deleteLog"} /\ LockFree(t)
           \/ pc[t] = "update"
        /\ ~CanWrite(s)
        /\ tx' = TxAfterFailedWrite(s)
        /\ Release(t)
        /\ Answer(t, "locked", NoReview, Absent)
        /\ UNCHANGED <<fileVars, draftVars, minted>>

\* The process dies and comes back: its threads, its lock and its connection
\* are gone, and the journal undoes what it had not committed.
Crash(s) ==
    LET mine == {t \in Threads : StoreOf[t] = s}
        Reset(f, v) == [t \in Threads |-> IF t \in mine THEN v ELSE f[t]]
    IN  /\ s \in Crashing
        /\ pc' = Reset(pc, "idle")
        /\ rev' = Reset(rev, NoReview)
        /\ want' = Reset(want, Absent)
        /\ seen' = Reset(seen, Absent)
        /\ reply' = Reset(reply, NoReply)
        /\ lock' = [lock EXCEPT ![s] = Nobody]
        /\ tx' = [tx EXCEPT ![s] = "none"]
        /\ IF tx[s] \in Writing
             THEN draftStatus' = status /\ draftLog' = log
             ELSE UNCHANGED draftVars
        /\ UNCHANGED <<fileVars, minted>>
-----------------------------------------------------------------------------
\* A client's request reaches an idle thread.
Request(t) ==
    \/ t \in Openers /\ \E c \in Cases : RequestOpen(t, c) \/ RefuseOpen(t, c)
    \/ t \in Reviewers /\ \E r \in Reviews, new \in ReviewStatus : RequestTransition(t, r, new)
    \/ t \in Purgers /\ \E r \in Reviews : RequestPurge(t, r)
    \/ t \in Readers /\ \E r \in Reviews : RequestRead(t, r)

\* A thread carries its call one step further.
Step(t) ==
    \/ Find(t) \/ Create(t)
    \/ Select(t) \/ Update(t) \/ Insert(t) \/ Reread(t)
    \/ DeleteLog(t) \/ DeleteCase(t)
    \/ Read(t)
    \/ Commit(t) \/ AwaitReaders(t) \/ CommitTimeout(t)
    \/ ReadTimeout(t) \/ WriteTimeout(t)

Next ==
    \/ \E t \in Threads : Request(t) \/ Step(t)
    \/ \E s \in Stores : Crash(s)

Spec == Init /\ [][Next]_vars

\* A thread inside a call is scheduled again as long as it can move; clients
\* need not send anything.
Fairness == \A t \in Threads : WF_vars(Step(t))
FairSpec == Spec /\ Fairness
=============================================================================
