-------------------------- MODULE ReviewStoreProofs --------------------------
(***************************************************************************)
(* Proofs about ReviewStore, for every set of stores, threads, reviews and *)
(* cases and for every assignment of roles: first what holds however many  *)
(* processes share the file, then, with one store on it (SoleStore), that  *)
(* the store implements ReviewLedger and what follows for its callers.     *)
(***************************************************************************)
EXTENDS ReviewStoreInvariants, ReviewModelsProofs

-----------------------------------------------------------------------------
(***************************************************************************)
(* Types.  The registers of a thread are typed by where the thread is, so  *)
(* the inductive invariant adds RegistersOK to TypeOK.                     *)
(***************************************************************************)
\* Answer keeps the registers typed when the reply is.
LEMMA AnswerType ==
    ASSUME TypeInv, NEW t \in Threads, NEW kind \in ReplyKind,
           NEW r \in Reviews \cup {NoReview}, NEW st \in StatusOrAbsent,
           Answer(t, kind, r, st)
    PROVE  /\ pc' \in [Threads -> Steps]
           /\ rev' \in [Threads -> Reviews \cup Cases \cup {NoReview}]
           /\ want' \in [Threads -> StatusOrAbsent]
           /\ seen' \in [Threads -> StatusOrAbsent]
           /\ reply' \in [Threads -> Reply]
           /\ RegistersOK'
<1>1. pc' \in [Threads -> Steps] /\ pc'[t] = "idle"
  BY DEF TypeInv, TypeOK, Answer, Goto, Steps
<1>2. [kind |-> kind, rev |-> r, status |-> st] \in Reply
  BY DEF Reply
<1>3. /\ rev' \in [Threads -> Reviews \cup Cases \cup {NoReview}]
      /\ want' \in [Threads -> StatusOrAbsent]
      /\ seen' \in [Threads -> StatusOrAbsent]
      /\ reply' \in [Threads -> Reply]
  BY <1>2 DEF TypeInv, TypeOK, Answer, StatusOrAbsent
<1>4. RegistersOK'
  BY <1>1 DEF TypeInv, TypeOK, RegistersOK, Answer, Goto, TransitionSteps, Decided
<1>5. QED
  BY <1>1, <1>3, <1>4

\* The store starts well typed.
LEMMA TypeInit == Init => TypeInv
<1> SUFFICES ASSUME Init PROVE TypeInv
  OBVIOUS
<1>1. NoReply \in Reply
  BY DEF NoReply, Reply, ReplyKind, StatusOrAbsent
<1>2. <<>> \in Seq(AuditEntry)
  OBVIOUS
<1>3. TypeOK
  BY <1>1, <1>2 DEF Init, TypeOK, TxState, StatusOrAbsent, Steps
<1>4. RegistersOK
  BY DEF Init, RegistersOK, TransitionSteps, Decided
<1>5. QED
  BY <1>3, <1>4 DEF TypeInv

\* The types of what an action leaves alone carry over.
LEMMA CallType ==
    ASSUME TypeInv, NEW t \in Threads, NEW step \in {"find", "select", "deleteLog", "read"},
           NEW x \in Reviews \cup Cases, NEW new \in StatusOrAbsent,
           Call(t, step, x, new),
           step # "find" => x \in Reviews,
           step = "select" => new \in ReviewStatus
    PROVE  TypeInv'
<1>1. NoReply \in Reply
  BY DEF NoReply, Reply, ReplyKind, StatusOrAbsent
<1>2. step \in Steps
  BY DEF Steps, TransitionSteps
<1>3. TypeOK'
  BY <1>1, <1>2 DEF TypeInv, TypeOK, Call, Goto, fileVars, draftVars, StatusOrAbsent
<1>4. RegistersOK'
  BY <1>2 DEF TypeInv, TypeOK, RegistersOK, Call, Goto, TransitionSteps, Decided
<1>5. QED
  BY <1>3, <1>4 DEF TypeInv

\* Every statement, timeout and crash keeps the types.
LEMMA TypeNext == TypeInv /\ [Next]_vars => TypeInv'
<1> SUFFICES ASSUME TypeInv, [Next]_vars PROVE TypeInv'
  OBVIOUS
<1> USE StoreOfAssumption, CaseOfAssumption, RolesAssumption
<1>1. ASSUME NEW t \in Threads, Request(t) PROVE TypeInv'
  <2>1. ASSUME NEW c \in Cases, RequestOpen(t, c) PROVE TypeInv'
    BY <2>1, CallType DEF RequestOpen, StatusOrAbsent
  <2>2. ASSUME NEW c \in Cases, RefuseOpen(t, c) PROVE TypeInv'
    BY <2>2, AnswerType
    DEF RefuseOpen, TypeInv, TypeOK, ReplyKind, StatusOrAbsent, fileVars, draftVars
  <2>3. ASSUME NEW r \in Reviews, NEW new \in ReviewStatus, RequestTransition(t, r, new)
        PROVE  TypeInv'
    BY <2>3, CallType DEF RequestTransition, StatusOrAbsent
  <2>4. ASSUME NEW r \in Reviews, RequestPurge(t, r) PROVE TypeInv'
    BY <2>4, CallType DEF RequestPurge, StatusOrAbsent
  <2>5. ASSUME NEW r \in Reviews, RequestRead(t, r) PROVE TypeInv'
    BY <2>5, CallType DEF RequestRead, StatusOrAbsent
  <2>6. QED
    BY <1>1, <2>1, <2>2, <2>3, <2>4, <2>5 DEF Request
<1>2. ASSUME NEW t \in Threads, Step(t) PROVE TypeInv'
  <2>1. CASE Find(t)
    <3>1. TxAfterRead(StoreOf[t]) \in [Stores -> TxState]
      BY DEF TypeInv, TypeOK, TxAfterRead, TxState, Writing
    <3>2. \A r \in Reviews : SeenStatus(StoreOf[t])[r] \in StatusOrAbsent
      BY DEF TypeInv, TypeOK, SeenStatus
    <3>3. CASE Goto(t, "create") /\ UNCHANGED <<rev, want, seen, reply>>
      BY <2>1, <3>1, <3>3 DEF Find, TypeInv, TypeOK, RegistersOK, Goto, Steps,
         TransitionSteps, Decided, fileVars, draftVars
    <3>4. ASSUME NEW r \in Reviews, Answer(t, "existing", r, SeenStatus(StoreOf[t])[r])
          PROVE  TypeInv'
      BY <2>1, <3>1, <3>2, <3>4, AnswerType
      DEF Find, TypeInv, TypeOK, ReplyKind, fileVars, draftVars
    <3>5. QED
      BY <2>1, <3>3, <3>4 DEF Find
  <2>2. CASE Create(t)
    BY <2>2 DEF Create, Fresh, TypeInv, TypeOK, RegistersOK, Goto, Acquire, Steps,
       TransitionSteps, Decided, TxAfterWrite, TxState, Writing, StatusOrAbsent,
       ReviewStatus, fileVars
  <2>3. CASE Select(t)
    <3>0. rev[t] \in Reviews /\ want[t] \in ReviewStatus
      BY <2>3 DEF Select, TypeInv, RegistersOK, TransitionSteps
    <3>1. TxAfterRead(StoreOf[t]) \in [Stores -> TxState]
      BY DEF TypeInv, TypeOK, TxAfterRead, TxState, Writing
    <3>2. SeenStatus(StoreOf[t])[rev[t]] \in StatusOrAbsent
      BY <3>0 DEF TypeInv, TypeOK, SeenStatus
    <3>3. ASSUME NEW kind \in {"not_found", "invalid"},
                 Refuse(t, kind, SeenStatus(StoreOf[t])[rev[t]])
          PROVE  TypeInv'
      BY <2>3, <3>0, <3>1, <3>2, <3>3, AnswerType
      DEF Select, Refuse, TypeInv, TypeOK, ReplyKind, fileVars, draftVars
    <3>4. CASE /\ SeenStatus(StoreOf[t])[rev[t]] # Absent
               /\ Permitted(SeenStatus(StoreOf[t])[rev[t]], want[t])
               /\ Acquire(t)
               /\ Goto(t, "update")
               /\ seen' = [seen EXCEPT ![t] = SeenStatus(StoreOf[t])[rev[t]]]
               /\ UNCHANGED <<rev, want, reply>>
      <4>1. TypeOK'
        BY <2>3, <3>1, <3>2, <3>4
        DEF Select, TypeInv, TypeOK, Goto, Acquire, Steps, TransitionSteps, fileVars, draftVars
      <4>2. RegistersOK'
        BY <2>3, <3>0, <3>2, <3>4
        DEF TypeInv, TypeOK, RegistersOK, Goto, TransitionSteps, Decided, StatusOrAbsent, Permitted
      <4>3. QED
        BY <4>1, <4>2 DEF TypeInv
    <3>5. QED
      BY <2>3, <3>3, <3>4 DEF Select
  <2>4. CASE Update(t)
    BY <2>4 DEF Update, TypeInv, TypeOK, RegistersOK, Goto, Steps, TransitionSteps,
       Decided, TxAfterWrite, TxState, Writing, StatusOrAbsent, fileVars
  <2>5. CASE Insert(t)
    <3>1. AuditRow(t) \in AuditEntry /\ rev[t] \in Reviews
      BY <2>5 DEF Insert, TypeInv, RegistersOK, TransitionSteps, Decided, AuditRow, AuditEntry
    <3>2. draftLog' \in [Reviews -> Seq(AuditEntry)]
      BY <2>5, <3>1 DEF Insert, TypeInv, TypeOK, WithRow
    <3>3. TypeOK'
      BY <2>5, <3>2 DEF Insert, TypeInv, TypeOK, Goto, Steps, TransitionSteps, fileVars
    <3>4. RegistersOK'
      BY <2>5 DEF Insert, TypeInv, TypeOK, RegistersOK, Goto, TransitionSteps, Decided
    <3>5. QED
      BY <3>3, <3>4 DEF TypeInv
  <2>6. CASE Reread(t)
    <3>0. rev[t] \in Reviews
      BY <2>6 DEF Reread, TypeInv, RegistersOK, TransitionSteps
    <3>1. TxAfterRead(StoreOf[t]) \in [Stores -> TxState]
      BY DEF TypeInv, TypeOK, TxAfterRead, TxState, Writing
    <3>2. SeenStatus(StoreOf[t])[rev[t]] \in StatusOrAbsent
      BY <3>0 DEF TypeInv, TypeOK, SeenStatus
    <3>3. QED
      BY <2>6, <3>0, <3>1, <3>2, AnswerType
      DEF Reread, TypeInv, TypeOK, ReplyKind, fileVars, draftVars, ShownStatus
  <2>7. CASE DeleteLog(t)
    <3>1. <<>> \in Seq(AuditEntry)
      OBVIOUS
    <3>2. TypeOK'
      BY <2>7, <3>1 DEF DeleteLog, TypeInv, TypeOK, Goto, Acquire, Steps, TxAfterWrite,
         TxState, Writing, fileVars
    <3>3. RegistersOK'
      BY <2>7 DEF DeleteLog, TypeInv, TypeOK, RegistersOK, Goto, TransitionSteps, Decided
    <3>4. QED
      BY <3>2, <3>3 DEF TypeInv
  <2>8. CASE DeleteCase(t)
    BY <2>8 DEF DeleteCase, TypeInv, TypeOK, RegistersOK, Goto, Steps, TransitionSteps,
       Decided, StatusOrAbsent, fileVars
  <2>9. CASE Read(t)
    <3>0. rev[t] \in Reviews
      BY <2>9 DEF Read, TypeInv, RegistersOK, TransitionSteps
    <3>1. TxAfterRead(StoreOf[t]) \in [Stores -> TxState]
      BY DEF TypeInv, TypeOK, TxAfterRead, TxState, Writing
    <3>2. SeenStatus(StoreOf[t])[rev[t]] \in StatusOrAbsent
      BY <3>0 DEF TypeInv, TypeOK, SeenStatus
    <3>3. QED
      BY <2>9, <3>0, <3>1, <3>2, AnswerType
      DEF Read, TypeInv, TypeOK, ReplyKind, fileVars, draftVars
  <2>10. CASE Commit(t)
    <3>1. rev[t] \in Reviews
      BY <2>10 DEF Commit, Committing, TypeInv, RegistersOK
    <3>2. [tx EXCEPT ![StoreOf[t]] = "none"] \in [Stores -> TxState]
      BY DEF TypeInv, TypeOK, TxState
    <3>3. [lock EXCEPT ![StoreOf[t]] = Nobody] \in [Stores -> Threads \cup {Nobody}]
      BY DEF TypeInv, TypeOK
    <3>4. CASE /\ pc[t] = "commitTransition"
               /\ Goto(t, "reread")
               /\ UNCHANGED <<rev, want, seen, reply>>
      <4>1. TypeOK'
        BY <2>10, <3>2, <3>3, <3>4
        DEF Commit, Release, TypeInv, TypeOK, Goto, Steps, TransitionSteps, draftVars
      <4>2. RegistersOK'
        BY <3>4 DEF TypeInv, TypeOK, RegistersOK, Goto, TransitionSteps, Decided
      <4>3. QED
        BY <4>1, <4>2 DEF TypeInv
    <3>5. ASSUME NEW kind \in {"created", "purged"}, NEW st \in {"OPEN", Absent},
                 Answer(t, kind, rev[t], st)
          PROVE  TypeInv'
      BY <2>10, <3>1, <3>2, <3>3, <3>5, AnswerType
      DEF Commit, Release, TypeInv, TypeOK, ReplyKind, StatusOrAbsent, ReviewStatus, draftVars
    <3>6. QED
      BY <2>10, <3>4, <3>5 DEF Commit
  <2>11. CASE AwaitReaders(t)
    BY <2>11 DEF AwaitReaders, TypeInv, TypeOK, RegistersOK, TxState, Writing, fileVars,
       draftVars, threadVars
  <2>12. CASE CommitTimeout(t)
    <3>1. rev[t] \in Reviews
      BY <2>12 DEF CommitTimeout, Committing, TypeInv, RegistersOK
    <3>2. QED
      BY <2>12, <3>1, AnswerType
      DEF CommitTimeout, Release, TypeInv, TypeOK, ReplyKind, StatusOrAbsent, fileVars, draftVars
  <2>13. CASE ReadTimeout(t)
    BY <2>13, AnswerType
    DEF ReadTimeout, TypeInv, TypeOK, ReplyKind, StatusOrAbsent, fileVars, draftVars
  <2>14. CASE WriteTimeout(t)
    <3>1. TxAfterFailedWrite(StoreOf[t]) \in [Stores -> TxState]
      BY DEF TypeInv, TypeOK, TxAfterFailedWrite, TxState
    <3>2. QED
      BY <2>14, <3>1, AnswerType
      DEF WriteTimeout, Release, TypeInv, TypeOK, ReplyKind, StatusOrAbsent, fileVars, draftVars
  <2>15. QED
    BY <1>2, <2>1, <2>2, <2>3, <2>4, <2>5, <2>6, <2>7, <2>8, <2>9, <2>10, <2>11, <2>12,
       <2>13, <2>14 DEF Step
<1>3. ASSUME NEW s \in Stores, Crash(s) PROVE TypeInv'
  <2>1. NoReply \in Reply
    BY DEF NoReply, Reply, ReplyKind, StatusOrAbsent
  <2>2. TypeOK'
    BY <1>3, <2>1 DEF Crash, TypeInv, TypeOK, TxState, Steps, StatusOrAbsent, fileVars, draftVars
  <2>3. RegistersOK'
    BY <1>3 DEF Crash, TypeInv, TypeOK, RegistersOK, TransitionSteps, Decided
  <2>4. QED
    BY <2>2, <2>3 DEF TypeInv
<1>4. CASE UNCHANGED vars
  BY <1>4 DEF TypeInv, TypeOK, RegistersOK, vars
<1>5. QED
  BY <1>1, <1>2, <1>3, <1>4 DEF Next

\* Every variable keeps its type, whatever the stores, threads and roles.
THEOREM TypeCorrect == Spec => []TypeOK
<1>1. TypeInv => TypeOK
  BY DEF TypeInv
<1>2. QED
  BY <1>1, TypeInit, TypeNext, PTL DEF Spec

\* The types and the registers of the threads are right throughout.
LEMMA TypeInvCorrect == Spec => []TypeInv
  BY TypeInit, TypeNext, PTL DEF Spec

-----------------------------------------------------------------------------
(***************************************************************************)
(* Mutual exclusion: the lock inside a store, the file's write lock        *)
(* between stores.                                                         *)
(***************************************************************************)
LEMMA ExclusionInit == Init => ExclusionInv
  BY DEF Init, ExclusionInv, CriticalSections, OneWriter, FreshIdsUnused, Critical, Dirty,
     Committing, Writing, Decided, TransitionSteps

\* A request moves one idle thread to the first step of a call, or leaves it
\* idle, and touches nothing shared.
LEMMA RequestEffect ==
    ASSUME TypeOK, NEW t \in Threads, Request(t)
    PROVE  /\ UNCHANGED <<status, log, draftStatus, draftLog, tx, lock, minted>>
           /\ \E step \in {"idle", "find", "select", "deleteLog", "read"} :
                 pc' = [pc EXCEPT ![t] = step]
           /\ pc[t] = "idle"
           /\ \A u \in Threads \ {t} :
                 rev'[u] = rev[u] /\ want'[u] = want[u] /\ seen'[u] = seen[u]
  BY DEF TypeOK, Request, RequestOpen, RefuseOpen, RequestTransition, RequestPurge,
     RequestRead, Call, Answer, Goto, fileVars, draftVars

\* A thread enters a critical section with the lock and leaves it with the
\* call: no step takes the lock from a thread that is still inside.
LEMMA CriticalSectionsNext ==
    TypeInv /\ CriticalSections /\ [Next]_vars => CriticalSections'
<1> SUFFICES ASSUME TypeInv, CriticalSections, [Next]_vars PROVE CriticalSections'
  OBVIOUS
<1> USE StoreOfAssumption, NullAssumption
<1> USE DEF TypeInv, TypeOK, CriticalSections, Critical, Dirty, Committing, Writing
<1>1. ASSUME NEW t \in Threads, Request(t) PROVE CriticalSections'
  <2>1. UNCHANGED <<status, log, draftStatus, draftLog, tx, lock, minted>>
    BY <1>1, RequestEffect
  <2>2. PICK step \in {"idle", "find", "select", "deleteLog", "read"} :
              pc' = [pc EXCEPT ![t] = step]
    BY <1>1, RequestEffect
  <2>3. \A u \in Threads \ {t} :
              rev'[u] = rev[u] /\ want'[u] = want[u] /\ seen'[u] = seen[u]
    BY <1>1, RequestEffect
  <2>4. QED
    BY <2>1, <2>2, <2>3
<1>2. ASSUME NEW t \in Threads, Step(t) PROVE CriticalSections'
  <2>1. CASE Find(t)
    BY <2>1 DEF Find, Answer, Goto, Acquire, Release, LockFree, Refuse, TxAfterRead, TxAfterWrite, TxAfterFailedWrite, fileVars, draftVars, threadVars
  <2>2. CASE Create(t)
    BY <2>2 DEF Create, Answer, Goto, Acquire, Release, LockFree, Refuse, TxAfterRead, TxAfterWrite, TxAfterFailedWrite, fileVars, draftVars, threadVars
  <2>3. CASE Select(t)
    BY <2>3 DEF Select, Answer, Goto, Acquire, Release, LockFree, Refuse, TxAfterRead, TxAfterWrite, TxAfterFailedWrite, fileVars, draftVars, threadVars
  <2>4. CASE Update(t)
    BY <2>4 DEF Update, Answer, Goto, Acquire, Release, LockFree, Refuse, TxAfterRead, TxAfterWrite, TxAfterFailedWrite, fileVars, draftVars, threadVars
  <2>5. CASE Insert(t)
    BY <2>5 DEF Insert, Answer, Goto, Acquire, Release, LockFree, Refuse, TxAfterRead, TxAfterWrite, TxAfterFailedWrite, fileVars, draftVars, threadVars
  <2>6. CASE Reread(t)
    BY <2>6 DEF Reread, Answer, Goto, Acquire, Release, LockFree, Refuse, TxAfterRead, TxAfterWrite, TxAfterFailedWrite, fileVars, draftVars, threadVars
  <2>7. CASE DeleteLog(t)
    BY <2>7 DEF DeleteLog, Answer, Goto, Acquire, Release, LockFree, Refuse, TxAfterRead, TxAfterWrite, TxAfterFailedWrite, fileVars, draftVars, threadVars
  <2>8. CASE DeleteCase(t)
    BY <2>8 DEF DeleteCase, Answer, Goto, Acquire, Release, LockFree, Refuse, TxAfterRead, TxAfterWrite, TxAfterFailedWrite, fileVars, draftVars, threadVars
  <2>9. CASE Read(t)
    BY <2>9 DEF Read, Answer, Goto, Acquire, Release, LockFree, Refuse, TxAfterRead, TxAfterWrite, TxAfterFailedWrite, fileVars, draftVars, threadVars
  <2>10. CASE Commit(t)
    BY <2>10 DEF Commit, Answer, Goto, Acquire, Release, LockFree, Refuse, TxAfterRead, TxAfterWrite, TxAfterFailedWrite, fileVars, draftVars, threadVars
  <2>11. CASE AwaitReaders(t)
    BY <2>11 DEF AwaitReaders, Answer, Goto, Acquire, Release, LockFree, Refuse, TxAfterRead, TxAfterWrite, TxAfterFailedWrite, fileVars, draftVars, threadVars
  <2>12. CASE CommitTimeout(t)
    BY <2>12 DEF CommitTimeout, Answer, Goto, Acquire, Release, LockFree, Refuse, TxAfterRead, TxAfterWrite, TxAfterFailedWrite, fileVars, draftVars, threadVars
  <2>13. CASE ReadTimeout(t)
    BY <2>13 DEF ReadTimeout, Answer, Goto, Acquire, Release, LockFree, Refuse, TxAfterRead, TxAfterWrite, TxAfterFailedWrite, fileVars, draftVars, threadVars
  <2>14. CASE WriteTimeout(t)
    BY <2>14 DEF WriteTimeout, Answer, Goto, Acquire, Release, LockFree, Refuse, TxAfterRead, TxAfterWrite, TxAfterFailedWrite, fileVars, draftVars, threadVars
  <2>15. QED
    BY <1>2, <2>1, <2>2, <2>3, <2>4, <2>5, <2>6, <2>7, <2>8, <2>9, <2>10, <2>11, <2>12, <2>13, <2>14 DEF Step
<1>3. ASSUME NEW s \in Stores, Crash(s) PROVE CriticalSections'
  BY <1>3 DEF Crash
<1>4. CASE UNCHANGED vars
  BY <1>4 DEF vars
<1>5. QED
  BY <1>1, <1>2, <1>3, <1>4 DEF Next

\* A connection begins to write only when no other one does, and what it
\* wrote is committed or undone before the draft counts as the file again.
LEMMA OneWriterNext ==
    TypeInv /\ CriticalSections /\ OneWriter /\ [Next]_vars => OneWriter'
<1> SUFFICES ASSUME TypeInv, CriticalSections, OneWriter, [Next]_vars PROVE OneWriter'
  OBVIOUS
<1> USE StoreOfAssumption
<1> USE DEF TypeInv, TypeOK, CriticalSections, OneWriter, Critical, Dirty, Committing, Writing
<1>1. ASSUME NEW t \in Threads, Request(t) PROVE OneWriter'
  <2>1. UNCHANGED <<status, log, draftStatus, draftLog, tx, lock, minted>>
    BY <1>1, RequestEffect
  <2>2. PICK step \in {"idle", "find", "select", "deleteLog", "read"} :
              pc' = [pc EXCEPT ![t] = step]
    BY <1>1, RequestEffect
  <2>3. \A u \in Threads \ {t} :
              rev'[u] = rev[u] /\ want'[u] = want[u] /\ seen'[u] = seen[u]
    BY <1>1, RequestEffect
  <2>4. QED
    BY <2>1, <2>2, <2>3
<1>2. ASSUME NEW t \in Threads, Step(t) PROVE OneWriter'
  <2>1. CASE Find(t)
    BY <2>1 DEF Find, CanWrite, Others, Answer, Goto, Acquire, Release, LockFree, Refuse, TxAfterRead, TxAfterWrite, TxAfterFailedWrite, fileVars, draftVars, threadVars
  <2>2. CASE Create(t)
    BY <2>2 DEF Create, CanWrite, Others, Answer, Goto, Acquire, Release, LockFree, Refuse, TxAfterRead, TxAfterWrite, TxAfterFailedWrite, fileVars, draftVars, threadVars
  <2>3. CASE Select(t)
    BY <2>3 DEF Select, CanWrite, Others, Answer, Goto, Acquire, Release, LockFree, Refuse, TxAfterRead, TxAfterWrite, TxAfterFailedWrite, fileVars, draftVars, threadVars
  <2>4. CASE Update(t)
    BY <2>4 DEF Update, CanWrite, Others, Answer, Goto, Acquire, Release, LockFree, Refuse, TxAfterRead, TxAfterWrite, TxAfterFailedWrite, fileVars, draftVars, threadVars
  <2>5. CASE Insert(t)
    BY <2>5 DEF Insert, CanWrite, Others, Answer, Goto, Acquire, Release, LockFree, Refuse, TxAfterRead, TxAfterWrite, TxAfterFailedWrite, fileVars, draftVars, threadVars
  <2>6. CASE Reread(t)
    BY <2>6 DEF Reread, CanWrite, Others, Answer, Goto, Acquire, Release, LockFree, Refuse, TxAfterRead, TxAfterWrite, TxAfterFailedWrite, fileVars, draftVars, threadVars
  <2>7. CASE DeleteLog(t)
    BY <2>7 DEF DeleteLog, CanWrite, Others, Answer, Goto, Acquire, Release, LockFree, Refuse, TxAfterRead, TxAfterWrite, TxAfterFailedWrite, fileVars, draftVars, threadVars
  <2>8. CASE DeleteCase(t)
    BY <2>8 DEF DeleteCase, CanWrite, Others, Answer, Goto, Acquire, Release, LockFree, Refuse, TxAfterRead, TxAfterWrite, TxAfterFailedWrite, fileVars, draftVars, threadVars
  <2>9. CASE Read(t)
    BY <2>9 DEF Read, CanWrite, Others, Answer, Goto, Acquire, Release, LockFree, Refuse, TxAfterRead, TxAfterWrite, TxAfterFailedWrite, fileVars, draftVars, threadVars
  <2>10. CASE Commit(t)
    BY <2>10 DEF Commit, CanWrite, Others, Answer, Goto, Acquire, Release, LockFree, Refuse, TxAfterRead, TxAfterWrite, TxAfterFailedWrite, fileVars, draftVars, threadVars
  <2>11. CASE AwaitReaders(t)
    BY <2>11 DEF AwaitReaders, CanWrite, Others, Answer, Goto, Acquire, Release, LockFree, Refuse, TxAfterRead, TxAfterWrite, TxAfterFailedWrite, fileVars, draftVars, threadVars
  <2>12. CASE CommitTimeout(t)
    BY <2>12 DEF CommitTimeout, CanWrite, Others, Answer, Goto, Acquire, Release, LockFree, Refuse, TxAfterRead, TxAfterWrite, TxAfterFailedWrite, fileVars, draftVars, threadVars
  <2>13. CASE ReadTimeout(t)
    BY <2>13 DEF ReadTimeout, CanWrite, Others, Answer, Goto, Acquire, Release, LockFree, Refuse, TxAfterRead, TxAfterWrite, TxAfterFailedWrite, fileVars, draftVars, threadVars
  <2>14. CASE WriteTimeout(t)
    BY <2>14 DEF WriteTimeout, CanWrite, Others, Answer, Goto, Acquire, Release, LockFree, Refuse, TxAfterRead, TxAfterWrite, TxAfterFailedWrite, fileVars, draftVars, threadVars
  <2>15. QED
    BY <1>2, <2>1, <2>2, <2>3, <2>4, <2>5, <2>6, <2>7, <2>8, <2>9, <2>10, <2>11, <2>12, <2>13, <2>14 DEF Step
<1>3. ASSUME NEW s \in Stores, Crash(s) PROVE OneWriter'
  BY <1>3 DEF Crash, fileVars, draftVars
<1>4. CASE UNCHANGED vars
  BY <1>4 DEF vars
<1>5. QED
  BY <1>1, <1>2, <1>3, <1>4 DEF Next

\* Only the creation of a review gives its id a row.
LEMMA FreshIdsNext ==
    TypeInv /\ ExclusionInv /\ [Next]_vars => FreshIdsUnused'
<1> SUFFICES ASSUME TypeInv, ExclusionInv, [Next]_vars PROVE FreshIdsUnused'
  OBVIOUS
<1> USE DEF TypeInv, TypeOK, RegistersOK, ExclusionInv, FreshIdsUnused, Decided, TransitionSteps
<1>1. ASSUME NEW t \in Threads, Request(t) PROVE FreshIdsUnused'
  <2>1. UNCHANGED <<status, log, draftStatus, draftLog, tx, lock, minted>>
    BY <1>1, RequestEffect
  <2>2. PICK step \in {"idle", "find", "select", "deleteLog", "read"} :
              pc' = [pc EXCEPT ![t] = step]
    BY <1>1, RequestEffect
  <2>3. \A u \in Threads \ {t} :
              rev'[u] = rev[u] /\ want'[u] = want[u] /\ seen'[u] = seen[u]
    BY <1>1, RequestEffect
  <2>4. QED
    BY <2>1, <2>2, <2>3
<1>2. ASSUME NEW t \in Threads, Step(t) PROVE FreshIdsUnused'
  <2>1. CASE Find(t)
    BY <2>1 DEF Find, Fresh, SeenStatus, WithRow, Committing, Answer, Goto, Acquire, Release, LockFree, Refuse, TxAfterRead, TxAfterWrite, TxAfterFailedWrite, fileVars, draftVars, threadVars
  <2>2. CASE Create(t)
    BY <2>2 DEF Create, Fresh, SeenStatus, WithRow, Committing, Answer, Goto, Acquire, Release, LockFree, Refuse, TxAfterRead, TxAfterWrite, TxAfterFailedWrite, fileVars, draftVars, threadVars
  <2>3. CASE Select(t)
    BY <2>3 DEF Select, Fresh, SeenStatus, WithRow, Committing, Answer, Goto, Acquire, Release, LockFree, Refuse, TxAfterRead, TxAfterWrite, TxAfterFailedWrite, fileVars, draftVars, threadVars
  <2>4. CASE Update(t)
    BY <2>4 DEF Update, Fresh, SeenStatus, WithRow, Committing, Answer, Goto, Acquire, Release, LockFree, Refuse, TxAfterRead, TxAfterWrite, TxAfterFailedWrite, fileVars, draftVars, threadVars
  <2>5. CASE Insert(t)
    BY <2>5 DEF Insert, Fresh, SeenStatus, WithRow, Committing, Answer, Goto, Acquire, Release, LockFree, Refuse, TxAfterRead, TxAfterWrite, TxAfterFailedWrite, fileVars, draftVars, threadVars
  <2>6. CASE Reread(t)
    BY <2>6 DEF Reread, Fresh, SeenStatus, WithRow, Committing, Answer, Goto, Acquire, Release, LockFree, Refuse, TxAfterRead, TxAfterWrite, TxAfterFailedWrite, fileVars, draftVars, threadVars
  <2>7. CASE DeleteLog(t)
    BY <2>7 DEF DeleteLog, Fresh, SeenStatus, WithRow, Committing, Answer, Goto, Acquire, Release, LockFree, Refuse, TxAfterRead, TxAfterWrite, TxAfterFailedWrite, fileVars, draftVars, threadVars
  <2>8. CASE DeleteCase(t)
    BY <2>8 DEF DeleteCase, Fresh, SeenStatus, WithRow, Committing, Answer, Goto, Acquire, Release, LockFree, Refuse, TxAfterRead, TxAfterWrite, TxAfterFailedWrite, fileVars, draftVars, threadVars
  <2>9. CASE Read(t)
    BY <2>9 DEF Read, Fresh, SeenStatus, WithRow, Committing, Answer, Goto, Acquire, Release, LockFree, Refuse, TxAfterRead, TxAfterWrite, TxAfterFailedWrite, fileVars, draftVars, threadVars
  <2>10. CASE Commit(t)
    BY <2>10 DEF Commit, Fresh, SeenStatus, WithRow, Committing, Answer, Goto, Acquire, Release, LockFree, Refuse, TxAfterRead, TxAfterWrite, TxAfterFailedWrite, fileVars, draftVars, threadVars
  <2>11. CASE AwaitReaders(t)
    BY <2>11 DEF AwaitReaders, Fresh, SeenStatus, WithRow, Committing, Answer, Goto, Acquire, Release, LockFree, Refuse, TxAfterRead, TxAfterWrite, TxAfterFailedWrite, fileVars, draftVars, threadVars
  <2>12. CASE CommitTimeout(t)
    BY <2>12 DEF CommitTimeout, Fresh, SeenStatus, WithRow, Committing, Answer, Goto, Acquire, Release, LockFree, Refuse, TxAfterRead, TxAfterWrite, TxAfterFailedWrite, fileVars, draftVars, threadVars
  <2>13. CASE ReadTimeout(t)
    BY <2>13 DEF ReadTimeout, Fresh, SeenStatus, WithRow, Committing, Answer, Goto, Acquire, Release, LockFree, Refuse, TxAfterRead, TxAfterWrite, TxAfterFailedWrite, fileVars, draftVars, threadVars
  <2>14. CASE WriteTimeout(t)
    BY <2>14 DEF WriteTimeout, Fresh, SeenStatus, WithRow, Committing, Answer, Goto, Acquire, Release, LockFree, Refuse, TxAfterRead, TxAfterWrite, TxAfterFailedWrite, fileVars, draftVars, threadVars
  <2>15. QED
    BY <1>2, <2>1, <2>2, <2>3, <2>4, <2>5, <2>6, <2>7, <2>8, <2>9, <2>10, <2>11, <2>12, <2>13, <2>14 DEF Step
<1>3. ASSUME NEW s \in Stores, Crash(s) PROVE FreshIdsUnused'
  BY <1>3 DEF Crash, fileVars, draftVars
<1>4. CASE UNCHANGED vars
  BY <1>4 DEF vars
<1>5. QED
  BY <1>1, <1>2, <1>3, <1>4 DEF Next

\* Critical sections, the one writer and fresh ids hold throughout.
LEMMA ExclusionInvCorrect == Spec => []ExclusionInv
<1>1. TypeInv /\ ExclusionInv /\ [Next]_vars => ExclusionInv'
  BY CriticalSectionsNext, OneWriterNext, FreshIdsNext DEF ExclusionInv
<1>2. QED
  BY <1>1, ExclusionInit, TypeInvCorrect, PTL DEF Spec

-----------------------------------------------------------------------------
(***************************************************************************)
(* The audit trail, for any number of stores.  Only a COMMIT changes the   *)
(* file, and the draft it publishes is sound: its thread is past its last  *)
(* statement and no other thread is inside a write transaction.            *)
(***************************************************************************)
\* Two threads are never both past a write and before its commit.
LEMMA OneDirtyThread ==
    ASSUME TypeInv, ExclusionInv, NEW t \in Threads, NEW u \in Threads,
           pc[t] \in Dirty, pc[u] \in Dirty
    PROVE  t = u
  BY StoreOfAssumption DEF ExclusionInv, CriticalSections, OneWriter, Critical

\* When a statement may write, no other thread is past a write.
LEMMA WriterAlone ==
    ASSUME TypeInv, ExclusionInv, NEW t \in Threads, pc[t] \notin Dirty,
           CanWrite(StoreOf[t]), lock[StoreOf[t]] \in {t, Nobody}
    PROVE  \A u \in Threads : pc[u] \notin Dirty
  BY StoreOfAssumption, NullAssumption
  DEF TypeInv, TypeOK, ExclusionInv, CriticalSections, OneWriter, Critical, CanWrite, Others

\* The empty database is sound.
LEMMA SoundInit == Init => SoundInv
  BY EmptyHistory
  DEF Init, SoundInv, AuditTrailSound, DraftSound, UpdatedDraft

\* A step that writes nothing, by a thread not between two statements.
LEMMA QuietStep ==
    ASSUME TypeInv, SoundInv, NEW t \in Threads, pc[t] \notin {"insert", "deleteCase"},
           UNCHANGED <<status, log, draftStatus, draftLog>>,
           pc'[t] \notin {"insert", "deleteCase"},
           \A u \in Threads \ {t} :
              pc'[u] = pc[u] /\ rev'[u] = rev[u] /\ want'[u] = want[u]
    PROVE  SoundInv'
<1>1. \A r \in Reviews : BetweenStatements(r)' <=> BetweenStatements(r)
  BY DEF BetweenStatements
<1>2. AuditTrailSound' /\ DraftSound'
  BY <1>1 DEF SoundInv, AuditTrailSound, DraftSound
<1>3. UpdatedDraft'
  BY DEF SoundInv, UpdatedDraft
<1>4. QED
  BY <1>2, <1>3 DEF SoundInv

\* Every step keeps what the next COMMIT would publish sound, and so the file.
LEMMA SoundNext == TypeInv /\ ExclusionInv /\ SoundInv /\ [Next]_vars => SoundInv'
<1> SUFFICES ASSUME TypeInv, ExclusionInv, SoundInv, [Next]_vars PROVE SoundInv'
  OBVIOUS
<1> USE StoreOfAssumption
<1>1. ASSUME NEW t \in Threads, Request(t) PROVE SoundInv'
  <2>1. UNCHANGED <<status, log, draftStatus, draftLog>>
    BY <1>1, RequestEffect DEF TypeInv
  <2>2. PICK step \in {"idle", "find", "select", "deleteLog", "read"} :
              pc' = [pc EXCEPT ![t] = step]
    BY <1>1, RequestEffect DEF TypeInv
  <2>3. /\ \A u \in Threads \ {t} : rev'[u] = rev[u] /\ want'[u] = want[u]
        /\ pc[t] = "idle"
    BY <1>1, RequestEffect DEF TypeInv
  <2>4. QED
    BY <2>1, <2>2, <2>3, QuietStep DEF TypeInv, TypeOK
<1>2. ASSUME NEW t \in Threads, Step(t) PROVE SoundInv'
  <2>1. CASE Find(t)
    <3>1. /\ UNCHANGED <<status, log, draftStatus, draftLog>>
          /\ pc[t] \notin {"insert", "deleteCase"} /\ pc'[t] \notin {"insert", "deleteCase"}
          /\ \A u \in Threads \ {t} :
                pc'[u] = pc[u] /\ rev'[u] = rev[u] /\ want'[u] = want[u]
      BY <2>1 DEF Find, TypeInv, TypeOK, Answer, Goto, fileVars, draftVars
    <3>2. QED
      BY <3>1, QuietStep
  <2>2. CASE Create(t)
    <3>1. \A u \in Threads : pc[u] \notin Dirty
      BY <2>2, WriterAlone DEF Create, Acquire, LockFree, Dirty, Committing
    <3>2. PICK r \in Fresh(rev[t]) :
             /\ rev' = [rev EXCEPT ![t] = r]
             /\ draftStatus' = [draftStatus EXCEPT ![r] = "OPEN"]
      BY <2>2 DEF Create
    <3>3. /\ UNCHANGED <<status, log, draftLog>>
          /\ pc' = [pc EXCEPT ![t] = "commitCreate"]
      BY <2>2 DEF Create, Goto, fileVars
    <3>4. draftLog[r] = <<>>
      BY <3>2 DEF Fresh, ExclusionInv, FreshIdsUnused
    <3>5. \A x \in Reviews : ~BetweenStatements(x)
      BY <3>1 DEF BetweenStatements, Dirty
    <3>6. DraftSound'
      BY <3>2, <3>3, <3>4, <3>5, EmptyHistory DEF SoundInv, DraftSound, TypeInv, TypeOK
    <3>7. UpdatedDraft'
      BY <3>1, <3>3 DEF UpdatedDraft, TypeInv, TypeOK, Dirty
    <3>8. QED
      BY <3>3, <3>6, <3>7 DEF SoundInv, AuditTrailSound
  <2>3. CASE Select(t)
    <3>1. /\ UNCHANGED <<status, log, draftStatus, draftLog>>
          /\ pc[t] \notin {"insert", "deleteCase"} /\ pc'[t] \notin {"insert", "deleteCase"}
          /\ \A u \in Threads \ {t} :
                pc'[u] = pc[u] /\ rev'[u] = rev[u] /\ want'[u] = want[u]
      BY <2>3 DEF Select, TypeInv, TypeOK, Answer, Goto, fileVars, draftVars, Refuse
    <3>2. QED
      BY <3>1, QuietStep
  <2>4. CASE Update(t)
    <3>1. \A u \in Threads : pc[u] \notin Dirty
      BY <2>4, WriterAlone
      DEF Update, Dirty, Committing, ExclusionInv, CriticalSections, Critical
    <3>2. rev[t] \in Reviews
      BY <2>4 DEF Update, TypeInv, RegistersOK
    <3>3. /\ UNCHANGED <<status, log, draftLog, rev, want>>
          /\ pc' = [pc EXCEPT ![t] = "insert"]
          /\ draftStatus' = [draftStatus EXCEPT ![rev[t]] = IF @ = Absent THEN @ ELSE want[t]]
      BY <2>4 DEF Update, Goto, fileVars
    <3>4. BetweenStatements(rev[t])'
      BY <3>3 DEF BetweenStatements, TypeInv, TypeOK
    <3>5. \A x \in Reviews : ~BetweenStatements(x)
      BY <3>1 DEF BetweenStatements, Dirty
    <3>6. DraftSound'
      BY <3>2, <3>3, <3>4, <3>5 DEF SoundInv, DraftSound, TypeInv, TypeOK
    <3>7. UpdatedDraft'
      BY <3>1, <3>2, <3>3 DEF UpdatedDraft, TypeInv, TypeOK, Dirty
    <3>8. QED
      BY <3>3, <3>6, <3>7 DEF SoundInv, AuditTrailSound
  <2>5. CASE Insert(t)
    <3>1. \A u \in Threads \ {t} : pc[u] \notin Dirty
      BY <2>5, OneDirtyThread DEF Insert, Dirty
    <3>2. /\ rev[t] \in Reviews
          /\ AuditRow(t) \in AuditEntry
          /\ AuditRow(t).new \in ALLOWED_TRANSITIONS[AuditRow(t).prior]
          /\ AuditRow(t).new = want[t]
      BY <2>5 DEF Insert, TypeInv, RegistersOK, TransitionSteps, Decided, AuditRow, AuditEntry
    <3>3. /\ UNCHANGED <<status, log, draftStatus, rev, want>>
          /\ pc' = [pc EXCEPT ![t] = "commitTransition"]
          /\ draftLog' = [draftLog EXCEPT ![rev[t]] = Append(@, AuditRow(t))]
      BY <2>5 DEF Insert, Goto, WithRow, fileVars
    <3>4. draftStatus[rev[t]] \in {want[t], Absent}
      BY <2>5 DEF Insert, SoundInv, UpdatedDraft
    <3>5. /\ LegalRows(draftLog'[rev[t]])
          /\ StatusAfter(draftLog'[rev[t]]) = want[t]
      BY <3>2, <3>3, LegalRowsAppend, StatusAfterAppend DEF SoundInv, DraftSound, TypeInv, TypeOK
    <3>6. \A x \in Reviews \ {rev[t]} : ~BetweenStatements(x)
      BY <3>1 DEF BetweenStatements, Dirty
    <3>7. DraftSound'
      BY <3>2, <3>3, <3>4, <3>5, <3>6 DEF SoundInv, DraftSound, TypeInv, TypeOK
    <3>8. UpdatedDraft'
      BY <3>1, <3>3 DEF UpdatedDraft, TypeInv, TypeOK, Dirty
    <3>9. QED
      BY <3>3, <3>7, <3>8 DEF SoundInv, AuditTrailSound
  <2>6. CASE Reread(t)
    <3>1. /\ UNCHANGED <<status, log, draftStatus, draftLog>>
          /\ pc[t] \notin {"insert", "deleteCase"} /\ pc'[t] \notin {"insert", "deleteCase"}
          /\ \A u \in Threads \ {t} :
                pc'[u] = pc[u] /\ rev'[u] = rev[u] /\ want'[u] = want[u]
      BY <2>6 DEF Reread, TypeInv, TypeOK, Answer, Goto, fileVars, draftVars
    <3>2. QED
      BY <3>1, QuietStep
  <2>7. CASE DeleteLog(t)
    <3>1. \A u \in Threads : pc[u] \notin Dirty
      BY <2>7, WriterAlone DEF DeleteLog, Acquire, LockFree, Dirty, Committing
    <3>2. rev[t] \in Reviews
      BY <2>7 DEF DeleteLog, TypeInv, RegistersOK
    <3>3. /\ UNCHANGED <<status, log, draftStatus, rev, want>>
          /\ pc' = [pc EXCEPT ![t] = "deleteCase"]
          /\ draftLog' = [draftLog EXCEPT ![rev[t]] = <<>>]
      BY <2>7 DEF DeleteLog, Goto, fileVars
    <3>4. BetweenStatements(rev[t])'
      BY <3>3 DEF BetweenStatements, TypeInv, TypeOK
    <3>5. \A x \in Reviews : ~BetweenStatements(x)
      BY <3>1 DEF BetweenStatements, Dirty
    <3>6. DraftSound'
      BY <3>2, <3>3, <3>4, <3>5, EmptyHistory DEF SoundInv, DraftSound, TypeInv, TypeOK
    <3>7. UpdatedDraft'
      BY <3>1, <3>3 DEF UpdatedDraft, TypeInv, TypeOK, Dirty
    <3>8. QED
      BY <3>3, <3>6, <3>7 DEF SoundInv, AuditTrailSound
  <2>8. CASE DeleteCase(t)
    <3>1. \A u \in Threads \ {t} : pc[u] \notin Dirty
      BY <2>8, OneDirtyThread DEF DeleteCase, Dirty
    <3>2. rev[t] \in Reviews
      BY <2>8 DEF DeleteCase, TypeInv, RegistersOK
    <3>3. /\ UNCHANGED <<status, log, draftLog, rev, want>>
          /\ pc' = [pc EXCEPT ![t] = "commitPurge"]
          /\ draftStatus' = [draftStatus EXCEPT ![rev[t]] = Absent]
      BY <2>8 DEF DeleteCase, Goto, fileVars
    <3>4. \A x \in Reviews \ {rev[t]} : ~BetweenStatements(x)
      BY <3>1 DEF BetweenStatements, Dirty
    <3>5. DraftSound'
      BY <3>2, <3>3, <3>4 DEF SoundInv, DraftSound, TypeInv, TypeOK
    <3>6. UpdatedDraft'
      BY <3>1, <3>3 DEF UpdatedDraft, TypeInv, TypeOK, Dirty
    <3>7. QED
      BY <3>3, <3>5, <3>6 DEF SoundInv, AuditTrailSound
  <2>9. CASE Read(t)
    <3>1. /\ UNCHANGED <<status, log, draftStatus, draftLog>>
          /\ pc[t] \notin {"insert", "deleteCase"} /\ pc'[t] \notin {"insert", "deleteCase"}
          /\ \A u \in Threads \ {t} :
                pc'[u] = pc[u] /\ rev'[u] = rev[u] /\ want'[u] = want[u]
      BY <2>9 DEF Read, TypeInv, TypeOK, Answer, Goto, fileVars, draftVars
    <3>2. QED
      BY <3>1, QuietStep
  <2>10. CASE Commit(t)
    <3>1. \A u \in Threads \ {t} : pc[u] \notin Dirty
      BY <2>10, OneDirtyThread DEF Commit, Dirty
    <3>2. pc[t] \notin {"insert", "deleteCase"} /\ pc'[t] \notin {"insert", "deleteCase"}
      BY <2>10 DEF Commit, Committing, Goto, Answer, TypeInv, TypeOK
    <3>3. \A u \in Threads \ {t} : pc'[u] = pc[u]
      BY <2>10 DEF Commit, Goto, Answer, TypeInv, TypeOK
    <3>4. /\ status' = draftStatus /\ log' = draftLog
          /\ UNCHANGED <<draftStatus, draftLog>>
      BY <2>10 DEF Commit, draftVars
    <3>5. \A x \in Reviews : ~BetweenStatements(x)
      BY <3>1, <3>2 DEF BetweenStatements, Dirty
    <3>6. AuditTrailSound' /\ DraftSound'
      BY <3>4, <3>5 DEF SoundInv, AuditTrailSound, DraftSound
    <3>7. UpdatedDraft'
      BY <3>1, <3>2, <3>3 DEF UpdatedDraft, Dirty
    <3>8. QED
      BY <3>6, <3>7 DEF SoundInv
  <2>11. CASE AwaitReaders(t)
    BY <2>11 DEF AwaitReaders, SoundInv, AuditTrailSound, DraftSound, UpdatedDraft,
       BetweenStatements, fileVars, draftVars, threadVars
  <2>12. CASE CommitTimeout(t)
    <3>1. /\ UNCHANGED <<status, log, draftStatus, draftLog>>
          /\ pc[t] \notin {"insert", "deleteCase"} /\ pc'[t] \notin {"insert", "deleteCase"}
          /\ \A u \in Threads \ {t} :
                pc'[u] = pc[u] /\ rev'[u] = rev[u] /\ want'[u] = want[u]
      BY <2>12 DEF CommitTimeout, TypeInv, TypeOK, Answer, Goto, fileVars, draftVars, Committing
    <3>2. QED
      BY <3>1, QuietStep
  <2>13. CASE ReadTimeout(t)
    <3>1. /\ UNCHANGED <<status, log, draftStatus, draftLog>>
          /\ pc[t] \notin {"insert", "deleteCase"} /\ pc'[t] \notin {"insert", "deleteCase"}
          /\ \A u \in Threads \ {t} :
                pc'[u] = pc[u] /\ rev'[u] = rev[u] /\ want'[u] = want[u]
      BY <2>13 DEF ReadTimeout, TypeInv, TypeOK, Answer, Goto, fileVars, draftVars
    <3>2. QED
      BY <3>1, QuietStep
  <2>14. CASE WriteTimeout(t)
    <3>1. /\ UNCHANGED <<status, log, draftStatus, draftLog>>
          /\ pc[t] \notin {"insert", "deleteCase"} /\ pc'[t] \notin {"insert", "deleteCase"}
          /\ \A u \in Threads \ {t} :
                pc'[u] = pc[u] /\ rev'[u] = rev[u] /\ want'[u] = want[u]
      BY <2>14 DEF WriteTimeout, TypeInv, TypeOK, Answer, Goto, fileVars, draftVars
    <3>2. QED
      BY <3>1, QuietStep
  <2>15. QED
    BY <1>2, <2>1, <2>2, <2>3, <2>4, <2>5, <2>6, <2>7, <2>8, <2>9, <2>10, <2>11, <2>12,
       <2>13, <2>14 DEF Step
<1>3. ASSUME NEW s \in Stores, Crash(s) PROVE SoundInv'
  <2>1. /\ UNCHANGED <<status, log>>
        /\ \A t \in Threads : pc'[t] = "idle" \/
              (pc'[t] = pc[t] /\ rev'[t] = rev[t] /\ want'[t] = want[t] /\ StoreOf[t] # s)
    BY <1>3 DEF Crash, fileVars
  <2>2. CASE tx[s] \in Writing
    <3>1. draftStatus' = status /\ draftLog' = log
      BY <1>3, <2>2 DEF Crash
    <3>2. \A t \in Threads : pc'[t] \notin {"insert", "deleteCase"}
      BY <2>1, <2>2 DEF ExclusionInv, CriticalSections, OneWriter, Dirty
    <3>3. QED
      BY <2>1, <3>1, <3>2
      DEF SoundInv, AuditTrailSound, DraftSound, UpdatedDraft
  <2>3. CASE tx[s] \notin Writing
    <3>1. UNCHANGED <<draftStatus, draftLog>>
      BY <1>3, <2>3 DEF Crash, draftVars
    <3>2. \A t \in Threads :
             pc[t] \in {"insert", "deleteCase"} => pc'[t] = pc[t] /\ rev'[t] = rev[t]
      BY <1>3, <2>3 DEF Crash, ExclusionInv, CriticalSections, Dirty
    <3>3. \A r \in Reviews : BetweenStatements(r) => BetweenStatements(r)'
      BY <3>2 DEF BetweenStatements
    <3>4. QED
      BY <2>1, <3>1, <3>3 DEF SoundInv, AuditTrailSound, DraftSound, UpdatedDraft
  <2>4. QED
    BY <2>2, <2>3
<1>4. CASE UNCHANGED vars
  BY <1>4 DEF vars, SoundInv, AuditTrailSound, DraftSound, UpdatedDraft, BetweenStatements
<1>5. QED
  BY <1>1, <1>2, <1>3, <1>4 DEF Next

\* However many processes share the file, a stored status is the new_state of
\* the newest audit row and every row is a transition the lifecycle allows.
THEOREM AuditTrailSoundCorrect == Spec => []AuditTrailSound
<1>1. SoundInv => AuditTrailSound
  BY DEF SoundInv
<1>2. QED
  BY <1>1, SoundInit, SoundNext, TypeInvCorrect, ExclusionInvCorrect, PTL DEF Spec

-----------------------------------------------------------------------------
(***************************************************************************)
(* The audit history, for any number of stores: no COMMIT publishes a      *)
(* draft that lost rows of a review it still has, although a purge empties *)
(* the log first, a failed commit leaves a draft to the next thread, and a *)
(* transition may run on a review that was purged under it.                *)
(***************************************************************************)
\* In the empty database no row is missing.
LEMMA HistoryInit == Init => HistoryInv
  BY DEF Init, HistoryInv, DraftKeepsOrPurges, TransitionOnKeptRows, RecordedOrGone, Kept

\* A step that writes nothing, and takes no thread into a transition or past
\* the second statement of a purge, disturbs no history.
LEMMA QuietHistory ==
    ASSUME TypeInv, HistoryInv,
           UNCHANGED <<status, log, draftStatus, draftLog>>,
           \A s \in Stores : tx'[s] \in Writing => tx[s] \in Writing,
           \A u \in Threads :
              \/ pc'[u] = pc[u] /\ rev'[u] = rev[u] /\ want'[u] = want[u] /\ seen'[u] = seen[u]
              \/ /\ pc[u] # "deleteCase"
                 /\ pc'[u] \notin {"update", "insert", "commitTransition", "reread"}
    PROVE  HistoryInv'
<1> USE StoreOfAssumption
<1>1. DraftKeepsOrPurges'
  BY DEF HistoryInv, DraftKeepsOrPurges, Kept
<1>2. TransitionOnKeptRows'
  BY DEF HistoryInv, TransitionOnKeptRows, Kept, Row
<1>3. RecordedOrGone'
  BY DEF HistoryInv, RecordedOrGone, Row
<1>4. QED
  BY <1>1, <1>2, <1>3 DEF HistoryInv

\* A statement begins to write on the only connection that may: no other
\* thread of any store is then at an UPDATE inside an open transaction.
LEMMA NoOtherUpdate ==
    ASSUME TypeInv, ExclusionInv, NEW t \in Threads,
           CanWrite(StoreOf[t]), lock[StoreOf[t]] \in {t, Nobody},
           tx' = TxAfterWrite(StoreOf[t])
    PROVE  \A u \in Threads \ {t} :
              pc[u] = "update" => StoreOf[u] # StoreOf[t] /\ tx'[StoreOf[u]] \notin Writing
<1> USE StoreOfAssumption, NullAssumption
<1> SUFFICES ASSUME NEW u \in Threads \ {t}, pc[u] = "update"
             PROVE  StoreOf[u] # StoreOf[t] /\ tx'[StoreOf[u]] \notin Writing
  OBVIOUS
<1>1. StoreOf[u] # StoreOf[t]
  BY DEF ExclusionInv, CriticalSections, Critical
<1>2. tx[StoreOf[u]] \notin Writing
  BY <1>1 DEF CanWrite, Others, ExclusionInv, OneWriter
<1>3. QED
  BY <1>1, <1>2 DEF TxAfterWrite, TypeInv, TypeOK

\* Before the first write of a transaction the draft is the file.
LEMMA DraftIsFile ==
    ASSUME TypeInv, ExclusionInv, NEW s \in Stores, CanWrite(s), tx[s] \notin Writing
    PROVE  draftStatus = status /\ draftLog = log
  BY DEF CanWrite, Others, ExclusionInv, OneWriter

\* Every statement, commit, timeout and crash keeps the committed rows within
\* reach of the next COMMIT.
LEMMA HistoryNext == TypeInv /\ ExclusionInv /\ HistoryInv /\ [Next]_vars => HistoryInv'
<1> SUFFICES ASSUME TypeInv, ExclusionInv, HistoryInv, [Next]_vars PROVE HistoryInv'
  OBVIOUS
<1> USE StoreOfAssumption
<1>1. ASSUME NEW t \in Threads, Request(t) PROVE HistoryInv'
  <2>1. UNCHANGED <<status, log, draftStatus, draftLog, tx>>
    BY <1>1, RequestEffect DEF TypeInv
  <2>2. PICK step \in {"idle", "find", "select", "deleteLog", "read"} :
              pc' = [pc EXCEPT ![t] = step]
    BY <1>1, RequestEffect DEF TypeInv
  <2>3. /\ \A u \in Threads \ {t} :
              rev'[u] = rev[u] /\ want'[u] = want[u] /\ seen'[u] = seen[u]
        /\ pc[t] = "idle"
    BY <1>1, RequestEffect DEF TypeInv
  <2>4. QED
    BY <2>1, <2>2, <2>3, QuietHistory DEF TypeInv, TypeOK
<1>2. ASSUME NEW t \in Threads, Step(t) PROVE HistoryInv'
  <2>1. CASE Find(t)
    BY <2>1, QuietHistory
    DEF Find, TypeInv, TypeOK, Answer, Goto, TxAfterRead, Writing, fileVars, draftVars
  <2>2. CASE Create(t)
    <3>1. \A u \in Threads : pc[u] \notin Dirty
      BY <2>2, WriterAlone DEF Create, Acquire, LockFree, Dirty, Committing
    <3>2. PICK r \in Fresh(rev[t]) :
             /\ rev' = [rev EXCEPT ![t] = r]
             /\ draftStatus' = [draftStatus EXCEPT ![r] = "OPEN"]
      BY <2>2 DEF Create
    <3>3. /\ UNCHANGED <<status, log, draftLog, want, seen>>
          /\ pc' = [pc EXCEPT ![t] = "commitCreate"]
          /\ pc[t] = "create"
      BY <2>2 DEF Create, Goto, fileVars
    <3>4. r \in Reviews \ minted /\ log[r] = <<>> /\ draftLog[r] = <<>>
      BY <3>2 DEF Fresh, ExclusionInv, FreshIdsUnused
    <3>5. DraftKeepsOrPurges'
      BY <3>1, <3>2, <3>3, <3>4
      DEF HistoryInv, DraftKeepsOrPurges, Kept, Dirty, TypeInv, TypeOK
    <3>6. \A u \in Threads \ {t} : pc[u] = "update" => tx'[StoreOf[u]] \notin Writing
      BY <2>2, NoOtherUpdate DEF Create, Acquire, LockFree
    <3>7. TransitionOnKeptRows'
      BY <3>1, <3>3, <3>6 DEF TransitionOnKeptRows, Dirty, Committing, TypeInv, TypeOK
    <3>8. \A u \in Threads : pc[u] = "reread" => rev[u] \in minted /\ rev[u] # r
      BY <3>4 DEF ExclusionInv, FreshIdsUnused, Decided, TransitionSteps
    <3>9. RecordedOrGone'
      BY <3>2, <3>3, <3>4, <3>8
      DEF HistoryInv, RecordedOrGone, Row, TypeInv, TypeOK, RegistersOK
    <3>10. QED
      BY <3>5, <3>7, <3>9 DEF HistoryInv
  <2>3. CASE Select(t)
    <3>1. /\ UNCHANGED <<status, log, draftStatus, draftLog>>
          /\ \A s \in Stores : tx'[s] \in Writing => tx[s] \in Writing
          /\ \A u \in Threads \ {t} :
                pc'[u] = pc[u] /\ rev'[u] = rev[u] /\ want'[u] = want[u] /\ seen'[u] = seen[u]
          /\ pc[t] = "select"
      <4>1. /\ UNCHANGED <<status, log, draftStatus, draftLog>>
            /\ pc[t] = "select"
            /\ \A u \in Threads \ {t} :
                pc'[u] = pc[u] /\ rev'[u] = rev[u] /\ want'[u] = want[u] /\ seen'[u] = seen[u]
        BY <2>3 DEF Select, TypeInv, TypeOK, Answer, Goto, fileVars, draftVars, Refuse
      <4>2. \A s \in Stores : tx'[s] \in Writing => tx[s] \in Writing
        BY <2>3 DEF Select, TxAfterRead, Writing, TypeInv, TypeOK
      <4>3. QED
        BY <4>1, <4>2
    <3>2. CASE pc'[t] = "idle"
      BY <3>1, <3>2, QuietHistory
    <3>3. CASE pc'[t] # "idle"
      <4>1. /\ pc'[t] = "update"
            /\ rev'[t] = rev[t]
            /\ SeenStatus(StoreOf[t])[rev[t]] # Absent
        BY <2>3, <3>3 DEF Select, Refuse, Answer, Goto, TypeInv, TypeOK
      <4>2. tx[StoreOf[t]] \in Writing => draftStatus[rev[t]] # Absent
        BY <4>1 DEF SeenStatus
      <4>3. TransitionOnKeptRows'
        BY <3>1, <4>1, <4>2 DEF HistoryInv, TransitionOnKeptRows, Kept, Row
      <4>4. DraftKeepsOrPurges' /\ RecordedOrGone'
        BY <3>1, <4>1 DEF HistoryInv, DraftKeepsOrPurges, RecordedOrGone, Kept, Row
      <4>5. QED
        BY <4>3, <4>4 DEF HistoryInv
    <3>4. QED
      BY <3>2, <3>3
  <2>4. CASE Update(t)
    <3>1. \A u \in Threads : pc[u] \notin Dirty
      BY <2>4, WriterAlone
      DEF Update, Dirty, Committing, ExclusionInv, CriticalSections, Critical
    <3>2. rev[t] \in Reviews /\ want[t] # Absent
      BY <2>4 DEF Update, TypeInv, RegistersOK, TransitionSteps, ReviewStatus, Absent
    <3>3. /\ UNCHANGED <<status, log, draftLog, rev, want, seen>>
          /\ pc' = [pc EXCEPT ![t] = "insert"]
          /\ draftStatus' = [draftStatus EXCEPT ![rev[t]] = IF @ = Absent THEN @ ELSE want[t]]
          /\ pc[t] = "update"
      BY <2>4 DEF Update, Goto, fileVars
    <3>4. \A r \in Reviews : draftStatus'[r] = Absent <=> draftStatus[r] = Absent
      BY <3>2, <3>3 DEF TypeInv, TypeOK
    <3>5. DraftKeepsOrPurges'
      BY <3>1, <3>3, <3>4
      DEF HistoryInv, DraftKeepsOrPurges, Kept, Dirty, TypeInv, TypeOK
    <3>6. Kept(rev[t])
      <4>1. CASE tx[StoreOf[t]] \in Writing
        BY <4>1, <3>1, <3>2, <3>3
        DEF HistoryInv, DraftKeepsOrPurges, TransitionOnKeptRows, Dirty
      <4>2. CASE tx[StoreOf[t]] \notin Writing
        BY <2>4, <4>2, <3>2, DraftIsFile DEF Update, Kept, TypeInv, TypeOK
      <4>3. QED
        BY <4>1, <4>2
    <3>7. \A u \in Threads \ {t} : pc[u] = "update" => tx'[StoreOf[u]] \notin Writing
      BY <2>4, NoOtherUpdate DEF Update, ExclusionInv, CriticalSections, Critical
    <3>8. TransitionOnKeptRows'
      BY <3>1, <3>3, <3>6, <3>7
      DEF TransitionOnKeptRows, Kept, Dirty, Committing, TypeInv, TypeOK
    <3>9. RecordedOrGone'
      BY <3>3, <3>4 DEF HistoryInv, RecordedOrGone, Row, TypeInv, TypeOK, RegistersOK
    <3>10. QED
      BY <3>5, <3>8, <3>9 DEF HistoryInv
  <2>5. CASE Insert(t)
    <3>1. \A u \in Threads \ {t} : pc[u] \notin Dirty
      BY <2>5, OneDirtyThread DEF Insert, Dirty
    <3>2. rev[t] \in Reviews /\ Kept(rev[t])
      BY <2>5 DEF Insert, TypeInv, RegistersOK, HistoryInv, TransitionOnKeptRows
    <3>3. /\ UNCHANGED <<status, log, draftStatus, rev, want, seen, tx>>
          /\ pc' = [pc EXCEPT ![t] = "commitTransition"]
          /\ draftLog' = [draftLog EXCEPT ![rev[t]] = Append(@, Row(t))]
          /\ pc[t] = "insert"
      BY <2>5 DEF Insert, Goto, WithRow, AuditRow, Row, fileVars
    <3>4. /\ draftLog'[rev[t]] = Append(draftLog[rev[t]], Row(t))
          /\ draftLog[rev[t]] \in Seq(AuditEntry) /\ log[rev[t]] \in Seq(AuditEntry)
          /\ \A r \in Reviews \ {rev[t]} : draftLog'[r] = draftLog[r]
      BY <3>2, <3>3 DEF TypeInv, TypeOK
    <3>5. Row(t) \in AuditEntry
      BY <3>3 DEF Row, AuditEntry, TypeInv, RegistersOK, TransitionSteps, Decided
    <3>6. Kept(rev[t])'
      BY <3>2, <3>3, <3>4, <3>5 DEF Kept
    <3>7. \E k \in 1..Len(draftLog'[rev[t]]) : draftLog'[rev[t]][k] = Row(t)
      <4>1. /\ Len(draftLog[rev[t]]) + 1 \in 1..Len(draftLog'[rev[t]])
            /\ draftLog'[rev[t]][Len(draftLog[rev[t]]) + 1] = Row(t)
        BY <3>4, <3>5
      <4>2. QED
        BY <4>1
    <3>8. DraftKeepsOrPurges'
      BY <3>3, <3>4, <3>6
      DEF HistoryInv, DraftKeepsOrPurges, Kept, TypeInv, TypeOK
    <3>9. TransitionOnKeptRows'
      BY <3>1, <3>3, <3>7
      DEF HistoryInv, TransitionOnKeptRows, Dirty, Committing, Row, TypeInv, TypeOK
    <3>10. RecordedOrGone'
      BY <3>3 DEF HistoryInv, RecordedOrGone, Row, TypeInv, TypeOK
    <3>11. QED
      BY <3>8, <3>9, <3>10 DEF HistoryInv
  <2>6. CASE Reread(t)
    BY <2>6, QuietHistory
    DEF Reread, TypeInv, TypeOK, Answer, Goto, TxAfterRead, Writing, fileVars, draftVars
  <2>7. CASE DeleteLog(t)
    <3>1. \A u \in Threads : pc[u] \notin Dirty
      BY <2>7, WriterAlone DEF DeleteLog, Acquire, LockFree, Dirty, Committing
    <3>2. rev[t] \in Reviews
      BY <2>7 DEF DeleteLog, TypeInv, RegistersOK
    <3>3. /\ UNCHANGED <<status, log, draftStatus, rev, want, seen>>
          /\ pc' = [pc EXCEPT ![t] = "deleteCase"]
          /\ draftLog' = [draftLog EXCEPT ![rev[t]] = <<>>]
          /\ pc[t] = "deleteLog"
      BY <2>7 DEF DeleteLog, Goto, fileVars
    <3>4. pc'[t] = "deleteCase" /\ rev'[t] = rev[t] /\ draftLog'[rev[t]] = <<>>
      BY <3>2, <3>3 DEF TypeInv, TypeOK
    <3>5. DraftKeepsOrPurges'
      BY <3>1, <3>3, <3>4
      DEF HistoryInv, DraftKeepsOrPurges, Kept, Dirty, TypeInv, TypeOK
    <3>6. \A u \in Threads \ {t} : pc[u] = "update" => tx'[StoreOf[u]] \notin Writing
      BY <2>7, NoOtherUpdate DEF DeleteLog, Acquire, LockFree
    <3>7. TransitionOnKeptRows'
      BY <3>1, <3>3, <3>6 DEF TransitionOnKeptRows, Dirty, Committing, TypeInv, TypeOK
    <3>8. RecordedOrGone'
      BY <3>3 DEF HistoryInv, RecordedOrGone, Row, TypeInv, TypeOK
    <3>9. QED
      BY <3>5, <3>7, <3>8 DEF HistoryInv
  <2>8. CASE DeleteCase(t)
    <3>1. \A u \in Threads \ {t} : pc[u] \notin Dirty
      BY <2>8, OneDirtyThread DEF DeleteCase, Dirty
    <3>2. rev[t] \in Reviews
      BY <2>8 DEF DeleteCase, TypeInv, RegistersOK
    <3>3. /\ UNCHANGED <<status, log, draftLog, rev, want, seen, tx>>
          /\ pc' = [pc EXCEPT ![t] = "commitPurge"]
          /\ draftStatus' = [draftStatus EXCEPT ![rev[t]] = Absent]
          /\ pc[t] = "deleteCase"
      BY <2>8 DEF DeleteCase, Goto, fileVars
    <3>4. \A r \in Reviews : draftStatus'[r] \in {draftStatus[r], Absent}
      BY <3>3 DEF TypeInv, TypeOK
    <3>5. draftStatus'[rev[t]] = Absent
      BY <3>2, <3>3 DEF TypeInv, TypeOK
    <3>6. DraftKeepsOrPurges'
      BY <3>1, <3>3, <3>4, <3>5
      DEF HistoryInv, DraftKeepsOrPurges, Kept, Dirty, TypeInv, TypeOK
    <3>7. \A u \in Threads \ {t} : pc[u] = "update" => tx[StoreOf[u]] \notin Writing
      BY <3>3 DEF ExclusionInv, CriticalSections, OneWriter, Critical, Dirty
    <3>8. TransitionOnKeptRows'
      BY <3>1, <3>3, <3>7 DEF TransitionOnKeptRows, Dirty, Committing, TypeInv, TypeOK
    <3>9. RecordedOrGone'
      BY <3>3, <3>4 DEF HistoryInv, RecordedOrGone, Row, TypeInv, TypeOK, RegistersOK
    <3>10. QED
      BY <3>6, <3>8, <3>9 DEF HistoryInv
  <2>9. CASE Read(t)
    BY <2>9, QuietHistory
    DEF Read, TypeInv, TypeOK, Answer, Goto, TxAfterRead, Writing, fileVars, draftVars
  <2>10. CASE Commit(t)
    <3>1. \A u \in Threads \ {t} : pc[u] \notin Dirty
      BY <2>10, OneDirtyThread DEF Commit, Dirty
    <3>2. /\ status' = draftStatus /\ log' = draftLog
          /\ UNCHANGED <<draftStatus, draftLog>>
          /\ \A u \in Threads \ {t} :
                pc'[u] = pc[u] /\ rev'[u] = rev[u] /\ want'[u] = want[u] /\ seen'[u] = seen[u]
      BY <2>10 DEF Commit, Goto, Answer, draftVars, TypeInv, TypeOK
    <3>3. \/ /\ pc[t] = "commitTransition" /\ pc'[t] = "reread"
             /\ rev'[t] = rev[t] /\ want'[t] = want[t] /\ seen'[t] = seen[t]
          \/ pc'[t] = "idle"
      BY <2>10 DEF Commit, Goto, Answer, TypeInv, TypeOK
    <3>4. \A s \in Stores : tx'[s] \notin Writing
      BY <2>10 DEF Commit, Dirty, ExclusionInv, CriticalSections, OneWriter, Writing, TypeInv,
         TypeOK
    <3>5. DraftKeepsOrPurges'
      BY <3>2 DEF DraftKeepsOrPurges, Kept, TypeInv, TypeOK
    <3>6. TransitionOnKeptRows'
      BY <3>1, <3>2, <3>3, <3>4 DEF TransitionOnKeptRows, Dirty, Committing
    <3>7. \A r \in Reviews : Kept(r) \/ (draftLog[r] = <<>> /\ draftStatus[r] = Absent)
      BY <2>10, <3>1 DEF HistoryInv, DraftKeepsOrPurges, Commit, Committing, Dirty
    <3>8. RecordedOrGone'
      <4> SUFFICES ASSUME NEW u \in Threads, pc'[u] = "reread"
                   PROVE  \/ status'[rev'[u]] = Absent /\ draftStatus'[rev'[u]] = Absent
                          \/ \E k \in 1..Len(log'[rev'[u]]) : log'[rev'[u]][k] = Row(u)'
        BY DEF RecordedOrGone
      <4>1. CASE u = t
        <5>1. \E k \in 1..Len(draftLog[rev[t]]) : draftLog[rev[t]][k] = Row(t)
          BY <3>3, <4>1 DEF HistoryInv, TransitionOnKeptRows
        <5>2. QED
          BY <3>2, <3>3, <4>1, <5>1 DEF Row
      <4>2. CASE u # t
        <5>1. pc[u] = "reread" /\ rev[u] \in Reviews /\ rev'[u] = rev[u] /\ Row(u)' = Row(u)
          BY <3>2, <4>2 DEF Row, TypeInv, RegistersOK
        <5>2. CASE draftLog[rev[u]] = <<>> /\ draftStatus[rev[u]] = Absent
          BY <3>2, <5>1, <5>2
        <5>3. CASE Kept(rev[u])
          <6>1. CASE status[rev[u]] = Absent /\ draftStatus[rev[u]] = Absent
            BY <3>2, <5>1, <6>1
          <6>2. CASE \E k \in 1..Len(log[rev[u]]) : log[rev[u]][k] = Row(u)
            <7>1. PICK k \in 1..Len(log[rev[u]]) : log[rev[u]][k] = Row(u)
              BY <6>2
            <7>2. k \in 1..Len(draftLog[rev[u]]) /\ draftLog[rev[u]][k] = Row(u)
              BY <5>1, <5>3, <7>1 DEF Kept, TypeInv, TypeOK
            <7>3. QED
              BY <3>2, <5>1, <7>2
          <6>3. QED
            BY <5>1, <6>1, <6>2 DEF HistoryInv, RecordedOrGone
        <5>4. QED
          BY <3>7, <5>1, <5>2, <5>3
      <4>3. QED
        BY <4>1, <4>2
    <3>9. QED
      BY <3>5, <3>6, <3>8 DEF HistoryInv
  <2>11. CASE AwaitReaders(t)
    <3>1. \A s \in Stores : tx'[s] \in Writing => tx[s] \in Writing
      BY <2>11 DEF AwaitReaders, Writing, TypeInv, TypeOK
    <3>2. QED
      BY <2>11, <3>1, QuietHistory DEF AwaitReaders, fileVars, draftVars, threadVars
  <2>12. CASE CommitTimeout(t)
    BY <2>12, QuietHistory
    DEF CommitTimeout, Committing, TypeInv, TypeOK, Answer, Goto, fileVars, draftVars
  <2>13. CASE ReadTimeout(t)
    BY <2>13, QuietHistory DEF ReadTimeout, TypeInv, TypeOK, Answer, Goto, fileVars, draftVars
  <2>14. CASE WriteTimeout(t)
    <3>1. \A s \in Stores : tx'[s] \in Writing => tx[s] \in Writing
      BY <2>14 DEF WriteTimeout, TxAfterFailedWrite, Writing, TypeInv, TypeOK
    <3>2. QED
      BY <2>14, <3>1, QuietHistory
      DEF WriteTimeout, TypeInv, TypeOK, Answer, Goto, fileVars, draftVars
  <2>15. QED
    BY <1>2, <2>1, <2>2, <2>3, <2>4, <2>5, <2>6, <2>7, <2>8, <2>9, <2>10, <2>11, <2>12,
       <2>13, <2>14 DEF Step
<1>3. ASSUME NEW s \in Stores, Crash(s) PROVE HistoryInv'
  <2>1. /\ UNCHANGED <<status, log>>
        /\ \A t \in Threads :
              \/ pc'[t] = "idle" /\ StoreOf[t] = s
              \/ /\ pc'[t] = pc[t] /\ rev'[t] = rev[t] /\ want'[t] = want[t]
                 /\ seen'[t] = seen[t] /\ StoreOf[t] # s
        /\ \A o \in Stores : tx'[o] \in Writing => tx[o] \in Writing /\ o # s
    BY <1>3 DEF Crash, fileVars, Writing, TypeInv, TypeOK
  <2>2. CASE tx[s] \in Writing
    <3>1. draftStatus' = status /\ draftLog' = log
      BY <1>3, <2>2 DEF Crash
    <3>2. \A o \in Stores : tx'[o] \notin Writing
      BY <2>1, <2>2 DEF ExclusionInv, OneWriter
    <3>3. \A t \in Threads : pc'[t] \notin {"insert", "commitTransition"}
      BY <2>1, <2>2 DEF ExclusionInv, CriticalSections, OneWriter, Dirty, Committing
    <3>4. DraftKeepsOrPurges' /\ TransitionOnKeptRows'
      BY <2>1, <3>1, <3>2, <3>3
      DEF DraftKeepsOrPurges, TransitionOnKeptRows, Kept, TypeInv, TypeOK
    <3>5. RecordedOrGone'
      BY <2>1, <3>1 DEF HistoryInv, RecordedOrGone, Row
    <3>6. QED
      BY <3>4, <3>5 DEF HistoryInv
  <2>3. CASE tx[s] \notin Writing
    <3>1. UNCHANGED <<draftStatus, draftLog>>
      BY <1>3, <2>3 DEF Crash, draftVars
    <3>2. \A t \in Threads : StoreOf[t] = s => pc[t] # "deleteCase"
      BY <2>3 DEF ExclusionInv, CriticalSections, Dirty
    <3>3. QED
      BY <2>1, <3>1, <3>2, QuietHistory
  <2>4. QED
    BY <2>2, <2>3
<1>4. CASE UNCHANGED vars
  BY <1>4, QuietHistory DEF vars
<1>5. QED
  BY <1>1, <1>2, <1>3, <1>4 DEF Next

\* No draft loses rows of a review it keeps.
LEMMA HistoryInvCorrect == Spec => []HistoryInv
  BY HistoryInit, HistoryNext, TypeInvCorrect, ExclusionInvCorrect, PTL DEF Spec

\* Whatever the other processes commit, a transition that has been committed
\* is in the audit log when its caller is answered, unless it was purged.
THEOREM AcknowledgedIsRecordedCorrect == Spec => []AcknowledgedIsRecorded
<1>1. HistoryInv => AcknowledgedIsRecorded
  BY DEF HistoryInv, RecordedOrGone, AcknowledgedIsRecorded, Row
<1>2. QED
  BY <1>1, HistoryInvCorrect, PTL

\* Only a COMMIT writes the file, and it publishes the draft.
LEMMA CommitOrSame ==
    ASSUME TypeInv, [Next]_vars
    PROVE  \/ UNCHANGED <<status, log>>
           \/ \E t \in Threads : Commit(t)
<1>1. ASSUME NEW t \in Threads, Request(t) PROVE UNCHANGED <<status, log>>
  BY <1>1, RequestEffect DEF TypeInv
<1>2. ASSUME NEW t \in Threads, Step(t) PROVE UNCHANGED <<status, log>> \/ Commit(t)
  BY <1>2 DEF Step, Find, Create, Select, Update, Insert, Reread, DeleteLog, DeleteCase, Read,
     AwaitReaders, CommitTimeout, ReadTimeout, WriteTimeout, fileVars
<1>3. ASSUME NEW s \in Stores, Crash(s) PROVE UNCHANGED <<status, log>>
  BY <1>3 DEF Crash, fileVars
<1>4. QED
  BY <1>1, <1>2, <1>3 DEF Next, vars

\* However many processes share the file, committed audit rows are never
\* changed, reordered or dropped, but by the purge of their review.
THEOREM HistoryAppendOnlyCorrect == Spec => HistoryAppendOnly
<1>1. ASSUME TypeInv, ExclusionInv, HistoryInv, [Next]_vars
      PROVE  [\A r \in Reviews :
                \/ /\ Len(log'[r]) >= Len(log[r])
                   /\ \A k \in 1..Len(log[r]) : log'[r][k] = log[r][k]
                \/ status'[r] = Absent /\ log'[r] = <<>>]_vars
  <2>1. CASE UNCHANGED <<status, log>>
    BY <1>1, <2>1 DEF TypeInv, TypeOK
  <2>2. ASSUME NEW t \in Threads, Commit(t), NEW r \in Reviews
        PROVE  \/ /\ Len(log'[r]) >= Len(log[r])
                  /\ \A k \in 1..Len(log[r]) : log'[r][k] = log[r][k]
               \/ status'[r] = Absent /\ log'[r] = <<>>
    <3>1. \A u \in Threads : pc[u] # "deleteCase"
      BY <1>1, <2>2, OneDirtyThread DEF Commit, Committing, Dirty
    <3>2. Kept(r) \/ (draftLog[r] = <<>> /\ draftStatus[r] = Absent)
      BY <1>1, <3>1 DEF HistoryInv, DraftKeepsOrPurges
    <3>3. status' = draftStatus /\ log' = draftLog
      BY <2>2 DEF Commit
    <3>4. QED
      BY <3>2, <3>3 DEF Kept
  <2>3. QED
    BY <1>1, <2>1, <2>2, CommitOrSame
<1>2. QED
  BY <1>1, TypeInvCorrect, ExclusionInvCorrect, HistoryInvCorrect, PTL
  DEF Spec, HistoryAppendOnly

-----------------------------------------------------------------------------
(***************************************************************************)
(* While one store has the database file to itself, ReviewStore implements *)
(* ReviewLedger: each COMMIT is one creation, one legal transition with    *)
(* its audit row, or one purge, and every other step leaves the file as it *)
(* is.                                                                     *)
(***************************************************************************)
\* One store: a deployment with the API alone, or the console alone.
SoleStore == \A s1, s2 \in Stores : s1 = s2

\* With no other connection every lock on the file is there for the asking.
LEMMA FileFree ==
    ASSUME SoleStore, NEW s \in Stores
    PROVE  CanRead(s) /\ CanWrite(s) /\ CanCommit(s)
  BY DEF SoleStore, CanRead, CanWrite, CanCommit, Others

\* One thread at a time is in a critical section.
LEMMA OneCriticalThread ==
    ASSUME SoleStore, TypeInv, CriticalSections, NEW t \in Threads, NEW u \in Threads,
           pc[t] \in Critical, pc[u] \in Critical
    PROVE  t = u
  BY StoreOfAssumption DEF SoleStore, CriticalSections

\* While nobody is in a critical section there is no transaction, and the
\* draft is the file.
LEMMA NoDraftWhenFree ==
    ASSUME SoleStore, TypeInv, ExclusionInv, SoleStoreInv, NEW s \in Stores,
           lock[s] = Nobody
    PROVE  /\ tx[s] = "none"
           /\ draftStatus = status /\ draftLog = log
           /\ \A u \in Threads : pc[u] \notin Critical
  BY StoreOfAssumption, NullAssumption
  DEF SoleStore, SoleStoreInv, ExclusionInv, OneWriter, CriticalSections, Writing

\* A step outside every critical section.
LEMMA OutsideStep ==
    ASSUME SoleStore, TypeInv, ExclusionInv, SoleStoreInv, NEW t \in Threads,
           pc[t] \notin Critical, pc'[t] \notin Critical,
           UNCHANGED <<status, log, draftStatus, draftLog, tx, lock>>,
           \A u \in Threads \ {t} :
              pc'[u] = pc[u] /\ rev'[u] = rev[u] /\ want'[u] = want[u] /\ seen'[u] = seen[u]
    PROVE  SoleStoreInv'
<1>1. /\ \A s \in Stores : lock'[s] = Nobody => tx'[s] = "none"
      /\ \A s \in Stores : tx'[s] \in {"none", "reserved"}
  BY DEF SoleStoreInv
<1>2. \A s \in Stores, u \in Threads : lock'[s] = u => pc'[u] \in Critical
  BY DEF SoleStoreInv
<1>3. \A u \in Threads : pc'[u] \in Critical =>
         u # t /\ pc[u] = pc'[u] /\ Row(u)' = Row(u)
  BY DEF Row
<1>4. QED
  BY <1>1, <1>2, <1>3 DEF SoleStoreInv, DraftIs, Critical, Dirty, Committing

\* Before the first call the draft is the file.
LEMMA SoleStoreInit == Init => SoleStoreInv
  BY NullAssumption DEF Init, SoleStoreInv

\* With one store on the file a step moves the draft only as the thread in
\* the critical section says.
LEMMA SoleStoreNext ==
    ASSUME SoleStore
    PROVE  TypeInv /\ ExclusionInv /\ SoleStoreInv /\ [Next]_vars => SoleStoreInv'
<1> SUFFICES ASSUME TypeInv, ExclusionInv, SoleStoreInv, [Next]_vars PROVE SoleStoreInv'
  OBVIOUS
<1> USE StoreOfAssumption, NullAssumption
<1>1. ASSUME NEW t \in Threads, Request(t) PROVE SoleStoreInv'
  <2>1. UNCHANGED <<status, log, draftStatus, draftLog, tx, lock>>
    BY <1>1, RequestEffect DEF TypeInv
  <2>2. PICK step \in {"idle", "find", "select", "deleteLog", "read"} :
              pc' = [pc EXCEPT ![t] = step]
    BY <1>1, RequestEffect DEF TypeInv
  <2>3. /\ \A u \in Threads \ {t} :
              rev'[u] = rev[u] /\ want'[u] = want[u] /\ seen'[u] = seen[u]
        /\ pc[t] = "idle"
    BY <1>1, RequestEffect DEF TypeInv
  <2>4. QED
    BY <2>1, <2>2, <2>3, OutsideStep DEF TypeInv, TypeOK, Critical, Dirty, Committing
<1>2. ASSUME NEW t \in Threads, Step(t) PROVE SoleStoreInv'
  <2>1. CASE Find(t)
    <3>1. tx[StoreOf[t]] = "none"
      BY <2>1, NoDraftWhenFree DEF Find, LockFree
    <3>2. /\ UNCHANGED <<status, log, draftStatus, draftLog, tx, lock>>
          /\ pc[t] \notin Critical /\ pc'[t] \notin Critical
          /\ \A u \in Threads \ {t} :
                pc'[u] = pc[u] /\ rev'[u] = rev[u] /\ want'[u] = want[u] /\ seen'[u] = seen[u]
      BY <2>1, <3>1
      DEF Find, TxAfterRead, TypeInv, TypeOK, Answer, Goto, Critical, Dirty, Committing,
          fileVars, draftVars
    <3>3. QED
      BY <3>2, OutsideStep
  <2>2. CASE Create(t)
    <3>1. /\ draftStatus = status /\ draftLog = log
          /\ \A u \in Threads : pc[u] \notin Critical
      BY <2>2, NoDraftWhenFree DEF Create, Acquire, LockFree
    <3>2. PICK r \in Fresh(rev[t]) :
             /\ rev' = [rev EXCEPT ![t] = r]
             /\ draftStatus' = [draftStatus EXCEPT ![r] = "OPEN"]
      BY <2>2 DEF Create
    <3>3. status[r] = Absent /\ log[r] = <<>>
      BY <3>2 DEF Fresh, ExclusionInv, FreshIdsUnused
    <3>4. draftLog' = [log EXCEPT ![r] = <<>>]
      BY <2>2, <3>1, <3>3 DEF Create, TypeInv, TypeOK
    <3>5. /\ UNCHANGED <<status, log>>
          /\ pc' = [pc EXCEPT ![t] = "commitCreate"]
          /\ lock' = [lock EXCEPT ![StoreOf[t]] = t]
          /\ tx' = [tx EXCEPT ![StoreOf[t]] = IF @ \in Writing THEN @ ELSE "reserved"]
      BY <2>2 DEF Create, Goto, Acquire, TxAfterWrite, fileVars
    <3>6. QED
      BY <3>1, <3>2, <3>3, <3>4, <3>5
      DEF SoleStore, SoleStoreInv, DraftIs, Critical, Dirty, Committing, TypeInv, TypeOK, Writing
  <2>3. CASE Select(t)
    <3>1. /\ tx[StoreOf[t]] = "none"
          /\ \A u \in Threads : pc[u] \notin Critical
      BY <2>3, NoDraftWhenFree DEF Select, LockFree
    <3>2. UNCHANGED <<status, log, draftStatus, draftLog, tx>>
      BY <2>3, <3>1 DEF Select, TxAfterRead, fileVars, draftVars
    <3>3. CASE /\ lock' = [lock EXCEPT ![StoreOf[t]] = t]
               /\ pc' = [pc EXCEPT ![t] = "update"]
               /\ seen' = [seen EXCEPT ![t] = SeenStatus(StoreOf[t])[rev[t]]]
               /\ UNCHANGED <<rev, want>>
      <4>1. seen'[t] = status[rev[t]]
        BY <3>1, <3>3 DEF SeenStatus, Writing, TypeInv, TypeOK
      <4>2. QED
        BY <3>1, <3>2, <3>3, <4>1
        DEF SoleStore, SoleStoreInv, Critical, Dirty, Committing, TypeInv, TypeOK
    <3>4. ASSUME NEW kind, Refuse(t, kind, SeenStatus(StoreOf[t])[rev[t]])
          PROVE  SoleStoreInv'
      <4>1. /\ UNCHANGED lock
            /\ pc'[t] = "idle"
            /\ \A u \in Threads \ {t} :
                  pc'[u] = pc[u] /\ rev'[u] = rev[u] /\ want'[u] = want[u] /\ seen'[u] = seen[u]
        BY <3>4 DEF Refuse, Answer, Goto, TypeInv, TypeOK
      <4>2. QED
        BY <3>1, <3>2, <4>1, OutsideStep DEF Critical, Dirty, Committing
    <3>5. QED
      BY <2>3, <3>3, <3>4 DEF Select, Acquire, Goto
  <2>4. CASE Update(t)
    <3>1. /\ tx[StoreOf[t]] = "none" /\ status[rev[t]] = seen[t] /\ lock[StoreOf[t]] = t
          /\ rev[t] \in Reviews /\ seen[t] \in ReviewStatus
      BY <2>4 DEF Update, SoleStoreInv, ExclusionInv, CriticalSections, Critical, TypeInv,
         RegistersOK, Decided, TransitionSteps
    <3>2. draftStatus = status /\ draftLog = log
      BY <3>1 DEF SoleStore, ExclusionInv, OneWriter, Writing
    <3>3. \A u \in Threads \ {t} : pc[u] \notin Critical
      BY <2>4, OneCriticalThread DEF Update, Critical, ExclusionInv
    <3>4. seen[t] # Absent
      BY <3>1 DEF ReviewStatus, Absent
    <3>5. /\ draftStatus' = [status EXCEPT ![rev[t]] = want[t]]
          /\ draftLog' = [log EXCEPT ![rev[t]] = log[rev[t]]]
      BY <2>4, <3>1, <3>2, <3>4 DEF Update, TypeInv, TypeOK
    <3>6. /\ UNCHANGED <<status, log, lock, rev, want, seen>>
          /\ pc' = [pc EXCEPT ![t] = "insert"]
          /\ tx' = [tx EXCEPT ![StoreOf[t]] = IF @ \in Writing THEN @ ELSE "reserved"]
      BY <2>4 DEF Update, Goto, TxAfterWrite, fileVars
    <3>7. DraftIs(rev[t], want[t], log[rev[t]])'
      BY <3>5, <3>6 DEF DraftIs
    <3>8. tx' = [tx EXCEPT ![StoreOf[t]] = "reserved"]
      BY <3>1, <3>6 DEF Writing
    <3>9. QED
      BY <3>1, <3>3, <3>6, <3>7, <3>8
      DEF SoleStore, SoleStoreInv, Critical, Dirty, Committing, TypeInv, TypeOK
  <2>5. CASE Insert(t)
    <3>1. \A u \in Threads \ {t} : pc[u] \notin Critical
      BY <2>5, OneCriticalThread DEF Insert, Critical, Dirty, ExclusionInv
    <3>2. rev[t] \in Reviews /\ status[rev[t]] = seen[t] /\ DraftIs(rev[t], want[t], log[rev[t]])
      BY <2>5 DEF Insert, SoleStoreInv, TypeInv, RegistersOK
    <3>3. /\ UNCHANGED <<status, log, draftStatus, tx, lock, rev, want, seen>>
          /\ pc' = [pc EXCEPT ![t] = "commitTransition"]
          /\ draftLog' = [draftLog EXCEPT ![rev[t]] = Append(@, Row(t))]
      BY <2>5 DEF Insert, Goto, WithRow, AuditRow, Row, fileVars
    <3>4. DraftIs(rev[t], want[t], Append(log[rev[t]], Row(t)))'
      BY <3>2, <3>3 DEF DraftIs, Row, TypeInv, TypeOK
    <3>5. QED
      BY <2>5, <3>1, <3>2, <3>3, <3>4
      DEF Insert, SoleStoreInv, Critical, Dirty, Committing, TypeInv, TypeOK
  <2>6. CASE Reread(t)
    <3>1. tx[StoreOf[t]] = "none"
      BY <2>6, NoDraftWhenFree DEF Reread, LockFree
    <3>2. /\ UNCHANGED <<status, log, draftStatus, draftLog, tx, lock>>
          /\ pc[t] \notin Critical /\ pc'[t] \notin Critical
          /\ \A u \in Threads \ {t} :
                pc'[u] = pc[u] /\ rev'[u] = rev[u] /\ want'[u] = want[u] /\ seen'[u] = seen[u]
      BY <2>6, <3>1
      DEF Reread, TxAfterRead, TypeInv, TypeOK, Answer, Goto, Critical, Dirty, Committing,
          fileVars, draftVars
    <3>3. QED
      BY <3>2, OutsideStep
  <2>7. CASE DeleteLog(t)
    <3>1. /\ draftStatus = status /\ draftLog = log
          /\ \A u \in Threads : pc[u] \notin Critical
      BY <2>7, NoDraftWhenFree DEF DeleteLog, Acquire, LockFree
    <3>2. rev[t] \in Reviews
      BY <2>7 DEF DeleteLog, TypeInv, RegistersOK
    <3>3. /\ draftLog' = [log EXCEPT ![rev[t]] = <<>>]
          /\ draftStatus' = [status EXCEPT ![rev[t]] = status[rev[t]]]
      BY <2>7, <3>1, <3>2 DEF DeleteLog, TypeInv, TypeOK
    <3>4. /\ UNCHANGED <<status, log, rev, want, seen>>
          /\ pc' = [pc EXCEPT ![t] = "deleteCase"]
          /\ lock' = [lock EXCEPT ![StoreOf[t]] = t]
          /\ tx' = [tx EXCEPT ![StoreOf[t]] = IF @ \in Writing THEN @ ELSE "reserved"]
      BY <2>7 DEF DeleteLog, Goto, Acquire, TxAfterWrite, fileVars
    <3>5. DraftIs(rev[t], status[rev[t]], <<>>)'
      BY <3>3, <3>4 DEF DraftIs
    <3>6. tx'[StoreOf[t]] = "reserved"
      BY <2>7, <3>4 DEF SoleStoreInv, Writing, TypeInv, TypeOK
    <3>7. QED
      BY <3>1, <3>4, <3>5, <3>6
      DEF SoleStore, SoleStoreInv, Critical, Dirty, Committing, TypeInv, TypeOK
  <2>8. CASE DeleteCase(t)
    <3>1. \A u \in Threads \ {t} : pc[u] \notin Critical
      BY <2>8, OneCriticalThread DEF DeleteCase, Critical, Dirty, ExclusionInv
    <3>2. rev[t] \in Reviews /\ DraftIs(rev[t], status[rev[t]], <<>>)
      BY <2>8 DEF DeleteCase, SoleStoreInv, TypeInv, RegistersOK
    <3>3. /\ UNCHANGED <<status, log, draftLog, tx, lock, rev, want, seen>>
          /\ pc' = [pc EXCEPT ![t] = "commitPurge"]
          /\ draftStatus' = [draftStatus EXCEPT ![rev[t]] = Absent]
      BY <2>8 DEF DeleteCase, Goto, fileVars
    <3>4. DraftIs(rev[t], Absent, <<>>)'
      BY <3>2, <3>3 DEF DraftIs, TypeInv, TypeOK
    <3>5. QED
      BY <2>8, <3>1, <3>3, <3>4
      DEF DeleteCase, SoleStoreInv, Critical, Dirty, Committing, TypeInv, TypeOK
  <2>9. CASE Read(t)
    <3>1. tx[StoreOf[t]] = "none"
      BY <2>9, NoDraftWhenFree DEF Read, LockFree
    <3>2. /\ UNCHANGED <<status, log, draftStatus, draftLog, tx, lock>>
          /\ pc[t] \notin Critical /\ pc'[t] \notin Critical
          /\ \A u \in Threads \ {t} :
                pc'[u] = pc[u] /\ rev'[u] = rev[u] /\ want'[u] = want[u] /\ seen'[u] = seen[u]
      BY <2>9, <3>1
      DEF Read, TxAfterRead, TypeInv, TypeOK, Answer, Goto, Critical, Dirty, Committing,
          fileVars, draftVars
    <3>3. QED
      BY <3>2, OutsideStep
  <2>10. CASE Commit(t)
    <3>1. \A u \in Threads \ {t} : pc[u] \notin Critical
      BY <2>10, OneCriticalThread DEF Commit, Critical, Dirty, ExclusionInv
    <3>2. /\ pc'[t] \notin Critical
          /\ \A u \in Threads \ {t} : pc'[u] = pc[u]
      BY <2>10 DEF Commit, Goto, Answer, Critical, Dirty, Committing, TypeInv, TypeOK
    <3>3. /\ tx' = [tx EXCEPT ![StoreOf[t]] = "none"]
          /\ lock' = [lock EXCEPT ![StoreOf[t]] = Nobody]
      BY <2>10 DEF Commit, Release
    <3>4. QED
      BY <3>1, <3>2, <3>3
      DEF SoleStore, SoleStoreInv, Critical, Dirty, Committing, TypeInv, TypeOK
  <2>11. CASE AwaitReaders(t) \/ CommitTimeout(t)
    BY <2>11, FileFree DEF AwaitReaders, CommitTimeout
  <2>12. CASE ReadTimeout(t) \/ WriteTimeout(t)
    BY <2>12, FileFree DEF ReadTimeout, WriteTimeout
  <2>13. QED
    BY <1>2, <2>1, <2>2, <2>3, <2>4, <2>5, <2>6, <2>7, <2>8, <2>9, <2>10, <2>11, <2>12
    DEF Step
<1>3. ASSUME NEW s \in Stores, Crash(s) PROVE SoleStoreInv'
  <2>1. \A t \in Threads : pc'[t] = "idle"
    BY <1>3 DEF Crash, SoleStore
  <2>2. tx' = [tx EXCEPT ![s] = "none"] /\ lock' = [lock EXCEPT ![s] = Nobody]
    BY <1>3 DEF Crash
  <2>3. QED
    BY <2>1, <2>2 DEF SoleStore, SoleStoreInv, TypeInv, TypeOK
<1>4. CASE UNCHANGED vars
  BY <1>4 DEF vars, SoleStoreInv, DraftIs, Row
<1>5. QED
  BY <1>1, <1>2, <1>3, <1>4 DEF Next

\* With one store on the file the draft is always accounted for.
LEMMA SoleStoreInvCorrect == ASSUME SoleStore PROVE Spec => []SoleStoreInv
<1>1. TypeInv /\ ExclusionInv /\ SoleStoreInv /\ [Next]_vars => SoleStoreInv'
  BY SoleStoreNext
<1>2. QED
  BY <1>1, SoleStoreInit, TypeInvCorrect, ExclusionInvCorrect, PTL DEF Spec

\* No error path rolls back, and yet with one store none leaves a transaction
\* open behind a released lock: a statement never fails on the file's locks.
THEOREM NoTransactionLeftOpenCorrect ==
    ASSUME SoleStore PROVE Spec => []NoTransactionLeftOpen
<1>1. SoleStoreInv => NoTransactionLeftOpen
  BY DEF SoleStoreInv, NoTransactionLeftOpen
<1>2. QED
  BY <1>1, SoleStoreInvCorrect, PTL

-----------------------------------------------------------------------------
\* The ledger's copy of the vocabulary is the store's.
LEMMA SameVocabulary ==
    /\ Ledger!Absent = Absent
    /\ Ledger!ReviewStatus = ReviewStatus
    /\ Ledger!ALLOWED_TRANSITIONS = ALLOWED_TRANSITIONS
  BY DEF Absent, ReviewStatus, ALLOWED_TRANSITIONS, Ledger!Absent, Ledger!ReviewStatus,
     Ledger!ALLOWED_TRANSITIONS

\* The empty database is the empty ledger.
LEMMA RefinesInit == Init => Ledger!Init
  BY SameVocabulary DEF Init, Ledger!Init

\* Only a COMMIT moves the ledger, and it moves it by one of its actions.
LEMMA RefinesNext ==
    ASSUME SoleStore
    PROVE  TypeInv /\ SoleStoreInv /\ [Next]_vars => [Ledger!Next]_<<status, log>>
<1> SUFFICES ASSUME TypeInv, SoleStoreInv, [Next]_vars, ~UNCHANGED <<status, log>>
             PROVE  Ledger!Next
  BY DEF Ledger!ledgerVars
<1>1. PICK t \in Threads : Commit(t)
  <2>1. ASSUME NEW t \in Threads, Request(t) PROVE FALSE
    BY <2>1, RequestEffect DEF TypeInv
  <2>2. ASSUME NEW s \in Stores, Crash(s) PROVE FALSE
    BY <2>2 DEF Crash, fileVars
  <2>3. ASSUME NEW t \in Threads, Step(t), ~Commit(t) PROVE FALSE
    BY <2>3 DEF Step, Find, Create, Select, Update, Insert, Reread, DeleteLog, DeleteCase,
       Read, AwaitReaders, CommitTimeout, ReadTimeout, WriteTimeout, fileVars
  <2>4. QED
    BY <2>1, <2>2, <2>3 DEF Next, vars
<1> DEFINE r == rev[t]
<1>2. /\ status' = draftStatus /\ log' = draftLog
      /\ pc[t] \in Committing
      /\ r \in Reviews
  BY <1>1 DEF Commit, TypeInv, RegistersOK, Committing
<1>3. CASE pc[t] = "commitTransition"
  <2>1. /\ status[r] = seen[t] /\ DraftIs(r, want[t], Append(log[r], Row(t)))
        /\ want[t] \in ReviewStatus /\ seen[t] \in ReviewStatus
        /\ want[t] \in ALLOWED_TRANSITIONS[seen[t]]
    BY <1>3 DEF SoleStoreInv, TypeInv, RegistersOK, Decided, TransitionSteps
  <2>2. status[r] # Absent
    BY <2>1 DEF ReviewStatus, Absent
  <2>3. Ledger!ApplyTransition(r, want[t])
    BY <1>2, <2>1, <2>2, SameVocabulary DEF Ledger!ApplyTransition, DraftIs, Row
  <2>4. QED
    BY <1>2, <2>1, <2>3, SameVocabulary DEF Ledger!Next
<1>4. CASE pc[t] = "commitCreate"
  <2>1. status[r] = Absent /\ log[r] = <<>> /\ DraftIs(r, "OPEN", <<>>)
    BY <1>4 DEF SoleStoreInv
  <2>2. UNCHANGED log
    BY <1>2, <2>1 DEF DraftIs, TypeInv, TypeOK
  <2>3. Ledger!CreateReview(r)
    BY <1>2, <2>1, <2>2, SameVocabulary DEF Ledger!CreateReview, DraftIs
  <2>4. QED
    BY <1>2, <2>3 DEF Ledger!Next
<1>5. CASE pc[t] = "commitPurge"
  <2>1. DraftIs(r, Absent, <<>>)
    BY <1>5 DEF SoleStoreInv
  <2>2. Ledger!PurgeReview(r)
    BY <1>2, <2>1, SameVocabulary DEF Ledger!PurgeReview, DraftIs
  <2>3. QED
    BY <1>2, <2>2 DEF Ledger!Next
<1>6. QED
  BY <1>2, <1>3, <1>4, <1>5 DEF Committing

\* With one store on the file, the store's statements, locks and crashes
\* amount to the atomic ledger.
THEOREM StoreImplementsLedger ==
    ASSUME SoleStore PROVE Spec => ImplementsLedger
<1>1. TypeInv /\ SoleStoreInv /\ [Next]_vars => [Ledger!Next]_<<status, log>>
  BY RefinesNext
<1>2. QED
  BY <1>1, RefinesInit, TypeInvCorrect, SoleStoreInvCorrect, PTL
  DEF Spec, ImplementsLedger, Ledger!Spec, Ledger!ledgerVars

-----------------------------------------------------------------------------
\* What the ledger keeps, the store keeps: the same module once more, for its
\* theorem.
Proved == INSTANCE ReviewLedgerProofs WITH Reviews <- Reviews, status <- status, log <- log

\* The ledger of the refinement and the ledger proved consistent are one.
LEMMA SameLedger ==
    /\ Ledger!Init <=> Proved!Init
    /\ [Ledger!Next]_<<status, log>> <=> [Proved!Next]_<<status, log>>
    /\ LedgerConsistent <=> Proved!LedgerConsistent
<1>1. Ledger!Init <=> Proved!Init
  BY DEF Ledger!Init, Proved!Init, Ledger!Absent, Proved!Absent
<1>2. /\ Ledger!Absent = Proved!Absent
      /\ Ledger!ReviewStatus = Proved!ReviewStatus
      /\ Ledger!ALLOWED_TRANSITIONS = Proved!ALLOWED_TRANSITIONS
  BY DEF Ledger!Absent, Proved!Absent, Ledger!ReviewStatus, Proved!ReviewStatus,
     Ledger!ALLOWED_TRANSITIONS, Proved!ALLOWED_TRANSITIONS
<1>3. Ledger!Next <=> Proved!Next
  BY <1>2 DEF Ledger!Next, Ledger!CreateReview, Ledger!ApplyTransition, Ledger!PurgeReview,
     Proved!Next, Proved!CreateReview, Proved!ApplyTransition, Proved!PurgeReview
<1>4. ASSUME NEW h PROVE Ledger!Chained(h) <=> Proved!Chained(h)
  BY <1>2 DEF Ledger!Chained, Ledger!LegalRows, Proved!Chained, Proved!LegalRows
<1>5. ASSUME NEW h PROVE Ledger!StatusAfter(h) = Proved!StatusAfter(h)
  BY DEF Ledger!StatusAfter, Proved!StatusAfter
<1>6. LedgerConsistent <=> Proved!LedgerConsistent
  BY <1>2, <1>4, <1>5
  DEF LedgerConsistent, Ledger!LedgerConsistent, Proved!LedgerConsistent
<1>7. QED
  BY <1>1, <1>3, <1>6

\* With one store on the file the audit rows of a review are a run of the
\* lifecycle up to its stored status, and a purged review leaves no row.
THEOREM LedgerConsistentCorrect ==
    ASSUME SoleStore PROVE Spec => []LedgerConsistent
<1>1. Spec => Ledger!Spec
  BY StoreImplementsLedger DEF ImplementsLedger
<1>2. Proved!Spec => []Proved!LedgerConsistent
  BY Proved!LedgerAlwaysConsistent
<1>3. QED
  BY <1>1, <1>2, SameLedger, PTL
  DEF Ledger!Spec, Ledger!ledgerVars, Proved!Spec, Proved!ledgerVars

\* With one store on the file no transition reopens or changes a resolved or
\* escalated review.
THEOREM TerminalIsFinalCorrect ==
    ASSUME SoleStore PROVE Spec => TerminalIsFinal
<1>1. ASSUME TypeInv, SoleStoreInv, [Next]_vars
      PROVE  [\A r \in Reviews :
                status[r] \in Terminal => status'[r] \in {status[r], Absent}]_vars
  <2>1. [Ledger!Next]_<<status, log>>
    BY <1>1, RefinesNext
  <2>2. CASE UNCHANGED <<status, log>>
    BY <2>2
  <2>3. ASSUME NEW x \in Reviews, NEW r \in Reviews, status[r] \in Terminal,
               \/ Ledger!CreateReview(x)
               \/ \E new \in ReviewStatus : Ledger!ApplyTransition(x, new)
               \/ Ledger!PurgeReview(x)
        PROVE  status'[r] \in {status[r], Absent}
    BY <1>1, <2>3, SameVocabulary
    DEF Ledger!CreateReview, Ledger!ApplyTransition, Ledger!PurgeReview, Terminal,
        ReviewStatus, Absent, TypeInv, TypeOK
  <2>4. QED
    BY <2>1, <2>2, <2>3, SameVocabulary DEF Ledger!Next
<1>2. QED
  BY <1>1, TypeInvCorrect, SoleStoreInvCorrect, PTL DEF Spec, TerminalIsFinal

-----------------------------------------------------------------------------
(***************************************************************************)
(* Two facts that relate one call to what other calls commit between two   *)
(* of its critical sections: what a transition returns, and what an open   *)
(* found before it creates.                                                *)
(***************************************************************************)
\* A step moves one thread on, or sends all of a store's back to idle: the
\* others stay where they are.
LEMMA OthersStay ==
    ASSUME TypeInv, [Next]_vars, NEW u \in Threads
    PROVE  \/ pc'[u] = pc[u] /\ rev'[u] = rev[u] /\ want'[u] = want[u] /\ seen'[u] = seen[u]
           \/ pc'[u] = "idle"
           \/ Request(u)
           \/ Step(u)
<1>1. ASSUME NEW t \in Threads \ {u}, Request(t)
      PROVE  pc'[u] = pc[u] /\ rev'[u] = rev[u] /\ want'[u] = want[u] /\ seen'[u] = seen[u]
  BY <1>1, RequestEffect DEF TypeInv, TypeOK
<1>2. ASSUME NEW t \in Threads \ {u}, Step(t)
      PROVE  pc'[u] = pc[u] /\ rev'[u] = rev[u] /\ want'[u] = want[u] /\ seen'[u] = seen[u]
  BY <1>2 DEF Step, Find, Create, Select, Update, Insert, Reread, DeleteLog, DeleteCase, Read,
     Commit, AwaitReaders, CommitTimeout, ReadTimeout, WriteTimeout, Answer, Goto, Refuse,
     threadVars, TypeInv, TypeOK
<1>3. ASSUME NEW s \in Stores, Crash(s)
      PROVE  \/ pc'[u] = "idle"
             \/ pc'[u] = pc[u] /\ rev'[u] = rev[u] /\ want'[u] = want[u] /\ seen'[u] = seen[u]
  BY <1>3 DEF Crash
<1>4. QED
  BY <1>1, <1>2, <1>3 DEF Next, vars

\* A thread is at its second critical section because it was, or because it
\* has just committed its transition.
LEMMA RereadEntered ==
    ASSUME TypeInv, [Next]_vars, NEW u \in Threads, pc'[u] = "reread"
    PROVE  /\ rev'[u] = rev[u] /\ want'[u] = want[u]
           /\ pc[u] = "reread" \/ (pc[u] = "commitTransition" /\ Commit(u))
<1>1. ASSUME Request(u) PROVE FALSE
  BY <1>1, RequestEffect DEF TypeInv, TypeOK
<1>2. ASSUME Step(u)
      PROVE  /\ rev'[u] = rev[u] /\ want'[u] = want[u]
             /\ pc[u] = "reread" \/ (pc[u] = "commitTransition" /\ Commit(u))
  BY <1>2 DEF Step, Find, Create, Select, Update, Insert, Reread, DeleteLog, DeleteCase, Read,
     Commit, AwaitReaders, CommitTimeout, ReadTimeout, WriteTimeout, Answer, Goto, Refuse,
     threadVars, TypeInv, TypeOK
<1>3. QED
  BY <1>1, <1>2, OthersStay

\* A thread holds a review it has inserted and not committed because it did,
\* or because it has just minted that review's id.
LEMMA CommitCreateEntered ==
    ASSUME TypeInv, [Next]_vars, NEW u \in Threads, pc'[u] = "commitCreate"
    PROVE  \/ pc[u] = "commitCreate" /\ rev'[u] = rev[u]
           \/ /\ Create(u)
              /\ pc[u] = "create"
              /\ rev'[u] \in Reviews \ minted
              /\ CaseOf[rev'[u]] = rev[u]
<1>1. ASSUME Request(u) PROVE FALSE
  BY <1>1, RequestEffect DEF TypeInv, TypeOK
<1>2. ASSUME Step(u), ~Create(u) PROVE pc[u] = "commitCreate" /\ rev'[u] = rev[u]
  BY <1>2 DEF Step, Find, Select, Update, Insert, Reread, DeleteLog, DeleteCase, Read,
     Commit, AwaitReaders, CommitTimeout, ReadTimeout, WriteTimeout, Answer, Goto, Refuse,
     threadVars, TypeInv, TypeOK
<1>3. ASSUME Create(u)
      PROVE  /\ pc[u] = "create"
             /\ rev'[u] \in Reviews \ minted
             /\ CaseOf[rev'[u]] = rev[u]
  BY <1>3 DEF Create, Fresh, TypeInv, TypeOK
<1>4. QED
  BY <1>1, <1>2, <1>3, OthersStay

\* With one store a COMMIT changes the status of its own review only: to the
\* requested one along the lifecycle, to OPEN for a review that was absent, or
\* to Absent.
LEMMA CommitEffect ==
    ASSUME SoleStore, TypeInv, SoleStoreInv, NEW t \in Threads, Commit(t)
    PROVE  /\ rev[t] \in Reviews
           /\ \A r \in Reviews \ {rev[t]} : status'[r] = status[r]
           /\ \/ /\ pc[t] = "commitTransition"
                 /\ status'[rev[t]] = want[t]
                 /\ status[rev[t]] \in ReviewStatus
                 /\ want[t] \in ALLOWED_TRANSITIONS[status[rev[t]]]
              \/ /\ pc[t] = "commitCreate"
                 /\ status[rev[t]] = Absent
                 /\ status'[rev[t]] = "OPEN"
              \/ pc[t] = "commitPurge" /\ status'[rev[t]] = Absent
<1>1. /\ status' = draftStatus
      /\ pc[t] \in Committing
      /\ rev[t] \in Reviews
  BY DEF Commit, TypeInv, RegistersOK, Committing
<1>2. CASE pc[t] = "commitTransition"
  BY <1>1, <1>2 DEF SoleStoreInv, DraftIs, TypeInv, TypeOK, RegistersOK, Decided, TransitionSteps
<1>3. CASE pc[t] = "commitCreate"
  BY <1>1, <1>3 DEF SoleStoreInv, DraftIs, TypeInv, TypeOK
<1>4. CASE pc[t] = "commitPurge"
  BY <1>1, <1>4 DEF SoleStoreInv, DraftIs, TypeInv, TypeOK
<1>5. QED
  BY <1>1, <1>2, <1>3, <1>4 DEF Committing

\* A status two steps down the lifecycle is final: what is allowed from the
\* requested status allows nothing more.
LEMMA SecondStepIsFinal ==
    ASSUME NEW old \in ReviewStatus, NEW new \in ALLOWED_TRANSITIONS[old],
           NEW next \in ALLOWED_TRANSITIONS[new]
    PROVE  new \in ReviewStatus /\ next \in ReviewStatus /\ ALLOWED_TRANSITIONS[next] = {}
  BY DEF ALLOWED_TRANSITIONS, ReviewStatus

\* Between a transition's commit and its second read only later transitions
\* and purges of the review are committed.
LEMMA ReplyNext ==
    ASSUME SoleStore
    PROVE  TypeInv /\ ExclusionInv /\ SoleStoreInv /\ ReplyInv /\ [Next]_vars => ReplyInv'
<1> SUFFICES ASSUME TypeInv, ExclusionInv, SoleStoreInv, ReplyInv, [Next]_vars,
                    NEW u \in Threads, pc'[u] = "reread"
             PROVE  /\ status'[rev'[u]] \in {want'[u], Absent} \cup ALLOWED_TRANSITIONS[want'[u]]
                    /\ \A o \in Threads : pc'[o] = "commitCreate" => rev'[o] # rev'[u]
  BY DEF ReplyInv
<1>1. /\ rev'[u] = rev[u] /\ want'[u] = want[u]
      /\ pc[u] = "reread" \/ (pc[u] = "commitTransition" /\ Commit(u))
  BY RereadEntered
<1>2. /\ rev[u] \in Reviews /\ rev[u] \in minted
      /\ want[u] \in ReviewStatus /\ seen[u] \in ReviewStatus
      /\ want[u] \in ALLOWED_TRANSITIONS[seen[u]]
  BY <1>1 DEF TypeInv, RegistersOK, Decided, TransitionSteps, ExclusionInv, FreshIdsUnused
<1>3. status'[rev[u]] \in {want[u], Absent} \cup ALLOWED_TRANSITIONS[want[u]]
  <2>1. CASE pc[u] = "commitTransition" /\ Commit(u)
    BY <2>1, CommitEffect
  <2>2. CASE pc[u] = "reread"
    <3>1. /\ status[rev[u]] \in {want[u], Absent} \cup ALLOWED_TRANSITIONS[want[u]]
          /\ \A o \in Threads : pc[o] = "commitCreate" => rev[o] # rev[u]
      BY <2>2 DEF ReplyInv
    <3>2. CASE UNCHANGED <<status, log>>
      BY <3>1, <3>2
    <3>3. ASSUME NEW t \in Threads, Commit(t)
          PROVE  status'[rev[u]] \in {want[u], Absent} \cup ALLOWED_TRANSITIONS[want[u]]
      <4>1. CASE rev[t] # rev[u] \/ pc[t] = "commitPurge"
        BY <1>2, <3>1, <3>3, <4>1, CommitEffect
      <4>2. CASE rev[t] = rev[u] /\ pc[t] = "commitTransition"
        <5>1. /\ status'[rev[u]] = want[t] /\ status[rev[u]] \in ReviewStatus
              /\ want[t] \in ALLOWED_TRANSITIONS[status[rev[u]]]
          BY <3>3, <4>2, CommitEffect
        <5>2. status[rev[u]] # Absent
          BY <5>1 DEF ReviewStatus, Absent
        <5>3. status[rev[u]] = want[u]
          BY <1>2, <3>1, <5>1, <5>2, SecondStepIsFinal
        <5>4. QED
          BY <5>1, <5>3
      <4>3. CASE rev[t] = rev[u] /\ pc[t] = "commitCreate"
        BY <3>1, <4>3
      <4>4. QED
        BY <3>3, <4>1, <4>2, <4>3 DEF Commit, Committing
    <3>4. QED
      BY <3>2, <3>3, CommitOrSame
  <2>3. QED
    BY <1>1, <2>1, <2>2
<1>4. ASSUME NEW o \in Threads, pc'[o] = "commitCreate" PROVE rev'[o] # rev[u]
  <2>1. CASE Create(o) /\ rev'[o] \in Reviews \ minted
    BY <1>2, <2>1
  <2>2. CASE pc[o] = "commitCreate" /\ rev'[o] = rev[o] /\ pc[u] = "reread"
    BY <2>2 DEF ReplyInv
  <2>3. CASE pc[o] = "commitCreate" /\ pc[u] = "commitTransition"
    <3>1. o = u
      BY <2>3, OneCriticalThread DEF ExclusionInv, Critical, Dirty, Committing
    <3>2. QED
      BY <2>3, <3>1
  <2>4. QED
    BY <1>1, <1>4, <2>1, <2>2, <2>3, CommitCreateEntered
<1>5. QED
  BY <1>1, <1>3, <1>4

\* With one store on the file apply_transition never returns an older status
\* than the one it set, although it reads it after releasing the lock.
THEOREM ReplyNotEarlierCorrect ==
    ASSUME SoleStore PROVE Spec => ReplyNotEarlier
<1>1. Init => ReplyInv
  BY DEF Init, ReplyInv
<1>2. TypeInv /\ ExclusionInv /\ SoleStoreInv /\ ReplyInv /\ [Next]_vars => ReplyInv'
  BY ReplyNext
<1>3. ASSUME TypeInv, ExclusionInv, SoleStoreInv, ReplyInv, [Next]_vars
      PROVE  [\A t \in Threads :
                pc[t] = "reread" /\ pc'[t] = "idle" /\ reply'[t].kind = "updated" =>
                    reply'[t].status \in
                        {want[t], Absent} \cup ALLOWED_TRANSITIONS[want[t]]]_vars
  <2> SUFFICES ASSUME NEW t \in Threads, pc[t] = "reread", pc'[t] = "idle",
                      reply'[t].kind = "updated"
               PROVE  reply'[t].status \in {want[t], Absent} \cup ALLOWED_TRANSITIONS[want[t]]
    OBVIOUS
  <2>1. Reread(t)
    <3>1. ASSUME Request(t) PROVE FALSE
      BY <1>3, <3>1, RequestEffect DEF TypeInv
    <3>2. ASSUME Step(t), ~Reread(t) PROVE ReadTimeout(t)
      BY <3>2
      DEF Step, Find, Create, Select, Update, Insert, DeleteLog, DeleteCase, Read, Commit,
          AwaitReaders, CommitTimeout, WriteTimeout, Committing
    <3>3. ASSUME ReadTimeout(t) PROVE reply'[t].kind = "locked"
      BY <1>3, <3>3 DEF ReadTimeout, Answer, TypeInv, TypeOK
    <3>4. ASSUME NEW s \in Stores, Crash(s), StoreOf[t] = s PROVE reply'[t].kind = "none"
      BY <3>4 DEF Crash, NoReply
    <3>5. ASSUME NEW s \in Stores, Crash(s), StoreOf[t] # s PROVE pc'[t] = pc[t]
      BY <3>5 DEF Crash
    <3>6. ASSUME NEW u \in Threads \ {t}, Request(u) \/ Step(u) PROVE pc'[t] = pc[t]
      <4>1. CASE Request(u)
        BY <1>3, <4>1, RequestEffect DEF TypeInv, TypeOK
      <4>2. CASE Step(u)
        BY <1>3, <4>2
        DEF Step, Find, Create, Select, Update, Insert, Reread, DeleteLog, DeleteCase, Read,
            Commit, AwaitReaders, CommitTimeout, ReadTimeout, WriteTimeout, Answer, Goto,
            Refuse, threadVars, TypeInv, TypeOK
      <4>3. QED
        BY <3>6, <4>1, <4>2
    <3>7. QED
      BY <1>3, <3>1, <3>2, <3>3, <3>4, <3>5, <3>6 DEF Next, vars
  <2>2. tx[StoreOf[t]] = "none"
    BY <1>3, <2>1, NoDraftWhenFree, StoreOfAssumption DEF Reread, LockFree
  <2>3. reply'[t].status = status[rev[t]]
    BY <1>3, <2>1, <2>2
    DEF Reread, Answer, ShownStatus, SeenStatus, Writing, TypeInv, TypeOK
  <2>4. QED
    BY <1>3, <2>3 DEF ReplyInv
<1>4. QED
  BY <1>1, <1>2, <1>3, TypeInvCorrect, ExclusionInvCorrect, SoleStoreInvCorrect, PTL
  DEF Spec, ReplyNotEarlier

\* An open stops at the thread it began on.
LEMMA OpenEntered ==
    ASSUME TypeInv, [Next]_vars, NEW u \in Threads, pc'[u] \in {"find", "create"}
    PROVE  \/ pc'[u] = "find" /\ u \in Openers
           \/ /\ pc[u] \in {"find", "create"} /\ rev'[u] = rev[u]
              /\ pc[u] = "find" /\ pc'[u] = "create" => Find(u)
              /\ pc[u] = "create" => pc'[u] = "create"
<1>1. ASSUME Request(u) PROVE pc'[u] = "find" /\ u \in Openers
  <2>1. ASSUME NEW c \in Cases, RefuseOpen(u, c) PROVE FALSE
    BY <2>1 DEF RefuseOpen, Answer, Goto, TypeInv, TypeOK
  <2>2. ASSUME NEW step \in {"select", "deleteLog", "read"}, NEW x, NEW new,
               Call(u, step, x, new)
        PROVE  FALSE
    BY <2>2 DEF Call, Goto, TypeInv, TypeOK
  <2>3. ASSUME NEW c \in Cases, RequestOpen(u, c) PROVE pc'[u] = "find"
    BY <2>3 DEF RequestOpen, Call, Goto, TypeInv, TypeOK
  <2>4. QED
    BY <1>1, <2>1, <2>2, <2>3 DEF Request, RequestTransition, RequestPurge, RequestRead
<1>2. ASSUME Step(u)
      PROVE  /\ pc[u] \in {"find", "create"} /\ rev'[u] = rev[u]
             /\ pc[u] = "find" /\ pc'[u] = "create" => Find(u)
             /\ pc[u] = "create" => pc'[u] = "create"
  BY <1>2 DEF Step, Find, Create, Select, Update, Insert, Reread, DeleteLog, DeleteCase, Read,
     Commit, AwaitReaders, CommitTimeout, ReadTimeout, WriteTimeout, Answer, Goto, Refuse,
     threadVars, TypeInv, TypeOK
<1>3. QED
  BY <1>1, <1>2, OthersStay

\* With one store a review is open after a step only if it was, or if the step
\* commits its creation.
LEMMA OpensOnlyByCreate ==
    ASSUME SoleStore, TypeInv, SoleStoreInv, [Next]_vars,
           NEW r \in Reviews, status'[r] \in NonTerminal
    PROVE  \/ status[r] \in NonTerminal
           \/ \E t \in Threads : Commit(t) /\ pc[t] = "commitCreate" /\ rev[t] = r
<1>1. CASE UNCHANGED <<status, log>>
  BY <1>1
<1>2. ASSUME NEW t \in Threads, Commit(t)
      PROVE  status[r] \in NonTerminal \/ (pc[t] = "commitCreate" /\ rev[t] = r)
  <2>1. CASE rev[t] # r \/ pc[t] = "commitCreate"
    BY <1>2, <2>1, CommitEffect
  <2>2. CASE rev[t] = r /\ pc[t] = "commitTransition"
    <3>1. /\ status[r] \in ReviewStatus /\ want[t] \in ALLOWED_TRANSITIONS[status[r]]
      BY <1>2, <2>2, CommitEffect
    <3>2. QED
      BY <3>1 DEF ALLOWED_TRANSITIONS, ReviewStatus, NonTerminal
  <2>3. CASE rev[t] = r /\ pc[t] = "commitPurge"
    BY <1>2, <2>3, CommitEffect DEF NonTerminal, Absent
  <2>4. QED
    BY <1>2, <2>1, <2>2, <2>3 DEF Commit, Committing
<1>3. QED
  BY <1>1, <1>2, CommitOrSame

\* One thread opens reviews: opens never overlap.
SoleOpener == \A t1, t2 \in Openers : t1 = t2

\* What an opener found stays true up to the commit of what it creates.
LEMMA OpenerNext ==
    ASSUME SoleStore, SoleOpener
    PROVE  TypeInv /\ ExclusionInv /\ SoleStoreInv /\ OpenerInv /\ [Next]_vars => OpenerInv'
<1> SUFFICES ASSUME TypeInv, ExclusionInv, SoleStoreInv, OpenerInv, [Next]_vars
             PROVE  OpenerInv'
  OBVIOUS
<1> DEFINE StillNothingOpen(c) ==
              \A r \in Reviews : CaseOf[r] = c => status'[r] \notin NonTerminal
<1>1. ASSUME NEW c, NothingOpen(c),
             \A t \in Threads : Commit(t) /\ pc[t] = "commitCreate" => CaseOf[rev[t]] # c
      PROVE  StillNothingOpen(c)
  BY <1>1, OpensOnlyByCreate DEF NothingOpen
<1>2. ASSUME NEW t \in Threads, pc[t] = "commitCreate",
             NEW u \in Threads, pc[u] \in {"find", "create", "commitCreate"}
      PROVE  u = t
  BY <1>2 DEF OpenerInv, SoleOpener
<1>3. OneOpenReviewPerCase'
  <2> SUFFICES ASSUME NEW r1 \in Reviews, NEW r2 \in Reviews, CaseOf[r1] = CaseOf[r2],
                      status'[r1] \in NonTerminal, status'[r2] \in NonTerminal
               PROVE  r1 = r2
    BY DEF OneOpenReviewPerCase
  <2>1. CASE status[r1] \in NonTerminal /\ status[r2] \in NonTerminal
    BY <2>1 DEF OpenerInv, OneOpenReviewPerCase
  <2>2. ASSUME NEW t \in Threads, Commit(t), pc[t] = "commitCreate", rev[t] \in {r1, r2}
        PROVE  r1 = r2
    <3>1. NothingOpen(CaseOf[r1])
      BY <2>2 DEF OpenerInv
    <3>2. \A r \in Reviews \ {rev[t]} : status'[r] = status[r]
      BY <2>2, CommitEffect
    <3>3. QED
      BY <2>2, <3>1, <3>2 DEF NothingOpen
  <2>3. QED
    BY <2>1, <2>2, OpensOnlyByCreate
<1>4. ASSUME NEW u \in Threads, pc'[u] \in {"find", "create"}
      PROVE  /\ u \in Openers
             /\ pc'[u] = "create" => StillNothingOpen(rev'[u])
  <2>1. CASE pc'[u] = "find" /\ u \in Openers
    BY <2>1
  <2>2. CASE /\ pc[u] \in {"find", "create"} /\ rev'[u] = rev[u]
             /\ pc[u] = "find" /\ pc'[u] = "create" => Find(u)
             /\ pc[u] = "create" => pc'[u] = "create"
    <3>1. u \in Openers
      BY <2>2 DEF OpenerInv
    <3>2. CASE pc[u] = "create"
      <4>1. NothingOpen(rev[u])
        BY <3>2 DEF OpenerInv
      <4>2. \A t \in Threads : pc[t] # "commitCreate"
        BY <1>2, <3>2
      <4>3. StillNothingOpen(rev[u])
        BY <1>1, <4>1, <4>2
      <4>4. QED
        BY <2>2, <3>1, <4>3
    <3>3. CASE pc[u] = "find" /\ pc'[u] = "create"
      <4>1. Find(u) /\ tx[StoreOf[u]] = "none"
        BY <2>2, <3>3, NoDraftWhenFree, StoreOfAssumption DEF Find, LockFree
      <4>2. status' = status /\ SeenStatus(StoreOf[u]) = status
        BY <4>1 DEF Find, fileVars, SeenStatus, Writing
      <4>3. {r \in Reviews : CaseOf[r] = rev[u] /\ status[r] \in FindStatuses} = {}
        BY <3>3, <4>1, <4>2 DEF Find, Answer, Goto, TypeInv, TypeOK
      <4>4. QED
        BY <2>2, <3>1, <4>2, <4>3 DEF NothingOpen, FindStatuses, NonTerminal
    <3>4. QED
      BY <1>4, <2>2, <3>1, <3>2, <3>3
  <2>3. QED
    BY <1>4, <2>1, <2>2, OpenEntered
<1>5. ASSUME NEW u \in Threads, pc'[u] = "commitCreate"
      PROVE  u \in Openers /\ StillNothingOpen(CaseOf[rev'[u]])
  <2>1. CASE pc[u] = "commitCreate" /\ rev'[u] = rev[u]
    <3>1. u \in Openers /\ NothingOpen(CaseOf[rev[u]])
      BY <2>1 DEF OpenerInv
    <3>2. ~Commit(u)
      BY <1>5 DEF Commit, Goto, Answer, TypeInv, TypeOK
    <3>3. StillNothingOpen(CaseOf[rev[u]])
      BY <1>1, <1>2, <2>1, <3>1, <3>2
    <3>4. QED
      BY <2>1, <3>1, <3>3
  <2>2. CASE /\ Create(u)
             /\ pc[u] = "create"
             /\ rev'[u] \in Reviews \ minted
             /\ CaseOf[rev'[u]] = rev[u]
    <3>1. u \in Openers /\ NothingOpen(rev[u])
      BY <2>2 DEF OpenerInv
    <3>2. status' = status
      BY <2>2 DEF Create, fileVars
    <3>3. QED
      BY <2>2, <3>1, <3>2 DEF NothingOpen
  <2>3. QED
    BY <1>5, <2>1, <2>2, CommitCreateEntered
<1>6. QED
  BY <1>3, <1>4, <1>5 DEF OpenerInv, NothingOpen

\* With one store and one thread that opens, a case never has two reviews that
\* are not terminal, although the search and the creation are separate
\* critical sections and reviewers and purges run between them.
THEOREM OneOpenReviewPerCaseCorrect ==
    ASSUME SoleStore, SoleOpener PROVE Spec => []OneOpenReviewPerCase
<1>1. Init => OpenerInv
  BY DEF Init, OpenerInv, OneOpenReviewPerCase, NonTerminal, Absent
<1>2. TypeInv /\ ExclusionInv /\ SoleStoreInv /\ OpenerInv /\ [Next]_vars => OpenerInv'
  BY OpenerNext
<1>3. OpenerInv => OneOpenReviewPerCase
  BY DEF OpenerInv
<1>4. QED
  BY <1>1, <1>2, <1>3, TypeInvCorrect, ExclusionInvCorrect, SoleStoreInvCorrect, PTL DEF Spec
===============================================================================
