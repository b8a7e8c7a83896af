----------------------- MODULE TransitionEndpointProofs -----------------------
(***************************************************************************)
(* Proofs about TransitionEndpoint, for every set of threads, reviews and  *)
(* keys, every limit, and with expiry, restarts and purges on or off.      *)
(***************************************************************************)
EXTENDS TransitionEndpoint, ReviewModelsProofs, FiniteSetTheorems, TLAPS

(***************************************************************************)
(* The inductive invariant.  The lock's owner is the one keyed request     *)
(* inside get_or_compute; while it computes, the cache has no entry for    *)
(* its key.  A key's transition counts as applied exactly while the cache  *)
(* holds its live entry, which every answer repeats, or while the request  *)
(* that applied it has not stored the entry yet.                           *)
(***************************************************************************)
Computing(t) == pc[t] \in {"apply", "reread"} /\ Keyed(t)
Live(e) == entries[e] # Nothing /\ e \notin aged
Response(v) == [kind |-> IF v = Absent THEN "server_error" ELSE "ok", status |-> v]

LockInv ==
    \A t \in Threads :
        /\ cacheLock = t <=> Computing(t)
        /\ Computing(t) => entries[Entry(t)] = Nothing

ToBeStored(e) == \E t \in Threads : pc[t] = "reread" /\ Keyed(t) /\ Entry(t) = e

HistoryInv ==
    \A e \in CacheKey :
        /\ e \notin applied => answers[e] = {} /\ ~Live(e) /\ ~ToBeStored(e)
        /\ e \in applied => \/ Live(e) /\ answers[e] \subseteq {Response(entries[e])}
                            \/ answers[e] = {} /\ ToBeStored(e)

IInv == TypeOK /\ LockInv /\ HistoryInv
-----------------------------------------------------------------------------
(***************************************************************************)
(* Types.                                                                  *)
(***************************************************************************)
\* The request of a thread at work.
LEMMA RequestFields ==
    ASSUME TypeOK, NEW t \in Threads, pc[t] # "idle"
    PROVE  /\ req[t].rev \in Reviews
           /\ req[t].key \in Keys \cup {NoKey}
           /\ req[t].new \in ReviewStatus
           /\ Keyed(t) => Entry(t) \in CacheKey
           /\ ~Keyed(t) => Entry(t) \notin CacheKey
           /\ pc[t] = "cache" => Keyed(t)
  BY RequestsAssumption DEF TypeOK, Request, Keyed, Entry, CacheKey

\* An answer leaves a thread idle and the history well typed.
LEMMA AnswerType ==
    ASSUME TypeOK, NEW t \in Threads, pc[t] # "idle",
           NEW kind \in Kinds, NEW st \in StatusOrAbsent, Answer(t, kind, st)
    PROVE  /\ pc' \in [Threads -> {"idle", "check", "cache", "apply", "reread"}]
           /\ req' \in [Threads -> Request \cup {NoRequest}]
           /\ \A u \in Threads : pc'[u] # "idle" => req'[u] \in Request
           /\ \A u \in Threads : pc'[u] = "cache" => Keyed(u)'
           /\ reply' \in [Threads -> Reply]
           /\ applied' \subseteq CacheKey
           /\ answers' \in [CacheKey -> SUBSET Reply]
<1>1. [kind |-> kind, status |-> st] \in Reply
  BY DEF Reply
<1>2. /\ pc' \in [Threads -> {"idle", "check", "cache", "apply", "reread"}]
      /\ req' \in [Threads -> Request \cup {NoRequest}]
      /\ \A u \in Threads : pc'[u] # "idle" => req'[u] \in Request
      /\ \A u \in Threads : pc'[u] = "cache" => Keyed(u)'
      /\ applied' \subseteq CacheKey
  BY DEF TypeOK, Answer, Goto, Keyed
<1>3. reply' \in [Threads -> Reply]
  BY <1>1 DEF TypeOK, Answer
<1>4. answers' \in [CacheKey -> SUBSET Reply]
  BY <1>1 DEF TypeOK, Answer
<1>5. QED
  BY <1>2, <1>3, <1>4

\* The endpoint starts well typed.
LEMMA TypeInit == Init => TypeOK
<1> SUFFICES ASSUME Init PROVE TypeOK
  OBVIOUS
<1>1. NoReply \in Reply
  BY DEF NoReply, Reply, Kinds, StatusOrAbsent
<1>2. status \in [Reviews -> StatusOrAbsent] /\ log \in [Reviews -> Seq(AuditEntry)]
  BY DEF Init, StatusOrAbsent, ReviewStatus
<1>3. QED
  BY <1>1, <1>2, LimitAssumption DEF Init, TypeOK

\* Every step of the endpoint keeps its types.
LEMMA TypeNext == TypeOK /\ [Next]_vars => TypeOK'
<1> SUFFICES ASSUME TypeOK, [Next]_vars PROVE TypeOK'
  OBVIOUS
<1> USE LimitAssumption
<1>1. ASSUME NEW t \in Threads, NEW q \in Request, Receive(t, q) PROVE TypeOK'
  <2>1. NoReply \in Reply
    BY DEF NoReply, Reply, Kinds, StatusOrAbsent
  <2>2. QED
    BY <1>1, <2>1 DEF Receive, TypeOK, Goto, Keyed, ledgerVars, cacheVars, historyVars
<1>2. ASSUME NEW t \in Threads, Check(t) PROVE TypeOK'
  <2>1. pc[t] # "idle" /\ UNCHANGED <<status, log, entries, aged, cacheLock>>
    BY <1>2 DEF Check, ledgerVars, cacheVars
  <2>2. CASE LimitReached /\ Answer(t, "limited", Absent) /\ UNCHANGED hits
    BY <2>1, <2>2, AnswerType DEF TypeOK, Kinds, StatusOrAbsent
  <2>3. CASE /\ ~LimitReached /\ hits' = hits + 1
             /\ Goto(t, IF Keyed(t) THEN "cache" ELSE "apply")
             /\ UNCHANGED <<req, reply, historyVars>>
    BY <2>1, <2>3 DEF TypeOK, Goto, Keyed, LimitReached, historyVars
  <2>4. QED
    BY <1>2, <2>2, <2>3 DEF Check
<1>3. ASSUME NEW t \in Threads, LookUp(t) PROVE TypeOK'
  <2> DEFINE e == Entry(t)
  <2>1. pc[t] = "cache" /\ UNCHANGED <<status, log, hits>>
    BY <1>3 DEF LookUp, ledgerVars
  <2>2. CASE AnswerValue(t, entries[e]) /\ UNCHANGED cacheVars /\ entries[e] # Nothing
    <3>1. entries[e] \in StatusOrAbsent
      BY <2>1, <2>2, RequestFields DEF TypeOK
    <3>2. QED
      BY <2>1, <2>2, <3>1, AnswerType DEF TypeOK, AnswerValue, Kinds, cacheVars
  <2>3. CASE /\ entries' = [entries EXCEPT ![e] = Nothing]
             /\ aged' = aged \ {e} /\ cacheLock' = t /\ Goto(t, "apply")
             /\ UNCHANGED <<req, reply, historyVars>>
    BY <2>1, <2>3 DEF TypeOK, Goto, Keyed, historyVars
  <2>4. QED
    BY <1>3, <2>2, <2>3 DEF LookUp
<1>4. ASSUME NEW t \in Threads, Apply(t) PROVE TypeOK'
  <2> DEFINE r == req[t].rev
             new == req[t].new
  <2>1. pc[t] = "apply" /\ UNCHANGED hits
    BY <1>4 DEF Apply
  <2>2. r \in Reviews /\ new \in ReviewStatus /\ status[r] \in StatusOrAbsent
    BY <2>1, RequestFields DEF TypeOK
  <2>3. ASSUME NEW kind \in {"not_found", "conflict"}, Fail(t, kind), UNCHANGED ledgerVars
        PROVE  TypeOK'
    <3>1. cacheLock' \in Threads \cup {Nobody}
      BY <2>3 DEF Fail, Release, TypeOK
    <3>2. QED
      BY <2>1, <2>3, <3>1, AnswerType DEF Fail, TypeOK, Kinds, StatusOrAbsent, ledgerVars
  <2>4. CASE /\ status[r] # Absent
             /\ status' = [status EXCEPT ![r] = new]
             /\ log' = [log EXCEPT ![r] = Append(@, [prior |-> status[r], new |-> new])]
             /\ applied' = applied \cup ({Entry(t)} \cap CacheKey)
             /\ Goto(t, "reread")
             /\ UNCHANGED <<cacheVars, req, reply, answers>>
    <3>1. [prior |-> status[r], new |-> new] \in AuditEntry
      BY <2>2, <2>4 DEF AuditEntry, StatusOrAbsent
    <3>2. log' \in [Reviews -> Seq(AuditEntry)]
      <4>1. log \in [Reviews -> Seq(AuditEntry)]
        BY DEF TypeOK
      <4> DEFINE row == [prior |-> status[r], new |-> new]
      <4> HIDE DEF row
      <4>2. log' = [log EXCEPT ![r] = Append(@, row)]
        BY <2>4 DEF row
      <4>3. row \in AuditEntry
        BY <3>1 DEF row
      <4>4. QED
        BY <2>2, <4>1, <4>2, <4>3
    <3>3. status' \in [Reviews -> StatusOrAbsent]
      BY <2>2, <2>4 DEF TypeOK, StatusOrAbsent
    <3>4. applied' \subseteq CacheKey
      BY <2>4 DEF TypeOK
    <3>5. /\ pc' \in [Threads -> {"idle", "check", "cache", "apply", "reread"}]
          /\ \A u \in Threads : pc'[u] # "idle" => pc[u] # "idle"
          /\ \A u \in Threads : pc'[u] = "cache" => pc[u] = "cache"
      BY <2>1, <2>4 DEF TypeOK, Goto
    <3>6. UNCHANGED <<hits, entries, aged, cacheLock, req, reply, answers>>
      BY <2>1, <2>4 DEF cacheVars
    <3>7. QED
      BY <3>2, <3>3, <3>4, <3>5, <3>6 DEF TypeOK, Keyed
  <2>5. QED
    BY <1>4, <2>3, <2>4 DEF Apply
<1>5. ASSUME NEW t \in Threads, Reread(t) PROVE TypeOK'
  <2> DEFINE v == status[req[t].rev]
  <2>1. pc[t] = "reread" /\ UNCHANGED <<status, log, hits>>
    BY <1>5 DEF Reread, ledgerVars
  <2>2. v \in StatusOrAbsent
    BY <2>1, RequestFields DEF TypeOK
  <2>3. entries' \in [CacheKey -> StatusOrAbsent \cup {Nothing}]
    BY <1>5, <2>2 DEF Reread, TypeOK
  <2>4. aged' \subseteq CacheKey /\ cacheLock' \in Threads \cup {Nobody}
    BY <1>5 DEF Reread, Release, TypeOK
  <2>5. QED
    BY <1>5, <2>1, <2>2, <2>3, <2>4, AnswerType DEF Reread, AnswerValue, TypeOK, Kinds
<1>6. CASE WindowMoves
  BY <1>6 DEF WindowMoves, TypeOK, Keyed, ledgerVars, cacheVars, historyVars
<1>7. ASSUME NEW e \in CacheKey, Expire(e) PROVE TypeOK'
  BY <1>7 DEF Expire, TypeOK, Keyed, ledgerVars
<1>8. ASSUME NEW r \in Reviews, Purge(r) PROVE TypeOK'
  BY <1>8 DEF Purge, TypeOK, Keyed, StatusOrAbsent, cacheVars, historyVars
<1>9. CASE Restart
  <2>1. NoReply \in Reply
    BY DEF NoReply, Reply, Kinds, StatusOrAbsent
  <2>2. QED
    BY <1>9, <2>1 DEF Restart, TypeOK, Keyed, ledgerVars
<1>10. CASE UNCHANGED vars
  BY <1>10 DEF vars, TypeOK, Keyed
<1>11. QED
  BY <1>1, <1>2, <1>3, <1>4, <1>5, <1>6, <1>7, <1>8, <1>9, <1>10 DEF Next, Step, Environment

\* The endpoint keeps every variable in its type.
THEOREM TypeCorrect == Spec => []TypeOK
  BY TypeInit, TypeNext, PTL DEF Spec
-----------------------------------------------------------------------------
(***************************************************************************)
(* The lock.                                                               *)
(***************************************************************************)
\* Answering takes a thread out of get_or_compute, and the history of a key
\* grows only while its transition counts as applied.
LEMMA AnswerEffect ==
    ASSUME TypeOK, NEW t \in Threads, NEW kind, NEW st, Answer(t, kind, st)
    PROVE  /\ ~Computing(t)'
           /\ \A u \in Threads \ {t} : pc'[u] = pc[u] /\ req'[u] = req[u]
           /\ applied' = applied
           /\ \A e \in CacheKey :
                 \/ answers'[e] = answers[e]
                 \/ /\ Keyed(t) /\ e = Entry(t) /\ e \in applied /\ kind # "limited"
                    /\ answers'[e] = answers[e] \cup {[kind |-> kind, status |-> st]}
<1>1. /\ pc'[t] = "idle"
      /\ \A u \in Threads \ {t} : pc'[u] = pc[u] /\ req'[u] = req[u]
      /\ applied' = applied
  BY DEF Answer, Goto, TypeOK
<1>2. ~Computing(t)'
  BY <1>1 DEF Computing
<1>3. \A e \in CacheKey :
         \/ answers'[e] = answers[e]
         \/ /\ Keyed(t) /\ e = Entry(t) /\ e \in applied /\ kind # "limited"
            /\ answers'[e] = answers[e] \cup {[kind |-> kind, status |-> st]}
  BY DEF Answer, TypeOK
<1>4. QED
  BY <1>1, <1>2, <1>3

\* What a step leaves of another thread's place in get_or_compute.
LEMMA OthersKeepPlace ==
    ASSUME NEW u \in Threads, pc'[u] = pc[u], req'[u] = req[u]
    PROVE  /\ Computing(u)' <=> Computing(u)
           /\ Keyed(u)' <=> Keyed(u)
           /\ Entry(u)' = Entry(u)
  BY DEF Computing, Keyed, Entry

\* The lock of the cache is held exactly while a keyed request computes.
LEMMA LockNext == TypeOK /\ LockInv /\ [Next]_vars => LockInv'
<1> SUFFICES ASSUME TypeOK, LockInv, [Next]_vars PROVE LockInv'
  OBVIOUS
<1>1. ASSUME NEW t \in Threads, NEW q \in Request, Receive(t, q) PROVE LockInv'
  <2>1. ~Computing(t) /\ ~Computing(t)'
    BY <1>1 DEF Receive, Goto, Computing, TypeOK
  <2>2. \A u \in Threads \ {t} : pc'[u] = pc[u] /\ req'[u] = req[u]
    BY <1>1 DEF Receive, Goto, TypeOK
  <2>3. UNCHANGED <<cacheLock, entries>>
    BY <1>1 DEF Receive, cacheVars
  <2>4. QED
    BY <2>1, <2>2, <2>3, OthersKeepPlace DEF LockInv
<1>2. ASSUME NEW t \in Threads, Check(t) PROVE LockInv'
  <2>1. pc[t] = "check" /\ UNCHANGED <<cacheLock, entries>>
    BY <1>2 DEF Check, cacheVars
  <2>2. \A u \in Threads \ {t} : pc'[u] = pc[u] /\ req'[u] = req[u]
    BY <1>2, AnswerEffect DEF Check, Goto, TypeOK
  <2>3. ~Computing(t) /\ ~Computing(t)'
    <3>1. CASE Answer(t, "limited", Absent)
      BY <2>1, <3>1, AnswerEffect DEF Computing
    <3>2. CASE Goto(t, IF Keyed(t) THEN "cache" ELSE "apply") /\ UNCHANGED req
      BY <2>1, <3>2 DEF Computing, Goto, Keyed, TypeOK
    <3>3. QED
      BY <1>2, <3>1, <3>2 DEF Check
  <2>4. QED
    BY <2>1, <2>2, <2>3, OthersKeepPlace DEF LockInv
<1>3. ASSUME NEW t \in Threads, LookUp(t) PROVE LockInv'
  <2> DEFINE e == Entry(t)
  <2>1. /\ pc[t] = "cache" /\ cacheLock = Nobody /\ ~Computing(t)
        /\ \A u \in Threads : ~Computing(u)
    BY <1>3, NobodyAssumption DEF LookUp, LockInv, Computing
  <2>2. CASE AnswerValue(t, entries[e]) /\ UNCHANGED cacheVars
    <3>1. \A u \in Threads : ~Computing(u)'
      BY <2>1, <2>2, AnswerEffect, OthersKeepPlace DEF AnswerValue
    <3>2. QED
      BY <2>1, <2>2, <3>1, NobodyAssumption DEF LockInv, cacheVars
  <2>3. CASE /\ entries' = [entries EXCEPT ![e] = Nothing]
             /\ cacheLock' = t /\ Goto(t, "apply") /\ UNCHANGED req
    <3>1. \A u \in Threads \ {t} : ~Computing(u)'
      BY <2>1, <2>3, OthersKeepPlace DEF Goto, TypeOK
    <3>2. Computing(t)' /\ Entry(t)' = e /\ e \in CacheKey
      BY <2>1, <2>3, RequestFields DEF Goto, TypeOK, Computing, Keyed, Entry
    <3>3. entries'[e] = Nothing
      BY <2>3, <3>2 DEF TypeOK
    <3>4. QED
      BY <2>3, <3>1, <3>2, <3>3 DEF LockInv
  <2>4. QED
    BY <1>3, <2>2, <2>3 DEF LookUp
<1>4. ASSUME NEW t \in Threads, Apply(t) PROVE LockInv'
  <2>1. pc[t] = "apply"
    BY <1>4 DEF Apply
  <2>2. ASSUME NEW kind, Fail(t, kind) PROVE LockInv'
    <3>1. /\ ~Computing(t)' /\ UNCHANGED entries
          /\ \A u \in Threads \ {t} : pc'[u] = pc[u] /\ req'[u] = req[u]
      BY <2>2, AnswerEffect DEF Fail
    <3>2. cacheLock' = IF cacheLock = t THEN Nobody ELSE cacheLock
      BY <2>2 DEF Fail, Release
    <3>3. QED
      BY <3>1, <3>2, OthersKeepPlace, NobodyAssumption DEF LockInv
  <2>3. CASE Goto(t, "reread") /\ UNCHANGED <<cacheVars, req>>
    <3>1. /\ UNCHANGED <<cacheLock, entries>>
          /\ \A u \in Threads \ {t} : pc'[u] = pc[u] /\ req'[u] = req[u]
      BY <2>3 DEF cacheVars, Goto, TypeOK
    <3>2. (Computing(t)' <=> Computing(t)) /\ Entry(t)' = Entry(t)
      BY <2>1, <2>3 DEF Computing, Goto, Keyed, Entry, TypeOK
    <3>3. QED
      BY <3>1, <3>2, OthersKeepPlace DEF LockInv
  <2>4. QED
    BY <1>4, <2>2, <2>3 DEF Apply
<1>5. ASSUME NEW t \in Threads, Reread(t) PROVE LockInv'
  <2>1. /\ ~Computing(t)'
        /\ \A u \in Threads \ {t} : pc'[u] = pc[u] /\ req'[u] = req[u]
    BY <1>5, AnswerEffect DEF Reread, AnswerValue
  <2>2. cacheLock' = IF cacheLock = t THEN Nobody ELSE cacheLock
    BY <1>5 DEF Reread, Release
  <2>3. \A u \in Threads \ {t} : Computing(u) => entries'[Entry(u)] = entries[Entry(u)]
    <3>1. CASE Keyed(t)
      <4>1. \A u \in Threads \ {t} : ~Computing(u)
        BY <1>5, <3>1 DEF Reread, LockInv, Computing
      <4>2. QED
        BY <4>1
    <3>2. CASE ~Keyed(t)
      BY <1>5, <3>2 DEF Reread
    <3>3. QED
      BY <3>1, <3>2
  <2>4. QED
    BY <2>1, <2>2, <2>3, OthersKeepPlace, NobodyAssumption DEF LockInv
<1>6. CASE WindowMoves
  BY <1>6 DEF WindowMoves, LockInv, Computing, Keyed, Entry, cacheVars
<1>7. ASSUME NEW e \in CacheKey, Expire(e) PROVE LockInv'
  BY <1>7 DEF Expire, LockInv, Computing, Keyed, Entry
<1>8. ASSUME NEW r \in Reviews, Purge(r) PROVE LockInv'
  BY <1>8 DEF Purge, LockInv, Computing, Keyed, Entry, cacheVars
<1>9. CASE Restart
  BY <1>9, NobodyAssumption DEF Restart, LockInv, Computing
<1>10. CASE UNCHANGED vars
  BY <1>10 DEF vars, LockInv, Computing, Keyed, Entry
<1>11. QED
  BY <1>1, <1>2, <1>3, <1>4, <1>5, <1>6, <1>7, <1>8, <1>9, <1>10 DEF Next, Step, Environment
-----------------------------------------------------------------------------
(***************************************************************************)
(* The history of a key.                                                   *)
(***************************************************************************)
\* Nobody else is inside get_or_compute with a keyed request.
LEMMA OneComputes ==
    ASSUME LockInv, NEW t \in Threads, Computing(t), NEW u \in Threads, Computing(u)
    PROVE  t = u
  BY DEF LockInv

\* Where none of what it speaks of changes, the history invariant stays.
LEMMA HistoryFrame ==
    ASSUME HistoryInv, UNCHANGED <<entries, aged, applied, answers>>,
           \A e \in CacheKey : ToBeStored(e)' <=> ToBeStored(e)
    PROVE  HistoryInv'
  BY DEF HistoryInv, Live, Response

\* The threads other than t keep their place, and t neither was nor is about
\* to store an entry.
LEMMA ToBeStoredKept ==
    ASSUME NEW t \in Threads, pc[t] # "reread", pc'[t] # "reread",
           \A u \in Threads \ {t} : pc'[u] = pc[u] /\ req'[u] = req[u]
    PROVE  \A e \in CacheKey : ToBeStored(e)' <=> ToBeStored(e)
  BY DEF ToBeStored, Keyed, Entry

\* A key's applied transition is in the cache, or about to be stored there, and
\* is all its requests have been answered.
LEMMA HistoryNext == TypeOK /\ LockInv /\ HistoryInv /\ [Next]_vars => HistoryInv'
<1> SUFFICES ASSUME TypeOK, LockInv, HistoryInv, [Next]_vars PROVE HistoryInv'
  OBVIOUS
<1>1. ASSUME NEW t \in Threads, NEW q \in Request, Receive(t, q) PROVE HistoryInv'
  <2>1. /\ pc[t] # "reread" /\ pc'[t] # "reread"
        /\ \A u \in Threads \ {t} : pc'[u] = pc[u] /\ req'[u] = req[u]
    BY <1>1 DEF Receive, Goto, TypeOK
  <2>2. UNCHANGED <<entries, aged, applied, answers>>
    BY <1>1 DEF Receive, cacheVars, historyVars
  <2>3. QED
    BY <2>1, <2>2, ToBeStoredKept, HistoryFrame
<1>2. ASSUME NEW t \in Threads, Check(t) PROVE HistoryInv'
  <2>1. pc[t] = "check" /\ UNCHANGED <<entries, aged>>
    BY <1>2 DEF Check, cacheVars
  <2>2. CASE Answer(t, "limited", Absent)
    <3>1. answers' = answers /\ applied' = applied /\ pc'[t] = "idle"
      BY <2>2 DEF Answer, Goto, TypeOK
    <3>2. QED
      BY <2>1, <2>2, <3>1, AnswerEffect, ToBeStoredKept, HistoryFrame
  <2>3. CASE /\ Goto(t, IF Keyed(t) THEN "cache" ELSE "apply")
             /\ UNCHANGED <<req, reply, historyVars>>
    <3>1. /\ pc'[t] # "reread" /\ UNCHANGED <<applied, answers>>
          /\ \A u \in Threads \ {t} : pc'[u] = pc[u] /\ req'[u] = req[u]
      BY <2>3 DEF Goto, TypeOK, historyVars
    <3>2. QED
      BY <2>1, <3>1, ToBeStoredKept, HistoryFrame
  <2>4. QED
    BY <1>2, <2>2, <2>3 DEF Check
<1>3. ASSUME NEW t \in Threads, LookUp(t), NEW k, k = Entry(t) PROVE HistoryInv'
  <2>1. pc[t] = "cache" /\ k \in CacheKey /\ cacheLock = Nobody
    BY <1>3, RequestFields DEF LookUp
  <2>2. CASE Live(k) /\ AnswerValue(t, entries[k]) /\ UNCHANGED cacheVars
    <3>1. Answer(t, IF entries[k] = Absent THEN "server_error" ELSE "ok", entries[k])
      BY <1>3, <2>2 DEF AnswerValue
    <3>2. /\ applied' = applied /\ UNCHANGED <<entries, aged>> /\ pc'[t] = "idle"
          /\ \A u \in Threads \ {t} : pc'[u] = pc[u] /\ req'[u] = req[u]
      BY <1>3, <2>2, <3>1, AnswerEffect DEF cacheVars, Answer, Goto, TypeOK
    <3>3. \A e \in CacheKey :
             \/ answers'[e] = answers[e]
             \/ e = k /\ answers'[e] = answers[e] \cup {Response(entries[k])}
      BY <1>3, <3>1, AnswerEffect DEF Response
    <3>4. \A e \in CacheKey : ToBeStored(e)' <=> ToBeStored(e)
      BY <1>3, <2>1, <3>2, ToBeStoredKept
    <3>5. k \in applied /\ answers[k] \subseteq {Response(entries[k])}
      BY <1>3, <2>1, <2>2 DEF HistoryInv
    <3>6. QED
      BY <1>3, <2>2, <3>2, <3>3, <3>4, <3>5 DEF HistoryInv, Live, Response
  <2>3. CASE /\ ~Live(k)
             /\ entries' = [entries EXCEPT ![k] = Nothing]
             /\ aged' = aged \ {k} /\ Goto(t, "apply")
             /\ UNCHANGED <<req, reply, historyVars>>
    <3>1. ~ToBeStored(k)
      BY <1>3, <2>1, NobodyAssumption DEF ToBeStored, LockInv, Computing
    <3>2. k \notin applied /\ ~ToBeStored(k)
      BY <1>3, <2>1, <2>3, <3>1 DEF HistoryInv
    <3>3. \A e \in CacheKey : ToBeStored(e)' <=> ToBeStored(e)
      BY <1>3, <2>1, <2>3, ToBeStoredKept DEF Goto, TypeOK
    <3>4. \A e \in CacheKey \ {k} : (Live(e)' <=> Live(e)) /\ entries'[e] = entries[e]
      BY <1>3, <2>3 DEF Live, TypeOK
    <3>5. ~Live(k)'
      BY <1>3, <2>1, <2>3 DEF Live, TypeOK
    <3>6. UNCHANGED <<applied, answers>>
      BY <1>3, <2>3 DEF historyVars
    <3>7. QED
      BY <1>3, <3>2, <3>3, <3>4, <3>5, <3>6 DEF HistoryInv, Response
  <2>4. QED
    BY <1>3, <2>2, <2>3 DEF LookUp, Live
<1>4. ASSUME NEW t \in Threads, Apply(t), NEW k, k = Entry(t) PROVE HistoryInv'
  <2>1. pc[t] = "apply"
    BY <1>4 DEF Apply
  <2>2. k \notin applied /\ (Keyed(t) => k \in CacheKey /\ answers[k] = {} /\ ~Live(k))
    <3>1. CASE Keyed(t)
      <4>1. Computing(t) /\ k \in CacheKey
        BY <1>4, <2>1, <3>1, RequestFields DEF Computing
      <4>2. ~Live(k)
        BY <1>4, <4>1 DEF LockInv, Live
      <4>3. ~ToBeStored(k)
        BY <1>4, <2>1, <4>1, OneComputes DEF ToBeStored, Computing
      <4>4. QED
        BY <1>4, <4>1, <4>2, <4>3 DEF HistoryInv
    <3>2. CASE ~Keyed(t)
      BY <1>4, <2>1, <3>2, RequestFields DEF TypeOK
    <3>3. QED
      BY <1>4, <3>1, <3>2
  <2>3. ASSUME NEW kind, Fail(t, kind) PROVE HistoryInv'
    <3>1. /\ UNCHANGED <<entries, aged, applied>> /\ pc'[t] = "idle"
          /\ \A u \in Threads \ {t} : pc'[u] = pc[u] /\ req'[u] = req[u]
      BY <1>4, <2>3, AnswerEffect DEF Fail, Answer, Goto, TypeOK
    <3>2. answers' = answers
      BY <1>4, <2>2, <2>3 DEF Fail, Answer
    <3>3. QED
      BY <1>4, <2>1, <3>1, <3>2, ToBeStoredKept, HistoryFrame
  <2>4. CASE /\ applied' = applied \cup ({k} \cap CacheKey)
             /\ Goto(t, "reread")
             /\ UNCHANGED <<cacheVars, req, reply, answers>>
    <3>1. /\ UNCHANGED <<entries, aged, answers, req>> /\ pc'[t] = "reread"
          /\ \A u \in Threads \ {t} : pc'[u] = pc[u]
      BY <1>4, <2>4 DEF cacheVars, Goto, TypeOK
    <3>2. \A e \in CacheKey \ {k} : ToBeStored(e)' <=> ToBeStored(e)
      BY <1>4, <2>1, <3>1 DEF ToBeStored, Keyed, Entry
    <3>3. CASE Keyed(t)
      <4>1. ToBeStored(k)'
        BY <1>4, <3>1, <3>3 DEF ToBeStored, Keyed, Entry
      <4>2. QED
        BY <1>4, <2>2, <2>4, <3>1, <3>2, <3>3, <4>1 DEF HistoryInv, Live, Response
    <3>4. CASE ~Keyed(t)
      <4>1. k \notin CacheKey
        BY <1>4, <2>1, <3>4, RequestFields
      <4>2. applied' = applied
        BY <1>4, <2>4, <4>1
      <4>3. QED
        BY <1>4, <3>1, <3>2, <4>1, <4>2, HistoryFrame
    <3>5. QED
      BY <1>4, <3>3, <3>4
  <2>5. QED
    BY <1>4, <2>3, <2>4 DEF Apply
<1>5. ASSUME NEW t \in Threads, Reread(t), NEW k, k = Entry(t),
             NEW v, v = status[req[t].rev]
      PROVE  HistoryInv'
  <2>1. pc[t] = "reread" /\ v \in StatusOrAbsent
    BY <1>5, RequestFields DEF Reread, TypeOK
  <2>2. Answer(t, IF v = Absent THEN "server_error" ELSE "ok", v)
    BY <1>5 DEF Reread, AnswerValue
  <2>3. /\ applied' = applied /\ pc'[t] = "idle"
        /\ \A u \in Threads \ {t} : pc'[u] = pc[u] /\ req'[u] = req[u]
    BY <1>5, <2>2, AnswerEffect DEF Answer, Goto, TypeOK
  <2>4. \A e \in CacheKey \ {k} : ToBeStored(e)' <=> ToBeStored(e)
    BY <1>5, <2>1, <2>3 DEF ToBeStored, Keyed, Entry
  <2>5. CASE Keyed(t)
    <3>1. Computing(t) /\ k \in CacheKey
      BY <1>5, <2>1, <2>5, RequestFields DEF Computing
    <3>2. ToBeStored(k) /\ ~Live(k)
      BY <1>5, <2>1, <2>5, <3>1 DEF ToBeStored, LockInv, Live
    <3>3. k \in applied /\ answers[k] = {}
      BY <1>5, <3>1, <3>2 DEF HistoryInv
    <3>4. /\ entries' = [entries EXCEPT ![k] = v] /\ aged' = aged \ {k}
      BY <1>5, <2>5 DEF Reread
    <3>5. Live(k)' /\ entries'[k] = v
      BY <1>5, <2>1, <3>1, <3>4 DEF Live, TypeOK, Nothing, StatusOrAbsent, ReviewStatus, Absent
    <3>6. \A e \in CacheKey \ {k} :
             (Live(e)' <=> Live(e)) /\ entries'[e] = entries[e] /\ answers'[e] = answers[e]
      BY <1>5, <2>2, <3>4, AnswerEffect DEF Live, TypeOK
    <3>7. answers'[k] \subseteq {Response(v)}
      BY <1>5, <2>2, <3>1, <3>3, AnswerEffect DEF Response
    <3>8. QED
      BY <1>5, <2>3, <2>4, <3>1, <3>3, <3>5, <3>6, <3>7 DEF HistoryInv, Response
  <2>6. CASE ~Keyed(t)
    <3>1. k \notin CacheKey
      BY <1>5, <2>1, <2>6, RequestFields
    <3>2. UNCHANGED <<entries, aged, answers>>
      BY <1>5, <2>2, <2>6, <3>1 DEF Reread, Answer, TypeOK
    <3>3. QED
      BY <1>5, <2>3, <2>4, <3>1, <3>2, HistoryFrame
  <2>7. QED
    BY <1>5, <2>5, <2>6
<1>6. CASE WindowMoves
  BY <1>6, HistoryFrame DEF WindowMoves, ToBeStored, Keyed, Entry, cacheVars, historyVars
<1>7. ASSUME NEW k \in CacheKey, Expire(k) PROVE HistoryInv'
  <2>1. ~ToBeStored(k)
    BY <1>7 DEF Expire, ToBeStored, LockInv, Computing
  <2>2. \A e \in CacheKey : ToBeStored(e)' <=> ToBeStored(e)
    BY <1>7 DEF Expire, ToBeStored, Keyed, Entry
  <2>3. k \notin applied' /\ answers'[k] = {} /\ ~Live(k)'
    BY <1>7 DEF Expire, Live, TypeOK
  <2>4. \A e \in CacheKey \ {k} :
           /\ Live(e)' <=> Live(e)
           /\ entries'[e] = entries[e] /\ answers'[e] = answers[e]
           /\ e \in applied' <=> e \in applied
    BY <1>7 DEF Expire, Live, TypeOK
  <2>5. QED
    BY <2>1, <2>2, <2>3, <2>4 DEF HistoryInv, Response
<1>8. ASSUME NEW r \in Reviews, Purge(r) PROVE HistoryInv'
  BY <1>8, HistoryFrame DEF Purge, ToBeStored, Keyed, Entry, cacheVars, historyVars
<1>9. CASE Restart
  BY <1>9 DEF Restart, HistoryInv, Live, ToBeStored
<1>10. CASE UNCHANGED vars
  BY <1>10, HistoryFrame DEF vars, ToBeStored, Keyed, Entry
<1>11. QED
  BY <1>1, <1>2, <1>3, <1>4, <1>5, <1>6, <1>7, <1>8, <1>9, <1>10 DEF Next, Step, Environment
-----------------------------------------------------------------------------
\* The invariant holds throughout.
LEMMA IInvCorrect == Spec => []IInv
<1>1. Init => IInv
  <2>1. Init => LockInv /\ HistoryInv
    BY NobodyAssumption DEF Init, LockInv, HistoryInv, Computing, Live, ToBeStored
  <2>2. QED
    BY <2>1, TypeInit DEF IInv
<1>2. IInv /\ [Next]_vars => IInv'
  BY TypeNext, LockNext, HistoryNext DEF IInv
<1>3. QED
  BY <1>1, <1>2, PTL DEF Spec

\* Whatever retries overlap, all requests with one key are given one answer
\* while the process and the cache entry live.
THEOREM OneAnswerPerKeyCorrect == Spec => []OneAnswerPerKey
<1>1. IInv => OneAnswerPerKey
  <2> SUFFICES ASSUME IInv, NEW e \in CacheKey PROVE Cardinality(answers[e]) <= 1
    BY DEF OneAnswerPerKey
  <2>1. PICK x : answers[e] \subseteq {x}
    BY DEF IInv, HistoryInv
  <2>2. IsFiniteSet({x}) /\ Cardinality({x}) = 1
    BY FS_Singleton
  <2>3. Cardinality(answers[e]) <= Cardinality({x})
    BY <2>1, <2>2, FS_Subset
  <2>4. QED
    BY <2>2, <2>3
<1>2. QED
  BY <1>1, IInvCorrect, PTL

\* The transition a key carries is applied once, whatever body its retries
\* have, while the process and the cache entry live.
THEOREM AppliedOncePerKeyCorrect == Spec => AppliedOncePerKey
<1> DEFINE Once == \A t \in Threads :
                       pc[t] = "apply" /\ pc'[t] = "reread" => Entry(t) \notin applied
<1>1. IInv => [Once]_vars
  <2> SUFFICES ASSUME IInv, NEW t \in Threads, pc[t] = "apply" PROVE Entry(t) \notin applied
    OBVIOUS
  <2>1. CASE ~Keyed(t)
    BY <2>1, RequestFields DEF IInv, TypeOK
  <2>2. CASE Keyed(t)
    <3>1. Computing(t) /\ Entry(t) \in CacheKey
      BY <2>2, RequestFields DEF IInv, Computing
    <3>2. ~Live(Entry(t))
      BY <3>1 DEF IInv, LockInv, Live
    <3>3. ~ToBeStored(Entry(t))
      BY <3>1, OneComputes DEF IInv, ToBeStored, Computing
    <3>4. QED
      BY <3>1, <3>2, <3>3 DEF IInv, HistoryInv
  <2>3. QED
    BY <2>1, <2>2
<1>2. QED
  BY <1>1, IInvCorrect, PTL DEF AppliedOncePerKey
-----------------------------------------------------------------------------
(***************************************************************************)
(* The ledger behind the cache.  The history of a stored review is a run   *)
(* of the lifecycle, whatever the cache has forgotten, and who is about to *)
(* answer a transition finds a history that is not empty.                  *)
(***************************************************************************)
RunInv ==
    \A r \in Reviews :
        IF status[r] = Absent THEN log[r] = <<>>
                              ELSE Chained(log[r]) /\ status[r] = StatusAfter(log[r])

AnswerInv ==
    \A t \in Threads :
        pc[t] = "reread" => status[req[t].rev] = Absent \/ log[req[t].rev] # <<>>

LedgerInv == RunInv /\ AnswerInv /\ CachedStatusHappened

\* A step that leaves the ledger alone, starts no answer and stores none in the
\* cache keeps all of it.
LEMMA LedgerFrame ==
    ASSUME TypeOK, LedgerInv, UNCHANGED ledgerVars,
           \A u \in Threads : pc'[u] = "reread" => pc[u] = "reread" /\ req'[u] = req[u],
           \A e \in CacheKey : entries'[e] \in {entries[e], Nothing}
    PROVE  LedgerInv'
<1>1. UNCHANGED <<status, log>>
  BY DEF ledgerVars
<1>2. RunInv' /\ AnswerInv'
  BY <1>1 DEF LedgerInv, RunInv, AnswerInv
<1>3. Nothing \notin ReviewStatus
  BY DEF Nothing, ReviewStatus
<1>4. CachedStatusHappened'
  BY <1>1, <1>3 DEF LedgerInv, CachedStatusHappened
<1>5. QED
  BY <1>2, <1>4 DEF LedgerInv

\* The ledger's part of the invariant is kept by every step.
LEMMA LedgerNext == TypeOK /\ LedgerInv /\ [Next]_vars => LedgerInv'
<1> SUFFICES ASSUME TypeOK, LedgerInv, [Next]_vars PROVE LedgerInv'
  OBVIOUS
<1>1. ASSUME NEW t \in Threads, NEW q \in Request, Receive(t, q) PROVE LedgerInv'
  <2>1. \A u \in Threads : pc'[u] = "reread" => pc[u] = "reread" /\ req'[u] = req[u]
    BY <1>1 DEF Receive, Goto, TypeOK
  <2>2. QED
    BY <1>1, <2>1, LedgerFrame DEF Receive, cacheVars
<1>2. ASSUME NEW t \in Threads, Check(t) PROVE LedgerInv'
  <2>1. \A u \in Threads : pc'[u] = "reread" => pc[u] = "reread" /\ req'[u] = req[u]
    BY <1>2 DEF Check, Answer, Goto, TypeOK
  <2>2. QED
    BY <1>2, <2>1, LedgerFrame DEF Check, cacheVars
<1>3. ASSUME NEW t \in Threads, LookUp(t) PROVE LedgerInv'
  <2>1. \A u \in Threads : pc'[u] = "reread" => pc[u] = "reread" /\ req'[u] = req[u]
    BY <1>3 DEF LookUp, AnswerValue, Answer, Goto, TypeOK
  <2>2. \A e \in CacheKey : entries'[e] \in {entries[e], Nothing}
    BY <1>3 DEF LookUp, cacheVars, TypeOK
  <2>3. QED
    BY <1>3, <2>1, <2>2, LedgerFrame DEF LookUp
<1>4. ASSUME NEW t \in Threads, Apply(t) PROVE LedgerInv'
  <2> DEFINE r == req[t].rev
             new == req[t].new
             row == [prior |-> status[r], new |-> new]
  <2>1. pc[t] = "apply" /\ r \in Reviews /\ new \in ReviewStatus
    BY <1>4, RequestFields DEF Apply
  <2>2. ASSUME NEW kind, Fail(t, kind), UNCHANGED ledgerVars PROVE LedgerInv'
    <3>1. \A u \in Threads : pc'[u] = "reread" => pc[u] = "reread" /\ req'[u] = req[u]
      BY <2>2 DEF Fail, Answer, Goto, TypeOK
    <3>2. QED
      BY <2>2, <3>1, LedgerFrame DEF Fail
  <2>3. CASE /\ status[r] # Absent /\ Permitted(status[r], new)
             /\ status' = [status EXCEPT ![r] = new]
             /\ log' = [log EXCEPT ![r] = Append(@, row)]
             /\ Goto(t, "reread")
             /\ UNCHANGED <<cacheVars, req>>
    <3>1. row \in AuditEntry /\ log[r] \in Seq(AuditEntry)
      BY <2>1, <2>3 DEF AuditEntry, TypeOK, StatusOrAbsent
    <3> HIDE DEF row
    <3>2. /\ log'[r] = Append(log[r], row) /\ status'[r] = new
          /\ \A x \in Reviews \ {r} : log'[x] = log[x] /\ status'[x] = status[x]
      BY <2>1, <2>3 DEF TypeOK
    <3>3. row.prior = status[r] /\ row.new = new /\ new # Absent
      BY <2>1 DEF row, ReviewStatus, Absent
    <3>4. Chained(log'[r]) /\ StatusAfter(log'[r]) = new
      BY <2>1, <2>3, <3>1, <3>2, <3>3, ChainedAppend, StatusAfterAppend
      DEF LedgerInv, RunInv, Permitted
    <3>5. RunInv'
      BY <3>2, <3>3, <3>4 DEF LedgerInv, RunInv
    <3>6. log'[r] # <<>> /\ \A k \in 1..Len(log[r]) : log'[r][k] = log[r][k]
      BY <3>1, <3>2
    <3>7. Len(log'[r]) = Len(log[r]) + 1 /\ Len(log[r]) \in Nat
      BY <3>1, <3>2
    <3>8. AnswerInv'
      BY <2>1, <2>3, <3>2, <3>6 DEF LedgerInv, AnswerInv, TypeOK, Goto
    <3>9. CachedStatusHappened'
      <4> SUFFICES ASSUME NEW e \in CacheKey, entries[e] \in ReviewStatus, e[1] = r,
                          status'[r] # Absent
                   PROVE  \E k \in 1..Len(log'[r]) : log'[r][k].new = entries[e]
        BY <2>3, <3>2 DEF LedgerInv, CachedStatusHappened, cacheVars, CacheKey
      <4>1. PICK k \in 1..Len(log[r]) : log[r][k].new = entries[e]
        <5>1. status[e[1]] # Absent /\ e[1] = r
          BY <2>3
        <5>2. \E k \in 1..Len(log[e[1]]) : log[e[1]][k].new = entries[e]
          BY <5>1 DEF LedgerInv, CachedStatusHappened
        <5>3. QED
          BY <5>1, <5>2
      <4>2. k \in 1..Len(log'[r])
        BY <3>7
      <4>3. log'[r][k] = log[r][k]
        BY <3>6
      <4>4. QED
        BY <4>1, <4>2, <4>3
    <3>10. QED
      BY <3>5, <3>8, <3>9 DEF LedgerInv
  <2>4. QED
    BY <1>4, <2>2, <2>3 DEF Apply
<1>5. ASSUME NEW t \in Threads, Reread(t) PROVE LedgerInv'
  <2> DEFINE r == req[t].rev
             v == status[r]
  <2>1. pc[t] = "reread" /\ r \in Reviews /\ UNCHANGED <<status, log>>
    BY <1>5, RequestFields DEF Reread, ledgerVars
  <2>2. \A u \in Threads : pc'[u] = "reread" => pc[u] = "reread" /\ req'[u] = req[u]
    BY <1>5 DEF Reread, AnswerValue, Answer, Goto, TypeOK
  <2>3. RunInv' /\ AnswerInv'
    BY <2>1, <2>2 DEF LedgerInv, RunInv, AnswerInv
  <2>4. v # Absent => \E k \in 1..Len(log[r]) : log[r][k].new = v
    <3>1. SUFFICES ASSUME v # Absent PROVE \E k \in 1..Len(log[r]) : log[r][k].new = v
      OBVIOUS
    <3>2. log[r] \in Seq(AuditEntry) /\ log[r] # <<>>
      BY <2>1, <3>1 DEF LedgerInv, AnswerInv, TypeOK
    <3>3. Len(log[r]) \in 1..Len(log[r])
      BY <3>2
    <3>4. log[r][Len(log[r])].new = v
      BY <2>1, <3>1, <3>2 DEF LedgerInv, RunInv, StatusAfter
    <3>5. QED
      BY <3>3, <3>4
  <2>5. ASSUME NEW e \in CacheKey
        PROVE  \/ entries'[e] = entries[e]
               \/ e[1] = r /\ entries'[e] = v
    BY <1>5, <2>1 DEF Reread, Entry, TypeOK
  <2>6. CachedStatusHappened'
    BY <2>1, <2>4, <2>5 DEF LedgerInv, CachedStatusHappened
  <2>7. QED
    BY <2>3, <2>6 DEF LedgerInv
<1>6. CASE WindowMoves
  BY <1>6, LedgerFrame DEF WindowMoves, cacheVars
<1>7. ASSUME NEW e \in CacheKey, Expire(e) PROVE LedgerInv'
  BY <1>7, LedgerFrame DEF Expire
<1>8. ASSUME NEW r \in Reviews, Purge(r) PROVE LedgerInv'
  <2>1. /\ status'[r] = Absent /\ log'[r] = <<>>
        /\ \A x \in Reviews \ {r} : log'[x] = log[x] /\ status'[x] = status[x]
        /\ UNCHANGED <<entries, pc, req>>
    BY <1>8 DEF Purge, TypeOK, cacheVars
  <2>2. ASSUME NEW t \in Threads, pc[t] = "reread" PROVE req[t].rev \in Reviews
    BY <2>2, RequestFields
  <2>3. RunInv' /\ AnswerInv'
    BY <2>1, <2>2 DEF LedgerInv, RunInv, AnswerInv
  <2>4. CachedStatusHappened'
    BY <2>1 DEF LedgerInv, CachedStatusHappened, CacheKey
  <2>5. QED
    BY <2>3, <2>4 DEF LedgerInv
<1>9. CASE Restart
  BY <1>9, LedgerFrame DEF Restart
<1>10. CASE UNCHANGED vars
  BY <1>10, LedgerFrame DEF vars, ledgerVars
<1>11. QED
  BY <1>1, <1>2, <1>3, <1>4, <1>5, <1>6, <1>7, <1>8, <1>9, <1>10 DEF Next, Step, Environment

\* It holds throughout.
LEMMA LedgerInvCorrect == Spec => []LedgerInv
<1>1. Init => LedgerInv
  <2> SUFFICES ASSUME Init PROVE LedgerInv
    OBVIOUS
  <2>1. RunInv
    BY EmptyHistory DEF Init, RunInv, Absent
  <2>2. AnswerInv
    BY DEF Init, AnswerInv
  <2>3. CachedStatusHappened
    BY DEF Init, CachedStatusHappened, Nothing, ReviewStatus
  <2>4. QED
    BY <2>1, <2>2, <2>3 DEF LedgerInv
<1>2. QED
  BY <1>1, TypeCorrect, LedgerNext, PTL DEF Spec

\* The lifecycle has no run that enters a status twice.
LEMMA ChainedEntersOnce ==
    ASSUME NEW h \in Seq(AuditEntry), Chained(h)
    PROVE  \A i, j \in 1..Len(h) : h[i].new = h[j].new => i = j
<1>1. \A k \in 1..Len(h) : h[k].new \in ALLOWED_TRANSITIONS[h[k].prior]
  BY DEF Chained, LegalRows
<1>2. \A k \in 1..Len(h) : h[k].prior \in ReviewStatus /\ h[k].new \in ReviewStatus
  <2>1. \A k \in 1..Len(h) : h[k] \in AuditEntry
    OBVIOUS
  <2>2. QED
    BY <2>1 DEF AuditEntry
<1>3. 1 \in 1..Len(h) => h[1].prior = "OPEN" /\ h[1].new = "IN_REVIEW"
  BY <1>1 DEF Chained, ALLOWED_TRANSITIONS, ReviewStatus
<1>4. 2 \in 1..Len(h) => h[2].new \in {"RESOLVED", "ESCALATED"}
  <2>1. 2 \in 1..Len(h) => h[2].prior = h[1].new /\ 1 \in 1..Len(h)
    BY DEF Chained
  <2>2. QED
    BY <1>1, <1>3, <2>1 DEF ALLOWED_TRANSITIONS, ReviewStatus
<1>5. 3 \notin 1..Len(h)
  <2>1. SUFFICES ASSUME 3 \in 1..Len(h) PROVE FALSE
    OBVIOUS
  <2>2. h[3].prior = h[2].new /\ 2 \in 1..Len(h)
    BY <2>1 DEF Chained
  <2>3. QED
    BY <1>1, <1>4, <2>1, <2>2 DEF ALLOWED_TRANSITIONS, ReviewStatus
<1>6. \A k \in 1..Len(h) : k = 1 \/ k = 2
  BY <1>5
<1>7. QED
  BY <1>3, <1>4, <1>6

\* No retry, however late, repeats a transition in the history of a review.
THEOREM NoTransitionTwiceCorrect == Spec => []NoTransitionTwice
<1>1. TypeOK /\ LedgerInv => NoTransitionTwice
  <2> SUFFICES ASSUME TypeOK, LedgerInv, NEW r \in Reviews
               PROVE  \A i, j \in 1..Len(log[r]) : log[r][i].new = log[r][j].new => i = j
    BY DEF NoTransitionTwice
  <2>1. log[r] \in Seq(AuditEntry)
    BY DEF TypeOK
  <2>2. Chained(log[r])
    BY EmptyHistory DEF LedgerInv, RunInv
  <2>3. QED
    BY <2>1, <2>2, ChainedEntersOnce
<1>2. QED
  BY <1>1, TypeCorrect, LedgerInvCorrect, PTL

\* What the cache answers with, the review went through, or it is purged.
THEOREM CachedStatusHappenedCorrect == Spec => []CachedStatusHappened
<1>1. LedgerInv => CachedStatusHappened
  BY DEF LedgerInv
<1>2. QED
  BY <1>1, LedgerInvCorrect, PTL
=============================================================================
