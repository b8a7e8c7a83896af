-------------------------- MODULE TransitionEndpoint --------------------------
(***************************************************************************)
(* POST /v1/reviews/{review_id}/transitions: transition_review of          *)
(* src/src/app.py over RateLimiter.check, IdempotencyCache.get_or_compute  *)
(* (src/src/security/idempotency.py) and ReviewStore.apply_transition.     *)
(*                                                                         *)
(* The store is the atomic ledger it implements while it has the file to   *)
(* itself (StoreImplementsLedger of ReviewStoreProofs), followed by the    *)
(* separate read that builds apply_transition's answer.  The limiter       *)
(* is the number of hits still inside its window; module RateLimiter has   *)
(* the window itself.  Time is the two events that matter: hits leave the  *)
(* window, a cache entry outlives its TTL.                                 *)
(***************************************************************************)
EXTENDS ReviewModels, FiniteSets

CONSTANTS
    Threads,        \* threads of the server's pool
    Reviews,        \* ids in request paths
    Stored,         \* those that have a review at the start
    Keys,           \* Idempotency-Key headers
    NoKey,          \* a request without the header
    NewStatuses,    \* the new_status values clients ask for
    MaxHits,        \* REVIEW_RATE_LIMIT_MAX
    Expiring,       \* TRUE if cache entries may outlive their TTL
    Restarting,     \* TRUE if the process may be restarted
    Purging,        \* TRUE if reviews may be purged
    Nobody,         \* the cache lock's owner when it is free
    NoRequest       \* what an idle thread works on

ASSUME StoredAssumption == Stored \subseteq Reviews
ASSUME RequestsAssumption == NewStatuses \subseteq ReviewStatus /\ NoKey \notin Keys
ASSUME SwitchesAssumption == {Expiring, Restarting, Purging} \subseteq BOOLEAN
ASSUME LimitAssumption == MaxHits \in Nat
ASSUME NobodyAssumption == Nobody \notin Threads

VARIABLES
    status, log,    \* the ledger
    hits,           \* requests of the shared subject inside the window
    entries,        \* the cache: for each (review, key), Nothing or a value
    aged,           \* the entries past their TTL
    cacheLock,      \* who is inside get_or_compute
    pc, req,        \* each thread's place and request
    reply,          \* each thread's last answer
    applied,        \* history: the cache keys whose transition was applied,
                    \* until the entry expires or the process restarts
    answers         \* history: what requests with such a key were answered

ledgerVars == <<status, log>>
cacheVars == <<entries, aged, cacheLock>>
historyVars == <<applied, answers>>
vars == <<status, log, hits, entries, aged, cacheLock, pc, req, reply,
          applied, answers>>

CacheKey == Reviews \X Keys
Nothing == "NOTHING"

Request == [rev : Reviews, key : Keys \cup {NoKey}, new : NewStatuses]
Kinds == {"none", "ok", "limited", "not_found", "conflict", "server_error"}
Reply == [kind : Kinds, status : StatusOrAbsent]
NoReply == [kind |-> "none", status |-> Absent]

Keyed(t) == req[t].key # NoKey
Entry(t) == <<req[t].rev, req[t].key>>

TypeOK ==
    /\ status \in [Reviews -> StatusOrAbsent]
    /\ log \in [Reviews -> Seq(AuditEntry)]
    /\ hits \in 0..MaxHits
    /\ entries \in [CacheKey -> StatusOrAbsent \cup {Nothing}]
    /\ aged \subseteq CacheKey
    /\ cacheLock \in Threads \cup {Nobody}
    /\ pc \in [Threads -> {"idle", "check", "cache", "apply", "reread"}]
    /\ req \in [Threads -> Request \cup {NoRequest}]
    /\ \A t \in Threads : pc[t] # "idle" => req[t] \in Request
    /\ \A t \in Threads : pc[t] = "cache" => Keyed(t)
    /\ reply \in [Threads -> Reply]
    /\ applied \subseteq CacheKey
    /\ answers \in [CacheKey -> SUBSET Reply]

Init ==
    /\ status = [r \in Reviews |-> IF r \in Stored THEN "OPEN" ELSE Absent]
    /\ log = [r \in Reviews |-> <<>>]
    /\ hits = 0
    /\ entries = [e \in CacheKey |-> Nothing]
    /\ aged = {}
    /\ cacheLock = Nobody
    /\ pc = [t \in Threads |-> "idle"]
    /\ req = [t \in Threads |-> NoRequest]
    /\ reply = [t \in Threads |-> NoReply]
    /\ applied = {}
    /\ answers = [e \in CacheKey |-> {}]
-----------------------------------------------------------------------------
Goto(t, step) == pc' = [pc EXCEPT ![t] = step]

\* The response leaves; what it says counts for the key's history once the
\* key's transition has been applied.
Answer(t, kind, st) ==
    LET response == [kind |-> kind, status |-> st]
    IN  /\ Goto(t, "idle")
        /\ reply' = [reply EXCEPT ![t] = response]
        /\ answers' =
             IF Keyed(t) /\ Entry(t) \in applied /\ kind # "limited"
               THEN [answers EXCEPT ![Entry(t)] = @ \cup {response}]
               ELSE answers
        /\ req' = [req EXCEPT ![t] = NoRequest]
        /\ UNCHANGED applied

\* response_model=ReviewCase: None does not validate and becomes a 500.
AnswerValue(t, v) == Answer(t, IF v = Absent THEN "server_error" ELSE "ok", v)

\* An authorized, valid request, a first one or a retry.
Receive(t, q) ==
    /\ pc[t] = "idle"
    /\ Goto(t, "check")
    /\ req' = [req EXCEPT ![t] = q]
    /\ reply' = [reply EXCEPT ![t] = NoReply]
    /\ UNCHANGED <<ledgerVars, hits, cacheVars, historyVars>>

LimitReachedLate == hits > MaxHits

LimitReached == hits >= MaxHits

\* review_transition_rate_limiter.check, before anything else.
Check(t) ==
    /\ pc[t] = "check"
    /\ \/ /\ ~LimitReached
          /\ hits' = hits + 1
          /\ Goto(t, IF Keyed(t) THEN "cache" ELSE "apply")
          /\ UNCHANGED <<req, reply, historyVars>>
       \/ /\ LimitReached
          /\ Answer(t, "limited", Absent)
          /\ UNCHANGED hits
    /\ UNCHANGED <<ledgerVars, cacheVars>>

LookUpUnlocked(t) ==
    /\ pc[t] = "cache"
    /\ \/ /\ entries[Entry(t)] # Nothing /\ Entry(t) \notin aged
          /\ AnswerValue(t, entries[Entry(t)])
       \/ /\ entries[Entry(t)] = Nothing \/ Entry(t) \in aged
          /\ Goto(t, "apply")
          /\ UNCHANGED <<req, reply, historyVars>>
    /\ UNCHANGED <<ledgerVars, hits, cacheVars>>

LookUpNever(t) ==
    /\ pc[t] = "cache"
    /\ cacheLock = Nobody
    /\ cacheLock' = t
    /\ Goto(t, "apply")
    /\ UNCHANGED <<ledgerVars, hits, entries, aged, req, reply, historyVars>>

\* get_or_compute up to compute(): a live entry answers, an expired one is
\* deleted, and the lock stays held while compute runs.
LookUp(t) ==
    LET e == Entry(t)
        live == entries[e] # Nothing /\ e \notin aged
    IN  /\ pc[t] = "cache"
        /\ cacheLock = Nobody
        /\ \/ /\ live
              /\ AnswerValue(t, entries[e])
              /\ UNCHANGED cacheVars
           \/ /\ ~live
              /\ entries' = [entries EXCEPT ![e] = Nothing]
              /\ aged' = aged \ {e}
              /\ cacheLock' = t
              /\ Goto(t, "apply")
              /\ UNCHANGED <<req, reply, historyVars>>
        /\ UNCHANGED <<ledgerVars, hits>>

Release(t) == cacheLock' = IF cacheLock = t THEN Nobody ELSE cacheLock

FailKeepingLock(t, kind) ==
    /\ Answer(t, kind, Absent)
    /\ UNCHANGED cacheVars

FailCaching(t, kind) ==
    /\ Answer(t, kind, Absent)
    /\ entries' = IF Keyed(t) THEN [entries EXCEPT ![Entry(t)] = req[t].new] ELSE entries
    /\ Release(t)
    /\ UNCHANGED aged

\* apply_transition raises: nothing is cached and the lock is released.
Fail(t, kind) ==
    /\ Answer(t, kind, Absent)
    /\ Release(t)
    /\ UNCHANGED <<entries, aged>>

PermittedOrSame(prior, new) == new = prior \/ new \in ALLOWED_TRANSITIONS[prior]

Permitted(prior, new) == new \in ALLOWED_TRANSITIONS[prior]

\* apply_transition up to its commit.
Apply(t) ==
    LET r == req[t].rev
        prior == status[r]
        new == req[t].new
    IN  /\ pc[t] = "apply"
        /\ \/ /\ prior = Absent
              /\ Fail(t, "not_found")
              /\ UNCHANGED ledgerVars
           \/ /\ prior # Absent
              /\ ~Permitted(prior, new)
              /\ Fail(t, "conflict")
              /\ UNCHANGED ledgerVars
           \/ /\ prior # Absent
              /\ Permitted(prior, new)
              /\ status' = [status EXCEPT ![r] = new]
              /\ log' = [log EXCEPT ![r] = Append(@, [prior |-> prior, new |-> new])]
              /\ applied' = applied \cup ({Entry(t)} \cap CacheKey)
              /\ Goto(t, "reread")
              /\ UNCHANGED <<cacheVars, req, reply, answers>>
        /\ UNCHANGED hits

\* Its closing get_review, the cache's store and the answer.
Reread(t) ==
    LET v == status[req[t].rev]
    IN  /\ pc[t] = "reread"
        /\ entries' = IF Keyed(t) THEN [entries EXCEPT ![Entry(t)] = v] ELSE entries
        /\ aged' = aged \ {Entry(t)}
        /\ Release(t)
        /\ AnswerValue(t, v)
        /\ UNCHANGED <<ledgerVars, hits>>
-----------------------------------------------------------------------------
\* Some hits leave the limiter's window.
WindowMoves ==
    /\ hits' \in 0..MaxHits
    /\ hits' < hits
    /\ UNCHANGED <<ledgerVars, cacheVars, pc, req, reply, historyVars>>

\* A cache entry outlives its TTL; nothing removes it until its key is used.
Expire(e) ==
    /\ Expiring
    /\ entries[e] # Nothing
    /\ e \notin aged
    /\ aged' = aged \cup {e}
    /\ applied' = applied \ {e}
    /\ answers' = [answers EXCEPT ![e] = {}]
    /\ UNCHANGED <<ledgerVars, hits, entries, cacheLock, pc, req, reply>>

\* purge_review: no endpoint calls it, an operator does.
Purge(r) ==
    /\ Purging
    /\ status[r] # Absent
    /\ status' = [status EXCEPT ![r] = Absent]
    /\ log' = [log EXCEPT ![r] = <<>>]
    /\ UNCHANGED <<hits, cacheVars, pc, req, reply, historyVars>>

\* The limiter, the cache and the requests under way live in memory.
Restart ==
    /\ Restarting
    /\ hits' = 0
    /\ entries' = [e \in CacheKey |-> Nothing]
    /\ aged' = {}
    /\ cacheLock' = Nobody
    /\ pc' = [t \in Threads |-> "idle"]
    /\ req' = [t \in Threads |-> NoRequest]
    /\ reply' = [t \in Threads |-> NoReply]
    /\ applied' = {}
    /\ answers' = [e \in CacheKey |-> {}]
    /\ UNCHANGED ledgerVars

Step(t) == Check(t) \/ LookUp(t) \/ Apply(t) \/ Reread(t)

Environment ==
    \/ WindowMoves
    \/ \E e \in CacheKey : Expire(e)
    \/ \E r \in Reviews : Purge(r)
    \/ Restart

Next ==
    \/ \E t \in Threads : Step(t) \/ \E q \in Request : Receive(t, q)
    \/ Environment

Spec == Init /\ [][Next]_vars

\* A thread runs its handler to the end.
Fairness == \A t \in Threads : WF_vars(Step(t))
FairSpec == Spec /\ Fairness
-----------------------------------------------------------------------------
\* Idempotency: within one life of the process and of the cache entry, all
\* requests that carry one key for one review are given one answer once its
\* transition has been applied, whatever retries overlap: never a 409 for
\* the transition their own first attempt made.
OneAnswerPerKey == \A e \in CacheKey : Cardinality(answers[e]) <= 1

\* ... and none of them applies another transition.
AppliedOncePerKey ==
    [][\A t \in Threads :
          pc[t] = "apply" /\ pc'[t] = "reread" => Entry(t) \notin applied]_vars

\* A status the cache answers with is one the review has had, unless the
\* review has been purged since: failures leave nothing behind.
CachedStatusHappened ==
    \A e \in CacheKey :
        entries[e] \in ReviewStatus =>
            \/ status[e[1]] = Absent
            \/ \E k \in 1..Len(log[e[1]]) : log[e[1]][k].new = entries[e]

\* A retry that the cache does not answer, for its entry has expired or the
\* process was restarted since, is judged by the review alone: even then the
\* history of a review never holds one transition twice.
NoTransitionTwice ==
    \A r \in Reviews : \A i, j \in 1..Len(log[r]) :
        log[r][i].new = log[r][j].new => i = j

\* The one lock of the cache, held across the store's work and wanted by
\* every keyed request, is always given back, after an error too.
CacheLockAlwaysFreed == cacheLock # Nobody ~> cacheLock = Nobody

\* What the endpoint's regression test says: every retry of a key observes
\* the one successful result, never an error.  The limiter comes first.
RetryNeverRefused ==
    [][\A t \in Threads :
          /\ pc[t] # "idle" /\ pc'[t] = "idle"
          /\ Keyed(t) /\ Entry(t) \in applied
          => reply'[t].kind = "ok"]_vars
=============================================================================
