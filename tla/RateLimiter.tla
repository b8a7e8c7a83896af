----------------------------- MODULE RateLimiter -----------------------------
(***************************************************************************)
(* src/src/security/limits.py (RateLimiter), as the transition endpoint of *)
(* src/src/app.py calls it: check(principal.subject).                      *)
(*                                                                         *)
(* check() reads time.monotonic() and only then takes the lock, so threads *)
(* may enter the critical section out of the order of their readings.  The *)
(* dict _hits is kept as, for each key, the set of the admissions it still *)
(* holds: the list's order is the order of admission and nothing reads it. *)
(***************************************************************************)
EXTENDS Integers, Sequences, FiniteSets

CONSTANTS
    Threads,        \* threads that serve requests
    Credentials,    \* the configured reviewer API keys
    Subjects,       \* principal.subject values, the keys of _hits
    MaxRequests,    \* REVIEW_RATE_LIMIT_MAX
    Window,         \* REVIEW_RATE_LIMIT_WINDOW_SECONDS
    MaxClock,       \* bound: the last instant of the clock
    MaxAdmitted     \* bound: admissions in one behaviour

ASSUME LimitsAssumption == MaxRequests \in Nat /\ Window \in Nat
ASSUME BoundsAssumption == MaxClock \in Nat /\ MaxAdmitted \in Nat

\* authenticate() gives every valid credential the same subject.
Subject(c) == CHOOSE s \in Subjects : TRUE
ASSUME SubjectsAssumption == Subjects # {} /\ IsFiniteSet(Threads)

VARIABLES
    clock,          \* time.monotonic()
    pc, cred, now,  \* where each thread is, its caller's key, the time it read
    hits,           \* _hits: for each subject, indices into admitted
    admitted        \* the admissions so far, oldest first: the time recorded,
                    \* the time it was really recorded at, and the credential

vars == <<clock, pc, cred, now, hits, admitted>>

Admission == [stamp : Nat, at : Nat, cred : Credentials]

TypeOK ==
    /\ clock \in Nat
    /\ pc \in [Threads -> {"idle", "check"}]
    /\ cred \in [Threads -> Credentials]
    /\ now \in [Threads -> Nat]
    /\ admitted \in Seq(Admission)
    /\ hits \in [Subjects -> SUBSET (1..Len(admitted))]

Init ==
    /\ clock = 0
    /\ pc = [t \in Threads |-> "idle"]
    /\ cred \in [Threads -> Credentials]
    /\ now = [t \in Threads |-> 0]
    /\ hits = [s \in Subjects |-> {}]
    /\ admitted = <<>>

Tick ==
    /\ clock < MaxClock
    /\ clock' = clock + 1
    /\ UNCHANGED <<pc, cred, now, hits, admitted>>

ReadWindowStart(t) ==
    /\ pc[t] = "idle"
    /\ pc' = [pc EXCEPT ![t] = "check"]
    /\ now' = [now EXCEPT ![t] = clock - Window]
    /\ UNCHANGED <<clock, cred, hits, admitted>>

\* now = time.monotonic(), outside the lock.
ReadClock(t) ==
    /\ pc[t] = "idle"
    /\ pc' = [pc EXCEPT ![t] = "check"]
    /\ now' = [now EXCEPT ![t] = clock]
    /\ UNCHANGED <<clock, cred, hits, admitted>>

\* The call returns or raises; its local now is gone.
Return(t) ==
    /\ pc' = [pc EXCEPT ![t] = "idle"]
    /\ now' = [now EXCEPT ![t] = 0]

RecentHalfOpen(t) ==
    {i \in hits[Subject(cred[t])] : admitted[i].stamp > now[t] - Window}

\* The hits no older than window_start.
Recent(t) ==
    {i \in hits[Subject(cred[t])] : admitted[i].stamp >= now[t] - Window}

WithinLimitInclusive(n) == n <= MaxRequests

WithinLimitOneShort(n) == n + 1 < MaxRequests

WithinLimit(n) == n < MaxRequests

\* The critical section, when the caller is let through ...
Admit(t) ==
    /\ pc[t] = "check"
    /\ Len(admitted) < MaxAdmitted
    /\ WithinLimit(Cardinality(Recent(t)))
    /\ admitted' = Append(admitted, [stamp |-> now[t], at |-> clock, cred |-> cred[t]])
    /\ hits' = [hits EXCEPT ![Subject(cred[t])] = Recent(t) \cup {Len(admitted) + 1}]
    /\ Return(t)
    /\ UNCHANGED <<clock, cred>>

RefuseCallClearing(t) ==
    /\ pc[t] = "check"
    /\ ~WithinLimit(Cardinality(Recent(t)))
    /\ hits' = [hits EXCEPT ![Subject(cred[t])] = {}]
    /\ Return(t)
    /\ UNCHANGED <<clock, cred, admitted>>

\* ... and when it raises RateLimitExceededError, which drops old hits too.
RefuseCall(t) ==
    /\ pc[t] = "check"
    /\ ~WithinLimit(Cardinality(Recent(t)))
    /\ hits' = [hits EXCEPT ![Subject(cred[t])] = Recent(t)]
    /\ Return(t)
    /\ UNCHANGED <<clock, cred, admitted>>

Next == Tick \/ \E t \in Threads : ReadClock(t) \/ Admit(t) \/ RefuseCall(t)

Spec == Init /\ [][Next]_vars
-----------------------------------------------------------------------------
\* The admissions of subject s recorded in the window that ends at n.
InWindow(s, n) ==
    {i \in 1..Len(admitted) :
        Subject(admitted[i].cred) = s /\ admitted[i].stamp \in (n - Window)..n}

\* However long threads stall between reading the clock and taking the lock,
\* and whoever prunes, no admission recorded within the last window has been
\* dropped from the list: only the refused and the expired are forgotten.
RecentKept ==
    \A s \in Subjects : InWindow(s, clock) \subseteq hits[s]

\* The list kept for a subject never outgrows the limit.
HitsBounded == \A s \in Subjects : Cardinality(hits[s]) <= MaxRequests

\* A call is refused only when that many admissions were recorded no more
\* than a window before the time the call read: a caller who waits a window
\* is let through.
RefusalJustified ==
    [][\A t \in Threads :
          pc[t] = "check" /\ pc'[t] = "idle" /\ admitted' = admitted =>
              Cardinality({i \in 1..Len(admitted) :
                  /\ Subject(admitted[i].cred) = Subject(cred[t])
                  /\ admitted[i].stamp >= now[t] - Window}) >= MaxRequests]_vars

\* As long as calls take the lock in the order in which they read the clock,
\* no window holds more than the limit.
InOrderWindowBound ==
    (\A i, j \in 1..Len(admitted) : i < j => admitted[i].stamp <= admitted[j].stamp)
    => \A i \in 1..Len(admitted) :
          Cardinality(InWindow(Subject(admitted[i].cred), admitted[i].stamp)) <= MaxRequests

\* What check() says of itself: a call is not let through once the key has
\* exceeded max_requests within the current window.  A thread that stalls
\* between its clock reading and the lock records a hit in the past, which
\* the next call no longer counts.
WindowBound ==
    \A i \in 1..Len(admitted) :
        Cardinality({j \in 1..Len(admitted) :
            /\ Subject(admitted[j].cred) = Subject(admitted[i].cred)
            /\ admitted[j].at \in (admitted[i].at - Window)..admitted[i].at})
        <= MaxRequests
=============================================================================
