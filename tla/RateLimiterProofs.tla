-------------------------- MODULE RateLimiterProofs --------------------------
(***************************************************************************)
(* Proofs about RateLimiter, for every number of threads and credentials,  *)
(* every limit and every window.                                           *)
(*                                                                         *)
(* The fact the rest follows from is Forgotten: a call that is refused     *)
(* finds the list full and drops nothing, so a hit leaves the list only    *)
(* when an admission recorded more than a window after it is added.        *)
(***************************************************************************)
EXTENDS RateLimiter, FiniteSetTheorems, TLAPS

Indices == 1..Len(admitted)
Of(i) == Subject(admitted[i].cred)

Past ==
    /\ \A i \in Indices : admitted[i].stamp <= clock
    /\ \A t \in Threads : now[t] <= clock

Owned == \A s \in Subjects : \A i \in hits[s] : Of(i) = s

Forgotten ==
    \A j \in Indices :
        j \notin hits[Of(j)] =>
            \E i \in Indices : Of(i) = Of(j) /\ admitted[i].stamp > admitted[j].stamp + Window

InOrder == \A i, j \in Indices : i < j => admitted[i].stamp <= admitted[j].stamp
WindowsBounded ==
    \A i \in Indices : Cardinality(InWindow(Of(i), admitted[i].stamp)) <= MaxRequests

IInv == TypeOK /\ Past /\ Owned /\ HitsBounded /\ Forgotten /\ (InOrder => WindowsBounded)
-----------------------------------------------------------------------------
\* A credential has a subject.
LEMMA SubjectType == \A c : Subject(c) \in Subjects
  BY SubjectsAssumption DEF Subject

\* An admission carries the time it was recorded for.
LEMMA StampType ==
    ASSUME TypeOK, NEW i \in Indices
    PROVE  admitted[i] \in Admission /\ admitted[i].stamp \in Nat
<1>1. admitted[i] \in Admission
  BY DEF TypeOK, Indices
<1>2. QED
  BY <1>1 DEF Admission

\* The lists are finite: they hold indices of admissions.
LEMMA HitsFinite ==
    ASSUME TypeOK
    PROVE  /\ Len(admitted) \in Nat
           /\ \A S \in SUBSET Indices : IsFiniteSet(S) /\ Cardinality(S) \in Nat
<1>1. Len(admitted) \in Nat
  BY DEF TypeOK
<1>2. IsFiniteSet(Indices)
  BY <1>1, FS_Interval DEF Indices
<1>3. QED
  BY <1>1, <1>2, FS_Subset, FS_CardinalityType

\* What a call counts is part of its subject's list.
LEMMA RecentInHits ==
    ASSUME TypeOK, NEW t \in Threads
    PROVE  /\ Recent(t) \subseteq hits[Subject(cred[t])]
           /\ hits[Subject(cred[t])] \subseteq Indices
           /\ IsFiniteSet(Recent(t)) /\ Cardinality(Recent(t)) \in Nat
<1>1. Recent(t) \subseteq hits[Subject(cred[t])] /\ hits[Subject(cred[t])] \subseteq Indices
  BY SubjectType DEF TypeOK, Recent, Indices
<1>2. QED
  BY <1>1, HitsFinite

\* A call that finds the limit reached has the whole list in its window.
LEMMA RefusedDropsNothing ==
    ASSUME TypeOK, HitsBounded, NEW t \in Threads, RefuseCall(t)
    PROVE  hits' = hits
<1> DEFINE s == Subject(cred[t])
<1>1. Recent(t) \subseteq hits[s] /\ IsFiniteSet(hits[s]) /\ Cardinality(hits[s]) \in Nat
  BY RecentInHits, HitsFinite
<1>2. Cardinality(Recent(t)) \in Nat /\ Cardinality(Recent(t)) >= MaxRequests
  BY RecentInHits, LimitsAssumption DEF RefuseCall, WithinLimit
<1>3. Cardinality(hits[s]) <= MaxRequests
  BY SubjectType DEF HitsBounded
<1>4. Recent(t) = hits[s]
  BY <1>1, <1>2, <1>3, FS_Subset, LimitsAssumption
<1>5. QED
  BY <1>4 DEF RefuseCall, TypeOK

\* The limiter starts well typed.
LEMMA TypeInit == Init => TypeOK
  BY DEF Init, TypeOK

\* Every step of the limiter keeps its types.
LEMMA TypeNext == TypeOK /\ [Next]_vars => TypeOK'
<1> SUFFICES ASSUME TypeOK, [Next]_vars PROVE TypeOK'
  OBVIOUS
<1>1. CASE Tick
  BY <1>1 DEF Tick, TypeOK
<1>2. ASSUME NEW t \in Threads, ReadClock(t) PROVE TypeOK'
  BY <1>2 DEF ReadClock, TypeOK
<1>3. ASSUME NEW t \in Threads, Admit(t) PROVE TypeOK'
  <2> DEFINE row == [stamp |-> now[t], at |-> clock, cred |-> cred[t]]
  <2>1. row \in Admission
    BY DEF TypeOK, Admission
  <2> HIDE DEF row
  <2>2. admitted' = Append(admitted, row)
    BY <1>3 DEF Admit, row
  <2>3. admitted' \in Seq(Admission) /\ Len(admitted') = Len(admitted) + 1
    BY <2>1, <2>2 DEF TypeOK
  <2>4. hits' \in [Subjects -> SUBSET (1..Len(admitted'))]
    <3>1. Recent(t) \subseteq 1..Len(admitted)
      BY RecentInHits DEF Indices
    <3>2. \A s \in Subjects : hits'[s] \in SUBSET (1..Len(admitted'))
      BY <1>3, <2>3, <3>1, HitsFinite DEF Admit, TypeOK
    <3>3. QED
      BY <1>3, <3>2 DEF Admit, TypeOK
  <2>5. QED
    BY <1>3, <2>3, <2>4 DEF Admit, Return, TypeOK
<1>4. ASSUME NEW t \in Threads, RefuseCall(t) PROVE TypeOK'
  <2>1. hits' \in [Subjects -> SUBSET (1..Len(admitted))]
    BY <1>4, RecentInHits DEF RefuseCall, TypeOK, Indices
  <2>2. QED
    BY <1>4, <2>1 DEF RefuseCall, Return, TypeOK
<1>5. CASE UNCHANGED vars
  BY <1>5 DEF vars, TypeOK
<1>6. QED
  BY <1>1, <1>2, <1>3, <1>4, <1>5 DEF Next

\* The limiter keeps every variable in its type.
THEOREM TypeCorrect == Spec => []TypeOK
  BY TypeInit, TypeNext, PTL DEF Spec
-----------------------------------------------------------------------------
\* Before the first admission nothing has been forgotten.
LEMMA IInvInit == Init => IInv
<1> SUFFICES ASSUME Init PROVE IInv
  OBVIOUS
<1>1. TypeOK
  BY TypeInit
<1>2. Indices = {}
  BY DEF Init, Indices
<1>3. HitsBounded
  BY FS_EmptySet, LimitsAssumption DEF Init, HitsBounded
<1>4. Past /\ Owned /\ Forgotten /\ WindowsBounded
  BY <1>2 DEF Init, Past, Owned, Forgotten, WindowsBounded
<1>5. QED
  BY <1>1, <1>3, <1>4 DEF IInv

\* What the invariant says of the list does not depend on the threads.
LEMMA Frame ==
    ASSUME IInv, UNCHANGED <<hits, admitted>>
    PROVE  Owned' /\ HitsBounded' /\ Forgotten' /\ (InOrder => WindowsBounded)'
  BY DEF IInv, Owned, HitsBounded, Forgotten, InOrder, WindowsBounded, InWindow, Indices, Of

\* An admission adds one index n, its own, to the history and to the list.
LEMMA AdmitEffect ==
    ASSUME TypeOK, NEW t \in Threads, Admit(t),
           NEW n, n = Len(admitted) + 1, NEW s, s = Subject(cred[t])
    PROVE  /\ Len(admitted) \in Nat
           /\ Indices' = Indices \cup {n}
           /\ n \notin Indices
           /\ \A i \in Indices : admitted'[i] = admitted[i] /\ Of(i)' = Of(i)
           /\ admitted'[n].stamp = now[t]
           /\ Of(n)' = s
           /\ hits'[s] = Recent(t) \cup {n}
           /\ \A o \in Subjects \ {s} : hits'[o] = hits[o]
<1> DEFINE row == [stamp |-> now[t], at |-> clock, cred |-> cred[t]]
<1>1. row \in Admission /\ row.stamp = now[t] /\ row.cred = cred[t]
  BY DEF TypeOK, Admission
<1> HIDE DEF row
<1>2. admitted' = Append(admitted, row)
  BY DEF Admit, row
<1>3. /\ Len(admitted) \in Nat /\ Len(admitted') = n
      /\ \A i \in 1..Len(admitted) : admitted'[i] = admitted[i]
      /\ admitted'[n] = row
  BY <1>1, <1>2 DEF TypeOK
<1>4. Indices' = Indices \cup {n} /\ n \notin Indices
  BY <1>3 DEF Indices
<1>5. \A i \in Indices : admitted'[i] = admitted[i] /\ Of(i)' = Of(i)
  BY <1>3 DEF Of, Subject, Indices
<1>6. admitted'[n].stamp = now[t] /\ Of(n)' = s
  BY <1>1, <1>3 DEF Of, Subject
<1>7. /\ hits'[s] = Recent(t) \cup {n}
      /\ \A o \in Subjects \ {s} : hits'[o] = hits[o]
  BY SubjectType DEF Admit, TypeOK
<1>8. QED
  BY <1>3, <1>4, <1>5, <1>6, <1>7

\* Adding one index to what a call counted stays within the limit.
LEMMA AddOne ==
    ASSUME TypeOK, NEW t \in Threads, Admit(t),
           NEW n, n = Len(admitted) + 1, NEW S, S \subseteq Recent(t) \cup {n}
    PROVE  Cardinality(S) <= MaxRequests
<1>1. /\ IsFiniteSet(Recent(t)) /\ Cardinality(Recent(t)) \in Nat
      /\ Cardinality(Recent(t)) < MaxRequests
  BY RecentInHits DEF Admit, WithinLimit
<1>2. n \notin Recent(t)
  <2>1. n \notin Indices /\ Recent(t) \subseteq Indices
    BY RecentInHits, HitsFinite DEF Indices
  <2>2. QED
    BY <2>1
<1>3. /\ IsFiniteSet(Recent(t) \cup {n})
      /\ Cardinality(Recent(t) \cup {n}) = Cardinality(Recent(t)) + 1
  BY <1>1, <1>2, FS_AddElement
<1>4. Cardinality(S) <= Cardinality(Recent(t) \cup {n}) /\ Cardinality(S) \in Nat
  BY <1>3, FS_Subset, FS_CardinalityType
<1>5. QED
  BY <1>1, <1>3, <1>4, LimitsAssumption

\* An admission prunes what its own, possibly late, clock reading calls old:
\* what it drops lies more than a window before the admission it records.
LEMMA AdmitKeepsIInv ==
    ASSUME IInv, NEW t \in Threads, Admit(t), TypeOK'
    PROVE  IInv'
<1>a. PICK n : n = Len(admitted) + 1
  OBVIOUS
<1>b. PICK s : s = Subject(cred[t])
  OBVIOUS
<1>c. PICK x : x = now[t]
  OBVIOUS
<1>0. TypeOK /\ s \in Subjects /\ x \in Nat /\ clock \in Nat /\ Window \in Nat
  BY <1>b, <1>c, SubjectType, LimitsAssumption DEF IInv, TypeOK
<1>d. /\ Indices' = Indices \cup {n} /\ n \notin Indices
      /\ \A i \in Indices : admitted'[i] = admitted[i] /\ Of(i)' = Of(i)
      /\ admitted'[n].stamp = x
      /\ Of(n)' = s
      /\ hits'[s] = Recent(t) \cup {n}
      /\ \A o \in Subjects \ {s} : hits'[o] = hits[o]
  <2>1. /\ Indices' = Indices \cup {n} /\ n \notin Indices
        /\ \A i \in Indices : admitted'[i] = admitted[i] /\ Of(i)' = Of(i)
        /\ admitted'[n].stamp = now[t]
        /\ Of(n)' = s
        /\ hits'[s] = Recent(t) \cup {n}
        /\ \A o \in Subjects \ {s} : hits'[o] = hits[o]
    BY <1>0, <1>a, <1>b, AdmitEffect
  <2>2. QED
    BY <1>c, <2>1
<1>e. Recent(t) = {i \in hits[s] : admitted[i].stamp >= x - Window}
  BY <1>b, <1>c DEF Recent
<1>f. \A i \in Indices : admitted[i].stamp \in Nat /\ Of(i) \in Subjects
  BY <1>0, SubjectType, StampType DEF Of
<1>1. Past'
  <2>1. \A i \in Indices' : admitted'[i].stamp <= clock'
    BY <1>0, <1>c, <1>d DEF IInv, Past, Admit
  <2>2. \A u \in Threads : now'[u] <= clock'
    BY <1>0 DEF IInv, Past, Admit, Return, TypeOK
  <2>3. QED
    BY <2>1, <2>2 DEF Past
<1>2. Owned'
  <2>1. \A i \in Recent(t) : i \in Indices /\ Of(i) = s
    BY <1>0, <1>b, RecentInHits DEF IInv, Owned
  <2>2. \A i \in hits'[s] : Of(i)' = s
    BY <1>d, <2>1
  <2>3. ASSUME NEW o \in Subjects \ {s} PROVE \A i \in hits'[o] : Of(i)' = o
    <3>1. hits'[o] = hits[o] /\ hits[o] \subseteq Indices
      BY <1>0, <1>d DEF TypeOK, Indices
    <3>2. QED
      BY <1>d, <3>1 DEF IInv, Owned
  <2>4. QED
    BY <2>2, <2>3 DEF Owned
<1>3. HitsBounded'
  <2>1. Cardinality(hits'[s]) <= MaxRequests
    BY <1>0, <1>a, <1>d, AddOne
  <2>2. \A o \in Subjects \ {s} : Cardinality(hits'[o]) <= MaxRequests
    BY <1>d DEF IInv, HitsBounded
  <2>3. QED
    BY <2>1, <2>2 DEF HitsBounded
<1>4. Forgotten'
  <2> SUFFICES ASSUME NEW j \in Indices', j \notin hits'[Of(j)']
               PROVE  \E i \in Indices' : /\ Of(i)' = Of(j)'
                                          /\ admitted'[i].stamp > admitted'[j].stamp + Window
    BY DEF Forgotten
  <2>1. j # n
    BY <1>d
  <2>2. j \in Indices /\ Of(j)' = Of(j) /\ admitted'[j] = admitted[j]
    BY <1>d, <2>1
  <2>3. CASE j \notin hits[Of(j)]
    <3>1. PICK i \in Indices : Of(i) = Of(j) /\ admitted[i].stamp > admitted[j].stamp + Window
      BY <2>2, <2>3 DEF IInv, Forgotten
    <3>2. i \in Indices' /\ Of(i)' = Of(j)' /\ admitted'[i].stamp > admitted'[j].stamp + Window
      BY <1>d, <2>2, <3>1
    <3>3. QED
      BY <3>2
  <2>4. CASE j \in hits[Of(j)]
    <3>1. Of(j) = s /\ j \notin Recent(t)
      BY <1>d, <1>f, <2>2, <2>4
    <3>2. admitted[j].stamp < x - Window
      BY <1>0, <1>e, <1>f, <2>2, <2>4, <3>1
    <3>3. n \in Indices' /\ Of(n)' = Of(j)' /\ admitted'[n].stamp > admitted'[j].stamp + Window
      BY <1>0, <1>d, <1>f, <2>2, <3>1, <3>2
    <3>4. QED
      BY <3>3
  <2>5. QED
    BY <2>3, <2>4
<1>5. ASSUME InOrder' PROVE WindowsBounded'
  <2>1. \A i \in Indices : admitted[i].stamp <= x
    <3>1. \A i \in Indices : i \in Indices' /\ i < n /\ n \in Indices'
      BY <1>0, <1>a, <1>d, HitsFinite DEF Indices
    <3>2. \A i \in Indices : admitted'[i].stamp <= admitted'[n].stamp
      BY <1>5, <3>1 DEF InOrder
    <3>3. QED
      BY <1>d, <3>2
  <2>2. WindowsBounded
    <3>1. InOrder
      BY <1>5, <1>d DEF InOrder
    <3>2. QED
      BY <3>1 DEF IInv
  <2> DEFINE Within(o, y) ==
        {i \in Indices' : Of(i)' = o /\ admitted'[i].stamp \in (y - Window)..y}
  <2>3. Cardinality(Within(s, x)) <= MaxRequests
    <3>1. ASSUME NEW j \in Within(s, x), j # n PROVE j \in Recent(t)
      <4>1. j \in Indices /\ Of(j) = s /\ admitted[j].stamp >= x - Window
        BY <1>0, <1>d, <1>f, <3>1
      <4>2. ASSUME j \notin hits[s] PROVE FALSE
        <5>1. PICK i \in Indices : admitted[i].stamp > admitted[j].stamp + Window
          BY <4>1, <4>2 DEF IInv, Forgotten
        <5>2. QED
          BY <1>0, <1>f, <2>1, <4>1, <5>1
      <4>3. QED
        BY <1>e, <4>1, <4>2
    <3>2. Within(s, x) \subseteq Recent(t) \cup {n}
      BY <3>1
    <3>3. QED
      BY <1>0, <1>a, <3>2, AddOne
  <2>4. ASSUME NEW i \in Indices', NEW o, NEW y, o = Of(i)', y = admitted'[i].stamp
        PROVE  Cardinality(Within(o, y)) <= MaxRequests
    <3>1. CASE o = s /\ y = x
      BY <2>3, <3>1
    <3>2. CASE ~(o = s /\ y = x)
      <4>1. i \in Indices /\ o = Of(i) /\ y = admitted[i].stamp
        BY <1>d, <2>4, <3>2
      <4>2. n \notin Within(o, y)
        BY <1>0, <1>d, <1>f, <2>1, <3>2, <4>1
      <4>3. Within(o, y) = {k \in Indices : Of(k) = o /\ admitted[k].stamp \in (y - Window)..y}
        BY <1>d, <4>2
      <4>4. Within(o, y) = InWindow(Of(i), admitted[i].stamp)
        BY <4>1, <4>3 DEF InWindow, Indices, Of
      <4>5. QED
        BY <2>2, <4>1, <4>4 DEF WindowsBounded
    <3>3. QED
      BY <3>1, <3>2
  <2>5. \A i \in Indices' : Cardinality(Within(Of(i)', admitted'[i].stamp)) <= MaxRequests
    BY <2>4
  <2>6. QED
    BY <2>5 DEF WindowsBounded, InWindow, Indices, Of
<1>6. QED
  BY <1>0, <1>1, <1>2, <1>3, <1>4, <1>5 DEF IInv

\* Every step of the limiter keeps the invariant.
LEMMA IInvNext == IInv /\ [Next]_vars => IInv'
<1> SUFFICES ASSUME IInv, [Next]_vars PROVE IInv'
  OBVIOUS
<1>0. TypeOK /\ TypeOK'
  BY TypeNext DEF IInv
<1>1. CASE Tick
  <2>1. Past'
    <3>1. \A i \in Indices : admitted[i].stamp \in Nat
      BY <1>0, StampType
    <3>2. /\ Indices' = Indices /\ admitted' = admitted /\ now' = now
          /\ clock' = clock + 1 /\ clock \in Nat /\ now \in [Threads -> Nat]
      BY <1>0, <1>1 DEF Tick, TypeOK, Indices
    <3>3. QED
      BY <3>1, <3>2 DEF IInv, Past
  <2>2. QED
    BY <1>0, <1>1, <2>1, Frame DEF Tick, IInv
<1>2. ASSUME NEW t \in Threads, ReadClock(t) PROVE IInv'
  <2>1. Past'
    BY <1>0, <1>2 DEF ReadClock, IInv, Past, TypeOK, Indices
  <2>2. QED
    BY <1>0, <1>2, <2>1, Frame DEF ReadClock, IInv
<1>3. ASSUME NEW t \in Threads, Admit(t) PROVE IInv'
  BY <1>0, <1>3, AdmitKeepsIInv
<1>4. ASSUME NEW t \in Threads, RefuseCall(t) PROVE IInv'
  <2>1. hits' = hits /\ admitted' = admitted
    BY <1>0, <1>4, RefusedDropsNothing DEF IInv, RefuseCall
  <2>2. Past'
    BY <1>0, <1>4 DEF RefuseCall, Return, IInv, Past, TypeOK, Indices
  <2>3. QED
    BY <1>0, <2>1, <2>2, Frame DEF IInv
<1>5. CASE UNCHANGED vars
  <2>1. Past'
    BY <1>5 DEF vars, IInv, Past, Indices
  <2>2. QED
    BY <1>0, <1>5, <2>1, Frame DEF vars, IInv
<1>6. QED
  BY <1>1, <1>2, <1>3, <1>4, <1>5 DEF Next

\* The invariant holds throughout.
LEMMA IInvCorrect == Spec => []IInv
  BY IInvInit, IInvNext, PTL DEF Spec
-----------------------------------------------------------------------------
\* The list of a subject never outgrows the limit.
THEOREM HitsBoundedCorrect == Spec => []HitsBounded
<1>1. IInv => HitsBounded
  BY DEF IInv
<1>2. QED
  BY <1>1, IInvCorrect, PTL

\* No admission of the last window is missing from the list.
THEOREM RecentKeptCorrect == Spec => []RecentKept
<1>1. IInv => RecentKept
  <2> SUFFICES ASSUME IInv, NEW s \in Subjects, NEW j \in InWindow(s, clock), j \notin hits[s]
               PROVE  FALSE
    BY DEF RecentKept
  <2>0. \A i \in Indices : admitted[i].stamp \in Nat /\ admitted[i].stamp <= clock
    BY StampType DEF IInv, Past
  <2>1. /\ j \in Indices /\ Of(j) = s /\ clock \in Nat /\ Window \in Nat
        /\ admitted[j].stamp >= clock - Window
    BY <2>0, LimitsAssumption DEF IInv, TypeOK, InWindow, Indices, Of
  <2>2. PICK i \in Indices : admitted[i].stamp > admitted[j].stamp + Window
    BY <2>1 DEF IInv, Forgotten
  <2>3. QED
    BY <2>0, <2>1, <2>2
<1>2. QED
  BY <1>1, IInvCorrect, PTL

\* A call is refused only when the limit was used up in the window before it.
THEOREM RefusalJustifiedCorrect == Spec => RefusalJustified
<1> DEFINE Used(t) == {i \in Indices : /\ Of(i) = Subject(cred[t])
                                       /\ admitted[i].stamp >= now[t] - Window}
           Justified == \A t \in Threads :
               pc[t] = "check" /\ pc'[t] = "idle" /\ admitted' = admitted =>
                   Cardinality(Used(t)) >= MaxRequests
<1>1. IInv /\ [Next]_vars => [Justified]_vars
  <2> SUFFICES ASSUME IInv, [Next]_vars, NEW t \in Threads,
                      pc[t] = "check", pc'[t] = "idle", admitted' = admitted
               PROVE  Cardinality(Used(t)) >= MaxRequests
    BY DEF Indices, Of
  <2>1. TypeOK
    BY DEF IInv
  <2>2. RefuseCall(t)
    <3>1. \A u \in Threads : Admit(u) => Len(admitted') # Len(admitted)
      BY <2>1 DEF Admit, TypeOK
    <3>2. QED
      BY <2>1, <3>1 DEF Next, Tick, ReadClock, RefuseCall, Return, TypeOK, vars
  <2>3. Recent(t) \subseteq Used(t) /\ Used(t) \subseteq Indices
    BY <2>1, RecentInHits, SubjectType DEF IInv, Owned, Recent
  <2>4. Cardinality(Recent(t)) <= Cardinality(Used(t))
    BY <2>1, <2>3, HitsFinite, FS_Subset
  <2>5. Cardinality(Recent(t)) \in Nat /\ Cardinality(Used(t)) \in Nat
    BY <2>1, <2>3, HitsFinite, RecentInHits
  <2>6. Cardinality(Recent(t)) >= MaxRequests
    BY <2>2, <2>5, LimitsAssumption DEF RefuseCall, WithinLimit
  <2>7. QED
    BY <2>4, <2>5, <2>6, LimitsAssumption
<1>2. QED
  BY <1>1, IInvCorrect, PTL DEF RefusalJustified, Spec, Indices, Of

\* With calls in the order of their clock readings, the window holds.
THEOREM InOrderWindowBoundCorrect == Spec => []InOrderWindowBound
<1>1. IInv => InOrderWindowBound
  BY DEF IInv, InOrderWindowBound, InOrder, WindowsBounded, Indices, Of
<1>2. QED
  BY <1>1, IInvCorrect, PTL
=============================================================================
