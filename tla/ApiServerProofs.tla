--------------------------- MODULE ApiServerProofs ---------------------------
(***************************************************************************)
(* Proofs about ApiServer, for any requests, endpoints and correlation     *)
(* ids, any number of documents in a case and of lifespans in a process.   *)
(***************************************************************************)
EXTENDS ApiServer, FiniteSetTheorems, TLAPS

(***************************************************************************)
(* The inductive invariant of the process.  The place of a request tells how deep its     *)
(* spans are; the lifespan opens one store and never replaces it, and ends *)
(* only between requests; the open spans of a request are a chain of calls *)
(* whose end is the current span of its trace.                             *)
(***************************************************************************)
PlaceInv ==
    \A r \in Requests :
        /\ pc[r] \in {"new", "counting", "unhandled", "answered"} => Len(stack[r]) = 0
        /\ pc[r] \in {"running", "raising"} => Len(stack[r]) >= 1
        /\ pc[r] = "responding" => Len(stack[r]) = 1
        /\ pc[r] = "new" => /\ Len(exported[r]) = 0
                            /\ store[r] = Unasked /\ verdict[r] = "none"

LifespanInv ==
    /\ starts = 0 => /\ phase = "down" /\ created = 0 /\ default = 0
    /\ starts > 0 => created = 1 /\ default = 1
    /\ starts = 0 \/ (starts = 1 /\ phase = "up") => closed = {}
    /\ phase = "down" => \A r \in Requests : pc[r] \in {"new", "answered"}
    /\ \A r \in Requests : store[r] \in {Unasked, SawStore, 1}
    /\ \A r \in Requests : store[r] = 1 => starts > 0
    /\ \A r \in Requests : verdict[r] = "ready" /\ pc[r] # "answered" =>
                               store[r] = 1 /\ 1 \notin closed

ProcessInv == TypeOK /\ PlaceInv /\ LifespanInv

\* Each open span was opened by the one below it.
ChainInv ==
    \A r \in Requests : \A i \in 1..Len(stack[r]) :
        IF i = 1
          THEN stack[r][i].parent = NoSpan /\ stack[r][i].name = Root
          ELSE /\ stack[r][i].parent = stack[r][i - 1].span
               /\ stack[r][i].name \in Callees(endpoint[r], stack[r][i - 1].name)

CurrentInv ==
    /\ \A r \in Requests :
          current[Trace(r)] = IF Len(stack[r]) = 0 THEN NoSpan ELSE Top(r).span
    /\ \A t \in TraceIds : (\A r \in Requests : Trace(r) # t) => current[t] = NoSpan

\* The root ends last.
RootInv ==
    \A r \in Requests : Len(stack[r]) > 0 =>
        \A i \in Ends(r) : exported[r][i].parent # NoSpan

\* One of the spans of r, ended or open, has the id span and calls name.
OpenedBy(r, span, name) ==
    \/ \E j \in Ends(r) :
           exported[r][j].span = span /\ name \in Callees(endpoint[r], exported[r][j].name)
    \/ \E j \in 1..Len(stack[r]) :
           stack[r][j].span = span /\ name \in Callees(endpoint[r], stack[r][j].name)

EndedInv ==
    \A r \in Requests : \A i \in Ends(r) :
        IF exported[r][i].parent = NoSpan
          THEN exported[r][i].name = Root /\ i = Len(exported[r])
          ELSE OpenedBy(r, exported[r][i].parent, exported[r][i].name)

TreeInv == ChainInv /\ CurrentInv /\ RootInv /\ EndedInv
-----------------------------------------------------------------------------
(***************************************************************************)
(* Spans.                                                                  *)
(***************************************************************************)
\* What a body calls is a sequence of spans of the code.
LEMMA CallsType == ASSUME NEW e, NEW name PROVE Calls(e, name) \in Seq(SpanNames)
<1>1. VerifyCaseSpans \in Seq(SpanNames)
  <2>1. Documents + 4 \in Nat
    BY DocumentsAssumption
  <2>2. \A i \in 1..(Documents + 4) : VerifyCaseSpans[i] \in SpanNames
    BY DocumentsAssumption DEF VerifyCaseSpans, SpanNames
  <2>3. VerifyCaseSpans \in [1..(Documents + 4) -> SpanNames]
    BY <2>2 DEF VerifyCaseSpans
  <2>4. QED
    BY <2>1, <2>3
<1>2. VerifyDocumentSpans \in Seq(SpanNames) /\ EndpointSpans(e) \in Seq(SpanNames)
  <2>1. \A a, b, c \in SpanNames : <<a>> \in Seq(SpanNames) /\ <<a, b>> \in Seq(SpanNames)
                                   /\ <<a, b, c>> \in Seq(SpanNames)
    OBVIOUS
  <2>2. <<>> \in Seq(SpanNames)
    OBVIOUS
  <2>3. {"service.verify_case", "service.verify_document", "review.open",
         "document_intelligence.extract", "evidence_validation.validate_document",
         "fraud_signals.assess_document"} \subseteq SpanNames
    BY DEF SpanNames
  <2> HIDE DEF SpanNames
  <2>4. QED
    BY <2>1, <2>2, <2>3 DEF VerifyDocumentSpans, EndpointSpans
<1>3. QED
  BY <1>1, <1>2 DEF Calls

\* A span id is never the id of no span, and traces differ with their requests.
LEMMA Distinct ==
    /\ NoSpan \notin SpanIds
    /\ \A r, q \in Requests : Trace(r) = Trace(q) => r = q
    /\ \A r \in Requests : Trace(r) \in TraceIds
<1>1. ASSUME NEW s \in SpanIds PROVE s # NoSpan
  <2>1. PICK r \in Requests, n \in Nat : s = <<r, n>>
    BY DEF SpanIds
  <2>2. Len(<<r, n>>) = 2 /\ Len(<<>>) = 0
    OBVIOUS
  <2>3. QED
    BY <2>1, <2>2 DEF NoSpan
<1>2. QED
  BY <1>1 DEF Trace, FreshTrace, TraceIds

\* Counting one more call in the innermost frame changes nothing else.
LEMMA CalledKeeps ==
    ASSUME NEW frames \in Seq(Frame)
    PROVE  /\ Called(frames) \in Seq(Frame)
           /\ Len(Called(frames)) = Len(frames)
           /\ \A i \in 1..Len(frames) :
                 /\ Called(frames)[i].span = frames[i].span
                 /\ Called(frames)[i].parent = frames[i].parent
                 /\ Called(frames)[i].name = frames[i].name
                 /\ Called(frames)[i].calls
                        = frames[i].calls + (IF i = Len(frames) THEN 1 ELSE 0)
<1>1. CASE frames = <<>>
  BY <1>1 DEF Called
<1>2. CASE frames # <<>>
  <2> DEFINE n == Len(frames)
             last == [frames[n] EXCEPT !.calls = @ + 1]
  <2>1. n \in Nat /\ n \in 1..n /\ frames[n] \in Frame
    BY <1>2
  <2>2. /\ last \in Frame
        /\ last.span = frames[n].span /\ last.parent = frames[n].parent
        /\ last.name = frames[n].name /\ last.calls = frames[n].calls + 1
    BY <2>1 DEF Frame
  <2>3. Called(frames) = [frames EXCEPT ![n] = last]
    BY <1>2 DEF Called
  <2>4. ASSUME NEW i \in 1..n PROVE frames[i].calls \in Nat
    <3>1. frames[i] \in Frame
      OBVIOUS
    <3>2. QED
      BY <3>1 DEF Frame
  <2> HIDE DEF last
  <2>5. /\ Called(frames) \in Seq(Frame) /\ Len(Called(frames)) = n
        /\ \A i \in 1..n : Called(frames)[i] = IF i = n THEN last ELSE frames[i]
    BY <2>1, <2>2, <2>3
  <2>6. ASSUME NEW i \in 1..n
        PROVE  Called(frames)[i].calls = frames[i].calls + (IF i = n THEN 1 ELSE 0)
    <3> HIDE DEF n
    <3>1. CASE i = n
      BY <2>2, <2>5, <3>1
    <3>2. CASE i # n
      BY <2>4, <2>5, <3>2
    <3>3. QED
      BY <3>1, <3>2
  <2>7. QED
    BY <2>2, <2>5, <2>6
<1>3. QED
  BY <1>1, <1>2

\* What entering a span does to its request, and that it is all.
LEMMA StartEffect ==
    ASSUME TypeOK, NEW r \in Requests, NEW name \in SpanNames, StartSpan(r, name)
    PROVE  /\ stack' \in [Requests -> Seq(Frame)]
           /\ current' \in [TraceIds -> SpanIds \cup {NoSpan}]
           /\ exported' = exported
           /\ \A q \in Requests \ {r} : stack'[q] = stack[q]
           /\ \A t \in TraceIds \ {Trace(r)} : current'[t] = current[t]
           /\ Len(stack'[r]) = Len(stack[r]) + 1
           /\ \A i \in 1..Len(stack[r]) :
                 /\ stack'[r][i].span = stack[r][i].span
                 /\ stack'[r][i].parent = stack[r][i].parent
                 /\ stack'[r][i].name = stack[r][i].name
                 /\ stack'[r][i].calls
                        = stack[r][i].calls + (IF i = Len(stack[r]) THEN 1 ELSE 0)
           /\ stack'[r][Len(stack[r]) + 1].calls = 0
           /\ stack'[r][Len(stack[r]) + 1].span = <<r, Opened(r) + 1>>
           /\ stack'[r][Len(stack[r]) + 1].span = current'[Trace(r)]
           /\ stack'[r][Len(stack[r]) + 1].parent = current[Trace(r)]
           /\ stack'[r][Len(stack[r]) + 1].name = name
<1> DEFINE id == <<r, Opened(r) + 1>>
           new == [span |-> id, parent |-> current[Trace(r)], name |-> name, calls |-> 0]
           frames == Called(stack[r])
<1>1. stack[r] \in Seq(Frame) /\ exported[r] \in Seq(Exported) /\ Trace(r) \in TraceIds
  BY Distinct DEF TypeOK
<1>2. id \in SpanIds
  <2> HIDE DEF id, new, frames
  <2>1. Opened(r) + 1 \in Nat
    <3>1. Len(stack[r]) \in Nat /\ Len(exported[r]) \in Nat
      BY <1>1
    <3>2. Opened(r) = Len(exported[r]) + Len(stack[r])
      BY DEF Opened
    <3>3. \A m, n \in Nat : m + n + 1 \in Nat
      OBVIOUS
    <3>4. QED
      BY <3>1, <3>2, <3>3
  <2>2. QED
    BY <2>1 DEF SpanIds, id
<1>3. new \in Frame
  BY <1>1, <1>2 DEF Frame, TypeOK
<1>4. /\ new.span = id /\ new.parent = current[Trace(r)] /\ new.name = name /\ new.calls = 0
      /\ id = <<r, Opened(r) + 1>>
  OBVIOUS
<1>5. /\ stack' = [stack EXCEPT ![r] = Append(frames, new)]
      /\ current' = [current EXCEPT ![Trace(r)] = id]
      /\ exported' = exported
  BY DEF StartSpan
<1>6. /\ frames \in Seq(Frame) /\ Len(frames) = Len(stack[r])
      /\ \A i \in 1..Len(stack[r]) : /\ frames[i].span = stack[r][i].span
                                      /\ frames[i].parent = stack[r][i].parent
                                      /\ frames[i].name = stack[r][i].name
                                      /\ frames[i].calls = stack[r][i].calls
                                             + (IF i = Len(stack[r]) THEN 1 ELSE 0)
  BY <1>1, CalledKeeps
<1> HIDE DEF id, new, frames
<1>7. Append(frames, new) \in Seq(Frame)
  BY <1>3, <1>6
<1>8. stack' \in [Requests -> Seq(Frame)] /\ stack'[r] = Append(frames, new)
  BY <1>5, <1>7 DEF TypeOK
<1>9. current' \in [TraceIds -> SpanIds \cup {NoSpan}] /\ current'[Trace(r)] = id
  BY <1>1, <1>2, <1>5 DEF TypeOK
<1>10. /\ Len(stack'[r]) = Len(stack[r]) + 1
       /\ \A i \in 1..Len(stack[r]) : stack'[r][i] = frames[i]
       /\ stack'[r][Len(stack[r]) + 1] = new
  BY <1>3, <1>6, <1>8
<1>11. /\ \A q \in Requests \ {r} : stack'[q] = stack[q]
       /\ \A t \in TraceIds \ {Trace(r)} : current'[t] = current[t]
  BY <1>5 DEF TypeOK
<1>12. \A i \in 1..Len(stack[r]) : /\ stack'[r][i].span = stack[r][i].span
                                   /\ stack'[r][i].parent = stack[r][i].parent
                                   /\ stack'[r][i].name = stack[r][i].name
                                   /\ stack'[r][i].calls = stack[r][i].calls
                                          + (IF i = Len(stack[r]) THEN 1 ELSE 0)
  BY <1>6, <1>10
<1>13. QED
  BY <1>4, <1>5, <1>8, <1>9, <1>10, <1>11, <1>12

\* What leaving a span does to its request, and that it is all.
LEMMA EndEffect ==
    ASSUME TypeOK, NEW r \in Requests, Len(stack[r]) >= 1, NEW outcome \in {"OK", "ERROR"},
           EndSpan(r, outcome)
    PROVE  /\ stack' \in [Requests -> Seq(Frame)]
           /\ current' \in [TraceIds -> SpanIds \cup {NoSpan}]
           /\ exported' \in [Requests -> Seq(Exported)]
           /\ \A q \in Requests \ {r} : stack'[q] = stack[q] /\ exported'[q] = exported[q]
           /\ \A t \in TraceIds \ {Trace(r)} : current'[t] = current[t]
           /\ Len(stack'[r]) = Len(stack[r]) - 1
           /\ \A i \in 1..(Len(stack[r]) - 1) : stack'[r][i] = stack[r][i]
           /\ current'[Trace(r)] = Top(r).parent
           /\ Len(exported'[r]) = Len(exported[r]) + 1
           /\ \A i \in Ends(r) : exported'[r][i] = exported[r][i]
           /\ exported'[r][Len(exported[r]) + 1].span = Top(r).span
           /\ exported'[r][Len(exported[r]) + 1].parent = Top(r).parent
           /\ exported'[r][Len(exported[r]) + 1].name = Top(r).name
           /\ exported'[r][Len(exported[r]) + 1].outcome = outcome
<1> DEFINE n == Len(stack[r])
           new == Ended(r, outcome)
<1>1. stack[r] \in Seq(Frame) /\ exported[r] \in Seq(Exported) /\ Trace(r) \in TraceIds
  BY Distinct DEF TypeOK
<1>2. n \in Nat /\ n \in 1..n /\ Top(r) \in Frame
  BY <1>1 DEF Top
<1>3. /\ new \in Exported
      /\ new.span = Top(r).span /\ new.parent = Top(r).parent /\ new.name = Top(r).name
      /\ new.outcome = outcome
  BY <1>2 DEF Ended, Frame, Exported
<1>4. /\ stack' = [stack EXCEPT ![r] = SubSeq(stack[r], 1, n - 1)]
      /\ current' = [current EXCEPT ![Trace(r)] = Top(r).parent]
      /\ exported' = [exported EXCEPT ![r] = Append(exported[r], new)]
  BY DEF EndSpan
<1>5. Top(r).parent \in SpanIds \cup {NoSpan}
  BY <1>2 DEF Frame
<1> HIDE DEF new
<1>6. /\ SubSeq(stack[r], 1, n - 1) \in Seq(Frame)
      /\ Len(SubSeq(stack[r], 1, n - 1)) = n - 1
      /\ \A i \in 1..(n - 1) : SubSeq(stack[r], 1, n - 1)[i] = stack[r][i]
  BY <1>1, <1>2
<1>7. /\ Append(exported[r], new) \in Seq(Exported)
      /\ Len(Append(exported[r], new)) = Len(exported[r]) + 1
      /\ \A i \in Ends(r) : Append(exported[r], new)[i] = exported[r][i]
      /\ Append(exported[r], new)[Len(exported[r]) + 1] = new
  BY <1>1, <1>3 DEF Ends
<1>8. /\ stack' \in [Requests -> Seq(Frame)] /\ stack'[r] = SubSeq(stack[r], 1, n - 1)
      /\ exported' \in [Requests -> Seq(Exported)]
      /\ exported'[r] = Append(exported[r], new)
      /\ current' \in [TraceIds -> SpanIds \cup {NoSpan}]
      /\ current'[Trace(r)] = Top(r).parent
  BY <1>1, <1>4, <1>5, <1>6, <1>7 DEF TypeOK
<1>9. /\ \A q \in Requests \ {r} : stack'[q] = stack[q] /\ exported'[q] = exported[q]
      /\ \A t \in TraceIds \ {Trace(r)} : current'[t] = current[t]
  BY <1>4 DEF TypeOK
<1>10. QED
  BY <1>3, <1>6, <1>7, <1>8, <1>9

\* The span a body opens next is one of those it calls.
LEMMA EnteredName ==
    ASSUME TypeOK, PlaceInv, NEW r \in Requests, EnterSpan(r)
    PROVE  /\ Len(stack[r]) >= 1
           /\ Calls(endpoint[r], Top(r).name)[Top(r).calls + 1] \in SpanNames
           /\ Calls(endpoint[r], Top(r).name)[Top(r).calls + 1]
                  \in Callees(endpoint[r], Top(r).name)
<1> DEFINE calls == Calls(endpoint[r], Top(r).name)
<1>1. Len(stack[r]) >= 1 /\ ~BodyDone(r) /\ stack[r] \in Seq(Frame)
  BY DEF EnterSpan, Running, PlaceInv, TypeOK
<1>2. Top(r) \in Frame
  BY <1>1 DEF Top
<1>3. Top(r).calls \in Nat
  BY <1>2 DEF Frame
<1>4. calls \in Seq(SpanNames)
  BY CallsType
<1>5. Top(r).calls < Len(calls)
  <2>1. ~(Top(r).calls >= Len(calls))
    BY <1>1 DEF BodyDone
  <2> HIDE DEF calls
  <2>2. QED
    BY <1>3, <1>4, <2>1
<1>6. Callees(endpoint[r], Top(r).name) = {calls[i] : i \in 1..Len(calls)}
  BY DEF Callees
<1> HIDE DEF calls
<1>7. Top(r).calls + 1 \in 1..Len(calls)
  BY <1>3, <1>4, <1>5
<1>8. calls[Top(r).calls + 1] \in SpanNames /\ calls[Top(r).calls + 1] \in {calls[i] : i \in 1..Len(calls)}
  BY <1>4, <1>7
<1>9. QED
  BY <1>1, <1>6, <1>8 DEF calls
-----------------------------------------------------------------------------
(***************************************************************************)
(* Types.                                                                  *)
(***************************************************************************)
\* Counters only count.
LEMMA IncrementType ==
    ASSUME TypeOK, NEW counters, Increment(counters)
    PROVE  metrics' \in [{"requests", "errors", "decisions", "reviews", "provider_failures"} -> Nat]
  BY DEF TypeOK, Increment

\* The variables are in their types at the start.
LEMMA TypeInit == Init => TypeOK
<1> SUFFICES ASSUME Init PROVE TypeOK
  OBVIOUS
<1>1. <<>> \in Seq(Frame) /\ <<>> \in Seq(Exported)
  OBVIOUS
<1>2. /\ phase \in {"up", "down"} /\ starts \in 0..MaxStarts
      /\ default \in 0..created /\ created \in Nat /\ closed \subseteq 1..created
      /\ store \in [Requests -> {SawNone, SawStore} \cup 0..created]
  BY StartsAssumption DEF Init, Unasked
<1>3. /\ pc \in [Requests -> Places] /\ status \in [Requests -> Statuses]
      /\ verdict \in [Requests -> {"none", "ready", "degraded"}]
      /\ raised \in [Requests -> Exceptions \cup {NoException}]
  BY DEF Init, Places, Statuses
<1>4. /\ stack \in [Requests -> Seq(Frame)] /\ exported \in [Requests -> Seq(Exported)]
      /\ current \in [TraceIds -> SpanIds \cup {NoSpan}]
      /\ metrics \in [{"requests", "errors", "decisions", "reviews", "provider_failures"} -> Nat]
  BY <1>1 DEF Init
<1>5. QED
  BY <1>2, <1>3, <1>4 DEF Init, TypeOK

\* Every step keeps the types, given what is known of depths and lifespans.
LEMMA TypeNext == ProcessInv /\ [Next]_vars => TypeOK'
<1> SUFFICES ASSUME TypeOK, PlaceInv, LifespanInv, [Next]_vars PROVE TypeOK'
  BY DEF ProcessInv
<1>1. CASE StartUp
  BY <1>1, StartsAssumption DEF StartUp, TypeOK, LifespanInv, requestVars, spanVars
<1>2. CASE ShutDown
  BY <1>2 DEF ShutDown, TypeOK, LifespanInv, requestVars, spanVars
<1>3. ASSUME NEW r \in Requests, Receive(r) PROVE TypeOK'
  <2>1. Root \in SpanNames /\ StartSpan(r, Root)
    BY <1>3 DEF Receive, SpanNames
  <2>2. QED
    BY <1>3, <2>1, StartEffect
    DEF Receive, Goto, Places, TypeOK, lifespanVars, requestVars
<1>4. ASSUME NEW r \in Requests, TestDefaultStore(r) PROVE TypeOK'
  BY <1>4 DEF TestDefaultStore, TypeOK, lifespanVars, requestVars, spanVars
<1>5. ASSUME NEW r \in Requests, TakeDefaultStore(r) PROVE TypeOK'
  <2>1. created' \in Nat /\ created <= created' /\ default' \in 0..created'
    BY <1>5 DEF TakeDefaultStore, TypeOK
  <2>2. store' = [store EXCEPT ![r] = default']
    BY <1>5 DEF TakeDefaultStore
  <2>3. store' \in [Requests -> {SawNone, SawStore} \cup 0..created']
    BY <2>1, <2>2 DEF TypeOK
  <2>4. closed' \subseteq 1..created'
    BY <1>5, <2>1 DEF TakeDefaultStore, TypeOK
  <2>5. QED
    BY <1>5, <2>1, <2>3, <2>4 DEF TakeDefaultStore, TypeOK, requestVars, spanVars
<1>6. ASSUME NEW r \in Requests, CheckReadiness(r) PROVE TypeOK'
  BY <1>6 DEF CheckReadiness, Found, TypeOK, lifespanVars, requestVars, spanVars
<1>7. ASSUME NEW r \in Requests, EnterSpan(r) PROVE TypeOK'
  <2> DEFINE name == Calls(endpoint[r], Top(r).name)[Top(r).calls + 1]
  <2>1. name \in SpanNames /\ StartSpan(r, name)
    BY <1>7, EnteredName DEF EnterSpan
  <2> HIDE DEF name
  <2>2. QED
    BY <1>7, <2>1, StartEffect DEF EnterSpan, TypeOK, lifespanVars, requestVars
<1>8. ASSUME NEW r \in Requests, LeaveSpan(r) PROVE TypeOK'
  <2>1. Len(stack[r]) >= 1 /\ EndSpan(r, "OK")
    BY <1>8 DEF LeaveSpan, Running, PlaceInv
  <2>2. PICK counters : Increment(counters)
    BY <1>8 DEF LeaveSpan
  <2>3. QED
    BY <1>8, <2>1, <2>2, EndEffect, IncrementType DEF LeaveSpan, TypeOK, lifespanVars, requestVars
<1>9. ASSUME NEW r \in Requests, Return(r) PROVE TypeOK'
  BY <1>9 DEF Return, Goto, Places, Statuses, TypeOK, lifespanVars, requestVars, spanVars
<1>10. ASSUME NEW r \in Requests, Raise(r) PROVE TypeOK'
  <2>1. PICK e : /\ e \in {"Exception"} \cup
                          (IF Top(r).calls = 0 THEN Raises(endpoint[r], Top(r).name) ELSE {})
                 /\ raised' = [raised EXCEPT ![r] = e]
    BY <1>10 DEF Raise
  <2>2. Raises(endpoint[r], Top(r).name) \subseteq Exceptions
    BY DEF Raises, Exceptions, Handled
  <2>3. e \in Exceptions
    BY <2>1, <2>2 DEF Exceptions
  <2>4. QED
    BY <1>10, <2>1, <2>3 DEF Raise, Goto, Places, TypeOK, lifespanVars, requestVars, spanVars
<1>11. ASSUME NEW r \in Requests, Unwind(r) PROVE TypeOK'
  <2>1. Len(stack[r]) >= 1 /\ EndSpan(r, "ERROR")
    BY <1>11 DEF Unwind, PlaceInv
  <2>2. PICK counters : Increment(counters)
    BY <1>11 DEF Unwind
  <2>3. QED
    BY <1>11, <2>1, <2>2, EndEffect, IncrementType DEF Unwind, TypeOK, lifespanVars, requestVars
<1>12. ASSUME NEW r \in Requests, HandleException(r) PROVE TypeOK'
  <2>1. HandlerStatus(raised[r]) \in Statuses
    BY DEF HandlerStatus, Statuses
  <2>2. QED
    BY <1>12, <2>1 DEF HandleException, Goto, Places, TypeOK, lifespanVars, requestVars, spanVars
<1>13. ASSUME NEW r \in Requests, EscapeMiddleware(r) PROVE TypeOK'
  <2>1. Len(stack[r]) >= 1 /\ EndSpan(r, "ERROR")
    BY <1>13 DEF EscapeMiddleware, PlaceInv
  <2>2. QED
    BY <1>13, <2>1, EndEffect
    DEF EscapeMiddleware, Goto, Places, TypeOK, lifespanVars, requestVars
<1>14. ASSUME NEW r \in Requests, UnhandledException(r) PROVE TypeOK'
  <2>1. metrics' \in [{"requests", "errors", "decisions", "reviews", "provider_failures"} -> Nat]
    BY <1>14 DEF UnhandledException, Increment, TypeOK
  <2>2. pc' \in [Requests -> Places]
    BY <1>14 DEF UnhandledException, Goto, Places, TypeOK
  <2>3. status' \in [Requests -> Statuses]
    <3>1. status' = [status EXCEPT ![r] = 500] /\ 500 \in Statuses
      BY <1>14 DEF UnhandledException, Statuses
    <3>2. QED
      BY <3>1 DEF TypeOK
  <2>4. QED
    BY <1>14, <2>1, <2>2, <2>3
    DEF UnhandledException, TypeOK, lifespanVars, requestVars, spanVars
<1>15. ASSUME NEW r \in Requests, LeaveRequestSpan(r) PROVE TypeOK'
  <2>1. Len(stack[r]) >= 1 /\ EndSpan(r, "OK")
    BY <1>15 DEF LeaveRequestSpan, PlaceInv
  <2>2. QED
    BY <1>15, <2>1, EndEffect
    DEF LeaveRequestSpan, Goto, Places, TypeOK, lifespanVars, requestVars
<1>16. ASSUME NEW r \in Requests, CountRequest(r) PROVE TypeOK'
  BY <1>16, IncrementType
  DEF CountRequest, Goto, Places, TypeOK, lifespanVars, requestVars, spanVars
<1>17. CASE UNCHANGED vars
  BY <1>17 DEF vars, TypeOK
<1>18. QED
  BY <1>1, <1>2, <1>3, <1>4, <1>5, <1>6, <1>7, <1>8, <1>9, <1>10, <1>11, <1>12, <1>13,
     <1>14, <1>15, <1>16, <1>17 DEF Next, Handle
-----------------------------------------------------------------------------
(***************************************************************************)
(* Places and lifespans.                                                   *)
(***************************************************************************)
\* A step of one request leaves the others where they are.
Elsewhere(r) ==
    \A q \in Requests \ {r} :
        /\ pc'[q] = pc[q] /\ store'[q] = store[q] /\ verdict'[q] = verdict[q]
        /\ stack'[q] = stack[q] /\ exported'[q] = exported[q]

\* The depth of a request's spans keeps agreeing with its place.
LEMMA PlaceNext == ProcessInv /\ [Next]_vars => PlaceInv'
<1> SUFFICES ASSUME TypeOK, PlaceInv, LifespanInv, [Next]_vars PROVE PlaceInv'
  BY DEF ProcessInv
<1>1. CASE StartUp \/ ShutDown
  BY <1>1 DEF StartUp, ShutDown, PlaceInv, requestVars, spanVars
<1>2. ASSUME NEW r \in Requests, Receive(r) PROVE PlaceInv'
  <2>1. Root \in SpanNames /\ StartSpan(r, Root)
    BY <1>2 DEF Receive, SpanNames
  <2>2. Len(stack'[r]) = 1 /\ pc'[r] = "running"
    <3>1. Len(stack[r]) = 0 /\ pc'[r] = "running"
      BY <1>2 DEF Receive, Goto, PlaceInv, TypeOK
    <3>2. Len(stack'[r]) = Len(stack[r]) + 1
      BY <2>1, StartEffect
    <3>3. QED
      BY <3>1, <3>2
  <2>3. Elsewhere(r)
    BY <1>2, <2>1, StartEffect DEF Receive, Goto, TypeOK, Elsewhere
  <2>4. QED
    BY <2>2, <2>3 DEF PlaceInv, Elsewhere
<1>3. ASSUME NEW r \in Requests, TestDefaultStore(r) \/ TakeDefaultStore(r) PROVE PlaceInv'
  <2>1. pc[r] = "running" /\ UNCHANGED <<pc, verdict, stack, exported>>
    BY <1>3 DEF TestDefaultStore, TakeDefaultStore, Running, spanVars
  <2>2. \A q \in Requests \ {r} : store'[q] = store[q]
    BY <1>3 DEF TestDefaultStore, TakeDefaultStore, TypeOK
  <2>3. QED
    BY <2>1, <2>2 DEF PlaceInv
<1>4. ASSUME NEW r \in Requests, CheckReadiness(r) PROVE PlaceInv'
  <2>1. pc[r] = "running" /\ UNCHANGED <<pc, store, stack, exported>>
    BY <1>4 DEF CheckReadiness, Running, spanVars
  <2>2. \A q \in Requests \ {r} : verdict'[q] = verdict[q]
    BY <1>4 DEF CheckReadiness, TypeOK
  <2>3. QED
    BY <2>1, <2>2 DEF PlaceInv
<1>5. ASSUME NEW r \in Requests, EnterSpan(r) PROVE PlaceInv'
  <2> DEFINE name == Calls(endpoint[r], Top(r).name)[Top(r).calls + 1]
  <2>1. name \in SpanNames /\ StartSpan(r, name) /\ Len(stack[r]) >= 1
    BY <1>5, EnteredName DEF EnterSpan
  <2>2. pc[r] = "running" /\ UNCHANGED <<pc, store, verdict>>
    BY <1>5 DEF EnterSpan, Running
  <2> HIDE DEF name
  <2>3. Len(stack'[r]) = Len(stack[r]) + 1 /\ Len(stack[r]) \in Nat
    BY <2>1, StartEffect DEF TypeOK
  <2>4. Elsewhere(r)
    BY <2>1, <2>2, StartEffect DEF Elsewhere
  <2>5. Len(stack'[r]) >= 1
    BY <2>3
  <2>6. QED
    BY <2>2, <2>4, <2>5 DEF PlaceInv, Elsewhere
<1>6. ASSUME NEW r \in Requests, LeaveSpan(r) \/ Unwind(r) PROVE PlaceInv'
  <2>1. PICK outcome \in {"OK", "ERROR"} : EndSpan(r, outcome)
    BY <1>6 DEF LeaveSpan, Unwind
  <2>2. /\ pc[r] \in {"running", "raising"} /\ Len(stack[r]) # 1
        /\ UNCHANGED <<pc, store, verdict>>
    BY <1>6 DEF LeaveSpan, Unwind, Running, AtRoot
  <2>3. Len(stack[r]) >= 1 /\ Len(stack[r]) \in Nat
    BY <2>2 DEF PlaceInv, TypeOK
  <2>4. Len(stack'[r]) = Len(stack[r]) - 1 /\ Elsewhere(r)
    <3>1. /\ Len(stack'[r]) = Len(stack[r]) - 1
          /\ \A q \in Requests \ {r} : stack'[q] = stack[q] /\ exported'[q] = exported[q]
      BY <2>1, <2>3, EndEffect
    <3>2. QED
      BY <2>2, <3>1 DEF Elsewhere
  <2>5. Len(stack'[r]) >= 1
    <3>1. \A n \in Nat : n >= 1 /\ n # 1 => n - 1 >= 1
      OBVIOUS
    <3>2. QED
      BY <2>2, <2>3, <2>4, <3>1
  <2>6. QED
    BY <2>2, <2>4, <2>5 DEF PlaceInv, Elsewhere
<1>7. ASSUME NEW r \in Requests, Return(r) \/ HandleException(r) PROVE PlaceInv'
  <2>1. /\ Len(stack[r]) = 1 /\ pc'[r] = "responding"
        /\ \A q \in Requests \ {r} : pc'[q] = pc[q]
        /\ UNCHANGED <<store, verdict, stack, exported>>
    BY <1>7 DEF Return, HandleException, AtRoot, Goto, TypeOK, spanVars
  <2>2. QED
    BY <2>1 DEF PlaceInv
<1>8. ASSUME NEW r \in Requests, Raise(r) PROVE PlaceInv'
  <2>1. /\ pc[r] = "running" /\ pc'[r] = "raising"
        /\ \A q \in Requests \ {r} : pc'[q] = pc[q]
        /\ UNCHANGED <<store, verdict, stack, exported>>
    BY <1>8 DEF Raise, Running, Goto, TypeOK, spanVars
  <2>2. QED
    BY <2>1 DEF PlaceInv
<1>9. ASSUME NEW r \in Requests, EscapeMiddleware(r) \/ LeaveRequestSpan(r) PROVE PlaceInv'
  <2>1. PICK outcome \in {"OK", "ERROR"} : EndSpan(r, outcome)
    BY <1>9 DEF EscapeMiddleware, LeaveRequestSpan
  <2>2. /\ Len(stack[r]) = 1 /\ pc'[r] \in {"unhandled", "counting"}
        /\ \A q \in Requests \ {r} : pc'[q] = pc[q]
        /\ UNCHANGED <<store, verdict>>
    BY <1>9 DEF EscapeMiddleware, LeaveRequestSpan, AtRoot, Goto, TypeOK, PlaceInv
  <2>3. Len(stack'[r]) = 0 /\ Elsewhere(r)
    <3>1. Len(stack[r]) >= 1
      BY <2>2
    <3>2. /\ Len(stack'[r]) = Len(stack[r]) - 1
          /\ \A q \in Requests \ {r} : stack'[q] = stack[q] /\ exported'[q] = exported[q]
      BY <2>1, <3>1, EndEffect
    <3>3. QED
      BY <2>2, <3>2 DEF Elsewhere
  <2>4. QED
    BY <2>2, <2>3 DEF PlaceInv, Elsewhere
<1>10. ASSUME NEW r \in Requests, UnhandledException(r) \/ CountRequest(r) PROVE PlaceInv'
  <2>1. /\ pc[r] \in {"unhandled", "counting"} /\ pc'[r] = "answered"
        /\ \A q \in Requests \ {r} : pc'[q] = pc[q]
        /\ UNCHANGED <<store, verdict, stack, exported>>
    BY <1>10 DEF UnhandledException, CountRequest, Goto, TypeOK, spanVars
  <2>2. QED
    BY <2>1 DEF PlaceInv
<1>11. CASE UNCHANGED vars
  BY <1>11 DEF vars, PlaceInv
<1>12. QED
  BY <1>1, <1>2, <1>3, <1>4, <1>5, <1>6, <1>7, <1>8, <1>9, <1>10, <1>11 DEF Next, Handle

\* One store is opened and never replaced, and it is closed between requests.
LEMMA LifespanNext == ProcessInv /\ [Next]_vars => LifespanInv'
<1> SUFFICES ASSUME TypeOK, PlaceInv, LifespanInv, [Next]_vars PROVE LifespanInv'
  BY DEF ProcessInv
<1>1. CASE StartUp
  BY <1>1 DEF StartUp, TypeOK, LifespanInv, requestVars
<1>2. CASE ShutDown
  <2>1. \A r \in Requests : pc[r] # "answered" => verdict[r] = "none"
    BY <1>2 DEF ShutDown, PlaceInv
  <2>2. starts > 0 /\ phase' = "down"
    BY <1>2 DEF ShutDown, LifespanInv, TypeOK
  <2>3. UNCHANGED <<starts, default, created, pc, store, verdict>>
    BY <1>2 DEF ShutDown
  <2>4. \A r \in Requests : pc[r] \in {"new", "answered"}
    BY <1>2 DEF ShutDown
  <2>5. QED
    BY <2>1, <2>2, <2>3, <2>4 DEF LifespanInv, TypeOK
<1>3. ASSUME NEW r \in Requests, Receive(r) PROVE LifespanInv'
  <2>1. /\ phase = "up" /\ UNCHANGED <<phase, starts, default, created, closed, store, verdict>>
        /\ pc[r] = "new" /\ \A q \in Requests \ {r} : pc'[q] = pc[q]
    BY <1>3 DEF Receive, Goto, TypeOK, lifespanVars
  <2>2. verdict[r] # "ready"
    BY <2>1 DEF PlaceInv
  <2>3. QED
    BY <2>1, <2>2 DEF LifespanInv
<1>4. ASSUME NEW r \in Requests, Handle(r) PROVE LifespanInv'
  <2>1. phase = "up" /\ starts > 0 /\ starts \in Nat
    <3>1. pc[r] \notin {"new", "answered"}
      BY <1>4
      DEF Handle, TestDefaultStore, TakeDefaultStore, CheckReadiness, EnterSpan, LeaveSpan,
          Return, Raise, Unwind, HandleException, EscapeMiddleware, UnhandledException,
          LeaveRequestSpan, CountRequest, Running
    <3>2. QED
      BY <3>1, StartsAssumption DEF LifespanInv, TypeOK
  <2>2. CASE TestDefaultStore(r)
    BY <2>1, <2>2 DEF TestDefaultStore, Unasked, LifespanInv, TypeOK, lifespanVars
  <2>3. CASE TakeDefaultStore(r)
    <3>1. store[r] = SawStore
      BY <2>3 DEF TakeDefaultStore, LifespanInv, Unasked, SawNone, SawStore
    <3>2. /\ UNCHANGED <<phase, starts, default, created, closed, pc, verdict>>
          /\ store' = [store EXCEPT ![r] = 1]
      BY <2>1, <2>3, <3>1 DEF TakeDefaultStore, LifespanInv, SawNone, SawStore
    <3>3. QED
      BY <2>1, <3>1, <3>2 DEF LifespanInv, TypeOK
  <2>4. CASE CheckReadiness(r)
    <3>1. store[r] = 1
      BY <2>4
      DEF CheckReadiness, DependenciesResolved, StoreEndpoints, LifespanInv, Unasked, SawStore
    <3>2. UNCHANGED <<phase, starts, default, created, closed, pc, store>>
      BY <2>4 DEF CheckReadiness, lifespanVars
    <3>3. /\ \A q \in Requests \ {r} : verdict'[q] = verdict[q]
          /\ verdict'[r] = "ready" => store[r] \notin closed
      BY <2>4 DEF CheckReadiness, Found, StoreOpen, TypeOK
    <3>4. QED
      BY <2>1, <3>1, <3>2, <3>3 DEF LifespanInv
  <2>5. CASE ~(TestDefaultStore(r) \/ TakeDefaultStore(r) \/ CheckReadiness(r))
    <3>1. UNCHANGED <<phase, starts, default, created, closed, store, verdict>>
      BY <1>4, <2>5
      DEF Handle, EnterSpan, LeaveSpan, Return, Raise, Unwind, HandleException,
          EscapeMiddleware, UnhandledException, LeaveRequestSpan, CountRequest, lifespanVars
    <3>2. pc[r] # "answered" /\ \A q \in Requests \ {r} : pc'[q] = pc[q]
      BY <1>4, <2>5
      DEF Handle, EnterSpan, LeaveSpan, Return, Raise, Unwind, HandleException,
          EscapeMiddleware, UnhandledException, LeaveRequestSpan, CountRequest, Running, Goto,
          TypeOK
    <3>3. QED
      BY <2>1, <3>1, <3>2 DEF LifespanInv
  <2>6. QED
    BY <2>2, <2>3, <2>4, <2>5
<1>5. CASE UNCHANGED vars
  BY <1>5 DEF vars, LifespanInv
<1>6. QED
  BY <1>1, <1>2, <1>3, <1>4, <1>5 DEF Next

\* The first part of the invariant holds throughout.
LEMMA ProcessInvCorrect == Spec => []ProcessInv
<1>1. Init => ProcessInv
  <2>1. Init => PlaceInv
    BY DEF Init, PlaceInv
  <2>2. Init => LifespanInv
    BY DEF Init, LifespanInv, Unasked
  <2>3. QED
    BY <2>1, <2>2, TypeInit DEF ProcessInv
<1>2. ProcessInv /\ [Next]_vars => ProcessInv'
  BY TypeNext, PlaceNext, LifespanNext DEF ProcessInv
<1>3. QED
  BY <1>1, <1>2, PTL DEF Spec

\* The server keeps every variable in its type.
THEOREM TypeCorrect == Spec => []TypeOK
<1>1. ProcessInv => TypeOK
  BY DEF ProcessInv
<1>2. QED
  BY <1>1, ProcessInvCorrect, PTL

\* Created without a lock, the store is yet opened once, and no request of the
\* first lifespan has it closed under it.
THEOREM OneOpenStoreCorrect == Spec => []OneOpenStore
<1>1. ProcessInv => OneOpenStore
  <2> SUFFICES ASSUME ProcessInv PROVE OneOpenStore
    OBVIOUS
  <2>1. created <= 1
    BY StartsAssumption DEF ProcessInv, TypeOK, LifespanInv
  <2>2. ASSUME starts = 1, NEW r \in Requests, pc[r] \notin {"new", "answered"}
        PROVE  StoreOpen(r)
    BY <2>2 DEF ProcessInv, TypeOK, LifespanInv, StoreOpen
  <2>3. QED
    BY <2>1, <2>2 DEF OneOpenStore
<1>2. QED
  BY <1>1, ProcessInvCorrect, PTL

\* A readiness answer is about the very store the next request gets.
THEOREM ReadyTellsTruthCorrect == Spec => []ReadyTellsTruth
<1>1. ProcessInv => ReadyTellsTruth
  BY DEF ProcessInv, LifespanInv, TypeOK, ReadyTellsTruth, Answered, StoreOpen
<1>2. QED
  BY <1>1, ProcessInvCorrect, PTL
-----------------------------------------------------------------------------
(***************************************************************************)
(* The tree of calls.                                                      *)
(***************************************************************************)
\* A step of one request keeps the tree of another.
LEMMA OtherTrees ==
    ASSUME TypeOK, TreeInv, NEW q \in Requests,
           stack'[q] = stack[q], exported'[q] = exported[q], UNCHANGED endpoint,
           current'[Trace(q)] = current[Trace(q)]
    PROVE  /\ \A i \in 1..Len(stack'[q]) :
                  IF i = 1
                    THEN stack'[q][i].parent = NoSpan /\ stack'[q][i].name = Root
                    ELSE /\ stack'[q][i].parent = stack'[q][i - 1].span
                         /\ stack'[q][i].name \in Callees(endpoint'[q], stack'[q][i - 1].name)
           /\ current'[Trace(q)] = IF Len(stack'[q]) = 0 THEN NoSpan ELSE Top(q)'.span
           /\ Len(stack'[q]) > 0 => \A i \in Ends(q)' : exported'[q][i].parent # NoSpan
           /\ \A i \in Ends(q)' :
                  IF exported'[q][i].parent = NoSpan
                    THEN exported'[q][i].name = Root /\ i = Len(exported'[q])
                    ELSE OpenedBy(q, exported[q][i].parent, exported[q][i].name)'
<1>1. \A i \in 1..Len(stack'[q]) :
          IF i = 1
            THEN stack'[q][i].parent = NoSpan /\ stack'[q][i].name = Root
            ELSE /\ stack'[q][i].parent = stack'[q][i - 1].span
                 /\ stack'[q][i].name \in Callees(endpoint'[q], stack'[q][i - 1].name)
  BY DEF TreeInv, ChainInv
<1>2. current'[Trace(q)] = IF Len(stack'[q]) = 0 THEN NoSpan ELSE Top(q)'.span
  BY DEF TreeInv, CurrentInv, Top
<1>3. Len(stack'[q]) > 0 => \A i \in Ends(q)' : exported'[q][i].parent # NoSpan
  BY DEF TreeInv, RootInv, Ends
<1>4. \A i \in Ends(q)' :
          IF exported'[q][i].parent = NoSpan
            THEN exported'[q][i].name = Root /\ i = Len(exported'[q])
            ELSE OpenedBy(q, exported[q][i].parent, exported[q][i].name)'
  BY DEF TreeInv, EndedInv, OpenedBy, Ends
<1>5. QED
  BY <1>1, <1>2, <1>3, <1>4

\* A step that leaves the spans alone keeps all the trees.
LEMMA TreeFrame ==
    ASSUME TreeInv, UNCHANGED <<stack, current, exported, endpoint>>
    PROVE  TreeInv'
  BY DEF TreeInv, ChainInv, CurrentInv, RootInv, EndedInv, OpenedBy, Ends, Top, Trace, FreshTrace

\* Entering the root span of a request, or a span that its innermost open one
\* calls, keeps the trees.
LEMMA TreeStart ==
    ASSUME TypeOK, TreeInv, NEW r \in Requests, NEW name \in SpanNames, StartSpan(r, name),
           UNCHANGED endpoint,
           Len(stack[r]) = 0 => name = Root /\ Len(exported[r]) = 0,
           Len(stack[r]) # 0 => name \in Callees(endpoint[r], Top(r).name)
    PROVE  TreeInv'
<1> DEFINE n == Len(stack[r])
<1>1. n \in Nat /\ Len(stack'[r]) = n + 1 /\ exported' = exported
  BY StartEffect DEF TypeOK
<1>2. /\ \A q \in Requests \ {r} : stack'[q] = stack[q]
      /\ \A t \in TraceIds \ {Trace(r)} : current'[t] = current[t]
  BY StartEffect
<1>3. /\ \A i \in 1..n : /\ stack'[r][i].span = stack[r][i].span
                        /\ stack'[r][i].parent = stack[r][i].parent
                        /\ stack'[r][i].name = stack[r][i].name
      /\ stack'[r][n + 1].span = current'[Trace(r)]
      /\ stack'[r][n + 1].parent = current[Trace(r)]
      /\ stack'[r][n + 1].name = name
  BY StartEffect
<1>4. \A q \in Requests \ {r} : current'[Trace(q)] = current[Trace(q)]
  BY <1>2, Distinct
<1> HIDE DEF n
<1>5. \A i \in 1..(n + 1) :
          IF i = 1
            THEN stack'[r][i].parent = NoSpan /\ stack'[r][i].name = Root
            ELSE /\ stack'[r][i].parent = stack'[r][i - 1].span
                 /\ stack'[r][i].name \in Callees(endpoint'[r], stack'[r][i - 1].name)
  <2>1. ASSUME NEW i \in 1..n
        PROVE  IF i = 1
                 THEN stack'[r][i].parent = NoSpan /\ stack'[r][i].name = Root
                 ELSE /\ stack'[r][i].parent = stack'[r][i - 1].span
                      /\ stack'[r][i].name \in Callees(endpoint'[r], stack'[r][i - 1].name)
    <3>1. IF i = 1
            THEN stack[r][i].parent = NoSpan /\ stack[r][i].name = Root
            ELSE /\ stack[r][i].parent = stack[r][i - 1].span
                 /\ stack[r][i].name \in Callees(endpoint[r], stack[r][i - 1].name)
      BY DEF TreeInv, ChainInv, n
    <3>2. i # 1 => i - 1 \in 1..n
      BY <1>1
    <3>3. QED
      BY <1>3, <3>1, <3>2
  <2>2. CASE n = 0
    <3>1. current[Trace(r)] = NoSpan
      BY <2>2 DEF TreeInv, CurrentInv, n
    <3>2. QED
      BY <1>3, <2>1, <2>2, <3>1 DEF n
  <2>3. CASE n # 0
    <3>1. n \in 1..n /\ n + 1 # 1 /\ n + 1 - 1 = n
      BY <1>1, <2>3
    <3>2. current[Trace(r)] = stack[r][n].span /\ Top(r) = stack[r][n]
      BY <2>3 DEF TreeInv, CurrentInv, Top, n
    <3>3. name \in Callees(endpoint[r], stack[r][n].name)
      BY <2>3, <3>2 DEF n
    <3>4. /\ stack'[r][n + 1].parent = stack'[r][n].span
          /\ stack'[r][n + 1].name \in Callees(endpoint'[r], stack'[r][n].name)
      BY <1>3, <3>1, <3>2, <3>3
    <3>5. \A i \in 1..(n + 1) : i \in 1..n \/ i = n + 1
      BY <1>1
    <3>6. QED
      BY <2>1, <3>1, <3>4, <3>5
  <2>4. QED
    BY <2>2, <2>3
<1>6. ChainInv'
  BY <1>1, <1>2, <1>4, <1>5, OtherTrees DEF ChainInv
<1>7. CurrentInv'
  <2>1. Len(stack'[r]) # 0 /\ Top(r)' = stack'[r][n + 1]
    BY <1>1 DEF Top
  <2>2. current'[Trace(r)] = IF Len(stack'[r]) = 0 THEN NoSpan ELSE Top(r)'.span
    BY <1>3, <2>1
  <2>3. \A q \in Requests \ {r} :
           current'[Trace(q)] = IF Len(stack'[q]) = 0 THEN NoSpan ELSE Top(q)'.span
    BY <1>1, <1>2, <1>4, OtherTrees
  <2>4. \A t \in TraceIds : (\A q \in Requests : Trace(q) # t) => current'[t] = NoSpan
    BY <1>2 DEF TreeInv, CurrentInv
  <2>5. QED
    BY <2>2, <2>3, <2>4 DEF CurrentInv, Trace, FreshTrace
<1>8. \A i \in Ends(r) : exported[r][i].parent # NoSpan
  <2>1. CASE n = 0
    <3>1. Ends(r) = {}
      BY <2>1 DEF Ends, n
    <3>2. QED
      BY <3>1
  <2>2. CASE n # 0
    BY <1>1, <2>2 DEF TreeInv, RootInv, n
  <2>3. QED
    BY <2>1, <2>2
<1>9. RootInv'
  BY <1>1, <1>2, <1>4, <1>8, OtherTrees DEF RootInv, Ends
<1>10. EndedInv'
  <2>1. ASSUME NEW i \in Ends(r)
        PROVE  OpenedBy(r, exported[r][i].parent, exported[r][i].name)'
    <3>1. OpenedBy(r, exported[r][i].parent, exported[r][i].name)
      BY <1>8 DEF TreeInv, EndedInv
    <3>2. CASE \E j \in Ends(r) :
                  /\ exported[r][j].span = exported[r][i].parent
                  /\ exported[r][i].name \in Callees(endpoint[r], exported[r][j].name)
      BY <1>1, <3>2 DEF OpenedBy, Ends
    <3>3. CASE \E j \in 1..n :
                  /\ stack[r][j].span = exported[r][i].parent
                  /\ exported[r][i].name \in Callees(endpoint[r], stack[r][j].name)
      <4>1. PICK j \in 1..n :
                  /\ stack[r][j].span = exported[r][i].parent
                  /\ exported[r][i].name \in Callees(endpoint[r], stack[r][j].name)
        BY <3>3
      <4>2. j \in 1..Len(stack'[r])
        BY <1>1
      <4>3. /\ stack'[r][j].span = exported'[r][i].parent
            /\ exported'[r][i].name \in Callees(endpoint'[r], stack'[r][j].name)
        BY <1>1, <1>3, <4>1
      <4>4. QED
        BY <4>2, <4>3 DEF OpenedBy
    <3>4. QED
      BY <3>1, <3>2, <3>3 DEF OpenedBy, n
  <2>2. \A i \in Ends(r)' :
           IF exported'[r][i].parent = NoSpan
             THEN exported'[r][i].name = Root /\ i = Len(exported'[r])
             ELSE OpenedBy(r, exported[r][i].parent, exported[r][i].name)'
    BY <1>1, <1>8, <2>1 DEF Ends
  <2>3. \A q \in Requests \ {r} : \A i \in Ends(q)' :
           IF exported'[q][i].parent = NoSpan
             THEN exported'[q][i].name = Root /\ i = Len(exported'[q])
             ELSE OpenedBy(q, exported[q][i].parent, exported[q][i].name)'
    BY <1>1, <1>2, <1>4, OtherTrees
  <2>4. QED
    BY <2>2, <2>3 DEF EndedInv
<1>11. QED
  BY <1>6, <1>7, <1>9, <1>10 DEF TreeInv

\* Leaving the innermost open span of a request keeps the trees.
LEMMA TreeEnd ==
    ASSUME TypeOK, TreeInv, NEW r \in Requests, Len(stack[r]) >= 1,
           NEW outcome \in {"OK", "ERROR"}, EndSpan(r, outcome), UNCHANGED endpoint
    PROVE  TreeInv'
<1> DEFINE n == Len(stack[r])
           e == Len(exported[r])
<1>1. /\ n \in Nat /\ n \in 1..n /\ e \in Nat
      /\ Top(r) = stack[r][n] /\ stack[r][n] \in Frame
  <2>1. stack[r] \in Seq(Frame) /\ exported[r] \in Seq(Exported)
    BY DEF TypeOK
  <2>2. QED
    BY <2>1 DEF Top
<1>2. /\ \A q \in Requests \ {r} : stack'[q] = stack[q] /\ exported'[q] = exported[q]
      /\ \A t \in TraceIds \ {Trace(r)} : current'[t] = current[t]
  BY EndEffect
<1>3. /\ Len(stack'[r]) = n - 1
      /\ \A i \in 1..(n - 1) : stack'[r][i] = stack[r][i]
      /\ current'[Trace(r)] = stack[r][n].parent
      /\ Len(exported'[r]) = e + 1
      /\ \A i \in 1..e : exported'[r][i] = exported[r][i]
      /\ exported'[r][e + 1].span = stack[r][n].span
      /\ exported'[r][e + 1].parent = stack[r][n].parent
      /\ exported'[r][e + 1].name = stack[r][n].name
  BY <1>1, EndEffect DEF Ends
<1>4. \A q \in Requests \ {r} : current'[Trace(q)] = current[Trace(q)]
  BY <1>2, Distinct
<1>5. IF n = 1
        THEN stack[r][n].parent = NoSpan /\ stack[r][n].name = Root
        ELSE /\ stack[r][n].parent = stack[r][n - 1].span
             /\ stack[r][n].name \in Callees(endpoint[r], stack[r][n - 1].name)
  BY <1>1 DEF TreeInv, ChainInv
<1>6. n # 1 => n - 1 \in 1..(n - 1) /\ stack[r][n].parent # NoSpan
  <2>1. SUFFICES ASSUME n # 1 PROVE n - 1 \in 1..(n - 1) /\ stack[r][n].parent # NoSpan
    OBVIOUS
  <2>2. stack[r] \in Seq(Frame)
    BY DEF TypeOK
  <2> HIDE DEF n
  <2>3. n - 1 \in 1..(n - 1) /\ n - 1 \in 1..n
    BY <1>1, <2>1
  <2>4. stack[r][n - 1] \in Frame
    BY <2>2, <2>3 DEF n
  <2>5. stack[r][n - 1].span \in SpanIds
    BY <2>4 DEF Frame
  <2>6. QED
    BY <1>5, <2>1, <2>3, <2>5, Distinct
<1>7. \A i \in 1..e : exported[r][i].parent # NoSpan
  BY <1>1 DEF TreeInv, RootInv, Ends
<1> HIDE DEF n, e
<1>8. ChainInv'
  <2>1. ASSUME NEW i \in 1..(n - 1)
        PROVE  IF i = 1
                 THEN stack'[r][i].parent = NoSpan /\ stack'[r][i].name = Root
                 ELSE /\ stack'[r][i].parent = stack'[r][i - 1].span
                      /\ stack'[r][i].name \in Callees(endpoint'[r], stack'[r][i - 1].name)
    <3>1. i \in 1..Len(stack[r]) /\ (i # 1 => i - 1 \in 1..(n - 1))
      BY <1>1 DEF n
    <3>2. IF i = 1
            THEN stack[r][i].parent = NoSpan /\ stack[r][i].name = Root
            ELSE /\ stack[r][i].parent = stack[r][i - 1].span
                 /\ stack[r][i].name \in Callees(endpoint[r], stack[r][i - 1].name)
      BY <3>1 DEF TreeInv, ChainInv
    <3>3. QED
      BY <1>3, <3>1, <3>2
  <2>2. QED
    BY <1>2, <1>3, <1>4, <2>1, OtherTrees DEF ChainInv
<1>9. CurrentInv'
  <2>1. current'[Trace(r)] = IF Len(stack'[r]) = 0 THEN NoSpan ELSE Top(r)'.span
    <3>1. CASE n = 1
      BY <1>3, <1>5, <3>1
    <3>2. CASE n # 1
      <4>1. Len(stack'[r]) # 0
        BY <1>1, <1>3, <3>2
      <4>2. Top(r)' = stack[r][n - 1]
        BY <1>3, <1>6, <3>2 DEF Top
      <4>3. QED
        BY <1>3, <1>5, <3>2, <4>1, <4>2
    <3>3. QED
      BY <3>1, <3>2
  <2>2. \A q \in Requests \ {r} :
           current'[Trace(q)] = IF Len(stack'[q]) = 0 THEN NoSpan ELSE Top(q)'.span
    BY <1>2, <1>4, OtherTrees
  <2>3. \A t \in TraceIds : (\A q \in Requests : Trace(q) # t) => current'[t] = NoSpan
    BY <1>2 DEF TreeInv, CurrentInv
  <2>4. QED
    BY <2>1, <2>2, <2>3 DEF CurrentInv, Trace, FreshTrace
<1>10. \A i \in 1..(e + 1) : i \in 1..e \/ i = e + 1
  BY <1>1
<1>11. RootInv'
  <2>1. Len(stack'[r]) > 0 => \A i \in 1..(e + 1) : exported'[r][i].parent # NoSpan
    BY <1>1, <1>3, <1>6, <1>7, <1>10
  <2>2. QED
    BY <1>2, <1>3, <1>4, <2>1, OtherTrees DEF RootInv, Ends
<1>12. EndedInv'
  <2>1. ASSUME NEW i \in 1..e
        PROVE  OpenedBy(r, exported[r][i].parent, exported[r][i].name)'
    <3>1. OpenedBy(r, exported[r][i].parent, exported[r][i].name)
      BY <1>7 DEF TreeInv, EndedInv, Ends, e
    <3>2. exported'[r][i] = exported[r][i]
      BY <1>3
    <3>3. CASE \E j \in 1..e :
                  /\ exported[r][j].span = exported[r][i].parent
                  /\ exported[r][i].name \in Callees(endpoint[r], exported[r][j].name)
      <4>1. PICK j \in 1..e :
                  /\ exported[r][j].span = exported[r][i].parent
                  /\ exported[r][i].name \in Callees(endpoint[r], exported[r][j].name)
        BY <3>3
      <4>2. j \in Ends(r)' /\ exported'[r][j] = exported[r][j]
        BY <1>1, <1>3 DEF Ends
      <4>3. QED
        BY <3>2, <4>1, <4>2 DEF OpenedBy
    <3>4. CASE \E j \in 1..n :
                  /\ stack[r][j].span = exported[r][i].parent
                  /\ exported[r][i].name \in Callees(endpoint[r], stack[r][j].name)
      <4>1. PICK j \in 1..n :
                  /\ stack[r][j].span = exported[r][i].parent
                  /\ exported[r][i].name \in Callees(endpoint[r], stack[r][j].name)
        BY <3>4
      <4>2. CASE j = n
        <5>1. e + 1 \in Ends(r)'
          BY <1>1, <1>3 DEF Ends
        <5>2. /\ exported'[r][e + 1].span = exported'[r][i].parent
              /\ exported'[r][i].name \in Callees(endpoint'[r], exported'[r][e + 1].name)
          BY <1>3, <3>2, <4>1, <4>2
        <5>3. QED
          BY <5>1, <5>2 DEF OpenedBy
      <4>3. CASE j # n
        <5>1. j \in 1..(n - 1) /\ j \in 1..Len(stack'[r])
          BY <1>1, <1>3, <4>3
        <5>2. /\ stack'[r][j].span = exported'[r][i].parent
              /\ exported'[r][i].name \in Callees(endpoint'[r], stack'[r][j].name)
          BY <1>3, <3>2, <4>1, <5>1
        <5>3. QED
          BY <5>1, <5>2 DEF OpenedBy
      <4>4. QED
        BY <4>2, <4>3
    <3>5. QED
      BY <3>1, <3>3, <3>4 DEF OpenedBy, Ends, n, e
  <2>2. ASSUME NEW k \in Nat, k = e + 1
        PROVE  IF exported'[r][k].parent = NoSpan
                 THEN exported'[r][k].name = Root
                 ELSE OpenedBy(r, exported[r][k].parent, exported[r][k].name)'
    <3>1. CASE n = 1
      BY <1>3, <1>5, <2>2, <3>1
    <3>2. CASE n # 1
      <4>1. n - 1 \in 1..Len(stack'[r]) /\ stack'[r][n - 1] = stack[r][n - 1]
        BY <1>3, <1>6, <3>2
      <4>2. /\ stack'[r][n - 1].span = exported'[r][k].parent
            /\ exported'[r][k].name \in Callees(endpoint'[r], stack'[r][n - 1].name)
        BY <1>3, <1>5, <2>2, <3>2, <4>1
      <4>3. OpenedBy(r, exported[r][k].parent, exported[r][k].name)'
        BY <4>1, <4>2 DEF OpenedBy
      <4>4. QED
        BY <1>3, <1>6, <2>2, <3>2, <4>3
    <3>3. QED
      BY <3>1, <3>2
  <2>3. \A i \in 1..(e + 1) :
           IF exported'[r][i].parent = NoSpan
             THEN exported'[r][i].name = Root /\ i = Len(exported'[r])
             ELSE OpenedBy(r, exported[r][i].parent, exported[r][i].name)'
    <3>1. ASSUME NEW i \in 1..e PROVE exported'[r][i].parent # NoSpan
      BY <1>3, <1>7
    <3>2. e + 1 \in Nat
      BY <1>1
    <3>3. QED
      BY <1>3, <1>10, <2>1, <2>2, <3>1, <3>2
  <2>4. \A q \in Requests \ {r} : \A i \in Ends(q)' :
           IF exported'[q][i].parent = NoSpan
             THEN exported'[q][i].name = Root /\ i = Len(exported'[q])
             ELSE OpenedBy(q, exported[q][i].parent, exported[q][i].name)'
    BY <1>2, <1>4, OtherTrees
  <2>5. QED
    BY <1>3, <2>3, <2>4 DEF EndedInv, Ends
<1>13. QED
  BY <1>8, <1>9, <1>11, <1>12 DEF TreeInv

\* Every step keeps the trees.
LEMMA TreeNext == ProcessInv /\ TreeInv /\ [Next]_vars => TreeInv'
<1> SUFFICES ASSUME ProcessInv, TypeOK, PlaceInv, TreeInv, [Next]_vars PROVE TreeInv'
  BY DEF ProcessInv
<1>1. CASE StartUp \/ ShutDown
  BY <1>1, TreeFrame DEF StartUp, ShutDown, requestVars, spanVars
<1>2. ASSUME NEW r \in Requests, Receive(r) PROVE TreeInv'
  <2>1. /\ Root \in SpanNames /\ StartSpan(r, Root) /\ UNCHANGED endpoint
        /\ Len(stack[r]) = 0 /\ Len(exported[r]) = 0
    BY <1>2 DEF Receive, SpanNames, requestVars, PlaceInv
  <2>2. QED
    BY <2>1, TreeStart
<1>3. ASSUME NEW r \in Requests, EnterSpan(r) PROVE TreeInv'
  <2> DEFINE name == Calls(endpoint[r], Top(r).name)[Top(r).calls + 1]
  <2>1. /\ name \in SpanNames /\ StartSpan(r, name) /\ UNCHANGED endpoint
        /\ name \in Callees(endpoint[r], Top(r).name)
    BY <1>3, EnteredName DEF EnterSpan, requestVars
  <2>2. Len(stack[r]) # 0
    BY <1>3, EnteredName
  <2> HIDE DEF name
  <2>3. QED
    BY <2>1, <2>2, TreeStart
<1>4. ASSUME NEW r \in Requests,
             LeaveSpan(r) \/ Unwind(r) \/ EscapeMiddleware(r) \/ LeaveRequestSpan(r)
      PROVE  TreeInv'
  <2>1. PICK outcome \in {"OK", "ERROR"} : EndSpan(r, outcome)
    BY <1>4 DEF LeaveSpan, Unwind, EscapeMiddleware, LeaveRequestSpan
  <2>2. UNCHANGED endpoint
    BY <1>4 DEF LeaveSpan, Unwind, EscapeMiddleware, LeaveRequestSpan, requestVars
  <2>3. Len(stack[r]) >= 1
    BY <1>4 DEF LeaveSpan, Unwind, EscapeMiddleware, LeaveRequestSpan, Running, PlaceInv
  <2>4. QED
    BY <2>1, <2>2, <2>3, TreeEnd
<1>5. ASSUME NEW r \in Requests,
             \/ TestDefaultStore(r) \/ TakeDefaultStore(r) \/ CheckReadiness(r)
             \/ Return(r) \/ Raise(r) \/ HandleException(r)
             \/ UnhandledException(r) \/ CountRequest(r)
      PROVE  TreeInv'
  BY <1>5, TreeFrame
  DEF TestDefaultStore, TakeDefaultStore, CheckReadiness, Return, Raise, HandleException,
      UnhandledException, CountRequest, requestVars, spanVars
<1>6. CASE UNCHANGED vars
  BY <1>6, TreeFrame DEF vars
<1>7. QED
  BY <1>1, <1>2, <1>3, <1>4, <1>5, <1>6 DEF Next, Handle

\* The trees are sound throughout.
LEMMA TreeInvCorrect == Spec => []TreeInv
<1>1. Init => TreeInv
  <2> SUFFICES ASSUME Init PROVE TreeInv
    OBVIOUS
  <2>1. \A r \in Requests : Len(stack[r]) = 0 /\ Len(exported[r]) = 0
    BY DEF Init
  <2>2. \A t \in TraceIds : current[t] = NoSpan
    BY DEF Init
  <2>3. CurrentInv
    BY <2>1, <2>2, Distinct DEF CurrentInv
  <2>4. ChainInv /\ RootInv /\ EndedInv
    BY <2>1 DEF ChainInv, RootInv, EndedInv, Ends
  <2>5. QED
    BY <2>3, <2>4 DEF TreeInv
<1>2. QED
  BY <1>1, ProcessInvCorrect, TreeNext, PTL DEF Spec

\* However requests overlap, the spans of each are the tree of its own calls.
THEOREM SpansFormCallTreeCorrect == Spec => []SpansFormCallTree
<1>1. TreeInv => SpansFormCallTree
  <2> SUFFICES ASSUME TreeInv, NEW r \in Requests, NEW i \in Ends(r)
               PROVE  IF exported[r][i].parent = NoSpan
                        THEN exported[r][i].name = Root /\ i = Len(exported[r])
                        ELSE \E p \in SpansOf(r) :
                                 /\ p.span = exported[r][i].parent
                                 /\ exported[r][i].name \in Callees(endpoint[r], p.name)
    BY DEF SpansFormCallTree
  <2>1. CASE exported[r][i].parent = NoSpan
    BY <2>1 DEF TreeInv, EndedInv
  <2>2. CASE exported[r][i].parent # NoSpan
    <3>1. OpenedBy(r, exported[r][i].parent, exported[r][i].name)
      BY <2>2 DEF TreeInv, EndedInv
    <3>2. ASSUME NEW j \in Ends(r), exported[r][j].span = exported[r][i].parent,
                 exported[r][i].name \in Callees(endpoint[r], exported[r][j].name)
          PROVE  \E p \in SpansOf(r) :
                     /\ p.span = exported[r][i].parent
                     /\ exported[r][i].name \in Callees(endpoint[r], p.name)
      <4>1. [span |-> exported[r][j].span, name |-> exported[r][j].name] \in SpansOf(r)
        BY DEF SpansOf
      <4>2. QED
        BY <3>2, <4>1
    <3>3. ASSUME NEW j \in 1..Len(stack[r]), stack[r][j].span = exported[r][i].parent,
                 exported[r][i].name \in Callees(endpoint[r], stack[r][j].name)
          PROVE  \E p \in SpansOf(r) :
                     /\ p.span = exported[r][i].parent
                     /\ exported[r][i].name \in Callees(endpoint[r], p.name)
      <4>1. [span |-> stack[r][j].span, name |-> stack[r][j].name] \in SpansOf(r)
        BY DEF SpansOf
      <4>2. QED
        BY <3>3, <4>1
    <3>4. QED
      BY <2>2, <3>1, <3>2, <3>3 DEF OpenedBy
  <2>3. QED
    BY <2>1, <2>2
<1>2. QED
  BY <1>1, TreeInvCorrect, PTL

\* No way out of a span leaves its trace behind in _current_span_id.
THEOREM NoTraceLeakCorrect == Spec => []NoTraceLeak
<1>1. TreeInv => NoTraceLeak
  <2> SUFFICES ASSUME TreeInv, NEW t \in TraceIds, current[t] # NoSpan
               PROVE  \E r \in Requests : Trace(r) = t /\ stack[r] # <<>>
    BY DEF NoTraceLeak
  <2>1. PICK r \in Requests : Trace(r) = t
    BY DEF TreeInv, CurrentInv
  <2>2. Len(stack[r]) # 0
    BY <2>1 DEF TreeInv, CurrentInv
  <2>3. QED
    BY <2>1, <2>2
<1>2. QED
  BY <1>1, TreeInvCorrect, PTL
-----------------------------------------------------------------------------
(***************************************************************************)
(* What the outcomes of the spans and the counters say.  The inductive     *)
(* invariant follows each body through its calls: how many have returned,  *)
(* which one is open, and that their span ids are told apart.              *)
(***************************************************************************)
\* The calls in the body of the i-th open span of r that have ended.
Returned(r, i) ==
    IF i < Len(stack[r]) THEN stack[r][i].calls - 1 ELSE stack[r][i].calls

\* The ids of a request's spans are its first ones, and no open span has the id
\* of another, open or ended.
Used(r) == {<<r, k>> : k \in 1..Opened(r)}

IdsOK(r) ==
    /\ \A i \in 1..Len(stack[r]) : stack[r][i].span \in Used(r)
    /\ \A i \in Ends(r) : /\ exported[r][i].span \in Used(r)
                          /\ exported[r][i].parent \in Used(r) \cup {NoSpan}
    /\ \A i, j \in 1..Len(stack[r]) : i # j => stack[r][i].span # stack[r][j].span
    /\ \A i \in 1..Len(stack[r]), j \in Ends(r) : stack[r][i].span # exported[r][j].span

\* An open span has made the first of its body's calls; the ended children are
\* those that have returned, and the span above it is the call under way.
BodiesOK(r) ==
    \A i \in 1..Len(stack[r]) :
        /\ stack[r][i].calls <= Len(Calls(endpoint[r], stack[r][i].name))
        /\ Cardinality(Children(r, stack[r][i].span)) = Returned(r, i)
        /\ i < Len(stack[r]) =>
              /\ stack[r][i].calls >= 1
              /\ stack[r][i + 1].name
                     = Calls(endpoint[r], stack[r][i].name)[stack[r][i].calls]

\* A span below the root that ended OK made every call, and they ended OK.
DoneOK(r) ==
    \A i \in Ends(r) :
        exported[r][i].name # Root /\ exported[r][i].outcome = "OK" =>
            /\ Cardinality(Children(r, exported[r][i].span))
                   = Len(Calls(endpoint[r], exported[r][i].name))
            /\ \A j \in Children(r, exported[r][i].span) : exported[r][j].outcome = "OK"

\* Where the request is tells what its ended spans may be.
AnswerOK(r) ==
    /\ pc[r] \in {"responding", "counting"} => status[r] # 500
    /\ \A i \in Ends(r) : exported[r][i].outcome = "ERROR" =>
          \/ pc[r] \in {"raising", "unhandled"}
          \/ pc[r] \in {"responding", "counting", "answered"} /\ status[r] >= 400
    /\ \A i \in Ends(r) : exported[r][i].name = Root =>
          /\ pc[r] \in {"unhandled", "counting", "answered"}
          /\ exported[r][i].outcome = "ERROR" <=>
                 pc[r] = "unhandled" \/ (Answered(r) /\ status[r] = 500)

EndedAs(r, name, outcome) ==
    \E i \in Ends(r) : exported[r][i].name = name /\ exported[r][i].outcome = outcome
Decided(r) == EndedAs(r, "decision_policy.assess", "OK")
ReviewOpened(r) == EndedAs(r, "review.open", "OK")

\* A request decides before it opens a review, and opens one once.
OrderOK(r) ==
    /\ pc[r] = "running" => \A i \in 1..Len(stack[r]) :
          \/ stack[r][i].name = "service.verify_case" /\ Returned(r, i) = Documents + 4
          \/ i = 1 /\ endpoint[r] = "open" /\ Returned(r, i) >= 1
          => Decided(r)
    /\ ReviewOpened(r) => Decided(r)
    /\ (\E i \in Ends(r) : exported[r][i].name = "review.open") =>
          Len(stack[r]) = 0 \/ Returned(r, 1) >= 2

RequestOK(r) == IdsOK(r) /\ BodiesOK(r) /\ DoneOK(r) /\ AnswerOK(r) /\ OrderOK(r)
RequestInv == \A r \in Requests : RequestOK(r)

\* Each counter is the size of a set that starts empty and gains one member with
\* each increment.  Reviews are compared with decisions through the requests.
Counted == {r \in Requests : Answered(r) /\ status[r] # 500}
Failed == {r \in Requests : Answered(r) /\ status[r] >= 400}
Decisions == Those("decision_policy.assess", "OK")
ProviderFailures == Those("document_intelligence.extract", "ERROR")
Enders(name, outcome) == {r \in Requests : EndedAs(r, name, outcome)}
Deciders == Enders("decision_policy.assess", "OK")
ReviewOpeners == Enders("review.open", "OK")

AnswersCounted ==
    /\ IsFiniteSet(Counted) /\ metrics["requests"] = Cardinality(Counted)
    /\ IsFiniteSet(Failed) /\ metrics["errors"] = Cardinality(Failed)

SpansCounted ==
    /\ IsFiniteSet(Decisions) /\ metrics["decisions"] = Cardinality(Decisions)
    /\ IsFiniteSet(ProviderFailures)
    /\ metrics["provider_failures"] = Cardinality(ProviderFailures)
    /\ IsFiniteSet(Deciders) /\ Cardinality(Deciders) <= metrics["decisions"]
    /\ IsFiniteSet(ReviewOpeners) /\ metrics["reviews"] <= Cardinality(ReviewOpeners)

CountersInv == AnswersCounted /\ SpansCounted

-----------------------------------------------------------------------------
\* A step that leaves a request alone leaves what is known of it.
LEMMA RequestUntouched ==
    ASSUME NEW r \in Requests, RequestOK(r), UNCHANGED endpoint,
           stack'[r] = stack[r], exported'[r] = exported[r], pc'[r] = pc[r],
           status'[r] = status[r]
    PROVE  RequestOK(r)'
<1>1. IdsOK(r)'
  BY DEF RequestOK, IdsOK, Ends, Used, Opened
<1>2. BodiesOK(r)'
  BY DEF RequestOK, BodiesOK, Children, Ends, Returned
<1>3. DoneOK(r)'
  <2>1. \A i : Children(r, exported[r][i].span)' = Children(r, exported[r][i].span)
    BY DEF Children, Ends
  <2>2. Ends(r)' = Ends(r)
    BY DEF Ends
  <2>3. QED
    BY <2>1, <2>2 DEF RequestOK, DoneOK
<1>4. AnswerOK(r)'
  BY DEF RequestOK, AnswerOK, Ends, Answered
<1>5. OrderOK(r)'
  BY DEF RequestOK, OrderOK, Ends, Returned, Decided, ReviewOpened, EndedAs
<1>6. QED
  BY <1>1, <1>2, <1>3, <1>4, <1>5 DEF RequestOK

\* Depths and lengths are numbers, and the innermost frame is the last.
LEMMA Depths ==
    ASSUME TypeOK, NEW r \in Requests
    PROVE  /\ Len(stack[r]) \in Nat /\ Len(exported[r]) \in Nat
           /\ Opened(r) = Len(exported[r]) + Len(stack[r])
           /\ \A i \in 1..Len(stack[r]) :
                 /\ stack[r][i].calls \in Nat /\ stack[r][i].span \in SpanIds
                 /\ stack[r][i].name \in SpanNames
           /\ \A i \in 1..Len(exported[r]) :
                 /\ exported[r][i].span \in SpanIds
                 /\ exported[r][i].outcome \in {"OK", "ERROR"}
<1>1. stack[r] \in Seq(Frame) /\ exported[r] \in Seq(Exported)
  BY DEF TypeOK
<1>2. ASSUME NEW i \in 1..Len(stack[r])
      PROVE  /\ stack[r][i].calls \in Nat /\ stack[r][i].span \in SpanIds
             /\ stack[r][i].name \in SpanNames
  <2>1. stack[r][i] \in Frame
    BY <1>1
  <2>2. QED
    BY <2>1 DEF Frame
<1>3. ASSUME NEW i \in 1..Len(exported[r])
      PROVE  exported[r][i].span \in SpanIds /\ exported[r][i].outcome \in {"OK", "ERROR"}
  <2>1. exported[r][i] \in Exported
    BY <1>1
  <2>2. QED
    BY <2>1 DEF Exported
<1>4. QED
  BY <1>1, <1>2, <1>3 DEF Opened

\* Opening a span takes the next id; ending one takes none.
LEMMA UsedStart ==
    ASSUME TypeOK, NEW r \in Requests, NEW name \in SpanNames, StartSpan(r, name)
    PROVE  /\ Used(r)' = Used(r) \cup {<<r, Opened(r) + 1>>}
           /\ <<r, Opened(r) + 1>> \notin Used(r) /\ <<r, Opened(r) + 1>> # NoSpan
<1>1. /\ Opened(r)' = Len(exported[r]) + (Len(stack[r]) + 1)
      /\ Opened(r) = Len(exported[r]) + Len(stack[r])
      /\ Len(exported[r]) \in Nat /\ Len(stack[r]) \in Nat
  BY Depths, StartEffect DEF Opened
<1>2. Opened(r)' = Opened(r) + 1 /\ Opened(r) \in Nat
  <2>1. \A m, n \in Nat : m + (n + 1) = (m + n) + 1 /\ m + n \in Nat
    OBVIOUS
  <2>2. QED
    BY <1>1, <2>1
<1> DEFINE o == Opened(r)
<1> HIDE DEF o
<1>3. o \in Nat => 1..(o + 1) = 1..o \cup {o + 1} /\ o + 1 \notin 1..o
  OBVIOUS
<1>4. Used(r)' = {<<r, k>> : k \in 1..(o + 1)} /\ Used(r) = {<<r, k>> : k \in 1..o} /\ o \in Nat
  BY <1>2 DEF Used, o
<1>5. <<r, o + 1>> \in SpanIds
  BY <1>4 DEF SpanIds
<1>6. {<<r, k>> : k \in 1..(o + 1)} = {<<r, k>> : k \in 1..o} \cup {<<r, o + 1>>}
  <2>1. ASSUME NEW S, NEW x
        PROVE  {<<r, k>> : k \in S \cup {x}} = {<<r, k>> : k \in S} \cup {<<r, x>>}
    OBVIOUS
  <2>2. QED
    BY <1>3, <1>4, <2>1
<1>7. <<r, o + 1>> \notin {<<r, k>> : k \in 1..o}
  BY <1>3, <1>4
<1>8. <<r, o + 1>> # NoSpan
  BY <1>5, Distinct
<1>9. QED
  BY <1>4, <1>6, <1>7, <1>8 DEF o

\* A new span has an id of its own.
LEMMA IdsStart ==
    ASSUME TypeOK, NEW r \in Requests, IdsOK(r), NEW name \in SpanNames, StartSpan(r, name)
    PROVE  IdsOK(r)'
<1> DEFINE n == Len(stack[r])
           id == <<r, Opened(r) + 1>>
<1>1. /\ n \in Nat /\ Len(stack'[r]) = n + 1 /\ exported' = exported
      /\ \A i \in 1..n : stack'[r][i].span = stack[r][i].span
      /\ stack'[r][n + 1].span = id
  BY Depths, StartEffect
<1>2. Used(r)' = Used(r) \cup {id} /\ id \notin Used(r)
  BY UsedStart
<1>3. /\ \A i \in 1..n : stack[r][i].span \in Used(r)
      /\ \A i \in Ends(r) : /\ exported[r][i].span \in Used(r)
                            /\ exported[r][i].parent \in Used(r) \cup {NoSpan}
      /\ \A i, j \in 1..n : i # j => stack[r][i].span # stack[r][j].span
      /\ \A i \in 1..n, j \in Ends(r) : stack[r][i].span # exported[r][j].span
  BY DEF IdsOK
<1>4. Ends(r)' = Ends(r)
  BY <1>1 DEF Ends
<1> HIDE DEF n, id
<1>5. \A i \in 1..(n + 1) : i \in 1..n \/ i = n + 1
  BY <1>1
<1>6. \A i \in 1..(n + 1) : /\ stack'[r][i].span \in Used(r) \cup {id}
                            /\ \A j \in Ends(r) : stack'[r][i].span # exported[r][j].span
  BY <1>1, <1>2, <1>3, <1>5
<1>7. ASSUME NEW i \in 1..(n + 1), NEW j \in 1..(n + 1), i # j
      PROVE  stack'[r][i].span # stack'[r][j].span
  <2>1. CASE i \in 1..n /\ j \in 1..n
    BY <1>1, <1>3, <1>7, <2>1
  <2>2. CASE i = n + 1 /\ j \in 1..n
    BY <1>1, <1>2, <1>3, <2>2
  <2>3. CASE j = n + 1 /\ i \in 1..n
    BY <1>1, <1>2, <1>3, <2>3
  <2>4. QED
    BY <1>5, <1>7, <2>1, <2>2, <2>3
<1>8. \A i \in Ends(r) : /\ exported[r][i].span \in Used(r) \cup {id}
                         /\ exported[r][i].parent \in Used(r) \cup {id} \cup {NoSpan}
  BY <1>3
<1>9. QED
  BY <1>1, <1>2, <1>4, <1>6, <1>7, <1>8 DEF IdsOK

\* The parent of the innermost open span is the span below it.
LEMMA ParentOfTop ==
    ASSUME TypeOK, TreeInv, NEW r \in Requests, Len(stack[r]) >= 1
    PROVE  /\ Top(r) = stack[r][Len(stack[r])] /\ Len(stack[r]) \in 1..Len(stack[r])
           /\ Len(stack[r]) = 1 => Top(r).parent = NoSpan /\ Top(r).name = Root
           /\ Len(stack[r]) # 1 =>
                 /\ Len(stack[r]) - 1 \in 1..Len(stack[r])
                 /\ Top(r).parent = stack[r][Len(stack[r]) - 1].span
                 /\ Top(r).name \in Callees(endpoint[r], stack[r][Len(stack[r]) - 1].name)
<1> DEFINE n == Len(stack[r])
<1>1. n \in Nat /\ n >= 1 /\ Top(r) = stack[r][n]
  BY Depths DEF Top
<1>2. n \in 1..n /\ (n # 1 => n - 1 \in 1..n)
  <2> HIDE DEF n
  <2>1. QED
    BY <1>1
<1>3. QED
  BY <1>1, <1>2 DEF TreeInv, ChainInv

\* A span that ends keeps its id, and its parent is an open one.
LEMMA IdsEnd ==
    ASSUME TypeOK, TreeInv, NEW r \in Requests, IdsOK(r), Len(stack[r]) >= 1,
           NEW outcome \in {"OK", "ERROR"}, EndSpan(r, outcome)
    PROVE  IdsOK(r)'
<1> DEFINE n == Len(stack[r])
           e == Len(exported[r])
<1>1. /\ n \in Nat /\ n >= 1 /\ e \in Nat /\ Opened(r) = e + n
      /\ Len(stack'[r]) = n - 1 /\ Len(exported'[r]) = e + 1
      /\ \A i \in 1..(n - 1) : stack'[r][i] = stack[r][i]
      /\ \A i \in 1..e : exported'[r][i] = exported[r][i]
      /\ exported'[r][e + 1].span = stack[r][n].span
      /\ exported'[r][e + 1].parent = stack[r][n].parent
  BY Depths, EndEffect DEF Top, Ends
<1>2. stack[r][n].parent = IF n = 1 THEN NoSpan ELSE stack[r][n - 1].span
  BY <1>1, ParentOfTop
<1>3. Opened(r)' = Opened(r)
  <2>1. Opened(r)' = (e + 1) + (n - 1)
    BY <1>1 DEF Opened
  <2> HIDE DEF n, e
  <2>2. (e + 1) + (n - 1) = e + n
    BY <1>1
  <2>3. QED
    BY <1>1, <2>1, <2>2
<1>4. Used(r)' = Used(r) /\ Ends(r)' = 1..(e + 1) /\ Ends(r) = 1..e
  BY <1>1, <1>3 DEF Used, Ends
<1>5. /\ \A i \in 1..n : stack[r][i].span \in Used(r)
      /\ \A i \in 1..e : /\ exported[r][i].span \in Used(r)
                         /\ exported[r][i].parent \in Used(r) \cup {NoSpan}
      /\ \A i, j \in 1..n : i # j => stack[r][i].span # stack[r][j].span
      /\ \A i \in 1..n, j \in 1..e : stack[r][i].span # exported[r][j].span
  BY DEF IdsOK, Ends
<1> HIDE DEF n, e
<1>6. /\ n \in 1..n /\ (n # 1 => n - 1 \in 1..n)
      /\ \A i \in 1..(n - 1) : i \in 1..n /\ i # n
      /\ \A i \in 1..(e + 1) : i \in 1..e \/ i = e + 1
  BY <1>1
<1>7. stack[r][n].parent \in Used(r) \cup {NoSpan}
  BY <1>2, <1>5, <1>6
<1>8. \A i \in 1..(e + 1) : /\ exported'[r][i].span \in Used(r)
                            /\ exported'[r][i].parent \in Used(r) \cup {NoSpan}
  BY <1>1, <1>5, <1>6, <1>7
<1>9. ASSUME NEW i \in 1..(n - 1)
      PROVE  /\ stack'[r][i].span \in Used(r)
             /\ \A j \in 1..(n - 1) : i # j => stack'[r][i].span # stack'[r][j].span
  <2>1. i \in 1..n /\ stack'[r][i] = stack[r][i]
    BY <1>1, <1>6
  <2>2. ASSUME NEW j \in 1..(n - 1), i # j PROVE stack'[r][i].span # stack'[r][j].span
    <3>1. j \in 1..n /\ stack'[r][j] = stack[r][j]
      BY <1>1, <1>6
    <3>2. QED
      BY <1>5, <2>1, <2>2, <3>1
  <2>3. QED
    BY <1>5, <2>1, <2>2
<1>10. \A i \in 1..(n - 1), j \in 1..(e + 1) : stack'[r][i].span # exported'[r][j].span
  <2>1. ASSUME NEW i \in 1..(n - 1), NEW j \in 1..e PROVE stack'[r][i].span # exported'[r][j].span
    <3>1. i \in 1..n /\ stack'[r][i] = stack[r][i] /\ exported'[r][j] = exported[r][j]
      BY <1>1, <1>6
    <3>2. QED
      BY <1>5, <3>1
  <2>2. ASSUME NEW i \in 1..(n - 1) PROVE stack'[r][i].span # exported'[r][e + 1].span
    <3>1. i \in 1..n /\ i # n /\ stack'[r][i] = stack[r][i]
      BY <1>1, <1>6
    <3>2. QED
      BY <1>1, <1>5, <1>6, <3>1
  <2>3. QED
    BY <1>6, <2>1, <2>2
<1>11. QED
  BY <1>1, <1>4, <1>8, <1>9, <1>10 DEF IdsOK

-----------------------------------------------------------------------------
(***************************************************************************)
(* The bodies of the open spans.                                           *)
(***************************************************************************)
\* The children of span, and the calls of a body that have ended, after a step.
NextChildren(r, span) == {i \in 1..Len(exported'[r]) : exported'[r][i].parent = span}
NextReturned(r, i) ==
    IF i < Len(stack'[r]) THEN stack'[r][i].calls - 1 ELSE stack'[r][i].calls

\* Children are finitely many, and ending a span gives its parent one more.
LEMMA ChildrenEnd ==
    ASSUME TypeOK, NEW r \in Requests, Len(stack[r]) >= 1,
           NEW outcome \in {"OK", "ERROR"}, EndSpan(r, outcome), NEW span
    PROVE  /\ span # Top(r).parent => NextChildren(r, span) = Children(r, span)
           /\ span = Top(r).parent =>
                 /\ NextChildren(r, span) = Children(r, span) \cup {Len(exported[r]) + 1}
                 /\ Cardinality(NextChildren(r, span)) = Cardinality(Children(r, span)) + 1
<1> DEFINE e == Len(exported[r])
<1>1. /\ e \in Nat /\ Len(exported'[r]) = e + 1
      /\ \A i \in 1..e : exported'[r][i] = exported[r][i]
      /\ exported'[r][e + 1].parent = Top(r).parent
  BY Depths, EndEffect DEF Ends
<1>2. Children(r, span) = {i \in 1..e : exported[r][i].parent = span}
  BY DEF Children, Ends
<1>3. NextChildren(r, span) = {i \in 1..(e + 1) : exported'[r][i].parent = span}
  BY <1>1 DEF NextChildren
<1> HIDE DEF e
<1>4. 1..(e + 1) = 1..e \cup {e + 1} /\ e + 1 \notin 1..e
  BY <1>1
<1>5. span # Top(r).parent => NextChildren(r, span) = Children(r, span)
  BY <1>1, <1>2, <1>3, <1>4
<1>6. span = Top(r).parent => NextChildren(r, span) = Children(r, span) \cup {e + 1}
  BY <1>1, <1>2, <1>3, <1>4
<1>7. IsFiniteSet(Children(r, span)) /\ e + 1 \notin Children(r, span)
  <2>1. IsFiniteSet(1..e)
    BY <1>1, FS_Interval
  <2>2. QED
    BY <1>2, <1>4, <2>1, FS_Subset
<1>8. Cardinality(Children(r, span) \cup {e + 1}) = Cardinality(Children(r, span)) + 1
  BY <1>7, FS_AddElement
<1>9. QED
  BY <1>5, <1>6, <1>8 DEF e

\* Opening a span is the next call of the innermost body.
LEMMA BodiesStart ==
    ASSUME TypeOK, NEW r \in Requests, IdsOK(r), BodiesOK(r), NEW name \in SpanNames,
           StartSpan(r, name), UNCHANGED endpoint,
           Len(stack[r]) # 0 => /\ Top(r).calls < Len(Calls(endpoint[r], Top(r).name))
                                /\ name = Calls(endpoint[r], Top(r).name)[Top(r).calls + 1]
    PROVE  /\ BodiesOK(r)'
           /\ \A i \in 1..Len(stack[r]) : NextReturned(r, i) = Returned(r, i)
           /\ \A i \in 1..Len(stack'[r]) : i \notin 1..Len(stack[r]) => NextReturned(r, i) = 0
<1> DEFINE n == Len(stack[r])
           id == <<r, Opened(r) + 1>>
<1>1. /\ n \in Nat /\ Len(stack'[r]) = n + 1 /\ exported' = exported
      /\ \A i \in 1..n : /\ stack'[r][i].span = stack[r][i].span
                        /\ stack'[r][i].name = stack[r][i].name
                        /\ stack'[r][i].calls = stack[r][i].calls + (IF i = n THEN 1 ELSE 0)
                        /\ stack[r][i].calls \in Nat
  BY Depths, StartEffect
<1>18. n \in Nat /\ ~(n + 1 < n + 1)
  BY Depths
<1>19. /\ stack'[r][n + 1].span = id /\ stack'[r][n + 1].calls = 0
       /\ stack'[r][n + 1].name = name
  BY StartEffect
<1>2. n # 0 => Top(r) = stack[r][n]
  BY DEF Top
<1>3. Len(Calls(endpoint[r], name)) \in Nat
  BY CallsType
<1>4. Children(r, id) = {}
  BY UsedStart DEF IdsOK, Children
<1>5. \A i : NextChildren(r, i) = Children(r, i)
  BY <1>1 DEF NextChildren, Children, Ends
<1>6. \A i \in 1..n : Len(Calls(endpoint[r], stack[r][i].name)) \in Nat
  BY CallsType
<1>7. ASSUME NEW i \in 1..n
      PROVE  /\ stack[r][i].calls <= Len(Calls(endpoint[r], stack[r][i].name))
             /\ Cardinality(Children(r, stack[r][i].span)) = Returned(r, i)
             /\ i < n => /\ stack[r][i].calls >= 1
                         /\ stack[r][i + 1].name
                                = Calls(endpoint[r], stack[r][i].name)[stack[r][i].calls]
  BY DEF BodiesOK
<1>8. \A i \in 1..n : Returned(r, i) = IF i < n THEN stack[r][i].calls - 1 ELSE stack[r][i].calls
  BY DEF Returned
<1>9. \A i : NextReturned(r, i) = IF i < n + 1 THEN stack'[r][i].calls - 1 ELSE stack'[r][i].calls
  BY <1>1 DEF NextReturned
<1> HIDE DEF n, id
<1>10. \A i \in 1..n : /\ i < n + 1 /\ i \in 1..(n + 1) /\ i # n + 1
                       /\ i # n => i < n /\ i + 1 \in 1..n
                       /\ i = n => ~(i < n)
  BY <1>18
<1>11. \A i \in 1..(n + 1) : i \in 1..n \/ i = n + 1
  BY <1>18
<1>12. ASSUME NEW i \in 1..n PROVE NextReturned(r, i) = Returned(r, i)
  <2>1. NextReturned(r, i) = stack'[r][i].calls - 1
    BY <1>9, <1>10
  <2>2. CASE i = n
    BY <1>1, <1>8, <1>10, <2>1, <2>2
  <2>3. CASE i # n
    BY <1>1, <1>8, <1>10, <2>1, <2>3
  <2>4. QED
    BY <2>2, <2>3
<1>13. NextReturned(r, n + 1) = 0
  <2>1. NextReturned(r, n + 1) = IF n + 1 < n + 1 THEN stack'[r][n + 1].calls - 1
                                                ELSE stack'[r][n + 1].calls
    BY <1>9
  <2>2. QED
    BY <1>18, <1>19, <2>1
<1>14. ASSUME NEW i \in 1..n
       PROVE  /\ stack'[r][i].calls <= Len(Calls(endpoint[r], stack[r][i].name))
              /\ stack'[r][i].calls >= 1
              /\ stack'[r][i + 1].name
                     = Calls(endpoint[r], stack[r][i].name)[stack'[r][i].calls]
  <2>1. CASE i = n
    <3>1. /\ stack[r][n].calls < Len(Calls(endpoint[r], stack[r][n].name))
          /\ name = Calls(endpoint[r], stack[r][n].name)[stack[r][n].calls + 1]
      BY <1>1, <1>2, <2>1 DEF n
    <3>2. stack'[r][n].calls = stack[r][n].calls + 1 /\ stack[r][n].calls \in Nat
      BY <1>1, <2>1
    <3>3. stack[r][n].calls + 1 <= Len(Calls(endpoint[r], stack[r][n].name))
      BY <1>6, <2>1, <3>1, <3>2
    <3>4. stack[r][n].calls + 1 >= 1
      BY <3>2
    <3>5. QED
      BY <1>19, <2>1, <3>1, <3>2, <3>3, <3>4
  <2>2. CASE i # n
    <3>1. stack'[r][i].calls = stack[r][i].calls
      <4>1. stack'[r][i].calls = stack[r][i].calls + 0 /\ stack[r][i].calls \in Nat
        BY <1>1, <2>2
      <4>2. QED
        BY <4>1
    <3>2. stack'[r][i + 1].name = stack[r][i + 1].name
      BY <1>1, <1>10, <2>2
    <3>3. QED
      BY <1>7, <1>10, <2>2, <3>1, <3>2
  <2>3. QED
    BY <2>1, <2>2
<1>15. ASSUME NEW i \in 1..(n + 1)
       PROVE  /\ stack'[r][i].calls <= Len(Calls(endpoint[r], stack'[r][i].name))
              /\ Cardinality(NextChildren(r, stack'[r][i].span)) = NextReturned(r, i)
              /\ i < n + 1 =>
                    /\ stack'[r][i].calls >= 1
                    /\ stack'[r][i + 1].name
                           = Calls(endpoint[r], stack'[r][i].name)[stack'[r][i].calls]
  <2>1. CASE i \in 1..n
    BY <1>1, <1>5, <1>7, <1>12, <1>14, <2>1
  <2>2. CASE i = n + 1
    <3>1. Cardinality(NextChildren(r, id)) = 0
      BY <1>4, <1>5, FS_EmptySet
    <3>2. 0 <= Len(Calls(endpoint[r], name))
      BY <1>3
    <3>3. /\ stack'[r][n + 1].calls <= Len(Calls(endpoint[r], stack'[r][n + 1].name))
          /\ Cardinality(NextChildren(r, stack'[r][n + 1].span)) = NextReturned(r, n + 1)
      BY <1>13, <1>19, <3>1, <3>2
    <3>4. QED
      BY <1>18, <2>2, <3>3
  <2>3. QED
    BY <1>11, <2>1, <2>2
<1>16. BodiesOK(r)'
  BY <1>1, <1>15 DEF BodiesOK, Children, NextChildren, Returned, NextReturned, Ends
<1>17. /\ \A i \in 1..n : NextReturned(r, i) = Returned(r, i)
       /\ \A i \in 1..Len(stack'[r]) : i \notin 1..n => NextReturned(r, i) = 0
  <2>1. Len(stack'[r]) = n + 1
    BY <1>1
  <2>2. QED
    BY <1>11, <1>12, <1>13, <2>1
<1>20. QED
  BY <1>16, <1>17 DEF n

\* Ending a span is one more return of the body below it.
LEMMA BodiesEnd ==
    ASSUME TypeOK, TreeInv, NEW r \in Requests, IdsOK(r), BodiesOK(r), Len(stack[r]) >= 1,
           NEW outcome \in {"OK", "ERROR"}, EndSpan(r, outcome), UNCHANGED endpoint
    PROVE  /\ BodiesOK(r)'
           /\ \A i \in 1..Len(stack'[r]) :
                 NextReturned(r, i) = Returned(r, i) + (IF i = Len(stack'[r]) THEN 1 ELSE 0)
<1> DEFINE n == Len(stack[r])
           m == n - 1
<1>1. n \in Nat /\ n >= 1
  BY Depths
<1>2. /\ Len(stack'[r]) = m /\ \A i \in 1..m : stack'[r][i] = stack[r][i]
  BY EndEffect
<1>3. \A i \in 1..n : stack[r][i].calls \in Nat
  BY Depths
<1>4. n # 1 => Top(r).parent = stack[r][m].span
  BY ParentOfTop
<1>5. ASSUME NEW i \in 1..n
      PROVE  /\ stack[r][i].calls <= Len(Calls(endpoint[r], stack[r][i].name))
             /\ Cardinality(Children(r, stack[r][i].span)) = Returned(r, i)
             /\ i < n => /\ stack[r][i].calls >= 1
                         /\ stack[r][i + 1].name
                                = Calls(endpoint[r], stack[r][i].name)[stack[r][i].calls]
  BY DEF BodiesOK
<1>6. \A i \in 1..n : Returned(r, i) = IF i < n THEN stack[r][i].calls - 1 ELSE stack[r][i].calls
  BY DEF Returned
<1>7. \A i : NextReturned(r, i) = IF i < m THEN stack'[r][i].calls - 1 ELSE stack'[r][i].calls
  BY <1>2 DEF NextReturned
<1>8. \A i, j \in 1..n : i # j => stack[r][i].span # stack[r][j].span
  BY DEF IdsOK
<1> HIDE DEF n, m
<1>9. m \in Nat /\ n = m + 1
  BY <1>1 DEF m
<1>10. \A i \in 1..m : /\ i \in 1..n /\ i < n /\ n # 1 /\ m \in 1..n
                       /\ i # m => i < m /\ i + 1 \in 1..m
                       /\ i = m => ~(i < m)
  BY <1>9
<1>11. ASSUME NEW i \in 1..m
       PROVE  NextReturned(r, i) = Returned(r, i) + (IF i = m THEN 1 ELSE 0)
  <2>1. /\ Returned(r, i) = stack[r][i].calls - 1 /\ stack[r][i].calls \in Nat
        /\ stack'[r][i] = stack[r][i]
    BY <1>2, <1>3, <1>6, <1>10
  <2>2. CASE i = m
    <3>1. NextReturned(r, i) = stack[r][i].calls
      BY <1>7, <1>10, <2>1, <2>2
    <3>2. QED
      BY <2>1, <2>2, <3>1
  <2>3. CASE i # m
    <3>1. NextReturned(r, i) = stack[r][i].calls - 1
      BY <1>7, <1>10, <2>1, <2>3
    <3>2. QED
      BY <2>1, <2>3, <3>1
  <2>4. QED
    BY <2>2, <2>3
<1>12. ASSUME NEW i \in 1..m
       PROVE  /\ stack'[r][i].calls <= Len(Calls(endpoint[r], stack'[r][i].name))
              /\ Cardinality(NextChildren(r, stack'[r][i].span)) = NextReturned(r, i)
              /\ i < m =>
                    /\ stack'[r][i].calls >= 1
                    /\ stack'[r][i + 1].name
                           = Calls(endpoint[r], stack'[r][i].name)[stack'[r][i].calls]
  <2>1. stack'[r][i] = stack[r][i] /\ i \in 1..n /\ i < n /\ stack[r][i].calls \in Nat
    BY <1>2, <1>3, <1>10
  <2>2. Cardinality(NextChildren(r, stack[r][i].span)) = NextReturned(r, i)
    <3>1. CASE i = m
      <4>1. stack[r][i].span = Top(r).parent
        BY <1>4, <1>10, <3>1
      <4>2. Cardinality(NextChildren(r, stack[r][i].span))
                = Cardinality(Children(r, stack[r][i].span)) + 1
        BY <4>1, ChildrenEnd
      <4>3. NextReturned(r, i) = Returned(r, i) + 1
        BY <1>11, <3>1
      <4>4. QED
        BY <1>5, <2>1, <4>2, <4>3
    <3>2. CASE i # m
      <4>1. stack[r][i].span # Top(r).parent
        BY <1>4, <1>8, <1>10, <3>2
      <4>2. NextChildren(r, stack[r][i].span) = Children(r, stack[r][i].span)
        BY <4>1, ChildrenEnd
      <4>3. NextReturned(r, i) = stack[r][i].calls - 1 /\ Returned(r, i) = stack[r][i].calls - 1
        BY <1>6, <1>7, <1>10, <2>1, <3>2
      <4>4. QED
        BY <1>5, <2>1, <4>2, <4>3
    <3>3. QED
      BY <3>1, <3>2
  <2>3. i < m => stack'[r][i + 1] = stack[r][i + 1]
    <3>1. i < m => i + 1 \in 1..m
      BY <1>9, <1>10
    <3>2. QED
      BY <1>2, <3>1
  <2>4. QED
    BY <1>5, <2>1, <2>2, <2>3
<1>13. BodiesOK(r)'
  BY <1>2, <1>12 DEF BodiesOK, Children, NextChildren, Returned, NextReturned, Ends
<1>14. QED
  BY <1>2, <1>11, <1>13

-----------------------------------------------------------------------------
(***************************************************************************)
(* The spans that have ended.                                              *)
(***************************************************************************)
\* No ended span says otherwise while none ends.
LEMMA DoneKept ==
    ASSUME NEW r \in Requests, DoneOK(r), exported'[r] = exported[r], UNCHANGED endpoint
    PROVE  DoneOK(r)'
<1>1. \A i : Children(r, exported[r][i].span)' = Children(r, exported[r][i].span)
  BY DEF Children, Ends
<1>2. Ends(r)' = Ends(r)
  BY DEF Ends
<1>3. QED
  BY <1>1, <1>2 DEF DoneOK

\* A span that ends OK has made its calls, and ends no span's child but its
\* own parent's.
LEMMA DoneEnd ==
    ASSUME TypeOK, TreeInv, NEW r \in Requests, IdsOK(r), BodiesOK(r), DoneOK(r),
           Len(stack[r]) >= 1, NEW outcome \in {"OK", "ERROR"}, EndSpan(r, outcome),
           UNCHANGED endpoint,
           outcome = "OK" /\ Top(r).name # Root =>
               BodyDone(r) /\ \A j \in Ends(r) : exported[r][j].outcome = "OK"
    PROVE  DoneOK(r)'
<1> DEFINE n == Len(stack[r])
           e == Len(exported[r])
<1>1. e \in Nat /\ n \in Nat /\ n >= 1
  BY Depths
<1>2. /\ Len(exported'[r]) = e + 1
      /\ \A i \in 1..e : exported'[r][i] = exported[r][i]
      /\ exported'[r][e + 1].span = Top(r).span
      /\ exported'[r][e + 1].name = Top(r).name
      /\ exported'[r][e + 1].outcome = outcome
  BY EndEffect DEF Ends
<1>3. Top(r) = stack[r][n] /\ (n # 1 => Top(r).parent = stack[r][n - 1].span)
      /\ (n = 1 => Top(r).parent = NoSpan)
  BY ParentOfTop
<1>4. /\ \A i, j \in 1..n : i # j => stack[r][i].span # stack[r][j].span
      /\ \A i \in 1..n, j \in 1..e : stack[r][i].span # exported[r][j].span
  BY DEF IdsOK, Ends
<1>5. /\ \A i \in 1..n : stack[r][i].span # NoSpan
      /\ \A i \in 1..e : exported[r][i].span # NoSpan
  BY Depths, Distinct
<1>6. ASSUME NEW i \in 1..e, exported[r][i].name # Root, exported[r][i].outcome = "OK"
      PROVE  /\ Cardinality(Children(r, exported[r][i].span))
                    = Len(Calls(endpoint[r], exported[r][i].name))
             /\ \A j \in Children(r, exported[r][i].span) : exported[r][j].outcome = "OK"
  BY <1>6 DEF DoneOK, Ends
<1>7. \A s : Children(r, s) \subseteq 1..e
  BY DEF Children, Ends
<1>8. ASSUME outcome = "OK", Top(r).name # Root
      PROVE  /\ Cardinality(Children(r, Top(r).span)) = Len(Calls(endpoint[r], Top(r).name))
             /\ \A j \in 1..e : exported[r][j].outcome = "OK"
  <2>1. /\ Top(r).calls >= Len(Calls(endpoint[r], Top(r).name))
        /\ \A j \in 1..e : exported[r][j].outcome = "OK"
    BY <1>8 DEF BodyDone, Ends
  <2>2. n \in 1..n /\ ~(n < n)
    BY <1>1
  <2>3. /\ Top(r).calls <= Len(Calls(endpoint[r], Top(r).name))
        /\ Cardinality(Children(r, Top(r).span)) = Top(r).calls
    BY <1>3, <2>2 DEF BodiesOK, Returned
  <2>4. Top(r).calls \in Nat
    BY <1>3, <2>2, Depths
  <2>5. Len(Calls(endpoint[r], Top(r).name)) \in Nat
    BY CallsType
  <2>6. QED
    BY <2>1, <2>3, <2>4, <2>5
<1>9. /\ Top(r).span # Top(r).parent
      /\ \A i \in 1..e : exported[r][i].span # Top(r).parent
  <2>1. CASE n = 1
    <3>1. n \in 1..n
      BY <1>1
    <3>2. QED
      BY <1>3, <1>5, <2>1, <3>1
  <2>2. CASE n # 1
    <3>1. n - 1 \in 1..n /\ n \in 1..n /\ n - 1 # n
      <4> HIDE DEF n
      <4>1. QED
        BY <1>1, <2>2
    <3>2. QED
      BY <1>3, <1>4, <2>2, <3>1
  <2>3. QED
    BY <2>1, <2>2
<1>10. /\ NextChildren(r, Top(r).span) = Children(r, Top(r).span)
       /\ \A i \in 1..e : NextChildren(r, exported[r][i].span) = Children(r, exported[r][i].span)
  BY <1>9, ChildrenEnd
<1> HIDE DEF n, e
<1>11. \A i \in 1..(e + 1) : i \in 1..e \/ i = e + 1
  BY <1>1
<1>12. ASSUME NEW i \in 1..(e + 1), exported'[r][i].name # Root, exported'[r][i].outcome = "OK"
       PROVE  /\ Cardinality(NextChildren(r, exported'[r][i].span))
                     = Len(Calls(endpoint[r], exported'[r][i].name))
              /\ \A j \in NextChildren(r, exported'[r][i].span) : exported'[r][j].outcome = "OK"
  <2>1. CASE i \in 1..e
    <3>1. exported'[r][i] = exported[r][i]
      BY <1>2, <2>1
    <3>2. QED
      BY <1>2, <1>6, <1>7, <1>10, <1>12, <2>1, <3>1
  <2>2. CASE i = e + 1
    <3>1. outcome = "OK" /\ Top(r).name # Root
      BY <1>2, <1>12, <2>2
    <3>2. QED
      BY <1>2, <1>7, <1>8, <1>10, <2>2, <3>1
  <2>3. QED
    BY <1>11, <2>1, <2>2
<1>13. QED
  BY <1>2, <1>12 DEF DoneOK, Children, NextChildren, Ends

-----------------------------------------------------------------------------
(***************************************************************************)
(* The answers.                                                            *)
(***************************************************************************)
\* The root is called by no body, and a review is opened by the endpoint alone,
\* after the verification whose last call is the decision.
LEMMA CallFacts ==
    /\ \A e, name : Root \notin Callees(e, name)
    /\ \A e, name : "review.open" \in Callees(e, name) => name = Root /\ e = "open"
    /\ \A e : /\ Len(Calls(e, "service.verify_case")) = Documents + 4
              /\ Calls(e, "service.verify_case")[Documents + 4] = "decision_policy.assess"
    /\ Len(Calls("open", Root)) = 2
    /\ Calls("open", Root)[1] = "service.verify_case"
    /\ Calls("open", Root)[2] = "review.open"
<1>1. /\ Len(VerifyCaseSpans) = Documents + 4 /\ Documents + 4 \in 1..(Documents + 4)
      /\ VerifyCaseSpans[Documents + 4] = "decision_policy.assess"
      /\ \A i \in 1..Len(VerifyCaseSpans) : VerifyCaseSpans[i] \notin {Root, "review.open"}
  <2>1. Documents + 4 \in Nat /\ Documents + 4 \in 1..(Documents + 4)
    BY DocumentsAssumption
  <2>2. Len(VerifyCaseSpans) = Documents + 4
    BY <2>1 DEF VerifyCaseSpans
  <2>3. /\ Documents + 4 # Documents + 1 /\ Documents + 4 # Documents + 2
        /\ Documents + 4 # Documents + 3
    BY DocumentsAssumption
  <2>4. VerifyCaseSpans[Documents + 4] = "decision_policy.assess"
    BY <2>1, <2>3 DEF VerifyCaseSpans
  <2>5. \A i \in 1..(Documents + 4) : VerifyCaseSpans[i] \notin {Root, "review.open"}
    BY DEF VerifyCaseSpans, Root
  <2>6. QED
    BY <2>1, <2>2, <2>4, <2>5
<1>2. \A e, name : name # Root =>
          \A i \in 1..Len(Calls(e, name)) : Calls(e, name)[i] \notin {Root, "review.open"}
  <2>1. ASSUME NEW e, NEW name, name # Root, NEW i \in 1..Len(Calls(e, name))
        PROVE  Calls(e, name)[i] \notin {Root, "review.open"}
    <3>1. CASE name = "service.verify_case"
      BY <1>1, <2>1, <3>1 DEF Calls
    <3>2. CASE name = "service.verify_document"
      <4>1. Calls(e, name) = VerifyDocumentSpans
        BY <2>1, <3>2 DEF Calls
      <4>2. Len(VerifyDocumentSpans) = 3 /\ i \in 1..3
        BY <2>1, <4>1 DEF VerifyDocumentSpans
      <4>3. VerifyDocumentSpans[1] \notin {Root, "review.open"}
            /\ VerifyDocumentSpans[2] \notin {Root, "review.open"}
            /\ VerifyDocumentSpans[3] \notin {Root, "review.open"}
        BY DEF VerifyDocumentSpans, Root
      <4>4. i = 1 \/ i = 2 \/ i = 3
        BY <4>2
      <4>5. QED
        BY <4>1, <4>3, <4>4
    <3>3. CASE name \notin {Root, "service.verify_case", "service.verify_document"}
      BY <2>1, <3>3 DEF Calls
    <3>4. QED
      BY <2>1, <3>1, <3>2, <3>3
  <2>2. QED
    BY <2>1
<1>3. \A e : \A i \in 1..Len(EndpointSpans(e)) :
          EndpointSpans(e)[i] # Root /\ (EndpointSpans(e)[i] = "review.open" => e = "open")
  <2>1. ASSUME NEW e, NEW i \in 1..Len(EndpointSpans(e))
        PROVE  EndpointSpans(e)[i] # Root /\ (EndpointSpans(e)[i] = "review.open" => e = "open")
    <3>1. CASE e = "document"
      BY <2>1, <3>1 DEF EndpointSpans, Root
    <3>2. CASE e = "case"
      BY <2>1, <3>2 DEF EndpointSpans, Root
    <3>3. CASE e = "open"
      <4>1. EndpointSpans(e) = <<"service.verify_case", "review.open">>
        BY <3>3 DEF EndpointSpans
      <4>2. i = 1 \/ i = 2
        BY <2>1, <4>1
      <4>3. QED
        BY <3>3, <4>1, <4>2 DEF Root
    <3>4. CASE e \notin {"document", "case", "open"}
      BY <2>1, <3>4 DEF EndpointSpans
    <3>5. QED
      BY <3>1, <3>2, <3>3, <3>4
  <2>2. QED
    BY <2>1
<1>4. \A e : Calls(e, Root) = EndpointSpans(e)
  BY DEF Calls, Root
<1>5. \A e : Calls(e, "service.verify_case") = VerifyCaseSpans
  BY DEF Calls, Root
<1>6. EndpointSpans("open") = <<"service.verify_case", "review.open">>
  BY DEF EndpointSpans
<1>7. \A e, name : Root \notin Callees(e, name)
  BY <1>2, <1>3, <1>4 DEF Callees
<1>8. \A e, name : "review.open" \in Callees(e, name) => name = Root /\ e = "open"
  BY <1>2, <1>3, <1>4 DEF Callees
<1>9. QED
  BY <1>1, <1>4, <1>5, <1>6, <1>7, <1>8

\* Only the span at the bottom is the root.
LEMMA RootAtBottom ==
    ASSUME TypeOK, TreeInv, NEW r \in Requests, NEW i \in 1..Len(stack[r])
    PROVE  stack[r][i].name = Root <=> i = 1
BY CallFacts DEF TreeInv, ChainInv

\* Where a request goes next, what it answers and what ended before it agree.
LEMMA AnswerKept ==
    ASSUME NEW r \in Requests, AnswerOK(r), exported'[r] = exported[r],
           \/ pc'[r] = pc[r] /\ status'[r] = status[r]
           \/ pc[r] = "new" /\ Len(exported[r]) = 0 /\ pc'[r] = "running"
           \/ pc[r] = "running" /\ pc'[r] = "raising"
           \/ pc[r] = "running" /\ pc'[r] = "responding" /\ status'[r] = 200
           \/ pc[r] = "raising" /\ pc'[r] = "responding" /\ status'[r] \in Nat
                                /\ status'[r] # 500 /\ status'[r] >= 400
           \/ pc[r] = "unhandled" /\ pc'[r] = "answered" /\ status'[r] = 500
           \/ pc[r] = "counting" /\ pc'[r] = "answered" /\ status'[r] = status[r]
    PROVE  AnswerOK(r)'
<1>1. Ends(r)' = Ends(r) /\ (Len(exported[r]) = 0 => Ends(r) = {})
  BY DEF Ends
<1>2. CASE pc'[r] = pc[r] /\ status'[r] = status[r]
  BY <1>1, <1>2 DEF AnswerOK, Answered
<1>3. CASE pc[r] = "new" /\ Len(exported[r]) = 0 /\ pc'[r] = "running"
  BY <1>1, <1>3 DEF AnswerOK, Answered
<1>4. CASE pc[r] = "running" /\ pc'[r] = "raising"
  BY <1>1, <1>4 DEF AnswerOK, Answered
<1>5. CASE pc[r] = "running" /\ pc'[r] = "responding" /\ status'[r] = 200
  BY <1>1, <1>5 DEF AnswerOK, Answered
<1>6. CASE pc[r] = "raising" /\ pc'[r] = "responding" /\ status'[r] # 500 /\ status'[r] >= 400
  BY <1>1, <1>6 DEF AnswerOK, Answered
<1>7. CASE pc[r] = "unhandled" /\ pc'[r] = "answered" /\ status'[r] = 500
  BY <1>1, <1>7 DEF AnswerOK, Answered
<1>8. CASE pc[r] = "counting" /\ pc'[r] = "answered" /\ status'[r] = status[r]
  BY <1>1, <1>8 DEF AnswerOK, Answered
<1>9. QED
  BY <1>2, <1>3, <1>4, <1>5, <1>6, <1>7, <1>8

\* The same when a span ends.
LEMMA AnswerEnd ==
    ASSUME TypeOK, TreeInv, NEW r \in Requests, AnswerOK(r), Len(stack[r]) >= 1,
           NEW outcome \in {"OK", "ERROR"}, EndSpan(r, outcome), status'[r] = status[r],
           \/ pc[r] = "running" /\ pc'[r] = "running" /\ outcome = "OK" /\ Len(stack[r]) # 1
           \/ pc[r] = "raising" /\ pc'[r] = "raising" /\ outcome = "ERROR" /\ Len(stack[r]) # 1
           \/ pc[r] = "raising" /\ pc'[r] = "unhandled" /\ outcome = "ERROR" /\ Len(stack[r]) = 1
           \/ pc[r] = "responding" /\ pc'[r] = "counting" /\ outcome = "OK" /\ Len(stack[r]) = 1
    PROVE  AnswerOK(r)'
<1> DEFINE e == Len(exported[r])
<1>1. /\ e \in Nat /\ Len(exported'[r]) = e + 1
      /\ \A i \in 1..e : exported'[r][i] = exported[r][i]
      /\ exported'[r][e + 1].name = Top(r).name
      /\ exported'[r][e + 1].outcome = outcome
  BY Depths, EndEffect DEF Ends
<1>2. Top(r).name = Root <=> Len(stack[r]) = 1
  BY ParentOfTop, RootAtBottom
<1>3. Ends(r)' = 1..(e + 1) /\ Ends(r) = 1..e
  BY <1>1 DEF Ends
<1> HIDE DEF e
<1>4. \A i \in 1..(e + 1) : i \in 1..e \/ i = e + 1
  BY <1>1
<1>5. /\ pc'[r] \in {"responding", "counting"} => status'[r] # 500
      /\ ~Answered(r)'
  BY DEF AnswerOK, Answered
<1>6. \A i \in 1..(e + 1) : exported'[r][i].outcome = "ERROR" =>
         \/ pc'[r] \in {"raising", "unhandled"}
         \/ pc'[r] \in {"responding", "counting", "answered"} /\ status'[r] >= 400
  BY <1>1, <1>3, <1>4 DEF AnswerOK
<1>7. \A i \in 1..e : exported[r][i].name # Root
  BY <1>3 DEF AnswerOK
<1>8. \A i \in 1..(e + 1) : exported'[r][i].name = Root =>
         /\ pc'[r] \in {"unhandled", "counting", "answered"}
         /\ exported'[r][i].outcome = "ERROR" <=> pc'[r] = "unhandled"
  BY <1>1, <1>2, <1>4, <1>7
<1>9. QED
  BY <1>3, <1>5, <1>6, <1>8 DEF AnswerOK

-----------------------------------------------------------------------------
(***************************************************************************)
(* The decision before the review.                                         *)
(***************************************************************************)
\* A review is open in the second call of the endpoint, its last.
LEMMA ReviewTop ==
    ASSUME TypeOK, TreeInv, NEW r \in Requests, BodiesOK(r), Len(stack[r]) >= 1,
           Top(r).name = "review.open"
    PROVE  /\ Len(stack[r]) = 2 /\ endpoint[r] = "open"
           /\ stack[r][1].name = Root /\ stack[r][1].calls = 2 /\ Returned(r, 1) = 1
<1> DEFINE n == Len(stack[r])
<1>1. n \in Nat /\ n >= 1
  BY Depths
<1>2. n # 1
  BY ParentOfTop DEF Root
<1>3. n - 1 \in 1..n /\ "review.open" \in Callees(endpoint[r], stack[r][n - 1].name)
  BY <1>2, ParentOfTop
<1>4. stack[r][n - 1].name = Root /\ endpoint[r] = "open"
  BY <1>3, CallFacts
<1>5. n - 1 = 1
  BY <1>3, <1>4, RootAtBottom
<1>6. n = 2
  <2> HIDE DEF n
  <2>1. QED
    BY <1>1, <1>5
<1>7. /\ stack[r][1].calls \in Nat /\ stack[r][1].calls >= 1 /\ stack[r][1].calls <= 2
      /\ stack[r][2].name = Calls("open", Root)[stack[r][1].calls]
  <2>1. 1 \in 1..Len(stack[r]) /\ 1 < Len(stack[r]) /\ 1 + 1 = 2
    BY <1>6
  <2>2. /\ stack[r][1].calls <= Len(Calls(endpoint[r], stack[r][1].name))
        /\ stack[r][1].calls >= 1
        /\ stack[r][1 + 1].name = Calls(endpoint[r], stack[r][1].name)[stack[r][1].calls]
    BY <2>1 DEF BodiesOK
  <2>3. stack[r][1].calls \in Nat
    BY <2>1, Depths
  <2>4. QED
    BY <1>4, <1>5, <2>1, <2>2, <2>3, CallFacts
<1>8. stack[r][2].name = "review.open"
  BY <1>6 DEF Top
<1>9. stack[r][1].calls = 1 \/ stack[r][1].calls = 2
  BY <1>7
<1>10. stack[r][1].calls = 2
  BY <1>7, <1>8, <1>9, CallFacts
<1>11. Returned(r, 1) = 1
  BY <1>6, <1>10 DEF Returned
<1>12. QED
  BY <1>4, <1>5, <1>6, <1>10, <1>11

\* While no span begins or ends, a request only ceases to run.
LEMMA OrderKept ==
    ASSUME NEW r \in Requests, OrderOK(r), stack'[r] = stack[r], exported'[r] = exported[r],
           UNCHANGED endpoint, pc'[r] = "running" => pc[r] = "running"
    PROVE  OrderOK(r)'
BY DEF OrderOK, Returned, Decided, ReviewOpened, EndedAs, Ends

\* Opening a span returns from none.
LEMMA OrderStart ==
    ASSUME TypeOK, NEW r \in Requests, IdsOK(r), BodiesOK(r), OrderOK(r),
           NEW name \in SpanNames, StartSpan(r, name), UNCHANGED endpoint,
           Len(stack[r]) # 0 => /\ Top(r).calls < Len(Calls(endpoint[r], Top(r).name))
                                /\ name = Calls(endpoint[r], Top(r).name)[Top(r).calls + 1],
           pc'[r] = "running",
           \/ pc[r] = "running" /\ Len(stack[r]) >= 1
           \/ Len(stack[r]) = 0 /\ Len(exported[r]) = 0
    PROVE  OrderOK(r)'
<1> DEFINE n == Len(stack[r])
<1>1. n \in Nat
  BY Depths
<1>2. /\ Len(stack'[r]) = n + 1 /\ exported' = exported
      /\ \A i \in 1..n : stack'[r][i].name = stack[r][i].name
  BY StartEffect
<1>3. /\ \A i \in 1..n : NextReturned(r, i) = Returned(r, i)
      /\ \A i \in 1..(n + 1) : i \notin 1..n => NextReturned(r, i) = 0
  BY <1>2, BodiesStart
<1>4. /\ Decided(r)' = Decided(r) /\ ReviewOpened(r)' = ReviewOpened(r)
      /\ Ends(r)' = Ends(r) /\ (Len(exported[r]) = 0 => Ends(r) = {})
  BY <1>2 DEF Decided, ReviewOpened, EndedAs, Ends
<1> HIDE DEF n
<1>5. ASSUME NEW i \in 1..(n + 1),
             \/ stack'[r][i].name = "service.verify_case" /\ NextReturned(r, i) = Documents + 4
             \/ i = 1 /\ endpoint[r] = "open" /\ NextReturned(r, i) >= 1
      PROVE  Decided(r)
  <2>1. Documents + 4 # 0
    BY DocumentsAssumption
  <2>2. NextReturned(r, i) # 0
    BY <1>5, <2>1
  <2>3. i \in 1..n
    BY <1>3, <2>2
  <2>4. pc[r] = "running"
    BY <1>1, <2>3 DEF n
  <2>5. NextReturned(r, i) = Returned(r, i) /\ stack'[r][i].name = stack[r][i].name
    BY <1>2, <1>3, <2>3
  <2>6. QED
    BY <1>5, <2>3, <2>4, <2>5 DEF OrderOK, n
<1>6. ASSUME \E i \in Ends(r) : exported[r][i].name = "review.open"
      PROVE  NextReturned(r, 1) >= 2
  <2>1. Len(stack[r]) # 0 /\ Returned(r, 1) >= 2
    BY <1>4, <1>6 DEF OrderOK
  <2>2. 1 \in 1..n
    BY <1>1, <2>1 DEF n
  <2>3. QED
    BY <1>3, <2>1, <2>2
<1>7. ReviewOpened(r) => Decided(r)
  BY DEF OrderOK
<1>8. QED
  BY <1>2, <1>4, <1>5, <1>6, <1>7 DEF OrderOK, Returned, NextReturned

\* A body that goes on after a call that decides has decided.
LEMMA OrderEnd ==
    ASSUME TypeOK, TreeInv, NEW r \in Requests, IdsOK(r), BodiesOK(r), OrderOK(r),
           Len(stack[r]) >= 1, NEW outcome \in {"OK", "ERROR"}, EndSpan(r, outcome),
           UNCHANGED endpoint, pc'[r] = "running" => pc[r] = "running" /\ outcome = "OK",
           outcome = "OK" /\ Len(stack[r]) # 1 => pc[r] = "running" /\ BodyDone(r)
    PROVE  OrderOK(r)'
<1> DEFINE n == Len(stack[r])
           m == n - 1
           e == Len(exported[r])
<1>1. n \in Nat /\ n >= 1 /\ e \in Nat /\ (n # 1 => m \in 1..n) /\ Top(r) = stack[r][n]
  BY Depths, ParentOfTop
<1>2. /\ Len(stack'[r]) = m /\ \A i \in 1..m : stack'[r][i] = stack[r][i]
      /\ Len(exported'[r]) = e + 1
      /\ \A i \in 1..e : exported'[r][i] = exported[r][i]
      /\ exported'[r][e + 1].name = Top(r).name
      /\ exported'[r][e + 1].outcome = outcome
  BY EndEffect DEF Ends
<1>3. \A i \in 1..m : NextReturned(r, i) = Returned(r, i) + (IF i = m THEN 1 ELSE 0)
  BY <1>2, BodiesEnd
<1>4. Ends(r)' = 1..(e + 1) /\ Ends(r) = 1..e
  BY <1>2 DEF Ends
<1>5. \A i \in 1..n : stack[r][i].calls \in Nat
  BY Depths
<1>6. \A i \in 1..n : Returned(r, i) = IF i < n THEN stack[r][i].calls - 1 ELSE stack[r][i].calls
  BY DEF Returned
<1>7. \A i \in 1..n : i < n => stack[r][i].calls >= 1
  BY DEF BodiesOK
<1>8. 1..(e + 1) = 1..e \cup {e + 1}
  <2> HIDE DEF e
  <2>1. QED
    BY <1>1
<1>9. Decided(r) => Decided(r)'
  BY <1>2, <1>4, <1>8 DEF Decided, EndedAs
<1>10. ReviewOpened(r)' => ReviewOpened(r) \/ (outcome = "OK" /\ Top(r).name = "review.open")
  BY <1>2, <1>4, <1>8 DEF ReviewOpened, EndedAs
<1> HIDE DEF n, m, e
<1>11. m \in Nat /\ n = m + 1 /\ \A i \in 1..m : i \in 1..n /\ i < n /\ m \in 1..m
  BY <1>1 DEF m
<1>12. ASSUME NEW i \in 1..n PROVE Returned(r, i) \in Nat
  <2>1. \A k \in Nat : k >= 1 => k - 1 \in Nat
    OBVIOUS
  <2>2. QED
    BY <1>5, <1>6, <1>7, <2>1
<1>13. pc[r] = "running" => \A i \in 1..n :
          \/ stack[r][i].name = "service.verify_case" /\ Returned(r, i) = Documents + 4
          \/ i = 1 /\ endpoint[r] = "open" /\ Returned(r, i) >= 1
          => Decided(r)
  BY DEF OrderOK, n
<1>14. ASSUME pc'[r] = "running", NEW i \in 1..m,
              \/ stack'[r][i].name = "service.verify_case" /\ NextReturned(r, i) = Documents + 4
              \/ i = 1 /\ endpoint[r] = "open" /\ NextReturned(r, i) >= 1
       PROVE  Decided(r)'
  <2>1. pc[r] = "running" /\ outcome = "OK" /\ i \in 1..n /\ i < n /\ stack'[r][i] = stack[r][i]
    BY <1>2, <1>11, <1>14
  <2>2. CASE i # m
    <3>1. NextReturned(r, i) = Returned(r, i)
      BY <1>3, <1>12, <2>1, <2>2
    <3>2. QED
      BY <1>9, <1>13, <1>14, <2>1, <3>1
  <2>3. CASE i = m
    <3>1. /\ stack[r][m].calls \in Nat /\ Returned(r, m) = stack[r][m].calls - 1
          /\ NextReturned(r, m) = Returned(r, m) + 1
      BY <1>3, <1>5, <1>6, <2>1, <2>3
    <3>2. NextReturned(r, m) = stack[r][m].calls
      BY <3>1
    <3>3. /\ Top(r).name = Calls(endpoint[r], stack[r][m].name)[stack[r][m].calls]
          /\ stack[r][m].calls <= Len(Calls(endpoint[r], stack[r][m].name))
      BY <1>1, <1>11, <2>1, <2>3 DEF BodiesOK, n
    <3>4. CASE stack[r][m].name = "service.verify_case" /\ NextReturned(r, m) = Documents + 4
      <4>1. Top(r).name = "decision_policy.assess"
        BY <3>2, <3>3, <3>4, CallFacts
      <4>2. QED
        BY <1>2, <1>4, <1>8, <2>1, <4>1 DEF Decided, EndedAs
    <3>5. CASE m = 1 /\ endpoint[r] = "open" /\ NextReturned(r, m) >= 1
      <4>1. stack[r][1].name = Root
        BY <2>1, <2>3, <3>5, RootAtBottom DEF n
      <4>2. stack[r][1].calls <= 2 /\ stack[r][1].calls \in Nat /\ stack[r][1].calls >= 1
        BY <3>1, <3>2, <3>3, <3>5, <4>1, CallFacts
      <4>3. CASE stack[r][1].calls = 2
        <5>1. Returned(r, 1) >= 1
          BY <3>1, <3>5, <4>3
        <5>2. QED
          BY <1>9, <1>13, <2>1, <2>3, <3>5, <5>1
      <4>4. CASE stack[r][1].calls = 1
        <5>1. Top(r).name = "service.verify_case"
          BY <3>3, <3>5, <4>1, <4>4, CallFacts
        <5>2. n = 2 /\ n \in 1..n /\ ~(n < n) /\ n # 1
          BY <1>11, <3>5
        <5>3. Top(r).calls >= Documents + 4
          BY <2>1, <5>1, <5>2, CallFacts DEF BodyDone, n
        <5>4. Top(r).calls <= Documents + 4
          BY <1>1, <5>1, <5>2, CallFacts DEF BodiesOK, n
        <5>5. Top(r).calls = Documents + 4
          <6>1. Documents + 4 \in Nat /\ Top(r).calls \in Nat
            BY <1>1, <1>5, <5>2, DocumentsAssumption
          <6>2. QED
            BY <5>3, <5>4, <6>1
        <5>6. Returned(r, n) = Documents + 4 /\ stack[r][n].name = "service.verify_case"
          BY <1>1, <1>6, <5>1, <5>2, <5>5
        <5>7. QED
          BY <1>9, <1>13, <2>1, <5>2, <5>6
      <4>5. QED
        BY <4>2, <4>3, <4>4
    <3>6. QED
      BY <1>14, <2>1, <2>3, <3>4, <3>5
  <2>4. QED
    BY <2>2, <2>3
<1>15. ASSUME ReviewOpened(r)' PROVE Decided(r)'
  <2>1. CASE ReviewOpened(r)
    BY <1>9, <2>1 DEF OrderOK
  <2>2. CASE outcome = "OK" /\ Top(r).name = "review.open"
    <3>1. n = 2 /\ endpoint[r] = "open" /\ Returned(r, 1) = 1
      BY <2>2, ReviewTop DEF n
    <3>2. pc[r] = "running"
      BY <2>2, <3>1 DEF n
    <3>3. 1 \in 1..n /\ 1 >= 1
      BY <3>1
    <3>4. QED
      BY <1>9, <1>13, <3>1, <3>2, <3>3
  <2>3. QED
    BY <1>10, <1>15, <2>1, <2>2
<1>16. ASSUME NEW k \in 1..(e + 1), exported'[r][k].name = "review.open", m # 0
       PROVE  NextReturned(r, 1) >= 2
  <2>1. 1 \in 1..m /\ 1 \in 1..n
    BY <1>11, <1>16
  <2>2. CASE k \in 1..e
    <3>1. exported[r][k].name = "review.open" /\ Len(stack[r]) # 0
      BY <1>1, <1>2, <1>16, <2>2 DEF n
    <3>2. Returned(r, 1) >= 2
      BY <1>4, <2>2, <3>1 DEF OrderOK
    <3>3. NextReturned(r, 1) = Returned(r, 1) \/ NextReturned(r, 1) = Returned(r, 1) + 1
      <4>1. Returned(r, 1) \in Nat
        BY <1>12, <2>1
      <4>2. QED
        BY <1>3, <2>1, <4>1
    <3>4. Returned(r, 1) \in Nat
      BY <1>12, <2>1
    <3>5. QED
      BY <3>2, <3>3, <3>4
  <2>3. CASE k = e + 1
    <3>1. n = 2 /\ Returned(r, 1) = 1
      BY <1>2, <1>16, <2>3, ReviewTop DEF n
    <3>2. m = 1
      BY <1>11, <3>1
    <3>3. NextReturned(r, 1) = 1 + 1
      BY <1>3, <2>1, <3>1, <3>2
    <3>4. QED
      BY <3>3
  <2>4. QED
    BY <1>8, <2>2, <2>3
<1>17. QED
  BY <1>2, <1>4, <1>14, <1>15, <1>16 DEF OrderOK, Returned, NextReturned

-----------------------------------------------------------------------------
\* The invariant holds before the first request, ...
LEMMA RequestInit == Init => RequestInv
<1> SUFFICES ASSUME Init, NEW r \in Requests PROVE RequestOK(r)
  BY DEF RequestInv
<1>1. /\ Len(stack[r]) = 0 /\ Len(exported[r]) = 0 /\ pc[r] = "new"
  BY DEF Init
<1>2. Ends(r) = {} /\ \A i : i \notin 1..Len(stack[r])
  BY <1>1 DEF Ends
<1>3. IdsOK(r) /\ BodiesOK(r) /\ DoneOK(r)
  BY <1>2 DEF IdsOK, BodiesOK, DoneOK
<1>4. AnswerOK(r) /\ OrderOK(r)
  BY <1>1, <1>2 DEF AnswerOK, OrderOK, ReviewOpened, EndedAs
<1>5. QED
  BY <1>3, <1>4 DEF RequestOK

\* ... opening a span keeps it, ...
LEMMA RequestStart ==
    ASSUME ProcessInv, TreeInv, NEW r \in Requests, RequestOK(r), Receive(r) \/ EnterSpan(r)
    PROVE  RequestOK(r)'
<1> DEFINE name == Calls(endpoint[r], Top(r).name)[Top(r).calls + 1]
<1>1. TypeOK /\ PlaceInv /\ IdsOK(r) /\ BodiesOK(r) /\ DoneOK(r) /\ AnswerOK(r) /\ OrderOK(r)
  BY DEF ProcessInv, RequestOK
<1>2. UNCHANGED endpoint
  BY DEF Receive, EnterSpan, requestVars
<1>3. \E opened \in SpanNames :
         /\ StartSpan(r, opened)
         /\ Len(stack[r]) # 0 => /\ Top(r).calls < Len(Calls(endpoint[r], Top(r).name))
                                 /\ opened = Calls(endpoint[r], Top(r).name)[Top(r).calls + 1]
  <2>1. CASE Receive(r)
    <3>1. Root \in SpanNames /\ StartSpan(r, Root) /\ Len(stack[r]) = 0
      BY <1>1, <2>1 DEF Receive, SpanNames, PlaceInv
    <3>2. QED
      BY <3>1
  <2>2. CASE EnterSpan(r)
    <3>1. name \in SpanNames /\ StartSpan(r, name)
      BY <1>1, <2>2, EnteredName DEF EnterSpan
    <3>2. ~(Top(r).calls >= Len(Calls(endpoint[r], Top(r).name)))
      BY <2>2 DEF EnterSpan, BodyDone
    <3>3. Len(stack[r]) # 0 => Top(r).calls \in Nat
      <4>1. Len(stack[r]) # 0 => Len(stack[r]) >= 1
        BY <1>1, Depths
      <4>2. QED
        BY <1>1, <4>1, Depths, ParentOfTop
    <3>4. Len(Calls(endpoint[r], Top(r).name)) \in Nat
      BY CallsType
    <3>5. Len(stack[r]) # 0 => Top(r).calls < Len(Calls(endpoint[r], Top(r).name))
      BY <3>2, <3>3, <3>4
    <3> HIDE DEF name
    <3>6. QED
      BY <3>1, <3>5 DEF name
  <2>3. QED
    BY <2>1, <2>2
<1>4. PICK opened \in SpanNames :
         /\ StartSpan(r, opened)
         /\ Len(stack[r]) # 0 => /\ Top(r).calls < Len(Calls(endpoint[r], Top(r).name))
                                 /\ opened = Calls(endpoint[r], Top(r).name)[Top(r).calls + 1]
  BY <1>3
<1>5. exported'[r] = exported[r]
  BY <1>4 DEF StartSpan
<1>6. /\ pc'[r] = "running"
      /\ \/ pc[r] = "running" /\ status'[r] = status[r] /\ Len(stack[r]) >= 1
         \/ pc[r] = "new" /\ Len(stack[r]) = 0 /\ Len(exported[r]) = 0
  BY <1>1 DEF Receive, EnterSpan, Running, Goto, PlaceInv, TypeOK
<1>7. IdsOK(r)'
  BY <1>1, <1>4, IdsStart
<1>8. BodiesOK(r)'
  BY <1>1, <1>2, <1>4, BodiesStart
<1>9. DoneOK(r)'
  BY <1>1, <1>2, <1>5, DoneKept
<1>10. AnswerOK(r)'
  BY <1>1, <1>5, <1>6, AnswerKept
<1>11. OrderOK(r)'
  BY <1>1, <1>2, <1>4, <1>6, OrderStart
<1>12. QED
  BY <1>7, <1>8, <1>9, <1>10, <1>11 DEF RequestOK

\* ... so does ending one, ...
LEMMA RequestEnd ==
    ASSUME ProcessInv, TreeInv, NEW r \in Requests, RequestOK(r),
           LeaveSpan(r) \/ Unwind(r) \/ EscapeMiddleware(r) \/ LeaveRequestSpan(r)
    PROVE  RequestOK(r)'
<1>1. TypeOK /\ PlaceInv /\ IdsOK(r) /\ BodiesOK(r) /\ DoneOK(r) /\ AnswerOK(r) /\ OrderOK(r)
  BY DEF ProcessInv, RequestOK
<1>2. UNCHANGED endpoint /\ status'[r] = status[r]
  BY DEF LeaveSpan, Unwind, EscapeMiddleware, LeaveRequestSpan, requestVars
<1>3. PICK outcome \in {"OK", "ERROR"} :
         /\ EndSpan(r, outcome)
         /\ \/ /\ pc[r] = "running" /\ pc'[r] = "running" /\ outcome = "OK"
               /\ Len(stack[r]) # 1 /\ BodyDone(r)
            \/ pc[r] = "raising" /\ pc'[r] = "raising" /\ outcome = "ERROR" /\ Len(stack[r]) # 1
            \/ pc[r] = "raising" /\ pc'[r] = "unhandled" /\ outcome = "ERROR" /\ Len(stack[r]) = 1
            \/ pc[r] = "responding" /\ pc'[r] = "counting" /\ outcome = "OK" /\ Len(stack[r]) = 1
  BY <1>1 DEF LeaveSpan, Unwind, EscapeMiddleware, LeaveRequestSpan, Running, AtRoot, Goto,
              PlaceInv, TypeOK
<1>4. Len(stack[r]) >= 1
  BY <1>1, <1>3 DEF PlaceInv
<1>5. IdsOK(r)'
  BY <1>1, <1>3, <1>4, IdsEnd
<1>6. BodiesOK(r)'
  BY <1>1, <1>2, <1>3, <1>4, BodiesEnd
<1>7. DoneOK(r)'
  <2>1. outcome = "OK" /\ Top(r).name # Root =>
            BodyDone(r) /\ \A j \in Ends(r) : exported[r][j].outcome = "OK"
    <3>1. Len(stack[r]) = 1 => Top(r).name = Root
      BY <1>1, <1>4, ParentOfTop
    <3>2. pc[r] = "running" => \A j \in Ends(r) : exported[r][j].outcome = "OK"
      BY <1>1, Depths DEF AnswerOK, Ends
    <3>3. QED
      BY <1>3, <3>1, <3>2
  <2>2. QED
    BY <1>1, <1>2, <1>3, <1>4, <2>1, DoneEnd
<1>8. AnswerOK(r)'
  BY <1>1, <1>2, <1>3, <1>4, AnswerEnd
<1>9. OrderOK(r)'
  BY <1>1, <1>2, <1>3, <1>4, OrderEnd
<1>10. QED
  BY <1>5, <1>6, <1>7, <1>8, <1>9 DEF RequestOK

\* ... and so does everything else a request does.
LEMMA RequestMoves ==
    ASSUME ProcessInv, NEW r \in Requests, RequestOK(r),
           \/ TestDefaultStore(r) \/ TakeDefaultStore(r) \/ CheckReadiness(r)
           \/ Return(r) \/ Raise(r) \/ HandleException(r)
           \/ UnhandledException(r) \/ CountRequest(r)
    PROVE  RequestOK(r)'
<1>1. TypeOK /\ IdsOK(r) /\ BodiesOK(r) /\ DoneOK(r) /\ AnswerOK(r) /\ OrderOK(r)
  BY DEF ProcessInv, RequestOK
<1>2. UNCHANGED <<endpoint, stack, exported>>
  BY DEF TestDefaultStore, TakeDefaultStore, CheckReadiness, Return, Raise, HandleException,
         UnhandledException, CountRequest, requestVars, spanVars
<1>3. /\ HandlerStatus(raised[r]) \in Nat
      /\ raised[r] \in Handled => HandlerStatus(raised[r]) # 500 /\ HandlerStatus(raised[r]) >= 400
  BY DEF HandlerStatus, Handled
<1>4. /\ \/ pc'[r] = pc[r] /\ status'[r] = status[r]
         \/ pc[r] = "running" /\ pc'[r] = "raising"
         \/ pc[r] = "running" /\ pc'[r] = "responding" /\ status'[r] = 200
         \/ pc[r] = "raising" /\ pc'[r] = "responding" /\ status'[r] \in Nat
                              /\ status'[r] # 500 /\ status'[r] >= 400
         \/ pc[r] = "unhandled" /\ pc'[r] = "answered" /\ status'[r] = 500
         \/ pc[r] = "counting" /\ pc'[r] = "answered" /\ status'[r] = status[r]
  BY <1>1, <1>3 DEF TestDefaultStore, TakeDefaultStore, CheckReadiness, Return, Raise,
      HandleException, UnhandledException, CountRequest, Running, Goto, TypeOK
<1>5. IdsOK(r)'
  BY <1>1, <1>2 DEF IdsOK, Ends, Used, Opened
<1>6. BodiesOK(r)'
  BY <1>1, <1>2 DEF BodiesOK, Children, Ends, Returned
<1>7. DoneOK(r)'
  BY <1>1, <1>2, DoneKept
<1>8. AnswerOK(r)'
  BY <1>1, <1>2, <1>4, AnswerKept
<1>9. OrderOK(r)'
  BY <1>1, <1>2, <1>4, OrderKept
<1>10. QED
  BY <1>5, <1>6, <1>7, <1>8, <1>9 DEF RequestOK

\* A request's step leaves the other requests alone.
LEMMA OtherRequests ==
    ASSUME ProcessInv, NEW r \in Requests, Receive(r) \/ Handle(r)
    PROVE  /\ UNCHANGED endpoint
           /\ \A q \in Requests \ {r} : /\ stack'[q] = stack[q] /\ exported'[q] = exported[q]
                                         /\ pc'[q] = pc[q] /\ status'[q] = status[q]
<1>1. TypeOK /\ PlaceInv
  BY DEF ProcessInv
<1>2. CASE Receive(r)
  <2>1. StartSpan(r, Root) /\ Root \in SpanNames
    BY <1>2 DEF Receive, SpanNames
  <2>2. QED
    BY <1>1, <1>2, <2>1, StartEffect DEF Receive, Goto, requestVars, TypeOK
<1>3. CASE EnterSpan(r)
  <2>1. \E name \in SpanNames : StartSpan(r, name)
    BY <1>1, <1>3, EnteredName DEF EnterSpan
  <2>2. QED
    BY <1>1, <1>3, <2>1, StartEffect DEF EnterSpan, requestVars, TypeOK
<1>4. CASE LeaveSpan(r) \/ Unwind(r) \/ EscapeMiddleware(r) \/ LeaveRequestSpan(r)
  <2>1. PICK outcome \in {"OK", "ERROR"} : EndSpan(r, outcome)
    BY <1>4 DEF LeaveSpan, Unwind, EscapeMiddleware, LeaveRequestSpan
  <2>2. Len(stack[r]) >= 1
    BY <1>1, <1>4
    DEF LeaveSpan, Unwind, EscapeMiddleware, LeaveRequestSpan, Running, PlaceInv
  <2>3. \A q \in Requests \ {r} : stack'[q] = stack[q] /\ exported'[q] = exported[q]
    BY <1>1, <2>1, <2>2, EndEffect
  <2>4. QED
    BY <1>1, <1>4, <2>3 DEF LeaveSpan, Unwind, EscapeMiddleware, LeaveRequestSpan, Goto,
                            requestVars, TypeOK
<1>5. CASE \/ TestDefaultStore(r) \/ TakeDefaultStore(r) \/ CheckReadiness(r)
           \/ Return(r) \/ Raise(r) \/ HandleException(r)
           \/ UnhandledException(r) \/ CountRequest(r)
  BY <1>1, <1>5
  DEF TestDefaultStore, TakeDefaultStore, CheckReadiness, Return, Raise, HandleException,
      UnhandledException, CountRequest, requestVars, spanVars, Goto, TypeOK
<1>6. QED
  BY <1>2, <1>3, <1>4, <1>5 DEF Handle

\* Every step keeps what is known of every request.
LEMMA RequestNext == ProcessInv /\ TreeInv /\ RequestInv /\ [Next]_vars => RequestInv'
<1> SUFFICES ASSUME ProcessInv, TreeInv, RequestInv, [Next]_vars, NEW q \in Requests
             PROVE  RequestOK(q)'
  BY DEF RequestInv
<1>1. RequestOK(q)
  BY DEF RequestInv
<1>2. CASE StartUp \/ ShutDown \/ UNCHANGED vars
  BY <1>1, <1>2, RequestUntouched DEF StartUp, ShutDown, requestVars, spanVars, vars
<1>3. ASSUME NEW r \in Requests, Receive(r) \/ Handle(r) PROVE RequestOK(q)'
  <2>1. CASE q # r
    <3>1. /\ UNCHANGED endpoint /\ stack'[q] = stack[q] /\ exported'[q] = exported[q]
          /\ pc'[q] = pc[q] /\ status'[q] = status[q]
      BY <1>3, <2>1, OtherRequests
    <3>2. QED
      BY <1>1, <3>1, RequestUntouched
  <2>2. CASE q = r
    <3>1. RequestOK(r)
      BY <1>1, <2>2
    <3>2. CASE Receive(r) \/ EnterSpan(r)
      BY <2>2, <3>1, <3>2, RequestStart
    <3>3. CASE LeaveSpan(r) \/ Unwind(r) \/ EscapeMiddleware(r) \/ LeaveRequestSpan(r)
      BY <2>2, <3>1, <3>3, RequestEnd
    <3>4. CASE \/ TestDefaultStore(r) \/ TakeDefaultStore(r) \/ CheckReadiness(r)
               \/ Return(r) \/ Raise(r) \/ HandleException(r)
               \/ UnhandledException(r) \/ CountRequest(r)
      BY <2>2, <3>1, <3>4, RequestMoves
    <3>5. QED
      BY <1>3, <3>2, <3>3, <3>4 DEF Handle
  <2>3. QED
    BY <2>1, <2>2
<1>4. QED
  BY <1>2, <1>3 DEF Next

\* What is known of a request is known throughout.
LEMMA RequestInvCorrect == Spec => []RequestInv
<1>1. Init => RequestInv
  BY RequestInit
<1>2. ProcessInv /\ TreeInv /\ RequestInv /\ [Next]_vars => RequestInv'
  BY RequestNext
<1>3. QED
  BY <1>1, <1>2, ProcessInvCorrect, TreeInvCorrect, PTL DEF Spec

\* The outcomes of the spans tell where an exception passed (ErrorsReachHandler):
\* start_span marks ERROR what an exception goes through, the handlers answer it
\* with a status of 400 or more, and what is OK has all its calls OK.
THEOREM ErrorsReachHandlerCorrect == Spec => []ErrorsReachHandler
<1>1. RequestInv => ErrorsReachHandler
  <2> SUFFICES ASSUME RequestInv, NEW r \in Requests, NEW i \in Ends(r)
               PROVE  IF exported[r][i].name = Root
                        THEN Answered(r) => (exported[r][i].outcome = "ERROR" <=> status[r] = 500)
                        ELSE /\ exported[r][i].outcome = "OK" =>
                                   /\ Cardinality(Children(r, exported[r][i].span))
                                          = Len(Calls(endpoint[r], exported[r][i].name))
                                   /\ \A j \in Children(r, exported[r][i].span) :
                                         exported[r][j].outcome = "OK"
                             /\ exported[r][i].outcome = "ERROR" /\ Answered(r) => status[r] >= 400
    BY DEF ErrorsReachHandler
  <2>1. DoneOK(r) /\ AnswerOK(r)
    BY DEF RequestInv, RequestOK
  <2>2. CASE exported[r][i].name = Root
    BY <2>1, <2>2 DEF AnswerOK, Answered
  <2>3. CASE exported[r][i].name # Root
    <3>1. exported[r][i].outcome = "OK" =>
              /\ Cardinality(Children(r, exported[r][i].span))
                     = Len(Calls(endpoint[r], exported[r][i].name))
              /\ \A j \in Children(r, exported[r][i].span) : exported[r][j].outcome = "OK"
      BY <2>1, <2>3 DEF DoneOK
    <3>2. exported[r][i].outcome = "ERROR" /\ Answered(r) => status[r] >= 400
      BY <2>1 DEF AnswerOK, Answered
    <3>3. QED
      BY <2>3, <3>1, <3>2
  <2>4. QED
    BY <2>2, <2>3
<1>2. QED
  BY <1>1, RequestInvCorrect, PTL

-----------------------------------------------------------------------------
(***************************************************************************)
(* The counters.                                                           *)
(***************************************************************************)
\* The i-th ended span of r is of a kind, before a step and after it.
OfKind(r, i, name, outcome) ==
    i \in Ends(r) /\ exported[r][i].name = name /\ exported[r][i].outcome = outcome
NextOfKind(r, i, name, outcome) ==
    /\ i \in 1..Len(exported'[r])
    /\ exported'[r][i].name = name /\ exported'[r][i].outcome = outcome

\* The ended spans of a kind, and the requests that have one, after a step.
NextThose(name, outcome) ==
    UNION {{<<r, i>> : i \in {k \in 1..Len(exported'[r]) :
        exported'[r][k].name = name /\ exported'[r][k].outcome = outcome}} : r \in Requests}
NextEnders(name, outcome) ==
    {r \in Requests : \E i \in 1..Len(exported'[r]) :
        exported'[r][i].name = name /\ exported'[r][i].outcome = outcome}

\* Ending a span adds it to its kind, where it was not, and to no other.
LEMMA EndersEnd ==
    ASSUME TypeOK, NEW r \in Requests, Len(stack[r]) >= 1, NEW outcome \in {"OK", "ERROR"},
           EndSpan(r, outcome), NEW name, NEW o
    PROVE  IF Top(r).name = name /\ outcome = o
             THEN /\ NextThose(name, o) = Those(name, o) \cup {<<r, Len(exported[r]) + 1>>}
                  /\ <<r, Len(exported[r]) + 1>> \notin Those(name, o)
                  /\ NextEnders(name, o) = Enders(name, o) \cup {r}
             ELSE /\ NextThose(name, o) = Those(name, o)
                  /\ NextEnders(name, o) = Enders(name, o)
<1> DEFINE e == Len(exported[r])
           k == e + 1
<1>1. /\ e \in Nat /\ Len(exported'[r]) = k
      /\ \A i \in 1..e : exported'[r][i] = exported[r][i]
      /\ exported'[r][k].name = Top(r).name
      /\ exported'[r][k].outcome = outcome
      /\ \A q \in Requests \ {r} : exported'[q] = exported[q]
  BY Depths, EndEffect DEF Ends
<1>2. \A x : x \in Those(name, o) <=>
          \E q \in Requests : \E i : x = <<q, i>> /\ OfKind(q, i, name, o)
  BY DEF Those, OfKind
<1>3. \A x : x \in NextThose(name, o) <=>
          \E q \in Requests : \E i : x = <<q, i>> /\ NextOfKind(q, i, name, o)
  BY DEF NextThose, NextOfKind
<1>4. \A q : q \in Enders(name, o) <=> q \in Requests /\ \E i : OfKind(q, i, name, o)
  BY DEF Enders, EndedAs, OfKind
<1>5. \A q : q \in NextEnders(name, o) <=> q \in Requests /\ \E i : NextOfKind(q, i, name, o)
  BY DEF NextEnders, NextOfKind
<1>6. Ends(r) = 1..e
  BY DEF Ends
<1> HIDE DEF e
<1>7. 1..k = 1..e \cup {k} /\ k \notin 1..e
  BY <1>1 DEF k
<1> HIDE DEF k
<1>8. ASSUME NEW q \in Requests, NEW i
      PROVE  NextOfKind(q, i, name, o) <=>
                 \/ OfKind(q, i, name, o)
                 \/ q = r /\ i = k /\ Top(r).name = name /\ outcome = o
  <2>1. CASE q # r
    BY <1>1, <2>1 DEF NextOfKind, OfKind, Ends
  <2>2. CASE q = r /\ i \in 1..e
    BY <1>1, <1>6, <1>7, <2>2 DEF NextOfKind, OfKind
  <2>3. CASE q = r /\ i = k
    BY <1>1, <1>6, <1>7, <2>3 DEF NextOfKind, OfKind
  <2>4. CASE q = r /\ i \notin 1..k
    BY <1>1, <1>6, <1>7, <2>4 DEF NextOfKind, OfKind
  <2>5. QED
    BY <1>7, <2>1, <2>2, <2>3, <2>4
<1>9. ~OfKind(r, k, name, o)
  BY <1>6, <1>7 DEF OfKind
<1>10. CASE Top(r).name = name /\ outcome = o
  <2>1. \A x : x \in NextThose(name, o) <=> x \in Those(name, o) \/ x = <<r, k>>
    BY <1>2, <1>3, <1>8, <1>10
  <2>2. \A q : q \in NextEnders(name, o) <=> q \in Enders(name, o) \/ q = r
    BY <1>4, <1>5, <1>8, <1>10
  <2>3. <<r, k>> \notin Those(name, o)
    <3>1. \A q, i : <<r, k>> = <<q, i>> => q = r /\ i = k
      OBVIOUS
    <3>2. QED
      BY <1>2, <1>9, <3>1
  <2>4. /\ NextThose(name, o) = Those(name, o) \cup {<<r, k>>}
        /\ NextEnders(name, o) = Enders(name, o) \cup {r}
    BY <2>1, <2>2
  <2>5. QED
    BY <1>10, <2>3, <2>4 DEF k, e
<1>11. CASE ~(Top(r).name = name /\ outcome = o)
  <2>1. \A x : x \in NextThose(name, o) <=> x \in Those(name, o)
    BY <1>2, <1>3, <1>8, <1>11
  <2>2. \A q : q \in NextEnders(name, o) <=> q \in Enders(name, o)
    BY <1>4, <1>5, <1>8, <1>11
  <2>3. NextThose(name, o) = Those(name, o) /\ NextEnders(name, o) = Enders(name, o)
    BY <2>1, <2>2
  <2>4. QED
    BY <1>11, <2>3
<1>12. QED
  BY <1>10, <1>11

\* What the counters are after a step.
LEMMA Increments ==
    ASSUME TypeOK, NEW counters, Increment(counters)
    PROVE  \A m \in {"requests", "errors", "decisions", "reviews", "provider_failures"} :
               metrics'[m] = metrics[m] + (IF m \in counters THEN 1 ELSE 0)
<1>1. ASSUME NEW m \in {"requests", "errors", "decisions", "reviews", "provider_failures"}
      PROVE  metrics'[m] = metrics[m] + (IF m \in counters THEN 1 ELSE 0)
  <2>1. m \in DOMAIN metrics /\ metrics[m] \in Nat
    BY DEF TypeOK
  <2>2. metrics'[m] = IF m \in counters THEN metrics[m] + 1 ELSE metrics[m]
    BY <2>1 DEF Increment
  <2>3. QED
    BY <2>1, <2>2
<1>2. QED
  BY <1>1

\* A set that gains one member it did not have is one larger.
LEMMA OneMore ==
    ASSUME NEW S, IsFiniteSet(S), NEW x, x \notin S
    PROVE  IsFiniteSet(S \cup {x}) /\ Cardinality(S \cup {x}) = Cardinality(S) + 1
BY FS_AddElement

\* While no span ends, the kinds of the ended spans stay.
LEMMA SpansKept ==
    ASSUME SpansCounted, exported' = exported,
           \A m \in {"decisions", "reviews", "provider_failures"} : metrics'[m] = metrics[m]
    PROVE  SpansCounted'
<1>1. /\ Decisions' = Decisions /\ ProviderFailures' = ProviderFailures
      /\ Deciders' = Deciders /\ ReviewOpeners' = ReviewOpeners
  BY DEF Decisions, ProviderFailures, Deciders, ReviewOpeners, Those, Enders, EndedAs, Ends
<1>2. QED
  BY <1>1 DEF SpansCounted

\* A span that ends is counted as its kind says.
LEMMA SpansEnd ==
    ASSUME TypeOK, TreeInv, NEW r \in Requests, RequestOK(r), SpansCounted,
           Len(stack[r]) >= 1, NEW outcome \in {"OK", "ERROR"}, EndSpan(r, outcome),
           \A m \in {"decisions", "provider_failures"} : metrics[m] \in Nat,
           metrics["reviews"] \in Nat, metrics'["reviews"] \in Nat,
           metrics'["decisions"] = metrics["decisions"]
               + (IF Top(r).name = "decision_policy.assess" /\ outcome = "OK" THEN 1 ELSE 0),
           metrics'["provider_failures"] = metrics["provider_failures"]
               + (IF Top(r).name = "document_intelligence.extract" /\ outcome = "ERROR"
                    THEN 1 ELSE 0),
           metrics'["reviews"] <= metrics["reviews"]
               + (IF Top(r).name = "review.open" /\ outcome = "OK" THEN 1 ELSE 0)
    PROVE  SpansCounted'
<1> DEFINE x == <<r, Len(exported[r]) + 1>>
<1>1. /\ Decisions' = NextThose("decision_policy.assess", "OK")
      /\ ProviderFailures' = NextThose("document_intelligence.extract", "ERROR")
      /\ Deciders' = NextEnders("decision_policy.assess", "OK")
      /\ ReviewOpeners' = NextEnders("review.open", "OK")
  BY DEF Decisions, ProviderFailures, Deciders, ReviewOpeners, Those, Enders, EndedAs, Ends,
         NextThose, NextEnders
<1>2. IF Top(r).name = "decision_policy.assess" /\ outcome = "OK"
        THEN Decisions' = Decisions \cup {x} /\ x \notin Decisions /\ Deciders' = Deciders \cup {r}
        ELSE Decisions' = Decisions /\ Deciders' = Deciders
  BY <1>1, EndersEnd DEF Decisions, Deciders
<1>3. IF Top(r).name = "document_intelligence.extract" /\ outcome = "ERROR"
        THEN ProviderFailures' = ProviderFailures \cup {x} /\ x \notin ProviderFailures
        ELSE ProviderFailures' = ProviderFailures
  BY <1>1, EndersEnd DEF ProviderFailures
<1>4. IF Top(r).name = "review.open" /\ outcome = "OK"
        THEN ReviewOpeners' = ReviewOpeners \cup {r} /\ r \notin ReviewOpeners
        ELSE ReviewOpeners' = ReviewOpeners
  <2>1. IF Top(r).name = "review.open" /\ outcome = "OK"
          THEN ReviewOpeners' = ReviewOpeners \cup {r}
          ELSE ReviewOpeners' = ReviewOpeners
    <3>1. IF Top(r).name = "review.open" /\ outcome = "OK"
            THEN NextEnders("review.open", "OK") = Enders("review.open", "OK") \cup {r}
            ELSE NextEnders("review.open", "OK") = Enders("review.open", "OK")
      <4>1. ASSUME NEW name, NEW o
            PROVE  IF Top(r).name = name /\ outcome = o
                     THEN /\ NextThose(name, o)
                                 = Those(name, o) \cup {<<r, Len(exported[r]) + 1>>}
                          /\ <<r, Len(exported[r]) + 1>> \notin Those(name, o)
                          /\ NextEnders(name, o) = Enders(name, o) \cup {r}
                     ELSE /\ NextThose(name, o) = Those(name, o)
                          /\ NextEnders(name, o) = Enders(name, o)
        BY EndersEnd
      <4>2. QED
        BY <4>1
    <3>2. ReviewOpeners = Enders("review.open", "OK")
      BY DEF ReviewOpeners
    <3>3. QED
      BY <1>1, <3>1, <3>2
  <2>2. ASSUME Top(r).name = "review.open" PROVE r \notin ReviewOpeners
    <3>1. BodiesOK(r) /\ OrderOK(r)
      BY DEF RequestOK
    <3>2. Returned(r, 1) = 1 /\ Len(stack[r]) = 2
      BY <2>2, <3>1, ReviewTop
    <3>3. ~(\E i \in Ends(r) : exported[r][i].name = "review.open")
      BY <3>1, <3>2 DEF OrderOK
    <3>4. QED
      BY <3>3 DEF ReviewOpeners, Enders, EndedAs
  <2>3. QED
    BY <2>1, <2>2
<1> HIDE DEF x
<1>5. /\ IsFiniteSet(Decisions) /\ metrics["decisions"] = Cardinality(Decisions)
      /\ IsFiniteSet(ProviderFailures)
      /\ metrics["provider_failures"] = Cardinality(ProviderFailures)
      /\ IsFiniteSet(Deciders) /\ Cardinality(Deciders) <= metrics["decisions"]
      /\ IsFiniteSet(ReviewOpeners) /\ metrics["reviews"] <= Cardinality(ReviewOpeners)
      /\ Cardinality(Deciders) \in Nat /\ Cardinality(ReviewOpeners) \in Nat
  BY FS_CardinalityType DEF SpansCounted
<1>6. IsFiniteSet(Decisions') /\ metrics'["decisions"] = Cardinality(Decisions')
  <2>1. CASE Top(r).name = "decision_policy.assess" /\ outcome = "OK"
    BY <1>2, <1>5, <2>1, OneMore
  <2>2. CASE ~(Top(r).name = "decision_policy.assess" /\ outcome = "OK")
    BY <1>2, <1>5, <2>2
  <2>3. QED
    BY <2>1, <2>2
<1>7. IsFiniteSet(ProviderFailures')
      /\ metrics'["provider_failures"] = Cardinality(ProviderFailures')
  <2>1. CASE Top(r).name = "document_intelligence.extract" /\ outcome = "ERROR"
    BY <1>3, <1>5, <2>1, OneMore
  <2>2. CASE ~(Top(r).name = "document_intelligence.extract" /\ outcome = "ERROR")
    BY <1>3, <1>5, <2>2
  <2>3. QED
    BY <2>1, <2>2
<1>8. IsFiniteSet(Deciders') /\ Cardinality(Deciders') <= metrics'["decisions"]
  <2>1. CASE Top(r).name = "decision_policy.assess" /\ outcome = "OK"
    <3>1. /\ IsFiniteSet(Deciders \cup {r})
          /\ \/ Cardinality(Deciders \cup {r}) = Cardinality(Deciders)
             \/ Cardinality(Deciders \cup {r}) = Cardinality(Deciders) + 1
      BY <1>5, FS_AddElement
    <3>2. metrics'["decisions"] = metrics["decisions"] + 1 /\ metrics["decisions"] \in Nat
      BY <2>1
    <3>3. \A a, b, c \in Nat : a <= c /\ (b = a \/ b = a + 1) => b <= c + 1
      OBVIOUS
    <3>4. Cardinality(Deciders \cup {r}) \in Nat
      BY <3>1, FS_CardinalityType
    <3>5. Cardinality(Deciders \cup {r}) <= metrics["decisions"] + 1
      BY <1>5, <3>1, <3>2, <3>3, <3>4
    <3>6. Deciders' = Deciders \cup {r}
      BY <1>2, <2>1
    <3>7. QED
      BY <3>1, <3>2, <3>5, <3>6
  <2>2. CASE ~(Top(r).name = "decision_policy.assess" /\ outcome = "OK")
    <3>1. metrics'["decisions"] = metrics["decisions"]
      BY <2>2
    <3>2. QED
      BY <1>2, <1>5, <2>2, <3>1
  <2>3. QED
    BY <2>1, <2>2
<1>9. IsFiniteSet(ReviewOpeners') /\ metrics'["reviews"] <= Cardinality(ReviewOpeners')
  <2>1. CASE Top(r).name = "review.open" /\ outcome = "OK"
    <3>1. /\ IsFiniteSet(ReviewOpeners')
          /\ Cardinality(ReviewOpeners') = Cardinality(ReviewOpeners) + 1
      BY <1>4, <1>5, <2>1, OneMore
    <3>2. metrics'["reviews"] <= metrics["reviews"] + 1
      BY <2>1
    <3>3. \A a, b, c \in Nat : a <= c /\ b <= a + 1 => b <= c + 1
      OBVIOUS
    <3>4. metrics'["reviews"] <= Cardinality(ReviewOpeners) + 1
      BY <1>5, <3>2, <3>3
    <3>5. QED
      BY <3>1, <3>4
  <2>2. CASE ~(Top(r).name = "review.open" /\ outcome = "OK")
    <3>1. metrics'["reviews"] <= metrics["reviews"]
      BY <2>2
    <3>2. QED
      BY <1>4, <1>5, <2>2, <3>1
  <2>3. QED
    BY <2>1, <2>2
<1>10. QED
  BY <1>6, <1>7, <1>8, <1>9 DEF SpansCounted

\* While no answer is given, the answers counted stay.
LEMMA AnswersKept ==
    ASSUME AnswersCounted, metrics'["requests"] = metrics["requests"],
           metrics'["errors"] = metrics["errors"],
           \A q \in Requests : /\ pc'[q] = "answered" <=> pc[q] = "answered"
                               /\ pc[q] = "answered" => status'[q] = status[q]
    PROVE  AnswersCounted'
<1>1. Counted' = Counted /\ Failed' = Failed
  BY DEF Counted, Failed, Answered
<1>2. QED
  BY <1>1 DEF AnswersCounted

\* Nothing is counted before the first request.
LEMMA CountersInit == Init => CountersInv
<1> SUFFICES ASSUME Init PROVE CountersInv
  OBVIOUS
<1>1. /\ \A r \in Requests : pc[r] = "new" /\ Ends(r) = {}
      /\ \A m \in {"requests", "errors", "decisions", "reviews", "provider_failures"} :
            metrics[m] = 0
  BY DEF Init, Ends
<1>2. Counted = {} /\ Failed = {}
  BY <1>1 DEF Counted, Failed, Answered
<1>3. Decisions = {} /\ ProviderFailures = {} /\ Deciders = {} /\ ReviewOpeners = {}
  BY <1>1 DEF Decisions, ProviderFailures, Deciders, ReviewOpeners, Those, Enders, EndedAs
<1>4. IsFiniteSet({}) /\ Cardinality({}) = 0
  BY FS_EmptySet
<1>5. QED
  BY <1>1, <1>2, <1>3, <1>4 DEF CountersInv, AnswersCounted, SpansCounted

\* An answer is counted when it is given, in the middleware or by the handler of
\* unhandled exceptions.
LEMMA AnswersNext ==
    ProcessInv /\ RequestInv /\ AnswersCounted /\ [Next]_vars => AnswersCounted'
<1> SUFFICES ASSUME ProcessInv, RequestInv, AnswersCounted, [Next]_vars PROVE AnswersCounted'
  OBVIOUS
<1>1. TypeOK
  BY DEF ProcessInv
<1>2. /\ IsFiniteSet(Counted) /\ metrics["requests"] = Cardinality(Counted)
      /\ IsFiniteSet(Failed) /\ metrics["errors"] = Cardinality(Failed)
  BY DEF AnswersCounted
<1>3. CASE StartUp \/ ShutDown \/ UNCHANGED vars
  BY <1>3, AnswersKept DEF StartUp, ShutDown, vars
<1>4. ASSUME NEW r \in Requests,
             \/ Receive(r) \/ TestDefaultStore(r) \/ TakeDefaultStore(r) \/ CheckReadiness(r)
             \/ EnterSpan(r) \/ Return(r) \/ Raise(r) \/ HandleException(r)
             \/ EscapeMiddleware(r) \/ LeaveRequestSpan(r)
      PROVE  AnswersCounted'
  <2>1. metrics' = metrics
    BY <1>4 DEF Receive, TestDefaultStore, TakeDefaultStore, CheckReadiness, EnterSpan, Return,
                Raise, HandleException, EscapeMiddleware, LeaveRequestSpan
  <2>2. \A q \in Requests : /\ pc'[q] = "answered" <=> pc[q] = "answered"
                            /\ pc[q] = "answered" => status'[q] = status[q]
    BY <1>1, <1>4
    DEF Receive, TestDefaultStore, TakeDefaultStore, CheckReadiness, EnterSpan, Return, Raise,
        HandleException, EscapeMiddleware, LeaveRequestSpan, Running, Goto, TypeOK
  <2>3. QED
    BY <2>1, <2>2, AnswersKept
<1>5. ASSUME NEW r \in Requests, LeaveSpan(r) \/ Unwind(r) PROVE AnswersCounted'
  <2>1. PICK counters \in {{}, {"decisions"}, {"reviews"}, {"provider_failures"}} :
            Increment(counters)
    BY <1>5 DEF LeaveSpan, Unwind, CountedAfter
  <2>2. metrics'["requests"] = metrics["requests"] /\ metrics'["errors"] = metrics["errors"]
    <3>1. "requests" \notin counters /\ "errors" \notin counters
      BY <2>1
    <3>2. metrics["requests"] \in Nat /\ metrics["errors"] \in Nat
      BY <1>1 DEF TypeOK
    <3>3. QED
      BY <1>1, <2>1, <3>1, <3>2, Increments
  <2>3. pc' = pc /\ status' = status
    BY <1>5 DEF LeaveSpan, Unwind
  <2>4. QED
    BY <2>2, <2>3, AnswersKept
<1>6. ASSUME NEW r \in Requests, UnhandledException(r) \/ CountRequest(r) PROVE AnswersCounted'
  <2>1. /\ pc[r] # "answered" /\ pc'[r] = "answered"
        /\ \A q \in Requests \ {r} : pc'[q] = pc[q] /\ status'[q] = status[q]
    BY <1>1, <1>6 DEF UnhandledException, CountRequest, Goto, TypeOK
  <2>2. /\ Counted' = IF status'[r] # 500 THEN Counted \cup {r} ELSE Counted
        /\ Failed' = IF status'[r] >= 400 THEN Failed \cup {r} ELSE Failed
        /\ r \notin Counted /\ r \notin Failed
    BY <2>1 DEF Counted, Failed, Answered
  <2>3. PICK counters : /\ Increment(counters)
                        /\ "requests" \in counters <=> status'[r] # 500
                        /\ "errors" \in counters <=> status'[r] >= 400
    <3>1. CASE UnhandledException(r)
      <4>1. status'[r] = 500 /\ Increment({"errors"})
        BY <1>1, <3>1 DEF UnhandledException, TypeOK
      <4>2. QED
        BY <4>1
    <3>2. CASE CountRequest(r)
      <4>1. status'[r] = status[r] /\ status[r] # 500 /\ Increment(CountersOf(r))
        BY <3>2 DEF CountRequest, RequestInv, RequestOK, AnswerOK
      <4>2. /\ "requests" \in CountersOf(r)
            /\ "errors" \in CountersOf(r) <=> status[r] >= 400
        BY DEF CountersOf
      <4>3. QED
        BY <4>1, <4>2
    <3>3. QED
      BY <1>6, <3>1, <3>2
  <2>4. /\ metrics'["requests"] = metrics["requests"] + (IF status'[r] # 500 THEN 1 ELSE 0)
        /\ metrics'["errors"] = metrics["errors"] + (IF status'[r] >= 400 THEN 1 ELSE 0)
        /\ metrics["requests"] \in Nat /\ metrics["errors"] \in Nat
    <3>1. metrics["requests"] \in Nat /\ metrics["errors"] \in Nat
      BY <1>1 DEF TypeOK
    <3>2. /\ metrics'["requests"] = metrics["requests"] + (IF "requests" \in counters THEN 1 ELSE 0)
          /\ metrics'["errors"] = metrics["errors"] + (IF "errors" \in counters THEN 1 ELSE 0)
      BY <1>1, <2>3, Increments
    <3>3. QED
      BY <2>3, <3>1, <3>2
  <2>5. IsFiniteSet(Counted') /\ metrics'["requests"] = Cardinality(Counted')
    <3>1. CASE status'[r] # 500
      BY <1>2, <2>2, <2>4, <3>1, OneMore
    <3>2. CASE status'[r] = 500
      BY <1>2, <2>2, <2>4, <3>2
    <3>3. QED
      BY <3>1, <3>2
  <2>6. IsFiniteSet(Failed') /\ metrics'["errors"] = Cardinality(Failed')
    <3>1. CASE status'[r] >= 400
      BY <1>2, <2>2, <2>4, <3>1, OneMore
    <3>2. CASE ~(status'[r] >= 400)
      BY <1>2, <2>2, <2>4, <3>2
    <3>3. QED
      BY <3>1, <3>2
  <2>7. QED
    BY <2>5, <2>6 DEF AnswersCounted
<1>7. QED
  BY <1>3, <1>4, <1>5, <1>6 DEF Next, Handle

\* A decision, a review and a failed extraction are counted as their spans end.
LEMMA SpansNext ==
    ProcessInv /\ TreeInv /\ RequestInv /\ SpansCounted /\ [Next]_vars => SpansCounted'
<1> SUFFICES ASSUME ProcessInv, TreeInv, RequestInv, SpansCounted, [Next]_vars
             PROVE  SpansCounted'
  OBVIOUS
<1>1. /\ TypeOK /\ PlaceInv
      /\ \A m \in {"requests", "errors", "decisions", "reviews", "provider_failures"} :
            metrics[m] \in Nat
  BY DEF ProcessInv, TypeOK
<1>2. CASE StartUp \/ ShutDown \/ UNCHANGED vars
  BY <1>2, SpansKept DEF StartUp, ShutDown, spanVars, vars
<1>3. ASSUME NEW r \in Requests,
             \/ Receive(r) \/ TestDefaultStore(r) \/ TakeDefaultStore(r) \/ CheckReadiness(r)
             \/ EnterSpan(r) \/ Return(r) \/ Raise(r) \/ HandleException(r)
      PROVE  SpansCounted'
  <2>1. metrics' = metrics /\ exported' = exported
    BY <1>3 DEF Receive, TestDefaultStore, TakeDefaultStore, CheckReadiness, EnterSpan, Return,
                Raise, HandleException, StartSpan, spanVars
  <2>2. QED
    BY <2>1, SpansKept
<1>4. ASSUME NEW r \in Requests, UnhandledException(r) \/ CountRequest(r) PROVE SpansCounted'
  <2>1. exported' = exported /\ \E counters \in SUBSET {"requests", "errors"} : Increment(counters)
    BY <1>4 DEF UnhandledException, CountRequest, CountersOf, spanVars
  <2>2. PICK counters \in SUBSET {"requests", "errors"} : Increment(counters)
    BY <2>1
  <2>3. \A m \in {"decisions", "reviews", "provider_failures"} :
            metrics'[m] = metrics[m] + 0 /\ metrics[m] \in Nat
    BY <1>1, <2>2, Increments
  <2>4. QED
    BY <2>1, <2>3, SpansKept
<1>5. ASSUME NEW r \in Requests,
             LeaveSpan(r) \/ Unwind(r) \/ EscapeMiddleware(r) \/ LeaveRequestSpan(r)
      PROVE  SpansCounted'
  <2>1. Len(stack[r]) >= 1
    BY <1>5
    DEF ProcessInv, LeaveSpan, Unwind, EscapeMiddleware, LeaveRequestSpan, Running, PlaceInv
  <2>2. Len(stack[r]) = 1 => Top(r).name = Root
    BY <1>1, <2>1, ParentOfTop
  <2>3. PICK outcome \in {"OK", "ERROR"} :
           /\ EndSpan(r, outcome)
           /\ metrics'["decisions"] = metrics["decisions"]
                + (IF Top(r).name = "decision_policy.assess" /\ outcome = "OK" THEN 1 ELSE 0)
           /\ metrics'["provider_failures"] = metrics["provider_failures"]
                + (IF Top(r).name = "document_intelligence.extract" /\ outcome = "ERROR"
                     THEN 1 ELSE 0)
           /\ metrics'["reviews"] \in Nat
           /\ metrics'["reviews"] <= metrics["reviews"]
                + (IF Top(r).name = "review.open" /\ outcome = "OK" THEN 1 ELSE 0)
    <3>1. CASE LeaveSpan(r)
      <4>1. EndSpan(r, "OK") /\ \E counters \in CountedAfter(Top(r).name) : Increment(counters)
        BY <3>1 DEF LeaveSpan
      <4>2. PICK counters \in CountedAfter(Top(r).name) : Increment(counters)
        BY <4>1
      <4>3. /\ "decisions" \in counters <=> Top(r).name = "decision_policy.assess"
            /\ "provider_failures" \notin counters
            /\ "reviews" \in counters => Top(r).name = "review.open"
        BY <4>2 DEF CountedAfter
      <4>4. \A m \in {"decisions", "reviews", "provider_failures"} :
                metrics'[m] = metrics[m] + (IF m \in counters THEN 1 ELSE 0)
        BY <1>1, <4>2, Increments
      <4>5. QED
        BY <1>1, <4>1, <4>3, <4>4
    <3>2. CASE Unwind(r)
      <4>1. /\ EndSpan(r, "ERROR")
            /\ Increment(IF Top(r).name = "document_intelligence.extract"
                           THEN {"provider_failures"} ELSE {})
        BY <3>2 DEF Unwind
      <4>2. PICK counters : /\ Increment(counters)
                            /\ counters = IF Top(r).name = "document_intelligence.extract"
                                            THEN {"provider_failures"} ELSE {}
        BY <4>1
      <4>3. /\ "decisions" \notin counters /\ "reviews" \notin counters
            /\ "provider_failures" \in counters <=> Top(r).name = "document_intelligence.extract"
        BY <4>2
      <4>4. \A m \in {"decisions", "reviews", "provider_failures"} :
                metrics'[m] = metrics[m] + (IF m \in counters THEN 1 ELSE 0)
        BY <1>1, <4>2, Increments
      <4>5. QED
        BY <1>1, <4>1, <4>3, <4>4
    <3>3. CASE EscapeMiddleware(r) \/ LeaveRequestSpan(r)
      <4>1. metrics' = metrics /\ \E outcome \in {"OK", "ERROR"} : EndSpan(r, outcome)
        BY <3>3 DEF EscapeMiddleware, LeaveRequestSpan
      <4>2. Top(r).name = Root
        BY <1>1, <2>2, <3>3 DEF EscapeMiddleware, LeaveRequestSpan, AtRoot, PlaceInv
      <4>3. Root \notin {"decision_policy.assess", "document_intelligence.extract", "review.open"}
        BY DEF Root
      <4>4. \A m \in {"decisions", "reviews", "provider_failures"} : metrics'[m] = metrics[m] + 0
        BY <1>1, <4>1
      <4>5. QED
        BY <1>1, <4>1, <4>2, <4>3, <4>4
    <3>4. QED
      BY <1>5, <3>1, <3>2, <3>3
  <2>4. RequestOK(r)
    BY DEF RequestInv
  <2>5. QED
    BY <1>1, <2>1, <2>3, <2>4, SpansEnd
<1>6. QED
  BY <1>2, <1>3, <1>4, <1>5 DEF Next, Handle

\* The counters agree with the answers and with the traces (MetricsAgree): the
\* middleware and the handler of unhandled exceptions count every answer once,
\* assess counts each decision with its span, and a review is counted by a request
\* that has decided.
THEOREM MetricsAgreeCorrect == Spec => []MetricsAgree
<1>1. Init => CountersInv
  BY CountersInit
<1>2. ProcessInv /\ TreeInv /\ RequestInv /\ CountersInv /\ [Next]_vars => CountersInv'
  BY AnswersNext, SpansNext DEF CountersInv
<1>3. ProcessInv /\ RequestInv /\ CountersInv => MetricsAgree
  <2> SUFFICES ASSUME TypeOK, RequestInv, AnswersCounted, SpansCounted PROVE MetricsAgree
    BY DEF CountersInv, ProcessInv
  <2>1. ReviewOpeners \subseteq Deciders
    BY DEF ReviewOpeners, Deciders, Enders, RequestInv, RequestOK, OrderOK, ReviewOpened, Decided
  <2>2. /\ IsFiniteSet(Deciders) /\ Cardinality(Deciders) <= metrics["decisions"]
        /\ IsFiniteSet(ReviewOpeners) /\ metrics["reviews"] <= Cardinality(ReviewOpeners)
    BY DEF SpansCounted
  <2>3. Cardinality(ReviewOpeners) <= Cardinality(Deciders)
    BY <2>1, <2>2, FS_Subset
  <2>4. Cardinality(ReviewOpeners) \in Nat /\ Cardinality(Deciders) \in Nat
    BY <2>2, FS_CardinalityType
  <2>5. metrics["reviews"] \in Nat /\ metrics["decisions"] \in Nat
    BY DEF TypeOK
  <2>6. metrics["reviews"] <= metrics["decisions"]
    BY <2>2, <2>3, <2>4, <2>5
  <2>7. QED
    BY <2>6 DEF MetricsAgree, AnswersCounted, SpansCounted, Counted, Failed, Decisions,
                ProviderFailures
<1>4. QED
  BY <1>1, <1>2, <1>3, ProcessInvCorrect, TreeInvCorrect, RequestInvCorrect, PTL DEF Spec
=============================================================================
