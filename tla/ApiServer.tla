------------------------------ MODULE ApiServer ------------------------------
(***************************************************************************)
(* One server process around its endpoints: the lifespan and the default   *)
(* review store (src/src/app.py, src/src/review/__init__.py), the          *)
(* correlation middleware and the exception handlers (src/src/app.py), the *)
(* trace context and the span stack (src/src/observability) and the        *)
(* counters of /metrics.                                                   *)
(*                                                                         *)
(* What an endpoint computes is in the other modules.  Here it is the tree *)
(* of spans its code opens, any of which an exception may end.  Handlers   *)
(* run on threads, so the spans of several requests interleave while they  *)
(* share _current_span_id.                                                 *)
(***************************************************************************)
EXTENDS Integers, Sequences, FiniteSets

CONSTANTS
    Requests,       \* the requests the process is sent
    Endpoints,      \* the endpoints they call
    CorrelationIds, \* what they carry as x-correlation-id, or are given
    Documents,      \* how many documents a case has
    MaxStarts       \* bound: lifespans within one process

EndpointKinds == {"document", "case", "open", "review", "ready", "other"}
ASSUME EndpointsAssumption == Endpoints \subseteq EndpointKinds
ASSUME DocumentsAssumption == Documents \in Nat
ASSUME StartsAssumption == MaxStarts \in Nat

\* The endpoints that depend on the review store.
StoreEndpoints == {"open", "review", "ready"}
-----------------------------------------------------------------------------
(* The spans of the code, and what may end one of them early. *)

Root == "http.request"
SpanNames == {Root, "service.verify_case", "service.verify_document",
              "document_intelligence.extract", "evidence_validation.validate_document",
              "fraud_signals.assess_document", "identity_resolution.resolve",
              "evidence_validation.validate_case", "fraud_signals.assess_case",
              "decision_policy.assess", "review.open"}

VerifyDocumentSpans == <<"document_intelligence.extract",
                         "evidence_validation.validate_document",
                         "fraud_signals.assess_document">>

VerifyCaseSpans == [i \in 1..(Documents + 4) |->
    CASE i = Documents + 1 -> "identity_resolution.resolve"
      [] i = Documents + 2 -> "evidence_validation.validate_case"
      [] i = Documents + 3 -> "fraud_signals.assess_case"
      [] i = Documents + 4 -> "decision_policy.assess"
      [] OTHER             -> "service.verify_document"]

EndpointSpans(endpoint) ==
    CASE endpoint = "document" -> <<"service.verify_document">>
      [] endpoint = "case"     -> <<"service.verify_case">>
      [] endpoint = "open"     -> <<"service.verify_case", "review.open">>
      [] OTHER                 -> <<>>

\* The spans opened in the body of the span called name, in their order.
Calls(endpoint, name) ==
    CASE name = Root                      -> EndpointSpans(endpoint)
      [] name = "service.verify_case"     -> VerifyCaseSpans
      [] name = "service.verify_document" -> VerifyDocumentSpans
      [] OTHER                            -> <<>>

Callees(endpoint, name) ==
    {Calls(endpoint, name)[i] : i \in 1..Len(Calls(endpoint, name))}

\* The exceptions with a handler of their own, and its answer.
Handled == {"RequestValidationError", "AuthenticationError", "AuthorizationError",
            "FileNotFoundError", "ReviewNotFoundError", "ReviewNotEligibleError",
            "InvalidTransitionError", "RateLimitExceededError", "ValueError"}
Exceptions == Handled \cup {"Exception"}
NoException == "None"

HandlerStatus(exception) ==
    CASE exception = "RequestValidationError"                          -> 422
      [] exception = "ValueError"                                      -> 400
      [] exception = "AuthenticationError"                             -> 401
      [] exception = "AuthorizationError"                              -> 403
      [] exception \in {"FileNotFoundError", "ReviewNotFoundError"}    -> 404
      [] exception \in {"ReviewNotEligibleError", "InvalidTransitionError"} -> 409
      [] exception = "RateLimitExceededError"                          -> 429
      [] OTHER                                                         -> 500

\* What the body of a span raises by design, before it opens a span: a data
\* file that is missing, or too large or not well-formed, and so on.  No
\* credential lacks the reviewer role, so AuthorizationError is never raised.
Raises(endpoint, name) ==
    CASE name = Root /\ endpoint \in {"document", "case"} -> {"RequestValidationError"}
      [] name = Root /\ endpoint = "open" -> {"RequestValidationError", "AuthenticationError"}
      [] name = Root /\ endpoint = "review" ->
             {"RequestValidationError", "AuthenticationError", "RateLimitExceededError",
              "ReviewNotFoundError", "InvalidTransitionError"}
      [] name \in {"service.verify_case", "service.verify_document",
                   "document_intelligence.extract"} -> {"FileNotFoundError", "ValueError"}
      [] name = "review.open" -> {"ReviewNotEligibleError"}
      [] OTHER -> {}
-----------------------------------------------------------------------------
VARIABLES
    phase, starts,      \* the lifespan: "up" or "down", and how many there were
    default,            \* _default_store: 0 for None, else the number of an instance
    created, closed,    \* the ReviewStore instances made, and those closed
    endpoint, cid,      \* of each request: what it calls, its correlation id
    pc, status,         \* where its handling is, and the status it is answered with
    store,              \* the instance get_default_review_store gave it
    verdict,            \* what the readiness endpoint has found
    stack, raised,      \* the spans it is inside of, and the exception under way
    current,            \* _current_span_id: for each trace its innermost open span
    exported,           \* the spans of each request, in the order they ended
    metrics             \* the counters of /metrics, summed over their labels

lifespanVars == <<phase, starts, default, created, closed>>
requestVars == <<endpoint, cid>>
spanVars == <<stack, current, exported>>
vars == <<phase, starts, default, created, closed, endpoint, cid, pc, status, store,
          verdict, stack, raised, current, exported, metrics>>

\* Values of store before an instance: the dependency has not run, or it has
\* compared _default_store with None and found it None, or not None.
Unasked == 0
SawNone == -1
SawStore == -2

\* uuid4() never repeats: what is minted for a request is named after it.
FreshTrace(r) == <<"trace", r>>
TraceIds == {FreshTrace(r) : r \in Requests} \cup CorrelationIds

\* As the comment in context.py has it: the header is the trace.
TraceIsHeader(r) == cid[r]

\* bind_trace_context(correlation_id=cid): the trace id is minted all the same.
Trace(r) == FreshTrace(r)

NoSpan == <<>>
SpanIds == Requests \X Nat
Frame == [span : SpanIds, parent : SpanIds \cup {NoSpan}, name : SpanNames, calls : Nat]
Exported == [span : SpanIds, parent : SpanIds \cup {NoSpan}, name : SpanNames,
             outcome : {"OK", "ERROR"}]
Places == {"new", "running", "raising", "responding", "counting", "unhandled", "answered"}
Statuses == {0, 200, 400, 401, 403, 404, 409, 422, 429, 500}

TypeOK ==
    /\ phase \in {"up", "down"} /\ starts \in 0..MaxStarts
    /\ default \in 0..created /\ created \in Nat /\ closed \subseteq 1..created
    /\ endpoint \in [Requests -> Endpoints] /\ cid \in [Requests -> CorrelationIds]
    /\ pc \in [Requests -> Places] /\ status \in [Requests -> Statuses]
    /\ store \in [Requests -> {SawNone, SawStore} \cup 0..created]
    /\ verdict \in [Requests -> {"none", "ready", "degraded"}]
    /\ stack \in [Requests -> Seq(Frame)]
    /\ raised \in [Requests -> Exceptions \cup {NoException}]
    /\ current \in [TraceIds -> SpanIds \cup {NoSpan}]
    /\ exported \in [Requests -> Seq(Exported)]
    /\ metrics \in [{"requests", "errors", "decisions", "reviews", "provider_failures"} -> Nat]

Init ==
    /\ phase = "down" /\ starts = 0
    /\ default = 0 /\ created = 0 /\ closed = {}
    /\ endpoint \in [Requests -> Endpoints]
    /\ cid \in [Requests -> CorrelationIds]
    /\ pc = [r \in Requests |-> "new"]
    /\ status = [r \in Requests |-> 0]
    /\ store = [r \in Requests |-> Unasked]
    /\ verdict = [r \in Requests |-> "none"]
    /\ stack = [r \in Requests |-> <<>>]
    /\ raised = [r \in Requests |-> NoException]
    /\ current = [t \in TraceIds |-> NoSpan]
    /\ exported = [r \in Requests |-> <<>>]
    /\ metrics = [m \in {"requests", "errors", "decisions", "reviews", "provider_failures"} |-> 0]

Goto(r, place) == pc' = [pc EXCEPT ![r] = place]
-----------------------------------------------------------------------------
(* start_span. *)

Top(r) == stack[r][Len(stack[r])]
AtRoot(r) == Len(stack[r]) = 1
Opened(r) == Len(exported[r]) + Len(stack[r])

\* One more span opened in the body of the innermost frame.
Called(frames) ==
    IF frames = <<>> THEN <<>> ELSE [frames EXCEPT ![Len(frames)].calls = @ + 1]

\* Entry, under _span_stack_lock.
StartSpan(r, name) ==
    LET id == <<r, Opened(r) + 1>>
    IN  /\ stack' = [stack EXCEPT ![r] =
               Append(Called(@), [span |-> id, parent |-> current[Trace(r)],
                                  name |-> name, calls |-> 0])]
        /\ current' = [current EXCEPT ![Trace(r)] = id]
        /\ UNCHANGED exported

EndedUnmarked(r, outcome) ==
    [span |-> Top(r).span, parent |-> Top(r).parent, name |-> Top(r).name, outcome |-> "OK"]

Ended(r, outcome) ==
    [span |-> Top(r).span, parent |-> Top(r).parent, name |-> Top(r).name, outcome |-> outcome]

EndSpanKeepingRoot(r, outcome) ==
    /\ stack' = [stack EXCEPT ![r] = SubSeq(@, 1, Len(@) - 1)]
    /\ current' = [current EXCEPT ![Trace(r)] = IF AtRoot(r) THEN @ ELSE Top(r).parent]
    /\ exported' = [exported EXCEPT ![r] = Append(@, Ended(r, outcome))]

\* Exit, under the lock again, and the export.  The entry of a trace goes with
\* its root span.
EndSpan(r, outcome) ==
    /\ stack' = [stack EXCEPT ![r] = SubSeq(@, 1, Len(@) - 1)]
    /\ current' = [current EXCEPT ![Trace(r)] = Top(r).parent]
    /\ exported' = [exported EXCEPT ![r] = Append(@, Ended(r, outcome))]

Increment(counters) ==
    metrics' = [m \in DOMAIN metrics |-> IF m \in counters THEN metrics[m] + 1 ELSE metrics[m]]
-----------------------------------------------------------------------------
(* The lifespan. *)

StartUpLazily ==
    /\ phase = "down"
    /\ starts < MaxStarts
    /\ phase' = "up"
    /\ starts' = starts + 1
    /\ UNCHANGED <<default, created, closed, requestVars, pc, status, store, verdict, spanVars,
                   raised, metrics>>

\* The review store is opened before the first request, unless an earlier
\* lifespan of the process has left its own, closed, as the default.
StartUp ==
    /\ phase = "down"
    /\ starts < MaxStarts
    /\ phase' = "up"
    /\ starts' = starts + 1
    /\ created' = IF default = 0 THEN created + 1 ELSE created
    /\ default' = IF default = 0 THEN created + 1 ELSE default
    /\ UNCHANGED <<closed, requestVars, pc, status, store, verdict, spanVars, raised, metrics>>

\* The server lets the requests under way finish before it ends the lifespan.
ShutDown ==
    /\ phase = "up"
    /\ \A r \in Requests : pc[r] \in {"new", "answered"}
    /\ phase' = "down"
    /\ closed' = closed \cup {default}
    /\ UNCHANGED <<starts, default, created, requestVars, pc, status, store, verdict, spanVars,
                   raised, metrics>>
-----------------------------------------------------------------------------
(* The handling of a request. *)

\* The middleware binds the context and opens the root span.
Receive(r) ==
    /\ phase = "up"
    /\ pc[r] = "new"
    /\ Goto(r, "running")
    /\ StartSpan(r, Root)
    /\ UNCHANGED <<lifespanVars, requestVars, status, store, verdict, raised, metrics>>

Running(r) == pc[r] = "running"

\* get_default_review_store, up to its comparison ...
TestDefaultStore(r) ==
    /\ Running(r)
    /\ endpoint[r] \in StoreEndpoints
    /\ store[r] = Unasked
    /\ store' = [store EXCEPT ![r] = IF default = 0 THEN SawNone ELSE SawStore]
    /\ UNCHANGED <<lifespanVars, requestVars, pc, status, verdict, spanVars, raised, metrics>>

\* ... and from there, with no lock between.
TakeDefaultStore(r) ==
    /\ Running(r)
    /\ store[r] \in {SawNone, SawStore}
    /\ created' = IF store[r] = SawNone THEN created + 1 ELSE created
    /\ default' = IF store[r] = SawNone THEN created + 1 ELSE default
    /\ store' = [store EXCEPT ![r] = default']
    /\ UNCHANGED <<phase, starts, closed, requestVars, pc, status, verdict, spanVars, raised, metrics>>

DependenciesResolved(r) == endpoint[r] \in StoreEndpoints => store[r] > 0
StoreOpen(r) == store[r] \notin closed

FoundWithoutStore(r, restOk) == IF restOk THEN "ready" ELSE "degraded"

Found(r, restOk) == IF StoreOpen(r) /\ restOk THEN "ready" ELSE "degraded"

\* ready(): list_reviews on the store, and the data set and the credentials,
\* which may be amiss as well.
CheckReadiness(r) ==
    /\ Running(r)
    /\ endpoint[r] = "ready"
    /\ DependenciesResolved(r)
    /\ verdict[r] = "none"
    /\ \E restOk \in BOOLEAN : verdict' = [verdict EXCEPT ![r] = Found(r, restOk)]
    /\ UNCHANGED <<lifespanVars, requestVars, pc, status, store, spanVars, raised, metrics>>

BodyDone(r) == Top(r).calls >= Len(Calls(endpoint[r], Top(r).name))

\* The body of the innermost span opens its next one.
EnterSpan(r) ==
    /\ Running(r)
    /\ DependenciesResolved(r)
    /\ ~BodyDone(r)
    /\ StartSpan(r, Calls(endpoint[r], Top(r).name)[Top(r).calls + 1])
    /\ UNCHANGED <<lifespanVars, requestVars, pc, status, store, verdict, raised, metrics>>

\* What is counted right after a span: the decision, and the review if it was
\* created and not found.
CountedAfter(name) ==
    CASE name = "decision_policy.assess" -> {{"decisions"}}
      [] name = "review.open"            -> {{}, {"reviews"}}
      [] OTHER                           -> {{}}

LeaveSpan(r) ==
    /\ Running(r)
    /\ ~AtRoot(r)
    /\ BodyDone(r)
    /\ Top(r).name = "review.open" => StoreOpen(r)
    /\ EndSpan(r, "OK")
    /\ \E counters \in CountedAfter(Top(r).name) : Increment(counters)
    /\ UNCHANGED <<lifespanVars, requestVars, pc, status, store, verdict, raised>>

\* An exception arises in the innermost span; ready() lets none out.
Raise(r) ==
    /\ Running(r)
    /\ DependenciesResolved(r)
    /\ endpoint[r] # "ready"
    /\ \E e \in {"Exception"} \cup
                (IF Top(r).calls = 0 THEN Raises(endpoint[r], Top(r).name) ELSE {}) :
          raised' = [raised EXCEPT ![r] = e]
    /\ Goto(r, "raising")
    /\ UNCHANGED <<lifespanVars, requestVars, status, store, verdict, spanVars, metrics>>

\* It passes through a span below the root.
Unwind(r) ==
    /\ pc[r] = "raising"
    /\ ~AtRoot(r)
    /\ EndSpan(r, "ERROR")
    /\ Increment(IF Top(r).name = "document_intelligence.extract" THEN {"provider_failures"} ELSE {})
    /\ UNCHANGED <<lifespanVars, requestVars, pc, status, store, verdict, raised>>

\* Its handler turns it into a response, inside call_next ...
HandleException(r) ==
    /\ pc[r] = "raising"
    /\ AtRoot(r)
    /\ raised[r] \in Handled
    /\ status' = [status EXCEPT ![r] = HandlerStatus(raised[r])]
    /\ Goto(r, "responding")
    /\ UNCHANGED <<lifespanVars, requestVars, store, verdict, spanVars, raised, metrics>>

\* ... or none does, and it ends the middleware too.
EscapeMiddleware(r) ==
    /\ pc[r] = "raising"
    /\ AtRoot(r)
    /\ raised[r] \notin Handled
    /\ EndSpan(r, "ERROR")
    /\ Goto(r, "unhandled")
    /\ UNCHANGED <<lifespanVars, requestVars, status, store, verdict, raised, metrics>>

UnhandledExceptionRaising(r) ==
    /\ pc[r] = "unhandled"
    /\ UNCHANGED vars

\* unhandled_exception, outside the middleware.
UnhandledException(r) ==
    /\ pc[r] = "unhandled"
    /\ status' = [status EXCEPT ![r] = 500]
    /\ Increment({"errors"})
    /\ Goto(r, "answered")
    /\ UNCHANGED <<lifespanVars, requestVars, store, verdict, spanVars, raised>>

\* The endpoint returns.
Return(r) ==
    /\ Running(r)
    /\ AtRoot(r)
    /\ DependenciesResolved(r)
    /\ BodyDone(r)
    /\ endpoint[r] = "ready" => verdict[r] # "none"
    /\ endpoint[r] = "review" => StoreOpen(r)
    /\ status' = [status EXCEPT ![r] = 200]
    /\ Goto(r, "responding")
    /\ UNCHANGED <<lifespanVars, requestVars, store, verdict, spanVars, raised, metrics>>

\* call_next has returned: the root span ends.
LeaveRequestSpan(r) ==
    /\ pc[r] = "responding"
    /\ EndSpan(r, "OK")
    /\ Goto(r, "counting")
    /\ UNCHANGED <<lifespanVars, requestVars, status, store, verdict, raised, metrics>>

CountersOfAny(r) == {"requests"}

CountersOf(r) == IF status[r] >= 400 THEN {"requests", "errors"} ELSE {"requests"}

\* The middleware counts the request, and as an error if it is one, and answers.
CountRequest(r) ==
    /\ pc[r] = "counting"
    /\ Increment(CountersOf(r))
    /\ Goto(r, "answered")
    /\ UNCHANGED <<lifespanVars, requestVars, status, store, verdict, spanVars, raised>>

Handle(r) ==
    \/ TestDefaultStore(r) \/ TakeDefaultStore(r) \/ CheckReadiness(r)
    \/ EnterSpan(r) \/ LeaveSpan(r) \/ Return(r)
    \/ Raise(r) \/ Unwind(r) \/ HandleException(r)
    \/ EscapeMiddleware(r) \/ UnhandledException(r)
    \/ LeaveRequestSpan(r) \/ CountRequest(r)

Next == StartUp \/ ShutDown \/ \E r \in Requests : Receive(r) \/ Handle(r)

Spec == Init /\ [][Next]_vars

\* A thread, or the event loop, runs what it has begun to the end.
Fairness == \A r \in Requests : WF_vars(Handle(r))
FairSpec == Spec /\ Fairness
-----------------------------------------------------------------------------
Answered(r) == pc[r] = "answered"
Ends(r) == 1..Len(exported[r])
SpansOf(r) ==
    {[span |-> exported[r][i].span, name |-> exported[r][i].name] : i \in Ends(r)} \cup
    {[span |-> stack[r][i].span, name |-> stack[r][i].name] : i \in 1..Len(stack[r])}

\* However requests overlap, and whatever correlation ids they share, the spans
\* of a request are the tree of its own calls: one root, which ends last, and
\* every other span's parent is the span of this request whose code opened it.
SpansFormCallTree ==
    \A r \in Requests : \A i \in Ends(r) :
        LET s == exported[r][i]
        IN  IF s.parent = NoSpan
              THEN s.name = Root /\ i = Len(exported[r])
              ELSE \E p \in SpansOf(r) :
                       p.span = s.parent /\ s.name \in Callees(endpoint[r], p.name)

\* _current_span_id has an entry for a trace only while its request is inside
\* the root span, however that span ends: the process keeps nothing behind.
NoTraceLeak ==
    \A t \in TraceIds :
        current[t] # NoSpan => \E r \in Requests : Trace(r) = t /\ stack[r] # <<>>

Children(r, span) == {i \in Ends(r) : exported[r][i].parent = span}

\* The outcomes of the spans tell where an exception passed: a span below the
\* root is OK only if every call in its body was made and ended OK, and the root
\* is marked ERROR exactly when the answer is the 500 of an unhandled exception.
ErrorsReachHandler ==
    \A r \in Requests : \A i \in Ends(r) :
        LET s == exported[r][i]
        IN  IF s.name = Root
              THEN Answered(r) => (s.outcome = "ERROR" <=> status[r] = 500)
              ELSE /\ s.outcome = "OK" =>
                          /\ Cardinality(Children(r, s.span)) = Len(Calls(endpoint[r], s.name))
                          /\ \A j \in Children(r, s.span) : exported[r][j].outcome = "OK"
                   /\ s.outcome = "ERROR" /\ Answered(r) => status[r] >= 400

Those(name, outcome) ==
    UNION {{<<r, i>> : i \in {k \in Ends(r) :
        exported[r][k].name = name /\ exported[r][k].outcome = outcome}} : r \in Requests}

\* The counters agree with the answers and with the traces: every answer is
\* counted once, in the middleware or by the handler of unhandled exceptions and
\* never by both; a decision for every decision span that ended well, a provider
\* failure for every extraction that failed, and no review without a decision.
\* An unhandled exception is an error that is in no request count.
MetricsAgree ==
    /\ metrics["requests"] = Cardinality({r \in Requests : Answered(r) /\ status[r] # 500})
    /\ metrics["errors"] = Cardinality({r \in Requests : Answered(r) /\ status[r] >= 400})
    /\ metrics["decisions"] = Cardinality(Those("decision_policy.assess", "OK"))
    /\ metrics["provider_failures"] =
           Cardinality(Those("document_intelligence.extract", "ERROR"))
    /\ metrics["reviews"] <= metrics["decisions"]

\* The store is created without a lock, but before the first request: a process
\* opens one, and in its first lifespan no request gets a closed one.
OneOpenStore ==
    /\ created <= 1
    /\ starts = 1 => \A r \in Requests :
                         pc[r] \notin {"new", "answered"} /\ store[r] > 0 => StoreOpen(r)

\* When the readiness endpoint is about to answer "ready", the store that the
\* next reviewer's request gets is open, in a later lifespan too.
ReadyTellsTruth ==
    \A r \in Requests :
        verdict[r] = "ready" /\ ~Answered(r) => default = store[r] /\ StoreOpen(r)

\* Every request the process takes in is answered, whatever it raises.
EveryRequestAnswered == \A r \in Requests : pc[r] # "new" ~> Answered(r)
=============================================================================
