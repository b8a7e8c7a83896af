---------------------------- MODULE ReviewConsole ----------------------------
(***************************************************************************)
(* The review panel of the Streamlit console (src/ui/app.py) for one case  *)
(* with decision REVIEW.  Every interaction runs the script again from the *)
(* top: it reads the store, draws the page, and acts on the button that    *)
(* was pressed on the page before.  Other sessions, the API and an         *)
(* operator's purge change the reviews in between.                         *)
(*                                                                         *)
(* The store is the atomic ledger that it implements while one process has *)
(* the file (StoreImplementsLedger).  Streamlit is not in the repository:  *)
(* WidgetValue and Interact model how the script relies on it.             *)
(***************************************************************************)
EXTENDS ReviewModels

CONSTANTS
    Sessions,       \* browser sessions of the console
    Reviews,        \* the ids reviews of the case may get
    NoReview        \* what find_open_review_for_case returns if there is none

ASSUME NoReviewAssumption == NoReview \notin Reviews

VARIABLES
    status, log,    \* the ledger
    minted,         \* the review ids used so far
    page,           \* what each browser shows: a review as it was read, or the
                    \* button that opens one
    event,          \* the interaction its script runs for
    pc, seen,       \* the place in the script, and existing as the script read it
    written         \* history: the transitions made since the interaction, to
                    \* which review and from which review's form

Ledger == INSTANCE ReviewLedger WITH Reviews <- Reviews, status <- status, log <- log
ledgerVars == <<status, log, minted>>
vars == <<status, log, minted, page, event, pc, seen, written>>

\* A review as shown: its status, and the status its audit trail ends in.
Page == [rev : Reviews \cup {NoReview}, status : StatusOrAbsent, trail : StatusOrAbsent]
Seen == [rev : Reviews \cup {NoReview}, status : StatusOrAbsent]
Event == [kind : {"rerun", "open", "submit"}, on : Seen, choice : StatusOrAbsent, valid : BOOLEAN]

EmptyPage == [rev |-> NoReview, status |-> Absent, trail |-> Absent]
NothingSeen == [rev |-> NoReview, status |-> Absent]
NoEvent == [kind |-> "rerun", on |-> NothingSeen, choice |-> Absent, valid |-> FALSE]

TypeOK ==
    /\ status \in [Reviews -> StatusOrAbsent]
    /\ log \in [Reviews -> Seq(AuditEntry)]
    /\ minted \subseteq Reviews
    /\ page \in [Sessions -> Page]
    /\ event \in [Sessions -> Event]
    /\ pc \in [Sessions -> {"idle", "find", "open", "create", "panel", "apply", "applied"}]
    /\ seen \in [Sessions -> Seen]
    /\ \A s \in Sessions : pc[s] \in {"panel", "apply", "applied"} => seen[s].status \in NonTerminal
    /\ written \in [Sessions -> Seq([to : Reviews, form : Reviews \cup {NoReview}])]

Init ==
    /\ Ledger!Init
    /\ minted = {}
    /\ page = [s \in Sessions |-> EmptyPage]
    /\ event = [s \in Sessions |-> NoEvent]
    /\ pc = [s \in Sessions |-> "idle"]
    /\ seen = [s \in Sessions |-> NothingSeen]
    /\ written = [s \in Sessions |-> <<>>]

Goto(s, place) == pc' = [pc EXCEPT ![s] = place]
-----------------------------------------------------------------------------
AllOptions(st) == ReviewStatus

\* The options of the form's selectbox.
Options(st) == ALLOWED_TRANSITIONS[st]

\* sorted(...)[0], the option a new selectbox starts with.
FirstOption(st) == IF st = "OPEN" THEN "IN_REVIEW" ELSE "ESCALATED"

\* A selectbox without a key is identified by its options: if they have changed
\* since the page was drawn it is a new one, which has not been touched.
WidgetValue(s) ==
    IF Options(event[s].on.status) = Options(seen[s].status)
      THEN event[s].choice
      ELSE FirstOption(seen[s].status)

\* A user acts on the page the browser shows.  Streamlit stops a script under
\* way for it wherever the script calls Streamlit, so not on the way into the
\* store.
Interact(s) ==
    /\ pc[s] \in {"idle", "find", "panel", "applied"}
    /\ \/ event' = [event EXCEPT ![s] = NoEvent]
       \/ /\ page[s].rev = NoReview
          /\ event' = [event EXCEPT ![s] = [NoEvent EXCEPT !.kind = "open"]]
       \/ /\ page[s].rev # NoReview
          /\ \E choice \in Options(page[s].status), valid \in BOOLEAN :
                event' = [event EXCEPT ![s] =
                    [kind |-> "submit", on |-> [rev |-> page[s].rev, status |-> page[s].status],
                     choice |-> choice, valid |-> valid]]
    /\ Goto(s, "find")
    /\ seen' = [seen EXCEPT ![s] = NothingSeen]
    /\ written' = [written EXCEPT ![s] = <<>>]
    /\ UNCHANGED <<ledgerVars, page>>

StoredReviews == {r \in Reviews : status[r] # Absent}

OpenReviews == {r \in Reviews : status[r] \in NonTerminal}
See(s, r) == seen' = [seen EXCEPT ![s] = [rev |-> r, status |-> status[r]]]

\* existing = store.find_open_review_for_case(...), and the button.
FindExisting(s) ==
    /\ pc[s] = "find"
    /\ \/ \E r \in OpenReviews : See(s, r) /\ Goto(s, "panel") /\ UNCHANGED page
       \/ /\ OpenReviews = {}
          /\ Goto(s, IF event[s].kind = "open" THEN "open" ELSE "idle")
          /\ page' = [page EXCEPT ![s] = EmptyPage]
          /\ UNCHANGED seen
    /\ UNCHANGED <<ledgerVars, event, written>>

\* open_review_case finds again ...
OpenFinds(s) ==
    /\ pc[s] = "open"
    /\ \/ \E r \in OpenReviews : See(s, r) /\ Goto(s, "panel")
       \/ OpenReviews = {} /\ Goto(s, "create") /\ UNCHANGED seen
    /\ UNCHANGED <<ledgerVars, page, event, written>>

\* ... and then creates.
OpenCreates(s) ==
    /\ pc[s] = "create"
    /\ \E r \in Reviews \ minted :
          /\ Ledger!CreateReview(r)
          /\ minted' = minted \cup {r}
          /\ seen' = [seen EXCEPT ![s] = [rev |-> r, status |-> "OPEN"]]
    /\ Goto(s, "panel")
    /\ UNCHANGED <<page, event, written>>

\* The form's key has the review's id: a submission counts for the same review.
Submitted(s) == event[s].kind = "submit" /\ event[s].on.rev = seen[s].rev

DrawnFromCache(s) ==
    [rev |-> seen[s].rev, status |-> seen[s].status,
     trail |-> IF page[s].rev = seen[s].rev THEN page[s].trail ELSE StatusAfter(log[seen[s].rev])]

Drawn(s) ==
    [rev |-> seen[s].rev, status |-> seen[s].status, trail |-> StatusAfter(log[seen[s].rev])]

\* get_audit_log, the page, and the checks of a submission: the credential and
\* the two required texts.
DrawPanel(s) ==
    /\ pc[s] = "panel"
    /\ page' = [page EXCEPT ![s] = Drawn(s)]
    /\ Goto(s, IF Submitted(s) /\ event[s].valid THEN "apply" ELSE "idle")
    /\ UNCHANGED <<ledgerVars, event, seen, written>>

\* store.apply_transition: an error is shown and ends the script.
ApplyTransition(s) ==
    LET r == seen[s].rev
        new == WidgetValue(s)
    IN  /\ pc[s] = "apply"
        /\ \/ /\ Ledger!ApplyTransition(r, new)
              /\ written' = [written EXCEPT ![s] = Append(@, [to |-> r, form |-> event[s].on.rev])]
              /\ Goto(s, "applied")
           \/ /\ status[r] # Absent => new \notin ALLOWED_TRANSITIONS[status[r]]
              /\ Goto(s, "idle")
              /\ UNCHANGED <<status, log, written>>
        /\ UNCHANGED <<minted, page, event, seen>>

RerunKeepingButton(s) ==
    /\ pc[s] = "applied"
    /\ Goto(s, IF status[seen[s].rev] = Absent THEN "idle" ELSE "find")
    /\ UNCHANGED <<ledgerVars, page, event, seen, written>>

\* Its answer is read once more (None after a purge, which is not caught), and
\* st.rerun starts the script again, with no button pressed.
Rerun(s) ==
    /\ pc[s] = "applied"
    /\ IF status[seen[s].rev] = Absent
         THEN Goto(s, "idle") /\ UNCHANGED event
         ELSE Goto(s, "find") /\ event' = [event EXCEPT ![s] = NoEvent]
    /\ UNCHANGED <<ledgerVars, page, seen, written>>

Script(s) ==
    \/ FindExisting(s) \/ OpenFinds(s) \/ OpenCreates(s)
    \/ DrawPanel(s) \/ ApplyTransition(s) \/ Rerun(s)

\* The API, and the operator.
Others ==
    \/ \E r \in Reviews \ minted : Ledger!CreateReview(r) /\ minted' = minted \cup {r}
    \/ \E r \in Reviews, new \in ReviewStatus : Ledger!ApplyTransition(r, new) /\ UNCHANGED minted
    \/ \E r \in Reviews : status[r] # Absent /\ Ledger!PurgeReview(r) /\ UNCHANGED minted

Next ==
    \/ \E s \in Sessions : Interact(s) \/ Script(s)
    \/ Others /\ UNCHANGED <<page, event, pc, seen, written>>

Spec == Init /\ [][Next]_vars
-----------------------------------------------------------------------------
Applies(s) == pc[s] = "apply" /\ pc'[s] = "applied"

\* The review may move between the script's reading it and its transition, but
\* then the transition is refused: what the console writes starts from the very
\* status the options were made of.
AppliesToStatusItRead ==
    [][\A s \in Sessions : Applies(s) =>
          log'[seen[s].rev][Len(log'[seen[s].rev])].prior = seen[s].status]_vars

\* One submission makes at most one transition, of the review whose form was
\* submitted, though the script runs again after it and the case may have
\* another open review by then.
OneTransitionPerSubmission ==
    \A s \in Sessions :
        /\ Len(written[s]) <= 1
        /\ \A k \in 1..Len(written[s]) : written[s][k].to = written[s][k].form

Follows(st) == {st} \cup ALLOWED_TRANSITIONS[st]
                    \cup UNION {ALLOWED_TRANSITIONS[n] : n \in ALLOWED_TRANSITIONS[st]}

\* The status and the audit trail of a page are read one after the other: the
\* trail may be newer than the status, but never older, unless the review has
\* been purged.
TrailNotOlder ==
    \A s \in Sessions :
        page[s].rev # NoReview /\ status[page[s].rev] # Absent =>
            page[s].trail \in Follows(page[s].status)

\* What README.md says of the console: nothing done through it is UI-only logic.
\* A transition that is made is the one the reviewer chose, as through the API.
ChoiceHonoured ==
    [][\A s \in Sessions : Applies(s) =>
          log'[seen[s].rev][Len(log'[seen[s].rev])].new = event[s].choice]_vars
=============================================================================
