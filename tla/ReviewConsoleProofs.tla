------------------------- MODULE ReviewConsoleProofs -------------------------
(***************************************************************************)
(* What the console does to the ledger, whatever other sessions, the API   *)
(* and purges do in between: a submission makes one transition, it starts  *)
(* from the status its options were made of, and the trail of a page is    *)
(* never older than its status.                                            *)
(***************************************************************************)
EXTENDS ReviewConsole, TLAPS

\* The ledger once more, for its theorems.
Proved == INSTANCE ReviewLedgerProofs WITH Reviews <- Reviews, status <- status, log <- log

\* The copies of the vocabulary agree.
LEMMA SameVocabulary ==
    /\ Ledger!Absent = Absent /\ Proved!Absent = Absent
    /\ Ledger!ReviewStatus = ReviewStatus /\ Proved!ReviewStatus = ReviewStatus
    /\ Ledger!ALLOWED_TRANSITIONS = ALLOWED_TRANSITIONS
    /\ Proved!ALLOWED_TRANSITIONS = ALLOWED_TRANSITIONS
    /\ Proved!StatusOrAbsent = StatusOrAbsent
    /\ Proved!AuditEntry = AuditEntry
    /\ \A h : Proved!StatusAfter(h) = StatusAfter(h)
  BY DEF Absent, ReviewStatus, ALLOWED_TRANSITIONS, StatusOrAbsent, AuditEntry, StatusAfter,
         Ledger!Absent, Ledger!ReviewStatus, Ledger!ALLOWED_TRANSITIONS,
         Proved!Absent, Proved!ReviewStatus, Proved!ALLOWED_TRANSITIONS, Proved!StatusOrAbsent,
         Proved!AuditEntry, Proved!StatusAfter

-----------------------------------------------------------------------------
(***************************************************************************)
(* The inductive invariant.  Besides TypeOK it says where the script's     *)
(* registers come from: a page and a submission were made of a review in a *)
(* non-terminal state, and choice is one of the options of that state.     *)
(***************************************************************************)
Places == {"idle", "find", "open", "create", "panel", "apply", "applied"}
Selected == {"panel", "apply", "applied"}
Transition == [to : Reviews, form : Reviews \cup {NoReview}]

RegistersOK(shown, ev, place, found) ==
    /\ shown.rev # NoReview => shown.status \in NonTerminal
    /\ ev.kind = "submit" => /\ ev.on.status \in NonTerminal
                             /\ ev.choice \in Options(ev.on.status)
    /\ place \in Selected => found.rev \in Reviews /\ found.status \in NonTerminal
    /\ place \in {"apply", "applied"} => ev.kind = "submit" /\ ev.on.rev = found.rev

\* A review id is used once, so what has been seen and is gone stays gone; what
\* is not gone has moved at most along the lifecycle.
SeenOK(shown, place, found) ==
    /\ place \in Selected =>
          /\ found.rev \in minted
          /\ status[found.rev] \in Follows(found.status) \cup {Absent}
    /\ shown.rev # NoReview =>
          /\ shown.rev \in minted
          /\ status[shown.rev] # Absent => shown.trail \in Follows(shown.status)

\* The script makes a transition only on a submission that it has not acted on:
\* the run after it has no button.
WrittenOK(ev, place, made) ==
    /\ Len(made) <= 1
    /\ \A k \in 1..Len(made) : made[k].to = made[k].form
    /\ made # <<>> => place \in {"applied", "idle"} \/ ev.kind # "submit"

ConsoleInv ==
    /\ TypeOK
    /\ Proved!LedgerInv
    /\ \A r \in Reviews : status[r] # Absent => r \in minted
    /\ \A s \in Sessions : /\ RegistersOK(page[s], event[s], pc[s], seen[s])
                           /\ SeenOK(page[s], pc[s], seen[s])
                           /\ WrittenOK(event[s], pc[s], written[s])

-----------------------------------------------------------------------------
\* From a non-terminal state the lifecycle goes where Follows says, and its
\* states have no option in common.
LEMMA Lifecycle ==
    ASSUME NEW st \in NonTerminal
    PROVE  /\ st \in Follows(st) /\ Follows(st) \subseteq ReviewStatus
           /\ Options(st) \subseteq ReviewStatus
           /\ \A x \in Follows(st) : ALLOWED_TRANSITIONS[x] \subseteq Follows(st)
           /\ \A x \in Follows(st), new \in Options(st) :
                 new \in ALLOWED_TRANSITIONS[x] => x = st
  BY DEF NonTerminal, Follows, Options, ReviewStatus, ALLOWED_TRANSITIONS

\* What a step may do to the ledger, whoever takes it.
LedgerSame == UNCHANGED <<status, log, minted>>
Creates(r) == r \in Reviews \ minted /\ Ledger!CreateReview(r) /\ minted' = minted \cup {r}
Moves(r) == r \in Reviews /\ (\E new : Ledger!ApplyTransition(r, new)) /\ UNCHANGED minted
Purges(r) == r \in Reviews /\ Ledger!PurgeReview(r) /\ UNCHANGED minted

\* Every step creates, moves or purges one review, or none.
LEMMA LedgerSteps ==
    ASSUME ConsoleInv, [Next]_vars
    PROVE  LedgerSame \/ \E r : Creates(r) \/ Moves(r) \/ Purges(r)
<1> USE DEF LedgerSame, Creates, Moves, Purges
<1>1. CASE UNCHANGED vars
  BY <1>1 DEF vars
<1>2. CASE Others
  BY <1>2 DEF Others
<1>3. ASSUME NEW s \in Sessions, OpenCreates(s) PROVE \E r : Creates(r)
  BY <1>3 DEF OpenCreates
<1>4. ASSUME NEW s \in Sessions, ApplyTransition(s)
      PROVE  LedgerSame \/ \E r : Moves(r)
  <2>1. seen[s].rev \in Reviews /\ UNCHANGED minted
    BY <1>4 DEF ApplyTransition, ConsoleInv, RegistersOK, Selected
  <2>2. CASE Ledger!ApplyTransition(seen[s].rev, WidgetValue(s))
    BY <2>1, <2>2
  <2>3. CASE UNCHANGED <<status, log>>
    BY <2>1, <2>3
  <2>4. QED
    BY <1>4, <2>2, <2>3 DEF ApplyTransition
<1>5. ASSUME NEW s \in Sessions, Interact(s) \/ FindExisting(s) \/ OpenFinds(s)
                                \/ DrawPanel(s) \/ Rerun(s)
      PROVE  LedgerSame
  BY <1>5 DEF Interact, FindExisting, OpenFinds, DrawPanel, Rerun, ledgerVars
<1>6. QED
  BY <1>1, <1>2, <1>3, <1>4, <1>5 DEF Next, Script

\* A stored review moves along the lifecycle, or goes.
Moved(r) ==
    \/ status'[r] \in {status[r], Absent}
    \/ status[r] \in ReviewStatus /\ status'[r] \in ALLOWED_TRANSITIONS[status[r]]

\* The ledger's invariant holds on, its reviews are minted ones, and none moves
\* but along the lifecycle or away.
LEMMA LedgerStep ==
    ASSUME ConsoleInv, [Next]_vars
    PROVE  /\ Proved!LedgerInv'
           /\ minted \subseteq minted' /\ minted' \subseteq Reviews
           /\ \A r \in Reviews : status'[r] # Absent => r \in minted'
           /\ \A r \in minted : Moved(r)
<1>1. /\ status \in [Reviews -> StatusOrAbsent] /\ minted \subseteq Reviews
      /\ \A r \in Reviews : status[r] # Absent => r \in minted
      /\ Proved!LedgerInv
  BY DEF ConsoleInv, TypeOK
<1>2. CASE LedgerSame
  BY <1>1, <1>2 DEF LedgerSame, Moved, Proved!LedgerInv, Proved!LedgerType,
                    Proved!LedgerConsistent
<1>3. ASSUME NEW r, Creates(r) PROVE Proved!Next
  BY <1>3, SameVocabulary DEF Creates, Ledger!CreateReview, Proved!CreateReview, Proved!Next
<1>4. ASSUME NEW r, Moves(r) PROVE Proved!Next
  <2>1. PICK new : Ledger!ApplyTransition(r, new)
    BY <1>4 DEF Moves
  <2>2. new \in ReviewStatus
    BY <1>1, <1>4, <2>1, SameVocabulary DEF Moves, Ledger!ApplyTransition, StatusOrAbsent,
       ALLOWED_TRANSITIONS, ReviewStatus
  <2>3. Proved!ApplyTransition(r, new)
    BY <2>1, SameVocabulary DEF Ledger!ApplyTransition, Proved!ApplyTransition
  <2>4. QED
    BY <1>4, <2>2, <2>3, SameVocabulary DEF Moves, Proved!Next
<1>5. ASSUME NEW r, Purges(r) PROVE Proved!Next
  BY <1>5, SameVocabulary DEF Purges, Ledger!PurgeReview, Proved!PurgeReview, Proved!Next
<1>6. ASSUME NEW r, Creates(r) \/ Moves(r) \/ Purges(r)
      PROVE  Proved!LedgerInv'
  BY <1>1, <1>3, <1>4, <1>5, <1>6, Proved!LedgerNext
<1>7. ASSUME NEW r, Creates(r) \/ Moves(r) \/ Purges(r)
      PROVE  /\ minted \subseteq minted' /\ minted' \subseteq Reviews
             /\ \A x \in Reviews : status'[x] # Absent => x \in minted'
             /\ \A x \in minted : Moved(x)
  <2>1. CASE Creates(r)
    BY <1>1, <2>1 DEF Creates, Ledger!CreateReview, Moved
  <2>2. CASE Moves(r)
    BY <1>1, <2>2, SameVocabulary DEF Moves, Ledger!ApplyTransition, Moved, StatusOrAbsent
  <2>3. CASE Purges(r)
    BY <1>1, <2>3, SameVocabulary DEF Purges, Ledger!PurgeReview, Moved
  <2>4. QED
    BY <1>7, <2>1, <2>2, <2>3
<1>8. QED
  BY <1>2, <1>6, <1>7, LedgerSteps

\* What a page or a script has seen of a review stays a state it was in on its
\* way to where it is now.
LEMMA FollowsStep ==
    ASSUME ConsoleInv, [Next]_vars, NEW st \in NonTerminal, NEW r \in minted,
           status[r] \in Follows(st) \cup {Absent}
    PROVE  r \in minted' /\ status'[r] \in Follows(st) \cup {Absent}
  BY LedgerStep, Lifecycle DEF Moved, Absent, ReviewStatus

\* So what is known of a session's registers survives any step that leaves
\* them alone.
LEMMA SeenKept ==
    ASSUME ConsoleInv, [Next]_vars, NEW s \in Sessions
    PROVE  /\ pc[s] \in Selected =>
                 /\ seen[s].rev \in minted'
                 /\ status'[seen[s].rev] \in Follows(seen[s].status) \cup {Absent}
           /\ page[s].rev # NoReview =>
                 /\ page[s].rev \in minted'
                 /\ status'[page[s].rev] # Absent => page[s].trail \in Follows(page[s].status)
<1>1. ASSUME pc[s] \in Selected
      PROVE  /\ seen[s].rev \in minted'
             /\ status'[seen[s].rev] \in Follows(seen[s].status) \cup {Absent}
  <2>1. /\ seen[s].status \in NonTerminal /\ seen[s].rev \in minted
        /\ status[seen[s].rev] \in Follows(seen[s].status) \cup {Absent}
    BY <1>1 DEF ConsoleInv, SeenOK, RegistersOK
  <2>2. QED
    BY <2>1, FollowsStep
<1>2. ASSUME page[s].rev # NoReview
      PROVE  /\ page[s].rev \in minted'
             /\ status'[page[s].rev] # Absent => page[s].trail \in Follows(page[s].status)
  <2>1. /\ page[s].rev \in minted
        /\ status[page[s].rev] # Absent => page[s].trail \in Follows(page[s].status)
    BY <1>2 DEF ConsoleInv, SeenOK
  <2>2. Moved(page[s].rev) /\ minted \subseteq minted'
    BY <2>1, LedgerStep
  <2>3. status'[page[s].rev] # Absent => status[page[s].rev] # Absent
    BY <2>2 DEF Moved, ReviewStatus, Absent
  <2>4. QED
    BY <2>1, <2>2, <2>3
<1>3. QED
  BY <1>1, <1>2

\* The ledger's variables are typed after any step.
LEMMA LedgerTyped ==
    ASSUME ConsoleInv, [Next]_vars
    PROVE  /\ status' \in [Reviews -> StatusOrAbsent]
           /\ log' \in [Reviews -> Seq(AuditEntry)]
           /\ minted' \subseteq Reviews
  BY LedgerStep, SameVocabulary DEF Proved!LedgerInv, Proved!LedgerType

\* A step of one session leaves every other session's registers alone, so the
\* invariant is kept if it holds of the registers that changed.
LEMMA SessionStep ==
    ASSUME ConsoleInv, [Next]_vars, NEW s \in Sessions, NEW shown \in Page, NEW ev \in Event,
           NEW place \in Places, NEW found \in Seen, NEW made \in Seq(Transition),
           page' = [page EXCEPT ![s] = shown], event' = [event EXCEPT ![s] = ev],
           pc' = [pc EXCEPT ![s] = place], seen' = [seen EXCEPT ![s] = found],
           written' = [written EXCEPT ![s] = made],
           RegistersOK(shown, ev, place, found),
           place \in Selected =>
                 /\ found.rev \in minted'
                 /\ status'[found.rev] \in Follows(found.status) \cup {Absent},
           shown.rev # NoReview =>
                 /\ shown.rev \in minted'
                 /\ status'[shown.rev] # Absent => shown.trail \in Follows(shown.status),
           WrittenOK(ev, place, made)
    PROVE  ConsoleInv'
<1>1. /\ page \in [Sessions -> Page] /\ event \in [Sessions -> Event]
      /\ pc \in [Sessions -> Places] /\ seen \in [Sessions -> Seen]
      /\ written \in [Sessions -> Seq(Transition)]
  BY DEF ConsoleInv, TypeOK, Places, Transition
<1>2. /\ page' \in [Sessions -> Page] /\ event' \in [Sessions -> Event]
      /\ pc' \in [Sessions -> Places] /\ seen' \in [Sessions -> Seen]
      /\ written' \in [Sessions -> Seq(Transition)]
  BY <1>1
<1>3. ASSUME NEW x \in Sessions
      PROVE  /\ RegistersOK(page[x], event[x], pc[x], seen[x])'
             /\ SeenOK(page[x], pc[x], seen[x])'
             /\ WrittenOK(event[x], pc[x], written[x])'
  <2>1. CASE x = s
    BY <1>1, <2>1 DEF RegistersOK, SeenOK, WrittenOK
  <2>2. CASE x # s
    <3>1. /\ page'[x] = page[x] /\ event'[x] = event[x] /\ pc'[x] = pc[x]
          /\ seen'[x] = seen[x] /\ written'[x] = written[x]
      BY <1>1, <2>2
    <3>2. /\ RegistersOK(page[x], event[x], pc[x], seen[x])
          /\ WrittenOK(event[x], pc[x], written[x])
      BY DEF ConsoleInv
    <3>3. RegistersOK(page[x], event[x], pc[x], seen[x])'
      BY <3>1, <3>2 DEF RegistersOK
    <3>4. WrittenOK(event[x], pc[x], written[x])'
      BY <3>1, <3>2 DEF WrittenOK
    <3>5. SeenOK(page[x], pc[x], seen[x])'
      BY <3>1, SeenKept DEF SeenOK
    <3>6. QED
      BY <3>3, <3>4, <3>5
  <2>3. QED
    BY <2>1, <2>2
<1>4. \A x \in Sessions : pc'[x] \in Selected => seen'[x].status \in NonTerminal
  BY <1>3 DEF RegistersOK
<1>5. TypeOK'
  BY <1>2, <1>4, LedgerTyped DEF TypeOK, Places, Selected, Transition
<1>6. QED
  BY <1>3, <1>5, LedgerStep DEF ConsoleInv

\* Streamlit starts the script for what the user did on the page.
LEMMA InteractKeeps ==
    ASSUME ConsoleInv, [Next]_vars, NEW s \in Sessions, Interact(s)
    PROVE  ConsoleInv'
<1>1. /\ page[s] \in Page /\ RegistersOK(page[s], event[s], pc[s], seen[s])
      /\ \A x \in Sessions : event[x] \in Event
      /\ page \in [Sessions -> Page] /\ event \in [Sessions -> Event]
  BY DEF ConsoleInv, TypeOK
<1>2. NoEvent \in Event /\ NothingSeen \in Seen /\ <<>> \in Seq(Transition)
  BY DEF NoEvent, NothingSeen, Event, Seen, StatusOrAbsent
<1>3. ASSUME NEW ev \in Event, event' = [event EXCEPT ![s] = ev],
             ev.kind = "submit" => /\ ev.on.status \in NonTerminal
                                   /\ ev.choice \in Options(ev.on.status)
      PROVE  ConsoleInv'
  <2>1. RegistersOK(page[s], ev, "find", NothingSeen)
    BY <1>1, <1>3 DEF RegistersOK, Selected
  <2>2. WrittenOK(ev, "find", <<>>)
    BY DEF WrittenOK
  <2>3. /\ page' = [page EXCEPT ![s] = page[s]] /\ pc' = [pc EXCEPT ![s] = "find"]
        /\ seen' = [seen EXCEPT ![s] = NothingSeen] /\ written' = [written EXCEPT ![s] = <<>>]
    BY <1>1 DEF Interact, Goto
  <2>4. "find" \in Places /\ "find" \notin Selected
    BY DEF Places, Selected
  <2>5. QED
    BY <1>1, <1>2, <1>3, <2>1, <2>2, <2>3, <2>4, SeenKept, SessionStep
<1>4. CASE event' = [event EXCEPT ![s] = NoEvent]
  <2>1. NoEvent.kind # "submit"
    BY DEF NoEvent
  <2>2. QED
    BY <1>2, <1>3, <1>4, <2>1
<1>5. CASE event' = [event EXCEPT ![s] = [NoEvent EXCEPT !.kind = "open"]]
  <2>1. [NoEvent EXCEPT !.kind = "open"] \in Event
    BY DEF NoEvent, NothingSeen, Event, Seen, StatusOrAbsent
  <2>2. [NoEvent EXCEPT !.kind = "open"].kind # "submit"
    BY DEF NoEvent
  <2>3. QED
    BY <1>3, <1>5, <2>1, <2>2
<1>6. ASSUME page[s].rev # NoReview, NEW choice \in Options(page[s].status), NEW valid \in BOOLEAN,
             event' = [event EXCEPT ![s] =
                 [kind |-> "submit", on |-> [rev |-> page[s].rev, status |-> page[s].status],
                  choice |-> choice, valid |-> valid]]
      PROVE  ConsoleInv'
  <2> DEFINE on == [rev |-> page[s].rev, status |-> page[s].status]
             ev == [kind |-> "submit", on |-> on, choice |-> choice, valid |-> valid]
  <2>1. page[s].status \in NonTerminal
    BY <1>1, <1>6 DEF RegistersOK
  <2>2. choice \in StatusOrAbsent
    BY <1>6, <2>1, Lifecycle DEF StatusOrAbsent
  <2>3. on \in Seen
    BY <1>1 DEF Page, Seen
  <2>4. ev \in Event
    BY <2>2, <2>3 DEF Event
  <2>5. ev.on.status = page[s].status /\ ev.choice = choice
    OBVIOUS
  <2>6. ev.on.status \in NonTerminal /\ ev.choice \in Options(ev.on.status)
    BY <1>6, <2>1, <2>5
  <2>7. event' = [event EXCEPT ![s] = ev]
    BY <1>6
  <2> HIDE DEF ev, on
  <2>8. QED
    BY <1>3, <2>4, <2>6, <2>7
<1>7. QED
  BY <1>4, <1>5, <1>6 DEF Interact

\* What a session's registers are, and what an EXCEPT of the old value is.
LEMMA Registers ==
    ASSUME ConsoleInv, NEW s \in Sessions
    PROVE  /\ page[s] \in Page /\ event[s] \in Event /\ pc[s] \in Places /\ seen[s] \in Seen
           /\ written[s] \in Seq(Transition)
           /\ page = [page EXCEPT ![s] = page[s]] /\ event = [event EXCEPT ![s] = event[s]]
           /\ seen = [seen EXCEPT ![s] = seen[s]] /\ written = [written EXCEPT ![s] = written[s]]
           /\ RegistersOK(page[s], event[s], pc[s], seen[s])
           /\ WrittenOK(event[s], pc[s], written[s])
  BY DEF ConsoleInv, TypeOK, Places, Transition

\* An open review has been minted and is in a non-terminal state.
LEMMA OpenReview ==
    ASSUME ConsoleInv, NEW r \in OpenReviews, UNCHANGED ledgerVars
    PROVE  LET found == [rev |-> r, status |-> status[r]]
           IN  /\ found \in Seen /\ found.rev \in Reviews /\ found.status \in NonTerminal
               /\ found.rev \in minted'
               /\ status'[found.rev] \in Follows(found.status) \cup {Absent}
<1>1. r \in Reviews /\ status[r] \in NonTerminal /\ r \in minted
  BY DEF ConsoleInv, OpenReviews, NonTerminal, Absent
<1>2. status[r] \in StatusOrAbsent /\ status[r] \in Follows(status[r])
  BY <1>1, Lifecycle DEF NonTerminal, StatusOrAbsent, ReviewStatus
<1>3. QED
  BY <1>1, <1>2 DEF Seen, ledgerVars

\* The script reads the review to show, or draws the button.
LEMMA FindExistingKeeps ==
    ASSUME ConsoleInv, [Next]_vars, NEW s \in Sessions, FindExisting(s)
    PROVE  ConsoleInv'
<1>1. /\ pc[s] = "find" /\ UNCHANGED ledgerVars
      /\ event' = [event EXCEPT ![s] = event[s]] /\ written' = [written EXCEPT ![s] = written[s]]
  BY Registers DEF FindExisting
<1>2. ASSUME NEW place \in Places, place \notin {"apply", "applied"},
             NEW found, place \in Selected => /\ found.rev \in Reviews
                                              /\ found.status \in NonTerminal
      PROVE  /\ RegistersOK(page[s], event[s], place, found)
             /\ RegistersOK(EmptyPage, event[s], place, found)
             /\ WrittenOK(event[s], place, written[s])
  BY <1>1, <1>2, Registers DEF RegistersOK, WrittenOK, EmptyPage
<1>3. ASSUME NEW r \in OpenReviews, See(s, r), Goto(s, "panel"), UNCHANGED page
      PROVE  ConsoleInv'
  <2> DEFINE found == [rev |-> r, status |-> status[r]]
  <2>1. /\ found \in Seen /\ found.rev \in Reviews /\ found.status \in NonTerminal
        /\ found.rev \in minted'
        /\ status'[found.rev] \in Follows(found.status) \cup {Absent}
    BY <1>1, OpenReview
  <2>2. /\ seen' = [seen EXCEPT ![s] = found] /\ pc' = [pc EXCEPT ![s] = "panel"]
        /\ page' = [page EXCEPT ![s] = page[s]]
    BY <1>3, Registers DEF See, Goto
  <2>3. "panel" \in Places
    BY DEF Places
  <2> HIDE DEF found
  <2>4. RegistersOK(page[s], event[s], "panel", found) /\ WrittenOK(event[s], "panel", written[s])
    BY <1>2, <2>1, <2>3
  <2>5. QED
    BY <1>1, <2>1, <2>2, <2>3, <2>4, Registers, SeenKept, SessionStep
<1>4. ASSUME NEW place \in {"open", "idle"}, Goto(s, place),
             page' = [page EXCEPT ![s] = EmptyPage], UNCHANGED seen
      PROVE  ConsoleInv'
  <2>1. place \in Places /\ place \notin Selected /\ place \notin {"apply", "applied"}
    BY <1>4 DEF Places, Selected
  <2>2. EmptyPage \in Page /\ EmptyPage.rev = NoReview
    BY DEF EmptyPage, Page, StatusOrAbsent
  <2>3. RegistersOK(EmptyPage, event[s], place, seen[s]) /\ WrittenOK(event[s], place, written[s])
    BY <1>2, <2>1
  <2>4. seen' = [seen EXCEPT ![s] = seen[s]] /\ pc' = [pc EXCEPT ![s] = place]
    BY <1>4, Registers DEF Goto
  <2>5. QED
    BY <1>1, <1>4, <2>1, <2>2, <2>3, <2>4, Registers, SessionStep
<1>5. QED
  BY <1>3, <1>4 DEF FindExisting

\* open_review_case finds a review, or goes on to create one.
LEMMA OpenFindsKeeps ==
    ASSUME ConsoleInv, [Next]_vars, NEW s \in Sessions, OpenFinds(s)
    PROVE  ConsoleInv'
<1>1. /\ pc[s] = "open" /\ UNCHANGED ledgerVars /\ page' = [page EXCEPT ![s] = page[s]]
      /\ event' = [event EXCEPT ![s] = event[s]] /\ written' = [written EXCEPT ![s] = written[s]]
  BY Registers DEF OpenFinds
<1>2. ASSUME NEW place \in Places, place \notin {"apply", "applied"},
             NEW found, place \in Selected => /\ found.rev \in Reviews
                                              /\ found.status \in NonTerminal
      PROVE  /\ RegistersOK(page[s], event[s], place, found)
             /\ WrittenOK(event[s], place, written[s])
  BY <1>1, <1>2, Registers DEF RegistersOK, WrittenOK
<1>3. ASSUME NEW r \in OpenReviews, See(s, r), Goto(s, "panel")
      PROVE  ConsoleInv'
  <2> DEFINE found == [rev |-> r, status |-> status[r]]
  <2>1. /\ found \in Seen /\ found.rev \in Reviews /\ found.status \in NonTerminal
        /\ found.rev \in minted'
        /\ status'[found.rev] \in Follows(found.status) \cup {Absent}
    BY <1>1, OpenReview
  <2>2. seen' = [seen EXCEPT ![s] = found] /\ pc' = [pc EXCEPT ![s] = "panel"]
    BY <1>3 DEF See, Goto
  <2>3. "panel" \in Places
    BY DEF Places
  <2> HIDE DEF found
  <2>4. RegistersOK(page[s], event[s], "panel", found) /\ WrittenOK(event[s], "panel", written[s])
    BY <1>2, <2>1, <2>3
  <2>5. QED
    BY <1>1, <2>1, <2>2, <2>3, <2>4, Registers, SeenKept, SessionStep
<1>4. ASSUME Goto(s, "create"), UNCHANGED seen
      PROVE  ConsoleInv'
  <2>1. "create" \in Places /\ "create" \notin Selected
    BY DEF Places, Selected
  <2>2. RegistersOK(page[s], event[s], "create", seen[s]) /\ WrittenOK(event[s], "create", written[s])
    BY <1>2, <2>1
  <2>3. seen' = [seen EXCEPT ![s] = seen[s]] /\ pc' = [pc EXCEPT ![s] = "create"]
    BY <1>4, Registers DEF Goto
  <2>4. QED
    BY <1>1, <2>1, <2>2, <2>3, Registers, SeenKept, SessionStep
<1>5. QED
  BY <1>3, <1>4 DEF OpenFinds

\* A created review is OPEN, and new.
LEMMA OpenCreatesKeeps ==
    ASSUME ConsoleInv, [Next]_vars, NEW s \in Sessions, OpenCreates(s)
    PROVE  ConsoleInv'
<1>1. PICK r \in Reviews \ minted :
          /\ Ledger!CreateReview(r) /\ minted' = minted \cup {r}
          /\ seen' = [seen EXCEPT ![s] = [rev |-> r, status |-> "OPEN"]]
  BY DEF OpenCreates
<1>2. /\ pc[s] = "create" /\ page' = [page EXCEPT ![s] = page[s]]
      /\ event' = [event EXCEPT ![s] = event[s]] /\ written' = [written EXCEPT ![s] = written[s]]
      /\ pc' = [pc EXCEPT ![s] = "panel"]
  BY Registers DEF OpenCreates, Goto
<1> DEFINE found == [rev |-> r, status |-> "OPEN"]
<1>3. found \in Seen /\ found.status \in NonTerminal /\ found.rev \in Reviews
  BY DEF Seen, StatusOrAbsent, ReviewStatus, NonTerminal
<1>4. status \in [Reviews -> StatusOrAbsent]
  BY DEF ConsoleInv, TypeOK
<1>5. found.rev \in minted' /\ status'[found.rev] = found.status
  BY <1>1, <1>4 DEF Ledger!CreateReview
<1>6. found.status \in Follows(found.status)
  BY <1>3, Lifecycle
<1>7. seen' = [seen EXCEPT ![s] = found]
  BY <1>1
<1> HIDE DEF found
<1>8. "panel" \in Places /\ RegistersOK(page[s], event[s], "panel", found)
  BY <1>2, <1>3, Registers DEF Places, RegistersOK
<1>9. WrittenOK(event[s], "panel", written[s])
  BY <1>2, Registers DEF WrittenOK
<1>10. QED
  BY <1>2, <1>3, <1>5, <1>6, <1>7, <1>8, <1>9, Registers, SeenKept, SessionStep

\* The trail that is drawn is read after the status, and ends in what the review
\* is in by then.
LEMMA DrawPanelKeeps ==
    ASSUME ConsoleInv, [Next]_vars, NEW s \in Sessions, DrawPanel(s)
    PROVE  ConsoleInv'
<1> DEFINE r == seen[s].rev
           shown == [rev |-> r, status |-> seen[s].status, trail |-> StatusAfter(log[r])]
<1>1. /\ pc[s] = "panel" /\ pc[s] \in Selected /\ UNCHANGED ledgerVars
      /\ event' = [event EXCEPT ![s] = event[s]] /\ seen' = [seen EXCEPT ![s] = seen[s]]
      /\ written' = [written EXCEPT ![s] = written[s]]
      /\ page' = [page EXCEPT ![s] = shown]
  BY Registers DEF DrawPanel, Drawn, Selected
<1>2. r \in Reviews /\ seen[s].status \in NonTerminal /\ r # NoReview
  BY <1>1, Registers, NoReviewAssumption DEF RegistersOK
<1>3. StatusAfter(log[r]) \in StatusOrAbsent
  <2>1. log[r] \in Seq(AuditEntry)
    BY <1>2 DEF ConsoleInv, TypeOK
  <2>2. log[r] # <<>> => log[r][Len(log[r])] \in AuditEntry
    BY <2>1
  <2>3. QED
    BY <2>2 DEF StatusAfter, AuditEntry, StatusOrAbsent, ReviewStatus
<1>4. shown \in Page /\ shown.rev = r /\ shown.status = seen[s].status
  BY <1>2, <1>3 DEF Page, StatusOrAbsent, NonTerminal, ReviewStatus
<1>5. r \in minted' /\ status'[r] \in Follows(seen[s].status) \cup {Absent}
  BY <1>1, SeenKept
<1>6. status'[r] # Absent => status'[r] = shown.trail
  BY <1>1, <1>2, SameVocabulary DEF ConsoleInv, Proved!LedgerInv, Proved!LedgerConsistent, ledgerVars
<1>7. status'[r] # Absent => shown.trail \in Follows(shown.status)
  BY <1>4, <1>5, <1>6
<1> HIDE DEF shown
<1>8. ASSUME NEW place \in {"apply", "idle"}, pc' = [pc EXCEPT ![s] = place],
             place = "apply" => Submitted(s)
      PROVE  ConsoleInv'
  <2>1. place \in Places /\ RegistersOK(shown, event[s], place, seen[s])
    BY <1>1, <1>2, <1>4, <1>8, Registers DEF Places, RegistersOK, Submitted, Selected
  <2>2. WrittenOK(event[s], place, written[s])
    BY <1>1, <1>8, Registers DEF WrittenOK, Submitted
  <2>3. QED
    BY <1>1, <1>4, <1>5, <1>7, <1>8, <2>1, <2>2, Registers, SessionStep
<1>9. QED
  BY <1>8 DEF DrawPanel, Goto

\* The transition is the first of its submission, on the form's review.
LEMMA ApplyTransitionKeeps ==
    ASSUME ConsoleInv, [Next]_vars, NEW s \in Sessions, ApplyTransition(s)
    PROVE  ConsoleInv'
<1> DEFINE entry == [to |-> seen[s].rev, form |-> event[s].on.rev]
<1>1. /\ pc[s] = "apply" /\ pc[s] \in Selected
      /\ page' = [page EXCEPT ![s] = page[s]]
      /\ event' = [event EXCEPT ![s] = event[s]] /\ seen' = [seen EXCEPT ![s] = seen[s]]
  BY Registers DEF ApplyTransition, Selected
<1>2. /\ event[s].kind = "submit" /\ event[s].on.rev = seen[s].rev
      /\ seen[s].rev \in Reviews
  BY <1>1, Registers DEF RegistersOK
<1>3. written[s] = <<>>
  BY <1>1, <1>2, Registers DEF WrittenOK
<1>4. ASSUME NEW place \in {"applied", "idle"}, pc' = [pc EXCEPT ![s] = place],
             NEW made \in Seq(Transition), written' = [written EXCEPT ![s] = made],
             Len(made) <= 1, \A k \in 1..Len(made) : made[k].to = made[k].form
      PROVE  ConsoleInv'
  <2>1. place \in Places /\ RegistersOK(page[s], event[s], place, seen[s])
    BY <1>1, <1>4, Registers DEF Places, RegistersOK, Selected
  <2>2. WrittenOK(event[s], place, made)
    BY <1>4 DEF WrittenOK
  <2>3. QED
    BY <1>1, <1>4, <2>1, <2>2, Registers, SeenKept, SessionStep
<1>5. CASE /\ written' = [written EXCEPT ![s] = Append(@, entry)]
           /\ Goto(s, "applied")
  <2>1. entry \in Transition /\ entry.to = entry.form
    BY <1>2 DEF Transition
  <2> DEFINE made == <<entry>>
  <2>2. written' = [written EXCEPT ![s] = made]
    BY <1>3, <1>5
  <2> HIDE DEF entry
  <2>3. /\ made \in Seq(Transition) /\ Len(made) = 1
        /\ \A k \in 1..Len(made) : made[k].to = made[k].form
    BY <2>1
  <2>4. pc' = [pc EXCEPT ![s] = "applied"] /\ Len(made) <= 1
    BY <1>5, <2>3 DEF Goto
  <2> HIDE DEF made
  <2>5. QED
    BY <1>4, <2>2, <2>3, <2>4
<1>6. CASE Goto(s, "idle") /\ UNCHANGED written
  <2> DEFINE made == written[s]
  <2>1. /\ written' = [written EXCEPT ![s] = made] /\ made \in Seq(Transition)
        /\ pc' = [pc EXCEPT ![s] = "idle"]
    BY <1>6, Registers DEF Goto
  <2>2. Len(made) <= 1 /\ \A k \in 1..Len(made) : made[k].to = made[k].form
    BY <1>3
  <2> HIDE DEF made
  <2>3. QED
    BY <1>4, <2>1, <2>2
<1>7. QED
  BY <1>5, <1>6 DEF ApplyTransition

\* The run after a transition has no button.
LEMMA RerunKeeps ==
    ASSUME ConsoleInv, [Next]_vars, NEW s \in Sessions, Rerun(s)
    PROVE  ConsoleInv'
<1>1. /\ pc[s] = "applied"
      /\ page' = [page EXCEPT ![s] = page[s]] /\ seen' = [seen EXCEPT ![s] = seen[s]]
      /\ written' = [written EXCEPT ![s] = written[s]]
  BY Registers DEF Rerun
<1>2. NoEvent \in Event /\ NoEvent.kind = "rerun"
  BY DEF NoEvent, NothingSeen, Event, Seen, StatusOrAbsent
<1>3. ASSUME NEW place \in {"find", "idle"}, pc' = [pc EXCEPT ![s] = place],
             NEW ev \in Event, event' = [event EXCEPT ![s] = ev],
             \/ place = "idle" /\ ev = event[s]
             \/ ev = NoEvent
      PROVE  ConsoleInv'
  <2>1. place \in Places /\ place \notin Selected
    BY DEF Places, Selected
  <2>2. RegistersOK(page[s], ev, place, seen[s])
    BY <1>2, <1>3, <2>1, Registers DEF RegistersOK, Selected
  <2>3. WrittenOK(ev, place, written[s])
    BY <1>2, <1>3, Registers DEF WrittenOK
  <2>4. QED
    BY <1>1, <1>3, <2>1, <2>2, <2>3, Registers, SeenKept, SessionStep
<1>4. CASE Goto(s, "idle") /\ UNCHANGED event
  BY <1>3, <1>4, Registers DEF Goto
<1>5. CASE Goto(s, "find") /\ event' = [event EXCEPT ![s] = NoEvent]
  BY <1>2, <1>3, <1>5 DEF Goto
<1>6. QED
  BY <1>4, <1>5 DEF Rerun

\* What others do to the ledger leaves what every session has seen.
LEMMA OthersKeep ==
    ASSUME ConsoleInv, [Next]_vars, UNCHANGED <<page, event, pc, seen, written>>
    PROVE  ConsoleInv'
<1>1. ASSUME NEW x \in Sessions
      PROVE  /\ RegistersOK(page[x], event[x], pc[x], seen[x])'
             /\ SeenOK(page[x], pc[x], seen[x])'
             /\ WrittenOK(event[x], pc[x], written[x])'
  <2>1. RegistersOK(page[x], event[x], pc[x], seen[x])'
    BY DEF ConsoleInv, RegistersOK
  <2>2. WrittenOK(event[x], pc[x], written[x])'
    BY DEF ConsoleInv, WrittenOK
  <2>3. SeenOK(page[x], pc[x], seen[x])'
    BY SeenKept DEF SeenOK
  <2>4. QED
    BY <2>1, <2>2, <2>3
<1>2. TypeOK'
  BY LedgerTyped DEF ConsoleInv, TypeOK
<1>3. QED
  BY <1>1, <1>2, LedgerStep DEF ConsoleInv

-----------------------------------------------------------------------------
\* It holds of every reachable state.
LEMMA ConsoleInvCorrect == Spec => []ConsoleInv
<1>1. Init => ConsoleInv
  <2> SUFFICES ASSUME Init PROVE ConsoleInv
    OBVIOUS
  <2>1. /\ status = [r \in Reviews |-> Absent] /\ log = [r \in Reviews |-> <<>>]
    BY SameVocabulary DEF Init, Ledger!Init
  <2>2. Proved!LedgerInv
    BY <2>1, SameVocabulary, Proved!LedgerStart DEF Proved!Init
  <2>3. <<>> \in Seq(AuditEntry) /\ <<>> \in Seq(Transition)
    OBVIOUS
  <2>4. EmptyPage \in Page /\ NothingSeen \in Seen /\ NoEvent \in Event /\ EmptyPage.rev = NoReview
        /\ NoEvent.kind = "rerun"
    BY DEF EmptyPage, Page, NothingSeen, Seen, NoEvent, Event, StatusOrAbsent
  <2>5. TypeOK
    BY <2>1, <2>3, <2>4 DEF Init, TypeOK, StatusOrAbsent, Transition
  <2>6. ASSUME NEW s \in Sessions
        PROVE  /\ RegistersOK(page[s], event[s], pc[s], seen[s])
               /\ SeenOK(page[s], pc[s], seen[s])
               /\ WrittenOK(event[s], pc[s], written[s])
    BY <2>4 DEF Init, RegistersOK, SeenOK, WrittenOK, Selected
  <2>7. QED
    BY <2>1, <2>2, <2>5, <2>6 DEF ConsoleInv
<1>2. ConsoleInv /\ [Next]_vars => ConsoleInv'
  <2> SUFFICES ASSUME ConsoleInv, [Next]_vars PROVE ConsoleInv'
    OBVIOUS
  <2>1. CASE UNCHANGED <<page, event, pc, seen, written>>
    BY <2>1, OthersKeep
  <2>2. CASE \E s \in Sessions : Interact(s) \/ Script(s)
    BY <2>2, InteractKeeps, FindExistingKeeps, OpenFindsKeeps, OpenCreatesKeeps, DrawPanelKeeps,
       ApplyTransitionKeeps, RerunKeeps DEF Script
  <2>3. QED
    BY <2>1, <2>2 DEF Next, vars
<1>3. QED
  BY <1>1, <1>2, PTL DEF Spec

\* Whatever the sessions, the API and purges do, the state is typed, and the
\* script shows, draws and submits reviews in a non-terminal state.
THEOREM TypeOKCorrect == Spec => []TypeOK
<1>1. ConsoleInv => TypeOK
  BY DEF ConsoleInv
<1>2. QED
  BY <1>1, ConsoleInvCorrect, PTL

\* A submission makes at most one transition, of the review of its form, though
\* the script runs again after it.
THEOREM OneTransitionPerSubmissionCorrect == Spec => []OneTransitionPerSubmission
<1>1. ConsoleInv => OneTransitionPerSubmission
  BY DEF ConsoleInv, WrittenOK, OneTransitionPerSubmission
<1>2. QED
  BY <1>1, ConsoleInvCorrect, PTL

\* The trail of a page is not older than its status, unless the review is gone.
THEOREM TrailNotOlderCorrect == Spec => []TrailNotOlder
<1>1. ConsoleInv => TrailNotOlder
  BY DEF ConsoleInv, SeenOK, TrailNotOlder
<1>2. QED
  BY <1>1, ConsoleInvCorrect, PTL

\* A transition is made from the very status that the script read, or refused.
THEOREM AppliesToStatusItReadCorrect == Spec => AppliesToStatusItRead
<1>1. ASSUME ConsoleInv, [Next]_vars
      PROVE  [\A s \in Sessions : Applies(s) =>
                log'[seen[s].rev][Len(log'[seen[s].rev])].prior = seen[s].status]_vars
  <2> SUFFICES ASSUME NEW s \in Sessions, Applies(s)
               PROVE  log'[seen[s].rev][Len(log'[seen[s].rev])].prior = seen[s].status
    OBVIOUS
  <2> DEFINE r == seen[s].rev
             new == WidgetValue(s)
  <2>1. ApplyTransition(s)
    <3>1. pc \in [Sessions -> Places] /\ pc[s] = "apply" /\ pc'[s] = "applied"
      BY <1>1 DEF Applies, ConsoleInv, TypeOK, Places
    <3>2. \A x \in Sessions : Interact(x) \/ Script(x) =>
              x = s \/ pc'[s] = pc[s]
      BY <3>1 DEF Interact, Script, FindExisting, OpenFinds, OpenCreates, DrawPanel,
         ApplyTransition, Rerun, Goto
    <3>3. Interact(s) \/ Script(s)
      BY <1>1, <3>1, <3>2 DEF Next, vars
    <3>4. QED
      BY <3>1, <3>3 DEF Interact, Script, FindExisting, OpenFinds, OpenCreates, DrawPanel,
         Rerun, Goto
  <2>2. Ledger!ApplyTransition(r, new)
    <3>1. pc[s] = "apply" /\ pc'[s] = "applied" /\ pc \in [Sessions -> Places]
      BY <1>1 DEF Applies, ConsoleInv, TypeOK, Places
    <3>2. QED
      BY <2>1, <3>1 DEF ApplyTransition, Goto
  <2>3. /\ event[s].kind = "submit" /\ event[s].on.status \in NonTerminal
        /\ event[s].choice \in Options(event[s].on.status)
        /\ r \in Reviews /\ seen[s].status \in NonTerminal
        /\ status[r] \in Follows(seen[s].status) \cup {Absent}
    BY <1>1, <2>1 DEF ApplyTransition, ConsoleInv, RegistersOK, SeenOK, Selected
  <2>4. new \in Options(seen[s].status)
    BY <2>3 DEF WidgetValue, Options, FirstOption, NonTerminal, ALLOWED_TRANSITIONS, ReviewStatus
  <2>5. status[r] # Absent /\ new \in ALLOWED_TRANSITIONS[status[r]]
    BY <2>2, SameVocabulary DEF Ledger!ApplyTransition
  <2>6. status[r] = seen[s].status
    BY <2>3, <2>4, <2>5, Lifecycle
  <2>7. log[r] \in Seq(AuditEntry) /\ log \in [Reviews -> Seq(AuditEntry)]
    BY <1>1, <2>3 DEF ConsoleInv, TypeOK
  <2>8. log'[r] = Append(log[r], [prior |-> status[r], new |-> new])
    BY <2>2, <2>3, <2>7 DEF Ledger!ApplyTransition
  <2>9. QED
    BY <2>6, <2>7, <2>8
<1>2. QED
  BY <1>1, ConsoleInvCorrect, PTL DEF Spec, AppliesToStatusItRead
=============================================================================
