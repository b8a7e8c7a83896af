------------------------ MODULE ReviewStoreInvariants ------------------------
(***************************************************************************)
(* The inductive strengthenings of the properties of ReviewStore: why the  *)
(* lock, the transaction and the draft together keep them.                 *)
(***************************************************************************)
EXTENDS ReviewStoreProperties

Decided == TransitionSteps \ {"select"}

\* Past an open's first steps a thread works on a review id; in a transition
\* it has a requested status, and past the SELECT a permitted one.
RegistersOK ==
    \A t \in Threads :
        /\ pc[t] \notin {"idle", "find", "create"} => rev[t] \in Reviews
        /\ pc[t] \in TransitionSteps => want[t] \in ReviewStatus
        /\ pc[t] \in Decided =>
              seen[t] \in ReviewStatus /\ want[t] \in ALLOWED_TRANSITIONS[seen[t]]

TypeInv == TypeOK /\ RegistersOK

-----------------------------------------------------------------------------
(* Any number of stores. *)

\* Steps of a thread that has written and not yet committed.
Dirty == {"insert", "deleteCase"} \cup Committing
Critical == {"update"} \cup Dirty

\* A thread in a critical section owns its store's lock, and once it has
\* written its connection holds the write lock of the file.
CriticalSections ==
    \A t \in Threads :
        /\ pc[t] \in Critical => lock[StoreOf[t]] = t
        /\ pc[t] \in Dirty => tx[StoreOf[t]] \in Writing

\* One connection writes at a time, and without one the draft is the file.
OneWriter ==
    /\ \A s1, s2 \in Stores : tx[s1] \in Writing /\ tx[s2] \in Writing => s1 = s2
    /\ (\A s \in Stores : tx[s] \notin Writing) => draftStatus = status /\ draftLog = log

\* An id not minted yet has no row anywhere, and no transition reaches it.
FreshIdsUnused ==
    /\ \A r \in Reviews \ minted :
          /\ status[r] = Absent /\ draftStatus[r] = Absent
          /\ log[r] = <<>> /\ draftLog[r] = <<>>
    /\ \A t \in Threads : pc[t] \in Decided \cup {"commitCreate"} => rev[t] \in minted

ExclusionInv == CriticalSections /\ OneWriter /\ FreshIdsUnused

\* Review r is between the two statements of a transition or of a purge.
BetweenStatements(r) == \E t \in Threads : pc[t] \in {"insert", "deleteCase"} /\ rev[t] = r

\* What the next COMMIT would publish is sound, but for the review whose
\* second statement is still to come.
DraftSound ==
    \A r \in Reviews :
        /\ LegalRows(draftLog[r])
        /\ draftStatus[r] # Absent /\ ~BetweenStatements(r) =>
              draftStatus[r] = StatusAfter(draftLog[r])

\* Between the UPDATE and the INSERT the draft has the requested status.
UpdatedDraft ==
    \A t \in Threads : pc[t] = "insert" => draftStatus[rev[t]] \in {want[t], Absent}

SoundInv == AuditTrailSound /\ DraftSound /\ UpdatedDraft

Row(t) == [prior |-> seen[t], new |-> want[t]]

\* The draft still has the committed rows of r, in place.
Kept(r) ==
    /\ Len(draftLog[r]) >= Len(log[r])
    /\ \A k \in 1..Len(log[r]) : draftLog[r][k] = log[r][k]

\* A review whose committed rows the draft lacks is purged in it, or its
\* purge is between its two DELETEs.
DraftKeepsOrPurges ==
    \A r \in Reviews :
        \/ Kept(r)
        \/ /\ draftLog[r] = <<>>
           /\ draftStatus[r] = Absent \/ \E t \in Threads : pc[t] = "deleteCase" /\ rev[t] = r

\* A transition on a connection that already writes has found its review in
\* the draft, so not one purged there; from its UPDATE on, the draft has the
\* committed rows of the review; and once inserted, its own.
TransitionOnKeptRows ==
    \A t \in Threads :
        /\ pc[t] = "update" /\ tx[StoreOf[t]] \in Writing => draftStatus[rev[t]] # Absent
        /\ pc[t] = "insert" => Kept(rev[t])
        /\ pc[t] = "commitTransition" =>
              \E k \in 1..Len(draftLog[rev[t]]) : draftLog[rev[t]][k] = Row(t)

\* A review purged after its transition was committed does not come back.
RecordedOrGone ==
    \A t \in Threads : pc[t] = "reread" =>
        LET r == rev[t]
        IN  \/ status[r] = Absent /\ draftStatus[r] = Absent
            \/ \E k \in 1..Len(log[r]) : log[r][k] = Row(t)

HistoryInv == DraftKeepsOrPurges /\ TransitionOnKeptRows /\ RecordedOrGone

-----------------------------------------------------------------------------
(* One store on the file: the draft differs from the file by what the one  *)
(* thread in a critical section has written.                               *)

\* The draft is the file with these two changes to review r.
DraftIs(r, st, rows) ==
    /\ draftStatus = [status EXCEPT ![r] = st]
    /\ draftLog = [log EXCEPT ![r] = rows]

SoleStoreInv ==
    /\ \A s \in Stores : lock[s] = Nobody => tx[s] = "none"
    /\ \A s \in Stores : tx[s] \in {"none", "reserved"}
    /\ \A s \in Stores, t \in Threads : lock[s] = t => pc[t] \in Critical
    /\ \A t \in Threads :
          LET r == rev[t]
          IN  /\ pc[t] = "update" =>
                    tx[StoreOf[t]] = "none" /\ status[r] = seen[t]
              /\ pc[t] = "insert" =>
                    status[r] = seen[t] /\ DraftIs(r, want[t], log[r])
              /\ pc[t] = "commitTransition" =>
                    status[r] = seen[t] /\ DraftIs(r, want[t], Append(log[r], Row(t)))
              /\ pc[t] = "commitCreate" =>
                    status[r] = Absent /\ log[r] = <<>> /\ DraftIs(r, "OPEN", <<>>)
              /\ pc[t] = "deleteCase" => DraftIs(r, status[r], <<>>)
              /\ pc[t] = "commitPurge" => DraftIs(r, Absent, <<>>)

\* A transition's second critical section finds its own status or a later
\* one, and its review is not one that is still being created.
ReplyInv ==
    \A t \in Threads : pc[t] = "reread" =>
        /\ status[rev[t]] \in {want[t], Absent} \cup ALLOWED_TRANSITIONS[want[t]]
        /\ \A u \in Threads : pc[u] = "commitCreate" => rev[u] # rev[t]

\* No review of case c is stored in a state that is not terminal.
NothingOpen(c) == \A r \in Reviews : CaseOf[r] = c => status[r] \notin NonTerminal

\* What Find found out is still true when the new review is committed: only
\* the opener could add an open review, and the case has none.
OpenerInv ==
    /\ OneOpenReviewPerCase
    /\ \A t \in Threads :
          /\ pc[t] \in {"find", "create", "commitCreate"} => t \in Openers
          /\ pc[t] = "create" => NothingOpen(rev[t])
          /\ pc[t] = "commitCreate" => NothingOpen(CaseOf[rev[t]])
=============================================================================
