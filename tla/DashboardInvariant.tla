-------------------------- MODULE DashboardInvariant --------------------------
(***************************************************************************)
(* Why the page shows nothing older than its refresh: an inductive         *)
(* invariant of Dashboard.  The last entry of the history is the present,  *)
(* and all that a refresh holds was the present since it began.            *)
(***************************************************************************)
EXTENDS Dashboard

HistoryIsUpToDate ==
  /\ past # <<>> /\ past[Len(past)] = Tables
  /\ Len(past) <= MaxChanges + 1 /\ newest < Len(past)

\* The moments a refresh may have read at, so far.
Since(r) == reading[r].from..Len(past)

RefreshIsOpenOrIdle(r) ==
  /\ reading[r].from <= Len(past)
  /\ reading[r].from = 0 => reading[r] = Idle

\* Each answer held was in the tables since the refresh began, or is what a
\* failed request looks like.
AnswersAreRecent(r) ==
  /\ \A list \in reading[r].pending :
       (list = {} /\ "db" \in Faults) \/ \E n \in Since(r) : list = past[n].pending
  /\ \A list \in reading[r].audit :
       (list = {} /\ "db" \in Faults) \/ \E n \in Since(r) : list = past[n].audit
  /\ \A list \in reading[r].graph :
       \E n \in Since(r) :
         list = past[n].graph \/ (list \subseteq past[n].graph /\ "graph" \in Faults)

\* Checked by TLC, and proved inductive in DashboardProofs.
PanelsInv ==
  /\ HistoryIsUpToDate
  /\ \A r \in Refreshes : RefreshIsOpenOrIdle(r) /\ AnswersAreRecent(r)

=============================================================================
