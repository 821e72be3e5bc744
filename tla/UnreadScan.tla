----------------------------- MODULE UnreadScan -----------------------------
(***************************************************************************)
(* One chat as the Mac holds it, and what a scan of it would report in     *)
(* every state it can reach: the instance UnreadRun is checked on.         *)
(*                                                                         *)
(* The Mac is external.  It files messages in arrival order, stamps        *)
(* dateRead on inbound ones in no order anybody promises (the header of    *)
(* bluebubbles.js: "dateRead under-reports") and moves                     *)
(* lastSeenMessageGuid forward only when it chooses to.                    *)
(***************************************************************************)
EXTENDS UnreadRun

CONSTANT MaxMsgs        \* bound: messages the thread may hold

ASSUME MaxMsgsAssumption == MaxMsgs \in Nat

VARIABLES
  thread,   \* the chat's messages, oldest first
  seen      \* properties[0].lastSeenMessageGuid, 0 when the chat has none

vars == <<thread, seen>>

Scan == UnreadRun(Window(thread), seen)

ThreadOK ==
  /\ thread \in Seq(Messages)
  /\ seen \in 0..Len(thread)
  /\ \A i \in 1..Len(thread) : thread[i].guid = i

(* The thread is one the Mac can hold and no answer outgrows the scan. *)
TypeOK ==
  /\ ThreadOK
  /\ Scan \in Seq(Nat)
  /\ Len(Scan) <= ScanLimit

Init == thread = <<>> /\ seen = 0

(* Two messages of one burst may share a millisecond. *)
Arrive(fromMe, ts) ==
  /\ Len(thread) < MaxMsgs
  /\ thread' = Append(thread, [guid |-> Len(thread) + 1, ts |-> ts,
                               fromMe |-> fromMe, read |-> FALSE])
  /\ UNCHANGED seen

NextTs == IF thread = <<>> THEN {1}
          ELSE {thread[Len(thread)].ts, thread[Len(thread)].ts + 1}

StampRead(i) ==
  /\ ~thread[i].fromMe
  /\ ~thread[i].read
  /\ thread' = [thread EXCEPT ![i].read = TRUE]
  /\ UNCHANGED seen

MoveBoundary(i) ==
  /\ i > seen
  /\ seen' = i
  /\ UNCHANGED thread

Next ==
  \/ \E fromMe \in BOOLEAN, ts \in NextTs : Arrive(fromMe, ts)
  \/ \E i \in 1..Len(thread) : StampRead(i) \/ MoveBoundary(i)

Spec == Init /\ [][Next]_vars

-----------------------------------------------------------------------------
(* Properties *)

(* Every timestamp a scan reports is one the two signals agree on: the     *)
(* k-th entry is the k-th newest message of the chat, it is inbound, it    *)
(* carries no dateRead and it is newer than the Mac's boundary.  Counting  *)
(* positions and counting inbound messages after the boundary are two      *)
(* different walks (bluebubbles.js:345-348), and the slice is right only   *)
(* because they never disagree inside the run.                             *)
ScanReportsOnlyUnread ==
  \A k \in 1..Len(Scan) :
    LET m == thread[Len(thread) + 1 - k] IN
      /\ Scan[k] = m.ts
      /\ ~m.fromMe
      /\ ~m.read
      /\ m.guid > seen

(* A run is cut short only for a reason: in a chat whose window shows a    *)
(* recorded read, the first message the run leaves out is an own one, a    *)
(* read one, or one at or before the boundary (bluebubbles.js:517-537).    *)
ScanStopsForAReason ==
  LET k == Len(Scan) + 1 IN
    Tracked(Window(thread)) /\ k <= Len(Window(thread)) =>
      LET m == thread[Len(thread) + 1 - k] IN
        m.fromMe \/ m.read \/ m.guid <= seen

(* The boundary "may only ever shorten the answer, never create one"       *)
(* (bluebubbles.js:322-326): moving it forward, or having one where there  *)
(* was none, leaves a prefix of the run reported before.                   *)
BoundaryOnlyShortens ==
  [][thread' = thread =>
       /\ Len(Scan') <= Len(Scan)
       /\ \A k \in 1..Len(Scan') : Scan'[k] = Scan[k]]_vars
=============================================================================
