----------------------------- MODULE UnreadRun -----------------------------
(***************************************************************************)
(* How the startup scan turns one chat's newest messages into its unread   *)
(* run: BlueBubblesClient.unreadRuns and its two helpers in                *)
(* daemon/lib/bluebubbles.js.  Pure: no state, no I/O.                     *)
(*                                                                         *)
(* A thread is oldest-first, as the Mac files it; a window is what one     *)
(* request returns of it, newest-first.  A message is a record             *)
(*   guid    its identity, a positive number; 0 is "no guid"               *)
(*   ts      dateCreated, the only part of it the run keeps                *)
(*   fromMe  isFromMe                                                      *)
(*   read    whether dateRead is set                                       *)
(***************************************************************************)
EXTENDS Integers, Sequences, FiniteSets

CONSTANT ScanLimit      \* UNREAD_SCAN_LIMIT, 100 in the code

ASSUME ScanLimitAssumption == ScanLimit \in Nat \ {0}

Messages == [guid : Nat \ {0}, ts : Nat \ {0}, fromMe : BOOLEAN, read : BOOLEAN]

Least(a, b) == IF a < b THEN a ELSE b

(* The answer to `limit: UNREAD_SCAN_LIMIT, sort: DESC`. *)
Window(thread) ==
  [i \in 1..Least(Len(thread), ScanLimit) |-> thread[Len(thread) + 1 - i]]

(* What ends a run: an own message, or one carrying dateRead. *)
EndsRun(m) == m.fromMe \/ m.read

(* dateRead is trusted only where the chat has recorded a read at all. *)
Tracked(msgs) == \E i \in DOMAIN msgs : ~msgs[i].fromMe /\ msgs[i].read

RunLength(msgs) ==
  IF Tracked(msgs)
    THEN Cardinality({i \in 1..Len(msgs) : \A j \in 1..i : ~EndsRun(msgs[j])})
    ELSE 0

(* The inbound messages met before the boundary guid; a guid the window    *)
(* does not hold never stops the count.                                    *)
CountAfterBoundary_Inclusive(msgs, seen) ==   \* mutant: counts, then breaks
  Cardinality({i \in 1..Len(msgs) :
                 /\ ~msgs[i].fromMe
                 /\ \A j \in 1..(i - 1) : msgs[j].guid # seen})

CountAfterBoundary_Unresolved(msgs, seen) ==  \* mutant: not found vetoes all
  Cardinality({i \in 1..Len(msgs) :
                 /\ \E k \in 1..Len(msgs) : msgs[k].guid = seen
                 /\ ~msgs[i].fromMe
                 /\ \A j \in 1..i : msgs[j].guid # seen})

CountAfterBoundary(msgs, seen) ==
  Cardinality({i \in 1..Len(msgs) :
                 /\ ~msgs[i].fromMe
                 /\ \A j \in 1..i : msgs[j].guid # seen})

(* The shorter of the two prefixes: the Mac's lastSeenMessageGuid may veto *)
(* but never add.  No guid, no veto.                                       *)
ScanLength_Creates(msgs, seen) ==    \* mutant: the boundary may add
  IF seen = 0 THEN RunLength(msgs)
  ELSE IF RunLength(msgs) = 0 THEN CountAfterBoundary(msgs, seen)
  ELSE Least(RunLength(msgs), CountAfterBoundary(msgs, seen))

ScanLength(msgs, seen) ==
  IF seen = 0 THEN RunLength(msgs)
              ELSE Least(RunLength(msgs), CountAfterBoundary(msgs, seen))

UnreadRun(msgs, seen) == [i \in 1..ScanLength(msgs, seen) |-> msgs[i].ts]

=============================================================================
