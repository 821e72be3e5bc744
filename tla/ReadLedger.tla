----------------------------- MODULE ReadLedger -----------------------------
(***************************************************************************)
(* What read-state.json promises, with no daemon in sight: per chat one    *)
(* durable boundary that only moves forward and only ever names a message  *)
(* the Mac has filed ("one timestamp per chat: the newest message this     *)
(* install has been shown", readstate.js:7-11).  Crashes, restarts, writes *)
(* that fail and list sweeps are all invisible here.                       *)
(***************************************************************************)
EXTENDS Naturals

CONSTANT Chats

VARIABLES
  filed,     \* the timestamps of each chat's messages
  boundary   \* what read-state.json holds

Init ==
  /\ filed = [c \in Chats |-> {}]
  /\ boundary = [c \in Chats |-> 0]

(* The Mac files messages and never takes a timestamp back. *)
File ==
  /\ filed' \in [Chats -> SUBSET Nat]
  /\ \A c \in Chats : filed[c] \subseteq filed'[c]
  /\ UNCHANGED boundary

(* One write carries every boundary moved since the last that succeeded.   *)
Advance ==
  /\ boundary' \in [Chats -> Nat]
  /\ \A c \in Chats :
       \/ boundary'[c] = boundary[c]
       \/ boundary'[c] > boundary[c] /\ boundary'[c] \in filed[c]
  /\ UNCHANGED filed

Next == File \/ Advance

Spec == Init /\ [][Next]_<<filed, boundary>>
=============================================================================
