----------------------------- MODULE MCThread -----------------------------
(* What the Mac holds when the runs of Thread begin, who the participants  *)
(* are, and the symmetry of the jobs.                                      *)
EXTENDS Thread, TLC

CONSTANTS a, b, h

From(c, ts) == [chat |-> c, handle |-> h, ts |-> ts, fromMe |-> FALSE, text |-> "hi"]

Nothing == <<>>
(* A message that chat.db never linked to its chat. *)
Orphan == <<From(None, 1)>>
(* The chat begins with two messages of one millisecond. *)
Deep == <<From(a, 1), From(a, 1), From(a, 2)>>

(* h is the one participant of the one chat. *)
Pair == [c \in Chats |-> h]
(* a is a group, b the chat of h. *)
GroupAndPair == [c \in Chats |-> IF c = a THEN None ELSE h]

Symmetry == Permutations(Jobs)
=============================================================================
