------------------------------ MODULE MCPanel ------------------------------
(* One chat the Mac lists at the start, and one it does not list yet. *)
EXTENDS Panel

CONSTANTS a, b

Ages == [c \in Chats |-> IF c = a THEN 1 ELSE 0]
=============================================================================
