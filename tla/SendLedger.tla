----------------------------- MODULE SendLedger -----------------------------
(***************************************************************************)
(* What a send promises its reader, with no pipe, daemon, page or link in  *)
(* sight: it reaches the Mac once at most; a bubble stops being in flight  *)
(* only as sent, when the Mac holds those words of ours in that chat, or   *)
(* as failed, when nobody asks the Mac for it any more; and it is never    *)
(* in flight again ("a send still on the wire outlives" a replacement,     *)
(* Client.qml:299-306).  A failed send may have reached the Mac, or reach  *)
(* it yet, when it is its answer that was lost.                            *)
(***************************************************************************)
EXTENDS Naturals, Sequences

CONSTANTS Chats, Texts

VARIABLES
  filed,    \* what the Mac holds, in order
  said,     \* what was sent from here, in order
  asked,    \* the sends the Mac is, or is about to be, asked for
  adrift,   \* those given up on that the Mac may file all the same
  pending,  \* those whose bubble is in flight
  failed    \* those whose bubble says that they failed

Words == [chat : Chats, text : Texts, fromMe : BOOLEAN]

Init ==
  /\ filed \in Seq(Words)
  /\ said = <<>>
  /\ asked = {} /\ adrift = {} /\ pending = {} /\ failed = {}

(* Somebody else writes, or this account on another device. *)
File(m) ==
  /\ filed' = Append(filed, m)
  /\ UNCHANGED <<said, asked, adrift, pending, failed>>

Send(m) ==
  /\ m.fromMe
  /\ said' = Append(said, m)
  /\ asked' = asked \cup {Len(said')}
  /\ pending' = pending \cup {Len(said')}
  /\ UNCHANGED <<filed, adrift, failed>>

(* Once, and in time or late. *)
Deliver(k) ==
  /\ filed' = Append(filed, said[k])
  /\ asked' = asked \ {k} /\ adrift' = adrift \ {k}
  /\ UNCHANGED <<said, pending, failed>>

(* Refused by the Mac, or lost with a request, a link or a daemon: those   *)
(* in L the Mac may have.                                                  *)
GiveUp(K, L) ==
  /\ asked' = asked \ K /\ adrift' = adrift \cup L
  /\ UNCHANGED <<filed, said, pending, failed>>

(* Another message in the same words may be taken for this one. *)
Arrive(k) ==
  /\ \E g \in DOMAIN filed : filed[g] = said[k]
  /\ pending' = pending \ {k}
  /\ UNCHANGED <<filed, said, asked, adrift, failed>>

Fail(k) ==
  /\ k \notin asked
  /\ pending' = pending \ {k}
  /\ failed' = failed \cup {k}
  /\ UNCHANGED <<filed, said, asked, adrift>>

(* A reload keeps no failed bubble; a late echo takes the place of one. *)
Forget(K) ==
  /\ failed' = failed \ K
  /\ UNCHANGED <<filed, said, asked, adrift, pending>>

Next ==
  \/ \E m \in Words : File(m) \/ Send(m)
  \/ \E k \in asked \cup adrift : Deliver(k)
  \/ \E K \in SUBSET asked : \E L \in SUBSET K : GiveUp(K, L)
  \/ \E k \in pending : Arrive(k) \/ Fail(k)
  \/ \E K \in SUBSET failed : Forget(K)

Spec == Init /\ [][Next]_<<filed, said, asked, adrift, pending, failed>>
=============================================================================
