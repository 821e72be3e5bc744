-------------------------- MODULE UnreadRunProofs --------------------------
(* What UnreadRun's walks return, for every window and boundary guid.      *)
EXTENDS UnreadRun, FiniteSetTheorems, TLAPS

(* A set of positions that all lie before position j has fewer than j      *)
(* members: what turns "the count reached k" into "no stop before k".      *)
LEMMA PositionsBefore ==
  ASSUME NEW j \in Nat \ {0}, NEW S, S \subseteq 1..(j - 1)
  PROVE  Cardinality(S) \in Nat /\ Cardinality(S) < j
<1>1. IsFiniteSet(1..(j - 1)) /\ Cardinality(1..(j - 1)) = j - 1
  BY FS_Interval
<1>2. IsFiniteSet(S) /\ Cardinality(S) <= j - 1
  BY <1>1, FS_Subset
<1>3. Cardinality(S) \in Nat
  BY <1>2, FS_CardinalityType
<1> QED BY <1>2, <1>3

(* Both walks stay inside the window. *)
LEMMA PositionsWithin ==
  ASSUME NEW n \in Nat, NEW S, S \subseteq 1..n
  PROVE  Cardinality(S) \in 0..n
<1>1. S \subseteq 1..((n + 1) - 1) /\ n + 1 \in Nat \ {0}
  OBVIOUS
<1>2. Cardinality(S) \in Nat /\ Cardinality(S) < n + 1
  BY <1>1, PositionsBefore
<1> QED BY <1>2

(* runBeforeFirstRead: inside the run no message ends it. *)
LEMMA RunLengthIsSound ==
  ASSUME NEW msgs \in Seq(Messages)
  PROVE  /\ RunLength(msgs) \in 0..Len(msgs)
         /\ \A k \in 1..RunLength(msgs) : ~EndsRun(msgs[k])
<1> DEFINE P == {i \in 1..Len(msgs) : \A j \in 1..i : ~EndsRun(msgs[j])}
<1>1. Len(msgs) \in Nat
  OBVIOUS
<1>2. Cardinality(P) \in 0..Len(msgs)
  <2>1. P \subseteq 1..Len(msgs)
    OBVIOUS
  <2> HIDE DEF P
  <2> QED BY <1>1, <2>1, PositionsWithin
<1>3. RunLength(msgs) \in 0..Len(msgs) /\ RunLength(msgs) <= Cardinality(P)
  BY <1>1, <1>2 DEF RunLength
<1>4. ASSUME NEW k \in 1..RunLength(msgs), EndsRun(msgs[k])
      PROVE  FALSE
  <2>1. k \in Nat \ {0}
    BY <1>3
  <2>2. P \subseteq 1..(k - 1)
    BY <1>1, <1>4, <2>1
  <2> HIDE DEF P
  <2>3. Cardinality(P) < k
    BY <2>1, <2>2, PositionsBefore
  <2> QED BY <1>2, <1>3, <2>1, <2>3
<1> QED BY <1>3, <1>4

(* countAfterBoundary: a count that reaches k met no boundary up to k. *)
LEMMA CountIsSound ==
  ASSUME NEW msgs \in Seq(Messages), NEW seen \in Nat
  PROVE  /\ CountAfterBoundary(msgs, seen) \in 0..Len(msgs)
         /\ \A k \in 1..CountAfterBoundary(msgs, seen) : msgs[k].guid # seen
<1> DEFINE P == {i \in 1..Len(msgs) : /\ ~msgs[i].fromMe
                                      /\ \A j \in 1..i : msgs[j].guid # seen}
<1>1. Len(msgs) \in Nat
  OBVIOUS
<1>2. Cardinality(P) \in 0..Len(msgs)
  <2>1. P \subseteq 1..Len(msgs)
    OBVIOUS
  <2> HIDE DEF P
  <2> QED BY <1>1, <2>1, PositionsWithin
<1>3. CountAfterBoundary(msgs, seen) = Cardinality(P)
  BY DEF CountAfterBoundary
<1>4. ASSUME NEW k \in 1..Cardinality(P), msgs[k].guid = seen
      PROVE  FALSE
  <2>1. k \in Nat \ {0}
    BY <1>2
  <2>2. P \subseteq 1..(k - 1)
    BY <1>1, <1>4, <2>1
  <2> HIDE DEF P
  <2>3. Cardinality(P) < k
    BY <2>1, <2>2, PositionsBefore
  <2> QED BY <1>2, <2>1, <2>3
<1> QED BY <1>2, <1>3, <1>4

(* The run is a prefix of the window both signals call unread: no own or   *)
(* read message in it, and no message the boundary guid names.             *)
THEOREM RunIsAgreedPrefix ==
  ASSUME NEW msgs \in Seq(Messages), NEW seen \in Nat
  PROVE  /\ ScanLength(msgs, seen) \in 0..Len(msgs)
         /\ UnreadRun(msgs, seen) \in Seq(Nat)
         /\ Len(UnreadRun(msgs, seen)) = ScanLength(msgs, seen)
         /\ \A k \in 1..ScanLength(msgs, seen) :
              /\ UnreadRun(msgs, seen)[k] = msgs[k].ts
              /\ ~msgs[k].fromMe
              /\ ~msgs[k].read
              /\ msgs[k].guid # seen
<1> DEFINE n == ScanLength(msgs, seen)
<1>1. Len(msgs) \in Nat /\ \A k \in 1..Len(msgs) : msgs[k] \in Messages
  OBVIOUS
<1>2. /\ n \in 0..Len(msgs)
      /\ n <= RunLength(msgs)
      /\ seen # 0 => n <= CountAfterBoundary(msgs, seen)
  BY <1>1, RunLengthIsSound, CountIsSound DEF ScanLength, Least
<1>3. ASSUME NEW k \in 1..n
      PROVE  ~msgs[k].fromMe /\ ~msgs[k].read /\ msgs[k].guid # seen
  <2>1. k \in 1..RunLength(msgs) /\ k \in 1..Len(msgs)
    BY <1>1, <1>2, RunLengthIsSound
  <2>2. ~msgs[k].fromMe /\ ~msgs[k].read
    BY <2>1, RunLengthIsSound DEF EndsRun
  <2>3. CASE seen = 0
    BY <1>1, <2>1, <2>2, <2>3 DEF Messages
  <2>4. CASE seen # 0
    <3>1. k \in 1..CountAfterBoundary(msgs, seen)
      BY <1>2, <2>4, <1>1, CountIsSound
    <3> QED BY <2>2, <3>1, CountIsSound
  <2> QED BY <2>3, <2>4
<1> HIDE DEF n
<1>4. UnreadRun(msgs, seen) = [i \in 1..n |-> msgs[i].ts]
  BY DEF UnreadRun, n
<1>5. \A i \in 1..n : msgs[i].ts \in Nat
  BY <1>1, <1>2 DEF Messages
<1>6. UnreadRun(msgs, seen) \in Seq(Nat) /\ Len(UnreadRun(msgs, seen)) = n
  BY <1>1, <1>2, <1>4, <1>5
<1> QED BY <1>2, <1>3, <1>4, <1>6 DEF n

(* Positions 1 to k are k positions: what turns "no stop before k" into    *)
(* "the count reached k".                                                  *)
LEMMA PositionsUpTo ==
  ASSUME NEW n \in Nat, NEW k \in 1..n, NEW S, S \subseteq 1..n, 1..k \subseteq S
  PROVE  k <= Cardinality(S)
<1>1. IsFiniteSet(1..n)
  BY FS_Interval
<1>2. IsFiniteSet(S)
  BY <1>1, FS_Subset
<1>3. Cardinality(1..k) <= Cardinality(S)
  BY <1>2, FS_Subset
<1>4. Cardinality(1..k) = k
  BY FS_Interval
<1> QED BY <1>3, <1>4

(* The run is the longest such prefix: where the window shows a recorded   *)
(* read, a prefix both signals call unread is inside it.                   *)
THEOREM RunIsLongestAgreedPrefix ==
  ASSUME NEW msgs \in Seq(Messages), NEW seen \in Nat, Tracked(msgs),
         NEW k \in 1..Len(msgs),
         \A j \in 1..k : ~EndsRun(msgs[j]) /\ msgs[j].guid # seen
  PROVE  k <= ScanLength(msgs, seen)
<1> DEFINE P == {i \in 1..Len(msgs) : \A j \in 1..i : ~EndsRun(msgs[j])}
           Q == {i \in 1..Len(msgs) : /\ ~msgs[i].fromMe
                                      /\ \A j \in 1..i : msgs[j].guid # seen}
<1>1. Len(msgs) \in Nat
  OBVIOUS
<1>2. k <= RunLength(msgs)
  <2>1. P \subseteq 1..Len(msgs) /\ 1..k \subseteq P
    BY <1>1
  <2>2. RunLength(msgs) = Cardinality(P)
    BY DEF RunLength
  <2> HIDE DEF P
  <2> QED BY <1>1, <2>1, <2>2, PositionsUpTo
<1>3. k <= CountAfterBoundary(msgs, seen)
  <2>1. Q \subseteq 1..Len(msgs) /\ 1..k \subseteq Q
    BY <1>1 DEF EndsRun
  <2>2. CountAfterBoundary(msgs, seen) = Cardinality(Q)
    BY DEF CountAfterBoundary
  <2> HIDE DEF Q
  <2> QED BY <1>1, <2>1, <2>2, PositionsUpTo
<1> QED BY <1>2, <1>3 DEF ScanLength, Least

(* One scan request: the window is the newest messages, newest first. *)
LEMMA WindowIsASequence ==
  ASSUME NEW thread \in Seq(Messages)
  PROVE  /\ Window(thread) \in Seq(Messages)
         /\ Len(Window(thread)) = Least(Len(thread), ScanLimit)
         /\ Len(Window(thread)) <= Len(thread)
         /\ Len(Window(thread)) <= ScanLimit
         /\ \A k \in 1..Len(Window(thread)) :
              /\ Len(thread) + 1 - k \in 1..Len(thread)
              /\ Window(thread)[k] = thread[Len(thread) + 1 - k]
<1> DEFINE n == Least(Len(thread), ScanLimit)
<1>1. Len(thread) \in Nat /\ ScanLimit \in Nat /\ n \in Nat
      /\ n <= Len(thread) /\ n <= ScanLimit
  BY ScanLimitAssumption DEF Least
<1> HIDE DEF n
<1>2. Window(thread) = [i \in 1..n |-> thread[Len(thread) + 1 - i]]
  BY DEF Window, n
<1>3. \A i \in 1..n : Len(thread) + 1 - i \in 1..Len(thread)
  BY <1>1
<1>4. \A i \in 1..n : thread[Len(thread) + 1 - i] \in Messages
  BY <1>3
<1>5. Window(thread) \in Seq(Messages) /\ Len(Window(thread)) = n
  BY <1>1, <1>2, <1>4
<1> QED BY <1>1, <1>2, <1>3, <1>5 DEF n
=============================================================================
