-------------------------- MODULE UnreadScanProofs --------------------------
(* UnreadScan's properties for every thread length and scan limit. *)
EXTENDS UnreadScan, UnreadRunProofs

(* Stamping dateRead changes neither what a message is nor which one. *)
LEMMA StampKeepsMessage ==
  ASSUME NEW m \in Messages, NEW n, n = [m EXCEPT !.read = TRUE]
  PROVE  n \in Messages /\ n.guid = m.guid
BY DEF Messages

(* Messages are numbered in filing order and the boundary names one. *)
LEMMA ThreadAlwaysOK == Spec => []ThreadOK
<1>1. Init => ThreadOK
  BY DEF Init, ThreadOK
<1>2. ThreadOK /\ [Next]_vars => ThreadOK'
  <2> SUFFICES ASSUME ThreadOK, [Next]_vars
               PROVE  ThreadOK'
    OBVIOUS
  <2> USE DEF ThreadOK
  <2>0. \A i \in 1..Len(thread) : thread[i] \in Messages /\ thread[i].guid = i
    OBVIOUS
  <2>1. ASSUME NEW fromMe \in BOOLEAN, NEW ts \in NextTs, Arrive(fromMe, ts)
        PROVE  ThreadOK'
    <3>1. ts \in Nat \ {0}
      <4>1. CASE thread = <<>>
        BY <4>1 DEF NextTs
      <4>2. CASE thread # <<>>
        <5>1. thread[Len(thread)] \in Messages
          BY <2>0, <4>2
        <5> QED BY <4>2, <5>1 DEF NextTs, Messages
      <4> QED BY <4>1, <4>2
    <3>2. [guid |-> Len(thread) + 1, ts |-> ts, fromMe |-> fromMe, read |-> FALSE]
            \in Messages
      BY <3>1 DEF Messages
    <3> QED BY <2>1, <3>2 DEF Arrive
  <2>2. ASSUME NEW i \in 1..Len(thread), StampRead(i)
        PROVE  ThreadOK'
    <3> DEFINE n == [thread[i] EXCEPT !.read = TRUE]
    <3>1. thread' = [thread EXCEPT ![i] = n]
      BY <2>2 DEF StampRead
    <3>2. n \in Messages /\ n.guid = i
      BY <2>0, StampKeepsMessage
    <3> HIDE DEF n
    <3>3. thread' \in Seq(Messages) /\ Len(thread') = Len(thread)
      BY <3>1, <3>2
    <3>4. \A j \in 1..Len(thread') : thread'[j].guid = j
      BY <3>1, <3>2, <3>3
    <3> QED BY <2>2, <3>3, <3>4 DEF StampRead
  <2>3. ASSUME NEW i \in 1..Len(thread), MoveBoundary(i)
        PROVE  ThreadOK'
    BY <2>3 DEF MoveBoundary
  <2>4. CASE UNCHANGED vars
    BY <2>4 DEF vars
  <2> QED BY <2>1, <2>2, <2>3, <2>4 DEF Next
<1> QED BY <1>1, <1>2, PTL DEF Spec

(* A scan of any thread the Mac can hold answers with at most ScanLimit    *)
(* timestamps (bluebubbles.js:341-349).                                    *)
THEOREM ScanTypeCorrect == Spec => []TypeOK
<1>1. ThreadOK => TypeOK
  <2> SUFFICES ASSUME ThreadOK PROVE Scan \in Seq(Nat) /\ Len(Scan) <= ScanLimit
    BY DEF TypeOK
  <2> DEFINE W == Window(thread)
  <2>1. thread \in Seq(Messages) /\ seen \in Nat
    BY DEF ThreadOK
  <2>2. W \in Seq(Messages) /\ Len(W) <= ScanLimit
    BY <2>1, WindowIsASequence
  <2> HIDE DEF W
  <2>3. /\ UnreadRun(W, seen) \in Seq(Nat)
        /\ Len(UnreadRun(W, seen)) \in 0..Len(W)
    BY <2>1, <2>2, RunIsAgreedPrefix
  <2>4. Len(W) \in Nat /\ ScanLimit \in Nat
    BY <2>2, ScanLimitAssumption
  <2> QED BY <2>2, <2>3, <2>4 DEF Scan, W
<1> QED BY <1>1, ThreadAlwaysOK, PTL

(* The k-th newest message has the k-th largest guid. *)
LEMMA WindowGuids ==
  ASSUME ThreadOK, NEW k \in 1..Len(Window(thread))
  PROVE  /\ Window(thread)[k] = thread[Len(thread) + 1 - k]
         /\ Window(thread)[k].guid = Len(thread) + 1 - k
BY WindowIsASequence DEF ThreadOK

LEMMA ScanIsSound == ThreadOK => ScanReportsOnlyUnread
<1> SUFFICES ASSUME ThreadOK, NEW k \in 1..Len(Scan)
             PROVE  LET m == thread[Len(thread) + 1 - k] IN
                      /\ Scan[k] = m.ts
                      /\ ~m.fromMe
                      /\ ~m.read
                      /\ m.guid > seen
  BY DEF ScanReportsOnlyUnread
<1> DEFINE W == Window(thread)
<1>1. thread \in Seq(Messages) /\ seen \in 0..Len(thread) /\ seen \in Nat
      /\ Len(thread) \in Nat
  BY DEF ThreadOK
<1>2. W \in Seq(Messages) /\ Len(W) \in Nat /\ Len(W) <= Len(thread)
  BY <1>1, WindowIsASequence
<1>3. Len(Scan) = ScanLength(W, seen) /\ ScanLength(W, seen) \in 0..Len(W)
  BY <1>1, <1>2, RunIsAgreedPrefix DEF Scan
<1>4. k \in 1..Len(W) /\ k \in 1..ScanLength(W, seen)
  BY <1>2, <1>3
<1>5. Scan[k] = W[k].ts /\ ~W[k].fromMe /\ ~W[k].read
  BY <1>1, <1>2, <1>4, RunIsAgreedPrefix DEF Scan
<1>6. W[k] = thread[Len(thread) + 1 - k] /\ W[k].guid = Len(thread) + 1 - k
  BY <1>4, WindowGuids
<1>7. Len(thread) + 1 - k > seen
  <2> SUFFICES ASSUME Len(thread) + 1 - k <= seen PROVE FALSE
    BY <1>1, <1>4, <1>2
  <2> DEFINE j == Len(thread) + 1 - seen
  <2>1. j \in 1..k /\ j \in 1..ScanLength(W, seen) /\ j \in 1..Len(W)
    BY <1>1, <1>2, <1>3, <1>4
  <2>2. W[j].guid = seen
    BY <1>1, <2>1, WindowGuids
  <2>3. W[j].guid # seen
    BY <1>1, <1>2, <2>1, RunIsAgreedPrefix
  <2> QED BY <2>2, <2>3
<1> QED BY <1>5, <1>6, <1>7

LEMMA ScanIsComplete == ThreadOK => ScanStopsForAReason
<1> SUFFICES ASSUME ThreadOK, Tracked(Window(thread)),
                    Len(Scan) + 1 <= Len(Window(thread)),
                    LET m == thread[Len(thread) + 1 - (Len(Scan) + 1)] IN
                      ~(m.fromMe \/ m.read \/ m.guid <= seen)
             PROVE  FALSE
  BY DEF ScanStopsForAReason
<1> DEFINE W == Window(thread)
           k == Len(Scan) + 1
<1>1. thread \in Seq(Messages) /\ seen \in 0..Len(thread) /\ seen \in Nat
      /\ Len(thread) \in Nat
  BY DEF ThreadOK
<1>2. W \in Seq(Messages) /\ Len(W) \in Nat /\ Len(W) <= Len(thread)
  BY <1>1, WindowIsASequence
<1>3. Len(Scan) = ScanLength(W, seen) /\ ScanLength(W, seen) \in 0..Len(W)
  BY <1>1, <1>2, RunIsAgreedPrefix DEF Scan
<1>4. k \in 1..Len(W)
  BY <1>2, <1>3
<1>5. ~EndsRun(W[k]) /\ W[k].guid > seen /\ W[k].guid = Len(thread) + 1 - k
  <2>1. W[k] = thread[Len(thread) + 1 - k] /\ W[k].guid = Len(thread) + 1 - k
    BY <1>4, WindowGuids
  <2>2. ~(W[k].fromMe \/ W[k].read \/ W[k].guid <= seen)
    BY <2>1
  <2> QED BY <1>1, <1>4, <2>1, <2>2, <1>2 DEF EndsRun
<1>6. \A j \in 1..k : ~EndsRun(W[j]) /\ W[j].guid # seen
  <2> SUFFICES ASSUME NEW j \in 1..k PROVE ~EndsRun(W[j]) /\ W[j].guid # seen
    OBVIOUS
  <2>1. CASE j = k
    BY <1>1, <1>5, <2>1, <1>4
  <2>2. CASE j # k
    <3>1. j \in 1..ScanLength(W, seen)
      BY <1>3, <2>2
    <3> QED BY <1>1, <1>2, <3>1, RunIsAgreedPrefix DEF EndsRun
  <2> QED BY <2>1, <2>2
<1>7. k <= ScanLength(W, seen)
  BY <1>1, <1>2, <1>4, <1>6, RunIsLongestAgreedPrefix
<1> QED BY <1>3, <1>7

(* A scan never reports a message either signal says was read, whatever    *)
(* the order the Mac stamped reads and moved its boundary in.              *)
THEOREM ScanSound == Spec => []ScanReportsOnlyUnread
BY ThreadAlwaysOK, ScanIsSound, PTL

(* A run stops only at an own message, a read one or the boundary. *)
THEOREM ScanComplete == Spec => []ScanStopsForAReason
BY ThreadAlwaysOK, ScanIsComplete, PTL

(* A boundary further on stops the count no later. *)
LEMMA LaterBoundaryCountsLess ==
  ASSUME ThreadOK, NEW later \in (seen + 1)..Len(thread)
  PROVE  CountAfterBoundary(Window(thread), later) <= CountAfterBoundary(Window(thread), seen)
<1> DEFINE W == Window(thread)
           Met(b) == {i \in 1..Len(W) : ~W[i].fromMe /\ \A j \in 1..i : W[j].guid # b}
<1>1. thread \in Seq(Messages) /\ seen \in Nat /\ later \in Nat /\ Len(thread) \in Nat
  BY DEF ThreadOK
<1>2. Len(W) \in Nat
  BY <1>1, WindowIsASequence
<1>3. \A j \in 1..Len(W) : W[j].guid = Len(thread) + 1 - j
  BY WindowGuids
<1>4. Met(later) \subseteq Met(seen)
  <2> SUFFICES ASSUME NEW i \in Met(later), NEW j \in 1..i, W[j].guid = seen PROVE FALSE
    OBVIOUS
  <2> DEFINE k == Len(thread) + 1 - later
  <2>1. i \in 1..Len(W) /\ j \in 1..Len(W) /\ Len(thread) + 1 - j = seen
    BY <1>2, <1>3
  <2>2. i \in Nat /\ j \in Nat /\ 1 <= j /\ j <= i /\ i <= Len(W)
    BY <1>2, <2>1
  <2>k. k \in 1..i /\ k \in 1..Len(W)
    <3> HIDE DEF W
    <3> QED BY <1>1, <1>2, <2>1, <2>2
  <2>3. W[k].guid = later
    BY <1>1, <1>3, <2>k
  <2> QED BY <2>k, <2>3
<1>5. IsFiniteSet(Met(seen))
  <2>1. IsFiniteSet(1..Len(W))
    BY <1>2, FS_Interval
  <2> QED BY <2>1, FS_Subset
<1>6. Cardinality(Met(later)) <= Cardinality(Met(seen))
  <2> HIDE DEF Met
  <2> QED BY <1>4, <1>5, FS_Subset
<1> QED BY <1>6 DEF CountAfterBoundary

(* The Mac's lastSeen may only ever shorten what a scan answers: moving it *)
(* leaves a prefix of the run reported before (bluebubbles.js:322-326).    *)
THEOREM BoundaryAlwaysShortens == Spec => BoundaryOnlyShortens
<1> DEFINE Shorter == /\ Len(Scan') <= Len(Scan)
                      /\ \A k \in 1..Len(Scan') : Scan'[k] = Scan[k]
<1>1. ASSUME ThreadOK, [Next]_vars, thread' = thread PROVE Shorter
  <2> DEFINE W == Window(thread)
  <2>1. /\ thread \in Seq(Messages) /\ seen \in Nat /\ Len(thread) \in Nat
        /\ W \in Seq(Messages)
    BY <1>1, WindowIsASequence DEF ThreadOK
  <2>2. ASSUME NEW b \in Nat
        PROVE  /\ Len(UnreadRun(W, b)) = ScanLength(W, b) /\ ScanLength(W, b) \in 0..Len(W)
               /\ \A k \in 1..ScanLength(W, b) : UnreadRun(W, b)[k] = W[k].ts
               /\ RunLength(W) \in Nat /\ CountAfterBoundary(W, b) \in Nat
    <3>1. Len(UnreadRun(W, b)) = ScanLength(W, b) /\ ScanLength(W, b) \in 0..Len(W)
      BY <2>1, RunIsAgreedPrefix
    <3>2. RunLength(W) \in Nat /\ CountAfterBoundary(W, b) \in Nat
      <4>1. Len(W) \in Nat
        BY <2>1
      <4> HIDE DEF W
      <4> QED BY <4>1, PositionsWithin DEF RunLength, CountAfterBoundary
    <3> QED BY <3>1, <3>2 DEF UnreadRun
  <2>3. Scan = UnreadRun(W, seen) /\ Scan' = UnreadRun(W, seen')
    BY <1>1 DEF Scan, Window
  <2>4. seen' = seen \/ seen' \in (seen + 1)..Len(thread)
    <3>1. ASSUME NEW fromMe \in BOOLEAN, NEW ts \in NextTs, Arrive(fromMe, ts) PROVE seen' = seen
      BY <3>1 DEF Arrive
    <3>2. ASSUME NEW i \in 1..Len(thread), StampRead(i) PROVE seen' = seen
      BY <3>2 DEF StampRead
    <3>3. ASSUME NEW i \in 1..Len(thread), MoveBoundary(i)
          PROVE  seen' \in (seen + 1)..Len(thread)
      BY <2>1, <3>3 DEF MoveBoundary
    <3> QED BY <1>1, <3>1, <3>2, <3>3 DEF Next, vars
  <2>5. seen' \in Nat /\ ScanLength(W, seen') <= ScanLength(W, seen)
    <3>1. CASE seen' = seen
      BY <2>1, <2>2, <3>1
    <3>2. CASE seen' \in (seen + 1)..Len(thread)
      <4>1. seen' \in Nat /\ seen' # 0
        BY <2>1, <3>2
      <4>2. CountAfterBoundary(W, seen') <= CountAfterBoundary(W, seen)
        BY <1>1, <3>2, LaterBoundaryCountsLess
      <4>3. ScanLength(W, seen') = Least(RunLength(W), CountAfterBoundary(W, seen'))
        BY <4>1 DEF ScanLength
      <4>4. \/ ScanLength(W, seen) = RunLength(W)
            \/ ScanLength(W, seen) = Least(RunLength(W), CountAfterBoundary(W, seen))
        BY DEF ScanLength
      <4>5. /\ RunLength(W) \in Nat
            /\ CountAfterBoundary(W, seen) \in Nat /\ CountAfterBoundary(W, seen') \in Nat
        BY <2>1, <2>2, <4>1
      <4> HIDE DEF W
      <4> QED BY <4>1, <4>2, <4>3, <4>4, <4>5 DEF Least
    <3> QED BY <2>4, <3>1, <3>2
  <2>6. Len(Scan) = ScanLength(W, seen) /\ Len(Scan') = ScanLength(W, seen')
    BY <2>1, <2>2, <2>3, <2>5
  <2>7. ASSUME NEW k \in 1..Len(Scan') PROVE Scan'[k] = Scan[k]
    <3>1. k \in 1..ScanLength(W, seen') /\ k \in 1..ScanLength(W, seen)
      BY <2>1, <2>2, <2>5, <2>6
    <3> HIDE DEF W
    <3>2. Scan'[k] = W[k].ts /\ Scan[k] = W[k].ts
      BY <2>1, <2>2, <2>3, <2>5, <3>1
    <3> QED BY <3>2
  <2> QED BY <2>5, <2>6, <2>7
<1>2. ThreadOK /\ [Next]_vars => [thread' = thread => Shorter]_vars
  BY <1>1
<1> QED BY <1>2, ThreadAlwaysOK, PTL DEF Spec, BoundaryOnlyShortens
=============================================================================
