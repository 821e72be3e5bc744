---------------------------- MODULE ThreadProofs ----------------------------
(***************************************************************************)
(* What a thread, its pages and its sends keep, for any chats, history,    *)
(* page size and number of requests, sends, faults and drops.              *)
(***************************************************************************)
EXTENDS Thread, FunctionTheorems, FiniteSetTheorems, TLAPS

(* Positions *)

LEMMA IntervalSize ==
  ASSUME NEW n \in Nat
  PROVE  IsFiniteSet(1..n) /\ Cardinality(1..n) = n
BY FS_Interval

(* A set of positions is counted off from below: Nth(S, k) is its k-th.    *)
LEMMA Positions ==
  ASSUME NEW n \in Nat, NEW S, S \subseteq 1..n
  PROVE  /\ IsFiniteSet(S) /\ Cardinality(S) \in 0..n
         /\ \A k \in 1..Cardinality(S) : Nth(S, k) \in S
         /\ \A i \in S : \E k \in 1..Cardinality(S) : Nth(S, k) = i
         /\ \A j, k \in 1..Cardinality(S) : j < k <=> Nth(S, j) < Nth(S, k)
<1> DEFINE upTo(i) == {j \in S : j <= i}
           rank == [i \in S |-> Cardinality(upTo(i))]
           N == Cardinality(S)
<1>1. IsFiniteSet(S) /\ N \in 0..n
  <2>1. IsFiniteSet(1..n) /\ Cardinality(1..n) = n
    BY FS_Interval
  <2>2. IsFiniteSet(S) /\ N <= n
    BY <2>1, FS_Subset
  <2> QED BY <2>2, FS_CardinalityType
<1>2. \A i \in S : IsFiniteSet(upTo(i)) /\ Cardinality(upTo(i)) \in 0..N
  <2> SUFFICES ASSUME NEW i \in S PROVE IsFiniteSet(upTo(i)) /\ Cardinality(upTo(i)) \in 0..N
    OBVIOUS
  <2>1. IsFiniteSet(upTo(i)) /\ Cardinality(upTo(i)) <= N
    BY <1>1, FS_Subset
  <2> QED BY <1>1, <2>1, FS_CardinalityType
<1>3. \A i, j \in S : i < j => Cardinality(upTo(i)) < Cardinality(upTo(j))
  <2> SUFFICES ASSUME NEW i \in S, NEW j \in S, i < j
               PROVE  Cardinality(upTo(i)) < Cardinality(upTo(j))
    OBVIOUS
  <2>0. i \in Nat /\ j \in Nat /\ \A k \in S : k \in Nat
    OBVIOUS
  <2>1. /\ \A k \in upTo(i) : k \in upTo(j)
        /\ j \in upTo(j) /\ j \notin upTo(i)
    <3> HIDE DEF rank, N
    <3>1. \A k \in S : k <= i => k <= j
      BY <2>0
    <3>2. j <= j /\ ~(j <= i)
      BY <2>0
    <3> QED BY <3>1, <3>2
  <2>2. Cardinality(upTo(i)) <= Cardinality(upTo(j)) /\ Cardinality(upTo(i)) # Cardinality(upTo(j))
    BY <1>2, <2>1, FS_Subset
  <2> QED BY <1>2, <2>2
<1>4. \A i \in S : Cardinality(upTo(i)) \in 1..N
  <2> SUFFICES ASSUME NEW i \in S PROVE Cardinality(upTo(i)) # 0
    BY <1>2
  <2> QED BY <1>2, FS_EmptySet
<1>5. rank \in Injection(S, 1..N)
  <2>1. \A i, j \in S : Cardinality(upTo(i)) = Cardinality(upTo(j)) => i = j
    <3> HIDE DEF upTo
    <3> SUFFICES ASSUME NEW i \in S, NEW j \in S, i # j
                 PROVE  Cardinality(upTo(i)) # Cardinality(upTo(j))
      OBVIOUS
    <3>1. i < j \/ j < i
      OBVIOUS
    <3> QED BY <1>2, <1>3, <3>1
  <2>2. rank \in [S -> 1..N]
    BY <1>4
  <2> HIDE DEF upTo
  <2> QED BY <2>1, <2>2 DEF Injection, IsInjective
<1>6. IsFiniteSet(1..N) /\ Cardinality(1..N) = N
  BY <1>1, FS_Interval
<1>7. rank \in Surjection(S, 1..N)
  BY <1>5, <1>6, FS_Injection
<1>8. \A k \in 1..N : \E i \in S : Cardinality(upTo(i)) = k
  BY <1>7 DEF Surjection
<1>9. \A k \in 1..N : Nth(S, k) \in S /\ Cardinality(upTo(Nth(S, k))) = k
  BY <1>8 DEF Nth
<1>10. \A i, j \in S : Cardinality(upTo(i)) = Cardinality(upTo(j)) => i = j
  BY <1>3, <1>2
<1>11. \A i \in S : \E k \in 1..N : Nth(S, k) = i
  BY <1>4, <1>9, <1>10
<1>12. \A j, k \in 1..N : j < k <=> Nth(S, j) < Nth(S, k)
  <2> HIDE DEF upTo, N
  <2> SUFFICES ASSUME NEW j \in 1..N, NEW k \in 1..N
               PROVE  j < k <=> Nth(S, j) < Nth(S, k)
    OBVIOUS
  <2> DEFINE a == Nth(S, j)
             b == Nth(S, k)
  <2>1. a \in S /\ b \in S /\ Cardinality(upTo(a)) = j /\ Cardinality(upTo(b)) = k
    BY <1>9
  <2> HIDE DEF a, b
  <2>2. a \in Nat /\ b \in Nat
    BY <2>1
  <2>3. a < b => j < k
    BY <1>3, <2>1
  <2>4. b < a => k < j
    BY <1>3, <2>1
  <2>5. j \in Nat /\ k \in Nat /\ (a = b => j = k)
    BY <1>1, <2>1 DEF N
  <2>6. j < k <=> a < b
    BY <2>2, <2>3, <2>4, <2>5
  <2> QED BY <2>6 DEF a, b
<1> QED BY <1>1, <1>9, <1>11, <1>12

(* The greatest position is one of them. *)
LEMMA MaxIsGreatest ==
  ASSUME NEW n \in Nat, NEW S, S \subseteq 1..n, S # {}
  PROVE  Max(S) \in S /\ \A i \in S : i <= Max(S)
<1>1. Cardinality(S) \in 0..n /\ Cardinality(S) # 0
  BY Positions, FS_EmptySet
<1> DEFINE N == Cardinality(S)
<1>n. N \in 1..N /\ N \in Nat
  BY <1>1
<1>2. /\ Nth(S, N) \in S
      /\ \A i \in S : \E k \in 1..N : Nth(S, k) = i
      /\ \A k \in 1..N : k < N => Nth(S, k) < Nth(S, N)
  BY <1>n, Positions
<1> HIDE DEF N
<1>p. Nth(S, N) \in 1..n /\ \A i \in S : i \in 1..n
  BY <1>2
<1>3. \A i \in S : i <= Nth(S, N)
  <2> SUFFICES ASSUME NEW i \in S PROVE i <= Nth(S, N)
    OBVIOUS
  <2>1. PICK k \in 1..N : Nth(S, k) = i
    BY <1>2
  <2>2. k = N \/ k < N
    BY <1>n
  <2>3. Nth(S, N) \in Nat /\ i \in Nat
    BY <1>p
  <2>4. i = Nth(S, N) \/ i < Nth(S, N)
    BY <1>2, <2>1, <2>2
  <2> QED BY <2>3, <2>4
<1> QED BY <1>2, <1>3 DEF Max

(* What is kept of a sequence: its elements at the positions kept, all of  *)
(* them, once each and in order.                                           *)
LEMMA KeptElements ==
  ASSUME NEW T, NEW s \in Seq(T), NEW S, S \subseteq DOMAIN s
  PROVE  /\ Kept(s, S) \in Seq(T) /\ Len(Kept(s, S)) = Cardinality(S)
         /\ Cardinality(S) \in 0..Len(s)
         /\ \A k \in 1..Cardinality(S) : Nth(S, k) \in S /\ Kept(s, S)[k] = s[Nth(S, k)]
         /\ \A i \in S : \E k \in 1..Cardinality(S) : Nth(S, k) = i
         /\ \A j, k \in 1..Cardinality(S) : j < k <=> Nth(S, j) < Nth(S, k)
<1>1. Len(s) \in Nat /\ S \subseteq 1..Len(s)
  OBVIOUS
<1>2. Cardinality(S) \in 0..Len(s) /\ \A k \in 1..Cardinality(S) : Nth(S, k) \in S
  BY <1>1, Positions
<1> HIDE DEF Nth
<1> QED BY <1>1, <1>2, Positions DEF Kept

(* The last n of a sequence. *)
LEMMA NewestElements ==
  ASSUME NEW T, NEW s \in Seq(T), NEW n \in Nat
  PROVE  /\ Newest(s, n) \in Seq(T)
         /\ Len(Newest(s, n)) = IF Len(s) <= n THEN Len(s) ELSE n
         /\ \A i \in DOMAIN Newest(s, n) :
              LET k == IF Len(s) <= n THEN i ELSE Len(s) - n + i
              IN k \in DOMAIN s /\ Newest(s, n)[i] = s[k]
BY DEF Newest

-----------------------------------------------------------------------------
(* What is known of every row, request and answer, wherever it is.  F is   *)
(* what the Mac has filed, S what this panel has sent, H what the daemon   *)
(* has heard of.                                                           *)

SentBy(temp, S) == -temp \in DOMAIN S

(* Whoever bears a tempId is the message of that send; the others are      *)
(* linked to the chat or on its participant's handle.                      *)
IsMessage(g, c, temp, F, S) ==
  /\ g \in DOMAIN F /\ BelongsTo(F[g], c)
  /\ temp # 0 => /\ SentBy(temp, S) /\ F[g].chat = c
                 /\ F[g].fromMe /\ S[-temp].chat = c /\ F[g].text = S[-temp].text

ShownRow(row, c, F, S) ==
  row \in Rows /\ row.state = "shown" /\ IsMessage(row.guid, c, row.temp, F, S)

SentRow(row, c, F, S) ==
  /\ row \in Rows /\ row.state = "sent" /\ row.temp # 0
  /\ IsMessage(row.guid, c, row.temp, F, S)

OwnRow(row, c, S) ==
  /\ row \in Rows /\ row.state \in {"pending", "failed"} /\ row.guid = row.temp
  /\ SentBy(row.temp, S) /\ S[-row.temp].chat = c

ThreadRow(row, c, F, S) == ShownRow(row, c, F, S) \/ SentRow(row, c, F, S) \/ OwnRow(row, c, S)

SoundPage(rows, c, F, S) ==
  rows \in Seq(Rows) /\ \A i \in DOMAIN rows : ShownRow(rows[i], c, F, S)

SoundThread(rows, c, F, S) ==
  rows \in Seq(Rows) /\ \A i \in DOMAIN rows : ThreadRow(rows[i], c, F, S)

EachOnce(rows) ==
  /\ Len(rows) <= PageSize
  /\ \A i, k \in DOMAIN rows : rows[i].guid = rows[k].guid => i = k

SoundRequest(q, S) ==
  /\ q \in Requests
  /\ IF q.kind = "send" THEN SentBy(q.temp, S) /\ S[-q.temp].chat = q.chat ELSE q.temp = 0

BusyJobs == [phase : {"asked", "byHandle", "answered", "refused"}, request : Requests, rows : Seq(Rows),
             guid : Nat, served : BOOLEAN, live : BOOLEAN]

SoundJob(job, F, S) ==
  /\ job \in BusyJobs /\ SoundRequest(job.request, S)
  /\ SoundPage(job.rows, job.request.chat, F, S) /\ EachOnce(job.rows)
  /\ job.phase = "answered" /\ job.request.kind = "send" =>
       IsMessage(job.guid, job.request.chat, job.request.temp, F, S)
  /\ job.phase = "byHandle" => job.request.kind # "send" /\ Solo[job.request.chat] # None

SoundFrame(f, F, S, H) ==
  /\ f \in Frames /\ SoundPage(f.rows, f.chat, F, S)
  /\ f.kind = "message" => /\ Len(f.rows) = 1 /\ f.rows[1].guid \in H
                           /\ F[f.rows[1].guid].chat = f.chat
  /\ IF f.kind = "ack"
       THEN /\ SentBy(f.temp, S) /\ S[-f.temp].chat = f.chat
            /\ f.flag => IsMessage(f.guid, f.chat, f.temp, F, S)
       ELSE f.temp = 0

SoundPush(e, F, S) ==
  /\ e \in [guid : Nat, temp : Int] /\ e.guid \in DOMAIN F /\ F[e.guid].chat \in Chats
  /\ IsMessage(e.guid, F[e.guid].chat, e.temp, F, S)

-----------------------------------------------------------------------------
(* The invariant *)

MacKnown ==
  /\ filed \in Seq(Messages)
  /\ \A i \in DOMAIN wire : SoundPush(wire[i], filed, sends)
  /\ wire \in Seq([guid : Nat, temp : Int])
  /\ late \subseteq {-k : k \in DOMAIN sends}

(* A page that is kept warm, and its key. *)
SoundWarm(P, W, F, S) ==
  /\ W \in Seq(Chats) /\ Len(W) <= MaxThreads /\ IsInjective(W)
  /\ P \in [Chats -> Seq(Rows)]
  /\ \A c \in Chats : /\ SoundPage(P[c], c, F, S) /\ EachOnce(P[c])
                      /\ P[c] # <<>> => c \in ToSet(W)

WarmKnown ==
  /\ warm \in Seq(Chats) /\ Len(warm) <= MaxThreads /\ IsInjective(warm)
  /\ heard \subseteq DOMAIN filed
  /\ pages \in [Chats -> Seq(Rows)]
  /\ \A c \in Chats : /\ SoundPage(pages[c], c, filed, sends) /\ EachOnce(pages[c])
                      /\ pages[c] # <<>> => c \in ToSet(warm)

DiskKnown == SoundWarm(disk.pages, disk.warm, filed, sends)

JobsKnown ==
  /\ jobs \in [Jobs -> {Idle} \cup BusyJobs]
  /\ \A j \in Jobs : jobs[j] # Idle => SoundJob(jobs[j], filed, sends)

PipesKnown ==
  /\ requests \in Seq(Requests) /\ frames \in Seq(Frames)
  /\ \A i \in DOMAIN requests : SoundRequest(requests[i], sends)
  /\ \A i \in DOMAIN frames : SoundFrame(frames[i], filed, sends, heard)

ReaderKnown ==
  /\ activeChat \in Chats \cup {None} /\ olderPending \in Chats \cup {None}
  /\ exhausted \in [Chats -> BOOLEAN]
  /\ sends \in Seq([chat : Chats, text : Texts, ts : Nat])
  /\ threads \in [Chats -> Seq(Rows)]
  /\ \A c \in Chats : SoundThread(threads[c], c, filed, sends)

(* A link that is down carries nothing, and no job of an earlier link      *)
(* answers; a link that never dropped is up.                               *)
LinkKnown ==
  /\ linkUp \in BOOLEAN /\ drops \in Nat
  /\ ~linkUp => requests = <<>> /\ frames = <<>> /\ \A j \in Busy : ~jobs[j].live
  /\ drops = 0 => linkUp /\ \A j \in Busy : jobs[j].live

Known == /\ MacKnown /\ WarmKnown /\ DiskKnown /\ JobsKnown /\ PipesKnown /\ ReaderKnown
         /\ LinkKnown

(* A send has one optimistic row. *)
OneRow(rows) ==
  \A i, k \in DOMAIN rows : rows[i].guid = rows[k].guid /\ rows[i].guid < 0 => i = k

OneRowEach == \A c \in Chats : OneRow(threads[c])

(* A send is asked for, worked on or acknowledged, in one place. *)
At(s, V) == {i \in DOMAIN s : s[i] \in V}
Single(S) == \A x, y \in S : x = y

AskedAt(t) == At(requests, {q \in Requests : q.temp = t})
WorkedBy(t) == {j \in Busy : jobs[j].request.temp = t}
AckedAt(t) == At(frames, {f \in Frames : f.kind = "ack" /\ f.temp = t})

OneAckOf(t) ==
  /\ Single(AskedAt(t)) /\ Single(WorkedBy(t)) /\ Single(AckedAt(t))
  /\ AskedAt(t) # {} => WorkedBy(t) = {} /\ AckedAt(t) = {}
  /\ WorkedBy(t) # {} => AckedAt(t) = {}

OneAckEach == \A k \in DOMAIN sends : OneAckOf(-k)

-----------------------------------------------------------------------------
(* What was filed or sent stays: rows and answers stay sound *)

Extends(s, t) == DOMAIN s \subseteq DOMAIN t /\ \A i \in DOMAIN s : t[i] = s[i]

LEMMA AppendExtends ==
  ASSUME NEW T, NEW s \in Seq(T), NEW e \in T
  PROVE  /\ Extends(s, s) /\ Extends(s, Append(s, e))
         /\ Len(s) + 1 \in DOMAIN Append(s, e) /\ Append(s, e)[Len(s) + 1] = e
BY DEF Extends

LEMMA MessagesStay ==
  ASSUME NEW F, NEW F2, NEW S, NEW S2, Extends(F, F2), Extends(S, S2)
  PROVE  \A g, c, temp : IsMessage(g, c, temp, F, S) => IsMessage(g, c, temp, F2, S2)
BY DEF IsMessage, Extends, SentBy

LEMMA RowsStay ==
  ASSUME NEW F, NEW F2, NEW S, NEW S2, Extends(F, F2), Extends(S, S2)
  PROVE  /\ \A row, c : ShownRow(row, c, F, S) => ShownRow(row, c, F2, S2)
         /\ \A row, c : ThreadRow(row, c, F, S) => ThreadRow(row, c, F2, S2)
<1>1. \A row, c : ShownRow(row, c, F, S) => ShownRow(row, c, F2, S2)
  BY MessagesStay DEF ShownRow
<1>2. \A row, c : SentRow(row, c, F, S) => SentRow(row, c, F2, S2)
  BY MessagesStay DEF SentRow
<1>3. \A row, c : OwnRow(row, c, S) => OwnRow(row, c, S2)
  BY DEF OwnRow, SentBy, Extends
<1> QED BY <1>1, <1>2, <1>3 DEF ThreadRow

LEMMA AnswersStay ==
  ASSUME NEW F, NEW F2, NEW S, NEW S2, NEW H, NEW H2,
         Extends(F, F2), Extends(S, S2), H \subseteq H2
  PROVE  /\ \A rows, c : SoundPage(rows, c, F, S) => SoundPage(rows, c, F2, S2)
         /\ \A rows, c : SoundThread(rows, c, F, S) => SoundThread(rows, c, F2, S2)
         /\ \A q : SoundRequest(q, S) => SoundRequest(q, S2)
         /\ \A job : SoundJob(job, F, S) => SoundJob(job, F2, S2)
         /\ \A f : SoundFrame(f, F, S, H) => SoundFrame(f, F2, S2, H2)
         /\ \A e : SoundPush(e, F, S) => SoundPush(e, F2, S2)
<1>1. \A rows, c : SoundPage(rows, c, F, S) => SoundPage(rows, c, F2, S2)
  BY RowsStay DEF SoundPage
<1>2. \A rows, c : SoundThread(rows, c, F, S) => SoundThread(rows, c, F2, S2)
  BY RowsStay DEF SoundThread
<1>3. \A q : SoundRequest(q, S) => SoundRequest(q, S2)
  BY DEF SoundRequest, SentBy, Extends
<1>4. \A job : SoundJob(job, F, S) => SoundJob(job, F2, S2)
  BY <1>1, <1>3, MessagesStay DEF SoundJob
<1>5. \A t, c : SentBy(t, S) /\ S[-t].chat = c => SentBy(t, S2) /\ S2[-t].chat = c
  BY DEF SentBy, Extends
<1>6. \A f : SoundFrame(f, F, S, H) => SoundFrame(f, F2, S2, H2)
  <2> SUFFICES ASSUME NEW f, SoundFrame(f, F, S, H) PROVE SoundFrame(f, F2, S2, H2)
    OBVIOUS
  <2>1. f \in Frames /\ SoundPage(f.rows, f.chat, F2, S2)
    BY <1>1 DEF SoundFrame
  <2>2. f.kind = "message" => /\ Len(f.rows) = 1 /\ f.rows[1].guid \in H2
                              /\ F2[f.rows[1].guid].chat = f.chat
    <3> SUFFICES ASSUME f.kind = "message"
                 PROVE  /\ Len(f.rows) = 1 /\ f.rows[1].guid \in H2
                        /\ F2[f.rows[1].guid].chat = f.chat
      OBVIOUS
    <3>1. /\ Len(f.rows) = 1 /\ f.rows[1].guid \in H /\ F[f.rows[1].guid].chat = f.chat
          /\ f.rows \in Seq(Rows) /\ \A i \in DOMAIN f.rows : ShownRow(f.rows[i], f.chat, F, S)
      BY DEF SoundFrame, SoundPage
    <3>2. ShownRow(f.rows[1], f.chat, F, S)
      BY <3>1
    <3>3. f.rows[1].guid \in DOMAIN F
      BY <3>2 DEF ShownRow, IsMessage
    <3> QED BY <3>1, <3>3 DEF Extends
  <2>3. CASE f.kind = "ack"
    BY <1>5, <2>1, <2>2, <2>3, MessagesStay DEF SoundFrame
  <2>4. CASE f.kind # "ack"
    BY <2>1, <2>2, <2>4 DEF SoundFrame
  <2> QED BY <2>3, <2>4
<1>7. \A e : SoundPush(e, F, S) => SoundPush(e, F2, S2)
  <2> SUFFICES ASSUME NEW e, SoundPush(e, F, S) PROVE SoundPush(e, F2, S2)
    OBVIOUS
  <2>1. e.guid \in DOMAIN F /\ e.guid \in DOMAIN F2 /\ F2[e.guid] = F[e.guid]
    BY DEF SoundPush, Extends
  <2> QED BY <2>1, MessagesStay DEF SoundPush
<1> QED BY <1>1, <1>2, <1>3, <1>4, <1>6, <1>7

-----------------------------------------------------------------------------
(* Pages and rows *)

(* No row of the Mac's own pages bears a tempId. *)
Unstamped(rows) == \A i \in DOMAIN rows : rows[i].temp = 0

(* A page the Mac serves holds some of the messages asked for, each once.  *)
LEMMA PageIsSound ==
  ASSUME filed \in Seq(Messages), NEW c, NEW before, NEW S, S \subseteq DOMAIN filed,
         \A g \in S : BelongsTo(filed[g], c)
  PROVE  /\ SoundPage(PageOf(S, before), c, filed, sends) /\ EachOnce(PageOf(S, before))
         /\ Unstamped(PageOf(S, before))
<1> DEFINE within == {g \in S : before = 0 \/ filed[g].ts <= before}
           N == Cardinality(within)
           all == [k \in 1..N |-> Row(Nth(within, k), 0)]
<1>1. within \subseteq 1..Len(filed) /\ Len(filed) \in Nat
  OBVIOUS
<1>2. \A g \in within : g \in DOMAIN filed /\ g \in Nat /\ BelongsTo(filed[g], c)
  OBVIOUS
<1> HIDE DEF within
<1> HIDE DEF all, N
<1>p. /\ Cardinality(within) \in 0..Len(filed)
      /\ \A k \in 1..Cardinality(within) : Nth(within, k) \in within
      /\ \A j, k \in 1..Cardinality(within) : j < k <=> Nth(within, j) < Nth(within, k)
  BY <1>1, Positions
<1>3. N \in Nat /\ \A k \in 1..N : Nth(within, k) \in within
  BY <1>1, <1>p DEF N
<1>q. \A k \in 1..N : Nth(within, k) \in Nat
  BY <1>2, <1>3
<1>4. \A j, k \in 1..N : Nth(within, j) = Nth(within, k) => j = k
  <2> SUFFICES ASSUME NEW j \in 1..N, NEW k \in 1..N, j # k
               PROVE  Nth(within, j) # Nth(within, k)
    OBVIOUS
  <2>1. Nth(within, j) < Nth(within, k) \/ Nth(within, k) < Nth(within, j)
    <3>1. j < k \/ k < j
      BY <1>3
    <3> QED BY <1>p, <3>1 DEF N
  <2>2. Nth(within, j) \in Nat /\ Nth(within, k) \in Nat
    BY <1>q
  <2> QED BY <2>1, <2>2
<1>5. \A k \in 1..N : ShownRow(all[k], c, filed, sends) /\ all[k].guid = Nth(within, k)
  <2> SUFFICES ASSUME NEW k \in 1..N
               PROVE  ShownRow(all[k], c, filed, sends) /\ all[k].guid = Nth(within, k)
    OBVIOUS
  <2>1. all[k] = Row(Nth(within, k), 0) /\ Nth(within, k) \in Int
    BY <1>q DEF all
  <2> QED BY <1>2, <1>3, <2>1 DEF ShownRow, Row, Rows, IsMessage
<1>6. all \in Seq(Rows) /\ Len(all) = N
  BY <1>3, <1>5 DEF ShownRow, all
<1>7. PageSize \in Nat
  BY ThreadAssumptions
<1>8. /\ Newest(all, PageSize) \in Seq(Rows) /\ Len(Newest(all, PageSize)) <= PageSize
      /\ \A i \in DOMAIN Newest(all, PageSize) :
           LET k == IF Len(all) <= PageSize THEN i ELSE Len(all) - PageSize + i
           IN k \in DOMAIN all /\ Newest(all, PageSize)[i] = all[k]
  BY <1>6, <1>7, NewestElements
<1>9. \A i \in DOMAIN Newest(all, PageSize) : ShownRow(Newest(all, PageSize)[i], c, filed, sends)
  BY <1>5, <1>6, <1>8
<1>10. \A i, k \in DOMAIN Newest(all, PageSize) :
         Newest(all, PageSize)[i].guid = Newest(all, PageSize)[k].guid => i = k
  BY <1>3, <1>4, <1>5, <1>6, <1>7, <1>8
<1>11. PageOf(S, before) = Newest(all, PageSize)
  BY DEF PageOf, all, N, within
<1>12. Unstamped(Newest(all, PageSize))
  <2>1. \A k \in DOMAIN all : all[k].temp = 0
    BY DEF all, Row
  <2> QED BY <1>8, <2>1 DEF Unstamped
<1> QED BY <1>8, <1>9, <1>10, <1>11, <1>12 DEF SoundPage, EachOnce

LEMMA ServedPageIsSound ==
  ASSUME filed \in Seq(Messages), NEW c, NEW before
  PROVE  /\ SoundPage(Page(c, before), c, filed, sends) /\ EachOnce(Page(c, before))
         /\ Unstamped(Page(c, before))
<1> DEFINE S == {g \in DOMAIN filed : filed[g].chat = c}
<1>1. S \subseteq DOMAIN filed /\ \A g \in S : BelongsTo(filed[g], c)
  BY DEF BelongsTo
<1>2. Page(c, before) = PageOf(S, before)
  BY DEF Page
<1> HIDE DEF S
<1> QED BY <1>1, <1>2, PageIsSound

(* The page of a 1:1 chat's participant. *)
LEMMA HandlePageIsSound ==
  ASSUME filed \in Seq(Messages), NEW c, Solo[c] # None, NEW before
  PROVE  /\ SoundPage(PageByHandle(Solo[c], before), c, filed, sends)
         /\ EachOnce(PageByHandle(Solo[c], before))
         /\ Unstamped(PageByHandle(Solo[c], before))
<1> DEFINE S == {g \in DOMAIN filed : filed[g].handle = Solo[c]}
<1>1. S \subseteq DOMAIN filed /\ \A g \in S : BelongsTo(filed[g], c)
  BY DEF BelongsTo
<1>2. PageByHandle(Solo[c], before) = PageOf(S, before)
  BY DEF PageByHandle
<1> HIDE DEF S
<1> QED BY <1>1, <1>2, PageIsSound

(* A push is added to a warm page once, and the page stays a page. *)
LEMMA AppendedPageIsSound ==
  ASSUME NEW F, NEW S, NEW c, NEW rows, NEW row,
         SoundPage(rows, c, F, S), EachOnce(rows), ShownRow(row, c, F, S),
         row.guid \notin Guids(rows)
  PROVE  /\ SoundPage(Newest(Append(rows, row), PageSize), c, F, S)
         /\ EachOnce(Newest(Append(rows, row), PageSize))
<1> DEFINE all == Append(rows, row)
           kept == Newest(all, PageSize)
<1>1. rows \in Seq(Rows) /\ row \in Rows /\ PageSize \in Nat
  BY ThreadAssumptions DEF SoundPage, ShownRow
<1>2. all \in Seq(Rows) /\ Len(all) = Len(rows) + 1
  BY <1>1
<1>3. \A k \in DOMAIN all : ShownRow(all[k], c, F, S)
  BY <1>1 DEF SoundPage
<1>4. \A i, k \in DOMAIN all : all[i].guid = all[k].guid => i = k
  BY <1>1 DEF EachOnce, Guids
<1> HIDE DEF all
<1>5. /\ kept \in Seq(Rows) /\ Len(kept) <= PageSize
      /\ \A i \in DOMAIN kept :
           LET k == IF Len(all) <= PageSize THEN i ELSE Len(all) - PageSize + i
           IN k \in DOMAIN all /\ kept[i] = all[k]
  BY <1>1, <1>2, NewestElements
<1> HIDE DEF kept
<1>6. \A i \in DOMAIN kept : ShownRow(kept[i], c, F, S)
  BY <1>3, <1>5
<1>7. \A i, k \in DOMAIN kept : kept[i].guid = kept[k].guid => i = k
  <2> SUFFICES ASSUME NEW i \in DOMAIN kept, NEW k \in DOMAIN kept, kept[i].guid = kept[k].guid
               PROVE  i = k
    OBVIOUS
  <2>1. CASE Len(all) <= PageSize
    BY <1>4, <1>5, <2>1
  <2>2. CASE ~(Len(all) <= PageSize)
    <3>1. Len(all) - PageSize + i = Len(all) - PageSize + k
      BY <1>4, <1>5, <2>2
    <3>2. i \in Int /\ k \in Int /\ Len(all) \in Int
      BY <1>2, <1>5
    <3> QED BY <1>1, <3>1, <3>2
  <2> QED BY <2>1, <2>2
<1> QED BY <1>5, <1>6, <1>7 DEF SoundPage, EachOnce, kept, all

LEMMA ThreadOfPage ==
  ASSUME NEW F, NEW S, NEW c, NEW rows, SoundPage(rows, c, F, S)
  PROVE  SoundThread(rows, c, F, S)
BY DEF SoundPage, SoundThread, ThreadRow

LEMMA ConcatIsSound ==
  ASSUME NEW F, NEW S, NEW c, NEW s, NEW t, SoundThread(s, c, F, S), SoundThread(t, c, F, S)
  PROVE  /\ SoundThread(s \o t, c, F, S) /\ Len(s \o t) = Len(s) + Len(t)
         /\ \A i \in DOMAIN (s \o t) :
              \/ i \in DOMAIN s /\ (s \o t)[i] = s[i]
              \/ i - Len(s) \in DOMAIN t /\ (s \o t)[i] = t[i - Len(s)]
BY DEF SoundThread

LEMMA KeptIsSound ==
  ASSUME NEW F, NEW S, NEW c, NEW s, SoundThread(s, c, F, S), NEW P, P \subseteq DOMAIN s
  PROVE  /\ SoundThread(Kept(s, P), c, F, S)
         /\ \A k \in DOMAIN Kept(s, P) : Nth(P, k) \in P /\ Kept(s, P)[k] = s[Nth(P, k)]
         /\ \A i \in P : \E k \in DOMAIN Kept(s, P) : Nth(P, k) = i
         /\ \A j, k \in DOMAIN Kept(s, P) : Nth(P, j) = Nth(P, k) => j = k
<1>1. s \in Seq(Rows)
  BY DEF SoundThread
<1>2. /\ Kept(s, P) \in Seq(Rows) /\ Len(Kept(s, P)) = Cardinality(P)
      /\ \A k \in 1..Cardinality(P) : Nth(P, k) \in P /\ Kept(s, P)[k] = s[Nth(P, k)]
      /\ \A i \in P : \E k \in 1..Cardinality(P) : Nth(P, k) = i
      /\ \A j, k \in 1..Cardinality(P) : j < k <=> Nth(P, j) < Nth(P, k)
      /\ Cardinality(P) \in Nat
  BY <1>1, KeptElements
<1>3. DOMAIN Kept(s, P) = 1..Cardinality(P)
  BY <1>2
<1>4. \A k \in 1..Cardinality(P) : Nth(P, k) \in Nat
  BY <1>1, <1>2
<1>5. \A j, k \in 1..Cardinality(P) : Nth(P, j) = Nth(P, k) => j = k
  <2> SUFFICES ASSUME NEW j \in 1..Cardinality(P), NEW k \in 1..Cardinality(P), j # k
               PROVE  Nth(P, j) # Nth(P, k)
    OBVIOUS
  <2>1. j < k \/ k < j
    BY <1>2
  <2>2. Nth(P, j) < Nth(P, k) \/ Nth(P, k) < Nth(P, j)
    BY <1>2, <2>1
  <2> QED BY <1>4, <2>2
<1>6. \A k \in 1..Cardinality(P) : ThreadRow(Kept(s, P)[k], c, F, S)
  BY <1>2 DEF SoundThread
<1> QED BY <1>2, <1>3, <1>5, <1>6 DEF SoundThread

(* A page keeps its messages when tempIds are carried over to it. *)
Keyed(new, rows, old) ==
  /\ DOMAIN new = DOMAIN rows
  /\ \A i \in DOMAIN rows :
       /\ new[i].guid = rows[i].guid
       /\ \/ new[i].temp = rows[i].temp
          \/ \E k \in DOMAIN old : old[k].guid = new[i].guid /\ old[k].temp = new[i].temp
       /\ \/ new[i].temp # 0
          \/ \A k \in DOMAIN old : old[k].guid = new[i].guid => old[k].temp = 0

LEMMA KnownTempIdsAreSound ==
  ASSUME NEW F, NEW S, NEW c, NEW rows, NEW old, SoundPage(rows, c, F, S),
         SoundThread(old, c, F, S), F \in Seq(Messages)
  PROVE  /\ SoundPage(WithKnownTempIds(rows, old), c, F, S)
         /\ Keyed(WithKnownTempIds(rows, old), rows, old)
<1> DEFINE new == WithKnownTempIds(rows, old)
           known(i) == {k \in DOMAIN old : old[k].temp # 0 /\ old[k].guid = rows[i].guid}
<1>1. rows \in Seq(Rows) /\ old \in Seq(Rows)
  BY DEF SoundPage, SoundThread
<1>2. DOMAIN new = DOMAIN rows /\ DOMAIN rows = 1..Len(rows) /\ DOMAIN old = 1..Len(old)
      /\ Len(rows) \in Nat /\ Len(old) \in Nat
  BY <1>1 DEF WithKnownTempIds
<1>3. ASSUME NEW i \in DOMAIN rows
      PROVE  /\ ShownRow(new[i], c, F, S) /\ new[i].guid = rows[i].guid
             /\ \/ new[i].temp = rows[i].temp
                \/ \E k \in DOMAIN old : old[k].guid = new[i].guid /\ old[k].temp = new[i].temp
             /\ \/ new[i].temp # 0
                \/ \A k \in DOMAIN old : old[k].guid = new[i].guid => old[k].temp = 0
  <2>0. ShownRow(rows[i], c, F, S) /\ rows[i] \in Rows
    BY DEF SoundPage, ShownRow
  <2>1. CASE rows[i].temp # 0
    <3>1. new[i] = rows[i]
      BY <2>1 DEF WithKnownTempIds
    <3> QED BY <2>0, <2>1, <3>1
  <2>2. CASE rows[i].temp = 0 /\ known(i) = {}
    <3>1. new[i] = rows[i]
      BY <2>2 DEF WithKnownTempIds
    <3> QED BY <2>0, <2>2, <3>1
  <2>3. CASE rows[i].temp = 0 /\ known(i) # {}
    <3> DEFINE m == Max(known(i))
    <3>1. new[i] = [rows[i] EXCEPT !.temp = old[m].temp]
      BY <2>3 DEF WithKnownTempIds
    <3>2. m \in known(i)
      <4>1. known(i) \subseteq 1..Len(old)
        BY <1>2
      <4> QED BY <1>2, <2>3, <4>1, MaxIsGreatest
    <3>3. m \in DOMAIN old /\ old[m].temp # 0 /\ old[m].guid = rows[i].guid /\ old[m] \in Rows
      BY <1>1, <3>2
    <3> HIDE DEF m
    <3>4. new[i].guid = rows[i].guid /\ new[i].temp = old[m].temp /\ new[i].state = "shown"
          /\ new[i] \in Rows
      BY <2>0, <3>1, <3>3 DEF Rows, ShownRow
    <3>5. rows[i].guid \in DOMAIN F /\ rows[i].guid > 0
      BY <2>0 DEF ShownRow, IsMessage
    <3>6. ThreadRow(old[m], c, F, S)
      BY <3>3 DEF SoundThread
    <3>7. ~OwnRow(old[m], c, S)
      <4> SUFFICES ASSUME OwnRow(old[m], c, S) PROVE FALSE
        OBVIOUS
      <4>1. old[m].guid = old[m].temp /\ old[m].temp \in Int /\ -old[m].temp \in DOMAIN S
        BY <3>3 DEF OwnRow, SentBy, Rows
      <4> QED BY <3>3, <3>5, <4>1
    <3>8. IsMessage(old[m].guid, c, old[m].temp, F, S)
      BY <3>6, <3>7 DEF ThreadRow, ShownRow, SentRow
    <3>9. ShownRow(new[i], c, F, S)
      BY <3>3, <3>4, <3>8 DEF ShownRow
    <3> QED BY <3>3, <3>4, <3>9
  <2> QED BY <2>1, <2>2, <2>3
<1>4. new \in Seq(Rows)
  <2>1. \A i \in 1..Len(rows) : new[i] \in Rows
    BY <1>2, <1>3 DEF ShownRow
  <2>2. new = [i \in 1..Len(rows) |-> new[i]]
    BY <1>2 DEF WithKnownTempIds
  <2> HIDE DEF new
  <2> QED BY <1>2, <2>1, <2>2
<1> HIDE DEF new
<1>5. SoundPage(new, c, F, S) /\ Keyed(new, rows, old)
  BY <1>2, <1>3, <1>4 DEF SoundPage, Keyed
<1> QED BY <1>5 DEF new

(* An echo replaces a row of the thread, or is added to it. *)
LEMMA WithMessageSteps ==
  ASSUME NEW c, NEW rows, NEW m, SoundThread(rows, c, filed, sends),
         ShownRow(m, c, filed, sends)
  PROVE  \/ WithMessage(rows, m) = Append(rows, m)
         \/ \E i \in DOMAIN rows : /\ filed[m.guid].fromMe /\ Matches(m, rows[i])
                                   /\ WithMessage(rows, m) = [rows EXCEPT ![i] = m]
<1> DEFINE absorbing == {i \in DOMAIN rows : filed[m.guid].fromMe /\ Matches(m, rows[i])}
<1>1. rows \in Seq(Rows)
  BY DEF SoundThread
<1>2. CASE absorbing = {}
  BY <1>2 DEF WithMessage
<1>3. CASE absorbing # {}
  <2>1. absorbing \subseteq 1..Len(rows) /\ Len(rows) \in Nat
    BY <1>1
  <2>2. Max(absorbing) \in absorbing
    BY <1>3, <2>1, MaxIsGreatest
  <2>3. WithMessage(rows, m) = [rows EXCEPT ![Max(absorbing)] = m]
    BY <1>3 DEF WithMessage
  <2> QED BY <2>2, <2>3
<1> QED BY <1>2, <1>3

LEMMA WithMessageIsSound ==
  ASSUME NEW c, NEW rows, NEW m, SoundThread(rows, c, filed, sends),
         ShownRow(m, c, filed, sends)
  PROVE  SoundThread(WithMessage(rows, m), c, filed, sends)
<1>1. rows \in Seq(Rows) /\ m \in Rows /\ ThreadRow(m, c, filed, sends)
  BY DEF SoundThread, ShownRow, ThreadRow
<1>2. SoundThread(Append(rows, m), c, filed, sends)
  BY <1>1 DEF SoundThread
<1>3. \A i \in DOMAIN rows : SoundThread([rows EXCEPT ![i] = m], c, filed, sends)
  BY <1>1 DEF SoundThread
<1>4. \/ WithMessage(rows, m) = Append(rows, m)
      \/ \E i \in DOMAIN rows : WithMessage(rows, m) = [rows EXCEPT ![i] = m]
  BY WithMessageSteps
<1> QED BY <1>2, <1>3, <1>4

(* An ack patches the row of its send, if the thread still has it. *)
PatchedRow(row, f) == [row EXCEPT !.state = IF f.flag THEN "sent" ELSE "failed",
                                  !.guid = IF f.flag THEN f.guid ELSE @]

LEMMA PatchedSteps ==
  ASSUME NEW c, NEW rows, NEW f, SoundThread(rows, c, filed, sends)
  PROVE  \/ /\ Patched(rows, f) = rows
            /\ \A i \in DOMAIN rows : rows[i].guid # f.temp
         \/ \E i \in DOMAIN rows : /\ rows[i].guid = f.temp
                                   /\ Patched(rows, f) = [rows EXCEPT ![i] = PatchedRow(rows[i], f)]
<1> DEFINE sent == {i \in DOMAIN rows : rows[i].guid = f.temp}
<1>1. rows \in Seq(Rows)
  BY DEF SoundThread
<1>2. CASE sent = {}
  BY <1>2 DEF Patched
<1>3. CASE sent # {}
  <2>1. sent \subseteq 1..Len(rows) /\ Len(rows) \in Nat
    BY <1>1
  <2>2. Max(sent) \in sent
    BY <1>3, <2>1, MaxIsGreatest
  <2>3. Patched(rows, f) = [rows EXCEPT ![Max(sent)].state = IF f.flag THEN "sent" ELSE "failed",
                                        ![Max(sent)].guid = IF f.flag THEN f.guid ELSE @]
    BY <1>3 DEF Patched
  <2> HIDE DEF sent
  <2>4. Max(sent) \in DOMAIN rows /\ rows[Max(sent)].guid = f.temp
    BY <2>2 DEF sent
  <2>5. Patched(rows, f) = [rows EXCEPT ![Max(sent)] = PatchedRow(rows[Max(sent)], f)]
    BY <1>1, <2>3, <2>4 DEF PatchedRow, Rows
  <2> QED BY <2>4, <2>5
<1> QED BY <1>2, <1>3

LEMMA PatchedIsSound ==
  ASSUME NEW c, NEW rows, NEW f, SoundThread(rows, c, filed, sends),
         filed \in Seq(Messages), sends \in Seq([chat : Chats, text : Texts, ts : Nat]),
         f.kind = "ack", f.chat = c,
         SoundFrame(f, filed, sends, heard)
  PROVE  SoundThread(Patched(rows, f), c, filed, sends)
<1>1. rows \in Seq(Rows)
  BY DEF SoundThread
<1>2. CASE Patched(rows, f) = rows
  BY <1>2
<1>3. ASSUME NEW i \in DOMAIN rows, rows[i].guid = f.temp,
             Patched(rows, f) = [rows EXCEPT ![i] = PatchedRow(rows[i], f)]
      PROVE  SoundThread(Patched(rows, f), c, filed, sends)
  <2>1. f \in Frames /\ -f.temp \in DOMAIN sends /\ f.temp \in Int /\ f.temp < 0
        /\ (f.flag => IsMessage(f.guid, c, f.temp, filed, sends))
    <3>1. f \in Frames /\ f.temp \in Int /\ -f.temp \in DOMAIN sends
          /\ (f.flag => IsMessage(f.guid, c, f.temp, filed, sends))
      BY DEF SoundFrame, SentBy, Frames
    <3>2. DOMAIN sends = 1..Len(sends)
      OBVIOUS
    <3> QED BY <3>1, <3>2
  <2>2. ThreadRow(rows[i], c, filed, sends) /\ rows[i] \in Rows
    BY <1>1, <1>3 DEF SoundThread
  <2>3. OwnRow(rows[i], c, sends)
    BY <1>3, <2>1, <2>2 DEF ThreadRow, ShownRow, SentRow, IsMessage
  <2>4. ThreadRow(PatchedRow(rows[i], f), c, filed, sends)
    <3>1. CASE f.flag
      <4>1. /\ PatchedRow(rows[i], f) = [rows[i] EXCEPT !.state = "sent", !.guid = f.guid]
            /\ f.guid \in Int
        BY <2>1, <3>1 DEF PatchedRow, Frames
      <4>2. rows[i].temp = f.temp
        BY <1>3, <2>3 DEF OwnRow
      <4> DEFINE row == [rows[i] EXCEPT !.state = "sent", !.guid = f.guid]
      <4>3. row \in Rows /\ row.state = "sent" /\ row.guid = f.guid /\ row.temp = f.temp
        BY <2>2, <4>1, <4>2 DEF Rows
      <4> HIDE DEF row
      <4>4. SentRow(row, c, filed, sends)
        BY <2>1, <3>1, <4>3 DEF SentRow
      <4> QED BY <4>1, <4>4 DEF ThreadRow, row
    <3>2. CASE ~f.flag
      <4>1. PatchedRow(rows[i], f) = [rows[i] EXCEPT !.state = "failed"]
        BY <2>2, <3>2 DEF PatchedRow, Rows
      <4> QED BY <2>3, <2>2, <4>1 DEF ThreadRow, OwnRow, Rows
    <3> QED BY <3>1, <3>2
  <2>5. PatchedRow(rows[i], f) \in Rows
    BY <2>4 DEF ThreadRow, ShownRow, SentRow, OwnRow
  <2>6. \A k \in DOMAIN rows : ThreadRow(rows[k], c, filed, sends)
    BY DEF SoundThread
  <2> QED BY <1>1, <1>3, <2>4, <2>5, <2>6 DEF SoundThread
<1> QED BY <1>2, <1>3, PatchedSteps

(* A row still pending outlives the replacement of its thread. *)
InFlight(rows) == {i \in DOMAIN rows : rows[i].state = "pending"}

Joined(new, rows, old, pending) ==
  /\ \A i \in DOMAIN new :
       \/ i \in DOMAIN rows /\ new[i] = rows[i]
       \/ /\ i - Len(rows) \in DOMAIN Kept(old, pending)
          /\ new[i] = old[Nth(pending, i - Len(rows))]
          /\ Nth(pending, i - Len(rows)) \in pending
  /\ \A i \in pending : \E k \in DOMAIN new : new[k] = old[i]

LEMMA ReplacedIsSound ==
  ASSUME NEW F, NEW S, NEW c, NEW rows, NEW old,
         SoundPage(rows, c, F, S), SoundThread(old, c, F, S)
  PROVE  /\ SoundThread(Replaced(rows, old), c, F, S)
         /\ Joined(Replaced(rows, old), rows, old, InFlight(old))
<1> DEFINE pending == InFlight(old)
           kept == Kept(old, pending)
<1>1. pending \subseteq DOMAIN old
  BY DEF InFlight
<1>2. Replaced(rows, old) = rows \o kept
  BY DEF Replaced, InFlight
<1> HIDE DEF pending
<1>3. /\ SoundThread(kept, c, F, S)
      /\ \A k \in DOMAIN kept : Nth(pending, k) \in pending /\ kept[k] = old[Nth(pending, k)]
      /\ \A i \in pending : \E k \in DOMAIN kept : Nth(pending, k) = i
  BY <1>1, KeptIsSound
<1> HIDE DEF kept
<1>4. SoundThread(rows, c, F, S)
  BY ThreadOfPage
<1>5. /\ SoundThread(rows \o kept, c, F, S) /\ Len(rows \o kept) = Len(rows) + Len(kept)
      /\ \A i \in DOMAIN (rows \o kept) :
           \/ i \in DOMAIN rows /\ (rows \o kept)[i] = rows[i]
           \/ i - Len(rows) \in DOMAIN kept /\ (rows \o kept)[i] = kept[i - Len(rows)]
  BY <1>3, <1>4, ConcatIsSound
<1>6. \A i \in pending : \E k \in DOMAIN (rows \o kept) : (rows \o kept)[k] = old[i]
  <2> SUFFICES ASSUME NEW i \in pending
               PROVE  \E k \in DOMAIN (rows \o kept) : (rows \o kept)[k] = old[i]
    OBVIOUS
  <2>1. PICK k \in DOMAIN kept : Nth(pending, k) = i
    BY <1>3
  <2>2. kept[k] = old[i]
    BY <1>3, <2>1
  <2>3. rows \in Seq(Rows) /\ kept \in Seq(Rows)
    BY <1>3, <1>4 DEF SoundThread
  <2>4. Len(rows) + k \in DOMAIN (rows \o kept) /\ (rows \o kept)[Len(rows) + k] = kept[k]
    BY <2>3
  <2> QED BY <2>2, <2>4
<1> QED BY <1>2, <1>3, <1>5, <1>6 DEF pending, kept, Joined

(* The rows of one sequence are all rows of another. *)
Among(new, rows) == \A k \in DOMAIN new : \E i \in DOMAIN rows : new[k] = rows[i]

LEMMA NotShownIsSound ==
  ASSUME NEW F, NEW S, NEW c, NEW older, NEW old,
         SoundPage(older, c, F, S), SoundThread(old, c, F, S)
  PROVE  /\ SoundThread(NotShown(older, old), c, F, S)
         /\ Among(NotShown(older, old), older)
<1> DEFINE P == {i \in DOMAIN older : older[i].guid \notin Guids(old)}
<1>1. P \subseteq DOMAIN older
  OBVIOUS
<1>2. NotShown(older, old) = Kept(older, P)
  BY DEF NotShown
<1> HIDE DEF P
<1>3. SoundThread(older, c, F, S)
  BY ThreadOfPage
<1>4. /\ SoundThread(Kept(older, P), c, F, S)
      /\ \A k \in DOMAIN Kept(older, P) : Nth(P, k) \in P /\ Kept(older, P)[k] = older[Nth(P, k)]
  BY <1>1, <1>3, KeptIsSound
<1> QED BY <1>1, <1>2, <1>4 DEF Among

(* The chat asked for is the warmest, once, and none that were warm cool   *)
(* off unless it is new among them.                                        *)
LEMMA TouchedIsWarm ==
  ASSUME warm \in Seq(Chats), Len(warm) <= MaxThreads, IsInjective(warm), NEW c \in Chats
  PROVE  /\ Touched(c) \in Seq(Chats) /\ Len(Touched(c)) <= MaxThreads
         /\ IsInjective(Touched(c)) /\ c \in ToSet(Touched(c))
         /\ c \in ToSet(warm) => ToSet(warm) \subseteq ToSet(Touched(c))
<1> DEFINE P == {i \in DOMAIN warm : warm[i] # c}
           kept == Kept(warm, P)
           all == Append(kept, c)
           new == Newest(all, MaxThreads)
<1>0. MaxThreads \in Nat \ {0} /\ DOMAIN warm = 1..Len(warm) /\ Len(warm) \in Nat
  BY ThreadAssumptions
<1>1. P \subseteq DOMAIN warm /\ \A i \in P : warm[i] # c
  OBVIOUS
<1>2. \A i \in DOMAIN warm : warm[i] # c => i \in P
  OBVIOUS
<1> HIDE DEF P
<1>3. /\ kept \in Seq(Chats) /\ Len(kept) = Cardinality(P) /\ Cardinality(P) \in 0..Len(warm)
      /\ \A k \in 1..Cardinality(P) : Nth(P, k) \in P /\ kept[k] = warm[Nth(P, k)]
      /\ \A i \in P : \E k \in 1..Cardinality(P) : Nth(P, k) = i
      /\ \A j, k \in 1..Cardinality(P) : j < k <=> Nth(P, j) < Nth(P, k)
  BY <1>1, KeptElements
<1>n. \A k \in 1..Cardinality(P) : Nth(P, k) \in 1..Len(warm)
  BY <1>0, <1>1, <1>3
<1> HIDE DEF kept
<1>4. \A j, k \in 1..Cardinality(P) : kept[j] = kept[k] => j = k
  <2> SUFFICES ASSUME NEW j \in 1..Cardinality(P), NEW k \in 1..Cardinality(P), j # k
               PROVE  kept[j] # kept[k]
    OBVIOUS
  <2>1. j < k \/ k < j
    BY <1>3
  <2>2. Nth(P, j) < Nth(P, k) \/ Nth(P, k) < Nth(P, j)
    BY <1>3, <2>1
  <2>3. Nth(P, j) # Nth(P, k) /\ Nth(P, j) \in DOMAIN warm /\ Nth(P, k) \in DOMAIN warm
    BY <1>0, <1>n, <2>2
  <2>4. warm[Nth(P, j)] # warm[Nth(P, k)]
    BY <2>3 DEF IsInjective
  <2> QED BY <1>3, <2>4
<1>5. \A k \in 1..Cardinality(P) : kept[k] # c
  BY <1>1, <1>3
<1>6. /\ all \in Seq(Chats) /\ Len(all) = Cardinality(P) + 1 /\ all[Len(all)] = c
      /\ \A k \in 1..Cardinality(P) : all[k] = kept[k]
  BY <1>3
<1> HIDE DEF all
<1>7. \A j, k \in DOMAIN all : all[j] = all[k] => j = k
  <2>1. DOMAIN all = 1..Cardinality(P) \cup {Cardinality(P) + 1}
    BY <1>3, <1>6
  <2> QED BY <1>3, <1>4, <1>5, <1>6, <2>1
<1>8. /\ new \in Seq(Chats) /\ Len(new) = IF Len(all) <= MaxThreads THEN Len(all) ELSE MaxThreads
      /\ \A i \in DOMAIN new :
           LET k == IF Len(all) <= MaxThreads THEN i ELSE Len(all) - MaxThreads + i
           IN k \in DOMAIN all /\ new[i] = all[k]
  BY <1>0, <1>6, NewestElements
<1> HIDE DEF new
<1>9. Len(new) <= MaxThreads /\ Len(new) \in 1..MaxThreads /\ DOMAIN new = 1..Len(new)
  BY <1>0, <1>3, <1>6, <1>8
<1>10. \A j, k \in DOMAIN new : new[j] = new[k] => j = k
  <2> SUFFICES ASSUME NEW j \in DOMAIN new, NEW k \in DOMAIN new, new[j] = new[k]
               PROVE  j = k
    OBVIOUS
  <2>1. CASE Len(all) <= MaxThreads
    BY <1>7, <1>8, <2>1
  <2>2. CASE ~(Len(all) <= MaxThreads)
    <3>1. Len(all) - MaxThreads + j = Len(all) - MaxThreads + k
      BY <1>7, <1>8, <2>2
    <3>2. j \in Int /\ k \in Int /\ Len(all) \in Int
      BY <1>3, <1>6, <1>9
    <3> QED BY <1>0, <3>1, <3>2
  <2> QED BY <2>1, <2>2
<1>11. new[Len(new)] = c
  BY <1>0, <1>3, <1>6, <1>8, <1>9
<1>12. c \in ToSet(new)
  BY <1>9, <1>11 DEF ToSet
<1>13. ASSUME c \in ToSet(warm) PROVE ToSet(warm) \subseteq ToSet(new)
  <2>1. PICK i \in DOMAIN warm : warm[i] = c
    BY <1>13 DEF ToSet
  <2>f. IsFiniteSet(1..Len(warm)) /\ Cardinality(1..Len(warm)) = Len(warm)
    BY <1>0, IntervalSize
  <2>2. P \subseteq DOMAIN warm \ {i} /\ IsFiniteSet(DOMAIN warm) /\ Cardinality(DOMAIN warm) = Len(warm)
    BY <1>0, <1>1, <2>1, <2>f
  <2>3. IsFiniteSet(DOMAIN warm \ {i}) /\ Cardinality(DOMAIN warm \ {i}) = Len(warm) - 1
    BY <2>2, FS_RemoveElement
  <2>4. Cardinality(P) <= Len(warm) - 1
    BY <2>2, <2>3, FS_Subset
  <2>5. Len(all) <= MaxThreads
    BY <1>0, <1>3, <1>6, <2>4
  <2>6. Len(new) = Len(all) /\ \A k \in 1..Len(all) : new[k] = all[k]
    BY <1>0, <1>8, <1>9, <2>5
  <2>7. ASSUME NEW k \in DOMAIN warm PROVE \E n \in DOMAIN new : new[n] = warm[k]
    <3>1. CASE warm[k] = c
      BY <1>9, <1>11, <3>1
    <3>2. CASE warm[k] # c
      <4>1. PICK n \in 1..Cardinality(P) : Nth(P, n) = k
        BY <1>2, <1>3, <3>2
      <4>2. kept[n] = warm[k] /\ all[n] = kept[n] /\ n \in 1..Len(all)
        BY <1>3, <1>6, <4>1
      <4> QED BY <1>9, <2>6, <4>2
    <3> QED BY <3>1, <3>2
  <2> QED BY <2>7 DEF ToSet
<1>14. Touched(c) = new
  BY DEF Touched, new, all, kept, P
<1> QED BY <1>8, <1>9, <1>10, <1>12, <1>13, <1>14 DEF IsInjective

-----------------------------------------------------------------------------
(* Steps: the Mac and what was sent *)

Sent == [chat : Chats, text : Texts, ts : Nat]

LEMMA InitKnown == Init => Known
<1> SUFFICES ASSUME Init PROVE Known
  OBVIOUS
<1> USE DEF Init
<1>1. filed \in Seq(Messages) /\ filed = History
  <2> DEFINE M == [chat : Chats \cup {None}, handle : Handles \cup {None},
                   ts : Nat \ {0}, fromMe : BOOLEAN, text : Texts]
  <2>1. \A m \in M : m \in Messages
    BY DEF Messages
  <2>2. History \in Seq(M)
    BY ThreadAssumptions
  <2> HIDE DEF M
  <2>3. History \in Seq(Messages)
    BY <2>1, <2>2
  <2> QED BY <2>3
<1>2. MacKnown
  BY <1>1 DEF MacKnown
<1>3. WarmKnown
  BY ThreadAssumptions DEF WarmKnown, IsInjective, SoundPage, EachOnce
<1>d. DiskKnown
  BY <1>3 DEF WarmKnown, DiskKnown, SoundWarm, Cached
<1>4. JobsKnown
  BY DEF JobsKnown
<1>5. PipesKnown
  BY DEF PipesKnown
<1>6. ReaderKnown
  BY DEF ReaderKnown, SoundThread
<1>7. LinkKnown
  BY DEF LinkKnown, Busy, Idle
<1> QED BY <1>2, <1>3, <1>d, <1>4, <1>5, <1>6, <1>7 DEF Known

LEMMA BusyIsJob ==
  ASSUME JobsKnown, NEW j \in Jobs
  PROVE  /\ jobs[j].phase # "free" => /\ jobs[j] # Idle /\ SoundJob(jobs[j], filed, sends)
                                      /\ jobs[j] \in BusyJobs
         /\ jobs[j] # Idle => jobs[j].phase # "free"
         /\ j \in Busy <=> jobs[j] # Idle
BY DEF JobsKnown, Idle, BusyJobs, SoundJob, Busy

LEMMA LastTsIsATime ==
  ASSUME filed \in Seq(Messages)
  PROVE  LastTs \in Nat
<1>1. CASE filed = <<>>
  BY <1>1 DEF LastTs
<1>2. CASE filed # <<>>
  <2>1. filed[Len(filed)] \in Messages
    BY <1>2
  <2>2. LastTs = filed[Len(filed)].ts
    BY <1>2 DEF LastTs, Last
  <2> QED BY <2>1, <2>2 DEF Messages
<1> QED BY <1>1, <1>2

LEMMA SendOfJob ==
  ASSUME Known, NEW j \in Jobs, jobs[j].phase # "free", jobs[j].request.kind = "send"
  PROVE  /\ jobs[j].request.chat \in Chats /\ jobs[j].request.temp \in Int
         /\ jobs[j].request.temp < 0 /\ -jobs[j].request.temp \in DOMAIN sends
         /\ sends[-jobs[j].request.temp] \in Sent
         /\ sends[-jobs[j].request.temp].chat = jobs[j].request.chat
<1>1. SoundRequest(jobs[j].request, sends)
  BY BusyIsJob DEF Known, SoundJob
<1>2. sends \in Seq(Sent)
  BY DEF Known, ReaderKnown, Sent
<1> QED BY <1>1, <1>2 DEF SoundRequest, Requests, SentBy

LEMMA SendOfLate ==
  ASSUME Known, NEW t \in late
  PROVE  t \in Int /\ t < 0 /\ -t \in DOMAIN sends /\ sends[-t] \in Sent
<1>1. sends \in Seq(Sent) /\ late \subseteq {-k : k \in DOMAIN sends}
  BY DEF Known, MacKnown, ReaderKnown, Sent
<1>2. PICK k \in DOMAIN sends : t = -k
  BY <1>1
<1>3. k \in Nat /\ k > 0 /\ -t = k
  BY <1>1, <1>2
<1> QED BY <1>1, <1>2, <1>3

(* The message a send is filed as. *)
Filing(t) == [chat |-> sends[-t].chat, handle |-> None, ts |-> LastTs,
              fromMe |-> TRUE, text |-> sends[-t].text]

LEMMA FilingIsMessage ==
  ASSUME Known, NEW t, -t \in DOMAIN sends
  PROVE  /\ Filing(t) \in Messages /\ sends[-t].chat \in Chats
         /\ Filing(t).chat = sends[-t].chat /\ Filing(t).ts = LastTs /\ Filing(t).fromMe
         /\ Filing(t).text = sends[-t].text
         /\ FileSend(t) => /\ File(Filing(t))
                           /\ wire' = wire \o <<[guid |-> Len(filed) + 1, temp |-> t],
                                                [guid |-> Len(filed) + 1, temp |-> 0]>>
<1>1. sends[-t] \in Sent
  <2>1. sends \in Seq(Sent)
    BY DEF Known, ReaderKnown, Sent
  <2> QED BY <2>1
<1>2. LastTs \in Nat
  BY LastTsIsATime DEF Known, MacKnown
<1>3. sends[-t].chat \in Chats /\ sends[-t].text \in Texts
  BY <1>1 DEF Sent
<1>4. Filing(t) \in Messages
  BY <1>2, <1>3 DEF Filing, Messages
<1> QED BY <1>3, <1>4 DEF Filing, FileSend

(* The Mac files a send, asked for or given up on. *)
LEMMA FilesASend ==
  ASSUME Known, \/ \E j \in Jobs, phase \in {"answered", "refused"} : MacSends(j, phase)
                \/ \E temp \in late : MacFilesLate(temp)
  PROVE  \E t \in Int : t < 0 /\ -t \in DOMAIN sends /\ FileSend(t) /\ UNCHANGED <<sends, heard>>
<1>1. ASSUME NEW j \in Jobs, NEW phase \in {"answered", "refused"}, MacSends(j, phase)
      PROVE  \E t \in Int : t < 0 /\ -t \in DOMAIN sends /\ FileSend(t) /\ UNCHANGED <<sends, heard>>
  BY <1>1, SendOfJob DEF MacSends, AsksToSend, daemonVars, clientVars
<1>2. ASSUME NEW temp \in late, MacFilesLate(temp)
      PROVE  \E t \in Int : t < 0 /\ -t \in DOMAIN sends /\ FileSend(t) /\ UNCHANGED <<sends, heard>>
  BY <1>2, SendOfLate DEF MacFilesLate, daemonVars, clientVars
<1> QED BY <1>1, <1>2

LEMMA Grown ==
  ASSUME Known, [Next]_vars
  PROVE  /\ filed' \in Seq(Messages) /\ Extends(filed, filed')
         /\ sends' \in Seq(Sent) /\ Extends(sends, sends')
         /\ heard \subseteq heard' \/ frames' = <<>>
         /\ heard' \subseteq DOMAIN filed'
<1>t. /\ filed \in Seq(Messages) /\ sends \in Seq(Sent) /\ heard \subseteq DOMAIN filed
      /\ \A i \in DOMAIN wire : wire[i].guid \in DOMAIN filed
      /\ wire \in Seq([guid : Nat, temp : Int])
  BY DEF Known, MacKnown, WarmKnown, ReaderKnown, Sent, SoundPush
<1>e. Extends(filed, filed) /\ Extends(sends, sends)
  BY DEF Extends
<1>1. CASE UNCHANGED <<filed, sends, heard>>
  BY <1>t, <1>e, <1>1
<1>2. ASSUME NEW m \in Messages, File(m), UNCHANGED <<sends, heard>>
      PROVE  /\ filed' \in Seq(Messages) /\ Extends(filed, filed')
             /\ sends' \in Seq(Sent) /\ Extends(sends, sends')
             /\ heard \subseteq heard' /\ heard' \subseteq DOMAIN filed'
  <2>1. filed' = Append(filed, m)
    BY <1>2 DEF File
  <2>2. Extends(filed, filed')
    BY <1>t, <2>1, AppendExtends
  <2> QED BY <1>t, <1>e, <1>2, <2>1, <2>2 DEF Extends
<1>3. ASSUME NEW c \in Chats, NEW handle \in Handles \cup {None}, NEW fromMe \in BOOLEAN,
             NEW text \in Texts, NEW tick \in Ticks,
             MacMessage(c, handle, fromMe, text, tick)
      PROVE  \E m \in Messages : File(m) /\ UNCHANGED <<sends, heard>>
  <2>1. LastTs + tick \in Nat
    BY <1>t, LastTsIsATime, ThreadAssumptions
  <2>2. [chat |-> c, handle |-> handle, ts |-> LastTs + tick, fromMe |-> fromMe, text |-> text]
          \in Messages
    BY <2>1 DEF Messages
  <2> QED BY <1>3, <2>2 DEF MacMessage, daemonVars, clientVars
<1>4. ASSUME \/ \E j \in Jobs, phase \in {"answered", "refused"} : MacSends(j, phase)
             \/ \E temp \in late : MacFilesLate(temp)
      PROVE  \E m \in Messages : File(m) /\ UNCHANGED <<sends, heard>>
  BY <1>4, FilesASend, FilingIsMessage
<1>5. CASE HandleMessage
  <2>1. Head(wire).guid \in DOMAIN filed
    BY <1>t, <1>5 DEF HandleMessage
  <2>2. heard' = heard \/ heard' = heard \cup {Head(wire).guid}
    BY <1>5 DEF HandleMessage
  <2>3. filed' = filed /\ sends' = sends
    BY <1>5 DEF HandleMessage, clientVars
  <2> QED BY <1>t, <1>e, <2>1, <2>2, <2>3
<1>6. ASSUME NEW text \in Texts, SendMessage(text)
      PROVE  /\ filed' = filed /\ heard' = heard
             /\ sends' \in Seq(Sent) /\ Extends(sends, sends')
  <2>1. activeChat \in Chats
    BY <1>6 DEF SendMessage, Known, ReaderKnown
  <2>2. [chat |-> activeChat, text |-> text, ts |-> LastTs] \in Sent
    BY <1>t, <2>1, LastTsIsATime DEF Sent
  <2>3. sends' = Append(sends, [chat |-> activeChat, text |-> text, ts |-> LastTs])
        /\ filed' = filed /\ heard' = heard
    BY <1>6 DEF SendMessage, macVars, daemonVars
  <2> QED BY <1>t, <2>2, <2>3, AppendExtends
<1>7. CASE RestartDaemon
  BY <1>t, <1>e, <1>7 DEF RestartDaemon, clientVars
<1>8. \/ UNCHANGED <<filed, sends, heard>> \/ HandleMessage \/ RestartDaemon
      \/ \E text \in Texts : SendMessage(text)
      \/ \E c \in Chats, handle \in Handles \cup {None}, fromMe \in BOOLEAN, text \in Texts,
           tick \in Ticks :
           MacMessage(c, handle, fromMe, text, tick)
      \/ \E j \in Jobs, phase \in {"answered", "refused"} : MacSends(j, phase)
      \/ \E temp \in late : MacFilesLate(temp)
  BY DEF Next, vars, Flush, MacServesHandle, RequestLost, macVars, daemonVars, clientVars,
         PushesLost, MacServesPage, MacRefuses,
         Dispatch, LandPage, LandOlder, LandSend, LandFailure, OpenChat, CloseChat,
         ReloadActiveMessages, LoadOlderMessages, OnMessages, OnOlderMessages, OnOlderError,
         OnMessage, OnAck, AfterFrame, DropLink, Reconnect
<1> QED BY <1>t, <1>e, <1>1, <1>2, <1>3, <1>4, <1>5, <1>6, <1>7, <1>8

LEMMA MacKnownStays ==
  ASSUME Known, [Next]_vars
  PROVE  MacKnown'
<1>g. /\ filed' \in Seq(Messages) /\ Extends(filed, filed')
      /\ sends' \in Seq(Sent) /\ Extends(sends, sends')
  BY Grown
<1>t. /\ filed \in Seq(Messages) /\ wire \in Seq([guid : Nat, temp : Int])
      /\ \A i \in DOMAIN wire : SoundPush(wire[i], filed', sends')
  BY <1>g, AnswersStay DEF Known, MacKnown
<1>l. late' \subseteq {-k : k \in DOMAIN sends'}
  <2>0. late \subseteq {-k : k \in DOMAIN sends} /\ sends \in Seq(Sent)
    BY DEF Known, MacKnown, ReaderKnown, Sent
  <2>1. {-k : k \in DOMAIN sends} \subseteq {-k : k \in DOMAIN sends'}
    BY <1>g DEF Extends
  <2>s. ASSUME NEW j \in Jobs, jobs[j].phase = "asked", AsksToSend(j)
        PROVE  jobs[j].request.temp \in {-k : k \in DOMAIN sends}
    <3>1. -jobs[j].request.temp \in DOMAIN sends /\ jobs[j].request.temp \in Int
      BY <2>s, SendOfJob DEF AsksToSend
    <3> QED BY <3>1
  <2>2. CASE late' \subseteq late
    BY <2>0, <2>1, <2>2
  <2>3. ASSUME NEW j \in Jobs, RequestLost(j) PROVE late' \subseteq {-k : k \in DOMAIN sends}
    BY <2>0, <2>3, <2>s DEF RequestLost, AsksToSend
  <2>4. CASE RestartDaemon
    <3>1. late' = late \cup {jobs[j].request.temp : j \in {i \in Busy : AsksToSend(i)}}
      BY <2>4 DEF RestartDaemon
    <3>2. \A j \in Busy : AsksToSend(j) => jobs[j].request.temp \in {-k : k \in DOMAIN sends}
      BY <2>s DEF Busy, AsksToSend
    <3> QED BY <2>0, <2>1, <3>1, <3>2
  <2>5. late' \subseteq late \/ RestartDaemon \/ \E j \in Jobs : RequestLost(j)
    BY DEF Next, vars, macVars, MacMessage, MacFilesLate, Flush, PushesLost, MacServesPage,
           MacServesHandle, MacSends, MacRefuses, HandleMessage, Dispatch, LandPage, LandOlder,
           LandSend, LandFailure, OpenChat, CloseChat, ReloadActiveMessages, LoadOlderMessages,
           SendMessage, OnMessages, OnOlderMessages, OnOlderError, OnMessage, OnAck, AfterFrame,
           DropLink, Reconnect
  <2> QED BY <2>1, <2>2, <2>3, <2>4, <2>5
<1>m. ASSUME wire' \in Seq([guid : Nat, temp : Int]),
             \A i \in DOMAIN wire' : SoundPush(wire'[i], filed', sends')
      PROVE  MacKnown'
  BY <1>g, <1>l, <1>m DEF MacKnown
<1>1. CASE UNCHANGED wire
  BY <1>t, <1>1, <1>m
<1>2. CASE wire' = <<>>
  BY <1>2, <1>m
<1>3. CASE HandleMessage
  <2>1. wire # <<>> /\ wire' = Tail(wire)
    BY <1>3 DEF HandleMessage
  <2> QED BY <1>t, <2>1, <1>m
<1>4. ASSUME NEW c \in Chats, NEW handle \in Handles \cup {None}, NEW fromMe \in BOOLEAN,
             NEW text \in Texts, NEW tick \in Ticks,
             MacMessage(c, handle, fromMe, text, tick)
      PROVE  MacKnown'
  <2> DEFINE e == [guid |-> Len(filed) + 1, temp |-> 0]
  <2>1. wire' = Append(wire, e)
        /\ filed' = Append(filed, [chat |-> c, handle |-> handle, ts |-> LastTs + tick,
                                   fromMe |-> fromMe, text |-> text])
    BY <1>4 DEF MacMessage, File
  <2>2. e.guid \in DOMAIN filed' /\ e \in [guid : Nat, temp : Int] /\ filed'[e.guid].chat = c
    BY <1>t, <1>g, <2>1
  <2>3. SoundPush(e, filed', sends')
    BY <2>2 DEF SoundPush, IsMessage, BelongsTo
  <2> HIDE DEF e
  <2> QED BY <1>t, <2>1, <2>2, <2>3, <1>m
<1>5. ASSUME NEW t \in Int, t < 0, -t \in DOMAIN sends, FileSend(t), UNCHANGED <<sends, heard>>
      PROVE  MacKnown'
  <2> DEFINE g == Len(filed) + 1
             e == [guid |-> g, temp |-> t]
             e2 == [guid |-> g, temp |-> 0]
             m == Filing(t)
  <2>1. wire' = wire \o <<e, e2>> /\ filed' = Append(filed, m) /\ sends' = sends
    BY <1>5, FilingIsMessage DEF File
  <2>2. /\ m.chat = sends[-t].chat /\ sends[-t].chat \in Chats /\ m.fromMe
        /\ m.text = sends[-t].text
    BY <1>5, FilingIsMessage
  <2>3. g \in DOMAIN filed' /\ filed'[g] = m /\ g \in Nat
    BY <1>t, <1>g, <2>1
  <2> HIDE DEF g
  <2> HIDE DEF m
  <2>4. SoundPush(e, filed', sends') /\ SoundPush(e2, filed', sends')
    BY <1>5, <2>1, <2>2, <2>3 DEF SoundPush, IsMessage, BelongsTo, SentBy
  <2>5. e \in [guid : Nat, temp : Int] /\ e2 \in [guid : Nat, temp : Int]
    BY <1>5, <2>3
  <2> HIDE DEF e, e2, m
  <2>6. <<e, e2>> \in Seq([guid : Nat, temp : Int]) /\ Len(<<e, e2>>) = 2
        /\ <<e, e2>>[1] = e /\ <<e, e2>>[2] = e2
    BY <2>5
  <2>7. wire' \in Seq([guid : Nat, temp : Int])
    BY <1>t, <2>1, <2>6
  <2>8. \A i \in DOMAIN wire' : wire'[i] = e \/ wire'[i] = e2 \/ (i \in DOMAIN wire /\ wire'[i] = wire[i])
    <3> SUFFICES ASSUME NEW i \in DOMAIN wire'
                 PROVE  wire'[i] = e \/ wire'[i] = e2 \/ (i \in DOMAIN wire /\ wire'[i] = wire[i])
      OBVIOUS
    <3>1. i \in 1..(Len(wire) + 2) /\ Len(wire) \in Nat
      BY <1>t, <2>1, <2>6
    <3>2. i \in DOMAIN wire \/ i = Len(wire) + 1 \/ i = Len(wire) + 2
      BY <1>t, <3>1
    <3> QED BY <1>t, <2>1, <2>6, <3>2
  <2> QED BY <1>t, <2>4, <2>7, <2>8, <1>m
<1>6. \/ UNCHANGED wire \/ wire' = <<>> \/ HandleMessage
      \/ \E c \in Chats, handle \in Handles \cup {None}, fromMe \in BOOLEAN, text \in Texts,
           tick \in Ticks :
           MacMessage(c, handle, fromMe, text, tick)
      \/ \E j \in Jobs, phase \in {"answered", "refused"} : MacSends(j, phase)
      \/ \E temp \in late : MacFilesLate(temp)
  BY DEF Next, vars, Flush, MacServesHandle, RequestLost, macVars, PushesLost, MacServesPage,
         MacRefuses, Dispatch, LandPage, LandOlder, LandSend, LandFailure, OpenChat, CloseChat,
         ReloadActiveMessages, LoadOlderMessages, SendMessage, OnMessages, OnOlderMessages,
         OnOlderError, OnMessage, OnAck, AfterFrame, DropLink, RestartDaemon, Reconnect
<1> QED BY <1>1, <1>2, <1>3, <1>4, <1>5, <1>6, FilesASend

LEMMA PushedRow ==
  ASSUME Known, wire # <<>>
  PROVE  LET e == Head(wire)
             c == filed[e.guid].chat
         IN c \in Chats /\ e.guid \in DOMAIN filed
            /\ ShownRow(Row(e.guid, e.temp), c, filed, sends)
<1>1. SoundPush(Head(wire), filed, sends) /\ filed \in Seq(Messages)
  BY DEF Known, MacKnown
<1>2. /\ Head(wire).guid \in DOMAIN filed /\ Head(wire).guid \in Int /\ Head(wire).temp \in Int
      /\ filed[Head(wire).guid].chat \in Chats
      /\ IsMessage(Head(wire).guid, filed[Head(wire).guid].chat, Head(wire).temp, filed, sends)
  BY <1>1 DEF SoundPush
<1> QED BY <1>2 DEF ShownRow, Row, Rows

LEMMA FirstFrame ==
  ASSUME Known, frames # <<>>
  PROVE  Head(frames) \in Frames /\ SoundFrame(Head(frames), filed, sends, heard)
BY DEF Known, PipesKnown

LEMMA FirstRequest ==
  ASSUME Known, requests # <<>>
  PROVE  Head(requests) \in Requests /\ SoundRequest(Head(requests), sends)
BY DEF Known, PipesKnown

LEMMA WarmKnownStays ==
  ASSUME Known, [Next]_vars
  PROVE  WarmKnown'
<1>g. Extends(filed, filed') /\ Extends(sends, sends') /\ heard' \subseteq DOMAIN filed'
  BY Grown
<1>t. /\ warm \in Seq(Chats) /\ Len(warm) <= MaxThreads /\ IsInjective(warm)
      /\ pages \in [Chats -> Seq(Rows)]
      /\ \A c \in Chats : /\ SoundPage(pages[c], c, filed', sends') /\ EachOnce(pages[c])
                          /\ pages[c] # <<>> => c \in ToSet(warm)
  BY <1>g, AnswersStay DEF Known, WarmKnown
<1>1. CASE UNCHANGED <<pages, warm>>
  BY <1>g, <1>t, <1>1 DEF WarmKnown
<1>2. CASE HandleMessage
  <2> DEFINE e == Head(wire)
             c == filed[e.guid].chat
             row == Row(e.guid, e.temp)
             page == Newest(Append(pages[c], row), PageSize)
  <2>1. c \in Chats /\ ShownRow(row, c, filed', sends')
    BY <1>2, <1>g, PushedRow, RowsStay DEF HandleMessage
  <2>2. row.guid = e.guid
    BY DEF Row
  <2>3. /\ warm' = warm
        /\ \/ pages' = pages
           \/ /\ c \in ToSet(warm) /\ row.guid \notin Guids(pages[c])
              /\ pages' = [pages EXCEPT ![c] = page]
    BY <1>2 DEF HandleMessage, AppendToThread
  <2>4. row.guid \notin Guids(pages[c]) => SoundPage(page, c, filed', sends') /\ EachOnce(page)
    BY <1>t, <2>1, AppendedPageIsSound
  <2> HIDE DEF page, row, c, e
  <2>5. CASE pages' = pages
    BY <1>g, <1>t, <2>3, <2>5 DEF WarmKnown
  <2>6. CASE /\ c \in ToSet(warm) /\ row.guid \notin Guids(pages[c])
             /\ pages' = [pages EXCEPT ![c] = page]
    <3>1. page \in Seq(Rows)
      BY <2>4, <2>6 DEF SoundPage
    <3>2. pages' \in [Chats -> Seq(Rows)] /\ \A d \in Chats : pages'[d] = IF d = c THEN page ELSE pages[d]
      BY <1>t, <2>1, <2>6, <3>1
    <3> QED BY <1>g, <1>t, <2>3, <2>4, <2>6, <3>2 DEF WarmKnown
  <2> QED BY <2>3, <2>5, <2>6
<1>3. ASSUME NEW j \in Jobs, Dispatch(j) PROVE WarmKnown'
  <2> DEFINE q == Head(requests)
  <2>1. q.chat \in Chats
    BY <1>3, FirstRequest DEF Dispatch, Requests
  <2>2. pages' = pages /\ (warm' = warm \/ (warm' = Touched(q.chat) /\ q.chat \in ToSet(warm)))
    BY <1>3 DEF Dispatch
  <2> HIDE DEF q
  <2>3. CASE warm' = warm
    BY <1>g, <1>t, <2>2, <2>3 DEF WarmKnown
  <2>4. CASE warm' = Touched(q.chat) /\ q.chat \in ToSet(warm)
    <3>1. /\ warm' \in Seq(Chats) /\ Len(warm') <= MaxThreads /\ IsInjective(warm')
          /\ ToSet(warm) \subseteq ToSet(warm')
      BY <1>t, <2>1, <2>4, TouchedIsWarm
    <3> QED BY <1>g, <1>t, <2>2, <3>1 DEF WarmKnown
  <2> QED BY <2>2, <2>3, <2>4
<1>4. ASSUME NEW j \in Jobs, LandPage(j) PROVE WarmKnown'
  <2> DEFINE c == jobs[j].request.chat
             rows == jobs[j].rows
  <2>1. SoundJob(jobs[j], filed, sends)
    BY <1>4, BusyIsJob DEF LandPage, Known
  <2>2. c \in Chats /\ rows \in Seq(Rows)
    BY <2>1 DEF SoundJob, BusyJobs, Requests
  <2>3. SoundPage(rows, c, filed', sends') /\ EachOnce(rows)
    BY <1>g, <2>1, AnswersStay DEF SoundJob
  <2>4. /\ warm' = Touched(c)
        /\ pages' = [d \in Chats |-> IF d = c THEN rows
                                     ELSE IF d \in ToSet(Touched(c)) THEN pages[d] ELSE <<>>]
    BY <1>4 DEF LandPage
  <2> HIDE DEF c, rows
  <2>5. /\ warm' \in Seq(Chats) /\ Len(warm') <= MaxThreads /\ IsInjective(warm')
        /\ c \in ToSet(warm')
    BY <1>t, <2>2, <2>4, TouchedIsWarm
  <2>6. SoundPage(<<>>, c, filed', sends') /\ EachOnce(<<>>) /\ \A d : SoundPage(<<>>, d, filed', sends')
    BY ThreadAssumptions DEF SoundPage, EachOnce
  <2>7. \A d \in Chats : \/ d = c /\ pages'[d] = rows
                         \/ d \in ToSet(warm') /\ pages'[d] = pages[d]
                         \/ pages'[d] = <<>>
    BY <2>4
  <2>8. pages' \in [Chats -> Seq(Rows)]
    BY <1>t, <2>2, <2>4
  <2> QED BY <1>g, <1>t, <2>3, <2>5, <2>6, <2>7, <2>8 DEF WarmKnown
<1>6. CASE RestartDaemon
  <2>1. PICK read \in {Cached, disk} : pages' = read.pages /\ warm' = read.warm
    BY <1>6 DEF RestartDaemon
  <2>2. CASE read = Cached
    BY <1>1, <2>1, <2>2 DEF Cached
  <2>3. CASE read = disk
    <3>0. \A rows, c : SoundPage(rows, c, filed, sends) => SoundPage(rows, c, filed', sends')
      BY <1>g, AnswersStay
    <3>1. /\ disk.warm \in Seq(Chats) /\ Len(disk.warm) <= MaxThreads /\ IsInjective(disk.warm)
          /\ disk.pages \in [Chats -> Seq(Rows)]
          /\ \A c \in Chats : /\ SoundPage(disk.pages[c], c, filed', sends')
                              /\ EachOnce(disk.pages[c])
                              /\ disk.pages[c] # <<>> => c \in ToSet(disk.warm)
      BY <3>0 DEF Known, DiskKnown, SoundWarm
    <3> QED BY <1>g, <2>1, <2>3, <3>1 DEF WarmKnown
  <2> QED BY <2>2, <2>3
<1>5. \/ UNCHANGED <<pages, warm>> \/ HandleMessage \/ RestartDaemon
      \/ \E j \in Jobs : Dispatch(j) \/ LandPage(j)
  BY DEF Next, vars, MacFilesLate, Flush, MacServesHandle, RequestLost, macVars, daemonVars,
       MacMessage, PushesLost, MacServesPage, MacSends, MacRefuses, LandOlder, LandSend,
       LandFailure, OpenChat, CloseChat, ReloadActiveMessages, LoadOlderMessages,
       SendMessage, OnMessages, OnOlderMessages, OnOlderError, OnMessage, OnAck, AfterFrame,
       DropLink, Reconnect
<1> QED BY <1>1, <1>2, <1>3, <1>4, <1>5, <1>6

LEMMA DiskSteps ==
  ASSUME [Next]_vars
  PROVE  disk' = disk \/ disk' = Cached
<1>1. RestartDaemon => disk' \in {Cached, disk}
  BY DEF RestartDaemon
<1> QED BY <1>1 DEF Next, vars, daemonVars, MacMessage, MacFilesLate, Flush, PushesLost,
           MacServesPage, MacServesHandle, MacSends, MacRefuses, RequestLost, HandleMessage,
           Dispatch, LandPage, LandOlder, LandSend, LandFailure, OpenChat, CloseChat,
           ReloadActiveMessages, LoadOlderMessages, SendMessage, OnMessages, OnOlderMessages,
           OnOlderError, OnMessage, OnAck, AfterFrame, DropLink, Reconnect

LEMMA DiskKnownStays ==
  ASSUME Known, [Next]_vars
  PROVE  DiskKnown'
<1>g. Extends(filed, filed') /\ Extends(sends, sends')
  BY Grown
<1>p. \A rows, c : SoundPage(rows, c, filed, sends) => SoundPage(rows, c, filed', sends')
  BY <1>g, AnswersStay
<1>1. SoundWarm(disk.pages, disk.warm, filed', sends')
  BY <1>p DEF Known, DiskKnown, SoundWarm
<1>2. SoundWarm(pages, warm, filed', sends')
  BY <1>p DEF Known, WarmKnown, SoundWarm
<1>3. disk' = disk \/ disk' = Cached
  BY DiskSteps
<1> QED BY <1>1, <1>2, <1>3 DEF DiskKnown, Cached

LEMMA JobsKnownStays ==
  ASSUME Known, [Next]_vars
  PROVE  JobsKnown'
<1>g. /\ filed \in Seq(Messages) /\ filed' \in Seq(Messages) /\ Extends(filed, filed')
      /\ Extends(sends, sends')
  BY Grown DEF Known, MacKnown
<1>t. /\ jobs \in [Jobs -> {Idle} \cup BusyJobs]
      /\ \A j \in Jobs : jobs[j] # Idle => SoundJob(jobs[j], filed', sends')
      /\ \A j \in Jobs : jobs[j].phase # "free" => jobs[j] # Idle /\ jobs[j] \in BusyJobs
                                                   /\ SoundJob(jobs[j], filed, sends)
  BY <1>g, AnswersStay, BusyIsJob DEF Known, JobsKnown
<1>m. ASSUME NEW j \in Jobs, NEW job, jobs' = [jobs EXCEPT ![j] = job],
             job = Idle \/ SoundJob(job, filed', sends')
      PROVE  JobsKnown'
  BY <1>t, <1>m DEF JobsKnown, SoundJob
<1>1. CASE UNCHANGED jobs
  BY <1>t, <1>1 DEF JobsKnown
<1>s. ASSUME NEW j \in Jobs, AsksForPage(j, "asked") \/ AsksForPage(j, "byHandle"),
             NEW rows, SoundPage(rows, jobs[j].request.chat, filed, sends), EachOnce(rows),
             jobs' = [jobs EXCEPT ![j].phase = "answered", ![j].rows = rows],
             UNCHANGED <<filed, sends>>
      PROVE  JobsKnown'
  <2> DEFINE job == [jobs[j] EXCEPT !.phase = "answered", !.rows = rows]
  <2>1. /\ jobs[j] \in BusyJobs /\ SoundJob(jobs[j], filed, sends)
        /\ jobs[j].request.kind # "send"
    BY <1>t, <1>s DEF AsksForPage
  <2>2. jobs' = [jobs EXCEPT ![j] = job]
    BY <1>s, <1>t
  <2>3. rows \in Seq(Rows)
    BY <1>s DEF SoundPage
  <2>4. SoundJob(job, filed', sends')
    BY <1>s, <2>1, <2>3 DEF SoundJob, BusyJobs
  <2> HIDE DEF job
  <2> QED BY <1>m, <2>2, <2>4
<1>2. ASSUME NEW j \in Jobs, MacServesPage(j) PROVE JobsKnown'
  <2> DEFINE q == jobs[j].request
             page == Page(q.chat, q.before)
             job == [jobs[j] EXCEPT !.phase = "byHandle"]
  <2>0. AsksForPage(j, "asked") /\ UNCHANGED <<filed, sends>>
    BY <1>2 DEF MacServesPage, macVars, clientVars
  <2>1. SoundPage(page, q.chat, filed, sends) /\ EachOnce(page)
    BY <1>g, ServedPageIsSound
  <2>2. \/ jobs' = [jobs EXCEPT ![j].phase = "answered", ![j].rows = page]
        \/ /\ Solo[q.chat] # None
           /\ jobs' = [jobs EXCEPT ![j].phase = "byHandle"]
    BY <1>2 DEF MacServesPage
  <2> HIDE DEF page
  <2>3. CASE jobs' = [jobs EXCEPT ![j].phase = "answered", ![j].rows = page]
    BY <1>s, <2>0, <2>1, <2>3
  <2>4. CASE Solo[q.chat] # None /\ jobs' = [jobs EXCEPT ![j].phase = "byHandle"]
    <3>1. /\ jobs[j] \in BusyJobs /\ SoundJob(jobs[j], filed', sends') /\ q.kind # "send"
      BY <1>t, <2>0 DEF AsksForPage
    <3>2. jobs' = [jobs EXCEPT ![j] = job]
      BY <1>t, <2>4
    <3>3. SoundJob(job, filed', sends')
      BY <2>4, <3>1 DEF SoundJob, BusyJobs
    <3> HIDE DEF job
    <3> QED BY <1>m, <3>2, <3>3
  <2> QED BY <2>2, <2>3, <2>4
<1>h. ASSUME NEW j \in Jobs, MacServesHandle(j) PROVE JobsKnown'
  <2> DEFINE q == jobs[j].request
             page == PageByHandle(Solo[q.chat], q.before)
  <2>0. /\ AsksForPage(j, "byHandle") /\ UNCHANGED <<filed, sends>>
        /\ jobs' = [jobs EXCEPT ![j].phase = "answered", ![j].rows = page]
    BY <1>h DEF MacServesHandle, macVars, clientVars
  <2>1. Solo[q.chat] # None
    BY <1>t, <2>0 DEF AsksForPage, SoundJob
  <2>2. SoundPage(page, q.chat, filed, sends) /\ EachOnce(page)
    BY <1>g, <2>1, HandlePageIsSound
  <2> HIDE DEF page
  <2> QED BY <1>s, <2>0, <2>2
<1>3. ASSUME NEW j \in Jobs, NEW phase \in {"answered", "refused"}, MacSends(j, phase)
      PROVE  JobsKnown'
  <2> DEFINE q == jobs[j].request
             g == Len(filed) + 1
             m == Filing(q.temp)
             job == [jobs[j] EXCEPT !.phase = phase, !.guid = g]
  <2>1. /\ sends' = sends /\ FileSend(q.temp)
        /\ jobs[j].phase # "free" /\ q.kind = "send"
        /\ jobs' = [jobs EXCEPT ![j].phase = phase, ![j].guid = g]
    BY <1>3 DEF MacSends, AsksToSend, clientVars
  <2>2. /\ q.temp \in Int /\ q.temp < 0 /\ -q.temp \in DOMAIN sends
        /\ sends[-q.temp].chat = q.chat
    BY <2>1, SendOfJob
  <2>a. /\ filed' = Append(filed, m) /\ m.chat = q.chat /\ m.fromMe
        /\ m.text = sends[-q.temp].text
    BY <2>1, <2>2, FilingIsMessage DEF File
  <2> HIDE DEF m
  <2>3. g \in DOMAIN filed' /\ filed'[g] = m /\ g \in Nat
    BY <1>g, <2>a
  <2> HIDE DEF g
  <2>4. jobs' = [jobs EXCEPT ![j] = job]
    BY <1>t, <2>1
  <2>5. jobs[j] \in BusyJobs /\ SoundJob(jobs[j], filed', sends')
    BY <1>t, <2>1
  <2>6. IsMessage(g, q.chat, q.temp, filed', sends')
    BY <2>1, <2>2, <2>a, <2>3 DEF IsMessage, BelongsTo, SentBy
  <2>7. SoundJob(job, filed', sends')
    BY <2>3, <2>5, <2>6 DEF SoundJob, BusyJobs
  <2> HIDE DEF job
  <2> QED BY <1>m, <2>4, <2>7
<1>4. ASSUME NEW j \in Jobs, MacRefuses(j) \/ RequestLost(j) PROVE JobsKnown'
  <2> DEFINE job == [jobs[j] EXCEPT !.phase = "refused"]
  <2>1. jobs[j] \in BusyJobs /\ SoundJob(jobs[j], filed', sends')
    BY <1>t, <1>4 DEF MacRefuses, RequestLost, AsksToSend
  <2>2. jobs' = [jobs EXCEPT ![j] = job]
    BY <1>4, <1>t DEF MacRefuses, RequestLost, AsksToSend
  <2>3. SoundJob(job, filed', sends')
    BY <2>1 DEF SoundJob, BusyJobs
  <2> HIDE DEF job
  <2> QED BY <1>m, <2>2, <2>3
<1>5. ASSUME NEW j \in Jobs, Dispatch(j) PROVE JobsKnown'
  <2> DEFINE q == Head(requests)
             hit == q.kind = "messages" /\ q.chat \in ToSet(warm)
  <2>1. q \in Requests /\ SoundRequest(q, sends') /\ jobs' = [jobs EXCEPT ![j] = Job(q, hit)]
    BY <1>5, <1>g, FirstRequest, AnswersStay DEF Dispatch
  <2> HIDE DEF q
  <2>2. hit \in BOOLEAN
    OBVIOUS
  <2> HIDE DEF hit
  <2>3. SoundPage(<<>>, q.chat, filed', sends') /\ EachOnce(<<>>)
    BY ThreadAssumptions DEF SoundPage, EachOnce
  <2>4. SoundJob(Job(q, hit), filed', sends')
    BY <2>1, <2>2, <2>3 DEF SoundJob, BusyJobs, Job
  <2> QED BY <1>m, <2>1, <2>4
<1>6. ASSUME NEW j \in Jobs, Done(j) PROVE JobsKnown'
  BY <1>m, <1>6 DEF Done
<1>7. CASE DropLink
  <2>1. \A j \in Jobs : jobs'[j] = IF j \in Busy THEN [jobs[j] EXCEPT !.live = FALSE] ELSE jobs[j]
    BY <1>7 DEF DropLink
  <2>2. ASSUME NEW j \in Jobs, j \in Busy
        PROVE  SoundJob([jobs[j] EXCEPT !.live = FALSE], filed', sends')
    <3>1. jobs[j] \in BusyJobs /\ SoundJob(jobs[j], filed', sends')
      BY <1>t, <2>2 DEF Busy
    <3> QED BY <3>1 DEF SoundJob, BusyJobs
  <2>3. \A j \in Jobs : jobs'[j] = Idle \/ SoundJob(jobs'[j], filed', sends')
    BY <1>t, <2>1, <2>2
  <2>4. \A j \in Jobs : jobs'[j] \in {Idle} \cup BusyJobs
    BY <2>3 DEF SoundJob
  <2>5. jobs' \in [Jobs -> {Idle} \cup BusyJobs]
    BY <1>7, <2>4 DEF DropLink
  <2> QED BY <2>3, <2>5 DEF JobsKnown
<1>8. CASE RestartDaemon
  BY <1>8 DEF RestartDaemon, JobsKnown
<1>9. \/ UNCHANGED jobs \/ DropLink \/ RestartDaemon
      \/ \E j \in Jobs : MacServesPage(j) \/ MacServesHandle(j) \/ MacRefuses(j) \/ RequestLost(j)
                         \/ Dispatch(j) \/ Done(j)
      \/ \E j \in Jobs, phase \in {"answered", "refused"} : MacSends(j, phase)
  BY DEF Next, vars, MacFilesLate, Flush, MacMessage, PushesLost, HandleMessage,
         LandPage, LandOlder, LandSend, LandFailure, OpenChat, CloseChat,
         ReloadActiveMessages, LoadOlderMessages, SendMessage, OnMessages, OnOlderMessages,
         OnOlderError, OnMessage, OnAck, AfterFrame, Reconnect
<1> QED BY <1>1, <1>2, <1>h, <1>3, <1>4, <1>5, <1>6, <1>7, <1>8, <1>9

RequestsKnown ==
  requests \in Seq(Requests) /\ \A i \in DOMAIN requests : SoundRequest(requests[i], sends)

FramesKnown ==
  frames \in Seq(Frames) /\ \A i \in DOMAIN frames : SoundFrame(frames[i], filed, sends, heard)

(* When the oldest row of a thread was written: what the reader pages from. *)
LEMMA OldestTime ==
  ASSUME Known, NEW c \in Chats, NEW i \in DOMAIN threads[c]
  PROVE  TsOf(threads[c][i]) \in Nat
<1> DEFINE row == threads[c][i]
<1>1. filed \in Seq(Messages) /\ sends \in Seq(Sent) /\ ThreadRow(row, c, filed, sends)
  BY DEF Known, MacKnown, ReaderKnown, SoundThread, Sent
<1> HIDE DEF row
<1>2. CASE row.state = "shown"
  <2>1. row.guid \in DOMAIN filed
    BY <1>1, <1>2 DEF ThreadRow, ShownRow, SentRow, OwnRow, IsMessage
  <2>2. filed[row.guid] \in Messages
    BY <1>1, <2>1
  <2> QED BY <1>2, <2>2 DEF TsOf, Messages, row
<1>3. CASE row.state # "shown"
  <2>1. -row.temp \in DOMAIN sends
    BY <1>1, <1>3 DEF ThreadRow, ShownRow, SentRow, OwnRow, IsMessage, SentBy
  <2>2. sends[-row.temp] \in Sent
    BY <1>1, <2>1
  <2> QED BY <1>3, <2>2 DEF TsOf, Sent, row
<1> QED BY <1>2, <1>3

LEMMA RequestsKnownStay ==
  ASSUME Known, [Next]_vars
  PROVE  RequestsKnown'
<1>g. /\ Extends(sends, sends') /\ Extends(filed, filed')
      /\ sends' \in Seq(Sent)
  BY Grown
<1>t. /\ requests \in Seq(Requests) /\ \A i \in DOMAIN requests : SoundRequest(requests[i], sends')
      /\ activeChat \in Chats \cup {None}
  BY <1>g, AnswersStay DEF Known, PipesKnown, ReaderKnown
<1>m. ASSUME NEW q, Request(q), SoundRequest(q, sends') PROVE RequestsKnown'
  <2>1. requests' = Append(requests, q) /\ q \in Requests
    BY <1>m DEF Request, SoundRequest
  <2> QED BY <1>m, <1>t, <2>1 DEF RequestsKnown
<1>1. CASE UNCHANGED requests
  BY <1>t, <1>1 DEF RequestsKnown
<1>2. CASE requests' = <<>>
  BY <1>2 DEF RequestsKnown
<1>3. ASSUME NEW j \in Jobs, Dispatch(j) PROVE RequestsKnown'
  <2>1. requests # <<>> /\ requests' = Tail(requests)
    BY <1>3 DEF Dispatch
  <2> QED BY <1>t, <2>1 DEF RequestsKnown
<1>4. ASSUME NEW c \in Chats, AskMessages(c) PROVE RequestsKnown'
  <2>1. SoundRequest([kind |-> "messages", chat |-> c, before |-> 0, temp |-> 0], sends')
    BY DEF SoundRequest, Requests
  <2> QED BY <1>4, <1>m, <2>1 DEF AskMessages
<1>5. CASE LoadOlderMessages
  <2>1. activeChat \in Chats /\ threads[activeChat] # <<>>
    BY <1>t, <1>5 DEF LoadOlderMessages, MayLoadOlder
  <2>2. threads[activeChat] \in Seq(Rows)
    BY <2>1 DEF Known, ReaderKnown
  <2>3. 1 \in DOMAIN threads[activeChat] /\ Head(threads[activeChat]) = threads[activeChat][1]
    BY <2>1, <2>2
  <2>4. TsOf(Head(threads[activeChat])) \in Nat
    BY <2>1, <2>3, OldestTime
  <2> DEFINE q == [kind |-> "older", chat |-> activeChat, temp |-> 0,
                   before |-> TsOf(Head(threads[activeChat]))]
  <2>5. SoundRequest(q, sends')
    BY <2>1, <2>4 DEF SoundRequest, Requests
  <2>6. Request(q)
    BY <1>5 DEF LoadOlderMessages
  <2> HIDE DEF q
  <2> QED BY <1>m, <2>5, <2>6
<1>6. ASSUME NEW text \in Texts, SendMessage(text) PROVE RequestsKnown'
  <2> DEFINE q == [kind |-> "send", chat |-> activeChat, before |-> 0, temp |-> -(Len(sends) + 1)]
  <2>1. activeChat \in Chats /\ Request(q)
        /\ sends' = Append(sends, [chat |-> activeChat, text |-> text, ts |-> LastTs])
    BY <1>6, <1>t DEF SendMessage
  <2>2. sends \in Seq(Sent)
    BY DEF Known, ReaderKnown, Sent
  <2>3. /\ -(Len(sends) + 1) \in Int /\ -(-(Len(sends) + 1)) = Len(sends) + 1
        /\ Len(sends) + 1 \in DOMAIN sends' /\ sends'[Len(sends) + 1].chat = activeChat
    BY <1>g, <2>1, <2>2
  <2>4. SoundRequest(q, sends')
    BY <2>1, <2>3 DEF SoundRequest, Requests, SentBy
  <2> HIDE DEF q
  <2> QED BY <1>m, <2>1, <2>4
<1>7. CASE ReloadActiveMessages
  BY <1>t, <1>4, <1>7 DEF ReloadActiveMessages
<1>8. ASSUME NEW c \in Chats, OpenChat(c) PROVE RequestsKnown'
  BY <1>1, <1>4, <1>8 DEF OpenChat
<1>9. \/ UNCHANGED requests \/ requests' = <<>> \/ \E j \in Jobs : Dispatch(j)
      \/ LoadOlderMessages \/ ReloadActiveMessages \/ \E c \in Chats : OpenChat(c)
      \/ \E text \in Texts : SendMessage(text)
  BY DEF Next, vars, MacFilesLate, Flush, MacServesHandle, RequestLost, pipeVars,
       MacMessage, PushesLost, MacServesPage, MacSends, MacRefuses, HandleMessage, LandPage,
       LandOlder, LandSend, LandFailure, CloseChat, OnMessages, OnOlderMessages,
       OnOlderError, OnMessage, OnAck, AfterFrame, DropLink, RestartDaemon, Reconnect
<1> QED BY <1>1, <1>2, <1>3, <1>5, <1>6, <1>7, <1>8, <1>9

(* A frame that bears rows of a page, and no tempId of its own. *)
LEMMA PlainFrame ==
  ASSUME NEW F, NEW S, NEW H, NEW kind \in {"messages", "older", "error"}, NEW c \in Chats,
         NEW rows, SoundPage(rows, c, F, S), NEW flag \in BOOLEAN
  PROVE  /\ SoundFrame([Frame(kind, c, rows) EXCEPT !.flag = flag], F, S, H)
         /\ SoundFrame(Frame(kind, c, rows), F, S, H)
BY DEF SoundFrame, Frame, Frames, SoundPage

(* What an ack says: done, or not. *)
NoRows == <<>>
DoneAck(c, temp, g) ==
  [Frame("ack", c, NoRows) EXCEPT !.temp = temp, !.guid = g, !.flag = TRUE]
FailedAck(c, temp) == [Frame("ack", c, NoRows) EXCEPT !.temp = temp]

LEMMA AckFrame ==
  ASSUME NEW c \in Chats, NEW temp \in Int, NEW g \in Nat
  PROVE  LET done == DoneAck(c, temp, g)
             not  == FailedAck(c, temp)
         IN /\ done \in Frames /\ done.kind = "ack" /\ done.chat = c /\ done.rows = NoRows
            /\ done.temp = temp /\ done.guid = g /\ done.flag
            /\ not \in Frames /\ not.kind = "ack" /\ not.chat = c /\ not.rows = NoRows
            /\ not.temp = temp /\ not.guid = 0 /\ ~not.flag
<1>1. NoRows \in Seq(Rows)
  BY DEF NoRows
<1> QED BY <1>1 DEF Frame, Frames, DoneAck, FailedAck

LEMMA FramesKnownStay ==
  ASSUME Known, [Next]_vars
  PROVE  FramesKnown'
<1>g. /\ Extends(sends, sends') /\ Extends(filed, filed')
      /\ heard \subseteq heard' \/ frames' = <<>>
  BY Grown
<1>2. CASE frames' = <<>>
  BY <1>2 DEF FramesKnown
<1>t. CASE heard \subseteq heard'
  <2>t. /\ frames \in Seq(Frames)
        /\ \A i \in DOMAIN frames : SoundFrame(frames[i], filed', sends', heard')
        /\ \A rows, c : SoundPage(rows, c, filed, sends) => SoundPage(rows, c, filed', sends')
    <3>1. /\ \A f : SoundFrame(f, filed, sends, heard) => SoundFrame(f, filed', sends', heard')
          /\ \A rows, c : SoundPage(rows, c, filed, sends) => SoundPage(rows, c, filed', sends')
      BY <1>g, <1>t, AnswersStay
    <3> QED BY <3>1 DEF Known, PipesKnown
  <2>m. ASSUME NEW f, frames' = Append(frames, f) \/ UNCHANGED frames,
               SoundFrame(f, filed', sends', heard')
        PROVE  FramesKnown'
    <3>1. f \in Frames
      BY <2>m DEF SoundFrame
    <3> QED BY <2>t, <2>m, <3>1 DEF FramesKnown
  <2>1. CASE UNCHANGED frames
    BY <2>t, <2>1 DEF FramesKnown
  <2>3. ASSUME NEW kind, Arrived(kind) PROVE FramesKnown'
    <3>1. frames # <<>> /\ frames' = Tail(frames)
      BY <2>3 DEF Arrived
    <3> QED BY <2>t, <3>1 DEF FramesKnown
  <2>4. CASE HandleMessage
    <3> DEFINE e == Head(wire)
               c == filed[e.guid].chat
               row == Row(e.guid, e.temp)
               f == Frame("message", c, <<row>>)
    <3>1. c \in Chats /\ ShownRow(row, c, filed, sends) /\ wire # <<>> /\ row.guid = e.guid
      BY <2>4, PushedRow DEF HandleMessage, Row
    <3>2. UNCHANGED frames \/ (e.guid \in heard' /\ (frames' = Append(frames, f) \/ UNCHANGED frames))
      BY <2>4 DEF HandleMessage, Broadcast
    <3>c. filed'[row.guid].chat = c
      <4>1. e.guid \in DOMAIN filed
        BY <3>1, PushedRow
      <4> QED BY <1>g, <3>1, <4>1 DEF Extends
    <3> HIDE DEF row, c, e
    <3>3. SoundPage(<<row>>, c, filed', sends')
      <4>1. ShownRow(row, c, filed', sends')
        BY <1>g, <3>1, RowsStay
      <4>2. row \in Rows
        BY <4>1 DEF ShownRow
      <4> QED BY <4>1, <4>2 DEF SoundPage
    <3>4. e.guid \in heard' => SoundFrame(f, filed', sends', heard')
      BY <3>1, <3>3, <3>c DEF SoundFrame, Frame, Frames, SoundPage
    <3> QED BY <2>1, <2>m, <3>2, <3>4
  <2>5. ASSUME NEW j \in Jobs, Dispatch(j) PROVE FramesKnown'
    <3> DEFINE q == Head(requests)
               f == Frame("messages", q.chat, pages[q.chat])
    <3>1. q.chat \in Chats
      BY <2>5, FirstRequest DEF Dispatch, Requests
    <3>2. frames' = Append(frames, f) \/ UNCHANGED frames
      BY <2>5 DEF Dispatch
    <3> HIDE DEF q
    <3>3. SoundPage(pages[q.chat], q.chat, filed', sends')
      BY <2>t, <3>1 DEF Known, WarmKnown
    <3>4. SoundFrame(f, filed', sends', heard')
      BY <3>1, <3>3, PlainFrame
    <3> QED BY <2>m, <3>2, <3>4
  <2>6. ASSUME NEW j \in Jobs, jobs[j].phase # "free"
        PROVE  /\ SoundJob(jobs[j], filed', sends') /\ jobs[j].request.chat \in Chats
               /\ SoundPage(jobs[j].rows, jobs[j].request.chat, filed', sends')
               /\ jobs[j] \in BusyJobs
    <3>1. SoundJob(jobs[j], filed, sends)
      BY <2>6, BusyIsJob DEF Known
    <3>2. SoundJob(jobs[j], filed', sends')
      BY <1>g, <1>t, <3>1, AnswersStay
    <3> QED BY <3>2 DEF SoundJob, BusyJobs, Requests
  <2>7. ASSUME NEW j \in Jobs, LandPage(j) PROVE FramesKnown'
    <3> DEFINE f == Frame("messages", jobs[j].request.chat, jobs[j].rows)
    <3>1. frames' = Append(frames, f) \/ UNCHANGED frames
      BY <2>7 DEF LandPage, Reply
    <3>2. SoundFrame(f, filed', sends', heard')
      BY <2>6, <2>7, PlainFrame DEF LandPage
    <3> HIDE DEF f
    <3> QED BY <2>m, <3>1, <3>2
  <2>8. ASSUME NEW j \in Jobs, LandOlder(j) PROVE FramesKnown'
    <3> DEFINE q == jobs[j].request
               rows == jobs[j].rows
               none == \A i \in DOMAIN rows : filed[rows[i].guid].ts >= q.before
               f == [Frame("older", q.chat, rows) EXCEPT !.flag = none]
    <3>1. frames' = Append(frames, f) \/ UNCHANGED frames
      BY <2>8 DEF LandOlder, Reply
    <3>n. none \in BOOLEAN
      OBVIOUS
    <3> HIDE DEF none
    <3>2. SoundFrame(f, filed', sends', heard')
      BY <2>6, <2>8, <3>n, PlainFrame DEF LandOlder
    <3> HIDE DEF f
    <3> QED BY <2>m, <3>1, <3>2
  <2>9. ASSUME NEW j \in Jobs, NEW f \in Frames, Reply(j, f),
               jobs[j].phase # "free", jobs[j].request.kind = "send",
               f.kind = "ack", f.chat = jobs[j].request.chat, f.rows = NoRows,
               f.temp = jobs[j].request.temp,
               f.flag => f.guid = jobs[j].guid /\ jobs[j].phase = "answered"
        PROVE  FramesKnown'
    <3> DEFINE q == jobs[j].request
    <3>1. frames' = Append(frames, f) \/ UNCHANGED frames
      BY <2>9 DEF Reply
    <3>2. /\ SoundRequest(q, sends') /\ q.kind = "send"
          /\ f.flag => IsMessage(f.guid, q.chat, q.temp, filed', sends')
      BY <2>6, <2>9 DEF SoundJob
    <3>3. SentBy(f.temp, sends') /\ sends'[-f.temp].chat = f.chat
      BY <2>9, <3>2 DEF SoundRequest
    <3>4. SoundPage(f.rows, f.chat, filed', sends')
      BY <2>9 DEF SoundPage, NoRows
    <3> HIDE DEF q
    <3>5. SoundFrame(f, filed', sends', heard')
      BY <2>9, <3>2, <3>3, <3>4 DEF SoundFrame, q
    <3> QED BY <2>m, <3>1, <3>5
  <2>10. ASSUME NEW j \in Jobs, LandSend(j) PROVE FramesKnown'
    <3> DEFINE q == jobs[j].request
               f == DoneAck(q.chat, q.temp, jobs[j].guid)
    <3>1. jobs[j].guid \in Nat /\ jobs[j].phase = "answered" /\ q \in Requests /\ q.kind = "send"
          /\ Reply(j, f)
      BY <2>6, <2>10 DEF LandSend, BusyJobs, DoneAck, NoRows
    <3>2. q.chat \in Chats /\ q.temp \in Int
      BY <3>1 DEF Requests
    <3>3. f \in Frames /\ f.kind = "ack" /\ f.chat = q.chat /\ f.rows = NoRows /\ f.temp = q.temp
          /\ f.guid = jobs[j].guid
      BY <3>1, <3>2, AckFrame
    <3> HIDE DEF f
    <3> QED BY <2>9, <3>1, <3>3
  <2>11. ASSUME NEW j \in Jobs, LandFailure(j) PROVE FramesKnown'
    <3> DEFINE q == jobs[j].request
    <3>0. jobs[j].phase = "refused" /\ q \in Requests
      BY <2>6, <2>11 DEF LandFailure, BusyJobs
    <3>1. CASE q.kind = "messages"
      BY <2>1, <2>11, <3>1 DEF LandFailure
    <3>2. CASE q.kind = "older"
      <4> DEFINE f == Frame("error", q.chat, <<>>)
      <4>1. frames' = Append(frames, f) \/ UNCHANGED frames
        BY <2>11, <3>2 DEF LandFailure, Reply
      <4>2. SoundPage(<<>>, q.chat, filed', sends')
        BY DEF SoundPage
      <4>3. SoundFrame(f, filed', sends', heard')
        BY <3>0, <4>2, PlainFrame DEF Requests
      <4> HIDE DEF f
      <4> QED BY <2>m, <4>1, <4>3
    <3>3. CASE q.kind = "send"
      <4> DEFINE f == FailedAck(q.chat, q.temp)
      <4>1. Reply(j, f)
        BY <2>11, <3>3 DEF LandFailure, FailedAck, NoRows
      <4>2. q.chat \in Chats /\ q.temp \in Int /\ 0 \in Nat
        BY <3>0 DEF Requests
      <4>3. f \in Frames /\ f.kind = "ack" /\ f.chat = q.chat /\ f.rows = NoRows /\ f.temp = q.temp
            /\ ~f.flag
        BY <4>2, AckFrame
      <4> HIDE DEF f
      <4> QED BY <2>9, <3>0, <3>3, <4>1, <4>3
    <3> QED BY <3>0, <3>1, <3>2, <3>3 DEF Requests
  <2>12. \/ UNCHANGED frames \/ frames' = <<>> \/ \E kind : Arrived(kind)
         \/ HandleMessage
         \/ \E j \in Jobs : Dispatch(j) \/ LandPage(j) \/ LandOlder(j) \/ LandSend(j) \/ LandFailure(j)
    BY DEF Next, vars, MacFilesLate, Flush, MacServesHandle, RequestLost, pipeVars,
         MacMessage, PushesLost, MacServesPage, MacSends, MacRefuses, OpenChat, CloseChat,
         ReloadActiveMessages, LoadOlderMessages, SendMessage, OnMessages, OnOlderMessages,
         OnOlderError, OnMessage, OnAck, AfterFrame, DropLink, RestartDaemon, Reconnect
  <2> QED BY <1>2, <2>1, <2>3, <2>4, <2>5, <2>7, <2>8, <2>10, <2>11, <2>12
<1> QED BY <1>g, <1>2, <1>t

(* What the threads may become. *)
ThreadsKnown ==
  threads \in [Chats -> Seq(Rows)] /\ \A c \in Chats : SoundThread(threads[c], c, filed, sends)

LEMMA ThreadSteps ==
  ASSUME [Next]_vars
  PROVE  \/ UNCHANGED threads
         \/ OnMessages \/ OnOlderMessages \/ OnMessage \/ OnAck
         \/ \E text \in Texts : SendMessage(text)
BY DEF Next, vars, MacFilesLate, Flush, MacServesHandle, RequestLost, clientVars,
     MacMessage, PushesLost, MacServesPage, MacSends, MacRefuses, HandleMessage, Dispatch,
     LandPage, LandOlder, LandSend, LandFailure, OpenChat, CloseChat, ReloadActiveMessages,
     LoadOlderMessages, OnOlderError, DropLink, RestartDaemon, Reconnect

LEMMA FrameRows ==
  ASSUME Known, NEW kind, Arrived(kind)
  PROVE  /\ frames # <<>> /\ Head(frames).kind = kind /\ frames' = Tail(frames)
         /\ Head(frames) \in Frames /\ Head(frames).chat \in Chats /\ Head(frames).flag \in BOOLEAN
         /\ SoundFrame(Head(frames), filed, sends, heard)
         /\ SoundPage(Head(frames).rows, Head(frames).chat, filed, sends)
         /\ SoundThread(threads[Head(frames).chat], Head(frames).chat, filed, sends)
         /\ threads[Head(frames).chat] \in Seq(Rows)
<1>1. /\ frames # <<>> /\ Head(frames).kind = kind /\ frames' = Tail(frames)
      /\ Head(frames) \in Frames /\ SoundFrame(Head(frames), filed, sends, heard)
  BY FirstFrame DEF Arrived
<1>2. Head(frames).chat \in Chats /\ Head(frames).flag \in BOOLEAN
  BY <1>1 DEF Frames
<1> QED BY <1>1, <1>2 DEF Known, ReaderKnown, SoundFrame

LEMMA ThreadsKnownStay ==
  ASSUME Known, [Next]_vars
  PROVE  ThreadsKnown'
<1>g. /\ filed \in Seq(Messages) /\ sends \in Seq(Sent) /\ sends' \in Seq(Sent)
      /\ Extends(filed, filed') /\ Extends(sends, sends')
  BY Grown DEF Known, MacKnown, ReaderKnown, Sent
<1>t. /\ threads \in [Chats -> Seq(Rows)]
      /\ \A c \in Chats : SoundThread(threads[c], c, filed', sends')
      /\ activeChat \in Chats \cup {None}
  <2>1. \A rows, c : SoundThread(rows, c, filed, sends) => SoundThread(rows, c, filed', sends')
    BY <1>g, AnswersStay
  <2> QED BY <2>1 DEF Known, ReaderKnown
<1>m. ASSUME NEW c \in Chats, NEW rows, threads' = [threads EXCEPT ![c] = rows],
             SoundThread(rows, c, filed', sends')
      PROVE  ThreadsKnown'
  <2>1. rows \in Seq(Rows)
    BY <1>m DEF SoundThread
  <2>2. threads' \in [Chats -> Seq(Rows)]
        /\ \A d \in Chats : threads'[d] = IF d = c THEN rows ELSE threads[d]
    BY <1>m, <1>t, <2>1
  <2> QED BY <1>m, <1>t, <2>2 DEF ThreadsKnown
<1>1. CASE UNCHANGED threads
  BY <1>t, <1>1 DEF ThreadsKnown
<1>2. CASE OnMessages
  <2> DEFINE f == Head(frames)
             old == threads[f.chat]
             page == WithKnownTempIds(f.rows, old)
  <2>0. UNCHANGED <<filed, sends>>
    BY <1>2 DEF OnMessages, AfterFrame, macVars
  <2>1. /\ f.chat \in Chats /\ SoundPage(f.rows, f.chat, filed, sends)
        /\ SoundThread(old, f.chat, filed, sends)
    BY <1>2, FrameRows DEF OnMessages
  <2>2. threads' = threads \/ threads' = [threads EXCEPT ![f.chat] = Replaced(page, old)]
    BY <1>2 DEF OnMessages
  <2> HIDE DEF f, old
  <2>3. SoundPage(page, f.chat, filed, sends)
    BY <1>g, <2>1, KnownTempIdsAreSound
  <2> HIDE DEF page
  <2>4. SoundThread(Replaced(page, old), f.chat, filed', sends')
    BY <2>0, <2>1, <2>3, ReplacedIsSound
  <2> QED BY <1>1, <1>m, <2>1, <2>2, <2>4
<1>3. CASE OnOlderMessages
  <2> DEFINE f == Head(frames)
             old == threads[f.chat]
  <2>0. UNCHANGED <<filed, sends>>
    BY <1>3 DEF OnOlderMessages, AfterFrame, macVars
  <2>1. /\ f.chat \in Chats /\ SoundPage(f.rows, f.chat, filed, sends)
        /\ SoundThread(old, f.chat, filed, sends)
    BY <1>3, FrameRows DEF OnOlderMessages
  <2>2. threads' = threads \/ threads' = [threads EXCEPT ![f.chat] = NotShown(f.rows, old) \o old]
    BY <1>3 DEF OnOlderMessages, WithOlder
  <2> HIDE DEF f, old
  <2>3. SoundThread(NotShown(f.rows, old), f.chat, filed, sends)
    BY <2>1, NotShownIsSound
  <2>4. SoundThread(NotShown(f.rows, old) \o old, f.chat, filed', sends')
    BY <2>0, <2>1, <2>3, ConcatIsSound
  <2> QED BY <1>1, <1>m, <2>1, <2>2, <2>4
<1>4. CASE OnMessage
  <2> DEFINE f == Head(frames)
             old == threads[f.chat]
             m == Head(f.rows)
  <2>0. UNCHANGED <<filed, sends>>
    BY <1>4 DEF OnMessage, AfterFrame, macVars
  <2>1. /\ f.chat \in Chats /\ SoundPage(f.rows, f.chat, filed, sends)
        /\ SoundThread(old, f.chat, filed, sends) /\ Len(f.rows) = 1
    BY <1>4, FrameRows DEF OnMessage, SoundFrame
  <2>2. ShownRow(m, f.chat, filed, sends)
    BY <2>1 DEF SoundPage
  <2>3. threads' = threads \/ threads' = [threads EXCEPT ![f.chat] = WithMessage(old, m)]
    BY <1>4 DEF OnMessage
  <2> HIDE DEF f, old, m
  <2>4. SoundThread(WithMessage(old, m), f.chat, filed', sends')
    BY <2>0, <2>1, <2>2, WithMessageIsSound
  <2> QED BY <1>1, <1>m, <2>1, <2>3, <2>4
<1>5. CASE OnAck
  <2> DEFINE f == Head(frames)
             old == threads[f.chat]
  <2>0. UNCHANGED <<filed, sends>>
    BY <1>5 DEF OnAck, AfterFrame, macVars
  <2>1. /\ f.chat \in Chats /\ SoundThread(old, f.chat, filed, sends)
        /\ SoundFrame(f, filed, sends, heard) /\ f.kind = "ack"
    BY <1>5, FrameRows DEF OnAck
  <2>2. threads' = [threads EXCEPT ![f.chat] = Patched(old, f)]
    BY <1>5 DEF OnAck
  <2> HIDE DEF f, old
  <2>3. SoundThread(Patched(old, f), f.chat, filed, sends)
    BY <1>g, <2>1, PatchedIsSound DEF Sent
  <2>4. SoundThread(Patched(old, f), f.chat, filed', sends')
    BY <2>0, <2>3
  <2> QED BY <1>m, <2>1, <2>2, <2>4
<1>6. ASSUME NEW text \in Texts, SendMessage(text) PROVE ThreadsKnown'
  <2> DEFINE n == Len(sends) + 1
             row == Optimistic(-n)
             old == threads[activeChat]
  <2>1. /\ activeChat \in Chats
        /\ sends' = Append(sends, [chat |-> activeChat, text |-> text, ts |-> LastTs])
        /\ threads' = [threads EXCEPT ![activeChat] = Append(old, row)]
    BY <1>6, <1>t DEF SendMessage
  <2>2. n \in DOMAIN sends' /\ sends'[n].chat = activeChat /\ n \in Nat
    BY <1>g, <2>1
  <2> HIDE DEF n
  <2>3. OwnRow(row, activeChat, sends')
    BY <2>2 DEF OwnRow, Optimistic, Rows, SentBy
  <2>4. SoundThread(old, activeChat, filed', sends')
    BY <1>t, <2>1
  <2> HIDE DEF row, old
  <2>5. row \in Rows /\ ThreadRow(row, activeChat, filed', sends')
    BY <2>3 DEF OwnRow, ThreadRow
  <2>6. SoundThread(Append(old, row), activeChat, filed', sends')
    BY <2>4, <2>5 DEF SoundThread
  <2> QED BY <1>m, <2>1, <2>6
<1> QED BY <1>1, <1>2, <1>3, <1>4, <1>5, <1>6, ThreadSteps

LEMMA ReaderKnownStays ==
  ASSUME Known, [Next]_vars
  PROVE  ReaderKnown'
<1>1. ThreadsKnown' /\ sends' \in Seq(Sent)
  BY ThreadsKnownStay, Grown
<1>t. /\ activeChat \in Chats \cup {None} /\ olderPending \in Chats \cup {None}
      /\ exhausted \in [Chats -> BOOLEAN]
  BY DEF Known, ReaderKnown
<1>2. activeChat' \in Chats \cup {None}
  BY <1>t DEF Next, vars, MacFilesLate, Flush, MacServesHandle, RequestLost, clientVars,
       MacMessage, PushesLost, MacServesPage, MacSends, MacRefuses, HandleMessage, Dispatch,
       LandPage, LandOlder, LandSend, LandFailure, OpenChat, CloseChat,
       ReloadActiveMessages, LoadOlderMessages, SendMessage, OnMessages, OnOlderMessages,
       OnOlderError, OnMessage, OnAck, AfterFrame, DropLink, RestartDaemon, Reconnect
<1>3. olderPending' \in Chats \cup {None}
  BY <1>t DEF Next, vars, MacFilesLate, Flush, MacServesHandle, RequestLost, clientVars,
       MacMessage, PushesLost, MacServesPage, MacSends, MacRefuses, HandleMessage, Dispatch,
       LandPage, LandOlder, LandSend, LandFailure, OpenChat, CloseChat,
       ReloadActiveMessages, LoadOlderMessages, SendMessage, OnMessages, OnOlderMessages,
       OnOlderError, OpensGate, OnMessage, OnAck, DropLink, RestartDaemon, Reconnect
<1>4. exhausted' \in [Chats -> BOOLEAN]
  <2>1. CASE OnMessages
    BY <1>t, <2>1 DEF OnMessages
  <2>2. CASE OnOlderMessages
    <3> DEFINE f == Head(frames)
               end == exhausted[f.chat] \/ f.flag \/ NotShown(f.rows, threads[f.chat]) = <<>>
    <3>1. exhausted' = exhausted \/ exhausted' = [exhausted EXCEPT ![f.chat] = end]
      BY <2>2 DEF OnOlderMessages
    <3>2. end \in BOOLEAN
      OBVIOUS
    <3> HIDE DEF end, f
    <3> QED BY <1>t, <3>1, <3>2
  <2>3. UNCHANGED exhausted \/ OnMessages \/ OnOlderMessages
    BY DEF Next, vars, MacFilesLate, Flush, MacServesHandle, RequestLost, clientVars,
         MacMessage, PushesLost, MacServesPage, MacSends, MacRefuses, HandleMessage,
         Dispatch, LandPage, LandOlder, LandSend, LandFailure, OpenChat, CloseChat,
         ReloadActiveMessages, LoadOlderMessages, SendMessage, OnOlderError, OnMessage,
         OnAck, DropLink, RestartDaemon, Reconnect
  <2> QED BY <1>t, <2>1, <2>2, <2>3
<1> QED BY <1>1, <1>2, <1>3, <1>4 DEF ReaderKnown, ThreadsKnown, Sent

(* The Mac's answer changes neither whose job it is nor who waits for it.  *)
LEMMA MacKeepsJobs ==
  ASSUME Known, NEW j \in Jobs, NEW k \in Jobs,
         MacServesPage(k) \/ MacServesHandle(k) \/ MacRefuses(k) \/ RequestLost(k)
         \/ \E phase \in {"answered", "refused"} : MacSends(k, phase)
  PROVE  /\ UNCHANGED <<requests, frames, linkUp, drops>> /\ ~DropLink
         /\ \/ jobs'[j] = jobs[j]
            \/ /\ j \in Busy /\ jobs'[j] # Idle /\ jobs'[j].request = jobs[j].request
               /\ jobs'[j].live = jobs[j].live
<1>t. jobs \in [Jobs -> {Idle} \cup BusyJobs] /\ \A i \in Jobs : i \in Busy => jobs[i] \in BusyJobs
  BY BusyIsJob DEF Known, JobsKnown, Busy
<1>1. k \in Busy /\ jobs[k] \in BusyJobs
  BY <1>t DEF MacServesPage, MacServesHandle, AsksForPage, MacRefuses, RequestLost,
       AsksToSend, MacSends, Busy
<1>2. UNCHANGED <<requests, frames, linkUp, drops>>
  BY DEF MacServesPage, MacServesHandle, AsksForPage, MacRefuses, RequestLost, AsksToSend,
       MacSends, pipeVars
<1>3. ~DropLink
  BY <1>2 DEF DropLink
<1>4. CASE j # k
  BY <1>t, <1>2, <1>3, <1>4 DEF MacServesPage, MacServesHandle, AsksForPage, MacRefuses,
       RequestLost, AsksToSend, MacSends
<1>5. CASE j = k
  BY <1>t, <1>1, <1>2, <1>3, <1>5 DEF MacServesPage, MacServesHandle, AsksForPage,
       MacRefuses, RequestLost, AsksToSend, MacSends, BusyJobs, Idle
<1> QED BY <1>4, <1>5

(* What a job may become: the same, done, further on or cut off, or new. *)
LEMMA JobSteps ==
  ASSUME Known, [Next]_vars, NEW j \in Jobs
  PROVE  \/ jobs'[j] = jobs[j]
         \/ jobs'[j] = Idle
         \/ /\ j \in Busy /\ jobs'[j] # Idle /\ jobs'[j].request = jobs[j].request
            /\ jobs'[j].live = jobs[j].live \/ DropLink
            /\ DropLink => ~jobs'[j].live
         \/ Dispatch(j) /\ \E hit : jobs'[j] = Job(Head(requests), hit)
<1>t. jobs \in [Jobs -> {Idle} \cup BusyJobs] /\ \A k \in Jobs : k \in Busy => jobs[k] \in BusyJobs
  BY BusyIsJob DEF Known, JobsKnown, Busy
<1>1. ASSUME NEW k \in Jobs, MacServesPage(k) \/ MacServesHandle(k) \/ MacRefuses(k) \/ RequestLost(k)
                             \/ \E phase \in {"answered", "refused"} : MacSends(k, phase)
      PROVE  \/ jobs'[j] = jobs[j]
             \/ /\ j \in Busy /\ jobs'[j] # Idle /\ jobs'[j].request = jobs[j].request
                /\ jobs'[j].live = jobs[j].live /\ ~DropLink
  BY <1>1, MacKeepsJobs
<1>2. ASSUME NEW k \in Jobs, Dispatch(k)
      PROVE  jobs'[j] = jobs[j] \/ (Dispatch(j) /\ \E hit : jobs'[j] = Job(Head(requests), hit))
  BY <1>2, <1>t DEF Dispatch
<1>3. ASSUME NEW k \in Jobs, Done(k) PROVE jobs'[j] = jobs[j] \/ jobs'[j] = Idle
  BY <1>3, <1>t DEF Done
<1>4. CASE DropLink
  BY <1>4, <1>t DEF DropLink, Idle, BusyJobs
<1>5. CASE RestartDaemon
  BY <1>5 DEF RestartDaemon
<1>6. \/ UNCHANGED jobs \/ DropLink \/ RestartDaemon
      \/ \E k \in Jobs : Dispatch(k) \/ Done(k)
      \/ \E k \in Jobs : MacServesPage(k) \/ MacServesHandle(k) \/ MacRefuses(k) \/ RequestLost(k)
                         \/ \E phase \in {"answered", "refused"} : MacSends(k, phase)
  BY DEF Next, vars, MacFilesLate, Flush, MacMessage, PushesLost, HandleMessage,
         LandPage, LandOlder, LandSend, LandFailure, OpenChat, CloseChat,
         ReloadActiveMessages, LoadOlderMessages, SendMessage, OnMessages, OnOlderMessages,
         OnOlderError, OnMessage, OnAck, AfterFrame, Reconnect
<1> QED BY <1>1, <1>2, <1>3, <1>4, <1>5, <1>6

LEMMA LinkKnownStays ==
  ASSUME Known, [Next]_vars
  PROVE  LinkKnown'
<1>t. /\ linkUp \in BOOLEAN /\ drops \in Nat
      /\ ~linkUp => requests = <<>> /\ frames = <<>> /\ \A j \in Busy : ~jobs[j].live
      /\ drops = 0 => linkUp /\ \A j \in Busy : jobs[j].live
  BY DEF Known, LinkKnown
<1>j. JobsKnown' /\ \A j \in Jobs : j \in Busy' <=> jobs'[j] # Idle
  <2>1. JobsKnown'
    BY JobsKnownStays
  <2> QED BY <2>1 DEF JobsKnown, Busy, Idle, BusyJobs
<1>b. \A j \in Jobs : j \in Busy <=> jobs[j] # Idle
  BY BusyIsJob DEF Known
<1>s. \A j \in Jobs : \/ jobs'[j] = jobs[j] \/ jobs'[j] = Idle
                      \/ j \in Busy /\ (jobs'[j].live = jobs[j].live \/ DropLink)
                         /\ (DropLink => ~jobs'[j].live)
                      \/ Dispatch(j) /\ \E hit : jobs'[j] = Job(Head(requests), hit)
  BY JobSteps
<1>1. CASE DropLink
  <2>1. drops' = drops + 1 /\ linkUp' = FALSE /\ requests' = <<>> /\ frames' = <<>>
    BY <1>1 DEF DropLink
  <2>2. \A j \in Busy' : ~jobs'[j].live
    <3>1. \A j \in Jobs : jobs'[j] = IF j \in Busy THEN [jobs[j] EXCEPT !.live = FALSE] ELSE jobs[j]
      BY <1>1 DEF DropLink
    <3>2. \A j \in Busy : jobs[j] \in BusyJobs
      BY BusyIsJob DEF Known, Busy
    <3>3. \A j \in Jobs : j \in Busy => ~jobs'[j].live
      BY <3>1, <3>2 DEF BusyJobs
    <3>4. \A j \in Busy' : j \in Jobs /\ j \in Busy
      BY <1>j, <1>b, <3>1 DEF Busy
    <3> QED BY <3>3, <3>4
  <2>3. drops' \in Nat /\ drops' # 0
    BY <1>t, <2>1
  <2>4. linkUp' \in BOOLEAN /\ ~linkUp'
    BY <2>1
  <2> QED BY <2>1, <2>2, <2>3, <2>4 DEF LinkKnown
<1>2. CASE RestartDaemon
  <2>1. drops' = drops + 1 /\ linkUp' = FALSE /\ requests' = <<>> /\ frames' = <<>>
        /\ \A j \in Jobs : jobs'[j] = Idle
    BY <1>2 DEF RestartDaemon
  <2>2. Busy' = {}
    BY <1>j, <2>1 DEF Busy
  <2>3. drops' \in Nat /\ drops' # 0
    BY <1>t, <2>1
  <2>4. linkUp' \in BOOLEAN /\ ~linkUp'
    BY <2>1
  <2> QED BY <2>1, <2>2, <2>3, <2>4 DEF LinkKnown
<1>3. CASE Reconnect
  <2>1. linkUp' = TRUE /\ drops' = drops /\ jobs' = jobs /\ ~linkUp
    BY <1>3 DEF Reconnect
  <2> QED BY <1>t, <2>1 DEF LinkKnown
<1>4. CASE linkUp' = linkUp /\ drops' = drops
  <2>n. ~DropLink
    BY <1>4, <1>t DEF DropLink
  <2>1. CASE ~linkUp
    <3>1. requests = <<>> /\ frames = <<>> /\ drops # 0
      BY <1>t, <2>1
    <3>2. \A j \in Jobs : ~Dispatch(j)
      BY <3>1 DEF Dispatch
    <3>3. \A j \in Busy' : j \in Jobs /\ j \in Busy /\ ~jobs'[j].live
      BY <1>t, <1>j, <1>b, <1>s, <2>n, <2>1, <3>2 DEF Busy
    <3>4. requests' = <<>>
      BY <1>4, <1>t, <2>1, <3>1, <3>2 DEF Next, vars, MacFilesLate, Flush, MacServesHandle,
           RequestLost, pipeVars, MacMessage, PushesLost, MacServesPage, MacSends,
           MacRefuses, HandleMessage, LandPage, LandOlder, LandSend, LandFailure, OpenChat,
           CloseChat, ReloadActiveMessages, LoadOlderMessages, SendMessage, Request,
           AskMessages, OnMessages, OnOlderMessages, OnOlderError, OnMessage, OnAck,
           AfterFrame, DropLink, RestartDaemon, Reconnect
    <3>5. \A j \in Jobs : jobs[j].phase # "free" => ~jobs[j].live
      BY <1>t, <2>1 DEF Busy
    <3>a. \A kind : ~Arrived(kind)
      BY <3>1 DEF Arrived
    <3>6. frames' = <<>>
      <4>1. ASSUME NEW j \in Jobs, LandPage(j) \/ LandOlder(j) \/ LandSend(j) \/ LandFailure(j)
            PROVE  frames' = frames
        <5>1. jobs[j].phase # "free" /\ ~jobs[j].live
          BY <3>5, <4>1 DEF LandPage, LandOlder, LandSend, LandFailure
        <5>2. jobs[j].request.kind \in {"messages", "older", "send"}
          BY <5>1, BusyIsJob DEF Known, BusyJobs, Requests
        <5>3. \A f : Reply(j, f) => frames' = frames
          BY <5>1 DEF Reply
        <5> QED BY <4>1, <5>2, <5>3 DEF LandPage, LandOlder, LandSend, LandFailure
      <4>2. CASE HandleMessage
        <5> DEFINE e == Head(wire)
                   c == filed[e.guid].chat
                   f == Frame("message", c, <<Row(e.guid, e.temp)>>)
        <5>1. UNCHANGED frames \/ Broadcast(f)
          BY <4>2 DEF HandleMessage
        <5> HIDE DEF f
        <5> QED BY <2>1, <3>1, <5>1 DEF Broadcast
      <4>3. \/ UNCHANGED frames \/ HandleMessage
            \/ \E j \in Jobs : LandPage(j) \/ LandOlder(j) \/ LandSend(j) \/ LandFailure(j)
        BY <1>4, <2>1, <3>2, <3>a DEF Next, vars, MacFilesLate, Flush, MacServesHandle,
             RequestLost, pipeVars, MacMessage, PushesLost, MacServesPage, MacSends,
             MacRefuses, OpenChat, CloseChat, ReloadActiveMessages, LoadOlderMessages,
             SendMessage, OnMessages, OnOlderMessages, OnOlderError, OnMessage, OnAck,
             DropLink, RestartDaemon, Reconnect
      <4> QED BY <3>1, <4>1, <4>2, <4>3
    <3> QED BY <1>4, <1>t, <2>1, <3>1, <3>3, <3>4, <3>6 DEF LinkKnown
  <2>2. CASE linkUp
    <3>1. \A j \in Busy' : j \in Jobs /\ (jobs'[j].live \/ drops # 0)
      <4>1. \A hit : Job(Head(requests), hit).live
        BY DEF Job
      <4>2. \A j \in Busy' : j \in Jobs
        BY DEF Busy
      <4>3. \A j \in Jobs : jobs'[j] # Idle => jobs'[j].live \/ drops # 0
        BY <1>t, <1>b, <1>s, <2>n, <2>2, <4>1
      <4> QED BY <1>j, <4>2, <4>3
    <3> QED BY <1>4, <1>t, <2>2, <3>1 DEF LinkKnown
  <2> QED BY <1>t, <2>1, <2>2
<1>5. DropLink \/ RestartDaemon \/ Reconnect \/ (linkUp' = linkUp /\ drops' = drops)
  BY DEF Next, vars, MacFilesLate, Flush, MacServesHandle, RequestLost, pipeVars,
       MacMessage, PushesLost, MacServesPage, MacSends, MacRefuses, HandleMessage, Dispatch,
       LandPage, LandOlder, LandSend, LandFailure, OpenChat, CloseChat,
       ReloadActiveMessages, LoadOlderMessages, SendMessage, OnMessages, OnOlderMessages,
       OnOlderError, OnMessage, OnAck, AfterFrame
<1> QED BY <1>1, <1>2, <1>3, <1>4, <1>5

LEMMA StepKnown == Known /\ [Next]_vars => Known'
<1> SUFFICES ASSUME Known, [Next]_vars PROVE Known'
  OBVIOUS
<1>1. PipesKnown'
  BY RequestsKnownStay, FramesKnownStay DEF PipesKnown, RequestsKnown, FramesKnown
<1> QED BY <1>1, MacKnownStays, WarmKnownStays, DiskKnownStays, JobsKnownStays,
           ReaderKnownStays, LinkKnownStays DEF Known

LEMMA AlwaysKnown == Spec => []Known
BY InitKnown, StepKnown, PTL DEF Spec

LEMMA KnownTypes == Known => TypeOK
<1> SUFFICES ASSUME Known PROVE TypeOK
  OBVIOUS
<1>1. \A j \in Busy : jobs[j] \in BusyJobs
  BY BusyIsJob DEF Known, Busy
<1>2. \A j \in Busy : jobs[j].phase \in {"asked", "byHandle", "answered", "refused"}
                      /\ jobs[j].request \in Requests /\ jobs[j].rows \in Seq(Rows)
  BY <1>1 DEF BusyJobs
<1> QED BY <1>2 DEF Known, TypeOK, MacKnown, WarmKnown, DiskKnown, SoundWarm, PipesKnown,
             ReaderKnown, LinkKnown

(* Frames, pages and rows keep their types, the warm keys stay distinct    *)
(* and within their limit, and a link that is down carries nothing         *)
(* (store.js cacheThread, bus.js).                                         *)
THEOREM TypeCorrect == Spec => []TypeOK
BY AlwaysKnown, KnownTypes, PTL

(* A warm page holds each message once, no more than a page, only while it *)
(* is warm, and nothing but messages of its chat or, in a 1:1 chat, on its *)
(* participant's handle: nothing the retry by handle brings gets into a    *)
(* group's page, whatever order pushes, pages, echoes and restarts come in *)
(* (store.js appendToThread, cacheThread; bluebubbles.js getMessages).     *)
THEOREM WarmPages == Spec => []WarmPageIsWellFormed
<1>1. Known => WarmPageIsWellFormed
  BY DEF Known, WarmKnown, WarmPageIsWellFormed, SoundPage, EachOnce, ShownRow, IsMessage
<1> QED BY <1>1, AlwaysKnown, PTL

-----------------------------------------------------------------------------
(* Acks: where a send is, step by step *)

LEMMA AtTail ==
  ASSUME NEW T, NEW s \in Seq(T), s # <<>>, NEW V
  PROVE  /\ Head(s) \in V => At(s, V) # {}
         /\ Single(At(s, V)) => Single(At(Tail(s), V))
         /\ Single(At(s, V)) /\ Head(s) \in V => At(Tail(s), V) = {}
         /\ At(Tail(s), V) # {} => At(s, V) # {}
         /\ Head(s) \notin V /\ At(s, V) # {} => At(Tail(s), V) # {}
<1> DEFINE r == Tail(s)
<1>1. /\ r \in Seq(T) /\ Len(r) = Len(s) - 1 /\ Len(s) \in Nat \ {0}
      /\ DOMAIN s = 1..Len(s) /\ DOMAIN r = 1..(Len(s) - 1)
      /\ Head(s) = s[1] /\ \A i \in DOMAIN r : r[i] = s[i + 1]
  OBVIOUS
<1> HIDE DEF r
<1>2. \A i \in DOMAIN r : i + 1 \in DOMAIN s /\ i + 1 # 1 /\ i \in Int /\ r[i] = s[i + 1]
  BY <1>1
<1>3. 1 \in DOMAIN s /\ \A i \in DOMAIN s : i = 1 \/ (i - 1 \in DOMAIN r /\ r[i - 1] = s[i])
  BY <1>1
<1>4. Head(s) \in V => At(s, V) # {}
  BY <1>1, <1>3 DEF At
<1>5. Single(At(s, V)) => Single(At(r, V))
  <2> SUFFICES ASSUME Single(At(s, V)), NEW i \in At(r, V), NEW k \in At(r, V) PROVE i = k
    BY DEF Single
  <2>1. i \in DOMAIN r /\ k \in DOMAIN r /\ i + 1 \in At(s, V) /\ k + 1 \in At(s, V)
    BY <1>2 DEF At
  <2>2. i + 1 = k + 1 /\ i \in Int /\ k \in Int
    BY <1>2, <2>1 DEF Single
  <2> QED BY <2>2
<1>6. Single(At(s, V)) /\ Head(s) \in V => At(r, V) = {}
  <2> SUFFICES ASSUME Single(At(s, V)), Head(s) \in V, NEW i \in At(r, V) PROVE FALSE
    OBVIOUS
  <2>1. i + 1 \in At(s, V) /\ i + 1 # 1 /\ 1 \in At(s, V)
    BY <1>1, <1>2, <1>3 DEF At
  <2> QED BY <2>1 DEF Single
<1>7. At(r, V) # {} => At(s, V) # {}
  BY <1>2 DEF At
<1>8. Head(s) \notin V /\ At(s, V) # {} => At(r, V) # {}
  BY <1>1, <1>3 DEF At
<1> QED BY <1>4, <1>5, <1>6, <1>7, <1>8 DEF r

LEMMA AtAppend ==
  ASSUME NEW T, NEW s \in Seq(T), NEW e, NEW V
  PROVE  /\ e \notin V => At(Append(s, e), V) = At(s, V)
         /\ e \in V => At(Append(s, e), V) # {}
         /\ e \in V /\ At(s, V) = {} => Single(At(Append(s, e), V))
<1> DEFINE r == Append(s, e)
<1>1. /\ DOMAIN r = 1..(Len(s) + 1) /\ DOMAIN s = 1..Len(s) /\ Len(s) \in Nat
      /\ r[Len(s) + 1] = e /\ \A i \in DOMAIN s : r[i] = s[i]
  OBVIOUS
<1> HIDE DEF r
<1>2. \A i : i \in DOMAIN r <=> i \in DOMAIN s \/ i = Len(s) + 1
  BY <1>1
<1>3. Len(s) + 1 \notin DOMAIN s
  BY <1>1
<1>4. e \notin V => At(r, V) = At(s, V)
  BY <1>1, <1>2, <1>3 DEF At
<1>5. e \in V => Len(s) + 1 \in At(r, V)
  BY <1>1, <1>2 DEF At
<1>6. e \in V /\ At(s, V) = {} => \A i \in At(r, V) : i = Len(s) + 1
  BY <1>1, <1>2 DEF At
<1> QED BY <1>4, <1>5, <1>6 DEF r, Single

LEMMA AtNothing == ASSUME NEW V PROVE At(<<>>, V) = {}
BY DEF At

(* A send is under way where it is asked for, worked on or acknowledged. *)
Places(t) == AskedAt(t) # {} \/ (\E j \in WorkedBy(t) : jobs[j].live) \/ AckedAt(t) # {}

LEMMA AwaitsAckWhere ==
  ASSUME requests \in Seq(Requests), frames \in Seq(Frames), NEW t
  PROVE  AwaitsAck(t) <=> Places(t)
<1>1. \A i \in DOMAIN requests : requests[i] \in Requests
  OBVIOUS
<1>2. \A i \in DOMAIN frames : frames[i] \in Frames
  OBVIOUS
<1>3. AskedAt(t) # {} <=> \E i \in DOMAIN requests : requests[i].temp = t
  BY <1>1 DEF AskedAt, At
<1>4. AckedAt(t) # {} <=> \E i \in DOMAIN frames : frames[i].kind = "ack" /\ frames[i].temp = t
  BY <1>2 DEF AckedAt, At
<1>5. (\E j \in WorkedBy(t) : jobs[j].live)
      <=> \E j \in Busy : jobs[j].request.temp = t /\ jobs[j].live
  BY DEF WorkedBy
<1> QED BY <1>3, <1>4, <1>5 DEF AwaitsAck, Places

(* A send in one place stays in one place, and leaves the last of them     *)
(* only by its ack, or with the link.                                      *)
LEMMA AckFlow ==
  ASSUME Known, [Next]_vars, NEW t \in Int, t # 0, OneAckOf(t),
         \A text \in Texts : SendMessage(text) => t # -(Len(sends) + 1)
  PROVE  /\ OneAckOf(t)'
         /\ Places(t)' => Places(t)
         /\ Places(t) => Places(t)' \/ drops' # 0 \/ (OnAck /\ Head(frames).temp = t)
         /\ OnAck /\ Head(frames).temp = t => ~Places(t)'
<1> DEFINE A == {q \in Requests : q.temp = t}
           K == {f \in Frames : f.kind = "ack" /\ f.temp = t}
<1>t. /\ requests \in Seq(Requests) /\ frames \in Seq(Frames)
      /\ requests' \in Seq(Requests) /\ frames' \in Seq(Frames)
      /\ drops \in Nat /\ drops' \in Nat
      /\ ~linkUp' => requests' = <<>> /\ frames' = <<>> /\ \A j \in Busy' : ~jobs'[j].live
  BY StepKnown DEF Known, PipesKnown, LinkKnown
<1>b. /\ \A j \in Jobs : j \in Busy <=> jobs[j] # Idle
      /\ \A j \in Jobs : j \in Busy' <=> jobs'[j] # Idle
      /\ \A j \in Busy : j \in Jobs /\ jobs[j] \in BusyJobs /\ SoundRequest(jobs[j].request, sends)
      /\ jobs \in [Jobs -> {Idle} \cup BusyJobs]
  <2>1. JobsKnown /\ JobsKnown'
    BY StepKnown DEF Known
  <2>2. \A j \in Jobs : j \in Busy' <=> jobs'[j] # Idle
    BY <2>1 DEF JobsKnown, Idle, BusyJobs, Busy
  <2> QED BY <2>1, <2>2, BusyIsJob DEF Busy, SoundJob, JobsKnown
<1>d. /\ AskedAt(t) = At(requests, A) /\ AskedAt(t)' = At(requests', A)
      /\ AckedAt(t) = At(frames, K) /\ AckedAt(t)' = At(frames', K)
  BY DEF AskedAt, AckedAt
<1>o. /\ Single(AskedAt(t)) /\ Single(WorkedBy(t)) /\ Single(AckedAt(t))
      /\ AskedAt(t) # {} => WorkedBy(t) = {} /\ AckedAt(t) = {}
      /\ WorkedBy(t) # {} => AckedAt(t) = {}
  BY DEF OneAckOf
<1>e. Head(frames) \in K <=> Head(frames).kind = "ack" /\ Head(frames).temp = t /\ Head(frames) \in Frames
  OBVIOUS
<1> HIDE DEF A, K

(* Nothing under way is touched. *)
<1> DEFINE SameAsked == AskedAt(t)' = AskedAt(t) \/ ((AskedAt(t)' # {} <=> AskedAt(t) # {}) /\ Single(AskedAt(t)'))
           SameWork == WorkedBy(t)' = WorkedBy(t) /\ \A j \in WorkedBy(t) : jobs'[j].live = jobs[j].live
           SameAcked == AckedAt(t)' = AckedAt(t) \/ ((AckedAt(t)' # {} <=> AckedAt(t) # {}) /\ Single(AckedAt(t)'))
<1>m. ASSUME SameAsked, SameWork, SameAcked
      PROVE  OneAckOf(t)' /\ (Places(t)' <=> Places(t))
  BY <1>o, <1>m DEF OneAckOf, Places
<1> HIDE DEF SameAsked, SameWork, SameAcked
<1>j. ASSUME UNCHANGED jobs PROVE SameWork
  BY <1>j DEF WorkedBy, Busy, SameWork
<1>f. ASSUME NEW kind, Arrived(kind)
      PROVE  /\ frames # <<>> /\ frames' = Tail(frames) /\ Head(frames).kind = kind
             /\ Head(frames) \in Frames
  BY <1>f, FirstFrame DEF Arrived
<1>h. ASSUME frames # <<>>, frames' = Tail(frames)
      PROVE  /\ Head(frames) \in K => AckedAt(t) # {} /\ AckedAt(t)' = {}
             /\ Head(frames) \notin K => AckedAt(t)' # {} <=> AckedAt(t) # {}
             /\ Single(AckedAt(t)')
  <2>1. /\ Head(frames) \in K => At(frames, K) # {}
        /\ Single(At(frames, K)) => Single(At(Tail(frames), K))
        /\ Single(At(frames, K)) /\ Head(frames) \in K => At(Tail(frames), K) = {}
        /\ At(Tail(frames), K) # {} => At(frames, K) # {}
        /\ Head(frames) \notin K /\ At(frames, K) # {} => At(Tail(frames), K) # {}
    BY <1>t, <1>h, AtTail
  <2>2. Single(At(frames, K)) /\ AckedAt(t) = At(frames, K) /\ AckedAt(t)' = At(Tail(frames), K)
    BY <1>d, <1>h, <1>o
  <2> QED BY <2>1, <2>2
<1>r. ASSUME requests # <<>>, requests' = Tail(requests)
      PROVE  /\ Head(requests) \in A => AskedAt(t) # {} /\ AskedAt(t)' = {}
             /\ Head(requests) \notin A => AskedAt(t)' # {} <=> AskedAt(t) # {}
             /\ Single(AskedAt(t)')
  <2>1. /\ Head(requests) \in A => At(requests, A) # {}
        /\ Single(At(requests, A)) => Single(At(Tail(requests), A))
        /\ Single(At(requests, A)) /\ Head(requests) \in A => At(Tail(requests), A) = {}
        /\ At(Tail(requests), A) # {} => At(requests, A) # {}
        /\ Head(requests) \notin A /\ At(requests, A) # {} => At(Tail(requests), A) # {}
    BY <1>t, <1>r, AtTail
  <2>2. Single(At(requests, A)) /\ AskedAt(t) = At(requests, A) /\ AskedAt(t)' = At(Tail(requests), A)
    BY <1>d, <1>o, <1>r
  <2> QED BY <2>1, <2>2
<1>p. ASSUME NEW f, frames' = frames \/ frames' = Append(frames, f), f \notin K
      PROVE  AckedAt(t)' = AckedAt(t)
  <2>1. At(Append(frames, f), K) = At(frames, K)
    BY <1>t, <1>p, AtAppend
  <2> QED BY <1>d, <1>p, <2>1
<1>1. CASE OnAck
  <2>1. UNCHANGED <<requests, jobs, drops>> /\ Arrived("ack")
    BY <1>1 DEF OnAck, AfterFrame
  <2>2. CASE Head(frames).temp = t
    <3>1. AckedAt(t) # {} /\ AckedAt(t)' = {}
      BY <1>e, <1>f, <1>h, <2>1, <2>2
    <3>2. AskedAt(t)' = {} /\ WorkedBy(t)' = {}
      BY <1>d, <1>j, <1>o, <2>1, <3>1 DEF SameWork
    <3> QED BY <1>1, <2>2, <3>1, <3>2 DEF OneAckOf, Places, Single
  <2>3. CASE Head(frames).temp # t
    <3>1. (AckedAt(t)' # {} <=> AckedAt(t) # {}) /\ Single(AckedAt(t)')
      BY <1>e, <1>f, <1>h, <2>1, <2>3
    <3>2. AskedAt(t)' = AskedAt(t)
      BY <1>d, <2>1
    <3>3. SameWork
      BY <1>j, <2>1
    <3>4. OneAckOf(t)' /\ (Places(t)' <=> Places(t))
      BY <1>m, <3>1, <3>2, <3>3 DEF SameAsked, SameAcked
    <3> QED BY <2>3, <3>4
  <2> QED BY <2>2, <2>3
<1>2. ASSUME NEW kind, kind # "ack", Arrived(kind), UNCHANGED <<requests, jobs>>
      PROVE  OneAckOf(t)' /\ (Places(t)' <=> Places(t))
  <2>1. (AckedAt(t)' # {} <=> AckedAt(t) # {}) /\ Single(AckedAt(t)')
    BY <1>e, <1>f, <1>h, <1>2
  <2>2. AskedAt(t)' = AskedAt(t)
    BY <1>d, <1>2
  <2>3. SameWork
    BY <1>j, <1>2
  <2> QED BY <1>m, <2>1, <2>2, <2>3 DEF SameAsked, SameAcked
<1>3. ASSUME UNCHANGED <<requests, frames, jobs>>
      PROVE  OneAckOf(t)' /\ (Places(t)' <=> Places(t))
  <2>1. AskedAt(t)' = AskedAt(t) /\ AckedAt(t)' = AckedAt(t)
    BY <1>d, <1>3
  <2>2. SameWork
    BY <1>j, <1>3
  <2> QED BY <1>m, <2>1, <2>2 DEF SameAsked, SameAcked
<1>4. ASSUME NEW k \in Jobs,
             MacServesPage(k) \/ MacServesHandle(k) \/ MacRefuses(k) \/ RequestLost(k)
             \/ \E phase \in {"answered", "refused"} : MacSends(k, phase)
      PROVE  OneAckOf(t)' /\ (Places(t)' <=> Places(t))
  <2>1. UNCHANGED <<requests, frames>>
    BY <1>4, MacKeepsJobs
  <2>2. \A j \in Jobs : \/ jobs'[j] = jobs[j]
                        \/ /\ j \in Busy /\ jobs'[j] # Idle /\ jobs'[j].request = jobs[j].request
                           /\ jobs'[j].live = jobs[j].live
    BY <1>4, MacKeepsJobs
  <2>3. \A j \in Jobs : j \in Busy' <=> j \in Busy
    BY <1>b, <2>2
  <2>4. \A j \in Busy : jobs'[j].request = jobs[j].request /\ jobs'[j].live = jobs[j].live
    BY <1>b, <2>2
  <2>5. Busy' = Busy
    BY <2>3 DEF Busy
  <2>6. SameWork
    BY <2>4, <2>5 DEF WorkedBy, SameWork
  <2>7. AskedAt(t)' = AskedAt(t) /\ AckedAt(t)' = AckedAt(t)
    BY <1>d, <2>1
  <2> QED BY <1>m, <2>6, <2>7 DEF SameAsked, SameAcked
<1>5. ASSUME NEW q, Request(q), q.temp # t, UNCHANGED <<jobs, frames>>
      PROVE  OneAckOf(t)' /\ (Places(t)' <=> Places(t))
  <2>1. requests' = Append(requests, q) /\ q \notin A
    BY <1>5 DEF Request, A
  <2>2. At(Append(requests, q), A) = At(requests, A)
    BY <1>t, <2>1, AtAppend
  <2>3. AskedAt(t)' = AskedAt(t) /\ AckedAt(t)' = AckedAt(t)
    BY <1>d, <1>5, <2>1, <2>2
  <2>4. SameWork
    BY <1>j, <1>5
  <2> QED BY <1>m, <2>3, <2>4 DEF SameAsked, SameAcked
<1>6. ASSUME HandleMessage PROVE OneAckOf(t)' /\ (Places(t)' <=> Places(t))
  <2> DEFINE e == Head(wire)
             f == Frame("message", filed[e.guid].chat, <<Row(e.guid, e.temp)>>)
  <2>1. UNCHANGED <<requests, jobs>> /\ (frames' = frames \/ frames' = Append(frames, f))
    BY <1>6 DEF HandleMessage, Broadcast
  <2>2. f \notin K
    BY DEF K, Frame
  <2> HIDE DEF f
  <2>3. AskedAt(t)' = AskedAt(t) /\ AckedAt(t)' = AckedAt(t)
    BY <1>d, <1>p, <2>1, <2>2
  <2>4. SameWork
    BY <1>j, <2>1
  <2> QED BY <1>m, <2>3, <2>4 DEF SameAsked, SameAcked
<1>7. ASSUME NEW j \in Jobs, Dispatch(j)
      PROVE  OneAckOf(t)' /\ (Places(t)' <=> Places(t))
  <2> DEFINE q == Head(requests)
             f == Frame("messages", q.chat, pages[q.chat])
  <2>1. /\ requests # <<>> /\ requests' = Tail(requests) /\ jobs[j].phase = "free"
        /\ frames' = frames \/ frames' = Append(frames, f)
        /\ \E hit : jobs' = [jobs EXCEPT ![j] = Job(q, hit)]
    BY <1>7 DEF Dispatch
  <2>2. f \notin K
    BY DEF K, Frame
  <2> HIDE DEF f
  <2>3. AckedAt(t)' = AckedAt(t)
    BY <1>p, <2>1, <2>2
  <2>4. q \in Requests
    BY <1>7, FirstRequest DEF Dispatch
  <2>5. q \in A <=> q.temp = t
    BY <2>4 DEF A
  <2> HIDE DEF q
  <2>6. /\ jobs'[j].request = q /\ jobs'[j].live /\ jobs'[j].phase # "free"
        /\ \A i \in Jobs : i # j => jobs'[i] = jobs[i]
    BY <1>b, <2>1 DEF Job
  <2>7. j \notin Busy /\ Busy' = Busy \cup {j}
    BY <2>1, <2>6 DEF Busy
  <2>8. CASE q.temp # t
    <3>1. SameWork
      BY <1>b, <2>6, <2>7, <2>8 DEF WorkedBy, SameWork
    <3>2. (AskedAt(t)' # {} <=> AskedAt(t) # {}) /\ Single(AskedAt(t)')
      BY <1>r, <2>1, <2>5, <2>8 DEF q
    <3> QED BY <1>m, <2>3, <3>1, <3>2 DEF SameAsked, SameAcked
  <2>9. CASE q.temp = t
    <3>1. AskedAt(t) # {} /\ AskedAt(t)' = {}
      BY <1>r, <2>1, <2>5, <2>9 DEF q
    <3>2. WorkedBy(t) = {} /\ AckedAt(t)' = {}
      BY <1>o, <2>3, <3>1
    <3>3. WorkedBy(t)' = {j}
      BY <1>b, <2>6, <2>7, <2>9, <3>2 DEF WorkedBy
    <3>4. Places(t) /\ Places(t)'
      BY <2>6, <3>1, <3>3 DEF Places
    <3> QED BY <3>1, <3>2, <3>3, <3>4 DEF OneAckOf, Single
  <2> QED BY <2>8, <2>9
<1>8. ASSUME NEW j \in Jobs, LandPage(j) \/ LandOlder(j) \/ LandSend(j) \/ LandFailure(j)
      PROVE  OneAckOf(t)' /\ (Places(t)' <=> Places(t))
  <2> DEFINE q == jobs[j].request
  <2>1. /\ j \in Busy /\ jobs' = [jobs EXCEPT ![j] = Idle] /\ UNCHANGED requests
        /\ jobs[j].phase \in {"answered", "refused"}
    BY <1>8 DEF LandPage, LandOlder, LandSend, LandFailure, Done, Busy
  <2>2. SoundRequest(q, sends) /\ q \in Requests /\ jobs[j].guid \in Nat
    BY <1>b, <2>1 DEF BusyJobs
  <2>3. Busy' = Busy \ {j} /\ \A i \in Busy' : jobs'[i] = jobs[i]
    <3>1. jobs'[j].phase = "free" /\ \A i \in Jobs : i # j => jobs'[i] = jobs[i]
      BY <1>b, <2>1 DEF Idle
    <3> QED BY <3>1 DEF Busy
  <2>4. AskedAt(t)' = AskedAt(t)
    BY <1>d, <2>1
  <2>5. CASE q.temp # t
    <3>1. SameWork
      BY <2>3, <2>5 DEF WorkedBy, SameWork
    <3>2. frames' = frames \/ \E f : frames' = Append(frames, f) /\ f \notin K
      <4> DEFINE c == q.chat
                 page == Frame("messages", c, jobs[j].rows)
                 none == \A i \in DOMAIN jobs[j].rows : filed[jobs[j].rows[i].guid].ts >= q.before
                 older == [Frame("older", c, jobs[j].rows) EXCEPT !.flag = none]
                 error == Frame("error", c, NoRows)
                 done == DoneAck(c, q.temp, jobs[j].guid)
                 failed == FailedAck(c, q.temp)
      <4>1. page \notin K /\ older \notin K /\ error \notin K
        BY DEF K, Frame
      <4>2. done.temp = q.temp /\ failed.temp = q.temp
        <5>1. c \in Chats /\ q.temp \in Int /\ jobs[j].guid \in Nat
          BY <2>2 DEF Requests
        <5> QED BY <5>1, AckFrame
      <4>3. done \notin K /\ failed \notin K
        BY <2>5, <4>2 DEF K
      <4>4. UNCHANGED frames \/ Reply(j, page) \/ Reply(j, older) \/ Reply(j, error)
            \/ Reply(j, done) \/ Reply(j, failed)
        <5>1. q.kind \in {"messages", "older", "send"}
          BY <2>2 DEF Requests
        <5> QED BY <1>8, <5>1 DEF LandPage, LandOlder, LandSend, LandFailure, DoneAck, FailedAck,
                                  NoRows
      <4> HIDE DEF page, older, error, done, failed
      <4> QED BY <4>1, <4>3, <4>4 DEF Reply
    <3>3. AckedAt(t)' = AckedAt(t)
      BY <1>d, <1>p, <3>2
    <3> QED BY <1>m, <2>4, <3>1, <3>3 DEF SameAsked, SameAcked
  <2>6. CASE q.temp = t
    <3>1. q.kind = "send"
      BY <2>2, <2>6 DEF SoundRequest
    <3>2. j \in WorkedBy(t) /\ WorkedBy(t) = {j} /\ AskedAt(t) = {} /\ AckedAt(t) = {}
      BY <1>o, <2>1, <2>6 DEF WorkedBy, Single
    <3>3. WorkedBy(t)' = {}
      BY <2>3, <3>2 DEF WorkedBy
    <3> DEFINE done == DoneAck(q.chat, q.temp, jobs[j].guid)
               failed == FailedAck(q.chat, q.temp)
    <3>4. Reply(j, done) \/ Reply(j, failed)
      BY <1>8, <3>1 DEF LandPage, LandOlder, LandSend, LandFailure, DoneAck, FailedAck, NoRows
    <3>5. done \in K /\ failed \in K
      <4>1. q.chat \in Chats /\ q.temp \in Int /\ jobs[j].guid \in Nat
        BY <2>2 DEF Requests
      <4>2. done \in Frames /\ done.kind = "ack" /\ done.temp = q.temp
            /\ failed \in Frames /\ failed.kind = "ack" /\ failed.temp = q.temp
        <5> HIDE DEF q
        <5> QED BY <4>1, AckFrame
      <4> HIDE DEF done, failed
      <4> QED BY <2>6, <4>2 DEF K
    <3> HIDE DEF done, failed
    <3>6. CASE jobs[j].live
      <4>1. \E f \in K : frames' = Append(frames, f)
        BY <3>4, <3>5, <3>6 DEF Reply
      <4>2. AckedAt(t)' # {} /\ Single(AckedAt(t)')
        <5>1. PICK f \in K : frames' = Append(frames, f)
          BY <4>1
        <5>2. At(frames, K) = {}
          BY <1>d, <3>2
        <5>3. At(Append(frames, f), K) # {} /\ Single(At(Append(frames, f), K))
          BY <1>t, <5>1, <5>2, AtAppend
        <5> QED BY <1>d, <5>1, <5>3
      <4>3. Places(t) /\ Places(t)'
        BY <3>2, <3>6, <4>2 DEF Places
      <4> QED BY <2>4, <3>2, <3>3, <4>2, <4>3 DEF OneAckOf, Single
    <3>7. CASE ~jobs[j].live
      <4>1. frames' = frames
        BY <3>4, <3>7 DEF Reply
      <4>2. AckedAt(t)' = {}
        BY <1>d, <3>2, <4>1
      <4>3. ~Places(t) /\ ~Places(t)'
        BY <2>4, <3>2, <3>3, <3>7, <4>2 DEF Places
      <4> QED BY <2>4, <3>2, <3>3, <4>2, <4>3 DEF OneAckOf, Single
    <3> QED BY <3>6, <3>7
  <2> QED BY <2>5, <2>6
<1>9. ASSUME DropLink \/ RestartDaemon
      PROVE  OneAckOf(t)' /\ ~Places(t)' /\ drops' # 0
  <2>1. ~linkUp' /\ drops' # 0 /\ requests' = <<>> /\ frames' = <<>>
    BY <1>9, <1>t DEF DropLink, RestartDaemon, Known, LinkKnown
  <2>2. AskedAt(t)' = {} /\ AckedAt(t)' = {}
    BY <1>d, <2>1, AtNothing
  <2>3. WorkedBy(t)' = WorkedBy(t) \/ WorkedBy(t)' = {}
    <3>1. CASE DropLink
      <4>1. \A j \in Jobs : jobs'[j] = IF j \in Busy THEN [jobs[j] EXCEPT !.live = FALSE] ELSE jobs[j]
        BY <3>1 DEF DropLink
      <4>2. \A j \in Jobs : j \in Busy => jobs'[j].phase = jobs[j].phase
                                         /\ jobs'[j].request = jobs[j].request
        BY <1>b, <4>1 DEF BusyJobs
      <4>3. Busy' = Busy
        BY <4>1, <4>2 DEF Busy
      <4> QED BY <1>b, <4>2, <4>3 DEF WorkedBy
    <3>2. CASE RestartDaemon
      <4>1. \A j \in Jobs : jobs'[j] = Idle
        BY <3>2 DEF RestartDaemon
      <4> QED BY <4>1 DEF WorkedBy, Busy, Idle
    <3> QED BY <1>9, <3>1, <3>2
  <2>4. ~Places(t)'
    BY <1>t, <2>1, <2>2 DEF Places, WorkedBy
  <2> QED BY <1>o, <2>1, <2>2, <2>3, <2>4 DEF OneAckOf, Single
<1>10. \/ UNCHANGED <<requests, frames, jobs>> \/ OnAck \/ HandleMessage
       \/ \E kind : kind # "ack" /\ Arrived(kind) /\ UNCHANGED <<requests, jobs>>
       \/ \E k \in Jobs : MacServesPage(k) \/ MacServesHandle(k) \/ MacRefuses(k) \/ RequestLost(k)
                          \/ \E phase \in {"answered", "refused"} : MacSends(k, phase)
       \/ \E q : Request(q) /\ q.temp # t /\ UNCHANGED <<jobs, frames>>
       \/ \E j \in Jobs : Dispatch(j) \/ LandPage(j) \/ LandOlder(j) \/ LandSend(j) \/ LandFailure(j)
       \/ DropLink \/ RestartDaemon
  <2>1. CASE OnMessages \/ OnOlderMessages \/ OnOlderError \/ OnMessage
    <3>1. "messages" # "ack" /\ "older" # "ack" /\ "error" # "ack" /\ "message" # "ack"
      OBVIOUS
    <3>2. \E kind : kind # "ack" /\ Arrived(kind) /\ UNCHANGED <<requests, jobs>>
      BY <2>1, <3>1 DEF OnMessages, OnOlderMessages, OnOlderError, OnMessage, AfterFrame
    <3> QED BY <3>2
  <2>2. ASSUME NEW c, AskMessages(c), UNCHANGED <<jobs, frames>>
        PROVE  \E q : Request(q) /\ q.temp # t /\ UNCHANGED <<jobs, frames>>
    BY <2>2 DEF AskMessages
  <2>3. CASE ReloadActiveMessages \/ LoadOlderMessages
    BY <2>2, <2>3 DEF ReloadActiveMessages, LoadOlderMessages
  <2>4. ASSUME NEW c \in Chats, OpenChat(c)
        PROVE  \/ UNCHANGED <<requests, frames, jobs>>
               \/ \E q : Request(q) /\ q.temp # t /\ UNCHANGED <<jobs, frames>>
    BY <2>2, <2>4 DEF OpenChat
  <2>5. ASSUME NEW text \in Texts, SendMessage(text)
        PROVE  \E q : Request(q) /\ q.temp # t /\ UNCHANGED <<jobs, frames>>
    BY <2>5 DEF SendMessage
  <2>6. \/ UNCHANGED <<requests, frames, jobs>> \/ OnAck \/ HandleMessage
        \/ OnMessages \/ OnOlderMessages \/ OnOlderError \/ OnMessage
        \/ \E k \in Jobs : MacServesPage(k) \/ MacServesHandle(k) \/ MacRefuses(k) \/ RequestLost(k)
                          \/ \E phase \in {"answered", "refused"} : MacSends(k, phase)
        \/ ReloadActiveMessages \/ LoadOlderMessages \/ \E c \in Chats : OpenChat(c)
        \/ \E text \in Texts : SendMessage(text)
        \/ \E j \in Jobs : Dispatch(j) \/ LandPage(j) \/ LandOlder(j) \/ LandSend(j) \/ LandFailure(j)
        \/ DropLink \/ RestartDaemon
    BY DEF Next, vars, MacFilesLate, Flush, pipeVars, MacMessage, PushesLost, CloseChat, Reconnect
  <2> QED BY <2>1, <2>3, <2>4, <2>5, <2>6
<1>11. CASE ~OnAck
  <2>1. (OneAckOf(t)' /\ (Places(t)' <=> Places(t))) \/ (OneAckOf(t)' /\ ~Places(t)' /\ drops' # 0)
    BY <1>2, <1>3, <1>4, <1>5, <1>6, <1>7, <1>8, <1>9, <1>10, <1>11
  <2> QED BY <1>11, <2>1
<1> QED BY <1>1, <1>11

LEMMA SendsGrow ==
  ASSUME [Next]_vars
  PROVE  UNCHANGED sends \/ \E text \in Texts : SendMessage(text)
BY DEF Next, vars, MacFilesLate, Flush, MacServesHandle, RequestLost, clientVars,
     MacMessage, PushesLost, MacServesPage, MacSends, MacRefuses, HandleMessage, Dispatch,
     LandPage, LandOlder, LandSend, LandFailure, OpenChat, CloseChat, ReloadActiveMessages,
     LoadOlderMessages, OnMessages, OnOlderMessages, OnOlderError, OnMessage, OnAck,
     AfterFrame, DropLink, RestartDaemon, Reconnect

(* A send is asked for once, and nothing of it was there before. *)
LEMMA FirstAsked ==
  ASSUME Known, NEW text \in Texts, SendMessage(text), NEW t \in Int, t = -(Len(sends) + 1)
  PROVE  OneAckOf(t)' /\ Places(t)'
<1> DEFINE q == [kind |-> "send", chat |-> activeChat, before |-> 0, temp |-> t]
           A == {r \in Requests : r.temp = t}
           K == {f \in Frames : f.kind = "ack" /\ f.temp = t}
<1>1. /\ requests \in Seq(Requests) /\ frames \in Seq(Frames) /\ sends \in Seq(Sent)
      /\ \A i \in DOMAIN requests : SoundRequest(requests[i], sends)
      /\ \A i \in DOMAIN frames : SoundFrame(frames[i], filed, sends, heard)
      /\ \A j \in Busy : SoundRequest(jobs[j].request, sends)
      /\ activeChat \in Chats
  <2>1. \A j \in Busy : SoundRequest(jobs[j].request, sends)
    BY BusyIsJob DEF Known, SoundJob, Busy
  <2> QED BY <2>1 DEF Known, PipesKnown, ReaderKnown, Sent, SendMessage
<1>2. t \in Int /\ t # 0 /\ ~SentBy(t, sends)
  BY <1>1 DEF SentBy
<1>3. /\ requests' = Append(requests, q) /\ UNCHANGED <<jobs, frames>>
  BY DEF SendMessage, Request
<1>4. q \in A
  BY <1>1, <1>2 DEF Requests
<1> HIDE DEF q
<1>5. At(requests, A) = {}
  BY <1>1, <1>2 DEF At, SoundRequest
<1>6. At(frames, K) = {}
  BY <1>1, <1>2 DEF At, SoundFrame
<1>7. WorkedBy(t) = {}
  BY <1>1, <1>2 DEF WorkedBy, SoundRequest
<1> HIDE DEF A, K
<1>8. At(Append(requests, q), A) # {} /\ Single(At(Append(requests, q), A))
  BY <1>1, <1>4, <1>5, AtAppend
<1>9. At(requests', A) # {} /\ Single(At(requests', A)) /\ At(frames', K) = {}
  BY <1>3, <1>6, <1>8
<1>10. WorkedBy(t)' = {}
  BY <1>3, <1>7 DEF WorkedBy, Busy
<1>11. AskedAt(t)' = At(requests', A) /\ AckedAt(t)' = At(frames', K)
  BY DEF AskedAt, AckedAt, A, K
<1> QED BY <1>9, <1>10, <1>11 DEF OneAckOf, Places, Single

LEMMA OneAckEachStays ==
  ASSUME Known, OneAckEach, [Next]_vars
  PROVE  OneAckEach'
<1> SUFFICES ASSUME NEW k, k \in DOMAIN sends' PROVE OneAckOf(-k)'
  BY DEF OneAckEach
<1>1. sends \in Seq(Sent) /\ sends' \in Seq(Sent)
  BY StepKnown DEF Known, ReaderKnown, Sent
<1>2. k \in Nat /\ k > 0
  BY <1>1
<1> DEFINE t == -k
<1>3. t \in Int /\ t # 0
  BY <1>2
<1>4. CASE k \in DOMAIN sends
  <2>1. \A text \in Texts : SendMessage(text) => t # -(Len(sends) + 1)
    BY <1>1, <1>2, <1>4
  <2>2. OneAckOf(t)
    BY <1>4 DEF OneAckEach
  <2> HIDE DEF t
  <2>3. OneAckOf(t)'
    BY <1>3, <2>1, <2>2, AckFlow
  <2> QED BY <2>3 DEF t
<1>5. CASE k \notin DOMAIN sends
  <2>1. PICK text \in Texts : SendMessage(text)
    BY <1>5, SendsGrow
  <2>2. sends' = Append(sends, [chat |-> activeChat, text |-> text, ts |-> LastTs])
    BY <2>1 DEF SendMessage
  <2>3. k = Len(sends) + 1
    BY <1>1, <1>5, <2>2
  <2>4. t = -(Len(sends) + 1)
    BY <2>3
  <2> HIDE DEF t
  <2>5. OneAckOf(t)'
    BY <1>3, <2>1, <2>4, FirstAsked
  <2> QED BY <2>5 DEF t
<1> QED BY <1>4, <1>5

-----------------------------------------------------------------------------
(* Rows: what a step leaves of a thread *)

LEMMA RowSigns ==
  ASSUME NEW F \in Seq(Messages), NEW S \in Seq(Sent), NEW c, NEW row, ThreadRow(row, c, F, S)
  PROVE  /\ row \in Rows /\ row.guid \in Int /\ row.temp \in Int
         /\ \/ row.guid > 0 /\ row.state \in {"shown", "sent"} /\ IsMessage(row.guid, c, row.temp, F, S)
            \/ /\ row.guid < 0 /\ row.state \in {"pending", "failed"} /\ row.guid = row.temp
               /\ -row.temp \in DOMAIN S /\ S[-row.temp].chat = c
<1>1. row \in Rows /\ row.guid \in Int /\ row.temp \in Int
  BY DEF ThreadRow, ShownRow, SentRow, OwnRow, Rows
<1>2. CASE ShownRow(row, c, F, S) \/ SentRow(row, c, F, S)
  <2>1. row.guid \in DOMAIN F /\ IsMessage(row.guid, c, row.temp, F, S)
        /\ row.state \in {"shown", "sent"}
    BY <1>2 DEF ShownRow, SentRow, IsMessage
  <2>2. row.guid > 0
    BY <2>1
  <2> QED BY <1>1, <2>1, <2>2
<1>3. CASE OwnRow(row, c, S)
  <2>1. -row.temp \in DOMAIN S /\ row.guid = row.temp /\ row.state \in {"pending", "failed"}
        /\ S[-row.temp].chat = c
    BY <1>3 DEF OwnRow, SentBy
  <2>2. row.temp < 0
    BY <1>1, <2>1
  <2> QED BY <1>1, <2>1, <2>2
<1> QED BY <1>2, <1>3 DEF ThreadRow

(* Rows are carried over from one thread to the other. *)
Carries(old, new) == \A i \in DOMAIN old : old[i].state = "pending" =>
                       \E k \in DOMAIN new : new[k] = old[i]
Gained(old, new) == \A k \in DOMAIN new : new[k].state = "pending" =>
                      \E i \in DOMAIN old : old[i] = new[k]

(* Messages are numbered from 1. *)
Counted(F) == \A g \in DOMAIN F : g \in Int /\ g > 0

LEMMA ReplacedCarries ==
  ASSUME NEW F, Counted(F), NEW S, NEW c, NEW page, NEW old,
         SoundPage(page, c, F, S), SoundThread(old, c, F, S)
  PROVE  /\ Carries(old, Replaced(page, old)) /\ Gained(old, Replaced(page, old))
         /\ OneRow(old) => OneRow(Replaced(page, old))
<1> DEFINE pending == InFlight(old)
           new == Replaced(page, old)
<1>p. pending \subseteq DOMAIN old /\ \A i \in DOMAIN old : i \in pending <=> old[i].state = "pending"
  BY DEF InFlight
<1>4. Joined(new, page, old, pending) /\ SoundThread(new, c, F, S)
  BY ReplacedIsSound
<1>5. /\ \A i \in DOMAIN new :
           \/ i \in DOMAIN page /\ new[i] = page[i]
           \/ /\ i - Len(page) \in DOMAIN Kept(old, pending)
              /\ new[i] = old[Nth(pending, i - Len(page))]
              /\ Nth(pending, i - Len(page)) \in pending
      /\ \A i \in pending : \E k \in DOMAIN new : new[k] = old[i]
  <2> HIDE DEF new, pending
  <2> QED BY <1>4 DEF Joined
<1> HIDE DEF pending
<1>6. \A j, k \in DOMAIN Kept(old, pending) : Nth(pending, j) = Nth(pending, k) => j = k
  BY <1>p, KeptIsSound
<1>7. \A i \in DOMAIN page : page[i].state = "shown" /\ page[i].guid \in Int /\ page[i].guid > 0
  <2> SUFFICES ASSUME NEW i \in DOMAIN page PROVE page[i].state = "shown" /\ page[i].guid \in Int /\ page[i].guid > 0
    OBVIOUS
  <2>1. page[i].state = "shown" /\ page[i].guid \in DOMAIN F
    BY DEF SoundPage, ShownRow, IsMessage
  <2> QED BY <2>1 DEF Counted
<1>n. new \in Seq(Rows) /\ page \in Seq(Rows)
  BY <1>4 DEF SoundThread, SoundPage
<1> HIDE DEF new
<1>8. Carries(old, new)
  BY <1>5, <1>p DEF Carries
<1>9. Gained(old, new)
  BY <1>5, <1>7, <1>p DEF Gained
<1>10. OneRow(old) => OneRow(new)
  <2> SUFFICES ASSUME OneRow(old), NEW i \in DOMAIN new, NEW k \in DOMAIN new,
                      new[i].guid = new[k].guid, new[i].guid < 0
               PROVE  i = k
    BY DEF OneRow
  <2> DEFINE a == i - Len(page)
             b == k - Len(page)
  <2>1. ~(i \in DOMAIN page /\ new[i] = page[i]) /\ ~(k \in DOMAIN page /\ new[k] = page[k])
    <3>1. \A n \in DOMAIN page : ~(page[n].guid < 0)
      BY <1>7
    <3> QED BY <3>1
  <2>2. /\ a \in DOMAIN Kept(old, pending) /\ new[i] = old[Nth(pending, a)] /\ Nth(pending, a) \in DOMAIN old
        /\ b \in DOMAIN Kept(old, pending) /\ new[k] = old[Nth(pending, b)] /\ Nth(pending, b) \in DOMAIN old
    BY <1>5, <1>p, <2>1
  <2>3. Nth(pending, a) = Nth(pending, b)
    BY <2>2 DEF OneRow
  <2>4. a = b
    BY <1>6, <2>2, <2>3
  <2>5. i \in Int /\ k \in Int /\ Len(page) \in Int
    BY <1>n
  <2> QED BY <2>4, <2>5
<1> QED BY <1>8, <1>9, <1>10 DEF new

LEMMA OlderCarries ==
  ASSUME NEW F, Counted(F), NEW S, NEW c, NEW rows, NEW old,
         SoundPage(rows, c, F, S), SoundThread(old, c, F, S)
  PROVE  /\ Carries(old, NotShown(rows, old) \o old) /\ Gained(old, NotShown(rows, old) \o old)
         /\ OneRow(old) => OneRow(NotShown(rows, old) \o old)
<1> DEFINE more == NotShown(rows, old)
           new == more \o old
<1>4. SoundThread(more, c, F, S) /\ Among(more, rows)
  BY NotShownIsSound
<1>5. \A k \in DOMAIN more : more[k].state = "shown" /\ more[k].guid > 0 /\ more[k].guid \in Int
  <2> SUFFICES ASSUME NEW i \in DOMAIN rows
               PROVE  rows[i].state = "shown" /\ rows[i].guid > 0 /\ rows[i].guid \in Int
    BY <1>4 DEF Among
  <2>1. rows[i].state = "shown" /\ rows[i].guid \in DOMAIN F
    BY DEF SoundPage, ShownRow, IsMessage
  <2> QED BY <2>1 DEF Counted
<1>n. more \in Seq(Rows) /\ old \in Seq(Rows)
  BY <1>4 DEF SoundThread
<1> HIDE DEF more
<1>6. /\ \A i \in DOMAIN new : \/ i \in DOMAIN more /\ new[i] = more[i]
                               \/ i - Len(more) \in DOMAIN old /\ new[i] = old[i - Len(more)]
      /\ \A i \in DOMAIN old : Len(more) + i \in DOMAIN new /\ new[Len(more) + i] = old[i]
      /\ \A i \in DOMAIN new : i \in Int
      /\ Len(more) \in Int
  BY <1>n
<1> HIDE DEF new
<1>7. Carries(old, new)
  BY <1>6 DEF Carries
<1>8. Gained(old, new)
  BY <1>5, <1>6 DEF Gained
<1>9. OneRow(old) => OneRow(new)
  <2> SUFFICES ASSUME OneRow(old), NEW i \in DOMAIN new, NEW k \in DOMAIN new,
                      new[i].guid = new[k].guid, new[i].guid < 0
               PROVE  i = k
    BY DEF OneRow
  <2>1. /\ i - Len(more) \in DOMAIN old /\ new[i] = old[i - Len(more)]
        /\ k - Len(more) \in DOMAIN old /\ new[k] = old[k - Len(more)]
    BY <1>5, <1>6
  <2>2. i - Len(more) = k - Len(more)
    BY <2>1 DEF OneRow
  <2> QED BY <1>6, <2>2
<1> QED BY <1>7, <1>8, <1>9 DEF new, more

(* g is a message the reader sent to c, in these words. *)
EchoOf(g, c, text) == filed[g].fromMe /\ filed[g].chat = c /\ filed[g].text = text

(* An echo takes the place of a row it is the message of, or says the same. *)
LEMMA EchoCarries ==
  ASSUME filed \in Seq(Messages), sends \in Seq(Sent), NEW c, NEW old, NEW m,
         SoundThread(old, c, filed, sends), ShownRow(m, c, filed, sends),
         filed[m.guid].chat = c
  PROVE  /\ Gained(old, WithMessage(old, m))
         /\ OneRow(old) => OneRow(WithMessage(old, m))
         /\ \A i \in DOMAIN old : old[i].state = "pending" =>
              \/ \E k \in DOMAIN WithMessage(old, m) : WithMessage(old, m)[k] = old[i]
              \/ EchoOf(m.guid, c, sends[-old[i].temp].text)
<1> DEFINE new == WithMessage(old, m)
<1>1. /\ m \in Rows /\ m.state = "shown" /\ m.guid \in Int /\ m.guid > 0
      /\ IsMessage(m.guid, c, m.temp, filed, sends)
  <2>1. m \in Rows /\ m.state = "shown" /\ m.guid \in DOMAIN filed
        /\ IsMessage(m.guid, c, m.temp, filed, sends)
    BY DEF ShownRow, IsMessage
  <2> QED BY <2>1
<1>2. /\ \A i \in DOMAIN old : ThreadRow(old[i], c, filed, sends)
      /\ old \in Seq(Rows)
  BY DEF SoundThread
<1>3. CASE new = Append(old, m)
  <2>1. /\ \A i \in DOMAIN new : (i \in DOMAIN old /\ new[i] = old[i]) \/ new[i] = m
        /\ \A i \in DOMAIN old : i \in DOMAIN new /\ new[i] = old[i]
    BY <1>1, <1>2, <1>3
  <2> HIDE DEF new
  <2>2. OneRow(old) => OneRow(new)
    BY <1>1, <2>1 DEF OneRow
  <2>3. Gained(old, new)
    BY <1>1, <2>1 DEF Gained
  <2>4. \A i \in DOMAIN old : \E k \in DOMAIN new : new[k] = old[i]
    BY <2>1
  <2> QED BY <2>2, <2>3, <2>4 DEF new
<1>4. ASSUME NEW a \in DOMAIN old, filed[m.guid].fromMe, Matches(m, old[a]),
             new = [old EXCEPT ![a] = m]
      PROVE  /\ Gained(old, new)
             /\ OneRow(old) => OneRow(new)
             /\ \A i \in DOMAIN old : old[i].state = "pending" =>
                  \/ \E k \in DOMAIN new : new[k] = old[i]
                  \/ EchoOf(m.guid, c, sends[-old[i].temp].text)
  <2>1. /\ DOMAIN new = DOMAIN old /\ new[a] = m
        /\ \A i \in DOMAIN old : i # a => new[i] = old[i]
    BY <1>2, <1>4
  <2> HIDE DEF new
  <2>2. OneRow(old) => OneRow(new)
    BY <1>1, <2>1 DEF OneRow
  <2>3. Gained(old, new)
    BY <1>1, <2>1 DEF Gained
  <2>4. ASSUME old[a].state = "pending"
        PROVE  EchoOf(m.guid, c, sends[-old[a].temp].text)
    <3>1. filed[m.guid].chat = c /\ (m.temp # 0 => filed[m.guid].text = sends[-m.temp].text)
      BY <1>1 DEF IsMessage
    <3>2. old[a].guid < 0 /\ old[a].guid \in Int
      <4>1. ThreadRow(old[a], c, filed, sends)
        BY <1>2
      <4> QED BY <2>4, <4>1, RowSigns
    <3>3. CASE m.temp # 0
      BY <1>4, <3>1, <3>3 DEF Matches, EchoOf
    <3>4. CASE m.temp = 0
      <4>1. TextOf(old[a]) = TextOf(m)
        BY <1>1, <1>4, <3>2, <3>4 DEF Matches
      <4> QED BY <1>1, <1>4, <2>4, <3>1, <4>1 DEF TextOf, EchoOf
    <3> QED BY <3>3, <3>4
  <2>5. \A i \in DOMAIN old : old[i].state = "pending" =>
           \/ \E k \in DOMAIN new : new[k] = old[i]
           \/ EchoOf(m.guid, c, sends[-old[i].temp].text)
    BY <2>1, <2>4
  <2> QED BY <2>2, <2>3, <2>5
<1>5. \/ new = Append(old, m)
      \/ \E a \in DOMAIN old : filed[m.guid].fromMe /\ Matches(m, old[a]) /\ new = [old EXCEPT ![a] = m]
  BY WithMessageSteps
<1> HIDE DEF new
<1> QED
  <2>1. /\ Gained(old, new)
        /\ OneRow(old) => OneRow(new)
        /\ \A i \in DOMAIN old : old[i].state = "pending" =>
             \/ \E k \in DOMAIN new : new[k] = old[i]
             \/ EchoOf(m.guid, c, sends[-old[i].temp].text)
    BY <1>3, <1>4, <1>5 DEF new
  <2> QED BY <2>1 DEF new

(* An ack settles the row of its send and touches no other. *)
LEMMA AckCarries ==
  ASSUME filed \in Seq(Messages), sends \in Seq(Sent), NEW c, NEW old, NEW f,
         SoundThread(old, c, filed, sends), f.kind = "ack", f.chat = c,
         SoundFrame(f, filed, sends, heard)
  PROVE  /\ Gained(old, Patched(old, f))
         /\ OneRow(old) => OneRow(Patched(old, f))
         /\ \A i \in DOMAIN old : old[i].guid # f.temp =>
              \E k \in DOMAIN Patched(old, f) : Patched(old, f)[k] = old[i]
         /\ OneRow(old) => \A k \in DOMAIN Patched(old, f) :
              Patched(old, f)[k].state = "pending" => Patched(old, f)[k].guid # f.temp
<1> DEFINE new == Patched(old, f)
<1>1. /\ \A i \in DOMAIN old : ThreadRow(old[i], c, filed, sends)
      /\ old \in Seq(Rows)
  BY DEF SoundThread
<1>2. f \in Frames /\ f.temp \in Int /\ f.temp < 0 /\ (f.flag => f.guid \in Int /\ f.guid > 0)
  <2>1. f \in Frames /\ f.temp \in Int /\ -f.temp \in DOMAIN sends /\ (f.flag => f.guid \in DOMAIN filed)
    BY DEF SoundFrame, SentBy, IsMessage, Frames
  <2> QED BY <2>1
<1>3. ASSUME new = old, \A i \in DOMAIN old : old[i].guid # f.temp
      PROVE  /\ Gained(old, new) /\ (OneRow(old) => OneRow(new))
             /\ \A i \in DOMAIN old : old[i].guid # f.temp => \E k \in DOMAIN new : new[k] = old[i]
             /\ \A k \in DOMAIN new : new[k].guid # f.temp
  BY <1>3 DEF Gained
<1>4. ASSUME NEW a \in DOMAIN old, old[a].guid = f.temp,
             new = [old EXCEPT ![a] = PatchedRow(old[a], f)]
      PROVE  /\ Gained(old, new) /\ (OneRow(old) => OneRow(new))
             /\ \A i \in DOMAIN old : old[i].guid # f.temp => \E k \in DOMAIN new : new[k] = old[i]
             /\ OneRow(old) => \A k \in DOMAIN new : new[k].state = "pending" => new[k].guid # f.temp
  <2> DEFINE row == PatchedRow(old[a], f)
  <2>0. old[a] \in Rows
    BY <1>1
  <2>1. /\ row.state # "pending"
        /\ row.guid = old[a].guid \/ (row.guid > 0 /\ row.guid \in Int)
    <3>1. CASE f.flag
      BY <1>2, <2>0, <3>1 DEF PatchedRow, Rows
    <3>2. CASE ~f.flag
      BY <1>2, <2>0, <3>2 DEF PatchedRow, Rows
    <3> QED BY <3>1, <3>2
  <2>2. /\ DOMAIN new = DOMAIN old /\ new[a] = row
        /\ \A i \in DOMAIN old : i # a => new[i] = old[i]
    BY <1>1, <1>4
  <2> HIDE DEF new, row
  <2>3. Gained(old, new)
    BY <2>1, <2>2 DEF Gained
  <2>4. OneRow(old) => OneRow(new)
    <3> SUFFICES ASSUME OneRow(old), NEW i \in DOMAIN new, NEW k \in DOMAIN new,
                        new[i].guid = new[k].guid, new[i].guid < 0
                 PROVE  i = k
      BY DEF OneRow
    <3>1. \A n \in DOMAIN new : new[n].guid < 0 => new[n].guid = old[n].guid
      BY <2>1, <2>2
    <3> QED BY <2>2, <3>1 DEF OneRow
  <2>5. \A i \in DOMAIN old : old[i].guid # f.temp => \E k \in DOMAIN new : new[k] = old[i]
    BY <1>4, <2>2
  <2>6. ASSUME OneRow(old), NEW k \in DOMAIN new, new[k].state = "pending"
        PROVE  new[k].guid # f.temp
    BY <1>2, <1>4, <2>1, <2>2, <2>6 DEF OneRow
  <2> QED BY <2>3, <2>4, <2>5, <2>6
<1>5. \/ new = old /\ \A i \in DOMAIN old : old[i].guid # f.temp
      \/ \E a \in DOMAIN old : old[a].guid = f.temp /\ new = [old EXCEPT ![a] = PatchedRow(old[a], f)]
  BY PatchedSteps
<1> HIDE DEF new
<1>6. /\ Gained(old, new) /\ (OneRow(old) => OneRow(new))
      /\ \A i \in DOMAIN old : old[i].guid # f.temp => \E k \in DOMAIN new : new[k] = old[i]
      /\ OneRow(old) => \A k \in DOMAIN new : new[k].state = "pending" => new[k].guid # f.temp
  BY <1>3, <1>4, <1>5
<1> QED BY <1>6 DEF new
HasRow(rows, t) == \E i \in DOMAIN rows : rows[i] = Optimistic(t)

LEMMA PendingRows ==
  ASSUME NEW F \in Seq(Messages), NEW S \in Seq(Sent), NEW c, NEW rows, SoundThread(rows, c, F, S)
  PROVE  \A i \in DOMAIN rows : rows[i].state = "pending" =>
           /\ rows[i] = Optimistic(rows[i].temp) /\ rows[i].guid = rows[i].temp
           /\ rows[i].temp \in Int /\ rows[i].temp < 0
           /\ -rows[i].temp \in DOMAIN S /\ S[-rows[i].temp].chat = c
<1> SUFFICES ASSUME NEW i \in DOMAIN rows, rows[i].state = "pending"
             PROVE  /\ rows[i] = Optimistic(rows[i].temp) /\ rows[i].guid = rows[i].temp
                    /\ rows[i].temp \in Int /\ rows[i].temp < 0
                    /\ -rows[i].temp \in DOMAIN S /\ S[-rows[i].temp].chat = c
  OBVIOUS
<1>1. ThreadRow(rows[i], c, F, S)
  BY DEF SoundThread
<1>2. /\ rows[i] \in Rows /\ rows[i].temp \in Int /\ rows[i].guid = rows[i].temp /\ rows[i].guid < 0
      /\ -rows[i].temp \in DOMAIN S /\ S[-rows[i].temp].chat = c
  BY <1>1, RowSigns
<1>3. rows[i] = Optimistic(rows[i].temp)
  BY <1>2 DEF Rows, Optimistic
<1> QED BY <1>2, <1>3

(* What a step makes of the row of a send. *)
RowKept(t, old, new) == HasRow(old, t) => HasRow(new, t)
RowOld(t, old, new) == HasRow(new, t) => HasRow(old, t)

LEMMA RowsCarried ==
  ASSUME NEW old, NEW new, NEW t, Carries(old, new)
  PROVE  RowKept(t, old, new)
BY DEF Carries, RowKept, HasRow, Optimistic

LEMMA RowsGained ==
  ASSUME NEW old, NEW new, NEW t, Gained(old, new)
  PROVE  RowOld(t, old, new)
<1> SUFFICES ASSUME NEW k \in DOMAIN new, new[k] = Optimistic(t) PROVE HasRow(old, t)
  BY DEF RowOld, HasRow
<1>1. new[k].state = "pending"
  BY DEF Optimistic
<1>2. PICK i \in DOMAIN old : old[i] = new[k]
  BY <1>1 DEF Gained
<1> QED BY <1>2 DEF HasRow

(* The thread of c after one frame. *)
LEMMA PageFlow ==
  ASSUME Known, OnMessages \/ OnOlderMessages, NEW c \in Chats, NEW t
  PROVE  /\ OneRow(threads[c]) => OneRow(threads'[c])
         /\ RowOld(t, threads[c], threads'[c]) /\ RowKept(t, threads[c], threads'[c])
<1> DEFINE f == Head(frames)
           old == threads[f.chat]
           page == WithKnownTempIds(f.rows, old)
           rows == f.rows
<1>k. /\ filed \in Seq(Messages) /\ threads \in [Chats -> Seq(Rows)]
      /\ Counted(filed)
  BY DEF Known, MacKnown, ReaderKnown, Counted
<1>1. /\ f.chat \in Chats /\ SoundPage(rows, f.chat, filed, sends)
      /\ SoundThread(old, f.chat, filed, sends)
  BY FrameRows DEF OnMessages, OnOlderMessages
<1>2. \/ threads' = threads
      \/ threads' = [threads EXCEPT ![f.chat] = Replaced(page, old)]
      \/ threads' = [threads EXCEPT ![f.chat] = NotShown(rows, old) \o old]
  BY DEF OnMessages, OnOlderMessages, WithOlder
<1> HIDE DEF f, old, rows
<1>3. SoundPage(WithKnownTempIds(rows, old), f.chat, filed, sends)
  BY <1>1, <1>k, KnownTempIdsAreSound
<1>p. page = WithKnownTempIds(rows, old)
  BY DEF rows
<1> HIDE DEF page
<1>4. /\ Carries(old, Replaced(page, old)) /\ Gained(old, Replaced(page, old))
      /\ OneRow(old) => OneRow(Replaced(page, old))
  BY <1>1, <1>3, <1>k, <1>p, ReplacedCarries
<1>5. /\ Carries(old, NotShown(rows, old) \o old) /\ Gained(old, NotShown(rows, old) \o old)
      /\ OneRow(old) => OneRow(NotShown(rows, old) \o old)
  BY <1>1, <1>k, OlderCarries
<1>6. ASSUME NEW new, threads' = [threads EXCEPT ![f.chat] = new],
             Carries(old, new), Gained(old, new), OneRow(old) => OneRow(new)
      PROVE  /\ OneRow(threads[c]) => OneRow(threads'[c])
             /\ RowOld(t, threads[c], threads'[c]) /\ RowKept(t, threads[c], threads'[c])
  <2>1. (c = f.chat /\ threads[c] = old /\ threads'[c] = new) \/ threads'[c] = threads[c]
    BY <1>1, <1>6, <1>k DEF old
  <2>2. RowKept(t, old, new) /\ RowOld(t, old, new)
    BY <1>6, RowsCarried, RowsGained
  <2>3. RowOld(t, threads[c], threads[c]) /\ RowKept(t, threads[c], threads[c])
    BY DEF RowOld, RowKept
  <2> QED BY <1>6, <2>1, <2>2, <2>3
<1>7. CASE threads' = threads
  BY <1>7 DEF RowOld, RowKept
<1> QED BY <1>2, <1>4, <1>5, <1>6, <1>7

LEMMA EchoFlow ==
  ASSUME Known, OnMessage, NEW c \in Chats, NEW t
  PROVE  /\ OneRow(threads[c]) => OneRow(threads'[c])
         /\ RowOld(t, threads[c], threads'[c])
         /\ \/ RowKept(t, threads[c], threads'[c])
            \/ \E g \in heard : EchoOf(g, c, sends[-t].text)
<1> DEFINE f == Head(frames)
           old == threads[f.chat]
           m == Head(f.rows)
           new == WithMessage(old, m)
<1>k. /\ filed \in Seq(Messages) /\ sends \in Seq(Sent) /\ threads \in [Chats -> Seq(Rows)]
  BY DEF Known, MacKnown, ReaderKnown, Sent
<1>1. /\ f.chat \in Chats /\ SoundPage(f.rows, f.chat, filed, sends)
      /\ SoundThread(old, f.chat, filed, sends) /\ Len(f.rows) = 1
      /\ m.guid \in heard /\ filed[m.guid].chat = f.chat
  <2>1. /\ f.chat \in Chats /\ SoundPage(f.rows, f.chat, filed, sends)
        /\ SoundThread(old, f.chat, filed, sends) /\ f.kind = "message"
        /\ SoundFrame(f, filed, sends, heard)
    BY FrameRows DEF OnMessage
  <2>2. Len(f.rows) = 1 /\ f.rows[1].guid \in heard /\ filed[f.rows[1].guid].chat = f.chat
    BY <2>1 DEF SoundFrame
  <2> QED BY <2>1, <2>2
<1>2. ShownRow(m, f.chat, filed, sends)
  BY <1>1 DEF SoundPage
<1>3. threads' = threads \/ threads' = [threads EXCEPT ![f.chat] = new]
  BY DEF OnMessage
<1> HIDE DEF f, old, m
<1>4. /\ Gained(old, new) /\ (OneRow(old) => OneRow(new))
      /\ \A i \in DOMAIN old : old[i].state = "pending" =>
           \/ \E k \in DOMAIN new : new[k] = old[i]
           \/ EchoOf(m.guid, f.chat, sends[-old[i].temp].text)
  BY <1>1, <1>2, <1>k, EchoCarries
<1> HIDE DEF new
<1>5. RowKept(t, old, new) \/ EchoOf(m.guid, f.chat, sends[-t].text)
  <2> SUFFICES ASSUME NEW i \in DOMAIN old, old[i] = Optimistic(t)
               PROVE  HasRow(new, t) \/ EchoOf(m.guid, f.chat, sends[-t].text)
    BY DEF RowKept, HasRow
  <2>1. old[i].state = "pending" /\ old[i].temp = t
    BY DEF Optimistic
  <2>2. (\E k \in DOMAIN new : new[k] = old[i]) \/ EchoOf(m.guid, f.chat, sends[-t].text)
    BY <1>4, <2>1
  <2> QED BY <2>2 DEF HasRow
<1>6. RowOld(t, old, new)
  BY <1>4, RowsGained
<1>7. (c = f.chat /\ threads[c] = old /\ threads'[c] = new) \/ threads'[c] = threads[c]
  BY <1>1, <1>3, <1>k DEF old
<1>8. RowOld(t, threads[c], threads[c]) /\ RowKept(t, threads[c], threads[c])
  BY DEF RowOld, RowKept
<1> QED BY <1>1, <1>4, <1>5, <1>6, <1>7, <1>8

LEMMA SettledFlow ==
  ASSUME Known, OnAck, NEW c \in Chats, NEW t
  PROVE  /\ OneRow(threads[c]) => OneRow(threads'[c])
         /\ RowOld(t, threads[c], threads'[c])
         /\ Head(frames).temp # t => RowKept(t, threads[c], threads'[c])
         /\ OneRow(threads[c]) /\ Head(frames).temp = t => ~HasRow(threads'[c], t)
<1> DEFINE f == Head(frames)
           old == threads[f.chat]
           new == Patched(old, f)
<1>k. /\ filed \in Seq(Messages) /\ sends \in Seq(Sent) /\ threads \in [Chats -> Seq(Rows)]
      /\ SoundThread(threads[c], c, filed, sends)
  BY DEF Known, MacKnown, ReaderKnown, Sent
<1>1. /\ f.chat \in Chats /\ SoundThread(old, f.chat, filed, sends)
      /\ SoundFrame(f, filed, sends, heard) /\ f.kind = "ack"
  BY FrameRows DEF OnAck
<1>2. threads' = [threads EXCEPT ![f.chat] = new]
  BY DEF OnAck
<1>s. sends[-f.temp].chat = f.chat
  BY <1>1 DEF SoundFrame
<1> HIDE DEF f, old
<1>3. /\ Gained(old, new) /\ (OneRow(old) => OneRow(new))
      /\ \A i \in DOMAIN old : old[i].guid # f.temp => \E k \in DOMAIN new : new[k] = old[i]
      /\ OneRow(old) => \A k \in DOMAIN new : new[k].state = "pending" => new[k].guid # f.temp
  BY <1>1, <1>k, AckCarries
<1> HIDE DEF new
<1>4. f.temp # t => RowKept(t, old, new)
  <2> SUFFICES ASSUME f.temp # t, NEW i \in DOMAIN old, old[i] = Optimistic(t)
               PROVE  HasRow(new, t)
    BY DEF RowKept, HasRow
  <2>1. old[i].guid # f.temp
    BY DEF Optimistic
  <2> QED BY <1>3, <2>1 DEF HasRow
<1>5. RowOld(t, old, new)
  BY <1>3, RowsGained
<1>6. OneRow(old) /\ f.temp = t => ~HasRow(new, t)
  <2> SUFFICES ASSUME OneRow(old), f.temp = t, NEW k \in DOMAIN new, new[k] = Optimistic(t)
               PROVE  FALSE
    BY DEF HasRow
  <2>1. new[k].state = "pending" /\ new[k].guid = t
    BY DEF Optimistic
  <2> QED BY <1>3, <2>1
<1>7. (c = f.chat /\ threads[c] = old /\ threads'[c] = new) \/ (c # f.chat /\ threads'[c] = threads[c])
  BY <1>1, <1>2, <1>k DEF old
<1>8. RowOld(t, threads[c], threads[c]) /\ RowKept(t, threads[c], threads[c])
  BY DEF RowOld, RowKept
<1>9. c # f.chat /\ f.temp = t => ~HasRow(threads[c], t)
  <2> SUFFICES ASSUME f.temp = t, NEW i \in DOMAIN threads[c], threads[c][i] = Optimistic(t)
               PROVE  c = f.chat
    BY DEF HasRow
  <2>1. threads[c][i].state = "pending" /\ threads[c][i].temp = t
    BY DEF Optimistic
  <2>2. sends[-threads[c][i].temp].chat = c
    BY <1>k, <2>1, PendingRows
  <2> QED BY <1>s, <2>1, <2>2
<1>10. /\ OneRow(threads[c]) => OneRow(threads'[c])
       /\ RowOld(t, threads[c], threads'[c])
       /\ f.temp # t => RowKept(t, threads[c], threads'[c])
       /\ OneRow(threads[c]) /\ f.temp = t => ~HasRow(threads'[c], t)
  BY <1>3, <1>4, <1>5, <1>6, <1>7, <1>8, <1>9
<1> QED BY <1>10 DEF f

LEMMA SendFlow ==
  ASSUME Known, NEW text \in Texts, SendMessage(text), NEW c \in Chats, NEW t \in Int
  PROVE  /\ OneRow(threads[c]) => OneRow(threads'[c])
         /\ RowKept(t, threads[c], threads'[c])
         /\ t # -(Len(sends) + 1) => RowOld(t, threads[c], threads'[c])
         /\ t = -(Len(sends) + 1) /\ c = activeChat => HasRow(threads'[c], t)
<1> DEFINE n == -(Len(sends) + 1)
           row == Optimistic(n)
           old == threads[activeChat]
           new == Append(old, row)
<1>1. /\ filed \in Seq(Messages) /\ sends \in Seq(Sent) /\ threads \in [Chats -> Seq(Rows)]
      /\ activeChat \in Chats /\ SoundThread(old, activeChat, filed, sends)
      /\ threads' = [threads EXCEPT ![activeChat] = new]
  BY DEF Known, MacKnown, ReaderKnown, SendMessage, Sent
<1>2. n \in Int /\ -n \notin DOMAIN sends
  BY <1>1
<1> HIDE DEF n
<1>3. row.guid = n
  BY DEF Optimistic
<1>4. /\ \A i \in DOMAIN new : (i \in DOMAIN old /\ new[i] = old[i]) \/ (i = Len(old) + 1 /\ new[i] = row)
      /\ \A i \in DOMAIN old : i \in DOMAIN new /\ new[i] = old[i]
      /\ Len(old) + 1 \in DOMAIN new /\ new[Len(old) + 1] = row
  BY <1>1
<1>5. ASSUME NEW i \in DOMAIN old PROVE old[i].guid # n
  <2>1. ThreadRow(old[i], activeChat, filed, sends)
    BY <1>1 DEF SoundThread
  <2>2. old[i].guid > 0 \/ (old[i].guid = old[i].temp /\ -old[i].temp \in DOMAIN sends)
    BY <1>1, <2>1, RowSigns
  <2>3. \A x \in Int : x > 0 => -x \notin DOMAIN sends
    BY <1>1
  <2>4. n # 0 /\ n < 0
    BY <1>1 DEF n
  <2> QED BY <1>2, <2>2, <2>4
<1> HIDE DEF row, old, new
<1>6. OneRow(old) => OneRow(new)
  BY <1>3, <1>4, <1>5 DEF OneRow
<1>7. RowKept(t, old, new)
  BY <1>4 DEF RowKept, HasRow
<1>8. t # n => RowOld(t, old, new)
  <2>1. t # n => Optimistic(t) # row
    BY DEF Optimistic, row
  <2> QED BY <1>4, <2>1 DEF RowOld, HasRow
<1>9. HasRow(new, n)
  BY <1>4 DEF HasRow, row
<1>10. (c = activeChat /\ threads[c] = old /\ threads'[c] = new)
       \/ (c # activeChat /\ threads'[c] = threads[c])
  BY <1>1 DEF old
<1>11. RowOld(t, threads[c], threads[c]) /\ RowKept(t, threads[c], threads[c])
  BY DEF RowOld, RowKept
<1>12. t = -(Len(sends) + 1) <=> t = n
  BY DEF n
<1> QED BY <1>6, <1>7, <1>8, <1>9, <1>10, <1>11, <1>12

(* A step adds a row for a send only when it is sent, and takes one away   *)
(* only for an echo or its ack.                                            *)
LEMMA RowsFlow ==
  ASSUME Known, [Next]_vars, NEW c \in Chats, NEW t \in Int
  PROVE  /\ OneRow(threads[c]) => OneRow(threads'[c])
         /\ RowOld(t, threads[c], threads'[c])
            \/ \E text \in Texts : SendMessage(text) /\ t = -(Len(sends) + 1)
         /\ \/ RowKept(t, threads[c], threads'[c])
            \/ \E g \in heard : EchoOf(g, c, sends[-t].text)
            \/ OnAck /\ Head(frames).temp = t
         /\ OneRow(threads[c]) /\ OnAck /\ Head(frames).temp = t => ~HasRow(threads'[c], t)
<1>1. CASE ~OnAck
  <2>1. CASE UNCHANGED threads
    BY <1>1, <2>1 DEF RowOld, RowKept
  <2>2. CASE OnMessages \/ OnOlderMessages
    BY <1>1, <2>2, PageFlow
  <2>3. CASE OnMessage
    BY <1>1, <2>3, EchoFlow
  <2>4. ASSUME NEW text \in Texts, SendMessage(text)
        PROVE  /\ OneRow(threads[c]) => OneRow(threads'[c])
               /\ RowOld(t, threads[c], threads'[c]) \/ t = -(Len(sends) + 1)
               /\ RowKept(t, threads[c], threads'[c])
    BY <2>4, SendFlow
  <2> QED BY <1>1, <2>1, <2>2, <2>3, <2>4, ThreadSteps
<1>2. CASE OnAck
  BY <1>2, SettledFlow
<1> QED BY <1>1, <1>2

LEMMA RestartEnds ==
  ASSUME RestartDaemon, NEW t
  PROVE  ~Places(t)'
<1>1. requests' = <<>> /\ frames' = <<>> /\ \A j \in Jobs : jobs'[j] = Idle
  BY DEF RestartDaemon
<1>2. AskedAt(t)' = {} /\ AckedAt(t)' = {}
  BY <1>1 DEF AskedAt, AckedAt, At
<1>3. WorkedBy(t)' = {}
  BY <1>1 DEF WorkedBy, Busy, Idle
<1> QED BY <1>2, <1>3 DEF Places

(* A send under way has its row, or was taken for an echo. *)
RowOfEach ==
  \A k \in DOMAIN sends :
    Places(-k) => \/ HasRow(threads[sends[k].chat], -k)
                  \/ \E g \in heard : EchoOf(g, sends[k].chat, sends[k].text)

(* While the link has not dropped, a row in flight is under way. *)
PlaceOfEach ==
  drops = 0 => \A c \in Chats : \A k \in DOMAIN sends : HasRow(threads[c], -k) => Places(-k)

LEMMA OneRowEachStays ==
  ASSUME Known, OneRowEach, [Next]_vars
  PROVE  OneRowEach'
<1>1. 0 \in Int
  OBVIOUS
<1> QED BY <1>1, RowsFlow DEF OneRowEach

LEMMA SendsKept ==
  ASSUME Known, [Next]_vars
  PROVE  /\ sends \in Seq(Sent) /\ sends' \in Seq(Sent)
         /\ \A k \in DOMAIN sends' :
              /\ k \in Nat /\ k > 0 /\ -k \in Int /\ -k # 0 /\ -(-k) = k
              /\ \/ k \in DOMAIN sends /\ sends'[k] = sends[k] /\ -k # -(Len(sends) + 1)
                 \/ /\ k \notin DOMAIN sends /\ -k = -(Len(sends) + 1)
                    /\ activeChat \in Chats /\ sends'[k].chat = activeChat
                    /\ \E text \in Texts : SendMessage(text)
<1>1. sends \in Seq(Sent) /\ sends' \in Seq(Sent)
  BY StepKnown DEF Known, ReaderKnown, Sent
<1>2. CASE UNCHANGED sends
  BY <1>1, <1>2
<1>3. ASSUME NEW text \in Texts, SendMessage(text)
      PROVE  \A k \in DOMAIN sends' :
               /\ k \in Nat /\ k > 0 /\ -k \in Int /\ -k # 0 /\ -(-k) = k
               /\ \/ k \in DOMAIN sends /\ sends'[k] = sends[k] /\ -k # -(Len(sends) + 1)
                  \/ /\ k \notin DOMAIN sends /\ -k = -(Len(sends) + 1)
                     /\ activeChat \in Chats /\ sends'[k].chat = activeChat
  <2>1. /\ sends' = Append(sends, [chat |-> activeChat, text |-> text, ts |-> LastTs])
        /\ activeChat \in Chats
    BY <1>3 DEF SendMessage, Known, ReaderKnown
  <2> QED BY <1>1, <2>1
<1> QED BY <1>1, <1>2, <1>3, SendsGrow

LEMMA HeardGrows ==
  ASSUME [Next]_vars
  PROVE  heard \subseteq heard' \/ RestartDaemon
BY DEF Next, vars, MacFilesLate, Flush, MacServesHandle, RequestLost, daemonVars,
     MacMessage, PushesLost, MacServesPage, MacSends, MacRefuses, HandleMessage, Dispatch,
     LandPage, LandOlder, LandSend, LandFailure, OpenChat, CloseChat, ReloadActiveMessages,
     LoadOlderMessages, SendMessage, OnMessages, OnOlderMessages, OnOlderError, OnMessage,
     OnAck, AfterFrame, DropLink, Reconnect

(* The row of a send under way goes only for an echo of it, or when its    *)
(* ack is in.                                                              *)
LEMMA RowOutlives ==
  ASSUME Known, [Next]_vars, NEW t \in Int, t # 0, NEW c \in Chats, NEW text,
         OneAckOf(t), Places(t)',
         \A x \in Texts : SendMessage(x) => t # -(Len(sends) + 1),
         text = sends[-t].text,
         Places(t) => HasRow(threads[c], t) \/ \E g \in heard : EchoOf(g, c, text)
  PROVE  HasRow(threads'[c], t) \/ \E g \in heard' : EchoOf(g, c, text)'
<1>1. Places(t) /\ ~(OnAck /\ Head(frames).temp = t)
  BY AckFlow
<1>2. HasRow(threads'[c], t) \/ \E g \in heard : EchoOf(g, c, text)
  <2>1. CASE HasRow(threads[c], t)
    <3>1. \/ RowKept(t, threads[c], threads'[c])
          \/ \E g \in heard : EchoOf(g, c, text)
      BY <1>1, RowsFlow
    <3> QED BY <2>1, <3>1 DEF RowKept
  <2> QED BY <1>1, <2>1
<1>3. ASSUME NEW g \in heard, EchoOf(g, c, text)
      PROVE  g \in heard' /\ EchoOf(g, c, text)'
  <2>1. heard \subseteq heard'
    BY RestartEnds, HeardGrows
  <2>2. g \in DOMAIN filed /\ filed'[g] = filed[g]
    BY Grown DEF Known, WarmKnown, Extends
  <2> QED BY <1>3, <2>1, <2>2 DEF EchoOf
<1> QED BY <1>2, <1>3

LEMMA RowOfEachStays ==
  ASSUME Known, OneAckEach, RowOfEach, [Next]_vars
  PROVE  RowOfEach'
<1> SUFFICES ASSUME NEW k, k \in DOMAIN sends', Places(-k)',
                    NEW t, t = -k, NEW c, c = sends'[k].chat, NEW text, text = sends'[k].text
             PROVE  HasRow(threads'[c], t) \/ \E g \in heard' : EchoOf(g, c, text)'
  BY DEF RowOfEach, HasRow, EchoOf
<1>1. /\ t \in Int /\ t # 0 /\ -t = k
      /\ \/ k \in DOMAIN sends /\ sends'[k] = sends[k] /\ t # -(Len(sends) + 1)
         \/ /\ k \notin DOMAIN sends /\ t = -(Len(sends) + 1)
            /\ activeChat \in Chats /\ c = activeChat
            /\ \E x \in Texts : SendMessage(x)
  BY SendsKept
<1>p. Places(t)'
  OBVIOUS
<1>2. CASE k \notin DOMAIN sends
  <2>1. PICK x \in Texts : SendMessage(x)
    BY <1>1, <1>2
  <2>2. t \in Int /\ t = -(Len(sends) + 1) /\ c = activeChat /\ c \in Chats
    BY <1>1, <1>2
  <2>3. HasRow(threads'[c], t)
    BY <2>1, <2>2, SendFlow
  <2> QED BY <2>3
<1>3. CASE k \in DOMAIN sends
  <2>1. /\ t # -(Len(sends) + 1) /\ OneAckOf(t)
        /\ c = sends[k].chat /\ c \in Chats /\ text = sends[k].text
    <3>1. sends[k] \in Sent
      BY <1>3, SendsKept
    <3> QED BY <1>1, <1>3, <3>1 DEF OneAckEach, Sent
  <2>2. \A x \in Texts : SendMessage(x) => t # -(Len(sends) + 1)
    BY <2>1
  <2>3. text = sends[-t].text
    BY <1>1, <2>1
  <2>4. Places(t) => HasRow(threads[c], t) \/ \E g \in heard : EchoOf(g, c, text)
    BY <1>3, <2>1 DEF RowOfEach
  <2> QED BY <1>1, <1>p, <2>1, <2>2, <2>3, <2>4, RowOutlives
<1> QED BY <1>2, <1>3

LEMMA DropsGrow ==
  ASSUME Known, [Next]_vars
  PROVE  drops' = 0 => drops = 0
<1>1. drops \in Nat
  BY DEF Known, LinkKnown
<1>2. UNCHANGED drops \/ drops' = drops + 1
  BY DEF Next, vars, MacFilesLate, Flush, MacServesHandle, RequestLost, MacMessage,
       PushesLost, MacServesPage, MacSends, MacRefuses, HandleMessage, Dispatch, LandPage,
       LandOlder, LandSend, LandFailure, OpenChat, CloseChat, ReloadActiveMessages,
       LoadOlderMessages, SendMessage, OnMessages, OnOlderMessages, OnOlderError, OnMessage,
       OnAck, AfterFrame, DropLink, RestartDaemon, Reconnect
<1> QED BY <1>1, <1>2

LEMMA PlaceOfEachStays ==
  ASSUME Known, OneRowEach, OneAckEach, PlaceOfEach, [Next]_vars
  PROVE  PlaceOfEach'
<1> SUFFICES ASSUME drops' = 0, NEW c \in Chats, NEW k, k \in DOMAIN sends', NEW t, t = -k,
                    HasRow(threads'[c], t)
             PROVE  Places(t)'
  BY DEF PlaceOfEach, HasRow
<1>1. /\ t \in Int /\ t # 0 /\ -t = k
      /\ \/ k \in DOMAIN sends /\ t # -(Len(sends) + 1)
         \/ /\ k \notin DOMAIN sends /\ t = -(Len(sends) + 1)
            /\ \E x \in Texts : SendMessage(x)
  BY SendsKept
<1>2. CASE k \notin DOMAIN sends
  BY <1>1, <1>2, FirstAsked
<1>3. CASE k \in DOMAIN sends
  <2>1. t # -(Len(sends) + 1) /\ OneAckOf(t) /\ OneRow(threads[c])
    BY <1>1, <1>3 DEF OneAckEach, OneRowEach
  <2>2. \A x \in Texts : SendMessage(x) => t # -(Len(sends) + 1)
    BY <2>1
  <2>3. RowOld(t, threads[c], threads'[c]) /\ ~(OnAck /\ Head(frames).temp = t)
    BY <1>1, <2>1, RowsFlow
  <2>4. Places(t)
    BY <1>3, <2>3, DropsGrow DEF PlaceOfEach, RowOld
  <2> QED BY <1>1, <2>1, <2>2, <2>3, <2>4, AckFlow
<1> QED BY <1>1, <1>2, <1>3
SendsInvariant == Known /\ OneRowEach /\ OneAckEach /\ RowOfEach /\ PlaceOfEach

LEMMA InitSends == Init => SendsInvariant
<1> SUFFICES ASSUME Init PROVE SendsInvariant
  OBVIOUS
<1>1. Known
  BY InitKnown
<1>2. OneRowEach
  BY DEF Init, OneRowEach, OneRow
<1>3. DOMAIN sends = {}
  BY DEF Init
<1> QED BY <1>1, <1>2, <1>3 DEF SendsInvariant, OneAckEach, RowOfEach, PlaceOfEach

LEMMA StepSends == SendsInvariant /\ [Next]_vars => SendsInvariant'
BY StepKnown, OneRowEachStays, OneAckEachStays, RowOfEachStays, PlaceOfEachStays
   DEF SendsInvariant

LEMMA AlwaysSends == Spec => []SendsInvariant
BY InitSends, StepSends, PTL DEF Spec

(* A send on the wire has its row in its thread, through any reload, older *)
(* page, reopening, drop or restart, unless an own message in the same     *)
(* words was pushed (Client.qml replaceActiveMessages, absorbEcho).        *)
THEOREM SendsKeepTheirRows == Spec => []SendKeepsItsRow
<1>1. SendsInvariant => SendKeepsItsRow
  <2> SUFFICES ASSUME SendsInvariant, NEW k \in DOMAIN sends, AwaitsAck(-k)
               PROVE  \/ \E i \in DOMAIN threads[sends[k].chat] :
                           threads[sends[k].chat][i] = Optimistic(-k)
                      \/ \E g \in heard : /\ filed[g].fromMe /\ filed[g].chat = sends[k].chat
                                          /\ filed[g].text = sends[k].text
    BY DEF SendKeepsItsRow
  <2>1. Places(-k)
    BY AwaitsAckWhere DEF SendsInvariant, Known, PipesKnown
  <2> QED BY <2>1 DEF SendsInvariant, RowOfEach, HasRow, EchoOf
<1> QED BY <1>1, AlwaysSends, PTL

(* Until the link drops, a row that looks in flight is in flight: its send *)
(* is asked for, worked on or acknowledged, whichever chat the reader is   *)
(* in (Client.qml onAck, patchMessage; index.js send).                     *)
THEOREM PendingRowsAwaitAcks == Spec => [](drops = 0 => PendingHasAnAck)
<1>1. SendsInvariant => (drops = 0 => PendingHasAnAck)
  <2> SUFFICES ASSUME SendsInvariant, drops = 0, NEW c \in Chats, NEW i \in DOMAIN threads[c],
                      threads[c][i].state = "pending"
               PROVE  AwaitsAck(threads[c][i].temp)
    BY DEF PendingHasAnAck
  <2> DEFINE t == threads[c][i].temp
             k == -t
  <2>1. /\ threads[c][i] = Optimistic(t) /\ t \in Int /\ k \in DOMAIN sends
    <3>1. filed \in Seq(Messages) /\ sends \in Seq(Sent) /\ SoundThread(threads[c], c, filed, sends)
      BY DEF SendsInvariant, Known, MacKnown, ReaderKnown, Sent
    <3> QED BY <3>1, PendingRows
  <2>2. HasRow(threads[c], t) /\ t = -k
    BY <2>1 DEF HasRow
  <2> HIDE DEF t, k
  <2>3. Places(t)
    BY <2>1, <2>2 DEF SendsInvariant, PlaceOfEach
  <2>4. AwaitsAck(t)
    BY <2>3, AwaitsAckWhere DEF SendsInvariant, Known, PipesKnown
  <2> QED BY <2>4 DEF t
<1> QED BY <1>1, AlwaysSends, PTL
-----------------------------------------------------------------------------
(* Keys: the tempId a message bears, wherever a copy of it is *)

(* g bears the tempId t among these rows. *)
Bears(rows, g, t) == \E i \in DOMAIN rows : rows[i].guid = g /\ rows[i].temp = t

LEMMA BearsServed ==
  ASSUME NEW rows, Unstamped(rows), NEW g, NEW t, t # 0
  PROVE  ~Bears(rows, g, t)
BY DEF Unstamped, Bears

LEMMA BearsNothing ==
  ASSUME NEW g, NEW t
  PROVE  ~Bears(<<>>, g, t)
BY DEF Bears

LEMMA BearsAppended ==
  ASSUME NEW rows \in Seq(Rows), NEW row \in Rows, NEW g, NEW t,
         Bears(Append(rows, row), g, t)
  PROVE  Bears(rows, g, t) \/ (row.guid = g /\ row.temp = t)
<1> DEFINE new == Append(rows, row)
<1>1. \A i \in DOMAIN new : (i \in DOMAIN rows /\ new[i] = rows[i]) \/ new[i] = row
  OBVIOUS
<1>2. Bears(new, g, t)
  OBVIOUS
<1> HIDE DEF new
<1> QED BY <1>1, <1>2 DEF Bears

LEMMA BearsNewest ==
  ASSUME NEW rows \in Seq(Rows), NEW n \in Nat, NEW g, NEW t, Bears(Newest(rows, n), g, t)
  PROVE  Bears(rows, g, t)
<1> DEFINE new == Newest(rows, n)
<1>1. \A i \in DOMAIN new : \E k \in DOMAIN rows : new[i] = rows[k]
  BY NewestElements
<1>2. Bears(new, g, t)
  OBVIOUS
<1> HIDE DEF new
<1> QED BY <1>1, <1>2 DEF Bears

LEMMA BearsKeyed ==
  ASSUME NEW new, NEW rows, NEW old, Keyed(new, rows, old), NEW g, NEW t, Bears(new, g, t)
  PROVE  Bears(rows, g, t) \/ Bears(old, g, t)
<1>1. PICK i \in DOMAIN new : new[i].guid = g /\ new[i].temp = t
  BY DEF Bears
<1> QED BY <1>1 DEF Keyed, Bears

LEMMA BearsJoined ==
  ASSUME NEW new, NEW rows, NEW old, Joined(new, rows, old, InFlight(old)),
         NEW g, NEW t, Bears(new, g, t)
  PROVE  Bears(rows, g, t) \/ Bears(old, g, t)
<1>1. PICK i \in DOMAIN new : new[i].guid = g /\ new[i].temp = t
  BY DEF Bears
<1>2. (i \in DOMAIN rows /\ new[i] = rows[i]) \/ \E k \in InFlight(old) : new[i] = old[k]
  BY <1>1 DEF Joined
<1>3. InFlight(old) \subseteq DOMAIN old
  BY DEF InFlight
<1> QED BY <1>1, <1>2, <1>3 DEF Bears

LEMMA BearsOlder ==
  ASSUME NEW more \in Seq(Rows), NEW rows, NEW old \in Seq(Rows), Among(more, rows),
         NEW g, NEW t, Bears(more \o old, g, t)
  PROVE  Bears(rows, g, t) \/ Bears(old, g, t)
<1> DEFINE new == more \o old
<1>1. \A i \in DOMAIN new : \/ i \in DOMAIN more /\ new[i] = more[i]
                            \/ i - Len(more) \in DOMAIN old /\ new[i] = old[i - Len(more)]
  OBVIOUS
<1>2. Bears(new, g, t)
  OBVIOUS
<1> HIDE DEF new
<1> QED BY <1>1, <1>2 DEF Bears, Among

LEMMA BearsReplacing ==
  ASSUME NEW rows \in Seq(Rows), NEW row, NEW a \in DOMAIN rows, NEW g, NEW t,
         Bears([rows EXCEPT ![a] = row], g, t)
  PROVE  Bears(rows, g, t) \/ (row.guid = g /\ row.temp = t)
<1> DEFINE new == [rows EXCEPT ![a] = row]
<1>1. \A i \in DOMAIN new : (i \in DOMAIN rows /\ new[i] = rows[i]) \/ new[i] = row
  OBVIOUS
<1>2. Bears(new, g, t)
  OBVIOUS
<1> HIDE DEF new
<1> QED BY <1>1, <1>2 DEF Bears
OnWire(g, t) == \E i \in DOMAIN wire : wire[i].guid = g /\ wire[i].temp = t
InPages(g, t) == \E c \in Chats : Bears(pages[c], g, t)
InDisk(g, t) == \E c \in Chats : Bears(disk.pages[c], g, t)
InThreads(g, t) == \E c \in Chats : Bears(threads[c], g, t)

Answers(job, g, t) ==
  Bears(job.rows, g, t) \/ (job.phase = "answered" /\ job.guid = g /\ job.request.temp = t)
InJobs(g, t) == \E j \in Jobs : jobs[j] # Idle /\ Answers(jobs[j], g, t)

Tells(f, g, t) == Bears(f.rows, g, t) \/ (f.flag /\ f.guid = g /\ f.temp = t)
InFrames(g, t) == \E i \in DOMAIN frames : Tells(frames[i], g, t)

(* A message that a send is filed as bears the send's tempId.              *)
Fresh(g, t) == g = Len(filed) + 1 /\ wire'[Len(wire) + 1].temp = t

LEMMA WireSteps ==
  ASSUME [Next]_vars
  PROVE  \/ UNCHANGED wire \/ wire' = <<>> \/ HandleMessage
         \/ \E c \in Chats, handle \in Handles \cup {None}, fromMe \in BOOLEAN, text \in Texts,
           tick \in Ticks :
              MacMessage(c, handle, fromMe, text, tick)
         \/ \E j \in Jobs, phase \in {"answered", "refused"} : MacSends(j, phase)
         \/ \E temp \in late : MacFilesLate(temp)
BY DEF Next, vars, Flush, MacServesHandle, RequestLost, macVars, PushesLost, MacServesPage,
       MacRefuses,
       Dispatch, LandPage, LandOlder, LandSend, LandFailure, OpenChat, CloseChat,
       ReloadActiveMessages, LoadOlderMessages, SendMessage, OnMessages, OnOlderMessages,
       OnOlderError, OnMessage, OnAck, AfterFrame, DropLink, RestartDaemon, Reconnect

(* The first of the two copies the Mac pushes bears it. *)
LEMMA SentOnWire ==
  ASSUME Known, NEW temp, FileSend(temp)
  PROVE  /\ wire'[Len(wire) + 1].temp = temp
         /\ wire'[Len(wire) + 1].guid = Len(filed) + 1
         /\ \A i \in DOMAIN wire' :
              \/ i \in DOMAIN wire /\ wire'[i] = wire[i]
              \/ wire'[i].guid = Len(filed) + 1 /\ wire'[i].temp \in {temp, 0}
<1> DEFINE e == [guid |-> Len(filed) + 1, temp |-> temp]
           e2 == [guid |-> Len(filed) + 1, temp |-> 0]
<1>1. wire' = wire \o <<e, e2>> /\ wire \in Seq([guid : Nat, temp : Int])
  BY DEF FileSend, Known, MacKnown
<1>2. e.guid = Len(filed) + 1 /\ e.temp = temp
      /\ e2.guid = Len(filed) + 1 /\ e2.temp = 0
  OBVIOUS
<1> HIDE DEF e, e2
<1>3. Len(<<e, e2>>) = 2 /\ <<e, e2>>[1] = e /\ <<e, e2>>[2] = e2
      /\ <<e, e2>> \in Seq({e, e2})
  OBVIOUS
<1> DEFINE two == <<e, e2>>
<1>4. Len(two) = 2 /\ two[1] = e /\ two[2] = e2 /\ two \in Seq({e, e2})
  BY <1>3
<1>5. wire' = wire \o two
  BY <1>1
<1> HIDE DEF two
<1>6. wire'[Len(wire) + 1] = e
  BY <1>1, <1>4, <1>5
<1>7. \A i \in DOMAIN wire' : wire'[i] = e \/ wire'[i] = e2 \/ (i \in DOMAIN wire /\ wire'[i] = wire[i])
  <2> SUFFICES ASSUME NEW i \in DOMAIN wire'
               PROVE  wire'[i] = e \/ wire'[i] = e2 \/ (i \in DOMAIN wire /\ wire'[i] = wire[i])
    OBVIOUS
  <2>1. i \in 1..(Len(wire) + 2) /\ Len(wire) \in Nat
    BY <1>1, <1>4, <1>5
  <2>2. i \in DOMAIN wire \/ i = Len(wire) + 1 \/ i = Len(wire) + 2
    BY <1>1, <2>1
  <2> QED BY <1>1, <1>4, <1>5, <2>2
<1> QED BY <1>2, <1>6, <1>7

LEMMA WireFlow ==
  ASSUME Known, [Next]_vars, NEW g, NEW t, t # 0, OnWire(g, t)'
  PROVE  OnWire(g, t) \/ Fresh(g, t)
<1>t. wire \in Seq([guid : Nat, temp : Int])
  BY DEF Known, MacKnown
<1>0. PICK i \in DOMAIN wire' : wire'[i].guid = g /\ wire'[i].temp = t
  BY DEF OnWire
<1>1. CASE UNCHANGED wire
  BY <1>0, <1>1 DEF OnWire
<1>2. CASE wire' = <<>>
  BY <1>0, <1>2
<1>3. CASE HandleMessage
  <2>1. wire # <<>> /\ wire' = Tail(wire)
    BY <1>3 DEF HandleMessage
  <2>2. i + 1 \in DOMAIN wire /\ wire[i + 1] = wire'[i]
    BY <1>t, <1>0, <2>1
  <2> QED BY <1>0, <2>2 DEF OnWire
<1>4. ASSUME NEW c \in Chats, NEW handle \in Handles \cup {None}, NEW fromMe \in BOOLEAN,
             NEW text \in Texts, NEW tick \in Ticks,
             MacMessage(c, handle, fromMe, text, tick)
      PROVE  OnWire(g, t)
  <2> DEFINE e == [guid |-> Len(filed) + 1, temp |-> 0]
  <2>1. wire' = Append(wire, e) /\ e.temp = 0
    BY <1>4 DEF MacMessage
  <2> HIDE DEF e
  <2>2. (i \in DOMAIN wire /\ wire'[i] = wire[i]) \/ wire'[i] = e
    BY <1>t, <1>0, <2>1
  <2> QED BY <1>0, <2>1, <2>2 DEF OnWire
<1>5. ASSUME NEW temp, FileSend(temp) PROVE OnWire(g, t) \/ Fresh(g, t)
  BY <1>0, <1>5, SentOnWire DEF OnWire, Fresh
<1> QED BY <1>1, <1>2, <1>3, <1>4, <1>5, WireSteps DEF MacSends, MacFilesLate

LEMMA JobsFlow ==
  ASSUME Known, [Next]_vars, NEW g, NEW t, t # 0, InJobs(g, t)'
  PROVE  InJobs(g, t) \/ Fresh(g, t)
<1>t. /\ jobs \in [Jobs -> {Idle} \cup BusyJobs]
      /\ \A i \in Jobs : jobs[i].phase # "free" => jobs[i] # Idle /\ jobs[i] \in BusyJobs
                                                   /\ SoundRequest(jobs[i].request, sends)
  BY BusyIsJob DEF Known, JobsKnown, SoundJob
<1>0. PICK j \in Jobs : jobs'[j] # Idle /\ Answers(jobs'[j], g, t)
  BY DEF InJobs, Answers, Bears
<1>s. ASSUME jobs'[j] = jobs[j] PROVE InJobs(g, t)
  BY <1>0, <1>s DEF InJobs
<1>r. ASSUME NEW k \in Jobs, AsksForPage(k, "asked") \/ AsksForPage(k, "byHandle"),
             NEW rows, Unstamped(rows),
             jobs' = [jobs EXCEPT ![k].phase = "answered", ![k].rows = rows]
      PROVE  InJobs(g, t)
  <2> DEFINE q == jobs[k].request
  <2>1. CASE j # k
    BY <1>s, <1>t, <1>r, <2>1
  <2>2. CASE j = k
    <3>1. jobs[k] \in BusyJobs /\ SoundRequest(q, sends) /\ q.kind # "send"
      BY <1>t, <1>r DEF AsksForPage
    <3>2. q.temp = 0
      BY <3>1 DEF SoundRequest
    <3>4. jobs'[k].rows = rows /\ jobs'[k].request = jobs[k].request
      BY <1>t, <1>r, <3>1 DEF BusyJobs
    <3> QED BY <1>0, <1>r, <2>2, <3>2, <3>4, BearsServed DEF Answers
  <2> QED BY <2>1, <2>2
<1>n. ASSUME NEW k \in Jobs, jobs[k].phase # "free", NEW phase \in {"byHandle", "refused"},
             jobs' = [jobs EXCEPT ![k].phase = phase]
      PROVE  InJobs(g, t)
  <2>1. CASE j # k
    BY <1>s, <1>t, <1>n, <2>1
  <2>2. CASE j = k
    <3>1. jobs[k] \in BusyJobs /\ jobs[k] # Idle
      BY <1>t, <1>n
    <3>2. jobs'[k].rows = jobs[k].rows /\ jobs'[k].phase = phase
      BY <1>t, <1>n, <3>1 DEF BusyJobs
    <3> QED BY <1>0, <2>2, <3>1, <3>2 DEF Answers, InJobs
  <2> QED BY <2>1, <2>2
<1>1. ASSUME NEW k \in Jobs, MacServesPage(k) PROVE InJobs(g, t)
  <2> DEFINE q == jobs[k].request
             page == Page(q.chat, q.before)
  <2>1. Unstamped(page)
    BY ServedPageIsSound DEF Known, MacKnown
  <2>2. /\ AsksForPage(k, "asked")
        /\ \/ jobs' = [jobs EXCEPT ![k].phase = "answered", ![k].rows = page]
           \/ jobs' = [jobs EXCEPT ![k].phase = "byHandle"]
    BY <1>1 DEF MacServesPage
  <2> HIDE DEF page
  <2>3. jobs[k].phase # "free"
    BY <2>2 DEF AsksForPage
  <2> QED BY <1>r, <1>n, <2>1, <2>2, <2>3
<1>h. ASSUME NEW k \in Jobs, MacServesHandle(k) PROVE InJobs(g, t)
  <2> DEFINE q == jobs[k].request
             page == PageByHandle(Solo[q.chat], q.before)
  <2>0. /\ AsksForPage(k, "byHandle")
        /\ jobs' = [jobs EXCEPT ![k].phase = "answered", ![k].rows = page]
    BY <1>h DEF MacServesHandle
  <2>1. SoundJob(jobs[k], filed, sends) /\ jobs[k].phase = "byHandle"
    BY <2>0, BusyIsJob DEF AsksForPage, Known
  <2>2. Solo[q.chat] # None
    BY <2>1 DEF SoundJob
  <2>3. Unstamped(page)
    BY <2>2, HandlePageIsSound DEF Known, MacKnown
  <2> HIDE DEF page
  <2> QED BY <1>r, <2>0, <2>3
<1>2. ASSUME NEW k \in Jobs, NEW phase \in {"answered", "refused"}, MacSends(k, phase)
      PROVE  InJobs(g, t) \/ Fresh(g, t)
  <2>1. CASE j # k
    BY <1>s, <1>t, <1>2, <2>1 DEF MacSends
  <2>2. CASE j = k
    <3>1. jobs[k] \in BusyJobs /\ jobs[k] # Idle
      BY <1>t, <1>2 DEF MacSends, AsksToSend
    <3>2. jobs'[k].rows = jobs[k].rows /\ jobs'[k].request = jobs[k].request
          /\ jobs'[k].guid = Len(filed) + 1
      BY <1>t, <1>2, <3>1 DEF MacSends, BusyJobs
    <3>3. wire'[Len(wire) + 1].temp = jobs[k].request.temp
      BY <1>2, SentOnWire DEF MacSends
    <3> QED BY <1>0, <2>2, <3>1, <3>2, <3>3 DEF Answers, InJobs, Fresh
  <2> QED BY <2>1, <2>2
<1>3. ASSUME NEW k \in Jobs, MacRefuses(k) \/ RequestLost(k) PROVE InJobs(g, t)
  <2>1. jobs[k].phase # "free" /\ jobs' = [jobs EXCEPT ![k].phase = "refused"]
    BY <1>3 DEF MacRefuses, RequestLost, AsksToSend
  <2> QED BY <1>n, <2>1
<1>4. ASSUME NEW k \in Jobs, Dispatch(k) PROVE InJobs(g, t)
  <2>1. CASE j # k
    BY <1>s, <1>t, <1>4, <2>1 DEF Dispatch
  <2>2. CASE j = k
    <3>1. jobs'[k].rows = NoRows /\ jobs'[k].phase = "asked"
      BY <1>t, <1>4 DEF Dispatch, Job, NoRows
    <3>2. ~Bears(NoRows, g, t)
      BY BearsNothing DEF NoRows
    <3> QED BY <1>0, <2>2, <3>1, <3>2 DEF Answers
  <2> QED BY <2>1, <2>2
<1>5. ASSUME NEW k \in Jobs, Done(k) PROVE InJobs(g, t)
  BY <1>0, <1>s, <1>t, <1>5 DEF Done
<1>6. CASE DropLink
  <2>1. jobs'[j] = IF j \in Busy THEN [jobs[j] EXCEPT !.live = FALSE] ELSE jobs[j]
    BY <1>6 DEF DropLink
  <2>2. CASE j \in Busy
    <3>1. jobs[j] \in BusyJobs /\ jobs[j] # Idle
      BY <1>t, <2>2 DEF Busy
    <3>2. jobs'[j].rows = jobs[j].rows /\ jobs'[j].phase = jobs[j].phase
          /\ jobs'[j].guid = jobs[j].guid /\ jobs'[j].request = jobs[j].request
      BY <2>1, <2>2, <3>1 DEF BusyJobs
    <3> QED BY <1>0, <3>1, <3>2 DEF Answers, InJobs
  <2> QED BY <1>s, <2>1, <2>2
<1>7. CASE RestartDaemon
  BY <1>0, <1>7 DEF RestartDaemon
<1>8. \/ UNCHANGED jobs \/ DropLink \/ RestartDaemon
      \/ \E k \in Jobs : MacServesPage(k) \/ MacServesHandle(k) \/ MacRefuses(k) \/ RequestLost(k)
                         \/ Dispatch(k) \/ Done(k)
      \/ \E k \in Jobs, phase \in {"answered", "refused"} : MacSends(k, phase)
  BY DEF Next, vars, MacFilesLate, Flush, MacMessage, PushesLost, HandleMessage,
         LandPage, LandOlder, LandSend, LandFailure, OpenChat, CloseChat,
         ReloadActiveMessages, LoadOlderMessages, SendMessage, OnMessages, OnOlderMessages,
         OnOlderError, OnMessage, OnAck, AfterFrame, Reconnect
<1> QED BY <1>s, <1>1, <1>h, <1>2, <1>3, <1>4, <1>5, <1>6, <1>7, <1>8

LEMMA PagesFlow ==
  ASSUME Known, [Next]_vars, NEW g, NEW t, InPages(g, t)'
  PROVE  InPages(g, t) \/ InDisk(g, t) \/ OnWire(g, t) \/ InJobs(g, t)
<1>t. /\ pages \in [Chats -> Seq(Rows)] /\ PageSize \in Nat
      /\ wire \in Seq([guid : Nat, temp : Int])
  BY ThreadAssumptions DEF Known, WarmKnown, MacKnown
<1>0. PICK d \in Chats : Bears(pages'[d], g, t)
  BY DEF InPages, Bears
<1>1. CASE pages' = pages
  BY <1>0, <1>1 DEF InPages
<1>2. CASE HandleMessage
  <2> DEFINE e == Head(wire)
             c == filed[e.guid].chat
             row == Row(e.guid, e.temp)
             page == Newest(Append(pages[c], row), PageSize)
  <2>1. c \in Chats /\ row \in Rows /\ wire # <<>>
    BY <1>2, PushedRow DEF HandleMessage, ShownRow
  <2>2. row.guid = e.guid /\ row.temp = e.temp
    BY DEF Row
  <2>3. pages' = pages \/ pages' = [pages EXCEPT ![c] = page]
    BY <1>2 DEF HandleMessage, AppendToThread
  <2>4. 1 \in DOMAIN wire /\ wire[1] = e
    BY <1>t, <2>1
  <2> HIDE DEF row, c, e
  <2>5. pages[c] \in Seq(Rows) /\ Append(pages[c], row) \in Seq(Rows)
    BY <1>t, <2>1
  <2>6. ASSUME Bears(page, g, t) PROVE InPages(g, t) \/ OnWire(g, t)
    <3>1. Bears(Append(pages[c], row), g, t)
      BY <1>t, <2>5, <2>6, BearsNewest
    <3>2. Bears(pages[c], g, t) \/ (row.guid = g /\ row.temp = t)
      BY <2>1, <2>5, <3>1, BearsAppended
    <3> QED BY <2>1, <2>2, <2>4, <3>2 DEF InPages, OnWire
  <2> HIDE DEF page
  <2>7. pages'[d] = pages[d] \/ pages'[d] = page
    BY <1>t, <2>1, <2>3
  <2> QED BY <1>0, <2>6, <2>7 DEF InPages
<1>3. ASSUME NEW j \in Jobs, LandPage(j) PROVE InPages(g, t) \/ InJobs(g, t)
  <2>1. pages'[d] = jobs[j].rows \/ pages'[d] = pages[d] \/ pages'[d] = <<>>
    BY <1>3 DEF LandPage
  <2>2. jobs[j] # Idle
    BY <1>3 DEF LandPage, Idle
  <2> QED BY <1>0, <2>1, <2>2, BearsNothing DEF InPages, InJobs, Answers
<1>5. CASE RestartDaemon
  <2>1. pages' = pages \/ pages' = disk.pages
    BY <1>5 DEF RestartDaemon, Cached
  <2> QED BY <1>0, <2>1 DEF InPages, InDisk
<1>4. pages' = pages \/ HandleMessage \/ RestartDaemon \/ \E j \in Jobs : LandPage(j)
  BY DEF Next, vars, MacFilesLate, Flush, MacServesHandle, RequestLost, macVars, daemonVars,
       MacMessage, PushesLost, MacServesPage, MacSends, MacRefuses, Dispatch, LandOlder,
       LandSend, LandFailure, OpenChat, CloseChat, ReloadActiveMessages, LoadOlderMessages,
       SendMessage, OnMessages, OnOlderMessages, OnOlderError, OnMessage, OnAck, AfterFrame,
       DropLink, Reconnect
<1> QED BY <1>1, <1>2, <1>3, <1>5, <1>4

LEMMA DiskFlow ==
  ASSUME [Next]_vars, NEW g, NEW t, InDisk(g, t)'
  PROVE  InDisk(g, t) \/ InPages(g, t)
<1>1. disk' = disk \/ disk' = Cached
  BY DiskSteps
<1> QED BY <1>1 DEF InDisk, InPages, Cached

LEMMA TellsPlain ==
  ASSUME NEW kind, NEW c, NEW rows, NEW flag, NEW g, NEW t, t # 0,
         \/ Tells([Frame(kind, c, rows) EXCEPT !.flag = flag], g, t)
         \/ Tells(Frame(kind, c, rows), g, t)
  PROVE  Bears(rows, g, t)
BY DEF Tells, Frame

LEMMA FramesFlow ==
  ASSUME Known, [Next]_vars, NEW g, NEW t, t # 0, InFrames(g, t)'
  PROVE  InFrames(g, t) \/ InPages(g, t) \/ OnWire(g, t) \/ InJobs(g, t)
<1>t. /\ frames \in Seq(Frames) /\ wire \in Seq([guid : Nat, temp : Int])
      /\ \A j \in Jobs : jobs[j].phase # "free" => jobs[j] # Idle /\ jobs[j] \in BusyJobs
  BY BusyIsJob DEF Known, PipesKnown, MacKnown
<1>0. PICK i \in DOMAIN frames' : Tells(frames'[i], g, t)
  BY DEF InFrames, Tells, Bears
<1>m. ASSUME NEW f, frames' = Append(frames, f) \/ UNCHANGED frames
      PROVE  InFrames(g, t) \/ Tells(f, g, t)
  <2>1. (i \in DOMAIN frames /\ frames'[i] = frames[i]) \/ frames'[i] = f
    BY <1>t, <1>0, <1>m
  <2> QED BY <1>0, <2>1 DEF InFrames
<1>1. CASE UNCHANGED frames
  BY <1>0, <1>1 DEF InFrames
<1>2. CASE frames' = <<>>
  BY <1>0, <1>2
<1>3. ASSUME NEW kind, Arrived(kind) PROVE InFrames(g, t)
  <2>1. frames # <<>> /\ frames' = Tail(frames)
    BY <1>3 DEF Arrived
  <2>2. i + 1 \in DOMAIN frames /\ frames[i + 1] = frames'[i]
    BY <1>t, <1>0, <2>1
  <2> QED BY <1>0, <2>2 DEF InFrames
<1>4. CASE HandleMessage
  <2> DEFINE e == Head(wire)
             row == Row(e.guid, e.temp)
             rows == <<row>>
             f == Frame("message", filed[e.guid].chat, rows)
  <2>1. wire # <<>> /\ (frames' = Append(frames, f) \/ UNCHANGED frames)
    BY <1>4 DEF HandleMessage, Broadcast
  <2>2. 1 \in DOMAIN wire /\ wire[1] = e
    BY <1>t, <2>1
  <2>3. row.guid = e.guid /\ row.temp = e.temp
    BY DEF Row
  <2> HIDE DEF row
  <2>4. \A n \in DOMAIN rows : rows[n] = row
    OBVIOUS
  <2> HIDE DEF rows
  <2>5. Tells(f, g, t) => Bears(rows, g, t)
    BY TellsPlain
  <2> HIDE DEF f, e
  <2>6. Bears(rows, g, t) => OnWire(g, t)
    BY <2>2, <2>3, <2>4 DEF Bears, OnWire
  <2> QED BY <1>m, <2>1, <2>5, <2>6
<1>5. ASSUME NEW j \in Jobs, Dispatch(j) PROVE InFrames(g, t) \/ InPages(g, t)
  <2> DEFINE q == Head(requests)
             f == Frame("messages", q.chat, pages[q.chat])
  <2>1. q.chat \in Chats
    BY <1>5, FirstRequest DEF Dispatch, Requests
  <2>2. frames' = Append(frames, f) \/ UNCHANGED frames
    BY <1>5 DEF Dispatch
  <2> HIDE DEF q
  <2>3. Tells(f, g, t) => Bears(pages[q.chat], g, t)
    BY TellsPlain
  <2> HIDE DEF f
  <2> QED BY <1>m, <2>1, <2>2, <2>3 DEF InPages
<1>6. ASSUME NEW j \in Jobs, LandPage(j) \/ LandOlder(j) PROVE InFrames(g, t) \/ InJobs(g, t)
  <2> DEFINE q == jobs[j].request
             rows == jobs[j].rows
             none == \A n \in DOMAIN rows : filed[rows[n].guid].ts >= q.before
             f1 == Frame("messages", q.chat, rows)
             f2 == [Frame("older", q.chat, rows) EXCEPT !.flag = none]
  <2>1. \/ UNCHANGED frames \/ frames' = Append(frames, f1) \/ frames' = Append(frames, f2)
    BY <1>6 DEF LandPage, LandOlder, Reply
  <2>2. jobs[j] # Idle
    BY <1>6 DEF LandPage, LandOlder, Idle
  <2> HIDE DEF none, q, rows
  <2>3. (Tells(f1, g, t) => Bears(rows, g, t)) /\ (Tells(f2, g, t) => Bears(rows, g, t))
    BY TellsPlain
  <2> HIDE DEF f1, f2
  <2>4. Bears(rows, g, t) => InJobs(g, t)
    BY <2>2 DEF rows, InJobs, Answers
  <2> QED BY <1>m, <1>1, <2>1, <2>3, <2>4
<1>7. ASSUME NEW j \in Jobs, LandSend(j) PROVE InFrames(g, t) \/ InJobs(g, t)
  <2> DEFINE q == jobs[j].request
             f == DoneAck(q.chat, q.temp, jobs[j].guid)
  <2>1. /\ jobs[j].phase = "answered" /\ jobs[j] # Idle /\ jobs[j] \in BusyJobs
        /\ frames' = Append(frames, f) \/ UNCHANGED frames
    BY <1>t, <1>7 DEF LandSend, Reply, DoneAck, NoRows
  <2>2. f.rows = NoRows /\ f.temp = q.temp /\ f.guid = jobs[j].guid
    <3>1. jobs[j].guid \in Nat /\ q.chat \in Chats /\ q.temp \in Int
      BY <2>1 DEF BusyJobs, Requests
    <3> QED BY <3>1, AckFrame
  <2>3. ~Bears(NoRows, g, t)
    BY BearsNothing DEF NoRows
  <2> HIDE DEF f
  <2>4. Tells(f, g, t) => InJobs(g, t)
    BY <2>1, <2>2, <2>3 DEF Tells, InJobs, Answers
  <2> QED BY <1>m, <2>1, <2>4
<1>8. ASSUME NEW j \in Jobs, LandFailure(j) PROVE InFrames(g, t)
  <2> DEFINE q == jobs[j].request
             f1 == Frame("error", q.chat, NoRows)
             f2 == FailedAck(q.chat, q.temp)
  <2>1. jobs[j] \in BusyJobs
    BY <1>t, <1>8 DEF LandFailure
  <2>2. \/ UNCHANGED frames \/ frames' = Append(frames, f1) \/ frames' = Append(frames, f2)
    <3>1. q.kind \in {"messages", "older", "send"}
      BY <2>1 DEF BusyJobs, Requests
    <3> QED BY <1>8, <3>1 DEF LandFailure, Reply, FailedAck, NoRows
  <2>3. ~Bears(NoRows, g, t)
    BY BearsNothing DEF NoRows
  <2>4. f2.rows = NoRows /\ f2.flag = FALSE
    BY DEF FailedAck, Frame
  <2>5. ~Tells(f1, g, t)
    BY <2>3, TellsPlain
  <2> HIDE DEF f1, f2
  <2>6. ~Tells(f2, g, t)
    BY <2>3, <2>4 DEF Tells
  <2>7. CASE UNCHANGED frames
    BY <1>0, <2>7 DEF InFrames
  <2> QED BY <1>m, <2>2, <2>5, <2>6, <2>7
<1>9. \/ UNCHANGED frames \/ frames' = <<>> \/ \E kind : Arrived(kind)
      \/ HandleMessage
      \/ \E j \in Jobs : Dispatch(j) \/ LandPage(j) \/ LandOlder(j) \/ LandSend(j) \/ LandFailure(j)
  BY DEF Next, vars, MacFilesLate, Flush, MacServesHandle, RequestLost, pipeVars,
       MacMessage, PushesLost, MacServesPage, MacSends, MacRefuses, OpenChat, CloseChat,
       ReloadActiveMessages, LoadOlderMessages, SendMessage, OnMessages, OnOlderMessages,
       OnOlderError, OnMessage, OnAck, AfterFrame, DropLink, RestartDaemon, Reconnect
<1> QED BY <1>1, <1>2, <1>3, <1>4, <1>5, <1>6, <1>7, <1>8, <1>9

LEMMA PageKeysFlow ==
  ASSUME Known, OnMessages \/ OnOlderMessages, NEW g, NEW t, NEW c \in Chats,
         Bears(threads'[c], g, t)
  PROVE  Bears(threads[c], g, t) \/ InFrames(g, t)
<1> DEFINE f == Head(frames)
           old == threads[f.chat]
           rows == f.rows
           page == WithKnownTempIds(rows, old)
<1>k. filed \in Seq(Messages) /\ threads \in [Chats -> Seq(Rows)] /\ frames \in Seq(Frames)
  BY DEF Known, MacKnown, ReaderKnown, PipesKnown
<1>1. /\ f.chat \in Chats /\ SoundPage(rows, f.chat, filed, sends)
      /\ SoundThread(old, f.chat, filed, sends) /\ old \in Seq(Rows) /\ frames # <<>>
  BY FrameRows DEF OnMessages, OnOlderMessages
<1>2. \/ threads' = threads
      \/ threads' = [threads EXCEPT ![f.chat] = Replaced(page, old)]
      \/ threads' = [threads EXCEPT ![f.chat] = NotShown(rows, old) \o old]
  BY DEF OnMessages, OnOlderMessages, WithOlder
<1>3. Bears(rows, g, t) => InFrames(g, t)
  <2>1. 1 \in DOMAIN frames /\ frames[1] = f
    BY <1>1, <1>k
  <2> QED BY <2>1 DEF InFrames, Tells
<1> HIDE DEF f, old, rows
<1>4. SoundPage(page, f.chat, filed, sends) /\ Keyed(page, rows, old)
  BY <1>1, <1>k, KnownTempIdsAreSound
<1> HIDE DEF page
<1>5. Joined(Replaced(page, old), page, old, InFlight(old))
  BY <1>1, <1>4, ReplacedIsSound
<1>6. SoundThread(NotShown(rows, old), f.chat, filed, sends) /\ Among(NotShown(rows, old), rows)
  BY <1>1, NotShownIsSound
<1>n. NotShown(rows, old) \in Seq(Rows)
  BY <1>6 DEF SoundThread
<1>7. Bears(Replaced(page, old), g, t) => Bears(old, g, t) \/ InFrames(g, t)
  BY <1>3, <1>4, <1>5, BearsJoined, BearsKeyed
<1>8. Bears(NotShown(rows, old) \o old, g, t) => Bears(old, g, t) \/ InFrames(g, t)
  BY <1>1, <1>3, <1>6, <1>n, BearsOlder
<1>9. \/ threads'[c] = threads[c]
      \/ threads[c] = old /\ threads'[c] = Replaced(page, old)
      \/ threads[c] = old /\ threads'[c] = NotShown(rows, old) \o old
  BY <1>1, <1>2, <1>k DEF old
<1> QED BY <1>7, <1>8, <1>9

LEMMA EchoKeysFlow ==
  ASSUME Known, OnMessage, NEW g, NEW t, NEW c \in Chats, Bears(threads'[c], g, t)
  PROVE  Bears(threads[c], g, t) \/ InFrames(g, t)
<1> DEFINE f == Head(frames)
           old == threads[f.chat]
           m == Head(f.rows)
           new == WithMessage(old, m)
<1>k. threads \in [Chats -> Seq(Rows)] /\ frames \in Seq(Frames)
  BY DEF Known, ReaderKnown, PipesKnown
<1>1. /\ f.chat \in Chats /\ SoundPage(f.rows, f.chat, filed, sends)
      /\ SoundThread(old, f.chat, filed, sends) /\ Len(f.rows) = 1 /\ frames # <<>>
  BY FrameRows DEF OnMessage, SoundFrame
<1>2. ShownRow(m, f.chat, filed, sends) /\ 1 \in DOMAIN f.rows /\ m = f.rows[1]
  BY <1>1 DEF SoundPage
<1>t. old \in Seq(Rows) /\ m \in Rows
  BY <1>1, <1>2 DEF SoundThread, ShownRow
<1>3. threads' = threads \/ threads' = [threads EXCEPT ![f.chat] = new]
  BY DEF OnMessage
<1>4. m.guid = g /\ m.temp = t => InFrames(g, t)
  <2>1. 1 \in DOMAIN frames /\ frames[1] = f
    BY <1>1, <1>k
  <2> QED BY <1>2, <2>1 DEF InFrames, Tells, Bears
<1> HIDE DEF f, old, m
<1>s. SoundThread(old, f.chat, filed, sends) /\ ShownRow(m, f.chat, filed, sends)
  BY <1>1, <1>2
<1>5. \/ new = Append(old, m)
      \/ \E a \in DOMAIN old : new = [old EXCEPT ![a] = m]
  BY <1>s, WithMessageSteps
<1> HIDE DEF new
<1>6. Bears(new, g, t) => Bears(old, g, t) \/ InFrames(g, t)
  <2>1. CASE new = Append(old, m)
    BY <1>t, <1>4, <2>1, BearsAppended
  <2>2. ASSUME NEW a \in DOMAIN old, new = [old EXCEPT ![a] = m], Bears(new, g, t)
        PROVE  Bears(old, g, t) \/ InFrames(g, t)
    BY <1>t, <1>4, <2>2, BearsReplacing
  <2> QED BY <1>5, <2>1, <2>2
<1>7. threads'[c] = threads[c] \/ (threads[c] = old /\ threads'[c] = new)
  BY <1>1, <1>3, <1>k DEF old
<1> QED BY <1>6, <1>7

LEMMA AckKeysFlow ==
  ASSUME Known, OnAck, NEW g \in Int, g > 0, NEW t, NEW c \in Chats, Bears(threads'[c], g, t)
  PROVE  Bears(threads[c], g, t) \/ InFrames(g, t)
<1> DEFINE f == Head(frames)
           old == threads[f.chat]
           new == Patched(old, f)
<1>k. /\ filed \in Seq(Messages) /\ sends \in Seq(Sent) /\ threads \in [Chats -> Seq(Rows)]
      /\ frames \in Seq(Frames)
  BY DEF Known, MacKnown, ReaderKnown, PipesKnown, Sent
<1>1. /\ f.chat \in Chats /\ SoundThread(old, f.chat, filed, sends) /\ old \in Seq(Rows)
      /\ SoundFrame(f, filed, sends, heard) /\ f.kind = "ack" /\ frames # <<>>
  BY FrameRows DEF OnAck
<1>2. threads' = [threads EXCEPT ![f.chat] = new]
  BY DEF OnAck
<1>3. f.flag /\ f.guid = g /\ f.temp = t => InFrames(g, t)
  <2>1. 1 \in DOMAIN frames /\ frames[1] = f
    BY <1>1, <1>k
  <2> QED BY <2>1 DEF InFrames, Tells
<1> HIDE DEF f, old
<1>s. f.temp \in Int /\ f.temp < 0
  <2>1. f.temp \in Int /\ -f.temp \in DOMAIN sends
    BY <1>1 DEF SoundFrame, SentBy, Frames
  <2> QED BY <1>k, <2>1
<1>4. \/ new = old
      \/ \E a \in DOMAIN old : old[a].guid = f.temp /\ new = [old EXCEPT ![a] = PatchedRow(old[a], f)]
  BY <1>1, PatchedSteps
<1> HIDE DEF new
<1>5. ASSUME NEW a \in DOMAIN old, old[a].guid = f.temp,
             PatchedRow(old[a], f).guid = g, PatchedRow(old[a], f).temp = t
      PROVE  InFrames(g, t)
  <2>1. ThreadRow(old[a], f.chat, filed, sends) /\ old[a] \in Rows
    BY <1>1 DEF SoundThread
  <2>2. old[a].temp = f.temp
    BY <1>5, <1>k, <1>s, <2>1, RowSigns
  <2>3. CASE f.flag
    <3>1. f.guid = g /\ old[a].temp = t
      BY <1>5, <2>1, <2>3 DEF PatchedRow, Rows
    <3> QED BY <1>3, <2>2, <2>3, <3>1
  <2>4. CASE ~f.flag
    <3>1. old[a].guid = g
      BY <1>5, <2>1, <2>4 DEF PatchedRow, Rows
    <3> QED BY <1>5, <1>s, <3>1
  <2> QED BY <2>3, <2>4
<1>6. Bears(new, g, t) => Bears(old, g, t) \/ InFrames(g, t)
  BY <1>1, <1>4, <1>5, BearsReplacing
<1>7. threads'[c] = threads[c] \/ (threads[c] = old /\ threads'[c] = new)
  BY <1>1, <1>2, <1>k DEF old
<1> QED BY <1>6, <1>7

LEMMA ThreadsFlow ==
  ASSUME Known, [Next]_vars, NEW g \in Int, g > 0, NEW t, InThreads(g, t)'
  PROVE  InThreads(g, t) \/ InFrames(g, t)
<1>0. PICK c \in Chats : Bears(threads'[c], g, t)
  BY DEF InThreads, Bears
<1>1. CASE UNCHANGED threads
  BY <1>0, <1>1 DEF InThreads
<1>2. CASE OnMessages \/ OnOlderMessages
  BY <1>0, <1>2, PageKeysFlow DEF InThreads
<1>3. CASE OnMessage
  BY <1>0, <1>3, EchoKeysFlow DEF InThreads
<1>4. CASE OnAck
  BY <1>0, <1>4, AckKeysFlow DEF InThreads
<1>5. ASSUME NEW text \in Texts, SendMessage(text) PROVE InThreads(g, t)
  <2> DEFINE n == -(Len(sends) + 1)
             row == Optimistic(n)
             old == threads[activeChat]
  <2>1. /\ sends \in Seq(Sent) /\ threads \in [Chats -> Seq(Rows)] /\ activeChat \in Chats
        /\ threads' = [threads EXCEPT ![activeChat] = Append(old, row)]
    BY <1>5 DEF Known, ReaderKnown, SendMessage, Sent
  <2>2. n \in Int /\ n < 0
    BY <2>1
  <2> HIDE DEF n
  <2>3. row \in Rows /\ row.guid = n
    BY <2>2 DEF Optimistic, Rows
  <2>4. old \in Seq(Rows)
    BY <2>1
  <2> HIDE DEF row
  <2>5. Bears(Append(old, row), g, t) => Bears(old, g, t)
    BY <2>2, <2>3, <2>4, BearsAppended
  <2>6. threads'[c] = threads[c] \/ (threads[c] = old /\ threads'[c] = Append(old, row))
    BY <2>1
  <2> QED BY <1>0, <2>5, <2>6 DEF InThreads
<1> QED BY <1>1, <1>2, <1>3, <1>4, <1>5, ThreadSteps

(* The message g carries the tempId t somewhere between the Mac and the panel. *)
Stamped(g, t) ==
  \/ OnWire(g, t) \/ InPages(g, t) \/ InDisk(g, t) \/ InThreads(g, t) \/ InJobs(g, t)
  \/ InFrames(g, t)

(* A message bears one tempId at most, whichever copy of it is looked at. *)
OneKeyEach ==
  \A g \in Nat \ {0}, t, u \in Int \ {0} : Stamped(g, t) /\ Stamped(g, u) => t = u

LEMMA StampedIsFiled ==
  ASSUME Known, NEW g \in Nat \ {0}, NEW t \in Int \ {0}, Stamped(g, t)
  PROVE  g \in DOMAIN filed
<1>p. ASSUME NEW rows, NEW c, SoundPage(rows, c, filed, sends), Bears(rows, g, t)
      PROVE  g \in DOMAIN filed
  BY <1>p DEF SoundPage, ShownRow, IsMessage, Bears
<1>1. CASE OnWire(g, t)
  BY <1>1 DEF OnWire, Known, MacKnown, SoundPush
<1>2. CASE InPages(g, t)
  BY <1>p, <1>2 DEF InPages, Known, WarmKnown
<1>d. CASE InDisk(g, t)
  BY <1>p, <1>d DEF InDisk, Known, DiskKnown, SoundWarm
<1>3. CASE InThreads(g, t)
  <2>1. PICK c \in Chats : Bears(threads[c], g, t)
    BY <1>3 DEF InThreads
  <2>2. PICK i \in DOMAIN threads[c] : threads[c][i].guid = g
    BY <2>1 DEF Bears
  <2>3. /\ filed \in Seq(Messages) /\ sends \in Seq(Sent)
        /\ ThreadRow(threads[c][i], c, filed, sends)
    BY DEF Known, MacKnown, ReaderKnown, SoundThread, Sent
  <2>4. g > 0
    OBVIOUS
  <2>5. IsMessage(threads[c][i].guid, c, threads[c][i].temp, filed, sends)
    BY <2>2, <2>3, <2>4, RowSigns
  <2> QED BY <2>2, <2>5 DEF IsMessage
<1>4. CASE InJobs(g, t)
  <2>1. PICK j \in Jobs : jobs[j] # Idle /\ Answers(jobs[j], g, t)
    BY <1>4 DEF InJobs
  <2>2. SoundJob(jobs[j], filed, sends)
    BY <2>1 DEF Known, JobsKnown
  <2>3. CASE Bears(jobs[j].rows, g, t)
    BY <1>p, <2>2, <2>3 DEF SoundJob
  <2>4. CASE jobs[j].phase = "answered" /\ jobs[j].guid = g /\ jobs[j].request.temp = t
    <3>1. jobs[j].request.kind = "send"
      BY <2>2, <2>4 DEF SoundJob, SoundRequest
    <3> QED BY <2>2, <2>4, <3>1 DEF SoundJob, IsMessage
  <2> QED BY <2>1, <2>3, <2>4 DEF Answers
<1>5. CASE InFrames(g, t)
  <2>1. PICK i \in DOMAIN frames : Tells(frames[i], g, t)
    BY <1>5 DEF InFrames
  <2>2. SoundFrame(frames[i], filed, sends, heard)
    BY <2>1 DEF Known, PipesKnown
  <2>3. CASE Bears(frames[i].rows, g, t)
    BY <1>p, <2>2, <2>3 DEF SoundFrame
  <2>4. CASE frames[i].flag /\ frames[i].guid = g /\ frames[i].temp = t
    BY <2>2, <2>4 DEF SoundFrame, IsMessage
  <2> QED BY <2>1, <2>3, <2>4 DEF Tells
<1> QED BY <1>1, <1>2, <1>d, <1>3, <1>4, <1>5 DEF Stamped

LEMMA StampsFlow ==
  ASSUME Known, [Next]_vars, NEW g \in Nat \ {0}, NEW t \in Int \ {0}, Stamped(g, t)'
  PROVE  Stamped(g, t) \/ Fresh(g, t)
<1>1. \/ OnWire(g, t)' \/ InPages(g, t)' \/ InDisk(g, t)' \/ InThreads(g, t)' \/ InJobs(g, t)'
      \/ InFrames(g, t)'
  BY DEF Stamped
<1>2. g \in Int /\ g > 0 /\ t # 0
  OBVIOUS
<1>3. OnWire(g, t)' => OnWire(g, t) \/ Fresh(g, t)
  BY <1>2, WireFlow
<1>4. InPages(g, t)' => InPages(g, t) \/ InDisk(g, t) \/ OnWire(g, t) \/ InJobs(g, t)
  BY PagesFlow
<1>d. InDisk(g, t)' => InDisk(g, t) \/ InPages(g, t)
  BY DiskFlow
<1>5. InThreads(g, t)' => InThreads(g, t) \/ InFrames(g, t)
  BY <1>2, ThreadsFlow
<1>6. InJobs(g, t)' => InJobs(g, t) \/ Fresh(g, t)
  BY <1>2, JobsFlow
<1>7. InFrames(g, t)' => InFrames(g, t) \/ InPages(g, t) \/ OnWire(g, t) \/ InJobs(g, t)
  BY <1>2, FramesFlow
<1> QED BY <1>1, <1>3, <1>4, <1>d, <1>5, <1>6, <1>7 DEF Stamped

LEMMA OneKeyEachStays ==
  ASSUME Known, OneKeyEach, [Next]_vars
  PROVE  OneKeyEach'
<1> SUFFICES ASSUME NEW g \in Nat \ {0}, NEW t \in Int \ {0}, NEW u \in Int \ {0},
                    Stamped(g, t)', Stamped(g, u)'
             PROVE  t = u
  BY DEF OneKeyEach
<1>1. (Stamped(g, t) \/ Fresh(g, t)) /\ (Stamped(g, u) \/ Fresh(g, u))
  BY StampsFlow
<1>2. Len(filed) + 1 \notin DOMAIN filed
  BY DEF Known, MacKnown
<1>3. (Stamped(g, t) \/ Stamped(g, u)) => g # Len(filed) + 1
  BY <1>2, StampedIsFiled
<1>4. CASE Stamped(g, t) /\ Stamped(g, u)
  BY <1>4 DEF OneKeyEach
<1>5. CASE Fresh(g, t) /\ Fresh(g, u)
  BY <1>5 DEF Fresh
<1> QED BY <1>1, <1>3, <1>4, <1>5 DEF Fresh

LEMMA AlwaysOneKey == Spec => [](Known /\ OneKeyEach)
<1>1. Init => Known /\ OneKeyEach
  <2> SUFFICES ASSUME Init PROVE OneKeyEach
    BY InitKnown
  <2>1. /\ DOMAIN wire = {} /\ DOMAIN frames = {} /\ \A j \in Jobs : jobs[j] = Idle
        /\ \A c \in Chats : DOMAIN pages[c] = {} /\ DOMAIN disk.pages[c] = {}
                            /\ DOMAIN threads[c] = {}
    BY DEF Init, Cached
  <2> QED BY <2>1 DEF OneKeyEach, Stamped, OnWire, InPages, InDisk, InThreads, InJobs,
       InFrames, Bears
<1>2. Known /\ OneKeyEach /\ [Next]_vars => (Known /\ OneKeyEach)'
  BY StepKnown, OneKeyEachStays
<1> QED BY <1>1, <1>2, PTL DEF Spec

LEMMA PageKeepsAKey ==
  ASSUME Known, OneKeyEach, OnMessages, NEW c \in Chats, NEW i \in DOMAIN threads[c],
         threads[c][i].temp # 0, threads[c][i].guid > 0,
         threads[c][i].guid \in Guids(threads'[c])
  PROVE  \E k \in DOMAIN threads'[c] : /\ threads'[c][k].guid = threads[c][i].guid
                                       /\ threads'[c][k].temp = threads[c][i].temp
<1> DEFINE f == Head(frames)
           old == threads[f.chat]
           rows == f.rows
           page == WithKnownTempIds(rows, old)
           new == Replaced(page, old)
           g == threads[c][i].guid
           t == threads[c][i].temp
<1>k. /\ filed \in Seq(Messages) /\ sends \in Seq(Sent) /\ threads \in [Chats -> Seq(Rows)]
      /\ frames \in Seq(Frames)
  BY DEF Known, MacKnown, ReaderKnown, PipesKnown, Sent
<1>1. /\ f.chat \in Chats /\ SoundPage(rows, f.chat, filed, sends)
      /\ SoundThread(old, f.chat, filed, sends) /\ frames # <<>>
  BY FrameRows DEF OnMessages
<1>2. threads' = threads \/ threads' = [threads EXCEPT ![f.chat] = new]
  BY DEF OnMessages
<1>3. \A x, y : Bears(rows, x, y) => Stamped(x, y)
  <2>1. 1 \in DOMAIN frames /\ frames[1] = f
    BY <1>1, <1>k
  <2> QED BY <2>1 DEF Stamped, InFrames, Tells
<1>g. threads[c] \in Seq(Rows)
  BY <1>k
<1>4. g \in Nat \ {0} /\ t \in Int \ {0} /\ Stamped(g, t)
  <2>1. threads[c][i] \in Rows
    BY <1>g
  <2> QED BY <2>1 DEF Rows, Stamped, InThreads, Bears
<1>o. \A x, y : Bears(old, x, y) => Stamped(x, y)
  BY <1>1 DEF Stamped, InThreads
<1> HIDE DEF f, old, rows, g, t
<1>5. SoundPage(page, f.chat, filed, sends) /\ Keyed(page, rows, old)
  BY <1>1, <1>k, KnownTempIdsAreSound
<1> HIDE DEF page
<1>6. Joined(new, page, old, InFlight(old))
  BY <1>1, <1>5, ReplacedIsSound
<1> HIDE DEF new
<1>7. threads'[c] = threads[c] \/ (threads[c] = old /\ threads'[c] = new)
  BY <1>1, <1>2, <1>k DEF old
<1>8. CASE threads[c] = old /\ threads'[c] = new
  <2>1. PICK k \in DOMAIN new : new[k].guid = g
    BY <1>8 DEF Guids, g
  <2>2. k \in DOMAIN page /\ new[k] = page[k]
    <3>1. CASE k \in DOMAIN page /\ new[k] = page[k]
      BY <3>1
    <3>2. ASSUME NEW n \in InFlight(old), new[k] = old[n] PROVE FALSE
      <4>1. n \in DOMAIN old /\ old[n].state = "pending" /\ old[n].guid = g
        BY <2>1, <3>2 DEF InFlight
      <4>2. old[n].guid = old[n].temp /\ old[n].temp < 0
        BY <1>1, <1>k, <4>1, PendingRows
      <4>3. g < 0 /\ g \in Nat
        BY <1>4, <4>1, <4>2
      <4> QED BY <4>3
    <3>3. (k \in DOMAIN page /\ new[k] = page[k]) \/ \E n \in InFlight(old) : new[k] = old[n]
      BY <1>6, <2>1 DEF Joined
    <3> QED BY <3>1, <3>2, <3>3
  <2>3. i \in DOMAIN old /\ old[i].guid = g /\ old[i].temp = t
    BY <1>8 DEF g, t
  <2> DEFINE u == page[k].temp
  <2>4. page[k].guid = g /\ u \in Int
    <3>1. page[k] \in Rows
      BY <1>5, <2>2 DEF SoundPage
    <3> QED BY <2>1, <2>2, <3>1 DEF Rows
  <2>5. u # 0 /\ Stamped(g, u)
    <3>1. /\ k \in DOMAIN rows /\ rows[k].guid = g
          /\ \/ u = rows[k].temp
             \/ \E n \in DOMAIN old : old[n].guid = g /\ old[n].temp = u
          /\ \/ u # 0
             \/ \A n \in DOMAIN old : old[n].guid = g => old[n].temp = 0
      BY <1>5, <2>2, <2>4 DEF Keyed
    <3>2. u # 0
      BY <1>4, <2>3, <3>1
    <3>3. Bears(rows, g, u) \/ Bears(old, g, u)
      BY <3>1 DEF Bears
    <3> QED BY <1>3, <1>o, <3>2, <3>3
  <2> HIDE DEF u
  <2>6. u = t
    BY <1>4, <2>4, <2>5 DEF OneKeyEach
  <2> QED BY <1>8, <2>1, <2>2, <2>6 DEF u, g, t
<1> QED BY <1>7, <1>8

LEMMA TailShrinks ==
  ASSUME NEW T, NEW S \in Seq(T), S # <<>>
  PROVE  Len(Tail(S)) = Len(S) - 1 /\ Len(S) \in Nat
OBVIOUS

(* A page that lands leaves the key of a sent row it still shows as it was,  *)
(* so the delegate is patched in place: withKnownTempIds takes the tempId    *)
(* from the daemon's copy or the row's own, and both are the tempId the send *)
(* went out with (Client.qml:280-313).                                       *)
THEOREM PagesKeepKeys == Spec => PageKeepsKeys
<1> DEFINE Step == \A c \in Chats : \A i \in DOMAIN threads[c] :
              LET row == threads[c][i]
              IN /\ frames # <<>> /\ Head(frames).kind = "messages" /\ frames' = Tail(frames)
                 /\ row.temp # 0 /\ row.guid > 0 /\ row.guid \in Guids(threads'[c])
                 => \E k \in DOMAIN threads'[c] : /\ threads'[c][k].guid = row.guid
                                                  /\ threads'[c][k].temp = row.temp
<1>1. Known /\ OneKeyEach /\ [Next]_vars => [Step]_vars
  <2> SUFFICES ASSUME Known, OneKeyEach, [Next]_vars, NEW c \in Chats, NEW i \in DOMAIN threads[c],
                      frames # <<>>, Head(frames).kind = "messages", frames' = Tail(frames),
                      threads[c][i].temp # 0, threads[c][i].guid > 0,
                      threads[c][i].guid \in Guids(threads'[c])
               PROVE  \E k \in DOMAIN threads'[c] : /\ threads'[c][k].guid = threads[c][i].guid
                                                    /\ threads'[c][k].temp = threads[c][i].temp
    OBVIOUS
  <2>1. CASE UNCHANGED threads
    BY <2>1
  <2>2. CASE OnMessages
    BY <2>2, PageKeepsAKey
  <2>3. ASSUME OnOlderMessages \/ OnMessage \/ OnAck PROVE FALSE
    BY <2>3 DEF OnOlderMessages, OnMessage, OnAck, Arrived
  <2>4. ASSUME NEW text \in Texts, SendMessage(text) PROVE FALSE
    <3>1. frames' = frames /\ frames \in Seq(Frames)
      BY <2>4 DEF SendMessage, Known, PipesKnown
    <3>2. Len(Tail(frames)) = Len(frames) - 1 /\ Len(frames) \in Nat
      BY <3>1, TailShrinks
    <3> QED BY <3>1, <3>2
  <2> QED BY <2>1, <2>2, <2>3, <2>4, ThreadSteps
<1> QED BY <1>1, AlwaysOneKey, PTL DEF Spec, PageKeepsKeys
-----------------------------------------------------------------------------
(* The end of the road: one chat, nothing filed and nothing sent meanwhile *)

(* The messages a page of c that ends at `before` is taken from. *)
Within(c, before) == {g \in DOMAIN filed : filed[g].chat = c
                                           /\ (before = 0 \/ filed[g].ts <= before)}

(* A page is the last of them, in order: all of them when they fit.        *)
LEMMA PageElements ==
  ASSUME filed \in Seq(Messages), NEW c, NEW before
  PROVE  LET rows == Page(c, before)
         IN /\ rows \in Seq(Rows) /\ \A i \in DOMAIN rows : rows[i].guid \in Within(c, before)
            /\ \A i, k \in DOMAIN rows : i < k => rows[i].guid < rows[k].guid
            /\ Cardinality(Within(c, before)) \in Nat
            /\ Len(rows) = IF Cardinality(Within(c, before)) <= PageSize
                             THEN Cardinality(Within(c, before)) ELSE PageSize
            /\ Cardinality(Within(c, before)) <= PageSize =>
                 Within(c, before) \subseteq Guids(rows)
<1> DEFINE within == Within(c, before)
           N == Cardinality(within)
           all == [k \in 1..N |-> Row(Nth(within, k), 0)]
<1>1. within \subseteq 1..Len(filed) /\ Len(filed) \in Nat
  BY DEF Within
<1>2. Page(c, before) = Newest(all, PageSize)
  <2>1. {g \in {h \in DOMAIN filed : filed[h].chat = c} : before = 0 \/ filed[g].ts <= before}
          = within
    BY DEF Within
  <2> HIDE DEF within
  <2> QED BY <2>1 DEF Page, PageOf
<1> HIDE DEF within, all, N
<1>3. /\ N \in 0..Len(filed)
      /\ \A k \in 1..N : Nth(within, k) \in within
      /\ \A g \in within : \E k \in 1..N : Nth(within, k) = g
      /\ \A j, k \in 1..N : j < k <=> Nth(within, j) < Nth(within, k)
  BY <1>1, Positions DEF N
<1>4. N \in Nat /\ \A k \in 1..N : Nth(within, k) \in Nat
  <2>1. \A g \in within : g \in Nat
    BY <1>1
  <2>2. N \in Nat
    BY <1>1, <1>3
  <2>3. \A k \in 1..N : Nth(within, k) \in Nat
    BY <1>3, <2>1
  <2> QED BY <2>2, <2>3
<1>5. \A k \in 1..N : all[k] \in Rows /\ all[k].guid = Nth(within, k)
  BY <1>4 DEF all, Row, Rows
<1>6. all \in Seq(Rows) /\ Len(all) = N /\ DOMAIN all = 1..N
  BY <1>4, <1>5 DEF all
<1>7. PageSize \in Nat
  BY ThreadAssumptions
<1> DEFINE rows == Newest(all, PageSize)
<1>8. /\ rows \in Seq(Rows) /\ Len(rows) = IF N <= PageSize THEN N ELSE PageSize
      /\ \A i \in DOMAIN rows :
           LET k == IF N <= PageSize THEN i ELSE N - PageSize + i
           IN k \in 1..N /\ rows[i] = all[k]
  BY <1>6, <1>7, NewestElements
<1> HIDE DEF rows
<1>9. \A i \in DOMAIN rows : rows[i].guid \in within
  BY <1>3, <1>5, <1>8
<1>10. ASSUME NEW i \in DOMAIN rows, NEW k \in DOMAIN rows, i < k
       PROVE  rows[i].guid < rows[k].guid
  <2> DEFINE at(n) == IF N <= PageSize THEN n ELSE N - PageSize + n
  <2>1. i \in Int /\ k \in Int
    BY <1>8
  <2>2. at(i) \in 1..N /\ at(k) \in 1..N /\ at(i) < at(k)
    BY <1>4, <1>7, <1>8, <1>10, <2>1
  <2>3. rows[i] = all[at(i)] /\ rows[k] = all[at(k)]
    BY <1>8
  <2> HIDE DEF at
  <2>4. Nth(within, at(i)) < Nth(within, at(k))
    BY <1>3, <2>2
  <2> QED BY <1>5, <2>2, <2>3, <2>4
<1>11. ASSUME N <= PageSize PROVE within \subseteq Guids(rows)
  <2> SUFFICES ASSUME NEW g \in within PROVE g \in Guids(rows)
    OBVIOUS
  <2>1. PICK k \in 1..N : Nth(within, k) = g
    BY <1>3
  <2>2. k \in DOMAIN rows /\ rows[k].guid = g
    BY <1>4, <1>5, <1>8, <1>11, <2>1
  <2> QED BY <2>2 DEF Guids
<1> QED BY <1>2, <1>4, <1>8, <1>9, <1>10, <1>11 DEF N, within, rows

(* What the Mac held at the start, in the order of its clock, and no       *)
(* millisecond of it with a page of messages unless the page holds all     *)
(* that was written until then.                                            *)
InOrder ==
  \A g, h \in DOMAIN History : g <= h => History[g].ts <= History[h].ts
NoBurst ==
  \A g \in DOMAIN History :
    \/ Cardinality({h \in DOMAIN History : History[h].ts = History[g].ts}) < PageSize
    \/ Cardinality({h \in DOMAIN History : History[h].ts <= History[g].ts}) <= PageSize

(* The Mac holds this chat alone, every message linked to it. *)
OwnThread(c) == \A g \in DOMAIN History : History[g].chat = c

(* Nothing was filed and nothing sent. *)
Quiet == filed = History /\ sends = <<>>

(* No row is older than t. *)
Since(t, rows) == \A i \in DOMAIN rows : t <= filed[rows[i].guid].ts

(* A page with nothing older than its cursor holds everything up to it. *)
LEMMA PageReachesTheStart ==
  ASSUME filed = History, filed \in Seq(Messages), NEW c, Chats = {c}, OwnThread(c), NoBurst,
         NEW g \in DOMAIN filed, NEW t, t = filed[g].ts, t # 0, Since(t, Page(c, t))
  PROVE  \A h \in DOMAIN filed : filed[h].ts <= t => h \in Guids(Page(c, t))
<1> DEFINE rows == Page(c, t)
           within == Within(c, t)
           same == {h \in DOMAIN History : History[h].ts = History[g].ts}
<1>0. \A h \in DOMAIN filed : filed[h] \in Messages
  OBVIOUS
<1>t. \A h \in DOMAIN filed : filed[h].ts \in Nat
  BY <1>0 DEF Messages
<1>1. within = {h \in DOMAIN History : History[h].ts <= History[g].ts}
  BY DEF Within, OwnThread
<1>2. /\ rows \in Seq(Rows) /\ \A i \in DOMAIN rows : rows[i].guid \in within
      /\ \A i, k \in DOMAIN rows : i < k => rows[i].guid < rows[k].guid
      /\ Cardinality(within) \in Nat
      /\ Len(rows) = IF Cardinality(within) <= PageSize THEN Cardinality(within) ELSE PageSize
      /\ Cardinality(within) <= PageSize => within \subseteq Guids(rows)
  BY PageElements
<1> HIDE DEF rows, within
<1>3. CASE Cardinality(within) <= PageSize
  BY <1>1, <1>2, <1>3 DEF rows
<1>4. CASE Cardinality(within) > PageSize
  <2> HIDE DEF same
  <2>1. /\ PageSize \in Nat /\ Len(rows) = PageSize
    BY <1>2, <1>4, ThreadAssumptions
  <2>2. Cardinality(same) < PageSize
    BY <1>1, <1>2, <1>4, <2>1 DEF NoBurst, same
  <2>3. \A i \in DOMAIN rows : rows[i].guid \in same
    <3> SUFFICES ASSUME NEW i \in DOMAIN rows PROVE rows[i].guid \in same
      OBVIOUS
    <3>1. rows[i].guid \in DOMAIN filed /\ filed[rows[i].guid].ts <= t
          /\ t <= filed[rows[i].guid].ts
      BY <1>1, <1>2 DEF Since, rows
    <3> QED BY <1>t, <3>1 DEF same
  <2>4. IsFiniteSet(1..PageSize) /\ Cardinality(1..PageSize) = PageSize
    BY <2>1, IntervalSize
  <2>5. IsFiniteSet(same)
    <3>1. same \subseteq 1..Len(History) /\ Len(History) \in Nat
      BY DEF same
    <3> QED BY <3>1, Positions
  <2> DEFINE f == [i \in 1..PageSize |-> rows[i].guid]
  <2>6. f \in [1..PageSize -> same]
    BY <1>2, <2>1, <2>3
  <2> HIDE DEF f
  <2>7. PICK i, k \in 1..PageSize : i # k /\ f[i] = f[k]
    BY <2>2, <2>4, <2>5, <2>6, FS_PigeonHole
  <2>8. i \in DOMAIN rows /\ k \in DOMAIN rows /\ rows[i].guid = rows[k].guid /\ (i < k \/ k < i)
    BY <1>2, <2>1, <2>7 DEF f
  <2>9. rows[i] \in Rows /\ rows[k] \in Rows
    BY <1>2, <2>8
  <2>10. rows[i].guid \in Int /\ rows[k].guid \in Int
    BY <2>9 DEF Rows
  <2> QED BY <1>2, <2>8, <2>10
<1> QED BY <1>2, <1>3, <1>4, ThreadAssumptions

(* Where the chat has no page, neither has a handle.                       *)
LEMMA HandlePage ==
  ASSUME filed = History, filed \in Seq(Messages), NEW c, OwnThread(c), NEW h, NEW t,
         Page(c, t) = <<>>
  PROVE  PageByHandle(h, t) = <<>>
<1> DEFINE onHandle == {g \in {k \in DOMAIN filed : filed[k].handle = h} :
                          t = 0 \/ filed[g].ts <= t}
           linked == {g \in {k \in DOMAIN filed : filed[k].chat = c} :
                        t = 0 \/ filed[g].ts <= t}
<1>1. linked = Within(c, t) /\ onHandle \subseteq Within(c, t)
  BY DEF Within, OwnThread
<1>2. Within(c, t) = {}
  <2>1. /\ Len(Page(c, t)) = IF Cardinality(Within(c, t)) <= PageSize
                               THEN Cardinality(Within(c, t)) ELSE PageSize
        /\ Cardinality(Within(c, t)) \in Nat
    BY PageElements
  <2>2. Cardinality(Within(c, t)) = 0
    BY <2>1, ThreadAssumptions
  <2>3. Within(c, t) \subseteq 1..Len(filed) /\ Len(filed) \in Nat
    BY DEF Within
  <2>4. IsFiniteSet(Within(c, t))
    BY <2>3, Positions
  <2> QED BY <2>2, <2>4, FS_EmptySet
<1>3. onHandle = linked
  BY <1>1, <1>2
<1>4. PageByHandle(h, t) = Page(c, t)
  <2>1. PageByHandle(h, t) = Newest([k \in 1..Cardinality(onHandle) |-> Row(Nth(onHandle, k), 0)],
                                    PageSize)
    BY DEF PageByHandle, PageOf
  <2>2. Page(c, t) = Newest([k \in 1..Cardinality(linked) |-> Row(Nth(linked, k), 0)], PageSize)
    BY DEF Page, PageOf
  <2> HIDE DEF onHandle, linked
  <2> QED BY <1>3, <2>1, <2>2
<1> QED BY <1>4

(* The first row is the oldest. *)
OldestFirst(rows) == rows # <<>> => Since(filed[rows[1].guid].ts, rows)

(* While nothing is sent, a thread is made of rows that came from frames,  *)
(* and a page replaces it as it is.                                        *)
LEMMA QuietRows ==
  ASSUME Known, Quiet, NEW c \in Chats
  PROVE  /\ threads[c] \in Seq(Rows)
         /\ \A i \in DOMAIN threads[c] :
              /\ threads[c][i].state = "shown" /\ threads[c][i].temp = 0
              /\ threads[c][i].guid \in DOMAIN filed
<1>1. SoundThread(threads[c], c, filed, <<>>)
  BY DEF Known, ReaderKnown, Quiet
<1>2. \A t : ~SentBy(t, <<>>)
  BY DEF SentBy
<1>3. \A i \in DOMAIN threads[c] : ShownRow(threads[c][i], c, filed, <<>>)
  BY <1>1, <1>2 DEF SoundThread, ThreadRow, SentRow, OwnRow, IsMessage
<1> QED BY <1>1, <1>2, <1>3 DEF SoundThread, ShownRow, IsMessage

LEMMA QuietReplacement ==
  ASSUME NEW rows \in Seq(Rows), NEW old \in Seq(Rows),
         \A i \in DOMAIN old : old[i].state = "shown" /\ old[i].temp = 0
  PROVE  Replaced(WithKnownTempIds(rows, old), old) = rows
<1>1. WithKnownTempIds(rows, old) = rows
  <2>1. \A i \in DOMAIN rows :
          {k \in DOMAIN old : old[k].temp # 0 /\ old[k].guid = rows[i].guid} = {}
    OBVIOUS
  <2>2. WithKnownTempIds(rows, old) = [i \in DOMAIN rows |-> rows[i]]
    BY <2>1 DEF WithKnownTempIds
  <2> QED BY <2>2
<1>2. InFlight(old) = {} /\ InFlight(old) \subseteq DOMAIN old
  BY DEF InFlight
<1>3. Cardinality({}) = 0
  BY FS_EmptySet
<1>4. Kept(old, {}) \in Seq(Rows) /\ Len(Kept(old, {})) = 0
  BY <1>2, <1>3, KeptElements
<1>5. Kept(old, {}) = <<>>
  <2> DEFINE kept == Kept(old, {})
  <2> HIDE DEF kept
  <2>1. kept \in Seq(Rows) /\ Len(kept) = 0
    BY <1>4 DEF kept
  <2>2. kept = <<>>
    BY <2>1
  <2> QED BY <2>2 DEF kept
<1>6. Replaced(rows, old) = rows \o Kept(old, InFlight(old))
  BY DEF Replaced, InFlight
<1>7. Replaced(rows, old) = rows \o <<>>
  BY <1>2, <1>5, <1>6
<1>8. rows \o <<>> = rows
  OBVIOUS
<1> QED BY <1>1, <1>7, <1>8

(* An older page put before a thread it ends at or before: nothing is      *)
(* lost, nothing is shown twice, and the first row stays the oldest.       *)
LEMMA OlderJoins ==
  ASSUME filed = History, filed \in Seq(Messages), InOrder,
         NEW page \in Seq(Rows), NEW old \in Seq(Rows), NEW t \in Nat,
         \A i \in DOMAIN page : page[i].guid \in DOMAIN filed /\ filed[page[i].guid].ts <= t,
         \A i, k \in DOMAIN page : i < k => page[i].guid < page[k].guid,
         \A i \in DOMAIN old : old[i].guid \in DOMAIN filed,
         Since(t, old), OldestFirst(old)
  PROVE  LET new == NotShown(page, old) \o old
         IN /\ new \in Seq(Rows) /\ Guids(new) = Guids(page) \cup Guids(old)
            /\ OldestFirst(new) /\ (NotShown(page, old) = <<>> => new = old)
<1> DEFINE P == {i \in DOMAIN page : page[i].guid \notin Guids(old)}
           added == NotShown(page, old)
           new == added \o old
<1>1. added = Kept(page, P) /\ P \subseteq DOMAIN page
  BY DEF NotShown
<1>2. /\ \A i \in P : page[i].guid \notin Guids(old)
      /\ \A i \in DOMAIN page : page[i].guid \notin Guids(old) => i \in P
  OBVIOUS
<1> HIDE DEF P, added
<1>3. /\ added \in Seq(Rows) /\ Len(added) = Cardinality(P) /\ Cardinality(P) \in Nat
      /\ \A k \in 1..Cardinality(P) : Nth(P, k) \in P /\ added[k] = page[Nth(P, k)]
      /\ \A i \in P : \E k \in 1..Cardinality(P) : Nth(P, k) = i
      /\ \A j, k \in 1..Cardinality(P) : j < k <=> Nth(P, j) < Nth(P, k)
  BY <1>1, KeptElements
<1>s. added \in Seq(Rows)
  BY <1>3
<1>4. /\ new \in Seq(Rows) /\ Len(new) = Len(added) + Len(old)
      /\ \A i \in DOMAIN added : i \in DOMAIN new /\ new[i] = added[i]
      /\ \A i \in DOMAIN old : Len(added) + i \in DOMAIN new /\ new[Len(added) + i] = old[i]
      /\ \A i \in DOMAIN new : \/ i \in DOMAIN added /\ new[i] = added[i]
                               \/ i - Len(added) \in DOMAIN old /\ new[i] = old[i - Len(added)]
  BY <1>s
<1>d. DOMAIN added = 1..Cardinality(P)
  BY <1>3
<1>n. added # <<>> => 1 \in DOMAIN added
  BY <1>3
<1>e. added = <<>> => new = old
  OBVIOUS
<1> HIDE DEF new
<1>t. \A g \in DOMAIN filed : filed[g].ts \in Nat
  <2>1. \A g \in DOMAIN filed : filed[g] \in Messages
    OBVIOUS
  <2> QED BY <2>1 DEF Messages
<1>5. \A k \in DOMAIN added : \E i \in P : i = Nth(P, k) /\ i \in DOMAIN page /\ added[k] = page[i]
  BY <1>1, <1>3, <1>d
<1>6. Guids(new) = Guids(page) \cup Guids(old)
  <2>1. ASSUME NEW i \in DOMAIN new PROVE new[i].guid \in Guids(page) \cup Guids(old)
    <3>1. CASE i \in DOMAIN added /\ new[i] = added[i]
      <4>1. PICK k \in DOMAIN page : added[i] = page[k]
        BY <1>5, <3>1
      <4> QED BY <3>1, <4>1 DEF Guids
    <3>2. CASE i - Len(added) \in DOMAIN old /\ new[i] = old[i - Len(added)]
      BY <3>2 DEF Guids
    <3> QED BY <1>4, <3>1, <3>2
  <2>2. ASSUME NEW i \in DOMAIN page PROVE page[i].guid \in Guids(new)
    <3>1. CASE i \in P
      <4>1. PICK k \in DOMAIN added : Nth(P, k) = i
        BY <1>3, <1>d, <3>1
      <4>2. added[k] = page[i] /\ k \in DOMAIN new /\ new[k] = added[k]
        BY <1>3, <1>4, <1>d, <4>1
      <4> QED BY <4>2 DEF Guids
    <3>2. CASE i \notin P
      <4>1. PICK k \in DOMAIN old : old[k].guid = page[i].guid
        BY <1>2, <3>2 DEF Guids
      <4>2. Len(added) + k \in DOMAIN new /\ new[Len(added) + k] = old[k]
        BY <1>4
      <4> QED BY <4>1, <4>2 DEF Guids
    <3> QED BY <3>1, <3>2
  <2>3. ASSUME NEW k \in DOMAIN old PROVE old[k].guid \in Guids(new)
    BY <1>4 DEF Guids
  <2> QED BY <2>1, <2>2, <2>3 DEF Guids
<1>7. CASE added = <<>>
  BY <1>4, <1>6, <1>7, <1>e DEF added, new
<1>8. CASE added # <<>>
  <2>1. 1 \in DOMAIN added /\ new[1] = added[1]
    BY <1>4, <1>n, <1>8
  <2>2. PICK i \in P : i = Nth(P, 1) /\ i \in DOMAIN page /\ added[1] = page[i]
    BY <1>5, <2>1
  <2> DEFINE g == page[i].guid
  <2>3. g \in DOMAIN filed /\ filed[g].ts <= t
    BY <2>2
  <2>4. ASSUME NEW k \in DOMAIN new PROVE filed[g].ts <= filed[new[k].guid].ts
    <3>1. CASE k \in DOMAIN added /\ new[k] = added[k]
      <4>1. PICK l \in P : l = Nth(P, k) /\ l \in DOMAIN page /\ added[k] = page[l]
        BY <1>5, <3>1
      <4>2. k = 1 \/ 1 < k
        BY <1>3, <1>d, <3>1
      <4>3. i = l \/ i < l
        BY <1>3, <1>d, <2>1, <2>2, <3>1, <4>1, <4>2
      <4>4. g = page[l].guid \/ g < page[l].guid
        BY <2>2, <4>1, <4>3
      <4>5. g \in Int /\ page[l].guid \in DOMAIN filed
        BY <2>3, <4>1
      <4>6. g <= page[l].guid
        BY <4>4, <4>5
      <4>7. filed[g].ts <= filed[page[l].guid].ts
        BY <2>3, <4>5, <4>6 DEF InOrder
      <4> QED BY <3>1, <4>1, <4>7
    <3>2. CASE k - Len(added) \in DOMAIN old /\ new[k] = old[k - Len(added)]
      <4>1. t <= filed[new[k].guid].ts /\ new[k].guid \in DOMAIN filed
        BY <3>2 DEF Since
      <4> HIDE DEF g
      <4> QED BY <1>t, <2>3, <4>1
    <3> QED BY <1>4, <3>1, <3>2
  <2>5. OldestFirst(new)
    BY <2>1, <2>2, <2>4 DEF OldestFirst, Since
  <2> QED BY <1>4, <1>6, <1>8, <2>5 DEF added, new
<1> QED BY <1>7, <1>8

(* The older page asked for, worked on, or told of. *)
OlderRequests == {q \in Requests : q.kind = "older"}
OlderAnswers  == {f \in Frames : f.kind \in {"older", "error"}}

AskedOlder  == At(requests, OlderRequests)
WorkedOlder == {j \in Busy : jobs[j].live /\ jobs[j].request.kind = "older"}
ToldOlder   == At(frames, OlderAnswers)
OlderUnderWay == AskedOlder # {} \/ WorkedOlder # {} \/ ToldOlder # {}

OneOlder(c) ==
  /\ Single(AskedOlder) /\ Single(WorkedOlder) /\ Single(ToldOlder)
  /\ AskedOlder # {} => WorkedOlder = {} /\ ToldOlder = {}
  /\ WorkedOlder # {} => ToldOlder = {}
  /\ OlderUnderWay => olderPending = c

(* One at a time, whatever is dropped, refused or restarted: the gate is   *)
(* opened early only by a link that carries nothing any more.              *)
LEMMA OlderFlow ==
  ASSUME Known, [Next]_vars, NEW c, Chats = {c}, OneOlder(c)
  PROVE  OneOlder(c)' /\ (OnOlderMessages \/ OnOlderError => ~OlderUnderWay')
<1> DEFINE A == OlderRequests
           K == OlderAnswers
<1>t. /\ requests \in Seq(Requests) /\ frames \in Seq(Frames)
      /\ requests' \in Seq(Requests) /\ frames' \in Seq(Frames)
      /\ ~linkUp => requests = <<>> /\ frames = <<>> /\ \A j \in Busy : ~jobs[j].live
      /\ ~linkUp' => requests' = <<>> /\ frames' = <<>> /\ \A j \in Busy' : ~jobs'[j].live
  BY StepKnown DEF Known, PipesKnown, LinkKnown
<1>b. /\ \A j \in Jobs : j \in Busy <=> jobs[j] # Idle
      /\ \A j \in Jobs : j \in Busy' <=> jobs'[j] # Idle
      /\ \A j \in Busy : j \in Jobs /\ jobs[j] \in BusyJobs /\ SoundRequest(jobs[j].request, sends)
      /\ jobs \in [Jobs -> {Idle} \cup BusyJobs]
  <2>1. JobsKnown /\ JobsKnown'
    BY StepKnown DEF Known
  <2>2. \A j \in Jobs : j \in Busy' <=> jobs'[j] # Idle
    BY <2>1 DEF JobsKnown, Idle, BusyJobs, Busy
  <2> QED BY <2>1, <2>2, BusyIsJob DEF Busy, SoundJob, JobsKnown
<1>d. /\ AskedOlder = At(requests, A) /\ AskedOlder' = At(requests', A)
      /\ ToldOlder = At(frames, K) /\ ToldOlder' = At(frames', K)
  BY DEF AskedOlder, ToldOlder
<1>o. /\ Single(AskedOlder) /\ Single(WorkedOlder) /\ Single(ToldOlder)
      /\ AskedOlder # {} => WorkedOlder = {} /\ ToldOlder = {}
      /\ WorkedOlder # {} => ToldOlder = {}
      /\ OlderUnderWay => olderPending = c
  BY DEF OneOlder
<1>e. /\ \A f \in Frames : f \in K <=> f.kind \in {"older", "error"}
      /\ \A q \in Requests : q \in A <=> q.kind = "older"
  BY DEF OlderAnswers, OlderRequests
<1> HIDE DEF A, K

(* Nothing is under way. *)
<1>z. ASSUME AskedOlder' = {}, WorkedOlder' = {}, ToldOlder' = {}
      PROVE  OneOlder(c)' /\ ~OlderUnderWay'
  BY <1>z DEF OneOlder, OlderUnderWay, Single

(* What is under way stays where it is. *)
<1> DEFINE Same(new, old) == Single(new) /\ (new # {} => old # {})
<1>m. ASSUME Same(AskedOlder', AskedOlder), Same(WorkedOlder', WorkedOlder),
             Same(ToldOlder', ToldOlder), olderPending' = olderPending
      PROVE  OneOlder(c)'
  BY <1>o, <1>m DEF OneOlder, OlderUnderWay
<1>s. /\ AskedOlder' = AskedOlder => Same(AskedOlder', AskedOlder)
      /\ ToldOlder' = ToldOlder => Same(ToldOlder', ToldOlder)
      /\ WorkedOlder' = WorkedOlder => Same(WorkedOlder', WorkedOlder)
  BY <1>o
<1> HIDE DEF Same
<1>j. jobs' = jobs => WorkedOlder' = WorkedOlder
  BY DEF WorkedOlder, Busy
<1>q. requests' = requests => AskedOlder' = AskedOlder
  BY <1>d
<1>n. ASSUME NEW f, frames' = frames \/ frames' = Append(frames, f), f \notin K
      PROVE  ToldOlder' = ToldOlder
  <2>1. At(Append(frames, f), K) = At(frames, K)
    BY <1>t, <1>n, AtAppend
  <2> QED BY <1>d, <1>n, <2>1
<1>h. ASSUME frames # <<>>, frames' = Tail(frames)
      PROVE  /\ Head(frames) \in K => ToldOlder # {} /\ ToldOlder' = {}
             /\ Same(ToldOlder', ToldOlder)
  <2>1. /\ Head(frames) \in K => At(frames, K) # {}
        /\ Single(At(frames, K)) => Single(At(Tail(frames), K))
        /\ Single(At(frames, K)) /\ Head(frames) \in K => At(Tail(frames), K) = {}
        /\ At(Tail(frames), K) # {} => At(frames, K) # {}
    BY <1>t, <1>h, AtTail
  <2>2. Single(At(frames, K)) /\ ToldOlder = At(frames, K) /\ ToldOlder' = At(Tail(frames), K)
    BY <1>d, <1>h, <1>o
  <2> QED BY <2>1, <2>2 DEF Same
<1>1. CASE OnOlderMessages \/ OnOlderError
  <2>1. \E kind \in {"older", "error"} : Arrived(kind) /\ UNCHANGED <<requests, jobs>>
    BY <1>1 DEF OnOlderMessages, OnOlderError, AfterFrame
  <2>2. frames # <<>> /\ frames' = Tail(frames) /\ Head(frames) \in K
    BY <1>e, <2>1, FirstFrame DEF Arrived
  <2>3. ToldOlder # {} /\ ToldOlder' = {}
    BY <1>h, <2>2
  <2>4. AskedOlder' = {} /\ WorkedOlder' = {}
    BY <1>j, <1>o, <1>q, <2>1, <2>3
  <2> QED BY <1>z, <2>3, <2>4
<1>2. ASSUME OnMessages \/ OnMessage \/ OnAck PROVE OneOlder(c)'
  <2>1. frames # <<>> /\ frames' = Tail(frames) /\ UNCHANGED <<requests, jobs, olderPending>>
    BY <1>2 DEF OnMessages, OnMessage, OnAck, AfterFrame, Arrived
  <2>2. WorkedOlder' = WorkedOlder /\ AskedOlder' = AskedOlder
    BY <1>j, <1>q, <2>1
  <2>3. Same(ToldOlder', ToldOlder)
    BY <1>h, <2>1
  <2>4. Same(WorkedOlder', WorkedOlder) /\ Same(AskedOlder', AskedOlder)
    BY <1>s, <2>2
  <2>5. olderPending' = olderPending
    BY <2>1
  <2> QED BY <1>m, <2>3, <2>4, <2>5
<1>3. ASSUME UNCHANGED <<requests, frames, jobs, olderPending>> PROVE OneOlder(c)'
  <2>1. ToldOlder' = ToldOlder
    BY <1>3, <1>d
  <2> QED BY <1>j, <1>m, <1>q, <1>s, <1>3, <2>1
<1>4. ASSUME NEW k \in Jobs,
             MacServesPage(k) \/ MacServesHandle(k) \/ MacRefuses(k) \/ RequestLost(k)
             \/ \E phase \in {"answered", "refused"} : MacSends(k, phase)
      PROVE  OneOlder(c)'
  <2>1. UNCHANGED <<requests, frames, olderPending>>
    BY <1>4 DEF MacServesPage, MacServesHandle, AsksForPage, MacRefuses, RequestLost,
         AsksToSend, MacSends, pipeVars, clientVars
  <2>2. \A j \in Jobs : \/ jobs'[j] = jobs[j]
                        \/ /\ j \in Busy /\ jobs'[j] # Idle /\ jobs'[j].request = jobs[j].request
                           /\ jobs'[j].live = jobs[j].live
    BY <1>4, MacKeepsJobs
  <2>3. \A j \in Jobs : j \in Busy' <=> j \in Busy
    BY <1>b, <2>2
  <2>4. \A j \in Busy : jobs'[j].request = jobs[j].request /\ jobs'[j].live = jobs[j].live
    BY <1>b, <2>2
  <2>5. Busy' = Busy
    BY <2>3 DEF Busy
  <2>6. WorkedOlder' = WorkedOlder
    BY <2>4, <2>5 DEF WorkedOlder
  <2>7. AskedOlder' = AskedOlder /\ ToldOlder' = ToldOlder
    BY <1>d, <2>1
  <2> QED BY <1>m, <1>s, <2>1, <2>6, <2>7
<1>5. ASSUME NEW q, Request(q), q.kind # "older", UNCHANGED <<jobs, frames, olderPending>>
      PROVE  OneOlder(c)'
  <2>1. requests' = Append(requests, q) /\ q \notin A
    BY <1>5 DEF Request, A, OlderRequests
  <2>2. At(Append(requests, q), A) = At(requests, A)
    BY <1>t, <2>1, AtAppend
  <2>3. AskedOlder' = AskedOlder /\ ToldOlder' = ToldOlder
    BY <1>d, <1>5, <2>1, <2>2
  <2> QED BY <1>j, <1>m, <1>s, <1>5, <2>3
<1>6. ASSUME LoadOlderMessages PROVE OneOlder(c)'
  <2> DEFINE q == [kind |-> "older", chat |-> activeChat, temp |-> 0,
                   before |-> TsOf(Head(threads[activeChat]))]
  <2>1. /\ activeChat = c /\ olderPending # c /\ olderPending' = c
        /\ requests' = Append(requests, q) /\ UNCHANGED <<jobs, frames>>
    BY <1>6 DEF LoadOlderMessages, MayLoadOlder, Request, Known, ReaderKnown
  <2>2. AskedOlder = {} /\ WorkedOlder = {} /\ ToldOlder = {}
    BY <1>o, <2>1 DEF OlderUnderWay
  <2> HIDE DEF q
  <2>3. WorkedOlder' = {} /\ ToldOlder' = {}
    BY <1>d, <1>j, <2>1, <2>2
  <2>4. Single(At(Append(requests, q), A))
    <3>0. At(requests, A) = {} /\ requests \in Seq(Requests)
      BY <1>d, <1>t, <2>2
    <3>1. q \in A => Single(At(Append(requests, q), A))
      BY <3>0, AtAppend
    <3>2. q \notin A => At(Append(requests, q), A) = {}
      BY <3>0, AtAppend
    <3> QED BY <3>1, <3>2 DEF Single
  <2>5. Single(AskedOlder')
    BY <1>d, <2>1, <2>4
  <2>6. Single(WorkedOlder') /\ Single(ToldOlder')
    BY <2>3 DEF Single
  <2>7. olderPending' = c
    BY <2>1
  <2> QED BY <2>3, <2>5, <2>6, <2>7 DEF OneOlder
<1>7. ASSUME HandleMessage PROVE OneOlder(c)'
  <2> DEFINE e == Head(wire)
             f == Frame("message", filed[e.guid].chat, <<Row(e.guid, e.temp)>>)
  <2>1. UNCHANGED <<requests, jobs, olderPending>>
        /\ (frames' = frames \/ frames' = Append(frames, f))
    BY <1>7 DEF HandleMessage, Broadcast, clientVars
  <2>2. f \notin K
    BY DEF K, OlderAnswers, Frame
  <2> HIDE DEF f
  <2>3. ToldOlder' = ToldOlder
    BY <1>n, <2>1, <2>2
  <2>4. WorkedOlder' = WorkedOlder /\ AskedOlder' = AskedOlder
    BY <1>j, <1>q, <2>1
  <2>5. /\ Same(WorkedOlder', WorkedOlder) /\ Same(AskedOlder', AskedOlder)
        /\ Same(ToldOlder', ToldOlder)
    BY <1>s, <2>3, <2>4
  <2>6. olderPending' = olderPending
    BY <2>1
  <2> QED BY <1>m, <2>5, <2>6
<1>8. ASSUME NEW j \in Jobs, Dispatch(j) PROVE OneOlder(c)'
  <2> DEFINE q == Head(requests)
             f == Frame("messages", q.chat, pages[q.chat])
  <2>1. /\ requests # <<>> /\ requests' = Tail(requests) /\ jobs[j].phase = "free"
        /\ frames' = frames \/ frames' = Append(frames, f)
        /\ olderPending' = olderPending
        /\ \E hit : jobs' = [jobs EXCEPT ![j] = Job(q, hit)]
    BY <1>8 DEF Dispatch, clientVars
  <2>2. f \notin K
    BY DEF K, OlderAnswers, Frame
  <2> HIDE DEF f
  <2>3. ToldOlder' = ToldOlder
    BY <1>n, <2>1, <2>2
  <2>4. q \in Requests
    BY <1>8, FirstRequest DEF Dispatch
  <2>5. /\ q \in A => At(requests, A) # {}
        /\ Single(At(requests, A)) => Single(At(Tail(requests), A))
        /\ Single(At(requests, A)) /\ q \in A => At(Tail(requests), A) = {}
        /\ At(Tail(requests), A) # {} => At(requests, A) # {}
    BY <1>t, <2>1, AtTail
  <2>6. /\ q \in A => AskedOlder # {} /\ AskedOlder' = {}
        /\ Same(AskedOlder', AskedOlder)
    BY <1>d, <1>o, <2>1, <2>5 DEF Same
  <2> HIDE DEF q
  <2>7. /\ jobs'[j].request = q /\ jobs'[j].live /\ jobs'[j].phase # "free"
        /\ \A i \in Jobs : i # j => jobs'[i] = jobs[i]
    BY <1>b, <2>1 DEF Job
  <2>8. j \notin Busy /\ Busy' = Busy \cup {j}
    BY <2>1, <2>7 DEF Busy
  <2>9. WorkedOlder' = WorkedOlder \cup (IF q \in A THEN {j} ELSE {})
    BY <1>b, <1>e, <2>4, <2>7, <2>8 DEF WorkedOlder
  <2>10. CASE q \in A
    <3>1. AskedOlder # {} /\ AskedOlder' = {} /\ WorkedOlder = {} /\ ToldOlder' = {}
      BY <1>o, <2>3, <2>6, <2>10
    <3>2. WorkedOlder' = {j} /\ olderPending' = c
      BY <1>o, <2>1, <2>9, <2>10, <3>1 DEF OlderUnderWay
    <3> QED BY <3>1, <3>2 DEF OneOlder, Single
  <2>11. CASE q \notin A
    BY <1>m, <1>s, <2>1, <2>3, <2>6, <2>9, <2>11
  <2> QED BY <2>10, <2>11
<1>9. ASSUME NEW j \in Jobs, LandPage(j) \/ LandOlder(j) \/ LandSend(j) \/ LandFailure(j)
      PROVE  OneOlder(c)'
  <2> DEFINE q == jobs[j].request
  <2>1. /\ j \in Busy /\ jobs' = [jobs EXCEPT ![j] = Idle] /\ UNCHANGED <<requests, olderPending>>
    BY <1>9 DEF LandPage, LandOlder, LandSend, LandFailure, Done, Busy, clientVars
  <2>2. SoundRequest(q, sends) /\ q \in Requests /\ jobs[j].guid \in Nat
    BY <1>b, <2>1 DEF BusyJobs
  <2>3. Busy' = Busy \ {j} /\ \A i \in Busy' : jobs'[i] = jobs[i]
    <3>1. jobs'[j].phase = "free" /\ \A i \in Jobs : i # j => jobs'[i] = jobs[i]
      BY <1>b, <2>1 DEF Idle
    <3> QED BY <3>1 DEF Busy
  <2>4. AskedOlder' = AskedOlder /\ WorkedOlder' = WorkedOlder \ {j}
    BY <1>q, <2>1, <2>3 DEF WorkedOlder
  <2>5. Same(WorkedOlder', WorkedOlder)
    BY <1>o, <2>4 DEF Same, Single
  <2>6. CASE j \notin WorkedOlder
    <3>1. frames' = frames \/ \E f : frames' = Append(frames, f) /\ f \notin K
      <4>1. CASE ~jobs[j].live
        <5>1. \A f : Reply(j, f) => frames' = frames
          BY <4>1 DEF Reply
        <5>2. q.kind \in {"messages", "older", "send"}
          BY <2>2 DEF Requests
        <5> QED BY <1>9, <5>1, <5>2 DEF LandPage, LandOlder, LandSend, LandFailure
      <4>2. CASE q.kind # "older"
        <5> DEFINE page == Frame("messages", q.chat, jobs[j].rows)
                   done == DoneAck(q.chat, q.temp, jobs[j].guid)
                   failed == FailedAck(q.chat, q.temp)
        <5>1. UNCHANGED frames \/ Reply(j, page) \/ Reply(j, done) \/ Reply(j, failed)
          <6>1. q.kind \in {"messages", "send"}
            BY <2>2, <4>2 DEF Requests
          <6> QED BY <1>9, <6>1 DEF LandPage, LandOlder, LandSend, LandFailure, DoneAck,
                                    FailedAck, NoRows
        <5>2. page \notin K
          BY DEF K, OlderAnswers, Frame
        <5>3. done \notin K /\ failed \notin K
          <6>1. q.chat \in Chats /\ q.temp \in Int /\ jobs[j].guid \in Nat
            BY <2>2 DEF Requests
          <6>2. done.kind = "ack" /\ failed.kind = "ack"
            BY <6>1, AckFrame
          <6> HIDE DEF done, failed
          <6> QED BY <6>2 DEF K, OlderAnswers
        <5> HIDE DEF page, done, failed
        <5> QED BY <5>1, <5>2, <5>3 DEF Reply
      <4> QED BY <2>1, <2>6, <4>1, <4>2 DEF WorkedOlder
    <3>2. ToldOlder' = ToldOlder
      BY <1>d, <1>n, <3>1
    <3> QED BY <1>m, <1>s, <2>1, <2>4, <2>5, <3>2
  <2>7. CASE j \in WorkedOlder
    <3>1. /\ WorkedOlder = {j} /\ AskedOlder = {} /\ ToldOlder = {}
          /\ olderPending = c /\ q.kind = "older"
      BY <1>o, <2>7 DEF OlderUnderWay, Single, WorkedOlder
    <3>2. WorkedOlder' = {} /\ AskedOlder' = {}
      BY <2>4, <3>1
    <3>3. \E f : frames' = frames \/ frames' = Append(frames, f)
      BY <1>9, <3>1 DEF LandPage, LandOlder, LandSend, LandFailure, Reply
    <3>4. Single(ToldOlder')
      <4>1. PICK f : frames' = frames \/ frames' = Append(frames, f)
        BY <3>3
      <4>2. At(frames, K) = {}
        BY <1>d, <3>1
      <4>3. f \in K => Single(At(Append(frames, f), K))
        BY <1>t, <4>2, AtAppend
      <4>4. f \notin K => At(Append(frames, f), K) = {}
        BY <1>t, <4>2, AtAppend
      <4> QED BY <1>d, <4>1, <4>2, <4>3, <4>4 DEF Single
    <3> QED BY <2>1, <3>1, <3>2, <3>4 DEF OneOlder, OlderUnderWay, Single
  <2> QED BY <2>6, <2>7
<1>10. ASSUME DropLink \/ RestartDaemon PROVE OneOlder(c)'
  <2>1. ~linkUp'
    BY <1>10 DEF DropLink, RestartDaemon
  <2>2. requests' = <<>> /\ frames' = <<>> /\ WorkedOlder' = {}
    BY <1>t, <2>1 DEF WorkedOlder
  <2> QED BY <1>d, <1>z, <2>2, AtNothing
<1>11. ASSUME Reconnect PROVE OneOlder(c)'
  <2>1. requests = <<>> /\ frames = <<>> /\ UNCHANGED <<requests, frames, jobs>> /\ WorkedOlder = {}
    BY <1>t, <1>11 DEF Reconnect, WorkedOlder
  <2> QED BY <1>d, <1>j, <1>z, <2>1, AtNothing
<1>12. \/ UNCHANGED <<requests, frames, jobs, olderPending>> \/ HandleMessage
       \/ OnOlderMessages \/ OnOlderError \/ OnMessages \/ OnMessage \/ OnAck
       \/ \E k \in Jobs : MacServesPage(k) \/ MacServesHandle(k) \/ MacRefuses(k) \/ RequestLost(k)
                          \/ \E phase \in {"answered", "refused"} : MacSends(k, phase)
       \/ \E q : Request(q) /\ q.kind # "older" /\ UNCHANGED <<jobs, frames, olderPending>>
       \/ LoadOlderMessages
       \/ \E j \in Jobs : Dispatch(j) \/ LandPage(j) \/ LandOlder(j) \/ LandSend(j) \/ LandFailure(j)
       \/ DropLink \/ RestartDaemon \/ Reconnect
  <2>1. ASSUME NEW d, AskMessages(d), UNCHANGED <<jobs, frames, olderPending>>
        PROVE  \E q : Request(q) /\ q.kind # "older" /\ UNCHANGED <<jobs, frames, olderPending>>
    BY <2>1 DEF AskMessages
  <2>2. CASE ReloadActiveMessages
    BY <2>1, <2>2 DEF ReloadActiveMessages, clientVars
  <2>3. ASSUME NEW d \in Chats, OpenChat(d)
        PROVE  \/ UNCHANGED <<requests, frames, jobs, olderPending>>
               \/ \E q : Request(q) /\ q.kind # "older" /\ UNCHANGED <<jobs, frames, olderPending>>
    BY <2>1, <2>3 DEF OpenChat
  <2>4. ASSUME NEW text \in Texts, SendMessage(text)
        PROVE  \E q : Request(q) /\ q.kind # "older" /\ UNCHANGED <<jobs, frames, olderPending>>
    BY <2>4 DEF SendMessage
  <2>5. \/ UNCHANGED <<requests, frames, jobs, olderPending>> \/ HandleMessage
        \/ OnOlderMessages \/ OnOlderError \/ OnMessages \/ OnMessage \/ OnAck
        \/ \E k \in Jobs : MacServesPage(k) \/ MacServesHandle(k) \/ MacRefuses(k) \/ RequestLost(k)
                          \/ \E phase \in {"answered", "refused"} : MacSends(k, phase)
        \/ ReloadActiveMessages \/ LoadOlderMessages \/ \E d \in Chats : OpenChat(d)
        \/ \E text \in Texts : SendMessage(text)
        \/ \E j \in Jobs : Dispatch(j) \/ LandPage(j) \/ LandOlder(j) \/ LandSend(j) \/ LandFailure(j)
        \/ DropLink \/ RestartDaemon \/ Reconnect
    BY DEF Next, vars, MacFilesLate, Flush, pipeVars, clientVars, MacMessage, PushesLost, CloseChat
  <2> QED BY <2>2, <2>3, <2>4, <2>5
<1>13. OneOlder(c)'
  BY <1>1, <1>2, <1>3, <1>4, <1>5, <1>6, <1>7, <1>8, <1>9, <1>10, <1>11, <1>12
<1> QED BY <1>1, <1>13

(* What older page may be under way: it ends at the time of a message, and *)
(* neither the thread nor the newest page shows anything older.            *)
Cursor(c, t) ==
  /\ t \in Nat \ {0} /\ \E g \in DOMAIN filed : filed[g].ts = t
  /\ threads[c] # <<>>
  /\ Since(t, threads[c]) /\ Since(t, Page(c, 0))

AskedWell(c, q, live) ==
  IF q.kind = "older" THEN live => Cursor(c, q.before) ELSE q.before = 0

(* While nothing was filed and nothing sent, every page is the one the Mac *)
(* holds, wherever it is, and the thread shows at least the newest.        *)
NothingPushed == wire = <<>> /\ heard = {}

WarmServed(c) == c \in ToSet(warm) => pages[c] = Page(c, 0)
DiskServed(c) == c \in ToSet(disk.warm) => disk.pages[c] = Page(c, 0)

AskedServed(c) == \A i \in DOMAIN requests : AskedWell(c, requests[i], TRUE)

WorkedServed(c) ==
  \A j \in Jobs :
    jobs[j] # Idle =>
      /\ AskedWell(c, jobs[j].request, jobs[j].live)
      /\ jobs[j].phase = "answered" => jobs[j].rows = Page(c, jobs[j].request.before)
      /\ jobs[j].phase = "byHandle" => Page(c, jobs[j].request.before) = <<>>

ToldWell(c, f) ==
  /\ f.kind = "messages" => f.rows = Page(c, 0)
  /\ f.kind = "older" =>
       \E t : Cursor(c, t) /\ f.rows = Page(c, t) /\ (f.flag <=> Since(t, f.rows))

ToldServed(c) == \A i \in DOMAIN frames : ToldWell(c, frames[i])

ShownServed(c) ==
  /\ threads[c] # <<>> => Guids(Page(c, 0)) \subseteq Guids(threads[c])
  /\ OldestFirst(threads[c])

Served(c) ==
  /\ NothingPushed /\ WarmServed(c) /\ DiskServed(c) /\ AskedServed(c) /\ WorkedServed(c)
  /\ ToldServed(c) /\ ShownServed(c)

(* What is quiet was quiet. *)
LEMMA QuietBefore ==
  ASSUME Known, [Next]_vars, Len(History) <= Len(filed), Quiet'
  PROVE  Quiet /\ filed' = filed /\ sends' = sends
<1>1. /\ filed \in Seq(Messages) /\ filed' \in Seq(Messages) /\ Extends(filed, filed')
      /\ sends \in Seq(Sent) /\ sends' \in Seq(Sent) /\ Extends(sends, sends')
  BY Grown DEF Known, MacKnown, ReaderKnown, Sent
<1>2. filed' = History /\ sends' = <<>>
  BY DEF Quiet
<1>3. DOMAIN sends = {}
  BY <1>1, <1>2 DEF Extends
<1>4. sends = <<>>
  BY <1>1, <1>3
<1>5. Len(filed) = Len(filed')
  <2>1. DOMAIN filed = 1..Len(filed) /\ DOMAIN filed' = 1..Len(filed')
        /\ Len(filed) \in Nat /\ Len(filed') \in Nat
    BY <1>1
  <2>2. Len(filed') <= Len(filed)
    BY <1>2
  <2>3. 1..Len(filed) \subseteq 1..Len(filed')
    BY <1>1, <2>1 DEF Extends
  <2>4. \A m, n \in Nat : m <= n /\ 1..n \subseteq 1..m => m = n
    <3> SUFFICES ASSUME NEW m \in Nat, NEW n \in Nat, m <= n, 1..n \subseteq 1..m PROVE m = n
      OBVIOUS
    <3>1. n = 0 \/ n \in 1..m
      OBVIOUS
    <3> QED BY <3>1
  <2> QED BY <2>1, <2>2, <2>3, <2>4
<1>6. filed = filed'
  BY <1>1, <1>5 DEF Extends
<1> QED BY <1>2, <1>4, <1>6 DEF Quiet

LEMMA SamePages ==
  ASSUME filed' = filed
  PROVE  /\ \A c, t : Page(c, t)' = Page(c, t)
         /\ \A t, rows : Since(t, rows)' <=> Since(t, rows)
BY DEF Page, PageOf, Since

(* Nobody sends, and nothing is pushed. *)
LEMMA QuietSources ==
  ASSUME Known, Quiet, NothingPushed
  PROVE  /\ ~HandleMessage /\ ~OnMessage /\ ~OnAck
         /\ \A i \in DOMAIN requests : requests[i].kind # "send"
         /\ \A j \in Jobs : jobs[j] # Idle => jobs[j].request.kind # "send"
<1>1. \A t : ~SentBy(t, sends)
  BY DEF Quiet, SentBy
<1>2. ~HandleMessage
  BY DEF NothingPushed, HandleMessage
<1>3. ~OnAck
  BY <1>1, FrameRows DEF OnAck, SoundFrame
<1>4. ~OnMessage
  BY FrameRows DEF OnMessage, SoundFrame, NothingPushed
<1>5. \A i \in DOMAIN requests : requests[i].kind # "send"
  BY <1>1 DEF Known, PipesKnown, SoundRequest
<1>6. \A j \in Jobs : jobs[j] # Idle => jobs[j].request.kind # "send"
  BY <1>1 DEF Known, JobsKnown, SoundJob, SoundRequest
<1> QED BY <1>2, <1>3, <1>4, <1>5, <1>6

LEMMA NothingPushedStays ==
  ASSUME Known, [Next]_vars, Quiet, filed' = filed, NothingPushed
  PROVE  NothingPushed'
<1>1. filed \in Seq(Messages)
  BY DEF Known, MacKnown
<1>2. \A m : ~File(m)
  <2>1. \A m : Append(filed, m) # filed
    <3> SUFFICES ASSUME NEW m, Append(filed, m) = filed PROVE FALSE
      OBVIOUS
    <3>1. Len(Append(filed, m)) = Len(filed) + 1 /\ Len(filed) \in Nat
      BY <1>1
    <3> QED BY <3>1
  <2> QED BY <2>1 DEF File
<1>3. \A t : ~FileSend(t)
  BY <1>2 DEF FileSend
<1> QED BY <1>2, <1>3, QuietSources DEF NothingPushed, Next, vars, macVars, daemonVars,
         MacMessage, PushesLost, MacServesPage, MacServesHandle, MacSends, MacRefuses,
         RequestLost, MacFilesLate, Flush,
         Dispatch, LandPage, LandOlder, LandSend, LandFailure, OpenChat, CloseChat,
         ReloadActiveMessages, LoadOlderMessages, SendMessage, OnMessages, OnOlderMessages,
         OnOlderError, AfterFrame, DropLink, RestartDaemon, Reconnect

(* The newest page, or a page put before the thread: nothing else changes  *)
(* what is shown.                                                          *)
LEMMA QuietThreads ==
  ASSUME Known, [Next]_vars, Quiet, filed' = filed, sends' = sends, NEW c, Chats = {c},
         NothingPushed, ToldServed(c)
  PROVE  \/ threads' = threads
         \/ /\ OnMessages /\ threads' = [threads EXCEPT ![c] = Page(c, 0)]
         \/ /\ OnOlderMessages /\ frames # <<>> /\ Head(frames).kind = "older"
            /\ c = activeChat
            /\ threads' = [threads EXCEPT ![c] = NotShown(Head(frames).rows, threads[c]) \o threads[c]]
<1>1. ~OnMessage /\ ~OnAck
  BY QuietSources
<1>2. \A text \in Texts : ~SendMessage(text)
  <2>1. sends' = <<>> /\ sends = <<>>
    BY DEF Quiet
  <2> QED BY <2>1 DEF SendMessage
<1>3. CASE OnMessages
  <2> DEFINE f == Head(frames)
  <2>1. /\ frames # <<>> /\ f.kind = "messages" /\ f.chat \in Chats /\ f \in Frames
    BY <1>3, FrameRows DEF OnMessages
  <2>2. f.chat = c /\ f.rows = Page(c, 0) /\ f.rows \in Seq(Rows)
    <3>1. frames \in Seq(Frames) /\ 1 \in DOMAIN frames /\ f = frames[1]
      BY <2>1 DEF Known, PipesKnown
    <3> QED BY <2>1, <3>1 DEF ToldServed, ToldWell, Frames
  <2>3. threads[c] \in Seq(Rows) /\ \A i \in DOMAIN threads[c] :
          threads[c][i].state = "shown" /\ threads[c][i].temp = 0
    BY QuietRows
  <2>4. Replaced(WithKnownTempIds(f.rows, threads[c]), threads[c]) = f.rows
    BY <2>2, <2>3, QuietReplacement
  <2>5. \/ threads' = threads
        \/ threads' = [threads EXCEPT ![c] = Replaced(WithKnownTempIds(f.rows, threads[c]), threads[c])]
    BY <1>3, <2>2 DEF OnMessages
  <2> QED BY <1>3, <2>2, <2>4, <2>5
<1>4. CASE OnOlderMessages
  <2>1. frames # <<>> /\ Head(frames).kind = "older" /\ Head(frames).chat = c
    BY <1>4, FrameRows DEF OnOlderMessages
  <2> QED BY <1>4, <2>1 DEF OnOlderMessages, WithOlder
<1> QED BY <1>1, <1>2, <1>3, <1>4, ThreadSteps

LEMMA NewestPage ==
  ASSUME filed = History, filed \in Seq(Messages), InOrder, NEW c, NEW t
  PROVE  /\ Page(c, t) \in Seq(Rows) /\ OldestFirst(Page(c, t))
         /\ \A i \in DOMAIN Page(c, t) : Page(c, t)[i].guid \in DOMAIN filed
<1> DEFINE rows == Page(c, t)
<1>1. /\ rows \in Seq(Rows) /\ \A i \in DOMAIN rows : rows[i].guid \in DOMAIN filed
      /\ \A i, k \in DOMAIN rows : i < k => rows[i].guid < rows[k].guid
  BY PageElements DEF Within
<1> HIDE DEF rows
<1>2. ASSUME rows # <<>>, NEW k \in DOMAIN rows
      PROVE  filed[rows[1].guid].ts <= filed[rows[k].guid].ts
  <2>1. 1 \in DOMAIN rows /\ (k = 1 \/ 1 < k)
    BY <1>1, <1>2
  <2>2. rows[1].guid \in DOMAIN filed /\ rows[k].guid \in DOMAIN filed
        /\ (k = 1 \/ rows[1].guid < rows[k].guid)
    BY <1>1, <1>2, <2>1
  <2>3. rows[1].guid <= rows[k].guid
    <3>1. rows[1].guid \in Int /\ rows[k].guid \in Int
      BY <2>2
    <3> QED BY <2>2, <3>1
  <2> QED BY <2>2, <2>3 DEF InOrder
<1>3. OldestFirst(rows)
  BY <1>2 DEF OldestFirst, Since
<1> QED BY <1>1, <1>3 DEF rows

(* A cursor stays one until the older page lands. *)
LEMMA CursorStays ==
  ASSUME Known, [Next]_vars, Quiet, filed' = filed, sends' = sends,
         NEW c, Chats = {c}, OwnThread(c),
         NothingPushed, ToldServed(c), ~OnOlderMessages, NEW t, Cursor(c, t)
  PROVE  Cursor(c, t)'
<1>1. threads' = threads \/ threads' = [threads EXCEPT ![c] = Page(c, 0)]
  BY QuietThreads
<1>2. threads \in [Chats -> Seq(Rows)] /\ c \in Chats
  BY DEF Known, ReaderKnown
<1>3. threads'[c] = threads[c] \/ threads'[c] = Page(c, 0)
  BY <1>1, <1>2
<1>4. Page(c, 0)' = Page(c, 0) /\ \A rows : Since(t, rows)' <=> Since(t, rows)
  BY SamePages
<1>5. Since(t, threads'[c]) /\ Since(t, Page(c, 0))
  BY <1>3 DEF Cursor
<1>6. Since(t, threads[c])' /\ Since(t, Page(c, 0))'
  BY <1>4, <1>5 DEF Since
<1>7. Page(c, 0) # <<>>
  <2>1. PICK g \in DOMAIN filed : filed[g].ts = t
    BY DEF Cursor
  <2>2. filed \in Seq(Messages) /\ PageSize \in Nat \ {0}
    BY ThreadAssumptions DEF Known, MacKnown
  <2>3. g \in Within(c, 0)
    BY DEF Within, OwnThread, Quiet
  <2>4. Cardinality(Within(c, 0)) # 0
    <3>1. Within(c, 0) \subseteq 1..Len(filed) /\ Len(filed) \in Nat
      BY <2>2 DEF Within
    <3>2. IsFiniteSet(Within(c, 0))
      BY <3>1, Positions
    <3> QED BY <2>3, <3>2, FS_EmptySet
  <2>5. /\ Cardinality(Within(c, 0)) \in Nat
        /\ Len(Page(c, 0)) = IF Cardinality(Within(c, 0)) <= PageSize
                               THEN Cardinality(Within(c, 0)) ELSE PageSize
    BY <2>2, PageElements
  <2>6. Len(Page(c, 0)) # 0
    BY <2>2, <2>4, <2>5
  <2> QED BY <2>6
<1>8. threads'[c] # <<>>
  BY <1>3, <1>7 DEF Cursor
<1> QED BY <1>6, <1>8 DEF Cursor

LEMMA WarmServedStays ==
  ASSUME Known, [Next]_vars, Quiet, filed' = filed, sends' = sends, NEW c, Chats = {c},
         Served(c)
  PROVE  WarmServed(c)'
<1>1. Page(c, 0)' = Page(c, 0)
  BY SamePages
<1>2. ~HandleMessage
  BY QuietSources DEF Served
<1>3. CASE UNCHANGED <<pages, warm>>
  BY <1>1, <1>3 DEF Served, WarmServed
<1>4. ASSUME NEW j \in Jobs, Dispatch(j) PROVE WarmServed(c)'
  <2>1. Head(requests).chat = c /\ UNCHANGED pages
    BY <1>4, FirstRequest DEF Dispatch, Requests
  <2>2. warm' = warm \/ c \in ToSet(warm)
    BY <1>4, <2>1 DEF Dispatch
  <2> QED BY <1>1, <2>1, <2>2 DEF Served, WarmServed
<1>5. ASSUME NEW j \in Jobs, LandPage(j) PROVE WarmServed(c)'
  <2>1. jobs[j] # Idle /\ jobs[j] \in BusyJobs /\ SoundRequest(jobs[j].request, sends)
    BY <1>5, BusyIsJob DEF LandPage, Known, SoundJob
  <2>2. jobs[j].request.chat = c
    BY <2>1 DEF BusyJobs, Requests
  <2>3. pages' = [d \in Chats |-> IF d = c THEN jobs[j].rows
                                  ELSE IF d \in ToSet(Touched(c)) THEN pages[d] ELSE <<>>]
    BY <1>5, <2>2 DEF LandPage
  <2>4. pages'[c] = jobs[j].rows
    BY <2>3
  <2>5. jobs[j].rows = Page(c, 0)
    BY <1>5, <2>1 DEF LandPage, Served, WorkedServed, AskedWell
  <2> QED BY <1>1, <2>4, <2>5 DEF WarmServed
<1>6. CASE RestartDaemon
  <2>1. PICK read \in {Cached, disk} : pages' = read.pages /\ warm' = read.warm
    BY <1>6 DEF RestartDaemon
  <2>2. c \in ToSet(read.warm) => read.pages[c] = Page(c, 0)
    BY <2>1 DEF Cached, Served, WarmServed, DiskServed
  <2> QED BY <1>1, <2>1, <2>2 DEF WarmServed
<1>7. \/ UNCHANGED <<pages, warm>> \/ HandleMessage \/ RestartDaemon
      \/ \E j \in Jobs : Dispatch(j) \/ LandPage(j)
  BY DEF Next, vars, MacFilesLate, Flush, MacServesHandle, RequestLost, daemonVars,
       MacMessage, PushesLost, MacServesPage, MacSends, MacRefuses, LandOlder, LandSend,
       LandFailure, OpenChat, CloseChat, ReloadActiveMessages, LoadOlderMessages,
       SendMessage, OnMessages, OnOlderMessages, OnOlderError, OnMessage, OnAck, AfterFrame,
       DropLink, Reconnect
<1> QED BY <1>2, <1>3, <1>4, <1>5, <1>6, <1>7

LEMMA DiskServedStays ==
  ASSUME [Next]_vars, filed' = filed, NEW c, Served(c)
  PROVE  DiskServed(c)'
<1>1. Page(c, 0)' = Page(c, 0)
  BY SamePages
<1>2. disk' \in {Cached, disk}
  BY DiskSteps
<1> QED BY <1>1, <1>2 DEF Cached, Served, WarmServed, DiskServed

(* A request asks for the newest page, or for one that ends where the      *)
(* thread begins.                                                          *)
LEMMA AskedServedStays ==
  ASSUME Known, [Next]_vars, Quiet, filed' = filed, sends' = sends,
         NEW c, Chats = {c}, OwnThread(c),
         Served(c), OneOlder(c)
  PROVE  AskedServed(c)'
<1>1. \A q : ~OnOlderMessages /\ AskedWell(c, q, TRUE) => AskedWell(c, q, TRUE)'
  BY CursorStays DEF AskedWell, Served
<1>t. requests \in Seq(Requests) /\ requests' \in Seq(Requests)
  BY StepKnown DEF Known, PipesKnown
<1>2. CASE OnOlderMessages
  <2>1. AskedOlder' = {} /\ requests' = requests
    BY <1>2, OlderFlow DEF OlderUnderWay, OnOlderMessages, AfterFrame
  <2>2. \A i \in DOMAIN requests : requests[i].kind # "older"
    <3>1. At(requests', OlderRequests) = {}
      BY <2>1 DEF AskedOlder
    <3>2. \A i \in DOMAIN requests : requests[i] \in Requests
      BY <1>t
    <3> QED BY <2>1, <3>1, <3>2 DEF At, OlderRequests
  <2> QED BY <2>1, <2>2 DEF Served, AskedServed, AskedWell
<1>3. CASE requests' = requests /\ ~OnOlderMessages
  BY <1>1, <1>3 DEF Served, AskedServed
<1>4. CASE requests' = <<>>
  BY <1>4 DEF AskedServed
<1>5. ASSUME NEW j \in Jobs, Dispatch(j) PROVE AskedServed(c)'
  <2>1. requests # <<>> /\ requests' = Tail(requests)
    BY <1>5 DEF Dispatch
  <2>2. \A i \in DOMAIN requests' : i + 1 \in DOMAIN requests /\ requests'[i] = requests[i + 1]
    BY <1>t, <2>1
  <2>3. ~OnOlderMessages
    <3>1. OnOlderMessages => UNCHANGED requests
      BY DEF OnOlderMessages, AfterFrame
    <3>2. requests' # requests
      <4>1. Len(requests') = Len(requests) - 1 /\ Len(requests) \in Nat
        BY <1>t, <2>1
      <4> QED BY <4>1
    <3> QED BY <3>1, <3>2
  <2> QED BY <1>1, <2>2, <2>3 DEF Served, AskedServed
<1>6. ASSUME NEW q, Request(q), AskedWell(c, q, TRUE), ~OnOlderMessages PROVE AskedServed(c)'
  <2>1. requests' = Append(requests, q)
    BY <1>6 DEF Request
  <2>2. \A i \in DOMAIN requests' : requests'[i] = q \/ (i \in DOMAIN requests /\ requests'[i] = requests[i])
    BY <1>t, <2>1
  <2> QED BY <1>1, <1>6, <2>2 DEF Served, AskedServed
<1>7. ASSUME NEW q, Request(q) PROVE ~OnOlderMessages
  <2>1. OnOlderMessages => UNCHANGED requests
    BY DEF OnOlderMessages, AfterFrame
  <2>2. requests' # requests
    <3>1. requests' = Append(requests, q)
      BY <1>7 DEF Request
    <3>2. Len(requests') = Len(requests) + 1 /\ Len(requests) \in Nat
      BY <1>t, <3>1
    <3> QED BY <3>2
  <2> QED BY <2>1, <2>2
<1>8. ASSUME NEW d, AskMessages(d) PROVE AskedServed(c)'
  BY <1>6, <1>7, <1>8 DEF AskMessages, AskedWell
<1>9. CASE LoadOlderMessages
  <2> DEFINE first == Head(threads[c])
             q == [kind |-> "older", chat |-> activeChat, temp |-> 0, before |-> TsOf(first)]
  <2>1. activeChat = c /\ threads[c] # <<>> /\ Request(q)
    BY <1>9 DEF LoadOlderMessages, MayLoadOlder, Known, ReaderKnown
  <2>2. threads[c] \in Seq(Rows) /\ \A i \in DOMAIN threads[c] :
          threads[c][i].state = "shown" /\ threads[c][i].guid \in DOMAIN filed
    BY QuietRows
  <2>3. 1 \in DOMAIN threads[c] /\ first = threads[c][1]
    BY <2>1, <2>2
  <2>4. first.guid \in DOMAIN filed /\ TsOf(first) = filed[first.guid].ts
    BY <2>2, <2>3 DEF TsOf
  <2>5. TsOf(first) \in Nat \ {0}
    <3> DEFINE M == [chat : Chats \cup {None}, handle : Handles \cup {None},
                     ts : Nat \ {0}, fromMe : BOOLEAN, text : Texts]
    <3>1. History \in Seq(M)
      BY ThreadAssumptions
    <3> HIDE DEF first
    <3>2. filed[first.guid] \in M
      <4> HIDE DEF M
      <4> QED BY <2>4, <3>1 DEF Quiet
    <3> QED BY <2>4, <3>2
  <2>6. Since(TsOf(first), threads[c])
    BY <2>1, <2>3, <2>4 DEF Served, ShownServed, OldestFirst
  <2>7. Since(TsOf(first), Page(c, 0))
    <3> HIDE DEF first
    <3> SUFFICES ASSUME NEW i \in DOMAIN Page(c, 0)
                 PROVE  TsOf(first) <= filed[Page(c, 0)[i].guid].ts
      BY DEF Since
    <3>1. PICK k \in DOMAIN threads[c] : threads[c][k].guid = Page(c, 0)[i].guid
      BY <2>1 DEF Served, ShownServed, Guids
    <3> QED BY <2>6, <3>1 DEF Since
  <2>8. AskedWell(c, q, TRUE)
    BY <2>1, <2>4, <2>5, <2>6, <2>7 DEF AskedWell, Cursor
  <2> HIDE DEF q
  <2> QED BY <1>6, <1>7, <2>1, <2>8
<1>10. CASE ReloadActiveMessages
  BY <1>8, <1>10 DEF ReloadActiveMessages
<1>11. ASSUME NEW d \in Chats, OpenChat(d) PROVE AskMessages(d) \/ requests' = requests
  BY <1>11 DEF OpenChat
<1>12. \A text \in Texts : ~SendMessage(text)
  <2>1. sends' = <<>> /\ sends = <<>>
    BY DEF Quiet
  <2> QED BY <2>1 DEF SendMessage
<1>13. \/ requests' = requests \/ requests' = <<>> \/ \E j \in Jobs : Dispatch(j)
       \/ LoadOlderMessages \/ ReloadActiveMessages \/ \E d \in Chats : OpenChat(d)
  BY <1>12 DEF Next, vars, MacFilesLate, Flush, MacServesHandle, RequestLost, pipeVars,
       MacMessage, PushesLost, MacServesPage, MacSends, MacRefuses, HandleMessage, LandPage,
       LandOlder, LandSend, LandFailure, CloseChat, OnMessages, OnOlderMessages,
       OnOlderError, OnMessage, OnAck, AfterFrame, DropLink, RestartDaemon, Reconnect
<1> QED BY <1>2, <1>3, <1>4, <1>5, <1>8, <1>9, <1>10, <1>11, <1>13

(* A job answers with the page it was asked for. *)
LEMMA WorkedServedStays ==
  ASSUME Known, [Next]_vars, Quiet, filed' = filed, sends' = sends,
         NEW c, Chats = {c}, OwnThread(c),
         Served(c), OneOlder(c)
  PROVE  WorkedServed(c)'
<1> SUFFICES ASSUME NEW j \in Jobs, jobs'[j] # Idle
             PROVE  /\ AskedWell(c, jobs[j].request, jobs[j].live)'
                    /\ jobs'[j].phase = "answered" => jobs'[j].rows = Page(c, jobs'[j].request.before)
                    /\ jobs'[j].phase = "byHandle" => Page(c, jobs'[j].request.before) = <<>>
  <2>1. \A s : Page(c, s)' = Page(c, s)
    BY SamePages
  <2> QED BY <2>1 DEF WorkedServed
<1>b. /\ jobs \in [Jobs -> {Idle} \cup BusyJobs] /\ (j \in Busy <=> jobs[j] # Idle)
      /\ jobs[j] # Idle => jobs[j] \in BusyJobs
      /\ jobs' \in [Jobs -> {Idle} \cup BusyJobs] /\ jobs'[j] \in BusyJobs
  <2>1. JobsKnown /\ JobsKnown'
    BY StepKnown DEF Known
  <2> QED BY <2>1, BusyIsJob DEF JobsKnown
<1>w. ASSUME NEW q \in Requests, NEW live \in BOOLEAN, AskedWell(c, q, live),
             OnOlderMessages => ~(q.kind = "older" /\ live)
      PROVE  AskedWell(c, q, live)'
  <2>1. CASE ~OnOlderMessages
    BY <1>w, <2>1, CursorStays DEF AskedWell, Served
  <2>2. CASE OnOlderMessages
    BY <1>w, <2>2 DEF AskedWell
  <2> QED BY <2>1, <2>2
<1>o. ASSUME OnOlderMessages
      PROVE  jobs' = jobs /\ ~(jobs[j].request.kind = "older" /\ jobs[j].live)
  <2>1. jobs' = jobs /\ WorkedOlder' = {}
    BY <1>o, OlderFlow DEF OlderUnderWay, OnOlderMessages, AfterFrame
  <2>2. WorkedOlder = {} /\ j \in Busy
    BY <1>b, <2>1 DEF WorkedOlder, Busy
  <2> QED BY <2>1, <2>2 DEF WorkedOlder
<1>1. AskedWell(c, jobs[j].request, jobs[j].live)'
  <2>t. jobs'[j].request \in Requests /\ jobs'[j].live \in BOOLEAN
    BY <1>b DEF BusyJobs
  <2>1. CASE jobs'[j] = jobs[j]
    <3>1. AskedWell(c, jobs'[j].request, jobs'[j].live)
      BY <2>1 DEF Served, WorkedServed
    <3> QED BY <1>o, <1>w, <2>1, <2>t, <3>1
  <2>2. CASE /\ j \in Busy /\ jobs'[j].request = jobs[j].request
             /\ jobs'[j].live = jobs[j].live \/ DropLink
             /\ DropLink => ~jobs'[j].live
    <3>1. AskedWell(c, jobs[j].request, jobs[j].live)
      BY <1>b, <2>2 DEF Served, WorkedServed
    <3>2. AskedWell(c, jobs'[j].request, jobs'[j].live)
      BY <2>2, <3>1 DEF AskedWell
    <3> QED BY <1>o, <1>w, <2>t, <3>2
  <2>3. CASE Dispatch(j) /\ \E hit : jobs'[j] = Job(Head(requests), hit)
    <3>1. /\ requests # <<>> /\ jobs'[j].request = Head(requests) /\ jobs'[j].live
          /\ requests \in Seq(Requests) /\ jobs[j].phase = "free"
      BY <2>3 DEF Dispatch, Job, Known, PipesKnown
    <3>2. 1 \in DOMAIN requests /\ Head(requests) = requests[1]
      BY <3>1
    <3>3. AskedWell(c, jobs'[j].request, jobs'[j].live)
      BY <3>1, <3>2 DEF Served, AskedServed, AskedWell
    <3>4. ~OnOlderMessages
      <4>1. jobs' # jobs
        BY <1>b, <3>1, BusyIsJob DEF Known
      <4> QED BY <1>o, <4>1
    <3> QED BY <1>w, <2>t, <3>3, <3>4
  <2> QED BY <2>1, <2>2, <2>3, JobSteps
<1>2. ASSUME jobs'[j].phase \in {"answered", "byHandle"}
      PROVE  /\ jobs'[j].phase = "answered" => jobs'[j].rows = Page(c, jobs'[j].request.before)
             /\ jobs'[j].phase = "byHandle" => Page(c, jobs'[j].request.before) = <<>>
  <2>1. CASE /\ jobs[j] # Idle /\ jobs'[j].phase = jobs[j].phase
             /\ jobs'[j].rows = jobs[j].rows /\ jobs'[j].request = jobs[j].request
    BY <2>1 DEF Served, WorkedServed
  <2>2. CASE MacServesPage(j) \/ MacServesHandle(j)
    <3> DEFINE q == jobs[j].request
    <3>1. jobs[j] \in BusyJobs
      BY <2>2, BusyIsJob DEF MacServesPage, MacServesHandle, AsksForPage, Known
    <3>2. q.chat = c
      BY <3>1 DEF BusyJobs, Requests
    <3>3. MacServesPage(j) =>
            \/ jobs' = [jobs EXCEPT ![j].phase = "answered", ![j].rows = Page(c, q.before)]
            \/ jobs' = [jobs EXCEPT ![j].phase = "byHandle"] /\ Page(c, q.before) = <<>>
      BY <3>2 DEF MacServesPage
    <3>4. MacServesHandle(j) =>
            jobs' = [jobs EXCEPT ![j].phase = "answered", ![j].rows = PageByHandle(Solo[c], q.before)]
      BY <3>2 DEF MacServesHandle
    <3>5. MacServesHandle(j) => PageByHandle(Solo[c], q.before) = Page(c, q.before)
      <4>1. MacServesHandle(j) => jobs[j].phase = "byHandle" /\ jobs[j] # Idle
        BY <1>b, <3>1, BusyIsJob DEF MacServesHandle, AsksForPage, BusyJobs, Idle, Known
      <4>2. MacServesHandle(j) => Page(c, q.before) = <<>>
        BY <4>1 DEF Served, WorkedServed
      <4>3. filed = History /\ filed \in Seq(Messages)
        BY DEF Quiet, Known, MacKnown
      <4> QED BY <4>2, <4>3, HandlePage
    <3>6. \/ jobs' = [jobs EXCEPT ![j].phase = "answered", ![j].rows = Page(c, q.before)]
          \/ jobs' = [jobs EXCEPT ![j].phase = "byHandle"] /\ Page(c, q.before) = <<>>
      BY <2>2, <3>3, <3>4, <3>5
    <3> HIDE DEF q
    <3>7. CASE jobs' = [jobs EXCEPT ![j].phase = "answered", ![j].rows = Page(c, q.before)]
      BY <1>b, <3>1, <3>7 DEF BusyJobs, q
    <3>8. CASE jobs' = [jobs EXCEPT ![j].phase = "byHandle"] /\ Page(c, q.before) = <<>>
      BY <1>b, <3>1, <3>8 DEF BusyJobs, q
    <3> QED BY <3>6, <3>7, <3>8
  <2>3. \/ MacServesPage(j) \/ MacServesHandle(j)
        \/ /\ jobs[j] # Idle /\ jobs'[j].phase = jobs[j].phase
           /\ jobs'[j].rows = jobs[j].rows /\ jobs'[j].request = jobs[j].request
    <3>1. ASSUME NEW k \in Jobs, MacServesPage(k) \/ MacServesHandle(k) \/ MacRefuses(k) \/ RequestLost(k)
          PROVE  jobs'[j] = jobs[j] \/ MacServesPage(j) \/ MacServesHandle(j)
      <4>1. CASE k # j
        BY <1>b, <3>1, <4>1 DEF MacServesPage, MacServesHandle, AsksForPage, MacRefuses,
             RequestLost, AsksToSend
      <4>2. CASE k = j
        <5>1. MacRefuses(j) => jobs'[j].phase = "refused"
          <6>1. MacRefuses(j) => jobs[j] \in BusyJobs
            BY BusyIsJob DEF MacRefuses, RequestLost, AsksToSend, Known
          <6> QED BY <1>b, <6>1 DEF MacRefuses, RequestLost, AsksToSend, BusyJobs
        <5>2. ~RequestLost(j)
          BY <1>b, QuietSources, BusyIsJob DEF RequestLost, AsksToSend, Known, Served
        <5> QED BY <1>2, <3>1, <4>2, <5>1, <5>2
      <4> QED BY <4>1, <4>2
    <3>2. \A phase : \A k \in Jobs : ~MacSends(k, phase)
      BY BusyIsJob, QuietSources DEF MacSends, AsksToSend, FileSend, Known, Served
    <3>3. ASSUME NEW k \in Jobs, Dispatch(k) PROVE jobs'[j] = jobs[j]
      <4>1. Dispatch(j) => jobs'[j].phase = "asked"
        BY <1>b DEF Dispatch, Job
      <4>2. k # j
        BY <1>2, <3>3, <4>1
      <4> QED BY <1>b, <3>3, <4>2 DEF Dispatch
    <3>4. ASSUME NEW k \in Jobs, Done(k) PROVE jobs'[j] = jobs[j]
      BY <1>b, <3>4 DEF Done
    <3>5. CASE DropLink
      <4>1. jobs'[j] = IF j \in Busy THEN [jobs[j] EXCEPT !.live = FALSE] ELSE jobs[j]
        BY <3>5 DEF DropLink
      <4>2. j \in Busy /\ jobs[j] \in BusyJobs
        BY <1>b, <4>1
      <4> QED BY <1>b, <4>1, <4>2 DEF BusyJobs
    <3>6. ~RestartDaemon
      BY DEF RestartDaemon
    <3>7. jobs'[j] = jobs[j] => /\ jobs[j] # Idle /\ jobs'[j].phase = jobs[j].phase
                                /\ jobs'[j].rows = jobs[j].rows /\ jobs'[j].request = jobs[j].request
      OBVIOUS
    <3>8. \/ jobs' = jobs \/ DropLink \/ RestartDaemon \/ \E k \in Jobs : Dispatch(k) \/ Done(k)
          \/ \E k \in Jobs : MacServesPage(k) \/ MacServesHandle(k) \/ MacRefuses(k) \/ RequestLost(k)
      BY <3>2 DEF Next, vars, MacFilesLate, Flush, MacMessage, PushesLost, HandleMessage,
         LandPage, LandOlder, LandSend, LandFailure, OpenChat, CloseChat,
         ReloadActiveMessages, LoadOlderMessages, SendMessage, OnMessages, OnOlderMessages,
         OnOlderError, OnMessage, OnAck, AfterFrame, Reconnect
    <3> QED BY <3>1, <3>3, <3>4, <3>5, <3>6, <3>7, <3>8
  <2> QED BY <2>1, <2>2, <2>3
<1> QED BY <1>1, <1>2

LEMMA ToldServedStays ==
  ASSUME Known, [Next]_vars, Quiet, filed' = filed, sends' = sends,
         NEW c, Chats = {c}, OwnThread(c),
         Served(c), OneOlder(c)
  PROVE  ToldServed(c)'
<1>t. frames \in Seq(Frames) /\ frames' \in Seq(Frames)
  BY StepKnown DEF Known, PipesKnown
<1>p. /\ \A s : Page(c, s)' = Page(c, s)
      /\ \A s, rows : Since(s, rows)' <=> Since(s, rows)
  BY SamePages
<1>w. ASSUME NEW f, ToldWell(c, f), ~OnOlderMessages PROVE ToldWell(c, f)'
  <2>1. ASSUME f.kind = "older"
        PROVE  \E s : /\ Cursor(c, s)' /\ f.rows = Page(c, s)
                      /\ (f.flag <=> Since(s, f.rows))
    <3>1. PICK s : Cursor(c, s) /\ f.rows = Page(c, s) /\ (f.flag <=> Since(s, f.rows))
      BY <1>w, <2>1 DEF ToldWell
    <3>2. Cursor(c, s)'
      BY <1>w, <3>1, CursorStays DEF Served
    <3> QED BY <3>1, <3>2
  <2>2. f.kind = "older" => (\E s : /\ Cursor(c, s) /\ f.rows = Page(c, s)
                                    /\ (f.flag <=> Since(s, f.rows)))'
    BY <1>p, <2>1
  <2>3. f.kind = "messages" => f.rows = Page(c, 0)'
    BY <1>p, <1>w DEF ToldWell
  <2> QED BY <2>2, <2>3 DEF ToldWell
<1>1. CASE frames' = <<>>
  BY <1>1 DEF ToldServed
<1>2. CASE frames # <<>> /\ frames' = Tail(frames)
  <2>1. \A i \in DOMAIN frames' : i + 1 \in DOMAIN frames /\ frames'[i] = frames[i + 1]
    BY <1>t, <1>2
  <2>2. \A i \in DOMAIN frames' : ToldWell(c, frames'[i])
    BY <2>1 DEF Served, ToldServed
  <2>3. CASE ~OnOlderMessages
    BY <1>w, <2>2, <2>3 DEF ToldServed
  <2>4. CASE OnOlderMessages
    <3>1. At(frames', OlderAnswers) = {}
      BY <2>4, OlderFlow DEF OlderUnderWay, ToldOlder
    <3>2. \A i \in DOMAIN frames' : frames'[i].kind # "older"
      BY <1>t, <3>1 DEF At, OlderAnswers
    <3>3. \A i \in DOMAIN frames' : frames'[i].kind = "messages" => frames'[i].rows = Page(c, 0)'
      BY <1>p, <2>2 DEF ToldWell
    <3> QED BY <3>2, <3>3 DEF ToldServed, ToldWell
  <2> QED BY <2>3, <2>4
<1>s. frames' = frames \/ (\E f : frames' = Append(frames, f)) => ~OnOlderMessages
  <2>1. OnOlderMessages => frames # <<>> /\ frames' = Tail(frames)
    BY DEF OnOlderMessages, Arrived
  <2>2. OnOlderMessages => Len(frames') = Len(frames) - 1 /\ Len(frames) \in Nat
    BY <1>t, <2>1
  <2>3. \A f : frames' = Append(frames, f) => Len(frames') = Len(frames) + 1
    BY <1>t
  <2>4. frames' = frames => Len(frames') = Len(frames)
    OBVIOUS
  <2> QED BY <2>2, <2>3, <2>4
<1>3. CASE frames' = frames
  BY <1>3, <1>s, <1>w DEF Served, ToldServed
<1>4. ASSUME NEW f, frames' = Append(frames, f), ToldWell(c, f) PROVE ToldServed(c)'
  <2>1. \A i \in DOMAIN frames' : frames'[i] = f \/ (i \in DOMAIN frames /\ frames'[i] = frames[i])
    BY <1>t, <1>4
  <2> QED BY <1>4, <1>s, <1>w, <2>1 DEF Served, ToldServed
<1>5. ASSUME NEW j \in Jobs, Dispatch(j)
      PROVE  frames' = frames \/ \E f : frames' = Append(frames, f) /\ ToldWell(c, f)
  <2> DEFINE q == Head(requests)
             f == Frame("messages", q.chat, pages[q.chat])
  <2>1. q.chat = c
    BY <1>5, FirstRequest DEF Dispatch, Requests
  <2>2. frames' = frames \/ (frames' = Append(frames, f) /\ q.chat \in ToSet(warm))
    BY <1>5 DEF Dispatch
  <2>3. q.chat \in ToSet(warm) => ToldWell(c, f)
    BY <2>1 DEF ToldWell, Frame, Served, WarmServed
  <2> HIDE DEF f
  <2> QED BY <2>2, <2>3
<1>6. ASSUME NEW j \in Jobs, LandPage(j) \/ LandOlder(j) \/ LandSend(j) \/ LandFailure(j)
      PROVE  frames' = frames \/ \E f : frames' = Append(frames, f) /\ ToldWell(c, f)
  <2> DEFINE q == jobs[j].request
             rows == jobs[j].rows
             page == Frame("messages", q.chat, rows)
             none == \A i \in DOMAIN rows : filed[rows[i].guid].ts >= q.before
             older == [Frame("older", q.chat, rows) EXCEPT !.flag = none]
             error == Frame("error", q.chat, NoRows)
  <2>1. jobs[j] # Idle /\ jobs[j] \in BusyJobs /\ q \in Requests
    BY <1>6, BusyIsJob DEF LandPage, LandOlder, LandSend, LandFailure, Known, BusyJobs
  <2>2. /\ AskedWell(c, q, jobs[j].live) /\ q.kind # "send"
        /\ jobs[j].phase = "answered" => rows = Page(c, q.before)
    BY <2>1, QuietSources DEF Served, WorkedServed
  <2>3. CASE LandPage(j)
    <3>1. q.kind = "messages" /\ jobs[j].phase = "answered"
          /\ (frames' = frames \/ frames' = Append(frames, page))
      BY <2>3 DEF LandPage, Reply
    <3>2. ToldWell(c, page)
      BY <2>2, <3>1 DEF ToldWell, Frame, AskedWell
    <3> HIDE DEF page
    <3> QED BY <3>1, <3>2
  <2>4. CASE LandOlder(j)
    <3>1. /\ q.kind = "older" /\ jobs[j].phase = "answered"
          /\ frames' = frames \/ (jobs[j].live /\ frames' = Append(frames, older))
      BY <2>4 DEF LandOlder, Reply
    <3>2. older.kind = "older" /\ older.rows = rows /\ older.flag = none
      BY DEF Frame
    <3>3. CASE jobs[j].live
      <4>1. Cursor(c, q.before) /\ rows = Page(c, q.before)
        BY <2>2, <3>1, <3>3 DEF AskedWell
      <4>2. \A i \in DOMAIN rows : rows[i].guid \in DOMAIN filed /\ filed[rows[i].guid].ts \in Nat
        <5>1. filed \in Seq(Messages)
          BY DEF Known, MacKnown
        <5>2. SoundPage(rows, q.chat, filed, sends)
          BY <2>1 DEF Known, JobsKnown, SoundJob
        <5>3. \A i \in DOMAIN rows : rows[i].guid \in DOMAIN filed
          BY <5>2 DEF SoundPage, ShownRow, IsMessage
        <5>4. \A g \in DOMAIN filed : filed[g] \in Messages
          BY <5>1
        <5> QED BY <5>3, <5>4 DEF Messages
      <4>3. q.before \in Nat
        BY <2>1 DEF Requests
      <4>4. none <=> Since(q.before, rows)
        BY <4>2, <4>3 DEF Since
      <4> HIDE DEF none, older
      <4>5. older.flag <=> Since(q.before, older.rows)
        BY <3>2, <4>4
      <4>6. ToldWell(c, older)
        BY <3>2, <4>1, <4>5 DEF ToldWell
      <4> QED BY <3>1, <4>6
    <3> HIDE DEF older
    <3> QED BY <3>1, <3>3
  <2>5. CASE LandFailure(j)
    <3>1. frames' = frames \/ frames' = Append(frames, error)
      <4>1. q.kind \in {"messages", "older"}
        BY <2>1, <2>2 DEF Requests
      <4> QED BY <2>5, <4>1 DEF LandFailure, Reply, NoRows
    <3>2. ToldWell(c, error)
      BY DEF ToldWell, Frame
    <3> HIDE DEF error
    <3> QED BY <3>1, <3>2
  <2>6. ~LandSend(j)
    BY <2>2 DEF LandSend
  <2> QED BY <1>6, <2>3, <2>4, <2>5, <2>6
<1>7. \/ frames' = frames \/ frames' = <<>> \/ (frames # <<>> /\ frames' = Tail(frames))
      \/ \E j \in Jobs : Dispatch(j) \/ LandPage(j) \/ LandOlder(j) \/ LandSend(j) \/ LandFailure(j)
  <2>1. ~HandleMessage
    BY QuietSources DEF Served
  <2> QED BY <2>1 DEF Next, vars, MacFilesLate, Flush, MacServesHandle, RequestLost,
       pipeVars, MacMessage, PushesLost, MacServesPage, MacSends, MacRefuses, OpenChat,
       CloseChat, ReloadActiveMessages, LoadOlderMessages, SendMessage, OnMessages,
       OnOlderMessages, OnOlderError, OnMessage, OnAck, Arrived, DropLink, RestartDaemon,
       Reconnect
<1> QED BY <1>1, <1>2, <1>3, <1>4, <1>5, <1>6, <1>7

(* A thread that shows the first message, or begins after it in its very   *)
(* millisecond: every message is shown, or is younger than a row.          *)
FromTheStart(rows) ==
  \A g \in DOMAIN filed :
    g \in Guids(rows) \/ \E i \in DOMAIN rows : filed[rows[i].guid].ts < filed[g].ts

LEMMA StartStays ==
  ASSUME NEW old, NEW new, Guids(old) \subseteq Guids(new), FromTheStart(old)
  PROVE  FromTheStart(new)
<1> SUFFICES ASSUME NEW g \in DOMAIN filed, g \notin Guids(new)
             PROVE  \E i \in DOMAIN new : filed[new[i].guid].ts < filed[g].ts
  BY DEF FromTheStart
<1>1. PICK i \in DOMAIN old : filed[old[i].guid].ts < filed[g].ts
  BY DEF FromTheStart
<1>2. PICK k \in DOMAIN new : new[k].guid = old[i].guid
  BY DEF Guids
<1> QED BY <1>1, <1>2

(* An older page that says it is the last reaches the start.               *)
LEMMA LastPageStarts ==
  ASSUME filed = History, filed \in Seq(Messages), NEW c, Chats = {c}, OwnThread(c), NoBurst,
         NEW t, Cursor(c, t), Since(t, Page(c, t))
  PROVE  FromTheStart(Page(c, t))
<1>1. PICK g \in DOMAIN filed : filed[g].ts = t
  BY DEF Cursor
<1>2. t \in Nat /\ t # 0
  BY DEF Cursor
<1>3. \A h \in DOMAIN filed : filed[h].ts <= t => h \in Guids(Page(c, t))
  BY <1>1, <1>2, PageReachesTheStart
<1>4. g \in Guids(Page(c, t))
  BY <1>1, <1>2, <1>3
<1>5. PICK i \in DOMAIN Page(c, t) : Page(c, t)[i].guid = g
  BY <1>4 DEF Guids
<1>6. \A h \in DOMAIN filed : filed[h].ts \in Nat
  <2>1. \A h \in DOMAIN filed : filed[h] \in Messages
    OBVIOUS
  <2> QED BY <2>1 DEF Messages
<1> SUFFICES ASSUME NEW h \in DOMAIN filed, h \notin Guids(Page(c, t))
             PROVE  filed[Page(c, t)[i].guid].ts < filed[h].ts
  BY DEF FromTheStart
<1> QED BY <1>1, <1>2, <1>3, <1>5, <1>6

(* What the thread shows of an older page, and what is said of it.         *)
LEMMA OlderPageLands ==
  ASSUME Known, Quiet, NEW c, Chats = {c}, OwnThread(c), InOrder, NoBurst, Served(c), OneOlder(c),
         OnOlderMessages, c = activeChat
  PROVE  LET new == NotShown(Head(frames).rows, threads[c]) \o threads[c]
         IN /\ new \in Seq(Rows) /\ Guids(threads[c]) \subseteq Guids(new) /\ OldestFirst(new)
            /\ exhausted'[c] => exhausted[c] \/ FromTheStart(new)
<1> DEFINE f == Head(frames)
           old == threads[c]
           new == NotShown(f.rows, old) \o old
<1>1. /\ frames # <<>> /\ f.kind = "older" /\ f.chat = c
      /\ filed = History /\ filed \in Seq(Messages) /\ frames \in Seq(Frames)
      /\ exhausted \in [Chats -> BOOLEAN]
  BY FrameRows DEF OnOlderMessages, Quiet, Known, MacKnown, PipesKnown, ReaderKnown
<1>2. PICK t : Cursor(c, t) /\ f.rows = Page(c, t) /\ (f.flag <=> Since(t, f.rows))
  <2>1. 1 \in DOMAIN frames /\ f = frames[1]
    BY <1>1
  <2> QED BY <1>1, <2>1 DEF Served, ToldServed, ToldWell
<1>3. exhausted'[c] => exhausted[c] \/ f.flag \/ NotShown(f.rows, old) = <<>>
  <2>1. exhausted' = [exhausted EXCEPT ![c] = exhausted[c] \/ f.flag \/ NotShown(f.rows, old) = <<>>]
    BY <1>1 DEF OnOlderMessages
  <2> QED BY <1>1, <2>1
<1> HIDE DEF f
<1>4. /\ t \in Nat /\ t # 0 /\ Since(t, old)
  BY <1>2 DEF Cursor
<1>5. /\ old \in Seq(Rows) /\ \A i \in DOMAIN old : old[i].guid \in DOMAIN filed
  BY QuietRows
<1>6. /\ f.rows \in Seq(Rows)
      /\ \A i \in DOMAIN f.rows : f.rows[i].guid \in DOMAIN filed /\ filed[f.rows[i].guid].ts <= t
      /\ \A i, k \in DOMAIN f.rows : i < k => f.rows[i].guid < f.rows[k].guid
  <2>1. /\ Page(c, t) \in Seq(Rows)
        /\ \A i \in DOMAIN Page(c, t) : Page(c, t)[i].guid \in Within(c, t)
        /\ \A i, k \in DOMAIN Page(c, t) : i < k => Page(c, t)[i].guid < Page(c, t)[k].guid
    BY <1>1, PageElements
  <2> QED BY <1>2, <1>4, <2>1 DEF Within
<1>7. OldestFirst(old)
  BY DEF Served, ShownServed
<1>8. /\ new \in Seq(Rows) /\ Guids(new) = Guids(f.rows) \cup Guids(old)
      /\ OldestFirst(new) /\ (NotShown(f.rows, old) = <<>> => new = old)
  <2> HIDE DEF old
  <2> QED BY <1>1, <1>4, <1>5, <1>6, <1>7, OlderJoins
<1> HIDE DEF new, old
<1>9. ASSUME f.flag PROVE FromTheStart(new)
  <2>1. FromTheStart(f.rows)
    BY <1>1, <1>2, <1>9, LastPageStarts
  <2> QED BY <1>8, <2>1, StartStays
<1>10. ASSUME ~f.flag, NotShown(f.rows, old) = <<>> PROVE FALSE
  <2>1. PICK i \in DOMAIN f.rows : ~(t <= filed[f.rows[i].guid].ts)
    BY <1>2, <1>10 DEF Since
  <2>2. f.rows[i].guid \in Guids(old)
    BY <1>8, <1>10 DEF Guids
  <2>3. PICK k \in DOMAIN old : old[k].guid = f.rows[i].guid
    BY <2>2 DEF Guids
  <2> QED BY <1>4, <2>1, <2>3 DEF Since
<1> QED BY <1>3, <1>8, <1>9, <1>10 DEF new, old, f

LEMMA ShownServedStays ==
  ASSUME Known, [Next]_vars, Quiet, filed' = filed, sends' = sends,
         NEW c, Chats = {c}, OwnThread(c),
         InOrder, NoBurst, Served(c), OneOlder(c), exhausted[c] => FromTheStart(threads[c])
  PROVE  ShownServed(c)' /\ (exhausted'[c] => FromTheStart(threads[c])')
<1>t. /\ filed = History /\ filed \in Seq(Messages) /\ threads \in [Chats -> Seq(Rows)]
      /\ exhausted \in [Chats -> BOOLEAN] /\ c \in Chats
  BY DEF Quiet, Known, MacKnown, ReaderKnown
<1>p. /\ Page(c, 0)' = Page(c, 0)
      /\ OldestFirst(threads[c])' <=> OldestFirst(threads'[c])
      /\ FromTheStart(threads[c])' <=> FromTheStart(threads'[c])
  <2>1. Page(c, 0)' = Page(c, 0)
    BY SamePages
  <2>2. OldestFirst(threads[c])' <=> OldestFirst(threads'[c])
    BY DEF OldestFirst, Since
  <2>3. FromTheStart(threads[c])' <=> FromTheStart(threads'[c])
    BY DEF FromTheStart
  <2> QED BY <2>1, <2>2, <2>3
<1>m. ASSUME threads'[c] # <<>> => Guids(Page(c, 0)) \subseteq Guids(threads'[c]),
             OldestFirst(threads'[c]), exhausted'[c] => FromTheStart(threads'[c])
      PROVE  ShownServed(c)' /\ (exhausted'[c] => FromTheStart(threads[c])')
  BY <1>m, <1>p DEF ShownServed
<1>1. CASE OnMessages
  <2>1. threads'[c] = threads[c] \/ threads'[c] = Page(c, 0)
    <3>1. ~OnOlderMessages
      BY <1>1, FrameRows DEF OnMessages, OnOlderMessages
    <3> QED BY <1>t, <3>1, QuietThreads DEF Served
  <2>2. ~exhausted'[c]
    <3>1. Head(frames).chat = c
      BY <1>1, FrameRows DEF OnMessages
    <3> QED BY <1>1, <1>t, <3>1 DEF OnMessages
  <2>3. CASE threads'[c] = threads[c]
    BY <1>m, <2>2, <2>3 DEF Served, ShownServed
  <2>4. CASE threads'[c] = Page(c, 0)
    <3>1. OldestFirst(Page(c, 0))
      BY <1>t, NewestPage
    <3> QED BY <1>m, <2>2, <2>4, <3>1
  <2> QED BY <2>1, <2>3, <2>4
<1>2. CASE OnOlderMessages /\ c = activeChat
  <2> DEFINE new == NotShown(Head(frames).rows, threads[c]) \o threads[c]
  <2>1. Head(frames).chat = c
    BY <1>2, FrameRows DEF OnOlderMessages
  <2>2. threads' = [threads EXCEPT ![c] = new]
    BY <1>2, <2>1 DEF OnOlderMessages, WithOlder
  <2>3. threads'[c] = new
    BY <1>t, <2>2
  <2>4. /\ Guids(threads[c]) \subseteq Guids(new) /\ OldestFirst(new)
        /\ exhausted'[c] => exhausted[c] \/ FromTheStart(new)
    BY <1>2, OlderPageLands
  <2>5. threads[c] # <<>>
    <3>1. PICK t : Cursor(c, t) /\ Head(frames).rows = Page(c, t)
      <4>1. frames # <<>> /\ Head(frames).kind = "older" /\ frames \in Seq(Frames)
        BY <1>2, FrameRows DEF OnOlderMessages, Known, PipesKnown
      <4>2. 1 \in DOMAIN frames /\ Head(frames) = frames[1]
        BY <4>1
      <4> QED BY <4>1, <4>2 DEF Served, ToldServed, ToldWell
    <3> QED BY <3>1 DEF Cursor
  <2> HIDE DEF new
  <2>6. new # <<>> => Guids(Page(c, 0)) \subseteq Guids(new)
    BY <2>4, <2>5 DEF Served, ShownServed
  <2>7. exhausted'[c] => FromTheStart(new)
    BY <2>4, StartStays
  <2> QED BY <1>m, <2>3, <2>4, <2>6, <2>7
<1>3. CASE threads'[c] = threads[c] /\ exhausted'[c] = exhausted[c]
  BY <1>m, <1>3 DEF Served, ShownServed
<1>4. CASE OnOlderMessages /\ c # activeChat
  <2>1. Head(frames).chat = c
    BY <1>4, FrameRows DEF OnOlderMessages
  <2> QED BY <1>3, <1>4, <2>1 DEF OnOlderMessages
<1>5. exhausted' = exhausted \/ OnMessages \/ OnOlderMessages
  BY DEF Next, vars, MacFilesLate, Flush, MacServesHandle, RequestLost, clientVars,
       MacMessage, PushesLost, MacServesPage, MacSends, MacRefuses, HandleMessage, Dispatch,
       LandPage, LandOlder, LandSend, LandFailure, OpenChat, CloseChat,
       ReloadActiveMessages, LoadOlderMessages, SendMessage, OnOlderError, OnMessage, OnAck,
       DropLink, RestartDaemon, Reconnect
<1>6. threads' = threads \/ OnMessages \/ OnOlderMessages
  BY QuietThreads DEF Served
<1> QED BY <1>1, <1>2, <1>3, <1>4, <1>5, <1>6

(* The whole of it, and the theorem. *)
QuietInvariant(c) ==
  /\ Len(History) <= Len(filed) /\ OneOlder(c)
  /\ Quiet => Served(c) /\ (exhausted[c] => FromTheStart(threads[c]))

LEMMA InitQuiet ==
  ASSUME Init, NEW c, Chats = {c}
  PROVE  QuietInvariant(c)
<1> USE DEF Init
<1>1. /\ Len(History) <= Len(filed)
      /\ \A j \in Jobs : jobs[j] = Idle
      /\ ~exhausted[c] /\ threads[c] = <<>>
  <2>1. History \in Seq([chat : Chats \cup {None}, handle : Handles \cup {None},
                          ts : Nat \ {0}, fromMe : BOOLEAN, text : Texts])
    BY ThreadAssumptions
  <2>2. Len(History) \in Nat
    BY <2>1
  <2> QED BY <2>2
<1>2. OneOlder(c)
  <2>1. WorkedOlder = {}
    BY <1>1 DEF WorkedOlder, Busy, Idle
  <2>2. AskedOlder = {} /\ ToldOlder = {}
    BY AtNothing DEF AskedOlder, ToldOlder
  <2> QED BY <2>1, <2>2 DEF OneOlder, OlderUnderWay, Single
<1>3. Served(c)
  <2>1. NothingPushed /\ AskedServed(c) /\ WorkedServed(c) /\ ToldServed(c)
    BY <1>1 DEF NothingPushed, AskedServed, WorkedServed, ToldServed
  <2>2. WarmServed(c)
    BY DEF WarmServed, ToSet
  <2>4. DiskServed(c)
    BY DEF DiskServed, Cached, ToSet
  <2>3. ShownServed(c)
    BY <1>1 DEF ShownServed, OldestFirst
  <2> QED BY <2>1, <2>2, <2>3, <2>4 DEF Served
<1> QED BY <1>1, <1>2, <1>3 DEF QuietInvariant

LEMMA StepQuiet ==
  ASSUME Known, [Next]_vars, NEW c, Chats = {c}, OwnThread(c), InOrder, NoBurst, QuietInvariant(c)
  PROVE  QuietInvariant(c)'
<1>1. OneOlder(c)'
  BY OlderFlow DEF QuietInvariant
<1>2. Len(History) <= Len(filed')
  <2>1. Len(History) <= Len(filed) /\ Len(History) \in Nat
    BY ThreadAssumptions DEF QuietInvariant
  <2>2. filed \in Seq(Messages) /\ filed' \in Seq(Messages) /\ Extends(filed, filed')
    BY Grown DEF Known, MacKnown
  <2>3. Len(filed) \in Nat /\ Len(filed') \in Nat /\ 1..Len(filed) \subseteq 1..Len(filed')
    BY <2>2 DEF Extends
  <2>4. Len(filed) = 0 \/ Len(filed) \in 1..Len(filed')
    BY <2>3
  <2> QED BY <2>1, <2>3, <2>4
<1>3. ASSUME Quiet' PROVE Served(c)' /\ (exhausted[c] => FromTheStart(threads[c]))'
  <2>1. Quiet /\ filed' = filed /\ sends' = sends
    BY <1>3, QuietBefore DEF QuietInvariant
  <2>2. Served(c) /\ OneOlder(c) /\ (exhausted[c] => FromTheStart(threads[c]))
    BY <2>1 DEF QuietInvariant
  <2>3. NothingPushed'
    BY <2>1, <2>2, NothingPushedStays DEF Served
  <2>4. /\ WarmServed(c)' /\ DiskServed(c)' /\ AskedServed(c)' /\ WorkedServed(c)'
        /\ ToldServed(c)'
    BY <2>1, <2>2, WarmServedStays, DiskServedStays, AskedServedStays, WorkedServedStays, ToldServedStays
  <2>5. ShownServed(c)' /\ (exhausted'[c] => FromTheStart(threads[c])')
    BY <2>1, <2>2, ShownServedStays
  <2> QED BY <2>3, <2>4, <2>5 DEF Served
<1> QED BY <1>1, <1>2, <1>3 DEF QuietInvariant

LEMMA QuietEnd ==
  ASSUME Known, Quiet, NEW c, Chats = {c}, QuietInvariant(c)
  PROVE  ExhaustedIsTheStart
<1> SUFFICES ASSUME exhausted[c], NEW g \in DOMAIN filed, g \notin Guids(threads[c])
             PROVE  \E i \in DOMAIN threads[c] : TsOf(threads[c][i]) < filed[g].ts
  BY DEF ExhaustedIsTheStart
<1>1. FromTheStart(threads[c])
  BY DEF QuietInvariant
<1>2. PICK i \in DOMAIN threads[c] : filed[threads[c][i].guid].ts < filed[g].ts
  BY <1>1 DEF FromTheStart
<1>3. TsOf(threads[c][i]) = filed[threads[c][i].guid].ts
  BY QuietRows DEF TsOf
<1> QED BY <1>2, <1>3

(* Paging back through one chat to which nothing is added, a thread marked *)
(* exhausted shows its first message, for any history in the order of its  *)
(* clock, any page that no single millisecond fills, and whatever is       *)
(* reloaded, refused, dropped or restarted (Client.qml loadOlderMessages,  *)
(* prependOlderMessages, index.js olderMessages).                          *)
THEOREM TheEndIsTheStart ==
  ASSUME NEW c, Chats = {c}, OwnThread(c), InOrder, NoBurst
  PROVE  Spec => [](Quiet => ExhaustedIsTheStart)
<1>1. Init => Known /\ QuietInvariant(c)
  BY InitKnown, InitQuiet
<1>2. (Known /\ QuietInvariant(c)) /\ [Next]_vars => (Known /\ QuietInvariant(c))'
  <2> SUFFICES ASSUME Known, QuietInvariant(c), [Next]_vars PROVE Known' /\ QuietInvariant(c)'
    OBVIOUS
  <2> QED BY StepKnown, StepQuiet
<1>3. Known /\ QuietInvariant(c) => (Quiet => ExhaustedIsTheStart)
  BY QuietEnd
<1> QED BY <1>1, <1>2, <1>3, PTL DEF Spec
-----------------------------------------------------------------------------
(* The ledger of the sends *)

(* A job waits for the Mac only if it did, or has just been dispatched. *)
LEMMA AskedJobs ==
  ASSUME Known, [Next]_vars, NEW j \in Jobs, jobs'[j].phase = "asked"
  PROVE  \/ jobs[j].phase = "asked" /\ jobs'[j].request = jobs[j].request
         \/ Dispatch(j) /\ jobs'[j].request = Head(requests)
<1>t. jobs \in [Jobs -> {Idle} \cup BusyJobs] /\ \A k \in Jobs : k \in Busy => jobs[k] \in BusyJobs
  BY BusyIsJob DEF Known, JobsKnown, Busy
<1>1. ASSUME NEW k \in Jobs, MacServesPage(k) \/ MacServesHandle(k) \/ MacRefuses(k)
                             \/ RequestLost(k) \/ \E phase \in {"answered", "refused"} : MacSends(k, phase)
      PROVE  jobs'[j] = jobs[j]
  <2>1. k \in Busy /\ jobs[k] \in BusyJobs
    BY <1>t, <1>1 DEF MacServesPage, MacServesHandle, AsksForPage, MacRefuses, RequestLost,
       AsksToSend, MacSends, Busy
  <2>2. jobs'[k].phase # "asked" /\ \A i \in Jobs : i # k => jobs'[i] = jobs[i]
    <3>1. CASE MacServesPage(k)
      BY <1>t, <2>1, <3>1 DEF MacServesPage, BusyJobs
    <3>2. CASE MacServesHandle(k) \/ MacRefuses(k) \/ RequestLost(k)
      BY <1>t, <2>1, <3>2 DEF MacServesHandle, MacRefuses, RequestLost, BusyJobs
    <3>3. CASE \E phase \in {"answered", "refused"} : MacSends(k, phase)
      BY <1>t, <2>1, <3>3 DEF MacSends, BusyJobs
    <3> QED BY <1>1, <3>1, <3>2, <3>3
  <2> QED BY <2>2
<1>2. ASSUME NEW k \in Jobs, Dispatch(k)
      PROVE  jobs'[j] = jobs[j] \/ (Dispatch(j) /\ jobs'[j].request = Head(requests))
  BY <1>2, <1>t DEF Dispatch, Job
<1>3. ASSUME NEW k \in Jobs, Done(k) PROVE jobs'[j] = jobs[j]
  BY <1>3, <1>t DEF Done, Idle
<1>4. CASE DropLink
  BY <1>4, <1>t DEF DropLink, BusyJobs
<1>5. ~RestartDaemon
  BY DEF RestartDaemon, Idle
<1>6. \/ UNCHANGED jobs \/ DropLink \/ RestartDaemon
      \/ \E k \in Jobs : Dispatch(k) \/ Done(k)
      \/ \E k \in Jobs : MacServesPage(k) \/ MacServesHandle(k) \/ MacRefuses(k)
                         \/ RequestLost(k) \/ \E phase \in {"answered", "refused"} : MacSends(k, phase)
  BY DEF Next, vars, MacMessage, MacFilesLate, Flush, PushesLost, HandleMessage,
         LandPage, LandOlder, LandSend, LandFailure, OpenChat, CloseChat,
         ReloadActiveMessages, LoadOlderMessages, SendMessage, OnMessages, OnOlderMessages,
         OnOlderError, OnMessage, OnAck, AfterFrame, Reconnect
<1>7. jobs' = jobs => jobs'[j] = jobs[j]
  OBVIOUS
<1> QED BY <1>1, <1>2, <1>3, <1>4, <1>5, <1>6, <1>7

(* What the pipe to the daemon may become. *)
LEMMA RequestSteps ==
  ASSUME [Next]_vars
  PROVE  \/ UNCHANGED requests \/ requests' = <<>>
         \/ requests # <<>> /\ requests' = Tail(requests)
         \/ \E q : requests' = Append(requests, q)
                   /\ (q.temp = 0 \/ \E text \in Texts : SendMessage(text) /\ q.temp = -(Len(sends) + 1))
<1>1. ASSUME NEW c, AskMessages(c)
      PROVE  \E q : requests' = Append(requests, q) /\ q.temp = 0
  BY <1>1 DEF AskMessages, Request
<1>2. CASE LoadOlderMessages
  <2>1. \E q : requests' = Append(requests, q) /\ q.temp = 0
    BY <1>2 DEF LoadOlderMessages, Request
  <2> QED BY <2>1
<1>3. ASSUME NEW text \in Texts, SendMessage(text)
      PROVE  \E q : requests' = Append(requests, q) /\ q.temp = -(Len(sends) + 1)
  BY <1>3 DEF SendMessage, Request
<1>4. \/ UNCHANGED requests \/ requests' = <<>>
      \/ requests # <<>> /\ requests' = Tail(requests)
      \/ \E c : AskMessages(c) \/ LoadOlderMessages \/ \E text \in Texts : SendMessage(text)
  BY DEF Next, vars, pipeVars, MacMessage, PushesLost, MacServesPage, MacServesHandle, MacSends,
         MacRefuses, RequestLost, MacFilesLate, Flush,
         HandleMessage, Dispatch, LandPage, LandOlder, LandSend, LandFailure, OpenChat, CloseChat,
         ReloadActiveMessages, OnMessages, OnOlderMessages, OnOlderError,
         OnMessage, OnAck, AfterFrame, DropLink, RestartDaemon, Reconnect
<1> QED BY <1>1, <1>2, <1>3, <1>4

(* Whatever the Mac may still file, it could have filed before. *)
LEMMA WaitingShrinks ==
  ASSUME Known, [Next]_vars, NEW t \in Int, t # 0,
         \A text \in Texts : SendMessage(text) => t # -(Len(sends) + 1), Waiting(t)'
  PROVE  Waiting(t)
<1>t. requests \in Seq(Requests) /\ requests' \in Seq(Requests)
  BY StepKnown DEF Known, PipesKnown
<1>1. ASSUME NEW i \in DOMAIN requests', requests'[i].temp = t PROVE Waiting(t)
  <2>1. CASE UNCHANGED requests
    BY <1>1, <2>1 DEF Waiting
  <2>2. CASE requests # <<>> /\ requests' = Tail(requests)
    <3>1. i + 1 \in DOMAIN requests /\ requests[i + 1] = requests'[i]
      BY <1>t, <2>2
    <3> QED BY <1>1, <3>1 DEF Waiting
  <2>3. ASSUME NEW q, requests' = Append(requests, q), q.temp # t
        PROVE  i \in DOMAIN requests /\ requests[i] = requests'[i]
    BY <1>t, <1>1, <2>3
  <2>4. requests' # <<>>
    BY <1>1
  <2> QED BY <1>1, <2>1, <2>2, <2>3, <2>4, RequestSteps DEF Waiting
<1>2. ASSUME NEW j \in Busy', jobs'[j].phase = "asked", jobs'[j].request.temp = t PROVE Waiting(t)
  <2>1. j \in Jobs
    BY DEF Busy
  <2>2. CASE jobs[j].phase = "asked" /\ jobs'[j].request = jobs[j].request
    BY <1>2, <2>1, <2>2 DEF Waiting, Busy
  <2>3. CASE Dispatch(j) /\ jobs'[j].request = Head(requests)
    <3>1. 1 \in DOMAIN requests /\ requests[1] = Head(requests)
      BY <1>t, <2>3 DEF Dispatch
    <3> QED BY <1>2, <2>3, <3>1 DEF Waiting
  <2> QED BY <1>2, <2>1, <2>2, <2>3, AskedJobs
<1> QED BY <1>1, <1>2 DEF Waiting

(* A send the Mac may still file has no ack under way. *)
LEMMA WaitingHasNoAck ==
  ASSUME Known, NEW t, OneAckOf(t), Waiting(t)
  PROVE  AckedAt(t) = {}
<1>1. \A i \in DOMAIN requests : requests[i] \in Requests
  BY DEF Known, PipesKnown
<1>2. AskedAt(t) # {} \/ WorkedBy(t) # {}
  BY <1>1 DEF Waiting, AskedAt, At, WorkedBy
<1> QED BY <1>2 DEF OneAckOf

(* A job that asked the Mac for a send asks no longer: that send then      *)
(* waits no more, and no other is touched.                                 *)
AskedOnce(j) ==
  /\ UNCHANGED requests
  /\ jobs'[j].phase \in {"answered", "refused"} /\ jobs'[j].request = jobs[j].request
  /\ \A i \in Jobs : i # j => jobs'[i] = jobs[i]

LEMMA AsksOnce ==
  ASSUME Known, NEW j \in Jobs, AsksToSend(j), AskedOnce(j), NEW t, OneAckOf(t)
  PROVE  /\ t = jobs[j].request.temp => Waiting(t) /\ ~Waiting(t)'
         /\ t # jobs[j].request.temp => (Waiting(t)' <=> Waiting(t))
<1>1. /\ j \in Busy /\ jobs[j] \in BusyJobs /\ jobs[j].phase = "asked"
      /\ jobs \in [Jobs -> {Idle} \cup BusyJobs]
  BY BusyIsJob DEF AsksToSend, Busy, Known, JobsKnown
<1>2. /\ requests' = requests /\ jobs'[j].phase \in {"answered", "refused"}
      /\ jobs'[j].request = jobs[j].request
      /\ \A i \in Jobs : i # j => jobs'[i] = jobs[i]
  BY <1>1 DEF AskedOnce
<1>3. Busy' = Busy
  BY <1>1, <1>2 DEF Busy
<1>4. ASSUME t = jobs[j].request.temp PROVE Waiting(t) /\ ~Waiting(t)'
  <2>1. j \in WorkedBy(t) /\ \A i \in WorkedBy(t) : i = j
    BY <1>1, <1>4 DEF WorkedBy, OneAckOf, Single
  <2>2. AskedAt(t) = {}
    BY <2>1 DEF OneAckOf
  <2>3. \A i \in DOMAIN requests : requests[i].temp # t
    BY <2>2 DEF Known, PipesKnown, AskedAt, At
  <2>4. \A i \in Busy : i # j => jobs[i].request.temp # t
    BY <2>1 DEF WorkedBy
  <2>5. ~Waiting(t)'
    <3>1. ASSUME NEW i \in Busy', jobs'[i].phase = "asked", jobs'[i].request.temp = t PROVE FALSE
      <4>1. i \in Busy /\ i \in Jobs /\ i # j
        BY <1>2, <1>3, <3>1 DEF Busy
      <4> QED BY <1>2, <2>4, <3>1, <4>1
    <3> QED BY <1>2, <2>3, <3>1 DEF Waiting
  <2> QED BY <1>1, <1>4, <2>5 DEF Waiting
<1>5. ASSUME t # jobs[j].request.temp PROVE Waiting(t)' <=> Waiting(t)
  <2>1. \A i \in Busy : i \in Jobs /\ (i = j \/ jobs'[i] = jobs[i])
    BY <1>2 DEF Busy
  <2> QED BY <1>2, <1>3, <1>5, <2>1 DEF Waiting
<1> QED BY <1>4, <1>5

(* The Mac has filed the send, or the daemon has given up on it. *)
LEMMA SettledOnce ==
  ASSUME Known, NEW j \in Jobs,
         (\E phase \in {"answered", "refused"} : MacSends(j, phase)) \/ RequestLost(j)
  PROVE  AsksToSend(j) /\ AskedOnce(j)
<1>1. AsksToSend(j)
  BY DEF MacSends, RequestLost
<1>2. /\ j \in Busy /\ jobs[j] \in BusyJobs /\ jobs \in [Jobs -> {Idle} \cup BusyJobs]
  BY <1>1, BusyIsJob DEF AsksToSend, Busy, Known, JobsKnown
<1>3. CASE RequestLost(j)
  BY <1>2, <1>3 DEF RequestLost, AskedOnce, pipeVars, BusyJobs
<1>4. CASE \E phase \in {"answered", "refused"} : MacSends(j, phase)
  BY <1>2, <1>4 DEF MacSends, AskedOnce, pipeVars, BusyJobs
<1> QED BY <1>1, <1>3, <1>4

(* What the daemon gave up on stays so until the Mac files it; nothing     *)
(* else is given up on than what it asked for.                             *)
LateSteps(t) == t \in late' => t \in late \/ (Waiting(t) /\ ~Waiting(t)')

LEMMA GivenUp ==
  ASSUME Known, OneAckEach, [Next]_vars
  PROVE  /\ \A k \in DOMAIN sends : LateSteps(-k)
         /\ late \subseteq late' \/ \E t \in late : MacFilesLate(t)
<1>1. ASSUME NEW j \in Jobs, RequestLost(j), NEW k \in DOMAIN sends PROVE LateSteps(-k)
  <2>1. OneAckOf(-k)
    BY DEF OneAckEach
  <2>2. AsksToSend(j) /\ AskedOnce(j)
    BY <1>1, SettledOnce
  <2>3. -k = jobs[j].request.temp => Waiting(-k) /\ ~Waiting(-k)'
    BY <2>1, <2>2, AsksOnce
  <2>4. late' = late \cup {jobs[j].request.temp}
    BY <1>1 DEF RequestLost
  <2> QED BY <2>3, <2>4 DEF LateSteps
<1>2. ASSUME RestartDaemon, NEW k \in DOMAIN sends PROVE LateSteps(-k)
  <2>1. /\ late' = late \cup {jobs[j].request.temp : j \in {i \in Busy : AsksToSend(i)}}
        /\ requests' = <<>> /\ jobs' = [j \in Jobs |-> Idle]
    BY <1>2 DEF RestartDaemon
  <2>2. ~Waiting(-k)'
    BY <2>1 DEF Waiting, Busy, Idle
  <2>3. ASSUME -k \in late', -k \notin late PROVE Waiting(-k)
    BY <2>1, <2>3 DEF Waiting, AsksToSend
  <2> QED BY <2>2, <2>3 DEF LateSteps
<1>3. \A t : MacFilesLate(t) => late' \subseteq late
  BY DEF MacFilesLate
<1>4. \/ UNCHANGED late \/ RestartDaemon \/ \E j \in Jobs : RequestLost(j)
      \/ \E t \in late : MacFilesLate(t)
  BY DEF Next, vars, macVars, MacMessage, PushesLost, MacServesPage, MacServesHandle, MacSends,
         MacRefuses, HandleMessage, Dispatch, LandPage, LandOlder, LandSend, LandFailure, OpenChat,
         CloseChat, ReloadActiveMessages, LoadOlderMessages, SendMessage, OnMessages,
         OnOlderMessages, OnOlderError, OnMessage, OnAck, AfterFrame, DropLink, Flush, Reconnect
<1>5. late' = late => \A k \in DOMAIN sends : LateSteps(-k)
  BY DEF LateSteps
<1>6. late' \subseteq late => \A k \in DOMAIN sends : LateSteps(-k)
  BY DEF LateSteps
<1>7. RestartDaemon \/ (\E j \in Jobs : RequestLost(j)) => late \subseteq late'
  BY DEF RestartDaemon, RequestLost
<1> QED BY <1>1, <1>2, <1>3, <1>4, <1>5, <1>6, <1>7

(* Nobody asks for what was given up on. *)
LateApart == \A k \in DOMAIN sends : -k \in late => ~Waiting(-k)

(* The row of a send, wherever the reader left it. *)
InState(T, t, s) == \E c \in Chats : \E i \in DOMAIN T[c] : T[c][i].guid = t /\ T[c][i].state = s

LEMMA SoundRows ==
  ASSUME Known
  PROVE  /\ filed \in Seq(Messages) /\ sends \in Seq(Sent) /\ threads \in [Chats -> Seq(Rows)]
         /\ \A c \in Chats : SoundThread(threads[c], c, filed, sends)
BY DEF Known, MacKnown, ReaderKnown, Sent

LEMMA RowStates ==
  ASSUME NEW F \in Seq(Messages), NEW S \in Seq(Sent), NEW T,
         \A c \in Chats : SoundThread(T[c], c, F, S), NEW t \in Int, t < 0
  PROVE  /\ (\E c \in Chats : \E i \in DOMAIN T[c] : T[c][i] = Optimistic(t))
              <=> InState(T, t, "pending")
         /\ (\E c \in Chats : \E i \in DOMAIN T[c] : T[c][i].temp = t /\ T[c][i].state = "failed")
              <=> InState(T, t, "failed")
<1>1. ASSUME NEW c \in Chats, NEW i \in DOMAIN T[c]
      PROVE  /\ T[c][i].state = "pending" => T[c][i] = Optimistic(T[c][i].temp)
             /\ T[c][i].state \in {"pending", "failed"} => T[c][i].temp = T[c][i].guid
  <2>1. ThreadRow(T[c][i], c, F, S)
    BY DEF SoundThread
  <2>2. T[c][i].state = "failed" => T[c][i].temp = T[c][i].guid
    BY <2>1, RowSigns
  <2>3. T[c][i].state = "pending" => T[c][i] = Optimistic(T[c][i].temp)
                                     /\ T[c][i].temp = T[c][i].guid
    BY PendingRows
  <2> QED BY <2>2, <2>3
<1>2. Optimistic(t).guid = t /\ Optimistic(t).state = "pending"
  BY DEF Optimistic
<1> QED BY <1>1, <1>2 DEF InState

(* Two rows of one send are one row. *)
LEMMA OnePlace ==
  ASSUME Known, OneRowEach, NEW c \in Chats, NEW a \in DOMAIN threads[c],
         NEW d \in Chats, NEW i \in DOMAIN threads[d],
         threads[c][a].guid = threads[d][i].guid, threads[c][a].guid < 0
  PROVE  d = c /\ i = a
<1>1. ThreadRow(threads[c][a], c, filed, sends) /\ ThreadRow(threads[d][i], d, filed, sends)
  BY SoundRows DEF SoundThread
<1>2. \A e, row : ThreadRow(row, e, filed, sends) /\ row.guid < 0 => sends[-row.guid].chat = e
  <2> SUFFICES ASSUME NEW e, NEW row, ThreadRow(row, e, filed, sends), row.guid < 0
               PROVE  sends[-row.guid].chat = e
    OBVIOUS
  <2>1. row.guid = row.temp /\ sends[-row.temp].chat = e
    BY SoundRows, RowSigns
  <2> QED BY <2>1
<1>3. d = c
  BY <1>1, <1>2
<1> QED BY <1>3 DEF OneRowEach, OneRow

(* One row takes the place of another in its thread. *)
Turned(c, a, row) == threads' = [threads EXCEPT ![c] = [threads[c] EXCEPT ![a] = row]]

SendTurned(c, a, row, t, s) ==
  /\ t # threads[c][a].guid => (InState(threads', t, s) <=> InState(threads, t, s))
  /\ t = threads[c][a].guid => /\ InState(threads, t, s) <=> threads[c][a].state = s
                               /\ InState(threads', t, s) <=> row.guid = t /\ row.state = s

LEMMA RowTurned ==
  ASSUME Known, OneRowEach, NEW c \in Chats, NEW a \in DOMAIN threads[c], NEW row,
         Turned(c, a, row), row.guid = threads[c][a].guid \/ (row.guid \in Int /\ row.guid > 0),
         NEW t \in Int, t < 0, NEW s
  PROVE  SendTurned(c, a, row, t, s)
<1>1. /\ threads \in [Chats -> Seq(Rows)]
      /\ \A d \in Chats : d # c => threads'[d] = threads[d]
      /\ DOMAIN threads'[c] = DOMAIN threads[c] /\ threads'[c][a] = row
      /\ \A i \in DOMAIN threads[c] : i # a => threads'[c][i] = threads[c][i]
  BY SoundRows DEF Turned
<1>2. \A d \in Chats : DOMAIN threads'[d] = DOMAIN threads[d]
  BY <1>1
<1>3. \A d \in Chats : \A i \in DOMAIN threads[d] :
        (d = c /\ i = a) \/ threads'[d][i] = threads[d][i]
  BY <1>1
<1>4. ASSUME t # threads[c][a].guid PROVE InState(threads', t, s) <=> InState(threads, t, s)
  <2>1. row.guid # t
    BY <1>4
  <2>2. \A d \in Chats : \A i \in DOMAIN threads[d] :
          (threads'[d][i].guid = t /\ threads'[d][i].state = s)
            <=> (threads[d][i].guid = t /\ threads[d][i].state = s)
    BY <1>1, <1>3, <1>4, <2>1
  <2> QED BY <1>2, <2>2 DEF InState
<1>5. ASSUME t = threads[c][a].guid
      PROVE  /\ InState(threads, t, s) <=> threads[c][a].state = s
             /\ InState(threads', t, s) <=> row.guid = t /\ row.state = s
  <2>1. ASSUME NEW d \in Chats, NEW i \in DOMAIN threads[d], threads[d][i].guid = t
        PROVE  d = c /\ i = a
    BY <1>5, <2>1, OnePlace
  <2>2. InState(threads, t, s) <=> threads[c][a].state = s
    BY <1>5, <2>1 DEF InState
  <2>3. ASSUME NEW d \in Chats, NEW i \in DOMAIN threads'[d], threads'[d][i].guid = t
        PROVE  d = c /\ i = a
    BY <1>2, <1>3, <2>1, <2>3
  <2>4. InState(threads', t, s) <=> row.guid = t /\ row.state = s
    BY <1>1, <1>2, <2>3 DEF InState
  <2> QED BY <2>2, <2>4
<1> QED BY <1>4, <1>5 DEF SendTurned

LEMMA RowAdded ==
  ASSUME Known, NEW c \in Chats, NEW row \in Rows,
         threads' = [threads EXCEPT ![c] = Append(threads[c], row)],
         NEW t, NEW s, row.guid # t \/ row.state # s
  PROVE  InState(threads', t, s) <=> InState(threads, t, s)
<1>1. /\ threads \in [Chats -> Seq(Rows)]
      /\ \A d \in Chats : d # c => threads'[d] = threads[d]
      /\ threads'[c] = Append(threads[c], row) /\ threads[c] \in Seq(Rows)
  BY SoundRows
<1>2. /\ \A i \in DOMAIN threads'[c] : (i \in DOMAIN threads[c] /\ threads'[c][i] = threads[c][i])
                                       \/ threads'[c][i] = row
      /\ \A i \in DOMAIN threads[c] : i \in DOMAIN threads'[c] /\ threads'[c][i] = threads[c][i]
  BY <1>1
<1> QED BY <1>1, <1>2 DEF InState

(* A page brings no row of a send. *)
OwnOld(old, new) == \A k \in DOMAIN new : new[k].guid < 0 => \E i \in DOMAIN old : old[i] = new[k]

LEMMA ReplacedOwn ==
  ASSUME NEW F, Counted(F), NEW S, NEW c, NEW page, NEW old,
         SoundPage(page, c, F, S), SoundThread(old, c, F, S)
  PROVE  OwnOld(old, Replaced(page, old))
<1> DEFINE pending == InFlight(old)
           new == Replaced(page, old)
<1>1. pending \subseteq DOMAIN old
  BY DEF InFlight
<1>2. \A i \in DOMAIN new :
        \/ i \in DOMAIN page /\ new[i] = page[i]
        \/ new[i] = old[Nth(pending, i - Len(page))] /\ Nth(pending, i - Len(page)) \in pending
  BY ReplacedIsSound DEF Joined
<1>3. \A i \in DOMAIN page : ~(page[i].guid < 0)
  <2> SUFFICES ASSUME NEW i \in DOMAIN page PROVE ~(page[i].guid < 0)
    OBVIOUS
  <2>1. page[i].guid \in DOMAIN F
    BY DEF SoundPage, ShownRow, IsMessage
  <2> QED BY <2>1 DEF Counted
<1> HIDE DEF pending, new
<1>4. OwnOld(old, new)
  BY <1>1, <1>2, <1>3 DEF OwnOld
<1> QED BY <1>4 DEF new

LEMMA OlderOwn ==
  ASSUME NEW F, Counted(F), NEW S, NEW c, NEW rows, NEW old,
         SoundPage(rows, c, F, S), SoundThread(old, c, F, S)
  PROVE  OwnOld(old, NotShown(rows, old) \o old)
<1> DEFINE more == NotShown(rows, old)
           new == more \o old
<1>1. SoundThread(more, c, F, S) /\ Among(more, rows)
  BY NotShownIsSound
<1>2. \A i \in DOMAIN rows : ~(rows[i].guid < 0)
  <2> SUFFICES ASSUME NEW i \in DOMAIN rows PROVE ~(rows[i].guid < 0)
    OBVIOUS
  <2>1. rows[i].guid \in DOMAIN F
    BY DEF SoundPage, ShownRow, IsMessage
  <2> QED BY <2>1 DEF Counted
<1>3. \A i \in DOMAIN more : ~(more[i].guid < 0)
  BY <1>1, <1>2 DEF Among
<1> HIDE DEF more
<1>n. more \in Seq(Rows) /\ old \in Seq(Rows)
  BY <1>1 DEF SoundThread
<1>4. \A i \in DOMAIN new : \/ i \in DOMAIN more /\ new[i] = more[i]
                            \/ i - Len(more) \in DOMAIN old /\ new[i] = old[i - Len(more)]
  BY <1>n
<1> HIDE DEF new
<1>5. OwnOld(old, new)
  BY <1>3, <1>4 DEF OwnOld
<1> QED BY <1>5 DEF new, more

LEMMA PagesBringNoSend ==
  ASSUME Known, OnMessages \/ OnOlderMessages, NEW t \in Int, t < 0, NEW s
  PROVE  InState(threads', t, s) => InState(threads, t, s)
<1> DEFINE f == Head(frames)
           old == threads[f.chat]
           page == WithKnownTempIds(f.rows, old)
           rows == f.rows
<1>k. /\ filed \in Seq(Messages) /\ threads \in [Chats -> Seq(Rows)] /\ Counted(filed)
  BY DEF Known, MacKnown, ReaderKnown, Counted
<1>1. /\ f.chat \in Chats /\ SoundPage(rows, f.chat, filed, sends)
      /\ SoundThread(old, f.chat, filed, sends)
  BY FrameRows DEF OnMessages, OnOlderMessages
<1>2. \/ threads' = threads
      \/ threads' = [threads EXCEPT ![f.chat] = Replaced(page, old)]
      \/ threads' = [threads EXCEPT ![f.chat] = NotShown(rows, old) \o old]
  BY DEF OnMessages, OnOlderMessages, WithOlder
<1> HIDE DEF f, old, rows
<1>3. SoundPage(WithKnownTempIds(rows, old), f.chat, filed, sends)
  BY <1>1, <1>k, KnownTempIdsAreSound
<1>p. page = WithKnownTempIds(rows, old)
  BY DEF rows
<1> HIDE DEF page
<1>4. OwnOld(old, Replaced(page, old)) /\ OwnOld(old, NotShown(rows, old) \o old)
  BY <1>1, <1>3, <1>k, <1>p, ReplacedOwn, OlderOwn
<1>5. ASSUME NEW new, threads' = [threads EXCEPT ![f.chat] = new], OwnOld(old, new),
             InState(threads', t, s)
      PROVE  InState(threads, t, s)
  <2>1. PICK d \in Chats : \E i \in DOMAIN threads'[d] :
                             threads'[d][i].guid = t /\ threads'[d][i].state = s
    BY <1>5 DEF InState
  <2>2. PICK i \in DOMAIN threads'[d] : threads'[d][i].guid = t /\ threads'[d][i].state = s
    BY <2>1
  <2>3. \/ d = f.chat /\ threads'[d] = new /\ threads[d] = old
        \/ threads'[d] = threads[d]
    BY <1>1, <1>5, <1>k DEF old
  <2>4. \E k \in DOMAIN threads[d] : threads[d][k] = threads'[d][i]
    BY <1>5, <2>2, <2>3 DEF OwnOld
  <2> QED BY <2>2, <2>4 DEF InState
<1>6. threads' = threads => (InState(threads', t, s) => InState(threads, t, s))
  OBVIOUS
<1> QED BY <1>2, <1>4, <1>5, <1>6

(* What the reader is shown of the sends, in the old state and the new. *)
LEMMA Standings ==
  ASSUME Known, [Next]_vars
  PROVE  /\ \A k \in DOMAIN sends : k \in Nat /\ k > 0 /\ -k \in Int /\ -k < 0 /\ -k # 0 /\ -(-k) = k
         /\ PendingSends = {k \in DOMAIN sends : InState(threads, -k, "pending")}
         /\ FailedSends = {k \in DOMAIN sends : InState(threads, -k, "failed")}
         /\ \A k \in DOMAIN sends' : -k \in Int /\ -k < 0
         /\ PendingSends' = {k \in DOMAIN sends' : InState(threads', -k, "pending")}
         /\ FailedSends' = {k \in DOMAIN sends' : InState(threads', -k, "failed")}
<1>1. /\ filed \in Seq(Messages) /\ sends \in Seq(Sent)
      /\ \A c \in Chats : SoundThread(threads[c], c, filed, sends)
  BY SoundRows
<1>2. /\ filed' \in Seq(Messages) /\ sends' \in Seq(Sent)
      /\ \A c \in Chats : SoundThread(threads'[c], c, filed', sends')
  BY StepKnown DEF Known, MacKnown, ReaderKnown, Sent
<1>3. \A k \in DOMAIN sends : k \in Nat /\ k > 0 /\ -k \in Int /\ -k < 0 /\ -k # 0 /\ -(-k) = k
  BY <1>1
<1>4. \A k \in DOMAIN sends' : -k \in Int /\ -k < 0
  BY <1>2
<1>5. \A t \in Int : t < 0 => /\ IsPending(t) <=> InState(threads, t, "pending")
                              /\ IsFailed(t) <=> InState(threads, t, "failed")
  BY <1>1, RowStates DEF IsPending, IsFailed
<1>6. \A t \in Int : t < 0 => /\ IsPending(t)' <=> InState(threads', t, "pending")
                              /\ IsFailed(t)' <=> InState(threads', t, "failed")
  BY <1>2, RowStates DEF IsPending, IsFailed
<1>7. /\ PendingSends = {k \in DOMAIN sends : InState(threads, -k, "pending")}
      /\ FailedSends = {k \in DOMAIN sends : InState(threads, -k, "failed")}
  BY <1>3, <1>5 DEF PendingSends, FailedSends
<1>8. /\ PendingSends' = {k \in DOMAIN sends' : InState(threads', -k, "pending")}
      /\ FailedSends' = {k \in DOMAIN sends' : InState(threads', -k, "failed")}
  BY <1>4, <1>6 DEF PendingSends, FailedSends
<1> QED BY <1>3, <1>4, <1>7, <1>8

(* A send, once made, is never made again. *)
LEMMA NotResent ==
  ASSUME Known, NEW k \in DOMAIN sends
  PROVE  -k # -(Len(sends) + 1)
BY DEF Known, ReaderKnown

LEMMA SentChanges ==
  ASSUME Known, NEW text \in Texts, SendMessage(text)
  PROVE  sends' # sends
<1>1. sends' = Append(sends, [chat |-> activeChat, text |-> text, ts |-> LastTs])
      /\ sends \in Seq(Sent)
  BY SoundRows DEF SendMessage
<1>2. Len(sends') = Len(sends) + 1 /\ Len(sends) \in Nat
  BY <1>1
<1> QED BY <1>2

LEMMA LateApartStays ==
  ASSUME Known, OneAckEach, LateApart, [Next]_vars
  PROVE  LateApart'
<1>1. sends' = sends \/ \E text \in Texts : SendMessage(text)
  BY SendsGrow
<1>2. ASSUME NEW k \in DOMAIN sends, -k \in late' PROVE ~Waiting(-k)'
  <2>1. -k \in late \/ ~Waiting(-k)'
    BY <1>2, GivenUp DEF LateSteps
  <2>2. -k \in Int /\ -k # 0 /\ \A text \in Texts : SendMessage(text) => -k # -(Len(sends) + 1)
    BY Standings, NotResent
  <2> QED BY <2>1, <2>2, WaitingShrinks DEF LateApart
<1>3. ASSUME NEW text \in Texts, SendMessage(text), NEW k \in DOMAIN sends', -k \in late'
      PROVE  k \in DOMAIN sends
  <2>1. late' = late /\ late \subseteq {-i : i \in DOMAIN sends} /\ sends \in Seq(Sent)
        /\ sends' \in Seq(Sent)
    BY <1>3, SoundRows, StepKnown DEF SendMessage, macVars, Known, MacKnown, ReaderKnown, Sent
  <2>2. PICK i \in DOMAIN sends : -k = -i
    BY <1>3, <2>1
  <2> QED BY <2>1, <2>2
<1> QED BY <1>1, <1>2, <1>3 DEF LateApart

(* Nothing is filed or shown: the daemon may have given up on some. *)
LEMMA LedgerGivesUp ==
  ASSUME Known, OneAckEach, [Next]_vars, UNCHANGED <<filed, sends, threads>>
  PROVE  Ledger!Next
<1> DEFINE K == AskedSends \ AskedSends'
<1>1. AskedSends' \subseteq AskedSends
  <2> SUFFICES ASSUME NEW k \in DOMAIN sends, Waiting(-k)' PROVE Waiting(-k)
    BY DEF AskedSends
  <2>1. -k \in Int /\ -k # 0
    BY Standings
  <2>2. \A text \in Texts : SendMessage(text) => -k # -(Len(sends) + 1)
    BY NotResent
  <2> QED BY <2>1, <2>2, WaitingShrinks
<1>2. K \in SUBSET AskedSends /\ AskedSends' = AskedSends \ K
  BY <1>1
<1> DEFINE L == LateSends' \ LateSends
<1>5. late \subseteq late'
  <2>1. \A t : ~MacFilesLate(t)
    <3> SUFFICES ASSUME NEW t, MacFilesLate(t) PROVE FALSE
      OBVIOUS
    <3>1. \E m : filed' = Append(filed, m)
      BY DEF MacFilesLate, FileSend, File
    <3>2. filed \in Seq(Messages) /\ filed' = filed
      BY SoundRows
    <3> QED BY <3>1, <3>2
  <2> QED BY <2>1, GivenUp
<1>6. LateSends' = LateSends \cup L
  <2>1. LateSends' = {k \in DOMAIN sends : -k \in late'}
    BY DEF LateSends
  <2> QED BY <1>5, <2>1 DEF LateSends
<1>7. L \in SUBSET K
  <2> SUFFICES ASSUME NEW k \in L PROVE k \in AskedSends /\ k \notin AskedSends'
    OBVIOUS
  <2>1. k \in DOMAIN sends /\ -k \in late' /\ -k \notin late
    BY DEF LateSends
  <2>2. Waiting(-k) /\ ~Waiting(-k)'
    BY <2>1, GivenUp DEF LateSteps
  <2> QED BY <2>1, <2>2 DEF AskedSends
<1>3. UNCHANGED <<MacWords, OwnWords, PendingSends, FailedSends>>
  BY DEF MacWords, OwnWords, PendingSends, FailedSends, IsPending, IsFailed
<1> HIDE DEF K, L
<1>4. Ledger!GiveUp(K, L)
  BY <1>2, <1>3, <1>6 DEF Ledger!GiveUp
<1> QED BY <1>2, <1>4, <1>7 DEF Ledger!Next

LEMMA MacWordsGrow ==
  ASSUME filed \in Seq(Messages), NEW m \in Messages, filed' = Append(filed, m)
  PROVE  /\ MacWords' = Append(MacWords, Words(m, m.fromMe))
         /\ Words(m, m.fromMe) \in [chat : Chats \cup {None}, text : Texts, fromMe : BOOLEAN]
<1>1. DOMAIN filed' = 1..(Len(filed) + 1) /\ DOMAIN filed = 1..Len(filed) /\ Len(filed) \in Nat
      /\ filed'[Len(filed) + 1] = m /\ \A i \in DOMAIN filed : filed'[i] = filed[i]
  OBVIOUS
<1> DEFINE W(x) == Words(x, x.fromMe)
           old == [g \in DOMAIN filed |-> W(filed[g])]
           new == [g \in DOMAIN filed' |-> W(filed'[g])]
<1>2. MacWords = old /\ MacWords' = new
  BY DEF MacWords
<1>3. DOMAIN old = 1..Len(filed) /\ Len(old) = Len(filed)
      /\ old \in Seq({W(filed[i]) : i \in DOMAIN filed})
  BY <1>1
<1>4. new = Append(old, W(m))
  <2> HIDE DEF W
  <2>1. DOMAIN Append(old, W(m)) = 1..(Len(filed) + 1)
    BY <1>1, <1>3
  <2>2. \A i \in 1..(Len(filed) + 1) : new[i] = Append(old, W(m))[i]
    BY <1>1, <1>3
  <2> QED BY <1>1, <1>3, <2>1, <2>2
<1>5. W(m) \in [chat : Chats \cup {None}, text : Texts, fromMe : BOOLEAN]
  BY DEF Messages, Words
<1> QED BY <1>2, <1>4, <1>5

LEMMA OwnWordsGrow ==
  ASSUME sends \in Seq(Sent), NEW m \in Sent, sends' = Append(sends, m)
  PROVE  /\ OwnWords' = Append(OwnWords, Words(m, TRUE)) /\ Len(OwnWords') = Len(sends) + 1
         /\ Words(m, TRUE) \in [chat : Chats \cup {None}, text : Texts, fromMe : BOOLEAN]
         /\ Words(m, TRUE).fromMe
<1>1. DOMAIN sends' = 1..(Len(sends) + 1) /\ DOMAIN sends = 1..Len(sends) /\ Len(sends) \in Nat
      /\ sends'[Len(sends) + 1] = m /\ \A i \in DOMAIN sends : sends'[i] = sends[i]
  OBVIOUS
<1> DEFINE W(x) == Words(x, TRUE)
           old == [g \in DOMAIN sends |-> W(sends[g])]
           new == [g \in DOMAIN sends' |-> W(sends'[g])]
<1>2. OwnWords = old /\ OwnWords' = new
  BY DEF OwnWords
<1>3. DOMAIN old = 1..Len(sends) /\ Len(old) = Len(sends)
      /\ old \in Seq({W(sends[i]) : i \in DOMAIN sends})
  <2> HIDE DEF W
  <2> QED BY <1>1
<1>4. new = Append(old, W(m)) /\ Len(new) = Len(sends) + 1
  <2> HIDE DEF W
  <2>1. DOMAIN Append(old, W(m)) = 1..(Len(sends) + 1)
    BY <1>1, <1>3
  <2>2. \A i \in 1..(Len(sends) + 1) : new[i] = Append(old, W(m))[i]
    BY <1>1, <1>3
  <2>3. new = Append(old, W(m))
    BY <1>1, <1>3, <2>1, <2>2
  <2> QED BY <1>3, <2>3
<1>5. W(m) \in [chat : Chats \cup {None}, text : Texts, fromMe : BOOLEAN] /\ W(m).fromMe
  BY DEF Sent, Words
<1> QED BY <1>2, <1>4, <1>5

LEMMA LedgerFiles ==
  ASSUME Known, NEW c \in Chats, NEW handle \in Handles \cup {None}, NEW fromMe \in BOOLEAN,
         NEW text \in Texts, NEW tick \in Ticks, MacMessage(c, handle, fromMe, text, tick)
  PROVE  Ledger!Next
<1> DEFINE m == [chat |-> c, handle |-> handle, ts |-> LastTs + tick, fromMe |-> fromMe,
                 text |-> text]
<1>1. LastTs + tick \in Nat
  BY SoundRows, LastTsIsATime, ThreadAssumptions
<1>2. m \in Messages
  BY <1>1 DEF Messages
<1>3. /\ filed' = Append(filed, m)
      /\ UNCHANGED <<late, sends, threads, requests, jobs>>
  BY DEF MacMessage, File, clientVars, pipeVars
<1>4. UNCHANGED <<OwnWords, AskedSends, LateSends, PendingSends, FailedSends>>
  BY <1>3 DEF OwnWords, AskedSends, LateSends, PendingSends, FailedSends, IsPending, IsFailed,
              Waiting, Busy
<1> HIDE DEF m
<1>5. /\ MacWords' = Append(MacWords, Words(m, m.fromMe))
      /\ Words(m, m.fromMe) \in Ledger!Words
  BY <1>2, <1>3, SoundRows, MacWordsGrow DEF Ledger!Words
<1>6. Ledger!File(Words(m, m.fromMe))
  BY <1>4, <1>5 DEF Ledger!File
<1> QED BY <1>5, <1>6 DEF Ledger!Next

(* The Mac files the k-th send, asked for or given up on. *)
LEMMA FiledSend ==
  ASSUME Known, NEW t, t \in Int, -t \in DOMAIN sends, FileSend(t), UNCHANGED <<sends, threads>>
  PROVE  /\ UNCHANGED <<OwnWords, PendingSends, FailedSends>>
         /\ MacWords' = Append(MacWords, OwnWords[-t])
<1> DEFINE k == -t
           m == [chat |-> sends[k].chat, handle |-> None, ts |-> LastTs,
                 fromMe |-> TRUE, text |-> sends[k].text]
<1>1. sends[k] \in Sent
  BY SoundRows
<1>2. m \in Messages
  BY <1>1, SoundRows, LastTsIsATime, ThreadAssumptions DEF Messages, Sent
<1>3. filed' = Append(filed, m)
  BY DEF FileSend, File
<1>4. UNCHANGED <<OwnWords, PendingSends, FailedSends>>
  BY DEF OwnWords, PendingSends, FailedSends, IsPending, IsFailed
<1>5. Words(m, m.fromMe) = OwnWords[k]
  BY <1>1 DEF Words, OwnWords
<1> HIDE DEF m
<1>6. MacWords' = Append(MacWords, OwnWords[k])
  BY <1>2, <1>3, <1>5, SoundRows, MacWordsGrow
<1> QED BY <1>4, <1>6

LEMMA LedgerDelivers ==
  ASSUME Known, OneAckEach, LateApart, NEW j \in Jobs, NEW phase \in {"answered", "refused"},
         MacSends(j, phase)
  PROVE  Ledger!Next
<1> DEFINE t == jobs[j].request.temp
           k == -t
<1>1. t \in Int /\ k \in DOMAIN sends /\ -k = t
  BY SendOfJob DEF MacSends, AsksToSend
<1>2. FileSend(t) /\ UNCHANGED <<late, sends, threads>>
  BY DEF MacSends, clientVars
<1>3. /\ UNCHANGED <<OwnWords, PendingSends, FailedSends>>
      /\ MacWords' = Append(MacWords, OwnWords[k])
  <2> HIDE DEF t
  <2> QED BY <1>1, <1>2, FiledSend
<1>4. AsksToSend(j) /\ AskedOnce(j)
  BY SettledOnce
<1>5. \A i \in DOMAIN sends : OneAckOf(-i) /\ (-i = t <=> i = k)
  BY <1>1, SoundRows DEF OneAckEach
<1>6. \A i \in DOMAIN sends : /\ i = k => Waiting(-i) /\ ~Waiting(-i)'
                              /\ i # k => (Waiting(-i)' <=> Waiting(-i))
  BY <1>4, <1>5, AsksOnce
<1> HIDE DEF t, k
<1>7. k \in AskedSends /\ AskedSends' = AskedSends \ {k}
  <2>1. AskedSends' = {i \in DOMAIN sends : Waiting(-i)'}
    BY <1>2 DEF AskedSends
  <2> QED BY <1>1, <1>6, <2>1 DEF AskedSends
<1>8. LateSends' = LateSends \ {k}
  <2>1. k \notin LateSends
    BY <1>1, <1>6 DEF LateApart, LateSends
  <2> QED BY <1>2, <2>1 DEF LateSends
<1>9. Ledger!Deliver(k)
  BY <1>3, <1>7, <1>8 DEF Ledger!Deliver
<1> QED BY <1>7, <1>9 DEF Ledger!Next

LEMMA LedgerDeliversLate ==
  ASSUME Known, LateApart, NEW t \in late, MacFilesLate(t)
  PROVE  Ledger!Next
<1> DEFINE k == -t
<1>1. t \in Int /\ k \in DOMAIN sends /\ -k = t
  <2>1. PICK i \in DOMAIN sends : t = -i
    BY DEF Known, MacKnown
  <2> QED BY <2>1, SoundRows
<1>2. /\ FileSend(t) /\ late' = late \ {t} /\ UNCHANGED <<sends, threads, requests, jobs>>
  BY DEF MacFilesLate, clientVars, pipeVars
<1>3. /\ UNCHANGED <<OwnWords, PendingSends, FailedSends>>
      /\ MacWords' = Append(MacWords, OwnWords[k])
  BY <1>1, <1>2, FiledSend
<1>4. \A i \in DOMAIN sends : -i = t <=> i = k
  BY <1>1, SoundRows
<1> HIDE DEF k
<1>5. UNCHANGED AskedSends
  BY <1>2 DEF AskedSends, Waiting, Busy
<1>6. k \notin AskedSends /\ k \in LateSends
  BY <1>1 DEF LateApart, AskedSends, LateSends
<1>7. LateSends' = LateSends \ {k}
  <2>1. LateSends' = {i \in DOMAIN sends : -i \in late'}
    BY <1>2 DEF LateSends
  <2> QED BY <1>2, <1>4, <2>1 DEF LateSends
<1>8. Ledger!Deliver(k)
  BY <1>3, <1>5, <1>6, <1>7 DEF Ledger!Deliver
<1> QED BY <1>6, <1>8 DEF Ledger!Next

LEMMA LedgerSends ==
  ASSUME Known, [Next]_vars, NEW text \in Texts, SendMessage(text), NEW n, n = Len(sends) + 1
  PROVE  Ledger!Next
<1> DEFINE m == [chat |-> activeChat, text |-> text, ts |-> LastTs]
           q == [kind |-> "send", chat |-> activeChat, before |-> 0, temp |-> -n]
           row == Optimistic(-n)
<1>k. /\ sends \in Seq(Sent) /\ threads \in [Chats -> Seq(Rows)] /\ filed \in Seq(Messages)
      /\ requests \in Seq(Requests)
      /\ \A i \in DOMAIN requests : SoundRequest(requests[i], sends)
      /\ \A j \in Busy : SoundRequest(jobs[j].request, sends)
      /\ activeChat \in Chats
  <2>1. \A j \in Busy : SoundRequest(jobs[j].request, sends)
    BY BusyIsJob DEF Known, SoundJob, Busy
  <2> QED BY <2>1, SoundRows DEF Known, PipesKnown, ReaderKnown, SendMessage
<1>1. /\ sends' = Append(sends, m) /\ requests' = Append(requests, q)
      /\ threads' = [threads EXCEPT ![activeChat] = Append(threads[activeChat], row)]
      /\ UNCHANGED <<filed, late, jobs>>
  BY DEF SendMessage, Request, macVars
<1>2. m \in Sent
  BY <1>k, LastTsIsATime DEF Sent
<1>3. /\ OwnWords' = Append(OwnWords, Words(m, TRUE)) /\ Len(OwnWords') = n
      /\ Words(m, TRUE) \in Ledger!Words /\ Words(m, TRUE).fromMe
  <2> HIDE DEF m
  <2> QED BY <1>1, <1>2, <1>k, OwnWordsGrow DEF Ledger!Words
<1>4. n \in Nat /\ n \notin DOMAIN sends /\ DOMAIN sends' = DOMAIN sends \cup {n}
      /\ -n \in Int /\ -n # 0 /\ -n < 0 /\ -(-n) = n
  BY <1>1, <1>k
<1>5. AskedSends' = AskedSends \cup {n}
  <2>1. Waiting(-n)'
    <3>1. q.temp = -n
      OBVIOUS
    <3>2. Len(requests) + 1 \in DOMAIN requests' /\ requests'[Len(requests) + 1] = q
      BY <1>1, <1>k
    <3> HIDE DEF q
    <3> QED BY <3>1, <3>2 DEF Waiting
  <2>2. \A i \in DOMAIN sends : -i # -n
    BY NotResent
  <2>3. ASSUME NEW i \in DOMAIN sends PROVE Waiting(-i)' <=> Waiting(-i)
    <3> DEFINE t == -i
    <3>1. q.temp # t
      BY <2>2
    <3> HIDE DEF q, t
    <3>2. \A x \in DOMAIN requests' : (x \in DOMAIN requests /\ requests'[x] = requests[x])
                                      \/ requests'[x] = q
      BY <1>1, <1>k
    <3>3. \A x \in DOMAIN requests : x \in DOMAIN requests' /\ requests'[x] = requests[x]
      BY <1>1, <1>k
    <3>4. Waiting(t)' <=> Waiting(t)
      BY <1>1, <3>1, <3>2, <3>3 DEF Waiting, Busy
    <3> QED BY <3>4 DEF t
  <2>4. AskedSends' = {i \in DOMAIN sends' : Waiting(-i)'}
    BY DEF AskedSends
  <2>5. \A i : i \in AskedSends' <=> i \in AskedSends \/ i = n
    <3> SUFFICES ASSUME NEW i PROVE i \in AskedSends' <=> i \in AskedSends \/ i = n
      OBVIOUS
    <3>1. CASE i = n
      BY <1>4, <2>1, <2>4, <3>1
    <3>2. CASE i # n
      BY <1>4, <2>3, <2>4, <3>2 DEF AskedSends
    <3> QED BY <3>1, <3>2
  <2> QED BY <2>5
<1>6. row \in Rows /\ row.guid = -n /\ row.state = "pending"
  BY <1>4 DEF Optimistic, Rows
<1>r. \A c \in Chats : \A i \in DOMAIN threads[c] : threads[c][i].guid # -n
  <2> SUFFICES ASSUME NEW c \in Chats, NEW i \in DOMAIN threads[c], threads[c][i].guid = -n
               PROVE  FALSE
    OBVIOUS
  <2>1. ThreadRow(threads[c][i], c, filed, sends)
    BY SoundRows DEF SoundThread
  <2>2. threads[c][i].guid = threads[c][i].temp /\ -threads[c][i].temp \in DOMAIN sends
    BY <1>4, <1>k, <2>1, RowSigns
  <2> QED BY <1>4, <2>2
<1> HIDE DEF row, m, q
<1>7. \A s : \A t \in Int : t # -n => (InState(threads', t, s) <=> InState(threads, t, s))
  BY <1>1, <1>6, <1>k, RowAdded
<1>8. InState(threads', -n, "pending") /\ ~InState(threads', -n, "failed")
  <2>1. /\ Len(threads[activeChat]) + 1 \in DOMAIN threads'[activeChat]
        /\ threads'[activeChat][Len(threads[activeChat]) + 1] = row
    BY <1>1, <1>6, <1>k
  <2>2. InState(threads', -n, "pending")
    BY <1>6, <1>k, <2>1 DEF InState
  <2>3. InState(threads', -n, "failed") <=> InState(threads, -n, "failed")
    BY <1>1, <1>6, <1>k, RowAdded
  <2> QED BY <1>r, <2>2, <2>3 DEF InState
<1>9. \A i \in DOMAIN sends : -i # -n /\ -i \in Int
  BY NotResent, Standings
<1>10. PendingSends' = PendingSends \cup {n} /\ FailedSends' = FailedSends
  BY <1>4, <1>7, <1>8, <1>9, Standings
<1>11. MacWords' = MacWords
  BY <1>1 DEF MacWords
<1>13. LateSends' = LateSends
  <2>1. -n \notin late
    <3> SUFFICES ASSUME -n \in late PROVE FALSE
      OBVIOUS
    <3>1. PICK i \in DOMAIN sends : -n = -i
      BY DEF Known, MacKnown
    <3> QED BY <1>9, <3>1
  <2>2. LateSends' = {i \in DOMAIN sends' : -i \in late}
    BY <1>1 DEF LateSends
  <2> QED BY <1>4, <2>1, <2>2 DEF LateSends
<1>12. Ledger!Send(Words(m, TRUE))
  BY <1>3, <1>5, <1>10, <1>11, <1>13 DEF Ledger!Send
<1> QED BY <1>3, <1>12 DEF Ledger!Next

(* What a frame leaves alone. *)
LEMMA FrameKeeps ==
  ASSUME OnMessages \/ OnOlderMessages \/ OnMessage \/ OnAck
  PROVE  UNCHANGED <<filed, sends>> /\ UNCHANGED <<MacWords, OwnWords, AskedSends, LateSends>>
<1>1. UNCHANGED <<filed, late, sends, requests, jobs>>
  BY DEF OnMessages, OnOlderMessages, OnMessage, OnAck, AfterFrame, macVars
<1> QED BY <1>1 DEF MacWords, OwnWords, AskedSends, LateSends, Waiting, Busy

LEMMA LedgerPages ==
  ASSUME Known, [Next]_vars, OnMessages \/ OnOlderMessages
  PROVE  Ledger!Next
<1> DEFINE K == FailedSends \ FailedSends'
<1>1. UNCHANGED <<filed, sends>> /\ UNCHANGED <<MacWords, OwnWords, AskedSends, LateSends>>
  BY FrameKeeps
<1>2. \A t \in Int, c \in Chats : HasRow(threads'[c], t) <=> HasRow(threads[c], t)
  BY PageFlow DEF RowOld, RowKept
<1>3. \A t \in Int : IsPending(t)' <=> IsPending(t)
  BY <1>2 DEF IsPending, HasRow
<1>4. PendingSends' = PendingSends
  <2>1. \A k \in DOMAIN sends : IsPending(-k)' <=> IsPending(-k)
    BY <1>3, Standings
  <2> QED BY <1>1, <2>1 DEF PendingSends
<1>5. FailedSends' \subseteq FailedSends
  BY <1>1, PagesBringNoSend, Standings
<1>6. K \in SUBSET FailedSends /\ FailedSends' = FailedSends \ K
  BY <1>5
<1> HIDE DEF K
<1>7. Ledger!Forget(K)
  BY <1>1, <1>4, <1>6 DEF Ledger!Forget
<1> QED BY <1>6, <1>7 DEF Ledger!Next

(* Nothing changes in the ledger's eyes. *)
LEMMA LedgerStutters ==
  ASSUME UNCHANGED <<MacWords, OwnWords, AskedSends, LateSends, PendingSends, FailedSends>>
  PROVE  Ledger!Next
<1>1. {} \in SUBSET FailedSends /\ FailedSends' = FailedSends \ {}
  OBVIOUS
<1>2. Ledger!Forget({})
  BY <1>1 DEF Ledger!Forget
<1> QED BY <1>1, <1>2 DEF Ledger!Next

LEMMA TurnedSends ==
  ASSUME Known, OneRowEach, [Next]_vars, NEW c \in Chats, NEW a \in DOMAIN threads[c], NEW row,
         Turned(c, a, row), row.guid = threads[c][a].guid \/ (row.guid \in Int /\ row.guid > 0),
         NEW k \in DOMAIN sends
  PROVE  \A s : SendTurned(c, a, row, -k, s)
<1> SUFFICES ASSUME NEW s PROVE SendTurned(c, a, row, -k, s)
  OBVIOUS
<1>1. -k \in Int /\ -k < 0
  BY Standings
<1> QED BY <1>1, RowTurned

(* A row turns into that of a message: one in flight, if it is there.      *)
LEMMA LedgerSettles ==
  ASSUME Known, OneRowEach, [Next]_vars, UNCHANGED sends,
         UNCHANGED <<MacWords, OwnWords, AskedSends, LateSends>>,
         NEW c \in Chats, NEW a \in DOMAIN threads[c], NEW row,
         Turned(c, a, row), row.guid \in Int, row.guid > 0,
         \A k \in DOMAIN sends : threads[c][a].guid = -k /\ threads[c][a].state = "pending" =>
           \E g \in DOMAIN filed : MacWords[g] = OwnWords[k]
  PROVE  Ledger!Next
<1>1. \A k \in DOMAIN sends : row.guid # -k
  BY Standings
<1>2. ASSUME NEW k \in DOMAIN sends, NEW s
      PROVE  /\ -k # threads[c][a].guid => (InState(threads', -k, s) <=> InState(threads, -k, s))
             /\ -k = threads[c][a].guid => /\ InState(threads, -k, s) <=> threads[c][a].state = s
                                           /\ ~InState(threads', -k, s)
  <2>1. SendTurned(c, a, row, -k, s)
    BY TurnedSends
  <2> QED BY <1>1, <2>1 DEF SendTurned
<1>3. ASSUME \A k \in DOMAIN sends : -k # threads[c][a].guid PROVE Ledger!Next
  <2>1. UNCHANGED <<PendingSends, FailedSends>>
    BY <1>2, <1>3, Standings
  <2> QED BY <2>1, LedgerStutters
<1>4. ASSUME NEW k \in DOMAIN sends, -k = threads[c][a].guid PROVE Ledger!Next
  <2>1. \A i \in DOMAIN sends : i # k => -i # threads[c][a].guid
    BY <1>4, Standings
  <2>2. threads[c][a].state \in {"pending", "failed"}
    <3>1. ThreadRow(threads[c][a], c, filed, sends)
      BY SoundRows DEF SoundThread
    <3>2. -k < 0 /\ -k \in Int
      BY Standings
    <3> QED BY <1>4, <3>1, <3>2, SoundRows, RowSigns
  <2>3. CASE threads[c][a].state = "pending"
    <3>1. /\ k \in PendingSends /\ PendingSends' = PendingSends \ {k}
          /\ FailedSends' = FailedSends
      BY <1>2, <1>4, <2>1, <2>3, Standings
    <3>2. \E g \in DOMAIN MacWords : MacWords[g] = OwnWords[k]
      BY <1>4, <2>3 DEF MacWords
    <3>3. Ledger!Arrive(k)
      BY <3>1, <3>2 DEF Ledger!Arrive
    <3> QED BY <3>1, <3>3 DEF Ledger!Next
  <2>4. CASE threads[c][a].state = "failed"
    <3>1. /\ k \in FailedSends /\ PendingSends' = PendingSends
          /\ FailedSends' = FailedSends \ {k}
      BY <1>2, <1>4, <2>1, <2>4, Standings
    <3>2. Ledger!Forget({k}) /\ {k} \in SUBSET FailedSends
      BY <3>1 DEF Ledger!Forget
    <3> QED BY <3>2 DEF Ledger!Next
  <2> QED BY <2>2, <2>3, <2>4
<1> QED BY <1>3, <1>4

LEMMA LedgerEchoes ==
  ASSUME Known, OneRowEach, OneAckEach, [Next]_vars, OnMessage
  PROVE  Ledger!Next
<1> DEFINE f == Head(frames)
           c == f.chat
           old == threads[c]
           m == Head(f.rows)
<1>1. UNCHANGED <<filed, sends>> /\ UNCHANGED <<MacWords, OwnWords, AskedSends, LateSends>>
  BY FrameKeeps
<1>2. /\ c \in Chats /\ SoundPage(f.rows, c, filed, sends) /\ SoundThread(old, c, filed, sends)
      /\ Len(f.rows) = 1 /\ filed[m.guid].chat = c
  <2>1. /\ c \in Chats /\ SoundPage(f.rows, c, filed, sends) /\ SoundThread(old, c, filed, sends)
        /\ f.kind = "message" /\ SoundFrame(f, filed, sends, heard)
    BY FrameRows DEF OnMessage
  <2>2. Len(f.rows) = 1 /\ filed[f.rows[1].guid].chat = c
    BY <2>1 DEF SoundFrame
  <2> QED BY <2>1, <2>2
<1>3. ShownRow(m, c, filed, sends)
  BY <1>2 DEF SoundPage
<1>4. threads' = threads \/ threads' = [threads EXCEPT ![c] = WithMessage(old, m)]
  BY DEF OnMessage
<1> HIDE DEF f, m
<1>5. m \in Rows /\ m.guid \in DOMAIN filed /\ m.guid \in Int /\ m.guid > 0
  BY <1>3, SoundRows DEF ShownRow, IsMessage
<1>6. CASE threads' = threads
  BY <1>1, <1>6, LedgerGivesUp
<1>7. CASE threads' = [threads EXCEPT ![c] = Append(threads[c], m)]
  <2>1. \A k \in DOMAIN sends : -k # m.guid
    BY <1>5, Standings
  <2>2. \A s : \A k \in DOMAIN sends : InState(threads', -k, s) <=> InState(threads, -k, s)
    BY <1>2, <1>5, <1>7, <2>1, RowAdded
  <2>3. UNCHANGED <<PendingSends, FailedSends>>
    BY <1>1, <2>2, Standings
  <2> QED BY <1>1, <2>3, LedgerStutters
<1>8. ASSUME NEW a \in DOMAIN old, WithMessage(old, m) = [old EXCEPT ![a] = m],
             threads' = [threads EXCEPT ![c] = WithMessage(old, m)]
      PROVE  Ledger!Next
  <2>0. Turned(c, a, m)
    BY <1>8 DEF Turned
  <2>1. ASSUME NEW k \in DOMAIN sends, old[a].guid = -k, old[a].state = "pending"
        PROVE  \E g \in DOMAIN filed : MacWords[g] = OwnWords[k]
    <3>0. -(-k) = k
      BY Standings
    <3>1. /\ old[a].temp = -k /\ sends[k].chat = c /\ sends[k] \in Sent
      <4>1. old[a].guid = old[a].temp /\ sends[-old[a].temp].chat = c
        BY <1>2, <2>1, SoundRows, PendingRows
      <4> QED BY <2>1, <3>0, <4>1, SoundRows
    <3>2. ~(\E i \in DOMAIN WithMessage(old, m) : WithMessage(old, m)[i] = old[a])
      <4>1. ~InState(threads', -k, "pending")
        <5>1. m.guid # -k
          BY <1>5, Standings
        <5>2. SendTurned(c, a, m, -k, "pending")
          <6> HIDE DEF c
          <6> QED BY <1>2, <1>5, <1>8, <2>0, <2>1, TurnedSends
        <5> QED BY <2>1, <5>1, <5>2 DEF SendTurned
      <4>2. threads'[c] = WithMessage(old, m)
        BY <1>2, <1>8, SoundRows
      <4> QED BY <1>2, <2>1, <4>1, <4>2 DEF InState
    <3>3. EchoOf(m.guid, c, sends[-old[a].temp].text)
      <4>1. filed \in Seq(Messages) /\ sends \in Seq(Sent)
        BY SoundRows
      <4>2. \A i \in DOMAIN old : old[i].state = "pending" =>
              \/ \E n \in DOMAIN WithMessage(old, m) : WithMessage(old, m)[n] = old[i]
              \/ EchoOf(m.guid, c, sends[-old[i].temp].text)
        BY <1>2, <1>3, <4>1, EchoCarries
      <4> QED BY <1>8, <2>1, <3>2, <4>2
    <3>4. filed[m.guid] \in Messages /\ filed[m.guid].fromMe = TRUE
      <4>1. filed \in Seq(Messages)
        BY SoundRows
      <4>2. filed[m.guid] \in Messages
        BY <1>5, <4>1
      <4> QED BY <3>3, <4>2 DEF EchoOf, Messages
    <3>5. MacWords[m.guid] = OwnWords[k]
      BY <1>5, <3>0, <3>1, <3>3, <3>4 DEF MacWords, OwnWords, Words, EchoOf
    <3> QED BY <1>5, <3>5
  <2> HIDE DEF c
  <2> QED BY <1>1, <1>2, <1>5, <2>0, <2>1, LedgerSettles
<1> HIDE DEF c, old
<1>9. \/ WithMessage(old, m) = Append(old, m)
      \/ \E a \in DOMAIN old : WithMessage(old, m) = [old EXCEPT ![a] = m]
  BY <1>2, <1>3, WithMessageSteps
<1>10. threads' = [threads EXCEPT ![c] = WithMessage(old, m)] => Ledger!Next
  <2>1. CASE WithMessage(old, m) = Append(old, m)
    BY <1>7, <2>1 DEF old
  <2>2. CASE \E a \in DOMAIN old : WithMessage(old, m) = [old EXCEPT ![a] = m]
    BY <1>8, <2>2
  <2> QED BY <1>9, <2>1, <2>2
<1> QED BY <1>4, <1>6, <1>10

LEMMA LedgerAcks ==
  ASSUME Known, OneRowEach, OneAckEach, [Next]_vars, OnAck
  PROVE  Ledger!Next
<1> DEFINE f == Head(frames)
           c == f.chat
           old == threads[c]
           k == -f.temp
<1>1. UNCHANGED <<filed, sends>> /\ UNCHANGED <<MacWords, OwnWords, AskedSends, LateSends>>
  BY FrameKeeps
<1>2. /\ c \in Chats /\ SoundThread(old, c, filed, sends) /\ SoundFrame(f, filed, sends, heard)
      /\ f.kind = "ack" /\ f \in Frames /\ frames # <<>>
      /\ threads' = [threads EXCEPT ![c] = Patched(old, f)]
  BY FrameRows DEF OnAck
<1>3. /\ f.temp \in Int /\ k \in DOMAIN sends /\ -k = f.temp
      /\ sends[k] \in Sent /\ sends[k].chat = c
      /\ f.flag => IsMessage(f.guid, c, f.temp, filed, sends)
  BY <1>2, SoundRows DEF SoundFrame, SentBy, Frames
<1>4. k \notin AskedSends
  <2>1. OneAckOf(-k)
    BY <1>3 DEF OneAckEach
  <2>2. AckedAt(f.temp) # {}
    <3>1. 1 \in DOMAIN frames /\ frames[1] = f
      BY <1>2 DEF Known, PipesKnown
    <3> HIDE DEF f
    <3> QED BY <1>2, <3>1 DEF AckedAt, At
  <2>3. ~Waiting(-k)
    BY <1>3, <2>1, <2>2, WaitingHasNoAck
  <2> QED BY <2>3 DEF AskedSends
<1> HIDE DEF f
<1>5. \/ Patched(old, f) = old
      \/ \E i \in DOMAIN old : /\ old[i].guid = f.temp
                               /\ Patched(old, f) = [old EXCEPT ![i] = PatchedRow(old[i], f)]
  <2> HIDE DEF old, c
  <2> QED BY <1>2, PatchedSteps
<1>6. CASE Patched(old, f) = old
  <2>1. threads' = threads
    BY <1>2, <1>6, SoundRows
  <2> QED BY <1>1, <2>1, LedgerGivesUp
<1>7. ASSUME NEW a \in DOMAIN old, old[a].guid = f.temp,
             Patched(old, f) = [old EXCEPT ![a] = PatchedRow(old[a], f)]
      PROVE  Ledger!Next
  <2> DEFINE row == PatchedRow(old[a], f)
  <2>1. Turned(c, a, row)
    BY <1>2, <1>7 DEF Turned
  <2>2. old[a] \in Rows /\ old[a].state \in {"pending", "failed"} /\ old[a].guid = -k
    <3>1. ThreadRow(old[a], c, filed, sends)
      BY <1>2 DEF SoundThread
    <3>2. -k < 0
      BY <1>3, Standings
    <3> QED BY <1>3, <1>7, <3>1, <3>2, SoundRows, RowSigns
  <2>3. \A i \in DOMAIN sends : i # k => -i # old[a].guid
    BY <1>3, <2>2, Standings
  <2>4. CASE f.flag
    <3>1. row.guid = f.guid /\ f.guid \in DOMAIN filed
      BY <1>3, <2>2, <2>4 DEF PatchedRow, Rows, IsMessage
    <3>2. row.guid \in Int /\ row.guid > 0
      BY <3>1, SoundRows
    <3>3. MacWords[f.guid] = OwnWords[k]
      <4>1. filed[f.guid] \in Messages
        BY <3>1, SoundRows
      <4>2. /\ filed[f.guid].fromMe = TRUE /\ filed[f.guid].chat = c
            /\ filed[f.guid].text = sends[k].text
        <5>1. f.temp # 0
          BY <1>3, Standings
        <5> QED BY <1>3, <2>4, <4>1, <5>1 DEF IsMessage, Messages
      <4> QED BY <1>3, <3>1, <4>2 DEF MacWords, OwnWords, Words
    <3>4. \A i \in DOMAIN sends : threads[c][a].guid = -i /\ threads[c][a].state = "pending" =>
            \E g \in DOMAIN filed : MacWords[g] = OwnWords[i]
      BY <2>3, <3>1, <3>3
    <3> HIDE DEF row, c
    <3> QED BY <1>1, <1>2, <1>7, <2>1, <3>1, <3>2, <3>4, LedgerSettles
  <2>5. CASE ~f.flag
    <3>1. row.guid = old[a].guid /\ row.state = "failed"
      BY <1>7, <2>2, <2>5 DEF PatchedRow, Rows
    <3> HIDE DEF row, c, k
    <3>2. ASSUME NEW i \in DOMAIN sends, NEW s
          PROVE  /\ i # k => (InState(threads', -i, s) <=> InState(threads, -i, s))
                 /\ i = k => /\ InState(threads, -i, s) <=> old[a].state = s
                             /\ InState(threads', -i, s) <=> s = "failed"
      <4>1. SendTurned(c, a, row, -i, s)
        BY <1>2, <1>7, <2>1, <3>1, TurnedSends
      <4> QED BY <2>2, <2>3, <3>1, <4>1 DEF SendTurned
    <3>3. CASE old[a].state = "pending"
      <4>1. /\ k \in PendingSends
            /\ PendingSends' = PendingSends \ {k} /\ FailedSends' = FailedSends \cup {k}
        BY <1>1, <1>3, <3>2, <3>3, Standings
      <4>2. Ledger!Fail(k)
        BY <1>1, <1>4, <4>1 DEF Ledger!Fail
      <4> QED BY <4>1, <4>2 DEF Ledger!Next
    <3>4. CASE old[a].state = "failed"
      <4>1. PendingSends' = PendingSends /\ FailedSends' = FailedSends
        BY <1>1, <1>3, <3>2, <3>4, Standings
      <4> QED BY <1>1, <4>1, LedgerStutters
    <3> QED BY <2>2, <3>3, <3>4
  <2> QED BY <2>4, <2>5
<1> QED BY <1>5, <1>6, <1>7

(* Every step of the machine is a step of the ledger. *)
LedgerInvariant == SendsInvariant /\ LateApart

LEMMA LedgerStep ==
  ASSUME LedgerInvariant, [Next]_vars
  PROVE  Ledger!Next
<1>k. Known /\ OneRowEach /\ OneAckEach /\ LateApart
  BY DEF LedgerInvariant, SendsInvariant
<1>1. CASE \E c \in Chats, handle \in Handles \cup {None}, fromMe \in BOOLEAN, text \in Texts,
              tick \in Ticks : MacMessage(c, handle, fromMe, text, tick)
  BY <1>k, <1>1, LedgerFiles
<1>2. CASE \E j \in Jobs : \E phase \in {"answered", "refused"} : MacSends(j, phase)
  BY <1>k, <1>2, LedgerDelivers
<1>9. CASE \E t \in late : MacFilesLate(t)
  BY <1>k, <1>9, LedgerDeliversLate
<1>3. CASE \E text \in Texts : SendMessage(text)
  BY <1>k, <1>3, LedgerSends
<1>4. CASE OnMessages \/ OnOlderMessages
  BY <1>k, <1>4, LedgerPages
<1>5. CASE OnMessage
  BY <1>k, <1>5, LedgerEchoes
<1>6. CASE OnAck
  BY <1>k, <1>6, LedgerAcks
<1>7. CASE UNCHANGED <<filed, sends, threads>>
  BY <1>k, <1>7, LedgerGivesUp
<1>8. \/ \E c \in Chats, handle \in Handles \cup {None}, fromMe \in BOOLEAN, text \in Texts,
           tick \in Ticks : MacMessage(c, handle, fromMe, text, tick)
      \/ \E j \in Jobs : \E phase \in {"answered", "refused"} : MacSends(j, phase)
      \/ \E t \in late : MacFilesLate(t)
      \/ \E text \in Texts : SendMessage(text)
      \/ OnMessages \/ OnOlderMessages \/ OnMessage \/ OnAck
      \/ UNCHANGED <<filed, sends, threads>>
  BY DEF Next, vars, macVars, daemonVars, pipeVars, clientVars, PushesLost, MacServesPage,
         MacServesHandle, MacRefuses, RequestLost, HandleMessage, Dispatch, LandPage, LandOlder,
         LandSend, LandFailure, OpenChat, CloseChat, ReloadActiveMessages, LoadOlderMessages,
         OnOlderError, AfterFrame, DropLink, Flush, RestartDaemon, Reconnect
<1> QED BY <1>1, <1>2, <1>3, <1>4, <1>5, <1>6, <1>7, <1>8, <1>9

LEMMA AlwaysLedger == Spec => []LedgerInvariant
<1>1. Init => LedgerInvariant
  BY InitSends DEF LedgerInvariant, LateApart, Init
<1>2. LedgerInvariant /\ [Next]_vars => LedgerInvariant'
  BY StepSends, LateApartStays DEF LedgerInvariant, SendsInvariant
<1> QED BY <1>1, <1>2, PTL DEF Spec

LEMMA LedgerInit == Init => Ledger!Init
<1> SUFFICES ASSUME Init PROVE Ledger!Init
  OBVIOUS
<1>1. SendsInvariant
  BY InitSends
<1>2. filed \in Seq(Messages) /\ sends = <<>> /\ DOMAIN sends = {}
  BY <1>1, SoundRows DEF Init, SendsInvariant
<1>3. MacWords \in Seq(Ledger!Words)
  <2>1. \A g \in DOMAIN filed : Words(filed[g], filed[g].fromMe) \in Ledger!Words
    <3> SUFFICES ASSUME NEW g \in DOMAIN filed
                 PROVE  Words(filed[g], filed[g].fromMe) \in Ledger!Words
      OBVIOUS
    <3>1. filed[g] \in Messages
      BY <1>2
    <3> QED BY <3>1 DEF Messages, Words, Ledger!Words
  <2>2. DOMAIN filed = 1..Len(filed) /\ Len(filed) \in Nat
    BY <1>2
  <2>3. MacWords \in [1..Len(filed) -> Ledger!Words]
    BY <2>1, <2>2 DEF MacWords
  <2> QED BY <2>2, <2>3
<1>4. OwnWords = <<>>
  BY <1>2 DEF OwnWords
<1>5. AskedSends = {} /\ LateSends = {} /\ PendingSends = {} /\ FailedSends = {}
  BY <1>2 DEF AskedSends, LateSends, PendingSends, FailedSends
<1> QED BY <1>3, <1>4, <1>5 DEF Ledger!Init

(* What becomes of a send: the machine implements SendLedger. It reaches   *)
(* the Mac once at most, even where its request timed out and the Mac      *)
(* files it after the bubble said that it failed; the bubble leaves flight *)
(* only as a message the Mac holds, or as a failure when nobody asks for   *)
(* the send any more, and is never in flight again (Client.qml             *)
(* sendMessage, absorbEcho, patchMessage, replaceActiveMessages; index.js  *)
(* send).                                                                  *)
THEOREM SendsKeepTheLedger == Spec => ImplementsLedger
<1>1. LedgerInvariant /\ [Next]_vars
        => [Ledger!Next]_<<MacWords, OwnWords, AskedSends, LateSends, PendingSends, FailedSends>>
  BY LedgerStep
<1> QED BY <1>1, LedgerInit, AlwaysLedger, PTL DEF Spec, ImplementsLedger, Ledger!Spec
=============================================================================
