---------------------------- MODULE StoreProofs ----------------------------
(* Store's type invariant, the invariants of its list, boundary and files, *)
(* what a read and a sweep do to it, and its refinement of ReadLedger, for *)
(* any chats, requests, message stamps and bounds.                         *)
EXTENDS Store, UnreadRunProofs

-----------------------------------------------------------------------------
(* The operators the actions are built from *)

LEMMA NewestIsASuffix ==
  ASSUME NEW s \in Seq(Nat), NEW n \in Nat
  PROVE  /\ Newest(s, n) \in Seq(Nat)
         /\ Len(Newest(s, n)) <= n
         /\ ElementsOf(Newest(s, n)) \subseteq ElementsOf(s)
<1>1. CASE Len(s) <= n
  BY <1>1 DEF Newest
<1>2. CASE Len(s) > n
  <2> DEFINE m == Len(s) - n + 1
  <2>1. Len(s) \in Nat /\ m \in 1..(Len(s) + 1) /\ m \in Nat
    BY <1>2
  <2>2. Newest(s, n) = SubSeq(s, m, Len(s))
    BY <1>2 DEF Newest
  <2>3. /\ SubSeq(s, m, Len(s)) \in Seq(Nat)
        /\ Len(SubSeq(s, m, Len(s))) = n
        /\ \A i \in 1..n : SubSeq(s, m, Len(s))[i] = s[m + i - 1]
    BY <1>2, <2>1
  <2>4. \A i \in 1..n : m + i - 1 \in 1..Len(s)
    BY <1>2, <2>1
  <2> DEFINE t == Newest(s, n)
  <2>5. t \in Seq(Nat) /\ Len(t) = n /\ \A i \in 1..n : t[i] = s[m + i - 1]
    BY <2>2, <2>3
  <2> HIDE DEF m, t
  <2>6. ElementsOf(t) \subseteq ElementsOf(s)
    BY <2>4, <2>5 DEF ElementsOf
  <2> QED BY <2>5, <2>6 DEF t
<1> QED BY <1>1, <1>2

LEMMA AppendElements ==
  ASSUME NEW s \in Seq(Nat), NEW ts \in Nat
  PROVE  /\ Append(s, ts) \in Seq(Nat)
         /\ Len(Append(s, ts)) = Len(s) + 1
         /\ ElementsOf(Append(s, ts)) \subseteq ElementsOf(s) \cup {ts}
BY DEF ElementsOf

LEMMA ElementsAreNaturals ==
  ASSUME NEW s \in Seq(Nat)
  PROVE  ElementsOf(s) \subseteq Nat
BY DEF ElementsOf

(* Marking a message read keeps everything a timestamp is taken from. *)
LEMMA MessageStamped ==
  ASSUME NEW m \in Messages, NEW b \in BOOLEAN, NEW n, n = [m EXCEPT !.read = b]
  PROVE  /\ n \in Messages
         /\ n.ts = m.ts
         /\ n.fromMe = m.fromMe
BY DEF Messages

LEMMA StampedThread ==
  ASSUME NEW msgs \in Seq(Messages)
  PROVE  /\ Stamped(msgs) \in Seq(Messages)
         /\ Len(Stamped(msgs)) = Len(msgs)
         /\ \A i \in 1..Len(msgs) : /\ Stamped(msgs)[i].ts = msgs[i].ts
                                    /\ Stamped(msgs)[i].fromMe = msgs[i].fromMe
<1> DEFINE S(i) == [msgs[i] EXCEPT !.read = msgs[i].read \/ ~msgs[i].fromMe]
<1>1. Len(msgs) \in Nat /\ \A i \in 1..Len(msgs) : msgs[i] \in Messages
  OBVIOUS
<1>2. ASSUME NEW i \in 1..Len(msgs)
      PROVE  /\ S(i) \in Messages
             /\ S(i).ts = msgs[i].ts
             /\ S(i).fromMe = msgs[i].fromMe
  <2>1. msgs[i] \in Messages
    BY <1>1
  <2>2. (msgs[i].read \/ ~msgs[i].fromMe) \in BOOLEAN
    BY <2>1 DEF Messages
  <2> QED BY <2>1, <2>2, MessageStamped
<1>3. Stamped(msgs) = [i \in 1..Len(msgs) |-> S(i)]
  BY DEF Stamped
<1> HIDE DEF S
<1>4. Stamped(msgs) \in Seq(Messages) /\ Len(Stamped(msgs)) = Len(msgs)
  BY <1>1, <1>2, <1>3
<1> QED BY <1>1, <1>2, <1>3, <1>4

-----------------------------------------------------------------------------
(* Types *)

LEMMA InitTypeOK == Init => TypeOK
<1> SUFFICES ASSUME Init PROVE TypeOK
  OBVIOUS
<1>1. NoTs \in [Chats -> Nat] /\ NoRuns \in [Chats -> Seq(Nat)]
      /\ NoRuns \in [Chats -> Seq(Messages)]
      /\ \A c \in Chats : Len(NoRuns[c]) <= ScanLimit
  BY ScanLimitAssumption DEF NoTs, NoRuns
<1>2. wire \in Seq(Events)
  BY DEF Init
<1>3. answer \in [Requests -> [Chats -> Nat]]
  BY <1>1 DEF Init
<1>4. cacheFile \in [known : SUBSET Chats, last : [Chats -> Nat]]
  BY <1>1 DEF Init
<1> QED BY <1>1, <1>2, <1>3, <1>4 DEF Init, TypeOK

LEMMA PushTyped ==
  ASSUME TypeOK, NEW kind \in {"message", "read"}, NEW c \in Chats,
         NEW guid \in Nat, Push(kind, c, guid)
  PROVE  wire' \in Seq(Events)
<1> DEFINE e == [kind |-> kind, chat |-> c, guid |-> guid]
<1>1. e \in Events
  BY DEF Events
<1>2. CASE linkUp
  <2>1. wire' = Append(wire, e) /\ wire \in Seq(Events)
    BY <1>2 DEF Push, TypeOK
  <2> HIDE DEF e
  <2> QED BY <1>1, <2>1
<1>3. CASE ~linkUp
  BY <1>3 DEF Push, TypeOK
<1> QED BY <1>2, <1>3

LEMMA HeadOfWire ==
  ASSUME TypeOK, wire # <<>>
  PROVE  /\ Head(wire) \in Events
         /\ Head(wire).chat \in Chats
         /\ Head(wire).kind \in {"message", "read"}
         /\ Head(wire).guid \in Nat
         /\ Tail(wire) \in Seq(Events)
<1>1. Head(wire) \in Events /\ Tail(wire) \in Seq(Events)
  BY DEF TypeOK
<1> QED BY <1>1 DEF Events

LEMMA MarkReadTyped ==
  ASSUME TypeOK, NEW c \in Chats, MarkRead(c)
  PROVE  /\ opened' \in [Chats -> Nat]
         /\ openedFile' \in [Chats -> Nat]
         /\ unreadTs' \in [Chats -> Seq(Nat)]
         /\ \A d \in Chats : Len(unreadTs'[d]) <= ScanLimit
         /\ dirty' \in BOOLEAN
         /\ faults' \in Nat
<1>1. PICK through \in Shown(c) :
        IF c \in known /\ through > opened[c]
          THEN /\ opened' = [opened EXCEPT ![c] = through]
               /\ WriteOpened
               /\ unreadTs' = [unreadTs EXCEPT ![c] = <<>>]
               /\ dirty' = TRUE
          ELSE UNCHANGED <<opened, openedFile, faults, unreadTs, dirty>>
  BY DEF MarkRead
<1>2. through \in Nat
  BY ElementsAreNaturals DEF Shown, TypeOK
<1>3. CASE c \in known /\ through > opened[c]
  <2>1. opened' = [opened EXCEPT ![c] = through] /\ opened' \in [Chats -> Nat]
    BY <1>1, <1>2, <1>3 DEF TypeOK
  <2>2. openedFile' \in [Chats -> Nat] /\ faults' \in Nat
    <3>1. WriteOpened /\ openedFile \in [Chats -> Nat] /\ faults \in Nat
      BY <1>1, <1>3 DEF TypeOK
    <3> QED BY <2>1, <3>1 DEF WriteOpened, Fault
  <2>3. unreadTs' = [unreadTs EXCEPT ![c] = <<>>]
    BY <1>1, <1>3
  <2>4. /\ unreadTs' \in [Chats -> Seq(Nat)]
        /\ \A d \in Chats : Len(unreadTs'[d]) <= ScanLimit
    BY <2>3, ScanLimitAssumption DEF TypeOK
  <2> QED BY <1>1, <1>3, <2>1, <2>2, <2>4
<1>4. CASE ~(c \in known /\ through > opened[c])
  BY <1>1, <1>4 DEF TypeOK
<1> QED BY <1>3, <1>4

LEMMA SeededTyped ==
  ASSUME TypeOK, NEW chats
  PROVE  /\ Seeded(chats, runs) \in [Chats -> Seq(Nat)]
         /\ \A c \in Chats : Len(Seeded(chats, runs)[c]) <= ScanLimit
BY DEF Seeded, TypeOK

LEMMA AttachSeedTyped ==
  ASSUME TypeOK, NEW chats, AttachSeed(chats)
  PROVE  /\ unreadTs' \in [Chats -> Seq(Nat)] /\ runs' \in [Chats -> Seq(Nat)]
         /\ \A c \in Chats : Len(unreadTs'[c]) <= ScanLimit /\ Len(runs'[c]) <= ScanLimit
         /\ seedHeld' \in BOOLEAN
<1>1. NoRuns \in [Chats -> Seq(Nat)] /\ \A c \in Chats : Len(NoRuns[c]) <= ScanLimit
  BY ScanLimitAssumption DEF NoRuns
<1> QED BY <1>1, SeededTyped DEF AttachSeed

(* An event at the head of the wire names a message the Mac has filed. *)
LEMMA HeadIsFiled ==
  ASSUME TypeOK, WireNamesMessages, wire # <<>>, Head(wire).kind = "message"
  PROVE  LET e == Head(wire)
             m == mac[e.chat][e.guid] IN
           /\ e.chat \in Chats
           /\ e.guid \in 1..Len(mac[e.chat])
           /\ m \in Messages
           /\ m.ts \in TsOf(e.chat)
           /\ ~m.fromMe => m.ts \in InboundTs(e.chat)
<1> DEFINE e == Head(wire)
           m == mac[e.chat][e.guid]
<1>1. wire \in Seq(Events) /\ Len(wire) \in Nat /\ 1 \in 1..Len(wire) /\ wire[1] = e
  BY DEF TypeOK
<1>2. e.chat \in Chats
  BY HeadOfWire
<1>3. e.guid \in 1..Len(mac[e.chat])
  BY <1>1 DEF WireNamesMessages
<1>4. mac[e.chat] \in Seq(Messages)
  BY <1>2 DEF TypeOK
<1>5. m \in Messages
  BY <1>3, <1>4
<1> HIDE DEF e
<1>6. m.ts \in TsOf(e.chat) /\ (~m.fromMe => m.ts \in InboundTs(e.chat))
  BY <1>3 DEF TsOf, InboundTs
<1> QED BY <1>2, <1>3, <1>5, <1>6 DEF e

LEMMA UpsertTyped ==
  ASSUME TypeOK, NEW c \in Chats, NEW m \in Messages, UpsertFromMessage(c, m)
  PROVE  /\ known' \subseteq Chats
         /\ last' \in [Chats -> Nat]
         /\ unreadTs' \in [Chats -> Seq(Nat)]
         /\ \A d \in Chats : Len(unreadTs'[d]) <= ScanLimit
         /\ dirty' \in BOOLEAN
<1> DEFINE s == Newest(Append(unreadTs[c], m.ts), ScanLimit)
<1>1. m.ts \in Nat /\ unreadTs[c] \in Seq(Nat) /\ ScanLimit \in Nat
  BY ScanLimitAssumption DEF Messages, TypeOK
<1>2. s \in Seq(Nat) /\ Len(s) <= ScanLimit
  BY <1>1, AppendElements, NewestIsASuffix
<1>3. unreadTs' = [unreadTs EXCEPT ![c] = IF m.fromMe THEN unreadTs[c] ELSE s]
  BY DEF UpsertFromMessage
<1> HIDE DEF s
<1>4. /\ unreadTs' \in [Chats -> Seq(Nat)]
      /\ \A d \in Chats : Len(unreadTs'[d]) <= ScanLimit
  BY <1>1, <1>2, <1>3 DEF TypeOK
<1> QED BY <1>1, <1>4 DEF UpsertFromMessage, TypeOK

LEMMA TypeOKStep == TypeOK /\ WireNamesMessages /\ [Next]_vars => TypeOK'
<1> SUFFICES ASSUME TypeOK, WireNamesMessages, [Next]_vars PROVE TypeOK'
  OBVIOUS
<1> USE DEF macVars, linkVars, chatVars, scanVars, sweepVars, diskVars
<1>0. NoTs \in [Chats -> Nat] /\ NoRuns \in [Chats -> Seq(Nat)]
      /\ \A c \in Chats : Len(NoRuns[c]) <= ScanLimit
  BY ScanLimitAssumption DEF NoTs, NoRuns
<1>00. <<>> \in Seq(Events)
  OBVIOUS
<1>1. ASSUME NEW c \in Chats, NEW fromMe \in BOOLEAN, NEW tick \in Ticks,
             MacMessage(c, fromMe, tick)
      PROVE  TypeOK'
  <2> DEFINE m == [guid |-> Len(mac[c]) + 1, ts |-> clock + tick,
                   fromMe |-> fromMe, read |-> FALSE]
  <2>1. mac[c] \in Seq(Messages) /\ clock \in Nat /\ tick \in Nat
        /\ clock + tick \in Nat \ {0}
    BY <1>1, StoreAssumptions DEF MacMessage, TypeOK
  <2>2. m \in Messages
    BY <2>1 DEF Messages
  <2>3. mac' = [mac EXCEPT ![c] = Append(mac[c], m)]
    BY <1>1 DEF MacMessage
  <2> HIDE DEF m
  <2>4. mac' \in [Chats -> Seq(Messages)]
    BY <2>1, <2>2, <2>3 DEF TypeOK
  <2>5. wire' \in Seq(Events)
    BY <1>1, <2>1, PushTyped DEF MacMessage
  <2>6. clock' \in Nat
    BY <1>1, <2>1 DEF MacMessage
  <2> QED BY <1>1, <2>4, <2>5, <2>6 DEF MacMessage, TypeOK
<1>2. ASSUME NEW c \in Chats, NEW stamps \in BOOLEAN, NEW moves \in BOOLEAN,
             MacRead(c, stamps, moves)
      PROVE  TypeOK'
  <2>1. mac[c] \in Seq(Messages) /\ Stamped(mac[c]) \in Seq(Messages)
    BY StampedThread DEF TypeOK
  <2>2. mac' \in [Chats -> Seq(Messages)]
    BY <1>2, <2>1 DEF MacRead, TypeOK
  <2>3. lastSeen' \in [Chats -> Nat]
    BY <1>2, <2>1 DEF MacRead, TypeOK
  <2>4. wire' \in Seq(Events)
    BY <1>2, PushTyped DEF MacRead
  <2> QED BY <1>2, <2>2, <2>3, <2>4 DEF MacRead, TypeOK
<1>3. CASE Connect
  BY <1>3 DEF Connect, TypeOK
<1>4. CASE Disconnect
  <2>1. wire' = <<>> /\ linkUp' = FALSE
    BY <1>4 DEF Disconnect
  <2>2. wire' \in Seq(Events)
    BY <1>00, <2>1
  <2>3. faults' \in Nat
    BY <1>4 DEF Disconnect, Fault, TypeOK
  <2> QED BY <1>4, <2>1, <2>2, <2>3 DEF Disconnect, TypeOK
<1>5. CASE HandleMessage
  <2> DEFINE e == Head(wire)
             m == mac[e.chat][e.guid]
  <2>1. e.chat \in Chats /\ Tail(wire) \in Seq(Events)
    BY <1>5, HeadOfWire DEF HandleMessage
  <2>2. m \in Messages
    BY <1>5, HeadIsFiled DEF HandleMessage
  <2>3. UpsertFromMessage(e.chat, m) /\ wire' = Tail(wire)
    BY <1>5 DEF HandleMessage
  <2> HIDE DEF e, m
  <2> QED BY <1>5, <2>1, <2>2, <2>3, UpsertTyped DEF HandleMessage, TypeOK
<1>6. CASE HandleChatRead
  <2>1. Head(wire).chat \in Chats /\ Tail(wire) \in Seq(Events)
    BY <1>6, HeadOfWire DEF HandleChatRead
  <2>2. MarkRead(Head(wire).chat)
    BY <1>6 DEF HandleChatRead
  <2> QED BY <1>6, <2>1, <2>2, MarkReadTyped DEF HandleChatRead, TypeOK
<1>7. ASSUME NEW c \in Chats, ClientRead(c)
      PROVE  TypeOK'
  <2>1. MarkRead(c)
    BY <1>7 DEF ClientRead
  <2> QED BY <1>7, <2>1, MarkReadTyped DEF ClientRead, TypeOK
<1>8. ASSUME NEW r \in Requests, NEW listed \in Listings, SweepAnswer(r, listed)
      PROVE  TypeOK'
  <2> DEFINE a == [c \in Chats |-> IF listed[c] = 0 THEN 0 ELSE mac[c][listed[c]].ts]
  <2>1. ASSUME NEW c \in Chats PROVE a[c] \in Nat
    <3>1. listed[c] = 0 \/ listed[c] \in 1..Len(mac[c])
      BY <1>8 DEF SweepAnswer, ListedLast
    <3>2. mac[c] \in Seq(Messages)
      BY DEF TypeOK
    <3>3. CASE listed[c] = 0
      BY <3>3
    <3>4. CASE listed[c] # 0
      <4>1. mac[c][listed[c]] \in Messages
        BY <3>1, <3>2, <3>4
      <4> QED BY <3>4, <4>1 DEF Messages
    <3> QED BY <3>3, <3>4
  <2>2. answer' = [answer EXCEPT ![r] = a]
    BY <1>8 DEF SweepAnswer
  <2>3. a \in [Chats -> Nat]
    BY <2>1
  <2> HIDE DEF a
  <2>4. answer' \in [Requests -> [Chats -> Nat]]
    BY <2>2, <2>3 DEF TypeOK
  <2> QED BY <1>8, <2>4 DEF SweepAnswer, TypeOK
<1>9. ASSUME NEW r \in Requests, SweepLand(r)
      PROVE  TypeOK'
  <2>1. answer[r] \in [Chats -> Nat] /\ answered' \subseteq Requests
        /\ answer' \in [Requests -> [Chats -> Nat]]
    BY <1>0, <1>9 DEF SweepLand, Forgotten, TypeOK
  <2>2. last' \in [Chats -> Nat] /\ known' \subseteq Chats
    BY <1>9, <2>1 DEF SweepLand, ReplaceChats, Previews, TypeOK
  <2>3. /\ unreadTs' \in [Chats -> Seq(Nat)] /\ runs' \in [Chats -> Seq(Nat)]
        /\ \A c \in Chats : Len(unreadTs'[c]) <= ScanLimit /\ Len(runs'[c]) <= ScanLimit
        /\ seedHeld' \in BOOLEAN
    <3>1. CASE seedHeld
      <4>1. AttachSeed(Chats)
        BY <1>9, <3>1 DEF SweepLand, ReplaceChats
      <4> QED BY <4>1, AttachSeedTyped
    <3>2. CASE ~seedHeld
      BY <1>9, <3>2 DEF SweepLand, ReplaceChats, TypeOK
    <3> QED BY <3>1, <3>2
  <2> QED BY <1>9, <2>1, <2>2, <2>3 DEF SweepLand, ReplaceChats, TypeOK
<1>10. ASSUME NEW r \in Requests, SweepFail(r)
       PROVE  TypeOK'
  BY <1>0, <1>10 DEF SweepFail, Forgotten, Fault, TypeOK
<1>11. ASSUME NEW listed \in Listings, ScanList(listed)
       PROVE  TypeOK'
  BY <1>11 DEF ScanList, TypeOK
<1>12. ASSUME NEW c \in Chats, ScanRead(c)
       PROVE  TypeOK'
  <2>1. /\ Window(mac[c]) \in Seq(Messages)
        /\ Len(Window(mac[c])) <= ScanLimit
        /\ scanSeen[c] \in Nat
    BY WindowIsASequence DEF TypeOK
  <2>2. /\ UnreadRun(Window(mac[c]), scanSeen[c]) \in Seq(Nat)
        /\ Len(UnreadRun(Window(mac[c]), scanSeen[c])) <= ScanLimit
    <3> DEFINE W == Window(mac[c])
    <3> HIDE DEF W
    <3>1. /\ UnreadRun(W, scanSeen[c]) \in Seq(Nat)
          /\ Len(UnreadRun(W, scanSeen[c])) \in 0..Len(W)
      BY <2>1, RunIsAgreedPrefix DEF W
    <3>2. Len(W) \in Nat /\ Len(W) <= ScanLimit
      BY <2>1 DEF W
    <3> QED BY <3>1, <3>2, ScanLimitAssumption DEF W
  <2>3. /\ runs' \in [Chats -> Seq(Nat)]
        /\ \A d \in Chats : Len(runs'[d]) <= ScanLimit
    BY <1>12, <2>2 DEF ScanRead, TypeOK
  <2> QED BY <1>12, <2>3 DEF ScanRead, TypeOK
<1>13. CASE ScanLand
  <2>1. CASE known # {}
    <3>1. /\ unreadTs' \in [Chats -> Seq(Nat)] /\ runs' \in [Chats -> Seq(Nat)]
          /\ \A c \in Chats : Len(unreadTs'[c]) <= ScanLimit /\ Len(runs'[c]) <= ScanLimit
          /\ seedHeld' \in BOOLEAN /\ dirty' \in BOOLEAN
      <4>1. AttachSeed(known) /\ dirty' = TRUE
        BY <1>13, <2>1 DEF ScanLand
      <4> QED BY <4>1, AttachSeedTyped
    <3> QED BY <1>13, <3>1 DEF ScanLand, TypeOK
  <2>2. CASE known = {}
    BY <1>13, <2>2 DEF ScanLand, TypeOK
  <2> QED BY <2>1, <2>2
<1>14. CASE ScanFail
  <2>1. faults' \in Nat
    BY <1>14 DEF ScanFail, Fault, TypeOK
  <2> QED BY <1>0, <1>14, <2>1 DEF ScanFail, TypeOK
<1>15. CASE CacheFlush
  <2>1. cacheFile' \in [known : SUBSET Chats, last : [Chats -> Nat]] /\ faults' \in Nat
    BY <1>15 DEF CacheFlush, CacheWrite, Fault, TypeOK
  <2> QED BY <1>15, <2>1 DEF CacheFlush, TypeOK
<1>16. ASSUME Gone, cacheFile' \in [known : SUBSET Chats, last : [Chats -> Nat]],
              faults' \in Nat
       PROVE  TypeOK'
  <2>1. answer' \in [Requests -> [Chats -> Nat]] /\ wire' \in Seq(Events)
    BY <1>0, <1>00, <1>16 DEF Gone
  <2> QED BY <1>0, <1>16, <2>1, ScanLimitAssumption DEF Gone, TypeOK
<1>17. CASE Crash
  BY <1>16, <1>17 DEF Crash, TypeOK
<1>18. CASE Shutdown
  <2>1. cacheFile' \in [known : SUBSET Chats, last : [Chats -> Nat]] /\ faults' \in Nat
    BY <1>18 DEF Shutdown, CacheWrite, Fault, TypeOK
  <2> QED BY <1>16, <1>18, <2>1 DEF Shutdown
<1>19. CASE Start
  BY <1>19 DEF Start, TypeOK
<1>20. CASE UNCHANGED vars
  BY <1>20 DEF vars, TypeOK
<1> QED
  BY <1>1, <1>2, <1>3, <1>4, <1>5, <1>6, <1>7, <1>8, <1>9, <1>10, <1>11, <1>12,
     <1>13, <1>14, <1>15, <1>17, <1>18, <1>19, <1>20 DEF Next

-----------------------------------------------------------------------------
(* The Mac only files messages: no timestamp is ever taken back *)

MacGrows ==
  \A c \in Chats :
    /\ Len(mac[c]) <= Len(mac'[c])
    /\ \A i \in 1..Len(mac[c]) : /\ mac'[c][i].ts = mac[c][i].ts
                                 /\ mac'[c][i].fromMe = mac[c][i].fromMe

LEMMA MacStep == TypeOK /\ TypeOK' /\ [Next]_vars => MacGrows
<1> SUFFICES ASSUME TypeOK, TypeOK', [Next]_vars PROVE MacGrows
  OBVIOUS
<1> USE DEF macVars
<1>0. \A c \in Chats : mac[c] \in Seq(Messages) /\ Len(mac[c]) \in Nat
  BY DEF TypeOK
<1>1. CASE mac' = mac
  BY <1>0, <1>1 DEF MacGrows
<1>2. ASSUME NEW c \in Chats, NEW fromMe \in BOOLEAN, NEW tick \in Ticks,
             MacMessage(c, fromMe, tick)
      PROVE  MacGrows
  <2> DEFINE m == [guid |-> Len(mac[c]) + 1, ts |-> clock + tick,
                   fromMe |-> fromMe, read |-> FALSE]
  <2>1. mac' = [mac EXCEPT ![c] = Append(mac[c], m)]
    BY <1>2 DEF MacMessage
  <2> HIDE DEF m
  <2> DEFINE t == Append(mac[c], m)
  <2>2. \A d \in Chats : mac'[d] = IF d = c THEN t ELSE mac[d]
    BY <2>1 DEF TypeOK
  <2>3. /\ Len(t) = Len(mac[c]) + 1
        /\ \A i \in 1..Len(mac[c]) : t[i] = mac[c][i]
    BY <1>0
  <2> HIDE DEF t
  <2>4. ASSUME NEW d \in Chats
        PROVE  /\ Len(mac[d]) <= Len(mac'[d])
               /\ \A i \in 1..Len(mac[d]) : mac'[d][i] = mac[d][i]
    <3>1. CASE d = c
      <4>1. mac'[d] = t /\ mac[d] = mac[c]
        BY <2>2, <3>1
      <4> QED BY <1>0, <2>3, <4>1
    <3>2. CASE d # c
      BY <1>0, <2>2, <3>2
    <3> QED BY <3>1, <3>2
  <2> QED BY <2>4 DEF MacGrows
<1>3. ASSUME NEW c \in Chats, NEW stamps \in BOOLEAN, NEW moves \in BOOLEAN,
             MacRead(c, stamps, moves)
      PROVE  MacGrows
  <2>1. mac' = [mac EXCEPT ![c] = IF stamps THEN Stamped(mac[c]) ELSE mac[c]]
    BY <1>3 DEF MacRead
  <2>2. \A d \in Chats : mac'[d] = IF d = c /\ stamps THEN Stamped(mac[c]) ELSE mac[d]
    BY <2>1 DEF TypeOK
  <2>3. /\ Len(Stamped(mac[c])) = Len(mac[c])
        /\ \A i \in 1..Len(mac[c]) : /\ Stamped(mac[c])[i].ts = mac[c][i].ts
                                     /\ Stamped(mac[c])[i].fromMe = mac[c][i].fromMe
    BY <1>0, StampedThread
  <2> QED BY <1>0, <2>2, <2>3 DEF MacGrows
<1> QED
  <2>1. CASE Connect
    BY <1>1, <2>1 DEF Connect
  <2>2. CASE Disconnect
    BY <1>1, <2>2 DEF Disconnect
  <2>3. CASE HandleMessage
    BY <1>1, <2>3 DEF HandleMessage
  <2>4. CASE HandleChatRead
    BY <1>1, <2>4 DEF HandleChatRead
  <2>5. CASE \E c \in Chats : ClientRead(c) \/ ScanRead(c)
    BY <1>1, <2>5 DEF ClientRead, ScanRead
  <2>6. CASE \E r \in Requests : \/ \E listed \in Listings : SweepAnswer(r, listed)
                                 \/ SweepLand(r) \/ SweepFail(r)
    BY <1>1, <2>6 DEF SweepAnswer, SweepLand, SweepFail
  <2>7. CASE (\E listed \in Listings : ScanList(listed)) \/ ScanLand \/ ScanFail
    BY <1>1, <2>7 DEF ScanList, ScanLand, ScanFail
  <2>8. CASE CacheFlush \/ Crash \/ Shutdown \/ Start
    BY <1>1, <2>8 DEF CacheFlush, Crash, Shutdown, Gone, Start
  <2>9. CASE UNCHANGED vars
    BY <1>1, <2>9 DEF vars
  <2> QED BY <1>2, <1>3, <2>1, <2>2, <2>3, <2>4, <2>5, <2>6, <2>7, <2>8, <2>9 DEF Next

LEMMA TimestampsStay ==
  ASSUME TypeOK, TypeOK', MacGrows, NEW c \in Chats
  PROVE  /\ TsOf(c) \subseteq TsOf(c)'
         /\ InboundTs(c) \subseteq InboundTs(c)'
<1>1. Len(mac[c]) \in Nat /\ Len(mac'[c]) \in Nat /\ Len(mac[c]) <= Len(mac'[c])
  <2>1. mac[c] \in Seq(Messages) /\ mac'[c] \in Seq(Messages)
    BY DEF TypeOK
  <2> QED BY <2>1 DEF MacGrows
<1>2. \A i \in 1..Len(mac[c]) : /\ i \in 1..Len(mac'[c])
                               /\ mac'[c][i].ts = mac[c][i].ts
                               /\ mac'[c][i].fromMe = mac[c][i].fromMe
  BY <1>1 DEF MacGrows
<1> QED BY <1>2 DEF TsOf, InboundTs

LEMMA TimestampsArePositive ==
  ASSUME TypeOK, NEW c \in Chats
  PROVE  InboundTs(c) \subseteq TsOf(c) /\ TsOf(c) \subseteq Nat \ {0}
<1>1. \A i \in 1..Len(mac[c]) : mac[c][i] \in Messages
  BY DEF TypeOK
<1> QED BY <1>1 DEF TsOf, InboundTs, Messages

-----------------------------------------------------------------------------
(* Events in flight keep naming filed messages *)

LEMMA WireKept ==
  ASSUME TypeOK, TypeOK', MacGrows, WireNamesMessages,
         \A k \in 1..Len(wire') :
           \/ \E j \in 1..Len(wire) : wire'[k] = wire[j]
           \/ wire'[k].kind = "message" =>
                wire'[k].guid \in 1..Len(mac'[wire'[k].chat])
  PROVE  WireNamesMessages'
<1> SUFFICES ASSUME NEW k \in 1..Len(wire'), wire'[k].kind = "message"
             PROVE  wire'[k].guid \in 1..Len(mac'[wire'[k].chat])
  BY DEF WireNamesMessages
<1>1. CASE \E j \in 1..Len(wire) : wire'[k] = wire[j]
  <2>1. PICK j \in 1..Len(wire) : wire'[k] = wire[j]
    BY <1>1
  <2>2. wire[j].guid \in 1..Len(mac[wire[j].chat])
    BY <2>1 DEF WireNamesMessages
  <2>3. wire[j] \in Events
    BY DEF TypeOK
  <2>4. wire[j].chat \in Chats
    BY <2>3 DEF Events
  <2>5. mac[wire[j].chat] \in Seq(Messages) /\ mac'[wire[j].chat] \in Seq(Messages)
    BY <2>4 DEF TypeOK
  <2>6. Len(mac[wire[j].chat]) <= Len(mac'[wire[j].chat])
    BY <2>4 DEF MacGrows
  <2> QED BY <2>1, <2>2, <2>5, <2>6
<1>2. CASE ~\E j \in 1..Len(wire) : wire'[k] = wire[j]
  BY <1>2
<1> QED BY <1>1, <1>2

LEMMA PushKept ==
  ASSUME TypeOK, TypeOK', MacGrows, WireNamesMessages,
         NEW kind \in {"message", "read"}, NEW c \in Chats, NEW guid \in Nat,
         Push(kind, c, guid), kind = "message" => guid \in 1..Len(mac'[c])
  PROVE  WireNamesMessages'
<1> DEFINE e == [kind |-> kind, chat |-> c, guid |-> guid]
<1>0. wire \in Seq(Events) /\ Len(wire) \in Nat
  BY DEF TypeOK
<1>1. CASE linkUp
  <2>1. wire' = Append(wire, e)
    BY <1>1 DEF Push
  <2>2. e.kind = "message" => e.guid \in 1..Len(mac'[e.chat])
    OBVIOUS
  <2> HIDE DEF e
  <2>3. \A k \in 1..Len(wire') : (\E j \in 1..Len(wire) : wire'[k] = wire[j]) \/ wire'[k] = e
    BY <1>0, <2>1
  <2> QED BY <2>2, <2>3, WireKept
<1>2. CASE ~linkUp
  <2>1. wire' = wire
    BY <1>2 DEF Push
  <2> QED BY <2>1, WireKept
<1> QED BY <1>1, <1>2

LEMMA WireStep ==
  TypeOK /\ TypeOK' /\ WireNamesMessages /\ [Next]_vars => WireNamesMessages'
<1> SUFFICES ASSUME TypeOK, TypeOK', WireNamesMessages, [Next]_vars
             PROVE  WireNamesMessages'
  OBVIOUS
<1> USE DEF linkVars
<1>0. MacGrows
  BY MacStep
<1>1. CASE wire' = wire
  BY <1>0, <1>1, WireKept
<1>2. CASE wire' = <<>>
  BY <1>2 DEF WireNamesMessages
<1>3. CASE wire # <<>> /\ wire' = Tail(wire)
  <2>1. wire \in Seq(Events) /\ Len(wire) \in Nat
    BY DEF TypeOK
  <2>2. \A k \in 1..Len(wire') : k + 1 \in 1..Len(wire) /\ wire'[k] = wire[k + 1]
    BY <1>3, <2>1
  <2> QED BY <1>0, <2>2, WireKept
<1>4. ASSUME NEW c \in Chats, NEW fromMe \in BOOLEAN, NEW tick \in Ticks,
             MacMessage(c, fromMe, tick)
      PROVE  WireNamesMessages'
  <2>1. mac[c] \in Seq(Messages) /\ Len(mac[c]) \in Nat
    BY DEF TypeOK
  <2> DEFINE m == [guid |-> Len(mac[c]) + 1, ts |-> clock + tick,
                   fromMe |-> fromMe, read |-> FALSE]
  <2>2. mac'[c] = Append(mac[c], m)
    BY <1>4 DEF MacMessage, TypeOK
  <2> HIDE DEF m
  <2>3. Len(mac[c]) + 1 \in 1..Len(mac'[c]) /\ Len(mac[c]) + 1 \in Nat
    BY <2>1, <2>2
  <2>4. Push("message", c, Len(mac[c]) + 1)
    BY <1>4 DEF MacMessage
  <2> QED BY <1>0, <2>3, <2>4, PushKept
<1>5. ASSUME NEW c \in Chats, NEW stamps \in BOOLEAN, NEW moves \in BOOLEAN,
             MacRead(c, stamps, moves)
      PROVE  WireNamesMessages'
  <2>1. Push("read", c, 0)
    BY <1>5 DEF MacRead
  <2> QED BY <1>0, <2>1, PushKept
<1> QED
  <2>1. CASE Connect
    BY <1>1, <2>1 DEF Connect
  <2>2. CASE Disconnect
    BY <1>2, <2>2 DEF Disconnect
  <2>3. CASE HandleMessage
    BY <1>3, <2>3 DEF HandleMessage
  <2>4. CASE HandleChatRead
    BY <1>3, <2>4 DEF HandleChatRead
  <2>5. CASE \E c \in Chats : ClientRead(c) \/ ScanRead(c)
    BY <1>1, <2>5 DEF ClientRead, ScanRead
  <2>6. CASE \E r \in Requests : \/ \E listed \in Listings : SweepAnswer(r, listed)
                                 \/ SweepLand(r) \/ SweepFail(r)
    BY <1>1, <2>6 DEF SweepAnswer, SweepLand, SweepFail
  <2>7. CASE (\E listed \in Listings : ScanList(listed)) \/ ScanLand \/ ScanFail
    BY <1>1, <2>7 DEF ScanList, ScanLand, ScanFail
  <2>8. CASE CacheFlush \/ Start
    BY <1>1, <2>8 DEF CacheFlush, Start
  <2>9. CASE Crash \/ Shutdown
    BY <1>2, <2>9 DEF Crash, Shutdown, Gone
  <2>10. CASE UNCHANGED vars
    BY <1>1, <2>10 DEF vars
  <2> QED BY <1>4, <1>5, <2>1, <2>2, <2>3, <2>4, <2>5, <2>6, <2>7, <2>8, <2>9,
             <2>10 DEF Next

-----------------------------------------------------------------------------
(* Previews: in memory, in answers in flight and in cache.json *)

LEMMA ListKept ==
  ASSUME TypeOK, TypeOK', MacGrows, ListIsReal,
         UNCHANGED <<last, answer>>, UNCHANGED cacheFile
  PROVE  ListIsReal'
BY TimestampsStay DEF ListIsReal

LEMMA ListStep ==
  TypeOK /\ TypeOK' /\ WireNamesMessages /\ ListIsReal /\ [Next]_vars => ListIsReal'
<1> SUFFICES ASSUME TypeOK, TypeOK', WireNamesMessages, ListIsReal, [Next]_vars
             PROVE  ListIsReal'
  OBVIOUS
<1> USE DEF macVars, linkVars, chatVars, scanVars, sweepVars, diskVars
<1>0. MacGrows
  BY MacStep
<1>00. \A c \in Chats : TsOf(c) \subseteq TsOf(c)'
  BY <1>0, TimestampsStay
<1>1. ASSUME UNCHANGED <<last, answer>>, UNCHANGED cacheFile
      PROVE  ListIsReal'
  BY <1>0, <1>1, ListKept
<1>2. CASE HandleMessage
  <2> DEFINE e == Head(wire)
             m == mac[e.chat][e.guid]
  <2>1. e.chat \in Chats /\ m.ts \in TsOf(e.chat)
    BY <1>2, HeadIsFiled DEF HandleMessage
  <2>2. last' = [last EXCEPT ![e.chat] = m.ts]
    BY <1>2 DEF HandleMessage, UpsertFromMessage
  <2>3. UNCHANGED <<answer, cacheFile>>
    BY <1>2 DEF HandleMessage
  <2> HIDE DEF e, m
  <2>4. \A c \in Chats : last'[c] \in TsOf(c) \cup {0}
    BY <2>1, <2>2 DEF ListIsReal, TypeOK
  <2> QED BY <1>00, <2>3, <2>4 DEF ListIsReal
<1>3. ASSUME NEW r \in Requests, NEW listed \in Listings, SweepAnswer(r, listed)
      PROVE  ListIsReal'
  <2> DEFINE a == [c \in Chats |-> IF listed[c] = 0 THEN 0 ELSE mac[c][listed[c]].ts]
  <2>1. ASSUME NEW c \in Chats PROVE a[c] \in TsOf(c) \cup {0}
    <3>1. listed[c] = 0 \/ listed[c] \in 1..Len(mac[c])
      BY <1>3 DEF SweepAnswer, ListedLast
    <3> QED BY <3>1 DEF TsOf
  <2>2. answer' = [answer EXCEPT ![r] = a] /\ UNCHANGED <<last, cacheFile>>
    BY <1>3 DEF SweepAnswer
  <2> HIDE DEF a
  <2>3. \A c \in Chats, q \in Requests : answer'[q][c] \in TsOf(c) \cup {0}
    BY <2>1, <2>2 DEF ListIsReal, TypeOK
  <2> QED BY <1>00, <2>2, <2>3 DEF ListIsReal
<1>4. ASSUME NEW r \in Requests, Forgotten(r), UNCHANGED cacheFile,
             \A c \in Chats : last'[c] \in TsOf(c) \cup {0}
      PROVE  ListIsReal'
  <2>1. \A c \in Chats, q \in Requests : answer'[q][c] \in TsOf(c) \cup {0}
    BY <1>4 DEF Forgotten, NoTs, ListIsReal, TypeOK
  <2> QED BY <1>00, <1>4, <2>1 DEF ListIsReal
<1>5. ASSUME NEW r \in Requests, SweepLand(r)
      PROVE  ListIsReal'
  <2>1. \A c \in Chats : last'[c] = answer[r][c] \/ last'[c] = last[c]
    BY <1>5 DEF SweepLand, ReplaceChats, Previews
  <2>2. \A c \in Chats : last'[c] \in TsOf(c) \cup {0}
    BY <2>1 DEF ListIsReal
  <2> QED BY <1>4, <1>5, <2>2 DEF SweepLand
<1>6. ASSUME NEW r \in Requests, SweepFail(r)
      PROVE  ListIsReal'
  <2>1. \A c \in Chats : last'[c] \in TsOf(c) \cup {0}
    BY <1>6 DEF SweepFail, ListIsReal
  <2> QED BY <1>4, <1>6, <2>1 DEF SweepFail
<1>7. ASSUME CacheWrite \/ UNCHANGED cacheFile
      PROVE  \A c \in Chats : cacheFile'.last[c] \in TsOf(c) \cup {0}
  BY <1>7 DEF CacheWrite, ListIsReal
<1>8. CASE CacheFlush
  BY <1>00, <1>7, <1>8 DEF CacheFlush, ListIsReal
<1>9. ASSUME Gone, CacheWrite \/ UNCHANGED cacheFile
      PROVE  ListIsReal'
  <2>1. \A c \in Chats : last'[c] = 0 /\ \A r \in Requests : answer'[r][c] = 0
    BY <1>9 DEF Gone, NoTs
  <2> QED BY <1>00, <1>7, <1>9, <2>1 DEF ListIsReal
<1>10. CASE Start
  <2>1. last' = cacheFile.last /\ UNCHANGED <<answer, cacheFile>>
    BY <1>10 DEF Start
  <2> QED BY <1>00, <2>1 DEF ListIsReal
<1> QED
  <2>1. ASSUME NEW c \in Chats,
               \/ \E fromMe \in BOOLEAN, tick \in Ticks : MacMessage(c, fromMe, tick)
               \/ \E stamps, moves \in BOOLEAN : MacRead(c, stamps, moves)
               \/ ClientRead(c) \/ ScanRead(c)
        PROVE  ListIsReal'
    BY <1>1, <2>1 DEF MacMessage, MacRead, ClientRead, ScanRead
  <2>2. CASE Connect \/ Disconnect \/ HandleChatRead
    BY <1>1, <2>2 DEF Connect, Disconnect, HandleChatRead
  <2>3. CASE (\E listed \in Listings : ScanList(listed)) \/ ScanLand \/ ScanFail
    BY <1>1, <2>3 DEF ScanList, ScanLand, ScanFail
  <2>4. CASE Crash \/ Shutdown
    BY <1>9, <2>4 DEF Crash, Shutdown
  <2>5. CASE UNCHANGED vars
    BY <1>1, <2>5 DEF vars
  <2> QED BY <1>2, <1>3, <1>5, <1>6, <1>8, <1>10, <2>1, <2>2, <2>3, <2>4, <2>5 DEF Next

-----------------------------------------------------------------------------
(* Unread timestamps: live, in the scan's hands, or held as a seed *)

LEMMA UnreadKept ==
  ASSUME TypeOK, TypeOK', MacGrows,
         \A c \in Chats : /\ ElementsOf(unreadTs'[c]) \subseteq InboundTs(c)
                          /\ ElementsOf(runs'[c]) \subseteq InboundTs(c)
  PROVE  UnreadIsReal'
<1>1. \A c \in Chats : InboundTs(c) \subseteq InboundTs(c)'
  BY TimestampsStay
<1>2. \A c \in Chats : /\ ElementsOf(unreadTs[c])' = ElementsOf(unreadTs'[c])
                       /\ ElementsOf(runs[c])' = ElementsOf(runs'[c])
  BY DEF ElementsOf
<1> QED BY <1>1, <1>2 DEF UnreadIsReal

(* What a scan of c records is inbound messages of c: the run is a prefix  *)
(* of the window, and no own message is inside it.                         *)
LEMMA ScanReadIsInbound ==
  ASSUME TypeOK, NEW c \in Chats
  PROVE  ElementsOf(UnreadRun(Window(mac[c]), scanSeen[c])) \subseteq InboundTs(c)
<1> DEFINE W == Window(mac[c])
           run == UnreadRun(W, scanSeen[c])
<1>1. /\ mac[c] \in Seq(Messages) /\ scanSeen[c] \in Nat
  BY DEF TypeOK
<1> DEFINE M == mac[c]
<1> HIDE DEF M
<1>2. /\ Window(M) \in Seq(Messages)
      /\ \A k \in 1..Len(Window(M)) : /\ Len(M) + 1 - k \in 1..Len(M)
                                      /\ Window(M)[k] = M[Len(M) + 1 - k]
  <2>1. M \in Seq(Messages)
    BY <1>1 DEF M
  <2> QED BY <2>1, WindowIsASequence
<1>20. /\ W \in Seq(Messages)
       /\ \A k \in 1..Len(W) : /\ Len(mac[c]) + 1 - k \in 1..Len(mac[c])
                               /\ W[k] = mac[c][Len(mac[c]) + 1 - k]
  BY <1>2 DEF M
<1> HIDE DEF W
<1>21. Len(W) \in Nat
  BY <1>20
<1>3. /\ Len(run) \in 0..Len(W)
      /\ \A k \in 1..Len(run) : run[k] = W[k].ts /\ ~W[k].fromMe
  <2> DEFINE seen == scanSeen[c]
             n == ScanLength(W, seen)
  <2>1. seen \in Nat
    BY <1>1
  <2> HIDE DEF seen
  <2>2. /\ n \in 0..Len(W)
        /\ Len(UnreadRun(W, seen)) = n
        /\ \A k \in 1..n : UnreadRun(W, seen)[k] = W[k].ts /\ ~W[k].fromMe
    BY <1>20, <2>1, RunIsAgreedPrefix
  <2> HIDE DEF n
  <2> QED BY <2>2 DEF seen
<1> HIDE DEF run
<1>4. ASSUME NEW k \in 1..Len(run)
      PROVE  run[k] \in InboundTs(c)
  <2>1. k \in 1..Len(W)
    BY <1>21, <1>3
  <2> DEFINE i == Len(mac[c]) + 1 - k
  <2>2. i \in 1..Len(mac[c]) /\ W[k] = mac[c][i]
    BY <1>20, <2>1
  <2> HIDE DEF i
  <2> QED BY <1>3, <2>2 DEF InboundTs
<1>5. ElementsOf(run) \subseteq InboundTs(c)
  BY <1>4 DEF ElementsOf
<1> QED BY <1>5 DEF run, W

LEMMA UnreadStep ==
  TypeOK /\ TypeOK' /\ WireNamesMessages /\ UnreadIsReal /\ [Next]_vars
    => UnreadIsReal'
<1> SUFFICES ASSUME TypeOK, TypeOK', WireNamesMessages, UnreadIsReal, [Next]_vars
             PROVE  UnreadIsReal'
  OBVIOUS
<1> USE DEF macVars, linkVars, chatVars, scanVars, sweepVars, diskVars
<1>0. MacGrows
  BY MacStep
<1>00. \A c \in Chats : /\ ElementsOf(unreadTs[c]) \subseteq InboundTs(c)
                        /\ ElementsOf(runs[c]) \subseteq InboundTs(c)
  BY DEF UnreadIsReal
<1>000. ElementsOf(<<>>) = {} /\ \A c \in Chats : NoRuns[c] = <<>>
  BY DEF ElementsOf, NoRuns
<1>1. ASSUME UNCHANGED <<unreadTs, runs>> PROVE UnreadIsReal'
  BY <1>0, <1>00, <1>1, UnreadKept
<1>2. CASE HandleMessage
  <2> DEFINE e == Head(wire)
             m == mac[e.chat][e.guid]
             s == Newest(Append(unreadTs[e.chat], m.ts), ScanLimit)
  <2>1. /\ e.chat \in Chats
        /\ m \in Messages
        /\ ~m.fromMe => m.ts \in InboundTs(e.chat)
    BY <1>2, HeadIsFiled DEF HandleMessage
  <2>2. unreadTs' = [unreadTs EXCEPT ![e.chat] = IF m.fromMe THEN unreadTs[e.chat] ELSE s]
        /\ UNCHANGED runs
    BY <1>2 DEF HandleMessage, UpsertFromMessage
  <2>3. unreadTs[e.chat] \in Seq(Nat) /\ m.ts \in Nat /\ ScanLimit \in Nat
    BY <2>1, ScanLimitAssumption DEF Messages, TypeOK
  <2>4. ElementsOf(s) \subseteq ElementsOf(unreadTs[e.chat]) \cup {m.ts}
    <3> DEFINE t == Append(unreadTs[e.chat], m.ts)
    <3>1. t \in Seq(Nat) /\ ElementsOf(t) \subseteq ElementsOf(unreadTs[e.chat]) \cup {m.ts}
      BY <2>3, AppendElements
    <3> HIDE DEF t
    <3>2. ElementsOf(Newest(t, ScanLimit)) \subseteq ElementsOf(t)
      BY <2>3, <3>1, NewestIsASuffix
    <3> QED BY <3>1, <3>2 DEF t
  <2> HIDE DEF e, m, s
  <2>5. ~m.fromMe => ElementsOf(s) \subseteq InboundTs(e.chat)
    BY <1>00, <2>1, <2>4
  <2>6. \A c \in Chats : ElementsOf(unreadTs'[c]) \subseteq InboundTs(c)
    BY <1>00, <2>1, <2>2, <2>5 DEF TypeOK
  <2> QED BY <1>0, <1>00, <2>2, <2>6, UnreadKept
<1>3. ASSUME NEW c \in Chats, MarkRead(c), UNCHANGED runs
      PROVE  UnreadIsReal'
  <2>1. unreadTs' = [unreadTs EXCEPT ![c] = <<>>] \/ UNCHANGED unreadTs
    BY <1>3 DEF MarkRead
  <2>2. \A d \in Chats : ElementsOf(unreadTs'[d]) \subseteq InboundTs(d)
    BY <1>00, <1>000, <2>1 DEF TypeOK
  <2> QED BY <1>0, <1>00, <1>3, <2>2, UnreadKept
<1>4. ASSUME NEW chats, AttachSeed(chats)
      PROVE  UnreadIsReal'
  <2>1. \A c \in Chats : unreadTs'[c] = unreadTs[c] \/ unreadTs'[c] = runs[c]
    BY <1>4 DEF AttachSeed, Seeded
  <2>2. \A c \in Chats : runs'[c] = <<>>
    BY <1>000, <1>4 DEF AttachSeed
  <2> QED BY <1>0, <1>00, <1>000, <2>1, <2>2, UnreadKept
<1>5. ASSUME NEW r \in Requests, SweepLand(r)
      PROVE  UnreadIsReal'
  <2>1. CASE seedHeld
    BY <1>4, <1>5, <2>1 DEF SweepLand, ReplaceChats
  <2>2. CASE ~seedHeld
    BY <1>1, <1>5, <2>2 DEF SweepLand, ReplaceChats
  <2> QED BY <2>1, <2>2
<1>6. ASSUME NEW c \in Chats, ScanRead(c)
      PROVE  UnreadIsReal'
  <2>1. /\ runs' = [runs EXCEPT ![c] = UnreadRun(Window(mac[c]), scanSeen[c])]
        /\ UNCHANGED unreadTs
    BY <1>6 DEF ScanRead
  <2>2. \A d \in Chats : ElementsOf(runs'[d]) \subseteq InboundTs(d)
    BY <1>00, <2>1, ScanReadIsInbound DEF TypeOK
  <2> QED BY <1>0, <1>00, <2>1, <2>2, UnreadKept
<1>7. CASE ScanLand
  <2>1. CASE known # {}
    BY <1>4, <1>7, <2>1 DEF ScanLand
  <2>2. CASE known = {}
    BY <1>1, <1>7, <2>2 DEF ScanLand
  <2> QED BY <2>1, <2>2
<1>8. CASE ScanFail
  <2>1. runs' = NoRuns /\ UNCHANGED unreadTs
    BY <1>8 DEF ScanFail
  <2> QED BY <1>0, <1>00, <1>000, <2>1, UnreadKept
<1>9. CASE Gone
  <2>1. runs' = NoRuns /\ unreadTs' = NoRuns
    BY <1>9 DEF Gone
  <2> QED BY <1>0, <1>000, <2>1, UnreadKept
<1> QED
  <2>1. ASSUME NEW c \in Chats,
               \/ \E fromMe \in BOOLEAN, tick \in Ticks : MacMessage(c, fromMe, tick)
               \/ \E stamps, moves \in BOOLEAN : MacRead(c, stamps, moves)
        PROVE  UnreadIsReal'
    BY <1>1, <2>1 DEF MacMessage, MacRead
  <2>2. CASE Connect \/ Disconnect
    BY <1>1, <2>2 DEF Connect, Disconnect
  <2>3. CASE HandleChatRead
    <3>1. Head(wire).chat \in Chats
      BY <2>3, HeadOfWire DEF HandleChatRead
    <3> QED BY <1>3, <2>3, <3>1 DEF HandleChatRead
  <2>4. ASSUME NEW c \in Chats, ClientRead(c)
        PROVE  UnreadIsReal'
    BY <1>3, <2>4 DEF ClientRead
  <2>5. ASSUME NEW r \in Requests,
               (\E listed \in Listings : SweepAnswer(r, listed)) \/ SweepFail(r)
        PROVE  UnreadIsReal'
    BY <1>1, <2>5 DEF SweepAnswer, SweepFail
  <2>6. CASE (\E listed \in Listings : ScanList(listed)) \/ CacheFlush \/ Start
    BY <1>1, <2>6 DEF ScanList, CacheFlush, Start
  <2>7. CASE Crash \/ Shutdown
    BY <1>9, <2>7 DEF Crash, Shutdown
  <2>8. CASE UNCHANGED vars
    BY <1>1, <2>8 DEF vars
  <2> QED BY <1>2, <1>5, <1>6, <1>7, <1>8, <2>1, <2>2, <2>3, <2>4, <2>5, <2>6, <2>7,
             <2>8 DEF Next

-----------------------------------------------------------------------------
(* The read boundary, in memory and in read-state.json *)

(* Everything a `read` may put the boundary at is a message of the chat,   *)
(* and the file either takes the whole map or stays as it was.             *)
LEMMA MarkReadMoves ==
  ASSUME TypeOK, ListIsReal, UnreadIsReal, NEW c \in Chats, MarkRead(c)
  PROVE  /\ \A d \in Chats : \/ opened'[d] = opened[d]
                             \/ opened'[d] > opened[d] /\ opened'[d] \in TsOf(d)
         /\ openedFile' = opened' \/ UNCHANGED openedFile
<1>1. ElementsOf(unreadTs[c]) \subseteq TsOf(c)
  BY DEF UnreadIsReal, InboundTs, TsOf
<1>2. Shown(c) \subseteq TsOf(c) \cup {0}
  BY <1>1 DEF Shown, ListIsReal
<1>3. PICK through \in Shown(c) :
        IF c \in known /\ through > opened[c]
          THEN opened' = [opened EXCEPT ![c] = through] /\ WriteOpened
          ELSE UNCHANGED <<opened, openedFile>>
  BY DEF MarkRead
<1>4. CASE c \in known /\ through > opened[c]
  <2>1. through \in TsOf(c)
    BY <1>2, <1>3, <1>4 DEF TypeOK
  <2>2. opened' = [opened EXCEPT ![c] = through] /\ WriteOpened
    BY <1>3, <1>4
  <2>3. openedFile' = opened' \/ UNCHANGED openedFile
    BY <2>2 DEF WriteOpened
  <2> QED BY <1>4, <2>1, <2>2, <2>3 DEF TypeOK
<1>5. CASE ~(c \in known /\ through > opened[c])
  BY <1>3, <1>5
<1> QED BY <1>4, <1>5

(* The four ways a step treats the boundary. *)
LEMMA BoundaryMoves ==
  ASSUME TypeOK, [Next]_vars
  PROVE  \/ UNCHANGED <<opened, openedFile>> /\ up' = up
         \/ opened' = NoTs /\ ~up' /\ UNCHANGED openedFile
         \/ ~up /\ opened' = openedFile /\ UNCHANGED openedFile
         \/ \E c \in Chats : up /\ MarkRead(c) /\ UNCHANGED mac
<1> USE DEF macVars, linkVars, chatVars, diskVars
<1>1. CASE HandleChatRead
  <2>1. Head(wire).chat \in Chats
    BY <1>1, HeadOfWire DEF HandleChatRead
  <2> QED BY <1>1, <2>1 DEF HandleChatRead
<1>2. ASSUME NEW c \in Chats,
             \/ \E fromMe \in BOOLEAN, tick \in Ticks : MacMessage(c, fromMe, tick)
             \/ \E stamps, moves \in BOOLEAN : MacRead(c, stamps, moves)
             \/ ScanRead(c)
      PROVE  UNCHANGED <<opened, openedFile>> /\ up' = up
  BY <1>2 DEF MacMessage, MacRead, ScanRead
<1>3. ASSUME NEW c \in Chats, ClientRead(c)
      PROVE  up /\ MarkRead(c) /\ UNCHANGED mac
  BY <1>3 DEF ClientRead
<1>4. CASE Connect \/ Disconnect \/ HandleMessage
  BY <1>4 DEF Connect, Disconnect, HandleMessage
<1>5. ASSUME NEW r \in Requests,
             \/ \E listed \in Listings : SweepAnswer(r, listed)
             \/ SweepLand(r) \/ SweepFail(r)
      PROVE  UNCHANGED <<opened, openedFile>> /\ up' = up
  BY <1>5 DEF SweepAnswer, SweepLand, SweepFail
<1>6. CASE (\E listed \in Listings : ScanList(listed)) \/ ScanLand \/ ScanFail \/ CacheFlush
  BY <1>6 DEF ScanList, ScanLand, ScanFail, CacheFlush
<1>7. CASE Crash \/ Shutdown
  BY <1>7 DEF Crash, Shutdown, Gone
<1>8. CASE Start
  BY <1>8 DEF Start
<1>9. CASE UNCHANGED vars
  BY <1>9 DEF vars
<1> QED BY <1>1, <1>2, <1>3, <1>4, <1>5, <1>6, <1>7, <1>8, <1>9 DEF Next

LEMMA BoundaryStep ==
  ASSUME TypeOK, TypeOK', ListIsReal, UnreadIsReal, BoundaryIsReal, FileNotAhead,
         [Next]_vars
  PROVE  BoundaryIsReal' /\ FileNotAhead'
<1>1. \A c \in Chats : TsOf(c) \subseteq TsOf(c)'
  BY MacStep, TimestampsStay
<1>2. CASE UNCHANGED <<opened, openedFile>> /\ up' = up
  BY <1>1, <1>2 DEF BoundaryIsReal, FileNotAhead
<1>3. CASE opened' = NoTs /\ ~up' /\ UNCHANGED openedFile
  BY <1>1, <1>3 DEF BoundaryIsReal, FileNotAhead, NoTs
<1>4. CASE opened' = openedFile /\ UNCHANGED openedFile
  BY <1>1, <1>4 DEF BoundaryIsReal, FileNotAhead, TypeOK
<1>5. ASSUME NEW c \in Chats, up, MarkRead(c)
      PROVE  BoundaryIsReal' /\ FileNotAhead'
  <2>1. /\ \A d \in Chats : \/ opened'[d] = opened[d]
                            \/ opened'[d] > opened[d] /\ opened'[d] \in TsOf(d)
        /\ openedFile' = opened' \/ UNCHANGED openedFile
    BY <1>5, MarkReadMoves
  <2>2. \A d \in Chats : opened'[d] \in TsOf(d) \cup {0}
    BY <2>1 DEF BoundaryIsReal
  <2>3. BoundaryIsReal'
    BY <1>1, <2>1, <2>2 DEF BoundaryIsReal
  <2>4. \A d \in Chats : openedFile'[d] <= opened'[d]
    <3>1. ASSUME NEW d \in Chats
          PROVE  /\ opened[d] \in Nat /\ opened'[d] \in Nat /\ openedFile[d] \in Nat
                 /\ openedFile[d] <= opened[d] /\ opened[d] <= opened'[d]
      <4>1. opened[d] \in Nat /\ opened'[d] \in Nat /\ openedFile[d] \in Nat
        BY DEF TypeOK
      <4>2. openedFile[d] <= opened[d]
        BY <1>5 DEF FileNotAhead
      <4> QED BY <2>1, <4>1, <4>2
    <3>2. CASE openedFile' = opened'
      BY <3>1, <3>2
    <3> QED BY <2>1, <3>1, <3>2
  <2> QED BY <2>3, <2>4 DEF FileNotAhead
<1> QED BY <1>2, <1>3, <1>4, <1>5, BoundaryMoves

-----------------------------------------------------------------------------
(* The theorems *)

LEMMA InitStoreInvariant == Init => StoreInvariant
<1> SUFFICES ASSUME Init PROVE StoreInvariant
  OBVIOUS
<1>1. TypeOK
  BY InitTypeOK
<1>2. wire = <<>> /\ \A c \in Chats : unreadTs[c] = <<>> /\ runs[c] = <<>>
  BY DEF Init, NoRuns
<1>3. WireNamesMessages /\ UnreadIsReal
  BY <1>2 DEF WireNamesMessages, UnreadIsReal, ElementsOf
<1>4. ListIsReal /\ BoundaryIsReal /\ FileNotAhead
  BY DEF Init, NoTs, ListIsReal, BoundaryIsReal, FileNotAhead
<1> QED BY <1>1, <1>3, <1>4 DEF StoreInvariant

LEMMA StoreInvariantStep == StoreInvariant /\ [Next]_vars => StoreInvariant'
<1> SUFFICES ASSUME StoreInvariant, [Next]_vars PROVE StoreInvariant'
  OBVIOUS
<1> USE DEF StoreInvariant
<1>1. TypeOK'
  BY TypeOKStep
<1> QED BY <1>1, WireStep, ListStep, UnreadStep, BoundaryStep

(* Every timestamp the daemon holds, lists, counts or writes to disk names *)
(* a message of that chat, for any number of chats, messages, sweeps in    *)
(* flight, restarts, lost links and failed writes (store.js, readstate.js).*)
THEOREM StoreInvariantHolds == Spec => []StoreInvariant
BY InitStoreInvariant, StoreInvariantStep, PTL DEF Spec

(* The state of store.js keeps its types and every run stays within the    *)
(* scan's window (store.js:184-187).                                       *)
THEOREM TypeCorrect == Spec => []TypeOK
<1>1. StoreInvariant => TypeOK
  BY DEF StoreInvariant
<1> QED BY <1>1, StoreInvariantHolds, PTL

(* No own message and no message of another chat is ever counted, whoever  *)
(* put the run there: a push, the scan or a held seed (store.js:175-206).  *)
THEOREM UnreadAlwaysReal == Spec => []UnreadIsReal
<1>1. StoreInvariant => UnreadIsReal
  BY DEF StoreInvariant
<1> QED BY <1>1, StoreInvariantHolds, PTL

(* The boundary of markRead is a message's timestamp, never the clock's,   *)
(* in memory and in read-state.json (store.js:211-222, readstate.js).      *)
THEOREM BoundaryAlwaysReal == Spec => []BoundaryIsReal
<1>1. StoreInvariant => BoundaryIsReal
  BY DEF StoreInvariant
<1> QED BY <1>1, StoreInvariantHolds, PTL

(* read-state.json implements ReadLedger: whatever crashes, lost pushes,   *)
(* failed writes or sweeps happen, what it holds only moves forward, and   *)
(* only onto messages (readstate.js:21-29).                                *)
THEOREM StoreImplementsLedger == Spec => ImplementsLedger
<1> DEFINE f == [c \in Chats |-> TsOf(c)]
<1>1. Init => Ledger!Init
  BY DEF Init, Ledger!Init, NoRuns, NoTs, TsOf
<1>2. ASSUME StoreInvariant, StoreInvariant', [Next]_vars
      PROVE  Ledger!Next \/ UNCHANGED <<f, openedFile>>
  <2> USE DEF StoreInvariant
  <2>1. \A c \in Chats : TsOf(c) \subseteq TsOf(c)' /\ TsOf(c)' \subseteq Nat
    <3>1. \A c \in Chats : TsOf(c) \subseteq TsOf(c)'
      BY <1>2, MacStep, TimestampsStay
    <3>2. TypeOK'
      BY <1>2
    <3>3. \A c \in Chats : mac'[c] \in Seq(Messages)
      BY <3>2 DEF TypeOK
    <3>4. \A c \in Chats : \A i \in 1..Len(mac'[c]) : mac'[c][i].ts \in Nat
      <4>1. ASSUME NEW s \in Seq(Messages), NEW i \in 1..Len(s)
            PROVE  s[i].ts \in Nat
        <5>1. s[i] \in Messages
          OBVIOUS
        <5> QED BY <5>1 DEF Messages
      <4> QED BY <3>3, <4>1
    <3> QED BY <3>1, <3>4 DEF TsOf
  <2>2. CASE UNCHANGED openedFile
    <3>1. f' = [c \in Chats |-> TsOf(c)']
      OBVIOUS
    <3>2. Ledger!File
      BY <2>1, <2>2, <3>1 DEF Ledger!File
    <3> QED BY <3>2 DEF Ledger!Next
  <2>3. ASSUME NEW c \in Chats, up, MarkRead(c), UNCHANGED mac
        PROVE  Ledger!Next \/ UNCHANGED <<f, openedFile>>
    <3>1. /\ \A d \in Chats : \/ opened'[d] = opened[d]
                              \/ opened'[d] > opened[d] /\ opened'[d] \in TsOf(d)
          /\ openedFile' = opened' \/ UNCHANGED openedFile
      BY <1>2, <2>3, MarkReadMoves
    <3>2. UNCHANGED f
      BY <2>3 DEF TsOf
    <3>3. ASSUME openedFile' = opened', NEW d \in Chats
          PROVE  \/ openedFile'[d] = openedFile[d]
                 \/ openedFile'[d] > openedFile[d] /\ openedFile'[d] \in TsOf(d)
      <4>1. openedFile[d] <= opened[d] /\ openedFile[d] \in Nat /\ opened[d] \in Nat
        BY <1>2, <2>3 DEF FileNotAhead, TypeOK
      <4>2. opened[d] \in TsOf(d) \cup {0}
        BY <1>2 DEF BoundaryIsReal
      <4>3. opened'[d] \in Nat
        BY <1>2 DEF TypeOK
      <4> QED BY <3>1, <3>3, <4>1, <4>2, <4>3
    <3>4. openedFile' \in [Chats -> Nat]
      BY <1>2 DEF TypeOK
    <3>5. CASE openedFile' = opened'
      <4>1. Ledger!Advance
        BY <3>2, <3>3, <3>4, <3>5 DEF Ledger!Advance
      <4> QED BY <4>1 DEF Ledger!Next
    <3> QED BY <2>2, <3>1, <3>5
  <2> QED BY <1>2, <2>2, <2>3, BoundaryMoves
<1> QED
  BY <1>1, <1>2, StoreInvariantHolds, PTL DEF Spec, ImplementsLedger, Ledger!Spec

-----------------------------------------------------------------------------
(* The list, its files and the seed *)

(* The steps that touch the list, the boundary or a file. *)
LEMMA StepKinds ==
  ASSUME [Next]_vars
  PROVE  \/ UNCHANGED <<up, chatVars, diskVars>>
         \/ HandleMessage \/ HandleChatRead \/ \E c \in Chats : ClientRead(c)
         \/ \E r \in Requests : SweepLand(r)
         \/ ScanLand \/ CacheFlush \/ Crash \/ Shutdown \/ Start
<1>1. CASE UNCHANGED vars
  BY <1>1 DEF vars
<1>2. ASSUME NEW c \in Chats, NEW fromMe \in BOOLEAN, NEW tick \in Ticks, MacMessage(c, fromMe, tick)
      PROVE  UNCHANGED <<up, chatVars, diskVars>>
  BY <1>2 DEF MacMessage
<1>3. ASSUME NEW c \in Chats, NEW stamps \in BOOLEAN, NEW moves \in BOOLEAN, MacRead(c, stamps, moves)
      PROVE  UNCHANGED <<up, chatVars, diskVars>>
  BY <1>3 DEF MacRead
<1>4. ASSUME NEW c \in Chats, ScanRead(c) PROVE UNCHANGED <<up, chatVars, diskVars>>
  BY <1>4 DEF ScanRead
<1>5. ASSUME Connect \/ Disconnect \/ ScanFail PROVE UNCHANGED <<up, chatVars, diskVars>>
  BY <1>5 DEF Connect, Disconnect, ScanFail
<1>6. ASSUME NEW listed \in Listings, ScanList(listed) PROVE UNCHANGED <<up, chatVars, diskVars>>
  BY <1>6 DEF ScanList
<1>7. ASSUME NEW r \in Requests, NEW listed \in Listings, SweepAnswer(r, listed)
      PROVE  UNCHANGED <<up, chatVars, diskVars>>
  BY <1>7 DEF SweepAnswer
<1>8. ASSUME NEW r \in Requests, SweepFail(r) PROVE UNCHANGED <<up, chatVars, diskVars>>
  BY <1>8 DEF SweepFail
<1> QED BY <1>1, <1>2, <1>3, <1>4, <1>5, <1>6, <1>7, <1>8 DEF Next

LEMMA MarkReadDrops ==
  ASSUME NEW c \in Chats, TypeOK, MarkRead(c)
  PROVE  /\ \A d \in Chats : unreadTs'[d] \in {unreadTs[d], <<>>}
         /\ (~DiskFails /\ opened = openedFile) => opened' = openedFile'
<1>1. PICK through \in Shown(c) :
        IF c \in known /\ through > opened[c]
          THEN /\ opened' = [opened EXCEPT ![c] = through]
               /\ WriteOpened
               /\ unreadTs' = [unreadTs EXCEPT ![c] = <<>>]
               /\ dirty' = TRUE
          ELSE UNCHANGED <<opened, openedFile, faults, unreadTs, dirty>>
  BY DEF MarkRead
<1>2. CASE c \in known /\ through > opened[c]
  <2>1. unreadTs' = [unreadTs EXCEPT ![c] = <<>>] /\ WriteOpened
    BY <1>1, <1>2
  <2>2. unreadTs \in [Chats -> Seq(Nat)]
    BY DEF TypeOK
  <2> QED BY <2>1, <2>2 DEF WriteOpened
<1>3. CASE ~(c \in known /\ through > opened[c])
  BY <1>1, <1>3
<1> QED BY <1>2, <1>3

(* What is held where: nothing by a daemon that is down, runs and swept    *)
(* lists in the map only, and a seed only before a list.                   *)
DownIsEmpty  == ~up => ~seedHeld /\ ~swept /\ known = {} /\ last = NoTs /\ unreadTs = NoRuns
RunsAreKnown == \A c \in Chats : unreadTs[c] # <<>> => c \in known
SweptIsKnown == swept => known # {}

ListHeld ==
  /\ DownIsEmpty /\ RunsAreKnown
  /\ Chats # {} => SweptIsKnown /\ SeedIsNeverStranded

LEMMA InitListHeld == Init => ListHeld
BY DEF Init, ListHeld, DownIsEmpty, RunsAreKnown, SweptIsKnown, SeedIsNeverStranded, NoRuns

LEMMA StepListHeld ==
  ASSUME StoreInvariant, ListHeld, [Next]_vars
  PROVE  ListHeld'
<1> USE DEF DownIsEmpty, RunsAreKnown, SweptIsKnown, SeedIsNeverStranded
<1>t. TypeOK /\ unreadTs \in [Chats -> Seq(Nat)] /\ known \subseteq Chats
  BY DEF StoreInvariant, TypeOK
<1>h. DownIsEmpty /\ RunsAreKnown /\ (Chats # {} => SweptIsKnown /\ SeedIsNeverStranded)
  BY DEF ListHeld
<1>1. CASE UNCHANGED <<up, chatVars, diskVars>>
  BY <1>1, <1>h DEF chatVars, ListHeld
<1>2. CASE HandleMessage
  <2>1. PICK c \in Chats : /\ up /\ UNCHANGED <<up, swept, seedHeld>>
                           /\ known' = known \cup {c}
                           /\ \E s : unreadTs' = [unreadTs EXCEPT ![c] = s]
    BY <1>2, <1>t, HeadOfWire DEF HandleMessage, UpsertFromMessage
  <2>2. \A d \in Chats : d # c => unreadTs'[d] = unreadTs[d]
    BY <2>1, <1>t
  <2> QED BY <2>1, <2>2, <1>h DEF ListHeld
<1>3. ASSUME NEW c \in Chats, MarkRead(c), up, UNCHANGED <<up, known, last, swept, seedHeld>>
      PROVE  ListHeld'
  BY <1>3, <1>h, <1>t, MarkReadDrops DEF ListHeld
<1>4. CASE HandleChatRead
  BY <1>4, <1>3, <1>t, HeadOfWire DEF HandleChatRead
<1>5. ASSUME NEW c \in Chats, ClientRead(c) PROVE ListHeld'
  BY <1>5, <1>3 DEF ClientRead
<1>6. ASSUME NEW r \in Requests, SweepLand(r) PROVE ListHeld'
  <2>1. up /\ up' = up /\ known' = Chats /\ ~seedHeld'
    BY <1>6, <1>t DEF SweepLand, ReplaceChats, AttachSeed, TypeOK
  <2> QED BY <2>1 DEF ListHeld
<1>7. CASE ScanLand
  <2>1. up /\ UNCHANGED <<up, known, last, swept>>
    BY <1>7 DEF ScanLand
  <2>2. CASE known # {}
    <3>1. unreadTs' = Seeded(known, runs) /\ ~seedHeld'
      BY <1>7, <2>2 DEF ScanLand, AttachSeed
    <3> QED BY <2>1, <3>1, <1>h DEF ListHeld, Seeded
  <2>3. CASE known = {}
    <3>1. unreadTs' = unreadTs
      BY <1>7, <2>3 DEF ScanLand
    <3> QED BY <2>1, <2>3, <3>1, <1>h DEF ListHeld
  <2> QED BY <2>2, <2>3
<1>8. CASE CacheFlush
  BY <1>8, <1>h DEF CacheFlush, ListHeld
<1>9. ASSUME Gone PROVE ListHeld'
  BY <1>9 DEF Gone, ListHeld, NoRuns
<1>10. CASE Start
  <2>1. /\ ~up /\ up' /\ swept' = (known' # {})
        /\ UNCHANGED <<unreadTs, seedHeld>>
    BY <1>10 DEF Start
  <2> QED BY <2>1, <1>h DEF ListHeld, NoRuns
<1> QED BY <1>1, <1>2, <1>4, <1>5, <1>6, <1>7, <1>8, <1>9, <1>10, StepKinds DEF Crash, Shutdown

LEMMA ListAlwaysHeld == Spec => [](StoreInvariant /\ ListHeld)
BY InitStoreInvariant, StoreInvariantStep, InitListHeld, StepListHeld, PTL DEF Spec

(* For an account with chats: a daemon that serves a full list holds no    *)
(* answer of the scan back, in whichever order scan, sweeps, pushes and    *)
(* restarts come (store.js:120-134, 190-206).                              *)
THEOREM SeedNeverStranded ==
  ASSUME Chats # {}
  PROVE  Spec => []SeedIsNeverStranded
<1>1. ListHeld => SeedIsNeverStranded
  BY DEF ListHeld
<1> QED BY <1>1, ListAlwaysHeld, PTL

(* With a disk that works no crash, at whatever instant, makes read-state  *)
(* fall behind what the badge is counted from (readstate.js:21-29).        *)
THEOREM BoundaryAlwaysOnDisk == Spec => []BoundaryIsOnDisk
<1>1. Init => BoundaryIsOnDisk
  BY DEF Init, BoundaryIsOnDisk
<1>2. ASSUME StoreInvariant, BoundaryIsOnDisk, [Next]_vars PROVE BoundaryIsOnDisk'
  <2> USE DEF BoundaryIsOnDisk
  <2>t. TypeOK
    BY <1>2 DEF StoreInvariant
  <2>1. CASE UNCHANGED <<up, chatVars, diskVars>>
    BY <1>2, <2>1 DEF chatVars, diskVars
  <2>2. ASSUME NEW c \in Chats, up, MarkRead(c) PROVE BoundaryIsOnDisk'
    BY <1>2, <2>2, <2>t, MarkReadDrops
  <2>3. CASE HandleChatRead
    BY <2>2, <2>3, <2>t, HeadOfWire DEF HandleChatRead
  <2>4. ASSUME NEW c \in Chats, ClientRead(c) PROVE BoundaryIsOnDisk'
    BY <2>2, <2>4 DEF ClientRead
  <2>5. CASE HandleMessage \/ ScanLand \/ \E r \in Requests : SweepLand(r)
    BY <1>2, <2>5 DEF HandleMessage, ScanLand, SweepLand, diskVars
  <2>6. CASE CacheFlush
    BY <1>2, <2>6 DEF CacheFlush
  <2>7. CASE Crash \/ Shutdown
    BY <2>7 DEF Crash, Shutdown, Gone
  <2>8. CASE Start
    BY <2>8 DEF Start, diskVars
  <2> QED BY <1>2, <2>1, <2>3, <2>4, <2>5, <2>6, <2>7, <2>8, StepKinds
<1> QED BY <1>1, <1>2, StoreInvariantHolds, PTL DEF Spec

(* Every change of the list arms the write that a shutdown flushes, so a   *)
(* list with no write pending is the one on disk (store.js, cache.js:20).  *)
THEOREM CacheAlwaysCurrent == Spec => []CacheIsCurrent
<1>1. Init => CacheIsCurrent
  BY DEF Init, CacheIsCurrent
<1>2. ASSUME StoreInvariant, CacheIsCurrent, [Next]_vars PROVE CacheIsCurrent'
  <2> USE DEF CacheIsCurrent
  <2>t. TypeOK
    BY <1>2 DEF StoreInvariant
  <2>1. CASE UNCHANGED <<up, chatVars, diskVars>>
    BY <1>2, <2>1 DEF chatVars, diskVars
  <2>2. ASSUME NEW c \in Chats, up, MarkRead(c), UNCHANGED <<up, known, last, cacheFile>>
        PROVE  CacheIsCurrent'
    BY <1>2, <2>2 DEF MarkRead
  <2>3. CASE HandleChatRead
    BY <2>2, <2>3, <2>t, HeadOfWire DEF HandleChatRead
  <2>4. ASSUME NEW c \in Chats, ClientRead(c) PROVE CacheIsCurrent'
    BY <2>2, <2>4 DEF ClientRead
  <2>5. CASE HandleMessage \/ \E r \in Requests : SweepLand(r)
    BY <2>5 DEF HandleMessage, UpsertFromMessage, SweepLand, ReplaceChats
  <2>6. CASE ScanLand
    BY <1>2, <2>6 DEF ScanLand, diskVars
  <2>7. CASE CacheFlush
    BY <2>7 DEF CacheFlush, CacheWrite
  <2>8. CASE Crash \/ Shutdown
    BY <2>8 DEF Crash, Shutdown, Gone
  <2>9. CASE Start
    <3>1. cacheFile = [known |-> cacheFile.known, last |-> cacheFile.last]
      BY <2>t DEF TypeOK
    <3> QED BY <2>9, <3>1 DEF Start, diskVars
  <2> QED BY <1>2, <2>1, <2>3, <2>4, <2>5, <2>6, <2>7, <2>8, <2>9, StepKinds
<1> QED BY <1>1, <1>2, StoreInvariantHolds, PTL DEF Spec

-----------------------------------------------------------------------------
(* What a step does *)

(* Whoever reads a chat, its badge is empty in the same turn, whatever run *)
(* was held for it (store.js:208-222).                                     *)
THEOREM ReadingAlwaysClears == Spec => ReadClears
<1>1. ASSUME StoreInvariant, RunsAreKnown, NEW c \in Chats, MarkRead(c)
      PROVE  Unread(c)' = 0
  <2>t. /\ opened \in [Chats -> Nat] /\ unreadTs \in [Chats -> Seq(Nat)]
        /\ last \in [Chats -> Nat]
    BY <1>1 DEF StoreInvariant, TypeOK
  <2>1. PICK through \in Shown(c) :
          /\ \A ts \in Shown(c) : ts <= through
          /\ IF c \in known /\ through > opened[c]
               THEN /\ opened' = [opened EXCEPT ![c] = through]
                    /\ WriteOpened
                    /\ unreadTs' = [unreadTs EXCEPT ![c] = <<>>]
                    /\ dirty' = TRUE
               ELSE UNCHANGED <<opened, openedFile, faults, unreadTs, dirty>>
    BY <1>1 DEF MarkRead
  <2>2. ElementsOf(unreadTs[c]) \subseteq Nat
    BY <2>t, ElementsAreNaturals
  <2>3. through \in Nat
    BY <2>t, <2>2 DEF Shown
  <2> DEFINE Counted == {i \in 1..Len(unreadTs'[c]) : unreadTs'[c][i] > opened'[c]}
  <2> SUFFICES Counted = {}
    BY FS_EmptySet DEF Unread
  <2>4. CASE c \in known /\ through > opened[c]
    <3>1. unreadTs'[c] = <<>>
      BY <2>1, <2>4, <2>t
    <3> QED BY <3>1
  <2>5. CASE c \notin known
    <3>1. unreadTs'[c] = <<>>
      BY <1>1, <2>1, <2>5 DEF RunsAreKnown
    <3> QED BY <3>1
  <2>6. CASE c \in known /\ ~(through > opened[c])
    <3>1. unreadTs' = unreadTs /\ opened' = opened
      BY <2>1, <2>6
    <3>2. ASSUME NEW i \in 1..Len(unreadTs[c]) PROVE ~(unreadTs[c][i] > opened[c])
      <4>1. unreadTs[c][i] \in Nat /\ unreadTs[c][i] <= through
        BY <2>1, <2>2 DEF Shown, ElementsOf
      <4>2. opened[c] \in Nat /\ through <= opened[c]
        BY <2>3, <2>6, <2>t
      <4> QED BY <2>3, <4>1, <4>2
    <3> QED BY <3>1, <3>2
  <2> QED BY <2>4, <2>5, <2>6
<1>2. ASSUME StoreInvariant, ListHeld, NEW c \in Chats,
             ClientRead(c) \/ (HandleChatRead /\ Head(wire).chat = c)
      PROVE  Unread(c)' = 0
  <2>1. MarkRead(c)
    BY <1>2 DEF ClientRead, HandleChatRead
  <2> QED BY <1>1, <1>2, <2>1 DEF ListHeld
<1>3. StoreInvariant /\ ListHeld /\ [Next]_vars =>
        [\A c \in Chats : ClientRead(c) \/ (HandleChatRead /\ Head(wire).chat = c)
                            => Unread(c)' = 0]_vars
  BY <1>2
<1> QED BY <1>3, ListAlwaysHeld, PTL DEF Spec, ReadClears

(* No sweep blanks a preview, whatever its answer omits (store.js:116-129, *)
(* docs/daemon-protocol.md).                                               *)
THEOREM PreviewsAlwaysStick == Spec => PreviewIsSticky
<1>1. ASSUME StoreInvariant, ListHeld, [Next]_vars, NEW c \in Chats, up', last[c] # 0
      PROVE  last'[c] # 0
  <2>t. TypeOK /\ WireNamesMessages /\ last \in [Chats -> Nat]
    BY <1>1 DEF StoreInvariant, TypeOK
  <2>1. CASE last' = last
    BY <1>1, <2>1
  <2>2. CASE HandleMessage
    <3> DEFINE e == Head(wire)
               m == mac[e.chat][e.guid]
    <3>1. last' = [last EXCEPT ![e.chat] = m.ts]
      BY <2>2 DEF HandleMessage, UpsertFromMessage
    <3>2. m \in Messages
      BY <2>2, <2>t, HeadIsFiled DEF HandleMessage
    <3>3. m.ts # 0
      BY <3>2 DEF Messages
    <3> HIDE DEF m, e
    <3> QED BY <1>1, <2>t, <3>1, <3>3
  <2>3. CASE \E r \in Requests : SweepLand(r)
    BY <1>1, <2>3 DEF SweepLand, ReplaceChats, Previews
  <2>4. CASE Start
    BY <1>1, <2>4 DEF Start, ListHeld, DownIsEmpty, NoTs
  <2>5. CASE Crash \/ Shutdown
    BY <1>1, <2>5 DEF Crash, Shutdown, Gone
  <2> QED BY <1>1, <2>1, <2>2, <2>3, <2>4, <2>5, StepKinds
             DEF chatVars, HandleChatRead, ClientRead, ScanLand, CacheFlush
<1>2. StoreInvariant /\ ListHeld /\ [Next]_vars =>
        [\A c \in Chats : up' /\ last[c] # 0 => last'[c] # 0]_vars
  BY <1>1
<1> QED BY <1>2, ListAlwaysHeld, PTL DEF Spec, PreviewIsSticky

-----------------------------------------------------------------------------
(* What lowers a count *)

Counted(s, boundary) == {i \in 1..Len(s) : s[i] > boundary}

LEMMA CountedIsFinite ==
  ASSUME NEW s \in Seq(Nat), NEW boundary
  PROVE  IsFiniteSet(Counted(s, boundary)) /\ Cardinality(Counted(s, boundary)) \in Nat
<1>1. IsFiniteSet(1..Len(s))
  BY FS_Interval
<1>2. IsFiniteSet(Counted(s, boundary))
  BY <1>1, FS_Subset DEF Counted
<1> QED BY <1>2, FS_CardinalityType

(* A push below the cap adds to the count or leaves it. *)
LEMMA AppendCounts ==
  ASSUME NEW s \in Seq(Nat), NEW ts \in Nat, NEW boundary \in Nat
  PROVE  Cardinality(Counted(s, boundary)) <= Cardinality(Counted(Append(s, ts), boundary))
<1>1. Append(s, ts) \in Seq(Nat)
  OBVIOUS
<1>2. Counted(s, boundary) \subseteq Counted(Append(s, ts), boundary)
  BY DEF Counted
<1> QED BY <1>1, <1>2, CountedIsFinite, FS_Subset

(* At the cap it pushes out the oldest entry and counts in its place, if   *)
(* it is newer than the boundary: each counted entry moves down by one     *)
(* position, and the new one takes the last.                               *)
LEMMA ShiftCounts ==
  ASSUME NEW s \in Seq(Nat), s # <<>>, NEW ts \in Nat, NEW boundary \in Nat, ts > boundary,
         NEW t \in Seq(Nat), Len(t) = Len(s), t[Len(s)] = ts,
         \A i \in 1..(Len(s) - 1) : t[i] = s[i + 1]
  PROVE  Cardinality(Counted(s, boundary)) <= Cardinality(Counted(t, boundary))
<1> DEFINE S == Counted(s, boundary)
           T == Counted(t, boundary)
           f == [i \in S |-> IF i = 1 THEN Len(s) ELSE i - 1]
<1>1. Len(s) \in Nat \ {0} /\ \A i \in S : i \in 1..Len(s) /\ s[i] > boundary
  BY DEF Counted
<1>2. ASSUME NEW i \in S PROVE f[i] \in T
  <2>1. CASE i = 1
    BY <1>1, <2>1 DEF Counted
  <2>2. CASE i # 1
    <3>1. f[i] = i - 1 /\ i - 1 \in 1..(Len(s) - 1)
      BY <1>1, <1>2, <2>2
    <3>2. t[i - 1] = s[(i - 1) + 1] /\ (i - 1) + 1 = i
      BY <1>1, <1>2, <3>1
    <3> QED BY <1>1, <1>2, <3>1, <3>2 DEF Counted
  <2> QED BY <2>1, <2>2
<1>3. ASSUME NEW i \in S, NEW j \in S, f[i] = f[j] PROVE i = j
  BY <1>1, <1>3
<1>4. f \in Injection(S, T)
  <2>1. f \in [S -> T]
    BY <1>2
  <2> HIDE DEF f
  <2> QED BY <1>3, <2>1 DEF Injection, IsInjective
<1>5. IsFiniteSet(T)
  BY CountedIsFinite
<1> HIDE DEF S, T, f
<1> QED BY <1>4, <1>5, FS_Injection DEF S, T

LEMMA PushCounts ==
  ASSUME NEW s \in Seq(Nat), Len(s) <= ScanLimit, NEW ts \in Nat, NEW boundary \in Nat,
         Len(s) = ScanLimit => ts > boundary
  PROVE  Cardinality(Counted(s, boundary))
           <= Cardinality(Counted(Newest(Append(s, ts), ScanLimit), boundary))
<1> DEFINE a == Append(s, ts)
           n == Len(s)
<1>1. /\ a \in Seq(Nat) /\ Len(a) = n + 1 /\ a[n + 1] = ts
      /\ \A i \in 1..n : a[i] = s[i]
      /\ n \in Nat /\ ScanLimit \in Nat \ {0}
  BY ScanLimitAssumption
<1>2. CASE n < ScanLimit
  <2>1. Newest(a, ScanLimit) = a
    BY <1>1, <1>2 DEF Newest
  <2> QED BY <2>1, AppendCounts
<1>3. CASE n = ScanLimit
  <2> DEFINE t == SubSeq(a, 2, n + 1)
  <2>1. Newest(a, ScanLimit) = t
    BY <1>1, <1>3 DEF Newest
  <2>2. /\ t \in Seq(Nat) /\ Len(t) = n
        /\ \A i \in 1..n : t[i] = a[i + 1]
    BY <1>1
  <2>3. t[n] = ts /\ \A i \in 1..(n - 1) : t[i] = s[i + 1]
    BY <1>1, <1>3, <2>2
  <2>4. s # <<>>
    BY <1>1, <1>3
  <2> HIDE DEF t, a
  <2> QED BY <1>3, <2>1, <2>2, <2>3, <2>4, ShiftCounts DEF a
<1> QED BY <1>1, <1>2, <1>3

(* While the daemon runs a chat's count goes down only when its boundary   *)
(* goes up, or when a push that no longer counts pushes an entry out of a  *)
(* full run (store.js:120-134, 184, 190-206).                              *)
THEOREM OnlyReadingEverClears == Spec => OnlyReadingClears
<1> DEFINE Why(c) == \/ opened'[c] > opened[c]
                     \/ Len(unreadTs[c]) = ScanLimit /\ last'[c] <= opened[c]
<1>1. ASSUME StoreInvariant, TypeOK', ListHeld, [Next]_vars, NEW c \in Chats,
             up', Unread(c)' < Unread(c)
      PROVE  Why(c)
  <2>t. /\ TypeOK /\ WireNamesMessages
        /\ unreadTs \in [Chats -> Seq(Nat)] /\ unreadTs[c] \in Seq(Nat)
        /\ opened \in [Chats -> Nat] /\ opened[c] \in Nat
        /\ last \in [Chats -> Nat]
    BY <1>1 DEF StoreInvariant, TypeOK
  <2>c. Unread(c) = Cardinality(Counted(unreadTs[c], opened[c]))
    BY DEF Unread, Counted
  <2>d. Unread(c)' = Cardinality(Counted(unreadTs'[c], opened'[c]))
    BY DEF Unread, Counted
  <2>n. Unread(c) \in Nat /\ Unread(c)' \in Nat
    <3>1. unreadTs'[c] \in Seq(Nat)
      BY <1>1 DEF TypeOK
    <3> QED BY <2>t, <2>c, <2>d, <3>1, CountedIsFinite
  <2>e. ASSUME unreadTs'[c] = unreadTs[c], opened'[c] = opened[c] PROVE FALSE
    BY <1>1, <2>c, <2>d, <2>e, <2>n
  <2>f. ASSUME unreadTs[c] = <<>> PROVE FALSE
    <3>1. Counted(unreadTs[c], opened[c]) = {}
      BY <2>f DEF Counted
    <3>2. Unread(c) = 0
      BY <2>c, <3>1, FS_EmptySet
    <3> QED BY <1>1, <2>n, <3>2
  <2>1. CASE UNCHANGED <<up, chatVars, diskVars>>
    BY <2>1, <2>e DEF chatVars
  <2>2. CASE HandleMessage
    <3> DEFINE e == Head(wire)
               m == mac[e.chat][e.guid]
    <3>1. /\ e.chat \in Chats /\ m \in Messages /\ m.ts \in Nat
      BY <2>2, <2>t, HeadIsFiled DEF HandleMessage, Messages
    <3>2. /\ last' = [last EXCEPT ![e.chat] = m.ts] /\ opened' = opened
          /\ unreadTs' = [unreadTs EXCEPT ![e.chat] =
                            IF m.fromMe THEN @ ELSE Newest(Append(@, m.ts), ScanLimit)]
      BY <2>2 DEF HandleMessage, UpsertFromMessage
    <3> HIDE DEF m, e
    <3>3. e.chat = c /\ ~m.fromMe
      BY <2>e, <2>t, <3>1, <3>2
    <3>4. /\ unreadTs'[c] = Newest(Append(unreadTs[c], m.ts), ScanLimit)
          /\ last'[c] = m.ts /\ opened'[c] = opened[c]
      BY <2>t, <3>1, <3>2, <3>3
    <3>5. Len(unreadTs[c]) <= ScanLimit
      BY <2>t DEF TypeOK
    <3> SUFFICES ASSUME ~(Len(unreadTs[c]) = ScanLimit /\ last'[c] <= opened[c]) PROVE FALSE
      OBVIOUS
    <3>6. Len(unreadTs[c]) = ScanLimit => m.ts > opened[c]
      BY <2>t, <3>1, <3>4
    <3>7. Unread(c) <= Unread(c)'
      BY <2>t, <2>c, <2>d, <3>1, <3>4, <3>5, <3>6, PushCounts
    <3> QED BY <1>1, <2>n, <3>7
  <2>3. ASSUME NEW d \in Chats, MarkRead(d) PROVE Why(c)
    <3>1. PICK through \in Shown(d) :
            IF d \in known /\ through > opened[d]
              THEN /\ opened' = [opened EXCEPT ![d] = through]
                   /\ unreadTs' = [unreadTs EXCEPT ![d] = <<>>]
              ELSE UNCHANGED <<opened, unreadTs>>
      BY <2>3 DEF MarkRead
    <3> QED BY <2>e, <2>t, <3>1
  <2>4. CASE HandleChatRead
    BY <2>3, <2>4, <2>t, HeadOfWire DEF HandleChatRead
  <2>5. ASSUME NEW d \in Chats, ClientRead(d) PROVE Why(c)
    BY <2>3, <2>5 DEF ClientRead
  <2>6. CASE ScanLand \/ \E r \in Requests : SweepLand(r)
    <3>1. opened' = opened
      BY <2>6 DEF ScanLand, SweepLand
    <3>2. unreadTs' = unreadTs \/ \E chats : unreadTs' = Seeded(chats, runs)
      BY <2>6 DEF ScanLand, SweepLand, ReplaceChats, AttachSeed
    <3>3. unreadTs'[c] = unreadTs[c] \/ unreadTs[c] = <<>>
      BY <2>t, <3>2 DEF Seeded
    <3> QED BY <2>e, <2>f, <3>1, <3>3
  <2>7. CASE CacheFlush
    BY <2>7, <2>e DEF CacheFlush
  <2>8. CASE Crash \/ Shutdown
    BY <1>1, <2>8 DEF Crash, Shutdown, Gone
  <2>9. CASE Start
    BY <1>1, <2>9, <2>f DEF Start, ListHeld, DownIsEmpty, NoRuns
  <2> HIDE DEF Why
  <2> QED BY <1>1, <2>1, <2>2, <2>4, <2>5, <2>6, <2>7, <2>8, <2>9, StepKinds
<1>2. StoreInvariant /\ TypeOK' /\ ListHeld /\ [Next]_vars =>
        [\A c \in Chats : up' /\ Unread(c)' < Unread(c) => Why(c)]_vars
  BY <1>1
<1> QED BY <1>2, ListAlwaysHeld, TypeCorrect, PTL DEF Spec, OnlyReadingClears
=============================================================================
