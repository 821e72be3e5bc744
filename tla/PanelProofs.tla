---------------------------- MODULE PanelProofs ----------------------------
(***************************************************************************)
(* TypeOK (with it, that a click is never held for a listed chat),         *)
(* PendingHasAReply, ReadMeansShown and ListAgrees, for any chats, page,   *)
(* bounds on the pipes and number of events.                               *)
(***************************************************************************)
EXTENDS Panel, FiniteSetTheorems, TLAPS

Lists == UNION {[D -> Row] : D \in SUBSET Chats}

ChatsFrames == {ChatsFrame(list, n) : list \in Lists, n \in Nat}

MessageFrames == {MessageFrame(c, row, n) : c \in Chats, row \in Row, n \in Nat}

Frames == [t : {"state"}, unread : Nat] \cup ChatsFrames \cup MessageFrames \cup {ChatsError}

Served == {Nothing, Gone} \cup ChatsFrames

Underway == [served : Served, answered : BOOLEAN, times : [Chats -> Nat]]

StoreTyped ==
  /\ last \in [Chats -> Nat] /\ inbound \in [Chats -> Nat] /\ openedTs \in [Chats -> Nat]
  /\ swept \in BOOLEAN /\ pins \subseteq Chats

(* Some message is the latest. *)
MacTyped ==
  /\ mac \in [Chats -> Nat]
  /\ \E c \in Chats : \A d \in Chats : mac[d] <= mac[c]

PanelTyped ==
  /\ opened \in BOOLEAN /\ active \in Chats \cup {NoChat} /\ held \in Chats \cup {NoChat}
  /\ IsList(rows) /\ held \notin DOMAIN rows /\ badge \in Nat
  /\ chatsPending \in BOOLEAN /\ fresh \in BOOLEAN

PipesTyped ==
  /\ linkUp \in BOOLEAN /\ established \in BOOLEAN
  /\ toDaemon \in Seq(ToDaemon) /\ toClient \in Seq(Frames)
  /\ sweeps \in Seq(Underway) /\ untold \subseteq Chats
  /\ toasts \subseteq Chats /\ events \in Nat

Typed == StoreTyped /\ MacTyped /\ PanelTyped /\ PipesTyped

-----------------------------------------------------------------------------
(* Lists and frames *)

LEMMA ListsAreLists ==
  ASSUME NEW list
  PROVE  list \in Lists <=> IsList(list)
BY DEF Lists, IsList

LEMMA FramesAreFrames ==
  /\ \A frame \in ChatsFrames : IsChats(frame) /\ frame.t = "chats"
  /\ \A frame \in MessageFrames : IsMessage(frame) /\ frame.t = "message"
  /\ \A frame \in Frames :
       /\ ToClient(frame)
       /\ frame.t = "state" => frame.unread \in Nat
       /\ frame.t = "chats" => IsList(frame.rows) /\ frame.unread \in Nat
       /\ frame.t = "message" => frame.chat \in Chats /\ frame.row \in Row /\ frame.unread \in Nat
       /\ frame.t \in {"state", "chats", "message", "error"}
<1>1. \A frame \in ChatsFrames : IsChats(frame) /\ frame.t = "chats"
  <2> TAKE frame \in ChatsFrames
  <2>1. PICK list \in Lists, n \in Nat : frame = ChatsFrame(list, n)
    BY DEF ChatsFrames
  <2>2. frame.rows = list /\ frame.unread = n /\ frame.t = "chats"
    BY <2>1 DEF ChatsFrame
  <2>3. IsList(list)
    BY ListsAreLists
  <2> QED BY <2>1, <2>2, <2>3 DEF IsChats
<1>2. \A frame \in MessageFrames : IsMessage(frame) /\ frame.t = "message"
  <2> TAKE frame \in MessageFrames
  <2>1. PICK c \in Chats, row \in Row, n \in Nat : frame = MessageFrame(c, row, n)
    BY DEF MessageFrames
  <2>2. frame.chat = c /\ frame.row = row /\ frame.unread = n /\ frame.t = "message"
    BY <2>1 DEF MessageFrame
  <2> QED BY <2>1, <2>2 DEF IsMessage
<1>3. ASSUME NEW frame \in Frames
      PROVE  /\ ToClient(frame)
             /\ frame.t = "state" => frame.unread \in Nat
             /\ frame.t = "chats" => IsList(frame.rows) /\ frame.unread \in Nat
             /\ frame.t = "message" => frame.chat \in Chats /\ frame.row \in Row /\ frame.unread \in Nat
             /\ frame.t \in {"state", "chats", "message", "error"}
  <2>1. CASE frame \in [t : {"state"}, unread : Nat]
    BY <2>1 DEF ToClient
  <2>2. CASE frame \in ChatsFrames
    BY <1>1, <2>2 DEF ToClient, IsChats
  <2>3. CASE frame \in MessageFrames
    BY <1>2, <2>3 DEF ToClient, IsMessage
  <2>4. CASE frame = ChatsError
    BY <2>4 DEF ToClient, ChatsError
  <2> QED BY <2>1, <2>2, <2>3, <2>4 DEF Frames
<1> QED BY <1>1, <1>2, <1>3

LEMMA ListOfStore == StoreTyped => IsList(ChatList) /\ UnreadChats \in Nat
<1> SUFFICES ASSUME StoreTyped PROVE IsList(ChatList) /\ UnreadChats \in Nat
  OBVIOUS
<1>1. \A c \in Chats : RowOf(c) \in Row
  BY DEF StoreTyped, RowOf, Row, IsUnread
<1>2. DOMAIN ChatList \subseteq Chats
  BY DEF ChatList
<1>3. \A c \in DOMAIN ChatList : ChatList[c] = RowOf(c)
  BY DEF ChatList
<1>4. IsList(ChatList)
  <2>1. ChatList \in [DOMAIN ChatList -> Row]
    BY <1>1, <1>2, <1>3 DEF ChatList
  <2> QED BY <1>2, <2>1 DEF IsList
<1>5. UnreadChats \in Nat
  <2>1. {c \in DOMAIN ChatList : IsUnread(c)} \in SUBSET Chats
    BY <1>2
  <2>2. IsFiniteSet({c \in DOMAIN ChatList : IsUnread(c)})
    BY <2>1, FS_Subset, PanelAssumptions
  <2> QED BY <2>2, FS_CardinalityType DEF UnreadChats
<1> QED BY <1>4, <1>5

LEMMA PageOfList ==
  ASSUME NEW list, IsList(list)
  PROVE  IsList(Page(list))
<1>1. list \in [DOMAIN list -> Row] /\ DOMAIN list \subseteq Chats
  BY DEF IsList
<1>2. CASE ChatLimit = 0
  BY <1>2 DEF Page
<1>3. CASE ChatLimit # 0
  <2> DEFINE D == {d \in DOMAIN list : Cardinality(Above(list, d)) < ChatLimit}
  <2>1. Page(list) = [c \in D |-> list[c]] /\ D \subseteq DOMAIN list
    BY <1>3 DEF Page
  <2> HIDE DEF D
  <2>2. [c \in D |-> list[c]] \in [D -> Row] /\ DOMAIN [c \in D |-> list[c]] = D
    BY <1>1, <2>1
  <2> QED BY <1>1, <2>1, <2>2 DEF IsList
<1> QED BY <1>2, <1>3

LEMMA MarkedIsList ==
  ASSUME NEW list, IsList(list), NEW c
  PROVE  IsList(Marked(list, c)) /\ DOMAIN Marked(list, c) = DOMAIN list
<1>1. list \in [DOMAIN list -> Row] /\ DOMAIN list \subseteq Chats
  BY DEF IsList
<1>2. CASE linkUp /\ c \in DOMAIN list
  <2>1. Marked(list, c) = [list EXCEPT ![c].unread = FALSE]
    BY <1>2 DEF Marked, Clear
  <2>2. list[c] \in Row
    BY <1>1, <1>2
  <2>3. [list[c] EXCEPT !.unread = FALSE] \in Row
    BY <2>2 DEF Row
  <2>4. Marked(list, c) = [list EXCEPT ![c] = [list[c] EXCEPT !.unread = FALSE]]
    BY <2>1
  <2>5. Marked(list, c) \in [DOMAIN list -> Row]
    BY <1>1, <2>3, <2>4
  <2> QED BY <1>1, <2>5 DEF IsList
<1>3. CASE ~(linkUp /\ c \in DOMAIN list)
  BY <1>3 DEF Marked, Clear
<1> QED BY <1>2, <1>3

LEMMA Commands ==
  /\ Hello \in ToDaemon /\ AskChats \in ToDaemon
  /\ \A c \in Chats : Read(c) \in ToDaemon
  /\ \A c \in Chats, p \in BOOLEAN : Pin(c, p) \in ToDaemon
  /\ Hello # AskChats
  /\ \A c : Read(c) # Hello /\ Read(c) # AskChats /\ Read(c).chat = c
  /\ \A c, d, p : Pin(c, p) # Read(d) /\ Pin(c, p) # AskChats
<1>1. /\ Hello.t = "hello" /\ AskChats.t = "chats"
      /\ \A c : Read(c).t = "read" /\ Read(c).chat = c
      /\ \A c, p : Pin(c, p).t = "pin"
  BY DEF Hello, AskChats, Read, Pin
<1>2. /\ Hello \in ToDaemon /\ AskChats \in ToDaemon
      /\ \A c \in Chats : Read(c) \in ToDaemon
      /\ \A c \in Chats, p \in BOOLEAN : Pin(c, p) \in ToDaemon
  BY DEF ToDaemon
<1>3. Hello # AskChats
  BY <1>1
<1>4. \A c : Read(c) # Hello /\ Read(c) # AskChats
  BY <1>1
<1>5. \A c, d, p : Pin(c, p) # Read(d) /\ Pin(c, p) # AskChats
  BY <1>1
<1> QED BY <1>1, <1>2, <1>3, <1>4, <1>5

-----------------------------------------------------------------------------
(* The pipes *)

Elems(s) == {s[i] : i \in DOMAIN s}

LEMMA ElemsConcat ==
  ASSUME NEW S, NEW s \in Seq(S), NEW t \in Seq(S)
  PROVE  s \o t \in Seq(S) /\ Elems(s \o t) = Elems(s) \cup Elems(t)
<1>1. /\ s \o t \in Seq(S) /\ Len(s \o t) = Len(s) + Len(t) /\ Len(s) \in Nat /\ Len(t) \in Nat
      /\ \A i \in 1..Len(s) : (s \o t)[i] = s[i]
      /\ \A i \in (Len(s) + 1)..(Len(s) + Len(t)) : (s \o t)[i] = t[i - Len(s)]
      /\ DOMAIN s = 1..Len(s) /\ DOMAIN t = 1..Len(t) /\ DOMAIN (s \o t) = 1..(Len(s) + Len(t))
  OBVIOUS
<1>2. Elems(s) \subseteq Elems(s \o t)
  BY <1>1 DEF Elems
<1>3. \A i \in 1..Len(t) : (s \o t)[i + Len(s)] = t[i] /\ i + Len(s) \in DOMAIN (s \o t)
  BY <1>1
<1>4. Elems(t) \subseteq Elems(s \o t)
  BY <1>1, <1>3 DEF Elems
<1>5. \A i \in DOMAIN (s \o t) : (s \o t)[i] \in Elems(s) \cup Elems(t)
  <2> TAKE i \in DOMAIN (s \o t)
  <2>1. CASE i <= Len(s)
    BY <1>1, <2>1 DEF Elems
  <2>2. CASE i > Len(s)
    <3>1. i - Len(s) \in DOMAIN t /\ (s \o t)[i] = t[i - Len(s)]
      BY <1>1, <2>2
    <3> QED BY <3>1 DEF Elems
  <2> QED BY <1>1, <2>1, <2>2
<1>6. Elems(s \o t) \subseteq Elems(s) \cup Elems(t)
  BY <1>5 DEF Elems
<1> QED BY <1>1, <1>2, <1>4, <1>6

LEMMA ElemsOne ==
  /\ Elems(<<>>) = {}
  /\ \A x : Elems(<<x>>) = {x} /\ <<x>> \in Seq({x})
BY DEF Elems

LEMMA ElemsConcat4 ==
  ASSUME NEW S, NEW s \in Seq(S), NEW t \in Seq(S), NEW u \in Seq(S), NEW v \in Seq(S)
  PROVE  /\ s \o t \o u \o v \in Seq(S)
         /\ Elems(s \o t \o u \o v) = Elems(s) \cup Elems(t) \cup Elems(u) \cup Elems(v)
<1> DEFINE st  == s \o t
           stu == st \o u
<1>1. st \in Seq(S)
  OBVIOUS
<1>2. Elems(st) = Elems(s) \cup Elems(t)
  BY ElemsConcat
<1> HIDE DEF st
<1>3. stu \in Seq(S)
  BY <1>1
<1>4. Elems(stu) = Elems(st) \cup Elems(u)
  BY <1>1, ElemsConcat
<1> HIDE DEF stu
<1>5. stu \o v \in Seq(S)
  BY <1>3
<1>6. Elems(stu \o v) = Elems(stu) \cup Elems(v)
  BY <1>3, ElemsConcat
<1> QED BY <1>2, <1>4, <1>5, <1>6 DEF st, stu

LEMMA ElemsAppend ==
  ASSUME NEW S, NEW s \in Seq(S), NEW x \in S
  PROVE  Append(s, x) \in Seq(S) /\ Elems(Append(s, x)) = Elems(s) \cup {x}
<1>1. Append(s, x) = s \o <<x>> /\ <<x>> \in Seq(S)
  OBVIOUS
<1>2. s \o <<x>> \in Seq(S) /\ Elems(s \o <<x>>) = Elems(s) \cup Elems(<<x>>)
  BY <1>1, ElemsConcat
<1>3. Elems(<<x>>) = {x}
  BY ElemsOne
<1> QED BY <1>1, <1>2, <1>3

LEMMA ElemsTail ==
  ASSUME NEW S, NEW s \in Seq(S), s # <<>>
  PROVE  /\ Tail(s) \in Seq(S) /\ Head(s) \in S /\ Elems(s) \subseteq S
         /\ Elems(s) = {Head(s)} \cup Elems(Tail(s))
<1>1. s = <<Head(s)>> \o Tail(s) /\ <<Head(s)>> \in Seq(S) /\ Tail(s) \in Seq(S) /\ Head(s) \in S
  OBVIOUS
<1>2. Elems(s) = {Head(s)} \cup Elems(Tail(s))
  <2> DEFINE h == <<Head(s)>>
  <2>1. Elems(h) = {Head(s)}
    BY ElemsOne
  <2>2. Elems(h \o Tail(s)) = Elems(h) \cup Elems(Tail(s))
    BY <1>1, ElemsConcat
  <2> QED BY <1>1, <2>1, <2>2
<1>3. Elems(s) \subseteq S
  BY DEF Elems
<1> QED BY <1>1, <1>2, <1>3

LEMMA ElemsWithout ==
  ASSUME NEW S, NEW s \in Seq(S), NEW i \in DOMAIN s
  PROVE  /\ WithoutIndex(s, i) \in Seq(S)
         /\ Elems(s) \subseteq {s[i]} \cup Elems(WithoutIndex(s, i))
<1> DEFINE u == SubSeq(s, 1, i - 1)
           v == SubSeq(s, i + 1, Len(s))
<1>1. /\ u \in Seq(S) /\ Len(u) = i - 1 /\ DOMAIN u = 1..(i - 1)
      /\ \A k \in 1..(i - 1) : u[k] = s[k]
  OBVIOUS
<1>2. /\ v \in Seq(S) /\ Len(v) = Len(s) - i /\ DOMAIN v = 1..(Len(s) - i)
      /\ \A k \in 1..(Len(s) - i) : v[k] = s[k + i]
  OBVIOUS
<1>3. DOMAIN s = 1..Len(s) /\ Len(s) \in Nat /\ i \in 1..Len(s)
  OBVIOUS
<1> HIDE DEF u, v
<1>4. \A k \in DOMAIN s : s[k] \in {s[i]} \cup Elems(u) \cup Elems(v)
  <2> TAKE k \in DOMAIN s
  <2>1. CASE k < i
    BY <1>1, <1>3, <2>1 DEF Elems
  <2>2. CASE k > i
    <3>1. k - i \in 1..(Len(s) - i) /\ (k - i) + i = k
      BY <1>3, <2>2
    <3>2. k - i \in DOMAIN v /\ v[k - i] = s[k]
      BY <1>2, <3>1
    <3> QED BY <3>2 DEF Elems
  <2> QED BY <1>3, <2>1, <2>2
<1>5. u \o v \in Seq(S) /\ Elems(u \o v) = Elems(u) \cup Elems(v)
  BY <1>1, <1>2, ElemsConcat
<1> QED BY <1>4, <1>5 DEF WithoutIndex, Elems, u, v

(* What a handler of the panel sends is what it requests. *)
LEMMA RequestSends ==
  ASSUME toDaemon \in Seq(ToDaemon), NEW frames \in Seq(ToDaemon), Request(frames)
  PROVE  /\ toDaemon' \in Seq(ToDaemon) /\ Elems(toDaemon) \subseteq Elems(toDaemon')
         /\ linkUp => Elems(frames) \subseteq Elems(toDaemon')
         /\ Sent \subseteq Elems(frames)
<1>1. CASE linkUp
  <2>1. toDaemon' = toDaemon \o frames
    BY <1>1 DEF Request
  <2>2. toDaemon' \in Seq(ToDaemon) /\ Elems(toDaemon') = Elems(toDaemon) \cup Elems(frames)
    BY <2>1, ElemsConcat
  <2>3. /\ Len(toDaemon') = Len(toDaemon) + Len(frames) /\ Len(toDaemon) \in Nat /\ Len(frames) \in Nat
        /\ DOMAIN frames = 1..Len(frames)
        /\ \A i \in (Len(toDaemon) + 1)..Len(toDaemon') : toDaemon'[i] = frames[i - Len(toDaemon)]
    BY <2>1
  <2>4. \A i \in (Len(toDaemon) + 1)..Len(toDaemon') : toDaemon'[i] \in Elems(frames)
    <3> TAKE i \in (Len(toDaemon) + 1)..Len(toDaemon')
    <3>1. i - Len(toDaemon) \in DOMAIN frames
      BY <2>3
    <3> QED BY <2>3, <3>1 DEF Elems
  <2>5. Sent \subseteq Elems(frames)
    BY <2>4 DEF Sent
  <2> QED BY <2>2, <2>5
<1>2. CASE ~linkUp
  <2>1. toDaemon' = toDaemon
    BY <1>2 DEF Request
  <2>2. Sent = {}
    BY <2>1 DEF Sent
  <2> QED BY <1>2, <2>1, <2>2
<1> QED BY <1>1, <1>2

LEMMA EmitSends ==
  ASSUME toClient \in Seq(Frames), NEW frame \in Frames, Emit(frame)
  PROVE  /\ toClient' \in Seq(Frames) /\ Elems(toClient) \subseteq Elems(toClient')
         /\ linkUp => frame \in Elems(toClient')
<1>1. CASE linkUp
  <2>1. toClient' = Append(toClient, frame)
    BY <1>1 DEF Emit
  <2> QED BY <2>1, ElemsAppend
<1>2. CASE ~linkUp
  BY <1>2 DEF Emit
<1> QED BY <1>1, <1>2

-----------------------------------------------------------------------------
(* What every step keeps *)

(* Until it is answered or refused, a request for the list is on its way,  *)
(* or being served for the first time, or its answer is on its way back.   *)
Cold == \E sweep \in Elems(sweeps) : sweep.served = Nothing

PendingIsUnderWay ==
  chatsPending /\ linkUp =>
    \/ AskChats \in Elems(toDaemon)
    \/ Cold
    \/ \E frame \in Elems(toClient) : frame.t \in {"chats", "error"}

MarksWhatIsShown ==
  \A c \in Chats : Read(c) \in Sent => (opened' /\ active' = c) \/ held = c

LEMMA NothingSent ==
  ASSUME toDaemon \in Seq(ToDaemon),
         toDaemon' = toDaemon \/ (toDaemon # <<>> /\ toDaemon' = Tail(toDaemon)) \/ toDaemon' = <<>>
  PROVE  MarksWhatIsShown
<1>1. ~(Len(toDaemon') > Len(toDaemon))
  OBVIOUS
<1> QED BY <1>1 DEF MarksWhatIsShown, Sent

LEMMA ReaderKeeps ==
  ASSUME Typed, UnchangedBehindLink, PanelTyped', toDaemon' \in Seq(ToDaemon),
         toasts' \subseteq Chats, events' \in Nat,
         Elems(toDaemon) \subseteq Elems(toDaemon'),
         chatsPending' => chatsPending \/ ~linkUp \/ AskChats \in Elems(toDaemon')
  PROVE  Typed' /\ (PendingIsUnderWay => PendingIsUnderWay')
<1> USE DEF UnchangedBehindLink, storeVars, linkVars
<1>1. Typed'
  BY DEF Typed, StoreTyped, MacTyped, PipesTyped
<1>2. PendingIsUnderWay => PendingIsUnderWay'
  <2>1. sweeps' = sweeps /\ toClient' = toClient /\ linkUp' = linkUp
    OBVIOUS
  <2> QED BY <2>1 DEF PendingIsUnderWay, Cold
<1> QED BY <1>1, <1>2

(* Showing the panel reads the active thread, after what was sent before.  *)
LEMMA OnOpenedKeeps ==
  ASSUME Typed, NEW list, IsList(list), NEW chat \in Chats \cup {NoChat},
         NEW guid \in Chats \cup {NoChat}, guid \notin DOMAIN list,
         NEW before \in Seq(ToDaemon), OnOpened(list, chat, guid, before),
         badge' = badge, fresh' = fresh,
         \A c \in Chats : Read(c) \in Elems(before) => c = chat
  PROVE  /\ PanelTyped' /\ toDaemon' \in Seq(ToDaemon)
         /\ Elems(toDaemon) \subseteq Elems(toDaemon')
         /\ chatsPending' => chatsPending \/ ~linkUp \/ AskChats \in Elems(toDaemon')
         /\ MarksWhatIsShown
         /\ rows' = Marked(list, chat)
         /\ linkUp => /\ Elems(before) \subseteq Elems(toDaemon')
                      /\ chat # NoChat => Read(chat) \in Elems(toDaemon')
<1> DEFINE asks(aged) == ~chatsPending /\ (aged \/ ~fresh)
           read == IF chat = NoChat THEN <<>> ELSE <<Read(chat)>>
           ask(aged) == IF asks(aged) THEN <<AskChats>> ELSE <<>>
           frames(aged) == before \o <<Hello>> \o ask(aged) \o read
<1>1. PICK aged \in BOOLEAN :
        /\ opened' = TRUE /\ active' = chat
        /\ held' = HeldAfter(list, chat, guid)
        /\ rows' = Marked(list, chat)
        /\ chatsPending' = (chatsPending \/ (asks(aged) /\ linkUp))
        /\ Request(frames(aged))
  BY DEF OnOpened
<1>2. /\ <<Hello>> \in Seq(ToDaemon) /\ Elems(<<Hello>>) = {Hello}
      /\ ask(aged) \in Seq(ToDaemon) /\ Elems(ask(aged)) = IF asks(aged) THEN {AskChats} ELSE {}
      /\ read \in Seq(ToDaemon) /\ Elems(read) = IF chat = NoChat THEN {} ELSE {Read(chat)}
  <2>1. <<Hello>> \in Seq(ToDaemon) /\ Elems(<<Hello>>) = {Hello}
    BY Commands, ElemsOne
  <2>2. ask(aged) \in Seq(ToDaemon)
    BY Commands
  <2>3. Elems(ask(aged)) = IF asks(aged) THEN {AskChats} ELSE {}
    BY ElemsOne
  <2>4. read \in Seq(ToDaemon)
    BY Commands
  <2>5. Elems(read) = IF chat = NoChat THEN {} ELSE {Read(chat)}
    BY ElemsOne
  <2> QED BY <2>1, <2>2, <2>3, <2>4, <2>5
<1>3. /\ frames(aged) \in Seq(ToDaemon)
      /\ Elems(frames(aged)) = Elems(before) \cup {Hello} \cup Elems(ask(aged)) \cup Elems(read)
  <2> DEFINE h == <<Hello>>
             a == ask(aged)
  <2>1. h \in Seq(ToDaemon) /\ a \in Seq(ToDaemon) /\ read \in Seq(ToDaemon) /\ Elems(h) = {Hello}
    BY <1>2
  <2>2. frames(aged) = before \o h \o a \o read
    OBVIOUS
  <2> HIDE DEF h, a, ask, read, frames
  <2>3. before \o h \o a \o read \in Seq(ToDaemon)
    BY <2>1, ElemsConcat4
  <2>4. Elems(before \o h \o a \o read) = Elems(before) \cup Elems(h) \cup Elems(a) \cup Elems(read)
    BY <2>1, ElemsConcat4
  <2> QED BY <2>1, <2>2, <2>3, <2>4 DEF a
<1> HIDE DEF frames, ask, read
<1>4. toDaemon \in Seq(ToDaemon) /\ Request(frames(aged))
  BY <1>1 DEF Typed, PipesTyped
<1>5. /\ toDaemon' \in Seq(ToDaemon) /\ Elems(toDaemon) \subseteq Elems(toDaemon')
      /\ linkUp => Elems(frames(aged)) \subseteq Elems(toDaemon')
      /\ Sent \subseteq Elems(frames(aged))
  BY <1>3, <1>4, RequestSends
<1>6. PanelTyped'
  <2>1. IsList(rows') /\ DOMAIN rows' = DOMAIN list
    BY <1>1, MarkedIsList
  <2>2. held' \in Chats \cup {NoChat} /\ held' \notin DOMAIN list
    BY <1>1, PanelAssumptions DEF HeldAfter, IsList
  <2>3. chatsPending' \in BOOLEAN /\ opened' \in BOOLEAN
    BY <1>1 DEF Typed, PanelTyped, PipesTyped
  <2>4. badge' \in Nat /\ fresh' \in BOOLEAN /\ active' \in Chats \cup {NoChat}
    BY <1>1 DEF Typed, PanelTyped
  <2> QED BY <2>1, <2>2, <2>3, <2>4 DEF PanelTyped
<1>7. chatsPending' => chatsPending \/ ~linkUp \/ AskChats \in Elems(toDaemon')
  BY <1>1, <1>2, <1>3, <1>5
<1>8. MarksWhatIsShown
  <2> SUFFICES ASSUME NEW c \in Chats, Read(c) \in Sent PROVE opened' /\ active' = c
    BY DEF MarksWhatIsShown
  <2>1. Read(c) \in Elems(before) \cup {Hello} \cup Elems(ask(aged)) \cup Elems(read)
    BY <1>3, <1>5
  <2>2. Read(c) # Hello /\ Read(c) # AskChats /\ (Read(c) = Read(chat) => c = chat)
    <3>1. Read(c).chat = c /\ Read(chat).chat = chat /\ Read(c) # Hello /\ Read(c) # AskChats
      BY Commands
    <3> QED BY <3>1
  <2>3. c = chat
    BY <1>2, <2>1, <2>2
  <2> QED BY <1>1, <2>3
<1>9. linkUp => /\ Elems(before) \subseteq Elems(toDaemon')
                /\ chat # NoChat => Read(chat) \in Elems(toDaemon')
  BY <1>2, <1>3, <1>5
<1> QED BY <1>1, <1>5, <1>6, <1>7, <1>8, <1>9

Kept == Typed' /\ (PendingIsUnderWay => PendingIsUnderWay') /\ MarksWhatIsShown

LEMMA OpenPanelKeeps == ASSUME Typed, OpenPanel PROVE Kept
<1>1. /\ OnOpened(rows, active, held, <<>>) /\ UnchangedBehindLink
      /\ toasts' = toasts /\ events' = events
  BY DEF OpenPanel
<1>2. /\ IsList(rows) /\ active \in Chats \cup {NoChat} /\ held \in Chats \cup {NoChat}
      /\ held \notin DOMAIN rows /\ <<>> \in Seq(ToDaemon) /\ Elems(<<>>) = {}
  BY ElemsOne DEF Typed, PanelTyped
<1>3. badge' = badge /\ fresh' = fresh
  BY <1>1 DEF UnchangedBehindLink
<1>4. /\ PanelTyped' /\ toDaemon' \in Seq(ToDaemon)
      /\ Elems(toDaemon) \subseteq Elems(toDaemon')
      /\ chatsPending' => chatsPending \/ ~linkUp \/ AskChats \in Elems(toDaemon')
      /\ MarksWhatIsShown
  BY <1>1, <1>2, <1>3, OnOpenedKeeps
<1>5. toasts' \subseteq Chats /\ events' \in Nat
  BY <1>1 DEF Typed, PipesTyped
<1> QED BY <1>1, <1>4, <1>5, ReaderKeeps DEF Kept

(* Leaving, or hiding, sends nothing. *)
LEMMA LeavingKeeps == ASSUME Typed, ClosePanel \/ BackToChats PROVE Kept
<1>1. /\ UnchangedBehindLink
      /\ UNCHANGED <<held, rows, chatsPending, toDaemon, toasts, events>>
      /\ opened' \in BOOLEAN /\ active' \in {active, NoChat}
  BY DEF ClosePanel, BackToChats, Typed, PanelTyped
<1>2. PanelTyped'
  BY <1>1 DEF Typed, PanelTyped, UnchangedBehindLink
<1>3. toDaemon' \in Seq(ToDaemon) /\ toasts' \subseteq Chats /\ events' \in Nat
      /\ Elems(toDaemon) \subseteq Elems(toDaemon')
  BY <1>1 DEF Typed, PipesTyped
<1>4. MarksWhatIsShown
  BY <1>1, NothingSent DEF Typed, PipesTyped
<1> QED BY <1>1, <1>2, <1>3, <1>4, ReaderKeeps DEF Kept

(* The thread of a listed chat goes on screen, and is read. *)
LEMMA ShowingKeeps ==
  ASSUME Typed, NEW c \in DOMAIN rows, opened, UnchangedBehindLink,
         active' = c, held' = HeldAfter(rows, c, held), rows' = Marked(rows, c),
         Request(<<Read(c)>>), UNCHANGED <<opened, chatsPending>>,
         toasts' \subseteq Chats, events' \in Nat
  PROVE  Kept
<1>1. IsList(rows) /\ c \in Chats /\ toDaemon \in Seq(ToDaemon)
  BY DEF Typed, PanelTyped, PipesTyped, IsList
<1>2. <<Read(c)>> \in Seq(ToDaemon) /\ Elems(<<Read(c)>>) = {Read(c)}
  BY <1>1, Commands, ElemsOne
<1>3. /\ toDaemon' \in Seq(ToDaemon) /\ Elems(toDaemon) \subseteq Elems(toDaemon')
      /\ Sent \subseteq {Read(c)}
  <2> DEFINE frames == <<Read(c)>>
  <2>1. frames \in Seq(ToDaemon) /\ Elems(frames) = {Read(c)} /\ Request(frames)
    BY <1>2
  <2> HIDE DEF frames
  <2> QED BY <1>1, <2>1, RequestSends
<1>4. IsList(rows') /\ DOMAIN rows' = DOMAIN rows
  BY <1>1, MarkedIsList
<1>5. PanelTyped'
  BY <1>1, <1>4, PanelAssumptions
     DEF Typed, PanelTyped, UnchangedBehindLink, HeldAfter, IsList
<1>6. MarksWhatIsShown
  <2> SUFFICES ASSUME NEW d \in Chats, Read(d) \in Sent PROVE opened' /\ active' = d
    BY DEF MarksWhatIsShown
  <2>1. Read(d).chat = d /\ Read(c).chat = c /\ Read(d) = Read(c)
    BY <1>3, Commands
  <2> QED BY <2>1
<1> QED BY <1>3, <1>5, <1>6, ReaderKeeps DEF Kept

LEMMA TogglePinKeeps == ASSUME Typed, NEW c \in Chats, TogglePin(c) PROVE Kept
<1>1. /\ c \in DOMAIN rows /\ Request(<<Pin(c, ~rows[c].pinned)>>) /\ events' = events + 1
      /\ UnchangedBehindLink
      /\ UNCHANGED <<opened, active, held, rows, chatsPending, toasts>>
  BY DEF TogglePin, Event, readerVars
<1>2. rows[c].pinned \in BOOLEAN
  BY <1>1 DEF Typed, PanelTyped, IsList, Row
<1>3. PICK p \in BOOLEAN : Request(<<Pin(c, p)>>)
  BY <1>1, <1>2
<1>4. <<Pin(c, p)>> \in Seq(ToDaemon) /\ Elems(<<Pin(c, p)>>) = {Pin(c, p)}
  BY Commands, ElemsOne
<1>5. /\ toDaemon' \in Seq(ToDaemon) /\ Elems(toDaemon) \subseteq Elems(toDaemon')
      /\ Sent \subseteq {Pin(c, p)}
  <2> DEFINE frames == <<Pin(c, p)>>
  <2>1. frames \in Seq(ToDaemon) /\ Elems(frames) = {Pin(c, p)} /\ Request(frames)
    BY <1>3, <1>4
  <2> HIDE DEF frames
  <2>2. toDaemon \in Seq(ToDaemon)
    BY DEF Typed, PipesTyped
  <2> QED BY <2>1, <2>2, RequestSends
<1>6. PanelTyped'
  BY <1>1 DEF Typed, PanelTyped, UnchangedBehindLink
<1>7. MarksWhatIsShown
  BY <1>5, Commands DEF MarksWhatIsShown
<1>8. toasts' \subseteq Chats /\ events' \in Nat /\ chatsPending' = chatsPending
  BY <1>1 DEF Typed, PipesTyped
<1> QED BY <1>1, <1>5, <1>6, <1>7, <1>8, ReaderKeeps DEF Kept

LEMMA ClickKeeps == ASSUME Typed, NEW c \in Chats, ClickToast(c) PROVE Kept
<1>1. /\ ClickListed(c) \/ ClickUnlisted(c)
      /\ UnchangedBehindLink /\ toasts' \subseteq Chats /\ events' \in Nat
  BY DEF ClickToast, Typed, PipesTyped
<1>2. /\ IsList(rows) /\ active \in Chats \cup {NoChat} /\ held \in Chats \cup {NoChat}
      /\ held \notin DOMAIN rows /\ toDaemon \in Seq(ToDaemon) /\ opened \in BOOLEAN
      /\ badge' = badge /\ fresh' = fresh
  BY <1>1 DEF Typed, PanelTyped, PipesTyped, UnchangedBehindLink
<1>3. CASE ClickListed(c) /\ opened
  <2>1. /\ c \in DOMAIN rows /\ active' = c /\ held' = HeldAfter(rows, c, held)
        /\ rows' = Marked(rows, c) /\ Request(<<Read(c)>>) /\ UNCHANGED <<opened, chatsPending>>
    BY <1>3 DEF ClickListed
  <2> QED BY <1>1, <1>3, <2>1, ShowingKeeps
<1>4. CASE ClickListed(c) /\ ~opened
  <2> DEFINE before == <<Read(c)>>
             list == Marked(rows, c)
  <2>1. OnOpened(list, c, held, before)
    BY <1>4 DEF ClickListed
  <2>2. IsList(list) /\ held \notin DOMAIN list
    BY <1>2, MarkedIsList
  <2>3. before \in Seq(ToDaemon) /\ Elems(before) = {Read(c)}
    BY Commands, ElemsOne
  <2>4. \A d \in Chats : Read(d) \in Elems(before) => d = c
    <3> SUFFICES ASSUME NEW d \in Chats, Read(d) = Read(c) PROVE d = c
      BY <2>3
    <3>1. Read(d).chat = d /\ Read(c).chat = c
      BY Commands
    <3> QED BY <3>1
  <2> HIDE DEF before, list
  <2>5. /\ PanelTyped' /\ toDaemon' \in Seq(ToDaemon)
        /\ Elems(toDaemon) \subseteq Elems(toDaemon')
        /\ chatsPending' => chatsPending \/ ~linkUp \/ AskChats \in Elems(toDaemon')
        /\ MarksWhatIsShown
    BY <1>2, <2>1, <2>2, <2>3, <2>4, OnOpenedKeeps
  <2> QED BY <1>1, <2>5, ReaderKeeps DEF Kept
<1>5. CASE ClickUnlisted(c) /\ opened
  <2>1. c \notin DOMAIN rows /\ held' = c /\ UNCHANGED <<opened, active, rows, chatsPending, toDaemon>>
    BY <1>5 DEF ClickUnlisted
  <2>2. PanelTyped'
    BY <1>1, <2>1 DEF Typed, PanelTyped, UnchangedBehindLink
  <2>3. MarksWhatIsShown
    BY <1>2, <2>1, NothingSent
  <2> QED BY <1>1, <1>2, <2>1, <2>2, <2>3, ReaderKeeps DEF Kept
<1>6. CASE ClickUnlisted(c) /\ ~opened
  <2>1. OnOpened(rows, active, c, <<>>) /\ c \notin DOMAIN rows
    BY <1>6 DEF ClickUnlisted
  <2>2. <<>> \in Seq(ToDaemon) /\ Elems(<<>>) = {}
    BY ElemsOne
  <2>3. /\ PanelTyped' /\ toDaemon' \in Seq(ToDaemon)
        /\ Elems(toDaemon) \subseteq Elems(toDaemon')
        /\ chatsPending' => chatsPending \/ ~linkUp \/ AskChats \in Elems(toDaemon')
        /\ MarksWhatIsShown
    BY <1>2, <2>1, <2>2, OnOpenedKeeps
  <2> QED BY <1>1, <2>3, ReaderKeeps DEF Kept
<1> QED BY <1>1, <1>2, <1>3, <1>4, <1>5, <1>6

-----------------------------------------------------------------------------
(* The client's frames *)

LEMMA SetChatsKeeps ==
  ASSUME Typed, NEW list, IsList(list)
  PROVE  /\ IsList(SetChats(list).rows) /\ SetChats(list).active \in Chats \cup {NoChat}
         /\ SetChats(list).frames \in Seq(ToDaemon)
         /\ \A c \in Chats : Read(c) \in Elems(SetChats(list).frames) => held = c
<1>1. CASE held # NoChat /\ held \in DOMAIN list
  <2>1. /\ SetChats(list).rows = Marked(list, held) /\ SetChats(list).active = held
        /\ SetChats(list).frames = <<Read(held)>>
    BY <1>1 DEF SetChats
  <2>2. held \in Chats
    BY <1>1 DEF IsList
  <2>3. IsList(Marked(list, held))
    BY MarkedIsList
  <2>4. <<Read(held)>> \in Seq(ToDaemon) /\ Elems(<<Read(held)>>) = {Read(held)}
    BY <2>2, Commands, ElemsOne
  <2>5. \A c \in Chats : Read(c) = Read(held) => held = c
    <3>1. \A c : Read(c).chat = c
      BY Commands
    <3> QED BY <3>1
  <2> QED BY <2>1, <2>2, <2>3, <2>4, <2>5
<1>2. CASE ~(held # NoChat /\ held \in DOMAIN list)
  <2>1. /\ SetChats(list).rows = list /\ SetChats(list).active = active
        /\ SetChats(list).frames = <<>>
    BY <1>2 DEF SetChats
  <2>2. Elems(<<>>) = {} /\ <<>> \in Seq(ToDaemon)
    BY ElemsOne
  <2> QED BY <2>1, <2>2 DEF Typed, PanelTyped
<1> QED BY <1>1, <1>2

LEMMA HandleFrameKeeps == ASSUME Typed, HandleFrame PROVE Kept
<1> DEFINE frame == Head(toClient)
<1>1. /\ linkUp /\ toClient # <<>> /\ toClient' = Tail(toClient)
      /\ OnState(frame) \/ OnChats(frame) \/ OnMessage(frame) \/ OnError(frame)
      /\ UNCHANGED <<linkVars, mac, storeVars, sweeps, untold, toasts, events>>
  BY DEF HandleFrame
<1>2. /\ toClient \in Seq(Frames) /\ toDaemon \in Seq(ToDaemon) /\ PanelTyped
  BY DEF Typed, PipesTyped
<1>3. frame \in Frames /\ toClient' \in Seq(Frames) /\ Elems(toClient) = {frame} \cup Elems(toClient')
  BY <1>1, <1>2, ElemsTail
<1> HIDE DEF frame
<1>4. /\ frame.t = "state" => frame.unread \in Nat
      /\ frame.t = "chats" => IsList(frame.rows) /\ frame.unread \in Nat
      /\ frame.t = "message" => frame.chat \in Chats /\ frame.row \in Row /\ frame.unread \in Nat
  BY <1>3, FramesAreFrames
<1>5. ASSUME PanelTyped', toDaemon' \in Seq(ToDaemon), Elems(toDaemon) \subseteq Elems(toDaemon'),
             chatsPending' => chatsPending /\ frame.t \notin {"chats", "error"}
      PROVE  Typed' /\ (PendingIsUnderWay => PendingIsUnderWay')
  <2>1. Typed'
    BY <1>1, <1>3, <1>5 DEF Typed, StoreTyped, MacTyped, PipesTyped, storeVars, linkVars
  <2>2. sweeps' = sweeps /\ linkUp' = linkUp
    BY <1>1 DEF linkVars
  <2> QED BY <1>3, <1>5, <2>1, <2>2 DEF PendingIsUnderWay, Cold
<1>6. ASSUME NEW frames \in Seq(ToDaemon), Request(frames)
      PROVE  /\ toDaemon' \in Seq(ToDaemon) /\ Elems(toDaemon) \subseteq Elems(toDaemon')
             /\ Sent \subseteq Elems(frames)
  BY <1>2, <1>6, RequestSends
<1>7. CASE OnState(frame) \/ OnError(frame)
  <2>1. /\ toDaemon' = toDaemon /\ opened' = opened /\ active' = active /\ held' = held /\ rows' = rows
        /\ fresh' = fresh /\ badge' \in Nat
        /\ chatsPending' \in BOOLEAN
        /\ chatsPending' => chatsPending /\ frame.t \notin {"chats", "error"}
    <3>1. CASE OnState(frame)
      BY <1>2, <1>4, <3>1 DEF OnState, readerVars, PanelTyped
    <3>2. CASE OnError(frame)
      BY <1>2, <3>2 DEF OnError, readerVars, PanelTyped
    <3> QED BY <1>7, <3>1, <3>2
  <2>2. PanelTyped'
    BY <1>2, <2>1 DEF PanelTyped
  <2>3. MarksWhatIsShown
    BY <1>2, <2>1, NothingSent
  <2> QED BY <1>2, <1>5, <2>1, <2>2, <2>3 DEF Kept
<1>8. CASE OnChats(frame)
  <2> DEFINE set == SetChats(frame.rows)
  <2>1. /\ frame.t = "chats" /\ rows' = set.rows /\ active' = set.active /\ Request(set.frames)
        /\ held' = NoChat /\ chatsPending' = FALSE /\ fresh' = TRUE /\ badge' = frame.unread
        /\ opened' = opened
    BY <1>8 DEF OnChats, Spent
  <2>2. /\ IsList(set.rows) /\ set.active \in Chats \cup {NoChat} /\ set.frames \in Seq(ToDaemon)
        /\ \A c \in Chats : Read(c) \in Elems(set.frames) => held = c
    BY <1>4, <2>1, SetChatsKeeps
  <2> HIDE DEF set
  <2>3. PanelTyped'
    BY <1>2, <1>4, <2>1, <2>2, PanelAssumptions DEF PanelTyped, IsList
  <2>4. /\ toDaemon' \in Seq(ToDaemon) /\ Elems(toDaemon) \subseteq Elems(toDaemon')
        /\ Sent \subseteq Elems(set.frames)
    BY <1>6, <2>1, <2>2
  <2>5. MarksWhatIsShown
    BY <2>2, <2>4 DEF MarksWhatIsShown
  <2> QED BY <1>5, <2>1, <2>3, <2>4, <2>5 DEF Kept
<1>9. CASE OnMessage(frame)
  <2> DEFINE c    == frame.chat
             list == [d \in DOMAIN rows \cup {c} |-> IF d = c THEN frame.row ELSE rows[d]]
             set  == SetChats(list)
             seen == SeenNow(c, set.active)
             frames == IF seen THEN Append(set.frames, Read(c)) ELSE set.frames
  <2>1. /\ frame.t = "message" /\ rows' = (IF seen THEN Marked(set.rows, c) ELSE set.rows)
        /\ active' = set.active /\ Request(frames)
        /\ held' = NoChat /\ badge' = frame.unread
        /\ UNCHANGED <<opened, chatsPending, fresh>>
    BY <1>9 DEF OnMessage, Spent
  <2>2. c \in Chats /\ IsList(list)
    <3>1. IsList(rows) /\ c \in Chats /\ frame.row \in Row
      BY <1>2, <1>4, <2>1 DEF PanelTyped
    <3>2. DOMAIN list = DOMAIN rows \cup {c} /\ list \in [DOMAIN rows \cup {c} -> Row]
      BY <3>1 DEF IsList
    <3> HIDE DEF list
    <3> QED BY <3>1, <3>2 DEF IsList
  <2> HIDE DEF list
  <2>3. /\ IsList(set.rows) /\ set.active \in Chats \cup {NoChat} /\ set.frames \in Seq(ToDaemon)
        /\ \A d \in Chats : Read(d) \in Elems(set.frames) => held = d
    BY <2>2, SetChatsKeeps
  <2> HIDE DEF set, c
  <2>4. IsList(rows')
    BY <2>1, <2>3, MarkedIsList
  <2>5. PanelTyped'
    BY <1>2, <1>4, <2>1, <2>3, <2>4, PanelAssumptions DEF PanelTyped, IsList
  <2>6. /\ frames \in Seq(ToDaemon)
        /\ \A d \in Chats : Read(d) \in Elems(frames) => held = d \/ (seen /\ d = c)
    <3>1. Read(c) \in ToDaemon
      BY <2>2, Commands
    <3>2. Append(set.frames, Read(c)) \in Seq(ToDaemon)
          /\ Elems(Append(set.frames, Read(c))) = Elems(set.frames) \cup {Read(c)}
      BY <2>3, <3>1, ElemsAppend
    <3>3. \A d : Read(d) = Read(c) => d = c
      <4>1. \A d : Read(d).chat = d
        BY Commands
      <4> QED BY <4>1
    <3> QED BY <2>3, <3>2, <3>3
  <2> HIDE DEF frames
  <2>7. /\ toDaemon' \in Seq(ToDaemon) /\ Elems(toDaemon) \subseteq Elems(toDaemon')
        /\ Sent \subseteq Elems(frames)
    BY <1>6, <2>1, <2>6
  <2>8. seen => opened' /\ active' = c
    BY <2>1 DEF SeenNow
  <2>9. MarksWhatIsShown
    BY <2>6, <2>7, <2>8 DEF MarksWhatIsShown
  <2> QED BY <1>5, <2>1, <2>5, <2>7, <2>9 DEF Kept
<1> QED BY <1>1, <1>7, <1>8, <1>9

-----------------------------------------------------------------------------
(* The sweeps under way *)

LEMMA UnderwayTyped ==
  ASSUME sweeps \in Seq(Underway)
  PROVE  /\ \A i \in DOMAIN sweeps :
              /\ sweeps[i].served \in Served /\ sweeps[i].answered \in BOOLEAN
              /\ sweeps[i].times \in [Chats -> Nat]
         /\ \A sweep \in Elems(sweeps) : sweep.times \in [Chats -> Nat]
<1>1. \A i \in DOMAIN sweeps : sweeps[i] \in Underway
  OBVIOUS
<1>2. \A sweep \in Underway : /\ sweep.served \in Served /\ sweep.answered \in BOOLEAN
                             /\ sweep.times \in [Chats -> Nat]
  BY DEF Underway
<1> QED BY <1>1, <1>2 DEF Elems

LEMMA GoneTyped ==
  ASSUME sweeps \in Seq(Underway),
         sweeps' = [i \in DOMAIN sweeps |-> [sweeps[i] EXCEPT !.served = Gone]]
  PROVE  /\ sweeps' \in Seq(Underway)
         /\ \A sweep \in Elems(sweeps') : \E old \in Elems(sweeps) : sweep.times = old.times
<1>1. /\ DOMAIN sweeps = 1..Len(sweeps) /\ Len(sweeps) \in Nat
      /\ \A i \in DOMAIN sweeps : sweeps[i] \in Underway
  OBVIOUS
<1>2. \A i \in DOMAIN sweeps : /\ [sweeps[i] EXCEPT !.served = Gone] \in Underway
                              /\ [sweeps[i] EXCEPT !.served = Gone].times = sweeps[i].times
  BY <1>1 DEF Underway, Served
<1>3. DOMAIN sweeps' = 1..Len(sweeps) /\ \A i \in 1..Len(sweeps) : sweeps'[i] \in Underway
  BY <1>1, <1>2
<1>4. sweeps' \in Seq(Underway)
  BY <1>1, <1>2
<1>5. \A i \in DOMAIN sweeps' : sweeps'[i].times = sweeps[i].times /\ i \in DOMAIN sweeps
  BY <1>2
<1> QED BY <1>4, <1>5 DEF Elems

LEMMA ServedTyped ==
  ASSUME sweeps \in Seq(Underway), NEW i \in DOMAIN sweeps, mac \in [Chats -> Nat],
         MacServesSweep(i)
  PROVE  /\ sweeps' \in Seq(Underway)
         /\ Cold => Cold'
         /\ \A sweep \in Elems(sweeps') : \E old \in Elems(sweeps) : sweep.times \in {old.times, mac}
<1> DEFINE new == [sweeps[i] EXCEPT !.answered = TRUE, !.times = mac]
<1>1. /\ DOMAIN sweeps = 1..Len(sweeps) /\ Len(sweeps) \in Nat
      /\ \A k \in DOMAIN sweeps : sweeps[k] \in Underway
  OBVIOUS
<1>2. new \in Underway /\ new.served = sweeps[i].served /\ new.times = mac
  BY <1>1 DEF Underway
<1>3. sweeps' = [sweeps EXCEPT ![i] = new]
  BY <1>1 DEF MacServesSweep
<1> HIDE DEF new
<1>4. sweeps' \in Seq(Underway) /\ DOMAIN sweeps' = DOMAIN sweeps
  BY <1>1, <1>2, <1>3
<1>5. \A k \in DOMAIN sweeps : sweeps'[k] = IF k = i THEN new ELSE sweeps[k]
  BY <1>1, <1>3
<1>6. \A k \in DOMAIN sweeps :
        sweeps'[k].served = sweeps[k].served /\ sweeps'[k].times \in {sweeps[k].times, mac}
  BY <1>2, <1>5
<1> QED BY <1>4, <1>6 DEF Elems, Cold

LEMMA SweepTyped ==
  ASSUME NEW served \in Served
  PROVE  /\ Sweep(served) \in Underway /\ Sweep(served).served = served
         /\ Sweep(served).times = Zero
<1>1. Zero \in [Chats -> Nat]
  BY DEF Zero
<1> QED BY <1>1 DEF Sweep, Underway

-----------------------------------------------------------------------------
(* The link *)

LEMMA LinkKeeps ==
  ASSUME Typed, DropLink \/ RestartShell \/ Reconnect \/ LinkEstablished
  PROVE  Kept
<1> USE DEF linkVars, storeVars, readerVars, listVars
<1>t. /\ StoreTyped /\ MacTyped /\ PanelTyped /\ PipesTyped
      /\ toDaemon \in Seq(ToDaemon) /\ toClient \in Seq(Frames) /\ sweeps \in Seq(Underway)
  BY DEF Typed, PipesTyped
<1>1. CASE DropLink \/ RestartShell
  <2>1. /\ LoseLink /\ events' = events + 1
        /\ \/ UNCHANGED <<opened, active, held, rows, badge, chatsPending, fresh>>
           \/ /\ opened' = FALSE /\ active' = NoChat /\ held' = NoChat
              /\ rows' = NoRows /\ badge' = 0 /\ chatsPending' = FALSE /\ fresh' = FALSE
    BY <1>1 DEF DropLink, RestartShell, Event
  <2>2. /\ linkUp' = FALSE /\ established' = FALSE /\ toDaemon' = <<>> /\ toClient' = <<>>
        /\ sweeps' = [i \in DOMAIN sweeps |-> [sweeps[i] EXCEPT !.served = Gone]]
        /\ untold' = {} /\ UNCHANGED <<mac, last, inbound, openedTs, swept, pins, toasts>>
    BY <2>1 DEF LoseLink
  <2>3. sweeps' \in Seq(Underway)
    BY <1>t, <2>2, GoneTyped
  <2>4. IsList(NoRows) /\ DOMAIN NoRows = {}
    BY DEF IsList, NoRows
  <2>5. PanelTyped'
    <3>1. CASE UNCHANGED <<opened, active, held, rows, badge, chatsPending, fresh>>
      BY <1>t, <3>1 DEF PanelTyped
    <3>2. CASE /\ opened' = FALSE /\ active' = NoChat /\ held' = NoChat
               /\ rows' = NoRows /\ badge' = 0 /\ chatsPending' = FALSE /\ fresh' = FALSE
      <4>1. IsList(rows') /\ held' \notin DOMAIN rows'
        BY <2>4, <3>2
      <4> QED BY <3>2, <4>1 DEF PanelTyped
    <3> QED BY <2>1, <3>1, <3>2
  <2>6. StoreTyped' /\ MacTyped' /\ PipesTyped'
    <3>1. StoreTyped' /\ MacTyped'
      BY <1>t, <2>2 DEF StoreTyped, MacTyped
    <3>2. <<>> \in Seq(ToDaemon) /\ <<>> \in Seq(Frames)
      OBVIOUS
    <3>3. toasts' \subseteq Chats /\ untold' \subseteq Chats /\ events' \in Nat
      BY <1>t, <2>1, <2>2 DEF PipesTyped
    <3> QED BY <2>2, <2>3, <3>1, <3>2, <3>3 DEF PipesTyped
  <2>7. MarksWhatIsShown
    BY <1>t, <2>2, NothingSent
  <2> QED BY <2>2, <2>5, <2>6, <2>7 DEF Kept, Typed, PendingIsUnderWay
<1>2. CASE Reconnect
  <2>1. /\ linkUp' = TRUE /\ chatsPending' = FALSE /\ fresh' = FALSE
        /\ toClient' = <<StateFrame(UnreadChats)>>
        /\ UNCHANGED <<opened, active, held, rows, badge, established, toDaemon, mac, last, inbound,
                       openedTs, swept, pins, sweeps, untold, toasts, events>>
    BY <1>2 DEF Reconnect
  <2>2. StateFrame(UnreadChats) \in Frames
    BY <1>t, ListOfStore DEF StateFrame, Frames
  <2>3. toClient' \in Seq(Frames)
    BY <2>1, <2>2
  <2>4. PanelTyped' /\ StoreTyped' /\ MacTyped' /\ PipesTyped'
    BY <1>t, <2>1, <2>3 DEF PanelTyped, StoreTyped, MacTyped, PipesTyped
  <2>5. MarksWhatIsShown
    BY <1>t, <2>1, NothingSent
  <2> QED BY <2>1, <2>4, <2>5 DEF Kept, Typed, PendingIsUnderWay
<1>3. CASE LinkEstablished
  <2> DEFINE frames == <<Hello, AskChats>>
  <2>1. /\ linkUp /\ established' = TRUE /\ chatsPending' = TRUE /\ Request(frames)
        /\ UNCHANGED <<opened, active, held, rows, badge, fresh, linkUp, toClient, mac, last, inbound,
                       openedTs, swept, pins, sweeps, untold, toasts, events>>
    BY <1>3 DEF LinkEstablished
  <2>2. frames \in Seq(ToDaemon) /\ Elems(frames) = {Hello, AskChats}
    BY Commands DEF Elems
  <2> HIDE DEF frames
  <2>3. /\ toDaemon' \in Seq(ToDaemon) /\ AskChats \in Elems(toDaemon')
        /\ Sent \subseteq {Hello, AskChats}
    BY <1>t, <2>1, <2>2, RequestSends
  <2>4. MarksWhatIsShown
    BY <2>3, Commands DEF MarksWhatIsShown
  <2>5. PanelTyped' /\ StoreTyped' /\ MacTyped' /\ PipesTyped'
    BY <1>t, <2>1, <2>3 DEF PanelTyped, StoreTyped, MacTyped, PipesTyped
  <2> QED BY <2>3, <2>4, <2>5 DEF Kept, Typed, PendingIsUnderWay
<1> QED BY <1>1, <1>2, <1>3

-----------------------------------------------------------------------------
(* The daemon *)

LEMMA DaemonKeeps ==
  ASSUME Typed, UnchangedAtPanel, StoreTyped', MacTyped',
         toDaemon' = toDaemon \/ (toDaemon # <<>> /\ toDaemon' = Tail(toDaemon)),
         toClient' \in Seq(Frames), sweeps' \in Seq(Underway), untold' \subseteq Chats,
         toasts' \subseteq Chats, events' \in Nat,
         Elems(toClient) \subseteq Elems(toClient'),
         linkUp /\ AskChats \in Elems(toDaemon) /\ AskChats \notin Elems(toDaemon') =>
           \/ Cold'
           \/ \E frame \in Elems(toClient') : frame.t \in {"chats", "error"},
         linkUp /\ Cold /\ ~Cold' =>
           \E frame \in Elems(toClient') : frame.t \in {"chats", "error"}
  PROVE  Kept
<1> USE DEF UnchangedAtPanel, readerVars, listVars, linkVars
<1>1. toDaemon \in Seq(ToDaemon) /\ PanelTyped /\ PipesTyped
  BY DEF Typed, PipesTyped
<1>2. toDaemon' \in Seq(ToDaemon)
  <2>1. CASE toDaemon' = toDaemon
    BY <1>1, <2>1
  <2>2. CASE toDaemon # <<>> /\ toDaemon' = Tail(toDaemon)
    BY <1>1, <2>2
  <2> QED BY <2>1, <2>2
<1>3. Typed'
  BY <1>1, <1>2 DEF Typed, PanelTyped, PipesTyped
<1>4. PendingIsUnderWay => PendingIsUnderWay'
  <2>1. linkUp' = linkUp /\ chatsPending' = chatsPending
    OBVIOUS
  <2> QED BY <2>1 DEF PendingIsUnderWay
<1>5. MarksWhatIsShown
  BY <1>1, NothingSent
<1> QED BY <1>3, <1>4, <1>5 DEF Kept

LEMMA ListOfStorePrimed == StoreTyped' => IsList(ChatList') /\ UnreadChats' \in Nat
<1>1. (StoreTyped => IsList(ChatList) /\ UnreadChats \in Nat)'
  BY ListOfStore, PTL
<1>2. StoreTyped' => IsList(ChatList)' /\ (UnreadChats \in Nat)'
  BY <1>1
<1> QED BY <1>2 DEF IsList

LEMMA EmitsTyped ==
  /\ StoreTyped' => StateFrame(UnreadChats') \in Frames /\ ChatsFrame(ChatList', UnreadChats') \in ChatsFrames
  /\ StoreTyped' => ChatsFrame(Page(ChatList'), UnreadChats') \in ChatsFrames
  /\ StoreTyped => ChatsFrame(Page(ChatList), UnreadChats) \in ChatsFrames
  /\ ChatsFrames \subseteq Frames /\ ChatsError \in Frames /\ ChatsError.t = "error"
<1>1. StoreTyped' => StateFrame(UnreadChats') \in Frames
  BY ListOfStorePrimed DEF StateFrame, Frames
<1>2. \A list, n : IsList(list) /\ n \in Nat => ChatsFrame(list, n) \in ChatsFrames
  BY ListsAreLists DEF ChatsFrames
<1>3. StoreTyped' => ChatsFrame(ChatList', UnreadChats') \in ChatsFrames
  BY <1>2, ListOfStorePrimed
<1>4. StoreTyped' => ChatsFrame(Page(ChatList'), UnreadChats') \in ChatsFrames
  BY <1>2, ListOfStorePrimed, PageOfList
<1>5. StoreTyped => ChatsFrame(Page(ChatList), UnreadChats) \in ChatsFrames
  BY <1>2, ListOfStore, PageOfList
<1>6. ChatsFrames \subseteq Frames /\ ChatsError \in Frames /\ ChatsError.t = "error"
  BY DEF Frames, ChatsError
<1> QED BY <1>1, <1>3, <1>4, <1>5, <1>6

LEMMA MarkReadTyped ==
  ASSUME StoreTyped, NEW c \in Chats, MarkRead(c)
  PROVE  StoreTyped'
<1>1. Through(c) \in Nat
  BY DEF StoreTyped, Through
<1> QED BY <1>1 DEF StoreTyped, MarkRead

LEMMA HandleCommandKeeps == ASSUME Typed, HandleCommand PROVE Kept
<1> USE DEF storeVars
<1>1. /\ toDaemon # <<>> /\ toDaemon' = Tail(toDaemon)
      /\ HandleHello \/ HandleChats \/ HandleRead \/ HandlePin
      /\ UnchangedAtPanel /\ UNCHANGED <<mac, toasts, events>>
  BY DEF HandleCommand
<1>u. untold' \subseteq Chats
  <2>1. untold' \in {untold, {}}
    BY <1>1 DEF HandleHello, HandleChats, HandleRead, HandlePin
  <2> QED BY <2>1 DEF Typed, PipesTyped
<1>2. /\ StoreTyped /\ MacTyped' /\ toDaemon \in Seq(ToDaemon) /\ toClient \in Seq(Frames)
      /\ sweeps \in Seq(Underway) /\ untold' \subseteq Chats /\ toasts' \subseteq Chats /\ events' \in Nat
  BY <1>1, <1>u DEF Typed, MacTyped, PipesTyped
<1>3. Elems(toDaemon) = {Head(toDaemon)} \cup Elems(toDaemon')
  BY <1>1, <1>2, ElemsTail
<1>4. ASSUME StoreTyped', NEW frame \in Frames, Emit(frame), sweeps' = sweeps,
             Head(toDaemon) # AskChats
      PROVE  Kept
  <2>1. toClient' \in Seq(Frames) /\ Elems(toClient) \subseteq Elems(toClient')
    BY <1>2, <1>4, EmitSends
  <2>2. AskChats \in Elems(toDaemon) => AskChats \in Elems(toDaemon')
    BY <1>3, <1>4
  <2>3. sweeps' \in Seq(Underway) /\ (Cold => Cold')
    BY <1>2, <1>4 DEF Cold
  <2> QED BY <1>1, <1>2, <1>4, <2>1, <2>2, <2>3, DaemonKeeps
<1>5. CASE HandleHello
  <2>1. StoreTyped' /\ sweeps' = sweeps /\ Emit(StateFrame(UnreadChats')) /\ Head(toDaemon) # AskChats
    BY <1>2, <1>5, Commands DEF HandleHello, EmitState, StoreTyped
  <2> QED BY <1>4, <2>1, EmitsTyped
<1>6. CASE HandleRead
  <2>1. PICK c \in Chats : /\ Head(toDaemon) = Read(c) /\ MarkRead(c) /\ EmitState
                           /\ sweeps' = sweeps
    BY <1>6 DEF HandleRead
  <2>2. StoreTyped'
    BY <1>2, <2>1, MarkReadTyped
  <2>3. Head(toDaemon) # AskChats /\ Emit(StateFrame(UnreadChats'))
    BY <2>1, Commands DEF EmitState
  <2> QED BY <1>4, <2>1, <2>2, <2>3, EmitsTyped
<1>7. CASE HandlePin
  <2>1. PICK c \in Chats, p \in BOOLEAN :
          /\ Head(toDaemon) = Pin(c, p)
          /\ pins' = IF p THEN pins \cup {c} ELSE pins \ {c}
          /\ UNCHANGED <<last, inbound, openedTs, swept>>
          /\ EmitChats /\ sweeps' = sweeps
    BY <1>7 DEF HandlePin
  <2>2. StoreTyped'
    BY <1>2, <2>1 DEF StoreTyped
  <2>3. Head(toDaemon) # AskChats /\ Emit(ChatsFrame(ChatList', UnreadChats'))
    BY <2>1, Commands DEF EmitChats
  <2>4. ChatsFrame(ChatList', UnreadChats') \in Frames
    BY <2>2, EmitsTyped
  <2> QED BY <1>4, <2>1, <2>2, <2>3, <2>4
<1>8. CASE HandleChats
  <2> DEFINE reply == ChatsFrame(Page(ChatList), UnreadChats)
  <2>1. /\ StoreTyped'
        /\ \/ Emit(reply) /\ sweeps' = Append(sweeps, Sweep(reply))
           \/ sweeps' = Append(sweeps, Sweep(Nothing)) /\ toClient' = toClient
    BY <1>2, <1>8 DEF HandleChats, StoreTyped
  <2>2. reply \in ChatsFrames /\ reply \in Frames /\ reply \in Served /\ reply.t = "chats"
    BY <1>2, EmitsTyped, FramesAreFrames DEF Served
  <2>3. /\ Sweep(reply) \in Underway
        /\ Sweep(Nothing) \in Underway /\ Sweep(Nothing).served = Nothing
    <3>1. Nothing \in Served
      BY DEF Served
    <3> HIDE DEF reply
    <3> QED BY <2>2, <3>1, SweepTyped
  <2> HIDE DEF reply
  <2>4. CASE Emit(reply) /\ sweeps' = Append(sweeps, Sweep(reply))
    <3>1. /\ toClient' \in Seq(Frames) /\ Elems(toClient) \subseteq Elems(toClient')
          /\ linkUp => reply \in Elems(toClient')
      BY <1>2, <2>2, <2>4, EmitSends
    <3>2. sweeps' \in Seq(Underway) /\ (Cold => Cold')
      BY <1>2, <2>3, <2>4, ElemsAppend DEF Cold
    <3> QED BY <1>1, <1>2, <2>1, <2>2, <3>1, <3>2, DaemonKeeps
  <2>5. CASE sweeps' = Append(sweeps, Sweep(Nothing)) /\ toClient' = toClient
    <3>1. sweeps' \in Seq(Underway) /\ Cold'
      BY <1>2, <2>3, <2>5, ElemsAppend DEF Cold
    <3> QED BY <1>1, <1>2, <2>1, <2>5, <3>1, DaemonKeeps
  <2> QED BY <2>1, <2>4, <2>5
<1> QED BY <1>1, <1>5, <1>6, <1>7, <1>8

LEMMA SweepServedKeeps == ASSUME Typed, NEW i \in DOMAIN sweeps, MacServesSweep(i) PROVE Kept
<1>1. /\ StoreTyped /\ MacTyped /\ PipesTyped /\ sweeps \in Seq(Underway)
      /\ mac \in [Chats -> Nat]
  BY DEF Typed, MacTyped, PipesTyped
<1>2. /\ UnchangedAtPanel
      /\ UNCHANGED <<toDaemon, toClient, mac, last, inbound, openedTs, swept, pins, untold,
                     toasts, events>>
  BY DEF MacServesSweep, storeVars
<1>3. sweeps' \in Seq(Underway) /\ (Cold => Cold')
  BY <1>1, ServedTyped
<1>4. StoreTyped' /\ MacTyped'
  BY <1>1, <1>2 DEF StoreTyped, MacTyped
<1>5. /\ toClient' \in Seq(Frames) /\ untold' \subseteq Chats /\ toasts' \subseteq Chats
      /\ events' \in Nat /\ Elems(toClient) \subseteq Elems(toClient')
      /\ Elems(toDaemon') = Elems(toDaemon)
  BY <1>1, <1>2 DEF PipesTyped
<1> QED BY <1>2, <1>3, <1>4, <1>5, DaemonKeeps

LEMMA SweepKeeps == ASSUME Typed, NEW i \in DOMAIN sweeps, SweepLands(i) \/ SweepFails(i) PROVE Kept
<1> USE DEF storeVars
<1>1. /\ StoreTyped /\ MacTyped /\ toDaemon \in Seq(ToDaemon) /\ toClient \in Seq(Frames)
      /\ sweeps \in Seq(Underway) /\ untold \subseteq Chats /\ toasts \subseteq Chats /\ events \in Nat
      /\ mac \in [Chats -> Nat]
  BY DEF Typed, MacTyped, PipesTyped
<1>2. /\ WithoutIndex(sweeps, i) \in Seq(Underway)
      /\ Elems(sweeps) \subseteq {sweeps[i]} \cup Elems(WithoutIndex(sweeps, i))
  BY <1>1, ElemsWithout
<1>3. ASSUME StoreTyped', MacTyped', UnchangedAtPanel, toDaemon' = toDaemon, toasts' = toasts,
             untold' \subseteq Chats, events' \in Nat, sweeps' = WithoutIndex(sweeps, i),
             NEW frame \in Frames, frame.t \in {"chats", "error"},
             Emit(frame) \/ toClient' = toClient, sweeps[i].served = Nothing => Emit(frame)
      PROVE  Kept
  <2>1. /\ toClient' \in Seq(Frames) /\ Elems(toClient) \subseteq Elems(toClient')
        /\ linkUp /\ Emit(frame) => frame \in Elems(toClient')
    BY <1>1, <1>3, EmitSends
  <2>2. Cold /\ ~Cold' => sweeps[i].served = Nothing
    BY <1>2, <1>3 DEF Cold
  <2>3. sweeps' \in Seq(Underway)
    BY <1>2, <1>3
  <2>4. linkUp /\ Cold /\ ~Cold' =>
          \E f \in Elems(toClient') : f.t \in {"chats", "error"}
    BY <1>3, <2>1, <2>2
  <2> QED BY <1>1, <1>3, <2>1, <2>3, <2>4, DaemonKeeps
<1>4. CASE SweepLands(i)
  <2> DEFINE reply == ChatsFrame(Page(ChatList'), UnreadChats')
  <2>1. /\ last' = Replaced(sweeps[i].times) /\ swept' = TRUE /\ UNCHANGED <<inbound, openedTs, pins>>
        /\ UnchangedAtPanel /\ UNCHANGED <<toDaemon, mac, toasts, events>>
        /\ sweeps' = WithoutIndex(sweeps, i)
        /\ SweepTells(sweeps[i].served, Page(ChatList'))
    BY <1>4 DEF SweepLands
  <2>3. StoreTyped' /\ MacTyped'
    <3>1. sweeps[i].times \in [Chats -> Nat]
      BY <1>1, UnderwayTyped
    <3>2. Replaced(sweeps[i].times) \in [Chats -> Nat]
      BY <1>1, <3>1 DEF Replaced, StoreTyped
    <3> QED BY <1>1, <2>1, <3>2 DEF StoreTyped, MacTyped
  <2>2. untold' \subseteq Chats
    <3>1. Moved \subseteq Chats
      <4>1. DOMAIN Page(ChatList') \subseteq Chats
        BY <2>3, ListOfStorePrimed, PageOfList DEF IsList
      <4> QED BY <4>1 DEF Moved
    <3>2. untold' \in {untold, untold \cup Moved, {}}
      BY <2>1 DEF SweepTells
    <3> QED BY <1>1, <3>1, <3>2
  <2>4. reply \in Frames /\ reply.t = "chats"
    BY <2>3, EmitsTyped, FramesAreFrames
  <2>5. Emit(reply) \/ toClient' = toClient
    BY <2>1, Zenon DEF SweepTells
  <2>6. sweeps[i].served = Nothing => Emit(reply)
    <3>1. Nothing # Gone
      BY DEF Nothing, Gone
    <3> QED BY <2>1, <3>1, Zenon DEF SweepTells
  <2> HIDE DEF reply
  <2> QED BY <1>1, <1>3, <2>1, <2>2, <2>3, <2>4, <2>5, <2>6
<1>5. CASE SweepFails(i)
  <2>1. /\ UNCHANGED <<readerVars, listVars, linkVars, toDaemon, mac, storeVars, untold, toasts>>
        /\ events' = events + 1 /\ sweeps' = WithoutIndex(sweeps, i)
        /\ Emit(ChatsError) \/ toClient' = toClient
        /\ sweeps[i].served = Nothing => Emit(ChatsError)
    BY <1>5 DEF SweepFails, Event
  <2>2. StoreTyped' /\ MacTyped' /\ UnchangedAtPanel
    BY <1>1, <2>1 DEF StoreTyped, MacTyped, UnchangedAtPanel
  <2> QED BY <1>1, <1>3, <2>1, <2>2, EmitsTyped
<1> QED BY <1>4, <1>5

LEMMA ElsewhereKeeps ==
  ASSUME Typed, NEW c \in Chats, NEW onPhone \in BOOLEAN, ReadElsewhere(c, onPhone)
  PROVE  Kept
<1>1. /\ MarkRead(c) /\ UnchangedAtPanel
      /\ EmitChats \/ EmitState
      /\ events' = events + 1
      /\ untold' \in {untold, {}} /\ UNCHANGED <<toDaemon, mac, sweeps, toasts>>
  BY DEF ReadElsewhere, Event
<1>2. /\ StoreTyped' /\ MacTyped' /\ toClient \in Seq(Frames) /\ sweeps \in Seq(Underway)
      /\ untold \subseteq Chats /\ toasts \subseteq Chats /\ events \in Nat
  <2>1. StoreTyped'
    BY <1>1, MarkReadTyped DEF Typed
  <2>2. MacTyped'
    BY <1>1 DEF Typed, MacTyped
  <2> QED BY <2>1, <2>2 DEF Typed, PipesTyped
<1>3. PICK frame \in Frames : Emit(frame)
  BY <1>1, <1>2, EmitsTyped DEF EmitChats, EmitState
<1>4. toClient' \in Seq(Frames) /\ Elems(toClient) \subseteq Elems(toClient')
  BY <1>2, <1>3, EmitSends
<1>5. (Cold => Cold') /\ Elems(toDaemon') = Elems(toDaemon) /\ untold' \subseteq Chats
  BY <1>1, <1>2 DEF Cold
<1> QED BY <1>1, <1>2, <1>4, <1>5, DaemonKeeps

LEMMA MacKeeps ==
  ASSUME Typed, NEW c \in Chats, NEW own \in BOOLEAN, NEW pushed \in BOOLEAN,
         MacMessage(c, own, pushed)
  PROVE  Kept
<1> USE DEF storeVars
<1>1. /\ StoreTyped /\ MacTyped /\ toClient \in Seq(Frames) /\ sweeps \in Seq(Underway)
      /\ untold \subseteq Chats /\ toasts \subseteq Chats /\ events \in Nat
      /\ mac \in [Chats -> Nat]
  BY DEF Typed, MacTyped, PipesTyped
<1>2. Top \in Nat /\ \A d \in Chats : mac[d] <= Top
  <2>1. \E n \in {mac[d] : d \in Chats} : \A d \in Chats : mac[d] <= n
    BY <1>1 DEF MacTyped
  <2>2. Top \in {mac[d] : d \in Chats} /\ \A d \in Chats : mac[d] <= Top
    BY <2>1 DEF Top
  <2> QED BY <1>1, <2>2
<1>3. /\ mac' = [mac EXCEPT ![c] = Top + 1] /\ events' = events + 1
      /\ \/ HandleMessage(c, own, Top + 1)
         \/ UNCHANGED <<last, inbound, openedTs, swept, pins, toClient, untold, toasts>>
      /\ UnchangedAtPanel /\ UNCHANGED <<toDaemon, sweeps>>
  BY DEF MacMessage, Event
<1> HIDE DEF Top
<1>4. MacTyped'
  <2>1. mac' \in [Chats -> Nat] /\ \A d \in Chats : mac'[d] <= mac'[c]
    BY <1>1, <1>2, <1>3
  <2> QED BY <2>1 DEF MacTyped
<1>5. CASE HandleMessage(c, own, Top + 1)
  <2>1. /\ last' = [last EXCEPT ![c] = Top + 1]
        /\ inbound' \in {inbound, [inbound EXCEPT ![c] = Top + 1]}
        /\ UNCHANGED <<openedTs, swept, pins>>
        /\ Emit(MessageFrame(c, RowOf(c)', UnreadChats'))
        /\ toasts' \in {toasts, toasts \cup {c}} /\ untold' = untold \ {c}
    BY <1>5 DEF HandleMessage, Post
  <2>2. StoreTyped'
    <3>1. last' \in [Chats -> Nat]
      BY <1>1, <1>2, <2>1 DEF StoreTyped
    <3>2. inbound \in [Chats -> Nat] /\ [inbound EXCEPT ![c] = Top + 1] \in [Chats -> Nat]
      BY <1>1, <1>2 DEF StoreTyped
    <3> QED BY <1>1, <2>1, <3>1, <3>2 DEF StoreTyped
  <2>3. RowOf(c)' \in Row
    BY <2>2 DEF StoreTyped, RowOf, Row, IsUnread
  <2>4. MessageFrame(c, RowOf(c)', UnreadChats') \in Frames
    BY <2>2, <2>3, ListOfStorePrimed DEF Frames, MessageFrames
  <2>5. toClient' \in Seq(Frames) /\ Elems(toClient) \subseteq Elems(toClient')
    BY <1>1, <2>1, <2>4, EmitSends
  <2>6. /\ toasts' \subseteq Chats /\ untold' \subseteq Chats
        /\ (Cold => Cold') /\ Elems(toDaemon') = Elems(toDaemon)
    BY <1>1, <1>3, <2>1 DEF Cold
  <2> QED BY <1>1, <1>3, <1>4, <2>2, <2>5, <2>6, DaemonKeeps
<1>6. CASE UNCHANGED <<last, inbound, openedTs, swept, pins, toClient, untold, toasts>>
  <2>1. StoreTyped'
    BY <1>1, <1>6 DEF StoreTyped
  <2>2. (Cold => Cold') /\ Elems(toDaemon') = Elems(toDaemon)
        /\ Elems(toClient') = Elems(toClient)
    BY <1>3, <1>6 DEF Cold
  <2> QED BY <1>1, <1>3, <1>4, <1>6, <2>1, <2>2, DaemonKeeps
<1> QED BY <1>3, <1>5, <1>6

-----------------------------------------------------------------------------
(* The theorems *)

LEMMA InitKept == Init => Typed /\ PendingIsUnderWay
<1> SUFFICES ASSUME Init PROVE Typed /\ PendingIsUnderWay
  OBVIOUS
<1>1. StoreTyped
  BY PanelAssumptions DEF Init, StoreTyped, Zero
<1>2. MacTyped
  BY PanelAssumptions DEF Init, MacTyped
<1>3. IsList(NoRows) /\ DOMAIN NoRows = {}
  BY DEF IsList, NoRows
<1>4. PanelTyped
  BY <1>3 DEF Init, PanelTyped
<1>5. PipesTyped
  <2>1. <<>> \in Seq(ToDaemon) /\ <<>> \in Seq(Frames) /\ <<>> \in Seq(Underway)
    OBVIOUS
  <2> QED BY <2>1 DEF Init, PipesTyped
<1> QED BY <1>1, <1>2, <1>4, <1>5 DEF Typed, Init, PendingIsUnderWay

LEMMA NextKeeps == ASSUME Typed, Next PROVE Kept
<1>1. ASSUME NEW c \in Chats, OpenThread(c) PROVE Kept
  <2>1. /\ c \in DOMAIN rows /\ opened /\ UnchangedBehindLink
        /\ active' = c /\ held' = HeldAfter(rows, c, held) /\ rows' = Marked(rows, c)
        /\ Request(<<Read(c)>>) /\ UNCHANGED <<opened, chatsPending>>
        /\ toasts' = toasts /\ events' = events
    BY <1>1 DEF OpenThread
  <2>2. toasts' \subseteq Chats /\ events' \in Nat
    BY <2>1 DEF Typed, PipesTyped
  <2> QED BY <2>1, <2>2, ShowingKeeps
<1>2. CASE OpenPanel \/ ClosePanel \/ BackToChats
  BY <1>2, OpenPanelKeeps, LeavingKeeps
<1>3. CASE \E c \in Chats : OpenThread(c) \/ TogglePin(c) \/ ClickToast(c)
  BY <1>1, <1>3, TogglePinKeeps, ClickKeeps
<1>4. CASE HandleFrame \/ HandleCommand
  BY <1>4, HandleFrameKeeps, HandleCommandKeeps
<1>5. CASE DropLink \/ RestartShell \/ Reconnect \/ LinkEstablished
  BY <1>5, LinkKeeps
<1>6. CASE \E i \in DOMAIN sweeps : MacServesSweep(i) \/ SweepLands(i) \/ SweepFails(i)
  BY <1>6, SweepServedKeeps, SweepKeeps
<1>7. CASE \E c \in Chats, onPhone \in BOOLEAN : ReadElsewhere(c, onPhone)
  BY <1>7, ElsewhereKeeps
<1>8. CASE \E c \in Chats, own, pushed \in BOOLEAN : MacMessage(c, own, pushed)
  BY <1>8, MacKeeps
<1> QED BY <1>2, <1>3, <1>4, <1>5, <1>6, <1>7, <1>8 DEF Next

LEMMA StepKeeps ==
  Typed /\ PendingIsUnderWay /\ [Next]_vars =>
    Typed' /\ PendingIsUnderWay' /\ MarksWhatIsShown
<1> SUFFICES ASSUME Typed, PendingIsUnderWay, [Next]_vars
             PROVE  Typed' /\ PendingIsUnderWay' /\ MarksWhatIsShown
  OBVIOUS
<1>1. CASE Next
  BY <1>1, NextKeeps DEF Kept
<1>2. CASE UNCHANGED vars
  <2> USE DEF vars, readerVars, listVars, linkVars, storeVars
  <2>1. Typed'
    BY <1>2 DEF Typed, StoreTyped, MacTyped, PanelTyped, PipesTyped
  <2>2. PendingIsUnderWay'
    BY <1>2 DEF PendingIsUnderWay, Cold
  <2>3. MarksWhatIsShown
    BY <1>2, NothingSent DEF Typed, PipesTyped
  <2> QED BY <2>1, <2>2, <2>3
<1> QED BY <1>1, <1>2

LEMMA TypedIsTypeOK == Typed => TypeOK
<1> SUFFICES ASSUME Typed PROVE TypeOK
  OBVIOUS
<1>1. \A i \in DOMAIN toClient : ToClient(toClient[i])
  <2>1. toClient \in Seq(Frames)
    BY DEF Typed, PipesTyped
  <2> QED BY <2>1, FramesAreFrames
<1>2. \A i \in DOMAIN sweeps :
        /\ sweeps[i].served \in {Nothing, Gone} \/ IsChats(sweeps[i].served)
        /\ sweeps[i].answered \in BOOLEAN /\ sweeps[i].times \in [Chats -> Nat]
  <2>1. sweeps \in Seq(Underway)
    BY DEF Typed, PipesTyped
  <2>2. \A i \in DOMAIN sweeps :
          /\ sweeps[i].served \in Served /\ sweeps[i].answered \in BOOLEAN
          /\ sweeps[i].times \in [Chats -> Nat]
    BY <2>1, UnderwayTyped
  <2> QED BY <2>2, FramesAreFrames DEF Served
<1>3. /\ opened \in BOOLEAN /\ {active, held} \subseteq Chats \cup {NoChat}
      /\ held \notin DOMAIN rows /\ IsList(rows) /\ badge \in Nat
      /\ toDaemon \in Seq(ToDaemon)
      /\ pins \subseteq Chats /\ toasts \subseteq Chats /\ untold \subseteq Chats /\ events \in Nat
  BY DEF Typed, StoreTyped, PanelTyped, PipesTyped
<1>4. {chatsPending, fresh, linkUp, established, swept} \subseteq BOOLEAN
  BY DEF Typed, StoreTyped, PanelTyped, PipesTyped
<1>5. {mac, last, inbound, openedTs} \subseteq [Chats -> Nat]
  BY DEF Typed, StoreTyped, MacTyped
<1> QED BY <1>1, <1>2, <1>3, <1>4, <1>5 DEF TypeOK

(* Every frame, reply and row is one the module names, for any number of  *)
(* chats and any bounds; a held click is never for a chat that is listed   *)
(* (Panel.qml:401-406).                                                    *)
THEOREM PanelTypes == Spec => []TypeOK
<1> QED BY InitKept, StepKeeps, TypedIsTypeOK, PTL DEF Spec

(* No flag waits for an answer nobody owes (Client.qml:485-491, 600-602).  *)
THEOREM ListIsNotAwaitedInVain == Spec => []PendingHasAReply
<1>1. PendingIsUnderWay => PendingHasAReply
  <2>1. Nothing # Gone
    BY DEF Nothing, Gone
  <2> QED BY <2>1 DEF PendingIsUnderWay, PendingHasAReply, Cold, Elems
<1> QED BY <1>1, InitKept, StepKeeps, PTL DEF Spec

(* Only what is shown, or was clicked for, is marked read (Panel.qml:372). *)
THEOREM OnlyTheShownIsRead == Spec => ReadMeansShown
<1>1. MarksWhatIsShown =>
        \A c \in Chats : Read(c) \in Sent => (opened' /\ active' = c) \/ held = c
  BY DEF MarksWhatIsShown
<1> QED BY <1>1, InitKept, StepKeeps, PTL DEF Spec, ReadMeansShown
-----------------------------------------------------------------------------
(* The last frame of a kind                                                *)

LastIn(s, T, f) ==
  \E i \in DOMAIN s : s[i] = f /\ f \in T /\ \A k \in DOMAIN s : k > i => s[k] \notin T

NoneIn(s, T) == \A i \in DOMAIN s : s[i] \notin T

LEMMA LastOfAppended ==
  ASSUME NEW S, NEW s \in Seq(S), NEW x \in S, NEW T
  PROVE  /\ \A f : LastIn(Append(s, x), T, f) => (x \in T /\ f = x) \/ (x \notin T /\ LastIn(s, T, f))
         /\ NoneIn(Append(s, x), T) => x \notin T /\ NoneIn(s, T)
<1> DEFINE u == Append(s, x)
<1>1. /\ DOMAIN s = 1..Len(s) /\ DOMAIN u = 1..(Len(s) + 1) /\ Len(s) \in Nat
      /\ u[Len(s) + 1] = x /\ \A i \in 1..Len(s) : u[i] = s[i]
  OBVIOUS
<1> HIDE DEF u
<1>2. ASSUME NEW f, LastIn(u, T, f)
      PROVE  (x \in T /\ f = x) \/ (x \notin T /\ LastIn(s, T, f))
  <2>1. PICK i \in DOMAIN u : u[i] = f /\ f \in T /\ \A k \in DOMAIN u : k > i => u[k] \notin T
    BY <1>2 DEF LastIn
  <2>2. CASE i = Len(s) + 1
    BY <1>1, <2>1, <2>2
  <2>3. CASE i # Len(s) + 1
    <3>1. i \in DOMAIN s /\ Len(s) + 1 > i /\ Len(s) + 1 \in DOMAIN u /\ s[i] = f
      BY <1>1, <2>1, <2>3
    <3>2. x \notin T
      BY <1>1, <2>1, <3>1
    <3>3. \A k \in DOMAIN s : k > i => s[k] \notin T
      BY <1>1, <2>1
    <3> QED BY <2>1, <3>1, <3>2, <3>3 DEF LastIn
  <2> QED BY <2>2, <2>3
<1>3. NoneIn(u, T) => x \notin T /\ NoneIn(s, T)
  BY <1>1 DEF NoneIn
<1> QED BY <1>2, <1>3 DEF u

LEMMA LastOfTail ==
  ASSUME NEW S, NEW s \in Seq(S), s # <<>>, NEW T
  PROVE  /\ \A f : LastIn(Tail(s), T, f) => LastIn(s, T, f)
         /\ NoneIn(Tail(s), T) => NoneIn(s, T) \/ LastIn(s, T, Head(s))
<1> DEFINE u == Tail(s)
           h == Head(s)
<1>1. /\ DOMAIN s = 1..Len(s) /\ DOMAIN u = 1..(Len(s) - 1) /\ Len(s) \in Nat \ {0}
      /\ s[1] = h /\ \A i \in 1..(Len(s) - 1) : u[i] = s[i + 1]
  OBVIOUS
<1> HIDE DEF u, h
<1>2. \A k \in DOMAIN s : k > 1 => k - 1 \in DOMAIN u /\ s[k] = u[k - 1]
  BY <1>1
<1>3. ASSUME NEW f, LastIn(u, T, f) PROVE LastIn(s, T, f)
  <2>1. PICK i \in DOMAIN u : u[i] = f /\ f \in T /\ \A k \in DOMAIN u : k > i => u[k] \notin T
    BY <1>3 DEF LastIn
  <2>2. i + 1 \in DOMAIN s /\ s[i + 1] = f
    BY <1>1, <2>1
  <2>3. \A k \in DOMAIN s : k > i + 1 => s[k] \notin T
    <3> SUFFICES ASSUME NEW k \in DOMAIN s, k > i + 1 PROVE s[k] \notin T
      OBVIOUS
    <3>1. k > 1 /\ k - 1 > i
      BY <1>1
    <3> QED BY <1>2, <2>1, <3>1
  <2> QED BY <2>1, <2>2, <2>3 DEF LastIn
<1>4. ASSUME NoneIn(u, T) PROVE NoneIn(s, T) \/ LastIn(s, T, h)
  <2>1. \A k \in DOMAIN s : k > 1 => s[k] \notin T
    BY <1>2, <1>4 DEF NoneIn
  <2>2. 1 \in DOMAIN s /\ \A k \in DOMAIN s : k = 1 \/ k > 1
    BY <1>1
  <2>3. CASE h \in T
    BY <1>1, <2>1, <2>2, <2>3 DEF LastIn
  <2>4. CASE h \notin T
    BY <1>1, <2>1, <2>2, <2>4 DEF NoneIn
  <2> QED BY <2>3, <2>4
<1> QED BY <1>3, <1>4 DEF u, h

LEMMA WithoutFewer ==
  ASSUME NEW S, NEW s \in Seq(S), NEW i \in DOMAIN s
  PROVE  Elems(WithoutIndex(s, i)) \subseteq Elems(s)
<1> DEFINE u == SubSeq(s, 1, i - 1)
           v == SubSeq(s, i + 1, Len(s))
<1>1. u \in Seq(S) /\ DOMAIN u = 1..(i - 1) /\ \A k \in 1..(i - 1) : u[k] = s[k]
  OBVIOUS
<1>2. v \in Seq(S) /\ DOMAIN v = 1..(Len(s) - i) /\ \A k \in 1..(Len(s) - i) : v[k] = s[k + i]
  OBVIOUS
<1>3. DOMAIN s = 1..Len(s) /\ Len(s) \in Nat /\ i \in 1..Len(s)
  OBVIOUS
<1> HIDE DEF u, v
<1>4. Elems(u) \subseteq Elems(s)
  <2>1. \A k \in DOMAIN u : k \in DOMAIN s
    BY <1>1, <1>3
  <2> QED BY <1>1, <2>1 DEF Elems
<1>5. Elems(v) \subseteq Elems(s)
  <2>1. \A k \in DOMAIN v : k + i \in DOMAIN s
    BY <1>2, <1>3
  <2> QED BY <1>2, <2>1 DEF Elems
<1>6. Elems(u \o v) = Elems(u) \cup Elems(v)
  BY <1>1, <1>2, ElemsConcat
<1> QED BY <1>4, <1>5, <1>6 DEF WithoutIndex, u, v

-----------------------------------------------------------------------------
(* The times the daemon holds                                              *)

(* The daemon holds, and a sweep brings, no time the Mac has not reached;  *)
(* a chat with a message from somebody is listed.                          *)
Ordered ==
  /\ \A c \in Chats : (inbound[c] > 0 => last[c] > 0) /\ last[c] <= mac[c]
  /\ \A sweep \in Elems(sweeps), c \in Chats : sweep.times[c] <= mac[c]

(* How a step moves the times: the Mac's grow, the daemon's keep behind.   *)
TimesMove ==
  \A c \in Chats : /\ inbound'[c] > 0 => last'[c] > 0
                   /\ last'[c] <= mac'[c] /\ mac[c] <= mac'[c]

LEMMA OrderedStays ==
  ASSUME Typed, Typed', Ordered, TimesMove,
         \A sweep \in Elems(sweeps') :
           \/ \E old \in Elems(sweeps) : sweep.times = old.times
           \/ \A c \in Chats : sweep.times[c] <= mac'[c]
  PROVE  Ordered'
<1>1. /\ mac \in [Chats -> Nat] /\ mac' \in [Chats -> Nat]
      /\ \A old \in Elems(sweeps) : old.times \in [Chats -> Nat]
  BY UnderwayTyped DEF Typed, MacTyped, PipesTyped
<1>2. ASSUME NEW sweep \in Elems(sweeps'), NEW c \in Chats PROVE sweep.times[c] <= mac'[c]
  <2>1. CASE \E old \in Elems(sweeps) : sweep.times = old.times
    <3>1. PICK old \in Elems(sweeps) : sweep.times = old.times
      BY <2>1
    <3>2. old.times[c] <= mac[c] /\ mac[c] <= mac'[c]
      BY DEF Ordered, TimesMove
    <3>3. old.times[c] \in Nat /\ mac[c] \in Nat /\ mac'[c] \in Nat
      BY <1>1
    <3> QED BY <3>1, <3>2, <3>3
  <2>2. CASE \A d \in Chats : sweep.times[d] <= mac'[d]
    BY <2>2
  <2> QED BY <1>2, <2>1, <2>2
<1>3. \A c \in Chats : (inbound'[c] > 0 => last'[c] > 0) /\ last'[c] <= mac'[c]
  BY DEF TimesMove
<1> QED BY <1>2, <1>3 DEF Ordered

(* Nothing was filed: the times are as they were. *)
LEMMA SameTimes ==
  ASSUME Typed, Ordered, last' = last, inbound' = inbound, mac' = mac
  PROVE  TimesMove
<1>1. mac \in [Chats -> Nat]
  BY DEF Typed, MacTyped
<1> QED BY <1>1 DEF Ordered, TimesMove

(* A chat with an unread is listed: the count is of the times alone.       *)
LEMMA UnreadIsOfTimes ==
  ASSUME StoreTyped, Ordered
  PROVE  UnreadChats = Cardinality({c \in Chats : inbound[c] > openedTs[c]})
<1>1. \A c \in Chats : inbound[c] > openedTs[c] => inbound[c] > 0
  BY DEF StoreTyped
<1>2. {c \in DOMAIN ChatList : IsUnread(c)} = {c \in Chats : inbound[c] > openedTs[c]}
  BY <1>1 DEF ChatList, IsUnread, Ordered
<1> QED BY <1>2 DEF UnreadChats

LEMMA UnreadStays ==
  ASSUME StoreTyped, StoreTyped', Ordered, Ordered', inbound' = inbound, openedTs' = openedTs
  PROVE  UnreadChats' = UnreadChats
<1>1. (StoreTyped /\ Ordered => UnreadChats = Cardinality({c \in Chats : inbound[c] > openedTs[c]}))'
  BY UnreadIsOfTimes, PTL
<1>2. UnreadChats' = Cardinality({c \in Chats : inbound'[c] > openedTs'[c]})
  BY <1>1
<1> QED BY <1>2, UnreadIsOfTimes

(* A chat whose own time and pin are as they were is in the page after     *)
(* others moved up only if it was in it before.                            *)
LEMMA PageShrinks ==
  ASSUME StoreTyped, StoreTyped', pins' = pins, \A d \in Chats : last[d] <= last'[d],
         NEW c \in Chats, last'[c] = last[c], c \in DOMAIN Page(ChatList')
  PROVE  c \in DOMAIN Page(ChatList)
<1>1. /\ DOMAIN ChatList = {d \in Chats : last[d] > 0}
      /\ \A d \in DOMAIN ChatList : ChatList[d].pinned = (d \in pins) /\ ChatList[d].ts = last[d]
  BY DEF ChatList, RowOf
<1>2. /\ DOMAIN ChatList' = {d \in Chats : last'[d] > 0}
      /\ \A d \in DOMAIN ChatList' : ChatList'[d].pinned = (d \in pins) /\ ChatList'[d].ts = last'[d]
  BY DEF ChatList, RowOf
<1>3. c \in DOMAIN ChatList /\ c \in DOMAIN ChatList'
  <2>1. c \in DOMAIN ChatList'
    BY DEF Page
  <2> QED BY <1>1, <1>2, <2>1
<1>4. CASE ChatLimit = 0
  BY <1>3, <1>4 DEF Page
<1>5. CASE ChatLimit # 0
  <2>1. Cardinality(Above(ChatList', c)) < ChatLimit
    BY <1>5 DEF Page
  <2>2. Above(ChatList, c) \subseteq Above(ChatList', c)
    <3> SUFFICES ASSUME NEW d \in Above(ChatList, c) PROVE d \in Above(ChatList', c)
      OBVIOUS
    <3>1. /\ d \in DOMAIN ChatList
          /\ \/ ChatList[d].pinned /\ ~ChatList[c].pinned
             \/ ChatList[d].pinned = ChatList[c].pinned /\ ChatList[d].ts > ChatList[c].ts
      BY DEF Above
    <3>2. d \in Chats /\ last[d] > 0 /\ last[d] <= last'[d] /\ last[d] \in Nat /\ last'[d] \in Nat
          /\ last[c] \in Nat
      BY <1>1, <3>1 DEF StoreTyped
    <3>3. d \in DOMAIN ChatList'
      BY <1>2, <3>2
    <3>4. \/ d \in pins /\ c \notin pins
          \/ (d \in pins) = (c \in pins) /\ last[d] > last[c]
      BY <1>1, <1>3, <3>1
    <3>5. \/ d \in pins /\ c \notin pins
          \/ (d \in pins) = (c \in pins) /\ last'[d] > last'[c]
      BY <3>2, <3>4
    <3>6. \/ ChatList'[d].pinned /\ ~ChatList'[c].pinned
          \/ ChatList'[d].pinned = ChatList'[c].pinned /\ ChatList'[d].ts > ChatList'[c].ts
      BY <1>2, <1>3, <3>3, <3>5
    <3> QED BY <3>3, <3>6 DEF Above
  <2>3. Above(ChatList, c) \subseteq Chats /\ Above(ChatList', c) \subseteq Chats
    BY <1>1, <1>2 DEF Above
  <2>4. IsFiniteSet(Above(ChatList, c)) /\ IsFiniteSet(Above(ChatList', c))
    BY <2>3, FS_Subset, PanelAssumptions
  <2>5. Cardinality(Above(ChatList, c)) <= Cardinality(Above(ChatList', c))
    BY <2>2, <2>4, FS_Subset
  <2>6. Cardinality(Above(ChatList, c)) \in Nat /\ Cardinality(Above(ChatList', c)) \in Nat
        /\ ChatLimit \in Nat
    BY <2>4, FS_CardinalityType, PanelAssumptions
  <2>7. Cardinality(Above(ChatList, c)) < ChatLimit
    BY <2>1, <2>5, <2>6
  <2> QED BY <1>3, <1>5, <2>7 DEF Page
<1> QED BY <1>4, <1>5

-----------------------------------------------------------------------------
(* What the panel's list and badge will be once the pipe is drained        *)

(* The frames that carry the daemon's count, and those that tell of a chat. *)
Counting == {f \in Frames : f.t # "error"}

Telling(c) == {f \in Frames : f.t = "chats" \/ (f.t = "message" /\ f.chat = c)}

(* The last count on its way is the daemon's; with none, the badge is.     *)
BadgeFollows ==
  linkUp =>
    /\ \A f : LastIn(toClient, Counting, f) => f.unread = UnreadChats
    /\ NoneIn(toClient, Counting) => badge = UnreadChats

(* A row hides an unread only while the `read` it was cleared with is on   *)
(* its way.                                                                *)
RowAgrees(row, c) ==
  /\ row.pinned = (c \in pins) /\ row.ts = last[c]
  /\ IsUnread(c) => row.unread \/ Read(c) \in Elems(toDaemon)

FrameAgrees(f, c) ==
  IF f.t = "chats" THEN c \in DOMAIN f.rows /\ RowAgrees(f.rows[c], c) ELSE RowAgrees(f.row, c)

RowsAgree(c) == c \in DOMAIN rows /\ RowAgrees(rows[c], c)

(* The last frame that tells of a chat agrees; with none, the row does, if *)
(* the list came over this link.                                           *)
Follows(c) ==
  /\ \A f : LastIn(toClient, Telling(c), f) => FrameAgrees(f, c)
  /\ fresh /\ NoneIn(toClient, Telling(c)) => RowsAgree(c)

ListFollows == linkUp => \A c \in DOMAIN Page(ChatList) \ untold : Follows(c)

Agreement == Ordered /\ BadgeFollows /\ ListFollows

(* What the daemon holds of a chat is as it was, or read; a `read` that    *)
(* still matters is still on its way.                                      *)
SameFor(c) ==
  /\ pins' = pins /\ last'[c] = last[c]
  /\ IsUnread(c)' => IsUnread(c)
  /\ IsUnread(c)' /\ Read(c) \in Elems(toDaemon) => Read(c) \in Elems(toDaemon')

(* A row stays, or is cleared by a handler that asks for the chat's read.  *)
Softened(row, new, c) ==
  /\ new.pinned = row.pinned /\ new.ts = row.ts
  /\ row.unread => new.unread \/ Read(c) \in Elems(toDaemon')

Softens(list, new) ==
  \A c \in DOMAIN list : c \in DOMAIN new /\ Softened(list[c], new[c], c)

LEMMA RowStays ==
  ASSUME NEW c, NEW row, NEW new, RowAgrees(row, c), SameFor(c), Softened(row, new, c)
  PROVE  RowAgrees(new, c)'
<1>1. new.pinned = (c \in pins') /\ new.ts = last'[c]
  BY DEF RowAgrees, SameFor, Softened
<1>2. IsUnread(c)' => new.unread \/ Read(c) \in Elems(toDaemon')
  BY DEF RowAgrees, SameFor, Softened
<1> QED BY <1>1, <1>2 DEF RowAgrees

LEMMA FrameStays ==
  ASSUME NEW c, NEW f, FrameAgrees(f, c), SameFor(c)
  PROVE  FrameAgrees(f, c)'
<1>1. \A row : Softened(row, row, c)
  BY DEF Softened
<1>2. CASE f.t = "chats"
  BY <1>1, <1>2, RowStays DEF FrameAgrees
<1>3. CASE f.t # "chats"
  BY <1>1, <1>3, RowStays DEF FrameAgrees
<1> QED BY <1>2, <1>3

LEMMA SoftensMarked ==
  ASSUME NEW list, IsList(list), NEW c, linkUp => Read(c) \in Elems(toDaemon')
  PROVE  Softens(list, Marked(list, c))
<1>1. CASE linkUp /\ c \in DOMAIN list
  <2>1. /\ Marked(list, c) = [list EXCEPT ![c].unread = FALSE]
        /\ DOMAIN Marked(list, c) = DOMAIN list
    BY <1>1, MarkedIsList DEF Marked, Clear
  <2>2. ASSUME NEW d \in DOMAIN list PROVE Softened(list[d], Marked(list, c)[d], d)
    <3>1. CASE d = c
      <4>1. list[c] \in Row
        BY <1>1 DEF IsList
      <4>2. Marked(list, c)[c] = [list[c] EXCEPT !.unread = FALSE]
        BY <1>1, <2>1
      <4>3. Marked(list, c)[c].pinned = list[c].pinned /\ Marked(list, c)[c].ts = list[c].ts
        BY <4>1, <4>2 DEF Row
      <4> QED BY <1>1, <3>1, <4>3 DEF Softened
    <3>2. CASE d # c
      <4>1. Marked(list, c)[d] = list[d]
        BY <2>1, <3>2
      <4> QED BY <4>1 DEF Softened
    <3> QED BY <3>1, <3>2
  <2> QED BY <2>1, <2>2 DEF Softens
<1>2. CASE ~(linkUp /\ c \in DOMAIN list)
  BY <1>2 DEF Marked, Clear, Softens, Softened
<1> QED BY <1>1, <1>2

LEMMA SoftensTwice ==
  ASSUME NEW list, NEW mid, NEW new, Softens(list, mid), Softens(mid, new)
  PROVE  Softens(list, new)
BY DEF Softens, Softened

-----------------------------------------------------------------------------
(* The reader and the link                                                 *)

(* What the store holds is as it was, and so is the pipe to the panel.     *)
LEMMA SoftenedAgrees ==
  ASSUME Typed, Typed', Agreement, Ordered', Elems(toDaemon) \subseteq Elems(toDaemon'),
         Softens(rows, rows'),
         UNCHANGED <<badge, fresh, linkUp, toClient, storeVars, untold>>
  PROVE  Agreement'
<1> USE DEF storeVars
<1>1. StoreTyped /\ StoreTyped' /\ Ordered
  BY DEF Typed, Agreement
<1>2. Ordered'
  OBVIOUS
<1>3. BadgeFollows'
  <2>1. UnreadChats' = UnreadChats
    BY <1>1, <1>2, UnreadStays
  <2> QED BY <2>1 DEF Agreement, BadgeFollows
<1>4. ListFollows'
  <2> SUFFICES ASSUME linkUp, NEW c \in DOMAIN Page(ChatList'), c \notin untold
               PROVE  Follows(c)'
    BY DEF ListFollows
  <2>1. Page(ChatList') = Page(ChatList)
    BY DEF ChatList, RowOf, IsUnread
  <2>2. Follows(c)
    BY <2>1 DEF Agreement, ListFollows
  <2>3. SameFor(c)
    BY DEF SameFor, IsUnread
  <2>4. \A f : LastIn(toClient', Telling(c), f) => FrameAgrees(f, c)'
    BY <2>2, <2>3, FrameStays DEF Follows
  <2>5. fresh' /\ NoneIn(toClient', Telling(c)) => RowsAgree(c)'
    <3> SUFFICES ASSUME fresh', NoneIn(toClient', Telling(c)) PROVE RowsAgree(c)'
      OBVIOUS
    <3>1. c \in DOMAIN rows /\ RowAgrees(rows[c], c)
      BY <2>2 DEF Follows, RowsAgree
    <3>2. c \in DOMAIN rows' /\ Softened(rows[c], rows'[c], c)
      BY <3>1 DEF Softens
    <3>3. PICK new : new = rows'[c]
      OBVIOUS
    <3>4. RowAgrees(new, c)'
      BY <2>3, <3>1, <3>2, <3>3, RowStays
    <3> QED BY <3>2, <3>3, <3>4 DEF RowsAgree, RowAgrees
  <2> QED BY <2>4, <2>5 DEF Follows
<1> QED BY <1>2, <1>3, <1>4 DEF Agreement

LEMMA ReaderAgrees ==
  ASSUME Typed, Typed', Agreement, Elems(toDaemon) \subseteq Elems(toDaemon'),
         Softens(rows, rows'),
         UNCHANGED <<badge, fresh, linkUp, toClient, mac, storeVars, sweeps, untold>>
  PROVE  Agreement'
<1>1. UNCHANGED <<last, inbound, mac, sweeps>> /\ Ordered
  BY DEF storeVars, Agreement
<1>2. \A sweep \in Elems(sweeps') : sweep \in Elems(sweeps)
  BY <1>1
<1>3. Ordered'
  BY <1>1, <1>2, SameTimes, OrderedStays
<1> QED BY <1>3, SoftenedAgrees

LEMMA SoftensNothing == Softens(rows, rows)
BY DEF Softens, Softened

LEMMA OpeningAgrees ==
  ASSUME Typed, Typed', Agreement, UnchangedBehindLink,
         NEW list, IsList(list), NEW chat \in Chats \cup {NoChat},
         NEW guid \in Chats \cup {NoChat}, guid \notin DOMAIN list,
         NEW before \in Seq(ToDaemon), OnOpened(list, chat, guid, before),
         \A c \in Chats : Read(c) \in Elems(before) => c = chat,
         linkUp /\ Elems(before) \subseteq Elems(toDaemon') => Softens(rows, list),
         ~linkUp => list = rows
  PROVE  Agreement'
<1>1. badge' = badge /\ fresh' = fresh
  BY DEF UnchangedBehindLink
<1>2. /\ Elems(toDaemon) \subseteq Elems(toDaemon')
      /\ rows' = Marked(list, chat)
      /\ linkUp => /\ Elems(before) \subseteq Elems(toDaemon')
                   /\ chat # NoChat => Read(chat) \in Elems(toDaemon')
  BY <1>1, OnOpenedKeeps
<1>3. Softens(rows, list)
  BY <1>2, SoftensNothing
<1>4. Softens(list, rows')
  <2>1. CASE chat = NoChat
    <3>1. NoChat \notin DOMAIN list
      BY PanelAssumptions DEF IsList
    <3> QED BY <1>2, <2>1, <3>1 DEF Marked, Clear, Softens, Softened
  <2>2. CASE chat # NoChat
    BY <1>2, <2>2, SoftensMarked
  <2> QED BY <2>1, <2>2
<1>5. Softens(rows, rows')
  BY <1>3, <1>4, SoftensTwice
<1> QED BY <1>2, <1>5, ReaderAgrees DEF UnchangedBehindLink, linkVars

(* A listed chat goes on screen: its row is cleared, and its read is sent. *)
LEMMA ShowingAgrees ==
  ASSUME Typed, Typed', Agreement, UnchangedBehindLink, NEW c \in DOMAIN rows,
         rows' = Marked(rows, c), Request(<<Read(c)>>)
  PROVE  Agreement'
<1>1. IsList(rows) /\ c \in Chats /\ toDaemon \in Seq(ToDaemon)
  BY DEF Typed, PanelTyped, PipesTyped, IsList
<1>2. /\ Elems(toDaemon) \subseteq Elems(toDaemon')
      /\ linkUp => Read(c) \in Elems(toDaemon')
  <2> DEFINE frames == <<Read(c)>>
  <2>1. frames \in Seq(ToDaemon) /\ Elems(frames) = {Read(c)} /\ Request(frames)
    BY <1>1, Commands, ElemsOne
  <2> HIDE DEF frames
  <2> QED BY <1>1, <2>1, RequestSends
<1>3. Softens(rows, rows')
  BY <1>1, <1>2, SoftensMarked
<1> QED BY <1>2, <1>3, ReaderAgrees DEF UnchangedBehindLink, linkVars

LEMMA PanelActsAgree ==
  ASSUME Typed, Typed', Agreement, OpenPanel \/ ClosePanel \/ BackToChats
  PROVE  Agreement'
<1>1. CASE OpenPanel
  <2>1. OnOpened(rows, active, held, <<>>) /\ UnchangedBehindLink
    BY <1>1 DEF OpenPanel
  <2>2. /\ IsList(rows) /\ active \in Chats \cup {NoChat} /\ held \in Chats \cup {NoChat}
        /\ held \notin DOMAIN rows /\ <<>> \in Seq(ToDaemon) /\ Elems(<<>>) = {}
    BY ElemsOne DEF Typed, PanelTyped
  <2> QED BY <2>1, <2>2, SoftensNothing, OpeningAgrees
<1>2. CASE ClosePanel \/ BackToChats
  <2>1. UnchangedBehindLink /\ rows' = rows /\ toDaemon' = toDaemon
    BY <1>2 DEF ClosePanel, BackToChats
  <2>2. Softens(rows, rows') /\ Elems(toDaemon) \subseteq Elems(toDaemon')
    BY <2>1, SoftensNothing
  <2> QED BY <2>1, <2>2, ReaderAgrees DEF UnchangedBehindLink, linkVars
<1> QED BY <1>1, <1>2

LEMMA ChoosingAgrees ==
  ASSUME Typed, Typed', Agreement, NEW c \in Chats, OpenThread(c) \/ TogglePin(c) \/ ClickToast(c)
  PROVE  Agreement'
<1>t. /\ IsList(rows) /\ active \in Chats \cup {NoChat} /\ held \in Chats \cup {NoChat}
      /\ held \notin DOMAIN rows /\ toDaemon \in Seq(ToDaemon)
  BY DEF Typed, PanelTyped, PipesTyped
<1>1. CASE OpenThread(c)
  <2>1. /\ UnchangedBehindLink /\ c \in DOMAIN rows /\ rows' = Marked(rows, c)
        /\ Request(<<Read(c)>>)
    BY <1>1 DEF OpenThread
  <2> QED BY <2>1, ShowingAgrees
<1>2. CASE TogglePin(c)
  <2>1. /\ c \in DOMAIN rows /\ Request(<<Pin(c, ~rows[c].pinned)>>)
        /\ UnchangedBehindLink /\ rows' = rows
    BY <1>2 DEF TogglePin
  <2>2. rows[c].pinned \in BOOLEAN
    BY <1>t, <2>1 DEF IsList, Row
  <2>3. PICK p \in BOOLEAN : Request(<<Pin(c, p)>>)
    BY <2>1, <2>2
  <2>4. Elems(toDaemon) \subseteq Elems(toDaemon')
    <3> DEFINE frames == <<Pin(c, p)>>
    <3>1. frames \in Seq(ToDaemon) /\ Request(frames)
      BY <2>3, Commands
    <3> HIDE DEF frames
    <3> QED BY <1>t, <3>1, RequestSends
  <2>5. Softens(rows, rows')
    BY <2>1, SoftensNothing
  <2> QED BY <2>1, <2>4, <2>5, ReaderAgrees DEF UnchangedBehindLink, linkVars
<1>3. CASE ClickToast(c)
  <2>1. UnchangedBehindLink /\ (ClickListed(c) \/ ClickUnlisted(c))
    BY <1>3 DEF ClickToast
  <2>2. CASE ClickListed(c) /\ opened
    <3>1. c \in DOMAIN rows /\ rows' = Marked(rows, c) /\ Request(<<Read(c)>>)
      BY <2>2 DEF ClickListed
    <3> QED BY <2>1, <3>1, ShowingAgrees
  <2>3. CASE ClickListed(c) /\ ~opened
    <3> DEFINE before == <<Read(c)>>
               list == Marked(rows, c)
    <3>1. OnOpened(list, c, held, before)
      BY <2>3 DEF ClickListed
    <3>2. IsList(list) /\ held \notin DOMAIN list
      BY <1>t, MarkedIsList
    <3>3. before \in Seq(ToDaemon) /\ Elems(before) = {Read(c)}
      BY Commands, ElemsOne
    <3>4. \A d \in Chats : Read(d) \in Elems(before) => d = c
      <4> SUFFICES ASSUME NEW d \in Chats, Read(d) = Read(c) PROVE d = c
        BY <3>3
      <4>1. Read(d).chat = d /\ Read(c).chat = c
        BY Commands
      <4> QED BY <4>1
    <3>5. linkUp /\ Elems(before) \subseteq Elems(toDaemon') => Softens(rows, list)
      BY <1>t, <3>3, SoftensMarked
    <3>6. ~linkUp => list = rows
      BY DEF Marked
    <3> HIDE DEF before, list
    <3> QED BY <1>t, <2>1, <3>1, <3>2, <3>3, <3>4, <3>5, <3>6, OpeningAgrees
  <2>4. CASE ClickUnlisted(c) /\ opened
    <3>1. rows' = rows /\ toDaemon' = toDaemon
      BY <2>4 DEF ClickUnlisted
    <3>2. Softens(rows, rows') /\ Elems(toDaemon) \subseteq Elems(toDaemon')
      BY <3>1, SoftensNothing
    <3> QED BY <2>1, <3>2, ReaderAgrees DEF UnchangedBehindLink, linkVars
  <2>5. CASE ClickUnlisted(c) /\ ~opened
    <3>1. OnOpened(rows, active, c, <<>>) /\ c \notin DOMAIN rows
      BY <2>5 DEF ClickUnlisted
    <3>2. <<>> \in Seq(ToDaemon) /\ Elems(<<>>) = {}
      BY ElemsOne
    <3> QED BY <1>t, <2>1, <3>1, <3>2, SoftensNothing, OpeningAgrees
  <2> QED BY <2>1, <2>2, <2>3, <2>4, <2>5
<1> QED BY <1>1, <1>2, <1>3

LEMMA LinkAgrees ==
  ASSUME Typed, Typed', Agreement, DropLink \/ RestartShell \/ Reconnect \/ LinkEstablished
  PROVE  Agreement'
<1> USE DEF storeVars
<1>t. /\ StoreTyped /\ StoreTyped' /\ sweeps \in Seq(Underway) /\ Ordered /\ toDaemon \in Seq(ToDaemon)
  BY DEF Typed, PipesTyped, Agreement
<1>1. CASE DropLink \/ RestartShell
  <2>1. /\ linkUp' = FALSE
        /\ sweeps' = [i \in DOMAIN sweeps |-> [sweeps[i] EXCEPT !.served = Gone]]
        /\ UNCHANGED <<mac, last, inbound, openedTs, swept, pins>>
    BY <1>1 DEF DropLink, RestartShell, LoseLink
  <2>2. \A sweep \in Elems(sweeps') : \E old \in Elems(sweeps) : sweep.times = old.times
    BY <1>t, <2>1, GoneTyped
  <2>3. Ordered'
    BY <1>t, <2>1, <2>2, SameTimes, OrderedStays
  <2> QED BY <2>1, <2>3 DEF Agreement, BadgeFollows, ListFollows
<1>2. CASE Reconnect
  <2>1. /\ linkUp' = TRUE /\ fresh' = FALSE /\ toClient' = <<StateFrame(UnreadChats)>>
        /\ UNCHANGED <<mac, last, inbound, openedTs, swept, pins, sweeps>>
    BY <1>2 DEF Reconnect
  <2>2. Ordered'
    BY <1>t, <2>1, SameTimes, OrderedStays
  <2>3. UnreadChats' = UnreadChats
    BY <1>t, <2>1, <2>2, UnreadStays
  <2>4. PICK frame : frame = StateFrame(UnreadChats)
    OBVIOUS
  <2>5. frame.t = "state" /\ frame.unread = UnreadChats /\ frame \in Frames
    BY <1>t, <2>4, ListOfStore DEF StateFrame, Frames
  <2>6. toClient' = <<frame>> /\ DOMAIN <<frame>> = {1} /\ <<frame>>[1] = frame
    BY <2>1, <2>4
  <2>7. BadgeFollows'
    <3>1. frame \in Counting
      BY <2>5 DEF Counting
    <3>2. \A f : LastIn(toClient', Counting, f) => f = frame
      BY <2>6 DEF LastIn
    <3>3. ~NoneIn(toClient', Counting)
      BY <2>6, <3>1 DEF NoneIn
    <3> QED BY <2>3, <2>5, <3>2, <3>3 DEF BadgeFollows
  <2>8. ListFollows'
    <3>1. ASSUME NEW c PROVE \A f : ~LastIn(toClient', Telling(c), f)
      <4>1. frame \notin Telling(c)
        BY <2>5 DEF Telling
      <4> QED BY <2>6, <4>1 DEF LastIn
    <3>2. \A c : Follows(c)'
      BY <2>1, <3>1 DEF Follows
    <3> QED BY <3>2 DEF ListFollows
  <2> QED BY <2>2, <2>7, <2>8 DEF Agreement
<1>3. CASE LinkEstablished
  <2> DEFINE frames == <<Hello, AskChats>>
  <2>1. /\ Request(frames)
        /\ UNCHANGED <<rows, badge, fresh, linkUp, toClient, mac, storeVars, sweeps, untold>>
    BY <1>3 DEF LinkEstablished
  <2>2. frames \in Seq(ToDaemon)
    BY Commands
  <2> HIDE DEF frames
  <2>3. Elems(toDaemon) \subseteq Elems(toDaemon')
    BY <1>t, <2>1, <2>2, RequestSends
  <2>4. Softens(rows, rows')
    BY <2>1, SoftensNothing
  <2> QED BY <2>1, <2>3, <2>4, ReaderAgrees
<1> QED BY <1>1, <1>2, <1>3

-----------------------------------------------------------------------------
(* The panel handles a frame                                               *)

LEMMA SoftensSet ==
  ASSUME NEW list, IsList(list),
         linkUp => Elems(SetChats(list).frames) \subseteq Elems(toDaemon')
  PROVE  Softens(list, SetChats(list).rows)
<1>1. CASE held # NoChat /\ held \in DOMAIN list
  <2>1. SetChats(list).rows = Marked(list, held) /\ SetChats(list).frames = <<Read(held)>>
    BY <1>1 DEF SetChats
  <2>2. linkUp => Read(held) \in Elems(toDaemon')
    BY <2>1, ElemsOne
  <2> QED BY <2>1, <2>2, SoftensMarked
<1>2. CASE ~(held # NoChat /\ held \in DOMAIN list)
  BY <1>2 DEF SetChats, Softens, Softened
<1> QED BY <1>1, <1>2

(* What a frame carries is what the list and the badge are set to.         *)
LEMMA FrameHandled ==
  ASSUME Typed, HandleFrame, NEW frame, frame = Head(toClient)
  PROVE  /\ Elems(toDaemon) \subseteq Elems(toDaemon')
         /\ badge' = IF frame \in Counting THEN frame.unread ELSE badge
         /\ \A c \in Chats : frame \notin Telling(c) =>
              /\ fresh' = fresh
              /\ c \in DOMAIN rows => c \in DOMAIN rows' /\ Softened(rows[c], rows'[c], c)
         /\ frame.t = "chats" => Softens(frame.rows, rows')
         /\ frame.t = "message" =>
              frame.chat \in DOMAIN rows' /\ Softened(frame.row, rows'[frame.chat], frame.chat)
<1>1. /\ linkUp /\ toClient # <<>> /\ toClient \in Seq(Frames) /\ toDaemon \in Seq(ToDaemon)
      /\ OnState(frame) \/ OnChats(frame) \/ OnMessage(frame) \/ OnError(frame)
  BY DEF HandleFrame, Typed, PipesTyped
<1>2. frame \in Frames
  BY <1>1, ElemsTail
<1>3. /\ frame.t = "chats" => IsList(frame.rows)
      /\ frame.t = "message" => frame.chat \in Chats /\ frame.row \in Row
  BY <1>2, FramesAreFrames
<1>4. /\ frame \in Counting <=> frame.t # "error"
      /\ \A c : frame \in Telling(c) <=> frame.t = "chats" \/ (frame.t = "message" /\ frame.chat = c)
  BY <1>2 DEF Counting, Telling
<1>5. CASE OnState(frame) \/ OnError(frame)
  <2>1. /\ toDaemon' = toDaemon /\ rows' = rows /\ fresh' = fresh
        /\ frame.t \in {"state", "error"}
        /\ badge' = IF frame.t # "error" THEN frame.unread ELSE badge
    BY <1>5 DEF OnState, OnError
  <2>2. Softens(rows, rows')
    BY <2>1, SoftensNothing
  <2> QED BY <1>4, <2>1, <2>2 DEF Softens
<1>6. CASE OnChats(frame)
  <2> DEFINE set == SetChats(frame.rows)
  <2>1. frame.t = "chats" /\ rows' = set.rows /\ Request(set.frames) /\ badge' = frame.unread
    BY <1>6 DEF OnChats
  <2>2. set.frames \in Seq(ToDaemon)
    BY <1>3, <2>1, SetChatsKeeps
  <2>3. /\ Elems(toDaemon) \subseteq Elems(toDaemon')
        /\ linkUp => Elems(set.frames) \subseteq Elems(toDaemon')
    <3> HIDE DEF set
    <3> QED BY <1>1, <2>1, <2>2, RequestSends
  <2>4. Softens(frame.rows, rows')
    BY <1>3, <2>1, <2>3, SoftensSet
  <2> QED BY <1>4, <2>1, <2>3, <2>4
<1>7. CASE OnMessage(frame)
  <2> DEFINE c    == frame.chat
             list == [d \in DOMAIN rows \cup {c} |-> IF d = c THEN frame.row ELSE rows[d]]
             set  == SetChats(list)
             seen == SeenNow(c, set.active)
             frames == IF seen THEN Append(set.frames, Read(c)) ELSE set.frames
  <2>1. /\ frame.t = "message" /\ rows' = (IF seen THEN Marked(set.rows, c) ELSE set.rows)
        /\ Request(frames) /\ badge' = frame.unread /\ fresh' = fresh
    BY <1>7 DEF OnMessage
  <2>2. c \in Chats /\ IsList(list)
    <3>1. IsList(rows) /\ c \in Chats /\ frame.row \in Row
      BY <1>3, <2>1 DEF Typed, PanelTyped
    <3>2. DOMAIN list = DOMAIN rows \cup {c} /\ list \in [DOMAIN rows \cup {c} -> Row]
      BY <3>1 DEF IsList
    <3> HIDE DEF list
    <3> QED BY <3>1, <3>2 DEF IsList
  <2>3. /\ c \in DOMAIN list /\ list[c] = frame.row
        /\ \A d \in DOMAIN rows : d \in DOMAIN list /\ (d # c => list[d] = rows[d])
    OBVIOUS
  <2> HIDE DEF list
  <2>4. IsList(set.rows) /\ set.frames \in Seq(ToDaemon)
    BY <2>2, SetChatsKeeps
  <2>5. /\ frames \in Seq(ToDaemon) /\ Elems(set.frames) \subseteq Elems(frames)
        /\ seen => Read(c) \in Elems(frames)
    <3>1. Read(c) \in ToDaemon
      BY <2>2, Commands
    <3> HIDE DEF set, c, seen
    <3>2. Append(set.frames, Read(c)) \in Seq(ToDaemon)
          /\ Elems(Append(set.frames, Read(c))) = Elems(set.frames) \cup {Read(c)}
      BY <2>4, <3>1, ElemsAppend
    <3> QED BY <2>4, <3>2
  <2>6. /\ Elems(toDaemon) \subseteq Elems(toDaemon')
        /\ Elems(frames) \subseteq Elems(toDaemon')
    <3> HIDE DEF frames
    <3> QED BY <1>1, <2>1, <2>5, RequestSends
  <2> HIDE DEF frames
  <2>7. Softens(list, set.rows)
    BY <2>2, <2>5, <2>6, SoftensSet
  <2> HIDE DEF set, c, seen
  <2>8. Softens(set.rows, rows')
    <3>1. CASE seen
      BY <2>1, <2>4, <2>5, <2>6, <3>1, SoftensMarked
    <3>2. CASE ~seen
      BY <2>1, <3>2 DEF Softens, Softened
    <3> QED BY <3>1, <3>2
  <2>9. Softens(list, rows')
    BY <2>7, <2>8, SoftensTwice
  <2>10. \A d \in DOMAIN rows : d # c => d \in DOMAIN rows' /\ Softened(rows[d], rows'[d], d)
    BY <2>3, <2>9 DEF Softens
  <2>11. c \in DOMAIN rows' /\ Softened(frame.row, rows'[c], c)
    BY <2>3, <2>9 DEF Softens
  <2> QED BY <1>4, <2>1, <2>6, <2>10, <2>11 DEF c
<1> QED BY <1>1, <1>5, <1>6, <1>7

LEMMA HandleFrameAgrees ==
  ASSUME Typed, Typed', Agreement, HandleFrame
  PROVE  Agreement'
<1> USE DEF storeVars
<1>1. /\ linkUp /\ toClient # <<>> /\ toClient' = Tail(toClient)
      /\ UNCHANGED <<linkUp, mac, last, inbound, openedTs, pins, sweeps, untold>>
  BY DEF HandleFrame, linkVars
<1>t. /\ StoreTyped /\ StoreTyped' /\ sweeps \in Seq(Underway) /\ toClient \in Seq(Frames) /\ Ordered
  BY DEF Typed, PipesTyped, Agreement
<1>2. PICK frame : frame = Head(toClient)
  OBVIOUS
<1>3. /\ Elems(toDaemon) \subseteq Elems(toDaemon')
      /\ badge' = IF frame \in Counting THEN frame.unread ELSE badge
      /\ \A c \in Chats : frame \notin Telling(c) =>
           /\ fresh' = fresh
           /\ c \in DOMAIN rows => c \in DOMAIN rows' /\ Softened(rows[c], rows'[c], c)
      /\ frame.t = "chats" => Softens(frame.rows, rows')
      /\ frame.t = "message" =>
           frame.chat \in DOMAIN rows' /\ Softened(frame.row, rows'[frame.chat], frame.chat)
  BY <1>2, FrameHandled
<1>4. \A T : /\ \A f : LastIn(toClient', T, f) => LastIn(toClient, T, f)
             /\ NoneIn(toClient', T) => NoneIn(toClient, T) \/ LastIn(toClient, T, frame)
  BY <1>t, <1>1, <1>2, LastOfTail
<1>5. \A T : NoneIn(toClient, T) => frame \notin T
  <2>1. 1 \in DOMAIN toClient /\ toClient[1] = frame
    BY <1>t, <1>1, <1>2
  <2> QED BY <2>1 DEF NoneIn
<1>6. Ordered'
  BY <1>t, <1>1, SameTimes, OrderedStays
<1>7. BadgeFollows'
  <2>1. UnreadChats' = UnreadChats
    BY <1>t, <1>1, <1>6, UnreadStays
  <2>2. /\ \A f : LastIn(toClient, Counting, f) => f.unread = UnreadChats
        /\ NoneIn(toClient, Counting) => badge = UnreadChats
    BY <1>1 DEF Agreement, BadgeFollows
  <2>3. ASSUME NoneIn(toClient', Counting) PROVE badge' = UnreadChats
    <3>1. CASE NoneIn(toClient, Counting)
      BY <1>3, <1>5, <2>2, <3>1
    <3>2. CASE LastIn(toClient, Counting, frame)
      <4>1. frame \in Counting
        BY <3>2 DEF LastIn
      <4> QED BY <1>3, <2>2, <3>2, <4>1
    <3> QED BY <1>4, <2>3, <3>1, <3>2
  <2> QED BY <1>4, <2>1, <2>2, <2>3 DEF BadgeFollows
<1>8. ListFollows'
  <2> SUFFICES ASSUME NEW c \in DOMAIN Page(ChatList'), c \notin untold PROVE Follows(c)'
    BY <1>1 DEF ListFollows
  <2>1. Page(ChatList') = Page(ChatList)
    BY <1>1 DEF ChatList, RowOf, IsUnread
  <2>2. Follows(c)
    BY <1>1, <2>1 DEF Agreement, ListFollows
  <2>3. SameFor(c)
    BY <1>1, <1>3 DEF SameFor, IsUnread
  <2>4. c \in Chats
    BY <2>1 DEF Page, ChatList
  <2>5. \A f : LastIn(toClient', Telling(c), f) => FrameAgrees(f, c)'
    BY <1>4, <2>2, <2>3, FrameStays DEF Follows
  <2>6. ASSUME fresh', NoneIn(toClient', Telling(c)) PROVE RowsAgree(c)'
    <3>1. PICK new : new = rows'[c]
      OBVIOUS
    <3>2. \E row : RowAgrees(row, c) /\ c \in DOMAIN rows' /\ Softened(row, new, c)
      <4>1. CASE NoneIn(toClient, Telling(c))
        <5>1. frame \notin Telling(c)
          BY <1>5, <4>1
        <5>2. c \in DOMAIN rows /\ RowAgrees(rows[c], c)
          BY <1>3, <2>2, <2>4, <2>6, <4>1, <5>1 DEF Follows, RowsAgree
        <5> QED BY <1>3, <2>4, <3>1, <5>1, <5>2
      <4>2. CASE LastIn(toClient, Telling(c), frame)
        <5>1. /\ frame.t = "chats" \/ (frame.t = "message" /\ frame.chat = c)
              /\ FrameAgrees(frame, c)
          BY <2>2, <4>2 DEF Follows, LastIn, Telling
        <5>2. CASE frame.t = "chats"
          BY <1>3, <3>1, <5>1, <5>2 DEF FrameAgrees, Softens
        <5>3. CASE frame.t # "chats"
          BY <1>3, <3>1, <5>1, <5>3 DEF FrameAgrees
        <5> QED BY <5>2, <5>3
      <4> QED BY <1>4, <2>6, <4>1, <4>2
    <3>3. RowAgrees(new, c)'
      BY <2>3, <3>2, RowStays
    <3> QED BY <3>1, <3>2, <3>3 DEF RowsAgree, RowAgrees
  <2> QED BY <2>5, <2>6 DEF Follows
<1> QED BY <1>6, <1>7, <1>8 DEF Agreement

-----------------------------------------------------------------------------
(* The daemon acts                                                         *)

LEMMA EmitAppends ==
  ASSUME UnchangedAtPanel, toClient \in Seq(Frames), NEW frame \in Frames, Emit(frame), linkUp'
  PROVE  /\ linkUp
         /\ \A T : /\ \A f : LastIn(toClient', T, f) =>
                        (frame \in T /\ f = frame) \/ (frame \notin T /\ LastIn(toClient, T, f))
                   /\ NoneIn(toClient', T) => frame \notin T /\ NoneIn(toClient, T)
<1>1. linkUp /\ toClient' = Append(toClient, frame)
  BY DEF UnchangedAtPanel, linkVars, Emit
<1> QED BY <1>1, LastOfAppended

(* The daemon told its count, or it is what it was.                        *)
LEMMA BadgeKept ==
  ASSUME UnchangedAtPanel, toClient \in Seq(Frames), BadgeFollows, NEW frame \in Frames,
         \/ Emit(frame) /\ frame \in Counting /\ frame.unread = UnreadChats'
         \/ UnreadChats' = UnreadChats /\ Emit(frame) /\ frame \notin Counting
         \/ UnreadChats' = UnreadChats /\ toClient' = toClient
  PROVE  BadgeFollows'
<1> SUFFICES ASSUME linkUp'
             PROVE  /\ \A f : LastIn(toClient', Counting, f) => f.unread = UnreadChats'
                    /\ NoneIn(toClient', Counting) => badge' = UnreadChats'
  BY DEF BadgeFollows
<1>1. linkUp /\ badge' = badge
  BY DEF UnchangedAtPanel, linkVars, listVars
<1>2. /\ \A f : LastIn(toClient, Counting, f) => f.unread = UnreadChats
      /\ NoneIn(toClient, Counting) => badge = UnreadChats
  BY <1>1 DEF BadgeFollows
<1>3. CASE Emit(frame)
  <2>1. /\ \A f : LastIn(toClient', Counting, f) =>
             \/ frame \in Counting /\ f = frame
             \/ frame \notin Counting /\ LastIn(toClient, Counting, f)
        /\ NoneIn(toClient', Counting) => frame \notin Counting /\ NoneIn(toClient, Counting)
    BY <1>3, EmitAppends
  <2>2. CASE frame \in Counting /\ frame.unread = UnreadChats'
    BY <2>1, <2>2
  <2>3. CASE UnreadChats' = UnreadChats
    <3>1. CASE frame \notin Counting
      BY <1>1, <1>2, <2>1, <2>3, <3>1
    <3>2. CASE frame \in Counting /\ toClient' = toClient
      <4>1. toClient' = Append(toClient, frame)
        BY <1>1, <1>3 DEF Emit
      <4>2. Append(toClient, frame) # toClient
        OBVIOUS
      <4> QED BY <3>2, <4>1, <4>2
    <3>3. CASE frame \in Counting /\ frame.unread = UnreadChats'
      BY <2>2, <3>3
    <3> QED BY <3>1, <3>2, <3>3
  <2> QED BY <2>2, <2>3
<1>4. CASE UnreadChats' = UnreadChats /\ toClient' = toClient
  BY <1>1, <1>2, <1>4
<1> QED BY <1>3, <1>4

(* The daemon told of a chat what it holds of it, or holds what it held.   *)
LEMMA ListKept ==
  ASSUME UnchangedAtPanel, toClient \in Seq(Frames), ListFollows, NEW frame \in Frames,
         ASSUME linkUp', NEW c \in DOMAIN Page(ChatList'), c \notin untold'
         PROVE  \/ Emit(frame) /\ frame \in Telling(c) /\ FrameAgrees(frame, c)'
                \/ /\ c \in DOMAIN Page(ChatList) /\ c \notin untold /\ SameFor(c)
                   /\ (Emit(frame) /\ frame \notin Telling(c)) \/ toClient' = toClient
  PROVE  ListFollows'
<1> SUFFICES ASSUME linkUp', NEW c \in DOMAIN Page(ChatList'), c \notin untold'
             PROVE  Follows(c)'
  BY DEF ListFollows
<1>1. linkUp /\ fresh' = fresh /\ rows' = rows
  BY DEF UnchangedAtPanel, linkVars, listVars
<1>2. ASSUME c \in DOMAIN Page(ChatList), c \notin untold, SameFor(c)
      PROVE  /\ \A f : LastIn(toClient, Telling(c), f) => FrameAgrees(f, c)'
             /\ fresh /\ NoneIn(toClient, Telling(c)) => RowsAgree(c)'
  <2>1. Follows(c)
    BY <1>1, <1>2 DEF ListFollows
  <2>2. ASSUME RowsAgree(c) PROVE RowsAgree(c)'
    <3>1. PICK row : row = rows[c]
      OBVIOUS
    <3>2. RowAgrees(row, c)'
      BY <1>2, <2>2, <3>1, RowStays DEF RowsAgree, Softened
    <3> QED BY <1>1, <2>2, <3>1, <3>2 DEF RowsAgree, RowAgrees
  <2> QED BY <1>2, <2>1, <2>2, FrameStays DEF Follows
<1>3. CASE Emit(frame) /\ frame \in Telling(c) /\ FrameAgrees(frame, c)'
  <2>1. \A f : LastIn(toClient', Telling(c), f) => f = frame
    BY <1>3, EmitAppends
  <2>2. ~NoneIn(toClient', Telling(c))
    BY <1>3, EmitAppends
  <2> QED BY <1>3, <2>1, <2>2 DEF Follows
<1>4. CASE /\ c \in DOMAIN Page(ChatList) /\ c \notin untold /\ SameFor(c)
           /\ Emit(frame) /\ frame \notin Telling(c)
  <2>1. /\ \A f : LastIn(toClient', Telling(c), f) => LastIn(toClient, Telling(c), f)
        /\ NoneIn(toClient', Telling(c)) => NoneIn(toClient, Telling(c))
    BY <1>4, EmitAppends
  <2> QED BY <1>1, <1>2, <1>4, <2>1 DEF Follows
<1>5. CASE c \in DOMAIN Page(ChatList) /\ c \notin untold /\ SameFor(c) /\ toClient' = toClient
  BY <1>1, <1>2, <1>5 DEF Follows
<1> QED BY <1>3, <1>4, <1>5

(* What the daemon holds of a chat, put in a frame, agrees.                *)
LEMMA EmittedAgrees ==
  ASSUME NEW c, NEW frame,
         \/ frame.t = "chats" /\ c \in DOMAIN frame.rows /\ frame.rows[c] = RowOf(c)'
         \/ frame.t # "chats" /\ frame.row = RowOf(c)'
  PROVE  FrameAgrees(frame, c)'
<1>1. ASSUME NEW row, row = RowOf(c)' PROVE RowAgrees(row, c)'
  BY <1>1 DEF RowAgrees, RowOf
<1> QED BY <1>1 DEF FrameAgrees

LEMMA ListedRows ==
  /\ \A c \in DOMAIN ChatList : c \in Chats /\ ChatList[c] = RowOf(c)
  /\ \A c \in DOMAIN Page(ChatList) : c \in DOMAIN ChatList /\ Page(ChatList)[c] = RowOf(c)
<1>1. \A c \in DOMAIN ChatList : c \in Chats /\ ChatList[c] = RowOf(c)
  BY DEF ChatList
<1>2. \A c \in DOMAIN Page(ChatList) : c \in DOMAIN ChatList /\ Page(ChatList)[c] = ChatList[c]
  BY DEF Page
<1> QED BY <1>1, <1>2

LEMMA ListedRowsPrimed ==
  /\ \A c \in DOMAIN ChatList' : c \in Chats /\ ChatList'[c] = RowOf(c)'
  /\ \A c \in DOMAIN Page(ChatList') : c \in DOMAIN ChatList' /\ Page(ChatList')[c] = RowOf(c)'
<1>1. \A c \in DOMAIN ChatList' : c \in Chats /\ ChatList'[c] = RowOf(c)'
  BY DEF ChatList
<1>2. \A c \in DOMAIN Page(ChatList') : c \in DOMAIN ChatList' /\ Page(ChatList')[c] = ChatList'[c]
  BY DEF Page
<1> QED BY <1>1, <1>2

(* Reading a chat makes nothing unread, and leaves nothing of it unread.   *)
LEMMA MarkReadReads ==
  ASSUME StoreTyped, NEW c \in Chats, MarkRead(c)
  PROVE  \A d \in Chats : IsUnread(d)' => IsUnread(d) /\ d # c
<1>0. Through(c) \in Nat /\ inbound[c] <= Through(c)
  BY DEF StoreTyped, Through
<1>1. \A d \in Chats : openedTs[d] <= openedTs'[d]
  BY <1>0 DEF StoreTyped, MarkRead
<1>2. inbound[c] <= openedTs'[c]
  BY <1>0 DEF StoreTyped, MarkRead
<1>3. \A d \in Chats : openedTs'[d] \in Nat /\ openedTs[d] \in Nat /\ inbound[d] \in Nat
  BY <1>0 DEF StoreTyped, MarkRead
<1>4. inbound' = inbound
  BY DEF MarkRead
<1> QED BY <1>1, <1>2, <1>3, <1>4 DEF IsUnread

LEMMA StateFramesCount ==
  ASSUME StoreTyped'
  PROVE  /\ StateFrame(UnreadChats') \in Frames /\ StateFrame(UnreadChats') \in Counting
         /\ StateFrame(UnreadChats').unread = UnreadChats'
         /\ \A c : StateFrame(UnreadChats') \notin Telling(c)
<1>1. /\ StateFrame(UnreadChats') \in Frames
      /\ StateFrame(UnreadChats').t = "state" /\ StateFrame(UnreadChats').unread = UnreadChats'
  BY EmitsTyped DEF StateFrame
<1> QED BY <1>1 DEF Counting, Telling

LEMMA ChatsFramesTell ==
  ASSUME NEW list, NEW n, ChatsFrame(list, n) \in Frames
  PROVE  /\ ChatsFrame(list, n) \in Counting /\ ChatsFrame(list, n).unread = n
         /\ \A c : ChatsFrame(list, n) \in Telling(c)
         /\ ChatsFrame(list, n).t = "chats" /\ ChatsFrame(list, n).rows = list
<1>1. /\ ChatsFrame(list, n).t = "chats" /\ ChatsFrame(list, n).rows = list
      /\ ChatsFrame(list, n).unread = n
  BY DEF ChatsFrame
<1> QED BY <1>1 DEF Counting, Telling

(* A state frame after chats were read, if any were.                       *)
LEMMA StateAgrees ==
  ASSUME Typed, Typed', Agreement, UnchangedAtPanel, EmitState,
         UNCHANGED <<last, inbound, pins, mac, sweeps, untold>>,
         \A c \in Chats :
           /\ IsUnread(c)' => IsUnread(c)
           /\ IsUnread(c)' /\ Read(c) \in Elems(toDaemon) => Read(c) \in Elems(toDaemon')
  PROVE  Agreement'
<1>t. /\ StoreTyped /\ StoreTyped' /\ sweeps \in Seq(Underway) /\ toClient \in Seq(Frames)
      /\ Ordered /\ BadgeFollows /\ ListFollows
  BY DEF Typed, PipesTyped, Agreement
<1>1. PICK frame : frame = StateFrame(UnreadChats')
  OBVIOUS
<1>2. /\ Emit(frame) /\ frame \in Frames /\ frame \in Counting /\ frame.unread = UnreadChats'
      /\ \A c : frame \notin Telling(c)
  BY <1>t, <1>1, StateFramesCount DEF EmitState
<1>3. Ordered'
  BY <1>t, SameTimes, OrderedStays
<1>4. BadgeFollows'
  BY <1>t, <1>2, BadgeKept
<1>5. ASSUME NEW c \in DOMAIN Page(ChatList')
      PROVE  c \in DOMAIN Page(ChatList) /\ SameFor(c)
  <2>1. c \in Chats
    BY ListedRowsPrimed
  <2>2. \A d \in Chats : last[d] <= last'[d]
    BY <1>t DEF StoreTyped
  <2>3. c \in DOMAIN Page(ChatList)
    BY <1>t, <2>1, <2>2, PageShrinks
  <2> QED BY <2>1, <2>3 DEF SameFor
<1>6. ListFollows'
  BY <1>t, <1>2, <1>5, ListKept
<1> QED BY <1>3, <1>4, <1>6 DEF Agreement

(* The whole list, or the page, as the daemon holds it after the step.     *)
LEMMA ChatsAgree ==
  ASSUME Typed, Typed', Agreement, Ordered', UnchangedAtPanel,
         NEW list, list \in {ChatList', Page(ChatList')}, NEW n, n = UnreadChats',
         Emit(ChatsFrame(list, n))
  PROVE  Agreement'
<1>t. StoreTyped' /\ toClient \in Seq(Frames) /\ BadgeFollows /\ ListFollows
  BY DEF Typed, PipesTyped, Agreement
<1>1. PICK frame : frame = ChatsFrame(list, n)
  OBVIOUS
<1>2. frame \in Frames
  BY <1>t, <1>1, EmitsTyped
<1>3. /\ frame \in Counting /\ frame.unread = UnreadChats' /\ \A c : frame \in Telling(c)
      /\ frame.t = "chats" /\ frame.rows = list
  BY <1>1, <1>2, ChatsFramesTell
<1>4. BadgeFollows'
  BY <1>t, <1>1, <1>2, <1>3, BadgeKept
<1>5. ASSUME NEW c \in DOMAIN Page(ChatList') PROVE FrameAgrees(frame, c)'
  <2>1. c \in DOMAIN list /\ list[c] = RowOf(c)'
    BY ListedRowsPrimed
  <2> QED BY <1>3, <2>1, EmittedAgrees
<1>6. ListFollows'
  BY <1>t, <1>1, <1>2, <1>3, <1>5, ListKept
<1> QED BY <1>4, <1>6 DEF Agreement

LEMMA HandleCommandAgrees ==
  ASSUME Typed, Typed', Agreement, HandleCommand
  PROVE  Agreement'
<1> USE DEF storeVars
<1>1. /\ toDaemon # <<>> /\ toDaemon' = Tail(toDaemon)
      /\ HandleHello \/ HandleChats \/ HandleRead \/ HandlePin
      /\ UnchangedAtPanel /\ mac' = mac
  BY DEF HandleCommand
<1>t. /\ StoreTyped /\ StoreTyped' /\ sweeps \in Seq(Underway) /\ toDaemon \in Seq(ToDaemon)
      /\ toClient \in Seq(Frames) /\ Ordered /\ BadgeFollows /\ ListFollows
  BY DEF Typed, PipesTyped, Agreement
<1>2. Elems(toDaemon) = {Head(toDaemon)} \cup Elems(toDaemon')
  BY <1>t, <1>1, ElemsTail
<1>3. CASE HandleHello
  <2>1. /\ Head(toDaemon) = Hello /\ EmitState
        /\ UNCHANGED <<last, inbound, openedTs, swept, pins, sweeps, untold>>
    BY <1>3 DEF HandleHello
  <2>2. \A c \in Chats :
          /\ IsUnread(c)' => IsUnread(c)
          /\ Read(c) \in Elems(toDaemon) => Read(c) \in Elems(toDaemon')
    BY <1>2, <2>1, Commands DEF IsUnread
  <2> QED BY <1>1, <2>1, <2>2, StateAgrees
<1>4. CASE HandleRead
  <2>1. PICK c \in Chats : /\ Head(toDaemon) = Read(c) /\ MarkRead(c) /\ EmitState
                           /\ sweeps' = sweeps /\ untold' = untold
    BY <1>4 DEF HandleRead
  <2>2. UNCHANGED <<last, inbound, pins>>
    BY <2>1 DEF MarkRead
  <2>3. \A d \in Chats : IsUnread(d)' => IsUnread(d) /\ d # c
    BY <1>t, <2>1, MarkReadReads
  <2>4. \A d \in Chats : d # c => Read(d) # Read(c)
    <3>1. \A d : Read(d).chat = d
      BY Commands
    <3> QED BY <3>1
  <2>5. \A d \in Chats : IsUnread(d)' /\ Read(d) \in Elems(toDaemon) => Read(d) \in Elems(toDaemon')
    BY <1>2, <2>1, <2>3, <2>4
  <2> QED BY <1>1, <2>1, <2>2, <2>3, <2>5, StateAgrees
<1>5. CASE HandlePin
  <2>1. UNCHANGED <<last, inbound, openedTs, swept, sweeps>> /\ EmitChats
    BY <1>5 DEF HandlePin
  <2>2. Ordered'
    BY <1>t, <1>1, <2>1, SameTimes, OrderedStays
  <2>3. PICK list, n : list = ChatList' /\ n = UnreadChats'
    OBVIOUS
  <2>4. Emit(ChatsFrame(list, n))
    BY <2>1, <2>3 DEF EmitChats
  <2> QED BY <1>1, <2>2, <2>3, <2>4, ChatsAgree
<1>6. CASE HandleChats
  <2> DEFINE reply == ChatsFrame(Page(ChatList), UnreadChats)
  <2>1. /\ UNCHANGED <<last, inbound, openedTs, swept, pins>> /\ Head(toDaemon) = AskChats
        /\ \/ Emit(reply) /\ sweeps' = Append(sweeps, Sweep(reply))
           \/ /\ sweeps' = Append(sweeps, Sweep(Nothing))
              /\ toClient' = toClient /\ untold' = untold
    BY <1>6 DEF HandleChats
  <2>2. reply \in Served /\ Nothing \in Served
    BY <1>t, EmitsTyped DEF Served
  <2>3. \A sweep \in Elems(sweeps') :
          sweep \in Elems(sweeps) \/ \A c \in Chats : sweep.times[c] <= mac'[c]
    <3> HIDE DEF reply
    <3>1. \A x \in {reply, Nothing} : Sweep(x) \in Underway /\ Sweep(x).times = Zero
      BY <2>2, SweepTyped
    <3>2. \A x \in {reply, Nothing} : Elems(Append(sweeps, Sweep(x))) = Elems(sweeps) \cup {Sweep(x)}
      BY <1>t, <3>1, ElemsAppend
    <3>3. \A c \in Chats : Zero[c] <= mac'[c]
      BY DEF Zero, Typed, MacTyped
    <3> QED BY <2>1, <3>1, <3>2, <3>3
  <2>4. Ordered'
    BY <1>t, <1>1, <2>1, <2>3, SameTimes, OrderedStays
  <2>5. UnreadChats' = UnreadChats /\ ChatList' = ChatList
    BY <1>t, <2>1, <2>4, UnreadStays DEF ChatList, RowOf, IsUnread
  <2>6. CASE Emit(reply)
    <3>1. PICK list, n : list = Page(ChatList') /\ n = UnreadChats'
      OBVIOUS
    <3>2. Emit(ChatsFrame(list, n))
      BY <2>5, <2>6, <3>1
    <3> QED BY <1>1, <2>4, <3>1, <3>2, ChatsAgree
  <2>7. CASE toClient' = toClient /\ untold' = untold
    <3>1. PICK frame \in Frames : TRUE
      BY EmitsTyped
    <3>2. BadgeFollows'
      BY <1>t, <1>1, <2>5, <2>7, <3>1, BadgeKept
    <3>3. ASSUME NEW c \in DOMAIN Page(ChatList')
          PROVE  c \in DOMAIN Page(ChatList) /\ SameFor(c)
      <4>1. Read(c) \in Elems(toDaemon) => Read(c) \in Elems(toDaemon')
        BY <1>2, <2>1, Commands
      <4>2. c \in DOMAIN Page(ChatList)
        BY <2>5
      <4> QED BY <2>1, <4>1, <4>2 DEF SameFor, IsUnread
    <3>4. ListFollows'
      BY <1>t, <1>1, <2>7, <3>1, <3>3, ListKept
    <3> QED BY <2>4, <3>2, <3>4 DEF Agreement
  <2> QED BY <2>1, <2>6, <2>7
<1> QED BY <1>1, <1>3, <1>4, <1>5, <1>6

LEMMA ElsewhereAgrees ==
  ASSUME Typed, Typed', Agreement, NEW c \in Chats, NEW onPhone \in BOOLEAN, ReadElsewhere(c, onPhone)
  PROVE  Agreement'
<1>1. /\ MarkRead(c) /\ UnchangedAtPanel
      /\ EmitChats \/ (EmitState /\ untold' = untold)
      /\ UNCHANGED <<toDaemon, mac, sweeps>>
  BY DEF ReadElsewhere
<1>t. StoreTyped /\ StoreTyped' /\ sweeps \in Seq(Underway) /\ Ordered
  BY DEF Typed, PipesTyped, Agreement
<1>2. UNCHANGED <<last, inbound, pins>>
  BY <1>1 DEF MarkRead
<1>3. CASE EmitState /\ untold' = untold
  <2>1. \A d \in Chats : IsUnread(d)' => IsUnread(d)
    BY <1>t, <1>1, MarkReadReads
  <2> QED BY <1>1, <1>2, <1>3, <2>1, StateAgrees
<1>4. CASE EmitChats
  <2>1. Ordered'
    BY <1>t, <1>1, <1>2, SameTimes, OrderedStays
  <2>2. PICK list, n : list = ChatList' /\ n = UnreadChats'
    OBVIOUS
  <2>3. Emit(ChatsFrame(list, n))
    BY <1>4, <2>2 DEF EmitChats
  <2> QED BY <1>1, <2>1, <2>2, <2>3, ChatsAgree
<1> QED BY <1>1, <1>3, <1>4

LEMMA SweepAgrees ==
  ASSUME Typed, Typed', Agreement, NEW i \in DOMAIN sweeps, SweepLands(i) \/ SweepFails(i)
  PROVE  Agreement'
<1> USE DEF storeVars
<1>t. /\ StoreTyped /\ StoreTyped' /\ sweeps \in Seq(Underway) /\ toClient \in Seq(Frames)
      /\ mac \in [Chats -> Nat] /\ Ordered /\ BadgeFollows /\ ListFollows
  BY DEF Typed, MacTyped, PipesTyped, Agreement
<1>1. Elems(WithoutIndex(sweeps, i)) \subseteq Elems(sweeps)
  BY <1>t, WithoutFewer
<1>2. CASE SweepFails(i)
  <2>1. /\ UNCHANGED <<last, inbound, openedTs, swept, pins, mac, untold, toDaemon>> /\ UnchangedAtPanel
        /\ sweeps' = WithoutIndex(sweeps, i)
        /\ Emit(ChatsError) \/ toClient' = toClient
    BY <1>2 DEF SweepFails, UnchangedAtPanel
  <2>2. Ordered'
    BY <1>t, <1>1, <2>1, SameTimes, OrderedStays
  <2>3. UnreadChats' = UnreadChats
    BY <1>t, <2>1, <2>2, UnreadStays
  <2>4. PICK frame : frame = ChatsError
    OBVIOUS
  <2>5. /\ frame \in Frames /\ frame \notin Counting /\ \A c : frame \notin Telling(c)
        /\ Emit(frame) \/ toClient' = toClient
    BY <2>1, <2>4, EmitsTyped DEF Counting, Telling
  <2>6. BadgeFollows'
    BY <1>t, <2>1, <2>3, <2>5, BadgeKept
  <2>7. ASSUME NEW c \in DOMAIN Page(ChatList')
        PROVE  c \in DOMAIN Page(ChatList) /\ SameFor(c)
    <3>1. ChatList' = ChatList
      BY <2>1 DEF ChatList, RowOf, IsUnread
    <3>2. c \in DOMAIN Page(ChatList)
      BY <3>1
    <3> QED BY <2>1, <3>2 DEF SameFor, IsUnread
  <2>8. ListFollows'
    BY <1>t, <2>1, <2>5, <2>7, ListKept
  <2> QED BY <2>2, <2>6, <2>8 DEF Agreement
<1>3. CASE SweepLands(i)
  <2>1. /\ last' = Replaced(sweeps[i].times)
        /\ UNCHANGED <<inbound, openedTs, pins, mac, toDaemon>> /\ UnchangedAtPanel
        /\ sweeps' = WithoutIndex(sweeps, i)
        /\ SweepTells(sweeps[i].served, Page(ChatList'))
    BY <1>3 DEF SweepLands
  <2>2. Ordered'
    <3>1. /\ sweeps[i].times \in [Chats -> Nat]
          /\ \A c \in Chats : sweeps[i].times[c] <= mac[c]
      BY <1>t, UnderwayTyped DEF Ordered, Elems
    <3>2. \A c \in Chats : last'[c] = IF sweeps[i].times[c] > 0 THEN sweeps[i].times[c] ELSE last[c]
      BY <2>1 DEF Replaced
    <3>3. TimesMove
      BY <1>t, <2>1, <3>1, <3>2 DEF StoreTyped, Ordered, TimesMove
    <3> QED BY <1>t, <1>1, <2>1, <3>3, OrderedStays
  <2>3. UnreadChats' = UnreadChats
    BY <1>t, <2>1, <2>2, UnreadStays
  <2>4. CASE Emit(ChatsFrame(Page(ChatList'), UnreadChats'))
    <3>1. PICK list, n : list = Page(ChatList') /\ n = UnreadChats'
      OBVIOUS
    <3>2. Emit(ChatsFrame(list, n))
      BY <2>4, <3>1
    <3> QED BY <2>1, <2>2, <3>1, <3>2, ChatsAgree
  <2>5. CASE toClient' = toClient /\ untold' = (IF linkUp THEN untold \cup Moved ELSE untold)
    <3>1. PICK frame \in Frames : TRUE
      BY EmitsTyped
    <3>2. BadgeFollows'
      BY <1>t, <2>1, <2>3, <2>5, <3>1, BadgeKept
    <3>3. ASSUME linkUp', NEW c \in DOMAIN Page(ChatList'), c \notin untold'
          PROVE  c \in DOMAIN Page(ChatList) /\ c \notin untold /\ SameFor(c)
      <4>1. linkUp
        BY <2>1, <3>3 DEF UnchangedAtPanel, linkVars
      <4>2. c \notin untold /\ c \notin Moved
        BY <2>5, <3>3, <4>1
      <4>3. c \in DOMAIN Page(ChatList) /\ last'[c] = last[c]
        BY <3>3, <4>2 DEF Moved
      <4> QED BY <2>1, <4>2, <4>3 DEF SameFor, IsUnread
    <3>4. ListFollows'
      BY <1>t, <2>1, <2>5, <3>1, <3>3, ListKept
    <3> QED BY <2>2, <3>2, <3>4 DEF Agreement
  <2> QED BY <2>1, <2>4, <2>5, Zenon DEF SweepTells
<1> QED BY <1>2, <1>3

LEMMA SweepServedAgrees ==
  ASSUME Typed, Typed', Agreement, NEW i \in DOMAIN sweeps, MacServesSweep(i)
  PROVE  Agreement'
<1>1. /\ sweeps \in Seq(Underway) /\ mac \in [Chats -> Nat] /\ Ordered
  BY DEF Typed, MacTyped, PipesTyped, Agreement
<1>2. UnchangedAtPanel /\ UNCHANGED <<toDaemon, toClient, mac, storeVars, untold>>
  BY DEF MacServesSweep
<1>3. \A sweep \in Elems(sweeps') : \E old \in Elems(sweeps) : sweep.times \in {old.times, mac}
  BY <1>1, ServedTyped
<1>4. \A c \in Chats : mac[c] <= mac'[c]
  BY <1>1, <1>2
<1>5. \A sweep \in Elems(sweeps') : \/ \E old \in Elems(sweeps) : sweep.times = old.times
                                    \/ \A c \in Chats : sweep.times[c] <= mac'[c]
  BY <1>3, <1>4
<1>6. Ordered'
  BY <1>1, <1>2, <1>5, SameTimes, OrderedStays DEF storeVars
<1>7. Elems(toDaemon) \subseteq Elems(toDaemon') /\ Softens(rows, rows')
  BY <1>2, SoftensNothing DEF UnchangedAtPanel, listVars
<1> QED BY <1>2, <1>6, <1>7, SoftenedAgrees DEF UnchangedAtPanel, listVars, linkVars

LEMMA MacAgrees ==
  ASSUME Typed, Typed', Agreement, NEW c \in Chats, NEW own \in BOOLEAN, NEW pushed \in BOOLEAN,
         MacMessage(c, own, pushed)
  PROVE  Agreement'
<1> USE DEF storeVars
<1>t. /\ StoreTyped /\ StoreTyped' /\ sweeps \in Seq(Underway) /\ toClient \in Seq(Frames)
      /\ mac \in [Chats -> Nat] /\ Ordered /\ BadgeFollows /\ ListFollows
  BY DEF Typed, MacTyped, PipesTyped, Agreement
<1>1. Top \in Nat /\ \A d \in Chats : mac[d] <= Top
  <2>1. \E n \in {mac[d] : d \in Chats} : \A d \in Chats : mac[d] <= n
    BY <1>t DEF Typed, MacTyped
  <2>2. Top \in {mac[d] : d \in Chats} /\ \A d \in Chats : mac[d] <= Top
    BY <2>1 DEF Top
  <2> QED BY <1>t, <2>2
<1>2. PICK ts : ts = Top + 1
  OBVIOUS
<1>3. /\ mac' = [mac EXCEPT ![c] = ts]
      /\ \/ HandleMessage(c, own, ts)
         \/ UNCHANGED <<last, inbound, openedTs, swept, pins, toClient, untold>>
      /\ UnchangedAtPanel /\ UNCHANGED <<toDaemon, sweeps>>
  BY <1>2 DEF MacMessage
<1>4. ts \in Nat /\ \A d \in Chats : mac[d] <= ts
  BY <1>t, <1>1, <1>2
<1> HIDE DEF Top
<1>5. CASE HandleMessage(c, own, ts)
  <2>1. /\ last' = [last EXCEPT ![c] = ts]
        /\ inbound' \in {inbound, [inbound EXCEPT ![c] = ts]}
        /\ UNCHANGED <<openedTs, swept, pins>>
        /\ Emit(MessageFrame(c, RowOf(c)', UnreadChats')) /\ untold' = untold \ {c}
    BY <1>5 DEF HandleMessage
  <2>2. TimesMove /\ \A d \in Chats : last[d] <= last'[d]
    <3>1. \A d \in Chats : (inbound[d] > 0 => last[d] > 0) /\ last[d] <= mac[d]
                           /\ inbound[d] \in Nat /\ last[d] \in Nat /\ mac[d] \in Nat
      BY <1>t DEF StoreTyped, Ordered
    <3>2. ts > 0
      BY <1>1, <1>2
    <3> QED BY <1>t, <1>3, <1>4, <2>1, <3>1, <3>2 DEF StoreTyped, TimesMove
  <2>3. Ordered'
    BY <1>t, <1>3, <2>2, OrderedStays
  <2>4. PICK frame : frame = MessageFrame(c, RowOf(c)', UnreadChats')
    OBVIOUS
  <2>5. /\ frame.t = "message" /\ frame.chat = c /\ frame.row = RowOf(c)'
        /\ frame.unread = UnreadChats'
    BY <2>4 DEF MessageFrame
  <2>6. frame \in Frames
    <3>1. RowOf(c)' \in Row
      BY <1>t DEF StoreTyped, RowOf, Row, IsUnread
    <3> QED BY <1>t, <2>4, <3>1, ListOfStorePrimed DEF Frames, MessageFrames
  <2>7. frame \in Counting /\ \A d : frame \in Telling(d) <=> d = c
    BY <2>5, <2>6 DEF Counting, Telling
  <2>8. BadgeFollows'
    BY <1>t, <1>3, <2>1, <2>4, <2>5, <2>6, <2>7, BadgeKept
  <2>9. FrameAgrees(frame, c)'
    BY <2>5, EmittedAgrees
  <2>10. ASSUME NEW d \in DOMAIN Page(ChatList'), d # c
         PROVE  d \in DOMAIN Page(ChatList) /\ SameFor(d)
    <3>1. d \in Chats
      BY ListedRowsPrimed
    <3>2. last'[d] = last[d] /\ inbound'[d] = inbound[d]
      BY <1>t, <2>1, <2>10, <3>1 DEF StoreTyped
    <3>3. \A e \in Chats : last[e] <= last'[e]
      BY <2>2
    <3>4. d \in DOMAIN Page(ChatList)
      BY <1>t, <2>1, <3>1, <3>2, <3>3, PageShrinks
    <3> QED BY <1>3, <2>1, <3>2, <3>4 DEF SameFor, IsUnread
  <2>11. ListFollows'
    BY <1>t, <1>3, <2>1, <2>4, <2>6, <2>7, <2>9, <2>10, ListKept
  <2> QED BY <2>3, <2>8, <2>11 DEF Agreement
<1>6. CASE UNCHANGED <<last, inbound, openedTs, swept, pins, toClient, untold>>
  <2>1. TimesMove
    BY <1>t, <1>3, <1>4, <1>6 DEF StoreTyped, Ordered, TimesMove
  <2>2. Ordered'
    BY <1>t, <1>3, <2>1, OrderedStays
  <2>3. UnreadChats' = UnreadChats
    BY <1>t, <1>6, <2>2, UnreadStays
  <2>4. PICK frame \in Frames : TRUE
    BY EmitsTyped
  <2>5. BadgeFollows'
    BY <1>t, <1>3, <1>6, <2>3, <2>4, BadgeKept
  <2>6. ASSUME NEW d \in DOMAIN Page(ChatList')
        PROVE  d \in DOMAIN Page(ChatList) /\ SameFor(d)
    <3>1. ChatList' = ChatList
      BY <1>6 DEF ChatList, RowOf, IsUnread
    <3>2. d \in DOMAIN Page(ChatList)
      BY <3>1
    <3> QED BY <1>3, <1>6, <3>2 DEF SameFor, IsUnread
  <2>7. ListFollows'
    BY <1>t, <1>3, <1>6, <2>4, <2>6, ListKept
  <2> QED BY <2>2, <2>5, <2>7 DEF Agreement
<1> QED BY <1>3, <1>5, <1>6

LEMMA InitAgrees == Init => Agreement
<1> SUFFICES ASSUME Init PROVE Agreement
  OBVIOUS
<1>1. Ordered
  BY PanelAssumptions DEF Init, Ordered, Zero, Elems
<1> QED BY <1>1 DEF Agreement, Init, BadgeFollows, ListFollows

LEMMA NextAgrees == Typed /\ Typed' /\ Agreement /\ [Next]_vars => Agreement'
<1> SUFFICES ASSUME Typed, Typed', Agreement, [Next]_vars PROVE Agreement'
  OBVIOUS
<1>1. CASE OpenPanel \/ ClosePanel \/ BackToChats
  BY <1>1, PanelActsAgree
<1>2. CASE \E c \in Chats : OpenThread(c) \/ TogglePin(c) \/ ClickToast(c)
  BY <1>2, ChoosingAgrees
<1>3. CASE HandleFrame \/ HandleCommand
  BY <1>3, HandleFrameAgrees, HandleCommandAgrees
<1>4. CASE DropLink \/ RestartShell \/ Reconnect \/ LinkEstablished
  BY <1>4, LinkAgrees
<1>5. CASE \E i \in DOMAIN sweeps : MacServesSweep(i) \/ SweepLands(i) \/ SweepFails(i)
  BY <1>5, SweepServedAgrees, SweepAgrees
<1>6. CASE \E c \in Chats, onPhone \in BOOLEAN : ReadElsewhere(c, onPhone)
  BY <1>6, ElsewhereAgrees
<1>7. CASE \E c \in Chats, own, pushed \in BOOLEAN : MacMessage(c, own, pushed)
  BY <1>7, MacAgrees
<1>8. CASE UNCHANGED vars
  <2>1. Elems(toDaemon') = Elems(toDaemon) /\ Softens(rows, rows')
    BY <1>8, SoftensNothing DEF vars, listVars
  <2> QED BY <1>8, <2>1, ReaderAgrees DEF vars, listVars, linkVars
<1> QED BY <1>1, <1>2, <1>3, <1>4, <1>5, <1>6, <1>7, <1>8 DEF Next

(* With nothing under way the panel shows the daemon's count and, for each *)
(* chat of the daemon's page but those a sweep moved without a word        *)
(* (index.js:157-160), its pin and its time, and hides no unread chat      *)
(* (Client.qml:147-149, 438-440): for any chats, page and pipes, and any   *)
(* order of reads, pins, pushes, answers, landings and lost links.         *)
THEOREM QuietListAgrees == Spec => []ListAgrees
<1>1. Typed /\ Agreement => ListAgrees
  <2> SUFFICES ASSUME Typed, Agreement, Quiet
               PROVE  /\ badge = UnreadChats
                      /\ \A c \in DOMAIN Page(ChatList) \ untold :
                           /\ c \in DOMAIN rows
                           /\ rows[c].pinned = (c \in pins) /\ rows[c].ts = last[c]
                           /\ IsUnread(c) => rows[c].unread
    BY DEF ListAgrees
  <2>1. linkUp /\ fresh /\ toDaemon = <<>> /\ toClient = <<>>
    BY DEF Quiet
  <2>2. \A T : NoneIn(toClient, T)
    BY <2>1 DEF NoneIn
  <2>3. badge = UnreadChats
    BY <2>1, <2>2 DEF Agreement, BadgeFollows
  <2>4. \A c \in DOMAIN Page(ChatList) \ untold : RowsAgree(c)
    BY <2>1, <2>2 DEF Agreement, ListFollows, Follows
  <2>5. Elems(toDaemon) = {}
    BY <2>1, ElemsOne
  <2> QED BY <2>3, <2>4, <2>5 DEF RowsAgree, RowAgrees
<1> QED BY <1>1, InitKept, StepKeeps, InitAgrees, NextAgrees, PTL DEF Spec
=============================================================================
