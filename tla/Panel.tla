------------------------------- MODULE Panel -------------------------------
(***************************************************************************)
(* One panel and the daemon: which thread is on screen (Panel.qml), the    *)
(* chat list and badge the client holds (Client.qml), the daemon's list,   *)
(* its pins and what it answers (daemon/index.js, lib/store.js,            *)
(* lib/pins.js), and the toasts that open a chat from outside the panel    *)
(* (lib/notify.js, BarWidget.qml).                                         *)
(*                                                                         *)
(* The reader, the Mac, the phone, other panels and the link take their    *)
(* steps between any two frames of the two pipes.  QML runs one handler at *)
(* a time, and a property's change handler inside the assignment: an       *)
(* action of the panel is one handler with all the handlers it sets off.   *)
(*                                                                         *)
(* The list is kept as a row per chat: both ends order it by pin and time, *)
(* and every time is of another message.  How many messages of a chat are  *)
(* unread, and what becomes of the seed, is module Store's; what is in a   *)
(* thread is module Thread's.                                              *)
(***************************************************************************)
EXTENDS Integers, Sequences, FiniteSets

CONSTANTS
  Chats,      \* chat guids
  NoChat,     \* ""
  Account,    \* the chats the Mac lists at the start
  Age,        \* the time of the last message of each of them, 0 of no other
  ChatLimit,  \* chatLimit: the page a panel asks for
  MaxEvents,  \* bound: messages filed, pins set, chats read elsewhere, links
              \* dropped, shells restarted and sweeps refused, all told
  MaxCommands, \* bound: commands the daemon has not read, for the reader to act
  MaxFrames,  \* bound: frames the client has not handled, for the daemon to act
  MaxSweeps   \* bound: `chats` commands under way at once

ASSUME PanelAssumptions ==
  /\ NoChat \notin Chats /\ IsFiniteSet(Chats)
  /\ Account \subseteq Chats /\ Age \in [Chats -> Nat]
  /\ \A c \in Chats : c \in Account <=> Age[c] > 0
  /\ \E c \in Chats : \A d \in Chats : Age[d] <= Age[c]
  /\ {ChatLimit, MaxEvents, MaxCommands, MaxFrames, MaxSweeps} \subseteq Nat

VARIABLES
  opened,       \* the panel is shown
  active,       \* activeChatGuid, and the guid of activeChat: its view is "thread"
  held,         \* openFollowGuid
  rows,         \* chats: a row for each chat the client lists
  badge,        \* unread
  chatsPending,
  fresh,        \* lastChatsMs is not 0
  linkUp,
  established,  \* onLinkEstablished has run for this link
  toDaemon, toClient,
  mac,          \* the time of each chat's last message on the Mac, or 0
  last,         \* and in the daemon's chats; 0 when it holds no such chat.  It may
                \* be older than the newest of the run: a sweep puts back what it
                \* was answered
  inbound,      \* the newest of a chat's unreadTs, or 0
  openedTs,     \* the read boundary
  swept,        \* sweptChats
  pins,
  sweeps,       \* `chats` commands under way: what each was served from the
                \* cache, and the times the Mac has answered it
  untold,       \* auxiliary: the chats of the page whose time or place a sweep
                \* changed without a frame to this panel, since it was last told
  toasts,       \* chats with a notification on screen or in the history
  events

readerVars == <<opened, active, held>>
listVars   == <<rows, badge, chatsPending, fresh>>
linkVars   == <<linkUp, established>>
storeVars  == <<last, inbound, openedTs, swept, pins>>
vars == <<readerVars, listVars, linkVars, toDaemon, toClient, mac, storeVars, sweeps,
          untold, toasts, events>>

Row  == [pinned : BOOLEAN, unread : BOOLEAN, ts : Nat]
IsList(list) == DOMAIN list \subseteq Chats /\ list \in [DOMAIN list -> Row]

Hello == [t |-> "hello"]
AskChats == [t |-> "chats"]
Read(c) == [t |-> "read", chat |-> c]
Pin(c, p) == [t |-> "pin", chat |-> c, pinned |-> p]

ToDaemon == {Hello, AskChats} \cup {Read(c) : c \in Chats}
              \cup {Pin(c, p) : c \in Chats, p \in BOOLEAN}

StateFrame(n) == [t |-> "state", unread |-> n]
ChatsFrame(list, n) == [t |-> "chats", rows |-> list, unread |-> n]
MessageFrame(c, row, n) == [t |-> "message", chat |-> c, row |-> row, unread |-> n]
ChatsError == [t |-> "error"]

IsChats(frame) ==
  frame = ChatsFrame(frame.rows, frame.unread) /\ IsList(frame.rows) /\ frame.unread \in Nat

IsMessage(frame) ==
  /\ frame = MessageFrame(frame.chat, frame.row, frame.unread)
  /\ frame.chat \in Chats /\ frame.row \in Row /\ frame.unread \in Nat

ToClient(frame) ==
  CASE frame.t = "state"   -> frame \in [t : {"state"}, unread : Nat]
    [] frame.t = "chats"   -> IsChats(frame)
    [] frame.t = "message" -> IsMessage(frame)
    [] frame.t = "error"   -> frame = ChatsError

NoRows == [c \in {} |-> <<>>]
Zero   == [c \in Chats |-> 0]

Nothing == [t |-> "nothing"]   \* served nothing: the list was cold
Gone    == [t |-> "gone"]      \* nobody is left to answer

Sweep(served) == [served |-> served, answered |-> FALSE, times |-> Zero]

TypeOK ==
  /\ opened \in BOOLEAN /\ {active, held} \subseteq Chats \cup {NoChat}
  /\ held \notin DOMAIN rows
  /\ IsList(rows) /\ badge \in Nat
  /\ {chatsPending, fresh, linkUp, established, swept} \subseteq BOOLEAN
  /\ toDaemon \in Seq(ToDaemon)
  /\ \A i \in DOMAIN toClient : ToClient(toClient[i])
  /\ {mac, last, inbound, openedTs} \subseteq [Chats -> Nat]
  /\ pins \subseteq Chats /\ toasts \subseteq Chats /\ untold \subseteq Chats
  /\ \A i \in DOMAIN sweeps :
       /\ sweeps[i].served \in {Nothing, Gone} \/ IsChats(sweeps[i].served)
       /\ sweeps[i].answered \in BOOLEAN /\ sweeps[i].times \in [Chats -> Nat]
  /\ events \in Nat

-----------------------------------------------------------------------------
(* The daemon's list: chatList, unreadChats, and the page of a reply *)

IsUnread(c) == inbound[c] > openedTs[c]

RowOf(c) == [pinned |-> c \in pins, unread |-> IsUnread(c), ts |-> last[c]]

ChatList == [c \in {d \in Chats : last[d] > 0} |-> RowOf(c)]

UnreadChats == Cardinality({c \in DOMAIN ChatList : IsUnread(c)})

Above(list, c) ==
  {d \in DOMAIN list : \/ list[d].pinned /\ ~list[c].pinned
                       \/ list[d].pinned = list[c].pinned /\ list[d].ts > list[c].ts}

Page(list) ==
  IF ChatLimit = 0
    THEN list
    ELSE [c \in {d \in DOMAIN list : Cardinality(Above(list, d)) < ChatLimit} |-> list[c]]

-----------------------------------------------------------------------------
(* The panel's list: what the handlers do to it *)

Clear(list, c) ==
  IF c \in DOMAIN list THEN [list EXCEPT ![c].unread = FALSE] ELSE list

(* markRead: a frame, and the chat's own row; nothing without a link.      *)
Marked(list, c) == IF linkUp THEN Clear(list, c) ELSE list

(* A click held for a chat that is not listed is let go by any change of   *)
(* the list, which clearing the row of a listed chat is.                   *)
HeldAfter(list, c, guid) == IF linkUp /\ c \in DOMAIN list THEN NoChat ELSE guid

Request(frames) == toDaemon' = IF linkUp THEN toDaemon \o frames ELSE toDaemon

(* onChatsChanged, for a held click: openThread of the chat, if it is      *)
(* listed now.                                                             *)
SetChats(list) ==
  IF held # NoChat /\ held \in DOMAIN list
    THEN [rows |-> Marked(list, held), active |-> held, frames |-> <<Read(held)>>]
    ELSE [rows |-> list, active |-> active, frames |-> <<>>]

(* onOpenedChanged: whether the list is asked for depends on its age; the  *)
(* thread still active is on screen again and is read.                     *)
OnOpened(list, chat, guid, before) ==
  \E aged \in BOOLEAN :
    LET asks == ~chatsPending /\ (aged \/ ~fresh)
        read == IF chat = NoChat THEN <<>> ELSE <<Read(chat)>>
    IN /\ opened' = TRUE /\ active' = chat
       /\ held' = HeldAfter(list, chat, guid)
       /\ rows' = Marked(list, chat)
       /\ chatsPending' = (chatsPending \/ (asks /\ linkUp))
       /\ Request(before \o <<Hello>> \o (IF asks THEN <<AskChats>> ELSE <<>>) \o read)

Init ==
  /\ opened = FALSE /\ active = NoChat /\ held = NoChat
  /\ rows = NoRows /\ badge = 0 /\ chatsPending = FALSE /\ fresh = FALSE
  /\ linkUp = FALSE /\ established = FALSE
  /\ toDaemon = <<>> /\ toClient = <<>>
  /\ mac = Age /\ inbound = Zero /\ openedTs = Zero /\ toasts = {}
  /\ swept \in BOOLEAN /\ last = IF swept THEN Age ELSE Zero
  /\ pins = {}
  /\ sweeps = <<>> /\ untold = {} /\ events = 0

ReaderMayAct == Len(toDaemon) < MaxCommands
DaemonMayAct == Len(toClient) < MaxFrames
Event == events < MaxEvents /\ events' = events + 1

-----------------------------------------------------------------------------
(* The reader *)

UnchangedBehindLink ==
  UNCHANGED <<badge, fresh, linkVars, toClient, mac, storeVars, sweeps, untold>>

(* From the bar, by IPC, or when a file dialog resolves. *)
OpenPanel ==
  /\ ReaderMayAct /\ ~opened
  /\ OnOpened(rows, active, held, <<>>)
  /\ UnchangedBehindLink /\ UNCHANGED <<toasts, events>>

(* And as pickImages does: closing the panel is not leaving the chat. *)
ClosePanel ==
  /\ opened /\ opened' = FALSE
  /\ UnchangedBehindLink
  /\ UNCHANGED <<active, held, rows, chatsPending, toDaemon, toasts, events>>

OpenThread(c) ==
  /\ ReaderMayAct /\ opened /\ active = NoChat /\ c \in DOMAIN rows
  /\ active' = c
  /\ rows' = Marked(rows, c) /\ held' = HeldAfter(rows, c, held)
  /\ Request(<<Read(c)>>)
  /\ UnchangedBehindLink /\ UNCHANGED <<opened, chatsPending, toasts, events>>

BackToChats ==
  /\ opened /\ active # NoChat
  /\ active' = NoChat
  /\ UnchangedBehindLink
  /\ UNCHANGED <<opened, held, rows, chatsPending, toDaemon, toasts, events>>

TogglePin(c) ==
  /\ ReaderMayAct /\ opened /\ active = NoChat /\ c \in DOMAIN rows /\ Event
  /\ Request(<<Pin(c, ~rows[c].pinned)>>)
  /\ UnchangedBehindLink /\ UNCHANGED <<readerVars, rows, chatsPending, toasts>>

(* openChatGuid: the thread is chosen first, then the panel is shown. *)
ClickListed(c) ==
  /\ c \in DOMAIN rows
  /\ IF opened
       THEN /\ active' = c /\ held' = HeldAfter(rows, c, held)
            /\ rows' = Marked(rows, c)
            /\ Request(<<Read(c)>>)
            /\ UNCHANGED <<opened, chatsPending>>
       ELSE OnOpened(Marked(rows, c), c, held, <<Read(c)>>)

ClickUnlisted(c) ==
  /\ c \notin DOMAIN rows
  /\ IF opened
       THEN held' = c /\ UNCHANGED <<opened, active, rows, chatsPending, toDaemon>>
       ELSE OnOpened(rows, active, c, <<>>)

ClickToast(c) ==
  /\ ReaderMayAct /\ c \in toasts /\ toasts' = toasts \ {c}
  /\ ClickListed(c) \/ ClickUnlisted(c)
  /\ UnchangedBehindLink /\ UNCHANGED events

-----------------------------------------------------------------------------
(* The client's frames *)

Spent_Never == held   \* mutant: openFollowGuid is not reset

(* A held click is good for one change of the list. *)
Spent == NoChat

OnState(frame) ==
  /\ frame.t = "state"
  /\ badge' = frame.unread
  /\ UNCHANGED <<readerVars, rows, chatsPending, fresh, toDaemon>>

OnChats(frame) ==
  /\ frame.t = "chats"
  /\ LET set == SetChats(frame.rows)
     IN /\ rows' = set.rows /\ active' = set.active
        /\ Request(set.frames)
  /\ held' = Spent /\ chatsPending' = FALSE /\ fresh' = TRUE
  /\ badge' = frame.unread
  /\ UNCHANGED opened

SeenNow_Closed(c, chat) == c = chat   \* mutant: whether the panel is shown is not asked

(* onMessageArrived: what lands in the thread on screen is read. *)
SeenNow(c, chat) == c = chat /\ opened

OnMessage(frame) ==
  /\ frame.t = "message"
  /\ LET c    == frame.chat
         list == [d \in DOMAIN rows \cup {c} |-> IF d = c THEN frame.row ELSE rows[d]]
         set  == SetChats(list)
         seen == SeenNow(c, set.active)
     IN /\ rows' = IF seen THEN Marked(set.rows, c) ELSE set.rows
        /\ active' = set.active
        /\ Request(IF seen THEN Append(set.frames, Read(c)) ELSE set.frames)
  /\ held' = Spent
  /\ badge' = frame.unread
  /\ UNCHANGED <<opened, chatsPending, fresh>>

OnError_KeepsFlag(frame) ==   \* mutant: chatsPending outlives the refusal
  /\ frame.t = "error"
  /\ UNCHANGED <<readerVars, listVars, toDaemon>>

OnError(frame) ==
  /\ frame.t = "error"
  /\ chatsPending' = FALSE
  /\ UNCHANGED <<readerVars, rows, badge, fresh, toDaemon>>

HandleFrame ==
  /\ linkUp /\ toClient # <<>>
  /\ toClient' = Tail(toClient)
  /\ LET frame == Head(toClient)
     IN OnState(frame) \/ OnChats(frame) \/ OnMessage(frame) \/ OnError(frame)
  /\ UNCHANGED <<linkVars, mac, storeVars, sweeps, untold, toasts, events>>

-----------------------------------------------------------------------------
(* The link *)

LoseLink ==
  /\ linkUp' = FALSE /\ established' = FALSE
  /\ toDaemon' = <<>> /\ toClient' = <<>>
  /\ sweeps' = [i \in DOMAIN sweeps |-> [sweeps[i] EXCEPT !.served = Gone]]
  /\ untold' = {}
  /\ UNCHANGED <<mac, storeVars, toasts>>

DropLink ==
  /\ linkUp /\ Event
  /\ LoseLink
  /\ UNCHANGED <<readerVars, listVars>>

(* "A toast outlives a shell restart" (Panel.qml:397). *)
RestartShell ==
  /\ Event
  /\ LoseLink
  /\ opened' = FALSE /\ active' = NoChat /\ held' = NoChat
  /\ rows' = NoRows /\ badge' = 0 /\ chatsPending' = FALSE /\ fresh' = FALSE

(* handleConnectionState; the daemon volunteers a `state` frame. *)
Reconnect ==
  /\ ~linkUp /\ linkUp' = TRUE
  /\ chatsPending' = FALSE /\ fresh' = FALSE
  /\ toClient' = <<StateFrame(UnreadChats)>>
  /\ UNCHANGED <<readerVars, rows, badge, established, toDaemon, mac, storeVars, sweeps,
                 untold, toasts, events>>

(* onLinkEstablished, one turn later *)
LinkEstablished ==
  /\ linkUp /\ ~established /\ established' = TRUE
  /\ chatsPending' = TRUE
  /\ Request(<<Hello, AskChats>>)
  /\ UNCHANGED <<readerVars, rows, badge, fresh, linkUp, toClient, mac, storeVars, sweeps,
                 untold, toasts, events>>

-----------------------------------------------------------------------------
(* The daemon *)

UnchangedAtPanel == UNCHANGED <<readerVars, listVars, linkVars>>

(* A broadcast, and the reply to a client that is still there *)
Emit(frame) == toClient' = IF linkUp THEN Append(toClient, frame) ELSE toClient

(* What the store holds is read after it has changed. *)
EmitState == Emit(StateFrame(UnreadChats'))
EmitChats_Before ==   \* mutant: the list is taken before the change
  Emit(ChatsFrame(ChatList, UnreadChats'))

EmitChats == Emit(ChatsFrame(ChatList', UnreadChats'))

HandleHello ==
  /\ Head(toDaemon) = Hello
  /\ UNCHANGED <<storeVars, sweeps, untold>>
  /\ EmitState

(* Cache first, then revalidate. *)
HandleChats ==
  /\ Head(toDaemon) = AskChats /\ Len(sweeps) < MaxSweeps
  /\ LET reply == ChatsFrame(Page(ChatList), UnreadChats)
     IN IF swept
          THEN Emit(reply) /\ sweeps' = Append(sweeps, Sweep(reply)) /\ untold' = {}
          ELSE sweeps' = Append(sweeps, Sweep(Nothing)) /\ UNCHANGED <<toClient, untold>>
  /\ UNCHANGED storeVars

(* Store.markRead moves the boundary to the newest the daemon knows of. *)
Through(c) == IF last[c] > inbound[c] THEN last[c] ELSE inbound[c]

MarkRead(c) ==
  /\ openedTs' = IF Through(c) > openedTs[c] THEN [openedTs EXCEPT ![c] = Through(c)] ELSE openedTs
  /\ UNCHANGED <<last, inbound, swept, pins>>

HandleRead ==
  \E c \in Chats :
    /\ Head(toDaemon) = Read(c)
    /\ MarkRead(c)
    /\ EmitState
    /\ UNCHANGED <<sweeps, untold>>

HandlePin ==
  \E c \in Chats, p \in BOOLEAN :
    /\ Head(toDaemon) = Pin(c, p)
    /\ pins' = IF p THEN pins \cup {c} ELSE pins \ {c}
    /\ UNCHANGED <<last, inbound, openedTs, swept>>
    /\ EmitChats /\ untold' = {}
    /\ UNCHANGED sweeps

HandleCommand ==
  /\ toDaemon # <<>> /\ DaemonMayAct
  /\ toDaemon' = Tail(toDaemon)
  /\ HandleHello \/ HandleChats \/ HandleRead \/ HandlePin
  /\ UnchangedAtPanel /\ UNCHANGED <<mac, toasts, events>>

WithoutIndex(s, i) == SubSeq(s, 1, i - 1) \o SubSeq(s, i + 1, Len(s))

(* The Mac answers a sweep with the times of that instant (how its pages   *)
(* are cut is module Session's); it lands at a later one.                  *)
MacServesSweep(i) ==
  /\ ~sweeps[i].answered
  /\ sweeps' = [sweeps EXCEPT ![i].answered = TRUE, ![i].times = mac]
  /\ UnchangedAtPanel
  /\ UNCHANGED <<toDaemon, toClient, mac, storeVars, untold, toasts, events>>

(* replaceChats: the answer's last messages, also one older than a push    *)
(* brought meanwhile; a chat that is not in the answer stays.              *)
Replaced(times) == [c \in Chats |-> IF times[c] > 0 THEN times[c] ELSE last[c]]

(* The chats of the page that came into it or have another time. *)
Moved == {c \in DOMAIN Page(ChatList') : c \notin DOMAIN Page(ChatList) \/ last'[c] # last[c]}

(* The reply, if there is somebody left and it differs from what was       *)
(* served: "only when the server's page turns out to differ".              *)
SweepTells(served, page) ==
  IF served = Gone \/ (served # Nothing /\ served.rows = page)
    THEN /\ UNCHANGED toClient
         /\ untold' = IF linkUp THEN untold \cup Moved ELSE untold
    ELSE /\ Emit(ChatsFrame(page, UnreadChats'))
         /\ untold' = {}

SweepLands(i) ==
  /\ DaemonMayAct /\ sweeps[i].answered
  /\ last' = Replaced(sweeps[i].times) /\ swept' = TRUE
  /\ UNCHANGED <<inbound, openedTs, pins>>
  /\ SweepTells(sweeps[i].served, Page(ChatList'))
  /\ sweeps' = WithoutIndex(sweeps, i)
  /\ UnchangedAtPanel /\ UNCHANGED <<toDaemon, mac, toasts, events>>

SweepFails(i) ==
  /\ DaemonMayAct /\ ~sweeps[i].answered /\ Event
  /\ IF sweeps[i].served = Nothing THEN Emit(ChatsError) ELSE UNCHANGED toClient
  /\ sweeps' = WithoutIndex(sweeps, i)
  /\ UNCHANGED <<readerVars, listVars, linkVars, toDaemon, mac, storeVars, untold,
                 toasts>>

(* Notifier.post: none for an own message, nor for one that says nothing,  *)
(* and none if the tool fails or the file has notifications off.           *)
Post(c, own) == toasts' \in {toasts} \cup (IF own THEN {} ELSE {toasts \cup {c}})

(* onMessage *)
HandleMessage(c, own, ts) ==
  /\ last' = [last EXCEPT ![c] = ts]
  /\ inbound' = IF own THEN inbound ELSE [inbound EXCEPT ![c] = ts]
  /\ UNCHANGED <<openedTs, swept, pins>>
  /\ Emit(MessageFrame(c, RowOf(c)', UnreadChats'))
  /\ untold' = untold \ {c}
  /\ Post(c, own)

(* onChatRead: another panel's `read`, or the phone's, moves the boundary; *)
(* the phone's is followed by a list, a panel's by a `state` frame.        *)
ReadElsewhere(c, onPhone) ==
  /\ DaemonMayAct /\ Event /\ Through(c) > openedTs[c]
  /\ MarkRead(c)
  /\ IF onPhone THEN EmitChats /\ untold' = {} ELSE EmitState /\ UNCHANGED untold
  /\ UnchangedAtPanel /\ UNCHANGED <<toDaemon, mac, sweeps, toasts>>

-----------------------------------------------------------------------------
(* The Mac (external): a message, pushed to the daemon if the daemon is    *)
(* there to hear it.                                                       *)
Top == CHOOSE n \in {mac[c] : c \in Chats} : \A c \in Chats : mac[c] <= n

MacMessage(c, own, pushed) ==
  /\ DaemonMayAct /\ Event
  /\ mac' = [mac EXCEPT ![c] = Top + 1]
  /\ IF pushed
       THEN HandleMessage(c, own, Top + 1)
       ELSE UNCHANGED <<storeVars, toClient, untold, toasts>>
  /\ UnchangedAtPanel /\ UNCHANGED <<toDaemon, sweeps>>

-----------------------------------------------------------------------------
Next ==
  \/ OpenPanel \/ ClosePanel \/ BackToChats
  \/ \E c \in Chats : OpenThread(c) \/ TogglePin(c) \/ ClickToast(c)
  \/ HandleFrame
  \/ DropLink \/ RestartShell \/ Reconnect \/ LinkEstablished
  \/ HandleCommand
  \/ \E i \in DOMAIN sweeps : MacServesSweep(i) \/ SweepLands(i) \/ SweepFails(i)
  \/ \E c \in Chats, onPhone \in BOOLEAN : ReadElsewhere(c, onPhone)
  \/ \E c \in Chats, own, pushed \in BOOLEAN : MacMessage(c, own, pushed)

Spec == Init /\ [][Next]_vars

-----------------------------------------------------------------------------
(* Properties *)

(* A `chats` request is answered in full or refused, or the link it went   *)
(* out on is gone: a flag with nothing under way would keep every later    *)
(* open from asking (Client.qml:485-491, 600-602).                         *)
PendingHasAReply ==
  chatsPending /\ linkUp =>
    \/ \E i \in DOMAIN toDaemon : toDaemon[i] = AskChats
    \/ \E i \in DOMAIN sweeps : sweeps[i].served # Gone
    \/ \E i \in DOMAIN toClient : toClient[i].t \in {"chats", "error"}

(* With nothing under way, and a list that came over this link, the badge  *)
(* is the daemon's count, every chat of the daemon's page is listed with   *)
(* its pin and its time, and no row hides an unread chat ("nothing here    *)
(* recomputes it", Client.qml:147-149; "a pushed preview sits where the    *)
(* next `chats` frame will put it", 438-440).  A row may show an unread    *)
(* that is read: only the client clears rows, and an older list undoes it. *)
(* Excepted are the chats a sweep moved without a word to this panel: the  *)
(* daemon compares with what that command was served (index.js:157-160).   *)
Quiet ==
  /\ linkUp /\ established /\ fresh
  /\ toDaemon = <<>> /\ toClient = <<>> /\ sweeps = <<>>

ListAgrees ==
  Quiet =>
    /\ badge = UnreadChats
    /\ \A c \in DOMAIN Page(ChatList) \ untold :
         /\ c \in DOMAIN rows
         /\ rows[c].pinned = (c \in pins) /\ rows[c].ts = last[c]
         /\ IsUnread(c) => rows[c].unread

Sent == IF Len(toDaemon') > Len(toDaemon)
          THEN {toDaemon'[i] : i \in (Len(toDaemon) + 1)..Len(toDaemon')}
          ELSE {}

(* Whatever is marked read is the thread on screen after the step, or the  *)
(* one a toast was clicked for (Panel.qml:372-378, 581-583).               *)
ReadMeansShown ==
  [][\A c \in Chats : Read(c) \in Sent => (opened' /\ active' = c) \/ held = c]_vars

(* "opening first would clear the unread of the chat the reader last had   *)
(* open and never saw" (Panel.qml:376-378): a click reads no other chat.   *)
ClickReadsNoOther ==
  [][\A c, d \in Chats : ClickToast(c) /\ Read(d) \in Sent => d = c]_vars
=============================================================================
