------------------------------- MODULE Thread -------------------------------
(***************************************************************************)
(* One open panel and the thread it shows: Client.qml's rows, paging and   *)
(* sends, the daemon's handlers behind them (index.js `messages`,          *)
(* `olderMessages`, `send` and the message push), the daemon's warm pages  *)
(* (store.js) and the duplicate filter of the BlueBubbles session.         *)
(*                                                                         *)
(* What runs concurrently:                                                 *)
(*   - the reader, who opens and leaves chats, pages back and sends,       *)
(*   - the pipe to the daemon and the one back, each in order,             *)
(*   - one job of the daemon per request, which asks the Mac at one        *)
(*     instant and lands its answer at a later one, in any order,          *)
(*   - the Mac, which files messages and pushes them over its own socket,  *)
(*   - a link that drops, a daemon that is restarted.                      *)
(*                                                                         *)
(* A filed message is its index in `filed`; the k-th send's tempId is -k;  *)
(* 0 is no tempId.  Client.activeMessages is threads[activeChat]:          *)
(* setActiveMessages writes both and openChat reads one from the other.    *)
(* A message is linked to a chat, or to none, and bears the handle of      *)
(* whoever wrote it; an own one bears none (docs/daemon-protocol.md:51).   *)
(* Images, the chat list and other panels' frames are left out.            *)
(***************************************************************************)
EXTENDS Integers, SequencesExt

CONSTANTS
  Chats,      \* chat guids
  Handles,    \* addresses of participants
  None,       \* no chat, no handle
  Solo,       \* the one participant of a 1:1 chat; None for a group
  Jobs,       \* requests that may be under way at once
  Texts,      \* what messages say
  Ticks,      \* how far the clock moves between two messages; 0 is a burst
  History,    \* the messages filed at the start
  PageSize,   \* Store.pageSize: the page served and the tail kept warm
  MaxThreads, \* Store.maxThreads
  MaxFiled,   \* bound: messages filed, sends of this panel aside
  MaxSends,   \* bound: sends of this panel
  MaxFaults,  \* bound: requests refused or lost, pushes lost, participants not known
  MaxDrops    \* bound: links dropped

ASSUME ThreadAssumptions ==
  /\ None \notin Chats
  /\ Solo \in [Chats -> Handles \cup {None}]
  /\ {PageSize, MaxThreads} \subseteq Nat \ {0}
  /\ Ticks \subseteq Nat
  /\ {MaxFiled, MaxSends, MaxFaults, MaxDrops} \subseteq Nat
  /\ History \in Seq([chat : Chats \cup {None}, handle : Handles \cup {None},
                      ts : Nat \ {0}, fromMe : BOOLEAN, text : Texts])

VARIABLES
  filed,        \* every message the Mac holds, in order
  wire,         \* new-message events on their way to the daemon
  late,         \* sends the daemon gave up on that the Mac may still file
  heard,        \* seenMessageGuids
  pages,        \* Store.threads; <<>> for a chat not warm
  warm,         \* its keys, the coldest first
  disk,         \* both of them, as cache.json holds them
  jobs,         \* the daemon's requests under way
  requests,     \* frames on their way to the daemon
  frames,       \* frames on their way to the panel
  linkUp,       \* Client.linkUp
  activeChat,   \* activeChatGuid
  threads,      \* threadCache; <<>> for a chat not in it
  olderPending, \* olderPendingGuid
  exhausted,    \* exhaustedThreads
  sends,        \* the sends this panel wrote; what their rows render
  faults, drops

macVars    == <<filed, wire, late>>
daemonVars == <<heard, pages, warm, disk>>
pipeVars   == <<requests, frames, linkUp>>
clientVars == <<activeChat, threads, olderPending, exhausted, sends>>
vars == <<macVars, daemonVars, jobs, pipeVars, clientVars, faults, drops>>

Messages == [chat : Chats \cup {None}, handle : Handles \cup {None}, ts : Nat,
             fromMe : BOOLEAN, text : Texts]

(* A row of a thread, or a message of a page.  "shown" is a row that came  *)
(* from a frame; the others are optimistic: pending, sent or failed.       *)
Rows == [guid : Int, temp : Int, state : {"shown", "pending", "sent", "failed"}]
Row(g, temp) == [guid |-> g, temp |-> temp, state |-> "shown"]

Requests == [kind : {"messages", "older", "send"}, chat : Chats, before : Nat,
             temp : Int]
Frames == [kind : {"messages", "older", "message", "ack", "error"}, chat : Chats,
           rows : Seq(Rows), temp : Int, guid : Nat, flag : BOOLEAN]

(* flag: `ok` of an ack, `exhausted` of an older page. *)
Frame(kind, chat, rows) ==
  [kind |-> kind, chat |-> chat, rows |-> rows, temp |-> 0, guid |-> 0,
   flag |-> FALSE]

Idle == [phase |-> "free"]
Job(q, served) ==
  [phase |-> "asked", request |-> q, rows |-> <<>>, guid |-> 0,
   served |-> served, live |-> TRUE]
Busy == {j \in Jobs : jobs[j].phase # "free"}

(* The elements of s at the positions in S, in order: what a filter keeps.  *)
(* SelectSeq is recursive, and nothing could be proved about its result.   *)
Nth(S, k) == CHOOSE i \in S : Cardinality({j \in S : j <= i}) = k
Kept(s, S) == [k \in 1..Cardinality(S) |-> s[Nth(S, k)]]

Newest(s, n) == IF Len(s) <= n THEN s ELSE SubSeq(s, Len(s) - n + 1, Len(s))

LastTs == IF filed = <<>> THEN 1 ELSE Last(filed).ts

TsOf(row)   == IF row.state = "shown" THEN filed[row.guid].ts ELSE sends[-row.temp].ts
TextOf(row) == IF row.state = "shown" THEN filed[row.guid].text ELSE sends[-row.temp].text

Guids(rows) == {rows[i].guid : i \in DOMAIN rows}

Cached == [pages |-> pages, warm |-> warm]

TypeOK ==
  /\ filed \in Seq(Messages)
  /\ wire \in Seq([guid : Nat, temp : Int])
  /\ late \subseteq {-k : k \in DOMAIN sends}
  /\ heard \subseteq DOMAIN filed
  /\ pages \in [Chats -> Seq(Rows)]
  /\ warm \in Seq(Chats) /\ Len(warm) <= MaxThreads /\ IsInjective(warm)
  /\ disk.pages \in [Chats -> Seq(Rows)]
  /\ \A j \in Busy : jobs[j].phase \in {"asked", "byHandle", "answered", "refused"}
                     /\ jobs[j].request \in Requests /\ jobs[j].rows \in Seq(Rows)
  /\ requests \in Seq(Requests)
  /\ frames \in Seq(Frames)
  /\ ~linkUp => requests = <<>> /\ frames = <<>>
  /\ activeChat \in Chats \cup {None}
  /\ threads \in [Chats -> Seq(Rows)]
  /\ olderPending \in Chats \cup {None}
  /\ exhausted \in [Chats -> BOOLEAN]
  /\ sends \in Seq([chat : Chats, text : Texts, ts : Nat])

Init ==
  /\ filed = History /\ wire = <<>> /\ late = {}
  /\ heard = {}
  /\ pages = [c \in Chats |-> <<>>] /\ warm = <<>>
  /\ disk = Cached
  /\ jobs = [j \in Jobs |-> Idle]
  /\ requests = <<>> /\ frames = <<>> /\ linkUp = TRUE
  /\ activeChat = None
  /\ threads = [c \in Chats |-> <<>>]
  /\ olderPending = None
  /\ exhausted = [c \in Chats |-> FALSE]
  /\ sends = <<>>
  /\ faults = 0 /\ drops = 0

Fault == faults < MaxFaults /\ faults' = faults + 1

-----------------------------------------------------------------------------
(* The Mac (external) *)

File(m) == filed' = Append(filed, m)

(* A message of somebody else's, in a 1:1 chat the participant's, or of    *)
(* this account on another device.                                         *)
MacMessage(c, handle, fromMe, text, tick) ==
  /\ Len(filed) < MaxFiled
  /\ handle = None <=> fromMe
  /\ fromMe \/ Solo[c] \in {None, handle}
  /\ File([chat |-> c, handle |-> handle, ts |-> LastTs + tick, fromMe |-> fromMe,
           text |-> text])
  /\ wire' = Append(wire, [guid |-> Len(filed) + 1, temp |-> 0])
  /\ UNCHANGED <<late, daemonVars, jobs, pipeVars, clientVars, faults, drops>>

(* The BlueBubbles socket went down: what was under way is never replayed. *)
PushesLost ==
  /\ wire # <<>>
  /\ Fault
  /\ wire' = <<>>
  /\ UNCHANGED <<filed, late, daemonVars, jobs, pipeVars, clientVars, drops>>

(* The newest page of the messages S, or the one that ends at `before`,    *)
(* itself included.                                                        *)
PageOf(S, before) ==
  LET within == {g \in S : before = 0 \/ filed[g].ts <= before}
  IN Newest([k \in 1..Cardinality(within) |-> Row(Nth(within, k), 0)], PageSize)

Page(c, before) == PageOf({g \in DOMAIN filed : filed[g].chat = c}, before)
PageByHandle(h, before) == PageOf({g \in DOMAIN filed : filed[g].handle = h}, before)

AsksForPage(j, phase) == jobs[j].phase = phase /\ jobs[j].request.kind # "send"

(* An empty page of a 1:1 chat is asked for again by the handle of its     *)
(* participant, unless no sweep of the list has told yet who that is.      *)
MacServesPage(j) ==
  /\ AsksForPage(j, "asked")
  /\ LET q == jobs[j].request
         rows == Page(q.chat, q.before)
         retried == rows = <<>> /\ Solo[q.chat] # None
     IN \/ /\ IF retried THEN Fault ELSE UNCHANGED faults
           /\ jobs' = [jobs EXCEPT ![j].phase = "answered", ![j].rows = rows]
        \/ /\ retried
           /\ jobs' = [jobs EXCEPT ![j].phase = "byHandle"]
           /\ UNCHANGED faults
  /\ UNCHANGED <<macVars, daemonVars, pipeVars, clientVars, drops>>

(* That page holds whatever the handle is on, whichever chat it is in.     *)
MacServesHandle(j) ==
  /\ AsksForPage(j, "byHandle")
  /\ LET q == jobs[j].request
     IN jobs' = [jobs EXCEPT ![j].phase = "answered",
                             ![j].rows = PageByHandle(Solo[q.chat], q.before)]
  /\ UNCHANGED <<macVars, daemonVars, pipeVars, clientVars, faults, drops>>

AsksToSend(j) == jobs[j].phase = "asked" /\ jobs[j].request.kind = "send"

(* A send is filed and echoed twice, the first copy stamped with its       *)
(* tempGuid (bluebubbles.js:187-190).                                      *)
FileSend(temp) ==
  LET m == sends[-temp]
      g == Len(filed) + 1
  IN /\ File([chat |-> m.chat, handle |-> None, ts |-> LastTs, fromMe |-> TRUE,
              text |-> m.text])
     /\ wire' = wire \o <<[guid |-> g, temp |-> temp], [guid |-> g, temp |-> 0]>>

(* The response may still be lost. *)
MacSends(j, phase) ==
  /\ AsksToSend(j)
  /\ IF phase = "refused" THEN Fault ELSE UNCHANGED faults
  /\ FileSend(jobs[j].request.temp)
  /\ jobs' = [jobs EXCEPT ![j].phase = phase, ![j].guid = Len(filed) + 1]
  /\ UNCHANGED <<late, daemonVars, pipeVars, clientVars, drops>>

(* The server answers with an error, and does nothing. *)
MacRefuses(j) ==
  /\ jobs[j].phase \in {"asked", "byHandle"}
  /\ Fault
  /\ jobs' = [jobs EXCEPT ![j].phase = "refused"]
  /\ UNCHANGED <<macVars, daemonVars, pipeVars, clientVars, drops>>

(* The request to send timed out or was cut off, which the daemon takes    *)
(* for a refusal; the Mac has it all the same, and files it later or never.*)
RequestLost(j) ==
  /\ AsksToSend(j)
  /\ Fault
  /\ late' = late \cup {jobs[j].request.temp}
  /\ jobs' = [jobs EXCEPT ![j].phase = "refused"]
  /\ UNCHANGED <<filed, wire, daemonVars, pipeVars, clientVars, drops>>

MacFilesLate(temp) ==
  /\ temp \in late
  /\ FileSend(temp)
  /\ late' = late \ {temp}
  /\ UNCHANGED <<daemonVars, jobs, pipeVars, clientVars, faults, drops>>

-----------------------------------------------------------------------------
(* The daemon *)

(* Store.appendToThread: only a warm page, and each guid once. *)
AppendToThread_NoDedupe(c, row) ==   \* mutant: a page may hold it already
  pages' = [pages EXCEPT ![c] = IF c \in ToSet(warm) THEN Newest(Append(@, row), PageSize)
                                ELSE @]

AppendToThread(c, row) ==
  IF c \notin ToSet(warm) \/ row.guid \in Guids(pages[c])
    THEN pages' = pages
    ELSE pages' = [pages EXCEPT ![c] = Newest(Append(@, row), PageSize)]

Broadcast(f) == frames' = IF linkUp THEN Append(frames, f) ELSE frames

(* `new-message`: _alreadySeen, then session.onMessage. *)
HandleMessage ==
  /\ wire # <<>>
  /\ wire' = Tail(wire)
  /\ LET e == Head(wire)
         c == filed[e.guid].chat
     IN IF e.guid \in heard
          THEN UNCHANGED <<heard, pages, frames>>
          ELSE /\ heard' = heard \cup {e.guid}
               /\ AppendToThread(c, Row(e.guid, e.temp))
               /\ Broadcast(Frame("message", c, <<Row(e.guid, e.temp)>>))
  /\ UNCHANGED <<filed, late, warm, disk, jobs, requests, linkUp, clientVars, faults, drops>>

(* Store.cachedThread and cacheThread: c becomes the warmest key, and the  *)
(* coldest ones are evicted past maxThreads.                               *)
Touched_Again(c) == Newest(Append(warm, c), MaxThreads)   \* mutant: not deleted first
Touched(c) ==
  Newest(Append(Kept(warm, {i \in DOMAIN warm : warm[i] # c}), c), MaxThreads)

(* A command reaches the daemon.  A warm thread is answered at once and    *)
(* revalidated; everything else waits for the Mac.                         *)
Dispatch(j) ==
  /\ requests # <<>>
  /\ jobs[j].phase = "free"
  /\ requests' = Tail(requests)
  /\ LET q == Head(requests)
         hit == q.kind = "messages" /\ q.chat \in ToSet(warm)
     IN /\ jobs' = [jobs EXCEPT ![j] = Job(q, hit)]
        /\ warm' = IF hit THEN Touched(q.chat) ELSE warm
        /\ frames' = IF hit THEN Append(frames, Frame("messages", q.chat, pages[q.chat]))
                            ELSE frames
  /\ UNCHANGED <<macVars, heard, pages, disk, linkUp, clientVars, faults, drops>>

Done(j) == jobs' = [jobs EXCEPT ![j] = Idle]
Reply(j, f) == frames' = IF jobs[j].live THEN Append(frames, f) ELSE frames

(* The answer to `messages` is cached whatever was pushed meanwhile, and   *)
(* sent unless the page already served turns out to be the same.           *)
LandPage(j) ==
  /\ jobs[j].phase = "answered"
  /\ jobs[j].request.kind = "messages"
  /\ LET c == jobs[j].request.chat
         changed == c \notin ToSet(warm) \/ pages[c] # jobs[j].rows
     IN /\ warm' = Touched(c)
        /\ pages' = [d \in Chats |-> IF d = c THEN jobs[j].rows
                                     ELSE IF d \in ToSet(Touched(c)) THEN pages[d]
                                     ELSE <<>>]
        /\ IF ~jobs[j].served \/ changed
             THEN Reply(j, Frame("messages", c, jobs[j].rows))
             ELSE UNCHANGED frames
  /\ Done(j)
  /\ UNCHANGED <<macVars, heard, disk, requests, linkUp, clientVars, faults, drops>>

LandOlder(j) ==
  /\ jobs[j].phase = "answered"
  /\ jobs[j].request.kind = "older"
  /\ LET q    == jobs[j].request
         rows == jobs[j].rows
         none == \A i \in DOMAIN rows : filed[rows[i].guid].ts >= q.before
     IN Reply(j, [Frame("older", q.chat, rows) EXCEPT !.flag = none])
  /\ Done(j)
  /\ UNCHANGED <<macVars, daemonVars, requests, linkUp, clientVars, faults, drops>>

LandSend(j) ==
  /\ jobs[j].phase = "answered"
  /\ jobs[j].request.kind = "send"
  /\ Reply(j, [Frame("ack", jobs[j].request.chat, <<>>) EXCEPT
                 !.temp = jobs[j].request.temp, !.guid = jobs[j].guid, !.flag = TRUE])
  /\ Done(j)
  /\ UNCHANGED <<macVars, daemonVars, requests, linkUp, clientVars, faults, drops>>

LandFailure_Silent(j) ==   \* mutant: the catch answers nothing
  /\ jobs[j].phase = "refused"
  /\ Done(j)
  /\ UNCHANGED <<macVars, daemonVars, pipeVars, clientVars, faults, drops>>

(* A failed page is an `error` no row depends on, or a logged warning; a   *)
(* failed older page names its chat; a failed send is an ack.              *)
LandFailure(j) ==
  /\ jobs[j].phase = "refused"
  /\ LET q == jobs[j].request
     IN CASE q.kind = "messages" -> UNCHANGED frames
          [] q.kind = "older"    -> Reply(j, Frame("error", q.chat, <<>>))
          [] q.kind = "send"     -> Reply(j, [Frame("ack", q.chat, <<>>) EXCEPT
                                                !.temp = q.temp])
  /\ Done(j)
  /\ UNCHANGED <<macVars, daemonVars, requests, linkUp, clientVars, faults, drops>>

-----------------------------------------------------------------------------
(* The panel: what the reader does *)

(* Bound: the reader does not ask while too much is under way or unread. *)
RoomForRequest ==
  Len(requests) + Cardinality(Busy) + Len(frames) < Cardinality(Jobs)

Request(q) == linkUp /\ RoomForRequest /\ requests' = Append(requests, q)

AskMessages(c) == Request([kind |-> "messages", chat |-> c, before |-> 0, temp |-> 0])

(* The thread shows what its cache holds; the request is dropped when the  *)
(* daemon is not reachable.                                                *)
OpenChat(c) ==
  /\ activeChat' = c
  /\ AskMessages(c) \/ (~linkUp /\ activeChat # c /\ UNCHANGED requests)
  /\ UNCHANGED <<macVars, daemonVars, jobs, frames, linkUp, threads, olderPending,
                 exhausted, sends, faults, drops>>

CloseChat ==
  /\ activeChat # None
  /\ activeChat' = None
  /\ UNCHANGED <<macVars, daemonVars, jobs, pipeVars, threads, olderPending,
                 exhausted, sends, faults, drops>>

ReloadActiveMessages ==
  /\ activeChat # None
  /\ AskMessages(activeChat)
  /\ UNCHANGED <<macVars, daemonVars, jobs, frames, linkUp, clientVars, faults, drops>>

MayLoadOlder(c) == olderPending # c /\ ~exhausted[c] /\ threads[c] # <<>>

LoadOlderMessages ==
  /\ activeChat # None
  /\ MayLoadOlder(activeChat)
  /\ Request([kind |-> "older", chat |-> activeChat, temp |-> 0,
              before |-> TsOf(Head(threads[activeChat]))])
  /\ olderPending' = activeChat
  /\ UNCHANGED <<macVars, daemonVars, jobs, frames, linkUp, activeChat, threads,
                 exhausted, sends, faults, drops>>

Optimistic(temp) == [guid |-> temp, temp |-> temp, state |-> "pending"]

SendMessage(text) ==
  /\ activeChat # None
  /\ Len(sends) < MaxSends
  /\ LET temp == -(Len(sends) + 1)
     IN /\ Request([kind |-> "send", chat |-> activeChat, before |-> 0, temp |-> temp])
        /\ sends' = Append(sends, [chat |-> activeChat, text |-> text, ts |-> LastTs])
        /\ threads' = [threads EXCEPT ![activeChat] = Append(@, Optimistic(temp))]
  /\ UNCHANGED <<macVars, daemonVars, jobs, frames, linkUp, activeChat,
                 olderPending, exhausted, faults, drops>>

-----------------------------------------------------------------------------
(* The panel: frames of the daemon *)

Arrived(kind) == frames # <<>> /\ Head(frames).kind = kind /\ frames' = Tail(frames)

AfterFrame == UNCHANGED <<macVars, daemonVars, jobs, requests, linkUp, activeChat,
                          sends, faults, drops>>

(* A page knows no tempIds: rows this client sent keep theirs. *)
WithKnownTempIds_None(rows, old) == rows   \* mutant

WithKnownTempIds(rows, old) ==
  [i \in DOMAIN rows |->
     LET known == {k \in DOMAIN old : old[k].temp # 0 /\ old[k].guid = rows[i].guid}
     IN IF rows[i].temp # 0 \/ known = {} THEN rows[i]
        ELSE [rows[i] EXCEPT !.temp = old[Max(known)].temp]]

(* replaceActiveMessages: a row still pending outlives the replacement. *)
Replaced_All(rows, old) == rows   \* mutant: setActiveMessages alone
Replaced(rows, old) ==
  rows \o Kept(old, {i \in DOMAIN old : old[i].state = "pending"})

OnMessages ==
  /\ Arrived("messages")
  /\ LET f == Head(frames)
         c == f.chat
     IN /\ exhausted' = [exhausted EXCEPT ![c] = FALSE]
        /\ threads' =
             IF c = activeChat
               THEN [threads EXCEPT ![c] = Replaced(WithKnownTempIds(f.rows, @), @)]
               ELSE threads
  /\ UNCHANGED olderPending
  /\ AfterFrame

(* prependOlderMessages: what is already on screen is left out. *)
NotShown(older, old) ==
  Kept(older, {i \in DOMAIN older : older[i].guid \notin Guids(old)})

WithOlder_ShortCircuit(f, old) ==   \* mutant: `exhausted` is read first
  IF f.flag THEN old ELSE NotShown(f.rows, old) \o old

WithOlder(f, old) == NotShown(f.rows, old) \o old

OpensGate(c) == olderPending' = IF olderPending = c THEN None ELSE olderPending

(* The page is prepended before `exhausted` is read, and a page that adds  *)
(* nothing is taken for the end.                                           *)
OnOlderMessages ==
  /\ Arrived("older")
  /\ LET f == Head(frames)
         c == f.chat
     IN /\ OpensGate(c)
        /\ IF c = activeChat
             THEN /\ threads' = [threads EXCEPT ![c] = WithOlder(f, @)]
                  /\ exhausted' = [exhausted EXCEPT ![c] =
                                     @ \/ f.flag \/ NotShown(f.rows, threads[c]) = <<>>]
             ELSE UNCHANGED <<threads, exhausted>>
  /\ AfterFrame

OnOlderError_Ignored ==   \* mutant: the gate is left shut
  /\ Arrived("error")
  /\ UNCHANGED <<threads, olderPending, exhausted>>
  /\ AfterFrame

OnOlderError ==
  /\ Arrived("error")
  /\ OpensGate(Head(frames).chat)
  /\ UNCHANGED <<threads, exhausted>>
  /\ AfterFrame

(* absorbEcho: by tempId when the echo has one, else by guid or by text. *)
Matches(echo, row) ==
  /\ row.state # "shown"
  /\ IF echo.temp # 0 THEN row.temp = echo.temp
     ELSE row.guid = echo.guid \/ TextOf(row) = TextOf(echo)

WithMessage(rows, m) ==
  LET absorbing == {i \in DOMAIN rows : filed[m.guid].fromMe /\ Matches(m, rows[i])}
  IN IF absorbing = {} THEN Append(rows, m)
     ELSE [rows EXCEPT ![Max(absorbing)] = m]

OnMessage ==
  /\ Arrived("message")
  /\ LET c == Head(frames).chat
     IN threads' = IF c # activeChat THEN threads
                   ELSE [threads EXCEPT ![c] = WithMessage(@, Head(Head(frames).rows))]
  /\ UNCHANGED <<olderPending, exhausted>>
  /\ AfterFrame

(* patchMessage: the row of this send, in the open thread or in the cache. *)
Patched_Always(rows, f) ==   \* mutant: `ok` is not read
  LET sent == {i \in DOMAIN rows : rows[i].guid = f.temp}
  IN IF sent = {} THEN rows ELSE [rows EXCEPT ![Max(sent)].state = "sent"]

Patched(rows, f) ==
  LET sent == {i \in DOMAIN rows : rows[i].guid = f.temp}
  IN IF sent = {} THEN rows
     ELSE [rows EXCEPT ![Max(sent)].state = IF f.flag THEN "sent" ELSE "failed",
                       ![Max(sent)].guid = IF f.flag THEN f.guid ELSE @]

OnAck_ActiveOnly ==   \* mutant: patchActiveMessage for every ack
  /\ Arrived("ack")
  /\ LET f == Head(frames)
     IN threads' = IF f.chat # activeChat THEN threads
                   ELSE [threads EXCEPT ![f.chat] = Patched(@, f)]
  /\ UNCHANGED <<olderPending, exhausted>>
  /\ AfterFrame

OnAck ==
  /\ Arrived("ack")
  /\ LET f == Head(frames)
     IN threads' = [threads EXCEPT ![f.chat] = Patched(@, f)]
  /\ UNCHANGED <<olderPending, exhausted>>
  /\ AfterFrame

-----------------------------------------------------------------------------
(* The link *)

(* Either end closed the socket: what was in the pipe is gone, and what    *)
(* the daemon still answers goes nowhere.                                  *)
DropLink ==
  /\ linkUp /\ drops < MaxDrops
  /\ drops' = drops + 1
  /\ linkUp' = FALSE /\ requests' = <<>> /\ frames' = <<>>
  /\ jobs' = [j \in Jobs |-> IF j \in Busy THEN [jobs[j] EXCEPT !.live = FALSE]
                             ELSE jobs[j]]
  /\ UNCHANGED <<macVars, daemonVars, clientVars, faults>>

(* The debounced write of cache.json.  Bound: a file that no restart will  *)
(* read any more is not written.                                           *)
Flush ==
  /\ drops < MaxDrops
  /\ disk' = Cached
  /\ UNCHANGED <<macVars, heard, pages, warm, jobs, pipeVars, clientVars, faults, drops>>

(* The daemon was stopped, which writes cache.json, or it died, which may  *)
(* lose what was not written yet; started again, it restores its warm      *)
(* pages from the file, in order.  What it was asking the Mac to send may  *)
(* be filed by the Mac all the same.                                       *)
RestartDaemon ==
  /\ linkUp /\ drops < MaxDrops
  /\ drops' = drops + 1
  /\ linkUp' = FALSE /\ requests' = <<>> /\ frames' = <<>>
  /\ jobs' = [j \in Jobs |-> Idle]
  /\ wire' = <<>> /\ heard' = {}
  /\ late' = late \cup {jobs[j].request.temp : j \in {i \in Busy : AsksToSend(i)}}
  /\ \E read \in {Cached, disk} :
       pages' = read.pages /\ warm' = read.warm /\ disk' = read
  /\ UNCHANGED <<filed, clientVars, faults>>

(* handleConnectionState(true) and the onLinkEstablished it defers. *)
Reconnect ==
  /\ ~linkUp
  /\ linkUp' = TRUE
  /\ olderPending' = None
  /\ UNCHANGED <<macVars, daemonVars, jobs, requests, frames, activeChat, threads,
                 exhausted, sends, faults, drops>>

-----------------------------------------------------------------------------
OnFrame == OnMessages \/ OnOlderMessages \/ OnOlderError \/ OnMessage \/ OnAck

MacAnswers(j) == \/ MacServesPage(j) \/ MacServesHandle(j)
                 \/ MacSends(j, "answered") \/ MacRefuses(j)

Land(j) == LandPage(j) \/ LandOlder(j) \/ LandSend(j) \/ LandFailure(j)

Next ==
  \/ \E c \in Chats, handle \in Handles \cup {None}, fromMe \in BOOLEAN,
        text \in Texts, tick \in Ticks :
       MacMessage(c, handle, fromMe, text, tick)
  \/ PushesLost
  \/ \E j \in Jobs : \/ MacServesPage(j) \/ MacServesHandle(j)
                     \/ \E phase \in {"answered", "refused"} : MacSends(j, phase)
                     \/ MacRefuses(j) \/ RequestLost(j)
  \/ \E temp \in late : MacFilesLate(temp)
  \/ HandleMessage
  \/ \E j \in Jobs : \/ Dispatch(j)
                     \/ LandPage(j) \/ LandOlder(j) \/ LandSend(j) \/ LandFailure(j)
  \/ \E c \in Chats : OpenChat(c)
  \/ CloseChat
  \/ ReloadActiveMessages
  \/ LoadOlderMessages
  \/ \E text \in Texts : SendMessage(text)
  \/ OnMessages \/ OnOlderMessages \/ OnOlderError \/ OnMessage \/ OnAck
  \/ DropLink \/ Flush \/ RestartDaemon \/ Reconnect

Spec == Init /\ [][Next]_vars

(* Every job is dispatched, answered (undici gives up on a silent server)  *)
(* and landed; the pipe delivers; the retry timer fires.                   *)
Fairness ==
  /\ WF_vars(\E j \in Jobs : Dispatch(j))
  /\ \A j \in Jobs : WF_vars(MacAnswers(j)) /\ WF_vars(Land(j))
  /\ WF_vars(OnFrame)
  /\ WF_vars(Reconnect)

FairSpec == Spec /\ Fairness

-----------------------------------------------------------------------------
(* Properties *)

AwaitsAck(temp) ==
  \/ \E i \in DOMAIN requests : requests[i].temp = temp
  \/ \E j \in Busy : jobs[j].request.temp = temp /\ jobs[j].live
  \/ \E i \in DOMAIN frames : frames[i].kind = "ack" /\ frames[i].temp = temp

(* A row that looks in flight is in flight: whichever chat the reader is   *)
(* in when the ack comes, it finds the row ("the bubble would never come   *)
(* right", Client.qml:368-371).                                            *)
PendingHasAnAck ==
  \A c \in Chats : \A i \in DOMAIN threads[c] :
    threads[c][i].state = "pending" => AwaitsAck(threads[c][i].temp)

(* A send still on the wire has its row, in whichever thread, through any  *)
(* replacement, page or reopening (Client.qml:300-306), unless an own      *)
(* message of the same text was pushed, which is taken for its echo.       *)
SendKeepsItsRow ==
  \A k \in DOMAIN sends :
    AwaitsAck(-k) =>
      \/ \E i \in DOMAIN threads[sends[k].chat] :
           threads[sends[k].chat][i] = Optimistic(-k)
      \/ \E g \in heard : /\ filed[g].fromMe /\ filed[g].chat = sends[k].chat
                          /\ filed[g].text = sends[k].text

(* A thread marked exhausted shows its very first message, whatever was    *)
(* reloaded, refused or lost, and however many messages share a            *)
(* millisecond short of a page ("a page that adds nothing is the end of    *)
(* the road", Client.qml:557), where one chat is paged at a time and       *)
(* nothing is pushed meanwhile: otherwise a page can add nothing because   *)
(* another one, asked for with the same cursor, came first.                *)
ExhaustedIsTheStart ==
  \A c \in Chats :
    exhausted[c] =>
      \A g \in DOMAIN filed :
        filed[g].chat = c =>
          g \in Guids(threads[c]) \/ \E i \in DOMAIN threads[c] :
                                       TsOf(threads[c][i]) < filed[g].ts

(* What a thread may show: messages linked to its chat and, where it is a  *)
(* 1:1 chat, those on its participant's handle.                            *)
BelongsTo(m, c) == m.chat = c \/ (Solo[c] # None /\ m.handle = Solo[c])

(* A warm page holds each message once, of its own chat or participant (a  *)
(* group's only its own: bluebubbles.js:223-224), and no more than a page, *)
(* whatever order pushes, pages, echoes and restarts came in.              *)
WarmPageIsWellFormed ==
  \A c \in Chats :
    /\ Len(pages[c]) <= PageSize
    /\ \A i, k \in DOMAIN pages[c] : pages[c][i].guid = pages[c][k].guid => i = k
    /\ \A i \in DOMAIN pages[c] : BelongsTo(filed[pages[c][i].guid], c)
    /\ pages[c] # <<>> => c \in ToSet(warm)

(* A page keeps the key of a row this panel sent: the row is patched in    *)
(* place, not removed and inserted again (Client.qml:280-284).             *)
PageKeepsKeys ==
  [][\A c \in Chats : \A i \in DOMAIN threads[c] :
       LET row == threads[c][i]
       IN /\ frames # <<>> /\ Head(frames).kind = "messages" /\ frames' = Tail(frames)
          /\ row.temp # 0 /\ row.guid > 0 /\ row.guid \in Guids(threads'[c])
          => \E k \in DOMAIN threads'[c] : /\ threads'[c][k].guid = row.guid
                                           /\ threads'[c][k].temp = row.temp]_vars

(* While the link holds, every send comes to rest: its row is promoted or  *)
(* marked failed, even if the reader left the chat (Client.qml:368-371).   *)
IsPending(temp) == \E c \in Chats : \E i \in DOMAIN threads[c] :
                     threads[c][i] = Optimistic(temp)
SendComesToRest == \A k \in 1..MaxSends : IsPending(-k) ~> ~IsPending(-k)

(* The gate of the older pages is never shut with nobody left to open it:  *)
(* it opens again, through drops and failures (Client.qml:117-119,         *)
(* index.js:201-203).                                                      *)
GateOpens == \A c \in Chats : olderPending = c ~> olderPending # c

-----------------------------------------------------------------------------
(* What is seen of the sends alone: which of them the daemon may still ask *)
(* or is asking the Mac for, which it gave up on, and what the reader is   *)
(* shown of each.                                                          *)
Waiting(temp) ==
  \/ \E i \in DOMAIN requests : requests[i].temp = temp
  \/ \E j \in Busy : jobs[j].phase = "asked" /\ jobs[j].request.temp = temp

IsFailed(temp) == \E c \in Chats : \E i \in DOMAIN threads[c] :
                    threads[c][i].temp = temp /\ threads[c][i].state = "failed"

Words(m, fromMe) == [chat |-> m.chat, text |-> m.text, fromMe |-> fromMe]

MacWords == [g \in DOMAIN filed |-> Words(filed[g], filed[g].fromMe)]
OwnWords == [k \in DOMAIN sends |-> Words(sends[k], TRUE)]
AskedSends == {k \in DOMAIN sends : Waiting(-k)}
LateSends == {k \in DOMAIN sends : -k \in late}
PendingSends == {k \in DOMAIN sends : IsPending(-k)}
FailedSends == {k \in DOMAIN sends : IsFailed(-k)}

Ledger == INSTANCE SendLedger WITH
  Chats <- Chats \cup {None},
  filed <- MacWords, said <- OwnWords, asked <- AskedSends, adrift <- LateSends,
  pending <- PendingSends, failed <- FailedSends

(* A send is filed once at most, however late; a bubble stops being in     *)
(* flight as sent, once the Mac holds its words, or as failed, once the    *)
(* daemon no longer asks for it, through any reload, lost push, lost       *)
(* answer, drop or restart (Client.qml replaceActiveMessages, absorbEcho,  *)
(* patchMessage; index.js send).                                           *)
ImplementsLedger == Ledger!Spec
=============================================================================
