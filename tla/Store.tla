------------------------------- MODULE Store -------------------------------
(***************************************************************************)
(* The daemon's chat list and unread state: daemon/lib/store.js with the   *)
(* two files behind it (readstate.js, cache.js through jsonstate.js), the  *)
(* startup scan, and the handlers of daemon/index.js that drive them.      *)
(*                                                                         *)
(* What runs concurrently, on one event loop:                              *)
(*   - pushes of the BlueBubbles socket (HandleMessage, HandleChatRead),   *)
(*   - the account sweeps behind `chats` commands, each answered by the    *)
(*     Mac at one instant and landed at a later one,                       *)
(*   - the startup scan, one request per chat, landed after its last one,  *)
(*   - `read` commands of panel clients, the debounced cache write,        *)
(*   - crashes, shutdowns and restarts of the daemon.                      *)
(* One JavaScript turn is one action: nothing else runs inside it.         *)
(*                                                                         *)
(* The Mac and the socket to it are external.  Pins are in Panel; warm     *)
(* thread pages, names, texts and client frames are abstracted.            *)
(* 0 stands for "no timestamp" and, for lastSeen, "no guid".               *)
(***************************************************************************)
EXTENDS UnreadRun

CONSTANTS
  Chats,      \* chat guids
  Requests,   \* `chats` commands that may be waiting on a sweep at once
  Ticks,      \* how far the clock moves between two messages; 0 is a burst
  LastSkew,   \* how far behind the newest a listed lastMessage may be
  DiskFails,  \* whether a write to disk may fail
  MaxMsgs,    \* bound: messages filed per chat
  MaxClock,   \* bound: the newest timestamp
  WireMax,    \* bound: events in flight on the socket
  MaxStarts,  \* bound: daemon starts
  MaxFaults   \* bound: lost links, failed requests and failed writes

ASSUME StoreAssumptions ==
  /\ Ticks \subseteq Nat
  /\ LastSkew \in Nat
  /\ DiskFails \in BOOLEAN
  /\ {MaxMsgs, MaxClock, WireMax, MaxStarts, MaxFaults} \subseteq Nat

VARIABLES
  mac,        \* the messages of each chat, oldest first
  lastSeen,   \* each chat's lastSeenMessageGuid
  clock,      \* timestamp of the newest message
  linkUp,     \* the BlueBubbles socket is connected
  wire,       \* events in flight on it, in order
  up,         \* a daemon runs
  known,      \* the keys of Store.chats
  last,       \* each chat's lastMessage.ts
  unreadTs,   \* each chat's unreadTs
  swept,      \* sweptChats
  seedHeld,   \* unreadSeed # null
  runs,       \* the scan's runs so far; the held seed once it has landed
  opened,     \* ReadStateStore.opened
  dirty,      \* ChatCache.pending, and so its timer
  scanPhase,  \* off | asked | reading | landed | failed
  todo,       \* chats the scan has still to read
  scanSeen,   \* lastSeenMessageGuid of each chat as the scan was told it
  answered,   \* sweeps the Mac has answered that have not landed
  answer,     \* the lastMessage.ts each of them lists
  openedFile, \* read-state.json
  cacheFile,  \* cache.json
  starts, faults

macVars  == <<mac, lastSeen, clock>>
linkVars == <<linkUp, wire>>
chatVars == <<known, last, unreadTs, swept, seedHeld, opened, dirty>>
scanVars == <<scanPhase, todo, scanSeen, runs>>
sweepVars == <<answered, answer>>
diskVars == <<openedFile, cacheFile>>
vars == <<macVars, linkVars, up, chatVars, scanVars, sweepVars, diskVars,
          starts, faults>>

NoTs   == [c \in Chats |-> 0]
NoRuns == [c \in Chats |-> <<>>]

Events == [kind : {"message", "read"}, chat : Chats, guid : Nat]

ElementsOf(s) == {s[i] : i \in 1..Len(s)}

(* Every timestamp of chat c, and those of its inbound messages. *)
TsOf(c)      == {mac[c][i].ts : i \in 1..Len(mac[c])}
InboundTs(c) == {mac[c][i].ts : i \in {j \in 1..Len(mac[c]) : ~mac[c][j].fromMe}}

(* Store._unreadCount *)
Unread(c) == Cardinality({i \in 1..Len(unreadTs[c]) : unreadTs[c][i] > opened[c]})

Newest(s, n) == IF Len(s) <= n THEN s ELSE SubSeq(s, Len(s) - n + 1, Len(s))

TypeOK ==
  /\ mac \in [Chats -> Seq(Messages)]
  /\ lastSeen \in [Chats -> Nat]
  /\ clock \in Nat
  /\ linkUp \in BOOLEAN
  /\ wire \in Seq(Events)
  /\ up \in BOOLEAN
  /\ known \subseteq Chats
  /\ last \in [Chats -> Nat]
  /\ unreadTs \in [Chats -> Seq(Nat)]
  /\ \A c \in Chats : Len(unreadTs[c]) <= ScanLimit /\ Len(runs[c]) <= ScanLimit
  /\ swept \in BOOLEAN
  /\ seedHeld \in BOOLEAN
  /\ runs \in [Chats -> Seq(Nat)]
  /\ opened \in [Chats -> Nat]
  /\ dirty \in BOOLEAN
  /\ scanPhase \in {"off", "asked", "reading", "landed", "failed"}
  /\ todo \subseteq Chats
  /\ scanSeen \in [Chats -> Nat]
  /\ answered \subseteq Requests
  /\ answer \in [Requests -> [Chats -> Nat]]
  /\ openedFile \in [Chats -> Nat]
  /\ cacheFile \in [known : SUBSET Chats, last : [Chats -> Nat]]
  /\ starts \in Nat
  /\ faults \in Nat

Init ==
  /\ mac = NoRuns /\ lastSeen = NoTs /\ clock = 0
  /\ linkUp = FALSE /\ wire = <<>>
  /\ up = FALSE
  /\ known = {} /\ last = NoTs /\ unreadTs = NoRuns
  /\ swept = FALSE /\ seedHeld = FALSE /\ runs = NoRuns
  /\ opened = NoTs /\ dirty = FALSE
  /\ scanPhase = "off" /\ todo = {} /\ scanSeen = NoTs
  /\ answered = {} /\ answer = [r \in Requests |-> NoTs]
  /\ openedFile = NoTs /\ cacheFile = [known |-> {}, last |-> NoTs]
  /\ starts = 0 /\ faults = 0

-----------------------------------------------------------------------------
(* The Mac, and the socket to it (external) *)

(* An event is pushed while the socket is up and lost otherwise: the       *)
(* server replays nothing to a daemon that connects later.                 *)
Push(kind, c, guid) ==
  IF linkUp
    THEN /\ Len(wire) < WireMax
         /\ wire' = Append(wire, [kind |-> kind, chat |-> c, guid |-> guid])
    ELSE wire' = wire

MacMessage(c, fromMe, tick) ==
  /\ Len(mac[c]) < MaxMsgs
  /\ clock + tick \in 1..MaxClock
  /\ clock' = clock + tick
  /\ mac' = [mac EXCEPT ![c] =
               Append(@, [guid |-> Len(@) + 1, ts |-> clock + tick,
                          fromMe |-> fromMe, read |-> FALSE])]
  /\ Push("message", c, Len(mac[c]) + 1)
  /\ UNCHANGED <<lastSeen, linkUp, up, chatVars, scanVars, sweepVars, diskVars,
                 starts, faults>>

(* The account reads the chat elsewhere.  dateRead and lastSeenMessageGuid *)
(* each record it or fail to; chat-read-status-changed is pushed.          *)
Stamped(msgs) == [i \in 1..Len(msgs) |->
                   [msgs[i] EXCEPT !.read = msgs[i].read \/ ~msgs[i].fromMe]]

MacRead(c, stamps, moves) ==
  /\ mac[c] # <<>>
  /\ stamps \/ moves
  /\ mac' = [mac EXCEPT ![c] = IF stamps THEN Stamped(@) ELSE @]
  /\ lastSeen' = [lastSeen EXCEPT ![c] = IF moves THEN Len(mac[c]) ELSE @]
  /\ <<mac, lastSeen>>' # <<mac, lastSeen>>
  /\ Push("read", c, 0)
  /\ UNCHANGED <<clock, linkUp, up, chatVars, scanVars, sweepVars, diskVars,
                 starts, faults>>

Connect ==
  /\ up /\ ~linkUp
  /\ linkUp' = TRUE
  /\ UNCHANGED <<macVars, wire, up, chatVars, scanVars, sweepVars, diskVars,
                 starts, faults>>

Fault == faults < MaxFaults /\ faults' = faults + 1

Disconnect ==
  /\ linkUp
  /\ Fault
  /\ linkUp' = FALSE
  /\ wire' = <<>>
  /\ UNCHANGED <<macVars, up, chatVars, scanVars, sweepVars, diskVars, starts>>

-----------------------------------------------------------------------------
(* Pushes and `read` commands *)

(* Mutants: the cap, the sender test or the write forgotten. *)
UpsertFromMessage_NoCap(c, m) ==
  /\ known' = known \cup {c} /\ last' = [last EXCEPT ![c] = m.ts]
  /\ unreadTs' = [unreadTs EXCEPT ![c] = IF m.fromMe THEN @ ELSE Append(@, m.ts)]
  /\ dirty' = TRUE

UpsertFromMessage_CountsOwn(c, m) ==
  /\ known' = known \cup {c} /\ last' = [last EXCEPT ![c] = m.ts]
  /\ unreadTs' = [unreadTs EXCEPT ![c] = Newest(Append(@, m.ts), ScanLimit)]
  /\ dirty' = TRUE

UpsertFromMessage_NoPersist(c, m) ==
  /\ known' = known \cup {c} /\ last' = [last EXCEPT ![c] = m.ts]
  /\ unreadTs' = [unreadTs EXCEPT ![c] =
                    IF m.fromMe THEN @ ELSE Newest(Append(@, m.ts), ScanLimit)]
  /\ UNCHANGED dirty

(* session.onMessage: Store.upsertFromMessage. *)
UpsertFromMessage(c, m) ==
  /\ known' = known \cup {c}
  /\ last' = [last EXCEPT ![c] = m.ts]
  /\ unreadTs' = [unreadTs EXCEPT ![c] =
                    IF m.fromMe THEN @ ELSE Newest(Append(@, m.ts), ScanLimit)]
  /\ dirty' = TRUE

HandleMessage ==
  /\ up
  /\ wire # <<>>
  /\ Head(wire).kind = "message"
  /\ wire' = Tail(wire)
  /\ LET e == Head(wire) IN UpsertFromMessage(e.chat, mac[e.chat][e.guid])
  /\ UNCHANGED <<macVars, linkUp, up, swept, seedHeld, opened, scanVars,
                 sweepVars, diskVars, starts, faults>>

(* writeJsonState: through a temp file and a rename, so the file is the    *)
(* old one or the new one; a failure is logged and memory moves on.        *)
WriteOpened_Debounced == UNCHANGED <<openedFile, faults>>  \* mutant

WriteOpened ==
  \/ openedFile' = opened' /\ UNCHANGED faults
  \/ DiskFails /\ Fault /\ UNCHANGED openedFile

(* Store.markRead and ReadStateStore.markOpened: through the newest        *)
(* timestamp held for the chat, forward only, then the run is dropped.     *)
Shown_LastOnly(c) == {last[c]}   \* mutant: the run is not looked at
Shown_Now(c) == {clock + 1}      \* mutant: through the wall clock
Shown(c) == {last[c]} \cup ElementsOf(unreadTs[c])

MarkRead_Backwards(c) ==         \* mutant: the boundary moves either way
  \E through \in Shown(c) :
    /\ \A ts \in Shown(c) : ts <= through
    /\ IF c \in known /\ through # opened[c]
         THEN /\ opened' = [opened EXCEPT ![c] = through]
              /\ WriteOpened
              /\ unreadTs' = [unreadTs EXCEPT ![c] = <<>>]
              /\ dirty' = TRUE
         ELSE UNCHANGED <<opened, openedFile, faults, unreadTs, dirty>>

MarkRead(c) ==
  \E through \in Shown(c) :
    /\ \A ts \in Shown(c) : ts <= through
    /\ IF c \in known /\ through > opened[c]
         THEN /\ opened' = [opened EXCEPT ![c] = through]
              /\ WriteOpened
              /\ unreadTs' = [unreadTs EXCEPT ![c] = <<>>]
              /\ dirty' = TRUE
         ELSE UNCHANGED <<opened, openedFile, faults, unreadTs, dirty>>

HandleChatRead ==
  /\ up
  /\ wire # <<>>
  /\ Head(wire).kind = "read"
  /\ wire' = Tail(wire)
  /\ MarkRead(Head(wire).chat)
  /\ UNCHANGED <<macVars, linkUp, up, known, last, swept, seedHeld, scanVars,
                 sweepVars, cacheFile, starts>>

ClientRead(c) ==
  /\ up
  /\ MarkRead(c)
  /\ UNCHANGED <<macVars, linkVars, up, known, last, swept, seedHeld, scanVars,
                 sweepVars, cacheFile, starts>>

-----------------------------------------------------------------------------
(* The sweep behind a `chats` command *)

(* What chat/query may list as c's lastMessage: nothing, or one of the     *)
(* newest few ("it returned the third-newest", bluebubbles.js:331-334).    *)
ListedLast(c) ==
  {0} \cup {i \in 1..Len(mac[c]) : i >= Len(mac[c]) - LastSkew}

(* The Mac answers request r; the answer is now in flight. *)
SweepAnswer(r, listed) ==
  /\ up
  /\ r \notin answered
  /\ \A c \in Chats : listed[c] \in ListedLast(c)
  /\ answered' = answered \cup {r}
  /\ answer' = [answer EXCEPT ![r] =
                  [c \in Chats |-> IF listed[c] = 0 THEN 0
                                   ELSE mac[c][listed[c]].ts]]
  /\ UNCHANGED <<macVars, linkVars, up, chatVars, scanVars, diskVars, starts,
                 faults>>

(* _applyUnreadSeed: only to chats in the map, and only where no run was   *)
(* observed live.  What it skips is gone: the seed is then dropped.        *)
Seeded_Overwrites(chats, seed) ==   \* mutant: a live run is replaced
  [c \in Chats |-> IF c \in chats THEN seed[c] ELSE unreadTs[c]]

Seeded(chats, seed) ==
  [c \in Chats |-> IF c \in chats /\ unreadTs[c] = <<>> THEN seed[c]
                   ELSE unreadTs[c]]

AttachSeed_Keeps(chats) ==          \* mutant: unreadSeed is not cleared
  unreadTs' = Seeded(chats, runs) /\ UNCHANGED <<runs, seedHeld>>

AttachSeed(chats) ==
  unreadTs' = Seeded(chats, runs) /\ runs' = NoRuns /\ seedHeld' = FALSE

Forgotten(r) ==
  /\ answered' = answered \ {r}
  /\ answer' = [answer EXCEPT ![r] = NoTs]

(* Store.replaceChats; a lastMessage the answer omits stays as it was. *)
Previews_Blanked(listed) == listed  \* mutant
Previews(listed) == [c \in Chats |-> IF listed[c] # 0 THEN listed[c] ELSE last[c]]

ReplaceChats(listed) ==
  /\ swept' = TRUE
  /\ known' = Chats
  /\ last' = Previews(listed)
  /\ IF seedHeld THEN AttachSeed(Chats) ELSE UNCHANGED <<unreadTs, runs, seedHeld>>
  /\ dirty' = TRUE

SweepLand(r) ==
  /\ up
  /\ r \in answered
  /\ ReplaceChats(answer[r])
  /\ Forgotten(r)
  /\ UNCHANGED <<macVars, linkVars, up, opened, scanPhase, todo, scanSeen,
                 diskVars, starts, faults>>

(* The list held, if any, stands (index.js:161-166). *)
SweepFail(r) ==
  /\ up
  /\ r \in answered
  /\ Fault
  /\ Forgotten(r)
  /\ UNCHANGED <<macVars, linkVars, up, chatVars, scanVars, diskVars, starts>>

-----------------------------------------------------------------------------
(* The startup scan *)

(* unreadRuns lists every chat once and keeps those whose listed message   *)
(* is inbound and unread, with the boundary guid it was listed with.       *)
ScanList(listed) ==
  /\ up
  /\ scanPhase = "asked"
  /\ \A c \in Chats : listed[c] \in ListedLast(c)
  /\ todo' = {c \in Chats : /\ listed[c] # 0
                            /\ ~EndsRun(mac[c][listed[c]])}
  /\ scanSeen' = [c \in Chats |-> IF c \in todo' THEN lastSeen[c] ELSE 0]
  /\ scanPhase' = "reading"
  /\ UNCHANGED <<macVars, linkVars, up, chatVars, runs, sweepVars, diskVars,
                 starts, faults>>

(* The Mac answers the request for chat c's newest messages. *)
ScanRead(c) ==
  /\ up
  /\ scanPhase = "reading"
  /\ c \in todo
  /\ todo' = todo \ {c}
  /\ runs' = [runs EXCEPT ![c] = UnreadRun(Window(mac[c]), scanSeen[c])]
  /\ scanSeen' = [scanSeen EXCEPT ![c] = 0]
  /\ UNCHANGED <<macVars, linkVars, up, chatVars, scanPhase, sweepVars,
                 diskVars, starts, faults>>

(* The last answer is in: Store.seedUnread. *)
ScanLand ==
  /\ up
  /\ scanPhase = "reading"
  /\ todo = {}
  /\ scanPhase' = "landed"
  /\ IF known # {}
       THEN AttachSeed(known) /\ dirty' = TRUE
       ELSE /\ seedHeld' = TRUE
            /\ UNCHANGED <<unreadTs, runs, dirty>>
  /\ UNCHANGED <<macVars, linkVars, up, known, last, swept, opened, todo,
                 scanSeen, sweepVars, diskVars, starts, faults>>

(* Logged and dropped; there is no second scan (index.js:101-120). *)
ScanFail ==
  /\ up
  /\ scanPhase \in {"asked", "reading"}
  /\ Fault
  /\ scanPhase' = "failed"
  /\ todo' = {} /\ scanSeen' = NoTs /\ runs' = NoRuns
  /\ UNCHANGED <<macVars, linkVars, up, chatVars, sweepVars, diskVars, starts>>

-----------------------------------------------------------------------------
(* Disk, crashes and restarts *)

(* ChatCache.flush; a write that fails has dropped `pending` all the same. *)
CacheWrite ==
  \/ cacheFile' = [known |-> known, last |-> last] /\ UNCHANGED faults
  \/ DiskFails /\ Fault /\ UNCHANGED cacheFile

CacheFlush ==
  /\ up
  /\ dirty
  /\ CacheWrite
  /\ dirty' = FALSE
  /\ UNCHANGED <<macVars, linkVars, up, known, last, unreadTs, swept, seedHeld,
                 opened, scanVars, sweepVars, openedFile, starts>>

(* The process is gone, and with it everything but the files. *)
Gone ==
  /\ up' = FALSE /\ linkUp' = FALSE /\ wire' = <<>>
  /\ known' = {} /\ last' = NoTs /\ unreadTs' = NoRuns
  /\ swept' = FALSE /\ seedHeld' = FALSE /\ runs' = NoRuns
  /\ opened' = NoTs /\ dirty' = FALSE
  /\ scanPhase' = "off" /\ todo' = {} /\ scanSeen' = NoTs
  /\ answered' = {} /\ answer' = [r \in Requests |-> NoTs]
  /\ UNCHANGED <<macVars, openedFile, starts>>

Crash == up /\ Gone /\ UNCHANGED <<cacheFile, faults>>

(* index.js shutdown(): store.flush() first. *)
Shutdown ==
  /\ up
  /\ IF dirty THEN CacheWrite ELSE UNCHANGED <<cacheFile, faults>>
  /\ Gone

(* Store._restore and ReadState._load: both files are read back. *)
Start ==
  /\ ~up
  /\ starts < MaxStarts
  /\ starts' = starts + 1
  /\ up' = TRUE
  /\ known' = cacheFile.known
  /\ last' = cacheFile.last
  /\ swept' = (cacheFile.known # {})
  /\ opened' = openedFile
  /\ scanPhase' = "asked"
  /\ UNCHANGED <<macVars, linkVars, unreadTs, seedHeld, dirty, todo, scanSeen,
                 runs, sweepVars, diskVars, faults>>

-----------------------------------------------------------------------------
Listings == [Chats -> 0..MaxMsgs]

Next ==
  \/ \E c \in Chats :
       \/ \E fromMe \in BOOLEAN, tick \in Ticks : MacMessage(c, fromMe, tick)
       \/ \E stamps, moves \in BOOLEAN : MacRead(c, stamps, moves)
       \/ ClientRead(c)
       \/ ScanRead(c)
  \/ Connect \/ Disconnect
  \/ HandleMessage \/ HandleChatRead
  \/ \E listed \in Listings : ScanList(listed)
  \/ \E r \in Requests :
       \/ \E listed \in Listings : SweepAnswer(r, listed)
       \/ SweepLand(r) \/ SweepFail(r)
  \/ ScanLand \/ ScanFail
  \/ CacheFlush \/ Crash \/ Shutdown \/ Start

Spec == Init /\ [][Next]_vars

-----------------------------------------------------------------------------
(* Properties *)

(* Nothing is counted that is not a message of that very chat the account  *)
(* did not send: every timestamp held as unread, live, in the scan's hands *)
(* or held back as a seed, is one of the chat's inbound messages.          *)
UnreadIsReal ==
  \A c \in Chats :
    ElementsOf(unreadTs[c]) \cup ElementsOf(runs[c]) \subseteq InboundTs(c)

(* The boundary is always the timestamp of a message of the chat, never a  *)
(* time nothing was filed at: "a wall-clock boundary would swallow a       *)
(* message that arrived before this frame but has not reached us yet"      *)
(* (store.js:208-210).  A message filed later can only be newer.           *)
BoundaryIsReal ==
  \A c \in Chats :
    /\ opened[c] \in TsOf(c) \cup {0}
    /\ openedFile[c] \in TsOf(c) \cup {0}

(* With a disk that works, what was read survives a crash at any instant:  *)
(* read-state.json is never behind the boundary the badge is counted from. *)
BoundaryIsOnDisk == up /\ ~DiskFails => opened = openedFile

(* After its debounce the cached list is the list: every change to it,     *)
(* wherever it came from, has armed the write that a shutdown flushes.     *)
CacheIsCurrent ==
  up /\ ~dirty /\ ~DiskFails => cacheFile = [known |-> known, last |-> last]

(* "The seed is held until there are chats to attach it to" (store.js:190):*)
(* a daemon that serves a full list never still holds the scan's answer.   *)
SeedIsNeverStranded == seedHeld => ~swept

(* Reading a chat empties its badge in the same turn, whatever order its   *)
(* pushes, sweeps and seed came in and whichever side it was read on.      *)
ReadClears ==
  [][\A c \in Chats :
       ClientRead(c) \/ (HandleChatRead /\ Head(wire).chat = c)
         => Unread(c)' = 0]_vars

(* A chat stays unread until it is read (README.md:113): while the daemon  *)
(* runs, no sweep, seed, push or write lowers a chat's count unless its    *)
(* boundary moved.  The one exception is the cap (store.js:184): a push    *)
(* that comes too late to count pushes an entry out of a full run.         *)
OnlyReadingClears ==
  [][\A c \in Chats :
       up' /\ Unread(c)' < Unread(c) =>
         \/ opened'[c] > opened[c]
         \/ Len(unreadTs[c]) = ScanLimit /\ last'[c] <= opened[c]]_vars

(* "Chat.lastMessage is sticky" (docs/daemon-protocol.md): a sweep that    *)
(* omits it never blanks the preview a push or a sweep wrote before.       *)
PreviewIsSticky ==
  [][\A c \in Chats : up' /\ last[c] # 0 => last'[c] # 0]_vars

(* The read boundary of read-state.json behaves as the ledger promises,    *)
(* through crashes, failed writes and sweeps that move lastMessage back.   *)
Ledger == INSTANCE ReadLedger
            WITH filed <- [c \in Chats |-> TsOf(c)], boundary <- openedFile
ImplementsLedger == Ledger!Spec

(* The inductive invariant behind the timestamp properties: an event names *)
(* a filed message, every timestamp in memory, in an answer in flight or   *)
(* on disk is one of its chat's, and the file never runs ahead of memory.  *)
WireNamesMessages ==
  \A k \in 1..Len(wire) :
    wire[k].kind = "message" => wire[k].guid \in 1..Len(mac[wire[k].chat])

ListIsReal ==
  \A c \in Chats :
    /\ last[c] \in TsOf(c) \cup {0}
    /\ cacheFile.last[c] \in TsOf(c) \cup {0}
    /\ \A r \in Requests : answer[r][c] \in TsOf(c) \cup {0}

FileNotAhead == up => \A c \in Chats : openedFile[c] <= opened[c]

StoreInvariant ==
  /\ TypeOK /\ WireNamesMessages
  /\ ListIsReal /\ UnreadIsReal /\ BoundaryIsReal /\ FileNotAhead

(* What the comments say and the code does not do; see the README. *)

(* index.js:108-110: "the seed waits for the first real sweep to attach    *)
(* itself to".  What the scan found for a chat with no live run is then    *)
(* either attached or held, never dropped because some other chat's push   *)
(* put the first entry in the map.                                         *)
SeedWaitsForSweep ==
  [][\A c \in Chats :
       ScanLand /\ runs[c] # <<>> /\ unreadTs[c] = <<>>
         => seedHeld' \/ unreadTs'[c] = runs[c]]_vars
=============================================================================
