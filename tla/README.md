# Omaimsg in TLA+

Omaimsg shows iMessage in a desktop bar: a node daemon talks to a BlueBubbles
server on a Mac over REST and a socket, keeps a chat list and read state, and
serves panels (one QML client per monitor) over a unix socket. This directory
models the parts of it in which order, failure and time matter, checks them with
TLC on small instances, and proves the core for all instances with TLAPS. Source
paths are relative to the repository.

## The system

| component | state it keeps | operations | talks to |
| --- | --- | --- | --- |
| Chat list and unread state (`daemon/lib/store.js`, `readstate.js`, `cache.js`, `jsonstate.js`) | `chats` with `lastMessage` and `unreadTs`, `sweptChats`, `unreadSeed`, the read boundary `opened`, `read-state.json`, `cache.json` | upsertFromMessage, markRead, replaceChats, seedUnread, setPinned, restore, flush | called by the handlers of `daemon/index.js`; writes two files |
| Warm thread pages (`store.js`) | `threads`, in order of use | cachedThread, cacheThread, appendToThread | `messages` command, message push |
| Unread scan (`daemon/lib/bluebubbles.js`) | none | unreadRuns, runBeforeFirstRead, countAfterBoundary | one REST request for the list, one per chat |
| BlueBubbles session (`bluebubbles.js`) | `seenMessageGuids`, the contact index, solo participants | connect, disconnect, new-message, chat-read-status-changed; chats page by page; messages, retried by handle; contacts refreshed on connect | socket.io and REST to the Mac |
| Command handlers (`daemon/index.js`) | `attachmentDownloads`, connection state | hello, ping, chats, messages, olderMessages, send, sendImage, attachment, preview, read, pin; startup, shutdown | everything above, and the bus |
| Bus (`daemon/lib/bus.js`) | the connected clients, the socket file | listen, dispatch, sendTo, broadcast, close | panels |
| Client (`Client.qml`) | link and timers, `threadCache`, `activeMessages`, `olderPendingGuid`, `exhaustedThreads`, chat list, attachment flags | openChat, loadOlderMessages, sendMessage, frame handlers, retry and liveness timers, autostart | the bus; systemd |
| Panel, bar (`Panel.qml`, `BarWidget.qml`) | view, active chat, cursor, list models, a held notification click | open, select, send, pin, page back | the client's functions and signals |
| Pins (`pins.js`) | the pinned set, `pins.json` | set | the store |
| Contacts (`contacts.js`) | an index of names | resolve | the session |
| Notifications (`notify.js`) | nothing | post | the desktop, and the panel through a click |
| Installer, systemd unit | files | install, uninstall; restart on failure | by hand; systemd |

What is hard here: every `await` in a handler lets pushes, other commands and
other answers in before it ends; answers of the Mac are facts of an earlier
instant; the socket to the Mac replays nothing; the daemon may die between any
two turns, and files may fail to be written; panels and daemons find each other
through one path in the file system; the clock's unit (milliseconds) is coarser
than a burst of messages. `PROJECT.json` lists these hazards at their lines.

What makes the parts correct, in short: a badge counts only real unread messages
and only reading lowers it; what was read stays read through crashes; a scan
never invents an unread message; a send on the wire keeps a row until it comes
right or is marked failed; paging stops only at the first message and never
hangs; every panel finds a daemon, and stops promising one that will not come.

## Modules

| module | models | kind |
| --- | --- | --- |
| `UnreadRun` | the scan's arithmetic, as pure operators | operators |
| `UnreadScan` | one chat on the Mac, in every state it can reach, and what a scan would answer | specification |
| `Store` | chat list, unread runs, scan, sweeps, read state, both files, crashes and restarts | specification |
| `ReadLedger` | what `read-state.json` promises: each boundary moves forward only, one chat at a time, to a message filed | abstract specification |
| `SendLedger` | what a send promises its reader: filed once at most, in time or after its request was given up on, and a bubble that leaves flight only as a message the Mac holds, or as a failure once nobody asks for it any more | abstract specification |
| `Contacts` | building the name index and resolving an address | operators |
| `Session` | the daemon's session with the Mac: socket, echo filter, contacts, paged sweeps, threads retried by handle | specification |
| `Thread` | one panel's threads, paging and sends, with the daemon's handlers, warm pages and echo filter behind them | specification |
| `Panel` | one panel and the daemon's list: what is open, what a toast's click selects, pins, the badge, and what is marked read when | specification |
| `Link` | socket path, daemons, systemd, and the retry loop of every client | specification |
| `Attachments` | the image cache, its downloads, previews, sent images' copies, and every client's flags and paths | specification |
| `UnreadRunProofs`, `UnreadScanProofs`, `StoreProofs`, `SessionProofs`, `ThreadProofs`, `PanelProofs`, `LinkProofs`, `AttachmentsProofs` | theorems about the module of the same name (see *What is proved*) | proofs |
| `MCStore`, `MCThread`, `MCSession`, `MCPanel` | symmetry sets, starting histories, address books and message ages for TLC | instances |

`Store` extends `UnreadRun` and `Session` extends `Contacts`. The specifications
are separate because their states meet at single points. `Thread` does not read
the chat list and `Attachments` reads neither; `Link` does not look into frames.
What `Session` hands on is what `Store` takes off its wire: a message, or the
rows of a sweep. `Panel` starts where `Store` ends, from the list a reply or a
broadcast carries, and treats the unread runs as counts.

### How state and actions correspond

One JavaScript turn is one action: node runs a turn to its end, so a handler is
split exactly at its awaits. A REST request is two actions, the instant the Mac
answers it and the turn in which the answer lands; between them anything may
happen. One QML handler is one action too, with the change handlers its
assignments set off. `map` in `PROJECT.json` names the lines of every definition.

*Store.* `known`, `last` and `unreadTs` are the map of chats; `swept` is
`sweptChats`; `seedHeld` with `runs` is `unreadSeed`. A `chats` command is
`SweepAnswer` then `SweepLand` or `SweepFail`; the startup scan is `ScanList`,
one `ScanRead` per chat, then `ScanLand` or `ScanFail`; a push is `HandleMessage`
or `HandleChatRead`. `CacheFlush` is the debounced timer; `Crash` loses
everything but the files, `Shutdown` flushes first. A message's timestamp stands
for the message; 0 is none. Listed previews may lag the newest message by
`LastSkew`, as bluebubbles.js:331-334 measured. Two definitions are simpler than
the code without losing states: a sweep lists every chat, also one with no
message yet (how its pages are cut is `Session`'s); and the two files are always
readable.

*Session.* A message's guid is its index in `filed`. `order` is the Mac's list
of chats, a message moves its chat to the front, and a sweep cuts one page of it
at a time (`MacServesChats`, `LandChats`), by an offset, so that chats slide
between pages. A fetch asks by chat and, when that page is empty (an orphan's
always is), by handle, which may have nothing either. `heard`
is `seenMessageGuids`, a window of `SeenMax`. Contacts are refreshed on every
connect and answers may cross. `landed` and `unheard` are auxiliary: the last
sweep's rows are in, and the chats whose push was lost. Contacts are not edited
meanwhile and no chat is deleted; a chat a sweep meets twice counts twice
towards its cap, as in the code.

*Thread.* A filed message is its index in `filed`, the k-th send's tempId is
`-k`. `threads` is `threadCache`, and `activeMessages` is its entry for
`activeChat`. `requests` and `frames` are the two directions of the pipe,
`jobs` the commands the daemon has under way. A message is linked to a chat or
to none and bears the handle of who wrote it, none for an own one. A page is of
a chat; when it is empty and `Solo` names the chat's one participant, the job
goes `byHandle` and takes the page of that handle, in whichever chat its
messages are (`MacServesHandle`), unless no sweep has told yet who it is. A send
is filed and echoed twice, the first echo carrying the tempId. Its request fails
with the Mac having done nothing (`MacRefuses`), with the message filed and the
answer lost (`MacSends`), or with the message in the Mac's hands, to be filed
later or never (`RequestLost`, `late`, `MacFilesLate`); the daemon cannot tell
them apart. `disk` is what `cache.json` holds of the warm pages, written by a
timer (`Flush`) or on the way out; a daemon that died is restored from the older
copy. Images, other panels and the chat list are left out. `RoomForRequest`
bounds what the reader may have outstanding, and a file no restart is left to
read is not written. Seen as a `SendLedger`, a send is asked while its request is
in the pipe or its job waits for the Mac, adrift once given up on, pending or
failed while a row of any thread says so; `sent` is neither.

*Panel.* The daemon's rows are one record per chat; `held` is `openFollowGuid`,
the chat of a click that waits to be listed. A sweep under way carries what its
command was served from the cache (or that the asker is gone) and, once
`MacServesSweep` has answered it, the Mac's times of that instant; it lands at a
later one and writes those times, newer or older, over the daemon's
(`Replaced`). One panel is modelled in full: other panels and the phone appear as
a read that comes from elsewhere. A message is pushed in the step it is filed
in, or never (late pushes are `Store`'s). `untold` is auxiliary: the chats of the
page whose time or place a sweep changed without a frame to this panel, since it
was last told; a frame that carries the list empties it, a pushed message takes
its chat out. Replies are compared by pin, time and being unread; the code also
compares texts and counts, so it is silent in fewer cases than the model. A toast
stays, in the history at least, until it is clicked, also through a shell restart.

*Link.* `phase` is how far a daemon is in `listen` (probe, unlink, bind: three
steps other processes come between), `file` what the path names, `link` the
daemon whose connection a client holds. A daemon whose file was removed keeps
its old clients and can get no new one. Whether there is a unit, and whether the
client knows its plugin directory, is chosen at the start and never changes. The
probe's 500 ms give-up is not taken: a live daemon answers.

*Attachments.* `file`, `part` and `preview` are the files of the cache
directory. A command is a job; the job that starts a download is its entry in
`attachmentDownloads`, the jobs that await it are `waiting`, and all go on in the
turn it ends (`DownloadEnds`). A download is written in three steps (opened,
filled, renamed) because the daemon may die between any two; a copy is one, as
only a viewer reads what it makes. A rename and the turn that reports it are one
step: in between, other commands already find the file. What a dropped link or a
dead daemon takes is `live` and the frames; what they leave is the disk.

## Runs

Passing (bounds after each; all without deadlock checking, since every model has
bounded inputs and rests when they are used up):

- **UnreadScan** - every thread of up to five messages, window of three. What
  the scan reports is inbound, unread and past the Mac's boundary, entry by
  entry; it stops for a reason; the boundary only shortens. Five messages hold
  a full window, a read and an own message beyond it, and a boundary on either
  side; equal timestamps included.
- **StoreLive** - one chat, three messages (two may share a millisecond), a
  window of two so that the cap is reached, one sweep and the scan, one fault
  (a failed write, request or lost link). `TypeOK`, `UnreadIsReal`,
  `ReadClears`, `OnlyReadingClears`, `PreviewIsSticky`.
- **StoreRestart** - two sweeps at once, two starts with a crash or a shutdown
  between, one fault. `BoundaryIsReal`, `BoundaryIsOnDisk`, `CacheIsCurrent`,
  `SeedIsNeverStranded` and `ImplementsLedger`. One chat is enough for these:
  every action but `ScanLand`'s choice of whom to seed treats chats one by one,
  and that choice is what StoreSeedLost is about.
- **SessionPages** - two listed chats, a group and a 1:1 chat that is an orphan
  (its messages are linked to no chat), and a group that is not listed yet;
  pages of one, a cap of three, an echo window of two, two messages, one sweep,
  one fetch, one fault. `NoChatIsLost` (no chat slides past a sweep unless its push was lost),
  `HandleIsAsked` (after a sweep, a 1:1 thread is reported unavailable only when
  its handle was asked too), `ToldOnce` (the two copies of a send are one
  message), `NoStrangerIsNamed`. Three chats in pages of one let a chat slide
  over a cut in either direction, and a window of two lets one slip out of it.
- **ThreadPaging** - a history of three, the first two of one millisecond, pages
  of two, three requests at once, one refusal, one dropped link or restart, from
  memory or from the file. The first page cuts between the two of one
  millisecond, so that the next one overlaps it. Nothing is pushed, no burst fills a page and there is no second chat to page in between,
  because with any of them `ExhaustedIsTheStart` fails (below). Paging ends at
  the first message or stays open, and the gate opens again (`GateOpens`).
- **ThreadSends** - a group, and a 1:1 chat whose one message chat.db never
  linked, so that its page comes by handle; one warm page, one send, one fault: a
  request refused, or given up on and filed later, an answer or a push lost, a
  participant not known. `SendKeepsItsRow`, `PendingHasAnAck`,
  `WarmPageIsWellFormed` (what the handle brings gets into no group's page), and
  `ImplementsLedger` (the machine implements `SendLedger`). Nobody else writes;
  that an echo of other words settles no send, and restarts, are left to the
  proofs.
- **ThreadRests** - one chat that begins empty, one send, one message of another
  device or of somebody else. `PageKeepsKeys`, `SendComesToRest`.
- **PanelAndDaemon** - two chats, one listed at the start, a list page of one
  chat, two events (messages, pins, reads elsewhere, dropped links, shell
  restarts, refused sweeps), one unread command, two unhandled frames, one
  sweep; 7 million states. `PendingHasAReply` (the flag that keeps the panel
  from asking for the list has its answer under way), `ListAgrees` (at rest the
  panel's rows and badge are the daemon's, but for the chats a sweep moved
  without a word), `ReadMeansShown` (what is marked read is on screen, or was
  clicked for). The page of one is what makes the reply differ from the
  broadcast, the unlisted chat what makes a click wait.
- **LinkRetry** - two clients, with and without a unit or a plugin directory,
  one crash, one stop, one silent link. `KeepsTrying`, `EveryPanelLinks`,
  `PromiseEnds`.
- **ImageCache** - two clients, one attachment, one sent image, two commands at
  once, one failure, one dropped link or dead daemon. `CacheIsWhole`,
  `PathIsOnDisk`, `PreviewSettles`, `RequestSettles`. Two commands are an owner
  and a waiter of one download, or two owners of two; files of different names
  meet nowhere in the code.

Two starts, two requests and one fault are the least in which every pair of
concurrent steps named in the hazards meets; the theorems lift most of the
safety to every size. Every property has a mutant of the code that breaks it
under the same bounds; the mutants stand beside the definition they change.

Violation runs, each a disagreement between the code and its own comments:

- **StoreSeedLost** - a push for one chat before the scan lands makes
  `seedUnread` apply the seed to that one chat and drop the rest.
- **PanelClick** - `ClickReadsNoOther`: the comment at Panel.qml:376-378 has the
  click choose its thread before the panel opens, so that the one last open is
  not marked read. For a chat that is not listed yet the choice waits, the panel
  opens on the old thread, and that one is read.

### Behaviours seen while modelling that no run states

They are in the models unless said otherwise; no property is stated that they
would break, or the property names the exception.

The store and the scan:

- The scan's run is newest-first and a push appends: on a full seeded run the
  cap (`slice(-100)`) drops the *newest* seeded timestamps (store.js:184).
- At the cap, a push too late to count (older than the boundary) still pushes
  an entry out of a full run, so the count falls although nobody read
  (`OnlyReadingClears` excepts it).
- A message the scan reported and the socket pushes afterwards is counted twice.
- A sweep answered before a push and landed after it puts the older preview
  back (store.js:120-130). If the page is then what its command was served, no
  frame says so (index.js:157-160): the panel, which had the push, rests on a
  time the daemon no longer holds, until the chat's next message or the next
  list. `ListAgrees` excepts those chats (`untold`).
- A chat whose recorded read lies beyond the window reports no unread at all
  (`Tracked` looks at the window only, bluebubbles.js:526-530).
- A daemon that dies before its first sweep has cached the chats pushes made;
  the next start serves them as the full list, though store.js:33 says a
  restored list is a swept one.
- `pins.json` is written in place (pins.js:27; not modelled).

The session:

- Messages filed while the BlueBubbles socket is down are pushed to nobody and
  stay uncounted until the daemon restarts.
- Before the first sweep has landed an orphan's 1:1 thread is reported
  unavailable, and the empty answer is cached as its warm page (the page is not
  in `Session`).
- Two refreshes of the contacts may be answered in the other order; the older
  index stays. Names stay raw when the sweep lands before the contacts.
- After a disconnect by the server ('io server disconnect') socket.io does not
  retry, and neither does the daemon.
- A push that embeds no chat is dropped, toast and all (not modelled).
- A daemon restarted between the two copies of a send tells it twice (`Session`
  is one daemon's; `ToldOnce` says no more).

Threads:

- A page answered before a push and landed after it drops the pushed message
  from the warm page and from the screen until the next page.
- An older page asked for before a `messages` frame and answered after it leaves
  a gap in the thread.
- An older page that adds nothing, because a `messages` page landed meanwhile
  and holds all of it, is taken for the end of the chat (Client.qml:560).
- `olderPendingGuid` has room for one chat. Paging another chat in between lets
  the first be asked for the same older page twice; the second copy adds nothing,
  and the thread is marked exhausted although more is to be had. The comment at
  Client.qml:557-559 takes a page that adds nothing for proof that the next
  request would carry the same cursor; here, as in the case above, the cursor has
  moved on.
- A message shown before the first page lands makes the panel ask for an older
  page by itself (Panel.qml:471-481), which may end the thread in the same way.
- With as many messages in one millisecond as a page holds, nothing older is
  ever reached (index.js:219).
- A page that already holds the sent message lands before the echo: the pending
  row is kept beside it and becomes a second copy (Client.qml:311).
- A link that drops with a send in flight leaves its row pending for ever.
- A reload keeps the rows in flight and no others: a row marked failed vanishes,
  and with it the only sign that the send failed (Client.qml:307-313).
- Two sends of the same words may settle each other's bubbles: an echo without a
  tempId is matched by text, the newest row first (Client.qml:397-404).
  `SendLedger`'s `Arrive` allows it.
- A send whose request timed out or was cut off is acknowledged as failed
  (index.js:235-237), yet the Mac may file it later. Its echo then takes the
  failed row's place, or is a row of its own if a reload took that row away; a
  reader who sends the words again has sent them twice.
- A page fetched by handle holds what that participant wrote in any chat, groups
  included (bluebubbles.js:365-376), and is kept warm and shown as the 1:1
  thread; it holds nothing this account wrote.

The panel:

- A held click is dropped by the `chats` change that `markRead` makes on opening,
  and by the push of another chat (Panel.qml:401).
- A held click whose chat arrives after the panel was closed again opens the
  thread behind the closed panel and marks it read (`ReadMeansShown` allows it:
  the chat was clicked for).
- A list on its way when `read` is sent puts the row's badge back. A row may
  show too many unread, never too few.
- A sweep one client asked for changes the list, and no other client is told.
- `cursorFollowGuid` is used up by any earlier change of the list; opening the
  panel or linking asks for `chatLimit` chats although a filter is up; a draft
  stays in the composer when another chat is opened. Images picked for one chat
  go to another if a toast was clicked while the file dialog was open
  (Panel.qml:495-524, Client.qml:257-260). None of these is modelled.

The link:

- Two clients without a unit each launch a daemon; the second removes the socket
  the first has just bound (bus.js:58), and both run.
- Without a unit a daemon is launched on the first retry only (Client.qml:649).

Images:

- An image a send copied in place (index.js:259) may be torn by a crash or a
  failed write, and a request under its tempId after a reconnect serves it.
- A refused image send leaves its copy, announced before the send went out, in
  the cache under the tempId; Client.qml:255-256 says nothing is cached there.

## Fairness

`Store`, `Session` and `Panel` need none: everything stated about them is
safety. `Thread`: each job is dispatched, answered and landed (undici gives up
on a silent server, so a request ends one way or the other), the pipe delivers
frames, and the retry timer reconnects. Nothing is assumed of the reader or of
the Mac's own messages. `Attachments`: the same of a command's steps, the pipe
and the retry timer; a download has no deadline of its own, but undici ends one
whose headers or body stop coming. Nothing makes an echo arrive. `Link`: a
process that runs takes its next step, systemd restarts what failed, a connect
is answered or refused, a running timer fires. `EveryPanelLinks` is stated for a
unit that nobody stops (see the link's behaviours above).

## What is proved

For every value of the constants that meets the named assumptions.

- `RunIsAgreedPrefix`, `RunIsLongestAgreedPrefix` - the run of *any* window is
  its longest prefix of inbound, unread messages before the boundary. The code
  counts positions in one walk and inbound messages in another; the argument is
  that a set of positions closed under predecessors is an interval, and inside
  the interval of the first walk all messages are inbound.
- `ScanTypeCorrect`, `ScanSound`, `ScanComplete` - the same about every state of
  `UnreadScan`. `BoundaryAlwaysShortens` - a later `lastSeen` of the Mac turns a
  scan's answer into a prefix of what it was (`LaterBoundaryCountsLess`).
- `StoreInvariantHolds` - `StoreInvariant` is inductive. `UnreadIsReal` alone is
  not: a timestamp reaches a run from the wire, from the scan's hands and from
  an answer in flight, and the boundary from a run or a preview, so the
  invariant adds that the wire names filed messages (`WireNamesMessages`), that
  every preview held, listed or cached is real (`ListIsReal`), that the boundary
  in memory and on disk is (`BoundaryIsReal`), and that the file is not ahead of
  memory (`FileNotAhead`). `TypeCorrect`, `UnreadAlwaysReal` and
  `BoundaryAlwaysReal` follow.
- `SeedNeverStranded`, `BoundaryAlwaysOnDisk`, `CacheAlwaysCurrent` - about the
  list, the seed and both files, through crashes. They need to know that a
  daemon that is down holds nothing (`DownIsEmpty`), that a run is of a chat in
  the map (`RunsAreKnown`) and that a swept list is not empty (`SweptIsKnown`,
  for an account that has chats).
- `ReadingAlwaysClears`, `PreviewsAlwaysStick`, `OnlyReadingEverClears` - action
  properties of every step. The last compares counts: the positions counted
  before a step are mapped one to one into those counted after it
  (`AppendCounts`, `ShiftCounts`, `PushCounts`).
- `StoreImplementsLedger` - every step of `Store` maps to a step of `ReadLedger`
  or to a stutter, through crashes and failed writes. `FileNotAhead` is what
  makes a late write move the file forward.
- `NamedOnGroundsOnly` - for every book and address, `resolve` names the first
  entry there are grounds for, and nobody without grounds; `NobodyIsMisnamed`
  says it of a session. `SweepsLoseNoChat` - paging by an offset loses no chat
  whose push was not lost: a chat before the offset was in the pages already read
  or is brought by a push (`Covers`), because a message only ever moves a chat
  to the front (`OrderMoves`) and its own push says so (`LinkedNoticed`).
  `HandlesAreAsked` - an empty page is of a chat no message has moved, so every
  sweep that lands has met it, and keeps its participant (`HasLanded`, `Asked`);
  that a client can only ask for chats of the account is `OnTheAccount`. Both
  follow from `SessionInv`, for any page size and number of sweeps, and both rest
  on the list's being in the order of the last message, which is what is asked
  for (`sort: 'lastmessage'`, bluebubbles.js:293-299); the comment at
  bluebubbles.js:53-59 is why the daemon trusts no shorter cut of that order.
- `MessagesAreToldOnce` - `ToldOnce` needs to know where in the stream of events
  a message was told. `ToldInvariant` says that the wire holds the latest events
  emitted (`WireIsTheLatest`), that the two copies of a send are emitted within
  one window of each other (`CopiesAreClose`), and that a message told is still
  in the window or was emitted a whole window ago (`ToldIsRemembered`). The
  second of these is the code's own assumption (bluebubbles.js:187-190 filters
  by the last `SeenMax` guids), and a guard of `MacEchoes`.
- `ThreadProofs` rests on one invariant, `Known`: every row, page, job, frame and
  pushed event names a message that was filed, of its own chat or of that chat's
  one participant, with the tempId of the send it came from or none; the cache
  file holds such pages too (`DiskKnown`). What was filed or sent is only ever
  added to, so each of these stays sound through every later step (`Extends`,
  `MessagesStay`, `RowsStay`). `TypeCorrect` and `WarmPages` follow: a page by
  handle is asked for only for a 1:1 chat and kept under that chat alone.
- `SendsKeepTheirRows`, `PendingRowsAwaitAcks` - two facts that support each
  other: a send under way has its row (`RowOfEach`), and a row in flight has its
  request, job or ack (`PlaceOfEach`). Neither is inductive unless a send is in
  one place at a time (`OneAckEach`) and has one row (`OneRowEach`), or else an
  ack would settle one copy and leave the other. The second is proved as long as
  no link has dropped, since a drop does leave the row pending (above).
- `PagesKeepKeys` - a page keeps the key of a row only if no two tempIds claim
  one message (`OneKeyEach`), over the wire, warm pages, threads, jobs and frames.
- `SendsKeepTheLedger` - every step of `Thread` maps to a step of `SendLedger`,
  for any chats, texts, pages, sends, drops and restarts, with the same
  invariant (`SendsInvariant`). A request or job that waits for the Mac has no
  ack under way (`WaitingHasNoAck`), so a failure is shown only once nobody asks
  any more; what was given up on is asked for by nothing else (`LateApart`), so
  the Mac files it once, in time (`LedgerDelivers`) or late
  (`LedgerDeliversLate`); a page brings no row of a send and drops none in
  flight (`PagesBringNoSend`); an echo or an ack turns the one row of a send
  (`RowTurned`, `OnePlace`), and only for a message in the same words
  (`LedgerEchoes`, `LedgerAcks`).
- `TheEndIsTheStart` - `ExhaustedIsTheStart`, from four hypotheses: one chat, to
  which all there is is linked (`OwnThread`), a history in the order of the
  clock (`InOrder`), no millisecond that alone fills a page with more behind it
  (`NoBurst`), and nothing filed or sent yet (`Quiet`, inside the formula).
  `MacMessage` keeps a history in order; without any of the others one of the
  behaviours above ends a thread early. Reloads, refusals, drops and restarts
  are unrestricted. `QuietInvariant` adds to the property that one request for
  an older page is under way at a time (`OneOlder`), that its cursor is the time
  of a message no younger than any row shown, that every page on its way or kept
  warm is what the Mac would answer (`Served`), and that a thread holds the
  newest page.
- `PanelTypes`, `ListIsNotAwaitedInVain`, `OnlyTheShownIsRead` - for any number
  of chats and events. The flag alone is not inductive; `PendingIsUnderWay` says
  where its answer is while the link is up: a frame to the daemon, a sweep that
  will answer, or a reply.
- `QuietListAgrees` - `ListAgrees` speaks of a panel at rest; `Agreement` says
  what makes it so before that. The last frame on its way that carries the count
  carries the daemon's (`BadgeFollows`), and the last that tells of a chat of
  the page tells what the daemon holds, except for an unread count already
  cleared here, whose `read` is on its way to the daemon (`ListFollows`). A sweep
  that tells nobody leaves those of its chats that neither came into the page nor
  have another time as the panel shows them; the rest are `untold`. A push moves
  one chat, and to the top: any other chat of the page after it was in the page
  before (`PageShrinks`), because what the daemon holds and what a sweep brings is
  never later than the Mac (`Ordered`), also when a landing takes a time back.
  The badge needs no exception: it counts by the run, which no sweep touches,
  and a chat with an unread stays listed.
- `LinkTypeCorrect`, `NeverStopsTrying` - with any number of clients, no link
  and no path leads to a daemon that does not listen, and a client without a
  link has its timer running.
- `CacheAlwaysWhole`, `OneDownloadPerFile` - `CacheIsWhole` alone is not
  inductive, because a rename puts in place what the `.part` file holds. That is
  whole when its owner is about to rename it (`WrittenIsWhole`), and stays so
  because a download has one owner (`OneOwner`) and no other step opens its
  file; a sent image is written under a tempId, which is no guid
  (`AttachmentsAssumptions`). `PathsAlwaysOnDisk` adds what a job and a frame
  carry: a path is answered only for a file in place, and only the echo removes
  a sent image's copy (`JobsAreSound`, `FramesAreSound`, `PathsAreSound`).
- `PreviewsSettle` - a thumbnail is copied over the full-size image only by a
  `preview` that goes on to fetch the full size and copy that (`Shaped`), so as
  long as nothing failed, a full-size file is shown or a command that will show
  it is under way (`FullIsShown`); at rest there is no such command.

Left to TLC:

- liveness (`GateOpens`, `SendComesToRest`, `EveryPanelLinks`, `PromiseEnds`,
  `RequestSettles`), which needs ENABLED. Every safety property a passing run
  checks is stated by a theorem, `PendingHasAnAck` for as long as no link has
  dropped, `ExhaustedIsTheStart` under the hypotheses of `TheEndIsTheStart`.

What a filter keeps (`Kept`, in `Thread`) is defined by the positions it keeps
and not by SelectSeq, which is recursive: its properties are then lemmas about
finite sets of numbers (`Positions`, `KeptElements`).
No module uses a RECURSIVE operator, so none is closed to proofs.

## Not modelled, and what is left

Worth doing next:

1. an abstract specification of a download (asked, whole, shown) that
   `Attachments` implements;
2. the composer, the picker and the cursor of `Panel`, with the images that go
   to another chat;
3. `pins.json`, with the crash inside its write.

Out of scope: paths, defaults and log lines (read once, or written only; no step
depends on them), what a payload's fields are parsed into, chunking of the byte
stream, rendering, layout and keys, search and the unread filter, the installer
(run by hand, alone), and the repository's tests and documents, which were read
for what they promise.
