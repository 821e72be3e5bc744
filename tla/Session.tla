------------------------------ MODULE Session ------------------------------
(***************************************************************************)
(* The daemon's seam to BlueBubbles: BlueBubblesSession and the paging of  *)
(* BlueBubblesClient (daemon/lib/bluebubbles.js), the contact index, and   *)
(* whether it was given a configuration to start with.                     *)
(*                                                                         *)
(* What runs concurrently:                                                 *)
(*   - the Mac, which files messages, keeps its chats in the order of      *)
(*     their last message, and pushes over a socket that comes and goes,   *)
(*   - sweeps of the account, paged by an offset into that moving order,   *)
(*   - requests for a thread, by chat and then by the participant's handle,*)
(*   - one fetch of the contacts per connection.                           *)
(* Every answer is served at one instant and landed at that or a later one.*)
(*                                                                         *)
(* A message's guid is its index in `filed`.  What the store makes of a    *)
(* list or a push is module Store's, what is in a page module Thread's.    *)
(* The chats of the account are only ever added to.                        *)
(***************************************************************************)
EXTENDS Contacts

CONSTANTS
  Chats,      \* chat guids
  Listed,     \* the chats of the account at the start, latest first
  Solo,       \* the chats with one participant
  Orphans,    \* chats whose messages chat.db links to no chat
  Addresses,  \* what participants and senders go by
  Books,      \* what Contacts.app may hold
  PageSize,   \* CHAT_PAGE_SIZE
  FetchCap,   \* CHAT_FETCH_CAP
  SeenMax,    \* SEEN_MESSAGE_GUIDS
  Sweeps,     \* sweeps that may be under way at once
  Fetches,    \* thread requests that may be under way at once
  MaxFiled,   \* bound: messages filed
  MaxFaults   \* bound: links lost or closed, and requests the Mac refuses

ASSUME SessionAssumptions ==
  /\ Chats # {} /\ Listed \in Seq(Chats) /\ IsInjective(Listed)
  /\ Solo \subseteq Chats /\ Orphans \subseteq ToSet(Listed)
  /\ {PageSize, FetchCap, SeenMax} \subseteq Nat \ {0}
  /\ {MaxFiled, MaxFaults} \subseteq Nat

(* What normalize and fromContacts return are sequences. *)
ASSUME AddressAssumptions ==
  /\ \A address \in Addresses : Normalize(address) \in Seq(Alnum)
  /\ \A saved \in Books : FromContacts(saved) \in Seq(Entries)

VARIABLES
  order,      \* the account's chats, latest message first
  filed,      \* every message filed, in order
  emitted,    \* the new-message events emitted, in order
  wire,       \* new-message events on their way to the daemon
  book,       \* what Contacts.app holds; nobody edits it meanwhile
  configured, \* loadConfig's verdict
  connection, \* the `state` frame's; after "error" nobody connects again
  heard,      \* seenMessageGuids, in the order they were added
  known,      \* the keys of Store.chats
  solo,       \* the keys of soloParticipants
  contacts,   \* the contact index
  sweeps,     \* `chats` under way: how far, and what was fetched so far
  fetches,    \* `messages` under way, and what became of the last
  refreshes,  \* how many fetches of the contacts are under way
  told,       \* how often each message was handed to the clients
  landed,     \* auxiliary: a sweep of this daemon has landed
  unheard,    \* auxiliary: chats with a push that was lost
  faults

macVars    == <<order, filed, emitted, book>>
linkVars   == <<wire, connection>>
daemonVars == <<heard, known, solo, contacts, told, landed>>
jobVars    == <<sweeps, fetches, refreshes>>
vars == <<macVars, linkVars, configured, daemonVars, jobVars, unheard, faults>>

Messages == [chat : Chats, own : BOOLEAN]

IdleSweep   == [phase |-> "idle", offset |-> 0, all |-> <<>>]
IdleFetch   == [phase |-> "idle", chat |-> CHOOSE c \in Chats : TRUE, after |-> FALSE,
                asked |-> FALSE]
Nobody      == [g \in 1..MaxFiled |-> 0]

TypeOK ==
  /\ order \in Seq(Chats) /\ IsInjective(order)
  /\ filed \in Seq(Messages)
  /\ ToSet(emitted) \cup ToSet(wire) \subseteq DOMAIN filed
  /\ configured \in BOOLEAN /\ connection \in {"connecting", "connected", "error"}
  /\ IsInjective(heard) /\ Len(heard) <= SeenMax
  /\ known \subseteq Chats /\ solo \subseteq Solo /\ unheard \subseteq Chats
  /\ \A r \in Sweeps : /\ sweeps[r].phase \in {"idle", "paging", "answered"}
                       /\ sweeps[r].offset \in Nat /\ sweeps[r].all \in Seq(Chats)
  /\ fetches \in [Fetches -> [phase : {"idle", "byChat", "byHandle", "unavailable"},
                              chat : Chats, after : BOOLEAN, asked : BOOLEAN]]
  /\ told \in [1..MaxFiled -> Nat]
  /\ landed \in BOOLEAN /\ {refreshes, faults} \subseteq Nat

(* loadConfig: what has to be true of the file for a session to be made.   *)
ConfigFiles == SUBSET {"readable", "JSON", "serverUrl", "password"}
LoadConfig(file) == file = {"readable", "JSON", "serverUrl", "password"}

(* Without one the daemon runs, and says so in its `state` frames. *)
AtStart(ok) == IF ok THEN "connecting" ELSE "error"

(* Store.load: there is no cache, or it is of a sweep. *)
Init ==
  /\ order = Listed /\ filed = <<>> /\ emitted = <<>> /\ book \in Books
  /\ \E file \in ConfigFiles : configured = LoadConfig(file)
  /\ connection = AtStart(configured)
  /\ wire = <<>> /\ unheard = {} /\ told = Nobody
  /\ heard = <<>> /\ known \in {{}, ToSet(Listed)} /\ solo = {} /\ contacts = <<>>
  /\ landed = FALSE
  /\ sweeps = [r \in Sweeps |-> IdleSweep]
  /\ fetches = [f \in Fetches |-> IdleFetch]
  /\ refreshes = 0 /\ faults = 0

Fault == faults < MaxFaults /\ faults' = faults + 1

-----------------------------------------------------------------------------
(* The Mac (external) *)

ChatsOnWire == {filed[wire[i]].chat : i \in DOMAIN wire}

(* A push the daemon is not there to hear is lost: nothing is replayed. *)
Push(g, c) ==
  /\ emitted' = Append(emitted, g)
  /\ IF connection = "connected"
       THEN wire' = Append(wire, g) /\ UNCHANGED unheard
       ELSE unheard' = unheard \cup {c} /\ UNCHANGED wire

(* The place of a chat in the list, or the one after its end. *)
Place(c) ==
  CHOOSE i \in 1..(Len(order) + 1) :
    IF c \in ToSet(order) THEN i <= Len(order) /\ order[i] = c ELSE i = Len(order) + 1

ToFront(c) ==
  LET i == Place(c)
  IN [k \in 1..(IF i > Len(order) THEN i ELSE Len(order)) |->
        CASE k = 1           -> c
          [] k > 1 /\ k <= i -> order[k - 1]
          [] k > 1 /\ k > i  -> order[k]]

(* A message moves its chat to the front of the list; one that is linked   *)
(* to no chat moves none.                                                  *)
MacMessage(c, own) ==
  /\ Len(filed) < MaxFiled
  /\ filed' = Append(filed, [chat |-> c, own |-> own])
  /\ order' = IF c \in Orphans THEN order ELSE ToFront(c)
  /\ Push(Len(filed) + 1, c)
  /\ UNCHANGED <<book, connection, configured, daemonVars, jobVars, faults>>

(* The second copy of an own message: "the two copies of one send can      *)
(* never be separated by that many other messages" (bluebubbles.js:76-78). *)
MacEchoes(i) ==
  /\ filed[emitted[i]].own
  /\ Cardinality({k \in DOMAIN emitted : emitted[k] = emitted[i]}) = 1
  /\ Len(emitted) - i < SeenMax
  /\ Push(emitted[i], filed[emitted[i]].chat)
  /\ UNCHANGED <<order, filed, book, connection, configured, daemonVars, jobVars, faults>>

-----------------------------------------------------------------------------
(* The socket *)

LosePushes ==
  /\ wire' = <<>>
  /\ unheard' = unheard \cup ChatsOnWire

(* on('connect'): the contacts are fetched once per connection. *)
Connect ==
  /\ connection = "connecting"
  /\ connection' = "connected"
  /\ refreshes' = refreshes + 1
  /\ UNCHANGED <<macVars, wire, configured, daemonVars, sweeps, fetches, unheard, faults>>

(* on('disconnect'): after "io server disconnect" nobody tries again. *)
Disconnect(byServer) ==
  /\ connection = "connected" /\ Fault
  /\ connection' = IF byServer THEN "error" ELSE "connecting"
  /\ LosePushes
  /\ UNCHANGED <<macVars, configured, daemonVars, jobVars>>

Remembered_Early(g) ==   \* mutant: the window is one guid short
  LET all == Append(heard, g) IN IF Len(all) >= SeenMax THEN Tail(all) ELSE all

(* _alreadySeen, for a guid that was not *)
Remembered(g) ==
  LET all == Append(heard, g) IN IF Len(all) > SeenMax THEN Tail(all) ELSE all

(* on('new-message') and session.onMessage: a message with no embedded     *)
(* chat is dropped, and so is a guid that was heard before.                *)
HandleMessage ==
  /\ wire # <<>>
  /\ wire' = Tail(wire)
  /\ LET g == Head(wire)
         c == filed[g].chat
     IN IF c \in Orphans \/ g \in ToSet(heard)
          THEN UNCHANGED <<heard, known, told>>
          ELSE /\ heard' = Remembered(g)
               /\ known' = known \cup {c}
               /\ told' = [told EXCEPT ![g] = @ + 1]
  /\ UNCHANGED <<macVars, connection, configured, solo, contacts, landed, jobVars,
                 unheard, faults>>

-----------------------------------------------------------------------------
(* Contacts: _refreshContacts *)

LandContacts ==
  /\ refreshes > 0 /\ refreshes' = refreshes - 1
  /\ contacts' = FromContacts(book)
  /\ UNCHANGED <<macVars, linkVars, configured, heard, known, solo, told, landed,
                 sweeps, fetches, unheard, faults>>

(* Logged, and the index of before stands. *)
ContactsFail ==
  /\ refreshes > 0 /\ refreshes' = refreshes - 1
  /\ Fault
  /\ UNCHANGED <<macVars, linkVars, configured, daemonVars, sweeps, fetches, unheard>>

-----------------------------------------------------------------------------
(* The account: chats and queryAllChatsRaw *)

AskChats_Clears(r) ==   \* mutant: soloParticipants is emptied before the sweep
  /\ configured /\ sweeps[r].phase = "idle"
  /\ sweeps' = [sweeps EXCEPT ![r].phase = "paging"]
  /\ solo' = {}
  /\ UNCHANGED <<macVars, linkVars, configured, heard, known, contacts, told, landed,
                 fetches, refreshes, unheard, faults>>

(* `chats` without a usable configuration is answered with an error. *)
AskChats(r) ==
  /\ configured /\ sweeps[r].phase = "idle"
  /\ sweeps' = [sweeps EXCEPT ![r].phase = "paging"]
  /\ UNCHANGED <<macVars, linkVars, configured, daemonVars, fetches, refreshes, unheard, faults>>

Slice(s, m, n) == SubSeq(s, m, IF n > Len(s) THEN Len(s) ELSE n)

NextOffset_Past(offset) == offset + PageSize + 1   \* mutant: off by one

NextOffset(offset) == offset + PageSize

(* One page of the loop, cut out of the order of that instant. *)
MacServesChats(r) ==
  /\ sweeps[r].phase = "paging"
  /\ LET offset == sweeps[r].offset
         page   == Slice(order, offset + 1, offset + PageSize)
         all    == sweeps[r].all \o page
     IN sweeps' = [sweeps EXCEPT ![r] =
          IF Len(page) < PageSize \/ Len(all) >= FetchCap
            THEN [phase |-> "answered", offset |-> 0, all |-> all]
            ELSE [phase |-> "paging", offset |-> NextOffset(offset), all |-> all]]
  /\ UNCHANGED <<macVars, linkVars, configured, daemonVars, fetches, refreshes, unheard, faults>>

SoloOf_Any(raw) == raw   \* mutant: a group is taken for a 1:1 chat

(* soloParticipants: the chats with exactly one participant. *)
SoloOf(raw) == raw \cap Solo

LandChats(r) ==
  /\ sweeps[r].phase = "answered"
  /\ LET raw == ToSet(Slice(sweeps[r].all, 1, FetchCap))
     IN /\ solo' = SoloOf(raw)
        /\ known' = known \cup raw
  /\ landed' = TRUE
  /\ sweeps' = [sweeps EXCEPT ![r] = IdleSweep]
  /\ UNCHANGED <<macVars, linkVars, configured, heard, contacts, told, fetches,
                 refreshes, unheard, faults>>

(* One page refused is the whole sweep refused; nothing of it is kept. *)
ChatsFail(r) ==
  /\ sweeps[r].phase = "paging" /\ Fault
  /\ sweeps' = [sweeps EXCEPT ![r] = IdleSweep]
  /\ UNCHANGED <<macVars, linkVars, configured, daemonVars, fetches, refreshes, unheard>>

-----------------------------------------------------------------------------
(* A thread: messages *)

(* Clients open what they are listed; `asked` is for what becomes of it. *)
AskMessages(f, c) ==
  /\ configured /\ c \in known
  /\ fetches[f].phase \in {"idle", "unavailable"}
  /\ fetches' = [fetches EXCEPT ![f] =
       [phase |-> "byChat", chat |-> c, after |-> landed, asked |-> FALSE]]
  /\ UNCHANGED <<macVars, linkVars, configured, daemonVars, sweeps, refreshes, unheard, faults>>

(* The chats chat.db links a message of these to. *)
Linked == {filed[i].chat : i \in DOMAIN filed} \ Orphans

(* What an account's chats hold from before is not known here: a page by   *)
(* chat may be empty unless a message is linked, and is for an orphan.     *)
PageMayBe(c, empty) == IF empty THEN c \notin Linked ELSE c \notin Orphans

(* An empty page is asked for again by handle, if the chat has just one. *)
ChatRouteAnswers(f, empty) ==
  /\ fetches[f].phase = "byChat"
  /\ LET c == fetches[f].chat
     IN /\ PageMayBe(c, empty)
        /\ fetches' =
             CASE ~empty               -> [fetches EXCEPT ![f] = IdleFetch]
               [] empty /\ c \in solo  -> [fetches EXCEPT ![f].phase = "byHandle"]
               [] empty /\ c \notin solo -> [fetches EXCEPT ![f].phase = "unavailable"]
  /\ UNCHANGED <<macVars, linkVars, configured, daemonVars, sweeps, refreshes, unheard, faults>>

(* A handle may have written nothing that is left: "11 of 40 such chats    *)
(* have their messages recoverable" (bluebubbles.js:221-222).              *)
HandleRouteAnswers(f, empty) ==
  /\ fetches[f].phase = "byHandle"
  /\ fetches' = [fetches EXCEPT ![f] =
       IF empty THEN [@ EXCEPT !.phase = "unavailable", !.asked = TRUE] ELSE IdleFetch]
  /\ UNCHANGED <<macVars, linkVars, configured, daemonVars, sweeps, refreshes, unheard, faults>>

MessagesFail(f) ==
  /\ fetches[f].phase \in {"byChat", "byHandle"} /\ Fault
  /\ fetches' = [fetches EXCEPT ![f] = IdleFetch]
  /\ UNCHANGED <<macVars, linkVars, configured, daemonVars, sweeps, refreshes, unheard>>

-----------------------------------------------------------------------------
Next ==
  \/ \E c \in Chats, own \in BOOLEAN : MacMessage(c, own)
  \/ \E i \in DOMAIN emitted : MacEchoes(i)
  \/ Connect
  \/ \E byServer \in BOOLEAN : Disconnect(byServer)
  \/ HandleMessage
  \/ LandContacts \/ ContactsFail
  \/ \E r \in Sweeps : AskChats(r) \/ MacServesChats(r) \/ LandChats(r) \/ ChatsFail(r)
  \/ \E f \in Fetches : \/ \E c \in Chats : AskMessages(f, c)
                        \/ \E empty \in BOOLEAN :
                             ChatRouteAnswers(f, empty) \/ HandleRouteAnswers(f, empty)
                        \/ MessagesFail(f)

Spec == Init /\ [][Next]_vars

-----------------------------------------------------------------------------
(* Properties *)

(* An account the cap of a sweep has room for. *)
BelowTheCap == Len(order) <= FetchCap

(* "can silently drop chats" (bluebubbles.js:53-59) is what the paging is  *)
(* for: once a sweep has landed every chat of the account is known, though *)
(* a message moves a chat into the pages already read, because that        *)
(* message's own push is on the wire or was heard; unless a push was lost. *)
NoChatIsLost ==
  landed /\ BelowTheCap =>
    ToSet(order) \ unheard \subseteq known \cup ChatsOnWire

(* "For a 1:1 chat the daemon retries by the participant's handle"         *)
(* (docs/daemon-protocol.md:51): asked after a sweep has landed, and while *)
(* others clear and rebuild the participants, a 1:1 thread is reported     *)
(* unavailable only when its handle was asked and had nothing either.      *)
HandleIsAsked ==
  BelowTheCap =>
    \A f \in Fetches :
      /\ fetches[f].phase = "unavailable" /\ fetches[f].after
      /\ fetches[f].chat \in Solo
      => fetches[f].asked

(* The second copy of a send neither shows twice nor counts, nor toasts    *)
(* (bluebubbles.js:187-190): however late the copy comes, and whatever came*)
(* in between, one daemon hands a message on once.                         *)
ToldOnce == \A g \in 1..MaxFiled : told[g] <= 1

(* Whichever book was loaded, a thread is given a saved name on the        *)
(* grounds contacts.js states and no others, least of all a shortcode.     *)
NoStrangerIsNamed == \A a \in Addresses : NamedOnGrounds(contacts, a)
=============================================================================
