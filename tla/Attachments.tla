---------------------------- MODULE Attachments ----------------------------
(***************************************************************************)
(* Images: ensureAttachment, `attachment`, `preview` and `sendImage` of    *)
(* daemon/index.js, downloadAttachment of bluebubbles.js, the cache        *)
(* directory behind them, and the pending flags and paths every Client.qml *)
(* keeps.                                                                  *)
(*                                                                         *)
(* What runs concurrently: the commands of all clients, one job each, with *)
(* the downloads they share; echoes of sent images; links that drop; a     *)
(* daemon that dies between any two steps of a download.  A download is    *)
(* owned by the job that started it, and other jobs wait on it.            *)
(*                                                                         *)
(* A name is an attachment's guid or a send's tempId.  A command is        *)
(* dispatched in the step that sends it: one lost in the pipe is a job     *)
(* whose answer is.  copyFile's bytes land at its end, at once.  Frames    *)
(* are a set, as what they do to a client does not depend on their order.  *)
(***************************************************************************)
EXTENDS Integers, FiniteSets

CONSTANTS
  Clients,    \* one per monitor
  None,       \* no client
  Guids,      \* attachments the Mac holds
  Temps,      \* tempIds of images to send
  Jobs,       \* commands that may be under way at once
  MaxFaults,  \* bound: requests, writes and copies that fail
  MaxDrops    \* bound: links dropped and daemons that die

ASSUME AttachmentsAssumptions ==
  /\ None \notin Clients
  /\ Guids \cap Temps = {}
  /\ {MaxFaults, MaxDrops} \subseteq Nat

Names == Guids \cup Temps
Sizes == {"thumbnail", "full"}
Keys  == Names \X Sizes

VARIABLES
  file,       \* attachmentPath(name) and, for "full", its .full sibling
  part,       \* the .part file next to each
  preview,    \* what each .preview file was copied from last
  jobs,
  frames,     \* `attachment` frames and errors on their way to a client
  wire,       \* tempIds handed to the Mac whose echo may yet come
  linkUp,     \* Client.linkUp
  pending,    \* attachmentPending
  paths,      \* attachmentPaths
  sender,     \* the client that sent each tempId
  echoed,     \* tempIds whose echo was handled
  faults, drops

diskVars   == <<file, part, preview>>
clientVars == <<linkUp, pending, paths, sender>>
vars == <<diskVars, jobs, frames, wire, clientVars, echoed, faults, drops>>

Kinds  == {"attachment", "preview", "upgrade", "image"}
Phases == {"waiting", "fetching", "writing", "written", "copying", "saving", "sending"}

Idle == [phase |-> "free"]
(* from: the size a copy is made of.  live: the client can still be answered. *)
Job(kind, c, n) ==
  [kind |-> kind, client |-> c, name |-> n, from |-> "thumbnail", phase |-> "waiting",
   live |-> TRUE]
BusyJobs == [kind : Kinds, client : Clients, name : Names, from : Sizes,
             phase : Phases, live : BOOLEAN]
Busy == {j \in Jobs : jobs[j].phase # "free"}

Frames == [client : Clients, name : Names, ok : BOOLEAN]

TypeOK ==
  /\ file \in [Keys -> {"none", "torn", "whole"}]
  /\ part \in [Keys -> {"none", "torn", "whole"}]
  /\ preview \in [Guids -> {"none"} \cup Sizes]
  /\ jobs \in [Jobs -> {Idle} \cup BusyJobs]
  /\ frames \subseteq Frames
  /\ wire \subseteq Temps
  /\ linkUp \in [Clients -> BOOLEAN]
  /\ \A f \in frames : linkUp[f.client]
  /\ pending \in [Clients -> SUBSET Names]
  /\ paths \in [Clients -> SUBSET Names]
  /\ sender \in [Temps -> Clients \cup {None}]
  /\ echoed \subseteq Temps

Init ==
  /\ file = [k \in Keys |-> "none"] /\ part = [k \in Keys |-> "none"]
  /\ preview = [g \in Guids |-> "none"]
  /\ jobs = [j \in Jobs |-> Idle]
  /\ frames = {} /\ wire = {}
  /\ linkUp = [c \in Clients |-> TRUE]
  /\ pending = [c \in Clients |-> {}] /\ paths = [c \in Clients |-> {}]
  /\ sender = [t \in Temps |-> None]
  /\ echoed = {}
  /\ faults = 0 /\ drops = 0

Fault == faults < MaxFaults /\ faults' = faults + 1

-----------------------------------------------------------------------------
(* ensureAttachment *)

Size(job) == IF job.kind = "upgrade" \/ job.from = "full" THEN "full" ELSE "thumbnail"
Key(job)  == <<job.name, Size(job)>>

Owns(job) == job.phase \in {"fetching", "writing", "written"}

Downloading_Never(k) == FALSE   \* mutant: attachmentDownloads is not looked at
Downloading(k) == \E j \in Busy : Owns(jobs[j]) /\ Key(jobs[j]) = k

Reply(job, ok) ==
  IF job.live /\ job.kind = "attachment"
    THEN {[client |-> job.client, name |-> job.name, ok |-> ok]} ELSE {}

(* A job whose file is there: `attachment` is done, the others copy it. *)
Resumed(job) == IF job.kind = "attachment" THEN Idle
                ELSE [job EXCEPT !.phase = "copying", !.from = Size(job)]

EnsureAttachment_NoWait(j, job) ==   \* mutant: the path is given out at once
  /\ jobs' = [jobs EXCEPT ![j] =
       IF file[Key(job)] # "none" \/ Downloading(Key(job)) THEN Resumed(job)
       ELSE [job EXCEPT !.phase = "fetching"]]
  /\ frames' = frames \cup IF file[Key(job)] # "none" \/ Downloading(Key(job))
                             THEN Reply(job, TRUE) ELSE {}

EnsureAttachment(j, job) ==
  /\ jobs' = [jobs EXCEPT ![j] =
       IF file[Key(job)] # "none" THEN Resumed(job)
       ELSE [job EXCEPT !.phase = IF Downloading(Key(job)) THEN "waiting" ELSE "fetching"]]
  /\ frames' = frames \cup IF file[Key(job)] # "none" THEN Reply(job, TRUE) ELSE {}

(* The jobs that go on, or fail, when j's download ends. *)
Sharing(j) == {i \in Busy : \/ i = j
                            \/ jobs[i].phase = "waiting" /\ Key(jobs[i]) = Key(jobs[j])}

DownloadEnds(j, ok) ==
  /\ jobs' = [i \in Jobs |-> IF i \notin Sharing(j) THEN jobs[i]
                             ELSE IF ok THEN Resumed(jobs[i]) ELSE Idle]
  /\ frames' = frames \cup UNION {Reply(jobs[i], ok) : i \in Sharing(j)}

(* downloadAttachment: the bytes are in, and the .part file is opened. *)
Fetched(j) ==
  /\ jobs[j].phase = "fetching"
  /\ jobs[j].name \in Guids
  /\ jobs' = [jobs EXCEPT ![j].phase = "writing"]
  /\ part' = [part EXCEPT ![Key(jobs[j])] = "torn"]
  /\ UNCHANGED <<file, preview, frames, wire, clientVars, echoed, faults, drops>>

Written(j) ==
  /\ jobs[j].phase = "writing"
  /\ jobs' = [jobs EXCEPT ![j].phase = "written"]
  /\ part' = [part EXCEPT ![Key(jobs[j])] = "whole"]
  /\ UNCHANGED <<file, preview, frames, wire, clientVars, echoed, faults, drops>>

Renamed(j) ==
  /\ jobs[j].phase = "written"
  /\ file' = [file EXCEPT ![Key(jobs[j])] = part[Key(jobs[j])]]
  /\ part' = [part EXCEPT ![Key(jobs[j])] = "none"]
  /\ DownloadEnds(j, TRUE)
  /\ UNCHANGED <<preview, wire, clientVars, echoed, faults, drops>>

(* The Mac has nothing under a tempId, and anything else may fail. *)
DownloadFails(j) ==
  /\ Owns(jobs[j])
  /\ IF jobs[j].name \in Temps THEN UNCHANGED faults ELSE Fault
  /\ DownloadEnds(j, FALSE)
  /\ UNCHANGED <<diskVars, wire, clientVars, echoed, drops>>

-----------------------------------------------------------------------------
(* Commands *)

(* Client.requestAttachment, for every image of a row a panel draws. *)
RequestAttachment(c, n, j) ==
  /\ linkUp[c] /\ jobs[j] = Idle
  /\ n \in Guids \cup {t \in Temps : sender[t] = c}
  /\ n \notin paths[c] /\ n \notin pending[c]
  /\ pending' = [pending EXCEPT ![c] = @ \cup {n}]
  /\ EnsureAttachment(j, Job("attachment", c, n))
  /\ UNCHANGED <<diskVars, wire, linkUp, paths, sender, echoed, faults, drops>>

(* Whether the full-size file is there is asked once, before the copy. *)
RequestPreview(c, g, j) ==
  /\ linkUp[c] /\ jobs[j] = Idle
  /\ LET haveFull == file[<<g, "full">>] # "none"
     IN IF haveFull
          THEN /\ jobs' = [jobs EXCEPT ![j] = [Job("preview", c, g) EXCEPT
                                                 !.phase = "copying", !.from = "full"]]
               /\ UNCHANGED frames
          ELSE EnsureAttachment(j, Job("preview", c, g))
  /\ UNCHANGED <<diskVars, wire, clientVars, echoed, faults, drops>>

Copied_AsksAgain(j) ==   \* mutant: haveFull is asked after the copy
  /\ jobs[j].phase = "copying"
  /\ preview' = [preview EXCEPT ![jobs[j].name] = jobs[j].from]
  /\ IF jobs[j].kind = "preview" /\ file[<<jobs[j].name, "full">>] = "none"
       THEN EnsureAttachment(j, [jobs[j] EXCEPT !.kind = "upgrade", !.live = FALSE])
       ELSE jobs' = [jobs EXCEPT ![j] = Idle] /\ UNCHANGED frames
  /\ UNCHANGED <<file, part, wire, clientVars, echoed, faults, drops>>

(* A copy of the thumbnail is answered and upgradePreview goes on with it. *)
Copied(j) ==
  /\ jobs[j].phase = "copying"
  /\ preview' = [preview EXCEPT ![jobs[j].name] = jobs[j].from]
  /\ IF jobs[j].kind = "preview" /\ jobs[j].from = "thumbnail"
       THEN EnsureAttachment(j, [jobs[j] EXCEPT !.kind = "upgrade", !.live = FALSE])
       ELSE jobs' = [jobs EXCEPT ![j] = Idle] /\ UNCHANGED frames
  /\ UNCHANGED <<file, part, wire, clientVars, echoed, faults, drops>>

(* sendImage: the row is there at once, its image once the copy is. *)
SendImage(c, t, j) ==
  /\ linkUp[c] /\ jobs[j] = Idle
  /\ sender[t] = None
  /\ sender' = [sender EXCEPT ![t] = c]
  /\ pending' = [pending EXCEPT ![c] = @ \cup {t}]
  /\ file' = [file EXCEPT ![<<t, "thumbnail">>] = "torn"]
  /\ jobs' = [jobs EXCEPT ![j] = [Job("image", c, t) EXCEPT !.phase = "saving"]]
  /\ UNCHANGED <<part, preview, frames, wire, linkUp, paths, echoed, faults, drops>>

(* The POST goes out: from here on the Mac may take it and echo it, before *)
(* it answers, whatever it answers, to this daemon or to the next.         *)
Saved(j) ==
  /\ jobs[j].phase = "saving"
  /\ file' = [file EXCEPT ![<<jobs[j].name, "thumbnail">>] = "whole"]
  /\ jobs' = [jobs EXCEPT ![j].phase = "sending"]
  /\ frames' = frames \cup Reply([jobs[j] EXCEPT !.kind = "attachment"], TRUE)
  /\ wire' = wire \cup {jobs[j].name}
  /\ UNCHANGED <<part, preview, clientVars, echoed, faults, drops>>

Sent(j) ==
  /\ jobs[j].phase = "sending"
  /\ jobs' = [jobs EXCEPT ![j] = Idle]
  /\ UNCHANGED <<diskVars, frames, wire, clientVars, echoed, faults, drops>>

(* A copy, a read, a write or a send fails: an error without a flag behind *)
(* it, or an `ack` that leaves the flag of the tempId as it is.            *)
CommandFails(j) ==
  /\ jobs[j].phase \in {"copying", "saving", "sending"}
  /\ Fault
  /\ jobs' = [jobs EXCEPT ![j] = Idle]
  /\ UNCHANGED <<diskVars, frames, wire, clientVars, echoed, drops>>

(* session.onMessage: the copy under the tempId has no reader left. *)
HandleEcho(t) ==
  /\ t \in wire
  /\ wire' = wire \ {t}
  /\ echoed' = echoed \cup {t}
  /\ file' = [file EXCEPT ![<<t, "thumbnail">>] = "none"]
  /\ UNCHANGED <<part, preview, jobs, frames, clientVars, faults, drops>>

-----------------------------------------------------------------------------
(* Clients and their links *)

(* settleAttachment *)
OnAttachment(f) ==
  /\ f \in frames
  /\ frames' = frames \ {f}
  /\ pending' = [pending EXCEPT ![f.client] = @ \ {f.name}]
  /\ paths' = IF f.ok THEN [paths EXCEPT ![f.client] = @ \cup {f.name}] ELSE paths
  /\ UNCHANGED <<diskVars, jobs, wire, linkUp, sender, echoed, faults, drops>>

Drop == drops < MaxDrops /\ drops' = drops + 1

DropLink_KeepsFrames(c) ==   \* mutant: a dead socket's frames are left queued
  /\ linkUp[c]
  /\ Drop
  /\ linkUp' = [linkUp EXCEPT ![c] = FALSE]
  /\ jobs' = [j \in Jobs |-> IF j \in Busy /\ jobs[j].client = c
                               THEN [jobs[j] EXCEPT !.live = FALSE] ELSE jobs[j]]
  /\ UNCHANGED <<diskVars, frames, wire, pending, paths, sender, echoed, faults>>

DropLink(c) ==
  /\ linkUp[c]
  /\ Drop
  /\ linkUp' = [linkUp EXCEPT ![c] = FALSE]
  /\ frames' = {f \in frames : f.client # c}
  /\ jobs' = [j \in Jobs |-> IF j \in Busy /\ jobs[j].client = c
                               THEN [jobs[j] EXCEPT !.live = FALSE] ELSE jobs[j]]
  /\ UNCHANGED <<diskVars, wire, pending, paths, sender, echoed, faults>>

(* The daemon dies and is started again: only the disk is left, and what   *)
(* the Mac was handed.                                                     *)
Crash ==
  /\ Drop
  /\ linkUp' = [c \in Clients |-> FALSE]
  /\ frames' = {}
  /\ jobs' = [j \in Jobs |-> Idle]
  /\ UNCHANGED <<diskVars, wire, pending, paths, sender, echoed, faults>>

Reconnect_KeepsFlags(c) ==   \* mutant: attachmentPending survives the link
  /\ ~linkUp[c]
  /\ linkUp' = [linkUp EXCEPT ![c] = TRUE]
  /\ UNCHANGED <<diskVars, jobs, frames, wire, pending, paths, sender, echoed, faults, drops>>

(* handleConnectionState(true) *)
Reconnect(c) ==
  /\ ~linkUp[c]
  /\ linkUp' = [linkUp EXCEPT ![c] = TRUE]
  /\ pending' = [pending EXCEPT ![c] = {}]
  /\ UNCHANGED <<diskVars, jobs, frames, wire, paths, sender, echoed, faults, drops>>

-----------------------------------------------------------------------------
Works(j) == \/ Fetched(j) \/ Written(j) \/ Renamed(j) \/ DownloadFails(j)
            \/ Copied(j) \/ Saved(j) \/ Sent(j)

Next ==
  \/ \E c \in Clients, j \in Jobs :
       \/ \E n \in Names : RequestAttachment(c, n, j)
       \/ \E g \in Guids : RequestPreview(c, g, j)
       \/ \E t \in Temps : SendImage(c, t, j)
  \/ \E j \in Jobs :
       \/ Fetched(j) \/ Written(j) \/ Renamed(j) \/ DownloadFails(j)
       \/ Copied(j) \/ Saved(j) \/ Sent(j) \/ CommandFails(j)
  \/ \E t \in Temps : HandleEcho(t)
  \/ \E f \in frames : OnAttachment(f)
  \/ \E c \in Clients : DropLink(c) \/ Reconnect(c)
  \/ Crash

Spec == Init /\ [][Next]_vars

(* Every await ends, the pipe delivers, and the retry timer fires. *)
Fairness ==
  /\ \A j \in Jobs : WF_vars(Works(j))
  /\ \A f \in Frames : WF_vars(OnAttachment(f))
  /\ \A c \in Clients : WF_vars(Reconnect(c))

FairSpec == Spec /\ Fairness

-----------------------------------------------------------------------------
(* Properties *)

(* "a crash mid-write can never leave a truncated file that the guid-keyed *)
(* cache then trusts forever" (bluebubbles.js:401-402), and "racing        *)
(* duplicate fetches would tear the .part rename" (index.js:37-39): what   *)
(* the cache holds of an attachment is whole, at every instant.            *)
CacheIsWhole == \A g \in Guids, s \in Sizes : file[<<g, s>>] # "torn"

(* A path a client draws from is a file, whole for an attachment: no reply *)
(* overtakes its download, and only its echo takes a sent image away       *)
(* (index.js:86-92).                                                       *)
PathIsOnDisk ==
  \A c \in Clients : \A n \in paths[c] :
    /\ n \in Guids => file[<<n, "thumbnail">>] = "whole"
    /\ n \in Temps => n \in echoed \/ file[<<n, "thumbnail">>] # "none"

(* Whoever clicked and in whatever order thumbnails, downloads and copies  *)
(* ended: once nothing is under way, and unless a daemon died or a copy    *)
(* failed, a viewer is left with the full-size image if the cache has it   *)
(* (index.js:58-67, docs/daemon-protocol.md:20).                           *)
PreviewSettles ==
  Busy = {} /\ drops = 0 /\ faults = 0 =>
    \A g \in Guids : file[<<g, "full">>] = "whole" => preview[g] = "full"

(* The answer to an image asked for comes, through failures, dropped links *)
(* and dead daemons, and whichever client's download it shares: the image  *)
(* is drawn or may be asked for again (Client.qml:597-599).                *)
RequestSettles ==
  \A c \in Clients, g \in Guids : g \in pending[c] ~> g \notin pending[c]
=============================================================================
