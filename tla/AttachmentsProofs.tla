------------------------- MODULE AttachmentsProofs -------------------------
(***************************************************************************)
(* CacheIsWhole, PathIsOnDisk, PreviewSettles and the type invariant, for  *)
(* any number of clients, attachments, commands, faults, dropped links and *)
(* deaths.                                                                 *)
(*                                                                         *)
(* CacheIsWhole is not inductive: a rename puts in place whatever the      *)
(* .part file holds.  It holds the whole image when its owner is about to  *)
(* rename it (WrittenIsWhole), and that stays so because a download has    *)
(* one owner (OneOwner): nobody else opens the same .part file meanwhile.  *)
(***************************************************************************)
EXTENDS Attachments, TLAPS

CacheTyped ==
  /\ file \in [Keys -> {"none", "torn", "whole"}]
  /\ part \in [Keys -> {"none", "torn", "whole"}]
  /\ jobs \in [Jobs -> {Idle} \cup BusyJobs]

OneOwner ==
  \A i, j \in Jobs :
    Owns(jobs[i]) /\ Owns(jobs[j]) /\ Key(jobs[i]) = Key(jobs[j]) => i = j

WrittenIsWhole ==
  \A j \in Jobs : jobs[j].phase = "written" => part[Key(jobs[j])] = "whole"

CacheInvariant == CacheTyped /\ OneOwner /\ WrittenIsWhole /\ CacheIsWhole

-----------------------------------------------------------------------------
(* Jobs *)

LEMMA IdleOwnsNothing == Idle.phase = "free" /\ ~Owns(Idle)
  BY DEF Idle, Owns

LEMMA BusyJobKey ==
  ASSUME NEW job \in BusyJobs
  PROVE  Key(job) \in Keys /\ job.name \in Names /\ job.phase \in Phases
  BY DEF BusyJobs, Key, Keys, Size, Sizes

LEMMA JobIsBusyJob ==
  ASSUME NEW kind \in Kinds, NEW c \in Clients, NEW n \in Names
  PROVE  Job(kind, c, n) \in BusyJobs /\ ~Owns(Job(kind, c, n))
  BY DEF Job, BusyJobs, Sizes, Phases, Owns

(* Only the phase moves: the key stays. *)
LEMMA PhaseKeepsKey ==
  ASSUME NEW job \in BusyJobs, NEW p \in Phases
  PROVE  /\ [job EXCEPT !.phase = p] \in BusyJobs
         /\ Key([job EXCEPT !.phase = p]) = Key(job)
         /\ [job EXCEPT !.phase = p].phase = p
  BY DEF BusyJobs, Key, Size

LEMMA ResumedOwnsNothing ==
  ASSUME NEW job \in BusyJobs
  PROVE  Resumed(job) \in {Idle} \cup BusyJobs /\ ~Owns(Resumed(job))
<1>1. CASE job.kind = "attachment"
  BY <1>1, IdleOwnsNothing DEF Resumed
<1>2. CASE job.kind # "attachment"
  BY <1>2 DEF Resumed, BusyJobs, Owns, Phases, Size, Sizes
<1> QED BY <1>1, <1>2

LEMMA OwnersAreBusy ==
  ASSUME CacheTyped, NEW j \in Jobs, Owns(jobs[j])
  PROVE  j \in Busy /\ jobs[j] \in BusyJobs
  BY IdleOwnsNothing DEF CacheTyped, Busy, Owns

LEMMA NotFreeIsBusy ==
  ASSUME CacheTyped, NEW j \in Jobs, jobs[j].phase # "free"
  PROVE  jobs[j] \in BusyJobs
  BY IdleOwnsNothing DEF CacheTyped

-----------------------------------------------------------------------------
(* The two ways the owners of downloads change *)

(* Jobs that end, resume or do what is no download. *)
LEMMA FewerOwners ==
  ASSUME CacheInvariant, part' = part,
         \A i \in Jobs : \/ ~Owns(jobs'[i])
                         \/ /\ jobs'[i].phase = jobs[i].phase
                            /\ Key(jobs'[i]) = Key(jobs[i])
  PROVE  OneOwner' /\ WrittenIsWhole'
<1>1. \A i \in Jobs : Owns(jobs'[i]) => Owns(jobs[i]) /\ Key(jobs'[i]) = Key(jobs[i])
  BY DEF Owns
<1>2. OneOwner'
  BY <1>1 DEF CacheInvariant, OneOwner
<1>3. WrittenIsWhole'
  BY DEF CacheInvariant, WrittenIsWhole, Owns
<1> QED BY <1>2, <1>3

(* A job that asks for a file starts a download only if none is under way. *)
LEMMA EnsureKeepsOwners ==
  ASSUME CacheInvariant, NEW j \in Jobs, ~Owns(jobs[j]), NEW job \in BusyJobs,
         EnsureAttachment(j, job), part' = part
  PROVE  /\ jobs' \in [Jobs -> {Idle} \cup BusyJobs]
         /\ OneOwner' /\ WrittenIsWhole'
<1>1. PICK x : /\ jobs' = [jobs EXCEPT ![j] = x]
               /\ \/ x = Resumed(job)
                  \/ x = [job EXCEPT !.phase = "waiting"]
                  \/ x = [job EXCEPT !.phase = "fetching"] /\ ~Downloading(Key(job))
  BY DEF EnsureAttachment
<1>2. x \in {Idle} \cup BusyJobs
  BY <1>1, ResumedOwnsNothing, PhaseKeepsKey DEF Phases
<1>3. jobs' \in [Jobs -> {Idle} \cup BusyJobs] /\ jobs'[j] = x
  BY <1>1, <1>2 DEF CacheInvariant, CacheTyped
<1>4. \A i \in Jobs : i # j => jobs'[i] = jobs[i]
  BY <1>1 DEF CacheInvariant, CacheTyped
<1>5. CASE ~Owns(x)
  BY <1>3, <1>4, <1>5, FewerOwners
<1>6. CASE Owns(x)
  <2>1. x = [job EXCEPT !.phase = "fetching"] /\ ~Downloading(Key(job))
    BY <1>1, <1>6, ResumedOwnsNothing, PhaseKeepsKey DEF Phases, Owns
  <2>2. x.phase = "fetching" /\ Key(x) = Key(job)
    BY <2>1, PhaseKeepsKey DEF Phases
  <2>3. \A i \in Jobs : Owns(jobs[i]) => Key(jobs[i]) # Key(job)
    BY <2>1, OwnersAreBusy DEF Downloading, CacheInvariant
  <2>4. OneOwner'
    BY <1>3, <1>4, <2>2, <2>3 DEF CacheInvariant, OneOwner
  <2>5. WrittenIsWhole'
    BY <1>3, <1>4, <2>2 DEF CacheInvariant, WrittenIsWhole
  <2> QED BY <1>3, <2>4, <2>5
<1> QED BY <1>5, <1>6

(* When a download ends, those that shared it resume or are done. *)
LEMMA EndKeepsOwners ==
  ASSUME CacheInvariant, NEW j \in Jobs, Owns(jobs[j]), NEW ok, DownloadEnds(j, ok)
  PROVE  /\ jobs' \in [Jobs -> {Idle} \cup BusyJobs]
         /\ \A i \in Jobs : ~Owns(jobs'[i]) \/ (i # j /\ jobs'[i] = jobs[i])
<1>1. \A i \in Sharing(j) : i \in Jobs /\ jobs[i] \in BusyJobs
  BY OwnersAreBusy, NotFreeIsBusy DEF Sharing, Busy, CacheInvariant
<1>2. j \in Sharing(j)
  BY OwnersAreBusy DEF Sharing, CacheInvariant
<1>3. \A i \in Jobs : i \in Sharing(j) =>
        jobs'[i] \in {Idle} \cup BusyJobs /\ ~Owns(jobs'[i])
  BY <1>1, ResumedOwnsNothing, IdleOwnsNothing DEF DownloadEnds
<1>4. \A i \in Jobs : i \notin Sharing(j) => jobs'[i] = jobs[i]
  BY DEF DownloadEnds
<1>5. jobs' \in [Jobs -> {Idle} \cup BusyJobs]
  BY <1>3, <1>4 DEF DownloadEnds, CacheInvariant, CacheTyped
<1> QED BY <1>2, <1>3, <1>4, <1>5

-----------------------------------------------------------------------------
(* Steps *)

LEMMA InitCacheInvariant == Init => CacheInvariant
<1> SUFFICES ASSUME Init PROVE CacheInvariant
  OBVIOUS
<1>1. CacheTyped
  BY DEF Init, CacheTyped
<1>2. \A j \in Jobs : jobs[j] = Idle
  BY DEF Init
<1>3. OneOwner /\ WrittenIsWhole
  BY <1>2, IdleOwnsNothing DEF OneOwner, WrittenIsWhole
<1>4. CacheIsWhole
  BY DEF Init, CacheIsWhole, Keys, Names
<1> QED BY <1>1, <1>3, <1>4 DEF CacheInvariant

(* The steps of a download touch the .part file of its owner only. *)
LEMMA FetchedKeeps ==
  ASSUME CacheInvariant, NEW j \in Jobs, Fetched(j) \/ Written(j)
  PROVE  CacheInvariant'
<1>1. Owns(jobs[j]) /\ jobs[j] \in BusyJobs /\ Key(jobs[j]) \in Keys
  BY OwnersAreBusy, BusyJobKey DEF Fetched, Written, Owns, CacheInvariant
<1>2. PICK p \in {"writing", "written"}, b \in {"torn", "whole"} :
        /\ jobs' = [jobs EXCEPT ![j].phase = p]
        /\ part' = [part EXCEPT ![Key(jobs[j])] = b]
        /\ p = "written" => b = "whole"
        /\ file' = file
  BY DEF Fetched, Written
<1>3. jobs'[j] = [jobs[j] EXCEPT !.phase = p]
  BY <1>2 DEF CacheInvariant, CacheTyped
<1>4. jobs'[j] \in BusyJobs /\ Key(jobs'[j]) = Key(jobs[j]) /\ jobs'[j].phase = p
  <2> DEFINE moved == [jobs[j] EXCEPT !.phase = p]
  <2>1. p \in Phases
    BY DEF Phases
  <2>2. moved \in BusyJobs /\ Key(moved) = Key(jobs[j]) /\ moved.phase = p
    BY <1>1, <2>1, PhaseKeepsKey
  <2>3. jobs'[j] = moved
    BY <1>3
  <2> HIDE DEF moved
  <2> QED BY <2>2, <2>3 DEF Key, Size
<1>5. \A i \in Jobs : i # j => jobs'[i] = jobs[i]
  BY <1>2 DEF CacheInvariant, CacheTyped
<1>6. CacheTyped'
  <2>1. jobs' \in [Jobs -> {Idle} \cup BusyJobs]
    BY <1>2, <1>4, <1>5 DEF CacheInvariant, CacheTyped
  <2>2. part' \in [Keys -> {"none", "torn", "whole"}]
    BY <1>2 DEF CacheInvariant, CacheTyped
  <2> QED BY <1>2, <2>1, <2>2 DEF CacheInvariant, CacheTyped
<1>7. OneOwner'
  <2>1. \A i \in Jobs : Owns(jobs'[i]) => Owns(jobs[i]) /\ Key(jobs'[i]) = Key(jobs[i])
    BY <1>1, <1>4, <1>5
  <2> QED BY <2>1 DEF CacheInvariant, OneOwner
<1>8. WrittenIsWhole'
  <2> SUFFICES ASSUME NEW i \in Jobs, jobs'[i].phase = "written"
               PROVE  part'[Key(jobs'[i])] = "whole"
    BY DEF WrittenIsWhole
  <2>1. CASE i = j
    BY <1>1, <1>2, <1>4, <2>1 DEF CacheInvariant, CacheTyped
  <2>2. CASE i # j
    <3>1. Owns(jobs[i]) /\ jobs'[i] = jobs[i]
      BY <1>5, <2>2 DEF Owns
    <3>2. Key(jobs[i]) # Key(jobs[j])
      BY <1>1, <2>2, <3>1 DEF CacheInvariant, OneOwner
    <3>3. part'[Key(jobs[i])] = part[Key(jobs[i])]
      <4>1. Key(jobs[i]) \in Keys
        BY <3>1, OwnersAreBusy, BusyJobKey DEF CacheInvariant
      <4> QED BY <1>2, <3>2, <4>1 DEF CacheInvariant, CacheTyped
    <3> QED BY <3>1, <3>3 DEF CacheInvariant, WrittenIsWhole
  <2> QED BY <2>1, <2>2
<1>9. CacheIsWhole'
  BY <1>2 DEF CacheInvariant, CacheIsWhole
<1> QED BY <1>6, <1>7, <1>8, <1>9 DEF CacheInvariant

(* A rename puts a whole image in place. *)
LEMMA RenamedKeeps ==
  ASSUME CacheInvariant, NEW j \in Jobs, Renamed(j)
  PROVE  CacheInvariant'
<1>1. Owns(jobs[j]) /\ Key(jobs[j]) \in Keys /\ part[Key(jobs[j])] = "whole"
  BY OwnersAreBusy, BusyJobKey DEF Renamed, Owns, CacheInvariant, WrittenIsWhole
<1>2. /\ file' = [file EXCEPT ![Key(jobs[j])] = "whole"]
      /\ part' = [part EXCEPT ![Key(jobs[j])] = "none"]
      /\ DownloadEnds(j, TRUE)
  BY <1>1 DEF Renamed
<1>3. /\ jobs' \in [Jobs -> {Idle} \cup BusyJobs]
      /\ \A i \in Jobs : ~Owns(jobs'[i]) \/ (i # j /\ jobs'[i] = jobs[i])
  BY <1>1, <1>2, EndKeepsOwners
<1>4. CacheTyped'
  BY <1>2, <1>3 DEF CacheInvariant, CacheTyped
<1>5. OneOwner'
  BY <1>3 DEF CacheInvariant, OneOwner
<1>6. WrittenIsWhole'
  <2> SUFFICES ASSUME NEW i \in Jobs, jobs'[i].phase = "written"
               PROVE  part'[Key(jobs'[i])] = "whole"
    BY DEF WrittenIsWhole
  <2>1. i # j /\ jobs'[i] = jobs[i] /\ Owns(jobs[i])
    BY <1>3 DEF Owns
  <2>2. Key(jobs[i]) # Key(jobs[j]) /\ Key(jobs[i]) \in Keys
    BY <1>1, <2>1, OwnersAreBusy, BusyJobKey DEF CacheInvariant, OneOwner
  <2> QED BY <1>2, <2>1, <2>2 DEF CacheInvariant, CacheTyped, WrittenIsWhole
<1>7. CacheIsWhole'
  <2>1. \A k \in Keys : file'[k] = file[k] \/ file'[k] = "whole"
    BY <1>2 DEF CacheInvariant, CacheTyped
  <2>2. \A g \in Guids, s \in Sizes : <<g, s>> \in Keys
    BY DEF Keys, Names
  <2> QED BY <2>1, <2>2 DEF CacheInvariant, CacheIsWhole
<1> QED BY <1>4, <1>5, <1>6, <1>7 DEF CacheInvariant

LEMMA DownloadFailsKeeps ==
  ASSUME CacheInvariant, NEW j \in Jobs, DownloadFails(j)
  PROVE  CacheInvariant'
<1>1. Owns(jobs[j]) /\ DownloadEnds(j, FALSE) /\ file' = file /\ part' = part
  BY DEF DownloadFails, diskVars
<1>2. /\ jobs' \in [Jobs -> {Idle} \cup BusyJobs]
      /\ \A i \in Jobs : ~Owns(jobs'[i]) \/ (i # j /\ jobs'[i] = jobs[i])
  BY <1>1, EndKeepsOwners
<1>3. OneOwner' /\ WrittenIsWhole'
  BY <1>1, <1>2, FewerOwners
<1> QED BY <1>1, <1>2, <1>3 DEF CacheInvariant, CacheTyped, CacheIsWhole

(* Commands that ask for a file. *)
LEMMA RequestKeeps ==
  ASSUME CacheInvariant, NEW j \in Jobs,
         \/ \E c \in Clients, n \in Names : RequestAttachment(c, n, j)
         \/ \E c \in Clients, g \in Guids : RequestPreview(c, g, j)
         \/ Copied(j)
  PROVE  CacheInvariant'
<1>1. file' = file /\ part' = part
  BY DEF RequestAttachment, RequestPreview, Copied, diskVars
<1>2. /\ jobs' \in [Jobs -> {Idle} \cup BusyJobs]
      /\ OneOwner' /\ WrittenIsWhole'
  <2>1. \A x \in {Idle} \cup BusyJobs :
          ~Owns(x) /\ jobs' = [jobs EXCEPT ![j] = x]
            => /\ jobs' \in [Jobs -> {Idle} \cup BusyJobs]
               /\ OneOwner' /\ WrittenIsWhole'
    <3> SUFFICES ASSUME NEW x \in {Idle} \cup BusyJobs, ~Owns(x),
                        jobs' = [jobs EXCEPT ![j] = x]
                 PROVE  /\ jobs' \in [Jobs -> {Idle} \cup BusyJobs]
                        /\ OneOwner' /\ WrittenIsWhole'
      OBVIOUS
    <3>1. jobs' \in [Jobs -> {Idle} \cup BusyJobs]
      BY DEF CacheInvariant, CacheTyped
    <3>2. \A i \in Jobs : ~Owns(jobs'[i]) \/ jobs'[i] = jobs[i]
      BY DEF CacheInvariant, CacheTyped
    <3> QED BY <1>1, <3>1, <3>2, FewerOwners
  <2>2. CASE \E c \in Clients, n \in Names : RequestAttachment(c, n, j)
    <3>1. PICK c \in Clients, n \in Names : RequestAttachment(c, n, j)
      BY <2>2
    <3>2. ~Owns(jobs[j]) /\ Job("attachment", c, n) \in BusyJobs
      BY <3>1, IdleOwnsNothing, JobIsBusyJob DEF RequestAttachment, Kinds
    <3>3. EnsureAttachment(j, Job("attachment", c, n))
      BY <3>1 DEF RequestAttachment
    <3> QED BY <1>1, <3>2, <3>3, EnsureKeepsOwners
  <2>3. CASE \E c \in Clients, g \in Guids : RequestPreview(c, g, j)
    <3>1. PICK c \in Clients, g \in Guids : RequestPreview(c, g, j)
      BY <2>3
    <3> DEFINE new == Job("preview", c, g)
    <3>2. ~Owns(jobs[j]) /\ new \in BusyJobs
      BY <3>1, IdleOwnsNothing, JobIsBusyJob DEF RequestPreview, Kinds, Names
    <3>3. CASE EnsureAttachment(j, new)
      BY <1>1, <3>2, <3>3, EnsureKeepsOwners
    <3>4. CASE jobs' = [jobs EXCEPT ![j] = [new EXCEPT !.phase = "copying", !.from = "full"]]
      <4>1. /\ [new EXCEPT !.phase = "copying", !.from = "full"] \in BusyJobs
            /\ ~Owns([new EXCEPT !.phase = "copying", !.from = "full"])
        BY <3>2 DEF BusyJobs, Phases, Sizes, Owns
      <4> QED BY <2>1, <3>4, <4>1
    <3> QED BY <3>1, <3>3, <3>4 DEF RequestPreview
  <2>4. CASE Copied(j)
    <3> DEFINE next == [jobs[j] EXCEPT !.kind = "upgrade", !.live = FALSE]
    <3>1. jobs[j] \in BusyJobs /\ ~Owns(jobs[j])
      BY <2>4, NotFreeIsBusy DEF Copied, Owns, CacheInvariant
    <3>2. next \in BusyJobs
      BY <3>1 DEF BusyJobs, Kinds
    <3>3. CASE EnsureAttachment(j, next)
      BY <1>1, <3>1, <3>2, <3>3, EnsureKeepsOwners
    <3>4. CASE jobs' = [jobs EXCEPT ![j] = Idle]
      BY <2>1, <3>4, IdleOwnsNothing
    <3> QED BY <2>4, <3>3, <3>4 DEF Copied
  <2> QED BY <2>2, <2>3, <2>4
<1> QED BY <1>1, <1>2 DEF CacheInvariant, CacheTyped, CacheIsWhole

(* sendImage writes under its tempId, which is no attachment's guid, and   *)
(* the echo removes what is there.                                         *)
LEMMA SendKeeps ==
  ASSUME CacheInvariant, NEW j \in Jobs,
         \/ \E c \in Clients, t \in Temps : SendImage(c, t, j)
         \/ Saved(j) \/ Sent(j) \/ CommandFails(j)
  PROVE  CacheInvariant'
<1>1. PICK x \in {Idle} \cup BusyJobs :
        jobs' = [jobs EXCEPT ![j] = x] /\ ~Owns(x)
  <2>1. CASE \E c \in Clients, t \in Temps : SendImage(c, t, j)
    <3>1. PICK c \in Clients, t \in Temps : SendImage(c, t, j)
      BY <2>1
    <3> DEFINE new == Job("image", c, t)
               x == [new EXCEPT !.phase = "saving"]
    <3>2. new \in BusyJobs
      BY JobIsBusyJob DEF Kinds, Names
    <3>3. x \in BusyJobs /\ ~Owns(x)
      BY <3>2 DEF BusyJobs, Phases, Owns
    <3>4. jobs' = [jobs EXCEPT ![j] = x]
      BY <3>1 DEF SendImage
    <3> QED BY <3>3, <3>4
  <2>2. CASE Saved(j)
    <3> DEFINE x == [jobs[j] EXCEPT !.phase = "sending"]
    <3>1. jobs[j] \in BusyJobs
      BY <2>2, NotFreeIsBusy DEF Saved, CacheInvariant
    <3>2. x \in BusyJobs /\ ~Owns(x)
      BY <3>1 DEF BusyJobs, Phases, Owns
    <3>3. jobs' = [jobs EXCEPT ![j] = x]
      BY <2>2 DEF Saved
    <3> QED BY <3>2, <3>3
  <2>3. CASE Sent(j) \/ CommandFails(j)
    BY <2>3, IdleOwnsNothing DEF Sent, CommandFails
  <2> QED BY <2>1, <2>2, <2>3
<1>2. jobs' \in [Jobs -> {Idle} \cup BusyJobs]
  BY <1>1 DEF CacheInvariant, CacheTyped
<1>3. part' = part
  BY DEF SendImage, Saved, Sent, CommandFails, diskVars
<1>4. \A i \in Jobs : ~Owns(jobs'[i]) \/ jobs'[i] = jobs[i]
  BY <1>1 DEF CacheInvariant, CacheTyped
<1>5. OneOwner' /\ WrittenIsWhole'
  BY <1>3, <1>4, FewerOwners
<1>6. file' \in [Keys -> {"none", "torn", "whole"}] /\ CacheIsWhole'
  <2>1. \A g \in Guids, s \in Sizes : <<g, s>> \in Keys /\ g \notin Temps
    BY AttachmentsAssumptions DEF Keys, Names
  <2>2. CASE \E c \in Clients, t \in Temps : SendImage(c, t, j)
    <3>1. PICK t \in Temps : file' = [file EXCEPT ![<<t, "thumbnail">>] = "torn"]
      BY <2>2 DEF SendImage
    <3>2. file' \in [Keys -> {"none", "torn", "whole"}]
      BY <3>1 DEF CacheInvariant, CacheTyped
    <3>3. \A g \in Guids, s \in Sizes : file'[<<g, s>>] = file[<<g, s>>]
      BY <2>1, <3>1 DEF CacheInvariant, CacheTyped
    <3> QED BY <3>2, <3>3 DEF CacheInvariant, CacheIsWhole
  <2>3. CASE Saved(j)
    <3>1. file' = [file EXCEPT ![<<jobs[j].name, "thumbnail">>] = "whole"]
      BY <2>3 DEF Saved
    <3>2. file' \in [Keys -> {"none", "torn", "whole"}]
      BY <3>1 DEF CacheInvariant, CacheTyped
    <3>3. \A k \in Keys : file'[k] = file[k] \/ file'[k] = "whole"
      BY <3>1 DEF CacheInvariant, CacheTyped
    <3> QED BY <2>1, <3>2, <3>3 DEF CacheInvariant, CacheIsWhole
  <2>4. CASE Sent(j) \/ CommandFails(j)
    BY <2>4 DEF Sent, CommandFails, diskVars, CacheInvariant, CacheTyped, CacheIsWhole
  <2> QED BY <2>2, <2>3, <2>4
<1> QED BY <1>2, <1>3, <1>5, <1>6 DEF CacheInvariant, CacheTyped

LEMMA EchoKeeps ==
  ASSUME CacheInvariant, NEW t \in Temps, HandleEcho(t)
  PROVE  CacheInvariant'
<1>1. jobs' = jobs /\ part' = part /\ file' = [file EXCEPT ![<<t, "thumbnail">>] = "none"]
  BY DEF HandleEcho
<1>2. CacheTyped' /\ \A k \in Keys : file'[k] = file[k] \/ file'[k] = "none"
  BY <1>1 DEF CacheInvariant, CacheTyped
<1>3. CacheIsWhole'
  BY <1>2 DEF CacheInvariant, CacheIsWhole, Keys, Names
<1> QED BY <1>1, <1>2, <1>3 DEF CacheInvariant, OneOwner, WrittenIsWhole, Key, Size, Owns

(* A link that drops forgets whom to answer, a daemon that dies forgets    *)
(* every job: the disk is as it was.                                       *)
LEMMA DropKeeps ==
  ASSUME CacheInvariant, (\E c \in Clients : DropLink(c)) \/ Crash
  PROVE  CacheInvariant'
<1>1. file' = file /\ part' = part
  BY DEF DropLink, Crash, diskVars
<1>2. \A i \in Jobs :
        /\ jobs'[i] \in {Idle} \cup BusyJobs
        /\ \/ ~Owns(jobs'[i])
           \/ jobs'[i].phase = jobs[i].phase /\ Key(jobs'[i]) = Key(jobs[i])
  <2>1. CASE Crash
    BY <2>1, IdleOwnsNothing DEF Crash
  <2>2. CASE \E c \in Clients : DropLink(c)
    <3> SUFFICES ASSUME NEW i \in Jobs
                 PROVE  /\ jobs'[i] \in {Idle} \cup BusyJobs
                        /\ jobs'[i].phase = jobs[i].phase
                        /\ Key(jobs'[i]) = Key(jobs[i])
      OBVIOUS
    <3>1. CASE jobs'[i] = jobs[i]
      BY <3>1 DEF CacheInvariant, CacheTyped, Key, Size
    <3>2. CASE i \in Busy /\ jobs'[i] = [jobs[i] EXCEPT !.live = FALSE]
      <4>1. jobs[i] \in BusyJobs
        BY <3>2, NotFreeIsBusy DEF Busy, CacheInvariant
      <4> QED BY <3>2, <4>1 DEF BusyJobs, Key, Size
    <3> QED BY <2>2, <3>1, <3>2 DEF DropLink
  <2> QED BY <2>1, <2>2
<1>3. jobs' \in [Jobs -> {Idle} \cup BusyJobs]
  BY <1>2 DEF DropLink, Crash
<1>4. OneOwner' /\ WrittenIsWhole'
  BY <1>1, <1>2, FewerOwners
<1> QED BY <1>1, <1>3, <1>4 DEF CacheInvariant, CacheTyped, CacheIsWhole

LEMMA UnchangedKeeps ==
  ASSUME CacheInvariant, file' = file, part' = part, jobs' = jobs
  PROVE  CacheInvariant'
  BY DEF CacheInvariant, CacheTyped, OneOwner, WrittenIsWhole, CacheIsWhole, Key, Size, Owns

LEMMA NextKeeps ==
  ASSUME CacheInvariant, [Next]_vars
  PROVE  CacheInvariant'
<1>1. CASE \E c \in Clients, j \in Jobs :
             \/ \E n \in Names : RequestAttachment(c, n, j)
             \/ \E g \in Guids : RequestPreview(c, g, j)
  BY <1>1, RequestKeeps
<1>2. CASE \E c \in Clients, j \in Jobs, t \in Temps : SendImage(c, t, j)
  BY <1>2, SendKeeps
<1>3. ASSUME NEW j \in Jobs, Fetched(j) \/ Written(j) PROVE CacheInvariant'
  BY <1>3, FetchedKeeps
<1>4. ASSUME NEW j \in Jobs, Renamed(j) PROVE CacheInvariant'
  BY <1>4, RenamedKeeps
<1>5. ASSUME NEW j \in Jobs, DownloadFails(j) PROVE CacheInvariant'
  BY <1>5, DownloadFailsKeeps
<1>6. ASSUME NEW j \in Jobs, Copied(j) PROVE CacheInvariant'
  BY <1>6, RequestKeeps
<1>7. ASSUME NEW j \in Jobs, Saved(j) \/ Sent(j) \/ CommandFails(j) PROVE CacheInvariant'
  BY <1>7, SendKeeps
<1>8. ASSUME NEW t \in Temps, HandleEcho(t) PROVE CacheInvariant'
  BY <1>8, EchoKeeps
<1>9. CASE (\E c \in Clients : DropLink(c)) \/ Crash
  BY <1>9, DropKeeps
<1>10. CASE \/ \E f \in frames : OnAttachment(f)
            \/ \E c \in Clients : Reconnect(c)
            \/ UNCHANGED vars
  BY <1>10, UnchangedKeeps DEF OnAttachment, Reconnect, vars, diskVars
<1> QED
  BY <1>1, <1>2, <1>3, <1>4, <1>5, <1>6, <1>7, <1>8, <1>9, <1>10 DEF Next

-----------------------------------------------------------------------------
(* What the cache holds of an attachment is whole at every instant, also   *)
(* after a daemon died in the middle of a write, and however many clients  *)
(* asked for it at once (ensureAttachment, downloadAttachment).            *)
THEOREM CacheAlwaysWhole == Spec => []CacheIsWhole
<1>1. Init => CacheInvariant
  BY InitCacheInvariant
<1>2. CacheInvariant /\ [Next]_vars => CacheInvariant'
  BY NextKeeps
<1>3. CacheInvariant => CacheIsWhole
  BY DEF CacheInvariant
<1> QED BY <1>1, <1>2, <1>3, PTL DEF Spec

(* Racing requests share one download: no two of the commands under way    *)
(* ever write the same .part file (attachmentDownloads).                   *)
THEOREM OneDownloadPerFile == Spec => []OneOwner
<1>1. Init => CacheInvariant
  BY InitCacheInvariant
<1>2. CacheInvariant /\ [Next]_vars => CacheInvariant'
  BY NextKeeps
<1>3. CacheInvariant => OneOwner
  BY DEF CacheInvariant
<1> QED BY <1>1, <1>2, <1>3, PTL DEF Spec

-----------------------------------------------------------------------------
(* Commands, their answers and what the clients draw                       *)
(*                                                                         *)
(* PathIsOnDisk is not inductive: a path comes from an answer, an answer   *)
(* from a command that found its file.  An `attachment` asks for the       *)
(* thumbnail only and answers a client that is linked (SoundJob), and what *)
(* is on its way to a client can be drawn already (SoundFrame).            *)

SoundJob(job, links) ==
  job.phase # "free" =>
    /\ job.kind = "attachment" => job.from = "thumbnail"
    /\ job.phase = "saving" => job.name \in Temps
    /\ job.live => links[job.client]

Drawable(n, files, heard) ==
  /\ n \in Guids => files[<<n, "thumbnail">>] = "whole"
  /\ n \in Temps => n \in heard \/ files[<<n, "thumbnail">>] # "none"

SoundFrame(f, links, files, heard) ==
  /\ f \in Frames /\ links[f.client]
  /\ f.ok => Drawable(f.name, files, heard)

ClientsTyped ==
  /\ preview \in [Guids -> {"none"} \cup Sizes]
  /\ wire \subseteq Temps
  /\ linkUp \in [Clients -> BOOLEAN]
  /\ pending \in [Clients -> SUBSET Names]
  /\ paths \in [Clients -> SUBSET Names]
  /\ sender \in [Temps -> Clients \cup {None}]
  /\ echoed \subseteq Temps

JobsAreSound   == \A j \in Jobs : SoundJob(jobs[j], linkUp)
FramesAreSound == \A f \in frames : SoundFrame(f, linkUp, file, echoed)
PathsAreSound  == \A c \in Clients : \A n \in paths[c] : Drawable(n, file, echoed)

ImageInvariant ==
  CacheInvariant /\ ClientsTyped /\ JobsAreSound /\ FramesAreSound /\ PathsAreSound

LEMMA InitImageInvariant == Init => ImageInvariant
<1> SUFFICES ASSUME Init PROVE ImageInvariant
  OBVIOUS
<1>1. CacheInvariant
  BY InitCacheInvariant
<1>2. ClientsTyped
  BY DEF Init, ClientsTyped
<1>3. JobsAreSound
  BY DEF Init, JobsAreSound, SoundJob, Idle
<1>4. FramesAreSound /\ PathsAreSound
  BY DEF Init, FramesAreSound, PathsAreSound
<1> QED BY <1>1, <1>2, <1>3, <1>4 DEF ImageInvariant

-----------------------------------------------------------------------------
(* What can be drawn *)

(* What one step does to a file of the cache. *)
LEMMA FileSteps ==
  ASSUME ImageInvariant, [Next]_vars
  PROVE  /\ echoed \subseteq echoed'
         /\ \A n \in Names : LET k == <<n, "thumbnail">> IN
              \/ file'[k] = file[k] \/ file'[k] = "whole"
              \/ n \in Temps /\ file'[k] = "torn"
              \/ n \in echoed'
<1> DEFINE Moves(n) == LET k == <<n, "thumbnail">> IN
             \/ file'[k] = file[k] \/ file'[k] = "whole"
             \/ n \in Temps /\ file'[k] = "torn"
             \/ n \in echoed'
<1>t. CacheTyped
  BY DEF ImageInvariant, CacheInvariant
<1>k. \A n \in Names : <<n, "thumbnail">> \in Keys
  BY DEF Keys, Sizes
<1> SUFFICES echoed \subseteq echoed' /\ \A n \in Names : Moves(n)
  OBVIOUS
<1>1. CASE file' = file /\ echoed' = echoed
  BY <1>1
<1>2. ASSUME NEW j \in Jobs, Renamed(j) PROVE echoed' = echoed /\ \A n \in Names : Moves(n)
  <2>1. Owns(jobs[j]) /\ Key(jobs[j]) \in Keys /\ part[Key(jobs[j])] = "whole"
    BY <1>2, OwnersAreBusy, BusyJobKey
       DEF Renamed, Owns, ImageInvariant, CacheInvariant, WrittenIsWhole
  <2>2. file' = [file EXCEPT ![Key(jobs[j])] = "whole"] /\ echoed' = echoed
    BY <1>2, <2>1 DEF Renamed
  <2>3. \A k \in Keys : file'[k] = file[k] \/ file'[k] = "whole"
    BY <1>t, <2>2 DEF CacheTyped
  <2> QED BY <1>k, <2>2, <2>3
<1>3. ASSUME NEW c \in Clients, NEW t \in Temps, NEW j \in Jobs, SendImage(c, t, j)
      PROVE  echoed' = echoed /\ \A n \in Names : Moves(n)
  <2>1. file' = [file EXCEPT ![<<t, "thumbnail">>] = "torn"] /\ echoed' = echoed
    BY <1>3 DEF SendImage
  <2> QED BY <1>t, <1>k, <2>1 DEF CacheTyped
<1>4. ASSUME NEW j \in Jobs, Saved(j) PROVE echoed' = echoed /\ \A n \in Names : Moves(n)
  <2>1. file' = [file EXCEPT ![<<jobs[j].name, "thumbnail">>] = "whole"] /\ echoed' = echoed
    BY <1>4 DEF Saved
  <2>2. \A k \in Keys : file'[k] = file[k] \/ file'[k] = "whole"
    BY <1>t, <2>1 DEF CacheTyped
  <2> QED BY <1>k, <2>1, <2>2
<1>5. ASSUME NEW t \in Temps, HandleEcho(t) PROVE echoed \subseteq echoed' /\ \A n \in Names : Moves(n)
  <2>1. file' = [file EXCEPT ![<<t, "thumbnail">>] = "none"] /\ echoed' = echoed \cup {t}
    BY <1>5 DEF HandleEcho
  <2> QED BY <1>t, <1>k, <2>1 DEF CacheTyped
<1>6. CASE UNCHANGED vars
  BY <1>1, <1>6 DEF vars, diskVars
<1> QED
  BY <1>1, <1>2, <1>3, <1>4, <1>5, <1>6
     DEF Next, RequestAttachment, RequestPreview, Fetched, Written, DownloadFails, Copied,
         Sent, CommandFails, OnAttachment, DropLink, Reconnect, Crash, diskVars

LEMMA DrawableStays ==
  ASSUME ImageInvariant, [Next]_vars, NEW n \in Names, Drawable(n, file, echoed)
  PROVE  Drawable(n, file', echoed')
<1>1. Guids \cap Temps = {} /\ echoed \subseteq Temps
  BY AttachmentsAssumptions DEF ImageInvariant, ClientsTyped
<1>2. echoed' \subseteq Temps
  BY <1>1 DEF Next, vars, RequestAttachment, RequestPreview, SendImage, Fetched, Written,
              Renamed, DownloadFails, Copied, Saved, Sent, CommandFails, HandleEcho,
              OnAttachment, DropLink, Reconnect, Crash
<1> QED BY <1>1, <1>2, FileSteps DEF Drawable

(* A file that is there is drawn: an attachment's is whole. *)
LEMMA FoundIsDrawable ==
  ASSUME CacheInvariant, NEW n \in Names, file[<<n, "thumbnail">>] # "none", NEW heard
  PROVE  Drawable(n, file, heard)
<1>1. <<n, "thumbnail">> \in Keys
  BY DEF Keys, Sizes
<1>2. n \in Guids => file[<<n, "thumbnail">>] # "torn"
  BY DEF CacheInvariant, CacheIsWhole, Sizes
<1> QED BY <1>1, <1>2 DEF CacheInvariant, CacheTyped, Drawable

-----------------------------------------------------------------------------
(* Jobs and answers *)

LEMMA IdleIsSound == \A links : SoundJob(Idle, links)
  BY DEF SoundJob, Idle

LEMMA ResumedIsSound ==
  ASSUME NEW job \in BusyJobs, NEW links, SoundJob(job, links), job.phase # "saving"
  PROVE  SoundJob(Resumed(job), links)
<1>1. CASE job.kind = "attachment"
  BY <1>1, IdleIsSound DEF Resumed
<1>2. CASE job.kind # "attachment"
  <2>1. Resumed(job) = [job EXCEPT !.phase = "copying", !.from = Size(job)]
    BY <1>2 DEF Resumed
  <2> QED BY <1>2, <2>1 DEF SoundJob, BusyJobs, Phases
<1> QED BY <1>1, <1>2

(* The answer of a sound job, once its file is there or the download failed. *)
LEMMA ReplyIsSound ==
  ASSUME NEW job \in BusyJobs, NEW links, SoundJob(job, links), NEW ok \in BOOLEAN,
         NEW files, NEW heard,
         ok /\ job.kind = "attachment" => Drawable(job.name, files, heard)
  PROVE  \A f \in Reply(job, ok) : SoundFrame(f, links, files, heard)
<1> SUFFICES ASSUME NEW f \in Reply(job, ok) PROVE SoundFrame(f, links, files, heard)
  OBVIOUS
<1>1. /\ job.live /\ job.kind = "attachment"
      /\ f = [client |-> job.client, name |-> job.name, ok |-> ok]
  BY DEF Reply
<1>2. f \in Frames /\ job.phase # "free"
  BY <1>1 DEF BusyJobs, Frames, Phases
<1> QED BY <1>1, <1>2 DEF SoundFrame, SoundJob

LEMMA AttachmentKey ==
  ASSUME NEW job \in BusyJobs, NEW links, SoundJob(job, links), job.kind = "attachment"
  PROVE  Key(job) = <<job.name, "thumbnail">>
  BY DEF SoundJob, BusyJobs, Phases, Key, Size

LEMMA EnsureIsSound ==
  ASSUME ImageInvariant, NEW j \in Jobs, NEW job \in BusyJobs, SoundJob(job, linkUp),
         job.phase # "saving", EnsureAttachment(j, job)
  PROVE  /\ \A i \in Jobs : SoundJob(jobs'[i], linkUp)
         /\ \A f \in frames' : SoundFrame(f, linkUp, file, echoed)
<1>1. jobs \in [Jobs -> {Idle} \cup BusyJobs] /\ CacheInvariant
  BY DEF ImageInvariant, CacheInvariant, CacheTyped
<1>2. \A i \in Jobs : SoundJob(jobs[i], linkUp)
  BY DEF ImageInvariant, JobsAreSound
<1>3. PICK x : /\ jobs' = [jobs EXCEPT ![j] = x]
               /\ \/ x = Resumed(job)
                  \/ \E p \in {"waiting", "fetching"} : x = [job EXCEPT !.phase = p]
  BY DEF EnsureAttachment
<1>4. SoundJob(x, linkUp)
  <2>1. CASE x = Resumed(job)
    BY <2>1, ResumedIsSound
  <2>2. ASSUME NEW p \in {"waiting", "fetching"}, x = [job EXCEPT !.phase = p]
        PROVE  SoundJob(x, linkUp)
    BY <2>2 DEF SoundJob, BusyJobs, Phases
  <2> QED BY <1>3, <2>1, <2>2
<1>5. \A i \in Jobs : SoundJob(jobs'[i], linkUp)
  BY <1>1, <1>2, <1>3, <1>4
<1>6. ASSUME file[Key(job)] # "none"
      PROVE  \A f \in Reply(job, TRUE) : SoundFrame(f, linkUp, file, echoed)
  <2>1. job.kind = "attachment" => Drawable(job.name, file, echoed)
    BY <1>1, <1>6, AttachmentKey, BusyJobKey, FoundIsDrawable
  <2> QED BY <2>1, ReplyIsSound
<1>7. \A f \in frames' : SoundFrame(f, linkUp, file, echoed)
  BY <1>6 DEF EnsureAttachment, ImageInvariant, FramesAreSound
<1> QED BY <1>5, <1>7

LEMMA EndIsSound ==
  ASSUME ImageInvariant, NEW j \in Jobs, Owns(jobs[j]), NEW ok \in BOOLEAN,
         DownloadEnds(j, ok), NEW files,
         ok => \A n \in Names : <<n, "thumbnail">> = Key(jobs[j]) => Drawable(n, files, echoed)
  PROVE  /\ \A i \in Jobs : SoundJob(jobs'[i], linkUp)
         /\ \A i \in Sharing(j) : \A f \in Reply(jobs[i], ok) :
              SoundFrame(f, linkUp, files, echoed)
<1>1. CacheTyped /\ \A i \in Jobs : SoundJob(jobs[i], linkUp)
  BY DEF ImageInvariant, CacheInvariant, JobsAreSound
<1>2. ASSUME NEW i \in Sharing(j)
      PROVE  /\ i \in Jobs /\ jobs[i] \in BusyJobs /\ jobs[i].phase # "saving"
             /\ Key(jobs[i]) = Key(jobs[j])
  BY <1>1, <1>2, OwnersAreBusy, NotFreeIsBusy DEF Sharing, Busy, Owns
<1>3. \A i \in Jobs : SoundJob(jobs'[i], linkUp)
  <2> SUFFICES ASSUME NEW i \in Jobs PROVE SoundJob(jobs'[i], linkUp)
    OBVIOUS
  <2>1. CASE i \in Sharing(j)
    BY <1>1, <1>2, <2>1, ResumedIsSound, IdleIsSound DEF DownloadEnds
  <2>2. CASE i \notin Sharing(j)
    BY <1>1, <2>2 DEF DownloadEnds
  <2> QED BY <2>1, <2>2
<1>4. ASSUME NEW i \in Sharing(j)
      PROVE  \A f \in Reply(jobs[i], ok) : SoundFrame(f, linkUp, files, echoed)
  <2>1. jobs[i] \in BusyJobs /\ SoundJob(jobs[i], linkUp) /\ jobs[i].name \in Names
    BY <1>1, <1>2, BusyJobKey
  <2>2. ok /\ jobs[i].kind = "attachment" => Drawable(jobs[i].name, files, echoed)
    BY <1>2, <2>1, AttachmentKey
  <2> QED BY <2>1, <2>2, ReplyIsSound
<1> QED BY <1>3, <1>4

-----------------------------------------------------------------------------
(* Steps *)

LEMMA ClientsStayTyped ==
  ASSUME ImageInvariant, [Next]_vars
  PROVE  ClientsTyped'
<1> USE DEF ClientsTyped
<1>t. ClientsTyped /\ CacheTyped
  BY DEF ImageInvariant, CacheInvariant
<1>1. CASE UNCHANGED <<preview, wire, clientVars, echoed>>
  BY <1>t, <1>1 DEF clientVars
<1>2. ASSUME NEW c \in Clients, NEW n \in Names, NEW j \in Jobs, RequestAttachment(c, n, j)
      PROVE  ClientsTyped'
  BY <1>t, <1>2 DEF RequestAttachment, diskVars
<1>3. ASSUME NEW c \in Clients, NEW t \in Temps, NEW j \in Jobs, SendImage(c, t, j)
      PROVE  ClientsTyped'
  BY <1>t, <1>3 DEF SendImage, Names
<1>4. ASSUME NEW j \in Jobs, Copied(j) PROVE ClientsTyped'
  <2>1. jobs[j].from \in Sizes /\ preview' = [preview EXCEPT ![jobs[j].name] = jobs[j].from]
    BY <1>t, <1>4, NotFreeIsBusy DEF Copied, BusyJobs
  <2> QED BY <1>t, <1>4, <2>1 DEF Copied, clientVars
<1>5. ASSUME NEW j \in Jobs, Saved(j) PROVE ClientsTyped'
  <2>1. jobs[j].name \in Temps
    BY <1>5 DEF Saved, ImageInvariant, JobsAreSound, SoundJob
  <2> QED BY <1>t, <1>5, <2>1 DEF Saved, clientVars
<1>6. ASSUME NEW t \in Temps, HandleEcho(t) PROVE ClientsTyped'
  BY <1>t, <1>6 DEF HandleEcho, clientVars
<1>7. ASSUME NEW f \in frames, OnAttachment(f) PROVE ClientsTyped'
  <2>1. f.client \in Clients /\ f.name \in Names
    BY <1>7 DEF ImageInvariant, FramesAreSound, SoundFrame, Frames
  <2> QED BY <1>t, <1>7, <2>1 DEF OnAttachment, diskVars
<1>8. CASE (\E c \in Clients : DropLink(c) \/ Reconnect(c)) \/ Crash
  BY <1>t, <1>8 DEF DropLink, Reconnect, Crash, diskVars
<1> QED
  BY <1>1, <1>2, <1>3, <1>4, <1>5, <1>6, <1>7, <1>8
     DEF Next, vars, RequestPreview, Fetched, Written, Renamed, DownloadFails, Sent,
         CommandFails, diskVars

(* A path is added by an answer only, and what could be drawn still can. *)
LEMMA PathsStaySound ==
  ASSUME ImageInvariant, [Next]_vars
  PROVE  PathsAreSound'
<1> SUFFICES ASSUME NEW c \in Clients, NEW n \in paths'[c]
             PROVE  Drawable(n, file', echoed')
  BY DEF PathsAreSound
<1>1. CASE paths' = paths
  <2>1. n \in Names /\ Drawable(n, file, echoed)
    BY <1>1 DEF ImageInvariant, ClientsTyped, PathsAreSound
  <2> QED BY <2>1, DrawableStays
<1>2. ASSUME NEW f \in frames, OnAttachment(f) PROVE Drawable(n, file', echoed')
  <2>1. n \in paths[c] \/ (f.ok /\ n = f.name)
    BY <1>2 DEF OnAttachment, ImageInvariant, ClientsTyped
  <2>2. n \in Names /\ Drawable(n, file, echoed)
    BY <2>1 DEF ImageInvariant, ClientsTyped, PathsAreSound, FramesAreSound, SoundFrame, Frames
  <2> QED BY <2>2, DrawableStays
<1> QED
  BY <1>1, <1>2
     DEF Next, vars, clientVars, RequestAttachment, RequestPreview, SendImage, Fetched, Written,
         Renamed, DownloadFails, Copied, Saved, Sent, CommandFails, HandleEcho, DropLink,
         Reconnect, Crash

(* What was on its way stays sound while its client is linked. *)
LEMMA FrameStaysSound ==
  ASSUME ImageInvariant, [Next]_vars, NEW f \in frames, NEW links, links[f.client]
  PROVE  SoundFrame(f, links, file', echoed')
<1>1. SoundFrame(f, linkUp, file, echoed)
  BY DEF ImageInvariant, FramesAreSound
<1>2. f.name \in Names
  BY <1>1 DEF SoundFrame, Frames
<1> QED BY <1>1, <1>2, DrawableStays DEF SoundFrame

LEMMA OldFramesStaySound ==
  ASSUME ImageInvariant, [Next]_vars, linkUp' = linkUp, NEW f \in frames
  PROVE  SoundFrame(f, linkUp', file', echoed')
<1>1. linkUp[f.client]
  BY DEF ImageInvariant, FramesAreSound, SoundFrame
<1> QED BY <1>1, FrameStaysSound

(* One job that moves on without an answer. *)
LEMMA MoveIsSound ==
  ASSUME ImageInvariant, NEW j \in Jobs, NEW x, jobs' = [jobs EXCEPT ![j] = x],
         SoundJob(x, linkUp)
  PROVE  \A i \in Jobs : SoundJob(jobs'[i], linkUp)
BY DEF ImageInvariant, JobsAreSound, CacheInvariant, CacheTyped

LEMMA JobsAndFramesStaySound ==
  ASSUME ImageInvariant, [Next]_vars
  PROVE  JobsAreSound' /\ FramesAreSound'
<1> DEFINE Good == /\ \A i \in Jobs : SoundJob(jobs'[i], linkUp')
                   /\ \A f \in frames' : SoundFrame(f, linkUp', file', echoed')
<1> SUFFICES Good
  BY DEF JobsAreSound, FramesAreSound
<1>t. /\ CacheInvariant /\ CacheTyped
      /\ jobs \in [Jobs -> {Idle} \cup BusyJobs]
      /\ \A i \in Jobs : SoundJob(jobs[i], linkUp)
  BY DEF ImageInvariant, CacheInvariant, CacheTyped, JobsAreSound
<1>1. ASSUME NEW j \in Jobs, NEW job \in BusyJobs, SoundJob(job, linkUp),
             job.phase # "saving", EnsureAttachment(j, job),
             UNCHANGED <<file, linkUp, echoed>>
      PROVE  Good
  BY <1>1, EnsureIsSound
<1>2. ASSUME NEW j \in Jobs, NEW x, jobs' = [jobs EXCEPT ![j] = x], SoundJob(x, linkUp),
             linkUp' = linkUp, frames' = frames
      PROVE  Good
  BY <1>2, MoveIsSound, OldFramesStaySound
<1>3. ASSUME NEW j \in Jobs, NEW c \in Clients, NEW n \in Names, RequestAttachment(c, n, j)
      PROVE  Good
  <2> DEFINE new == Job("attachment", c, n)
  <2>1. new \in BusyJobs /\ SoundJob(new, linkUp) /\ new.phase # "saving"
    BY <1>3, JobIsBusyJob DEF RequestAttachment, Job, SoundJob, Kinds
  <2> HIDE DEF new
  <2> QED BY <1>1, <1>3, <2>1 DEF RequestAttachment, diskVars, new
<1>4. ASSUME NEW j \in Jobs, NEW c \in Clients, NEW g \in Guids, RequestPreview(c, g, j)
      PROVE  Good
  <2> DEFINE new == Job("preview", c, g)
             x == [new EXCEPT !.phase = "copying", !.from = "full"]
  <2>1. new \in BusyJobs /\ SoundJob(new, linkUp) /\ new.phase # "saving"
    BY <1>4, JobIsBusyJob DEF RequestPreview, Job, SoundJob, Kinds, Names
  <2>2. SoundJob(x, linkUp)
    BY <1>4 DEF RequestPreview, Job, SoundJob
  <2>3. UNCHANGED <<file, linkUp, echoed>>
    BY <1>4 DEF RequestPreview, diskVars, clientVars
  <2>4. EnsureAttachment(j, new) \/ (jobs' = [jobs EXCEPT ![j] = x] /\ frames' = frames)
    BY <1>4 DEF RequestPreview
  <2> HIDE DEF new, x
  <2> QED BY <1>1, <1>2, <2>1, <2>2, <2>3, <2>4
<1>5. ASSUME NEW j \in Jobs, Copied(j) PROVE Good
  <2> DEFINE next == [jobs[j] EXCEPT !.kind = "upgrade", !.live = FALSE]
  <2>1. jobs[j] \in BusyJobs /\ jobs[j].phase = "copying"
    BY <1>5, <1>t, NotFreeIsBusy DEF Copied
  <2>2. next \in BusyJobs /\ SoundJob(next, linkUp) /\ next.phase # "saving"
    BY <2>1 DEF BusyJobs, Kinds, SoundJob
  <2>3. UNCHANGED <<file, linkUp, echoed>>
    BY <1>5 DEF Copied, clientVars
  <2>4. EnsureAttachment(j, next) \/ (jobs' = [jobs EXCEPT ![j] = Idle] /\ frames' = frames)
    BY <1>5 DEF Copied
  <2> HIDE DEF next
  <2> QED BY <1>1, <1>2, <2>2, <2>3, <2>4, IdleIsSound
<1>6. ASSUME NEW j \in Jobs, Fetched(j) \/ Written(j) PROVE Good
  <2>1. PICK p \in {"writing", "written"} :
          /\ jobs' = [jobs EXCEPT ![j].phase = p]
          /\ UNCHANGED <<linkUp, frames>>
    BY <1>6 DEF Fetched, Written, clientVars
  <2> DEFINE x == [jobs[j] EXCEPT !.phase = p]
  <2>2. jobs[j] \in BusyJobs /\ SoundJob(jobs[j], linkUp) /\ jobs[j].phase # "free"
    BY <1>6, <1>t, NotFreeIsBusy DEF Fetched, Written
  <2>3. SoundJob(x, linkUp)
    BY <2>2 DEF BusyJobs, SoundJob
  <2>4. jobs' = [jobs EXCEPT ![j] = x]
    BY <2>1
  <2> HIDE DEF x
  <2> QED BY <1>2, <2>1, <2>3, <2>4
<1>7. ASSUME NEW j \in Jobs, Renamed(j) PROVE Good
  <2>1. Owns(jobs[j]) /\ Key(jobs[j]) \in Keys /\ part[Key(jobs[j])] = "whole"
    BY <1>7, <1>t, OwnersAreBusy, BusyJobKey DEF Renamed, Owns, CacheInvariant, WrittenIsWhole
  <2>2. /\ file'[Key(jobs[j])] = "whole" /\ DownloadEnds(j, TRUE)
        /\ UNCHANGED <<linkUp, echoed>>
    BY <1>7, <1>t, <2>1 DEF Renamed, clientVars, CacheTyped
  <2>3. \A n \in Names : <<n, "thumbnail">> = Key(jobs[j]) => Drawable(n, file', echoed)
    BY <2>2 DEF Drawable
  <2>4. /\ \A i \in Jobs : SoundJob(jobs'[i], linkUp)
        /\ \A i \in Sharing(j) : \A f \in Reply(jobs[i], TRUE) :
             SoundFrame(f, linkUp, file', echoed)
    BY <2>1, <2>2, <2>3, EndIsSound
  <2> QED BY <2>2, <2>4, OldFramesStaySound DEF DownloadEnds
<1>8. ASSUME NEW j \in Jobs, DownloadFails(j) PROVE Good
  <2>1. Owns(jobs[j]) /\ DownloadEnds(j, FALSE) /\ UNCHANGED <<file, linkUp, echoed>>
    BY <1>8 DEF DownloadFails, diskVars, clientVars
  <2>2. /\ \A i \in Jobs : SoundJob(jobs'[i], linkUp)
        /\ \A i \in Sharing(j) : \A f \in Reply(jobs[i], FALSE) :
             SoundFrame(f, linkUp, file', echoed)
    BY <2>1, EndIsSound
  <2> QED BY <2>1, <2>2, OldFramesStaySound DEF DownloadEnds
<1>9. ASSUME NEW c \in Clients, NEW t \in Temps, NEW j \in Jobs, SendImage(c, t, j) PROVE Good
  <2> DEFINE x == [Job("image", c, t) EXCEPT !.phase = "saving"]
  <2>1. SoundJob(x, linkUp)
    BY <1>9 DEF SendImage, Job, SoundJob
  <2>2. jobs' = [jobs EXCEPT ![j] = x] /\ UNCHANGED <<linkUp, frames>>
    BY <1>9 DEF SendImage
  <2> HIDE DEF x
  <2> QED BY <1>2, <2>1, <2>2
<1>10. ASSUME NEW j \in Jobs, Saved(j) PROVE Good
  <2> DEFINE x == [jobs[j] EXCEPT !.phase = "sending"]
             asked == [jobs[j] EXCEPT !.kind = "attachment"]
  <2>1. jobs[j] \in BusyJobs /\ SoundJob(jobs[j], linkUp) /\ jobs[j].phase = "saving"
    BY <1>10, <1>t, NotFreeIsBusy DEF Saved
  <2>2. SoundJob(x, linkUp) /\ jobs' = [jobs EXCEPT ![j] = x]
    BY <1>10, <2>1 DEF BusyJobs, SoundJob, Saved
  <2>3. /\ UNCHANGED <<linkUp, echoed>> /\ frames' = frames \cup Reply(asked, TRUE)
        /\ file' = [file EXCEPT ![<<jobs[j].name, "thumbnail">>] = "whole"]
    BY <1>10 DEF Saved, clientVars
  <2>4. jobs[j].name \in Names /\ <<jobs[j].name, "thumbnail">> \in Keys
    BY <2>1, BusyJobKey DEF Keys, Sizes
  <2>5. Drawable(jobs[j].name, file', echoed')
    BY <1>t, <2>3, <2>4 DEF Drawable, CacheTyped
  <2>6. ASSUME NEW f \in Reply(asked, TRUE) PROVE SoundFrame(f, linkUp', file', echoed')
    <3>1. /\ jobs[j].live
          /\ f = [client |-> jobs[j].client, name |-> jobs[j].name, ok |-> TRUE]
      BY <2>1, <2>6 DEF Reply, BusyJobs
    <3>2. f \in Frames /\ linkUp[f.client]
      BY <2>1, <3>1 DEF BusyJobs, Frames, SoundJob
    <3> QED BY <2>3, <2>5, <3>1, <3>2 DEF SoundFrame
  <2>7. \A i \in Jobs : SoundJob(jobs'[i], linkUp')
    <3> HIDE DEF x
    <3> QED BY <2>2, <2>3, MoveIsSound
  <2> QED BY <2>3, <2>6, <2>7, OldFramesStaySound
<1>11. ASSUME NEW j \in Jobs, Sent(j) \/ CommandFails(j) PROVE Good
  BY <1>2, <1>11, IdleIsSound DEF Sent, CommandFails, clientVars
<1>12. CASE (\E t \in Temps : HandleEcho(t)) \/ UNCHANGED vars
  BY <1>t, <1>12, OldFramesStaySound DEF HandleEcho, clientVars, vars
<1>13. ASSUME NEW f \in frames, OnAttachment(f) PROVE Good
  BY <1>t, <1>13, OldFramesStaySound DEF OnAttachment
<1>14. ASSUME NEW c \in Clients, DropLink(c) PROVE Good
  <2>1. \A f \in frames' : f \in frames /\ f.client # c
    BY <1>14 DEF DropLink
  <2>2. linkUp' = [linkUp EXCEPT ![c] = FALSE] /\ linkUp \in [Clients -> BOOLEAN]
    BY <1>14 DEF DropLink, ImageInvariant, ClientsTyped
  <2>3. \A f \in frames' : linkUp'[f.client]
    BY <2>1, <2>2 DEF ImageInvariant, FramesAreSound, SoundFrame, Frames
  <2>4. \A f \in frames' : SoundFrame(f, linkUp', file', echoed')
    BY <2>1, <2>3, FrameStaysSound
  <2>5. ASSUME NEW i \in Jobs PROVE SoundJob(jobs'[i], linkUp')
    <3>1. CASE i \in Busy /\ jobs[i].client = c
      <4>1. jobs[i] \in BusyJobs /\ SoundJob(jobs[i], linkUp)
        BY <1>t, <3>1, NotFreeIsBusy DEF Busy
      <4>2. jobs'[i] = [jobs[i] EXCEPT !.live = FALSE]
        BY <1>14, <3>1 DEF DropLink
      <4> QED BY <4>1, <4>2 DEF BusyJobs, SoundJob
    <3>2. CASE i \notin Busy
      BY <1>14, <3>2 DEF DropLink, Busy, SoundJob
    <3>3. CASE i \in Busy /\ jobs[i].client # c
      <4>1. jobs[i] \in BusyJobs /\ SoundJob(jobs[i], linkUp) /\ jobs'[i] = jobs[i]
        BY <1>14, <1>t, <3>3, NotFreeIsBusy DEF Busy, DropLink
      <4>2. linkUp'[jobs[i].client] = linkUp[jobs[i].client]
        BY <2>2, <3>3, <4>1 DEF BusyJobs
      <4> QED BY <4>1, <4>2 DEF SoundJob
    <3> QED BY <3>1, <3>2, <3>3
  <2> QED BY <2>4, <2>5
<1>15. CASE Crash
  BY <1>15, IdleIsSound DEF Crash
<1>16. ASSUME NEW c \in Clients, Reconnect(c) PROVE Good
  <2>1. /\ linkUp' = [linkUp EXCEPT ![c] = TRUE] /\ linkUp \in [Clients -> BOOLEAN]
        /\ jobs' = jobs /\ frames' = frames
    BY <1>16 DEF Reconnect, ImageInvariant, ClientsTyped
  <2>2. \A d \in Clients : linkUp[d] => linkUp'[d]
    BY <2>1
  <2>3. \A f \in frames' : SoundFrame(f, linkUp', file', echoed')
    <3>1. \A f \in frames : linkUp'[f.client]
      BY <2>2 DEF ImageInvariant, FramesAreSound, SoundFrame, Frames
    <3> QED BY <2>1, <3>1, FrameStaysSound
  <2>4. ASSUME NEW i \in Jobs PROVE SoundJob(jobs'[i], linkUp')
    <3>1. jobs[i] \in BusyJobs \/ jobs[i].phase = "free"
      BY <1>t, NotFreeIsBusy
    <3> QED BY <1>t, <2>1, <2>2, <3>1 DEF SoundJob, BusyJobs
  <2> QED BY <2>3, <2>4
<1> HIDE DEF Good
<1> QED
  BY <1>3, <1>4, <1>5, <1>6, <1>7, <1>8, <1>9, <1>10, <1>11, <1>12, <1>13, <1>14, <1>15, <1>16
     DEF Next

LEMMA ImageInvariantHolds == Spec => []ImageInvariant
<1>1. ImageInvariant /\ [Next]_vars => ImageInvariant'
  <2> SUFFICES ASSUME ImageInvariant, [Next]_vars PROVE ImageInvariant'
    OBVIOUS
  <2>1. CacheInvariant'
    BY NextKeeps DEF ImageInvariant
  <2> QED BY <2>1, ClientsStayTyped, PathsStaySound, JobsAndFramesStaySound DEF ImageInvariant
<1> QED BY <1>1, InitImageInvariant, PTL DEF Spec

(* The images' state has its type in every reachable state, and nothing is *)
(* under way to a client whose link is down (bus.js:74-78).                *)
THEOREM TypeCorrect == Spec => []TypeOK
<1>1. ImageInvariant => TypeOK
  BY DEF ImageInvariant, CacheInvariant, CacheTyped, ClientsTyped, FramesAreSound,
         SoundFrame, TypeOK
<1> QED BY <1>1, ImageInvariantHolds, PTL

(* Whatever a client draws from is on the daemon's disk, whole for an      *)
(* attachment: no answer overtakes the download it shares, and no later    *)
(* step but its own echo takes a file away (index.js:36-53, 86-92).        *)
THEOREM PathsAlwaysOnDisk == Spec => []PathIsOnDisk
<1>1. ImageInvariant => PathIsOnDisk
  BY DEF ImageInvariant, PathsAreSound, Drawable, PathIsOnDisk
<1> QED BY <1>1, ImageInvariantHolds, PTL

-----------------------------------------------------------------------------
(* The image a viewer is left with                                         *)
(*                                                                         *)
(* A thumbnail may be copied over the full-size image, but only by a       *)
(* `preview` that goes on to fetch and copy the full-size one: while such  *)
(* a command is under way the preview is not settled (WillCopy).           *)

Shaped(job) ==
  job.phase # "free" =>
    /\ job.kind = "attachment" => job.from = "thumbnail" /\ job.phase # "copying"
    /\ job.kind = "image" <=> job.phase \in {"saving", "sending"}
    /\ job.kind = "upgrade" /\ job.phase = "copying" => job.from = "full"
    /\ job.kind = "preview" /\ job.phase # "copying" => job.from = "thumbnail"

WillCopy(job, g) == job.phase # "free" /\ job.name = g /\ job.kind \in {"preview", "upgrade"}

FullIsShown ==
  \A g \in Guids :
    file[<<g, "full">>] # "none" => preview[g] = "full" \/ \E j \in Jobs : WillCopy(jobs[j], g)

Unharmed == faults = 0 /\ drops = 0

PreviewInvariant ==
  /\ CacheInvariant /\ preview \in [Guids -> {"none"} \cup Sizes]
  /\ {faults, drops} \subseteq Nat
  /\ \A j \in Jobs : Shaped(jobs[j])
  /\ Unharmed => FullIsShown

(* What every step does for the preview of an attachment. *)
Furthers ==
  /\ \A j \in Jobs : Shaped(jobs'[j])
  /\ Unharmed' =>
       /\ Unharmed
       /\ \A g \in Guids :
            /\ \A j \in Jobs : WillCopy(jobs[j], g) => WillCopy(jobs'[j], g) \/ preview'[g] = "full"
            /\ \/ file[<<g, "full">>] # "none"
               \/ file'[<<g, "full">>] = "none"
               \/ \E j \in Jobs : WillCopy(jobs'[j], g)
            /\ preview'[g] = preview[g] \/ preview'[g] = "full" \/ \E j \in Jobs : WillCopy(jobs'[j], g)

LEMMA FurtheredIsShown ==
  ASSUME PreviewInvariant, Furthers
  PROVE  Unharmed' => FullIsShown'
BY DEF PreviewInvariant, Furthers, FullIsShown

LEMMA IdleIsShaped == Shaped(Idle) /\ \A g : ~WillCopy(Idle, g)
BY DEF Shaped, WillCopy, Idle

LEMMA ResumedIsShaped ==
  ASSUME NEW job \in BusyJobs, Shaped(job), job.kind # "image", job.phase # "copying"
  PROVE  /\ Shaped(Resumed(job))
         /\ \A g : WillCopy(job, g) => WillCopy(Resumed(job), g)
<1>1. CASE job.kind = "attachment"
  BY <1>1, IdleIsShaped DEF Resumed, WillCopy
<1>2. CASE job.kind # "attachment"
  <2> DEFINE next == [job EXCEPT !.phase = "copying", !.from = Size(job)]
  <2>1. Resumed(job) = next
    BY <1>2 DEF Resumed
  <2>2. /\ next.phase = "copying" /\ next.kind = job.kind /\ next.name = job.name
        /\ next.from = Size(job)
    BY DEF BusyJobs
  <2> HIDE DEF next
  <2> QED BY <1>2, <2>1, <2>2 DEF Shaped, WillCopy, BusyJobs, Phases, Size, Kinds
<1> QED BY <1>1, <1>2

LEMMA EnsureIsShaped ==
  ASSUME NEW job \in BusyJobs, Shaped([job EXCEPT !.phase = "waiting"]), job.kind # "image",
         NEW j, EnsureAttachment(j, job)
  PROVE  \E x : /\ jobs' = [jobs EXCEPT ![j] = x] /\ Shaped(x)
                /\ \A g : job.name = g /\ job.kind \in {"preview", "upgrade"} => WillCopy(x, g)
<1> DEFINE ready == [job EXCEPT !.phase = "waiting"]
<1>1. /\ ready \in BusyJobs /\ Shaped(ready) /\ ready.kind # "image" /\ ready.phase = "waiting"
      /\ ready.kind = job.kind /\ ready.name = job.name
  BY DEF BusyJobs, Phases
<1>2. Resumed(job) = Resumed(ready)
  BY DEF Resumed, Size, BusyJobs
<1>3. PICK x : /\ jobs' = [jobs EXCEPT ![j] = x]
               /\ x = Resumed(job) \/ x = ready \/ x = [job EXCEPT !.phase = "fetching"]
  BY DEF EnsureAttachment
<1>4. \A g : job.name = g /\ job.kind \in {"preview", "upgrade"} => WillCopy(ready, g)
  BY <1>1 DEF WillCopy
<1>5. CASE x = Resumed(job)
  BY <1>1, <1>2, <1>3, <1>4, <1>5, ResumedIsShaped
<1>6. CASE x = ready
  BY <1>1, <1>3, <1>4, <1>6
<1>7. CASE x = [job EXCEPT !.phase = "fetching"]
  <2>1. /\ x.kind = job.kind /\ x.name = job.name /\ x.from = job.from /\ x.phase = "fetching"
        /\ ready.from = job.from
    BY <1>7 DEF BusyJobs
  <2>2. Shaped(x) /\ \A g : job.name = g /\ job.kind \in {"preview", "upgrade"} => WillCopy(x, g)
    <3> HIDE DEF ready
    <3> QED BY <1>1, <2>1 DEF Shaped, WillCopy
  <2> QED BY <1>3, <2>2
<1> QED BY <1>3, <1>5, <1>6, <1>7

(* A step of one job that leaves files and previews as they are. *)
LEMMA OneJobMoves ==
  ASSUME PreviewInvariant, NEW j \in Jobs, NEW x, jobs' = [jobs EXCEPT ![j] = x], Shaped(x),
         faults' = faults, drops' = drops, preview' = preview,
         \A g \in Guids : file'[<<g, "full">>] = file[<<g, "full">>],
         \A g \in Guids : WillCopy(jobs[j], g) => WillCopy(x, g)
  PROVE  Furthers
<1>1. jobs \in [Jobs -> {Idle} \cup BusyJobs]
  BY DEF PreviewInvariant, CacheInvariant, CacheTyped
<1>2. jobs'[j] = x /\ \A i \in Jobs \ {j} : jobs'[i] = jobs[i]
  BY <1>1
<1>3. \A i \in Jobs : Shaped(jobs'[i])
  BY <1>2 DEF PreviewInvariant
<1>4. \A g \in Guids : \A i \in Jobs : WillCopy(jobs[i], g) => WillCopy(jobs'[i], g)
  BY <1>2
<1> QED BY <1>3, <1>4 DEF Furthers, Unharmed

(* A fault or a drop: nothing is promised any more. *)
LEMMA HarmFurthers ==
  ASSUME PreviewInvariant, faults' = faults + 1 \/ drops' = drops + 1,
         \A i \in Jobs : Shaped(jobs'[i])
  PROVE  Furthers
<1>1. ~Unharmed'
  <2>1. faults \in Nat /\ drops \in Nat
    BY DEF PreviewInvariant
  <2>2. faults' # 0 \/ drops' # 0
    BY <2>1
  <2> QED BY <2>2 DEF Unharmed
<1> QED BY <1>1 DEF Furthers

LEMMA RequestsFurther ==
  ASSUME PreviewInvariant, NEW c \in Clients, NEW j \in Jobs,
         \/ \E n \in Names : RequestAttachment(c, n, j)
         \/ \E g \in Guids : RequestPreview(c, g, j)
  PROVE  Furthers
<1>1. /\ faults' = faults /\ drops' = drops /\ preview' = preview /\ file' = file /\ jobs[j] = Idle
  BY DEF RequestAttachment, RequestPreview, diskVars
<1>2. ASSUME NEW kind \in {"attachment", "preview"}, NEW n \in Names, EnsureAttachment(j, Job(kind, c, n))
      PROVE  Furthers
  <2> DEFINE job == Job(kind, c, n)
  <2>1. job \in BusyJobs /\ job.kind = kind
    BY JobIsBusyJob DEF Kinds, Job
  <2>2. Shaped([job EXCEPT !.phase = "waiting"]) /\ job.kind # "image"
    BY DEF Shaped, Job
  <2> HIDE DEF job
  <2>3. PICK x : jobs' = [jobs EXCEPT ![j] = x] /\ Shaped(x)
    BY <1>2, <2>1, <2>2, EnsureIsShaped DEF job
  <2> QED BY <1>1, <2>3, OneJobMoves, IdleIsShaped
<1>3. CASE \E n \in Names : RequestAttachment(c, n, j)
  BY <1>2, <1>3 DEF RequestAttachment
<1>4. ASSUME NEW g \in Guids, RequestPreview(c, g, j) PROVE Furthers
  <2> DEFINE copy == [Job("preview", c, g) EXCEPT !.phase = "copying", !.from = "full"]
  <2>1. g \in Names
    BY DEF Names
  <2>2. CASE EnsureAttachment(j, Job("preview", c, g))
    BY <1>2, <2>1, <2>2
  <2>3. CASE jobs' = [jobs EXCEPT ![j] = copy]
    <3>1. Shaped(copy)
      BY DEF Shaped, Job
    <3> HIDE DEF copy
    <3> QED BY <1>1, <2>3, <3>1, OneJobMoves, IdleIsShaped
  <2> QED BY <1>4, <2>2, <2>3 DEF RequestPreview
<1> QED BY <1>3, <1>4

(* The .part file is written: a phase moves on. *)
LEMMA PhasesFurther ==
  ASSUME PreviewInvariant, NEW j \in Jobs, Fetched(j) \/ Written(j)
  PROVE  Furthers
<1>1. PICK p \in {"writing", "written"} :
        /\ jobs' = [jobs EXCEPT ![j] = [jobs[j] EXCEPT !.phase = p]]
        /\ faults' = faults /\ drops' = drops /\ preview' = preview /\ file' = file
  BY DEF Fetched, Written
<1>2. jobs[j] \in BusyJobs /\ Owns(jobs[j]) /\ Shaped(jobs[j])
  BY OwnersAreBusy DEF PreviewInvariant, CacheInvariant, Fetched, Written, Owns
<1> DEFINE x == [jobs[j] EXCEPT !.phase = p]
<1>3. x.phase = p /\ x.kind = jobs[j].kind /\ x.from = jobs[j].from /\ x.name = jobs[j].name
  BY <1>2 DEF BusyJobs
<1>4. jobs' = [jobs EXCEPT ![j] = x]
  BY <1>1
<1> HIDE DEF x
<1>5. Shaped(x) /\ \A g : WillCopy(jobs[j], g) => WillCopy(x, g)
  BY <1>2, <1>3 DEF Shaped, WillCopy, Owns
<1> QED BY <1>1, <1>4, <1>5, OneJobMoves

LEMMA SharersAreShaped ==
  ASSUME PreviewInvariant, NEW j \in Jobs, Owns(jobs[j]), NEW i \in Sharing(j)
  PROVE  /\ i \in Jobs /\ jobs[i] \in BusyJobs /\ jobs[i].name = jobs[j].name
         /\ jobs[i].kind # "image" /\ jobs[i].phase # "copying" /\ Shaped(jobs[i])
<1>1. CacheTyped /\ jobs[j] \in BusyJobs /\ i \in Jobs /\ jobs[i].phase # "free" /\ Shaped(jobs[i])
  BY OwnersAreBusy DEF PreviewInvariant, CacheInvariant, Sharing, Busy
<1>2. jobs[i] \in BusyJobs
  BY <1>1, NotFreeIsBusy
<1>3. i = j \/ (jobs[i].phase = "waiting" /\ jobs[i].name = jobs[j].name)
  BY DEF Sharing, Key
<1> QED BY <1>1, <1>2, <1>3 DEF Owns, Shaped

LEMMA EndIsShaped ==
  ASSUME PreviewInvariant, NEW j \in Jobs, Owns(jobs[j]), NEW ok \in BOOLEAN, DownloadEnds(j, ok)
  PROVE  /\ \A i \in Jobs : Shaped(jobs'[i])
         /\ \A i \in Jobs : ok \/ i \notin Sharing(j)
              => \A g : WillCopy(jobs[i], g) => WillCopy(jobs'[i], g)
<1>1. \A i \in Sharing(j) : jobs[i] \in BusyJobs /\ jobs[i].kind # "image" /\ jobs[i].phase # "copying"
                            /\ Shaped(jobs[i])
  BY SharersAreShaped
<1>2. \A i \in Sharing(j) : Shaped(Resumed(jobs[i])) /\ \A g : WillCopy(jobs[i], g) => WillCopy(Resumed(jobs[i]), g)
  BY <1>1, ResumedIsShaped
<1>3. \A i \in Jobs : jobs'[i] = IF i \notin Sharing(j) THEN jobs[i]
                                 ELSE IF ok THEN Resumed(jobs[i]) ELSE Idle
  BY DEF DownloadEnds
<1>4. \A i \in Jobs : Shaped(jobs[i])
  BY DEF PreviewInvariant
<1> QED BY <1>2, <1>3, <1>4, IdleIsShaped

(* Only an upgrade downloads the full-size file, and it goes on to copy it. *)
LEMMA RenamedFurthers ==
  ASSUME PreviewInvariant, NEW j \in Jobs, Renamed(j)
  PROVE  Furthers
<1>1. /\ Owns(jobs[j]) /\ jobs[j] \in BusyJobs /\ Shaped(jobs[j]) /\ DownloadEnds(j, TRUE)
      /\ file' = [file EXCEPT ![Key(jobs[j])] = part[Key(jobs[j])]]
      /\ preview' = preview /\ faults' = faults /\ drops' = drops
      /\ file \in [Keys -> {"none", "torn", "whole"}]
  BY OwnersAreBusy DEF Renamed, Owns, PreviewInvariant, CacheInvariant, CacheTyped
<1>2. /\ \A i \in Jobs : Shaped(jobs'[i])
      /\ \A i \in Jobs : \A g : WillCopy(jobs[i], g) => WillCopy(jobs'[i], g)
  BY <1>1, EndIsShaped
<1>3. ASSUME NEW g \in Guids, Key(jobs[j]) = <<g, "full">> PROVE WillCopy(jobs'[j], g)
  <2>1. Size(jobs[j]) = "full" /\ jobs[j].name = g
    BY <1>3 DEF Key
  <2>2. jobs[j].kind = "upgrade"
    BY <1>1, <2>1 DEF Size, Shaped, Owns, BusyJobs, Kinds
  <2> QED BY <1>1, <1>2, <2>1, <2>2 DEF WillCopy, Owns
<1>4. ASSUME NEW g \in Guids, Key(jobs[j]) # <<g, "full">>
      PROVE  file'[<<g, "full">>] = file[<<g, "full">>]
  <2>1. <<g, "full">> \in Keys
    BY DEF Keys, Names, Sizes
  <2> QED BY <1>1, <1>4, <2>1
<1> QED BY <1>1, <1>2, <1>3, <1>4 DEF Furthers, Unharmed

(* What a tempId's download fails for is no attachment's preview. *)
LEMMA DownloadFailsFurthers ==
  ASSUME PreviewInvariant, NEW j \in Jobs, DownloadFails(j)
  PROVE  Furthers
<1>1. /\ Owns(jobs[j]) /\ DownloadEnds(j, FALSE) /\ drops' = drops
      /\ file' = file /\ preview' = preview
  BY DEF DownloadFails, diskVars
<1>2. /\ \A i \in Jobs : Shaped(jobs'[i])
      /\ \A i \in Jobs : i \notin Sharing(j)
           => \A g : WillCopy(jobs[i], g) => WillCopy(jobs'[i], g)
  BY <1>1, EndIsShaped
<1>3. CASE jobs[j].name \in Temps
  <2>1. faults' = faults
    BY <1>3 DEF DownloadFails
  <2>2. ASSUME NEW g \in Guids, NEW i \in Jobs, WillCopy(jobs[i], g) PROVE i \notin Sharing(j)
    <3>1. jobs[i].name \notin Temps
      BY <2>2, AttachmentsAssumptions DEF WillCopy
    <3> QED BY <1>1, <1>3, <3>1, SharersAreShaped
  <2> QED BY <1>1, <1>2, <2>1, <2>2 DEF Furthers, Unharmed
<1>4. CASE jobs[j].name \notin Temps
  <2>1. faults' = faults + 1
    BY <1>4 DEF DownloadFails, Fault
  <2> QED BY <1>2, <2>1, HarmFurthers
<1> QED BY <1>3, <1>4

(* The thumbnail is copied by a `preview` alone, which becomes an upgrade. *)
LEMMA CopiedFurthers ==
  ASSUME PreviewInvariant, NEW j \in Jobs, Copied(j)
  PROVE  Furthers
<1> DEFINE job == jobs[j]
           next == [job EXCEPT !.kind = "upgrade", !.live = FALSE]
<1>1. /\ job \in BusyJobs /\ Shaped(job) /\ job.phase = "copying"
      /\ preview' = [preview EXCEPT ![job.name] = job.from]
      /\ file' = file /\ faults' = faults /\ drops' = drops
      /\ preview \in [Guids -> {"none"} \cup Sizes]
  BY NotFreeIsBusy DEF Copied, PreviewInvariant, CacheInvariant
<1>2. job.kind \in {"preview", "upgrade"} /\ job.from \in Sizes
  BY <1>1 DEF Shaped, BusyJobs, Kinds
<1>j. jobs \in [Jobs -> {Idle} \cup BusyJobs] /\ \A i \in Jobs : Shaped(jobs[i])
  BY DEF PreviewInvariant, CacheInvariant, CacheTyped
<1>3. CASE job.kind = "preview" /\ job.from = "thumbnail"
  <2>1. EnsureAttachment(j, next)
    BY <1>3 DEF Copied
  <2>2. /\ next \in BusyJobs /\ next.kind = "upgrade" /\ next.name = job.name
        /\ Shaped([next EXCEPT !.phase = "waiting"])
    BY <1>1 DEF BusyJobs, Kinds, Shaped
  <2> HIDE DEF next
  <2>3. PICK x : /\ jobs' = [jobs EXCEPT ![j] = x] /\ Shaped(x) /\ WillCopy(x, job.name)
    BY <2>1, <2>2, EnsureIsShaped
  <2>4. jobs'[j] = x /\ \A i \in Jobs \ {j} : jobs'[i] = jobs[i]
    BY <1>j, <2>3
  <2>5. \A i \in Jobs : Shaped(jobs'[i])
    BY <1>j, <2>3, <2>4
  <2>6. \A g \in Guids : \A i \in Jobs : WillCopy(jobs[i], g) => WillCopy(jobs'[i], g)
    BY <2>3, <2>4 DEF WillCopy
  <2>7. \A g \in Guids : preview'[g] = preview[g] \/ WillCopy(jobs'[j], g)
    BY <1>1, <2>3, <2>4
  <2> QED BY <1>1, <2>5, <2>6, <2>7 DEF Furthers, Unharmed
<1>4. CASE ~(job.kind = "preview" /\ job.from = "thumbnail")
  <2>1. jobs' = [jobs EXCEPT ![j] = Idle]
    BY <1>4 DEF Copied
  <2>2. job.from = "full"
    BY <1>1, <1>2, <1>4 DEF Shaped, Sizes
  <2>3. jobs'[j] = Idle /\ \A i \in Jobs \ {j} : jobs'[i] = jobs[i]
    BY <1>j, <2>1
  <2>4. \A g \in Guids : preview'[g] = preview[g] \/ preview'[g] = "full"
    BY <1>1, <2>2
  <2>5. \A g \in Guids : job.name = g => preview'[g] = "full"
    BY <1>1, <2>2
  <2>6. \A i \in Jobs : Shaped(jobs'[i])
    BY <1>j, <2>3, IdleIsShaped
  <2>7. \A g \in Guids : \A i \in Jobs :
          WillCopy(jobs[i], g) => WillCopy(jobs'[i], g) \/ preview'[g] = "full"
    BY <2>3, <2>5 DEF WillCopy
  <2> QED BY <1>1, <2>4, <2>6, <2>7 DEF Furthers, Unharmed
<1> QED BY <1>3, <1>4

(* sendImage's commands have no preview, and write under their tempIds. *)
LEMMA SendsFurther ==
  ASSUME PreviewInvariant, NEW j \in Jobs,
         \/ \E c \in Clients, t \in Temps : SendImage(c, t, j)
         \/ Saved(j) \/ Sent(j) \/ CommandFails(j)
  PROVE  Furthers
<1>j. jobs \in [Jobs -> {Idle} \cup BusyJobs] /\ \A i \in Jobs : Shaped(jobs[i])
  BY DEF PreviewInvariant, CacheInvariant, CacheTyped
<1>f. ASSUME NEW b, NEW n, file' = [file EXCEPT ![<<n, "thumbnail">>] = b]
      PROVE  \A g \in Guids : file'[<<g, "full">>] = file[<<g, "full">>]
  <2>1. file \in [Keys -> {"none", "torn", "whole"}]
    BY DEF PreviewInvariant, CacheInvariant, CacheTyped
  <2>2. \A g \in Guids : <<g, "full">> \in Keys /\ <<g, "full">> # <<n, "thumbnail">>
    BY DEF Keys, Names, Sizes
  <2> QED BY <1>f, <2>1, <2>2
<1>1. ASSUME NEW c \in Clients, NEW t \in Temps, SendImage(c, t, j) PROVE Furthers
  <2> DEFINE x == [Job("image", c, t) EXCEPT !.phase = "saving"]
  <2>1. /\ jobs[j] = Idle /\ jobs' = [jobs EXCEPT ![j] = x] /\ faults' = faults /\ drops' = drops
        /\ preview' = preview /\ file' = [file EXCEPT ![<<t, "thumbnail">>] = "torn"]
    BY <1>1 DEF SendImage
  <2>2. Shaped(x)
    BY DEF Shaped, Job
  <2> HIDE DEF x
  <2> QED BY <1>f, <2>1, <2>2, OneJobMoves, IdleIsShaped
<1>2. CASE Saved(j)
  <2> DEFINE x == [jobs[j] EXCEPT !.phase = "sending"]
  <2>1. /\ jobs[j].phase = "saving" /\ jobs[j] \in BusyJobs /\ Shaped(jobs[j])
        /\ jobs' = [jobs EXCEPT ![j] = x] /\ faults' = faults /\ drops' = drops
        /\ preview' = preview /\ file' = [file EXCEPT ![<<jobs[j].name, "thumbnail">>] = "whole"]
    BY <1>2, <1>j, NotFreeIsBusy DEF Saved, PreviewInvariant, CacheInvariant
  <2>2. x.phase = "sending" /\ x.kind = jobs[j].kind /\ x.from = jobs[j].from
    BY <2>1 DEF BusyJobs
  <2> HIDE DEF x
  <2>3. Shaped(x) /\ \A g : ~WillCopy(jobs[j], g)
    BY <2>1, <2>2 DEF Shaped, WillCopy
  <2> QED BY <1>f, <2>1, <2>3, OneJobMoves
<1>3. CASE Sent(j)
  <2>1. /\ jobs[j].phase = "sending" /\ Shaped(jobs[j])
        /\ jobs' = [jobs EXCEPT ![j] = Idle] /\ faults' = faults /\ drops' = drops
        /\ preview' = preview /\ file' = file
    BY <1>3, <1>j DEF Sent, diskVars
  <2>2. \A g : ~WillCopy(jobs[j], g)
    BY <2>1 DEF Shaped, WillCopy
  <2> QED BY <2>1, <2>2, OneJobMoves, IdleIsShaped
<1>4. CASE CommandFails(j)
  <2>1. faults' = faults + 1 /\ jobs' = [jobs EXCEPT ![j] = Idle]
    BY <1>4 DEF CommandFails, Fault
  <2>2. \A i \in Jobs : Shaped(jobs'[i])
    BY <1>j, <2>1, IdleIsShaped
  <2> QED BY <2>1, <2>2, HarmFurthers
<1> QED BY <1>1, <1>2, <1>3, <1>4

LEMMA OthersFurther ==
  ASSUME PreviewInvariant,
         \/ \E t \in Temps : HandleEcho(t)
         \/ \E f \in frames : OnAttachment(f)
         \/ \E c \in Clients : DropLink(c) \/ Reconnect(c)
         \/ Crash
         \/ UNCHANGED vars
  PROVE  Furthers
<1>j. jobs \in [Jobs -> {Idle} \cup BusyJobs] /\ \A i \in Jobs : Shaped(jobs[i])
  BY DEF PreviewInvariant, CacheInvariant, CacheTyped
<1>1. ASSUME NEW c \in Clients, DropLink(c) PROVE Furthers
  <2>1. drops' = drops + 1
    BY <1>1 DEF DropLink, Drop
  <2>2. \A i \in Jobs : jobs'[i] = jobs[i] \/ (jobs[i] \in BusyJobs /\ jobs'[i] = [jobs[i] EXCEPT !.live = FALSE])
    BY <1>1, NotFreeIsBusy DEF DropLink, Busy, PreviewInvariant, CacheInvariant
  <2>3. ASSUME NEW job \in BusyJobs, Shaped(job) PROVE Shaped([job EXCEPT !.live = FALSE])
    BY <2>3 DEF Shaped, BusyJobs
  <2>4. \A i \in Jobs : Shaped(jobs'[i])
    BY <1>j, <2>2, <2>3
  <2> QED BY <2>1, <2>4, HarmFurthers
<1>2. CASE Crash
  <2>1. drops' = drops + 1 /\ \A i \in Jobs : jobs'[i] = Idle
    BY <1>2 DEF Crash, Drop
  <2> QED BY <2>1, HarmFurthers, IdleIsShaped
<1>3. ASSUME jobs' = jobs, preview' = preview, faults' = faults, drops' = drops,
             \A g \in Guids : file'[<<g, "full">>] = file[<<g, "full">>]
      PROVE  Furthers
  BY <1>j, <1>3 DEF Furthers, Unharmed
<1>4. ASSUME NEW t \in Temps, HandleEcho(t) PROVE Furthers
  <2>1. /\ jobs' = jobs /\ preview' = preview /\ faults' = faults /\ drops' = drops
        /\ file' = [file EXCEPT ![<<t, "thumbnail">>] = "none"]
        /\ file \in [Keys -> {"none", "torn", "whole"}]
    BY <1>4 DEF HandleEcho, PreviewInvariant, CacheInvariant, CacheTyped
  <2>2. \A g \in Guids : <<g, "full">> \in Keys /\ <<g, "full">> # <<t, "thumbnail">>
    BY DEF Keys, Names, Sizes
  <2> QED BY <1>3, <2>1, <2>2
<1>5. CASE (\E f \in frames : OnAttachment(f)) \/ (\E c \in Clients : Reconnect(c)) \/ UNCHANGED vars
  <2>1. jobs' = jobs /\ preview' = preview /\ faults' = faults /\ drops' = drops /\ file' = file
    BY <1>5 DEF OnAttachment, Reconnect, vars, diskVars
  <2> QED BY <1>3, <2>1
<1> QED BY <1>1, <1>2, <1>4, <1>5

LEMMA StepFurthers ==
  ASSUME PreviewInvariant, [Next]_vars
  PROVE  Furthers
<1>1. CASE \E c \in Clients, j \in Jobs : \/ \E n \in Names : RequestAttachment(c, n, j)
                                          \/ \E g \in Guids : RequestPreview(c, g, j)
  BY <1>1, RequestsFurther
<1>2. CASE \E j \in Jobs : Fetched(j) \/ Written(j) \/ Renamed(j) \/ DownloadFails(j) \/ Copied(j)
  BY <1>2, PhasesFurther, RenamedFurthers, DownloadFailsFurthers, CopiedFurthers
<1>3. CASE \E j \in Jobs : \/ \E c \in Clients, t \in Temps : SendImage(c, t, j)
                           \/ Saved(j) \/ Sent(j) \/ CommandFails(j)
  BY <1>3, SendsFurther
<1>4. CASE \/ \E t \in Temps : HandleEcho(t)
           \/ \E f \in frames : OnAttachment(f)
           \/ \E c \in Clients : DropLink(c) \/ Reconnect(c)
           \/ Crash \/ UNCHANGED vars
  BY <1>4, OthersFurther
<1> QED BY <1>1, <1>2, <1>3, <1>4 DEF Next

LEMMA CountsStayNatural ==
  ASSUME PreviewInvariant, [Next]_vars
  PROVE  {faults, drops}' \subseteq Nat
<1>1. faults \in Nat /\ drops \in Nat
  BY DEF PreviewInvariant
<1>2. (faults' = faults \/ faults' = faults + 1) /\ (drops' = drops \/ drops' = drops + 1)
  BY DEF Next, vars, Fault, Drop, RequestAttachment, RequestPreview, SendImage, Fetched, Written,
         Renamed, DownloadFails, Copied, Saved, Sent, CommandFails, HandleEcho, OnAttachment,
         DropLink, Reconnect, Crash
<1> QED BY <1>1, <1>2

(* A viewer is left with the full-size image if the cache has it, whatever *)
(* commands, downloads and copies raced, as long as nothing failed: each   *)
(* thumbnail copied over it belongs to a `preview` that goes on to copy    *)
(* the full-size image again (index.js:58-67).                             *)
THEOREM PreviewsSettle == Spec => []PreviewSettles
<1>1. Init => PreviewInvariant
  <2> SUFFICES ASSUME Init PROVE PreviewInvariant
    OBVIOUS
  <2>1. \A g \in Guids : <<g, "full">> \in Keys
    BY DEF Keys, Names, Sizes
  <2>2. FullIsShown
    BY <2>1 DEF Init, FullIsShown
  <2>3. \A j \in Jobs : Shaped(jobs[j])
    BY IdleIsShaped DEF Init
  <2> QED BY <2>2, <2>3, InitCacheInvariant DEF Init, PreviewInvariant
<1>2. PreviewInvariant /\ [Next]_vars => PreviewInvariant'
  <2> SUFFICES ASSUME PreviewInvariant, [Next]_vars PROVE PreviewInvariant'
    OBVIOUS
  <2>1. CacheInvariant'
    BY NextKeeps DEF PreviewInvariant
  <2>2. Furthers
    BY StepFurthers
  <2>3. Unharmed' => FullIsShown'
    BY <2>2, FurtheredIsShown
  <2>4. {faults, drops}' \subseteq Nat
    BY CountsStayNatural
  <2>5. (preview \in [Guids -> {"none"} \cup Sizes])'
    <3>1. ASSUME NEW j \in Jobs, Copied(j) PROVE preview' \in [Guids -> {"none"} \cup Sizes]
      <4>1. jobs[j] \in BusyJobs /\ preview' = [preview EXCEPT ![jobs[j].name] = jobs[j].from]
        BY <3>1, NotFreeIsBusy DEF Copied, PreviewInvariant, CacheInvariant
      <4> QED BY <4>1 DEF PreviewInvariant, BusyJobs
    <3>2. (\E j \in Jobs : Copied(j)) \/ preview' = preview
      BY DEF Next, vars, diskVars, RequestAttachment, RequestPreview, SendImage, Fetched, Written,
             Renamed, DownloadFails, Saved, Sent, CommandFails, HandleEcho, OnAttachment,
             DropLink, Reconnect, Crash
    <3> QED BY <3>1, <3>2 DEF PreviewInvariant
  <2> QED BY <2>1, <2>2, <2>3, <2>4, <2>5 DEF PreviewInvariant, Furthers
<1>3. PreviewInvariant => PreviewSettles
  <2> SUFFICES ASSUME PreviewInvariant, Busy = {}, drops = 0, faults = 0,
                      NEW g \in Guids, file[<<g, "full">>] = "whole"
               PROVE  preview[g] = "full"
    BY DEF PreviewSettles
  <2>1. preview[g] = "full" \/ \E j \in Jobs : WillCopy(jobs[j], g)
    BY DEF PreviewInvariant, Unharmed, FullIsShown
  <2> QED BY <2>1 DEF WillCopy, Busy
<1> QED BY <1>1, <1>2, <1>3, PTL DEF Spec
=============================================================================
