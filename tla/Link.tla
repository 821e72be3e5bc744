-------------------------------- MODULE Link --------------------------------
(***************************************************************************)
(* How panels find a daemon: the unix socket of daemon/lib/bus.js and      *)
(* main() of daemon/index.js, the retry loop and the autostart of          *)
(* Client.qml, and the systemd unit.  There is one client per monitor, all *)
(* on one socket path, and nothing but that path to tell daemons apart.    *)
(*                                                                         *)
(* A starting daemon probes the path, removes the file there if the probe  *)
(* was refused, and binds: three steps other processes come between.       *)
(* A client's timers, its socket's outcome and the daemons' steps          *)
(* interleave freely.  What is said over the link is module Thread's.      *)
(***************************************************************************)
EXTENDS Integers

CONSTANTS
  Clients,       \* one per monitor; also names the daemon it falls back to
  Unit,          \* the daemon systemd runs
  None,          \* no daemon, no socket file
  Stale,         \* a socket file whose daemon is dead
  MaxCrashes,    \* bound: daemons that die
  MaxStops,      \* bound: daemons told to stop
  MaxSilences,   \* bound: links given up by the liveness timer
  MaxRetries     \* bound: where retryCount stops counting

ASSUME LinkAssumptions ==
  /\ Unit \notin Clients /\ None \notin Clients /\ Stale \notin Clients
  /\ Unit # None /\ Unit # Stale /\ None # Stale
  /\ {MaxCrashes, MaxStops, MaxSilences} \subseteq Nat
  /\ MaxRetries \in Nat /\ MaxRetries > 4

Daemons == Clients \cup {Unit}

VARIABLES
  hasUnit,    \* `systemctl start` finds a unit; fixed at the start
  hasPlugin,  \* Client.pluginDir is set; fixed at the start
  phase,      \* how far each daemon has come
  file,       \* what the socket path names: a daemon's socket, Stale or None
  restart,    \* systemd is about to start the unit again
  link,       \* the daemon each client is connected to
  attempt,    \* its socket is connecting
  timer,      \* retryTimer.running
  retryCount, \* retryCount
  startRetry, \* daemonStartRetry
  crashes, stops, silences

setupVars  == <<hasUnit, hasPlugin>>
daemonVars == <<phase, file, restart>>
clientVars == <<link, attempt, timer, retryCount, startRetry>>
vars == <<setupVars, daemonVars, clientVars, crashes, stops, silences>>

Phases == {"off", "probing", "unlinking", "binding", "listening"}

TypeOK ==
  /\ {hasUnit, hasPlugin} \subseteq BOOLEAN
  /\ phase \in [Daemons -> Phases]
  /\ file \in Daemons \cup {Stale, None}
  /\ file \in Daemons => phase[file] = "listening"
  /\ restart \in BOOLEAN
  /\ link \in [Clients -> Daemons \cup {None}]
  /\ \A c \in Clients : link[c] # None => phase[link[c]] = "listening"
  /\ attempt \in [Clients -> BOOLEAN]
  /\ timer \in [Clients -> BOOLEAN]
  /\ retryCount \in [Clients -> 0..MaxRetries]
  /\ startRetry \in [Clients -> {-1, 1}]

Init ==
  /\ hasUnit \in BOOLEAN /\ hasPlugin \in BOOLEAN
  /\ phase = [d \in Daemons |-> "off"]
  /\ file \in {None, Stale}
  /\ restart = FALSE
  /\ link = [c \in Clients |-> None]
  /\ attempt = [c \in Clients |-> TRUE]
  /\ timer = [c \in Clients |-> TRUE]
  /\ retryCount = [c \in Clients |-> 0]
  /\ startRetry = [c \in Clients |-> -1]
  /\ crashes = 0 /\ stops = 0 /\ silences = 0

-----------------------------------------------------------------------------
(* The daemon *)

(* A connect to the path reaches a daemon: bound, and its file still there. *)
Reachable == file \in Daemons

(* Exit 3 is the one failure systemd does not answer with a restart. *)
Exits(d) == phase' = [phase EXCEPT ![d] = "off"]

Probe_ByName(d) ==   \* mutant: the file alone is taken for a live daemon
  /\ phase[d] = "probing"
  /\ IF file # None THEN Exits(d) ELSE phase' = [phase EXCEPT ![d] = "unlinking"]
  /\ UNCHANGED <<setupVars, file, restart, clientVars, crashes, stops, silences>>

(* The first half of _clearStaleSocket: somebody answers, or nobody does. *)
Probe(d) ==
  /\ phase[d] = "probing"
  /\ IF Reachable THEN Exits(d) ELSE phase' = [phase EXCEPT ![d] = "unlinking"]
  /\ UNCHANGED <<setupVars, file, restart, clientVars, crashes, stops, silences>>

(* The second half: what the path names now goes, whoever bound it. *)
Unlink(d) ==
  /\ phase[d] = "unlinking"
  /\ phase' = [phase EXCEPT ![d] = "binding"]
  /\ file' = None
  /\ UNCHANGED <<setupVars, restart, clientVars, crashes, stops, silences>>

(* server.listen; a path taken meanwhile is EADDRINUSE, and exit 1. *)
Bind(d) ==
  /\ phase[d] = "binding"
  /\ IF file = None
       THEN /\ phase' = [phase EXCEPT ![d] = "listening"]
            /\ file' = d
            /\ UNCHANGED restart
       ELSE /\ Exits(d)
            /\ restart' = (restart \/ d = Unit)
            /\ UNCHANGED file
  /\ UNCHANGED <<setupVars, clientVars, crashes, stops, silences>>

(* The clients of a daemon that is gone: handleConnectionState(false). *)
LosesClients_Unnoticed(d) ==   \* mutant: the sockets are thought to be up
  UNCHANGED <<link, timer>>

LosesClients_Unarmed(d) ==   \* mutant: retryTimer is not started
  link' = [c \in Clients |-> IF link[c] = d THEN None ELSE link[c]] /\ UNCHANGED timer

LosesClients(d) ==
  /\ link' = [c \in Clients |-> IF link[c] = d THEN None ELSE link[c]]
  /\ timer' = [c \in Clients |-> timer[c] \/ link[c] = d]

(* Killed or failed at any point: the file stays behind. *)
Crash(d) ==
  /\ phase[d] # "off"
  /\ crashes < MaxCrashes /\ crashes' = crashes + 1
  /\ Exits(d)
  /\ file' = IF file = d THEN Stale ELSE file
  /\ restart' = (restart \/ d = Unit)
  /\ LosesClients(d)
  /\ UNCHANGED <<setupVars, attempt, retryCount, startRetry, stops, silences>>

(* shutdown: Bus.close removes the path, and the exit code is 0. *)
Stop(d) ==
  /\ phase[d] = "listening"
  /\ stops < MaxStops /\ stops' = stops + 1
  /\ Exits(d)
  /\ file' = None
  /\ LosesClients(d)
  /\ UNCHANGED <<setupVars, restart, attempt, retryCount, startRetry, crashes, silences>>

(* Restart=on-failure *)
SystemdRestart ==
  /\ restart
  /\ restart' = FALSE
  /\ phase' = [phase EXCEPT ![Unit] = IF @ = "off" THEN "probing" ELSE @]
  /\ UNCHANGED <<setupVars, file, clientVars, crashes, stops, silences>>

-----------------------------------------------------------------------------
(* The client *)

(* handleConnectionState(true) *)
Connected(c) ==
  /\ attempt[c] /\ Reachable
  /\ link' = [link EXCEPT ![c] = file]
  /\ attempt' = [attempt EXCEPT ![c] = FALSE]
  /\ timer' = [timer EXCEPT ![c] = FALSE]
  /\ retryCount' = [retryCount EXCEPT ![c] = 0]
  /\ startRetry' = [startRetry EXCEPT ![c] = -1]
  /\ UNCHANGED <<setupVars, daemonVars, crashes, stops, silences>>

(* handleSocketError *)
Refused(c) ==
  /\ attempt[c] /\ ~Reachable
  /\ attempt' = [attempt EXCEPT ![c] = FALSE]
  /\ timer' = [timer EXCEPT ![c] = TRUE]
  /\ UNCHANGED <<setupVars, daemonVars, link, retryCount, startRetry, crashes, stops, silences>>

(* The unit if there is one, else the daemon shipped with the plugin; a    *)
(* process already running is not started again.                           *)
Launched(c) ==
  LET d == IF hasUnit THEN Unit ELSE c
  IN [phase EXCEPT ![d] = IF @ = "off" THEN "probing" ELSE @]

(* The attempt is recorded before the bail-out. *)
StartDaemon_Late(c) ==   \* mutant: after it
  IF hasPlugin
    THEN phase' = Launched(c) /\ startRetry' = [startRetry EXCEPT ![c] = 1]
    ELSE UNCHANGED <<phase, startRetry>>

StartDaemon(c) ==
  /\ startRetry' = [startRetry EXCEPT ![c] = 1]
  /\ phase' = IF hasPlugin THEN Launched(c) ELSE phase

(* retryTimer: one launch, on the first retry, and a fresh socket. *)
RetryTimer(c) ==
  /\ timer[c]
  /\ IF link[c] # None
       THEN /\ timer' = [timer EXCEPT ![c] = FALSE]
            /\ UNCHANGED <<phase, attempt, retryCount, startRetry>>
       ELSE /\ retryCount' = [retryCount EXCEPT ![c] = IF @ < MaxRetries THEN @ + 1 ELSE @]
            /\ attempt' = [attempt EXCEPT ![c] = TRUE]
            /\ IF retryCount[c] = 0 THEN StartDaemon(c) ELSE UNCHANGED <<phase, startRetry>>
            /\ UNCHANGED timer
  /\ UNCHANGED <<setupVars, file, restart, link, crashes, stops, silences>>

(* livenessTimer: nothing was heard for 65 seconds. *)
Reset(c) ==
  /\ link[c] # None
  /\ silences < MaxSilences /\ silences' = silences + 1
  /\ link' = [link EXCEPT ![c] = None]
  /\ attempt' = [attempt EXCEPT ![c] = TRUE]
  /\ timer' = [timer EXCEPT ![c] = TRUE]
  /\ UNCHANGED <<setupVars, daemonVars, retryCount, startRetry, crashes, stops>>

-----------------------------------------------------------------------------
Next ==
  \/ \E d \in Daemons : Probe(d) \/ Unlink(d) \/ Bind(d) \/ Crash(d) \/ Stop(d)
  \/ SystemdRestart
  \/ \E c \in Clients : Connected(c) \/ Refused(c) \/ RetryTimer(c) \/ Reset(c)

Spec == Init /\ [][Next]_vars

(* A process runs, systemd restarts what failed, a connect is answered one *)
(* way or the other, and a running timer fires.                            *)
Fairness ==
  /\ \A d \in Daemons : WF_vars(Probe(d) \/ Unlink(d) \/ Bind(d))
  /\ WF_vars(SystemdRestart)
  /\ \A c \in Clients : WF_vars(Connected(c) \/ Refused(c)) /\ WF_vars(RetryTimer(c))

FairSpec == Spec /\ Fairness

-----------------------------------------------------------------------------
(* Properties *)

(* Client.daemonStarting, with autostartDaemon set. *)
DaemonStarting(c) == startRetry[c] < 0 \/ retryCount[c] <= startRetry[c] + 3

(* Without a link a client is trying: its retry timer runs, through every  *)
(* order of errors, lost links and rebuilt sockets (Client.qml:687-688).   *)
KeepsTrying == \A c \in Clients : link[c] = None => timer[c]

(* With a unit that nobody stops, every client is linked for good once     *)
(* daemons no longer die, whatever file was left at the path               *)
(* (bus.js:39-41) and wherever in its start a daemon died.                 *)
EveryPanelLinks ==
  hasUnit /\ hasPlugin /\ [](stops = 0) => \A c \in Clients : <>[](link[c] # None)

(* "a daemon that is never going to start stops claiming it is on its way" *)
(* (Client.qml:93-95): the strip's promise ends, in a link or without.     *)
PromiseEnds == \A c \in Clients : link[c] = None /\ DaemonStarting(c) ~>
                                    link[c] # None \/ ~DaemonStarting(c)
=============================================================================
