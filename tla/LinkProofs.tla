----------------------------- MODULE LinkProofs -----------------------------
(***************************************************************************)
(* Proofs about Link, for any number of clients and any bounds.            *)
(*                                                                         *)
(* TypeOK is inductive and says more than types: a path names only a       *)
(* daemon that listens, and a client is linked only to one.  KeepsTrying   *)
(* is inductive next to it: every action that takes a link away arms the   *)
(* timer of the client it takes it from, and the only ones that stop a     *)
(* timer leave a link.                                                     *)
(***************************************************************************)
EXTENDS Link, TLAPS

LEMMA InitTypeOK == Init => TypeOK
<1> SUFFICES ASSUME Init PROVE TypeOK
  OBVIOUS
<1>1. {hasUnit, hasPlugin} \subseteq BOOLEAN /\ restart \in BOOLEAN
  BY DEF Init
<1>2. phase \in [Daemons -> Phases]
  BY DEF Init, Phases
<1>3. file \in {Stale, None} /\ file \notin Daemons
  BY LinkAssumptions DEF Init, Daemons
<1>4. /\ link \in [Clients -> Daemons \cup {None}]
      /\ \A c \in Clients : link[c] = None
      /\ attempt \in [Clients -> BOOLEAN] /\ timer \in [Clients -> BOOLEAN]
  BY DEF Init
<1>5. retryCount \in [Clients -> 0..MaxRetries] /\ startRetry \in [Clients -> {-1, 1}]
  BY LinkAssumptions DEF Init
<1> QED BY <1>1, <1>2, <1>3, <1>4, <1>5 DEF TypeOK

(* The daemon's own steps touch phase, file and restart only. *)
LEMMA DaemonStepsTypeOK ==
  ASSUME TypeOK, NEW d \in Daemons, Probe(d) \/ Unlink(d) \/ Bind(d)
  PROVE  TypeOK'
<1> USE LinkAssumptions
<1>1. CASE Probe(d)
  <2>1. phase[d] = "probing" /\ phase' \in [Daemons -> Phases]
    BY <1>1 DEF Probe, Exits, TypeOK, Phases
  <2>2. \A e \in Daemons : phase[e] = "listening" => phase'[e] = "listening"
    BY <1>1 DEF Probe, Exits, TypeOK
  <2> QED BY <1>1, <2>1, <2>2 DEF Probe, TypeOK, setupVars, clientVars
<1>2. CASE Unlink(d)
  <2>1. phase' \in [Daemons -> Phases]
    BY <1>2 DEF Unlink, TypeOK, Phases
  <2>2. \A e \in Daemons : phase[e] = "listening" => phase'[e] = "listening"
    BY <1>2 DEF Unlink, TypeOK
  <2>3. None \notin Daemons
    BY DEF Daemons
  <2> QED BY <1>2, <2>1, <2>2, <2>3 DEF Unlink, TypeOK, setupVars, clientVars
<1>3. CASE Bind(d)
  <2>1. phase' \in [Daemons -> Phases]
    BY <1>3 DEF Bind, Exits, TypeOK, Phases
  <2>2. \A e \in Daemons : phase[e] = "listening" => phase'[e] = "listening"
    BY <1>3 DEF Bind, Exits, TypeOK
  <2>3. file' \in Daemons \cup {Stale, None} /\ (file' \in Daemons => phase'[file'] = "listening")
    BY <1>3, <2>2 DEF Bind, Exits, TypeOK
  <2>4. restart' \in BOOLEAN
    BY <1>3 DEF Bind, TypeOK
  <2> QED BY <1>3, <2>1, <2>2, <2>3, <2>4 DEF Bind, TypeOK, setupVars, clientVars
<1> QED BY <1>1, <1>2, <1>3

(* A daemon that is gone: no client keeps a link to it, no path names it. *)
LEMMA DaemonEndsTypeOK ==
  ASSUME TypeOK, NEW d \in Daemons, Crash(d) \/ Stop(d)
  PROVE  TypeOK'
<1> USE LinkAssumptions
<1>1. phase' = [phase EXCEPT ![d] = "off"] /\ LosesClients(d)
  BY DEF Crash, Stop, Exits
<1>2. phase' \in [Daemons -> Phases]
  BY <1>1 DEF TypeOK, Phases
<1>3. \A e \in Daemons : e # d /\ phase[e] = "listening" => phase'[e] = "listening"
  BY <1>1 DEF TypeOK
<1>4. None \notin Daemons /\ Stale \notin Daemons
  BY DEF Daemons
<1>5. /\ link' \in [Clients -> Daemons \cup {None}]
      /\ \A c \in Clients : link'[c] # None => link'[c] # d /\ link'[c] = link[c]
      /\ timer' \in [Clients -> BOOLEAN]
  BY <1>1, <1>4 DEF LosesClients, TypeOK
<1>6. \A c \in Clients : link'[c] # None => phase'[link'[c]] = "listening"
  BY <1>3, <1>5 DEF TypeOK
<1>7. /\ file' \in Daemons \cup {Stale, None}
      /\ file' \in Daemons => file' = file /\ file' # d
  BY <1>4 DEF Crash, Stop, TypeOK
<1>8. file' \in Daemons => phase'[file'] = "listening"
  BY <1>3, <1>7 DEF TypeOK
<1>9. /\ {hasUnit', hasPlugin'} \subseteq BOOLEAN
      /\ restart' \in BOOLEAN
      /\ attempt' \in [Clients -> BOOLEAN]
      /\ retryCount' \in [Clients -> 0..MaxRetries]
      /\ startRetry' \in [Clients -> {-1, 1}]
  BY DEF Crash, Stop, TypeOK, setupVars
<1> QED BY <1>2, <1>5, <1>6, <1>7, <1>8, <1>9 DEF TypeOK

(* A start, by systemd or a client, moves a daemon that was off. *)
LEMMA StartTypeOK ==
  ASSUME TypeOK, NEW d \in Daemons,
         phase' = [phase EXCEPT ![d] = IF @ = "off" THEN "probing" ELSE @],
         UNCHANGED <<file, link>>
  PROVE  /\ phase' \in [Daemons -> Phases]
         /\ file' \in Daemons => phase'[file'] = "listening"
         /\ \A c \in Clients : link'[c] # None => phase'[link'[c]] = "listening"
<1>1. phase' \in [Daemons -> Phases]
  BY DEF TypeOK, Phases
<1>2. \A e \in Daemons : phase[e] = "listening" => phase'[e] = "listening"
  BY DEF TypeOK
<1> QED BY <1>1, <1>2 DEF TypeOK

LEMMA SystemdTypeOK ==
  ASSUME TypeOK, SystemdRestart
  PROVE  TypeOK'
<1>1. Unit \in Daemons
  BY DEF Daemons
<1>2. /\ phase' \in [Daemons -> Phases]
      /\ file' \in Daemons => phase'[file'] = "listening"
      /\ \A c \in Clients : link'[c] # None => phase'[link'[c]] = "listening"
  BY <1>1, StartTypeOK DEF SystemdRestart, clientVars
<1> QED BY <1>2 DEF SystemdRestart, TypeOK, setupVars, clientVars

LEMMA RetryTimerTypeOK ==
  ASSUME TypeOK, NEW c \in Clients, RetryTimer(c)
  PROVE  TypeOK'
<1> USE LinkAssumptions
<1>1. /\ UNCHANGED <<hasUnit, hasPlugin, file, restart, link>>
      /\ timer' \in [Clients -> BOOLEAN]
      /\ attempt' \in [Clients -> BOOLEAN]
  BY DEF RetryTimer, TypeOK, setupVars
<1>2. retryCount' \in [Clients -> 0..MaxRetries]
  BY DEF RetryTimer, TypeOK
<1>3. startRetry' \in [Clients -> {-1, 1}]
  BY DEF RetryTimer, StartDaemon, TypeOK
<1>4. \/ phase' = phase
      \/ \E d \in Daemons : phase' = [phase EXCEPT ![d] = IF @ = "off" THEN "probing" ELSE @]
  BY DEF RetryTimer, StartDaemon, Launched, Daemons
<1>5. /\ phase' \in [Daemons -> Phases]
      /\ file' \in Daemons => phase'[file'] = "listening"
      /\ \A e \in Clients : link'[e] # None => phase'[link'[e]] = "listening"
  <2>1. CASE phase' = phase
    BY <1>1, <2>1 DEF TypeOK
  <2>2. CASE \E d \in Daemons : phase' = [phase EXCEPT ![d] = IF @ = "off" THEN "probing" ELSE @]
    BY <1>1, <2>2, StartTypeOK
  <2> QED BY <1>4, <2>1, <2>2
<1> QED BY <1>1, <1>2, <1>3, <1>5 DEF TypeOK

LEMMA ClientStepsTypeOK ==
  ASSUME TypeOK, NEW c \in Clients, Connected(c) \/ Refused(c) \/ Reset(c)
  PROVE  TypeOK'
<1> USE LinkAssumptions
<1>1. CASE Connected(c)
  <2>1. link' \in [Clients -> Daemons \cup {None}]
        /\ \A e \in Clients : link'[e] # None => phase'[link'[e]] = "listening"
    BY <1>1 DEF Connected, Reachable, TypeOK, daemonVars
  <2>2. retryCount' \in [Clients -> 0..MaxRetries] /\ startRetry' \in [Clients -> {-1, 1}]
    BY <1>1 DEF Connected, TypeOK
  <2> QED BY <1>1, <2>1, <2>2 DEF Connected, TypeOK, setupVars, daemonVars
<1>2. CASE Refused(c)
  BY <1>2 DEF Refused, TypeOK, setupVars, daemonVars
<1>3. CASE Reset(c)
  BY <1>3 DEF Reset, TypeOK, setupVars, daemonVars
<1> QED BY <1>1, <1>2, <1>3

LEMMA NextTypeOK == TypeOK /\ [Next]_vars => TypeOK'
<1> SUFFICES ASSUME TypeOK, [Next]_vars PROVE TypeOK'
  OBVIOUS
<1>1. CASE Next
  BY <1>1, DaemonStepsTypeOK, DaemonEndsTypeOK, SystemdTypeOK, RetryTimerTypeOK,
     ClientStepsTypeOK DEF Next
<1>2. CASE UNCHANGED vars
  BY <1>2 DEF TypeOK, vars, setupVars, daemonVars, clientVars
<1> QED BY <1>1, <1>2

(* Wherever daemons die, exit or are stopped in, and whatever clients do   *)
(* meanwhile, the socket path never names a daemon that does not listen on *)
(* it and no client believes in a link to one (bus.js:18-65, 138-147).     *)
THEOREM LinkTypeCorrect == Spec => []TypeOK
<1>1. Init => TypeOK
  BY InitTypeOK
<1>2. TypeOK /\ [Next]_vars => TypeOK'
  BY NextTypeOK
<1> QED BY <1>1, <1>2, PTL DEF Spec

-----------------------------------------------------------------------------
LEMMA NextKeepsTrying ==
  ASSUME TypeOK, KeepsTrying, Next
  PROVE  KeepsTrying'
<1> SUFFICES ASSUME NEW e \in Clients, link'[e] = None
             PROVE  timer'[e]
  BY DEF KeepsTrying
<1> USE LinkAssumptions
<1>1. ASSUME NEW d \in Daemons, Crash(d) \/ Stop(d)
      PROVE  timer'[e]
  <2>1. LosesClients(d)
    BY <1>1 DEF Crash, Stop
  <2>2. link[e] = None \/ link[e] = d
    BY <2>1 DEF LosesClients, TypeOK
  <2>3. timer'[e] = (timer[e] \/ link[e] = d)
    BY <2>1 DEF LosesClients
  <2> QED BY <2>2, <2>3 DEF KeepsTrying
<1>2. ASSUME UNCHANGED <<link, timer>>
      PROVE  timer'[e]
  BY <1>2 DEF KeepsTrying
<1>3. ASSUME NEW d \in Daemons, Probe(d) \/ Unlink(d) \/ Bind(d)
      PROVE  timer'[e]
  BY <1>2, <1>3 DEF Probe, Unlink, Bind, clientVars
<1>4. ASSUME SystemdRestart
      PROVE  timer'[e]
  BY <1>2, <1>4 DEF SystemdRestart, clientVars
<1>5. ASSUME NEW c \in Clients, Connected(c)
      PROVE  timer'[e]
  <2>1. e # c
    BY <1>5 DEF Connected, Reachable, Daemons, TypeOK
  <2> QED BY <1>5, <2>1 DEF Connected, KeepsTrying, TypeOK
<1>6. ASSUME NEW c \in Clients, Refused(c) \/ Reset(c)
      PROVE  timer'[e]
  BY <1>6 DEF Refused, Reset, KeepsTrying, TypeOK
<1>7. ASSUME NEW c \in Clients, RetryTimer(c)
      PROVE  timer'[e]
  BY <1>7 DEF RetryTimer, KeepsTrying, TypeOK
<1> QED BY <1>1, <1>3, <1>4, <1>5, <1>6, <1>7 DEF Next

(* "Always arm the loop: it stops itself as soon as the link is confirmed  *)
(* up" (Client.qml:687): with any number of monitors, in any order of      *)
(* errors, resets, crashes and stops, a client without a link has its      *)
(* retry timer running.                                                    *)
THEOREM NeverStopsTrying == Spec => []KeepsTrying
<1>1. Init => KeepsTrying
  BY DEF Init, KeepsTrying
<1>2. TypeOK /\ KeepsTrying /\ [Next]_vars => KeepsTrying'
  <2>1. CASE Next
    BY <2>1, NextKeepsTrying
  <2>2. CASE UNCHANGED vars
    BY <2>2 DEF KeepsTrying, vars, clientVars
  <2> QED BY <2>1, <2>2
<1> QED BY <1>1, <1>2, LinkTypeCorrect, PTL DEF Spec
=============================================================================
