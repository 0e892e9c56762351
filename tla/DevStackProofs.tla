----------------------------- MODULE DevStackProofs -----------------------------
(***************************************************************************)
(* Proofs about DevStack for any number of terminals, scripts and faults.  *)
(* Inside the container, each stage of a script needs some daemons up      *)
(* unless one has died since it began; on the host, a script has witnessed *)
(* at every stage what its exit code will say.                             *)
(***************************************************************************)
EXTENDS DevStack, TLAPS

Place == {"end", "info", "inspect", "state", "image", "docker_run", "docker_start",
          "docker_stop", "docker_rm", "directory", "docker_exec", "attached"}
Code == {0, 1, 2, 4, 5, 99, 125, 137}
Script == [name : HostScript \cup {"none"}, at : Place, code : Code]

Stage == {"end", "simulator", "check_simulator", "bus", "broker", "check_broker", "own_socket",
          "final_simulator", "final_broker", "term", "poll", "killed", "clean"}
Inner == [name : {"none", "start", "stop"}, at : Stage, target : {"none", "broker", "simulator"},
          code : {0, 1, 99}, option : BOOLEAN]

HostShape == host \in [Terminal -> Script] /\ seen = [t \in Terminal |-> seen[t]]

InnerShape == up \in SUBSET Daemon /\ inner \in Inner /\ nvchip \in BOOLEAN /\ faulted \in BOOLEAN

\* Only a running container has processes.
Lodged == container # "running" => up = {} /\ inner.code # 99

BusInv == "bus" \in up => "socket" \in busFiles

\* tpm-stop.sh goes on to the next daemon when the one before is gone.
StopInv ==
    inner.name = "stop" =>
        /\ inner.target # "broker" => "broker" \notin up
        /\ inner.target = "none" => "simulator" \notin up
        /\ inner.at = "clean" => inner.target = "none"
        /\ inner.code = 0 => inner.target = "none" /\ (inner.option = TRUE => nvchip = FALSE)

\* Each stage of tpm-start.sh has found or brought up some daemons, which are up
\* still if nothing died since it began.
StartInv ==
    inner.name = "start" =>
        /\ inner.at \in {"check_simulator", "bus", "broker", "check_broker", "own_socket",
                         "final_simulator"} => "simulator" \in up \/ faulted = TRUE
        /\ inner.at \in {"broker", "check_broker", "own_socket"} => "bus" \in up \/ faulted = TRUE
        /\ inner.at \in {"check_broker", "own_socket", "final_broker"} =>
              "broker" \in up \/ faulted = TRUE
        /\ inner.at = "final_simulator" /\ inner.option = TRUE => "broker" \in up \/ faulted = TRUE
        /\ inner.at = "final_broker" => "simulator" \in up \cup lost
        /\ inner.code = 0 => "simulator" \in up \cup lost
        /\ inner.code = 0 /\ inner.option = TRUE => "broker" \in up \cup lost
        /\ inner.code = 1 => faulted = TRUE

\* What the script of a terminal has witnessed, by the stage it has reached and by
\* the code it ended with.
Witnessed(t) ==
    LET h == host[t]
        was == seen[t]
    IN
    /\ h.code = 99 => View(reachable, container) \in was
    /\ h.name = "status" =>
          /\ h.at = "inspect" => was \cap {"missing", "stopped", "running"} # {}
          /\ h.at = "state" => was \cap {"stopped", "running"} # {}
          /\ h.code \in {0, 1, 2, 4, 99}
          /\ h.code = 0 => "running" \in was
          /\ h.code = 1 => /\ was \cap {"stopped", "running"} # {}
                           /\ was \cap {"missing", "stopped", "unreachable"} # {}
          /\ h.code = 2 => /\ was \cap {"missing", "unreachable"} # {}
                           /\ was \cap {"missing", "stopped", "running"} # {}
          /\ h.code = 4 => "unreachable" \in was
    /\ h.name = "build" /\ h.code = 0 => was \cap {"missing", "stopped", "running"} # {}
    /\ h.name \in Run \cup Exec /\ h.code = 0 => "running" \in was
    /\ h.at = "attached" => "running" \in was
    /\ h.name = "stop" /\ h.code = 0 => was \cap {"missing", "unreachable"} # {}
    /\ h.name = "stop_keep" /\ h.code = 0 => was \cap {"missing", "stopped", "unreachable"} # {}

DockerShape == container \in {"missing", "stopped", "running"} /\ reachable \in BOOLEAN

IInv ==
    /\ HostShape /\ InnerShape /\ DockerShape
    /\ Lodged /\ BusInv /\ StopInv /\ StartInv
    /\ \A t \in Terminal : Witnessed(t)

-----------------------------------------------------------------------------
(* Inside the container *)

Inside == InnerShape /\ Lodged /\ BusInv /\ StopInv /\ StartInv

\* A step of the host that lets the processes be.
Apart ==
    /\ UNCHANGED <<up, nvchip, inner, lost, faulted>>
    /\ busFiles' = busFiles \/ up = {}
    /\ container' = container \/ container' = "running" \/ container # "running"

LEMMA ApartKeepsInside ==
  ASSUME Inside, Apart
  PROVE  Inside'
  BY DEF Inside, Apart, InnerShape, Lodged, BusInv, StopInv, StartInv

LEMMA HaltKeepsInside ==
  ASSUME Inside, Halted, UNCHANGED nvchip
  PROVE  Inside'
  BY DEF Inside, Halted, NoInner, InnerShape, Lodged, BusInv, StopInv, StartInv, Inner, Stage

\* A script enters.
LEMMA EntryKeepsInside ==
  ASSUME Inside, container = "running", UNCHANGED <<up, busFiles, nvchip, container>>,
         faulted' = FALSE, NEW option \in BOOLEAN, NEW name \in {"start", "stop"},
         inner' = IF name = "start"
                  THEN [NoInner EXCEPT !.name = "start", !.at = "simulator", !.code = 99,
                                       !.option = option]
                  ELSE [NoInner EXCEPT !.name = "stop", !.at = "term", !.target = "broker",
                                       !.code = 99, !.option = option]
  PROVE  Inside'
  <1>1. /\ inner'.name = name /\ inner'.code = 99 /\ inner'.target \in {"none", "broker"}
        /\ inner'.at \in {"simulator", "term"} /\ inner'.option = option
        /\ name = "stop" => inner'.target = "broker"
        /\ name = "start" => inner'.at = "simulator"
        /\ inner' \in Inner
    BY DEF NoInner, Inner, Stage
  <1>2. InnerShape' /\ Lodged' /\ BusInv'
    BY <1>1 DEF Inside, InnerShape, Lodged, BusInv
  <1>3. StopInv'
    BY <1>1 DEF StopInv
  <1>4. StartInv'
    BY <1>1 DEF StartInv
  <1> QED
    BY <1>2, <1>3, <1>4 DEF Inside

\* A daemon is gone.
LEMMA LossKeepsInside ==
  ASSUME Inside, NEW d, up' = up \ {d}, lost' = lost \cup {d}, faulted' = TRUE,
         UNCHANGED <<busFiles, nvchip, inner, container>>
  PROVE  Inside'
  BY DEF Inside, InnerShape, Lodged, BusInv, StopInv, StartInv

\* The script goes on, or ends.
LEMMA ThenDoes ==
  ASSUME inner \in Inner, NEW at \in Stage, ThenInner(at)
  PROVE  /\ inner' \in Inner /\ inner'.name = inner.name /\ inner'.target = inner.target
         /\ inner'.option = inner.option
         /\ inner'.at = at /\ inner'.code = inner.code
  BY DEF Inner, ThenInner

LEMMA EndDoes ==
  ASSUME inner \in Inner, NEW code \in {0, 1}, EndInner(code)
  PROVE  /\ inner' \in Inner /\ inner'.name = inner.name /\ inner'.target = inner.target
         /\ inner'.option = inner.option
         /\ inner'.at = "end" /\ inner'.code = code
  BY DEF Inner, EndInner, Stage

LEMMA StoppedDoes ==
  ASSUME inner \in Inner, NEW d, Stopped(d)
  PROVE  /\ inner' \in Inner /\ inner'.name = inner.name /\ inner'.option = inner.option
         /\ inner'.code = inner.code
         /\ \/ d = "broker" /\ inner'.at = "term" /\ inner'.target = "simulator"
            \/ d # "broker" /\ inner'.at = "clean" /\ inner'.target = "none"
  BY DEF Inner, Stopped, Stage

LEMMA StartKeepsInside ==
  ASSUME Inside, tpm_start
  PROVE  Inside'
  <1> USE DEF Inside
  <1>0. /\ inner.name = "start" /\ inner.code = 99 /\ UNCHANGED <<container, faulted>>
        /\ nvchip' = nvchip \/ nvchip' = TRUE
    BY DEF tpm_start, start_simulator, check_started, start_bus, start_broker, own_socket,
           final_check, AtInner, Outside, dockerVars, daemonVars
  <1>1. \A at \in Stage : ThenInner(at) =>
           /\ inner' \in Inner /\ inner'.name = "start" /\ inner'.option = inner.option
           /\ inner'.at = at /\ inner'.code = 99
    BY <1>0, ThenDoes DEF InnerShape
  <1>2. \A code \in {0, 1} : EndInner(code) =>
           /\ inner' \in Inner /\ inner'.name = "start" /\ inner'.option = inner.option
           /\ inner'.at = "end" /\ inner'.code = code
    BY <1>0, EndDoes DEF InnerShape
  <1>3. ASSUME inner' \in Inner, inner'.name = "start", up' \in SUBSET Daemon, BusInv', StartInv'
        PROVE  Inside'
    BY <1>0, <1>3 DEF InnerShape, Lodged, StopInv
  <1>4. CASE start_simulator
    <2>1. /\ inner.at = "simulator" /\ UNCHANGED <<busFiles, lost, faulted>>
          /\ \/ "simulator" \in up /\ ThenInner("bus") /\ up' = up
             \/ ThenInner("check_simulator") /\ up' = up \cup {"simulator"}
      BY <1>4 DEF start_simulator, AtInner
    <2>2. /\ inner' \in Inner /\ inner'.name = "start" /\ inner'.code = 99
          /\ inner'.at \in {"bus", "check_simulator"}
      BY <1>1, <2>1 DEF Stage
    <2>3. up' \in SUBSET Daemon /\ BusInv'
      BY <2>1 DEF InnerShape, BusInv, Daemon
    <2>4. StartInv'
      BY <2>1, <2>2 DEF StartInv
    <2> QED
      BY <1>3, <2>2, <2>3, <2>4
  <1>5. ASSUME NEW d \in {"simulator", "broker"}, NEW next \in {"bus", "own_socket"},
               next = IF d = "simulator" THEN "bus" ELSE "own_socket",
               check_started(d, next)
        PROVE  Inside'
    <2>1. /\ AtInner("start", IF d = "simulator" THEN "check_simulator" ELSE "check_broker")
          /\ UNCHANGED <<up, busFiles, lost, faulted>>
          /\ \/ d \in up /\ ThenInner(next)
             \/ d \notin up /\ EndInner(1)
      BY <1>5 DEF check_started
    <2>a. inner.at = IF d = "simulator" THEN "check_simulator" ELSE "check_broker"
      BY <2>1 DEF AtInner
    <2>2. /\ inner' \in Inner /\ inner'.name = "start" /\ inner'.option = inner.option
          /\ \/ d \in up /\ inner'.at = next /\ inner'.code = 99
             \/ d \notin up /\ inner'.at = "end" /\ inner'.code = 1
      BY <1>1, <1>2, <2>1 DEF Stage
    <2>3. StartInv'
      BY <1>0, <1>5, <2>1, <2>a, <2>2 DEF StartInv
    <2> QED
      BY <1>3, <2>1, <2>2, <2>3 DEF InnerShape, BusInv
  <1>6. CASE start_bus
    <2>1. /\ inner.at = "bus" /\ UNCHANGED faulted
          /\ \/ inner.option # TRUE /\ ThenInner("final_simulator") /\ UNCHANGED <<up, busFiles>>
             \/ "bus" \in up /\ ThenInner("broker") /\ UNCHANGED <<up, busFiles>>
             \/ ThenInner("broker") /\ busFiles' = {"socket", "pid"} /\ up' = up \cup {"bus"}
      BY <1>6 DEF start_bus, AtInner, cleaned, StartsAreOver
    <2>2. /\ inner' \in Inner /\ inner'.name = "start" /\ inner'.code = 99
          /\ inner'.option = inner.option
          /\ \/ inner.option # TRUE /\ inner'.at = "final_simulator" /\ UNCHANGED <<up, busFiles>>
             \/ inner'.at = "broker" /\ "bus" \in up /\ UNCHANGED <<up, busFiles>>
             \/ inner'.at = "broker" /\ busFiles' = {"socket", "pid"} /\ up' = up \cup {"bus"}
      BY <1>1, <2>1 DEF Stage
    <2>3. up' \in SUBSET Daemon /\ BusInv'
      BY <2>2 DEF InnerShape, BusInv, Daemon
    <2>4. StartInv'
      <3>1. CASE inner'.at = "final_simulator"
        <4>1. inner'.option # TRUE /\ up' = up
          BY <2>2, <3>1
        <4>2. "simulator" \in up' \/ faulted' = TRUE
          BY <1>0, <2>1, <4>1 DEF StartInv
        <4>3. inner'.code = 99
          BY <2>2
        <4>4. ~ (inner'.at = "final_simulator" /\ inner'.option = TRUE)
          BY <4>1, Zenon
        <4> QED
          BY <3>1, <4>2, <4>3, <4>4 DEF StartInv
      <3>2. CASE inner'.at = "broker"
        BY <1>0, <2>1, <2>2, <3>2 DEF StartInv
      <3> QED
        BY <2>2, <3>1, <3>2
    <2> QED
      BY <1>3, <2>2, <2>3, <2>4
  <1>7. CASE start_broker
    <2>1. /\ inner.at = "broker" /\ UNCHANGED <<busFiles, lost, faulted>>
          /\ \/ "broker" \in up /\ ThenInner("own_socket") /\ up' = up
             \/ /\ ThenInner("check_broker")
                /\ up' = IF {"bus", "simulator"} \subseteq up THEN up \cup {"broker"} ELSE up
      BY <1>7 DEF start_broker, AtInner
    <2>2. /\ inner' \in Inner /\ inner'.name = "start" /\ inner'.code = 99
          /\ \/ inner'.at = "own_socket" /\ "broker" \in up /\ up' = up
             \/ /\ inner'.at = "check_broker"
                /\ up' = IF {"bus", "simulator"} \subseteq up THEN up \cup {"broker"} ELSE up
      BY <1>1, <2>1 DEF Stage
    <2>3. up' \in SUBSET Daemon /\ BusInv'
      BY <2>1, <2>2 DEF InnerShape, BusInv, Daemon
    <2>4. StartInv'
      BY <1>0, <2>1, <2>2 DEF StartInv
    <2> QED
      BY <1>3, <2>2, <2>3, <2>4
  <1>8. CASE own_socket
    <2>1. /\ inner.at = "own_socket" /\ UNCHANGED <<up, busFiles, faulted>>
          /\ \/ ThenInner("final_simulator")
             \/ "socket" \notin busFiles /\ EndInner(1)
      BY <1>8 DEF own_socket, AtInner, StartsAreOver
    <2>2. /\ inner' \in Inner /\ inner'.name = "start" /\ inner'.option = inner.option
          /\ \/ inner'.at = "final_simulator" /\ inner'.code = 99
             \/ "socket" \notin busFiles /\ inner'.at = "end" /\ inner'.code = 1
      BY <1>1, <1>2, <2>1 DEF Stage
    <2>3. StartInv'
      BY <1>0, <2>1, <2>2 DEF StartInv, BusInv
    <2> QED
      BY <1>3, <2>1, <2>2, <2>3 DEF InnerShape, BusInv
  <1>9. ASSUME NEW d \in {"simulator", "broker"}, final_check(d)
        PROVE  Inside'
    <2>1. /\ inner.at = IF d = "simulator" THEN "final_simulator" ELSE "final_broker"
          /\ UNCHANGED <<up, busFiles, faulted>> /\ lost' = lost \ {d}
          /\ \/ d \notin up /\ EndInner(1)
             \/ d \in up /\ d = "simulator" /\ inner.option = TRUE /\ ThenInner("final_broker")
             \/ d \in up /\ ~ (d = "simulator" /\ inner.option = TRUE) /\ EndInner(0)
      BY <1>9 DEF final_check, AtInner
    <2>2. /\ inner' \in Inner /\ inner'.name = "start" /\ inner'.option = inner.option
          /\ \/ d \notin up /\ inner'.at = "end" /\ inner'.code = 1
             \/ /\ d \in up /\ d = "simulator" /\ inner.option = TRUE
                /\ inner'.at = "final_broker" /\ inner'.code = 99
             \/ /\ d \in up /\ ~ (d = "simulator" /\ inner.option = TRUE)
                /\ inner'.at = "end" /\ inner'.code = 0
      BY <1>1, <1>2, <2>1 DEF Stage
    <2>3. StartInv'
      BY <1>0, <2>1, <2>2 DEF StartInv
    <2> QED
      BY <1>3, <2>1, <2>2, <2>3 DEF InnerShape, BusInv
  <1> QED
    BY <1>4, <1>5, <1>6, <1>7, <1>8, <1>9 DEF tpm_start

LEMMA StopKeepsInside ==
  ASSUME Inside, tpm_stop
  PROVE  Inside'
  <1> USE DEF Inside
  <1>0. /\ inner.name = "stop" /\ inner.code = 99
        /\ UNCHANGED <<container, up, busFiles, lost, faulted>>
    BY DEF tpm_stop, send_term, poll, after_kill, delete_nvchip, AtInner, Outside, dockerVars,
           daemonVars
  <1>1. \A at \in Stage : ThenInner(at) =>
           /\ inner' \in Inner /\ inner'.name = "stop" /\ inner'.option = inner.option
           /\ inner'.target = inner.target /\ inner'.at = at /\ inner'.code = 99
    BY <1>0, ThenDoes DEF InnerShape
  <1>2. \A code \in {0, 1} : EndInner(code) =>
           /\ inner' \in Inner /\ inner'.name = "stop" /\ inner'.option = inner.option
           /\ inner'.target = inner.target /\ inner'.at = "end" /\ inner'.code = code
    BY <1>0, EndDoes DEF InnerShape
  <1>3. \A d : Stopped(d) =>
           /\ inner' \in Inner /\ inner'.name = "stop" /\ inner'.option = inner.option
           /\ inner'.code = 99
           /\ \/ d = "broker" /\ inner'.at = "term" /\ inner'.target = "simulator"
              \/ d # "broker" /\ inner'.at = "clean" /\ inner'.target = "none"
    BY <1>0, StoppedDoes DEF InnerShape
  <1>4. ASSUME inner' \in Inner, inner'.name = "stop", StopInv', nvchip' \in BOOLEAN
        PROVE  Inside'
    BY <1>0, <1>4 DEF InnerShape, Lodged, BusInv, StartInv
  <1>5. ASSUME inner.target \notin up, Stopped(inner.target), nvchip' = nvchip
        PROVE  Inside'
    <2>1. inner.target \in {"none", "broker", "simulator"}
      BY DEF InnerShape, Inner
    <2>2. StopInv'
      BY <1>0, <1>3, <1>5, <2>1 DEF StopInv
    <2> QED
      BY <1>3, <1>4, <1>5, <2>2 DEF InnerShape
  <1>6. ASSUME NEW at \in {"poll", "killed"}, ThenInner(at), nvchip' = nvchip
        PROVE  Inside'
    <2>1. at \in Stage
      BY DEF Stage
    <2>2. StopInv'
      BY <1>0, <1>1, <1>6, <2>1 DEF StopInv
    <2> QED
      BY <1>1, <1>4, <1>6, <2>1, <2>2 DEF InnerShape
  <1>7. CASE send_term
    BY <1>5, <1>6, <1>7 DEF send_term
  <1>8. CASE poll
    BY <1>5, <1>6, <1>8 DEF poll, daemonVars
  <1>9. CASE after_kill
    <2>1. CASE EndInner(1)
      <3>1. StopInv'
        BY <1>0, <1>2, <1>9, <2>1 DEF StopInv, after_kill, daemonVars
      <3> QED
        BY <1>2, <1>4, <1>9, <2>1, <3>1 DEF after_kill, daemonVars, InnerShape
    <2> QED
      BY <1>5, <1>9, <2>1 DEF after_kill, daemonVars
  <1>10. CASE delete_nvchip
    <2>1. inner.at = "clean" /\ nvchip' = (nvchip /\ ~ inner.option) /\ EndInner(0)
      BY <1>10 DEF delete_nvchip, AtInner
    <2>2. StopInv'
      BY <1>0, <1>2, <2>1 DEF StopInv
    <2> QED
      BY <1>2, <1>4, <2>1, <2>2
  <1> QED
    BY <1>7, <1>8, <1>9, <1>10 DEF tpm_stop

-----------------------------------------------------------------------------
(* On the host *)

LEMMA GotoDoes ==
  ASSUME HostShape, NEW t \in Terminal, NEW at \in Place, Goto(t, at)
  PROVE  /\ host' \in [Terminal -> Script]
         /\ \A v \in Terminal \ {t} : host'[v] = host[v]
         /\ host'[t].name = host[t].name /\ host'[t].at = at /\ host'[t].code = host[t].code
  BY DEF HostShape, Goto, Script

LEMMA ExitDoes ==
  ASSUME HostShape, NEW t \in Terminal, NEW code \in Code, Exit(t, code)
  PROVE  /\ host' \in [Terminal -> Script]
         /\ \A v \in Terminal \ {t} : host'[v] = host[v]
         /\ host'[t].name = host[t].name /\ host'[t].at = "end" /\ host'[t].code = code
  <1>1. "end" \in Place /\ host \in [Terminal -> Script]
    BY DEF Place, HostShape
  <1>2. host' = [host EXCEPT ![t] = [host[t] EXCEPT !.at = "end", !.code = code]]
    BY DEF Exit
  <1>3. [host[t] EXCEPT !.at = "end", !.code = code] \in Script
    BY <1>1 DEF Script
  <1>4. host'[t] = [host[t] EXCEPT !.at = "end", !.code = code] /\ host[t] \in Script
    BY <1>1, <1>2
  <1>5. host'[t].name = host[t].name /\ host'[t].at = "end" /\ host'[t].code = code
    BY <1>4 DEF Script
  <1> QED
    BY <1>1, <1>2, <1>3, <1>5

LEMMA WitnessDoes ==
  ASSUME Witness, NEW v \in Terminal
  PROVE  /\ seen' = [t \in Terminal |-> seen'[t]]
         /\ host[v].code = 99 => seen'[v] = seen[v] \cup {View(reachable', container')}
         /\ host[v].code # 99 => seen'[v] = seen[v]
  BY DEF Witness

\* The terminals whose scripts do nothing.
LEMMA OthersWitness ==
  ASSUME NEW v \in Terminal, Witness, Witnessed(v), host'[v] = host[v]
  PROVE  Witnessed(v)'
  <1>1. CASE host[v].code = 99
    <2>1. seen'[v] = seen[v] \cup {View(reachable', container')}
      BY <1>1, WitnessDoes
    <2> QED
      BY <1>1, <2>1 DEF Witnessed
  <1>2. CASE host[v].code # 99
    <2>1. seen'[v] = seen[v]
      BY <1>2, WitnessDoes
    <2> QED
      BY <1>2, <2>1 DEF Witnessed
  <1> QED
    BY <1>1, <1>2

\* What a script must see to go on to a stage, and to end with a code.
Leads(t, at, view) ==
    /\ host[t].name = "status" =>
          /\ at = "inspect" => view \in {"missing", "stopped", "running"}
          /\ at = "state" => view \in {"stopped", "running"}
    /\ at = "attached" => view = "running"

Shows(t, code, view) ==
    /\ host[t].name = "status" =>
          \/ code = 0 /\ view = "running"
          \/ code = 1 /\ host[t].at = "state" /\ view \in {"missing", "stopped", "unreachable"}
          \/ code = 2 /\ host[t].at = "inspect" /\ view \in {"missing", "unreachable"}
          \/ code = 4 /\ view = "unreachable"
    /\ host[t].name = "build" /\ code = 0 => view \in {"missing", "stopped", "running"}
    /\ host[t].name \in Run \cup Exec /\ code = 0 =>
          view = "running" \/ host[t].at = "attached"
    /\ host[t].name = "stop" /\ code = 0 => view \in {"missing", "unreachable"}
    /\ host[t].name = "stop_keep" /\ code = 0 => view \in {"missing", "stopped", "unreachable"}

\* A step of a terminal's script.
HostStep(t) ==
    /\ host[t].code = 99 /\ Witness /\ DockerShape'
    /\ \/ \E at \in Place : Goto(t, at) /\ Leads(t, at, View(reachable', container'))
       \/ \E code \in Code \ {99} : Exit(t, code) /\ Shows(t, code, View(reachable', container'))

LEMMA GoingOnWitnesses ==
  ASSUME HostShape, NEW t \in Terminal, Witnessed(t), Witness, host[t].code = 99,
         NEW at \in Place, Goto(t, at), Leads(t, at, View(reachable', container'))
  PROVE  Witnessed(t)'
  <1> DEFINE view == View(reachable', container')
  <1>1. seen'[t] = seen[t] \cup {view}
    BY WitnessDoes
  <1>2. host'[t].name = host[t].name /\ host'[t].at = at /\ host'[t].code = 99
    BY GotoDoes
  <1>3. view = View(reachable', container')
    OBVIOUS
  <1> HIDE DEF view
  <1> QED
    BY <1>1, <1>2, <1>3 DEF Witnessed, Leads

LEMMA EndingWitnesses ==
  ASSUME HostShape, NEW t \in Terminal, Witnessed(t), Witness, host[t].code = 99,
         NEW code \in Code \ {99}, Exit(t, code), Shows(t, code, View(reachable', container'))
  PROVE  Witnessed(t)'
  <1> DEFINE view == View(reachable', container')
  <1>1. seen'[t] = seen[t] \cup {view}
    BY WitnessDoes
  <1>2. host'[t].name = host[t].name /\ host'[t].at = "end" /\ host'[t].code = code
    BY ExitDoes
  <1>3. view = View(reachable', container')
    OBVIOUS
  <1> HIDE DEF view
  <1> QED
    BY <1>1, <1>2, <1>3 DEF Witnessed, Shows

LEMMA HostStepKeepsHost ==
  ASSUME HostShape, \A v \in Terminal : Witnessed(v), NEW t \in Terminal, HostStep(t)
  PROVE  HostShape' /\ DockerShape' /\ \A v \in Terminal : Witnessed(v)'
  <1>1. /\ host' \in [Terminal -> Script]
        /\ \A v \in Terminal \ {t} : host'[v] = host[v]
        /\ Witnessed(t)'
    <2>1. ASSUME NEW at \in Place, Goto(t, at), Leads(t, at, View(reachable', container'))
          PROVE  <1>1!1 /\ <1>1!2 /\ <1>1!3
      BY <2>1, GotoDoes, GoingOnWitnesses DEF HostStep
    <2>2. ASSUME NEW code \in Code \ {99}, Exit(t, code),
                 Shows(t, code, View(reachable', container'))
          PROVE  <1>1!1 /\ <1>1!2 /\ <1>1!3
      BY <2>2, ExitDoes, EndingWitnesses DEF HostStep
    <2> QED
      BY <2>1, <2>2 DEF HostStep
  <1>2. Witness /\ DockerShape'
    BY DEF HostStep
  <1>3. ASSUME NEW v \in Terminal
        PROVE  Witnessed(v)'
    BY <1>1, <1>2, OthersWitness
  <1>4. HostShape'
    BY <1>1, <1>2, WitnessDoes DEF HostShape
  <1> QED
    BY <1>2, <1>3, <1>4

\* A step of a script on the host that only looks.
LEMMA LooksAreSteps ==
  ASSUME HostShape, DockerShape, NEW t \in Terminal,
         \/ info(t) \/ inspect_status(t) \/ inspect_stop(t) \/ inspect_exec(t) \/ inspect_run(t)
         \/ state_status(t) \/ state_stop(t) \/ state_exec(t) \/ state_run(t)
         \/ exec_directory(t) \/ image_inspect(t) \/ foreground_ends(t)
  PROVE  HostStep(t) /\ Apart
  <1> DEFINE view == View(reachable, container)
  <1>0. /\ view \in {"missing", "stopped", "running", "unreachable"}
        /\ known => reachable /\ view \in {"stopped", "running"} /\ view = container
        /\ ~known => view \in {"missing", "unreachable"}
        /\ reachable => view \in {"missing", "stopped", "running"}
        /\ ~reachable => view = "unreachable"
    BY DEF View, known, DockerShape
  <1>1. Look
    BY DEF info, inspect_status, inspect_stop, inspect_exec, inspect_run, state_status,
           state_stop, state_exec, state_run, exec_directory, image_inspect, foreground_ends
  <1>2. /\ Apart /\ Witness /\ DockerShape' /\ host[t].code = 99
        /\ View(reachable', container') = view
    BY <1>1 DEF Look, Apart, dockerVars, daemonVars, DockerShape, info, inspect_status,
                inspect_stop, inspect_exec, inspect_run, state_status, state_stop, state_exec,
                state_run, exec_directory, image_inspect, foreground_ends, At
  <1> HIDE DEF view
  <1> SUFFICES HostStep(t)
    BY <1>2
  <1>3. \A at \in Place : Goto(t, at) /\ Leads(t, at, view) => HostStep(t)
    BY <1>2, Zenon DEF HostStep
  <1>4. \A code \in Code \ {99} : Exit(t, code) /\ Shows(t, code, view) => HostStep(t)
    BY <1>2, Zenon DEF HostStep
  <1>a. \A at \in Place :
           at # "attached" /\ host[t].name # "status" /\ Goto(t, at) => HostStep(t)
    BY <1>3, Zenon DEF Leads
  <1>b. \A code \in Code \ {99} :
           code # 0 /\ host[t].name # "status" /\ Exit(t, code) => HostStep(t)
    BY <1>4, Zenon DEF Shows
  <1>c. {"info", "inspect", "state", "image", "docker_run", "docker_start", "docker_stop",
         "docker_rm", "directory", "docker_exec"} \subseteq Place
    BY DEF Place
  <1>d. {0, 1, 2, 4, 137} \subseteq Code \ {99}
    BY DEF Code
  <1>5. CASE info(t)
    <2>1. \/ reachable /\ Goto(t, "inspect")
          \/ ~reachable /\ Exit(t, 4)
      BY <1>5, Zenon DEF info
    <2>2. reachable => Leads(t, "inspect", view)
      BY <1>0 DEF Leads
    <2>3. ~reachable => Shows(t, 4, view)
      BY <1>0 DEF Shows
    <2> QED
      BY <1>3, <1>4, <1>c, <1>d, <2>1, <2>2, <2>3, Zenon
  <1>6. CASE inspect_status(t)
    <2>1. /\ host[t].name = "status" /\ host[t].at = "inspect"
          /\ \/ known /\ Goto(t, "state")
             \/ ~known /\ Exit(t, 2)
      BY <1>6, Zenon DEF inspect_status, At
    <2>2. known => Leads(t, "state", view)
      BY <1>0 DEF Leads
    <2>3. ~known => Shows(t, 2, view)
      BY <1>0, <2>1 DEF Shows
    <2> QED
      BY <1>3, <1>4, <1>c, <1>d, <2>1, <2>2, <2>3, Zenon
  <1>7. CASE inspect_stop(t)
    <2>1. /\ host[t].name \in {"stop", "stop_keep"}
          /\ \/ known /\ Goto(t, "state")
             \/ ~known /\ Exit(t, 0)
      BY <1>7, Zenon DEF inspect_stop, At
    <2>2. ~known => Shows(t, 0, view)
      BY <1>0, <2>1 DEF Shows, Run, Exec
    <2>3. host[t].name # "status"
      BY <2>1
    <2> QED
      BY <1>4, <1>a, <1>c, <1>d, <2>1, <2>2, <2>3, Zenon
  <1>8. CASE inspect_exec(t)
    <2>1. host[t].name # "status" /\ (Goto(t, "state") \/ Exit(t, 1))
      BY <1>8 DEF inspect_exec, At, Exec
    <2> QED
      BY <1>a, <1>b, <1>c, <1>d, <2>1
  <1>9. CASE inspect_run(t)
    <2>1. host[t].name # "status" /\ (Goto(t, "state") \/ Goto(t, "image"))
      BY <1>9 DEF inspect_run, At, Run
    <2> QED
      BY <1>a, <1>c, <2>1
  <1>10. CASE state_status(t)
    <2>1. /\ host[t].name = "status" /\ host[t].at = "state"
          /\ \/ known /\ container = "running" /\ Exit(t, 0)
             \/ ~ (known /\ container = "running") /\ Exit(t, 1)
      BY <1>10 DEF state_status, At
    <2>2. known /\ container = "running" => Shows(t, 0, view)
      BY <1>0, <2>1 DEF Shows
    <2>3. known /\ container # "running" => Shows(t, 1, view)
      BY <1>0, <2>1 DEF Shows
    <2>4. ~known => Shows(t, 1, view)
      BY <1>0, <2>1 DEF Shows
    <2> QED
      BY <1>4, <1>d, <2>1, <2>2, <2>3, <2>4, Zenon
  <1>11. CASE state_stop(t)
    <2>1. /\ host[t].name \in {"stop", "stop_keep"}
          /\ \/ Exit(t, 1) \/ Goto(t, "docker_stop") \/ Goto(t, "docker_rm")
             \/ known /\ container # "running" /\ host[t].name # "stop" /\ Exit(t, 0)
      BY <1>11 DEF state_stop, At
    <2>2. known /\ container # "running" /\ host[t].name # "stop" => Shows(t, 0, view)
      BY <1>0, <2>1 DEF Shows, Run, Exec
    <2>3. host[t].name # "status"
      BY <2>1
    <2> QED
      BY <1>4, <1>a, <1>b, <1>c, <1>d, <2>1, <2>2, <2>3
  <1>12. CASE state_exec(t)
    <2>1. host[t].name # "status" /\ (Goto(t, "directory") \/ Exit(t, 1))
      BY <1>12 DEF state_exec, At, Exec
    <2> QED
      BY <1>a, <1>b, <1>c, <1>d, <2>1
  <1>15. CASE exec_directory(t)
    <2>1. host[t].name # "status" /\ (Goto(t, "docker_exec") \/ Exit(t, 1))
      BY <1>15 DEF exec_directory, At, Exec
    <2> QED
      BY <1>a, <1>b, <1>c, <1>d, <2>1
  <1>16. CASE foreground_ends(t)
    <2>1. /\ host[t].name = "run_foreground" /\ host[t].at = "attached"
          /\ Exit(t, 0) \/ Exit(t, 137)
      BY <1>16 DEF foreground_ends, At
    <2>2. Shows(t, 0, view) /\ Shows(t, 137, view)
      BY <2>1 DEF Shows, Exec
    <2> QED
      BY <1>4, <1>d, <2>1, <2>2
  <1>13. CASE state_run(t)
    <2>1. /\ host[t].name \in Run
          /\ \/ Exit(t, 1) \/ Goto(t, "docker_start")
             \/ known /\ container = "running" /\ Exit(t, 0)
      BY <1>13 DEF state_run, At
    <2>2. known /\ container = "running" => Shows(t, 0, view)
      BY <1>0, <2>1 DEF Shows, Run
    <2>3. host[t].name # "status"
      BY <2>1 DEF Run
    <2> QED
      BY <1>4, <1>a, <1>b, <1>c, <1>d, <2>1, <2>2, <2>3
  <1>14. CASE image_inspect(t)
    <2>1. host[t].name # "status" /\ (Goto(t, "docker_run") \/ Exit(t, 1))
      BY <1>14 DEF image_inspect, At, Run
    <2> QED
      BY <1>a, <1>b, <1>c, <1>d, <2>1
  <1> QED
    BY <1>2, <1>5, <1>6, <1>7, <1>8, <1>9, <1>10, <1>11, <1>12, <1>13, <1>14,
       <1>15, <1>16

\* The commands that change the image or the container.
LEMMA BuildIsStep ==
  ASSUME HostShape, DockerShape, NEW t \in Terminal, build_image(t)
  PROVE  HostStep(t) /\ Apart
  <1>1. /\ host[t].code = 99 /\ host[t].name = "build" /\ Witness
        /\ (reachable /\ Exit(t, 0)) \/ Exit(t, 1)
        /\ UNCHANGED <<reachable, container, daemonVars, inner>>
    BY DEF build_image, At
  <1>2. Apart /\ DockerShape'
    BY <1>1 DEF Apart, DockerShape, daemonVars
  <1> QED
    BY <1>1, <1>2 DEF HostStep, Shows, Code, View, DockerShape, Run, Exec

LEMMA RunIsStep ==
  ASSUME HostShape, DockerShape, Lodged, NEW t \in Terminal, docker_run(t)
  PROVE  HostStep(t) /\ Apart
  <1>1. /\ host[t].code = 99 /\ host[t].name \in Run /\ Witness
        /\ \/ /\ reachable /\ container = "missing" /\ container' = "running"
              /\ busFiles' = {} /\ (Exit(t, 0) \/ Goto(t, "attached"))
           \/ Exit(t, 125) /\ UNCHANGED <<container, busFiles>>
        /\ UNCHANGED <<reachable, up, nvchip, lost, faulted, inner>>
    BY DEF docker_run, At, Run
  <1>2. Apart /\ DockerShape'
    BY <1>1 DEF Apart, DockerShape, Lodged
  <1> QED
    BY <1>1, <1>2 DEF HostStep, Shows, Leads, Code, Place, View, Run

LEMMA RestartIsStep ==
  ASSUME HostShape, DockerShape, NEW t \in Terminal, docker_start(t)
  PROVE  HostStep(t) /\ Apart
  <1>1. /\ host[t].code = 99 /\ host[t].name \in Run /\ Witness
        /\ \/ reachable /\ container' = "running" /\ Exit(t, 0)
           \/ Exit(t, 1) /\ UNCHANGED container
        /\ UNCHANGED <<reachable, daemonVars, inner>>
    BY DEF docker_start, At, known, Run
  <1>2. Apart /\ DockerShape'
    BY <1>1 DEF Apart, DockerShape, daemonVars
  <1> QED
    BY <1>1, <1>2 DEF HostStep, Shows, Code, View, Run

LEMMA StopIsStep ==
  ASSUME HostShape, DockerShape, NEW t \in Terminal, docker_stop(t)
  PROVE  HostStep(t) /\ (Apart \/ (Halted /\ UNCHANGED nvchip))
  <1>1. /\ host[t].code = 99 /\ host[t].name \in {"stop", "stop_keep"} /\ Witness
        /\ \/ /\ reachable /\ container' = "stopped"
              /\ \/ Halted
                 \/ container # "running" /\ UNCHANGED <<up, lost, faulted, inner>>
              /\ \/ Goto(t, "docker_rm")
                 \/ host[t].name # "stop" /\ Exit(t, 0)
           \/ Exit(t, 5) /\ UNCHANGED <<container, up, lost, faulted, inner>>
        /\ UNCHANGED <<reachable, busFiles, nvchip>>
    BY DEF docker_stop, At, known
  <1>2. DockerShape' /\ (Apart \/ (Halted /\ UNCHANGED nvchip))
    BY <1>1 DEF Apart, DockerShape
  <1>3. HostStep(t)
    <2>1. CASE Goto(t, "docker_rm")
      BY <1>1, <1>2, <2>1 DEF HostStep, Leads, Place
    <2>2. CASE reachable /\ container' = "stopped" /\ host[t].name # "stop" /\ Exit(t, 0)
      BY <1>1, <1>2, <2>2 DEF HostStep, Shows, Code, View, Run, Exec
    <2>3. CASE Exit(t, 5)
      BY <1>1, <1>2, <2>3 DEF HostStep, Shows, Code
    <2> QED
      BY <1>1, <2>1, <2>2, <2>3
  <1> QED
    BY <1>2, <1>3

LEMMA RemoveIsStep ==
  ASSUME HostShape, DockerShape, NEW t \in Terminal, docker_rm(t)
  PROVE  HostStep(t) /\ Apart
  <1>1. /\ host[t].code = 99 /\ host[t].name = "stop" /\ Witness
        /\ \/ reachable /\ container = "stopped" /\ container' = "missing" /\ Exit(t, 0)
           \/ Exit(t, 5) /\ UNCHANGED container
        /\ UNCHANGED <<reachable, daemonVars, inner>>
    BY DEF docker_rm, At, rm_code
  <1>2. Apart /\ DockerShape'
    BY <1>1 DEF Apart, DockerShape, daemonVars
  <1> QED
    BY <1>1, <1>2 DEF HostStep, Shows, Code, View, Run, Exec

LEMMA ExecIsStep ==
  ASSUME HostShape, DockerShape, Inside, NEW t \in Terminal, docker_exec(t)
  PROVE  HostStep(t) /\ Inside'
  <1>1. /\ host[t].code = 99 /\ host[t].name \in Exec /\ Witness
        /\ UNCHANGED <<reachable, container, up, busFiles, nvchip>>
        /\ (known /\ container = "running" /\ Exit(t, 0)) \/ Exit(t, 1)
    BY DEF docker_exec, At, dockerVars
  <1>2. HostStep(t)
    BY <1>1 DEF HostStep, Shows, Code, DockerShape, View, known, Exec
  <1>3. CASE UNCHANGED <<inner, lost, faulted>>
    <2>1. Apart
      BY <1>1, <1>3 DEF Apart
    <2> QED
      BY <1>2, <2>1, ApartKeepsInside
  <1>4. CASE ~ UNCHANGED <<inner, lost, faulted>>
    <2>1. /\ container = "running" /\ faulted' = FALSE
          /\ \E option \in BOOLEAN :
                inner' = IF host[t].name = "exec_start"
                         THEN [NoInner EXCEPT !.name = "start", !.at = "simulator", !.code = 99,
                                              !.option = option]
                         ELSE [NoInner EXCEPT !.name = "stop", !.at = "term",
                                              !.target = "broker", !.code = 99,
                                              !.option = option]
      BY <1>4 DEF docker_exec
    <2>2. PICK name \in {"start", "stop"} : name = "start" <=> host[t].name = "exec_start"
      OBVIOUS
    <2>3. PICK option \in BOOLEAN :
             inner' = IF name = "start"
                      THEN [NoInner EXCEPT !.name = "start", !.at = "simulator", !.code = 99,
                                           !.option = option]
                      ELSE [NoInner EXCEPT !.name = "stop", !.at = "term", !.target = "broker",
                                           !.code = 99, !.option = option]
      BY <2>1, <2>2
    <2>4. UNCHANGED <<up, busFiles, nvchip, container>>
      BY <1>1
    <2> QED
      BY <1>2, <2>1, <2>3, <2>4, EntryKeepsInside
  <1> QED
    BY <1>2, <1>3, <1>4

\* A script begins.
LEMMA BeginKeeps ==
  ASSUME IInv, NEW t \in Terminal, NEW name \in HostScript, Begin(t, name)
  PROVE  IInv'
  <1> DEFINE at == IF name \in {"stop", "stop_keep", "status"} THEN "info" ELSE "inspect"
             view == View(reachable, container)
  <1>1. /\ host' = [host EXCEPT ![t] = Started(name, at)]
        /\ seen' = [seen EXCEPT ![t] = {view}]
        /\ UNCHANGED <<reachable, container, daemonVars, inner>>
    BY DEF Begin, dockerVars
  <1>2. host \in [Terminal -> Script] /\ seen = [v \in Terminal |-> seen[v]]
    BY DEF IInv, HostShape
  <1>3. Started(name, at) \in Script
    BY DEF Started, Script, Place, Code
  <1>4. /\ host' \in [Terminal -> Script] /\ host'[t] = Started(name, at)
        /\ seen' = [v \in Terminal |-> seen'[v]] /\ seen'[t] = {view}
        /\ \A v \in Terminal \ {t} : host'[v] = host[v] /\ seen'[v] = seen[v]
    BY <1>1, <1>2, <1>3
  <1>5. Witnessed(t)'
    <2>1. host'[t].name = name /\ host'[t].at = at /\ host'[t].code = 99
      BY <1>4 DEF Started
    <2>2. (name = "status" => at = "info") /\ at # "attached"
      OBVIOUS
    <2>3. view = View(reachable', container')
      BY <1>1 DEF View
    <2> HIDE DEF view, at
    <2> QED
      BY <1>4, <2>1, <2>2, <2>3 DEF Witnessed
  <1>6. ASSUME NEW v \in Terminal, v # t
        PROVE  Witnessed(v)'
    BY <1>1, <1>4, <1>6 DEF IInv, Witnessed, View
  <1>7. Inside'
    BY <1>1, ApartKeepsInside DEF IInv, Inside, Apart, daemonVars
  <1>8. HostShape' /\ DockerShape'
    BY <1>1, <1>4 DEF IInv, HostShape, DockerShape
  <1> QED
    BY <1>5, <1>6, <1>7, <1>8 DEF IInv, Inside

\* What happens in the container or to it, and to Docker.
LEMMA HostUntouched ==
  ASSUME IInv, UNCHANGED <<reachable, container, host, seen>>
  PROVE  HostShape' /\ DockerShape' /\ \A v \in Terminal : Witnessed(v)'
  BY DEF IInv, HostShape, DockerShape, Witnessed, View

LEMMA HostWitnesses ==
  ASSUME IInv, Witness, UNCHANGED host
  PROVE  HostShape' /\ \A v \in Terminal : Witnessed(v)'
  <1>1. HostShape'
    BY DEF IInv, HostShape, Witness
  <1>2. ASSUME NEW v \in Terminal
        PROVE  Witnessed(v)'
    BY OthersWitness DEF IInv
  <1> QED
    BY <1>1, <1>2

LEMMA NextKeeps ==
  ASSUME IInv, [Next]_vars
  PROVE  IInv'
  <1> USE DEF Inside
  <1>0. /\ HostShape /\ DockerShape /\ Inside /\ Lodged
        /\ \A v \in Terminal : Witnessed(v)
    BY DEF IInv
  <1>a. ASSUME HostShape', DockerShape', Inside', \A v \in Terminal : Witnessed(v)'
        PROVE  IInv'
    BY <1>a DEF IInv
  <1>b. ASSUME NEW t \in Terminal, HostStep(t), Inside'
        PROVE  IInv'
    <2>1. HostShape' /\ DockerShape' /\ \A v \in Terminal : Witnessed(v)'
      BY <1>0, <1>b, HostStepKeepsHost
    <2> QED
      BY <1>a, <1>b, <2>1
  <1>1. ASSUME NEW t \in Terminal, NEW name \in HostScript, Begin(t, name)
        PROVE  IInv'
    BY <1>1, BeginKeeps
  <1>2. ASSUME NEW t \in Terminal,
               \/ info(t) \/ inspect_status(t) \/ inspect_stop(t) \/ inspect_exec(t)
               \/ inspect_run(t) \/ state_status(t) \/ state_stop(t) \/ state_exec(t)
               \/ state_run(t) \/ exec_directory(t) \/ image_inspect(t) \/ foreground_ends(t)
        PROVE  IInv'
    <2>1. HostStep(t) /\ Apart
      BY <1>0, <1>2, LooksAreSteps
    <2> QED
      BY <1>0, <1>b, <2>1, ApartKeepsInside
  <1>3. ASSUME NEW t \in Terminal,
               build_image(t) \/ docker_run(t) \/ docker_start(t) \/ docker_rm(t)
        PROVE  IInv'
    <2>1. HostStep(t) /\ Apart
      BY <1>0, <1>3, BuildIsStep, RunIsStep, RestartIsStep, RemoveIsStep
    <2> QED
      BY <1>0, <1>b, <2>1, ApartKeepsInside
  <1>4. ASSUME NEW t \in Terminal, docker_stop(t)
        PROVE  IInv'
    <2>1. HostStep(t) /\ (Apart \/ (Halted /\ UNCHANGED nvchip))
      BY <1>0, <1>4, StopIsStep
    <2> QED
      BY <1>0, <1>b, <2>1, ApartKeepsInside, HaltKeepsInside
  <1>5. ASSUME NEW t \in Terminal, docker_exec(t)
        PROVE  IInv'
    <2>1. HostStep(t) /\ Inside'
      BY <1>0, <1>5, ExecIsStep
    <2> QED
      BY <1>b, <2>1
  <1>6. CASE tpm_start
    <2>1. UNCHANGED <<reachable, container, host, seen>>
      BY <1>6 DEF tpm_start, start_simulator, check_started, start_bus, start_broker,
                  own_socket, final_check, Outside, dockerVars
    <2>2. Inside'
      BY <1>0, <1>6, StartKeepsInside
    <2> QED
      BY <1>a, <2>1, <2>2, HostUntouched
  <1>7. CASE tpm_stop
    <2>1. UNCHANGED <<reachable, container, host, seen>>
      BY <1>7 DEF tpm_stop, send_term, poll, after_kill, delete_nvchip, Outside, dockerVars
    <2>2. Inside'
      BY <1>0, <1>7, StopKeepsInside
    <2> QED
      BY <1>a, <2>1, <2>2, HostUntouched
  <1>8. ASSUME NEW d \in Daemon, Obeys(d) \/ Dies(d)
        PROVE  IInv'
    <2>1. /\ UNCHANGED <<reachable, container, host, seen>>
          /\ up' = up \ {d} /\ lost' = lost \cup {d} /\ faulted' = TRUE
          /\ UNCHANGED <<busFiles, nvchip, inner, container>>
      BY <1>8 DEF Obeys, Dies, dockerVars
    <2>2. Inside'
      BY <1>0, <2>1, LossKeepsInside
    <2> QED
      BY <1>a, <2>1, <2>2, HostUntouched
  <1>9. CASE ContainerDies
    <2>1. /\ Halted /\ Witness /\ container' = "stopped"
          /\ UNCHANGED <<reachable, nvchip, host>>
      BY <1>9 DEF ContainerDies
    <2>2. Inside'
      BY <1>0, <2>1, HaltKeepsInside
    <2>3. DockerShape'
      BY <1>0, <2>1 DEF DockerShape
    <2> QED
      BY <1>a, <2>1, <2>2, <2>3, HostWitnesses
  <1>10. CASE DockerChanges
    <2>1. /\ reachable' = ~ reachable /\ Witness
          /\ UNCHANGED <<container, daemonVars, host, inner>>
      BY <1>10 DEF DockerChanges
    <2>2. Inside'
      BY <1>0, <2>1, ApartKeepsInside DEF Apart, daemonVars
    <2>3. DockerShape'
      BY <1>0, <2>1 DEF DockerShape
    <2> QED
      BY <1>a, <2>1, <2>2, <2>3, HostWitnesses
  <1>11. CASE UNCHANGED vars
    <2>1. UNCHANGED <<reachable, container, daemonVars, inner, host, seen>>
      BY <1>11 DEF vars, dockerVars
    <2>2. Inside'
      BY <1>0, <2>1, ApartKeepsInside DEF Apart, daemonVars
    <2> QED
      BY <1>a, <2>1, <2>2, HostUntouched
  <1> QED
    BY <1>1, <1>2, <1>3, <1>4, <1>5, <1>6, <1>7, <1>8, <1>9, <1>10, <1>11 DEF Next

LEMMA InitKeeps == Init => IInv
  <1> SUFFICES ASSUME Init PROVE IInv
    OBVIOUS
  <1>1. Inside /\ DockerShape
    <2>1. inner.name = "none" /\ inner.code = 0 /\ inner \in Inner
      BY DEF Init, NoInner, Inner, Stage
    <2>2. InnerShape
      BY <2>1 DEF Init, InnerShape
    <2>3. Lodged /\ BusInv /\ StopInv /\ StartInv
      BY <2>1 DEF Init, Lodged, BusInv, StopInv, StartInv
    <2> QED
      BY <2>2, <2>3 DEF Init, Inside, DockerShape
  <1>2. Idle \in Script
    BY DEF Idle, Script, Place, Code
  <1>3. HostShape
    BY <1>2 DEF Init, HostShape
  <1>4. \A t \in Terminal : Witnessed(t)
    BY DEF Init, Witnessed, Idle, Run, Exec
  <1> QED
    BY <1>1, <1>3, <1>4 DEF IInv, Inside

\* Whatever the scripts, the daemons and Docker do, the stages of the scripts stand for
\* what has been found, brought up or witnessed (scripts/tpm-start.sh, tpm-stop.sh and
\* the scripts that drive Docker).
THEOREM Invariance == Spec => []IInv
  <1>1. Init => IInv
    BY InitKeeps
  <1>2. IInv /\ [Next]_vars => IInv'
    BY NextKeeps
  <1> QED
    BY <1>1, <1>2, PTL DEF Spec

\* For any number of terminals and faults: when tpm-start.sh exits with 0, each daemon it
\* answers for was up after everything had been started, when the script last looked;
\* and it exits with 1 only if something died while it ran, whatever was left before.
THEOREM StartSaysTrue == Spec => []StartIsTruthful
  <1>1. IInv => StartIsTruthful
    <2> SUFFICES ASSUME IInv, inner.name = "start"
                 PROVE  /\ inner.code = 0 =>
                              {"simulator"} \cup (IF inner.option THEN {"broker"} ELSE {})
                                  \subseteq up \cup lost
                        /\ inner.code = 1 => faulted
      BY DEF StartIsTruthful
    <2>1. inner.option \in BOOLEAN
      BY Zenon DEF IInv, InnerShape, Inner
    <2>2. ASSUME inner.code = 0
          PROVE  {"simulator"} \cup (IF inner.option THEN {"broker"} ELSE {})
                 \subseteq up \cup lost
      BY <2>1, <2>2 DEF IInv, StartInv
    <2>3. inner.code = 1 => faulted
      BY DEF IInv, StartInv
    <2> QED
      BY <2>2, <2>3
  <1> QED
    BY <1>1, Invariance, PTL

\* tpm-stop.sh takes the daemons down in their order and leaves none behind, and deletes
\* NVChip under a simulator that is gone only.
THEOREM StopIsInOrder == Spec => []StopIsComplete
  <1>1. IInv => StopIsComplete
    <2> SUFFICES ASSUME IInv, inner.name = "stop"
                 PROVE  /\ inner.target = "simulator" \/ inner.at = "clean" => "broker" \notin up
                        /\ inner.at = "clean" => "simulator" \notin up
                        /\ inner.code = 0 => up \subseteq {"bus"} /\ (inner.option => ~nvchip)
      BY DEF StopIsComplete
    <2>1. StopInv /\ up \in SUBSET Daemon
      BY DEF IInv, InnerShape
    <2>2. inner.target = "simulator" \/ inner.at = "clean" => "broker" \notin up
      BY <2>1 DEF StopInv
    <2>3. inner.at = "clean" => "simulator" \notin up
      BY <2>1 DEF StopInv
    <2>4. inner.code = 0 => up \subseteq {"bus"}
      BY <2>1 DEF StopInv, Daemon
    <2>5. inner.code = 0 /\ inner.option = TRUE => nvchip = FALSE
      BY <2>1 DEF StopInv
    <2> QED
      BY <2>2, <2>3, <2>4, <2>5
  <1> QED
    BY <1>1, Invariance, PTL

\* The exit codes of the host's scripts tell what the container was while they ran,
\* whatever other terminals do to it meanwhile.
THEOREM CodesAreTrue == Spec => []CodesTellTheState
  <1>1. IInv => CodesTellTheState
    <2> SUFFICES ASSUME IInv, NEW t \in Terminal
                 PROVE  /\ host[t].name = "status" =>
                             /\ seen[t] = {"running"} => host[t].code \in {0, 99}
                             /\ seen[t] = {"stopped"} => host[t].code \in {1, 99}
                             /\ seen[t] = {"missing"} => host[t].code \in {2, 99}
                             /\ seen[t] = {"unreachable"} => host[t].code \in {4, 99}
                             /\ host[t].code = 0 => "running" \in seen[t]
                             /\ host[t].code = 2 => seen[t] \cap {"missing", "unreachable"} # {}
                        /\ host[t].name = "build" /\ host[t].code = 0 =>
                             seen[t] # {"unreachable"}
                        /\ host[t].name \in Run \cup Exec /\ host[t].code = 0 =>
                             "running" \in seen[t]
                        /\ host[t].name = "stop" /\ host[t].code = 0 =>
                             seen[t] \cap {"missing", "unreachable"} # {}
                        /\ host[t].name = "stop_keep" /\ host[t].code = 0 =>
                             seen[t] # {"running"}
      BY DEF CodesTellTheState
    <2>1. Witnessed(t)
      BY DEF IInv
    <2> QED
      BY <2>1 DEF Witnessed
  <1> QED
    BY <1>1, Invariance, PTL
=============================================================================
