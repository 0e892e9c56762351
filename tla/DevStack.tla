-------------------------------- MODULE DevStack --------------------------------
(***************************************************************************)
(* The scripts of the development stack: on the host, those that create,   *)
(* inspect and stop the container, from several terminals; inside it,      *)
(* tpm-start.sh and tpm-stop.sh, one at a time, over three daemons.        *)
(* Daemons die, the container restarts under a script, and Docker may be   *)
(* unreachable.  A script is modelled by the commands it waits for.        *)
(***************************************************************************)
EXTENDS Naturals, FiniteSets

CONSTANTS
    Terminal,     \* where scripts of the host are run
    MaxScripts,   \* scripts run
    MaxFaults     \* daemons that die, and changes of Docker's reachability

ASSUME StackAssumption == MaxScripts \in Nat /\ MaxFaults \in Nat

VARIABLES
    image,       \* whether the image has been built
    reachable,   \* whether Docker answers
    container,   \* "missing", "stopped" or "running"
    up,          \* daemons alive in it
    signalled,   \* those sent a signal by tpm-stop.sh
    busFiles,    \* what D-Bus left in /run/dbus
    nvchip,      \* the simulator's state file, on the host
    host,        \* script each terminal runs
    inner,       \* script inside the container
    \* for the properties
    seen,        \* what the container was while a terminal's script ran
    lost,        \* daemons that died since the starts were over, or were last looked at
    faulted,     \* whether something died while inner ran
    scripts, faults

dockerVars == <<image, reachable, container>>
daemonVars == <<up, signalled, busFiles, nvchip, lost, faulted>>
vars == <<dockerVars, daemonVars, host, inner, seen, scripts, faults>>

Daemon == {"simulator", "bus", "broker"}
Run == {"run", "run_foreground"}
Exec == {"exec_start", "exec_stop"}
HostScript == {"build", "stop", "stop_keep", "status"} \cup Run \cup Exec

\* code is 99 while the script runs.
Idle == [name |-> "none", at |-> "end", code |-> 0]
Started(name, at) == [name |-> name, at |-> at, code |-> 99]
NoInner == [name |-> "none", at |-> "end", target |-> "none", code |-> 0, option |-> FALSE]

View(ok, c) == IF ok THEN c ELSE "unreachable"

Init ==
    /\ image \in BOOLEAN /\ reachable = TRUE /\ container = "missing"
    /\ up = {} /\ signalled = {} /\ busFiles = {} /\ nvchip = FALSE
    /\ host = [t \in Terminal |-> Idle]
    /\ inner = NoInner
    /\ seen = [t \in Terminal |-> {}]
    /\ lost = {} /\ faulted = FALSE /\ scripts = 0 /\ faults = 0

\* Every terminal with a running script sees what becomes of the container.
Witness ==
    seen' = [t \in Terminal |-> IF host[t].code = 99
                                THEN seen[t] \cup {View(reachable', container')} ELSE seen[t]]

-----------------------------------------------------------------------------
(* Scripts of the host.  A definition named ..._Fault is the one after it with a
   mistake a programmer could make; the checks are run against it too, to see
   that they notice. *)

Begin(t, name) ==
    /\ host[t].code # 99 /\ scripts < MaxScripts
    /\ scripts' = scripts + 1
    /\ host' = [host EXCEPT ![t] = Started(name, IF name \in {"stop", "stop_keep", "status"}
                                                 THEN "info" ELSE "inspect")]
    /\ seen' = [seen EXCEPT ![t] = {View(reachable, container)}]
    /\ UNCHANGED <<dockerVars, daemonVars, inner, faults>>

At(t, names, at) == host[t].code = 99 /\ host[t].name \in names /\ host[t].at = at

Goto(t, at) == host' = [host EXCEPT ![t] = [@ EXCEPT !.at = at]]
Exit(t, code) == host' = [host EXCEPT ![t] = [@ EXCEPT !.at = "end", !.code = code]]

\* The container stops: with it go its processes, and the files of D-Bus stay.
Halted == /\ up' = {} /\ signalled' = {} /\ lost' = Daemon /\ faulted' = TRUE
          /\ inner' = NoInner

\* A step that changes nothing but the script.
Look == UNCHANGED <<dockerVars, daemonVars, inner, scripts, faults>> /\ Witness

\* docker build, if there is a Dockerfile; it may fail for reasons of its own.
build_image(t) ==
    /\ At(t, {"build"}, "inspect")
    /\ \E built \in BOOLEAN :
          /\ built => reachable
          /\ image' = (image \/ built)
          /\ Exit(t, IF built THEN 0 ELSE 1)
    /\ UNCHANGED <<reachable, container, daemonVars, inner, scripts, faults>> /\ Witness

\* docker info
info(t) ==
    /\ At(t, {"stop", "stop_keep", "status"}, "info")
    /\ IF reachable THEN Goto(t, "inspect") ELSE Exit(t, 4)
    /\ Look

\* docker inspect fails for a container that is missing and for a dead daemon.
known == reachable /\ container # "missing"

inspect_status(t) ==
    /\ At(t, {"status"}, "inspect")
    /\ IF known THEN Goto(t, "state") ELSE Exit(t, 2)
    /\ Look

inspect_stop(t) ==
    /\ At(t, {"stop", "stop_keep"}, "inspect")
    /\ IF known THEN Goto(t, "state") ELSE Exit(t, 0)
    /\ Look

inspect_exec(t) ==
    /\ At(t, Exec, "inspect")
    /\ IF known THEN Goto(t, "state") ELSE Exit(t, 1)
    /\ Look

inspect_run(t) ==
    /\ At(t, Run, "inspect")
    /\ Goto(t, IF known THEN "state" ELSE "image")
    /\ Look

\* The second inspect, of State.Running: set -e ends the script when it fails.
state_status(t) ==
    /\ At(t, {"status"}, "state")
    /\ Exit(t, IF known /\ container = "running" THEN 0 ELSE 1)
    /\ Look

state_stop(t) ==
    /\ At(t, {"stop", "stop_keep"}, "state")
    /\ IF ~known THEN Exit(t, 1)
       ELSE IF container = "running" THEN Goto(t, "docker_stop")
       ELSE IF host[t].name = "stop" THEN Goto(t, "docker_rm")
       ELSE Exit(t, 0)
    /\ Look

state_exec(t) ==
    /\ At(t, Exec, "state")
    /\ IF known /\ container = "running" THEN Goto(t, "directory") ELSE Exit(t, 1)
    /\ Look

\* docker exec test -d: the container may have been created without the repository.
exec_directory(t) ==
    /\ At(t, Exec, "directory")
    /\ \/ known /\ container = "running" /\ Goto(t, "docker_exec")
       \/ Exit(t, 1)
    /\ Look

state_run(t) ==
    /\ At(t, Run, "state")
    /\ IF ~known THEN Exit(t, 1)
       ELSE IF container = "running" THEN Exit(t, 0)
       ELSE Goto(t, "docker_start")
    /\ Look

image_inspect(t) ==
    /\ At(t, Run, "image")
    /\ IF reachable /\ image THEN Goto(t, "docker_run") ELSE Exit(t, 1)
    /\ Look

\* docker run, which fails if the name has been taken meanwhile.
docker_run(t) ==
    /\ At(t, Run, "docker_run")
    /\ IF reachable /\ container = "missing"
       THEN /\ container' = "running" /\ busFiles' = {}
            /\ IF host[t].name = "run" THEN Exit(t, 0) ELSE Goto(t, "attached")
       ELSE Exit(t, 125) /\ UNCHANGED <<container, busFiles>>
    /\ UNCHANGED <<image, reachable, up, signalled, nvchip, lost, faulted, inner, scripts, faults>>
    /\ Witness

\* In the foreground it ends with the container, whose code is free, or when the user
\* detaches.
foreground_ends(t) ==
    /\ At(t, {"run_foreground"}, "attached")
    /\ \/ Exit(t, 0)
       \/ ~(known /\ container = "running") /\ Exit(t, 137)
    /\ Look

docker_start(t) ==
    /\ At(t, Run, "docker_start")
    /\ IF known THEN container' = "running" /\ Exit(t, 0)
                ELSE Exit(t, 1) /\ UNCHANGED container
    /\ UNCHANGED <<image, reachable, daemonVars, inner, scripts, faults>>
    /\ Witness

\* Stopping a container that has stopped is no error.
docker_stop(t) ==
    /\ At(t, {"stop", "stop_keep"}, "docker_stop")
    /\ \/ /\ known
          /\ container' = "stopped"
          /\ IF container = "running" THEN Halted
             ELSE UNCHANGED <<up, signalled, lost, faulted, inner>>
          /\ IF host[t].name = "stop" THEN Goto(t, "docker_rm") ELSE Exit(t, 0)
       \/ ~known /\ Exit(t, 5) /\ UNCHANGED <<container, up, signalled, lost, faulted, inner>>
    /\ UNCHANGED <<image, reachable, busFiles, nvchip, scripts, faults>>
    /\ Witness

\* Taking any answer of docker rm for success.
rm_code_Fault(done) == 0

rm_code(done) == IF done THEN 0 ELSE 5

\* Removing one that runs is.
docker_rm(t) ==
    /\ At(t, {"stop"}, "docker_rm")
    /\ LET done == reachable /\ container = "stopped" IN
       /\ container' = IF done THEN "missing" ELSE container
       /\ Exit(t, rm_code(done))
    /\ UNCHANGED <<image, reachable, daemonVars, inner, scripts, faults>>
    /\ Witness

\* docker exec of a script in the container; its options are free.  The script on the
\* host becomes the command: what that ends with is the code of inner, and 0 here says
\* that it began.
docker_exec(t) ==
    /\ At(t, Exec, "docker_exec")
    /\ inner.code # 99
    /\ \/ /\ known /\ container = "running"
          /\ \E option \in BOOLEAN :
                inner' = IF host[t].name = "exec_start"
                         THEN [NoInner EXCEPT !.name = "start", !.at = "simulator", !.code = 99,
                                              !.option = option]
                         ELSE [NoInner EXCEPT !.name = "stop", !.at = "term", !.target = "broker",
                                              !.code = 99, !.option = option]
          /\ lost' = {} /\ faulted' = FALSE
          /\ Exit(t, 0)
       \/ /\ ~(known /\ container = "running")
          /\ Exit(t, 1) /\ UNCHANGED <<inner, lost, faulted>>
    /\ UNCHANGED <<dockerVars, up, signalled, busFiles, nvchip, scripts, faults>>
    /\ Witness
-----------------------------------------------------------------------------
(* tpm-start.sh; option: with D-Bus and the broker (TPMKIT_START_ABRMD) *)

AtInner(name, at) == inner.code = 99 /\ inner.name = name /\ inner.at = at
ThenInner(at) == inner' = [inner EXCEPT !.at = at]
EndInner(code) == inner' = [inner EXCEPT !.at = "end", !.code = code]

Outside == UNCHANGED <<dockerVars, host, seen, scripts, faults>>

\* The script goes on to its last checks.
StartsAreOver == ThenInner("final_simulator") /\ lost' = {}

start_simulator ==
    /\ AtInner("start", "simulator")
    /\ IF "simulator" \in up
       THEN ThenInner("bus") /\ UNCHANGED <<up, nvchip>>
       ELSE up' = up \cup {"simulator"} /\ nvchip' = TRUE /\ ThenInner("check_simulator")
    /\ UNCHANGED <<signalled, busFiles, lost, faulted>> /\ Outside

\* The check that follows two seconds after a start.
check_started(d, next) ==
    /\ AtInner("start", IF d = "simulator" THEN "check_simulator" ELSE "check_broker")
    /\ IF d \in up THEN ThenInner(next) ELSE EndInner(1)
    /\ UNCHANGED <<up, signalled, busFiles, nvchip, lost, faulted>> /\ Outside

\* What is stale without a daemon is removed first ...
cleaned(files) == {}

\* ... since dbus-daemon refuses to start over a pid file; set -e ends the script
\* then.
start_bus ==
    /\ AtInner("start", "bus")
    /\ \/ ~inner.option /\ StartsAreOver /\ UNCHANGED <<up, busFiles>>
       \/ /\ inner.option /\ "bus" \in up
          /\ ThenInner("broker") /\ UNCHANGED <<up, busFiles, lost>>
       \/ /\ inner.option /\ "bus" \notin up /\ UNCHANGED lost
          /\ IF "pid" \in cleaned(busFiles)
             THEN EndInner(1) /\ busFiles' = cleaned(busFiles) /\ UNCHANGED up
             ELSE ThenInner("broker") /\ busFiles' = {"socket", "pid"} /\ up' = up \cup {"bus"}
    /\ UNCHANGED <<signalled, nvchip, faulted>> /\ Outside

\* The broker exits at once without a bus or a simulator.
start_broker ==
    /\ AtInner("start", "broker")
    /\ IF "broker" \in up THEN ThenInner("own_socket") /\ UNCHANGED up
       ELSE /\ ThenInner("check_broker")
            /\ up' = IF {"bus", "simulator"} \subseteq up THEN up \cup {"broker"} ELSE up
    /\ UNCHANGED <<signalled, busFiles, nvchip, lost, faulted>> /\ Outside

own_socket ==
    /\ AtInner("start", "own_socket")
    /\ IF "socket" \in busFiles THEN StartsAreOver ELSE EndInner(1) /\ UNCHANGED lost
    /\ UNCHANGED <<up, signalled, busFiles, nvchip, faulted>> /\ Outside

\* Trusting the check that followed the start of the simulator.
final_check_Fault(d) ==
    /\ AtInner("start", IF d = "simulator" THEN "final_simulator" ELSE "final_broker")
    /\ IF d = "simulator" /\ inner.option THEN ThenInner("final_broker")
       ELSE EndInner(IF d = "broker" /\ d \notin up THEN 1 ELSE 0)
    /\ UNCHANGED daemonVars /\ Outside

final_check(d) ==
    /\ AtInner("start", IF d = "simulator" THEN "final_simulator" ELSE "final_broker")
    /\ IF d \notin up THEN EndInner(1)
       ELSE IF d = "simulator" /\ inner.option THEN ThenInner("final_broker")
       ELSE EndInner(0)
    /\ lost' = lost \ {d}
    /\ UNCHANGED <<up, signalled, busFiles, nvchip, faulted>> /\ Outside

tpm_start ==
    \/ start_simulator \/ check_started("simulator", "bus")
    \/ start_bus
    \/ start_broker \/ check_started("broker", "own_socket")
    \/ own_socket
    \/ \E d \in {"simulator", "broker"} : final_check(d)

-----------------------------------------------------------------------------
(* tpm-stop.sh; option: --clean *)

\* stop_matching_cmdline of the daemon that is the target.
Stopped(d) == inner' = IF d = "broker" THEN [inner EXCEPT !.at = "term", !.target = "simulator"]
                                       ELSE [inner EXCEPT !.at = "clean", !.target = "none"]

send_term ==
    /\ AtInner("stop", "term")
    /\ IF inner.target \notin up THEN Stopped(inner.target) /\ UNCHANGED signalled
       ELSE signalled' = signalled \cup {inner.target} /\ ThenInner("poll")
    /\ UNCHANGED <<up, busFiles, nvchip, lost, faulted>> /\ Outside

\* Not waiting for what was asked to stop.
poll_Fault ==
    /\ AtInner("stop", "poll")
    /\ Stopped(inner.target)
    /\ UNCHANGED daemonVars /\ Outside

\* The fifteen polls: they find it gone, or the last one does not and it is killed.
poll ==
    /\ AtInner("stop", "poll")
    /\ IF inner.target \in up THEN ThenInner("killed") ELSE Stopped(inner.target)
    /\ UNCHANGED daemonVars /\ Outside

after_kill ==
    /\ AtInner("stop", "killed")
    /\ IF inner.target \in up THEN EndInner(1) ELSE Stopped(inner.target)
    /\ UNCHANGED daemonVars /\ Outside

delete_nvchip ==
    /\ AtInner("stop", "clean")
    /\ nvchip' = (nvchip /\ ~inner.option)
    /\ EndInner(0)
    /\ UNCHANGED <<up, signalled, busFiles, lost, faulted>> /\ Outside

tpm_stop == send_term \/ poll \/ after_kill \/ delete_nvchip

-----------------------------------------------------------------------------
(* The environment *)

\* A daemon does what a signal asks, in its own time ...
Obeys(d) ==
    /\ d \in signalled \cap up
    /\ up' = up \ {d} /\ signalled' = signalled \ {d} /\ lost' = lost \cup {d} /\ faulted' = TRUE
    /\ UNCHANGED <<dockerVars, busFiles, nvchip, host, inner, seen, scripts, faults>>

\* ... or crashes.
Dies(d) ==
    /\ d \in up /\ faults < MaxFaults
    /\ up' = up \ {d} /\ signalled' = signalled \ {d} /\ lost' = lost \cup {d} /\ faulted' = TRUE
    /\ faults' = faults + 1
    /\ UNCHANGED <<dockerVars, busFiles, nvchip, host, inner, seen, scripts>>

\* The container exits and stays.
ContainerDies ==
    /\ container = "running" /\ faults < MaxFaults
    /\ container' = "stopped" /\ Halted
    /\ faults' = faults + 1
    /\ UNCHANGED <<image, reachable, busFiles, nvchip, host, scripts>>
    /\ Witness

DockerChanges ==
    /\ faults < MaxFaults
    /\ reachable' = ~reachable
    /\ faults' = faults + 1
    /\ UNCHANGED <<image, container, daemonVars, host, inner, scripts>>
    /\ Witness

Next ==
    \/ \E t \in Terminal :
          \/ \E name \in HostScript : Begin(t, name)
          \/ build_image(t) \/ info(t)
          \/ inspect_status(t) \/ inspect_stop(t) \/ inspect_exec(t) \/ inspect_run(t)
          \/ state_status(t) \/ state_stop(t) \/ state_exec(t) \/ state_run(t)
          \/ exec_directory(t)
          \/ image_inspect(t) \/ docker_run(t) \/ foreground_ends(t) \/ docker_start(t)
          \/ docker_stop(t) \/ docker_rm(t) \/ docker_exec(t)
    \/ tpm_start \/ tpm_stop
    \/ \E d \in Daemon : Obeys(d) \/ Dies(d)
    \/ ContainerDies \/ DockerChanges

Spec == Init /\ [][Next]_vars

-----------------------------------------------------------------------------
(* Properties *)

\* tpm-start.sh can be believed (its last checks): after exit code 0, a daemon it
\* answers for is up unless it died after everything had been started and the script had
\* looked for the last time.  And it repairs whatever crashes and restarts have left
\* behind (the stale files of D-Bus): after exit code 1 something died while it ran.
StartIsTruthful ==
    inner.name = "start" =>
        /\ inner.code = 0 =>
              {"simulator"} \cup (IF inner.option THEN {"broker"} ELSE {}) \subseteq up \cup lost
        /\ inner.code = 1 => faulted

\* tpm-stop.sh stops the broker before the simulator under it, deletes NVChip only
\* under a simulator that is gone, and leaves neither daemon behind when it
\* succeeds.
StopIsComplete ==
    inner.name = "stop" =>
        /\ inner.target = "simulator" \/ inner.at = "clean" => "broker" \notin up
        /\ inner.at = "clean" => "simulator" \notin up
        /\ inner.code = 0 => up \subseteq {"bus"} /\ (inner.option => ~nvchip)

\* The exit codes documented for the host scripts: while nothing else happened to the
\* container, the code of status is that of its state; and a code of success says of
\* every script what the container was at some time while it ran, or that Docker
\* could not tell; of the one that builds the image, that Docker answered.
CodesTellTheState ==
    \A t \in Terminal :
        LET was == seen[t]
            code == host[t].code
        IN
        /\ host[t].name = "status" =>
              /\ was = {"running"} => code \in {0, 99}
              /\ was = {"stopped"} => code \in {1, 99}
              /\ was = {"missing"} => code \in {2, 99}
              /\ was = {"unreachable"} => code \in {4, 99}
              /\ code = 0 => "running" \in was
              /\ code = 2 => was \cap {"missing", "unreachable"} # {}
        /\ host[t].name = "build" /\ code = 0 => was # {"unreachable"}
        /\ host[t].name \in Run \cup Exec /\ code = 0 => "running" \in was
        /\ host[t].name = "stop" /\ code = 0 => was \cap {"missing", "unreachable"} # {}
        /\ host[t].name = "stop_keep" /\ code = 0 => was # {"running"}
=============================================================================
