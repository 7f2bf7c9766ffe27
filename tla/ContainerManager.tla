-------------------------- MODULE ContainerManager --------------------------
(***************************************************************************)
(* The root container service (tools/actions/container_manager.py) with    *)
(* the hardware requests of the guest it serves                            *)
(* (tools/services/hardware_manager.py), the host resources it owns, and   *)
(* the root command line that works on the same resources from a process   *)
(* of its own.                                                             *)
(*                                                                         *)
(* Both the D-Bus methods and the guest's binder transactions are          *)
(* dispatched by GLib's default main context, which one thread owns at a   *)
(* time: the service runs one handler at a time, but a handler is many     *)
(* steps long and the host, the guest and the command line move between    *)
(* its steps.  "args" is the argparse namespace of a process, so the       *)
(* session it tracks is one variable per process.                          *)
(***************************************************************************)
EXTENDS Naturals, FiniteSets

CONSTANTS Users,            \* unprivileged host users
          Root,             \* uid 0
          Sessions,         \* session processes, each with a pid of its own
          Owner,            \* the user each session process runs as
          NoSession,        \* "session" not in args
          FaultSets,        \* what may go wrong together, subsets of FaultKinds
          SensordInstalled, \* which("waydroid-sensord") finds the daemon
          MaxTries,         \* polls of a wait loop (10 and 30 in the code)
          MaxSensors,       \* bound: sensor daemons alive at once
          MaxInbox          \* bound: guest requests waiting to be dispatched, by faults

\* "command": a host command exits non-zero;  "slow": the container changes
\* state later than a wait loop is ready to wait;  "guest": Android shuts down
\* or dies by itself;  "crash": the service is killed and started again;
\* "cli": root runs waydroid commands beside the service.
FaultKinds == {"command", "slow", "guest", "crash", "cli"}

ASSUME ConstantsAssumption ==
  /\ Root \notin Users
  /\ NoSession \notin Sessions
  /\ Owner \in [Sessions -> Users]
  /\ FaultSets \subseteq SUBSET FaultKinds
  /\ SensordInstalled \in BOOLEAN
  /\ MaxTries \in Nat \ {0}
  /\ MaxSensors \in Nat
  /\ MaxInbox \in [FaultSets -> Nat]

VARIABLES faults,       \* what may go wrong in this behaviour; it never changes
          initialized,  \* waydroid.cfg and the rootfs directory exist
          up,           \* the service owns id.waydro.Container
          prepared,     \* prepared_drivers
          session,      \* args.session of each process
          pc,           \* the step each process is about to take
          tries,        \* tries of the wait loop each process is in
          job,          \* the arguments of the service's current handler
          inbox,        \* requests accepted but not dispatched yet
          hardware,     \* the IHardware worker: told to run, in its loop
          lxc,          \* what lxc-info -sH prints
          starters,     \* lxc-start processes that have created no container
                        \* yet, each named by the session it was configured for
          config,       \* the session the LXC configuration was written for
          guest,        \* the session the container was last configured for
          rootfs,       \* what is mounted at the container's rootfs
          network,      \* /run/waydroid-lxc/network_up
          sensors,      \* waydroid-sensord processes
          notified      \* the sessions each process has sent SIGUSR1 to

service   == <<faults, initialized, up, prepared>>
container == <<lxc, starters, guest>>
host      == <<container, config, rootfs, network, sensors>>
vars      == <<service, session, pc, tries, job, inbox, hardware, host, notified>>

Service == "service"
Cli     == "cli"
Procs   == {Service, Cli}

StartSteps   == {"drivers", "network", "sensors", "configure", "mount", "boot",
                 "booted", "hardware", "track"}
StopSteps    == {"unregister", "status", "kill", "killed", "unnetwork",
                 "unsensors", "umount", "untrack"}
RestartSteps == {"rekill", "reboot", "rebooted"}
FreezeSteps  == {"freeze", "frozen", "unfreeze", "unfrozen"}
GuestSteps   == {"upkill", "upumount", "replace", "remount", "await_shutdown",
                 "await_restart", "selfcall"}
CliSteps     == StopSteps \cup RestartSteps \cup FreezeSteps
Steps        == StartSteps \cup CliSteps \cup GuestSteps \cup {"exit", "idle"}

LxcStates    == {"STOPPED", "STARTING", "RUNNING", "FROZEN", "STOPPING"}
RootfsStates == {"none", "partial", "full"}
\* ServiceRunner's flag, and a worker that is registered with Android, whichever
\* runs, because it is in its loop.
HardwareStates == {"wanted", "looping"}
GuestRequests == {"suspend", "reboot", "upgrade", "shutdown", "restart"}
Jobs  == [session : Sessions \cup {NoSession}, quit : BOOLEAN, exit : BOOLEAN]
NoJob == [session |-> NoSession, quit |-> TRUE, exit |-> FALSE]

TypeOK ==
  /\ faults \in FaultSets
  /\ initialized \in BOOLEAN
  /\ up \in BOOLEAN
  /\ prepared \in BOOLEAN
  /\ session \in [Procs -> Sessions \cup {NoSession}]
  /\ pc \in [Procs -> Steps]
  /\ tries \in [Procs -> 0..MaxTries]
  /\ job \in Jobs
  /\ inbox \subseteq GuestRequests \cup {"stop"}
  /\ hardware \subseteq HardwareStates
  /\ lxc \in LxcStates
  /\ starters \subseteq Sessions
  /\ config \in Sessions \cup {NoSession}
  /\ guest \in Sessions \cup {NoSession}
  /\ rootfs \in RootfsStates
  /\ network \in BOOLEAN
  /\ sensors \in 0..MaxSensors
  /\ notified \in [Procs -> SUBSET Sessions]

Init ==
  /\ faults \in FaultSets
  /\ initialized \in BOOLEAN
  /\ up = FALSE
  /\ prepared = FALSE
  /\ session = [p \in Procs |-> NoSession]
  /\ pc = [p \in Procs |-> "idle"]
  /\ tries = [p \in Procs |-> 0]
  /\ job = NoJob
  /\ inbox = {}
  /\ hardware = {}
  /\ lxc = "STOPPED"
  /\ starters = {}
  /\ config = NoSession
  /\ guest = NoSession
  /\ rootfs = "none"
  /\ network = FALSE
  /\ sensors = 0
  /\ notified = [p \in Procs |-> {}]

-----------------------------------------------------------------------------
(* Control: a process goes to its next step, or its handler ends, by        *)
(* returning or by an exception nothing catches.  The handler of SIGTERM    *)
(* quits the main loop afterwards.                                          *)

Goto(p, step) == /\ pc' = [pc EXCEPT ![p] = step]
                 /\ tries' = [tries EXCEPT ![p] = 0]
                 /\ UNCHANGED job

Finish(p) ==
  /\ tries' = [tries EXCEPT ![p] = 0]
  /\ IF p = Service /\ job.exit
       THEN /\ pc' = [pc EXCEPT ![p] = "exit"]
            /\ UNCHANGED job
       ELSE /\ pc' = [pc EXCEPT ![p] = "idle"]
            /\ job' = IF p = Service THEN NoJob ELSE job

MayFail(fault) == fault \in faults

\* helpers.lxc.status: an lxc-info that fails is taken for STOPPED.
Reads(state)  == lxc = state \/ (state = "STOPPED" /\ MayFail("command"))
Misses(state) == lxc # state \/ (state # "STOPPED" /\ MayFail("command"))

\* The container is on its way to another state.
Settling == starters # {} \/ lxc \in {"STARTING", "STOPPING"}

\* A slip the runs must notice: a wait loop that forgets to count its tries.
PollAgainForever(p, state) ==
  /\ Misses(state)
  /\ MayFail("slow") \/ ~Settling
  /\ UNCHANGED <<tries, pc, job>>

\* A poll of a wait loop that has not seen what it waits for and sleeps.  On a
\* host that is not slow no wait loop gives up on a container that is settling.
PollAgain(p, state) ==
  /\ Misses(state)
  /\ tries[p] < MaxTries
  /\ MayFail("slow") \/ ~Settling
  /\ tries' = [tries EXCEPT ![p] = @ + 1]
  /\ UNCHANGED <<pc, job>>

TimedOut(p, state) == Misses(state) /\ tries[p] >= MaxTries

-----------------------------------------------------------------------------
(* The host's commands, each with what it does when it succeeds.            *)

\* lxc-start reads the configuration when it is spawned; unless it is slow to
\* look, it refuses a container that is there.
LxcStart == /\ starters' = IF lxc = "STOPPED" \/ MayFail("slow")
                              THEN starters \cup ({config} \ {NoSession})
                              ELSE starters
            /\ UNCHANGED <<lxc, guest, config, rootfs, network, sensors>>

\* lxc-stop -k; it fails on a container that is not running.
LxcStopFails == lxc = "STOPPED" \/ MayFail("command")
LxcStop == /\ lxc # "STOPPED"
           /\ lxc' \in IF MayFail("slow") THEN {"STOPPED", "STOPPING"} ELSE {"STOPPED"}
           /\ UNCHANGED <<starters, guest, config, rootfs, network, sensors>>

\* The mounts below the rootfs cannot be undone while the container uses them.
RootfsBusy == rootfs # "none" /\ lxc # "STOPPED"

\* mount_rootfs first unmounts what a start that failed has left behind.
MountRootfs == /\ ~RootfsBusy
               /\ rootfs' = "full"
               /\ UNCHANGED <<container, config, network, sensors>>
MountRootfsFails ==
  /\ \/ RootfsBusy /\ UNCHANGED rootfs
     \/ ~RootfsBusy /\ MayFail("command") /\ rootfs' \in {rootfs, "partial", "none"}
  /\ UNCHANGED <<container, config, network, sensors>>

UmountRootfs == /\ ~RootfsBusy
                /\ rootfs' = "none"
                /\ UNCHANGED <<container, config, network, sensors>>
UmountRootfsFails ==
  /\ rootfs # "none"
  /\ \/ RootfsBusy /\ UNCHANGED rootfs
     \/ ~RootfsBusy /\ MayFail("command") /\ rootfs' \in {rootfs, "partial"}
  /\ UNCHANGED <<container, config, network, sensors>>

-----------------------------------------------------------------------------
(* do_start: any step that raises leaves what was done before it.           *)

StartDrivers ==
  /\ pc[Service] = "drivers"
  /\ \/ prepared' = TRUE /\ Goto(Service, "network")
     \/ ~prepared /\ MayFail("command") /\ UNCHANGED prepared /\ Finish(Service)
  /\ UNCHANGED <<faults, initialized, up, session, inbox, hardware, host, notified>>

StartNetworking ==
  /\ pc[Service] = "network"
  /\ \/ network' = TRUE /\ Goto(Service, "sensors")
     \/ MayFail("command") /\ UNCHANGED network /\ Finish(Service)
  /\ UNCHANGED <<service, session, inbox, hardware, container, config, rootfs, sensors,
                 notified>>

StartSensors ==
  /\ pc[Service] = "sensors"
  /\ sensors' = IF SensordInstalled THEN sensors + 1 ELSE sensors
  /\ Goto(Service, "configure")
  /\ UNCHANGED <<service, session, inbox, hardware, container, config, rootfs, network,
                 notified>>

\* A slip: a configuration that exists is not written again.
StartConfigureOnce ==
  /\ pc[Service] = "configure"
  /\ config' = IF config = NoSession THEN job.session ELSE config
  /\ Goto(Service, "mount")
  /\ UNCHANGED <<service, session, inbox, hardware, container, rootfs, network,
                 sensors, notified>>

\* cgroups, device permissions and the session's LXC configuration.
StartConfigure ==
  /\ pc[Service] = "configure"
  /\ \/ config' = job.session /\ Goto(Service, "mount")
     \/ MayFail("command") /\ config' \in {config, job.session} /\ Finish(Service)
  /\ UNCHANGED <<service, session, inbox, hardware, container, rootfs, network,
                 sensors, notified>>

StartMount ==
  /\ pc[Service] = "mount"
  /\ \/ MountRootfs /\ Goto(Service, "boot")
     \/ MountRootfsFails /\ Finish(Service)
  /\ UNCHANGED <<service, session, inbox, hardware, notified>>

\* set_aidl_version and the spawn of lxc-start
StartBoot ==
  /\ pc[Service] = "boot"
  /\ \/ LxcStart /\ Goto(Service, "booted")
     \/ MayFail("command") /\ UNCHANGED host /\ Finish(Service)
  /\ UNCHANGED <<service, session, inbox, hardware, notified>>

StartBooted ==
  /\ pc[Service] = "booted"
  /\ \/ Reads("RUNNING") /\ Goto(Service, "hardware")
     \/ PollAgain(Service, "RUNNING")
     \/ TimedOut(Service, "RUNNING") /\ Finish(Service)
  /\ UNCHANGED <<service, session, inbox, hardware, host, notified>>

\* The worker is told to run, and registers when it gets there.
StartHardware ==
  /\ pc[Service] = "hardware"
  /\ hardware' = hardware \cup {"wanted"}
  /\ Goto(Service, "track")
  /\ UNCHANGED <<service, session, inbox, host, notified>>

StartTrack ==
  /\ pc[Service] = "track"
  /\ session' = [session EXCEPT ![Service] = job.session]
  /\ Finish(Service)
  /\ UNCHANGED <<service, inbox, hardware, host, notified>>

DoStart == \/ StartDrivers \/ StartNetworking \/ StartSensors \/ StartConfigure
           \/ StartMount \/ StartBoot \/ StartBooted \/ StartHardware \/ StartTrack

-----------------------------------------------------------------------------
(* stop: run by the service and by a root process of the command line; an   *)
(* exception ends it silently wherever it is.                               *)

\* The flag is lowered; a worker in its loop leaves it later, and one that was
\* about to enter it is not heard of again: it enters, and stays (RunnerLostQuit).
Unwanted == IF "wanted" \in hardware THEN {hardware \ {"wanted"}, {"looping"}} ELSE {hardware}

StopUnregister(p) ==
  /\ pc[p] = "unregister"
  /\ hardware' \in IF p = Service THEN Unwanted ELSE {hardware}
  /\ Goto(p, "status")
  /\ UNCHANGED <<service, session, inbox, host, notified>>

\* A slip: only a container that is running is killed.
StopStatusRunning(p) ==
  /\ pc[p] = "status"
  /\ \/ lxc # "RUNNING" /\ Goto(p, "unnetwork")
     \/ lxc = "RUNNING" /\ Goto(p, "kill")
  /\ UNCHANGED <<service, session, inbox, hardware, host, notified>>

StopStatus(p) ==
  /\ pc[p] = "status"
  /\ \/ Reads("STOPPED") /\ Goto(p, "unnetwork")
     \/ Misses("STOPPED") /\ Goto(p, "kill")
  /\ UNCHANGED <<service, session, inbox, hardware, host, notified>>

StopKill(p) ==
  /\ pc[p] = "kill"
  /\ \/ LxcStop /\ Goto(p, "killed")
     \/ LxcStopFails /\ UNCHANGED host /\ Finish(p)
  /\ UNCHANGED <<service, session, inbox, hardware, notified>>

\* A container that does not stop in time does not keep the rest from being
\* cleaned up.
StopKilled(p) ==
  /\ pc[p] = "killed"
  /\ \/ Reads("STOPPED") /\ Goto(p, "unnetwork")
     \/ PollAgain(p, "STOPPED")
     \/ TimedOut(p, "STOPPED") /\ Goto(p, "unnetwork")
  /\ UNCHANGED <<service, session, inbox, hardware, host, notified>>

StopNetworking(p) ==
  /\ pc[p] = "unnetwork"
  /\ network' \in IF MayFail("command") THEN {FALSE, network} ELSE {FALSE}
  /\ Goto(p, "unsensors")
  /\ UNCHANGED <<service, session, inbox, hardware, container, config, rootfs, sensors,
                 notified>>

\* A slip: the check for the daemon's binary is the wrong way round.
StopSensorsInverted(p) ==
  /\ pc[p] = "unsensors"
  /\ sensors' = IF SensordInstalled THEN sensors ELSE 0
  /\ Goto(p, "umount")
  /\ UNCHANGED <<service, session, inbox, hardware, container, config, rootfs, network,
                 notified>>

StopSensors(p) ==
  /\ pc[p] = "unsensors"
  /\ sensors' = 0
  /\ Goto(p, "umount")
  /\ UNCHANGED <<service, session, inbox, hardware, container, config, rootfs, network,
                 notified>>

\* A slip: an unmount that fails is ignored like the other clean-up.
StopUmountBestEffort(p) ==
  /\ pc[p] = "umount"
  /\ UmountRootfs \/ UmountRootfsFails
  /\ Goto(p, "untrack")
  /\ UNCHANGED <<service, session, inbox, hardware, notified>>

\* A slip: the rootfs stays mounted for the next start unless the session is to quit.
StopUmountOnQuit(p) ==
  /\ pc[p] = "umount"
  /\ \/ p = Service /\ ~job.quit /\ UNCHANGED host /\ Goto(p, "untrack")
     \/ /\ p = Cli \/ job.quit
        /\ \/ UmountRootfs /\ Goto(p, "untrack")
           \/ UmountRootfsFails /\ Finish(p)
  /\ UNCHANGED <<service, session, inbox, hardware, notified>>

StopUmount(p) ==
  /\ pc[p] = "umount"
  /\ \/ UmountRootfs /\ Goto(p, "untrack")
     \/ UmountRootfsFails /\ Finish(p)
  /\ UNCHANGED <<service, session, inbox, hardware, notified>>

\* A slip: the session is forgotten only when it is terminated.
StopUntrackQuitOnly(p) ==
  /\ pc[p] = "untrack"
  /\ IF session[p] # NoSession /\ (p = Cli \/ job.quit)
       THEN /\ notified' = [notified EXCEPT ![p] = @ \cup {session[p]}]
            /\ session' = [session EXCEPT ![p] = NoSession]
       ELSE UNCHANGED <<notified, session>>
  /\ Finish(p)
  /\ UNCHANGED <<service, inbox, hardware, host>>

\* Root's command line always terminates the session it knows of.
StopUntrack(p) ==
  /\ pc[p] = "untrack"
  /\ notified' = IF session[p] # NoSession /\ (p = Cli \/ job.quit)
                   THEN [notified EXCEPT ![p] = @ \cup {session[p]}]
                   ELSE notified
  /\ session' = [session EXCEPT ![p] = NoSession]
  /\ Finish(p)
  /\ UNCHANGED <<service, inbox, hardware, host>>

Stop(p) == \/ StopUnregister(p) \/ StopStatus(p) \/ StopKill(p) \/ StopKilled(p)
           \/ StopNetworking(p) \/ StopSensors(p) \/ StopUmount(p) \/ StopUntrack(p)

-----------------------------------------------------------------------------
(* Restart, reboot and upgrade: the container is stopped and started again  *)
(* below the session, which stays tracked.                                  *)

RestartKill(p) ==
  /\ pc[p] = "rekill"
  /\ \/ LxcStop /\ Goto(p, "reboot")
     \/ LxcStopFails /\ UNCHANGED host /\ Finish(p)
  /\ UNCHANGED <<service, session, inbox, hardware, notified>>

RestartBoot(p) ==
  /\ pc[p] = "reboot"
  /\ \/ LxcStart /\ Goto(p, "rebooted")
     \/ MayFail("command") /\ UNCHANGED host /\ Finish(p)
  /\ UNCHANGED <<service, session, inbox, hardware, notified>>

RestartBooted(p) ==
  /\ pc[p] = "rebooted"
  /\ \/ Reads("RUNNING") /\ Finish(p)
     \/ PollAgain(p, "RUNNING")
     \/ TimedOut(p, "RUNNING") /\ Finish(p)
  /\ UNCHANGED <<service, session, inbox, hardware, host, notified>>

Restart(p) == RestartKill(p) \/ RestartBoot(p) \/ RestartBooted(p)

UpgradeKill ==
  /\ pc[Service] = "upkill"
  /\ \/ LxcStop /\ Goto(Service, "upumount")
     \/ LxcStopFails /\ UNCHANGED host /\ Finish(Service)
  /\ UNCHANGED <<service, session, inbox, hardware, notified>>

UpgradeUmount ==
  /\ pc[Service] = "upumount"
  /\ \/ UmountRootfs /\ Goto(Service, "replace")
     \/ UmountRootfsFails /\ Finish(Service)
  /\ UNCHANGED <<service, session, inbox, hardware, notified>>

UpgradeReplace ==
  /\ pc[Service] = "replace"
  /\ \/ Goto(Service, "remount")
     \/ MayFail("command") /\ Finish(Service)
  /\ UNCHANGED <<service, session, inbox, hardware, host, notified>>

\* args.session raises when no session is tracked any more.
UpgradeRemount ==
  /\ pc[Service] = "remount"
  /\ \/ session[Service] # NoSession /\ MountRootfs /\ Goto(Service, "reboot")
     \/ session[Service] # NoSession /\ MountRootfsFails /\ Finish(Service)
     \/ session[Service] = NoSession /\ UNCHANGED host /\ Finish(Service)
  /\ UNCHANGED <<service, session, inbox, hardware, notified>>

Upgrade == UpgradeKill \/ UpgradeUmount \/ UpgradeReplace \/ UpgradeRemount

-----------------------------------------------------------------------------
(* Freezing, and the guest's other requests.                                *)

FreezeContainer(p) ==
  /\ pc[p] = "freeze"
  /\ \/ /\ lxc = "RUNNING"
        /\ lxc' = "FROZEN"
        /\ Goto(p, "frozen")
     \/ /\ lxc # "RUNNING" \/ MayFail("command")
        /\ UNCHANGED lxc
        /\ Finish(p)
  /\ UNCHANGED <<service, session, inbox, hardware, starters, guest, config, rootfs,
                 network, sensors, notified>>

UnfreezeContainer(p) ==
  /\ pc[p] = "unfreeze"
  /\ \/ /\ lxc = "FROZEN"
        /\ lxc' = "RUNNING"
        /\ Goto(p, "unfrozen")
     \/ /\ lxc # "FROZEN" \/ MayFail("command")
        /\ UNCHANGED lxc
        /\ Finish(p)
  /\ UNCHANGED <<service, session, inbox, hardware, starters, guest, config, rootfs,
                 network, sensors, notified>>

FreezeWait(p, step, state) ==
  /\ pc[p] = step
  /\ \/ Reads(state) /\ Finish(p)
     \/ PollAgain(p, state)
     \/ TimedOut(p, state) /\ Finish(p)
  /\ UNCHANGED <<service, session, inbox, hardware, host, notified>>

Freeze(p) == FreezeContainer(p) \/ FreezeWait(p, "frozen", "FROZEN")
Unfreeze(p) == UnfreezeContainer(p) \/ FreezeWait(p, "unfrozen", "RUNNING")

\* shutdownRequest waits for Android to be down, then starts it again or stops
\* the session.
AwaitShutdown(step, next) ==
  /\ pc[Service] = step
  /\ \/ Reads("STOPPED") /\ Goto(Service, next)
     \/ PollAgain(Service, "STOPPED")
     \/ TimedOut(Service, "STOPPED") /\ Finish(Service)
  /\ UNCHANGED <<service, session, inbox, hardware, host, notified>>

ShutdownRequest == \/ AwaitShutdown("await_shutdown", "unregister")
                   \/ AwaitShutdown("await_restart", "reboot")

\* suspend with suspend_action = stop: root has no session bus, so the service
\* calls Stop on itself over the system bus.  The call cannot be answered
\* while its caller waits in a handler: it times out, and is served later.
SuspendSelfCall ==
  /\ pc[Service] = "selfcall"
  /\ inbox' = inbox \cup {"stop"}
  /\ Finish(Service)
  /\ UNCHANGED <<service, session, hardware, host, notified>>

ServiceStep == \/ DoStart \/ Stop(Service) \/ Restart(Service) \/ Upgrade
               \/ Freeze(Service) \/ Unfreeze(Service)
               \/ ShutdownRequest \/ SuspendSelfCall

-----------------------------------------------------------------------------
(* What the service's main loop dispatches when no handler runs.            *)

Idle == up /\ pc[Service] = "idle"

Dispatch(step, j) ==
  /\ Idle
  /\ pc' = [pc EXCEPT ![Service] = step]
  /\ job' = j
  /\ UNCHANGED <<service, session, tries, hardware, host, notified>>

\* A slip: a session is not asked whether there is another one.
DbusStartUnchecked(s, user) ==
  /\ user \in {Root, Owner[s]}
  /\ initialized
  /\ sensors < MaxSensors
  /\ Dispatch("drivers", [NoJob EXCEPT !.session = s])
  /\ UNCHANGED inbox

\* Start is refused for another user's session; so is a second session.
DbusStart(s, user) ==
  /\ user \in {Root, Owner[s]}
  /\ initialized
  /\ session[Service] = NoSession
  /\ sensors < MaxSensors
  /\ Dispatch("drivers", [NoJob EXCEPT !.session = s])
  /\ UNCHANGED inbox

\* _validate_session_owner
MayControl(user) ==
  \/ user = Root
  \/ session[Service] # NoSession /\ user = Owner[session[Service]]

DbusStop(user, quit) ==
  /\ MayControl(user)
  /\ initialized
  /\ Dispatch("unregister", [NoJob EXCEPT !.quit = quit])
  /\ UNCHANGED inbox

DbusFreeze(user) ==
  /\ MayControl(user)
  /\ initialized
  /\ Dispatch("freeze", NoJob)
  /\ UNCHANGED inbox

DbusUnfreeze(user) ==
  /\ MayControl(user)
  /\ initialized
  /\ Dispatch("unfreeze", NoJob)
  /\ UNCHANGED inbox

\* The first step of each guest request's handler; suspend depends on the
\* suspend_action configured.
Handlers(request) ==
  CASE request = "suspend"  -> {"freeze", "selfcall"}
    [] request = "reboot"   -> {"rekill"}
    [] request = "upgrade"  -> {"upkill"}
    [] request = "shutdown" -> {"await_shutdown"}
    [] request = "restart"  -> {"await_restart"}
    [] request = "stop"     -> {"unregister"}

ServeInbox ==
  \E request \in inbox :
    /\ inbox' = inbox \ {request}
    /\ \E step \in Handlers(request) : Dispatch(step, NoJob)

\* SIGTERM or SIGINT: stop, whatever it raises, then leave the main loop.
Sigterm ==
  /\ Dispatch(IF initialized THEN "unregister" ELSE "exit", [NoJob EXCEPT !.exit = TRUE])
  /\ UNCHANGED inbox

\* What dies with the process; the host's resources stay as they are.
Down ==
  /\ up' = FALSE
  /\ prepared' = FALSE
  /\ session' = [session EXCEPT ![Service] = NoSession]
  /\ pc' = [pc EXCEPT ![Service] = "idle"]
  /\ tries' = [tries EXCEPT ![Service] = 0]
  /\ job' = NoJob
  /\ inbox' = {}
  /\ hardware' = {}
  /\ UNCHANGED <<faults, initialized, host, notified>>

Exit  == pc[Service] = "exit" /\ Down
Crash == MayFail("crash") /\ up /\ Down

ServiceUp ==
  /\ ~up
  /\ up' = TRUE
  /\ UNCHANGED <<faults, initialized, prepared, session, pc, tries, job, inbox,
                 hardware, host, notified>>

Dispatches ==
  \/ \E s \in Sessions, user \in Users \cup {Root} : DbusStart(s, user)
  \/ \E user \in Users \cup {Root}, quit \in BOOLEAN : DbusStop(user, quit)
  \/ \E user \in Users \cup {Root} : DbusFreeze(user) \/ DbusUnfreeze(user)
  \/ Sigterm

-----------------------------------------------------------------------------
(* The command line of root, and "waydroid upgrade" when its Stop call has  *)
(* failed: stop, restart, freeze and unfreeze in another process.           *)

Command(step, tracked) ==
  /\ MayFail("cli")
  /\ pc[Cli] = "idle"
  /\ pc' = [pc EXCEPT ![Cli] = step]
  /\ session' = [session EXCEPT ![Cli] = tracked]
  /\ UNCHANGED <<service, tries, job, inbox, hardware, host, notified>>

CliStop     == initialized /\ Command("unregister", NoSession)
CliRestart  == lxc = "RUNNING" /\ Command("rekill", NoSession)
CliFreeze   == Command("freeze", NoSession)
CliUnfreeze == Command("unfreeze", NoSession)

\* GetSession has been answered, Stop has not.
UpgradeFallback ==
  /\ Idle /\ initialized
  /\ lxc # "STOPPED"
  /\ Command("unregister", session[Service])

CliStep == Stop(Cli) \/ Restart(Cli) \/ Freeze(Cli) \/ Unfreeze(Cli)
CliCommands == CliStop \/ CliRestart \/ CliFreeze \/ CliUnfreeze \/ UpgradeFallback

-----------------------------------------------------------------------------
(* The host and the guest.                                                  *)

others == <<service, session, pc, tries, job, hardware, notified>>

\* lxc-start creates the container, unless there is one or there is no rootfs.
LxcCreate ==
  \E s \in starters :
    /\ starters' = starters \ {s}
    /\ IF lxc = "STOPPED" /\ rootfs # "none"
         THEN lxc' = "STARTING" /\ guest' = s
         ELSE UNCHANGED <<lxc, guest>>
    /\ UNCHANGED <<others, inbox, config, rootfs, network, sensors>>

LxcChange(from, to) ==
  /\ lxc = from
  /\ lxc' = to
  /\ UNCHANGED <<others, inbox, starters, guest, config, rootfs, network, sensors>>

HostStep == LxcCreate \/ LxcChange("STARTING", "RUNNING") \/ LxcChange("STOPPING", "STOPPED")

GuestDies == /\ MayFail("guest")
             /\ LxcChange("STARTING", "STOPPED") \/ LxcChange("RUNNING", "STOPPED")

GuestRequest(request) ==
  /\ lxc = "RUNNING"
  /\ "looping" \in hardware
  /\ Cardinality(inbox) < MaxInbox[faults]
  /\ inbox' = inbox \cup {request}
  /\ UNCHANGED <<others, host>>

\* Nobody waits for the worker: it comes and goes when it is scheduled, when its
\* registration is refused, and after it has been quit.
WorkerEnters == "wanted" \in hardware /\ hardware' = hardware \cup {"looping"}
WorkerLeaves == "looping" \in hardware /\ hardware' = hardware \ {"looping"}
Worker == /\ WorkerEnters \/ WorkerLeaves
          /\ UNCHANGED <<service, session, pc, tries, job, inbox, host, notified>>

\* "waydroid init" has run.
Initialize ==
  /\ ~initialized
  /\ initialized' = TRUE
  /\ UNCHANGED <<faults, up, prepared, session, pc, tries, job, inbox, hardware, host,
                 notified>>

Environment == \/ GuestDies \/ Worker \/ Initialize
               \/ \E request \in GuestRequests : GuestRequest(request)

Next == \/ ServiceStep \/ ServeInbox \/ Dispatches \/ Exit \/ Crash \/ ServiceUp
        \/ CliStep \/ CliCommands
        \/ HostStep \/ Environment

\* The kernel schedules the processes, the wait loops are bounded, a main loop
\* serves what it has accepted, and the host finishes what it has begun; that
\* anybody calls the service, or that the guest asks for anything, is not
\* assumed.
Fairness == /\ WF_vars(ServiceStep) /\ WF_vars(ServeInbox) /\ WF_vars(Exit)
            /\ WF_vars(CliStep)
            /\ WF_vars(HostStep)

Spec == Init /\ [][Next]_vars
FairSpec == Spec /\ Fairness

-----------------------------------------------------------------------------
(* Properties *)

\* Android is never booted for nobody: a container is created only while its
\* session is tracked or being started.  A worker may stay behind that the stop of
\* its session could not quit, and a guest's request to restart may be served when
\* its session has ended or another one is there: it must not find what it needs to
\* boot unless that is the tracked session's.  (With faults a start that fails, or
\* root, boots one that nobody tracks.)
NoBootForNobody ==
  [][(faults = {} /\ lxc = "STOPPED" /\ lxc' # "STOPPED")
       => \/ session[Service] # NoSession /\ guest' = session[Service]
          \/ pc[Service] = "booted" /\ guest' = job.session]_vars

\* A handler of the service that forgets its session has unmounted the rootfs
\* and killed every sensor daemon, and the container is down: whatever failed
\* on the way keeps the session tracked, so that a stop can be tried again.
UntrackLeavesNothing ==
  [][session[Service] # NoSession /\ session'[Service] = NoSession /\ up'
       => rootfs' = "none" /\ sensors' = 0 /\ lxc' = "STOPPED"]_vars

\* When nothing fails and nobody interferes, the service between two handlers
\* has everything up for the session it tracks, and nothing up without one.
AllOrNothing ==
  faults = {} /\ Idle =>
    IF session[Service] = NoSession
      THEN /\ ~network /\ sensors = 0 /\ rootfs = "none" /\ lxc = "STOPPED"
           /\ "wanted" \notin hardware
      ELSE /\ network /\ rootfs = "full" /\ "wanted" \in hardware /\ starters = {}
           /\ sensors = IF SensordInstalled THEN 1 ELSE 0

\* The container that runs while a session is tracked was configured for that
\* session: no start ends up with a container that another start has booted
\* (unless an lxc-start is still at work when the next start begins: it is too
\* slow for the wait loop, it outlives a killed service, or root's restart has
\* spawned it).
ContainerIsTheSessions ==
  /\ faults \subseteq {"command", "guest"}
  /\ session[Service] # NoSession
  /\ lxc \in {"STARTING", "RUNNING", "FROZEN"}
  => guest = session[Service]

\* The network is not taken from under a running container: stop takes it down
\* only after the container (unless the container is slow to come or go, or
\* the command line stops it behind the service's back).
NetworkUnderContainer ==
  faults \subseteq {"guest"} /\ lxc \in {"RUNNING", "FROZEN"} => network

\* Every handler ends, so the service always answers again: no wait loop waits
\* for something that may never happen.
HandlersEnd == pc[Service] # "idle" ~> pc[Service] = "idle"

\* When no command fails, the guest does not die under it and the host is not
\* slow, a stop forgets the session.
StopUntracks ==
  faults \subseteq {"crash"} /\ pc[Service] = "unregister" ~> session[Service] = NoSession

\* The session the service tracks is leased the container in the sense of
\* ContainerLease.
Lease == INSTANCE ContainerLease
           WITH holder <- session[Service], notified <- notified[Service]
LeaseSpec == Lease!Spec
=============================================================================
