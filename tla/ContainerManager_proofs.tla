----------------------- MODULE ContainerManager_proofs -----------------------
(***************************************************************************)
(* What the container service guarantees for any users, sessions, faults   *)
(* and bounds. Everything rests on one inductive invariant, IInv, which    *)
(* says what each step of a handler relies on: a start works on behalf of  *)
(* a session that is not tracked yet and has room for another sensor       *)
(* daemon, a stop has killed the sensor daemons and unmounted the rootfs   *)
(* before it forgets the session.                                          *)
(*                                                                         *)
(* Three more invariants, each for the behaviours that its faults leave,   *)
(* extend it one on top of the other: OInv, whose container runs while     *)
(* nothing but the service starts one in time; NInv, that the network is   *)
(* there while commands do what they are told; CInv, what is up at each    *)
(* step of a handler when nothing fails at all.                            *)
(***************************************************************************)
EXTENDS ContainerManager, TLAPS

\* A start that has not launched sensord yet still may.
SensorRoom == pc[Service] \in {"drivers", "network", "sensors"} => sensors < MaxSensors

\* What do_start has checked, and the session it works for.
StartPending == pc[Service] \in StartSteps =>
                  session[Service] = NoSession /\ job.session \in Sessions

\* The last steps of stop come after the others.
StopCleaned == /\ pc[Service] \in {"umount", "untrack"} => sensors = 0
               /\ pc[Service] = "untrack" => rootfs = "none"

\* A container that is not stopped has a rootfs.
RootfsInUse == lxc # "STOPPED" => rootfs # "none"

\* The command line runs no handler of the service's own.
CliSteppable == pc[Cli] \in CliSteps \cup {"idle"}

IInv == /\ TypeOK
        /\ SensorRoom
        /\ StartPending
        /\ StopCleaned
        /\ RootfsInUse
        /\ CliSteppable

-----------------------------------------------------------------------------
(* Control                                                                  *)

USE ConstantsAssumption DEF Service, Cli, Procs, Steps, StartSteps, StopSteps,
      RestartSteps, FreezeSteps, GuestSteps, CliSteps

\* Where a handler is after going to its next step.
LEMMA GotoEffect ==
  ASSUME TypeOK, NEW p \in Procs, NEW step \in Steps, Goto(p, step)
  PROVE  /\ pc' \in [Procs -> Steps]
         /\ tries' \in [Procs -> 0..MaxTries]
         /\ job' = job
         /\ pc'[p] = step
         /\ \A q \in Procs : q # p => pc'[q] = pc[q]
BY DEF TypeOK, Goto

\* Where a process is when its handler has ended.
LEMMA FinishEffect ==
  ASSUME TypeOK, NEW p \in Procs, Finish(p)
  PROVE  /\ pc' \in [Procs -> Steps]
         /\ tries' \in [Procs -> 0..MaxTries]
         /\ job' \in Jobs
         /\ pc'[p] \in {"idle", "exit"}
         /\ p = Cli => pc'[p] = "idle"
         /\ \A q \in Procs : q # p => pc'[q] = pc[q]
         /\ p = Cli => job' = job
<1>1. NoJob \in Jobs
  BY DEF NoJob, Jobs
<1> QED
  BY <1>1 DEF TypeOK, Finish, Jobs

\* A poll moves no process.
LEMMA PollEffect ==
  ASSUME TypeOK, NEW p \in Procs, NEW state, PollAgain(p, state)
  PROVE  /\ pc' = pc
         /\ job' = job
         /\ tries' \in [Procs -> 0..MaxTries]
BY DEF TypeOK, PollAgain

-----------------------------------------------------------------------------
(* The inductive invariant                                                  *)

\* The service begins with nothing up and nothing tracked.
LEMMA InitIInv == Init => IInv
<1> SUFFICES ASSUME Init PROVE IInv
  OBVIOUS
<1>1. TypeOK
  <2>1. notified \in [Procs -> SUBSET Sessions]
    BY DEF Init
  <2>2. job \in Jobs
    BY DEF Init, NoJob, Jobs
  <2>3. /\ session \in [Procs -> Sessions \cup {NoSession}]
        /\ pc \in [Procs -> Steps]
        /\ tries \in [Procs -> 0..MaxTries]
    BY DEF Init
  <2>4. lxc \in LxcStates /\ rootfs \in RootfsStates /\ sensors \in 0..MaxSensors
    BY DEF Init, LxcStates, RootfsStates
  <2>6. /\ initialized \in BOOLEAN /\ up \in BOOLEAN /\ prepared \in BOOLEAN
        /\ network \in BOOLEAN
    BY Zenon DEF Init
  <2>5. /\ faults \in FaultSets
        /\ inbox \subseteq GuestRequests \cup {"stop"} /\ hardware \subseteq HardwareStates
        /\ starters \subseteq Sessions
        /\ config \in Sessions \cup {NoSession}
        /\ guest \in Sessions \cup {NoSession}
    BY DEF Init
  <2> QED
    BY <2>1, <2>2, <2>3, <2>4, <2>5, <2>6 DEF TypeOK
<1>2. SensorRoom /\ StartPending /\ StopCleaned /\ RootfsInUse /\ CliSteppable
  BY DEF Init, SensorRoom, StartPending, StopCleaned, RootfsInUse, CliSteppable
<1> QED
  BY <1>1, <1>2 DEF IInv

\* Every step of do_start preserves the invariant: the session is recorded by the
\* last one, when the hardware worker has been told to run.
LEMMA StartIInv ==
  ASSUME IInv, DoStart
  PROVE  IInv'
<1> USE DEF IInv, SensorRoom, StartPending, StopCleaned, RootfsInUse,
            CliSteppable, service, host, container
<1>1. ASSUME StartDrivers PROVE IInv'
  <2>1. CASE prepared' = TRUE /\ Goto(Service, "network")
    BY <1>1, <2>1, GotoEffect DEF StartDrivers, TypeOK
  <2>2. CASE UNCHANGED prepared /\ Finish(Service)
    BY <1>1, <2>2, FinishEffect DEF StartDrivers, TypeOK, Jobs
  <2> QED
    BY <1>1, <2>1, <2>2 DEF StartDrivers
<1>2. ASSUME StartNetworking PROVE IInv'
  <2>1. CASE network' = TRUE /\ Goto(Service, "sensors")
    BY <1>2, <2>1, GotoEffect DEF StartNetworking, TypeOK
  <2>2. CASE UNCHANGED network /\ Finish(Service)
    BY <1>2, <2>2, FinishEffect DEF StartNetworking, TypeOK, Jobs
  <2> QED
    BY <1>2, <2>1, <2>2 DEF StartNetworking
<1>3. ASSUME StartSensors PROVE IInv'
  BY <1>3, GotoEffect, FinishEffect DEF StartSensors, TypeOK, Jobs
<1>4. ASSUME StartConfigure PROVE IInv'
  BY <1>4, GotoEffect, FinishEffect DEF StartConfigure, TypeOK, Jobs
<1>5. ASSUME StartMount PROVE IInv'
  BY <1>5, GotoEffect, FinishEffect DEF StartMount, MountRootfs, MountRootfsFails, RootfsBusy, RootfsStates, TypeOK, Jobs
<1>6. ASSUME StartBoot PROVE IInv'
  BY <1>6, GotoEffect, FinishEffect DEF StartBoot, LxcStart, TypeOK, Jobs
<1>7. ASSUME StartBooted PROVE IInv'
  BY <1>7, GotoEffect, FinishEffect, PollEffect DEF StartBooted, TypeOK, Jobs
<1>8. ASSUME StartTrack PROVE IInv'
  BY <1>8, GotoEffect, FinishEffect DEF StartTrack, TypeOK, Jobs
<1>9. ASSUME StartHardware PROVE IInv'
  BY <1>9, GotoEffect DEF StartHardware, HardwareStates, TypeOK
<1> QED
  BY <1>1, <1>2, <1>3, <1>4, <1>5, <1>6, <1>7, <1>8, <1>9 DEF DoStart

\* Every step of stop, in the service or in a root process, preserves it: the
\* session is forgotten only on the way through "umount".
LEMMA StopIInv ==
  ASSUME IInv, NEW p \in Procs, Stop(p)
  PROVE  IInv'
<1> USE DEF IInv, SensorRoom, StartPending, StopCleaned, RootfsInUse,
            CliSteppable, service, host, container
<1>1. ASSUME StopUnregister(p) PROVE IInv'
  <2>1. hardware' \subseteq HardwareStates
    BY <1>1 DEF StopUnregister, Unwanted, HardwareStates, TypeOK
  <2> QED
    BY <1>1, <2>1, GotoEffect DEF StopUnregister, TypeOK
<1>2. ASSUME StopStatus(p) PROVE IInv'
  BY <1>2, GotoEffect DEF StopStatus, TypeOK
<1>3. ASSUME StopKill(p) PROVE IInv'
  BY <1>3, GotoEffect, FinishEffect DEF StopKill, LxcStop, LxcStates, TypeOK, Jobs
<1>4. ASSUME StopKilled(p) PROVE IInv'
  BY <1>4, GotoEffect, PollEffect DEF StopKilled, TypeOK
<1>5. ASSUME StopNetworking(p) PROVE IInv'
  <2>1. network' \in BOOLEAN
    BY <1>5 DEF StopNetworking, TypeOK
  <2> QED
    BY <1>5, <2>1, GotoEffect DEF StopNetworking, TypeOK
<1>6. ASSUME StopSensors(p) PROVE IInv'
  BY <1>6, GotoEffect DEF StopSensors, TypeOK
<1>7. ASSUME StopUmount(p) PROVE IInv'
  BY <1>7, GotoEffect, FinishEffect DEF StopUmount, UmountRootfs, UmountRootfsFails, RootfsBusy, RootfsStates, TypeOK, Jobs
<1>8. ASSUME StopUntrack(p) PROVE IInv'
  BY <1>8, FinishEffect DEF StopUntrack, TypeOK, Jobs
<1> QED
  BY <1>1, <1>2, <1>3, <1>4, <1>5, <1>6, <1>7, <1>8 DEF Stop

\* Stopping and starting the container below the session preserves it.
LEMMA RestartIInv ==
  ASSUME IInv, NEW p \in Procs, Restart(p)
  PROVE  IInv'
<1> USE DEF IInv, SensorRoom, StartPending, StopCleaned, RootfsInUse,
            CliSteppable, service, host, container
<1>1. ASSUME RestartKill(p) PROVE IInv'
  BY <1>1, GotoEffect, FinishEffect DEF RestartKill, LxcStop, LxcStates, TypeOK, Jobs
<1>2. ASSUME RestartBoot(p) PROVE IInv'
  BY <1>2, GotoEffect, FinishEffect DEF RestartBoot, LxcStart, TypeOK, Jobs
<1>3. ASSUME RestartBooted(p) PROVE IInv'
  BY <1>3, FinishEffect, PollEffect DEF RestartBooted, TypeOK, Jobs
<1> QED
  BY <1>1, <1>2, <1>3 DEF Restart

\* The guest's upgrade, shutdown and suspend requests preserve it.
LEMMA GuestIInv ==
  ASSUME IInv, Upgrade \/ ShutdownRequest \/ SuspendSelfCall
  PROVE  IInv'
<1> USE DEF IInv, SensorRoom, StartPending, StopCleaned, RootfsInUse,
            CliSteppable, service, host, container
<1>1. ASSUME UpgradeKill PROVE IInv'
  BY <1>1, GotoEffect, FinishEffect DEF UpgradeKill, LxcStop, LxcStates, TypeOK, Jobs
<1>2. ASSUME UpgradeUmount PROVE IInv'
  BY <1>2, GotoEffect, FinishEffect DEF UpgradeUmount, UmountRootfs, UmountRootfsFails, RootfsBusy, RootfsStates, TypeOK, Jobs
<1>3. ASSUME UpgradeReplace PROVE IInv'
  BY <1>3, GotoEffect, FinishEffect DEF UpgradeReplace, TypeOK, Jobs
<1>4. ASSUME UpgradeRemount PROVE IInv'
  BY <1>4, GotoEffect, FinishEffect DEF UpgradeRemount, MountRootfs, MountRootfsFails, RootfsBusy, RootfsStates, TypeOK, Jobs
<1>5. ASSUME AwaitShutdown("await_shutdown", "unregister") PROVE IInv'
  BY <1>5, GotoEffect, FinishEffect, PollEffect DEF AwaitShutdown, TypeOK, Jobs
<1>6. ASSUME AwaitShutdown("await_restart", "reboot") PROVE IInv'
  BY <1>6, GotoEffect, FinishEffect, PollEffect DEF AwaitShutdown, TypeOK, Jobs
<1>7. ASSUME SuspendSelfCall PROVE IInv'
  BY <1>7, FinishEffect DEF SuspendSelfCall, TypeOK, Jobs
<1> QED
  BY <1>1, <1>2, <1>3, <1>4, <1>5, <1>6, <1>7 DEF Upgrade, ShutdownRequest

\* Freezing and unfreezing, which move nothing but the container, preserve it.
LEMMA FreezeIInv ==
  ASSUME IInv, NEW p \in Procs, Freeze(p) \/ Unfreeze(p)
  PROVE  IInv'
<1> USE DEF IInv, SensorRoom, StartPending, StopCleaned, RootfsInUse,
            CliSteppable, service, host, container
<1>1. ASSUME FreezeContainer(p) PROVE IInv'
  BY <1>1, GotoEffect, FinishEffect DEF FreezeContainer, LxcStates, TypeOK, Jobs
<1>2. ASSUME UnfreezeContainer(p) PROVE IInv'
  BY <1>2, GotoEffect, FinishEffect DEF UnfreezeContainer, LxcStates, TypeOK, Jobs
<1>3. ASSUME FreezeWait(p, "frozen", "FROZEN") PROVE IInv'
  BY <1>3, FinishEffect, PollEffect DEF FreezeWait, TypeOK, Jobs
<1>4. ASSUME FreezeWait(p, "unfrozen", "RUNNING") PROVE IInv'
  BY <1>4, FinishEffect, PollEffect DEF FreezeWait, TypeOK, Jobs
<1> QED
  BY <1>1, <1>2, <1>3, <1>4 DEF Freeze, Unfreeze

\* Every dispatch starts a handler that is no start, or a start that may begin.
LEMMA DispatchIInv ==
  ASSUME IInv, NEW step \in {"unregister", "freeze", "unfreeze", "rekill", "upkill",
                             "await_shutdown", "await_restart", "selfcall", "exit"},
         NEW j \in Jobs, Dispatch(step, j), inbox' \subseteq inbox
  PROVE  IInv'
BY DEF IInv, SensorRoom, StartPending, StopCleaned, RootfsInUse,
       CliSteppable, service, host, container, TypeOK,
       Dispatch, Idle, Jobs

\* A Start that is accepted finds no session tracked and room for a daemon.
LEMMA DbusStartIInv ==
  ASSUME IInv, NEW s \in Sessions, NEW user, DbusStart(s, user)
  PROVE  IInv'
BY DEF IInv, SensorRoom, StartPending, StopCleaned, RootfsInUse,
       CliSteppable, service, host, container, TypeOK,
       DbusStart, Dispatch, Idle, NoJob, Jobs

\* Whatever the service dispatches preserves it.
LEMMA ServeIInv ==
  ASSUME IInv, ServeInbox \/ Dispatches
  PROVE  IInv'
<1>1. NoJob \in Jobs
  BY DEF NoJob, Jobs
<1>2. \A quit \in BOOLEAN : [NoJob EXCEPT !.quit = quit] \in Jobs
  BY DEF NoJob, Jobs
<1>3. [NoJob EXCEPT !.exit = TRUE] \in Jobs
  BY DEF NoJob, Jobs
<1>4. ASSUME ServeInbox PROVE IInv'
  <2>1. PICK request \in inbox : /\ inbox' = inbox \ {request}
                                 /\ \E step \in Handlers(request) : Dispatch(step, NoJob)
    BY <1>4 DEF ServeInbox
  <2>2. PICK step \in Handlers(request) : Dispatch(step, NoJob)
    BY <2>1
  <2>3. request \in GuestRequests \cup {"stop"}
    BY <2>1 DEF IInv, TypeOK
  <2>4. step \in {"unregister", "freeze", "rekill", "upkill", "await_shutdown",
                  "await_restart", "selfcall"}
    BY <2>2, <2>3 DEF Handlers, GuestRequests
  <2> QED
    BY <1>1, <2>1, <2>2, <2>4, DispatchIInv
<1>5. ASSUME NEW s \in Sessions, NEW user \in Users \cup {Root}, DbusStart(s, user) PROVE IInv'
  BY <1>5, DbusStartIInv
<1>6. ASSUME NEW user \in Users \cup {Root}, NEW quit \in BOOLEAN, DbusStop(user, quit) PROVE IInv'
  BY <1>2, <1>6, DispatchIInv DEF DbusStop
<1>7. ASSUME NEW user \in Users \cup {Root}, DbusFreeze(user) \/ DbusUnfreeze(user) PROVE IInv'
  BY <1>1, <1>7, DispatchIInv DEF DbusFreeze, DbusUnfreeze
<1>8. ASSUME Sigterm PROVE IInv'
  BY <1>3, <1>8, DispatchIInv DEF Sigterm
<1> QED
  BY <1>4, <1>5, <1>6, <1>7, <1>8 DEF Dispatches

\* The service goes down or comes up; the command line is given a command; the
\* host and the guest move.
LEMMA OtherIInv ==
  ASSUME IInv, Exit \/ Crash \/ ServiceUp \/ CliCommands \/ HostStep \/ Environment
  PROVE  IInv'
<1> USE DEF IInv, SensorRoom, StartPending, StopCleaned, RootfsInUse,
            CliSteppable, service, host, container,
            others
<1>1. ASSUME Down PROVE IInv'
  <2>1. up' \in BOOLEAN /\ prepared' \in BOOLEAN /\ hardware' \subseteq HardwareStates
    BY <1>1, Zenon DEF Down
  <2>2. job' \in Jobs /\ inbox' = {}
    BY <1>1 DEF Down, NoJob, Jobs
  <2>3. /\ session' \in [Procs -> Sessions \cup {NoSession}]
        /\ pc' \in [Procs -> Steps]
        /\ pc'[Service] = "idle" /\ pc'[Cli] = pc[Cli]
        /\ tries' \in [Procs -> 0..MaxTries]
    BY <1>1 DEF Down, TypeOK
  <2>4. UNCHANGED <<faults, initialized, host, notified>>
    BY <1>1 DEF Down
  <2> QED
    BY <2>1, <2>2, <2>3, <2>4 DEF TypeOK, Jobs
<1>2. ASSUME ServiceUp PROVE IInv'
  BY <1>2 DEF ServiceUp, TypeOK
<1>3. ASSUME NEW step \in {"unregister", "rekill", "freeze", "unfreeze"},
             NEW tracked \in Sessions \cup {NoSession}, Command(step, tracked)
      PROVE  IInv'
  BY <1>3 DEF Command, TypeOK
<1>4. ASSUME CliCommands PROVE IInv'
  BY <1>3, <1>4 DEF CliCommands, CliStop, CliRestart, CliFreeze, CliUnfreeze,
                    UpgradeFallback, TypeOK
<1>5. ASSUME LxcCreate PROVE IInv'
  BY <1>5 DEF LxcCreate, LxcStates, TypeOK
<1>6. ASSUME NEW from \in LxcStates \ {"STOPPED"}, NEW to \in LxcStates, LxcChange(from, to)
      PROVE  IInv'
  BY <1>6 DEF LxcChange, TypeOK
<1>7. ASSUME NEW request \in GuestRequests, GuestRequest(request) PROVE IInv'
  BY <1>7 DEF GuestRequest, TypeOK
<1>8. ASSUME Initialize PROVE IInv'
  BY <1>8 DEF Initialize, TypeOK
<1>9. ASSUME Worker PROVE IInv'
  <2>1. hardware' \subseteq HardwareStates
    BY <1>9 DEF Worker, WorkerEnters, WorkerLeaves, HardwareStates, TypeOK
  <2> QED
    BY <1>9, <2>1 DEF Worker, TypeOK
<1> QED
  BY <1>1, <1>2, <1>4, <1>5, <1>6, <1>7, <1>8, <1>9
     DEF Exit, Crash, HostStep, Environment, GuestDies, LxcStates

\* The invariant is inductive.
LEMMA NextIInv == IInv /\ [Next]_vars => IInv'
<1> SUFFICES ASSUME IInv, [Next]_vars PROVE IInv'
  OBVIOUS
<1>1. CASE ServiceStep
  BY <1>1, StartIInv, StopIInv, RestartIInv, GuestIInv, FreezeIInv DEF ServiceStep
<1>2. CASE ServeInbox \/ Dispatches
  BY <1>2, ServeIInv
<1>3. CASE CliStep
  BY <1>3, StopIInv, RestartIInv, FreezeIInv DEF CliStep
<1>4. CASE Exit \/ Crash \/ ServiceUp \/ CliCommands \/ HostStep \/ Environment
  BY <1>4, OtherIInv
<1>5. CASE UNCHANGED vars
  BY <1>5 DEF vars, service, host, container, IInv, TypeOK, SensorRoom, StartPending,
     StopCleaned, RootfsInUse, CliSteppable
<1> QED
  BY <1>1, <1>2, <1>3, <1>4, <1>5 DEF Next

\* The inductive invariant holds in every reachable state.
THEOREM Invariance == Spec => []IInv
BY InitIInv, NextIInv, PTL DEF Spec

\* Type correctness of the container service's state.
THEOREM Typing == Spec => []TypeOK
<1>1. IInv => TypeOK
  BY DEF IInv
<1> QED
  BY <1>1, Invariance, PTL

-----------------------------------------------------------------------------
(* The lease                                                                *)

\* The steps that are no stop, no start that tracks and no loss of the service
\* neither track a session nor forget one nor tell one to quit.
Bystander == session'[Service] = session[Service] /\ notified' = notified

\* Only the last steps of do_start and of stop touch the tracked session.
LEMMA ServiceBystander ==
  ASSUME IInv, ServiceStep, ~StartTrack, ~StopUntrack(Service)
  PROVE  Bystander
BY DEF Bystander, ServiceStep, DoStart, StartDrivers, StartNetworking, StartSensors,
       StartConfigure, StartMount, StartBoot, StartBooted, StartHardware, Stop,
       StopUnregister, StopStatus, StopKill, StopKilled, StopNetworking, StopSensors, StopUmount,
       Restart, RestartKill, RestartBoot, RestartBooted, Upgrade, UpgradeKill,
       UpgradeUmount, UpgradeReplace, UpgradeRemount, Freeze, Unfreeze,
       FreezeContainer, UnfreezeContainer, FreezeWait, ShutdownRequest, AwaitShutdown,
       SuspendSelfCall

\* A root process keeps a session of its own, and so never touches the
\* service's.
LEMMA CliBystander ==
  ASSUME IInv, CliStep \/ CliCommands
  PROVE  session'[Service] = session[Service] /\ notified'[Service] = notified[Service]
<1>1. ASSUME StopUntrack(Cli)
      PROVE  session'[Service] = session[Service] /\ notified'[Service] = notified[Service]
  BY <1>1 DEF StopUntrack, IInv, TypeOK
<1>2. ASSUME CliStep, ~StopUntrack(Cli) PROVE Bystander
  BY <1>2 DEF Bystander, CliStep, Stop, StopUnregister, StopStatus, StopKill, StopKilled,
     StopNetworking, StopSensors, StopUmount, Restart, RestartKill, RestartBoot,
     RestartBooted, Freeze, Unfreeze, FreezeContainer, UnfreezeContainer, FreezeWait
<1>3. ASSUME CliCommands PROVE Bystander
  BY <1>3 DEF Bystander, CliCommands, CliStop, CliRestart, CliFreeze, CliUnfreeze,
     UpgradeFallback, Command, IInv, TypeOK
<1> QED
  BY <1>1, <1>2, <1>3 DEF Bystander

\* Neither the host nor the guest touches it.
LEMMA EnvironmentBystander ==
  ASSUME ServeInbox \/ Dispatches \/ ServiceUp \/ HostStep \/ Environment \/ UNCHANGED vars
  PROVE  Bystander
BY DEF Bystander, ServeInbox, Dispatches, DbusStart, DbusStop, DbusFreeze, DbusUnfreeze,
       Sigterm, Dispatch, ServiceUp, HostStep, LxcCreate, LxcChange, Environment,
       GuestDies, GuestRequest, Worker, Initialize, others, vars

\* A handler forgets the session only when the host is clean: no step of stop
\* that fails loses the session a later stop needs to finish the work.
THEOREM UntrackSafety == Spec => UntrackLeavesNothing
<1> DEFINE Clean == rootfs' = "none" /\ sensors' = 0 /\ lxc' = "STOPPED"
           Forgets == session[Service] # NoSession /\ session'[Service] = NoSession /\ up'
<1>1. IInv /\ [Next]_vars => [Forgets => Clean]_vars
  <2> SUFFICES ASSUME IInv, [Next]_vars, Forgets PROVE Clean
    OBVIOUS
  <2>1. CASE StartTrack
    BY <2>1 DEF StartTrack, IInv, StartPending, TypeOK
  <2>2. CASE StopUntrack(Service)
    BY <2>2 DEF StopUntrack, IInv, StopCleaned, RootfsInUse, host, container
  <2>3. CASE Down
    BY <2>3 DEF Down
  <2>4. CASE ServiceStep /\ ~StartTrack /\ ~StopUntrack(Service)
    BY <2>4, ServiceBystander DEF Bystander
  <2>5. CASE CliStep \/ CliCommands
    BY <2>5, CliBystander
  <2>6. CASE ServeInbox \/ Dispatches \/ ServiceUp \/ HostStep \/ Environment \/ UNCHANGED vars
    BY <2>6, EnvironmentBystander DEF Bystander
  <2> QED
    BY <2>1, <2>2, <2>3, <2>4, <2>5, <2>6 DEF Next, Exit, Crash
<1> QED
  BY <1>1, Invariance, PTL DEF Spec, UntrackLeavesNothing

\* The service's tracking of sessions implements the abstract lease.
THEOREM LeaseRefinement == Spec => LeaseSpec
<1>1. Init => Lease!Init
  BY DEF Init, Lease!Init
<1>2. IInv /\ [Next]_vars => [Lease!Next]_(Lease!vars)
  <2> SUFFICES ASSUME IInv, [Next]_vars PROVE [Lease!Next]_(Lease!vars)
    OBVIOUS
  <2>1. CASE StartTrack
    <3>1. Lease!Grant(job.session)
      BY <2>1 DEF StartTrack, Lease!Grant, IInv, StartPending, TypeOK
    <3> QED
      BY <2>1, <3>1 DEF Lease!Next, StartTrack, IInv, StartPending
  <2>2. CASE StopUntrack(Service)
    <3>1. CASE session[Service] = NoSession
      BY <2>2, <3>1 DEF StopUntrack, Lease!vars, IInv, TypeOK
    <3>2. CASE session[Service] # NoSession /\ job.quit
      BY <2>2, <3>2 DEF StopUntrack, Lease!Next, Lease!Revoke, IInv, TypeOK
    <3>3. CASE session[Service] # NoSession /\ ~job.quit
      BY <2>2, <3>3 DEF StopUntrack, Lease!Next, Lease!Release, IInv, TypeOK
    <3> QED
      BY <3>1, <3>2, <3>3
  <2>3. CASE Down
    BY <2>3 DEF Down, Lease!Next, Lease!Release, Lease!vars, IInv, TypeOK
  <2>4. CASE ServiceStep /\ ~StartTrack /\ ~StopUntrack(Service)
    BY <2>4, ServiceBystander DEF Bystander, Lease!vars
  <2>5. CASE CliStep \/ CliCommands
    BY <2>5, CliBystander DEF Lease!vars
  <2>6. CASE ServeInbox \/ Dispatches \/ ServiceUp \/ HostStep \/ Environment \/ UNCHANGED vars
    BY <2>6, EnvironmentBystander DEF Bystander, Lease!vars
  <2> QED
    BY <2>1, <2>2, <2>3, <2>4, <2>5, <2>6 DEF Next, Exit, Crash
<1> QED
  BY <1>1, <1>2, Invariance, PTL DEF Spec, LeaseSpec, Lease!Spec
-----------------------------------------------------------------------------
(* Whose container runs.  While the host is as fast as the wait loops       *)
(* expect, the service is not killed and no command is typed beside it, a   *)
(* spawned lxc-start is at work only while the service waits for it; so the *)
(* configuration that a container is created from is the one of the start   *)
(* or of the restart that has spawned it.                                   *)

Undisturbed == faults \cap {"slow", "crash", "cli"} = {}

\* A handler has spawned lxc-start for a container that is down and waits for
\* it; it sleeps only when nothing is on its way any more.  A container that is
\* killed is down at once.
SpawnsAwaited ==
  /\ lxc # "STOPPING"
  /\ starters # {} => pc[Service] \in {"booted", "rebooted"} /\ lxc = "STOPPED"
  /\ starters \subseteq {config}
  /\ (pc[Service] \in {"booted", "rebooted"} /\ tries[Service] > 0)
       => starters = {} /\ lxc # "STARTING"

\* The LXC configuration is that of the tracked session, or of the one that a
\* start is about to track.
ConfiguredFor ==
  /\ session[Service] # NoSession => config = session[Service]
  /\ pc[Service] \in {"mount", "boot", "booted", "hardware", "track"}
       => config = job.session

\* A container that is not stopped has been created from it.
CreatedFor ==
  /\ pc[Service] = "boot" => lxc = "STOPPED"
  /\ (lxc # "STOPPED" /\ (session[Service] # NoSession
                              \/ pc[Service] \in {"booted", "hardware", "track"}))
       => guest = config

Owned == SpawnsAwaited /\ ConfiguredFor /\ CreatedFor /\ pc[Cli] = "idle"
OInv  == Undisturbed => Owned

\* Which behaviours are undisturbed is settled once.
LEMMA FaultsFixed == [Next]_vars => faults' = faults
BY DEF Next, vars, service, host, container, others, ServiceStep, DoStart, StartDrivers,
       StartNetworking, StartSensors, StartConfigure, StartMount, StartBoot, StartBooted,
       StartHardware, StartTrack, Stop, StopUnregister, StopStatus, StopKill, StopKilled,
       StopNetworking, StopSensors, StopUmount, StopUntrack, Restart, RestartKill,
       RestartBoot, RestartBooted, Upgrade, UpgradeKill, UpgradeUmount, UpgradeReplace,
       UpgradeRemount, Freeze, Unfreeze, FreezeContainer, UnfreezeContainer, FreezeWait,
       ShutdownRequest, AwaitShutdown, SuspendSelfCall, ServeInbox, Dispatches,
       DbusStart, DbusStop, DbusFreeze, DbusUnfreeze, Sigterm, Dispatch, Exit, Crash,
       Down, ServiceUp, CliStep, CliCommands, CliStop, CliRestart, CliFreeze,
       CliUnfreeze, UpgradeFallback, Command, HostStep, LxcCreate, LxcChange,
       Environment, GuestDies, GuestRequest, Worker, Initialize

\* Nothing is on its way when a wait loop sleeps.
LEMMA PollSettled ==
  ASSUME NEW p, NEW state, PollAgain(p, state), Undisturbed
  PROVE  starters = {} /\ lxc # "STARTING"
BY DEF PollAgain, Undisturbed, MayFail, Settling

\* A wait loop that gives up has slept, so nothing is on its way then either.
LEMMA TimedOutSettled ==
  ASSUME IInv, Owned, NEW state, TimedOut(Service, state),
         pc[Service] \in {"booted", "rebooted"}
  PROVE  starters = {} /\ lxc # "STARTING"
BY DEF TimedOut, Owned, SpawnsAwaited, IInv, TypeOK

\* do_start configures the container for its session while nothing is on its
\* way, and boots it when the one before is gone.
LEMMA StartOwned ==
  ASSUME IInv, Owned, Undisturbed, DoStart
  PROVE  Owned'
<1> USE DEF Owned, SpawnsAwaited, ConfiguredFor, CreatedFor, service, host, container
<1> TypeOK /\ StartPending /\ RootfsInUse
  BY DEF IInv
<1>1. ASSUME StartDrivers PROVE Owned'
  BY <1>1, GotoEffect, FinishEffect DEF StartDrivers
<1>2. ASSUME StartNetworking PROVE Owned'
  BY <1>2, GotoEffect, FinishEffect DEF StartNetworking
<1>3. ASSUME StartSensors PROVE Owned'
  BY <1>3, GotoEffect DEF StartSensors
<1>4. ASSUME StartConfigure PROVE Owned'
  BY <1>4, GotoEffect, FinishEffect DEF StartConfigure, StartPending
<1>5. ASSUME StartMount PROVE Owned'
  BY <1>5, GotoEffect, FinishEffect
     DEF StartMount, MountRootfs, MountRootfsFails, RootfsBusy, RootfsInUse, StartPending
<1>6. ASSUME StartBoot PROVE Owned'
  BY <1>6, GotoEffect, FinishEffect DEF StartBoot, LxcStart, StartPending, Goto, TypeOK
<1>7. ASSUME StartBooted PROVE Owned'
  BY <1>7, GotoEffect, FinishEffect, PollEffect, PollSettled, TimedOutSettled
     DEF StartBooted, Reads, StartPending
<1>8. ASSUME StartTrack PROVE Owned'
  BY <1>8, FinishEffect DEF StartTrack, StartPending, TypeOK
<1>9. ASSUME StartHardware PROVE Owned'
  BY <1>9, GotoEffect DEF StartHardware, StartPending
<1> QED
  BY <1>1, <1>2, <1>3, <1>4, <1>5, <1>6, <1>7, <1>8, <1>9 DEF DoStart

\* A stop brings the container down and forgets the session; what it is on its
\* way with, no lxc-start is.
LEMMA StopOwned ==
  ASSUME IInv, Owned, Undisturbed, Stop(Service)
  PROVE  Owned'
<1> USE DEF Owned, SpawnsAwaited, ConfiguredFor, CreatedFor, service, host, container
<1> TypeOK
  BY DEF IInv
<1>1. ASSUME StopUnregister(Service) PROVE Owned'
  BY <1>1, GotoEffect DEF StopUnregister
<1>2. ASSUME StopStatus(Service) PROVE Owned'
  BY <1>2, GotoEffect DEF StopStatus
<1>3. ASSUME StopKill(Service) PROVE Owned'
  BY <1>3, GotoEffect, FinishEffect DEF StopKill, LxcStop, Undisturbed, MayFail
<1>4. ASSUME StopKilled(Service) PROVE Owned'
  BY <1>4, GotoEffect, PollEffect DEF StopKilled
<1>5. ASSUME StopNetworking(Service) PROVE Owned'
  BY <1>5, GotoEffect DEF StopNetworking
<1>6. ASSUME StopSensors(Service) PROVE Owned'
  BY <1>6, GotoEffect DEF StopSensors
<1>7. ASSUME StopUmount(Service) PROVE Owned'
  BY <1>7, GotoEffect, FinishEffect DEF StopUmount, UmountRootfs, UmountRootfsFails
<1>8. ASSUME StopUntrack(Service) PROVE Owned'
  BY <1>8, FinishEffect DEF StopUntrack, TypeOK
<1> QED
  BY <1>1, <1>2, <1>3, <1>4, <1>5, <1>6, <1>7, <1>8 DEF Stop

\* A restart spawns lxc-start with the configuration there is, the tracked
\* session's if there is one.
LEMMA RestartOwned ==
  ASSUME IInv, Owned, Undisturbed, Restart(Service)
  PROVE  Owned'
<1> USE DEF Owned, SpawnsAwaited, ConfiguredFor, CreatedFor, service, host, container
<1> TypeOK
  BY DEF IInv
<1>1. ASSUME RestartKill(Service) PROVE Owned'
  BY <1>1, GotoEffect, FinishEffect DEF RestartKill, LxcStop, Undisturbed, MayFail
<1>2. ASSUME RestartBoot(Service) PROVE Owned'
  BY <1>2, GotoEffect, FinishEffect DEF RestartBoot, LxcStart, Undisturbed, MayFail, Goto, TypeOK
<1>3. ASSUME RestartBooted(Service) PROVE Owned'
  BY <1>3, FinishEffect, PollEffect, PollSettled, TimedOutSettled DEF RestartBooted, Reads
<1> QED
  BY <1>1, <1>2, <1>3 DEF Restart

\* The guest's requests, freezing and unfreezing configure nothing.
LEMMA GuestOwned ==
  ASSUME IInv, Owned, Undisturbed,
         Upgrade \/ ShutdownRequest \/ SuspendSelfCall \/ Freeze(Service) \/ Unfreeze(Service)
  PROVE  Owned'
<1> USE DEF Owned, SpawnsAwaited, ConfiguredFor, CreatedFor, service, host, container
<1> TypeOK
  BY DEF IInv
<1>1. ASSUME UpgradeKill PROVE Owned'
  BY <1>1, GotoEffect, FinishEffect DEF UpgradeKill, LxcStop, Undisturbed, MayFail
<1>2. ASSUME UpgradeUmount PROVE Owned'
  BY <1>2, GotoEffect, FinishEffect DEF UpgradeUmount, UmountRootfs, UmountRootfsFails
<1>3. ASSUME UpgradeReplace PROVE Owned'
  BY <1>3, GotoEffect, FinishEffect DEF UpgradeReplace
<1>4. ASSUME UpgradeRemount PROVE Owned'
  BY <1>4, GotoEffect, FinishEffect DEF UpgradeRemount, MountRootfs, MountRootfsFails
<1>5. ASSUME AwaitShutdown("await_shutdown", "unregister") PROVE Owned'
  BY <1>5, GotoEffect, FinishEffect, PollEffect DEF AwaitShutdown
<1>6. ASSUME AwaitShutdown("await_restart", "reboot") PROVE Owned'
  BY <1>6, GotoEffect, FinishEffect, PollEffect DEF AwaitShutdown
<1>7. ASSUME SuspendSelfCall PROVE Owned'
  BY <1>7, FinishEffect DEF SuspendSelfCall
<1>8. ASSUME FreezeContainer(Service) \/ UnfreezeContainer(Service) PROVE Owned'
  BY <1>8, GotoEffect, FinishEffect DEF FreezeContainer, UnfreezeContainer
<1>9. ASSUME NEW step \in {"frozen", "unfrozen"}, NEW state, FreezeWait(Service, step, state)
      PROVE  Owned'
  BY <1>9, FinishEffect, PollEffect DEF FreezeWait
<1> QED
  BY <1>1, <1>2, <1>3, <1>4, <1>5, <1>6, <1>7, <1>8, <1>9
     DEF Upgrade, ShutdownRequest, Freeze, Unfreeze

\* What the service dispatches, and its end, find it waiting for no container.
LEMMA DispatchOwned ==
  ASSUME IInv, Owned, ServeInbox \/ Dispatches \/ Exit \/ ServiceUp
  PROVE  Owned'
<1> USE DEF Owned, SpawnsAwaited, ConfiguredFor, CreatedFor, service, host, container
<1>1. TypeOK
  BY DEF IInv
<1>2. ASSUME NEW step \in Steps \ {"mount", "boot", "booted", "rebooted", "hardware", "track"},
             NEW j, Dispatch(step, j)
      PROVE  Owned'
  BY <1>1, <1>2 DEF Dispatch, Idle, TypeOK
<1>3. ASSUME ServeInbox PROVE Owned'
  <2>1. PICK request \in inbox : \E step \in Handlers(request) : Dispatch(step, NoJob)
    BY <1>3 DEF ServeInbox
  <2>2. request \in GuestRequests \cup {"stop"}
    BY <1>1, <2>1 DEF TypeOK
  <2>3. Handlers(request) \subseteq {"unregister", "freeze", "rekill", "upkill",
                                     "await_shutdown", "await_restart", "selfcall"}
    BY <2>2 DEF Handlers, GuestRequests
  <2> QED
    BY <1>2, <2>1, <2>3
<1>4. ASSUME Dispatches PROVE Owned'
  BY <1>2, <1>4 DEF Dispatches, DbusStart, DbusStop, DbusFreeze, DbusUnfreeze, Sigterm
<1>5. ASSUME Exit PROVE Owned'
  BY <1>1, <1>5 DEF Exit, Down, TypeOK
<1>6. ASSUME ServiceUp PROVE Owned'
  BY <1>6 DEF ServiceUp
<1> QED
  BY <1>3, <1>4, <1>5, <1>6

\* lxc-start creates the container it was configured for.
LEMMA HostOwned ==
  ASSUME IInv, Owned, HostStep \/ Environment
  PROVE  Owned'
<1> USE DEF Owned, SpawnsAwaited, ConfiguredFor, CreatedFor, service, host, container, others
<1>1. ASSUME LxcCreate PROVE Owned'
  BY <1>1 DEF LxcCreate
<1>2. ASSUME LxcChange("STARTING", "RUNNING") \/ LxcChange("STOPPING", "STOPPED") PROVE Owned'
  BY <1>2 DEF LxcChange
<1>3. ASSUME GuestDies PROVE Owned'
  BY <1>3 DEF GuestDies, LxcChange
<1>4. ASSUME Worker \/ Initialize \/ \E request \in GuestRequests : GuestRequest(request)
      PROVE  Owned'
  BY <1>4 DEF Worker, Initialize, GuestRequest
<1> QED
  BY <1>1, <1>2, <1>3, <1>4 DEF HostStep, Environment

\* In an undisturbed behaviour neither the command line nor a crash moves.
LEMMA Undisturbing ==
  ASSUME Owned, Undisturbed
  PROVE  ~CliStep /\ ~CliCommands /\ ~Crash
BY DEF Owned, Undisturbed, MayFail, CliStep, Stop, StopUnregister, StopStatus, StopKill,
       StopKilled, StopNetworking, StopSensors, StopUmount, StopUntrack, Restart,
       RestartKill, RestartBoot, RestartBooted, Freeze, Unfreeze, FreezeContainer,
       UnfreezeContainer, FreezeWait, CliCommands, CliStop, CliRestart, CliFreeze,
       CliUnfreeze, UpgradeFallback, Command, Crash

LEMMA InitOInv == Init => OInv
BY DEF Init, OInv, Owned, SpawnsAwaited, ConfiguredFor, CreatedFor

LEMMA NextOInv == IInv /\ OInv /\ [Next]_vars => OInv'
<1> SUFFICES ASSUME IInv, OInv, [Next]_vars, Undisturbed' PROVE Owned'
  BY DEF OInv
<1>1. Undisturbed /\ Owned
  BY FaultsFixed DEF Undisturbed, OInv
<1>2. CASE ServiceStep
  BY <1>1, <1>2, StartOwned, StopOwned, RestartOwned, GuestOwned DEF ServiceStep
<1>3. CASE ServeInbox \/ Dispatches \/ Exit \/ ServiceUp
  BY <1>1, <1>3, DispatchOwned
<1>4. CASE HostStep \/ Environment
  BY <1>1, <1>4, HostOwned
<1>5. CASE UNCHANGED vars
  BY <1>1, <1>5 DEF vars, service, host, container, Owned, SpawnsAwaited, ConfiguredFor,
     CreatedFor
<1> QED
  BY <1>1, <1>2, <1>3, <1>4, <1>5, Undisturbing DEF Next

LEMMA OwnedInvariance == Spec => []OInv
BY InitOInv, NextOInv, Invariance, PTL DEF Spec

\* The container that runs is the tracked session's, for any sessions and
\* however long anybody waits: no start takes over the container that another
\* one has booted.
THEOREM OwnContainerSafety == Spec => []ContainerIsTheSessions
<1>1. IInv /\ OInv => ContainerIsTheSessions
  BY DEF IInv, TypeOK, OInv, Undisturbed, Owned, ConfiguredFor, CreatedFor,
         ContainerIsTheSessions
<1> QED
  BY <1>1, Invariance, OwnedInvariance, PTL

-----------------------------------------------------------------------------
(* The network under the container.  When commands do what they are told,   *)
(* a stop that takes the network down has seen the container down, and the  *)
(* rootfs that a container needs is there only with the network, but for    *)
(* the two steps of a stop between them, and nothing boots there.           *)

Obeyed == faults \subseteq {"guest"}

\* The steps that follow the container's end.
DownSteps == {"killed", "unnetwork", "unsensors", "umount", "untrack",
              "upumount", "replace", "remount"}

NetworkHeld ==
  /\ pc[Service] \in DownSteps => lxc = "STOPPED"
  /\ ~network /\ rootfs # "none" => pc[Service] \in {"unsensors", "umount"}
  /\ ~network /\ session[Service] # NoSession
       => pc[Service] \in {"unsensors", "umount", "untrack"}
  /\ pc[Service] \in StartSteps \ {"drivers", "network"} => network
  /\ lxc # "STOPPED" => network

NInv == Obeyed => NetworkHeld

\* What commands that do what they are told leave out.
LEMMA Obedience ==
  ASSUME Obeyed
  PROVE  Undisturbed /\ ~MayFail("command") /\ ~MayFail("slow")
BY DEF Obeyed, Undisturbed, MayFail

\* The network is up before anything is mounted.
LEMMA StartHeld ==
  ASSUME IInv, Owned, NetworkHeld, Obeyed, DoStart
  PROVE  NetworkHeld'
<1> USE DEF NetworkHeld, DownSteps, service, host, container
<1> /\ TypeOK /\ StartPending /\ Undisturbed
    /\ ~MayFail("command") /\ ~MayFail("slow")
  BY Obedience DEF IInv
<1>1. ASSUME StartDrivers PROVE NetworkHeld'
  BY <1>1, GotoEffect, FinishEffect DEF StartDrivers
<1>2. ASSUME StartNetworking PROVE NetworkHeld'
  BY <1>2, GotoEffect, FinishEffect DEF StartNetworking
<1>3. ASSUME StartSensors PROVE NetworkHeld'
  BY <1>3, GotoEffect DEF StartSensors
<1>4. ASSUME StartConfigure PROVE NetworkHeld'
  BY <1>4, GotoEffect, FinishEffect DEF StartConfigure
<1>5. ASSUME StartMount PROVE NetworkHeld'
  <2>1. network /\ network' = network /\ lxc' = lxc /\ session' = session
    BY <1>5 DEF StartMount, MountRootfs, MountRootfsFails
  <2>2. pc'[Service] \in {"boot", "idle", "exit"}
    BY <1>5, GotoEffect, FinishEffect DEF StartMount
  <2> QED
    BY <2>1, <2>2
<1>6. ASSUME StartBoot PROVE NetworkHeld'
  <2>1. network /\ network' = network
    BY <1>6 DEF StartBoot, LxcStart
  <2>2. pc'[Service] = "booted"
    BY <1>6, GotoEffect DEF StartBoot
  <2> QED
    BY <2>1, <2>2
<1>7. ASSUME StartBooted PROVE NetworkHeld'
  BY <1>7, GotoEffect, FinishEffect, PollEffect DEF StartBooted
<1>8. ASSUME StartTrack PROVE NetworkHeld'
  BY <1>8, FinishEffect DEF StartTrack, TypeOK
<1>9. ASSUME StartHardware PROVE NetworkHeld'
  BY <1>9, GotoEffect DEF StartHardware
<1> QED
  BY <1>1, <1>2, <1>3, <1>4, <1>5, <1>6, <1>7, <1>8, <1>9 DEF DoStart

\* stop takes the network down when the container is, and then unmounts the
\* rootfs without fail.
LEMMA StopHeld ==
  ASSUME IInv, Owned, NetworkHeld, Obeyed, Stop(Service)
  PROVE  NetworkHeld'
<1> USE DEF NetworkHeld, DownSteps, service, host, container
<1> TypeOK /\ Undisturbed /\ ~MayFail("command") /\ ~MayFail("slow")
  BY Obedience DEF IInv
<1>1. ASSUME StopUnregister(Service) PROVE NetworkHeld'
  BY <1>1, GotoEffect DEF StopUnregister
<1>2. ASSUME StopStatus(Service) PROVE NetworkHeld'
  BY <1>2, GotoEffect DEF StopStatus, Reads
<1>3. ASSUME StopKill(Service) PROVE NetworkHeld'
  BY <1>3, GotoEffect, FinishEffect DEF StopKill, LxcStop
<1>4. ASSUME StopKilled(Service) PROVE NetworkHeld'
  BY <1>4, GotoEffect, PollEffect DEF StopKilled
<1>5. ASSUME StopNetworking(Service) PROVE NetworkHeld'
  BY <1>5, GotoEffect DEF StopNetworking
<1>6. ASSUME StopSensors(Service) PROVE NetworkHeld'
  BY <1>6, GotoEffect DEF StopSensors
<1>7. ASSUME StopUmount(Service) PROVE NetworkHeld'
  BY <1>7, GotoEffect, FinishEffect DEF StopUmount, UmountRootfs, UmountRootfsFails, RootfsBusy
<1>8. ASSUME StopUntrack(Service) PROVE NetworkHeld'
  BY <1>8, FinishEffect DEF StopUntrack, TypeOK
<1> QED
  BY <1>1, <1>2, <1>3, <1>4, <1>5, <1>6, <1>7, <1>8 DEF Stop

\* An upgrade mounts the rootfs again for a session that is tracked, and so has
\* its network; the guest's other requests and freezing touch neither.
LEMMA GuestHeld ==
  ASSUME IInv, Owned, NetworkHeld, Obeyed,
         \/ Restart(Service) \/ Upgrade \/ ShutdownRequest \/ SuspendSelfCall
         \/ Freeze(Service) \/ Unfreeze(Service)
  PROVE  NetworkHeld'
<1> USE DEF NetworkHeld, DownSteps, service, host, container
<1> TypeOK /\ Undisturbed /\ ~MayFail("command") /\ ~MayFail("slow")
  BY Obedience DEF IInv
<1>1. ASSUME RestartKill(Service) PROVE NetworkHeld'
  BY <1>1, GotoEffect, FinishEffect DEF RestartKill, LxcStop
<1>2. ASSUME RestartBoot(Service) PROVE NetworkHeld'
  BY <1>2, GotoEffect, FinishEffect DEF RestartBoot, LxcStart
<1>3. ASSUME RestartBooted(Service) PROVE NetworkHeld'
  BY <1>3, FinishEffect, PollEffect DEF RestartBooted
<1>4. ASSUME UpgradeKill PROVE NetworkHeld'
  BY <1>4, GotoEffect, FinishEffect DEF UpgradeKill, LxcStop
<1>5. ASSUME UpgradeUmount PROVE NetworkHeld'
  BY <1>5, GotoEffect, FinishEffect DEF UpgradeUmount, UmountRootfs, UmountRootfsFails
<1>6. ASSUME UpgradeReplace PROVE NetworkHeld'
  BY <1>6, GotoEffect, FinishEffect DEF UpgradeReplace
<1>7. ASSUME UpgradeRemount PROVE NetworkHeld'
  BY <1>7, GotoEffect, FinishEffect
     DEF UpgradeRemount, MountRootfs, MountRootfsFails, RootfsBusy
<1>8. ASSUME NEW step \in {"await_shutdown", "await_restart"},
             NEW next \in {"unregister", "reboot"}, AwaitShutdown(step, next)
      PROVE  NetworkHeld'
  BY <1>8, GotoEffect, FinishEffect, PollEffect DEF AwaitShutdown
<1>9. ASSUME SuspendSelfCall PROVE NetworkHeld'
  BY <1>9, FinishEffect DEF SuspendSelfCall
<1>10. ASSUME FreezeContainer(Service) \/ UnfreezeContainer(Service) PROVE NetworkHeld'
  BY <1>10, GotoEffect, FinishEffect DEF FreezeContainer, UnfreezeContainer
<1>11. ASSUME NEW step \in {"frozen", "unfrozen"}, NEW state, FreezeWait(Service, step, state)
       PROVE  NetworkHeld'
  BY <1>11, FinishEffect, PollEffect DEF FreezeWait
<1> QED
  BY <1>1, <1>2, <1>3, <1>4, <1>5, <1>6, <1>7, <1>8, <1>9, <1>10, <1>11
     DEF Restart, Upgrade, ShutdownRequest, Freeze, Unfreeze

\* Between two handlers the network is there for whatever needs it.
LEMMA DispatchHeld ==
  ASSUME IInv, NetworkHeld, ServeInbox \/ Dispatches \/ Exit \/ ServiceUp
  PROVE  NetworkHeld'
<1> USE DEF NetworkHeld, DownSteps, service, host, container
<1>1. TypeOK
  BY DEF IInv
<1>2. ASSUME NEW step \in {"drivers", "unregister", "freeze", "unfreeze", "rekill", "upkill",
                           "await_shutdown", "await_restart", "selfcall", "exit"},
             NEW j, Dispatch(step, j)
      PROVE  NetworkHeld'
  BY <1>1, <1>2 DEF Dispatch, Idle, TypeOK
<1>3. ASSUME ServeInbox PROVE NetworkHeld'
  <2>1. PICK request \in inbox : \E step \in Handlers(request) : Dispatch(step, NoJob)
    BY <1>3 DEF ServeInbox
  <2>2. request \in GuestRequests \cup {"stop"}
    BY <1>1, <2>1 DEF TypeOK
  <2>3. Handlers(request) \subseteq {"unregister", "freeze", "rekill", "upkill",
                                     "await_shutdown", "await_restart", "selfcall"}
    BY <2>2 DEF Handlers, GuestRequests
  <2> QED
    BY <1>2, <2>1, <2>3
<1>4. ASSUME Dispatches PROVE NetworkHeld'
  BY <1>2, <1>4 DEF Dispatches, DbusStart, DbusStop, DbusFreeze, DbusUnfreeze, Sigterm
<1>5. ASSUME Exit PROVE NetworkHeld'
  BY <1>1, <1>5 DEF Exit, Down, TypeOK
<1>6. ASSUME ServiceUp PROVE NetworkHeld'
  BY <1>6 DEF ServiceUp
<1> QED
  BY <1>3, <1>4, <1>5, <1>6

\* lxc-start creates a container on a mounted rootfs only, and while the
\* service waits for it.
LEMMA HostHeld ==
  ASSUME IInv, Owned, NetworkHeld, HostStep \/ Environment
  PROVE  NetworkHeld'
<1> USE DEF NetworkHeld, DownSteps, service, host, container, others
<1>1. ASSUME LxcCreate PROVE NetworkHeld'
  BY <1>1 DEF LxcCreate, Owned, SpawnsAwaited
<1>2. ASSUME LxcChange("STARTING", "RUNNING") \/ LxcChange("STOPPING", "STOPPED")
      PROVE  NetworkHeld'
  BY <1>2 DEF LxcChange
<1>3. ASSUME GuestDies PROVE NetworkHeld'
  BY <1>3 DEF GuestDies, LxcChange
<1>4. ASSUME Worker \/ Initialize \/ \E request \in GuestRequests : GuestRequest(request)
      PROVE  NetworkHeld'
  BY <1>4 DEF Worker, Initialize, GuestRequest
<1> QED
  BY <1>1, <1>2, <1>3, <1>4 DEF HostStep, Environment

LEMMA InitNInv == Init => NInv
BY DEF Init, NInv, NetworkHeld, DownSteps

LEMMA NextNInv == IInv /\ OInv /\ NInv /\ [Next]_vars => NInv'
<1> SUFFICES ASSUME IInv, OInv, NInv, [Next]_vars, Obeyed' PROVE NetworkHeld'
  BY DEF NInv
<1>1. Obeyed
  BY FaultsFixed DEF Obeyed
<1>2. NetworkHeld /\ Owned /\ Undisturbed
  BY <1>1, Obedience DEF NInv, OInv
<1>3. CASE ServiceStep
  BY <1>1, <1>2, <1>3, StartHeld, StopHeld, GuestHeld DEF ServiceStep
<1>4. CASE ServeInbox \/ Dispatches \/ Exit \/ ServiceUp
  BY <1>2, <1>4, DispatchHeld
<1>5. CASE HostStep \/ Environment
  BY <1>2, <1>5, HostHeld
<1>6. CASE UNCHANGED vars
  BY <1>2, <1>6 DEF vars, service, host, container, NetworkHeld
<1> QED
  BY <1>2, <1>3, <1>4, <1>5, <1>6, Undisturbing DEF Next

LEMMA HeldInvariance == Spec => []NInv
BY InitNInv, NextNInv, Invariance, OwnedInvariance, PTL DEF Spec

\* No container that runs loses its network, whatever the guest asks for in
\* whatever order: also a request that is served when its session has ended
\* boots no container without one.
THEOREM NetworkSafety == Spec => []NetworkUnderContainer
<1>1. NInv => NetworkUnderContainer
  BY DEF NInv, Obeyed, NetworkHeld, NetworkUnderContainer
<1> QED
  BY <1>1, HeldInvariance, PTL

-----------------------------------------------------------------------------
(* All or nothing.  When nothing at all goes wrong, what is up is a         *)
(* function of the tracked session and of the step the service is at.       *)

Tracked     == session[Service] # NoSession
SensorCount == IF SensordInstalled THEN 1 ELSE 0

NetworkAsNeeded ==
  network <=> \/ Tracked /\ pc[Service] \notin {"unsensors", "umount", "untrack"}
              \/ pc[Service] \in StartSteps \ {"drivers", "network"}

SensorsAsNeeded ==
  sensors = IF \/ Tracked /\ pc[Service] \notin {"umount", "untrack"}
               \/ pc[Service] \in StartSteps \ {"drivers", "network", "sensors"}
            THEN SensorCount ELSE 0

RootfsAsNeeded ==
  rootfs = IF \/ Tracked /\ pc[Service] \notin {"untrack", "replace", "remount"}
              \/ pc[Service] \in {"boot", "booted", "hardware", "track"}
           THEN "full" ELSE "none"

HardwareAsNeeded ==
  "wanted" \in hardware <=> \/ Tracked /\ pc[Service] \notin StopSteps \ {"unregister"}
                            \/ pc[Service] = "track"

\* A start that waits for its container gets it.
ContainerAsNeeded ==
  /\ lxc # "STOPPED" => Tracked \/ pc[Service] \in {"booted", "hardware", "track"}
  /\ pc[Service] = "kill" => lxc # "STOPPED"
  /\ pc[Service] = "booted" => /\ lxc \in {"STOPPED", "STARTING", "RUNNING"}
                               /\ lxc = "STOPPED" => starters # {}

\* What the handlers rely on: an initialised service, a session to upgrade
\* below, and none when the main loop is left.
HandlersAsNeeded ==
  /\ Tracked \/ pc[Service] \in StartSteps => initialized
  /\ pc[Service] \in {"upumount", "replace", "remount"} => Tracked
  /\ pc[Service] = "exit" => ~Tracked
  /\ job.exit => pc[Service] \in StopSteps \cup {"exit"}

AsNeeded == /\ NetworkAsNeeded /\ SensorsAsNeeded /\ RootfsAsNeeded
            /\ HardwareAsNeeded /\ ContainerAsNeeded /\ HandlersAsNeeded

CInv == faults = {} => AsNeeded

LEMMA Untroubled ==
  ASSUME faults = {}
  PROVE  /\ Obeyed /\ Undisturbed
         /\ \A fault : ~MayFail(fault)
BY DEF Obeyed, Undisturbed, MayFail

\* Where the service is when a handler that SIGTERM did not begin has ended.
LEMMA FinishIdle ==
  ASSUME TypeOK, Finish(Service), ~job.exit
  PROVE  pc'[Service] = "idle" /\ ~job'.exit
BY DEF TypeOK, Finish, NoJob

\* do_start brings everything up and then tracks the session.
LEMMA StartAsNeeded ==
  ASSUME IInv, Owned, NetworkHeld, AsNeeded, faults = {}, DoStart
  PROVE  AsNeeded'
<1> USE DEF AsNeeded, NetworkAsNeeded, SensorsAsNeeded, RootfsAsNeeded, HardwareAsNeeded,
            ContainerAsNeeded, HandlersAsNeeded, Tracked, service, host, container
<1> /\ TypeOK /\ StartPending /\ Obeyed /\ Undisturbed
    /\ \A fault : ~MayFail(fault)
  BY Untroubled DEF IInv
<1>1. ASSUME StartDrivers PROVE AsNeeded'
  BY <1>1, GotoEffect DEF StartDrivers, TypeOK
<1>2. ASSUME StartNetworking PROVE AsNeeded'
  BY <1>2, GotoEffect DEF StartNetworking, TypeOK, StartPending
<1>3. ASSUME StartSensors PROVE AsNeeded'
  BY <1>3, GotoEffect DEF StartSensors, TypeOK, StartPending, SensorCount
<1>4. ASSUME StartConfigure PROVE AsNeeded'
  BY <1>4, GotoEffect DEF StartConfigure, TypeOK
<1>5. ASSUME StartMount PROVE AsNeeded'
  <2>1. ~Tracked /\ rootfs = "none" /\ lxc = "STOPPED" /\ network /\ "wanted" \notin hardware
    BY <1>5 DEF StartMount, StartPending
  <2>2. MountRootfs /\ Goto(Service, "boot")
    BY <1>5, <2>1 DEF StartMount, MountRootfsFails, RootfsBusy
  <2>3. /\ rootfs' = "full" /\ pc'[Service] = "boot" /\ job' = job
        /\ UNCHANGED <<initialized, session, lxc, network, sensors, hardware>>
    BY <1>5, <2>2, GotoEffect DEF StartMount, MountRootfs
  <2> QED
    BY <1>5, <2>1, <2>3 DEF StartMount
<1>6. ASSUME StartBoot PROVE AsNeeded'
  <2>1. starters' # {} /\ lxc' = "STOPPED"
    BY <1>6 DEF StartBoot, LxcStart, Owned, CreatedFor, ConfiguredFor, StartPending
  <2> QED
    <3>1. /\ pc'[Service] = "booted" /\ job' = job
          /\ UNCHANGED <<initialized, session, rootfs, network, sensors, hardware>>
      BY <1>6, GotoEffect DEF StartBoot, LxcStart
    <3>2. ~Tracked /\ "wanted" \notin hardware /\ network
      BY <1>6 DEF StartBoot, StartPending
    <3> QED
      BY <1>6, <2>1, <3>1, <3>2 DEF StartBoot
<1>7. ASSUME StartBooted PROVE AsNeeded'
  <2>1. CASE Reads("RUNNING") /\ Goto(Service, "hardware")
    BY <1>7, <2>1, GotoEffect DEF StartBooted, TypeOK
  <2>2. CASE PollAgain(Service, "RUNNING")
    BY <1>7, <2>2, PollEffect DEF StartBooted, TypeOK
  <2>3. ~TimedOut(Service, "RUNNING")
    BY <1>7, TimedOutSettled DEF StartBooted, TimedOut, Misses
  <2> QED
    BY <1>7, <2>1, <2>2, <2>3 DEF StartBooted
<1>8. ASSUME StartTrack PROVE AsNeeded'
  BY <1>8, FinishIdle, FinishEffect DEF StartTrack, TypeOK, StartPending
<1>9. ASSUME StartHardware PROVE AsNeeded'
  BY <1>9, GotoEffect DEF StartHardware, TypeOK, StartPending
<1> QED
  BY <1>1, <1>2, <1>3, <1>4, <1>5, <1>6, <1>7, <1>8, <1>9 DEF DoStart

\* stop takes everything down and then forgets the session.
LEMMA StopAsNeeded ==
  ASSUME IInv, Owned, NetworkHeld, AsNeeded, faults = {}, Stop(Service)
  PROVE  AsNeeded'
<1> USE DEF AsNeeded, NetworkAsNeeded, SensorsAsNeeded, RootfsAsNeeded, HardwareAsNeeded,
            ContainerAsNeeded, HandlersAsNeeded, Tracked, service, host, container
<1> /\ TypeOK /\ Obeyed /\ Undisturbed
    /\ \A fault : ~MayFail(fault)
  BY Untroubled DEF IInv
<1>1. ASSUME StopUnregister(Service) PROVE AsNeeded'
  BY <1>1, GotoEffect DEF StopUnregister, Unwanted, TypeOK
<1>2. ASSUME StopStatus(Service) PROVE AsNeeded'
  BY <1>2, GotoEffect DEF StopStatus, Reads, Misses, TypeOK
<1>3. ASSUME StopKill(Service) PROVE AsNeeded'
  BY <1>3, GotoEffect DEF StopKill, LxcStop, LxcStopFails, TypeOK
<1>4. ASSUME StopKilled(Service) PROVE AsNeeded'
  BY <1>4, GotoEffect, PollEffect DEF StopKilled, TypeOK
<1>5. ASSUME StopNetworking(Service) PROVE AsNeeded'
  <2>1. /\ ~network' /\ pc'[Service] = "unsensors" /\ job' = job
        /\ UNCHANGED <<initialized, session, lxc, rootfs, sensors, hardware>>
    BY <1>5, GotoEffect DEF StopNetworking
  <2> QED
    BY <1>5, <2>1 DEF StopNetworking
<1>6. ASSUME StopSensors(Service) PROVE AsNeeded'
  BY <1>6, GotoEffect DEF StopSensors, TypeOK
<1>7. ASSUME StopUmount(Service) PROVE AsNeeded'
  BY <1>7, GotoEffect
     DEF StopUmount, UmountRootfs, UmountRootfsFails, RootfsBusy, NetworkHeld, DownSteps, TypeOK
<1>8. ASSUME StopUntrack(Service) PROVE AsNeeded'
  <2>1. /\ ~Tracked'
        /\ UNCHANGED <<initialized, lxc, rootfs, network, sensors, hardware>>
    BY <1>8 DEF StopUntrack, TypeOK
  <2>2. pc'[Service] \in {"idle", "exit"} /\ (job'.exit => pc'[Service] = "exit")
    BY <1>8 DEF StopUntrack, Finish, NoJob, TypeOK
  <2>3. lxc = "STOPPED"
    BY <1>8 DEF StopUntrack, NetworkHeld, DownSteps
  <2> QED
    BY <1>8, <2>1, <2>2, <2>3 DEF StopUntrack
<1> QED
  BY <1>1, <1>2, <1>3, <1>4, <1>5, <1>6, <1>7, <1>8 DEF Stop

\* A restart or an upgrade brings back what it has taken down.
LEMMA RestartAsNeeded ==
  ASSUME IInv, Owned, NetworkHeld, AsNeeded, faults = {}, Restart(Service) \/ Upgrade
  PROVE  AsNeeded'
<1> USE DEF AsNeeded, NetworkAsNeeded, SensorsAsNeeded, RootfsAsNeeded, HardwareAsNeeded,
            ContainerAsNeeded, HandlersAsNeeded, Tracked, service, host, container
<1> /\ TypeOK /\ Obeyed /\ Undisturbed
    /\ \A fault : ~MayFail(fault)
  BY Untroubled DEF IInv
<1>1. ASSUME RestartKill(Service) PROVE AsNeeded'
  BY <1>1, GotoEffect, FinishIdle DEF RestartKill, LxcStop, TypeOK
<1>2. ASSUME RestartBoot(Service) PROVE AsNeeded'
  BY <1>2, GotoEffect DEF RestartBoot, LxcStart, TypeOK
<1>3. ASSUME RestartBooted(Service) PROVE AsNeeded'
  BY <1>3, FinishIdle, PollEffect DEF RestartBooted, TypeOK
<1>4. ASSUME UpgradeKill PROVE AsNeeded'
  BY <1>4, GotoEffect, FinishIdle DEF UpgradeKill, LxcStop, TypeOK
<1>5. ASSUME UpgradeUmount PROVE AsNeeded'
  BY <1>5, GotoEffect
     DEF UpgradeUmount, UmountRootfs, UmountRootfsFails, RootfsBusy, NetworkHeld, DownSteps,
         TypeOK
<1>6. ASSUME UpgradeReplace PROVE AsNeeded'
  BY <1>6, GotoEffect DEF UpgradeReplace, TypeOK
<1>7. ASSUME UpgradeRemount PROVE AsNeeded'
  BY <1>7, GotoEffect DEF UpgradeRemount, MountRootfs, MountRootfsFails, RootfsBusy, TypeOK
<1> QED
  BY <1>1, <1>2, <1>3, <1>4, <1>5, <1>6, <1>7 DEF Restart, Upgrade

\* The guest's other requests and freezing take nothing down.
LEMMA GuestAsNeeded ==
  ASSUME IInv, AsNeeded, faults = {},
         ShutdownRequest \/ SuspendSelfCall \/ Freeze(Service) \/ Unfreeze(Service)
  PROVE  AsNeeded'
<1> USE DEF AsNeeded, NetworkAsNeeded, SensorsAsNeeded, RootfsAsNeeded, HardwareAsNeeded,
            ContainerAsNeeded, HandlersAsNeeded, Tracked, service, host, container
<1> TypeOK
  BY DEF IInv
<1>1. ASSUME NEW step \in {"await_shutdown", "await_restart"},
             NEW next \in {"unregister", "reboot"}, AwaitShutdown(step, next)
      PROVE  AsNeeded'
  BY <1>1, GotoEffect, FinishIdle, PollEffect DEF AwaitShutdown, TypeOK
<1>2. ASSUME SuspendSelfCall PROVE AsNeeded'
  BY <1>2, FinishIdle DEF SuspendSelfCall, TypeOK
<1>3. ASSUME FreezeContainer(Service) \/ UnfreezeContainer(Service) PROVE AsNeeded'
  BY <1>3, GotoEffect, FinishIdle DEF FreezeContainer, UnfreezeContainer, TypeOK
<1>4. ASSUME NEW step \in {"frozen", "unfrozen"}, NEW state, FreezeWait(Service, step, state)
      PROVE  AsNeeded'
  BY <1>4, FinishIdle, PollEffect DEF FreezeWait, TypeOK
<1> QED
  BY <1>1, <1>2, <1>3, <1>4 DEF ShutdownRequest, Freeze, Unfreeze

\* Each dispatch begins a handler that finds what it needs.
LEMMA DispatchAsNeeded ==
  ASSUME IInv, AsNeeded, ServeInbox \/ Dispatches \/ Exit \/ ServiceUp
  PROVE  AsNeeded'
<1> USE DEF AsNeeded, NetworkAsNeeded, SensorsAsNeeded, RootfsAsNeeded, HardwareAsNeeded,
            ContainerAsNeeded, HandlersAsNeeded, Tracked, service, host, container
<1>1. TypeOK
  BY DEF IInv
<1>2. ASSUME NEW step \in {"unregister", "freeze", "unfreeze", "rekill", "upkill",
                           "await_shutdown", "await_restart", "selfcall"},
             NEW j, Dispatch(step, j), j.exit => step = "unregister"
      PROVE  AsNeeded'
  BY <1>1, <1>2 DEF Dispatch, Idle, TypeOK
<1>3. ASSUME ServeInbox PROVE AsNeeded'
  <2>1. PICK request \in inbox : \E step \in Handlers(request) : Dispatch(step, NoJob)
    BY <1>3 DEF ServeInbox
  <2>2. request \in GuestRequests \cup {"stop"}
    BY <1>1, <2>1 DEF TypeOK
  <2>3. Handlers(request) \subseteq {"unregister", "freeze", "rekill", "upkill",
                                     "await_shutdown", "await_restart", "selfcall"}
    BY <2>2 DEF Handlers, GuestRequests
  <2> QED
    BY <1>2, <2>1, <2>3 DEF NoJob
<1>4. ASSUME NEW s \in Sessions, NEW user, DbusStart(s, user) PROVE AsNeeded'
  BY <1>1, <1>4 DEF DbusStart, Dispatch, Idle, NoJob, TypeOK
<1>5. ASSUME NEW user, NEW quit, DbusStop(user, quit) PROVE AsNeeded'
  BY <1>2, <1>5 DEF DbusStop, NoJob
<1>6. ASSUME NEW user, DbusFreeze(user) \/ DbusUnfreeze(user) PROVE AsNeeded'
  BY <1>2, <1>6 DEF DbusFreeze, DbusUnfreeze, NoJob
<1>7. ASSUME Sigterm PROVE AsNeeded'
  BY <1>1, <1>7 DEF Sigterm, Dispatch, Idle, NoJob, TypeOK
<1>8. ASSUME Exit PROVE AsNeeded'
  BY <1>1, <1>8 DEF Exit, Down, NoJob, TypeOK
<1>9. ASSUME ServiceUp PROVE AsNeeded'
  BY <1>1, <1>9 DEF ServiceUp, TypeOK
<1> QED
  BY <1>3, <1>4, <1>5, <1>6, <1>7, <1>8, <1>9 DEF Dispatches

\* The host creates the container the service waits for.
LEMMA HostAsNeeded ==
  ASSUME IInv, Owned, AsNeeded, faults = {}, HostStep \/ Environment
  PROVE  AsNeeded'
<1> USE DEF AsNeeded, NetworkAsNeeded, SensorsAsNeeded, RootfsAsNeeded, HardwareAsNeeded,
            ContainerAsNeeded, HandlersAsNeeded, Tracked, service, host, container, others
<1>1. TypeOK /\ \A fault : ~MayFail(fault)
  BY Untroubled DEF IInv
<1>2. ASSUME LxcCreate PROVE AsNeeded'
  BY <1>1, <1>2 DEF LxcCreate, Owned, SpawnsAwaited, TypeOK
<1>3. ASSUME LxcChange("STARTING", "RUNNING") \/ LxcChange("STOPPING", "STOPPED")
      PROVE  AsNeeded'
  <2>1. /\ lxc = "STARTING" /\ lxc' = "RUNNING"
        /\ UNCHANGED <<initialized, session, pc, job, rootfs, network, sensors, hardware>>
    BY <1>3 DEF LxcChange, Owned, SpawnsAwaited
  <2> QED
    BY <2>1
<1>4. ~GuestDies
  BY <1>1 DEF GuestDies
<1>5. ASSUME Initialize PROVE AsNeeded'
  BY <1>1, <1>5 DEF Initialize, TypeOK
<1>6. ASSUME NEW request \in GuestRequests, GuestRequest(request) PROVE AsNeeded'
  BY <1>1, <1>6 DEF GuestRequest, TypeOK
<1>7. ASSUME Worker PROVE AsNeeded'
  BY <1>1, <1>7 DEF Worker, WorkerEnters, WorkerLeaves, TypeOK
<1> QED
  BY <1>2, <1>3, <1>4, <1>5, <1>6, <1>7 DEF HostStep, Environment

LEMMA InitCInv == Init => CInv
<1> SUFFICES ASSUME Init PROVE AsNeeded
  BY DEF CInv
<1> QED
  BY DEF Init, AsNeeded, NetworkAsNeeded, SensorsAsNeeded, RootfsAsNeeded, HardwareAsNeeded,
         ContainerAsNeeded, HandlersAsNeeded, Tracked, NoJob

LEMMA NextCInv == IInv /\ OInv /\ NInv /\ CInv /\ [Next]_vars => CInv'
<1> SUFFICES ASSUME IInv, OInv, NInv, CInv, [Next]_vars, faults' = {} PROVE AsNeeded'
  BY DEF CInv
<1>1. faults = {}
  BY FaultsFixed
<1>2. Owned /\ NetworkHeld /\ AsNeeded /\ Undisturbed
  BY <1>1, Untroubled DEF OInv, NInv, CInv
<1>3. CASE ServiceStep
  BY <1>1, <1>2, <1>3, StartAsNeeded, StopAsNeeded, RestartAsNeeded, GuestAsNeeded
     DEF ServiceStep
<1>4. CASE ServeInbox \/ Dispatches \/ Exit \/ ServiceUp
  BY <1>2, <1>4, DispatchAsNeeded
<1>5. CASE HostStep \/ Environment
  BY <1>1, <1>2, <1>5, HostAsNeeded
<1>6. CASE UNCHANGED vars
  BY <1>2, <1>6 DEF vars, service, host, container, AsNeeded, NetworkAsNeeded,
     SensorsAsNeeded, RootfsAsNeeded, HardwareAsNeeded, ContainerAsNeeded,
     HandlersAsNeeded, Tracked, IInv, TypeOK
<1> QED
  BY <1>2, <1>3, <1>4, <1>5, <1>6, Undisturbing DEF Next

LEMMA NeededInvariance == Spec => []CInv
BY InitCInv, NextCInv, Invariance, OwnedInvariance, HeldInvariance, PTL DEF Spec

\* Where nothing goes wrong, the service between two handlers has everything up
\* for its session or nothing at all, whatever was called in whatever order.
THEOREM AllOrNothingSafety == Spec => []AllOrNothing
<1>1. ASSUME IInv, OInv, CInv PROVE AllOrNothing
  <2> SUFFICES ASSUME faults = {}, Idle
               PROVE  IF session[Service] = NoSession
                      THEN /\ ~network /\ sensors = 0 /\ rootfs = "none" /\ lxc = "STOPPED"
                           /\ "wanted" \notin hardware
                      ELSE /\ network /\ rootfs = "full" /\ "wanted" \in hardware
                           /\ starters = {}
                           /\ sensors = IF SensordInstalled THEN 1 ELSE 0
    BY DEF AllOrNothing
  <2>1. AsNeeded /\ Owned
    BY <1>1, Untroubled DEF CInv, OInv
  <2> QED
    BY <2>1 DEF Idle, AsNeeded, NetworkAsNeeded, SensorsAsNeeded, RootfsAsNeeded,
       HardwareAsNeeded, ContainerAsNeeded, Tracked, SensorCount, Owned, SpawnsAwaited
<1> QED
  BY <1>1, Invariance, OwnedInvariance, NeededInvariance, PTL

\* Where nothing goes wrong, no container is created for nobody: what a request of
\* the guest that is served too late would boot has been taken away by then, and
\* what it boots otherwise is the tracked session's, for any sessions and however
\* many requests a worker that nobody could quit still takes.
THEOREM NobodySafety == Spec => NoBootForNobody
<1> DEFINE Boots  == faults = {} /\ lxc = "STOPPED" /\ lxc' # "STOPPED"
           ForOne == \/ session[Service] # NoSession /\ guest' = session[Service]
                     \/ pc[Service] = "booted" /\ guest' = job.session
<1>1. IInv /\ OInv /\ CInv /\ [Next]_vars => [Boots => ForOne]_vars
  <2> SUFFICES ASSUME IInv, OInv, CInv, [Next]_vars, Boots PROVE ForOne
    OBVIOUS
  <2>1. Owned /\ AsNeeded /\ Undisturbed
    BY Untroubled DEF OInv, CInv
  <2>2. LxcCreate
    BY <2>1, Undisturbing
       DEF Next, vars, service, host, container, others, ServiceStep, DoStart, StartDrivers,
           StartNetworking, StartSensors, StartConfigure, StartMount, MountRootfs,
           MountRootfsFails, StartBoot, StartBooted, StartHardware, StartTrack, LxcStart,
           LxcStop, Stop, StopUnregister, StopStatus, StopKill, StopKilled, StopNetworking,
           StopSensors, StopUmount, UmountRootfs, UmountRootfsFails, StopUntrack, Restart,
           RestartKill, RestartBoot, RestartBooted, Upgrade, UpgradeKill, UpgradeUmount,
           UpgradeReplace, UpgradeRemount, Freeze, Unfreeze, FreezeContainer,
           UnfreezeContainer, FreezeWait, ShutdownRequest, AwaitShutdown, SuspendSelfCall,
           ServeInbox, Dispatches, DbusStart, DbusStop, DbusFreeze, DbusUnfreeze, Sigterm,
           Dispatch, Exit, Down, ServiceUp, HostStep, LxcChange, Environment, GuestDies,
           GuestRequest, Worker, Initialize
  <2>3. rootfs # "none" /\ guest' = config /\ pc[Service] \in {"booted", "rebooted"}
    BY <2>1, <2>2 DEF LxcCreate, Owned, SpawnsAwaited
  <2>4. session[Service] # NoSession \/ pc[Service] = "booted"
    BY <2>1, <2>3 DEF AsNeeded, RootfsAsNeeded, Tracked
  <2> QED
    BY <2>1, <2>3, <2>4 DEF Owned, ConfiguredFor
<1> QED
  BY <1>1, Invariance, OwnedInvariance, NeededInvariance, PTL DEF Spec, NoBootForNobody
=============================================================================
