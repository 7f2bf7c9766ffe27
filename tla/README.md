# A TLA+ model of Waydroid

Waydroid runs Android in an LXC container of a Linux host. The program in this
repository is what surrounds that container: a root service that owns the
container and the host's resources, unprivileged session processes that ask for
it, services that Android calls over binder, and commands that act on all of
them. These modules model how those parts work together, check them with TLC on
small instances and prove part of it with TLAPS for any instance.

## 1. The system

| Component | State it keeps | Operations | Talks to |
|---|---|---|---|
| Container service (`tools/actions/container_manager.py`, `waydroid container start`) | `args.session` (the session it tracks), `prepared_drivers`; on the host: network, sensor daemon, LXC configuration, mounted rootfs, the container | D-Bus `Start`, `Stop`, `Freeze`, `Unfreeze`, `GetSession`; SIGINT/SIGTERM | session processes and commands (system bus), LXC, Android (binder), `waydroid-net.sh` |
| Hardware service (`tools/services/hardware_manager.py`, `IHardware.py`) | a worker thread, `args.hardwareLoop` | `suspend`, `reboot`, `upgrade`, `shutdownRequest` | called by Android; works on the same `args` as the container service |
| LXC control (`tools/helpers/lxc.py`) | the state `lxc-info` prints, the configuration on disk | start, stop, freeze, unfreeze, status, shell | `lxc-*` commands |
| Session process (`tools/actions/session_manager.py`) | the name `id.waydro.Session`, its main loop, three service threads | `start`, D-Bus `Stop`, signals, loss of the session bus | container service |
| Service threads (`tools/services/runner.py`, `tools/interfaces/I*.py`) | stop flag, thread, main loop on `args` | start, stop, the worker's loop | the guest's service manager |
| Upgrade (`tools/actions/upgrader.py`) and root commands (`tools/__init__.py`) | an `args` of their own | stop, update, start again; `container stop/restart/freeze/unfreeze` | container service, or LXC directly |
| App and property commands (`app_manager.py`, `prop.py`) | none | look at the state, unfreeze, act, freeze again | container service, Android |
| Initializer (`tools/actions/initializer.py`) | configuration, images, a worker process and its monitor thread | `Init`, `Cancel`, `waydroid init` | container service, polkit |
| Images (`tools/helpers/images.py`), mounts (`mount.py`) | image files and their dates, overlays, the mount stack below the rootfs | get, replace, mount, unmount | container service, upgrade, initializer |
| Configuration (`tools/config/`) | `waydroid.cfg` | load, save | everybody |
| Network (`data/scripts/waydroid-net.sh`) | bridge, dnsmasq, NAT rules, `network_up` | start, stop | container service |
| User monitor, clipboard, notifications (`tools/services/`) | desktop files, notification identifiers | callbacks from Android | session process, desktop |
| ARM translation (`arm_translation.py`) | files in the overlay | install, uninstall | overlay |

What is hard about it:

* **One thread dispatches everything in the service.** The D-Bus methods, the
  signal handlers and the binder transactions of the hardware service all run
  in GLib's default main context (`container_manager.py:192`, `IHardware.py:79`
  create their loops on it). Handlers do not interleave with each other, but a
  handler is many host commands long, blocks for up to 30 seconds, and the host,
  Android and root's commands move between its steps.
* **Nothing is rolled back.** `do_start` raises wherever it is; `stop` swallows
  every exception wherever it is. What the host looks like afterwards depends
  on the step.
* **The session is only in memory.** A service that is killed forgets it; the
  container, its network and its mounts remain.
* **Answers are late.** `Start` and `Stop` take as long as Android does, and
  their callers may have given up, or died, when they take effect.
* **Nobody waits for a worker.** The hardware service is started before its session
  is tracked and is told to stop without being joined; a quit can even be lost.
  Android's requests may be served when their session is over.
* **Other processes work on the same host.** `waydroid container stop` and the
  fallback of `waydroid upgrade` run `stop` in a process whose `args` knows
  nothing of the service's session, or only a copy of it.

For each component, what makes it correct: the service tracks at most one
session and forgets it only when the host is clean (`LeaseSpec`,
`UntrackLeavesNothing`), boots Android for that session or the one being started
and for nobody else, however late requests of a hardware worker come
(`NoBootForNobody`), runs the container configured for that session
(`ContainerIsTheSessions`) with its network (`NetworkUnderContainer`), is all up
or all down when nothing fails (`AllOrNothing`), and always answers again
(`HandlersEnd`). A session process runs only while it has the container, or is
told, but for four paths that the property names (`SessionHasContainer`), gives it back when asked (`StopReleases`), and can be
replaced when it died (`DeadSessionsCanBeStopped`). A service thread ends when
stopped (`StopEndsARunningWorker`). A command leaves the container frozen or
running as it was asked to be (`FrozenAgain`) and ends (`CommandsEnd`).

The configuration never claims more of the images than is on disk
(`DateNotNewer`), an initialised waydroid has images (`InitializedHasImages`), a
process that says it succeeded leaves both of them whole (`FinishedIsComplete`);
the initializer has one worker (`OneWorker`), whose end the window hears of
(`EndIsAnnounced`) and which does not outlive the window
(`ClosedWindowStopsWork`). Mounting and unmounting are entire or can be repeated
(`MountedExactly`, `UnmountedEntirely`, `LeftoversAreUndone`); so are the network
(`UpIsComplete`, `FailedStartLeavesNothing`, `RulesOnce`) and the translation layer
(`InstallIsAllOrNothing`, `BootsWithTheLayer`, `AdvertisedIsThere`). A command that
is run returns all of its output and its code, or is killed with what it started
(`ReturnsTheWhole`, `KilledWithChildren`, `CallerGoesOn`). Desktop files are
Android's apps (`FilesAreTheApps`, `MigratedEntirely`). What is concluded from the
host fits together (`ConclusionsFit`, `NodesSurviveBoot`, `PropertiesOverride`).

`PROJECT.json` lists every component with what is and is not modelled, and the
hazards with their source lines.

## 2. The modules

`ContainerLease` is the abstract specification of the service seen from its
clients: one holder, granted, released or revoked; a session is told to quit in
the very step in which its lease is revoked.

`ContainerManager` is the service in detail. It has

* one variable per thing the code changes: `session` (per process, because the
  root commands have their own `args`), `hardware` (what its worker was told, and
  whether it is in its loop and so registered), `prepared`, and on the host
  `lxc`, `starters` (running `lxc-start` processes that have not made a container
  yet), `config`, `guest` (the session the present container was configured
  for), `rootfs`, `network`, `sensors`; `notified` collects who was sent SIGUSR1;
* a program counter per process, `Service` and `Cli`, and one action per step
  that can fail or be interfered with: `do_start` is the nine actions of
  `DoStart`, `stop` the eight of `Stop(p)`, and `Restart`, `Upgrade`, `Freeze`,
  `Unfreeze`, `ShutdownRequest` and `SuspendSelfCall` likewise; an action whose
  command fails goes where the exception goes;
* what the main loop dispatches (`DbusStart`, `DbusStop`, `DbusFreeze`,
  `DbusUnfreeze`, `ServeInbox`, `Sigterm`), each with the code's checks; a
  handler begins only when none runs;
* the worker of the hardware service (`Worker`), which enters and leaves its loop
  when it is scheduled: `StopUnregister` lowers its flag and does not wait, and may
  leave it in its loop for good (`Unwanted`), which is what `ServiceRunner` shows of
  the real one in detail;
* the environment: LXC carrying out a change (`LxcCreate`, `LxcChange`),
  Android dying or calling the hardware service, root's commands, a killed
  service.

Physical facts it takes from the comments and from how the code uses LXC: a
rootfs cannot be unmounted below a container that is not stopped
(`container_manager.py:387-389`, EBUSY); `lxc-stop -k` fails on a stopped
container; `lxc-start` reads its configuration when it is spawned and refuses a
container that is there; an `lxc-info` that fails reads as STOPPED
(`lxc.py:428`).

`ContainerManager_proofs` holds the theorems about it, `MCContainerManager`
instantiates it for TLC.

`SessionManager` has the session processes of several users, `waydroid session
stop` and `waydroid upgrade` as clients of `ContainerLease`: the service is a
server that accepts one call at a time, checks the caller when it accepts it,
and takes effect later. Its steps on the lease are written with `ContainerLease`'s
actions, and that the service in detail implements that specification is theorem
`LeaseRefinement`. What the lease does not say, it has of its own: `running`, whether
the tracked session's container is there, and the ways to lose it: Android shutting
down (`ContainerStops`), root's `container stop` or a death that nobody reports
(`ContainerLost`), SIGTERM (`Terminated`), and a service that is killed or whose stop
fails at SIGTERM (`ServiceDies`), where no SIGUSR1 is sent. `MCSessionManager`
instantiates it.

`ServiceRunner` is the thread machinery behind every binder service: the owner's
`start` and `stop` (two steps: the flag, then the loop), and the worker with
`add_service`, one action per statement the race depends on. GLib's main loop is
modelled by what it does: `run` marks the loop as running, `quit` unmarks it and
is not remembered. A fresh main loop object is any one nobody refers to.

`FreezeClients` has the commands that need a running Android for a moment (`app`,
`prop`, `shell`, `logcat`): a command looks at the container's state (`Look`,
`ShellLook`), thaws it, acts, and freezes it again by what it saw. `Launch` is the
commands that leave it running. A call of the service is one step, because the
service runs one handler at a time (its steps are in `ContainerManager`); `shell`
works on LXC directly, asks for no session, and survives a hangup. Android
answers nobody while it is frozen. The history variable `wanted` is the state
somebody last asked for on purpose: the guest, root, a launch or a session.
`FreezeClients_proofs` holds its theorems.

`ImageStore` is `waydroid.cfg`, the two images it describes and every process that
changes them: `waydroid init` and the initializer's workers, `waydroid upgrade`,
and the guest's system update (`images.replace`). A process is a record `job[p]`
with a program counter: `SetupLoad`, `SetupPreinstalled`/`SetupChannels`,
`StopContainer`, `Migrate`, `GetLoad`, `List`, `Download`, `Validate`, `Extract`,
`RemoveOverlay`, `Prepare`, and `Take`/`Offered` for replace. `job[p].cfg` is the
configuration the process has in memory, which may be older than the file.
A save is two actions, `Truncate` and `Write`; an extraction is torn from
`Validate` until `Extract`; `Die` ends a process between any two of them. An image
is its channel, its build number (the date) and whether it is whole.

`Initializer` extends it with the D-Bus initializer of `tools/actions/initializer.py`:
the method calls and signals between the window and the service are two queues
(`calls`, `mail`), the signals that monitors ask the main loop for a third (`idle`).
`HandleInit` and `HandleCancel` kill the worker and join its monitor as `Kill` does.
`MCInitializer` instantiates it.

Seven modules model a part of the host each, as a small state machine of its own:

* `RootfsMount`: `images.mount_rootfs` and `umount_rootfs` as sequences of
  `mount.py`'s calls on a stack of mounts; `umount_all` reads its list once and
  undoes it in descending order of the paths, as the code does. Of the sorted list
  the model keeps what it says: how often each mount point is still to be unmounted
  (`left`), the next being the `First` of them in that order.
* `WaydroidNet`: `waydroid-net.sh` line by line: bridge, address, rules, dnsmasq, the
  flag file, and the cleanup that a failing command traps into.
* `ArmTranslation`: `waydroid arm-translation install/uninstall`, the copy of the
  layer into the overlay when a session starts, the base properties, and what Android
  boots with at that start, at a restart (`Restart`: the copy that is there and the
  properties the session was mounted with) and after an upgrade it asked for.
* `CommandRunner`: `run_core.foreground_pipe` with the process tree of its command:
  poll, select, read, the timeout and the kill by one `ps`.
* `DesktopFiles`: the user monitor: messages of Android are handled one by one, each
  by asking Android again, so that an answer may be newer than its message.
* `HostConfig`: functions of the host, each compared with what it is to compute:
  vendor type and binder protocols, binder nodes before and after the driver is
  loaded, gralloc/EGL/Vulkan.
* `BaseProperties`: the loop of `make_base_props` in which the `[properties]` of
  `waydroid.cfg` override the host's: one action per entry looked at, because the
  list loses entries while it is enumerated, and one per override appended.

They have no state in common, and `MCHost` explores them in one run: `part` names
the machine that a behaviour is about, and the others keep one fixed state.
`DesktopFiles_proofs`, `ArmTranslation_proofs` and `HostCommands_proofs` (for
`RootfsMount`, `WaydroidNet`, `CommandRunner`, `HostConfig` and `BaseProperties`) hold
the theorems.

Definitions whose comment calls them a slip (`StopUmountBestEffort`,
`PollAgainForever`, ...) are not part of the behaviour. Each is an operation the
way a plausible bug would write it, and `PROJECT.json` says which property must
fail when it takes the place of the real one.

## 3. The runs

A behaviour has a set of faults, chosen at the beginning and never changed
(`faults \in FaultSets`), so one run answers for several worlds, and each property
says under which faults it holds.

| Run | Fault sets | What it shows |
|---|---|---|
| ContainerSafety | none; Android dies; commands fail and Android dies; and LXC is slow and the service is killed | `AllOrNothing`, `NetworkUnderContainer`, `ContainerIsTheSessions`, `UntrackLeavesNothing`, `NoBootForNobody`, `LeaseSpec` |
| ContainerLiveness | none; LXC slower than the wait loops and Android dies; and root's commands | `StopUntracks`, `HandlersEnd` |
| SessionSafety | a service that is killed or terminated and a container lost in silence; killed processes and impatient callers; failing stops; an upgrade | `SessionHasContainer`, `NoOrphanTracking`, `OnlyOwnersStop` |
| SessionLiveness | a service that dies and a container lost in silence; killed processes and late answers (see the cfg) | `StopReleases`, `DeadSessionsCanBeStopped` |
| RunnerSession | - | `StopEndsARunningWorker` |
| FreezeCommands | overlapping commands and suspends; launches; session restarts and commands that break off (see the cfg) | `FrozenAgain`, `CommandsEnd` |
| SetupImages | second clicks, kills, network failures and a Cancel that is not heard; commands of root with the same; a container that runs and a failing bus; preinstalled images that come and go; commands beside each other | `DateNotNewer`, `InitializedHasImages`, `OneWorker`, `ClosedWindowStopsWork`, `FinishedIsComplete`, `EndIsAnnounced` |
| Host | per part: none; kills; commands that fail, scripts or umounts beside each other; bad archives and full disks; commands that hang, close their output or may not be killed; an Android that does not answer | the properties of `RootfsMount`, `WaydroidNet`, `ArmTranslation`, `CommandRunner`, `DesktopFiles`, `HostConfig` and `BaseProperties`, and their types |
| RunnerLostQuit, RunnerRefused, RunnerRestart, RestartAfterInstall | - | violations, see section 6 |

Bounds, and why they are enough:

* *Sessions.* Two users with a session each in the container's runs: the
  interesting conflicts are between the tracked session and one other, which is
  refused, waits for a hand-over or takes over what was left behind. The two are
  interchangeable: users are no part of a state, and what a user may do to one
  session the other may do to the other, so the runs take the sessions for each
  other (`Exchange`), which every property they check allows. ContainerLiveness,
  where symmetry would not be sound, has one session. The
  session runs add a second session of the same user, one process after
  another, which is what a stale `Stop` could hit; SessionLiveness has only that
  user, because a call of another one only delays the service. A session process
  is started once.
* `MaxTries = 1`. A wait loop polls, sleeps and polls again; more polls add no
  other way out. Without the fault "slow" a loop does not give up on a container
  that is on its way; with it, it may.
* `MaxSensors`: the number of sensor daemons alive; a start that would exceed it
  is not dispatched. It is 2 in ContainerSafety, a left-over and a new one, which
  `stop_sensors` must both kill, and 1 where the daemons do not matter.
  `MaxInbox` 0 or 1: requests of Android that are accepted but not dispatched; one
  is enough to be stale when it is served. Behaviours in which root's processes
  interfere at every step do without; those are in ContainerLiveness, with one session.
  What root's commands may do to the safety properties is settled by the proofs, which
  are for every set of faults.
* *Loops* in ServiceRunner: one more than can be referred to at once, so that a
  fresh one always exists (`RunnerAssumption`).
* One upgrade.
* *Clients.* Three in FreezeCommands: one that freezes, one that is caught by it
  and one that thaws again. The proof is for any number. The run does not check
  deadlock: commands whose container the guest has suspended really wait until
  somebody thaws it.

* *SetupImages* (about 550 000 states, two minutes). Two workers: the one that is
  killed and the one after it. One other command. Two channels of system images,
  so that the channel can change, of which one publishes two builds, so that an
  image can be renewed; one channel of vendor images. Builds are published and
  packages changed only before a process has looked at them (`Early`): later would
  be as good as earlier for it. The run does not check deadlock: when every
  process has ended and the window is closed nothing is left to happen.
* *Host* (about 720 000 states, one minute). Eight mounts are one full rootfs and what
  a second attempt can stack on it. A rule is counted to two, which is enough to
  see it doubled. Three archives: one whole, one with fewer files, one that is
  refused. A process tree of three generations and two lines of output. Two
  packages and three messages on their way. Three names of properties, one the end
  of another. Versions from 0 to 37, one past the
  newest the code knows. A behaviour really ends, so deadlock is not checked.

Several properties name the faults they are stated for, and were found false
with more: `ContainerIsTheSessions` fails when LXC is slow (a late `lxc-start`
of a failed start creates its container during the next start), after a crash,
or when root's `container restart` spawns an `lxc-start` meanwhile;
`FrozenAgain` fails when a command is overtaken by root's unfreeze, a launch or a
new session (it freezes what they want to run), or breaks off after it has thawed;
`CommandsEnd` fails when commands overlap (the first to finish freezes the
container below the others) or a launch goes on after a failed unfreeze;
`NetworkUnderContainer` fails when commands fail (a stop that took the network
down and then failed keeps its session tracked, and a restart of Android that
was waiting boots without network); `NoBootForNobody` fails when commands fail (a start that raises after `lxc-start`)
or root boots one; `SessionHasContainer` fails with an upgrade (section 6), when the
service dies or its stop at SIGTERM fails, when a stop fails half way, and when the
container goes down behind the service's back: nobody sends SIGUSR1 there; `NoOrphanTracking` when processes are killed or callers give up,
for which `DeadSessionsCanBeStopped` says that the user can repair it.
`DateNotNewer` and `FinishedIsComplete` fail when two commands run at once (each
writes back what it loaded); `InitializedHasImages` fails when preinstalled images
are removed; `ClosedWindowStopsWork` after a second click (the late `Interrupted` of
the killed worker makes the window believe that nothing runs, so that closing it
cancels nothing) and when the Cancel of the closing window fails, which is logged and
dropped (`initializer.py:447-450`): the worker then downloads for nobody; `UpIsComplete` when a stop is killed at its end;
`AdvertisedIsThere` after an installation that failed or was refused, and after an
upgrade of the guest's images, which takes new properties over the overlay as it is;
`BootsWithTheLayer` is about the start of a session, and fails when a container starts beside an installation;
`CallerGoesOn` when a command closes its output and runs on, or may not be killed;
`FilesAreTheApps` when Android does not answer.

## 4. Fairness

`ContainerManager`: the service's steps, the dispatch of requests it has
accepted, its exit, a root process's steps, and LXC's completion of what it has
begun are weakly fair: processes are scheduled by the kernel and the wait loops
are bounded by a counter. Nobody is obliged to call, Android is not obliged to
ask for anything or to die, and a command is not obliged to succeed.

`SessionManager`: processes handle what they have been asked once their loop
runs, and the service serves and finishes each call it has been sent
(`HandlersEnd` is the reason why it may be assumed). That a user repeats
`waydroid session stop` is a hypothesis of `DeadSessionsCanBeStopped`, in the
property itself, and nowhere else.

`ServiceRunner`: threads are scheduled and a `stop` that has raised the flag
goes on to the loop. Nobody is obliged to start or stop anything, and the
container's service manager need not appear.

`FreezeClients`: a command that has begun runs on; a shell's user need not leave
it, and nobody has to thaw a container.

`Initializer`: a worker process, the monitors and the main loop go on. That a
worker does includes that the network answers or fails: `http.py` has no timeout,
so this is an assumption about the host. Nobody has to click.

`CommandRunner`: the caller's loop and the system go on; the command need not end.

## 5. What is proved

`ContainerManager_proofs` proves, for any sets of users and sessions, any
faults, any bounds, from `ConstantsAssumption` alone:

* `Typing`: `Spec => []TypeOK`.
* `UntrackSafety`: `Spec => UntrackLeavesNothing`.
* `LeaseRefinement`: `Spec => LeaseSpec`, the service implements the lease.
* `OwnContainerSafety`: `Spec => []ContainerIsTheSessions`.
* `NetworkSafety`: `Spec => []NetworkUnderContainer`.
* `AllOrNothingSafety`: `Spec => []AllOrNothing`.
* `NobodySafety`: `Spec => NoBootForNobody`.

The first three follow from one inductive invariant, `IInv` (theorem `Invariance`),
because none of them is inductive alone. `LeaseRefinement` needs to know that a
start works for a session while none is tracked (`StartPending`).
`UntrackLeavesNothing` needs what the earlier steps of a stop
have done (`StopCleaned`) and that a container that is not stopped has a rootfs
(`RootfsInUse`), which is how the umount that succeeds proves that the container
is down, whatever a failing `lxc-info` said. `SensorRoom` and `CliSteppable`
carry the typing. The proof has a lemma for each group of handlers, one step per
action; `LeaseRefinement` separates the two actions that move the lease,
`StartTrack` and `StopUntrack`, and the death of the service from the rest, which
leave `session[Service]` and `notified[Service]` alone (the three `Bystander`
lemmas).

The other four need more, and hold under the faults that each property names:

* `Owned`, in behaviours that are `Undisturbed` (LXC keeps up with the wait loops,
  the service is not killed, root types nothing): an `lxc-start` is at work only
  while the handler that spawned it waits (`SpawnsAwaited`), so a container is
  created from the configuration of the start or restart that asked for it
  (`ConfiguredFor`, `CreatedFor`). That a wait loop sleeps only when nothing is on
  its way needs `MaxTries > 0`; the loops of the code poll 10 and 30 times.
* `NetworkHeld`, when commands are `Obeyed`: a stop that takes the network down
  has seen the container down, and until that stop forgets the session the network
  is down only in the steps after it, in which nothing boots. It rests on `Owned`: a late
  `lxc-start` would boot there.
* `AsNeeded`, when nothing fails: for each of the network, the sensor daemons, the
  rootfs, the hardware service and the container, at which steps of which handler
  it is up. `AllOrNothing` is what is left of it when no handler runs.
  `NoBootForNobody` follows from it as well, and not from the worker being
  unregistered, which nothing guarantees: a container is created only below a rootfs
  that is mounted, the rootfs is mounted only for a session that is tracked or being
  started, and a request that comes late finds none.

`FreezeClients_proofs` proves `FreezeSafety`, `Spec => []FrozenAgain`, for any number
of clients. Its invariant `Restored` says why: while anybody who saw the container
frozen is under way, it ought to be frozen, and if it is not as it ought to be,
such a client exists and will freeze it; `Placed` says that it can.

`SessionManager_proofs` proves `Typing`, `HoldSafety` (`SessionHasContainer`),
`OrphanSafety` (`NoOrphanTracking`) and `OwnerSafety` (`OnlyOwnersStop`) from
`SessionAssumption`, for any users and sessions. `IInv` adds to the types what is
shared by all faults (`Shared`): who may have which call under way, that one
process of a user is alive, and above all `ServedForOwner`, that a Stop under way
is for the session that is tracked *now*, because the service serves one call at
a time. `Undisturbed` is what holds without an upgrade, where a session that loops
and was not told otherwise is the tracked one unless the service has died
(`LoopersHold`). `TrackedRuns` is the other half of `SessionHasContainer`: unless a stop
fails or the container goes down unnoticed, a tracked session has its container.
`Faithful` is what holds where
nobody is killed and nobody gives up; the orphan theorem needs it.

One more theorem is about the model itself. `AcceptedStartsFindItFree`: the condition that the lease puts on a
grant never holds up a Start that was accepted, because between the check and the
grant nothing else is served. Without it the model could hide a Start that the real
service would carry out.

`ServiceRunner_proofs` proves `Typing`; what it needs (`LoopOnArgs`) is that whoever
is about to run a loop finds one on `args`.

`Initializer_proofs` proves, for any processes, channels, builds and faults:

* `Typing`, which needs `Legal`: a process that downloads has a channel.
* `OneWorkerSafety`, from `Known`: a worker that lives is the one the service knows.
* `ImagesSafety` (`InitializedHasImages`), from `Images`: whatever is dated, in the
  file or in what any process remembers of it, is on disk, and a process that is
  past an image has obtained it. It also holds for processes that lose each
  other's updates, because images are overwritten and never removed.
* `DatesSafety` (`DateNotNewer`), from `Dates`: no two processes are alive
  (`Single`, with `Quiet` for an init that is still on its way), the configuration
  of each fits the images (`Fits`), what the file says is never newer than what the
  process that obtains images remembers (`Behind`), and what it obtains is newer
  than both. `Behind` is what makes a torn image harmless: its date is always in
  the future of the file's.

* `FinishedSafety` (`FinishedIsComplete`), from `FInv`, which adds to `Dates` what a
  process has made sure of so far (`Completes`): which image it has obtained from
  the channel that was asked for, and that nobody can have torn it since.
* `ClosedSafety` (`ClosedWindowStopsWork`), from `WInv`: as long as Init is not
  clicked again and Cancel is heard (`Watched`), a worker that lives is known to the window or the
  message that will tell it is on its way, and a window that closes has sent a
  Cancel that nothing overtakes. That it is heard is a condition of the property
  because the code drops one that fails.

Each action has a lemma that says what it does to the process's record
(`SetupEffect` to `EndingEffect`), and the three preservation lemmas
(`StepLegal`, `StepImages`, `StepDated`) work from those alone.

`DesktopFiles_proofs` proves `Synchronised` (`FilesAreTheApps`) and `Migration`
(`MigratedEntirely`) and `Typing` for any packages from `DesktopAssumption`. The invariant
relates the files to the messages on their way: the last message about a package
says whether it is there (`LastIsTrue`), and a package whose file is wrong is the
subject of a message or of what the monitor has still to do (`Agrees`).

`HostCommands_proofs` proves about the network script, for any number of rules
from `NetAssumption` (there is a rule, and a counter that can tell one from none):

* `UpSafety` (`UpIsComplete`), `RulesSafety` (`RulesOnce`) and `FailedStartSafety`
  (`FailedStartLeavesNothing`), from `NetInv`. `Exclusive` says that no two scripts
  are ever at work, though nothing locks: a start that finds `network_up` has
  nothing to do and a stop that does not is refused, and the file is there exactly
  while the script at work is a stop (`Fits`). `Going` and `Undoing` say what each
  step finds; rules are made and deleted in order, so that a script that dies leaves
  a prefix or a suffix of them and the next start deletes each at most once.

and about `foreground_pipe`, from `RunAssumption`:

* `ReturnSafety` (`ReturnsTheWhole`) and `KillSafety` (`KilledWithChildren`), from
  `RunInv`: there is a return code exactly when the command has ended, and while
  its tree is killed whoever lives of those that `ps` showed below it is still on the
  list. Processes that end or fork meanwhile do not disturb that, because a process
  that was listed and has ended does not come back.

about the root file system, whatever is mounted, whichever commands fail and
whoever is killed, from no assumption on the constants:

* `MountedSafety` (`MountedExactly`), `UnmountedSafety` (`UnmountedEntirely`),
  `LeftoversSafety` (`LeftoversAreUndone`) and `MountTyping`, from `MountInv`.
  `OnRootfs`: whatever is mounted lies on the root file system, so that who has
  unmounted that has unmounted all. `Apart`: two are at work only if both unmount.
  `Unmounts`: who unmounts has listed every mount that is there, and exactly those
  unless another one unmounts too. `Mounts`: who mounts has made the mounts of
  `Program` before its step, in that order. Why an umount is never refused is a fact
  about the order: `FirstIsInnermost` says that nothing that is still to be unmounted
  lies on the first of the list, which is what `sort(reverse=True)` is for. Why nothing
  is skipped by `bind` (`NothingIsSkipped`) is that a mount begins on an empty root
  file system, because `umount_all` has checked that it is;

and about what is concluded from the host:

* `ConclusionsSafety` (`ConclusionsFit`), for any versions and any number of graphics
  cards, from `ConfigAssumption` (versions are natural numbers);
* `NodesSafety` (`NodesSurviveBoot`): a probe of a host that was probed changes
  nothing (`ProbeOnce`), so that what init chose is there after the next boot.

and about the properties that Android is given, for any lists of any names:

* `OverrideSafety` (`PropertiesOverride`) and `PropsTyping`, from `PropsInv`: the list
  has each name once (`NamesOnce`) and consists of what it should but for the name
  that is being overridden (`Justified`, `Present`), and if an entry of that name is
  still there it is `Ahead` of the enumeration. So the entry that a removal skips is
  never one that had to be removed. `Distinct`, the precondition, is used for that and
  for a name that is found in another's entry.

`ArmTranslation_proofs` proves, for any files, directories and archives, from
`ArmAssumption`:

* `InstallSafety` (`InstallIsAllOrNothing`), from `Installing`: what an installation
  has removed and copied at each step.
* `BootSafety` (`BootsWithTheLayer`), from `Syncing`: while no command runs beside a
  start, the directories it has done are those of the layer but for the files that
  it still has to copy.
* `AdvertisedSafety` (`AdvertisedIsThere`), from `Advertising`, which needs both:
  when nothing fails the properties advertise only what is installed, and while a
  session has the properties of a bridge the overlay has its libraries (`Mounted`),
  which is what a restart boots with.

Only model-checked:

* the liveness properties (`HandlersEnd`, `CommandsEnd`, `StopUntracks`,
  `StopReleases`, `DeadSessionsCanBeStopped`, `StopEndsARunningWorker`,
  `EndIsAnnounced`, `CallerGoesOn`): fairness and `ENABLED` are out of the prover's
  reach.

Every other property of a passing run is proved. `TypeOK` of `MCHost` is the
conjunction of the types of its parts, which are theorems of those parts:
`MountTyping`, `NetTyping`, `RunTyping` and `PropsTyping` of `HostCommands_proofs`, `Typing` of
`ArmTranslation_proofs` and of `DesktopFiles_proofs`.

## 6. What was found

* **A stop can be lost** (`RunnerLostQuit`). `ServiceRunner.stop` quits a loop
  that the worker has created but not entered; the worker then waits in it for
  ever and, being no daemon thread, keeps its process alive.
* **A refused service is not registered again** (`RunnerRefused`).
  `binder_presence` quits the loop before it runs.
* **Two workers after a quick restart** (`RunnerRestart`). `start` lowers the
  stop flag of a worker it has not joined.

* **A restart does not bring in a translation layer** (`RestartAfterInstall`).
  `README.md`, `docs/aurora-install-debug.md` and the command itself say to run
  `waydroid container restart` after an installation. `restart` only stops and starts
  LXC; the layer is copied into the overlay and its properties are written for
  Android when a session starts (`lxc.py:226`, `images.py:199`). Until the session has
  been stopped and started Android runs without the layer. The same holds for a
  reboot that Android asks for.

Behaviour the model shows and no document speaks of: two commands on a frozen
container can block each other, one freezing what the other still uses; a command
that outlives its session freezes the next one; a start that fails after
`lxc-start` leaves a running container that no session is tracked for; its owner
may not stop it (only root may without a tracked session) and the next start
fails at the mount. `waydroid container stop` leaves the service with a session
that has no container, and the session process without notice of it; so does a service
that is killed or whose stop fails at SIGTERM. A hardware worker may outlive the stop
of its session and serve what Android asked for before. A stop that finds Android gone between its status check
and `lxc-stop` gives up half way. An upgrade asks for the session before it
downloads and starts it afterwards: by then its process may be gone or another
session may have taken the container.

Of the images and the initializer: a worker of the initializer raises an
AttributeError when the container runs, after it has saved its configuration
(`args.session` is not there in the worker); a directory of preinstalled images
that lacks one of the two raises FileNotFoundError where the code means to ignore
it; after a save that was killed in between, `waydroid upgrade` raises a KeyError
although waydroid counts as initialised; a migration from 1.3.4 or older whose
removal of a file fails skips the ones after it.

Of the host: a vendor overlay that cannot be mounted is not given up as the
system's is, it fails the start; a stop of the network that is killed at its end
leaves `network_up`, so that the next start says that it is already running;
the cleanup after a failing dnsmasq runs twice, the second time without effect; an
installation of a translation layer that is refused leaves base properties that
advertise the one it has removed; directories the new layer lacks keep an earlier
layer's copies in the overlay, and uninstalling leaves the copies; a command that
closes its output and runs on is polled without end, and a child in the background
that keeps the pipe open holds its caller until the timeout; an Android that fails to
list its apps is taken for one without apps; property overrides are removed from the
list that is enumerated, and found by substring, so that `PropertiesOverride` has
preconditions; binder nodes of other software that appear between two boots
change which nodes the configured names mean; a configured render node that is not
there makes `init` and `upgrade` end with an OSError.

## 7. Not modelled

A service process that has left its main loop while a worker is still in its own goes
on until systemd kills it; to the model it ends when its loop does. Formatting, logging, argument parsing, device permissions and
generated text without a choice are left out. A second `container start` that finds
the bus name taken leaves without having changed anything and is left out. The
answer to `GetSession` is in `FreezeClients`, where it matters.

Left out of what is modelled: root's umount while the service is still mounting
(the vendor image can then be mounted on the bare directory and be hidden by the
next system image, which only an umount by hand undoes); two stops of the network
beside a start; IPv6 and other interfaces than `waydroid0`; an `init` with a path
of its own, which keeps the dates of another directory's images; polkit beyond
its refusal; kernel module parameters and ashmem; edits of desktop files by the user
while the monitor rewrites them. The guest's updater is assumed to offer newer
builds only. Deletions of rules and bridges succeed, and so do
the removals of trees whose errors the code ignores (`rmtree` of the translation
layer).

Not modelled at all, see `PROJECT.json`: the encoding of binder transactions
(`IPlatform`, `IStatusBarService`, `INotificationCallback`), which keeps no state;
the clipboard, which keeps none either; the notification service, which hands
identifiers of the desktop on; logging, status, bug reports; release packaging.

What would come next: an order on saves of `waydroid.cfg` once the code locks it, and
the liveness of the session processes over a service that is itself only fair.

## 8. Running

    tlc -workers 2 -config ContainerSafety.cfg MCContainerManager.tla
    tlc -workers 2 -config Host.cfg MCHost.tla
    tlapm ContainerManager_proofs.tla

Each `.cfg` names its run; `PROJECT.json` says which module it belongs to.
