----------------------------- MODULE ImageStore -----------------------------
(***************************************************************************)
(* waydroid.cfg and the images it describes, and the processes that change *)
(* both: waydroid init (tools/actions/initializer.py), waydroid upgrade    *)
(* (upgrader.py) and the guest's system update (images.replace), with      *)
(* tools/config and tools/helpers/images.py and http.py below them.        *)
(*                                                                         *)
(* Nothing is written atomically: a save truncates the file and writes it, *)
(* an image is extracted over the one before it, and the date that says    *)
(* which image there is is saved after that.  A process may end between    *)
(* any two of these steps.                                                 *)
(***************************************************************************)
EXTENDS Naturals, FiniteSets

CONSTANTS Workers,     \* worker processes of the D-Bus initializer
          Others,      \* processes of other commands
          Channels,    \* OTA channels
          Offers,      \* the channels that have system, and vendor images
          NoOta,       \* what the configuration says of preinstalled images
          Unset,       \* the configuration has no such key
          Missing,     \* there is no waydroid.cfg
          Blank,       \* it is empty: truncated and not written yet
          Builds,      \* bound: how many builds each channel publishes
          FaultSets    \* what may happen together, subsets of FaultKinds

Parts     == {"system", "vendor"}
Processes == Workers \cup Others

\* "kill": a process ends between two steps;  "network": requests fail and
\* downloads are damaged;  "running": the container runs when init begins;
\* "package": the preinstalled images come and go;  "concurrent": commands
\* run beside each other;  "again": a second click;  "bus": the call of a click
\* fails;  "unheard": the Cancel of a window that closes fails;  "command": init,
\* upgrade or replace are run outside of the initializer.
FaultKinds == {"kill", "network", "running", "package", "concurrent", "again", "bus",
               "unheard", "command"}

ASSUME StoreAssumption ==
  /\ Workers \cap Others = {}
  /\ Offers \in [Parts -> SUBSET Channels]
  /\ NoOta \notin Channels /\ Unset \notin Channels \cup {NoOta}
  /\ Builds \in [Channels -> Nat \ {0}]
  /\ FaultSets \subseteq SUBSET FaultKinds

MaxBuild == CHOOSE b \in {Builds[c] : c \in Channels} :
              \A c \in Channels : Builds[c] <= b

ASSUME BuildAssumption == MaxBuild \in Nat /\ \A c \in Channels : Builds[c] <= MaxBuild

Config  == [ota : [Parts -> Channels \cup {NoOta, Unset}],
            date : [Parts -> 0..MaxBuild], path : {"own", "extra"}]
Request == {want \in [Parts -> Channels] : \A x \in Parts : want[x] \in Offers[x]}
Image   == [channel : Channels \cup {Unset}, build : 0..MaxBuild,
            state : {"none", "torn", "whole"}]

ASSUME FileAssumption == Missing \notin Config /\ Blank \notin Config /\ Missing # Blank

VARIABLES faults,     \* what may happen in this behaviour; it never changes
          conf,       \* waydroid.cfg
          disk,       \* the image files in /var/lib/waydroid/images
          overlay,    \* overlay_rw: what Android has changed of its system
          rootfs,     \* the rootfs directory exists
          extra,      \* the directory of preinstalled images
          published,  \* the newest build of each channel
          job         \* what each process does

store == <<conf, disk, overlay, rootfs, extra, published, job>>

Steps == {"idle", "setup", "channels", "truncate", "write", "stop", "migrate", "get",
          "list", "download", "validate", "extract", "overlay", "prepare", "take",
          "offered", "done"}

Job == [pc : Steps, op : {"init", "upgrade", "replace"}, want : Request,
        cfg : Config, part : Parts, pick : 0..MaxBuild, sound : BOOLEAN,
        after : Steps, code : {0, 1}]

StoreTypeOK ==
  /\ faults \in FaultSets
  /\ conf \in Config \cup {Missing, Blank}
  /\ disk \in [Parts -> Image]
  /\ overlay \in {"none", "empty", "used", "stale"}
  /\ rootfs \in BOOLEAN
  /\ extra \in {"none", "broken", "complete"}
  /\ published \in [Channels -> 1..MaxBuild]
  /\ job \in [Processes -> Job]

\* load: the defaults of tools/config/__init__.py for what is not in the file.
Defaults == [ota |-> [x \in Parts |-> Unset], date |-> [x \in Parts |-> 0], path |-> "own"]
Load     == IF conf \in {Missing, Blank} THEN Defaults ELSE conf

IsInitialized == conf # Missing /\ rootfs

NoJob == [pc |-> "idle", op |-> "init", want |-> CHOOSE want \in Request : TRUE,
          cfg |-> Defaults, part |-> "system", pick |-> 0, sound |-> TRUE,
          after |-> "idle", code |-> 1]

StoreInit ==
  /\ faults \in FaultSets
  /\ conf = Missing
  /\ disk = [x \in Parts |-> [channel |-> Unset, build |-> 0, state |-> "none"]]
  /\ overlay = "none"
  /\ rootfs = FALSE
  /\ extra \in {"none"} \cup IF "package" \in faults THEN {"broken", "complete"} ELSE {}
  /\ published = [c \in Channels |-> 1]
  /\ job = [p \in Processes |-> NoJob]

-----------------------------------------------------------------------------
(* A process and its steps.                                                 *)

Alive(p) == job[p].pc \notin {"idle", "done"}
At(p, step) == job[p].pc = step
Goto(p, step) == job' = [job EXCEPT ![p].pc = step]
Ended(p, code) == [job EXCEPT ![p] = [NoJob EXCEPT !.pc = "done", !.code = code]]

\* An exception ends the process with status 1.
Raise(p) == /\ job' = Ended(p, 1)
            /\ UNCHANGED <<conf, disk, overlay, rootfs>>

Begun(p, op, want) == [NoJob EXCEPT !.op = op, !.want = want,
                         !.pc = CASE op = "init"    -> "setup"
                                  [] op = "upgrade" -> "stop"
                                  [] op = "replace" -> "take"]

\* save: open(..., "w") leaves an empty file until the text is flushed.
Save(p, cfg, after) ==
  job' = [job EXCEPT ![p].pc = "truncate", ![p].cfg = cfg, ![p].after = after]

Truncate(p) == /\ At(p, "truncate")
               /\ conf' = Blank
               /\ Goto(p, "write")
               /\ UNCHANGED <<disk, overlay, rootfs>>

Write(p) == /\ At(p, "write")
            /\ conf' = job[p].cfg
            /\ Goto(p, job[p].after)
            /\ UNCHANGED <<disk, overlay, rootfs>>

-----------------------------------------------------------------------------
(* waydroid init: setup_config and init.                                    *)

\* The configuration is read before, and written after, the binder nodes have
\* been looked for and both channels have been asked.
SetupLoad(p) == /\ At(p, "setup")
                /\ job' = [job EXCEPT ![p].cfg = Load, ![p].pc = "channels"]
                /\ UNCHANGED <<conf, disk, overlay, rootfs>>

\* Preinstalled images win over channels.  A directory that lacks one of them
\* is not ignored: stat raises FileNotFoundError.
SetupPreinstalled(p) ==
  /\ At(p, "channels")
  /\ \/ /\ extra = "complete"
        /\ Save(p, [ota |-> [x \in Parts |-> NoOta], date |-> [x \in Parts |-> 0],
                    path |-> "extra"], "stop")
        /\ UNCHANGED <<conf, disk, overlay, rootfs>>
     \/ extra = "broken" /\ Raise(p)

\* A slip: the dates are kept whatever the channel was.
DatesOfAnyChannel(cfg, want) == cfg.date

\* The dates of another channel's images say nothing about this one's.
KeptDates(cfg, want) ==
  [x \in Parts |-> IF cfg.ota[x] = want[x] THEN cfg.date[x] ELSE 0]

SetupChannels(p) ==
  /\ At(p, "channels")
  /\ extra = "none"
  /\ \/ /\ Save(p, [ota |-> job[p].want, date |-> KeptDates(job[p].cfg, job[p].want),
                    path |-> "own"], "stop")
        /\ UNCHANGED <<conf, disk, overlay, rootfs>>
     \/ "network" \in faults /\ Raise(p)

\* A slip: init takes what is on disk for what it has to obtain.
StoppedSkips(p) == IF job[p].op = "upgrade" THEN "migrate" ELSE "overlay"

\* Where a process goes when the container is down.
Stopped(p) == CASE job[p].op = "upgrade"                                -> "migrate"
                [] job[p].op = "init" /\ job[p].cfg.path = "own" -> "get"
                [] OTHER                                                -> "overlay"

\* init in the service wants args.session of a container that runs, and the
\* worker's args has none.  upgrade wants the channels from the file.
StopContainer(p) ==
  /\ At(p, "stop")
  /\ \/ /\ job[p].op = "upgrade" => \A x \in Parts : Load.ota[x] # Unset
        /\ job' = [job EXCEPT ![p].pc = Stopped(p),
                              ![p].cfg = IF job[p].op = "upgrade" THEN Load ELSE @]
        /\ UNCHANGED <<conf, disk, overlay, rootfs>>
     \/ /\ \/ job[p].op = "upgrade" /\ \E x \in Parts : Load.ota[x] = Unset
           \/ p \in Workers /\ "running" \in faults
        /\ Raise(p)

\* migration: another load and save, if this version has not run before;
\* preinstalled images are not upgraded.
Migrate(p) ==
  /\ At(p, "migrate")
  /\ LET next == IF job[p].cfg.path = "own" THEN "get" ELSE "prepare"
     IN  \/ Goto(p, next)
         \/ Save(p, Load, next)
  /\ UNCHANGED <<conf, disk, overlay, rootfs>>

\* The directories that make waydroid initialised come last.  Permissions, the
\* LXC configuration and the properties that follow may fail.
Prepare(p) ==
  /\ At(p, "prepare")
  /\ rootfs' = (rootfs \/ job[p].op = "init")
  /\ overlay' = IF job[p].op = "init" /\ overlay = "none" THEN "empty" ELSE overlay
  /\ job' \in {Ended(p, 0), Ended(p, 1)}
  /\ UNCHANGED <<conf, disk>>

-----------------------------------------------------------------------------
(* images.get and the guest's images.replace.                               *)

Following(x) == CASE x = "system" -> "vendor" [] x = "vendor" -> "overlay"

\* A slip: when the system image is up to date the vendor image is not looked for.
AdvanceDone(p) == Goto(p, "overlay")

\* What get goes to after one part: the next one, or the overlay.
Advance(p) == LET next == Following(job[p].part)
              IN  IF next \in Parts
                  THEN job' = [job EXCEPT ![p].part = next, ![p].pc = "list"]
                  ELSE Goto(p, next)

\* One object holds the configuration from here to the last save.
GetLoad(p) == /\ At(p, "get")
              /\ job' = [job EXCEPT ![p].cfg = Load, ![p].part = "system", ![p].pc = "list"]
              /\ UNCHANGED <<conf, disk, overlay, rootfs>>

Channel(p) == job[p].cfg.ota[job[p].part]

Newer(p)   == {b \in 1..published[Channel(p)] : b > job[p].cfg.date[job[p].part]}
Newest(B)  == CHOOSE b \in B : \A c \in B : c <= b

\* A channel lists its newest build first.
List(p) ==
  /\ At(p, "list")
  /\ \/ /\ Channel(p) \in Channels
        /\ \/ Newer(p) = {} /\ Advance(p)
           \/ /\ Newer(p) # {}
              /\ job' = [job EXCEPT ![p].pick = Newest(Newer(p)), ![p].pc = "download"]
        /\ UNCHANGED <<conf, disk, overlay, rootfs>>
     \/ /\ Channel(p) \notin Channels \/ "network" \in faults
        /\ Raise(p)

\* What arrives is not always what was sent.
Download(p) ==
  /\ At(p, "download")
  /\ \/ /\ \E sound \in IF "network" \in faults THEN BOOLEAN ELSE {TRUE} :
              job' = [job EXCEPT ![p].sound = sound, ![p].pc = "validate"]
        /\ UNCHANGED <<conf, disk, overlay, rootfs>>
     \/ "network" \in faults /\ Raise(p)

Here(p) == job[p].part
Tear(p) == /\ disk' = [disk EXCEPT ![Here(p)] =
                         [channel |-> Channel(p), build |-> job'[p].pick, state |-> "torn"]]
           /\ overlay' = IF overlay = "used" THEN "stale" ELSE overlay
           /\ UNCHANGED <<conf, rootfs>>

Validate(p) == /\ At(p, "validate")
               /\ IF job[p].sound THEN Goto(p, "extract") /\ Tear(p) ELSE Raise(p)

\* The whole archive is on disk; get saves the date at once, replace at its end.
Extract(p) ==
  /\ At(p, "extract")
  /\ disk' = [disk EXCEPT ![Here(p)].state = "whole"]
  /\ LET dated == [job[p].cfg EXCEPT !.date[Here(p)] = job[p].pick]
         next  == Following(Here(p))
     IN  IF job[p].op = "replace"
         THEN IF next \in Parts
              THEN job' = [job EXCEPT ![p].cfg = dated, ![p].part = next, ![p].pc = "offered"]
              ELSE Save(p, dated, next)
         ELSE job' = [job EXCEPT ![p].cfg = dated, ![p].pc = "truncate",
                        ![p].after = IF next \in Parts THEN "list" ELSE next,
                        ![p].part = IF next \in Parts THEN next ELSE @]
  /\ UNCHANGED <<conf, overlay, rootfs>>

RemoveOverlay(p) == /\ At(p, "overlay")
                    /\ overlay' = "none"
                    /\ job' = IF job[p].op = "replace" THEN Ended(p, 0)
                              ELSE [job EXCEPT ![p].pc = "prepare"]
                    /\ UNCHANGED <<conf, disk, rootfs>>

Take(p) == /\ At(p, "take")
           /\ job' = [job EXCEPT ![p].cfg = Load, ![p].part = "system", ![p].pc = "offered"]
           /\ UNCHANGED <<conf, disk, overlay, rootfs>>

\* The updater of the guest has left an archive of a newer build, or none, or
\* one that validate does not find in the channel of the configuration.
Offered(p) ==
  /\ At(p, "offered")
  /\ \/ /\ LET next == Following(Here(p))
           IN  IF next \in Parts
               THEN job' = [job EXCEPT ![p].part = next]
               ELSE Save(p, job[p].cfg, next)
        /\ UNCHANGED <<conf, disk, overlay, rootfs>>
     \/ /\ Channel(p) \in Channels
        /\ \E b \in Newer(p) :
             job' = [job EXCEPT ![p].pick = b, ![p].pc = "extract"]
        /\ Tear(p)

-----------------------------------------------------------------------------
(* The processes and what happens around them.                              *)

Step(p) == \/ SetupLoad(p) \/ SetupPreinstalled(p) \/ SetupChannels(p)
           \/ Truncate(p) \/ Write(p) \/ StopContainer(p) \/ Migrate(p)
           \/ GetLoad(p) \/ List(p) \/ Download(p) \/ Validate(p) \/ Extract(p)
           \/ RemoveOverlay(p) \/ Prepare(p) \/ Take(p) \/ Offered(p)

\* Nothing in the code keeps two of them apart.
Free == "concurrent" \in faults \/ \A q \in Processes : ~Alive(q)

Begin(p, op) == /\ "command" \in faults
                /\ At(p, "idle")
                /\ Free
                /\ op # "init" => IsInitialized
                /\ \E want \in Request :
                     /\ op # "init" => want = NoJob.want
                     /\ job' = [job EXCEPT ![p] = Begun(p, op, want)]
                /\ UNCHANGED <<conf, disk, overlay, rootfs, extra, published>>

Die(p) == /\ "kill" \in faults
          /\ Alive(p)
          /\ Raise(p)
          /\ UNCHANGED <<extra, published>>

\* Builds and packages are looked at once by a process; that they appear before
\* it begins to work is as good as any later moment before it looks.
Early == \A p \in Processes : Alive(p) => At(p, "setup")

Publish == \E c \in Channels :
             /\ Early
             /\ published[c] < Builds[c]
             /\ published' = [published EXCEPT ![c] = @ + 1]
             /\ UNCHANGED <<conf, disk, overlay, rootfs, extra, job>>

\* A package with preinstalled images is installed, removed or half of it is.
Repackage == /\ "package" \in faults
             /\ Early
             /\ extra' \in {"none", "broken", "complete"} \ {extra}
             /\ UNCHANGED <<conf, disk, overlay, rootfs, published, job>>

\* Android runs and changes files of its system.
UseOverlay == /\ IsInitialized
              /\ \A p \in Processes : ~Alive(p)
              /\ overlay \in {"none", "empty"}
              /\ overlay' = "used"
              /\ UNCHANGED <<conf, disk, rootfs, extra, published, job>>

StoreStep == \/ \E p \in Processes : Step(p) /\ UNCHANGED <<extra, published>>
             \/ \E p \in Processes : Die(p)
             \/ \E p \in Others, op \in {"init", "upgrade", "replace"} : Begin(p, op)
             \/ Publish \/ Repackage \/ UseOverlay

-----------------------------------------------------------------------------
(* What the store promises.                                                 *)

\* The date that waydroid.cfg has for an image is never newer than the image
\* on disk and never another channel's, whatever was killed where; an image
\* that is torn is of a build newer than the date.  images.get, which only
\* looks for builds newer than the date, therefore repairs it.
DateNotNewer ==
  "concurrent" \notin faults =>
    \A x \in Parts :
      LET date == Load.date[x]
      IN  date > 0 => /\ disk[x].channel = Load.ota[x]
                      /\ disk[x].build >= date
                      /\ disk[x].state = "torn" => disk[x].build > date

\* A process that has obtained images and says that it succeeded leaves both
\* of them whole, of the configured channel, with their dates in waydroid.cfg,
\* and no overlay written over older ones, whatever happened before it.
FinishedIsComplete ==
  [][\A p \in Processes :
       (Alive(p) /\ At(p, "prepare") /\ job'[p].code = 0 /\ "concurrent" \notin faults
          /\ Load.path = "own")
         => /\ \A x \in Parts : /\ disk'[x].state = "whole"
                                /\ disk'[x].channel = conf'.ota[x]
                                /\ disk'[x].build = conf'.date[x]
                                /\ job[p].op = "init" => conf'.ota[x] = job[p].want[x]
            /\ overlay' # "stale"]_store

\* Where waydroid is initialised (initializer.is_initialized), images have been
\* obtained, so a service that starts has something to mount.
InitializedHasImages ==
  (IsInitialized /\ "package" \notin faults) => \A x \in Parts : disk[x].state # "none"
=============================================================================
