-------------------------- MODULE Initializer_proofs --------------------------
(***************************************************************************)
(* The image store and its initializer for any processes, channels, builds *)
(* and faults.  IInv is invariant whatever happens: types, OneWorker and   *)
(* InitializedHasImages follow from it.  DInv says what holds when no two  *)
(* commands run at once (DateNotNewer), FInv adds what a process has made  *)
(* sure of (FinishedIsComplete), and WInv says what holds when the window  *)
(* is clicked once (ClosedWindowStopsWork).                                *)
(***************************************************************************)
EXTENDS Initializer, TLAPS

Ops   == {"init", "upgrade", "replace"}
Codes == {0, 1}

\* The other processes are where they were, and p does what it was begun for.
Alone(p) == /\ job' \in [Processes -> Job]
            /\ \A q \in Processes \ {p} : job'[q] = job[q]

\* The fields of p's job after a step.
Became(p, pc, cfg, part, pick, after) ==
  /\ Alone(p)
  /\ job'[p].pc = pc /\ job'[p].cfg = cfg /\ job'[p].part = part /\ job'[p].pick = pick
  /\ job'[p].after = after /\ job'[p].op = job[p].op /\ job'[p].want = job[p].want

\* p has ended.
Over(p) == Alone(p) /\ job'[p].pc = "done" /\ job'[p].cfg = Defaults

Typed == conf \in Config \cup {Missing, Blank} /\ job \in [Processes -> Job]
         /\ published \in [Channels -> 1..MaxBuild] /\ disk \in [Parts -> Image]

LEMMA DefaultTypes ==
  /\ Defaults \in Config /\ Defaults.path = "own" /\ \A x \in Parts : Defaults.date[x] = 0
  /\ NoJob \in Job /\ NoJob.cfg = Defaults /\ NoJob.pc = "idle"
<1>1. Defaults \in Config /\ Defaults.path = "own" /\ \A x \in Parts : Defaults.date[x] = 0
  <2>1. 0 \in 0..MaxBuild
    BY BuildAssumption
  <2> QED
    BY <2>1 DEF Defaults, Config
<1>2. NoJob.want \in Request
  <2>1. \E want \in Request : TRUE
    BY InitializerAssumption
  <2> QED
    BY <2>1 DEF NoJob
<1>3. NoJob \in Job
  <2>1. 0 \in 0..MaxBuild
    BY BuildAssumption
  <2> QED
    BY <1>1, <1>2, <2>1 DEF NoJob, Job, Steps, Parts
<1> QED
  BY <1>1, <1>3 DEF NoJob

LEMMA LoadType == Typed => Load \in Config
BY DefaultTypes DEF Typed, Load

LEMMA GotoEffect ==
  ASSUME Typed, NEW p \in Processes, NEW step \in Steps, Goto(p, step)
  PROVE  Became(p, step, job[p].cfg, job[p].part, job[p].pick, job[p].after)
BY DEF Typed, Goto, Became, Alone, Job

LEMMA EndEffect ==
  ASSUME Typed, NEW p \in Processes, NEW code \in Codes, job' = Ended(p, code)
  PROVE  Over(p)
<1>1. [NoJob EXCEPT !.pc = "done", !.code = code] \in Job
  BY DefaultTypes DEF Job, Steps, Codes
<1>2. /\ [NoJob EXCEPT !.pc = "done", !.code = code].pc = "done"
      /\ [NoJob EXCEPT !.pc = "done", !.code = code].cfg = Defaults
  BY DefaultTypes DEF Job
<1> DEFINE ended == [NoJob EXCEPT !.pc = "done", !.code = code]
<1> HIDE DEF ended
<1> QED
  BY <1>1, <1>2 DEF Over, Alone, Ended, Typed, ended

LEMMA SaveEffect ==
  ASSUME Typed, NEW p \in Processes, NEW cfg \in Config, NEW after \in Steps, Save(p, cfg, after)
  PROVE  Became(p, "truncate", cfg, job[p].part, job[p].pick, after)
<1> DEFINE saving == [job[p] EXCEPT !.pc = "truncate", !.cfg = cfg, !.after = after]
<1>1. "truncate" \in Steps /\ job[p] \in Job
  BY DEF Steps, Typed
<1>2. /\ saving \in Job
      /\ saving.pc = "truncate" /\ saving.cfg = cfg /\ saving.after = after
      /\ saving.part = job[p].part /\ saving.pick = job[p].pick
      /\ saving.op = job[p].op /\ saving.want = job[p].want
  BY <1>1 DEF Job
<1>3. job' = [job EXCEPT ![p] = saving]
  BY DEF Save
<1> HIDE DEF saving
<1> QED
  BY <1>2, <1>3 DEF Became, Alone, Typed

LEMMA NewerBuilds ==
  ASSUME Typed, NEW p \in Processes, Channel(p) \in Channels
  PROVE  /\ Newer(p) \subseteq 1..MaxBuild
         /\ \A b \in Newer(p) : b > job[p].cfg.date[job[p].part]
         /\ Newer(p) = {} => job[p].cfg.date[job[p].part] # 0
         /\ Newer(p) # {} => Newest(Newer(p)) \in Newer(p)
<1> DEFINE new == published[Channel(p)]
           date == job[p].cfg.date[job[p].part]
<1>1. new \in 1..MaxBuild /\ date \in 0..MaxBuild /\ MaxBuild \in Nat
  BY BuildAssumption DEF Typed, Job, Config
<1>2. Newer(p) = {b \in 1..new : b > date}
  BY DEF Newer
<1> HIDE DEF new, date
<1>3. Newer(p) # {} => new \in Newer(p) /\ \A c \in Newer(p) : c <= new
  BY <1>1, <1>2
<1>4. Newer(p) # {} => Newest(Newer(p)) \in Newer(p)
  BY <1>3 DEF Newest
<1>5. Newer(p) = {} => date # 0
  BY <1>1, <1>2
<1> QED
  BY <1>1, <1>2, <1>4, <1>5 DEF date

-----------------------------------------------------------------------------
(* What each step of a process does to its job.                             *)

\* A step that goes on as it was, or with another configuration.
Goes(p, pc)     == Became(p, pc, job[p].cfg, job[p].part, job[p].pick, job[p].after)
Loads(p, pc)    == Became(p, pc, Load, job[p].part, job[p].pick, job[p].after)
Saves(p, cfg, after) == Became(p, "truncate", cfg, job[p].part, job[p].pick, after)

Still == UNCHANGED <<conf, disk, rootfs>>

\* The configurations that init saves.
Wanted(p) == [ota |-> job[p].want, date |-> KeptDates(job[p].cfg, job[p].want), path |-> "own"]
Unwanted  == [ota |-> [x \in Parts |-> NoOta], date |-> [x \in Parts |-> 0], path |-> "extra"]

\* A part that has been obtained is dated.
Dated(p) == [job[p].cfg EXCEPT !.date[job[p].part] = job[p].pick]

\* What tlapm makes of several fields that change at once.
LEMMA PutEffect ==
  ASSUME Typed, NEW p \in Processes, NEW to \in Job, job' = [job EXCEPT ![p] = to]
  PROVE  Alone(p) /\ job'[p] = to
BY DEF Typed, Alone

LEMMA SetupEffect ==
  ASSUME Typed, NEW p \in Processes, SetupLoad(p) \/ SetupPreinstalled(p) \/ SetupChannels(p)
  PROVE  /\ Still
         /\ \/ At(p, "setup") /\ Loads(p, "channels")
            \/ At(p, "channels") /\ extra # "none" /\ Unwanted \in Config /\ Saves(p, Unwanted, "stop")
            \/ At(p, "channels") /\ Wanted(p) \in Config /\ Saves(p, Wanted(p), "stop")
            \/ At(p, "channels") /\ Over(p)
<1>1. CASE SetupLoad(p)
  <2> DEFINE to == [job[p] EXCEPT !.cfg = Load, !.pc = "channels"]
  <2>1. job[p] \in Job /\ Load \in Config /\ "channels" \in Steps
    BY LoadType DEF Typed, Steps
  <2>2. /\ to \in Job /\ to.pc = "channels" /\ to.cfg = Load /\ to.part = job[p].part
        /\ to.pick = job[p].pick /\ to.after = job[p].after /\ to.op = job[p].op
        /\ to.want = job[p].want
    BY <2>1 DEF Job
  <2>3. job' = [job EXCEPT ![p] = to]
    BY <1>1 DEF SetupLoad
  <2> HIDE DEF to
  <2> QED
    BY <1>1, <2>2, <2>3, PutEffect DEF SetupLoad, Still, Loads, Became
<1>2. CASE SetupPreinstalled(p)
  <2>1. Unwanted \in Config /\ "stop" \in Steps /\ 1 \in Codes
    BY BuildAssumption DEF Unwanted, Config, Steps, Codes
  <2>2. CASE Save(p, Unwanted, "stop") /\ UNCHANGED <<conf, disk, overlay, rootfs>>
    BY <1>2, <2>1, <2>2, SaveEffect DEF SetupPreinstalled, Still, Saves
  <2>3. CASE Raise(p)
    BY <1>2, <2>1, <2>3, EndEffect DEF Raise, Still, SetupPreinstalled
  <2> QED
    BY <1>2, <2>2, <2>3 DEF SetupPreinstalled, Unwanted
<1>3. CASE SetupChannels(p)
  <2>1. Wanted(p) \in Config /\ "stop" \in Steps /\ 1 \in Codes
    <3>1. job[p].want \in [Parts -> Channels] /\ job[p].cfg.date \in [Parts -> 0..MaxBuild]
      BY DEF Typed, Job, Request, Config
    <3>2. KeptDates(job[p].cfg, job[p].want) \in [Parts -> 0..MaxBuild]
      BY <3>1, BuildAssumption DEF KeptDates
    <3> QED
      BY <3>1, <3>2 DEF Wanted, Config, Steps, Codes
  <2>2. CASE Save(p, Wanted(p), "stop") /\ UNCHANGED <<conf, disk, overlay, rootfs>>
    BY <1>3, <2>1, <2>2, SaveEffect DEF SetupChannels, Still, Saves
  <2>3. CASE Raise(p)
    BY <1>3, <2>1, <2>3, EndEffect DEF Raise, Still, SetupChannels
  <2> QED
    BY <1>3, <2>2, <2>3 DEF SetupChannels, Wanted
<1> QED
  BY <1>1, <1>2, <1>3

LEMMA SavingEffect ==
  ASSUME Typed, NEW p \in Processes, Truncate(p) \/ Write(p)
  PROVE  /\ UNCHANGED <<disk, rootfs>>
         /\ \/ At(p, "truncate") /\ conf' = Blank /\ Goes(p, "write")
            \/ At(p, "write") /\ conf' = job[p].cfg /\ Goes(p, job[p].after)
<1>1. "write" \in Steps /\ job[p].after \in Steps
  BY DEF Steps, Typed, Job
<1> QED
  BY <1>1, GotoEffect DEF Truncate, Write, Goes

LEMMA StopEffect ==
  ASSUME Typed, NEW p \in Processes, StopContainer(p)
  PROVE  /\ Still /\ At(p, "stop")
         /\ \/ job[p].op = "upgrade" /\ conf = Load /\ Loads(p, "migrate")
            \/ job[p].op = "init" /\ job[p].cfg.path = "own" /\ Goes(p, "get")
            \/ job[p].op = "init" /\ job[p].cfg.path # "own" /\ Goes(p, "overlay")
            \/ job[p].op = "replace" /\ Goes(p, "overlay")
            \/ Over(p)
<1>1. job[p] \in Job /\ Load \in Config /\ job[p].op \in Ops /\ Still /\ At(p, "stop")
  BY LoadType DEF Typed, Job, Ops, StopContainer, Still, Raise
<1>2. CASE Raise(p)
  BY <1>1, <1>2, EndEffect DEF Raise, Codes
<1>3. CASE /\ job[p].op = "upgrade" => \A x \in Parts : Load.ota[x] # Unset
           /\ job' = [job EXCEPT ![p].pc = Stopped(p),
                                 ![p].cfg = IF job[p].op = "upgrade" THEN Load ELSE @]
  <2>0. job[p].op = "upgrade" => conf = Load
    BY <1>3 DEF Load, Defaults, Parts
  <2> DEFINE cfg == IF job[p].op = "upgrade" THEN Load ELSE job[p].cfg
             to  == [job[p] EXCEPT !.pc = Stopped(p), !.cfg = cfg]
  <2>1. Stopped(p) \in Steps /\ cfg \in Config
    BY <1>1 DEF Stopped, Steps, Job
  <2>2. /\ to \in Job /\ to.pc = Stopped(p) /\ to.cfg = cfg /\ to.part = job[p].part
        /\ to.pick = job[p].pick /\ to.after = job[p].after /\ to.op = job[p].op
        /\ to.want = job[p].want
    BY <1>1, <2>1 DEF Job
  <2>3. job' = [job EXCEPT ![p] = to]
    BY <1>3
  <2> HIDE DEF to
  <2>4. Became(p, Stopped(p), cfg, job[p].part, job[p].pick, job[p].after)
    BY <2>2, <2>3, PutEffect DEF Became
  <2> QED
    BY <1>1, <2>0, <2>4 DEF Goes, Loads, Stopped, Ops
<1> QED
  BY <1>2, <1>3 DEF StopContainer

LEMMA MigrateEffect ==
  ASSUME Typed, NEW p \in Processes, Migrate(p)
  PROVE  /\ Still /\ At(p, "migrate")
         /\ \E next \in {"get", "prepare"} :
              /\ next = "prepare" => job[p].cfg.path # "own"
              /\ Goes(p, next) \/ Saves(p, Load, next)
<1>1. Load \in Config /\ "get" \in Steps /\ "prepare" \in Steps
  BY LoadType DEF Steps
<1> QED
  BY <1>1, GotoEffect, SaveEffect DEF Migrate, Goes, Saves, Still

\* A load before the first part.
LEMMA FirstEffect ==
  ASSUME Typed, NEW p \in Processes, GetLoad(p) \/ Take(p)
  PROVE  /\ Still
         /\ \/ At(p, "get") /\ Became(p, "list", Load, "system", job[p].pick, job[p].after)
            \/ At(p, "take") /\ Became(p, "offered", Load, "system", job[p].pick, job[p].after)
<1>1. job[p] \in Job /\ Load \in Config /\ "system" \in Parts
  BY LoadType DEF Typed, Parts
<1>2. ASSUME NEW step \in Steps,
             job' = [job EXCEPT ![p].cfg = Load, ![p].part = "system", ![p].pc = step]
      PROVE  Became(p, step, Load, "system", job[p].pick, job[p].after)
  <2> DEFINE to == [job[p] EXCEPT !.cfg = Load, !.part = "system", !.pc = step]
  <2>1. /\ to \in Job /\ to.pc = step /\ to.cfg = Load /\ to.part = "system"
        /\ to.pick = job[p].pick /\ to.after = job[p].after /\ to.op = job[p].op
        /\ to.want = job[p].want
    BY <1>1 DEF Job
  <2>2. job' = [job EXCEPT ![p] = to]
    BY <1>2
  <2> HIDE DEF to
  <2> QED
    BY <2>1, <2>2, PutEffect DEF Became
<1>3. "list" \in Steps /\ "offered" \in Steps
  BY DEF Steps
<1> QED
  BY <1>2, <1>3 DEF GetLoad, Take, Still

\* What get and replace do to a part.
Parted(p, pc, cfg, part) == Became(p, pc, cfg, part, job[p].pick, job[p].after)

Torn(p) == /\ disk' = [disk EXCEPT ![job[p].part] =
                         [channel |-> Channel(p), build |-> job'[p].pick, state |-> "torn"]]
           /\ UNCHANGED <<conf, rootfs>>

LEMMA ListEffect ==
  ASSUME Typed, NEW p \in Processes, List(p)
  PROVE  /\ Still /\ At(p, "list")
         /\ \/ /\ Newer(p) = {} /\ Channel(p) \in Channels /\ job[p].part = "system"
               /\ Parted(p, "list", job[p].cfg, "vendor")
            \/ /\ Newer(p) = {} /\ Channel(p) \in Channels /\ job[p].part = "vendor"
               /\ Goes(p, "overlay")
            \/ /\ Channel(p) \in Channels
               /\ \E b \in Newer(p) :
                    Became(p, "download", job[p].cfg, job[p].part, b, job[p].after)
            \/ Over(p)
<1>1. job[p] \in Job /\ job[p].part \in Parts /\ At(p, "list") /\ Still
  BY DEF Typed, Job, List, Still, Raise
<1>2. CASE Channel(p) \in Channels /\ Newer(p) = {} /\ Advance(p)
  <2>1. CASE job[p].part = "system"
    <3> DEFINE to == [job[p] EXCEPT !.part = "vendor", !.pc = "list"]
    <3>1. job' = [job EXCEPT ![p] = to]
      BY <1>2, <2>1 DEF Advance, Following, Parts
    <3>2. /\ to \in Job /\ to.pc = "list" /\ to.cfg = job[p].cfg /\ to.part = "vendor"
          /\ to.pick = job[p].pick /\ to.after = job[p].after /\ to.op = job[p].op
          /\ to.want = job[p].want
      BY <1>1 DEF Job, Steps, Parts
    <3> HIDE DEF to
    <3> QED
      BY <1>1, <1>2, <2>1, <3>1, <3>2, PutEffect DEF Became, Parted
  <2>2. CASE job[p].part = "vendor"
    <3>1. Goto(p, "overlay") /\ "overlay" \in Steps
      BY <1>2, <2>2 DEF Advance, Following, Parts, Steps
    <3> QED
      BY <1>1, <1>2, <2>2, <3>1, GotoEffect DEF Goes
  <2> QED
    BY <1>1, <2>1, <2>2 DEF Parts
<1>3. CASE /\ Channel(p) \in Channels /\ Newer(p) # {}
           /\ job' = [job EXCEPT ![p].pick = Newest(Newer(p)), ![p].pc = "download"]
  <2> DEFINE b  == Newest(Newer(p))
             to == [job[p] EXCEPT !.pick = b, !.pc = "download"]
  <2>1. b \in Newer(p) /\ b \in 0..MaxBuild
    BY <1>3, NewerBuilds, BuildAssumption
  <2>2. job' = [job EXCEPT ![p] = to]
    BY <1>3
  <2> HIDE DEF b
  <2>3. /\ to \in Job /\ to.pc = "download" /\ to.cfg = job[p].cfg /\ to.part = job[p].part
        /\ to.pick = b /\ to.after = job[p].after /\ to.op = job[p].op
        /\ to.want = job[p].want
    BY <1>1, <2>1 DEF Job, Steps
  <2> HIDE DEF to
  <2> QED
    BY <1>1, <1>3, <2>1, <2>2, <2>3, PutEffect DEF Became
<1>4. CASE Raise(p)
  BY <1>1, <1>4, EndEffect DEF Raise, Codes
<1> QED
  BY <1>2, <1>3, <1>4 DEF List

LEMMA DownloadEffect ==
  ASSUME Typed, NEW p \in Processes, Download(p)
  PROVE  /\ Still /\ At(p, "download")
         /\ Goes(p, "validate") \/ Over(p)
<1>1. job[p] \in Job /\ At(p, "download") /\ Still
  BY DEF Typed, Download, Still, Raise
<1>2. ASSUME NEW sound \in BOOLEAN, job' = [job EXCEPT ![p].sound = sound, ![p].pc = "validate"]
      PROVE  Goes(p, "validate")
  <2> DEFINE to == [job[p] EXCEPT !.sound = sound, !.pc = "validate"]
  <2>1. job' = [job EXCEPT ![p] = to]
    BY <1>2
  <2>2. /\ to \in Job /\ to.pc = "validate" /\ to.cfg = job[p].cfg /\ to.part = job[p].part
        /\ to.pick = job[p].pick /\ to.after = job[p].after /\ to.op = job[p].op
        /\ to.want = job[p].want
    BY <1>1 DEF Job, Steps
  <2> HIDE DEF to
  <2> QED
    BY <2>1, <2>2, PutEffect DEF Became, Goes
<1>3. CASE Raise(p)
  BY <1>1, <1>3, EndEffect DEF Raise, Codes
<1> QED
  BY <1>1, <1>2, <1>3 DEF Download

LEMMA ValidateEffect ==
  ASSUME Typed, NEW p \in Processes, Validate(p)
  PROVE  /\ At(p, "validate")
         /\ \/ Goes(p, "extract") /\ Torn(p)
            \/ Over(p) /\ Still /\ UNCHANGED disk
<1>1. "extract" \in Steps
  BY DEF Steps
<1>2. CASE job[p].sound
  BY <1>1, <1>2, GotoEffect DEF Validate, Goes, Tear, Here, Torn
<1>3. CASE ~job[p].sound
  BY <1>3, EndEffect DEF Validate, Raise, Codes, Still
<1> QED
  BY <1>2, <1>3

LEMMA OfferedEffect ==
  ASSUME Typed, NEW p \in Processes, Offered(p)
  PROVE  /\ At(p, "offered")
         /\ \/ Still /\ job[p].part = "system" /\ Parted(p, "offered", job[p].cfg, "vendor")
            \/ Still /\ job[p].part = "vendor" /\ Saves(p, job[p].cfg, "overlay")
            \/ /\ Channel(p) \in Channels /\ Torn(p)
               /\ \E b \in Newer(p) :
                    Became(p, "extract", job[p].cfg, job[p].part, b, job[p].after)
<1>1. job[p] \in Job /\ job[p].part \in Parts /\ job[p].cfg \in Config
  BY DEF Typed, Job
<1>2. CASE UNCHANGED <<conf, disk, overlay, rootfs>> /\ job[p].part = "system"
           /\ job' = [job EXCEPT ![p].part = "vendor"]
  <2> DEFINE to == [job[p] EXCEPT !.part = "vendor"]
  <2>1. job' = [job EXCEPT ![p] = to]
    BY <1>2
  <2>2. /\ to \in Job /\ to.pc = job[p].pc /\ to.cfg = job[p].cfg /\ to.part = "vendor"
        /\ to.pick = job[p].pick /\ to.after = job[p].after /\ to.op = job[p].op
        /\ to.want = job[p].want
    BY <1>1 DEF Job, Steps, Parts
  <2> HIDE DEF to
  <2> QED
    BY <1>2, <2>1, <2>2, PutEffect DEF Became, Parted, Still, Offered, At
<1>3. CASE UNCHANGED <<conf, disk, overlay, rootfs>> /\ job[p].part = "vendor"
           /\ Save(p, job[p].cfg, "overlay")
  BY <1>1, <1>3, SaveEffect DEF Offered, Saves, Steps, Still
<1>4. ASSUME Channel(p) \in Channels, NEW b \in Newer(p),
             job' = [job EXCEPT ![p].pick = b, ![p].pc = "extract"], Tear(p)
      PROVE  Torn(p) /\ Became(p, "extract", job[p].cfg, job[p].part, b, job[p].after)
  <2> DEFINE to == [job[p] EXCEPT !.pick = b, !.pc = "extract"]
  <2>1. b \in 0..MaxBuild
    BY <1>4, NewerBuilds, BuildAssumption
  <2>2. job' = [job EXCEPT ![p] = to]
    BY <1>4
  <2>3. /\ to \in Job /\ to.pc = "extract" /\ to.cfg = job[p].cfg /\ to.part = job[p].part
        /\ to.pick = b /\ to.after = job[p].after /\ to.op = job[p].op
        /\ to.want = job[p].want
    BY <1>1, <2>1 DEF Job, Steps
  <2> HIDE DEF to
  <2> QED
    BY <1>4, <2>2, <2>3, PutEffect DEF Became, Torn, Tear, Here
<1> QED
  BY <1>1, <1>2, <1>3, <1>4 DEF Offered, Following, Here, Parts

LEMMA ExtractEffect ==
  ASSUME Typed, NEW p \in Processes, Extract(p)
  PROVE  /\ At(p, "extract") /\ UNCHANGED <<conf, rootfs>>
         /\ disk' = [disk EXCEPT ![job[p].part].state = "whole"]
         /\ Dated(p) \in Config
         /\ \/ /\ job[p].op = "replace" /\ job[p].part = "system"
               /\ Parted(p, "offered", Dated(p), "vendor")
            \/ job[p].part = "vendor" /\ Saves(p, Dated(p), "overlay")
            \/ /\ job[p].op # "replace" /\ job[p].part = "system"
               /\ Became(p, "truncate", Dated(p), "vendor", job[p].pick, "list")
<1>1. /\ job[p] \in Job /\ job[p].part \in Parts /\ Dated(p) \in Config
      /\ {"truncate", "overlay", "offered", "list"} \subseteq Steps
  <2>1. /\ job[p] \in Job /\ job[p].part \in Parts /\ job[p].pick \in 0..MaxBuild
        /\ job[p].cfg \in Config
    BY DEF Typed, Job
  <2>2. [job[p].cfg.date EXCEPT ![job[p].part] = job[p].pick] \in [Parts -> 0..MaxBuild]
    BY <2>1 DEF Config
  <2>3. Dated(p) = [job[p].cfg EXCEPT !.date = [job[p].cfg.date EXCEPT ![job[p].part] = job[p].pick]]
    BY DEF Dated
  <2>4. Dated(p) \in Config
    BY <2>1, <2>2, <2>3 DEF Config
  <2> QED
    BY <2>1, <2>4 DEF Steps
<1>2. CASE job[p].op = "replace" /\ job[p].part = "system"
  <2> DEFINE to == [job[p] EXCEPT !.cfg = Dated(p), !.part = "vendor", !.pc = "offered"]
  <2>1. job' = [job EXCEPT ![p] = to]
    BY <1>2 DEF Extract, Following, Here, Parts, Dated
  <2>2. /\ to \in Job /\ to.pc = "offered" /\ to.cfg = Dated(p) /\ to.part = "vendor"
        /\ to.pick = job[p].pick /\ to.after = job[p].after /\ to.op = job[p].op
        /\ to.want = job[p].want
    BY <1>1 DEF Job, Parts
  <2> HIDE DEF to
  <2>3. Parted(p, "offered", Dated(p), "vendor")
    BY <2>1, <2>2, PutEffect DEF Became, Parted
  <2> QED
    BY <1>1, <1>2, <2>3 DEF Extract, Here
<1>3. CASE job[p].op = "replace" /\ job[p].part = "vendor"
  <2>1. Save(p, Dated(p), "overlay")
    BY <1>3 DEF Extract, Following, Here, Parts, Dated
  <2> QED
    BY <1>1, <1>3, <2>1, SaveEffect DEF Extract, Here, Saves
<1>4. CASE job[p].op # "replace"
  <2> DEFINE last == job[p].part = "vendor"
             to   == [job[p] EXCEPT !.cfg = Dated(p), !.pc = "truncate",
                        !.after = IF last THEN "overlay" ELSE "list", !.part = "vendor"]
  <2>0. /\ Following("system") = "vendor" /\ Following("vendor") = "overlay"
        /\ "overlay" \notin Parts /\ "vendor" \in Parts
    BY DEF Following, Parts
  <2>1. job' = [job EXCEPT ![p] = to]
    <3>1. CASE job[p].part = "vendor"
      <4>1. job' = [job EXCEPT ![p].cfg = Dated(p), ![p].pc = "truncate",
                               ![p].after = "overlay", ![p].part = job[p].part]
        BY <1>4, <2>0, <3>1 DEF Extract, Here, Dated
      <4> QED
        BY <3>1, <4>1
    <3>2. CASE job[p].part = "system"
      <4>1. job' = [job EXCEPT ![p].cfg = Dated(p), ![p].pc = "truncate",
                               ![p].after = "list", ![p].part = "vendor"]
        <5> DEFINE next == Following(job[p].part)
        <5>1. next = "vendor" /\ next \in Parts
          BY <2>0, <3>2
        <5>2. job' = [job EXCEPT ![p].cfg = Dated(p), ![p].pc = "truncate",
                        ![p].after = IF next \in Parts THEN "list" ELSE next,
                        ![p].part = IF next \in Parts THEN next ELSE @]
          BY <1>4 DEF Extract, Here, Dated
        <5> HIDE DEF next
        <5> QED
          BY <5>1, <5>2
      <4>2. ~last
        BY <3>2
      <4> QED
        BY <4>1, <4>2
    <3> QED
      BY <1>1, <3>1, <3>2 DEF Parts
  <2>2. /\ to \in Job /\ to.pc = "truncate" /\ to.cfg = Dated(p) /\ to.part = "vendor"
        /\ to.pick = job[p].pick /\ to.after = (IF last THEN "overlay" ELSE "list")
        /\ to.op = job[p].op /\ to.want = job[p].want
    BY <1>1, <2>0 DEF Job
  <2> HIDE DEF to
  <2>3. Became(p, "truncate", Dated(p), "vendor", job[p].pick, IF last THEN "overlay" ELSE "list")
    BY <2>1, <2>2, PutEffect DEF Became
  <2> QED
    BY <1>1, <1>4, <2>3 DEF Extract, Here, Saves, Parts
<1> QED
  BY <1>1, <1>2, <1>3, <1>4 DEF Parts

LEMMA EndingEffect ==
  ASSUME Typed, NEW p \in Processes, RemoveOverlay(p) \/ Prepare(p)
  PROVE  /\ UNCHANGED <<conf, disk>>
         /\ \/ /\ At(p, "overlay") /\ rootfs' = rootfs /\ Goes(p, "prepare")
               /\ overlay' = "none" /\ job[p].op # "replace"
            \/ At(p, "overlay") /\ rootfs' = rootfs /\ Over(p)
            \/ /\ At(p, "prepare") /\ rootfs' = (rootfs \/ job[p].op = "init") /\ Over(p)
               /\ overlay' \in {overlay, "empty"}
<1>1. CASE RemoveOverlay(p) /\ job[p].op = "replace"
  BY <1>1, EndEffect DEF RemoveOverlay, Codes
<1>2. CASE RemoveOverlay(p) /\ job[p].op # "replace"
  <2>1. Goto(p, "prepare") /\ "prepare" \in Steps
    BY <1>2 DEF RemoveOverlay, Goto, Steps
  <2> QED
    BY <1>2, <2>1, GotoEffect DEF RemoveOverlay, Goes
<1>3. CASE Prepare(p)
  BY <1>3, EndEffect DEF Prepare, Codes
<1> QED
  BY <1>1, <1>2, <1>3

\* Every step is one of a process that is under way.
LEMMA StepOfLiving ==
  ASSUME Typed, NEW p \in Processes, Step(p)
  PROVE  Alive(p) /\ Alone(p)
<1>1. CASE SetupLoad(p) \/ SetupPreinstalled(p) \/ SetupChannels(p)
  BY <1>1, SetupEffect DEF Alive, At, Loads, Saves, Became, Over
<1>2. CASE Truncate(p) \/ Write(p)
  BY <1>2, SavingEffect DEF Alive, At, Goes, Became
<1>3. CASE StopContainer(p)
  BY <1>3, StopEffect DEF Alive, At, Loads, Goes, Became, Over
<1>4. CASE Migrate(p)
  BY <1>4, MigrateEffect DEF Alive, At, Saves, Goes, Became
<1>5. CASE GetLoad(p) \/ Take(p)
  BY <1>5, FirstEffect DEF Alive, At, Became
<1>6. CASE List(p)
  BY <1>6, ListEffect DEF Alive, At, Goes, Parted, Became, Over
<1>7. CASE Download(p)
  BY <1>7, DownloadEffect DEF Alive, At, Goes, Became, Over
<1>8. CASE Validate(p)
  BY <1>8, ValidateEffect DEF Alive, At, Goes, Became, Over
<1>9. CASE Offered(p)
  BY <1>9, OfferedEffect DEF Alive, At, Parted, Saves, Became
<1>10. CASE Extract(p)
  BY <1>10, ExtractEffect DEF Alive, At, Parted, Saves, Became
<1>11. CASE RemoveOverlay(p) \/ Prepare(p)
  BY <1>11, EndingEffect DEF Alive, At, Goes, Became, Over
<1> QED
  BY <1>1, <1>2, <1>3, <1>4, <1>5, <1>6, <1>7, <1>8, <1>9, <1>10, <1>11 DEF Step

-----------------------------------------------------------------------------
(* The steps of the whole.                                                  *)

\* A process that has just begun or ended.
Fresh(q) == /\ job'[q].cfg = Defaults
            /\ \/ job'[q].pc = "done"
               \/ job'[q].pc = "setup" /\ job'[q].op = "init"
               \/ job'[q].pc = "stop" /\ job'[q].op = "upgrade"
               \/ job'[q].pc = "take" /\ job'[q].op = "replace"

Refreshed == /\ UNCHANGED <<faults, conf, disk, overlay, rootfs, extra, published>>
             /\ job' \in [Processes -> Job]
             /\ \A q \in Processes : job'[q] = job[q] \/ Fresh(q)

\* What happens around the processes.
Around == /\ UNCHANGED <<faults, conf, disk, rootfs, job>>
          /\ published' \in [Channels -> 1..MaxBuild]
          /\ \A c \in Channels : published[c] <= published'[c]
          /\ overlay' = overlay \/ overlay' = "used"
          /\ "package" \notin faults => extra' = extra

LEMMA BegunEffect ==
  ASSUME NEW p \in Processes, NEW op \in Ops, NEW want \in Request
  PROVE  /\ Begun(p, op, want) \in Job /\ Begun(p, op, want).cfg = Defaults
         /\ Begun(p, op, want).op = op
         /\ op = "init" => Begun(p, op, want).pc = "setup"
         /\ op = "upgrade" => Begun(p, op, want).pc = "stop"
         /\ op = "replace" => Begun(p, op, want).pc = "take"
<1> DEFINE first == CASE op = "init" -> "setup" [] op = "upgrade" -> "stop" [] op = "replace" -> "take"
<1>1. /\ first \in Steps
      /\ op = "init" => first = "setup"
      /\ op = "upgrade" => first = "stop"
      /\ op = "replace" => first = "take"
  BY DEF Ops, Steps
<1>2. Begun(p, op, want) = [NoJob EXCEPT !.op = op, !.want = want, !.pc = first]
  BY DEF Begun
<1> HIDE DEF first
<1> QED
  BY <1>1, <1>2, DefaultTypes DEF Job, Ops

\* A worker that is killed has ended.
LEMMA KilledEffect ==
  ASSUME Typed, NEW w
  PROVE  /\ Killed(w) \in [Processes -> Job]
         /\ w \in Workers /\ Alive(w) => Killed(w)[w].pc = "done" /\ Killed(w)[w].cfg = Defaults
         /\ \A q \in Processes :
              \/ Killed(w)[q] = job[q]
              \/ q = w /\ Killed(w)[q].pc = "done" /\ Killed(w)[q].cfg = Defaults
<1>1. [NoJob EXCEPT !.pc = "done", !.code = 1] \in Job
  BY DefaultTypes DEF Job, Steps
<1>2. /\ [NoJob EXCEPT !.pc = "done", !.code = 1].pc = "done"
      /\ [NoJob EXCEPT !.pc = "done", !.code = 1].cfg = Defaults
  BY DefaultTypes DEF Job
<1> DEFINE ended == [NoJob EXCEPT !.pc = "done", !.code = 1]
<1> HIDE DEF ended
<1>3. Killed(w) = IF w \in Workers /\ Alive(w) THEN [job EXCEPT ![w] = ended] ELSE job
  BY DEF Killed, Ended, ended
<1> QED
  BY <1>1, <1>2, <1>3 DEF Typed, Processes, ended

LEMMA HandleEffect ==
  ASSUME Typed, calls \in Seq(Request \cup {Cancel}), HandleInit \/ HandleCancel
  PROVE  Refreshed
<1>1. CASE job' = Killed(current) /\ UNCHANGED <<faults, conf, disk, overlay, rootfs, extra, published>>
  BY <1>1, KilledEffect DEF Refreshed, Fresh
<1>2. ASSUME NEW w \in Workers, At(w, "idle"), HandleInit,
             job' = [Killed(current) EXCEPT ![w] = Begun(w, "init", Head(calls))]
      PROVE  Refreshed
  <2>1. Head(calls) \in Request /\ "init" \in Ops /\ w \in Processes
    BY <1>2 DEF HandleInit, Ops, Processes
  <2>2. \A q \in Processes : \/ Killed(current)[q] = job[q]
                             \/ /\ Killed(current)[q].pc = "done"
                                /\ Killed(current)[q].cfg = Defaults
    BY KilledEffect
  <2>3. UNCHANGED <<faults, conf, disk, overlay, rootfs, extra, published>>
    BY <1>2 DEF HandleInit
  <2> QED
    BY <1>2, <2>1, <2>2, <2>3, KilledEffect, BegunEffect DEF Refreshed, Fresh
<1> QED
  BY <1>1, <1>2 DEF HandleInit, HandleCancel

LEMMA BeginEffect ==
  ASSUME Typed, NEW p \in Processes, NEW op \in Ops, Begin(p, op), UNCHANGED faults
  PROVE  Refreshed /\ Alone(p) /\ At(p, "idle") /\ Free
<1>1. PICK want \in Request : job' = [job EXCEPT ![p] = Begun(p, op, want)]
  BY DEF Begin
<1>2. Alone(p) /\ job'[p] = Begun(p, op, want)
  BY <1>1, BegunEffect DEF Typed, Alone
<1> QED
  BY <1>2, BegunEffect DEF Refreshed, Fresh, Begin, Ops, Alone

LEMMA DieEffect ==
  ASSUME Typed, NEW p \in Processes, Die(p), UNCHANGED faults
  PROVE  Refreshed /\ Over(p)
<1>1. Over(p)
  BY EndEffect DEF Die, Raise, Codes
<1> QED
  BY <1>1 DEF Refreshed, Fresh, Over, Alone, Die, Raise

LEMMA AroundEffect ==
  ASSUME Typed, Publish \/ Repackage \/ UseOverlay, UNCHANGED faults
  PROVE  Around
<1>1. CASE Publish
  <2>1. PICK c \in Channels : /\ published[c] < Builds[c]
                              /\ published' = [published EXCEPT ![c] = @ + 1]
    BY <1>1 DEF Publish
  <2>2. published[c] + 1 \in 1..MaxBuild
    <3>1. published[c] \in 1..MaxBuild /\ Builds[c] <= MaxBuild /\ Builds[c] \in Nat /\ MaxBuild \in Nat
      BY BuildAssumption, StoreAssumption DEF Typed
    <3> QED
      BY <2>1, <3>1
  <2> QED
    BY <1>1, <2>1, <2>2 DEF Around, Publish, Typed
<1>2. CASE Repackage \/ UseOverlay
  BY <1>2 DEF Around, Repackage, UseOverlay, Typed
<1> QED
  BY <1>1, <1>2

\* All steps.
LEMMA NextEffect ==
  ASSUME Typed, calls \in Seq(Request \cup {Cancel}), [Next]_vars
  PROVE  \/ \E p \in Processes : Step(p) /\ UNCHANGED <<faults, extra, published>>
         \/ Refreshed
         \/ Around
<1>1. CASE StoreStep /\ UNCHANGED faults
  <2>1. ASSUME NEW p \in Others, NEW op \in {"init", "upgrade", "replace"}, Begin(p, op)
        PROVE  Refreshed
    BY <1>1, <2>1, BeginEffect DEF Ops, Processes
  <2>2. CASE Publish \/ Repackage \/ UseOverlay
    BY <1>1, <2>2, AroundEffect
  <2> QED
    BY <1>1, <2>1, <2>2, DieEffect DEF StoreStep
<1>2. CASE HandleInit \/ HandleCancel
  BY <1>2, HandleEffect
<1>3. CASE Emit \/ Click \/ Read \/ Close \/ (\E w \in Workers : Monitor(w)) \/ UNCHANGED vars
  BY <1>3 DEF Emit, Click, Read, Close, Monitor, vars, store, Around, Typed
<1> QED
  BY <1>1, <1>2, <1>3 DEF Next

-----------------------------------------------------------------------------
(* What is invariant of a process.                                          *)

\* Where a process goes when it has saved.
To(q) == IF job[q].pc \in {"truncate", "write"} THEN job[q].after ELSE job[q].pc

Had(x)   == disk[x].state # "none"
Has(cfg) == cfg.path = "own" /\ \A x \in Parts : cfg.date[x] # 0 => Had(x)

\* A process obtains images of channels only.
Legal(q) == To(q) \in {"download", "validate", "extract"} => Channel(q) \in Channels

\* A process that is past an image has obtained it.
Obtained(q) ==
  /\ Has(job[q].cfg)
  /\ To(q) \in {"take", "offered"} => job[q].op = "replace"
  /\ (To(q) \in {"list", "download", "validate"} \/ (To(q) = "extract" /\ job[q].op # "replace"))
       => (job[q].part = "vendor" => Had("system"))
  /\ To(q) = "overlay" => (job[q].op # "replace" => Had("system") /\ Had("vendor"))
  /\ To(q) = "prepare" => (job[q].op = "init" => Had("system") /\ Had("vendor"))

Images == "package" \notin faults =>
            /\ extra = "none"
            /\ conf \in Config => Has(conf)
            /\ rootfs => Had("system") /\ Had("vendor")
            /\ \A q \in Processes : Obtained(q)

\* The images of a step stay.
Grown == /\ disk' \in [Parts -> Image]
         /\ \A x \in Parts : Had(x) => Had(x)'

LEMMA TornGrows ==
  ASSUME Typed, NEW p \in Processes, Torn(p), Channel(p) \in Channels, job'[p].pick \in 0..MaxBuild
  PROVE  Grown
<1> DEFINE torn == [channel |-> Channel(p), build |-> job'[p].pick, state |-> "torn"]
<1>1. torn \in Image /\ torn.state # "none"
  BY DEF Image
<1>2. disk' = [disk EXCEPT ![job[p].part] = torn]
  BY DEF Torn
<1> HIDE DEF torn
<1> QED
  BY <1>1, <1>2 DEF Grown, Had, Typed

LEMMA WholeGrows ==
  ASSUME Typed, NEW x \in Parts, disk' = [disk EXCEPT ![x].state = "whole"]
  PROVE  Grown /\ Had(x)'
<1> DEFINE whole == [disk[x] EXCEPT !.state = "whole"]
<1>1. whole \in Image /\ whole.state # "none"
  BY DEF Image, Typed
<1>2. disk' = [disk EXCEPT ![x] = whole]
  OBVIOUS
<1> HIDE DEF whole
<1> QED
  BY <1>1, <1>2 DEF Grown, Had, Typed

\* Every step keeps the types and obtains images of channels only.
LEMMA StepLegal ==
  ASSUME Typed, \A q \in Processes : Legal(q), NEW p \in Processes, Step(p)
  PROVE  Legal(p)' /\ Grown /\ conf' \in Config \cup {Missing, Blank}
<1> USE DEF Typed
<1>0. job[p] \in Job /\ job[p].cfg \in Config /\ job[p].part \in Parts
  BY DEF Job
<1>1. CASE SetupLoad(p) \/ SetupPreinstalled(p) \/ SetupChannels(p)
  BY <1>1, SetupEffect DEF Legal, To, Channel, At, Goes, Loads, Saves, Parted, Became, Over, Still, Grown, Had
<1>2. CASE Truncate(p) \/ Write(p)
  BY <1>0, <1>2, SavingEffect DEF Legal, To, Channel, At, Goes, Loads, Saves, Parted, Became, Over, Still, Grown, Had
<1>3. CASE StopContainer(p)
  BY <1>3, StopEffect DEF Legal, To, Channel, At, Goes, Loads, Saves, Parted, Became, Over, Still, Grown, Had
<1>4. CASE Migrate(p)
  BY <1>4, MigrateEffect DEF Legal, To, Channel, At, Goes, Loads, Saves, Parted, Became, Over, Still, Grown, Had
<1>5. CASE GetLoad(p) \/ Take(p)
  BY <1>5, FirstEffect DEF Legal, To, Channel, At, Goes, Loads, Saves, Parted, Became, Over, Still, Grown, Had
<1>6. CASE List(p)
  BY <1>6, ListEffect DEF Legal, To, Channel, At, Goes, Loads, Saves, Parted, Became, Over, Still, Grown, Had
<1>7. CASE Download(p)
  BY <1>7, DownloadEffect DEF Legal, To, Channel, At, Goes, Loads, Saves, Parted, Became, Over, Still, Grown, Had
<1>8. CASE Validate(p)
  <2>1. CASE Goes(p, "extract") /\ Torn(p)
    <3>1. Channel(p) \in Channels /\ job'[p].pick \in 0..MaxBuild
      BY <1>0, <1>8, <2>1, ValidateEffect DEF Legal, To, At, Goes, Became, Job
    <3> QED
      BY <2>1, <3>1, TornGrows DEF Torn, Legal, To, Channel, Goes, Became
  <2> QED
    BY <1>8, <2>1, ValidateEffect DEF Legal, To, Channel, At, Goes, Loads, Saves, Parted, Became, Over, Still, Grown, Had
<1>9. CASE Offered(p)
  <2>1. ASSUME Channel(p) \in Channels, Torn(p), NEW b \in Newer(p),
               Became(p, "extract", job[p].cfg, job[p].part, b, job[p].after)
        PROVE  Legal(p)' /\ Grown /\ conf' = conf
    <3>1. job'[p].pick \in 0..MaxBuild
      BY <2>1 DEF Became, Alone, Job
    <3> QED
      BY <2>1, <3>1, TornGrows DEF Torn, Legal, To, Channel, Became
  <2> QED
    BY <1>9, <2>1, OfferedEffect DEF Legal, To, Channel, At, Goes, Loads, Saves, Parted, Became, Over, Still, Grown, Had
<1>10. CASE Extract(p)
  BY <1>0, <1>10, ExtractEffect, WholeGrows DEF Legal, To, Saves, Parted, Became
<1>11. CASE RemoveOverlay(p) \/ Prepare(p)
  BY <1>11, EndingEffect DEF Legal, To, Channel, At, Goes, Loads, Saves, Parted, Became, Over, Still, Grown, Had
<1> QED
  BY <1>1, <1>2, <1>3, <1>4, <1>5, <1>6, <1>7, <1>8, <1>9, <1>10, <1>11 DEF Step

\* What a process knows of its images stays true of the images of another.
LEMMA GrownImages ==
  ASSUME Grown
  PROVE  /\ \A cfg \in Config : Has(cfg) => Has(cfg)'
         /\ \A q \in Processes : (job[q] = job'[q] /\ Obtained(q)) => Obtained(q)'
<1>1. \A cfg : Has(cfg) => Has(cfg)'
  BY DEF Grown, Has
<1> QED
  BY <1>1 DEF Grown, Obtained, Has, To, Parts

LEMMA DefaultsHas == Has(Defaults) /\ (Images /\ Typed /\ "package" \notin faults => Has(Load))
BY DefaultTypes DEF Has, Images, Load, Typed

LEMMA StepImages ==
  ASSUME Typed, Images, "package" \notin faults, \A q \in Processes : Legal(q),
         NEW p \in Processes, Step(p)
  PROVE  /\ Obtained(p)'
         /\ (rootfs => Had("system") /\ Had("vendor"))'
         /\ (conf \in Config => Has(conf))'
<1> USE DEF Typed
<1>0. /\ job[p] \in Job /\ job[p].cfg \in Config /\ job[p].part \in Parts /\ Grown
      /\ Obtained(p) /\ Has(Load) /\ Load \in Config /\ Has(Defaults) /\ extra = "none"
      /\ Defaults \in Config
  BY StepLegal, DefaultsHas, LoadType, DefaultTypes DEF Job, Images
<1>a. \A cfg \in Config : Has(cfg) => Has(cfg)'
  BY <1>0, GrownImages
<1>b. /\ rootfs' = rootfs => (rootfs => Had("system") /\ Had("vendor"))'
      /\ conf' = conf => (conf \in Config => Has(conf))'
  BY <1>0, <1>a DEF Images, Grown, Parts
<1>1. CASE SetupLoad(p) \/ SetupPreinstalled(p) \/ SetupChannels(p)
  <2>1. Has(Wanted(p))
    BY <1>0 DEF Wanted, KeptDates, Has, Obtained
  <2> QED
    BY <1>0, <1>a, <1>b, <1>1, <2>1, SetupEffect DEF Obtained, Has, To, At, Goes, Loads, Saves, Parted, Became, Over, Still, Grown, Had
<1>2. CASE Truncate(p) \/ Write(p)
  BY <1>0, <1>a, <1>b, <1>2, SavingEffect, FileAssumption DEF Obtained, Has, To, At, Goes, Loads, Saves, Parted, Became, Over, Still, Grown, Had
<1>3. CASE StopContainer(p)
  BY <1>0, <1>a, <1>b, <1>3, StopEffect DEF Obtained, Has, To, At, Goes, Loads, Saves, Parted, Became, Over, Still, Grown, Had
<1>4. CASE Migrate(p)
  BY <1>0, <1>a, <1>b, <1>4, MigrateEffect DEF Obtained, Has, To, At, Goes, Loads, Saves, Parted, Became, Over, Still, Grown, Had
<1>5. CASE GetLoad(p) \/ Take(p)
  BY <1>0, <1>a, <1>b, <1>5, FirstEffect DEF Obtained, Has, To, At, Goes, Loads, Saves, Parted, Became, Over, Still, Grown, Had
<1>6. CASE List(p)
  BY <1>0, <1>a, <1>b, <1>6, ListEffect, NewerBuilds DEF Obtained, Has, To, At, Goes, Loads, Saves, Parted, Became, Over, Still, Grown, Had
<1>7. CASE Download(p)
  BY <1>0, <1>a, <1>b, <1>7, DownloadEffect DEF Obtained, Has, To, At, Goes, Loads, Saves, Parted, Became, Over, Still, Grown, Had
<1>8. CASE Validate(p)
  <2>1. CASE Goes(p, "extract") /\ Torn(p)
    <3>1. Has(job[p].cfg)' /\ At(p, "validate") /\ job'[p].cfg = job[p].cfg
      BY <1>0, <1>a, <1>8, <2>1, ValidateEffect DEF Obtained, Goes, Became
    <3> QED
      BY <1>0, <1>b, <2>1, <3>1 DEF Obtained, To, At, Goes, Became, Torn, Grown, Parts
  <2> QED
    BY <1>0, <1>a, <1>b, <1>8, <2>1, ValidateEffect DEF Obtained, Has, To, At, Goes, Loads, Saves, Parted, Became, Over, Still, Grown, Had
<1>9. CASE Offered(p)
  BY <1>0, <1>a, <1>b, <1>9, OfferedEffect DEF Obtained, Has, To, At, Goes, Loads, Saves, Parted, Became, Over, Still, Grown, Had, Torn
<1>10. CASE Extract(p)
  <2>0. PICK x \in Parts : x = job[p].part
    BY <1>0
  <2>1. /\ At(p, "extract") /\ conf' = conf /\ rootfs' = rootfs
        /\ disk' = [disk EXCEPT ![x].state = "whole"]
    BY <1>10, <2>0, ExtractEffect
  <2>2. Grown /\ Had(x)'
    BY <2>1, WholeGrows
  <2>3. PICK cfg \in Config : cfg = Dated(p)
    BY <1>10, ExtractEffect
  <2>4. cfg.path = job[p].cfg.path /\ \A y \in Parts : y # x => cfg.date[y] = job[p].cfg.date[y]
    BY <1>0, <2>0, <2>3 DEF Dated, Config
  <2>5. Has(cfg)'
    BY <1>0, <2>2, <2>4 DEF Obtained, Has, Grown
  <2>6. x = "vendor" /\ job[p].op # "replace" => Had("system")' /\ Had("vendor")'
    BY <1>0, <2>0, <2>1, <2>2 DEF Obtained, To, At, Grown, Parts
  <2>7. \/ /\ job[p].op = "replace" /\ x = "system"
           /\ Parted(p, "offered", cfg, "vendor")
        \/ x = "vendor" /\ Saves(p, cfg, "overlay")
        \/ /\ job[p].op # "replace" /\ x = "system"
           /\ Became(p, "truncate", cfg, "vendor", job[p].pick, "list")
    BY <1>10, <2>0, <2>3, ExtractEffect
  <2>8. Obtained(p)'
    BY <2>2, <2>5, <2>6, <2>7 DEF Obtained, To, Saves, Parted, Became
  <2> QED
    BY <1>b, <2>1, <2>8
<1>11. CASE RemoveOverlay(p) \/ Prepare(p)
  <2>1. CASE At(p, "overlay")
    <3>1. rootfs' = rootfs /\ conf' = conf /\ (Goes(p, "prepare") \/ Over(p))
      BY <1>11, <2>1, EndingEffect DEF At
    <3> QED
      BY <1>0, <1>a, <1>b, <2>1, <3>1 DEF Obtained, To, At, Goes, Became, Over, Grown, Parts
  <2>2. CASE At(p, "prepare")
    <3>1. rootfs' = (rootfs \/ job[p].op = "init") /\ UNCHANGED <<conf, disk>> /\ Over(p)
      BY <1>11, <2>2, EndingEffect DEF At
    <3>2. rootfs' => Had("system")' /\ Had("vendor")'
      BY <1>0, <2>2, <3>1 DEF Images, Obtained, To, At, Had
    <3>3. Obtained(p)'
      BY <1>0, <1>a, <3>1 DEF Obtained, To, Over
    <3> QED
      BY <1>b, <3>1, <3>2, <3>3
  <2> QED
    BY <1>11, <2>1, <2>2, EndingEffect
<1> QED
  BY <1>1, <1>2, <1>3, <1>4, <1>5, <1>6, <1>7, <1>8, <1>9, <1>10, <1>11 DEF Step

-----------------------------------------------------------------------------
(* Type correctness, OneWorker and InitializedHasImages.                    *)

\* The worker that lives is the one that the service will kill.
Known == \A w \in Workers : Alive(w) => current = w

IInv == /\ TypeOK
        /\ \A q \in Processes : Legal(q)
        /\ Known
        /\ Images

Overlays == {"none", "empty", "used", "stale"}

LEMMA TypeTyped == TypeOK => Typed /\ calls \in Seq(Request \cup {Cancel})
BY DEF TypeOK, StoreTypeOK, Typed

LEMMA StepRest ==
  ASSUME NEW p \in Processes, Step(p), overlay \in Overlays, rootfs \in BOOLEAN
  PROVE  overlay' \in Overlays /\ rootfs' \in BOOLEAN
<1>1. CASE Prepare(p)
  <2>1. rootfs' \in BOOLEAN
    BY <1>1 DEF Prepare
  <2>2. overlay' \in Overlays
    BY <1>1 DEF Prepare, Overlays
  <2> QED
    BY <2>1, <2>2
<1>2. CASE SetupLoad(p) \/ SetupPreinstalled(p) \/ SetupChannels(p)
  BY <1>2 DEF SetupLoad, SetupPreinstalled, SetupChannels, Raise
<1>3. CASE Truncate(p) \/ Write(p) \/ StopContainer(p) \/ Migrate(p) \/ GetLoad(p) \/ Take(p)
  BY <1>3 DEF Truncate, Write, StopContainer, Migrate, GetLoad, Take, Raise
<1>4. CASE List(p) \/ Download(p) \/ Extract(p) \/ RemoveOverlay(p)
  BY <1>4 DEF List, Download, Extract, RemoveOverlay, Raise, Overlays
<1>5. CASE Validate(p)
  BY <1>5 DEF Validate, Tear, Raise, Overlays
<1>6. CASE Offered(p)
  BY <1>6 DEF Offered, Tear, Overlays
<1> QED
  BY <1>1, <1>2, <1>3, <1>4, <1>5, <1>6 DEF Step

\* The service, the window and what is on its way between them.
Rest == /\ current \in Workers \cup {NoWorker}
        /\ reported \subseteq Workers
        /\ idle \in Seq(Signals)
        /\ calls \in Seq(Request \cup {Cancel})
        /\ mail \in Seq(Signals \cup {"reply", "error"})
        /\ window \in [open : BOOLEAN, initializing : BOOLEAN, sensitive : BOOLEAN,
                       clicks : 0..Cardinality(Workers)]

LEMMA JoinedTypes ==
  ASSUME idle \in Seq(Signals), reported \subseteq Workers, NEW w, Joined(w)
  PROVE  idle' \in Seq(Signals) /\ reported' \subseteq Workers
BY DEF Joined, Signals

LEMMA TailKeeps ==
  \A S : \A queue \in Seq(S) : queue # <<>> => Tail(queue) \in Seq(S)
OBVIOUS

LEMMA AppendKeeps ==
  \A S : \A queue \in Seq(S), x \in S : Append(queue, x) \in Seq(S)
OBVIOUS

LEMMA RestTypes ==
  ASSUME Rest, [Next]_vars
  PROVE  Rest'
<1> USE DEF Rest
<1>1. CASE StoreStep /\ UNCHANGED <<faults, dbus, window>>
  BY <1>1 DEF dbus
<1>2. CASE HandleInit
  <2>1. calls' \in Seq(Request \cup {Cancel})
    BY <1>2, TailKeeps DEF HandleInit
  <2>2. mail' \in Seq(Signals \cup {"reply", "error"})
    <3>1. mail' = Append(mail, "reply") \/ mail' = Append(mail, "error")
      BY <1>2 DEF HandleInit
    <3>2. PICK S : S = Signals \cup {"reply", "error"}
      OBVIOUS
    <3>3. "reply" \in S /\ "error" \in S /\ mail \in Seq(S)
      BY <3>2
    <3>4. Append(mail, "reply") \in Seq(S) /\ Append(mail, "error") \in Seq(S)
      BY <3>3, AppendKeeps, Zenon
    <3>5. mail' \in Seq(S)
      BY <3>1, <3>4
    <3> QED
      BY <3>2, <3>5
  <2>3. current' \in Workers \cup {NoWorker} /\ window' = window
    BY <1>2 DEF HandleInit
  <2> QED
    BY <1>2, <2>1, <2>2, <2>3, JoinedTypes DEF HandleInit
<1>3. CASE HandleCancel
  BY <1>3, JoinedTypes DEF HandleCancel
<1>4. CASE Emit
  BY <1>4 DEF Emit
<1>5. ASSUME NEW w \in Workers, Monitor(w)
      PROVE  Rest'
  BY <1>5, JoinedTypes DEF Monitor
<1>6. CASE Click
  <2>1. window.clicks + 1 \in 0..Cardinality(Workers)
    BY <1>6, InitializerAssumption DEF Click
  <2>2. calls' \in Seq(Request \cup {Cancel})
    BY <1>6, AppendKeeps DEF Click
  <2> QED
    BY <1>6, <2>1, <2>2 DEF Click
<1>7. CASE Read
  <2>1. mail' \in Seq(Signals \cup {"reply", "error"})
    BY <1>7, TailKeeps DEF Read
  <2> QED
    BY <1>7, <2>1 DEF Read
<1>8. CASE Close
  <2>1. calls' = calls \/ calls' = Append(calls, Cancel)
    BY <1>8 DEF Close
  <2>2. calls' \in Seq(Request \cup {Cancel})
    BY <2>1, AppendKeeps
  <2> QED
    BY <1>8, <2>2, InitializerAssumption DEF Close
<1>9. CASE UNCHANGED vars
  BY <1>9 DEF vars, dbus
<1> QED
  BY <1>1, <1>2, <1>3, <1>4, <1>5, <1>6, <1>7, <1>8, <1>9 DEF Next

LEMMA KnownKept ==
  ASSUME TypeOK, Known, [Next]_vars
  PROVE  Known'
<1> USE TypeTyped
<1>1. ASSUME NEW p \in Processes, Step(p), UNCHANGED current
      PROVE  Known'
  BY <1>1, StepOfLiving DEF Known, Alive, Alone, Processes
<1>2. ASSUME NEW p \in Processes, Die(p), UNCHANGED current
      PROVE  Known'
  BY <1>2, EndEffect DEF Known, Alive, Alone, Over, Die, Raise, Codes, Processes
<1>3. ASSUME NEW p \in Others, NEW op \in Ops, Begin(p, op), UNCHANGED current
      PROVE  Known'
  <2>1. PICK want \in Request : job' = [job EXCEPT ![p] = Begun(p, op, want)]
    BY <1>3 DEF Begin
  <2>2. \A w \in Workers : job'[w] = job[w]
    BY <2>1, StoreAssumption DEF Typed, Processes
  <2> QED
    BY <1>3, <2>2 DEF Known, Alive
<1>4. CASE HandleInit
  <2>1. ASSUME NEW w \in Workers, job' = [Killed(current) EXCEPT ![w] = Begun(w, "init", Head(calls))],
               current' = w
        PROVE  Known'
    <3>1. ASSUME NEW v \in Workers, v # w
          PROVE  ~Alive(v)'
      <4>1. job'[v] = Killed(current)[v] /\ v \in Processes
        BY <2>1, <3>1, KilledEffect DEF Processes
      <4>2. CASE Alive(v)
        BY <4>1, <4>2, KilledEffect DEF Known, Alive
      <4>3. CASE ~Alive(v)
        BY <4>1, <4>3, KilledEffect DEF Alive
      <4> QED
        BY <4>2, <4>3
    <3> QED
      BY <2>1, <3>1 DEF Known
  <2>2. CASE job' = Killed(current) /\ current' = current
    BY <2>2, KilledEffect DEF Known, Alive, Processes
  <2> QED
    BY <1>4, <2>1, <2>2 DEF HandleInit
<1>5. CASE HandleCancel
  BY <1>5, KilledEffect DEF HandleCancel, Known, Alive, Processes
<1>6. CASE UNCHANGED <<job, current>>
  BY <1>6 DEF Known, Alive
<1>7. CASE StoreStep /\ UNCHANGED current
  <2>1. ASSUME NEW p \in Others, NEW op \in {"init", "upgrade", "replace"}, Begin(p, op)
        PROVE  Known'
    BY <1>3, <1>7, <2>1 DEF Ops
  <2>2. CASE Publish \/ Repackage \/ UseOverlay
    BY <1>6, <1>7, <2>2 DEF Publish, Repackage, UseOverlay
  <2> QED
    BY <1>1, <1>2, <1>7, <2>1, <2>2 DEF StoreStep
<1>8. CASE Emit \/ Click \/ Read \/ Close \/ (\E w \in Workers : Monitor(w)) \/ UNCHANGED vars
  BY <1>6, <1>8 DEF Emit, Click, Read, Close, Monitor, vars, store, dbus
<1> QED
  BY <1>4, <1>5, <1>7, <1>8 DEF Next, dbus

\* Everything else is as good after a process begins or ends as before.
LEMMA FreshImages ==
  ASSUME Typed, Refreshed, Images, \A q \in Processes : Legal(q)
  PROVE  Images' /\ \A q \in Processes : Legal(q)'
<1>1. \A q \in Processes : Fresh(q) => Legal(q)' /\ (Has(Defaults) => Obtained(q)')
  BY DEF Fresh, Legal, Obtained, To, Has, Had, Refreshed
<1>2. \A q \in Processes : job'[q] = job[q] => (Legal(q) => Legal(q)') /\ (Obtained(q) => Obtained(q)')
  BY DEF Legal, Channel, Obtained, To, Has, Had, Refreshed
<1>3. \A q \in Processes : Legal(q)'
  BY <1>1, <1>2 DEF Refreshed
<1>4. ASSUME "package" \notin faults
      PROVE  \A q \in Processes : Obtained(q)'
  BY <1>1, <1>2, <1>4, DefaultsHas DEF Refreshed, Images
<1>5. Images'
  BY <1>4 DEF Refreshed, Images, Has, Had
<1> QED
  BY <1>3, <1>5

LEMMA FirstState == Init => IInv
<1> SUFFICES ASSUME Init PROVE IInv
  OBVIOUS
<1> USE DEF Init, StoreInit
<1>1. StoreTypeOK
  <2>1. job \in [Processes -> Job] /\ conf \in Config \cup {Missing, Blank}
    BY DefaultTypes
  <2>2. disk \in [Parts -> Image]
    BY BuildAssumption DEF Image
  <2>3. published \in [Channels -> 1..MaxBuild]
    BY BuildAssumption, StoreAssumption
  <2>4. faults \in FaultSets /\ overlay \in Overlays /\ rootfs \in BOOLEAN /\ extra \in {"none", "broken", "complete"}
    BY DEF Overlays
  <2> QED
    BY <2>1, <2>2, <2>3, <2>4 DEF StoreTypeOK, Overlays
<1>2. Rest
  BY InitializerAssumption DEF Rest
<1>3. \A q \in Processes : job[q] = NoJob
  OBVIOUS
<1>4. Known /\ \A q \in Processes : Legal(q)
  BY <1>3, DefaultTypes DEF Known, Alive, Legal, To, Processes
<1>5. Images
  <2>1. \A q \in Processes : Obtained(q)
    BY <1>3, DefaultTypes, DefaultsHas DEF Obtained, To
  <2> QED
    BY <2>1, FileAssumption DEF Images
<1> QED
  BY <1>1, <1>2, <1>4, <1>5 DEF IInv, TypeOK, Rest

LEMMA Inductive ==
  ASSUME IInv, [Next]_vars
  PROVE  IInv'
<1>1. /\ Typed /\ calls \in Seq(Request \cup {Cancel}) /\ Rest /\ TypeOK /\ Known /\ Images
      /\ \A q \in Processes : Legal(q)
      /\ faults \in FaultSets /\ overlay \in Overlays /\ rootfs \in BOOLEAN
      /\ extra \in {"none", "broken", "complete"}
  BY TypeTyped DEF IInv, TypeOK, StoreTypeOK, Rest, Overlays
<1>2. Rest' /\ Known'
  BY <1>1, RestTypes, KnownKept
<1>3. /\ faults' = faults /\ overlay' \in Overlays /\ rootfs' \in BOOLEAN
      /\ extra' \in {"none", "broken", "complete"}
  <2>1. CASE StoreStep /\ UNCHANGED faults
    <3>1. ASSUME NEW p \in Processes, Step(p), UNCHANGED extra
          PROVE  /\ faults' = faults /\ overlay' \in Overlays /\ rootfs' \in BOOLEAN
                 /\ extra' \in {"none", "broken", "complete"}
      BY <1>1, <2>1, <3>1, StepRest
    <3> QED
      BY <1>1, <2>1, <3>1 DEF StoreStep, Die, Raise, Begin, Publish, Repackage, UseOverlay, Overlays
  <2>2. CASE UNCHANGED <<faults, overlay, rootfs, extra>>
    BY <1>1, <2>2
  <2> QED
    BY <2>1, <2>2 DEF Next, HandleInit, HandleCancel, Emit, Click, Read, Close, Monitor, vars, store
<1>4. Typed' /\ Images' /\ \A q \in Processes : Legal(q)'
  <2>1. ASSUME NEW p \in Processes, Step(p), UNCHANGED <<faults, extra, published>>
        PROVE  Typed' /\ Images' /\ \A q \in Processes : Legal(q)'
    <3>1. Alone(p) /\ Legal(p)' /\ Grown /\ conf' \in Config \cup {Missing, Blank}
      BY <1>1, <2>1, StepOfLiving, StepLegal
    <3>2. Typed'
      BY <1>1, <2>1, <3>1 DEF Typed, Alone, Grown
    <3>3. \A q \in Processes : Legal(q)'
      BY <1>1, <3>1 DEF Alone, Legal, To, Channel
    <3>4. ASSUME "package" \notin faults
          PROVE  \A q \in Processes : Obtained(q)'
      BY <1>1, <2>1, <3>1, <3>4, StepImages, GrownImages DEF Alone, Images
    <3>5. Images'
      BY <1>1, <2>1, <3>4, StepImages DEF Images
    <3> QED
      BY <3>2, <3>3, <3>5
  <2>2. CASE Refreshed
    BY <1>1, <2>2, FreshImages DEF Refreshed, Typed
  <2>3. CASE Around
    BY <1>1, <2>3 DEF Around, Typed, Images, Obtained, Has, Had, To, Legal, Channel
  <2>4. \/ \E p \in Processes : Step(p) /\ UNCHANGED <<faults, extra, published>>
        \/ Refreshed
        \/ Around
    BY <1>1, NextEffect
  <2> QED
    BY <1>1, <2>1, <2>2, <2>3, <2>4
<1> QED
  BY <1>2, <1>3, <1>4 DEF IInv, TypeOK, StoreTypeOK, Rest, Typed, Overlays

THEOREM Invariance == Spec => []IInv
<1>1. IInv /\ [Next]_vars => IInv'
  BY Inductive
<1> QED
  BY FirstState, <1>1, PTL DEF Spec

\* Every variable has its type, whatever processes, channels, builds and faults
\* there are.
THEOREM Typing == Spec => []TypeOK
<1>1. IInv => TypeOK
  BY DEF IInv
<1> QED
  BY Invariance, <1>1, PTL

\* Init and Cancel never leave two workers that obtain images: the worker that
\* lives is the one that the service knows, and it is killed before the next.
THEOREM OneWorkerSafety == Spec => []OneWorker
<1>1. IInv => OneWorker
  BY DEF IInv, Known, OneWorker
<1> QED
  BY Invariance, <1>1, PTL

\* Where waydroid is initialised images have been obtained, also beside other
\* commands and after any process was killed anywhere: what is dated in
\* waydroid.cfg, or in what any process remembers of it, is on disk.
THEOREM ImagesSafety == Spec => []InitializedHasImages
<1>1. IInv => InitializedHasImages
  BY DEF IInv, Images, InitializedHasImages, IsInitialized, Had, Parts
<1> QED
  BY Invariance, <1>1, PTL

-----------------------------------------------------------------------------
(* DateNotNewer: what the processes must know of the images' dates when no  *)
(* two of them run at once.                                                 *)

\* The image on disk is the dated one of this channel, or a newer one.
Fits(cfg, x) == cfg.date[x] > 0 =>
                  /\ disk[x].channel = cfg.ota[x]
                  /\ disk[x].build >= cfg.date[x]
                  /\ disk[x].state = "torn" => disk[x].build > cfg.date[x]

\* waydroid.cfg says of x what cfg says, or something older.
Behind(cfg, x) == Load.date[x] > 0 => Load.ota[x] = cfg.ota[x] /\ Load.date[x] <= cfg.date[x]

Careful(q) ==
  /\ ~Alive(q) => job[q].cfg = Defaults
  /\ \A x \in Parts : Fits(job[q].cfg, x)
  /\ job[q].pc \in {"list", "download", "validate", "extract", "offered"}
       => \A x \in Parts : Behind(job[q].cfg, x)
  /\ job[q].pc \in {"download", "validate", "extract"} => job[q].pick > job[q].cfg.date[job[q].part]
  /\ job[q].pc = "extract" => /\ disk[job[q].part].channel = Channel(q)
                              /\ disk[job[q].part].build = job[q].pick

Single == \A p, q \in Processes : Alive(p) /\ Alive(q) => p = q

\* An init that is asked for is not overtaken by a command.
Quiet == \A i \in 1..Len(calls) : calls[i] # Cancel => \A q \in Others : ~Alive(q)

Dates == "concurrent" \notin faults =>
           /\ Single /\ Quiet
           /\ \A x \in Parts : Fits(Load, x)
           /\ \A q \in Processes : Careful(q)

LEMMA DefaultsFit == \A x \in Parts : Fits(Defaults, x)
BY DefaultTypes DEF Fits

LEMMA SameFits ==
  ASSUME UNCHANGED disk
  PROVE  \A cfg \in Config : \A x \in Parts : Fits(cfg, x) => Fits(cfg, x)'
BY DEF Fits

LEMMA SameLoad ==
  ASSUME Typed, UNCHANGED <<conf, disk>>
  PROVE  /\ Load' = Load
         /\ \A x \in Parts : Fits(Load, x) => Fits(Load, x)'
         /\ \A cfg \in Config : \A x \in Parts : Behind(cfg, x) => Behind(cfg, x)'
BY DEF Load, Fits, Behind

\* The steps of a process that touches neither waydroid.cfg nor the images:
\* they leave a configuration that fits.
LEMMA StillDated ==
  ASSUME Typed, NEW p \in Processes, UNCHANGED <<conf, disk>>,
         \A x \in Parts : Fits(Load, x), Careful(p), Alone(p),
         NEW cfg \in Config, job'[p].cfg = cfg, \A x \in Parts : Fits(cfg, x),
         Alive(p)' \/ cfg = Defaults,
         job'[p].pc \notin {"list", "download", "validate", "extract", "offered"}
  PROVE  Careful(p)' /\ \A x \in Parts : Fits(Load, x)'
<1>1. \A x \in Parts : Fits(cfg, x)' /\ Fits(Load, x)'
  BY SameFits, SameLoad
<1>2. \A x \in Parts : Fits(job[p].cfg, x)'
  BY <1>1 DEF Fits
<1> QED
  BY <1>1, <1>2 DEF Careful, Alive

\* The same for those that are between the load and the save.
LEMMA GoingDated ==
  ASSUME Typed, NEW p \in Processes, UNCHANGED <<conf, disk>>,
         \A x \in Parts : Fits(Load, x), Careful(p), Alone(p),
         job'[p].cfg = job[p].cfg, job'[p].pc \in {"list", "download", "validate", "offered"},
         \A x \in Parts : Behind(job[p].cfg, x),
         job'[p].pc \in {"download", "validate"} => job'[p].pick > job[p].cfg.date[job'[p].part]
  PROVE  Careful(p)' /\ \A x \in Parts : Fits(Load, x)'
<1>0. PICK cfg \in Config : cfg = job[p].cfg
  BY DEF Typed, Job
<1>1. \A x \in Parts : Fits(cfg, x)' /\ Fits(Load, x)' /\ Behind(cfg, x)'
  BY <1>0, SameFits, SameLoad DEF Careful
<1>2. \A x \in Parts : Fits(job[p].cfg, x)' /\ Behind(job[p].cfg, x)'
  BY <1>0, <1>1 DEF Fits, Behind
<1> QED
  BY <1>1, <1>2 DEF Careful, Alive

\* An image of a newer build is begun.
LEMMA TornDated ==
  ASSUME Typed, NEW p \in Processes, Torn(p), \A x \in Parts : Fits(Load, x), Careful(p),
         Alone(p), \A x \in Parts : Behind(job[p].cfg, x),
         job'[p].cfg = job[p].cfg, job'[p].part = job[p].part, job'[p].pc = "extract",
         job'[p].pick > job[p].cfg.date[job[p].part]
  PROVE  Careful(p)' /\ \A x \in Parts : Fits(Load, x)'
<1>0. PICK x \in Parts, cfg \in Config, b \in 0..MaxBuild :
        x = job[p].part /\ cfg = job[p].cfg /\ b = job'[p].pick
  BY DEF Typed, Job, Alone
<1>1. PICK old \in Config : old = Load
  BY LoadType
<1>2. /\ disk'[x].channel = cfg.ota[x] /\ disk'[x].build = b /\ disk'[x].state = "torn"
      /\ \A y \in Parts : y # x => disk'[y] = disk[y]
      /\ Load' = old
  BY <1>0, <1>1 DEF Torn, Channel, Typed, Load
<1>3. /\ b > cfg.date[x] /\ b \in Nat /\ MaxBuild \in Nat
      /\ \A y \in Parts : cfg.date[y] \in Nat /\ old.date[y] \in Nat
  BY <1>0, BuildAssumption DEF Config
<1>4. /\ \A y \in Parts : Fits(cfg, y)
      /\ \A y \in Parts : Fits(old, y)
      /\ \A y \in Parts : old.date[y] > 0 => old.ota[y] = cfg.ota[y] /\ old.date[y] <= cfg.date[y]
  BY <1>0, <1>1 DEF Careful, Behind
<1>5. \A y \in Parts : Fits(cfg, y)' /\ Fits(old, y)'
  <2>1. Fits(cfg, x)' /\ Fits(old, x)'
    BY <1>2, <1>3, <1>4 DEF Fits
  <2>2. ASSUME NEW y \in Parts, y # x
        PROVE  Fits(cfg, y)' /\ Fits(old, y)'
    BY <1>2, <1>4, <2>2 DEF Fits
  <2> QED
    BY <2>1, <2>2
<1>6. \A y \in Parts : Fits(job[p].cfg, y)' /\ Fits(Load, y)' /\ Behind(job[p].cfg, y)'
  BY <1>0, <1>2, <1>4, <1>5 DEF Fits, Behind
<1> QED
  BY <1>0, <1>2, <1>3, <1>6 DEF Careful, Alive, Channel

\* The whole of it is there, and dated.
LEMMA WholeDated ==
  ASSUME Typed, NEW p \in Processes, Extract(p), \A x \in Parts : Fits(Load, x), Careful(p)
  PROVE  Careful(p)' /\ \A x \in Parts : Fits(Load, x)'
<1>0. PICK x \in Parts, cfg \in Config, b \in 0..MaxBuild :
        x = job[p].part /\ cfg = job[p].cfg /\ b = job[p].pick
  BY DEF Typed, Job
<1>1. PICK old \in Config : old = Load
  BY LoadType
<1>2. /\ At(p, "extract") /\ Load' = old
      /\ disk' = [disk EXCEPT ![x].state = "whole"]
  BY <1>0, <1>1, ExtractEffect DEF Load
<1>3. /\ disk'[x].channel = disk[x].channel /\ disk'[x].build = disk[x].build
      /\ disk'[x].state = "whole"
      /\ \A y \in Parts : y # x => disk'[y] = disk[y]
  BY <1>2 DEF Typed, Image
<1>4. /\ disk[x].channel = cfg.ota[x] /\ disk[x].build = b /\ b > cfg.date[x]
      /\ \A y \in Parts : Fits(cfg, y) /\ Fits(old, y)
      /\ \A y \in Parts : old.date[y] > 0 => old.ota[y] = cfg.ota[y] /\ old.date[y] <= cfg.date[y]
  BY <1>0, <1>1, <1>2 DEF Careful, At, Behind, Channel
<1>5. /\ b \in Nat /\ MaxBuild \in Nat
      /\ \A y \in Parts : cfg.date[y] \in Nat /\ old.date[y] \in Nat
  BY <1>0, BuildAssumption DEF Config
<1>6. PICK dated \in Config : dated = Dated(p)
  BY ExtractEffect
<1>7. /\ dated.ota = cfg.ota /\ dated.date[x] = b
      /\ \A y \in Parts : y # x => dated.date[y] = cfg.date[y]
  BY <1>0, <1>6 DEF Dated, Config
<1>8. \A y \in Parts : Fits(dated, y)' /\ Fits(old, y)'
  <2>1. Fits(dated, x)' /\ Fits(old, x)'
    BY <1>3, <1>4, <1>5, <1>7 DEF Fits
  <2>2. ASSUME NEW y \in Parts, y # x
        PROVE  Fits(dated, y)' /\ Fits(old, y)'
    BY <1>3, <1>4, <1>7, <2>2 DEF Fits
  <2> QED
    BY <2>1, <2>2
<1>9. \A y \in Parts : old.date[y] > 0 => old.ota[y] = dated.ota[y] /\ old.date[y] <= dated.date[y]
  BY <1>4, <1>5, <1>7
<1>10. job'[p].cfg = dated /\ job'[p].pc \in {"offered", "truncate"}
  BY <1>6, ExtractEffect DEF Parted, Saves, Became
<1>11. \A y \in Parts : Fits(job[p].cfg, y)' /\ Fits(Load, y)' /\ Behind(job[p].cfg, y)'
  BY <1>2, <1>8, <1>9, <1>10 DEF Fits, Behind
<1> QED
  BY <1>10, <1>11 DEF Careful, Alive

\* What follows a save is a step that may follow one.
Ordered(q) == job[q].pc \in {"truncate", "write"} =>
                job[q].after \in {"stop", "get", "prepare", "list", "overlay"}

LEMMA StepOrdered ==
  ASSUME Typed, NEW p \in Processes, Ordered(p), Step(p)
  PROVE  Ordered(p)'
<1>1. CASE SetupLoad(p) \/ SetupPreinstalled(p) \/ SetupChannels(p)
  BY <1>1, SetupEffect DEF Ordered, Loads, Saves, Became, Over
<1>2. CASE Truncate(p) \/ Write(p)
  BY <1>2, SavingEffect DEF Ordered, At, Goes, Became
<1>3. CASE StopContainer(p)
  BY <1>3, StopEffect DEF Ordered, Loads, Goes, Became, Over
<1>4. CASE Migrate(p)
  BY <1>4, MigrateEffect DEF Ordered, Saves, Goes, Became
<1>5. CASE GetLoad(p) \/ Take(p)
  BY <1>5, FirstEffect DEF Ordered, Became
<1>6. CASE List(p) \/ Download(p) \/ Validate(p)
  BY <1>6, ListEffect, DownloadEffect, ValidateEffect DEF Ordered, Goes, Parted, Became, Over
<1>7. CASE Offered(p) \/ Extract(p)
  BY <1>7, OfferedEffect, ExtractEffect DEF Ordered, Parted, Saves, Became
<1>8. CASE RemoveOverlay(p) \/ Prepare(p)
  BY <1>8, EndingEffect DEF Ordered, Goes, Became, Over
<1> QED
  BY <1>1, <1>2, <1>3, <1>4, <1>5, <1>6, <1>7, <1>8 DEF Step

LEMMA SavedDated ==
  ASSUME Typed, NEW p \in Processes, \A x \in Parts : Fits(Load, x), Careful(p),
         Truncate(p) \/ Write(p),
         To(p) \notin {"download", "validate", "extract", "offered"}, Alive(p)'
  PROVE  Careful(p)' /\ \A x \in Parts : Fits(Load, x)'
<1>0. PICK cfg \in Config : cfg = job[p].cfg
  BY DEF Typed, Job
<1>1. disk' = disk /\ job'[p].cfg = cfg
  BY <1>0, SavingEffect DEF Goes, Became
<1>2. \A x \in Parts : Fits(cfg, x)' /\ Fits(Defaults, x)'
  BY <1>0, <1>1, SameFits, DefaultsFit, DefaultTypes DEF Careful
<1>3. CASE conf' = Blank /\ Goes(p, "write")
  <2>1. Load' = Defaults
    BY <1>3 DEF Load
  <2>2. \A x \in Parts : Fits(Load, x)' /\ Fits(job[p].cfg, x)'
    BY <1>1, <1>2, <2>1 DEF Fits
  <2> QED
    BY <1>3, <2>2 DEF Careful, Goes, Became, Alive
<1>4. CASE conf' = cfg /\ At(p, "write") /\ Goes(p, job[p].after)
  <2>1. Load' = cfg
    BY <1>4, FileAssumption DEF Load
  <2>2. \A x \in Parts : Fits(Load, x)' /\ Fits(job[p].cfg, x)' /\ Behind(job[p].cfg, x)'
    <3>1. \A x \in Parts : cfg.date[x] <= cfg.date[x]
      BY BuildAssumption DEF Config
    <3> QED
      BY <1>1, <1>2, <2>1, <3>1 DEF Fits, Behind
  <2> QED
    BY <1>4, <2>2 DEF Careful, Goes, Became, Alive, To, At
<1> QED
  BY <1>0, <1>3, <1>4, SavingEffect

LEMMA StepDated ==
  ASSUME Typed, \A x \in Parts : Fits(Load, x), \A q \in Processes : Legal(q) /\ Ordered(q),
         NEW p \in Processes, Careful(p), Step(p)
  PROVE  Careful(p)' /\ \A x \in Parts : Fits(Load, x)'
<1>0. /\ job[p] \in Job /\ job[p].cfg \in Config /\ job[p].part \in Parts /\ job[p].after \in Steps
      /\ Alone(p) /\ Alive(p) /\ Load \in Config /\ Defaults \in Config
      /\ \A x \in Parts : Fits(Defaults, x) /\ Fits(job[p].cfg, x)
  BY StepOfLiving, LoadType, DefaultTypes, DefaultsFit DEF Typed, Job, Careful
<1>a. ASSUME NEW cfg \in Config, job'[p].cfg = cfg, \A x \in Parts : Fits(cfg, x), Still,
             Alive(p)' \/ cfg = Defaults,
             job'[p].pc \notin {"list", "download", "validate", "extract", "offered"}
      PROVE  Careful(p)' /\ \A x \in Parts : Fits(Load, x)'
  BY <1>0, <1>a, StillDated DEF Still
<1>b. Over(p) /\ Still => Careful(p)' /\ \A x \in Parts : Fits(Load, x)'
  BY <1>0, <1>a DEF Over
<1>1. CASE SetupLoad(p) \/ SetupPreinstalled(p) \/ SetupChannels(p)
  <2>1. CASE Loads(p, "channels") /\ Still
    BY <1>0, <1>a, <2>1 DEF Loads, Became, Alive
  <2>2. CASE Saves(p, Unwanted, "stop") /\ Still /\ Unwanted \in Config
    <3>1. \A x \in Parts : Fits(Unwanted, x)
      BY DEF Fits, Unwanted
    <3> QED
      BY <1>a, <2>2, <3>1 DEF Saves, Became, Alive
  <2>3. CASE Saves(p, Wanted(p), "stop") /\ Still /\ Wanted(p) \in Config
    <3>1. \A x \in Parts : Fits(Wanted(p), x)
      BY <1>0 DEF Fits, Wanted, KeptDates
    <3> QED
      BY <1>a, <2>3, <3>1 DEF Saves, Became, Alive
  <2> QED
    BY <1>b, <1>1, <2>1, <2>2, <2>3, SetupEffect
<1>2. CASE Truncate(p) \/ Write(p)
  <2>1. To(p) \notin {"download", "validate", "extract", "offered"} /\ Alive(p)'
    BY <1>2, SavingEffect DEF Ordered, To, At, Goes, Became, Alive
  <2> QED
    BY <1>2, <2>1, SavedDated
<1>3. CASE StopContainer(p)
  BY <1>0, <1>a, <1>b, <1>3, StopEffect DEF Loads, Goes, Became, Alive
<1>4. CASE Migrate(p)
  BY <1>0, <1>a, <1>4, MigrateEffect DEF Saves, Goes, Became, Alive
<1>5. CASE GetLoad(p) \/ Take(p)
  <2>0. PICK cfg \in Config : cfg = Load
    BY <1>0
  <2>1. /\ UNCHANGED <<conf, disk>> /\ job'[p].cfg = cfg /\ job'[p].pc \in {"list", "offered"}
    BY <1>5, <2>0, FirstEffect DEF Still, Became
  <2>2. \A x \in Parts : Fits(cfg, x)' /\ Fits(Load, x)' /\ Load'.date[x] <= cfg.date[x]
    <3>1. \A x \in Parts : cfg.date[x] <= cfg.date[x]
      BY BuildAssumption DEF Config
    <3> QED
      BY <2>0, <2>1, <3>1, SameFits, SameLoad
  <2>3. \A x \in Parts : Fits(job[p].cfg, x)' /\ Behind(job[p].cfg, x)'
    BY <2>0, <2>1, <2>2, SameLoad DEF Fits, Behind
  <2> QED
    BY <2>1, <2>2, <2>3 DEF Careful, Alive
<1>6. CASE List(p)
  <2>1. At(p, "list") /\ Still /\ \A x \in Parts : Behind(job[p].cfg, x)
    BY <1>6, ListEffect DEF Careful, At
  <2>2. CASE Parted(p, "list", job[p].cfg, "vendor")
    BY <1>0, <2>1, <2>2, GoingDated DEF Parted, Became, Still
  <2>3. CASE Goes(p, "overlay")
    BY <1>0, <1>a, <2>1, <2>3 DEF Goes, Became, Alive
  <2>4. ASSUME NEW b \in Newer(p), Channel(p) \in Channels,
               Became(p, "download", job[p].cfg, job[p].part, b, job[p].after)
        PROVE  Careful(p)' /\ \A x \in Parts : Fits(Load, x)'
    <3>1. b > job[p].cfg.date[job[p].part]
      BY <2>4, NewerBuilds
    <3> QED
      BY <1>0, <2>1, <2>4, <3>1, GoingDated DEF Became, Still
  <2> QED
    BY <1>b, <1>6, <2>1, <2>2, <2>3, <2>4, ListEffect
<1>7. CASE Download(p)
  <2>1. CASE Goes(p, "validate")
    BY <1>0, <1>7, <2>1, DownloadEffect, GoingDated DEF Careful, At, Goes, Became, Still
  <2> QED
    BY <1>b, <1>7, <2>1, DownloadEffect
<1>8. CASE Validate(p)
  <2>1. CASE Goes(p, "extract") /\ Torn(p)
    BY <1>0, <1>8, <2>1, ValidateEffect, TornDated DEF Careful, At, Goes, Became
  <2> QED
    BY <1>b, <1>8, <2>1, ValidateEffect
<1>9. CASE Offered(p)
  <2>1. At(p, "offered") /\ \A x \in Parts : Behind(job[p].cfg, x)
    BY <1>9, OfferedEffect DEF Careful, At
  <2>2. CASE Still /\ Parted(p, "offered", job[p].cfg, "vendor")
    BY <1>0, <2>1, <2>2, GoingDated DEF Parted, Became, Still
  <2>3. CASE Still /\ Saves(p, job[p].cfg, "overlay")
    BY <1>0, <1>a, <2>3 DEF Saves, Became, Alive
  <2>4. ASSUME NEW b \in Newer(p), Channel(p) \in Channels, Torn(p),
               Became(p, "extract", job[p].cfg, job[p].part, b, job[p].after)
        PROVE  Careful(p)' /\ \A x \in Parts : Fits(Load, x)'
    <3>1. b > job[p].cfg.date[job[p].part]
      BY <2>4, NewerBuilds
    <3> QED
      BY <1>0, <2>1, <2>4, <3>1, TornDated DEF Became
  <2> QED
    BY <1>9, <2>2, <2>3, <2>4, OfferedEffect
<1>10. CASE Extract(p)
  BY <1>10, WholeDated
<1>11. CASE RemoveOverlay(p) \/ Prepare(p)
  <2>1. UNCHANGED <<conf, disk>> /\ (Goes(p, "prepare") \/ Over(p))
    BY <1>11, EndingEffect
  <2> QED
    BY <1>0, <2>1, StillDated DEF Goes, Over, Became, Alive
<1> QED
  BY <1>1, <1>2, <1>3, <1>4, <1>5, <1>6, <1>7, <1>8, <1>9, <1>10, <1>11, <1>0 DEF Step

DInv == IInv /\ (\A q \in Processes : Ordered(q)) /\ Dates

LEMMA QueueEnds ==
  \A S : \A queue \in Seq(S) :
    /\ queue # <<>> => /\ Len(Tail(queue)) = Len(queue) - 1 /\ Len(queue) \in Nat \ {0}
                       /\ Head(queue) = queue[1]
                       /\ \A i \in 1..(Len(queue) - 1) : Tail(queue)[i] = queue[i + 1]
    /\ \A x \in S : /\ Len(Append(queue, x)) = Len(queue) + 1 /\ Len(queue) \in Nat
                    /\ Append(queue, x)[Len(queue) + 1] = x
                    /\ \A i \in 1..Len(queue) : Append(queue, x)[i] = queue[i]
OBVIOUS

LEMMA TakenQuiet ==
  ASSUME Typed, calls \in Seq(Request \cup {Cancel}), calls # <<>>, calls' = Tail(calls),
         Quiet, \A q \in Others : Alive(q)' => Alive(q)
  PROVE  Quiet'
<1>1. ASSUME NEW i \in 1..Len(calls'), calls'[i] # Cancel
      PROVE  \A q \in Others : ~Alive(q)
  <2>1. i + 1 \in 1..Len(calls) /\ calls[i + 1] # Cancel
    BY <1>1, QueueEnds
  <2> QED
    BY <2>1 DEF Quiet
<1> QED
  BY <1>1 DEF Quiet

\* The steps of the service and of the window.
LEMMA DbusDated ==
  ASSUME IInv, Dates, "concurrent" \notin faults,
         \/ HandleInit \/ HandleCancel \/ Emit \/ Click \/ Read \/ Close
         \/ (\E w \in Workers : Monitor(w)) \/ UNCHANGED vars
  PROVE  Single' /\ Quiet'
<1>0. /\ Typed /\ calls \in Seq(Request \cup {Cancel}) /\ Single /\ Quiet /\ Known
  BY TypeTyped DEF IInv, Dates
<1>1. CASE HandleInit
  <2>1. calls # <<>> /\ calls' = Tail(calls) /\ calls[1] # Cancel /\ 1 \in 1..Len(calls)
    BY <1>0, <1>1, QueueEnds DEF HandleInit
  <2>2. \A q \in Others : ~Alive(q)
    BY <1>0, <2>1 DEF Quiet
  <2>3. ASSUME NEW w \in Workers,
               job' = [Killed(current) EXCEPT ![w] = Begun(w, "init", Head(calls))]
        PROVE  Single' /\ \A q \in Others : ~Alive(q)'
    <3>1. ASSUME NEW q \in Processes, q # w
          PROVE  ~Alive(q)'
      <4>1. job'[q] = Killed(current)[q]
        BY <1>0, <2>3, <3>1, KilledEffect
      <4>2. CASE q \in Workers /\ Alive(q)
        BY <1>0, <4>1, <4>2, KilledEffect DEF Known, Alive
      <4>3. CASE ~Alive(q)
        BY <1>0, <4>1, <4>3, KilledEffect DEF Alive
      <4> QED
        BY <2>2, <4>2, <4>3 DEF Processes
    <3>2. \A q \in Others : q # w /\ q \in Processes
      BY StoreAssumption DEF Processes
    <3> QED
      BY <3>1, <3>2 DEF Single
  <2>4. ASSUME job' = Killed(current)
        PROVE  Single' /\ \A q \in Others : ~Alive(q)'
    <3>1. \A q \in Processes : Alive(q)' => Alive(q)
      BY <1>0, <2>4, KilledEffect DEF Alive
    <3> QED
      BY <1>0, <2>2, <3>1 DEF Single, Processes
  <2>5. Single' /\ \A q \in Others : ~Alive(q)'
    BY <1>1, <2>3, <2>4 DEF HandleInit
  <2> QED
    BY <1>0, <2>1, <2>5, TakenQuiet
<1>2. CASE HandleCancel
  <2>1. job' = Killed(current) /\ calls # <<>> /\ calls' = Tail(calls)
    BY <1>2 DEF HandleCancel
  <2>2. \A q \in Processes : Alive(q)' => Alive(q)
    BY <1>0, <2>1, KilledEffect DEF Alive
  <2> QED
    BY <1>0, <2>1, <2>2, TakenQuiet DEF Single, Processes
<1>3. ASSUME NEW x \in Request \cup {Cancel}, calls' = Append(calls, x), job' = job,
             x # Cancel => \A q \in Others : ~Alive(q)
      PROVE  Single' /\ Quiet'
  <2>1. ASSUME NEW i \in 1..Len(calls'), calls'[i] # Cancel
        PROVE  \A q \in Others : ~Alive(q)
    <3>1. \/ i \in 1..Len(calls) /\ calls[i] # Cancel
          \/ x # Cancel
      BY <1>0, <1>3, <2>1, QueueEnds
    <3> QED
      BY <1>0, <1>3, <3>1 DEF Quiet
  <2> QED
    BY <1>0, <1>3, <2>1 DEF Single, Quiet, Alive
<1>4. CASE UNCHANGED <<job, calls>>
  BY <1>0, <1>4 DEF Single, Quiet, Alive
<1>5. CASE Click
  BY <1>0, <1>3, <1>4, <1>5 DEF Click, store, Dates
<1>6. CASE Close
  BY <1>3, <1>4, <1>6 DEF Close, store
<1>7. CASE Emit \/ Read \/ (\E w \in Workers : Monitor(w)) \/ UNCHANGED vars
  BY <1>4, <1>7 DEF Emit, Read, Monitor, vars, store, dbus
<1> QED
  BY <1>1, <1>2, <1>5, <1>6, <1>7

LEMMA StoreDated ==
  ASSUME IInv, Dates, "concurrent" \notin faults, StoreStep,
         UNCHANGED <<faults, dbus, window>>,
         calls = <<>> \/ \A q \in Others : job'[q] = job[q]
  PROVE  Single' /\ Quiet'
<1>0. /\ Typed /\ calls \in Seq(Request \cup {Cancel}) /\ Single /\ Quiet /\ calls' = calls
  BY TypeTyped DEF IInv, Dates, dbus
<1>1. ASSUME \A q \in Processes : Alive(q)' => Alive(q)
      PROVE  Single' /\ Quiet'
  BY <1>0, <1>1 DEF Single, Quiet, Processes
<1>2. ASSUME NEW p \in Processes, Step(p)
      PROVE  Single' /\ Quiet'
  BY <1>0, <1>1, <1>2, StepOfLiving DEF Alone, Alive
<1>3. ASSUME NEW p \in Processes, Die(p)
      PROVE  Single' /\ Quiet'
  BY <1>0, <1>1, <1>3, EndEffect DEF Die, Raise, Codes, Over, Alone, Alive
<1>4. ASSUME NEW p \in Others, NEW op \in {"init", "upgrade", "replace"}, Begin(p, op)
      PROVE  Single' /\ Quiet'
  <2>1. Alone(p) /\ (\A q \in Processes : ~Alive(q)) /\ At(p, "idle") /\ p \in Processes
    BY <1>0, <1>4, BeginEffect DEF Ops, Free, Dates, Processes
  <2>2. Single'
    BY <2>1 DEF Alone, Alive, Single
  <2>3. CASE calls = <<>>
    BY <1>0, <2>2, <2>3, QueueEnds DEF Quiet
  <2>4. CASE \A q \in Others : job'[q] = job[q]
    BY <1>0, <2>2, <2>4 DEF Quiet, Alive
  <2> QED
    BY <2>2, <2>3, <2>4
<1>5. CASE Publish \/ Repackage \/ UseOverlay
  BY <1>1, <1>5 DEF Publish, Repackage, UseOverlay, Alive
<1> QED
  BY <1>2, <1>3, <1>4, <1>5 DEF StoreStep

LEMMA DatesKept ==
  ASSUME DInv, [Next]_vars
  PROVE  DInv'
<1>0. /\ Typed /\ calls \in Seq(Request \cup {Cancel}) /\ IInv /\ Dates /\ IInv'
      /\ \A q \in Processes : Legal(q) /\ Ordered(q)
  BY TypeTyped, Inductive DEF DInv, IInv
<1>1. \A q \in Processes : Ordered(q)'
  <2>1. ASSUME NEW p \in Processes, Step(p)
        PROVE  \A q \in Processes : Ordered(q)'
    BY <1>0, <2>1, StepOrdered, StepOfLiving DEF Alone, Ordered
  <2>2. Refreshed \/ Around => \A q \in Processes : Ordered(q)'
    BY <1>0 DEF Refreshed, Fresh, Around, Ordered
  <2> QED
    BY <1>0, <2>1, <2>2, NextEffect
<1>2. ASSUME "concurrent" \notin faults'
      PROVE  /\ Single' /\ Quiet'
             /\ \A x \in Parts : Fits(Load, x)'
             /\ \A q \in Processes : Careful(q)'
  <2>0. faults' = faults
    BY <1>0 DEF Next, HandleInit, HandleCancel, Emit, Click, Read, Close, Monitor, vars
  <2>1. /\ "concurrent" \notin faults /\ Single
        /\ \A x \in Parts : Fits(Load, x)
        /\ \A q \in Processes : Careful(q)
    BY <1>0, <1>2, <2>0 DEF Dates
  <2>2. Single' /\ Quiet'
    <3>1. CASE /\ StoreStep
               /\ "concurrent" \in faults \/ calls = <<>> \/ \A q \in Others : job'[q] = job[q]
               /\ UNCHANGED <<faults, dbus, window>>
      BY <1>0, <2>1, <3>1, StoreDated
    <3>2. CASE \/ HandleInit \/ HandleCancel \/ Emit \/ Click \/ Read \/ Close
               \/ (\E w \in Workers : Monitor(w)) \/ UNCHANGED vars
      BY <1>0, <2>1, <3>2, DbusDated
    <3> QED
      BY <3>1, <3>2 DEF Next
  <2>3. ASSUME NEW p \in Processes, Step(p)
        PROVE  (\A x \in Parts : Fits(Load, x)') /\ \A q \in Processes : Careful(q)'
    <3>1. Careful(p)' /\ \A x \in Parts : Fits(Load, x)'
      BY <1>0, <2>1, <2>3, StepDated
    <3>2. ASSUME NEW q \in Processes, q # p
          PROVE  Careful(q)'
      <4>1. ~Alive(q) /\ job'[q] = job[q] /\ job'[q].cfg = Defaults
        BY <1>0, <2>1, <2>3, <3>2, StepOfLiving DEF Single, Alone, Careful
      <4>2. \A x \in Parts : Fits(job[q].cfg, x)'
        BY <4>1, DefaultTypes DEF Fits
      <4>3. job'[q].pc \in {"idle", "done"}
        BY <4>1 DEF Alive
      <4> QED
        BY <4>1, <4>2, <4>3 DEF Careful
    <3> QED
      BY <3>1, <3>2
  <2>4. ASSUME UNCHANGED <<conf, disk>>, \A q \in Processes : job'[q] = job[q] \/ Fresh(q)
        PROVE  (\A x \in Parts : Fits(Load, x)') /\ \A q \in Processes : Careful(q)'
    <3>1. \A x \in Parts : Fits(Load, x)'
      BY <1>0, <2>1, <2>4, SameLoad
    <3>2. ASSUME NEW q \in Processes, Fresh(q)
          PROVE  Careful(q)'
      <4>1. \A x \in Parts : Fits(job[q].cfg, x)'
        BY <3>2, DefaultTypes DEF Fresh, Fits
      <4> QED
        BY <3>2, <4>1 DEF Careful, Fresh
    <3>3. ASSUME NEW q \in Processes, job'[q] = job[q]
          PROVE  Careful(q)'
      <4>0. PICK cfg \in Config : cfg = job[q].cfg
        BY <1>0 DEF Typed, Job
      <4>1. \A x \in Parts : Fits(cfg, x)' /\ (Behind(cfg, x) => Behind(cfg, x)')
        BY <1>0, <2>1, <2>4, <4>0, SameFits, SameLoad DEF Careful
      <4>2. \A x \in Parts : Fits(job[q].cfg, x)' /\ (Behind(cfg, x)' => Behind(job[q].cfg, x)')
        BY <3>3, <4>0, <4>1 DEF Fits, Behind
      <4> QED
        BY <2>1, <2>4, <3>3, <4>0, <4>1, <4>2 DEF Careful, Alive, Channel
    <3> QED
      BY <2>4, <3>1, <3>2, <3>3
  <2>5. ASSUME Refreshed \/ Around
        PROVE  (\A x \in Parts : Fits(Load, x)') /\ \A q \in Processes : Careful(q)'
    BY <2>4, <2>5 DEF Refreshed, Around
  <2> QED
    BY <1>0, <2>2, <2>3, <2>5, NextEffect
<1> QED
  BY <1>0, <1>1, <1>2 DEF DInv, Dates

LEMMA DatesAtFirst == Init => DInv
<1> SUFFICES ASSUME Init PROVE DInv
  OBVIOUS
<1>1. IInv
  BY FirstState
<1>2. /\ \A q \in Processes : job[q] = NoJob
      /\ conf = Missing /\ calls = <<>>
  BY DEF Init, StoreInit
<1>3. Load = Defaults
  BY <1>2 DEF Load
<1>4. \A q \in Processes : ~Alive(q) /\ Ordered(q) /\ Careful(q)
  BY <1>2, DefaultTypes, DefaultsFit DEF Alive, Ordered, Careful
<1>5. Single /\ Quiet
  BY <1>2, <1>4 DEF Single, Quiet
<1> QED
  BY <1>1, <1>3, <1>4, <1>5, DefaultsFit DEF DInv, Dates

\* The date that waydroid.cfg has for an image is never newer than the image on
\* disk and never another channel's, wherever processes were killed, as long as
\* no two of them run at once.
THEOREM DatesSafety == Spec => []DateNotNewer
<1>1. DInv /\ [Next]_vars => DInv'
  BY DatesKept
<1>2. DInv => DateNotNewer
  BY DEF DInv, Dates, DateNotNewer, Fits
<1> QED
  BY DatesAtFirst, <1>1, <1>2, PTL DEF Spec

-----------------------------------------------------------------------------
(* FinishedIsComplete: what a process that obtains images has made sure of,  *)
(* when no two of them run at once.                                          *)

\* What is dated is there.
There(cfg) == \A x \in Parts : cfg.date[x] > 0 => Had(x)

\* The image of x is the one that cfg says, all of it.
Sound(cfg, x) == /\ disk[x].state = "whole" /\ disk[x].channel = cfg.ota[x]
                 /\ disk[x].build = cfg.date[x]

\* An image is of a build that its channel has published.
Bounded == \A x \in Parts :
             disk[x].channel \in Channels => disk[x].build <= published[disk[x].channel]

Own(q) == job[q].cfg.path = "own"

\* What is behind a process that obtains images is sound.
Passed(q) ==
  /\ (To(q) \in {"list", "download", "validate", "extract"} /\ job[q].part = "vendor")
       => Sound(job[q].cfg, "system")
  /\ To(q) \in {"overlay", "prepare"} /\ Own(q) => \A x \in Parts : Sound(job[q].cfg, x)
  /\ To(q) = "prepare" /\ Own(q) => job[q].pc = "prepare" /\ overlay # "stale"

\* waydroid.cfg is what the process has loaded or saved.
InStep(q) ==
  /\ job[q].pc \in {"migrate", "get", "list", "download", "validate", "extract", "overlay",
                    "prepare"}  => conf = job[q].cfg
  /\ job[q].op = "init" => /\ job[q].pc = "stop" => conf = job[q].cfg
                           /\ To(q) \notin {"setup", "channels"} /\ Own(q)
                                => job[q].cfg.ota = job[q].want

Complete(q) ==
  /\ There(job[q].cfg)
  /\ To(q) \in {"download", "validate", "extract"} => job[q].pick <= published[Channel(q)]
  /\ Alive(q) => IF job[q].op = "replace"
                 THEN To(q) \in {"take", "offered", "extract", "overlay"}
                 ELSE To(q) \notin {"take", "offered"} /\ InStep(q) /\ Passed(q)

Completes == "concurrent" \notin faults =>
               There(Load) /\ Bounded /\ \A q \in Processes : Complete(q)

FInv == DInv /\ Completes

LEMMA DefaultsThere == There(Defaults)
BY DefaultTypes DEF There

\* A process that is not under way, or has just begun.
LEMMA FreshComplete ==
  ASSUME NEW q \in Processes, Fresh(q)
  PROVE  Complete(q)'
<1>1. There(job[q].cfg)'
  BY DefaultTypes DEF Fresh, There
<1> QED
  BY <1>1 DEF Fresh, Complete, To, Alive, InStep, Passed

\* A part that get passes over is sound.
LEMMA UpToDate ==
  ASSUME Typed, NEW p \in Processes, Channel(p) \in Channels, Newer(p) = {}, Bounded,
         Fits(job[p].cfg, job[p].part), There(job[p].cfg)
  PROVE  Sound(job[p].cfg, job[p].part)
<1>0. PICK x \in Parts, cfg \in Config : x = job[p].part /\ cfg = job[p].cfg
  BY DEF Typed, Job
<1> DEFINE new == published[cfg.ota[x]]
           date == cfg.date[x]
           build == disk[x].build
<1>1. new \in 1..MaxBuild /\ date \in 0..MaxBuild /\ build \in 0..MaxBuild /\ MaxBuild \in Nat
  BY <1>0, BuildAssumption DEF Typed, Config, Channel, Image
<1>2. {b \in 1..new : b > date} = {}
  BY <1>0 DEF Newer, Channel
<1>3. disk[x].channel = cfg.ota[x] /\ build >= date /\ (disk[x].state = "torn" => build > date)
      /\ disk[x].state # "none" /\ date > 0
  <2>1. date > 0
    BY <1>0, <1>1, NewerBuilds
  <2> QED
    BY <1>0, <2>1 DEF Fits, There, Had
<1>4. build <= new
  BY <1>0, <1>3 DEF Bounded, Channel
<1>5. disk[x].state \in {"none", "torn", "whole"}
  BY DEF Typed, Image
<1> HIDE DEF new, date, build
<1>6. new <= date
  BY <1>1, <1>2
<1>7. build = date /\ disk[x].state = "whole"
  BY <1>1, <1>3, <1>4, <1>5, <1>6
<1> QED
  BY <1>0, <1>3, <1>7 DEF Sound, build, date

\* The steps that leave the images alone.
LEMMA StillBounded ==
  ASSUME UNCHANGED <<disk, published>>
  PROVE  /\ Bounded => Bounded'
         /\ \A cfg \in Config : There(cfg) => There(cfg)'
         /\ \A cfg \in Config : \A x \in Parts : Sound(cfg, x) => Sound(cfg, x)'
BY DEF Bounded, There, Had, Sound
\* The step tears an image, of a build that is published.
LEMMA TornComplete ==
  ASSUME Typed, NEW p \in Processes, Torn(p), Channel(p) \in Channels, published' = published,
         There(Load), Bounded, There(job[p].cfg), job'[p].pick <= published[Channel(p)],
         Alone(p)
  PROVE  /\ There(Load)' /\ Bounded'
         /\ \A cfg \in Config : There(cfg) => There(cfg)'
         /\ \A cfg \in Config, x \in Parts \ {job[p].part} : Sound(cfg, x) => Sound(cfg, x)'
<1>0. PICK y \in Parts, b \in 0..MaxBuild, c \in Channels :
        y = job[p].part /\ b = job'[p].pick /\ c = Channel(p)
  BY DEF Typed, Job, Alone
<1>1. /\ disk'[y].channel = c /\ disk'[y].build = b /\ disk'[y].state = "torn"
      /\ \A x \in Parts \ {y} : disk'[x] = disk[x]
      /\ conf' = conf
  BY <1>0 DEF Torn, Typed
<1>2. \A cfg \in Config : There(cfg) => There(cfg)'
  BY <1>1 DEF There, Had
<1>3. Load \in Config /\ Load' = Load
  BY <1>1, LoadType DEF Load
<1>4. There(Load)'
  BY <1>2, <1>3 DEF There
<1>5. Bounded'
  BY <1>0, <1>1 DEF Bounded
<1>6. \A cfg \in Config, x \in Parts \ {y} : Sound(cfg, x) => Sound(cfg, x)'
  BY <1>1 DEF Sound
<1> QED
  BY <1>0, <1>2, <1>4, <1>5, <1>6

\* The image that is extracted is the one that is dated.
LEMMA WholeComplete ==
  ASSUME Typed, NEW p \in Processes, Extract(p), published' = published,
         Careful(p), There(Load), Bounded, Complete(p)
  PROVE  Complete(p)' /\ There(Load)' /\ Bounded'
<1>0. PICK y \in Parts, cfg \in Config, b \in 0..MaxBuild :
        y = job[p].part /\ cfg = job[p].cfg /\ b = job[p].pick
  BY DEF Typed, Job
<1>1. /\ At(p, "extract") /\ conf' = conf
      /\ disk' = [disk EXCEPT ![y].state = "whole"]
  BY <1>0, ExtractEffect
<1>2. /\ disk'[y].channel = disk[y].channel /\ disk'[y].build = disk[y].build
      /\ disk'[y].state = "whole"
      /\ \A x \in Parts \ {y} : disk'[x] = disk[x]
  BY <1>1 DEF Typed, Image
<1>3. disk[y].channel = cfg.ota[y] /\ disk[y].build = b
  BY <1>0, <1>1 DEF Careful, At, Channel
<1>4. PICK dated \in Config : dated = Dated(p)
  BY ExtractEffect
<1>5. /\ dated.ota = cfg.ota /\ dated.date[y] = b /\ dated.path = cfg.path
      /\ \A x \in Parts \ {y} : dated.date[x] = cfg.date[x]
  BY <1>0, <1>4 DEF Dated, Config
<1>6. There(Load)' /\ Bounded'
  <2>1. Load \in Config /\ Load' = Load
    BY <1>1, LoadType DEF Load
  <2> QED
    BY <1>2, <2>1 DEF There, Had, Bounded
<1>7. There(dated)'
  BY <1>0, <1>2, <1>5 DEF There, Had, Complete
<1>8. Sound(dated, y)' /\ \A x \in Parts \ {y} : Sound(cfg, x) => Sound(dated, x)'
  BY <1>2, <1>3, <1>5 DEF Sound
<1>9. \/ /\ job[p].op = "replace" /\ y = "system"
         /\ Parted(p, "offered", dated, "vendor")
      \/ y = "vendor" /\ Saves(p, dated, "overlay")
      \/ /\ job[p].op # "replace" /\ y = "system"
         /\ Became(p, "truncate", dated, "vendor", job[p].pick, "list")
  BY <1>0, <1>4, ExtractEffect
<1>10. job'[p].cfg = dated /\ job'[p].op = job[p].op /\ job'[p].want = job[p].want
       /\ (There(job[p].cfg)' <=> There(dated)')
  BY <1>9 DEF Parted, Saves, Became, There
<1>11. job[p].op # "replace" => InStep(p) /\ Passed(p)
  BY <1>1 DEF Complete, At, Alive
<1>12. job[p].op # "replace" => InStep(p)'
  BY <1>0, <1>1, <1>5, <1>9, <1>10, <1>11 DEF InStep, To, Own, At, Saves, Became
<1>13. job[p].op # "replace" => Passed(p)'
  <2>1. y = "vendor" /\ job[p].op # "replace" => Sound(cfg, "system")
    BY <1>0, <1>1, <1>11 DEF Passed, To, At
  <2>2. CASE y = "vendor" /\ job[p].op # "replace"
    <3>1. \A x \in Parts : Sound(dated, x)'
      BY <1>8, <2>1, <2>2 DEF Parts
    <3> QED
      BY <1>9, <1>10, <2>2, <3>1 DEF Passed, To, Saves, Became, Sound
  <2>3. CASE y = "system" /\ job[p].op # "replace"
    <3>1. Sound(dated, "system")'
      BY <1>8, <2>3
    <3> QED
      BY <1>9, <1>10, <2>3, <3>1 DEF Passed, To, Became, Sound
  <2> QED
    BY <2>2, <2>3 DEF Parts
<1> QED
  BY <1>6, <1>7, <1>9, <1>10, <1>12, <1>13 DEF Complete, To, Saves, Parted, Became, Alive

LEMMA StepComplete ==
  ASSUME Typed, NEW p \in Processes, Step(p), published' = published,
         Legal(p), Ordered(p), Careful(p), There(Load), Bounded, Complete(p)
  PROVE  Complete(p)' /\ There(Load)' /\ Bounded'
<1>0. /\ job[p] \in Job /\ job[p].cfg \in Config /\ job[p].part \in Parts /\ job[p].op \in Ops
      /\ Alone(p) /\ Alive(p) /\ Load \in Config /\ There(job[p].cfg)
      /\ (job[p].op = "replace" => To(p) \in {"take", "offered", "extract", "overlay"})
      /\ (job[p].op # "replace" => To(p) \notin {"take", "offered"} /\ InStep(p) /\ Passed(p))
  BY StepOfLiving, LoadType DEF Typed, Job, Ops, Complete
<1>1. Over(p) => Complete(p)'
  BY FreshComplete DEF Over, Fresh
<1>2. ASSUME UNCHANGED <<conf, disk>>
      PROVE  /\ There(Load)' /\ Bounded'
             /\ \A cfg \in Config : There(cfg) => There(cfg)'
             /\ \A cfg \in Config : \A x \in Parts : Sound(cfg, x) => Sound(cfg, x)'
  BY <1>0, <1>2, StillBounded DEF Load, There, Had
<1>3. ASSUME NEW cfg \in Config, job'[p].cfg = cfg, There(cfg)'
      PROVE  There(job[p].cfg)'
  BY <1>3 DEF There
<1>4. CASE SetupLoad(p) \/ SetupPreinstalled(p) \/ SetupChannels(p)
  <2>1. Still /\ (At(p, "setup") \/ At(p, "channels"))
    BY <1>4, SetupEffect
  <2>2. job[p].op # "replace"
    BY <1>0, <2>1 DEF At, To
  <2>3. CASE Loads(p, "channels")
    BY <1>0, <1>2, <1>3, <2>1, <2>2, <2>3 DEF Still, Loads, Became, Complete, InStep, Passed, To
  <2>4. CASE Saves(p, Unwanted, "stop") /\ Unwanted \in Config
    <3>1. There(Unwanted) /\ Unwanted.path # "own"
      BY DEF There, Unwanted
    <3> QED
      BY <1>0, <1>2, <1>3, <2>1, <2>2, <2>4, <3>1
         DEF Still, Saves, Became, Complete, InStep, Passed, To, Own
  <2>5. CASE Saves(p, Wanted(p), "stop") /\ Wanted(p) \in Config
    <3>1. There(Wanted(p)) /\ Wanted(p).ota = job[p].want
      BY <1>0 DEF There, Wanted, KeptDates
    <3> QED
      BY <1>0, <1>2, <1>3, <2>1, <2>2, <2>5, <3>1
         DEF Still, Saves, Became, Complete, InStep, Passed, To, Own
  <2> QED
    BY <1>1, <1>2, <1>4, <2>1, <2>3, <2>4, <2>5, SetupEffect DEF Still
<1>5. CASE Truncate(p) \/ Write(p)
  <2>0. PICK cfg \in Config : cfg = job[p].cfg
    BY <1>0
  <2>1. disk' = disk /\ job'[p].cfg = cfg
    BY <1>5, <2>0, SavingEffect DEF Goes, Became
  <2>2. /\ Bounded' /\ There(cfg)' /\ There(Defaults)' /\ There(job[p].cfg)'
        /\ \A x \in Parts : Sound(job[p].cfg, x) => Sound(job[p].cfg, x)'
    BY <1>0, <1>3, <2>0, <2>1, StillBounded, DefaultsThere, DefaultTypes DEF Sound
  <2>3. CASE At(p, "truncate") /\ conf' = Blank /\ Goes(p, "write")
    <3>1. Load' = Defaults
      BY <2>3 DEF Load
    <3>2. There(Load)'
      BY <2>2, <3>1 DEF There
    <3> QED
      BY <1>0, <2>0, <2>1, <2>2, <2>3, <3>2
         DEF Goes, Became, Complete, InStep, Passed, To, At, Own, Channel, Alive, Parts
  <2>4. CASE At(p, "write") /\ conf' = cfg /\ Goes(p, job[p].after)
    <3>1. Load' = cfg
      BY <2>4, FileAssumption DEF Load
    <3>2. There(Load)'
      BY <2>2, <3>1 DEF There
    <3>3. job[p].after \in {"stop", "get", "prepare", "list", "overlay"}
      BY <2>4 DEF Ordered, At
    <3>4. job'[p].pc = job[p].after /\ To(p) = job[p].after /\ To(p)' = To(p)
      BY <2>4, <3>3 DEF Goes, Became, To, At
    <3>5. /\ job'[p].part = job[p].part /\ job'[p].op = job[p].op /\ job'[p].want = job[p].want
          /\ job'[p].cfg = job[p].cfg /\ conf' = job'[p].cfg
      BY <2>0, <2>4 DEF Goes, Became
    <3>6. job[p].op # "replace" => InStep(p)' /\ Passed(p)'
      <4>1. job[p].op # "replace" => InStep(p)'
        BY <1>0, <3>3, <3>4, <3>5 DEF InStep, Own
      <4>2. job[p].op # "replace" => Passed(p)'
        BY <1>0, <2>2, <2>4, <3>4, <3>5 DEF Passed, Own, At, Parts
      <4> QED
        BY <4>1, <4>2
    <3> QED
      BY <1>0, <2>2, <3>2, <3>3, <3>4, <3>5, <3>6 DEF Complete
  <2> QED
    BY <1>5, <2>0, <2>3, <2>4, SavingEffect
<1>6. CASE StopContainer(p)
  <2>1. Still /\ At(p, "stop") /\ job[p].op # "replace"
    BY <1>0, <1>6, StopEffect DEF At, To
  <2>2. CASE job[p].op = "upgrade" /\ conf = Load /\ Loads(p, "migrate")
    BY <1>0, <1>2, <1>3, <2>1, <2>2
       DEF Still, Loads, Became, Complete, InStep, Passed, To, Own
  <2>3. CASE job[p].op = "init" /\ Own(p) /\ Goes(p, "get")
    BY <1>0, <1>2, <1>3, <2>1, <2>3
       DEF Still, Goes, Became, Complete, InStep, Passed, To, Own, At
  <2>4. CASE job[p].op = "init" /\ ~Own(p) /\ Goes(p, "overlay")
    BY <1>0, <1>2, <1>3, <2>1, <2>4
       DEF Still, Goes, Became, Complete, InStep, Passed, To, Own, At
  <2> QED
    BY <1>1, <1>2, <1>6, <2>1, <2>2, <2>3, <2>4, StopEffect DEF Still, Own
<1>7. CASE Migrate(p)
  <2>1. Still /\ At(p, "migrate") /\ job[p].op # "replace" /\ conf = job[p].cfg
    BY <1>0, <1>7, MigrateEffect DEF At, To, InStep
  <2>2. Load = job[p].cfg
    BY <1>0, <2>1, FileAssumption DEF Load
  <2>3. PICK next \in {"get", "prepare"} : /\ next = "prepare" => ~Own(p)
                                           /\ Goes(p, next) \/ Saves(p, job[p].cfg, next)
    BY <1>7, <2>2, MigrateEffect DEF Own, Saves
  <2>4. job'[p].cfg = job[p].cfg /\ job'[p].op = job[p].op /\ job'[p].want = job[p].want
        /\ To(p)' = next /\ job'[p].pc \in {next, "truncate"}
    BY <2>3 DEF Goes, Saves, Became, To
  <2>5. There(job[p].cfg)'
    BY <1>0, <1>2, <1>3, <2>1, <2>4 DEF Still
  <2>6. InStep(p)' /\ Passed(p)'
    BY <1>0, <2>1, <2>3, <2>4 DEF InStep, Passed, Own, At, To, Still
  <2> QED
    BY <1>2, <2>1, <2>4, <2>5, <2>6 DEF Complete, Still
<1>8. CASE GetLoad(p) \/ Take(p)
  <2>1. Still
    BY <1>8, FirstEffect
  <2>2. CASE At(p, "get") /\ Became(p, "list", Load, "system", job[p].pick, job[p].after)
    <3>1. job[p].op # "replace" /\ Load = job[p].cfg /\ conf = Load
      BY <1>0, <2>2, FileAssumption DEF At, To, InStep, Load
    <3> QED
      BY <1>0, <1>2, <1>3, <2>1, <2>2, <3>1
         DEF Still, Became, Complete, InStep, Passed, To, Own, At
  <2>3. CASE At(p, "take") /\ Became(p, "offered", Load, "system", job[p].pick, job[p].after)
    <3>1. job[p].op = "replace"
      BY <1>0, <2>3 DEF At, To
    <3> QED
      BY <1>0, <1>2, <1>3, <2>1, <2>3, <3>1 DEF Still, Became, Complete, To
  <2> QED
    BY <1>8, <2>2, <2>3, FirstEffect
<1>9. CASE List(p)
  <2>1. Still /\ At(p, "list") /\ job[p].op # "replace"
    BY <1>0, <1>9, ListEffect DEF At, To
  <2>2. PICK y \in Parts, cfg \in Config : y = job[p].part /\ cfg = job[p].cfg
    BY <1>0
  <2>3. There(cfg)' /\ \A x \in Parts : Sound(cfg, x) => Sound(cfg, x)'
    BY <1>0, <1>2, <2>1, <2>2 DEF Still
  <2>4. Newer(p) = {} /\ Channel(p) \in Channels => Sound(cfg, y)'
    BY <1>0, <2>2, <2>3, UpToDate DEF Careful
  <2>5. InStep(p) /\ Passed(p) /\ (y = "vendor" => Sound(cfg, "system")')
    BY <1>0, <2>1, <2>2, <2>3 DEF Passed, To, At, Parts
  <2>6. ASSUME job'[p].cfg = cfg, job'[p].op = job[p].op, job'[p].want = job[p].want,
               job'[p].pc \in {"list", "download", "overlay"}
        PROVE  InStep(p)' /\ There(job[p].cfg)'
    BY <1>3, <2>1, <2>2, <2>3, <2>5, <2>6 DEF InStep, To, At, Own, Still
  <2>7. CASE Newer(p) = {} /\ Channel(p) \in Channels /\ y = "system" /\ Parted(p, "list", cfg, "vendor")
    <3>1. Passed(p)'
      BY <2>4, <2>7 DEF Passed, Parted, Became, To, Sound
    <3> QED
      BY <1>2, <2>1, <2>6, <2>7, <3>1 DEF Parted, Became, Complete, To, Still
  <2>8. CASE Newer(p) = {} /\ Channel(p) \in Channels /\ y = "vendor" /\ Goes(p, "overlay")
    <3>1. \A x \in Parts : Sound(cfg, x)'
      BY <2>4, <2>5, <2>8 DEF Parts
    <3>2. Passed(p)'
      BY <2>2, <2>8, <3>1 DEF Passed, Goes, Became, To, Sound
    <3> QED
      BY <1>2, <2>1, <2>2, <2>6, <2>8, <3>2 DEF Goes, Became, Complete, To, Still
  <2>9. ASSUME NEW b \in Newer(p), Channel(p) \in Channels, Became(p, "download", cfg, y, b, job[p].after)
        PROVE  Complete(p)'
    <3>1. b <= published[Channel(p)]
      BY <2>9 DEF Newer, Typed
    <3>2. Channel(p)' = Channel(p)
      BY <2>2, <2>9 DEF Channel, Became
    <3>3. Passed(p)'
      BY <2>5, <2>9 DEF Passed, Became, To, Sound
    <3> QED
      BY <2>1, <2>6, <2>9, <3>1, <3>2, <3>3 DEF Became, Complete, To
  <2> QED
    BY <1>1, <1>2, <1>9, <2>1, <2>2, <2>7, <2>8, <2>9, ListEffect DEF Still
<1>10. CASE Download(p)
  <2>1. Still /\ At(p, "download") /\ job[p].op # "replace"
    BY <1>0, <1>10, DownloadEffect DEF At, To
  <2>2. PICK cfg \in Config : cfg = job[p].cfg
    BY <1>0
  <2>3. There(cfg)' /\ \A x \in Parts : Sound(cfg, x) => Sound(cfg, x)'
    BY <1>0, <1>2, <2>1, <2>2 DEF Still
  <2>4. CASE Goes(p, "validate")
    <3>1. InStep(p)' /\ There(job[p].cfg)'
      BY <1>0, <1>3, <2>1, <2>2, <2>3, <2>4 DEF InStep, Goes, Became, To, At, Own, Still
    <3>2. Passed(p)'
      BY <1>0, <2>1, <2>2, <2>3, <2>4 DEF Passed, Goes, Became, To, At, Sound, Parts
    <3>3. job'[p].pick <= published[Channel(p)] /\ Channel(p)' = Channel(p)
      BY <2>1, <2>4 DEF Complete, Goes, Became, To, At, Channel
    <3> QED
      BY <1>2, <2>1, <2>4, <3>1, <3>2, <3>3 DEF Goes, Became, Complete, To, Still
  <2> QED
    BY <1>1, <1>2, <1>10, <2>1, <2>4, DownloadEffect DEF Still
<1>11. CASE Validate(p)
  <2>1. At(p, "validate") /\ job[p].op # "replace"
    BY <1>0, <1>11, ValidateEffect DEF At, To
  <2>2. CASE Goes(p, "extract") /\ Torn(p)
    <3>0. PICK y \in Parts, cfg \in Config : y = job[p].part /\ cfg = job[p].cfg
      BY <1>0
    <3>1. /\ Channel(p) \in Channels /\ job'[p].pick <= published[Channel(p)]
          /\ Channel(p)' = Channel(p)
      BY <2>1, <2>2 DEF Legal, Complete, Goes, Became, To, At, Channel
    <3>2. /\ There(Load)' /\ Bounded' /\ There(cfg)'
          /\ \A x \in Parts \ {y} : Sound(cfg, x) => Sound(cfg, x)'
      BY <1>0, <2>2, <3>0, <3>1, TornComplete
    <3>3. InStep(p)' /\ There(job[p].cfg)'
      BY <1>0, <1>3, <2>1, <2>2, <3>0, <3>2 DEF InStep, Goes, Became, To, At, Own, Torn
    <3>4. y = "vendor" => Sound(cfg, "system")'
      BY <1>0, <2>1, <3>0, <3>2 DEF Passed, To, At, Parts
    <3>5. Passed(p)'
      BY <2>2, <3>0, <3>4 DEF Passed, Goes, Became, To, Sound
    <3> QED
      BY <2>1, <2>2, <3>1, <3>2, <3>3, <3>5 DEF Goes, Became, Complete, To
  <2> QED
    BY <1>1, <1>2, <1>11, <2>2, ValidateEffect DEF Still
<1>12. CASE Offered(p)
  <2>1. At(p, "offered") /\ job[p].op = "replace"
    BY <1>0, <1>12, OfferedEffect DEF At, To
  <2>2. CASE Still /\ (Parted(p, "offered", job[p].cfg, "vendor") \/ Saves(p, job[p].cfg, "overlay"))
    <3>1. There(job[p].cfg)'
      BY <1>0, <1>2, <1>3, <2>2 DEF Still, Parted, Saves, Became
    <3> QED
      BY <1>2, <2>1, <2>2, <3>1 DEF Still, Parted, Saves, Became, Complete, To
  <2>3. ASSUME Channel(p) \in Channels, Torn(p), NEW b \in Newer(p),
               Became(p, "extract", job[p].cfg, job[p].part, b, job[p].after)
        PROVE  Complete(p)' /\ There(Load)' /\ Bounded'
    <3>1. /\ job'[p].pick <= published[Channel(p)] /\ Channel(p)' = Channel(p)
      BY <2>3 DEF Newer, Typed, Channel, Became
    <3>2. There(Load)' /\ Bounded' /\ There(job[p].cfg)'
      BY <1>0, <1>3, <2>3, <3>1, TornComplete DEF Became
    <3> QED
      BY <2>1, <2>3, <3>1, <3>2 DEF Became, Complete, To
  <2> QED
    BY <1>12, <2>2, <2>3, OfferedEffect
<1>13. CASE Extract(p)
  BY <1>13, WholeComplete
<1>14. CASE RemoveOverlay(p) \/ Prepare(p)
  <2>1. UNCHANGED <<conf, disk>>
    BY <1>14, EndingEffect
  <2>2. CASE At(p, "overlay") /\ Goes(p, "prepare") /\ overlay' = "none" /\ job[p].op # "replace"
    <3>0. PICK cfg \in Config : cfg = job[p].cfg
      BY <1>0
    <3>1. There(cfg)' /\ \A x \in Parts : Sound(cfg, x) => Sound(cfg, x)'
      BY <1>0, <1>2, <2>1, <3>0
    <3>2. InStep(p)' /\ There(job[p].cfg)'
      BY <1>0, <1>3, <2>1, <2>2, <3>0, <3>1 DEF InStep, Goes, Became, To, At, Own
    <3>3. cfg.path = "own" => \A x \in Parts : Sound(cfg, x)'
      BY <1>0, <2>2, <3>0, <3>1 DEF Passed, To, At, Own
    <3>4. Passed(p)'
      BY <2>2, <3>0, <3>3 DEF Passed, Goes, Became, To, Own, Sound
    <3> QED
      BY <1>2, <2>1, <2>2, <3>2, <3>4 DEF Goes, Became, Complete, To
  <2> QED
    BY <1>1, <1>2, <1>14, <2>1, <2>2, EndingEffect
<1> QED
  BY <1>4, <1>5, <1>6, <1>7, <1>8, <1>9, <1>10, <1>11, <1>12, <1>13, <1>14 DEF Step

\* What a process knows stays true while another is not under way, or something
\* happens around it.
LEMMA OtherComplete ==
  ASSUME Typed, NEW p \in Processes, Complete(p), job'[p] = job[p], UNCHANGED <<conf, disk>>,
         published' \in [Channels -> 1..MaxBuild], Legal(p),
         \A c \in Channels : published[c] <= published'[c],
         overlay' = overlay \/ overlay' = "used"
  PROVE  Complete(p)'
<1>0. /\ job[p].pick \in Nat /\ MaxBuild \in Nat
      /\ \A c \in Channels : published[c] \in Nat /\ published'[c] \in Nat
  BY BuildAssumption DEF Typed, Job
<1>1. To(p) \in {"download", "validate", "extract"} => job[p].pick <= published'[Channel(p)]
  BY <1>0 DEF Complete, Legal
<1>2. InStep(p) => InStep(p)'
  BY DEF InStep, To, Own
<1>3. Passed(p) => Passed(p)'
  BY DEF Passed, To, Own, Sound
<1>4. There(job[p].cfg)'
  BY DEF Complete, There, Had
<1> QED
  BY <1>1, <1>2, <1>3, <1>4 DEF Complete, To, Alive, Channel

LEMMA CompletesKept ==
  ASSUME FInv, [Next]_vars
  PROVE  FInv'
<1>0. /\ Typed /\ calls \in Seq(Request \cup {Cancel}) /\ DInv /\ DInv' /\ Dates
      /\ \A q \in Processes : Legal(q) /\ Ordered(q)
  BY TypeTyped, DatesKept DEF FInv, DInv, IInv
<1>1. ASSUME "concurrent" \notin faults'
      PROVE  There(Load)' /\ Bounded' /\ \A q \in Processes : Complete(q)'
  <2>0. faults' = faults
    BY <1>0 DEF Next, HandleInit, HandleCancel, Emit, Click, Read, Close, Monitor, vars
  <2>1. /\ There(Load) /\ Bounded /\ Single
        /\ \A q \in Processes : Complete(q) /\ Careful(q)
    BY <1>0, <1>1, <2>0 DEF FInv, Completes, Dates
  <2>2. ASSUME NEW p \in Processes, Step(p), UNCHANGED published
        PROVE  There(Load)' /\ Bounded' /\ \A q \in Processes : Complete(q)'
    <3>1. Complete(p)' /\ There(Load)' /\ Bounded'
      BY <1>0, <2>1, <2>2, StepComplete
    <3>2. ASSUME NEW q \in Processes, q # p
          PROVE  Complete(q)'
      <4>1. ~Alive(q) /\ job'[q] = job[q] /\ job'[q].cfg = Defaults
        BY <1>0, <2>1, <2>2, <3>2, StepOfLiving DEF Single, Alone, Careful
      <4>2. There(job[q].cfg)'
        BY <4>1, DefaultTypes DEF There
      <4> QED
        BY <4>1, <4>2 DEF Complete, Alive, To
    <3> QED
      BY <3>1, <3>2
  <2>3. ASSUME UNCHANGED <<conf, disk>>, published' \in [Channels -> 1..MaxBuild],
               \A c \in Channels : published[c] <= published'[c],
               overlay' = overlay \/ overlay' = "used",
               \A q \in Processes : job'[q] = job[q] \/ Fresh(q)
        PROVE  There(Load)' /\ Bounded' /\ \A q \in Processes : Complete(q)'
    <3>1. There(Load)'
      BY <2>1, <2>3 DEF There, Had, Load
    <3>2. ASSUME NEW x \in Parts, disk[x].channel \in Channels
          PROVE  disk[x].build <= published'[disk[x].channel]
      <4> DEFINE old == published[disk[x].channel]
                 new == published'[disk[x].channel]
      <4>1. old \in Nat /\ new \in Nat /\ disk[x].build \in Nat
        BY <1>0, <2>3, <3>2, BuildAssumption DEF Typed, Image
      <4>2. disk[x].build <= old /\ old <= new
        BY <2>1, <2>3, <3>2 DEF Bounded
      <4> HIDE DEF old, new
      <4>3. disk[x].build <= new
        BY <4>1, <4>2
      <4> QED
        BY <4>3 DEF new
    <3>3. Bounded'
      BY <2>3, <3>2 DEF Bounded
    <3> QED
      BY <1>0, <2>1, <2>3, <3>1, <3>3, FreshComplete, OtherComplete
  <2>4. CASE Refreshed
    <3>1. \A c \in Channels : published[c] <= published'[c]
      BY <1>0, <2>4, BuildAssumption DEF Refreshed, Typed
    <3> QED
      BY <1>0, <2>3, <2>4, <3>1 DEF Refreshed, Typed
  <2>5. CASE Around
    BY <2>3, <2>5 DEF Around
  <2> QED
    BY <1>0, <2>2, <2>4, <2>5, NextEffect
<1> QED
  BY <1>0, <1>1 DEF FInv, Completes

LEMMA CompletesAtFirst == Init => FInv
<1> SUFFICES ASSUME Init PROVE FInv
  OBVIOUS
<1>1. /\ \A q \in Processes : job[q] = NoJob
      /\ conf = Missing /\ \A x \in Parts : disk[x].channel = Unset
  BY DEF Init, StoreInit
<1>2. There(Load)
  BY <1>1, DefaultsThere DEF Load
<1>3. Bounded
  BY <1>1, StoreAssumption DEF Bounded
<1>4. \A q \in Processes : Complete(q)
  BY <1>1, DefaultTypes, DefaultsThere DEF Complete, To, Alive
<1> QED
  BY DatesAtFirst, <1>2, <1>3, <1>4 DEF FInv, Completes

\* Only one step follows the last preparations.
LEMMA LastStep ==
  ASSUME NEW p \in Processes, At(p, "prepare"), Step(p)
  PROVE  Prepare(p)
BY DEF Step, At, SetupLoad, SetupPreinstalled, SetupChannels, Truncate, Write, StopContainer,
       Migrate, GetLoad, List, Download, Validate, Extract, RemoveOverlay, Take, Offered

\* A process that says that it has obtained its images leaves both of them whole,
\* of the configured channel and the dated build, and no overlay of older ones,
\* wherever processes before it were killed and whatever they left behind, for
\* any channels and builds.
THEOREM FinishedSafety == Spec => FinishedIsComplete
<1> DEFINE Finishing ==
             \A p \in Processes :
               (Alive(p) /\ At(p, "prepare") /\ job'[p].code = 0 /\ "concurrent" \notin faults
                  /\ Load.path = "own")
                 => /\ \A x \in Parts : /\ disk'[x].state = "whole"
                                        /\ disk'[x].channel = conf'.ota[x]
                                        /\ disk'[x].build = conf'.date[x]
                                        /\ job[p].op = "init" => conf'.ota[x] = job[p].want[x]
                    /\ overlay' # "stale"
<1>1. FInv /\ [Next]_vars => [Finishing]_store
  <2> SUFFICES ASSUME FInv, [Next]_vars, NEW p \in Processes,
                      Alive(p), At(p, "prepare"), "concurrent" \notin faults, Load.path = "own"
               PROVE  /\ \A x \in Parts : /\ disk'[x].state = "whole"
                                          /\ disk'[x].channel = conf'.ota[x]
                                          /\ disk'[x].build = conf'.date[x]
                                          /\ job[p].op = "init" => conf'.ota[x] = job[p].want[x]
                      /\ overlay' # "stale"
    OBVIOUS
  <2>0. /\ Typed /\ calls \in Seq(Request \cup {Cancel}) /\ Single /\ Complete(p)
        /\ job[p].cfg \in Config
    BY TypeTyped DEF FInv, DInv, IInv, Dates, Completes, Typed, Job
  <2>1. job[p].op # "replace" /\ InStep(p) /\ Passed(p)
    BY <2>0 DEF Complete, To, At
  <2>2. conf = job[p].cfg /\ Own(p)
    BY <2>0, <2>1, FileAssumption DEF InStep, At, Load, Own
  <2>3. /\ \A x \in Parts : Sound(job[p].cfg, x)
        /\ overlay # "stale"
        /\ job[p].op = "init" => conf.ota = job[p].want
    BY <2>1, <2>2 DEF Passed, InStep, To, At
  <2>4. UNCHANGED <<conf, disk>> /\ overlay' # "stale"
    <3>1. ASSUME NEW q \in Processes, Step(q)
          PROVE  UNCHANGED <<conf, disk>> /\ overlay' # "stale"
      <4>1. q = p
        BY <2>0, <3>1, StepOfLiving DEF Single
      <4>2. Prepare(p)
        BY <3>1, <4>1, LastStep
      <4> QED
        BY <2>3, <4>2 DEF Prepare
    <3>2. Refreshed \/ Around => UNCHANGED <<conf, disk>> /\ overlay' # "stale"
      BY <2>3 DEF Refreshed, Around
    <3> QED
      BY <2>0, <3>1, <3>2, NextEffect
  <2> QED
    BY <2>2, <2>3, <2>4 DEF Sound
<1>2. FInv /\ [Next]_vars => FInv'
  BY CompletesKept
<1> QED
  BY CompletesAtFirst, <1>1, <1>2, PTL DEF Spec, FinishedIsComplete

-----------------------------------------------------------------------------
(* ClosedWindowStopsWork: what the window and the service know of the only   *)
(* installation that there is when the window's button is clicked once.      *)

\* The window has not clicked, or its call has not been handled.
Untouched == /\ \A w \in Workers : At(w, "idle")
             /\ current = NoWorker /\ idle = <<>> /\ mail = <<>>

\* The window knows of the worker: nobody has told it of an end.
Awaited(w) == /\ window.initializing /\ idle = <<>>
              /\ \A i \in 1..Len(mail) : mail[i] \notin Signals
              /\ \A v \in Workers \ {w} : At(v, "idle")

CallsInOrder ==
  /\ calls # <<>> /\ Head(calls) # Cancel => Untouched
  /\ \A i \in 1..Len(calls) : i > 1 => calls[i] = Cancel
  /\ window.open /\ calls # <<>> => /\ Len(calls) = 1 /\ Head(calls) # Cancel
                                    /\ window.initializing
  /\ ~window.open /\ calls # <<>> => calls[Len(calls)] = Cancel

Watched ==
  /\ window.open /\ window.clicks = 0 => calls = <<>> /\ Untouched
  /\ CallsInOrder
  /\ \A w \in Workers : Alive(w) => IF window.open THEN Awaited(w) ELSE calls # <<>>

WInv == IInv /\ (faults \cap {"again", "unheard"} = {} => Watched)

\* A worker goes on, or ends, by itself.
LEMMA WatchedJob ==
  ASSUME Watched, UNCHANGED <<dbus, window>>,
         \A w \in Workers : (Alive(w)' => Alive(w)) /\ (At(w, "idle") => At(w, "idle")')
  PROVE  Watched'
<1>1. /\ current' = current /\ idle' = idle /\ calls' = calls /\ mail' = mail /\ window' = window
  BY DEF dbus
<1>2. Untouched => Untouched'
  BY <1>1 DEF Untouched
<1>3. \A w \in Workers : Awaited(w) => Awaited(w)'
  BY <1>1 DEF Awaited
<1>4. CallsInOrder'
  BY <1>1, <1>2 DEF Watched, CallsInOrder
<1> QED
  BY <1>1, <1>2, <1>3, <1>4 DEF Watched

\* What the store's steps do to the workers.
LEMMA WorkersGoOn ==
  ASSUME Typed, StoreStep
  PROVE  \A w \in Workers : (Alive(w)' => Alive(w)) /\ (At(w, "idle") => At(w, "idle")')
<1> USE DEF Processes
<1>1. ASSUME NEW p \in Processes, Alone(p), Alive(p)
      PROVE  \A w \in Workers : (Alive(w)' => Alive(w)) /\ (At(w, "idle") => At(w, "idle")')
  BY <1>1 DEF Alone, Alive, At
<1>2. ASSUME NEW p \in Processes, Step(p)
      PROVE  Alone(p) /\ Alive(p)
  BY <1>2, StepOfLiving
<1>3. ASSUME NEW p \in Processes, Die(p)
      PROVE  Alone(p) /\ Alive(p)
  BY <1>3, EndEffect DEF Die, Raise, Codes, Over
<1>4. ASSUME NEW p \in Others, NEW op \in {"init", "upgrade", "replace"}, Begin(p, op)
      PROVE  \A w \in Workers : job'[w] = job[w]
  BY <1>4, StoreAssumption DEF Begin, Typed
<1>5. CASE Publish \/ Repackage \/ UseOverlay
  BY <1>5 DEF Publish, Repackage, UseOverlay, Alive, At
<1> QED
  BY <1>1, <1>2, <1>3, <1>4, <1>5 DEF StoreStep, Alive, At

LEMMA WatchedInit ==
  ASSUME IInv, Watched, HandleInit
  PROVE  Watched'
<1>0. /\ Typed /\ calls \in Seq(Request \cup {Cancel}) /\ calls # <<>> /\ Head(calls) # Cancel
      /\ Untouched /\ calls' = Tail(calls) /\ window' = window /\ Len(calls) \in Nat \ {0}
      /\ NoWorker \notin Workers
  BY TypeTyped, QueueEnds, InitializerAssumption DEF IInv, HandleInit, Watched, CallsInOrder
<1>1. idle' = <<>> /\ mail' \in {<<"reply">>, <<"error">>} /\ Killed(current) = job
  <2>1. mail' \in {Append(<<>>, "reply"), Append(<<>>, "error")}
    BY <1>0 DEF HandleInit, Untouched
  <2> QED
    BY <1>0, <2>1 DEF HandleInit, Joined, Untouched, Killed
<1>2. \A w \in Workers : Alive(w)' => \A v \in Workers \ {w} : At(v, "idle")'
  <2>1. ASSUME NEW w \in Workers, job' = [job EXCEPT ![w] = Begun(w, "init", Head(calls))]
        PROVE  \A v \in Workers \ {w} : job'[v] = job[v]
    BY <1>0, <2>1 DEF Typed, Processes
  <2>2. job' = job \/ \E w \in Workers : \A v \in Workers \ {w} : job'[v] = job[v]
    BY <1>1, <2>1 DEF HandleInit
  <2> QED
    BY <1>0, <2>2 DEF Untouched, Alive, At
<1>3. \A i \in 1..Len(mail') : mail'[i] \notin Signals
  BY <1>1 DEF Signals
<1>4. CASE window.open
  <2>1. window.clicks # 0 /\ window.initializing /\ Len(calls) = 1
    BY <1>0, <1>4 DEF Watched, CallsInOrder
  <2>2. calls' = <<>>
    BY <1>0, <2>1, QueueEnds, TailKeeps
  <2> QED
    BY <1>0, <1>1, <1>2, <1>3, <1>4, <2>1, <2>2 DEF Watched, CallsInOrder, Awaited
<1>5. CASE ~window.open
  <2>1. /\ calls[Len(calls)] = Cancel /\ calls[1] # Cancel
        /\ \A i \in 1..Len(calls) : i > 1 => calls[i] = Cancel
    BY <1>0, <1>5, QueueEnds DEF Watched, CallsInOrder
  <2>2. /\ Len(calls') = Len(calls) - 1 /\ calls' \in Seq(Request \cup {Cancel})
        /\ \A i \in 1..Len(calls') : calls'[i] = calls[i + 1] /\ i + 1 \in 1..Len(calls)
    BY <1>0, QueueEnds, TailKeeps
  <2>3. \A i \in 1..Len(calls') : calls'[i] = Cancel
    BY <1>0, <2>1, <2>2
  <2>4. Len(calls') # 0 /\ Len(calls') \in Nat
    BY <1>0, <2>1, <2>2
  <2>5. calls' # <<>> /\ Head(calls') = Cancel /\ calls'[Len(calls')] = Cancel
    BY <2>2, <2>3, <2>4, QueueEnds
  <2> QED
    BY <1>0, <1>5, <2>3, <2>5 DEF Watched, CallsInOrder
<1> QED
  BY <1>4, <1>5

LEMMA WatchedCancel ==
  ASSUME IInv, Watched, HandleCancel
  PROVE  Watched'
<1>0. /\ Typed /\ Known /\ calls \in Seq(Request \cup {Cancel}) /\ calls # <<>>
      /\ Head(calls) = Cancel /\ calls' = Tail(calls) /\ window' = window
      /\ Len(calls) \in Nat \ {0} /\ ~window.open /\ job' = Killed(current)
  BY TypeTyped, QueueEnds DEF IInv, HandleCancel, Watched, CallsInOrder
<1>1. \A w \in Workers : ~Alive(w)'
  BY <1>0, KilledEffect DEF Known, Alive, Processes
<1>2. /\ Len(calls') = Len(calls) - 1 /\ calls' \in Seq(Request \cup {Cancel})
      /\ \A i \in 1..Len(calls') : calls'[i] = calls[i + 1] /\ i + 1 \in 1..Len(calls)
  BY <1>0, QueueEnds, TailKeeps
<1>3. \A i \in 1..Len(calls) : i > 1 => calls[i] = Cancel
  BY DEF Watched, CallsInOrder
<1>4. \A i \in 1..Len(calls') : calls'[i] = Cancel
  BY <1>0, <1>2, <1>3
<1>5. calls' # <<>> => Head(calls') = Cancel /\ calls'[Len(calls')] = Cancel
  <2>1. calls' # <<>> => Len(calls') \in Nat \ {0} /\ Head(calls') = calls'[1]
    BY <1>2, QueueEnds
  <2> QED
    BY <1>4, <2>1
<1> QED
  BY <1>0, <1>1, <1>4, <1>5 DEF Watched, CallsInOrder

LEMMA WatchedMonitor ==
  ASSUME IInv, Watched, NEW w \in Workers, Monitor(w)
  PROVE  Watched'
<1>1. /\ At(w, "done") /\ job' = job /\ current' = current /\ calls' = calls /\ mail' = mail
      /\ window' = window
  BY DEF Monitor, store
<1>2. ~Untouched
  BY <1>1 DEF Untouched, At
<1>3. CallsInOrder'
  BY <1>1, <1>2 DEF Watched, CallsInOrder
<1>4. window.open => \A v \in Workers : ~Alive(v)
  BY <1>1 DEF Watched, Awaited, At, Alive
<1> QED
  BY <1>1, <1>2, <1>3, <1>4 DEF Watched, Alive

LEMMA WatchedEmit ==
  ASSUME IInv, Watched, Emit
  PROVE  Watched'
<1>1. idle # <<>> /\ job' = job /\ current' = current /\ calls' = calls /\ window' = window
  BY DEF Emit, store
<1>2. ~Untouched /\ (window.open => \A v \in Workers : ~Alive(v))
  BY <1>1 DEF Untouched, Watched, Awaited
<1>3. CallsInOrder'
  BY <1>1, <1>2 DEF Watched, CallsInOrder
<1> QED
  BY <1>1, <1>2, <1>3 DEF Watched, Alive

LEMMA WatchedClick ==
  ASSUME IInv, Watched, faults \cap {"again", "unheard"} = {}, Click
  PROVE  Watched'
<1>1. /\ window.open /\ window.clicks = 0 /\ calls = <<>> /\ Untouched
      /\ job' = job /\ current' = current /\ idle' = idle /\ mail' = mail
  BY DEF Click, store, IInv, TypeOK, Watched
<1>2. window'.open /\ window'.initializing /\ window'.clicks = 1
  <2>1. window \in [open : BOOLEAN, initializing : BOOLEAN, sensitive : BOOLEAN,
                    clicks : 0..Cardinality(Workers)]
    BY DEF IInv, TypeOK
  <2>2. CASE window' = [window EXCEPT !.initializing = TRUE, !.sensitive = FALSE, !.clicks = @ + 1]
    BY <1>1, <2>1, <2>2
  <2>3. CASE window' = [window EXCEPT !.initializing = TRUE, !.clicks = @ + 1]
    BY <1>1, <2>1, <2>3
  <2> QED
    BY <2>2, <2>3 DEF Click
<1>3. Untouched' /\ \A w \in Workers : ~Alive(w)'
  BY <1>1 DEF Untouched, At, Alive
<1>4. calls' = <<>> \/ \E want \in Request : calls' = <<want>>
  BY <1>1 DEF Click
<1>5. CallsInOrder'
  <2>1. CASE calls' = <<>>
    BY <1>3, <2>1 DEF CallsInOrder
  <2>2. ASSUME NEW want \in Request, calls' = <<want>>
        PROVE  CallsInOrder'
    <3>1. Len(calls') = 1 /\ Head(calls') = want /\ want # Cancel
      BY <2>2, InitializerAssumption
    <3> QED
      BY <1>2, <1>3, <3>1 DEF CallsInOrder
  <2> QED
    BY <1>4, <2>1, <2>2
<1> QED
  BY <1>2, <1>3, <1>5 DEF Watched

LEMMA WatchedRead ==
  ASSUME IInv, Watched, Read
  PROVE  Watched'
<1>1. /\ mail # <<>> /\ job' = job /\ current' = current /\ idle' = idle /\ calls' = calls
      /\ mail' = Tail(mail) /\ mail \in Seq(Signals \cup {"reply", "error"})
      /\ window.open /\ window'.open = window.open /\ window'.clicks = window.clicks
      /\ Head(mail) \notin Signals => window'.initializing = window.initializing
  BY DEF Read, store, IInv, TypeOK
<1>2. ~Untouched /\ calls = <<>> /\ window.clicks # 0
  BY <1>1 DEF Untouched, Watched, CallsInOrder
<1>3. CallsInOrder'
  BY <1>1, <1>2 DEF CallsInOrder
<1>4. ASSUME NEW w \in Workers, Alive(w)
      PROVE  Awaited(w)'
  <2>1. Awaited(w)
    BY <1>1, <1>4 DEF Watched
  <2>2. /\ Len(mail) \in Nat \ {0} /\ Head(mail) = mail[1]
        /\ Len(mail') = Len(mail) - 1 /\ \A i \in 1..Len(mail') : mail'[i] = mail[i + 1]
    BY <1>1, QueueEnds
  <2>3. Head(mail) \notin Signals /\ \A i \in 1..Len(mail') : mail'[i] \notin Signals
    <3>1. \A i \in 1..Len(mail) : mail[i] \notin Signals
      BY <2>1 DEF Awaited
    <3> QED
      BY <2>2, <3>1
  <2> QED
    BY <1>1, <2>1, <2>3 DEF Awaited, At
<1> QED
  BY <1>1, <1>2, <1>3, <1>4 DEF Watched, Alive

LEMMA WatchedClose ==
  ASSUME IInv, Watched, faults \cap {"again", "unheard"} = {}, Close
  PROVE  Watched'
<1>1. /\ window.open /\ ~window'.open /\ job' = job /\ current' = current /\ idle' = idle
      /\ mail' = <<>> /\ calls \in Seq(Request \cup {Cancel})
      /\ calls' = IF window.initializing THEN Append(calls, Cancel) ELSE calls
  BY DEF Close, store, IInv, TypeOK
<1>2. Untouched => Untouched'
  BY <1>1 DEF Untouched, At
<1>3. CASE window.initializing
  <2>1. /\ Len(calls') = Len(calls) + 1 /\ Len(calls) \in Nat /\ calls'[Len(calls')] = Cancel
        /\ \A i \in 1..Len(calls) : calls'[i] = calls[i]
        /\ calls' \in Seq(Request \cup {Cancel})
    BY <1>1, <1>3, QueueEnds, AppendKeeps
  <2>2. \A i \in 1..Len(calls) : i > 1 => calls[i] = Cancel
    BY DEF Watched, CallsInOrder
  <2>3. \A i \in 1..Len(calls') : i > 1 => calls'[i] = Cancel
    BY <2>1, <2>2
  <2>4. calls' # <<>> /\ Head(calls') = calls'[1]
    BY <2>1, QueueEnds
  <2>5. Head(calls') # Cancel => Untouched
    <3>1. CASE calls = <<>>
      BY <2>1, <2>4, <3>1
    <3>2. CASE calls # <<>>
      BY <1>1, <3>2 DEF Watched, CallsInOrder
    <3> QED
      BY <3>1, <3>2
  <2> QED
    BY <1>1, <1>2, <2>1, <2>3, <2>4, <2>5 DEF Watched, CallsInOrder
<1>4. CASE ~window.initializing
  <2>1. calls' = <<>> /\ \A w \in Workers : ~Alive(w)
    BY <1>1, <1>4 DEF Watched, CallsInOrder, Awaited
  <2> QED
    BY <1>1, <2>1 DEF Watched, CallsInOrder, Alive
<1> QED
  BY <1>3, <1>4

LEMMA WatchedKept ==
  ASSUME WInv, [Next]_vars
  PROVE  WInv'
<1>0. IInv' /\ IInv /\ Typed
  BY Inductive, TypeTyped DEF WInv, IInv
<1>1. faults' = faults
  BY DEF Next, HandleInit, HandleCancel, Emit, Click, Read, Close, Monitor, vars
<1>2. ASSUME faults \cap {"again", "unheard"} = {}, Watched
      PROVE  Watched'
  <2>1. CASE StoreStep /\ UNCHANGED <<dbus, window>>
    BY <1>0, <1>2, <2>1, WatchedJob, WorkersGoOn
  <2>2. CASE UNCHANGED vars
    BY <1>2, <2>2, WatchedJob DEF vars, store, Alive, At
  <2> QED
    BY <1>0, <1>2, <2>1, <2>2, WatchedInit, WatchedCancel, WatchedMonitor, WatchedEmit,
       WatchedClick, WatchedRead, WatchedClose DEF Next
<1> QED
  BY <1>0, <1>1, <1>2 DEF WInv

LEMMA WatchedAtFirst == Init => WInv
<1> SUFFICES ASSUME Init PROVE WInv
  OBVIOUS
<1>1. /\ \A w \in Workers : job[w].pc = "idle"
      /\ calls = <<>> /\ idle = <<>> /\ mail = <<>> /\ current = NoWorker /\ window.open
  BY DefaultTypes DEF Init, StoreInit, Processes
<1>2. Untouched /\ \A w \in Workers : ~Alive(w)
  BY <1>1 DEF Untouched, At, Alive
<1>3. CallsInOrder
  BY <1>1 DEF CallsInOrder
<1> QED
  BY FirstState, <1>1, <1>2, <1>3 DEF WInv, Watched

\* A window that is closed leaves no worker behind, wherever the call that
\* begins the installation, its reply and its signal are, for any requests and
\* whatever else fails or is killed: as long as there is one click, the window
\* believes that there is an installation while there is one, and its Cancel
\* stops it unless that call itself fails.
THEOREM ClosedSafety == Spec => []ClosedWindowStopsWork
<1>1. WInv /\ [Next]_vars => WInv'
  BY WatchedKept
<1>2. WInv => ClosedWindowStopsWork
  BY DEF WInv, Watched, ClosedWindowStopsWork
<1> QED
  BY WatchedAtFirst, <1>1, <1>2, PTL DEF Spec
==============================================================================
