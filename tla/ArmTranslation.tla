--------------------------- MODULE ArmTranslation ---------------------------
(***************************************************************************)
(* The ARM translation layer: waydroid arm-translation install and         *)
(* uninstall (tools/actions/arm_translation.py) replace a tree of files    *)
(* and rewrite the properties that advertise it; when a session starts,    *)
(* the container service copies the tree into the overlay                  *)
(* (helpers/arm_translation.py) and Android boots with the properties and  *)
(* the files there are.  A restart within the session, by root or by       *)
(* Android, only boots it again.  None of it is atomic: files go and come  *)
(* one by one, and a command may be refused, fail or be killed on its way. *)
(***************************************************************************)
EXTENDS Naturals, FiniteSets

CONSTANTS Cli,          \* the waydroid arm-translation command
          Starter,      \* the container service starting the container
          Files,        \* what a layer may consist of
          DirOf,        \* the directory each of them is in
          Required,     \* what it must have
          Archives,     \* where a layer can be installed from
          Contents,     \* the files of each
          Absent,       \* no file
          ArmFaultSets  \* what may happen together, subsets of ArmFaultKinds

\* "bad": sources and archives without the required files;  "fail": downloads,
\* checksums and the properties;  "disk": a copy;  "beside": the container
\* starts beside a command;  "upgrade": Android has its images replaced.
ArmFaultKinds == {"bad", "fail", "disk", "kill", "beside", "upgrade"}

ArmCallers == {Cli, Starter}

ArmAssumption ==
  /\ Cli # Starter
  /\ Required \subseteq Files /\ Files \subseteq DOMAIN DirOf
  /\ Contents \in [Archives -> SUBSET Files]
  /\ Archives # {} /\ Absent \notin Archives
  /\ ArmFaultSets \subseteq SUBSET ArmFaultKinds

VARIABLES armFaults, \* what may happen in this behaviour; it never changes
          layer,     \* the tree work/arm-translation: where each file is from
          copy,      \* the tree in the overlay
          base,      \* waydroid_base.prop
          android,   \* where Android is, and what it has been given and booted with
          agent      \* what the command and the service do

armVars == <<armFaults, layer, copy, base, android, agent>>

Dirs   == {DirOf[f] : f \in Files}
Layers == [Files -> Archives \cup {Absent}]
Empty  == [f \in Files |-> Absent]
Props  == {"plain", "bridge", "empty"}

\* "down": stopped, to be started again in the session;  "dead": to stay so.
Androids == [is : {"none", "up", "down", "dead"}, props : Props, files : Layers]

ArmTypeOK ==
  /\ armFaults \in ArmFaultSets
  /\ layer \in Layers /\ copy \in Layers
  /\ base \in Props
  /\ android \in Androids
  /\ agent \in [ArmCallers ->
       [pc : {"idle", "remove", "obtain", "copy", "check", "discard", "look", "write",
              "sync", "mirror", "boot", "ok", "error"},
        op : {"none", "install", "uninstall", "init", "start"},
        from : Archives, left : SUBSET Files, todo : SUBSET Dirs, props : Props]]

NoSession == [is |-> "none", props |-> "plain", files |-> Empty]

NoAgent == [pc |-> "idle", op |-> "none", from |-> CHOOSE a \in Archives : TRUE,
            left |-> {}, todo |-> {}, props |-> "plain"]

ArmInit ==
  /\ armFaults \in ArmFaultSets
  /\ layer = Empty /\ copy = Empty
  /\ base = "plain"
  /\ android = NoSession
  /\ agent = [p \in ArmCallers |-> NoAgent]

-----------------------------------------------------------------------------
LayerDirs    == {DirOf[f] : f \in {g \in Files : layer[g] # Absent}}
IsInstalled  == \A f \in Required : layer[f] # Absent
On(p, pc)    == agent[p].pc = pc
GoOn(p, pc)  == agent' = [agent EXCEPT ![p].pc = pc]
Done(p, pc)  == agent' = [agent EXCEPT ![p] = [NoAgent EXCEPT !.pc = pc]]
Free(p)      == On(p, "idle") \/ On(p, "ok") \/ On(p, "error")
Raise(p)     == Done(p, "error") /\ UNCHANGED <<layer, copy, base, android>>
MayBegin     == "beside" \in armFaults \/ \A p \in ArmCallers : Free(p)

\* Install, uninstall and waydroid init, which only rewrites the properties.
Begin(p, op, pc) ==
  /\ Free(p) /\ MayBegin
  /\ agent' = [agent EXCEPT ![p].pc = pc, ![p].op = op, ![p].todo = LayerDirs]
  /\ UNCHANGED <<layer, copy, base, android>>

\* A slip: the new layer is copied over the one before it.
RemoveNothing(p) == On(p, "remove") /\ GoOn(p, "obtain")
                    /\ UNCHANGED <<layer, copy, base, android>>

\* rmtree, before anything has been obtained.
RemoveLayer(p) ==
  /\ On(p, "remove")
  /\ IF layer = Empty
     THEN GoOn(p, IF agent[p].op = "install" THEN "obtain" ELSE "look") /\ UNCHANGED layer
     ELSE /\ \E f \in Files : layer[f] # Absent /\ layer' = [layer EXCEPT ![f] = Absent]
          /\ UNCHANGED agent
  /\ UNCHANGED <<copy, base, android>>

\* A directory, an archive or a download; a damaged or missing one is refused.
Obtain(p) ==
  /\ On(p, "obtain")
  /\ \/ /\ \E a \in Archives :
             /\ "bad" \in armFaults \/ Required \subseteq Contents[a]
             /\ agent' = [agent EXCEPT ![p].pc = "copy", ![p].from = a,
                                       ![p].left = Contents[a]]
        /\ UNCHANGED <<layer, copy, base, android>>
     \/ "fail" \in armFaults /\ Raise(p)

CopyFile(p) ==
  /\ On(p, "copy")
  /\ \/ /\ \E f \in agent[p].left :
             /\ layer' = [layer EXCEPT ![f] = agent[p].from]
             /\ agent' = [agent EXCEPT ![p].left = @ \ {f}]
        /\ UNCHANGED <<copy, base, android>>
     \/ /\ agent[p].left = {}
        /\ GoOn(p, "check") /\ UNCHANGED <<layer, copy, base, android>>
     \/ "disk" \in armFaults /\ Raise(p)

Check(p) ==
  /\ On(p, "check")
  /\ GoOn(p, IF IsInstalled THEN "look" ELSE "discard")
  /\ UNCHANGED <<layer, copy, base, android>>

Discard(p) ==
  /\ On(p, "discard")
  /\ IF layer = Empty
     THEN Done(p, "error") /\ UNCHANGED layer
     ELSE /\ \E f \in Files : layer[f] # Absent /\ layer' = [layer EXCEPT ![f] = Absent]
          /\ UNCHANGED agent
  /\ UNCHANGED <<copy, base, android>>

\* make_base_props: the layer is looked at, then the file is truncated ...
Look(p) ==
  /\ On(p, "look")
  /\ \/ /\ agent' = [agent EXCEPT ![p].pc = "write",
                                  ![p].props = IF IsInstalled THEN "bridge" ELSE "plain"]
        /\ base' = "empty"
        /\ UNCHANGED <<layer, copy, android>>
     \/ "fail" \in armFaults /\ Raise(p)

\* ... and written.
WriteProps(p) ==
  /\ On(p, "write")
  /\ base' = agent[p].props
  /\ Done(p, "ok")
  /\ UNCHANGED <<layer, copy, android>>

-----------------------------------------------------------------------------
(* The start of a session: do_start's configuration, mounts and boot. *)

StartContainer ==
  /\ android.is = "none"
  /\ Begin(Starter, "start", IF IsInstalled THEN "sync" ELSE "boot")

\* Copies the files of one directory of the layer next.
Mirror(d, was) ==
  /\ copy' = was
  /\ agent' = [agent EXCEPT ![Starter].pc = "mirror", ![Starter].todo = @ \ {d},
                 ![Starter].left = {f \in Files : DirOf[f] = d /\ layer[f] # Absent}]
  /\ UNCHANGED <<layer, base, android>>

\* A slip: a directory is copied over the one in the overlay.
ReplaceOver(d) == Mirror(d, copy)

Replace(d) == Mirror(d, [f \in Files |-> IF DirOf[f] = d THEN Absent ELSE copy[f]])

\* sync_to_overlay replaces each directory that the layer has, and no other.
Sync ==
  /\ On(Starter, "sync")
  /\ \/ \E d \in agent[Starter].todo : Replace(d)
     \/ /\ agent[Starter].todo = {}
        /\ GoOn(Starter, "boot") /\ UNCHANGED <<layer, copy, base, android>>
     \/ ~(agent[Starter].todo \subseteq LayerDirs) /\ Raise(Starter)

MirrorFile ==
  /\ On(Starter, "mirror")
  /\ \/ /\ \E f \in agent[Starter].left :
             /\ layer[f] # Absent
             /\ copy' = [copy EXCEPT ![f] = layer[f]]
             /\ agent' = [agent EXCEPT ![Starter].left = @ \ {f}]
        /\ UNCHANGED <<layer, base, android>>
     \/ /\ agent[Starter].left = {}
        /\ GoOn(Starter, "sync") /\ UNCHANGED <<layer, copy, base, android>>
     \/ /\ "disk" \in armFaults \/ \E f \in agent[Starter].left : layer[f] = Absent
        /\ Raise(Starter)

\* make_prop refuses an empty file.
BootAndroid ==
  /\ On(Starter, "boot")
  /\ \/ /\ base # "empty"
        /\ android' = [is |-> "up", props |-> base, files |-> copy]
        /\ Done(Starter, "ok")
        /\ UNCHANGED <<layer, copy, base>>
     \/ base = "empty" /\ Raise(Starter)

\* The end of the session.
StopContainer == /\ android.is # "none"
                 /\ android' = NoSession
                 /\ UNCHANGED <<layer, copy, base, agent>>

\* Android goes down and stays down, by itself or because it is not started again.
Die == /\ android.is \in {"up", "down"}
       /\ android' = [android EXCEPT !.is = "dead"]
       /\ UNCHANGED <<layer, copy, base, agent>>

\* "waydroid container restart", or a reboot that Android asks for or has begun.
Halt == /\ android.is = "up"
        /\ android' = [android EXCEPT !.is = "down"]
        /\ UNCHANGED <<layer, copy, base, agent>>

\* A slip: the restart mounts its file system anew.
RestartAnew == /\ android.is = "down"
               /\ android' = [is |-> "up", props |-> base, files |-> copy]
               /\ UNCHANGED <<layer, copy, base, agent>>

\* lxc-start, with the overlay and the properties that the session has mounted.
Restart == /\ android.is = "down"
           /\ android' = [android EXCEPT !.is = "up", !.files = copy]
           /\ UNCHANGED <<layer, copy, base, agent>>

\* Android asks for other images: they are mounted with new properties, and with the
\* overlay as it is.
GuestUpgrade ==
  /\ "upgrade" \in armFaults
  /\ android.is = "up"
  /\ android' = IF base = "empty" THEN [android EXCEPT !.is = "dead"]
                ELSE [is |-> "up", props |-> base, files |-> copy]
  /\ UNCHANGED <<layer, copy, base, agent>>

AndroidStep == StopContainer \/ Die \/ Halt \/ Restart \/ GuestUpgrade

ArmKill(p) == "kill" \in armFaults /\ ~Free(p) /\ Raise(p)

ArmNext ==
  /\ \/ Begin(Cli, "install", "remove")
     \/ layer # Empty /\ Begin(Cli, "uninstall", "remove")
     \/ Begin(Cli, "init", "look")
     \/ RemoveLayer(Cli) \/ Obtain(Cli) \/ CopyFile(Cli) \/ Check(Cli) \/ Discard(Cli)
     \/ Look(Cli) \/ WriteProps(Cli)
     \/ StartContainer \/ Sync \/ MirrorFile \/ BootAndroid
     \/ AndroidStep
     \/ \E p \in ArmCallers : ArmKill(p)
  /\ UNCHANGED armFaults

ArmSpec == ArmInit /\ [][ArmNext]_armVars

-----------------------------------------------------------------------------
(* What the translation layer promises.                                     *)

\* An installation that returns leaves exactly the files of what it was given,
\* nothing of the layer before it and nothing of one that was killed half way,
\* and properties that advertise it.
InstalledIsWhole ==
  [][(On(Cli, "write") /\ agent'[Cli].pc = "ok" /\ agent[Cli].op = "install")
       => /\ \A f \in Files : layer'[f] = IF f \in Contents[agent[Cli].from]
                                          THEN agent[Cli].from ELSE Absent
          /\ base' = "bridge"]_armVars

\* "Nothing was installed.": a layer without the files it must have is refused
\* and leaves nothing behind.
RefusedLeavesNothing ==
  [][("kill" \notin armFaults /\ agent'[Cli].pc = "error"
        /\ (On(Cli, "check") \/ On(Cli, "discard")))
       => layer' = Empty]_armVars

\* An installation either leaves a whole layer or none.
InstallIsAllOrNothing == InstalledIsWhole /\ RefusedLeavesNothing

\* A session that starts with a layer installed has exactly that layer in the
\* directories it has, whatever an earlier start or an earlier layer had left there.
\* Only a directory that the layer lacks keeps the files of an earlier one, and a
\* start beside an installation may get half of it.  (A restart within a session
\* gets what the session started with: RestartTakesEffect.)
BootsWithTheLayer ==
  [][(android.is = "none" /\ android'.is = "up" /\ IsInstalled /\ "beside" \notin armFaults)
       => \A f \in Files : DirOf[f] \in LayerDirs => android'.files[f] = layer[f]]_armVars

\* Android is told of a native bridge only when the libraries are there, over any
\* installations, restarts and sessions.  After an installation that was refused,
\* failed or killed it may be told of one that was removed before that, and after an
\* upgrade of its images of one that was installed since the session began.
AdvertisedIsThere ==
  (android.is = "up" /\ android.props = "bridge" /\ armFaults = {})
    => \A f \in Required : android.files[f] # Absent

\* "Restart the container (waydroid container restart) for it to take effect": what
\* install tells its user.  The restart boots Android with the overlay and the
\* properties of a session that was started before the installation.
RestartTakesEffect ==
  [][(android.is = "down" /\ android'.is = "up" /\ armFaults = {} /\ Free(Cli) /\ IsInstalled)
       => /\ android'.props = "bridge"
          /\ \A f \in Required : android'.files[f] = layer[f]]_armVars
=============================================================================
