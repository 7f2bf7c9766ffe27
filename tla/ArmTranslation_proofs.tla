------------------------ MODULE ArmTranslation_proofs ------------------------
(***************************************************************************)
(* The ARM translation layer for any files, directories and archives, and  *)
(* whatever fails.  The invariant says what an installation has removed    *)
(* and copied at each of its steps; while no command runs beside it, what  *)
(* the start of a container has copied into the overlay; and, when nothing *)
(* fails, that the properties advertise the libraries only when they are   *)
(* there.  The last needs the other two: Android boots with the copy, and  *)
(* again with it at every restart, while the layer may come and go.        *)
(***************************************************************************)
EXTENDS ArmTranslation, TLAPS

Agent == [pc : {"idle", "remove", "obtain", "copy", "check", "discard", "look", "write",
                "sync", "mirror", "boot", "ok", "error"},
          op : {"none", "install", "uninstall", "init", "start"},
          from : Archives, left : SUBSET Files, todo : SUBSET Dirs, props : Props]

Whole(files, a) == layer = [f \in Files |-> IF f \in files THEN a ELSE Absent]

CommandAt == {"remove", "obtain", "copy", "check", "discard", "look", "write"}
StarterAt == {"sync", "mirror", "boot"}

\* Who is at work, and at what.
Working ==
  /\ Free(Cli) \/ agent[Cli].pc \in CommandAt
  /\ Free(Starter) \/ agent[Starter].pc \in StarterAt
  /\ Free(Starter) => agent[Starter].left = {}
  /\ "beside" \notin armFaults => Free(Cli) \/ Free(Starter)
  /\ android.is # "none" => Free(Starter)

\* What an installation has removed and copied so far.
Installing ==
  LET c == agent[Cli]
  IN  /\ c.pc \in {"obtain", "copy", "check"} => c.op = "install"
      /\ c.pc = "obtain" => layer = Empty
      /\ c.pc = "copy" => /\ c.left \subseteq Contents[c.from]
                          /\ Whole(Contents[c.from] \ c.left, c.from)
      /\ c.pc = "check" => Whole(Contents[c.from], c.from)
      /\ c.pc \in {"look", "write"} /\ c.op = "install"
           => Whole(Contents[c.from], c.from) /\ IsInstalled
      /\ c.pc = "write" => (c.props = "bridge" <=> IsInstalled)

\* What a start has copied so far: the directories that it has done, but for the
\* files it still has to copy.
Syncing ==
  LET s == agent[Starter]
  IN  /\ s.pc \in {"sync", "mirror"} =>
           /\ s.todo \subseteq LayerDirs
           /\ \A f \in s.left : layer[f] # Absent
           /\ \A f \in Files \ s.left : DirOf[f] \in LayerDirs \ s.todo => copy[f] = layer[f]
      /\ s.pc = "sync" => s.left = {}
      /\ s.pc = "boot" /\ IsInstalled
           => \A f \in Files : DirOf[f] \in LayerDirs => copy[f] = layer[f]

\* A session that was given the properties of a bridge has its libraries in the
\* overlay, whether Android is up or is to be started again.
Mounted == android.is # "none" /\ android.props = "bridge" => \A f \in Required : copy[f] # Absent

\* When nothing fails, who advertises the libraries has them.
Advertising ==
  /\ agent[Cli].pc \in {"copy", "check"} => Required \subseteq Contents[agent[Cli].from]
  /\ ~On(Cli, "discard")
  /\ Free(Cli) /\ base = "bridge" => IsInstalled
  /\ Mounted /\ AdvertisedIsThere

ArmInv ==
  /\ ArmTypeOK
  /\ Working
  /\ Installing
  /\ "beside" \notin armFaults => Syncing
  /\ armFaults = {} => Advertising

-----------------------------------------------------------------------------
LEMMA Constants ==
  ASSUME ArmAssumption
  PROVE  /\ Cli # Starter /\ Cli \in ArmCallers /\ Starter \in ArmCallers
         /\ Required \subseteq Files /\ Absent \notin Archives
         /\ \A a \in Archives : Contents[a] \subseteq Files
         /\ NoAgent \in Agent /\ NoAgent.left = {}
         /\ \A f \in Files : DirOf[f] \in Dirs
         /\ LayerDirs \subseteq Dirs
<1>1. NoAgent \in Agent /\ NoAgent.left = {}
  <2>1. (CHOOSE a \in Archives : TRUE) \in Archives
    BY DEF ArmAssumption
  <2> QED
    BY <2>1 DEF NoAgent, Agent, Props
<1>2. LayerDirs \subseteq Dirs
  BY DEF LayerDirs, Dirs
<1> QED
  BY <1>1, <1>2 DEF ArmAssumption, ArmCallers, Dirs

LEMMA Typed == ArmTypeOK => agent \in [ArmCallers -> Agent] /\ layer \in Layers /\ copy \in Layers
                            /\ base \in Props
BY DEF ArmTypeOK, Agent

\* Only p has gone on.
Moved(p, to) ==
  /\ agent' \in [ArmCallers -> Agent]
  /\ agent'[p] = to
  /\ \A q \in ArmCallers \ {p} : agent'[q] = agent[q]

LEMMA Moves ==
  ASSUME ArmTypeOK, NEW p \in ArmCallers, NEW to \in Agent, agent' = [agent EXCEPT ![p] = to]
  PROVE  Moved(p, to)
BY Typed DEF Moved

LEMMA GoOnMoved ==
  ASSUME ArmTypeOK, NEW p \in ArmCallers,
         NEW pc \in {"obtain", "look", "check", "discard", "sync", "boot"}, GoOn(p, pc)
  PROVE  \E to \in Agent : /\ Moved(p, to) /\ to.pc = pc /\ to.op = agent[p].op
                           /\ to.from = agent[p].from /\ to.left = agent[p].left
                           /\ to.todo = agent[p].todo /\ to.props = agent[p].props
<1> DEFINE to == [agent[p] EXCEPT !.pc = pc]
<1>1. to \in Agent /\ to.pc = pc /\ to.op = agent[p].op
      /\ to.from = agent[p].from /\ to.left = agent[p].left
      /\ to.todo = agent[p].todo /\ to.props = agent[p].props
  BY Typed DEF Agent
<1>2. agent' = [agent EXCEPT ![p] = to]
  BY DEF GoOn
<1> HIDE DEF to
<1> QED
  BY <1>1, <1>2, Moves

LEMMA DoneMoved ==
  ASSUME ArmAssumption, ArmTypeOK, NEW p \in ArmCallers, NEW pc \in {"ok", "error"}, Done(p, pc)
  PROVE  \E to \in Agent : Moved(p, to) /\ to.pc = pc /\ to.left = {}
<1> DEFINE to == [NoAgent EXCEPT !.pc = pc]
<1>1. to \in Agent /\ to.pc = pc /\ to.left = {}
  BY Constants DEF Agent
<1>2. agent' = [agent EXCEPT ![p] = to]
  BY DEF Done
<1> HIDE DEF to
<1> QED
  BY <1>1, <1>2, Moves

LEMMA BeginMoved ==
  ASSUME ArmAssumption, ArmTypeOK, NEW p \in ArmCallers,
         NEW op \in {"install", "uninstall", "init", "start"},
         NEW pc \in {"remove", "look", "sync", "boot"}, Begin(p, op, pc)
  PROVE  \E to \in Agent : /\ Moved(p, to) /\ to.pc = pc /\ to.op = op
                           /\ to.left = agent[p].left /\ to.todo = LayerDirs
<1> DEFINE to == [agent[p] EXCEPT !.pc = pc, !.op = op, !.todo = LayerDirs]
<1>1. to \in Agent /\ to.pc = pc /\ to.op = op /\ to.left = agent[p].left /\ to.todo = LayerDirs
  BY Typed, Constants DEF Agent
<1>2. agent' = [agent EXCEPT ![p] = to]
  BY DEF Begin
<1> HIDE DEF to
<1> QED
  BY <1>1, <1>2, Moves

-----------------------------------------------------------------------------
(* A command's step: nothing starts meanwhile, unless beside it. *)

LEMMA CliTurn ==
  ASSUME ArmAssumption, ArmInv, NEW to \in Agent, Moved(Cli, to),
         to.pc \in CommandAt \cup {"ok", "error"},
         "beside" \notin armFaults => Free(Starter),
         UNCHANGED <<copy, android, armFaults>>, layer' \in Layers, base' \in Props, Installing',
         armFaults = {} => /\ to.pc \in {"copy", "check"} => Required \subseteq Contents[to.from]
                           /\ to.pc # "discard"
                           /\ (to.pc \in {"ok", "error"} /\ base' = "bridge") => IsInstalled'
  PROVE  ArmInv'
<1>1. agent'[Cli] = to /\ agent'[Starter] = agent[Starter] /\ agent' \in [ArmCallers -> Agent]
  BY Constants DEF Moved
<1>2. ArmTypeOK'
  BY <1>1 DEF ArmInv, ArmTypeOK, Agent
<1>3. Free(Starter)' <=> Free(Starter)
  BY <1>1 DEF Free, On
<1>4. Free(Cli)' <=> to.pc \in {"ok", "error"}
  BY <1>1 DEF Free, On, CommandAt
<1>5. Working'
  BY <1>1, <1>3, <1>4 DEF Working, ArmInv, CommandAt
<1>6. "beside" \notin armFaults => Syncing'
  BY <1>1 DEF Syncing, Free, On
<1>7. armFaults = {} => Advertising'
  BY <1>1, <1>4 DEF Advertising, Mounted, On, AdvertisedIsThere, ArmInv
<1> QED
  BY <1>2, <1>5, <1>6, <1>7 DEF ArmInv

\* A command that is refused, fails or is killed.
LEMMA CliRaises ==
  ASSUME ArmAssumption, ArmInv, ~Free(Cli), Raise(Cli), armFaults # {}, UNCHANGED armFaults
  PROVE  ArmInv'
<1>1. PICK to \in Agent : Moved(Cli, to) /\ to.pc = "error"
  BY DoneMoved, Constants DEF Raise, ArmInv
<1>2. Installing'
  BY <1>1 DEF Installing, Moved
<1>3. "beside" \notin armFaults => Free(Starter)
  BY DEF ArmInv, Working
<1>4. layer' \in Layers /\ base' \in Props
  BY Typed DEF Raise, ArmInv
<1> QED
  BY <1>1, <1>2, <1>3, <1>4, CliTurn DEF Raise

LEMMA InstallKeeps ==
  ASSUME ArmAssumption, ArmInv, UNCHANGED armFaults,
         \/ RemoveLayer(Cli) \/ Obtain(Cli) \/ CopyFile(Cli) \/ Check(Cli) \/ Discard(Cli)
         \/ Look(Cli) \/ WriteProps(Cli)
  PROVE  ArmInv'
<1> DEFINE c == agent[Cli]
<1>0. /\ ArmTypeOK /\ layer \in Layers /\ base \in Props /\ c \in Agent /\ Cli \in ArmCallers
      /\ ~Free(Cli)
      /\ "beside" \notin armFaults => Free(Starter)
  <2>1. ~Free(Cli)
    BY DEF RemoveLayer, Obtain, CopyFile, Check, Discard, Look, WriteProps, Free, On
  <2> QED
    BY <2>1, Typed, Constants DEF ArmInv, Working
<1>1. c.from \in Archives /\ Contents[c.from] \subseteq Files /\ c.left \subseteq Files
  BY <1>0, Constants DEF Agent
<1>2. CASE RemoveLayer(Cli)
  <2>0. c.pc = "remove" /\ UNCHANGED <<copy, base, android>>
    BY <1>2 DEF RemoveLayer, On
  <2>1. CASE layer = Empty
    <3>1. PICK to \in Agent : /\ Moved(Cli, to) /\ to.op = c.op
                              /\ to.pc = IF c.op = "install" THEN "obtain" ELSE "look"
      BY <1>0, <1>2, <2>1, GoOnMoved DEF RemoveLayer
    <3>2. Installing'
      BY <1>2, <2>1, <3>1 DEF Installing, Moved, RemoveLayer, Empty
    <3> QED
      BY <1>0, <1>2, <2>0, <2>1, <3>1, <3>2, CliTurn DEF RemoveLayer, CommandAt
  <2>2. CASE layer # Empty
    <3>1. layer' \in Layers /\ agent' = agent
      BY <1>0, <1>2, <2>2 DEF RemoveLayer, Layers
    <3>2. Moved(Cli, c) /\ Installing'
      BY <1>0, <2>0, <3>1, Typed DEF Moved, Installing
    <3> QED
      BY <1>0, <2>0, <3>1, <3>2, CliTurn DEF CommandAt
  <2> QED
    BY <2>1, <2>2
<1>3. CASE Obtain(Cli)
  <2>0. c.pc = "obtain" /\ c.op = "install" /\ layer = Empty
    BY <1>3 DEF Obtain, On, ArmInv, Installing
  <2>1. CASE "fail" \in armFaults /\ Raise(Cli)
    BY <1>0, <2>1, CliRaises
  <2>2. ASSUME NEW a \in Archives, "bad" \in armFaults \/ Required \subseteq Contents[a],
               agent' = [agent EXCEPT ![Cli].pc = "copy", ![Cli].from = a,
                                      ![Cli].left = Contents[a]],
               UNCHANGED <<layer, copy, base, android>>
        PROVE  ArmInv'
    <3> DEFINE to == [c EXCEPT !.pc = "copy", !.from = a, !.left = Contents[a]]
    <3>1. to \in Agent /\ to.pc = "copy" /\ to.op = "install" /\ to.from = a
          /\ to.left = Contents[a]
      BY <1>0, <2>0, Constants DEF Agent
    <3>2. agent' = [agent EXCEPT ![Cli] = to]
      BY <2>2
    <3> HIDE DEF to
    <3>3. Moved(Cli, to)
      BY <1>0, <3>1, <3>2, Moves
    <3>4. Installing'
      BY <2>0, <2>2, <3>1, <3>3 DEF Installing, Moved, Whole, Empty
    <3> QED
      BY <1>0, <2>2, <3>1, <3>3, <3>4, CliTurn DEF CommandAt
  <2> QED
    BY <1>3, <2>1, <2>2 DEF Obtain
<1>4. CASE CopyFile(Cli)
  <2>0. /\ c.pc = "copy" /\ c.op = "install" /\ Whole(Contents[c.from] \ c.left, c.from)
        /\ c.left \subseteq Contents[c.from]
        /\ armFaults = {} => Required \subseteq Contents[c.from]
    BY <1>4 DEF CopyFile, On, ArmInv, Installing, Advertising
  <2>1. CASE "disk" \in armFaults /\ Raise(Cli)
    BY <1>0, <2>1, CliRaises
  <2>2. CASE c.left = {} /\ GoOn(Cli, "check") /\ UNCHANGED <<layer, copy, base, android>>
    <3>1. PICK to \in Agent : Moved(Cli, to) /\ to.pc = "check" /\ to.op = c.op /\ to.from = c.from
      BY <1>0, <2>2, GoOnMoved
    <3>2. Contents[c.from] \ c.left = Contents[c.from]
      BY <2>2
    <3>3. Installing'
      BY <2>0, <2>2, <3>1, <3>2 DEF Installing, Moved, Whole
    <3> QED
      BY <1>0, <2>0, <2>2, <3>1, <3>3, CliTurn DEF CommandAt
  <2>3. ASSUME NEW f \in c.left, layer' = [layer EXCEPT ![f] = c.from],
               agent' = [agent EXCEPT ![Cli].left = @ \ {f}], UNCHANGED <<copy, base, android>>
        PROVE  ArmInv'
    <3> DEFINE to == [c EXCEPT !.left = @ \ {f}]
    <3>1. to \in Agent /\ to.pc = "copy" /\ to.op = "install" /\ to.from = c.from
          /\ to.left = c.left \ {f}
      BY <1>0, <2>0 DEF Agent
    <3>2. agent' = [agent EXCEPT ![Cli] = to]
      BY <2>3
    <3> HIDE DEF to
    <3>3. Moved(Cli, to)
      BY <1>0, <3>1, <3>2, Moves
    <3>4. layer' = [g \in Files |-> IF g \in Contents[c.from] \ to.left THEN c.from ELSE Absent]
      BY <1>0, <1>1, <2>0, <2>3, <3>1 DEF Whole, Layers
    <3>5. layer' \in Layers
      BY <1>1, <3>4 DEF Layers
    <3>6. Installing'
      BY <2>0, <3>1, <3>3, <3>4 DEF Installing, Moved, Whole
    <3> QED
      BY <1>0, <2>0, <2>3, <3>1, <3>3, <3>5, <3>6, CliTurn DEF CommandAt
  <2> QED
    BY <1>4, <2>1, <2>2, <2>3 DEF CopyFile
<1>5. CASE Check(Cli)
  <2>0. /\ c.pc = "check" /\ c.op = "install" /\ Whole(Contents[c.from], c.from)
        /\ armFaults = {} => Required \subseteq Contents[c.from]
        /\ UNCHANGED <<layer, copy, base, android>>
    BY <1>5 DEF Check, On, ArmInv, Installing, Advertising
  <2>1. armFaults = {} => IsInstalled
    BY <1>1, <2>0, Constants DEF IsInstalled, Whole
  <2>2. PICK to \in Agent : /\ Moved(Cli, to) /\ to.op = c.op /\ to.from = c.from
                            /\ to.pc = IF IsInstalled THEN "look" ELSE "discard"
    BY <1>0, <1>5, GoOnMoved DEF Check
  <2>3. Installing'
    BY <2>0, <2>2 DEF Installing, Moved, Whole, IsInstalled
  <2> QED
    BY <1>0, <2>0, <2>1, <2>2, <2>3, CliTurn DEF CommandAt
<1>6. CASE Discard(Cli)
  <2>0. c.pc = "discard" /\ UNCHANGED <<copy, base, android>> /\ armFaults # {}
    BY <1>6 DEF Discard, On, ArmInv, Advertising
  <2>1. CASE layer = Empty
    BY <1>0, <1>6, <2>0, <2>1, CliRaises DEF Discard, Raise
  <2>2. CASE layer # Empty
    <3>1. layer' \in Layers /\ agent' = agent
      BY <1>0, <1>6, <2>2 DEF Discard, Layers
    <3>2. Moved(Cli, c) /\ Installing'
      BY <1>0, <2>0, <3>1, Typed DEF Moved, Installing
    <3> QED
      BY <1>0, <2>0, <3>1, <3>2, CliTurn DEF CommandAt
  <2> QED
    BY <2>1, <2>2
<1>7. CASE Look(Cli)
  <2>0. /\ c.pc = "look"
        /\ c.op = "install" => Whole(Contents[c.from], c.from) /\ IsInstalled
    BY <1>7 DEF Look, On, ArmInv, Installing
  <2>1. CASE "fail" \in armFaults /\ Raise(Cli)
    BY <1>0, <2>1, CliRaises
  <2>2. CASE /\ agent' = [agent EXCEPT ![Cli].pc = "write",
                            ![Cli].props = IF IsInstalled THEN "bridge" ELSE "plain"]
             /\ base' = "empty"
             /\ UNCHANGED <<layer, copy, android>>
    <3> DEFINE props == IF IsInstalled THEN "bridge" ELSE "plain"
               to == [c EXCEPT !.pc = "write", !.props = props]
    <3>1. to \in Agent /\ to.pc = "write" /\ to.op = c.op /\ to.from = c.from
          /\ to.props = props
      BY <1>0 DEF Agent, Props
    <3>2. agent' = [agent EXCEPT ![Cli] = to]
      BY <2>2
    <3> HIDE DEF to
    <3>3. Moved(Cli, to)
      BY <1>0, <3>1, <3>2, Moves
    <3>4. Installing'
      BY <2>0, <2>2, <3>1, <3>3 DEF Installing, Moved, Whole, IsInstalled
    <3> QED
      BY <1>0, <2>2, <3>1, <3>3, <3>4, CliTurn DEF CommandAt, Props
  <2> QED
    BY <1>7, <2>1, <2>2 DEF Look
<1>8. CASE WriteProps(Cli)
  <2>1. c.props \in Props /\ (c.props = "bridge" => IsInstalled)
    BY <1>0, <1>8 DEF Agent, WriteProps, On, ArmInv, Installing
  <2>2. PICK to \in Agent : Moved(Cli, to) /\ to.pc = "ok"
    BY <1>0, <1>8, DoneMoved DEF WriteProps
  <2>3. Installing' /\ (base' = "bridge" => IsInstalled')
    BY <1>8, <2>1, <2>2 DEF Installing, Moved, WriteProps, IsInstalled
  <2> QED
    BY <1>0, <1>8, <2>1, <2>2, <2>3, CliTurn DEF WriteProps
<1> QED
  BY <1>2, <1>3, <1>4, <1>5, <1>6, <1>7, <1>8

LEMMA CommandBegins ==
  ASSUME ArmAssumption, ArmInv, UNCHANGED armFaults,
         \/ Begin(Cli, "install", "remove") \/ Begin(Cli, "uninstall", "remove")
         \/ Begin(Cli, "init", "look")
  PROVE  ArmInv'
<1>1. PICK to \in Agent : /\ Moved(Cli, to)
                          /\ to.pc = "remove" \/ (to.pc = "look" /\ to.op = "init")
  <2>1. Cli \in ArmCallers /\ ArmTypeOK
    BY Constants DEF ArmInv
  <2>2. CASE Begin(Cli, "install", "remove")
    BY <2>1, <2>2, BeginMoved
  <2>3. CASE Begin(Cli, "uninstall", "remove")
    BY <2>1, <2>3, BeginMoved
  <2>4. CASE Begin(Cli, "init", "look")
    BY <2>1, <2>4, BeginMoved
  <2> QED
    BY <2>2, <2>3, <2>4
<1>2. /\ "beside" \notin armFaults => Free(Starter)
      /\ UNCHANGED <<layer, copy, base, android>>
  BY Constants DEF Begin, MayBegin
<1>3. layer' \in Layers /\ base' \in Props
  BY <1>2, Typed DEF ArmInv
<1>4. Installing'
  BY <1>1 DEF Installing, Moved
<1> QED
  BY <1>1, <1>2, <1>3, <1>4, CliTurn DEF CommandAt

-----------------------------------------------------------------------------
(* A step of the container's start: the layer stays as it is. *)

LEMMA StarterTurn ==
  ASSUME ArmAssumption, ArmInv, NEW to \in Agent, Moved(Starter, to),
         to.pc \in StarterAt \/ (to.pc \in {"ok", "error"} /\ to.left = {}),
         "beside" \notin armFaults => Free(Cli) /\ Syncing',
         UNCHANGED <<layer, base, armFaults>>, copy' \in Layers,
         android' \in Androids, android'.is = "none" \/ to.pc \in {"ok", "error"},
         armFaults = {} => Mounted' /\ AdvertisedIsThere'
  PROVE  ArmInv'
<1>1. agent'[Starter] = to /\ agent'[Cli] = agent[Cli] /\ agent' \in [ArmCallers -> Agent]
  BY Constants DEF Moved
<1>2. ArmTypeOK'
  BY <1>1 DEF ArmInv, ArmTypeOK, Agent
<1>3. Free(Cli)' <=> Free(Cli)
  BY <1>1 DEF Free, On
<1>4. Free(Starter)' <=> to.pc \in {"ok", "error"}
  BY <1>1 DEF Free, On, StarterAt
<1>5. Working'
  BY <1>1, <1>3, <1>4 DEF Working, ArmInv, StarterAt
<1>6. Installing'
  BY <1>1 DEF Installing, ArmInv, Whole, IsInstalled
<1>7. armFaults = {} => Advertising'
  BY <1>1, <1>3 DEF Advertising, On, ArmInv, IsInstalled
<1> QED
  BY <1>2, <1>5, <1>6, <1>7 DEF ArmInv

LEMMA StarterRaises ==
  ASSUME ArmAssumption, ArmInv, ~Free(Starter), Raise(Starter), UNCHANGED armFaults
  PROVE  ArmInv'
<1>1. PICK to \in Agent : Moved(Starter, to) /\ to.pc = "error" /\ to.left = {}
  BY DoneMoved, Constants DEF Raise, ArmInv
<1>2. Syncing'
  BY <1>1 DEF Syncing, Moved
<1>3. "beside" \notin armFaults => Free(Cli)
  BY DEF ArmInv, Working
<1>4. android'.is = "none"
  BY DEF ArmInv, Working, Raise
<1>5. copy' \in Layers /\ android' \in Androids
  BY DEF ArmInv, ArmTypeOK, Raise
<1>6. Mounted' /\ AdvertisedIsThere'
  BY <1>4 DEF Mounted, AdvertisedIsThere
<1> QED
  BY <1>1, <1>2, <1>3, <1>5, <1>6, StarterTurn DEF Raise

LEMMA StartKeeps ==
  ASSUME ArmAssumption, ArmInv, UNCHANGED armFaults,
         StartContainer \/ Sync \/ MirrorFile \/ BootAndroid
  PROVE  ArmInv'
<1> DEFINE s == agent[Starter]
<1>0. /\ ArmTypeOK /\ layer \in Layers /\ copy \in Layers /\ base \in Props /\ s \in Agent
      /\ Starter \in ArmCallers
  BY Typed, Constants DEF ArmInv
<1>1. android.is = "none"
  BY DEF StartContainer, Sync, MirrorFile, BootAndroid, On, Free, ArmInv, Working
<1>6. ASSUME android' = android
      PROVE  android' \in Androids /\ android'.is = "none" /\ Mounted' /\ AdvertisedIsThere'
  BY <1>0, <1>1, <1>6 DEF ArmTypeOK, Mounted, AdvertisedIsThere
<1>2. CASE StartContainer
  <2>1. /\ UNCHANGED <<layer, copy, base, android>> /\ s.left = {}
        /\ "beside" \notin armFaults => Free(Cli)
    BY <1>2, Constants DEF StartContainer, Begin, MayBegin, ArmInv, Working
  <2>2. PICK to \in Agent : /\ Moved(Starter, to) /\ to.left = {} /\ to.todo = LayerDirs
                            /\ to.pc = IF IsInstalled THEN "sync" ELSE "boot"
    BY <1>0, <1>2, <2>1, BeginMoved DEF StartContainer
  <2>3. Syncing'
    BY <2>1, <2>2 DEF Syncing, Moved, LayerDirs, IsInstalled
  <2> QED
    BY <1>0, <1>6, <2>1, <2>2, <2>3, StarterTurn DEF StarterAt
<1>3. CASE Sync
  <2>0. /\ ~Free(Starter) /\ s.pc = "sync"
        /\ "beside" \notin armFaults =>
             /\ Free(Cli) /\ s.left = {} /\ s.todo \subseteq LayerDirs
             /\ \A f \in Files : DirOf[f] \in LayerDirs \ s.todo => copy[f] = layer[f]
    <3>1. ~Free(Starter) /\ s.pc = "sync"
      BY <1>3 DEF Sync, On, Free
    <3> QED
      BY <3>1 DEF ArmInv, Working, Syncing
  <2>1. CASE Raise(Starter)
    BY <2>0, <2>1, StarterRaises
  <2>2. CASE s.todo = {} /\ GoOn(Starter, "boot") /\ UNCHANGED <<layer, copy, base, android>>
    <3>1. PICK to \in Agent : Moved(Starter, to) /\ to.pc = "boot"
      BY <1>0, <2>2, GoOnMoved
    <3>2. "beside" \notin armFaults => Syncing'
      BY <2>0, <2>2, <3>1 DEF Syncing, Moved, LayerDirs
    <3> QED
      BY <1>0, <1>6, <2>0, <2>2, <3>1, <3>2, StarterTurn DEF StarterAt
  <2>3. ASSUME NEW d \in s.todo, Replace(d) PROVE ArmInv'
    <3> DEFINE left == {f \in Files : DirOf[f] = d /\ layer[f] # Absent}
               to == [s EXCEPT !.pc = "mirror", !.todo = @ \ {d}, !.left = left]
    <3>1. to \in Agent /\ to.pc = "mirror" /\ to.todo = s.todo \ {d} /\ to.left = left
      BY <1>0 DEF Agent
    <3>2. agent' = [agent EXCEPT ![Starter] = to]
      BY <2>3 DEF Replace, Mirror
    <3> HIDE DEF to
    <3>3. Moved(Starter, to)
      BY <1>0, <3>1, <3>2, Moves
    <3>4. UNCHANGED <<layer, base, android>>
          /\ copy' = [f \in Files |-> IF DirOf[f] = d THEN Absent ELSE copy[f]]
      BY <2>3 DEF Replace, Mirror
    <3>5. copy' \in Layers
      BY <1>0, <3>4 DEF Layers
    <3>6. "beside" \notin armFaults => Syncing'
      <4> SUFFICES ASSUME "beside" \notin armFaults PROVE Syncing'
        OBVIOUS
      <4>1. LayerDirs' = LayerDirs
        BY <3>4 DEF LayerDirs
      <4>2. \A f \in Files \ left : DirOf[f] \in LayerDirs \ (s.todo \ {d}) => copy'[f] = layer[f]
        BY <2>0, <3>4
      <4> QED
        BY <2>0, <3>1, <3>3, <3>4, <4>1, <4>2 DEF Syncing, Moved
    <3> QED
      BY <1>0, <1>6, <2>0, <3>1, <3>3, <3>4, <3>5, <3>6, StarterTurn DEF StarterAt
  <2> QED
    BY <1>3, <2>1, <2>2, <2>3 DEF Sync
<1>4. CASE MirrorFile
  <2>0. /\ ~Free(Starter) /\ s.pc = "mirror" /\ s.left \subseteq Files
        /\ "beside" \notin armFaults =>
             /\ Free(Cli) /\ s.todo \subseteq LayerDirs /\ \A f \in s.left : layer[f] # Absent
             /\ \A f \in Files \ s.left : DirOf[f] \in LayerDirs \ s.todo => copy[f] = layer[f]
    <3>1. ~Free(Starter) /\ s.pc = "mirror"
      BY <1>4 DEF MirrorFile, On, Free
    <3> QED
      BY <1>0, <3>1 DEF ArmInv, Working, Syncing, Agent
  <2>1. CASE Raise(Starter)
    BY <2>0, <2>1, StarterRaises
  <2>2. CASE s.left = {} /\ GoOn(Starter, "sync") /\ UNCHANGED <<layer, copy, base, android>>
    <3>1. PICK to \in Agent : Moved(Starter, to) /\ to.pc = "sync" /\ to.todo = s.todo
                              /\ to.left = {}
      BY <1>0, <2>2, GoOnMoved
    <3>2. "beside" \notin armFaults => Syncing'
      BY <2>0, <2>2, <3>1 DEF Syncing, Moved, LayerDirs
    <3> QED
      BY <1>0, <1>6, <2>0, <2>2, <3>1, <3>2, StarterTurn DEF StarterAt
  <2>3. ASSUME NEW f \in s.left, copy' = [copy EXCEPT ![f] = layer[f]],
               agent' = [agent EXCEPT ![Starter].left = @ \ {f}],
               UNCHANGED <<layer, base, android>>
        PROVE  ArmInv'
    <3> DEFINE to == [s EXCEPT !.left = @ \ {f}]
    <3>1. to \in Agent /\ to.pc = "mirror" /\ to.todo = s.todo /\ to.left = s.left \ {f}
      BY <1>0, <2>0 DEF Agent
    <3>2. agent' = [agent EXCEPT ![Starter] = to]
      BY <2>3
    <3> HIDE DEF to
    <3>3. Moved(Starter, to)
      BY <1>0, <3>1, <3>2, Moves
    <3>4. copy' \in Layers /\ \A g \in Files : copy'[g] = IF g = f THEN layer[f] ELSE copy[g]
      BY <1>0, <2>0, <2>3 DEF Layers
    <3>5. "beside" \notin armFaults => Syncing'
      <4>1. LayerDirs' = LayerDirs
        BY <2>3 DEF LayerDirs
      <4> QED
        BY <2>0, <2>3, <3>1, <3>3, <3>4, <4>1 DEF Syncing, Moved
    <3> QED
      BY <1>0, <1>6, <2>0, <2>3, <3>1, <3>3, <3>4, <3>5, StarterTurn DEF StarterAt
  <2> QED
    BY <1>4, <2>1, <2>2, <2>3 DEF MirrorFile
<1>5. CASE BootAndroid
  <2>0. ~Free(Starter) /\ s.pc = "boot"
    BY <1>5 DEF BootAndroid, On, Free
  <2>1. CASE Raise(Starter)
    BY <2>0, <2>1, StarterRaises
  <2>2. CASE /\ android' = [is |-> "up", props |-> base, files |-> copy]
             /\ Done(Starter, "ok")
             /\ UNCHANGED <<layer, copy, base>>
    <3>1. PICK to \in Agent : Moved(Starter, to) /\ to.pc = "ok" /\ to.left = {}
      BY <1>0, <2>2, DoneMoved
    <3>2. Syncing'
      BY <3>1 DEF Syncing, Moved
    <3>3. "beside" \notin armFaults => Free(Cli)
      BY <2>0 DEF ArmInv, Working
    <3>4. armFaults = {} => Mounted' /\ AdvertisedIsThere'
      <4> SUFFICES ASSUME armFaults = {}, base = "bridge", NEW f \in Required
                   PROVE  copy[f] # Absent
        BY <2>2 DEF Mounted, AdvertisedIsThere
      <4>1. IsInstalled
        BY <3>3 DEF ArmInv, Advertising
      <4>2. f \in Files /\ layer[f] # Absent
        BY <4>1, Constants DEF IsInstalled
      <4>3. DirOf[f] \in LayerDirs
        BY <4>2 DEF LayerDirs
      <4> QED
        BY <2>0, <4>1, <4>2, <4>3 DEF ArmInv, Syncing
    <3>5. android' \in Androids
      BY <1>0, <2>2 DEF Androids
    <3> QED
      BY <1>0, <2>2, <3>1, <3>2, <3>3, <3>4, <3>5, StarterTurn
  <2> QED
    BY <1>5, <2>1, <2>2 DEF BootAndroid
<1> QED
  BY <1>2, <1>3, <1>4, <1>5

-----------------------------------------------------------------------------
(* Only the session and Android have gone on. *)
LEMMA AndroidKeeps ==
  ASSUME ArmAssumption, ArmInv, AndroidStep, UNCHANGED armFaults
  PROVE  ArmInv'
<1>1. UNCHANGED <<layer, copy, base, agent, armFaults>>
  BY DEF AndroidStep, StopContainer, Die, Halt, Restart, GuestUpgrade
<1>2. android \in Androids /\ copy \in Layers /\ base \in Props /\ Empty \in Layers
  BY DEF ArmInv, ArmTypeOK, Empty, Layers
<1>3. android' \in Androids /\ (android.is = "none" => android'.is = "none")
  <2>1. CASE StopContainer
    BY <1>2, <2>1 DEF StopContainer, NoSession, Androids, Props
  <2>2. CASE Die
    BY <1>2, <2>2 DEF Die, Androids
  <2>3. CASE Halt
    BY <1>2, <2>3 DEF Halt, Androids
  <2>4. CASE Restart
    BY <1>2, <2>4 DEF Restart, Androids
  <2>5. CASE GuestUpgrade
    <3>1. android.is = "up" /\ base \in Props
      BY <1>2, <2>5 DEF GuestUpgrade
    <3>2. CASE base = "empty"
      BY <1>2, <2>5, <3>1, <3>2 DEF GuestUpgrade, Androids
    <3>3. CASE base # "empty"
      BY <1>2, <2>5, <3>1, <3>3 DEF GuestUpgrade, Androids
    <3> QED
      BY <3>2, <3>3
  <2> QED
    BY <2>1, <2>2, <2>3, <2>4, <2>5 DEF AndroidStep
<1>4. ArmTypeOK' /\ Working'
  BY <1>1, <1>3 DEF ArmInv, ArmTypeOK, Working, Free, On
<1>5. armFaults = {} => Mounted' /\ AdvertisedIsThere'
  <2> SUFFICES ASSUME armFaults = {}, android'.is # "none", android'.props = "bridge",
                      NEW f \in Required
               PROVE  copy[f] # Absent /\ (android'.is = "up" => android'.files[f] # Absent)
    BY <1>1 DEF Mounted, AdvertisedIsThere
  <2>1. ASSUME Die \/ Halt
        PROVE  android'.props = android.props /\ android.is # "none" /\ android'.is # "up"
    BY <1>2, <2>1 DEF Die, Halt, Androids
  <2>2. ASSUME Restart
        PROVE  android'.props = android.props /\ android.is # "none" /\ android'.files = copy
    BY <1>2, <2>2 DEF Restart, Androids
  <2>3. ~StopContainer /\ ~GuestUpgrade
    BY DEF StopContainer, NoSession, GuestUpgrade
  <2>4. android.props = "bridge" /\ android.is # "none"
        /\ (android'.is = "up" => android'.files = copy)
    BY <2>1, <2>2, <2>3 DEF AndroidStep
  <2> QED
    BY <2>4 DEF ArmInv, Advertising, Mounted
<1> QED
  BY <1>1, <1>4, <1>5
     DEF ArmInv, Installing, Syncing, Advertising, Free, On, Whole, IsInstalled, LayerDirs

LEMMA ArmStep ==
  ASSUME ArmAssumption, ArmInv, [ArmNext]_armVars
  PROVE  ArmInv'
<1>1. CASE UNCHANGED armVars
  BY <1>1
     DEF armVars, ArmInv, ArmTypeOK, Working, Installing, Syncing, Advertising, Free, On,
              Whole, IsInstalled, LayerDirs, Mounted, AdvertisedIsThere
<1>2. ASSUME NEW p \in ArmCallers, ArmKill(p), UNCHANGED armFaults PROVE ArmInv'
  <2>1. CASE p = Cli
    BY <1>2, <2>1, CliRaises DEF ArmKill
  <2>2. CASE p = Starter
    BY <1>2, <2>2, StarterRaises DEF ArmKill
  <2> QED
    BY <2>1, <2>2 DEF ArmCallers
<1> QED
  BY <1>1, <1>2, AndroidKeeps, InstallKeeps, CommandBegins, StartKeeps DEF ArmNext

LEMMA ArmInvHolds == ASSUME ArmAssumption PROVE ArmSpec => []ArmInv
<1>1. ArmInit => ArmInv
  <2> SUFFICES ASSUME ArmInit PROVE ArmInv
    OBVIOUS
  <2>1. Empty \in Layers /\ NoSession \in Androids
    BY DEF Empty, Layers, NoSession, Androids, Props
  <2>2. ArmTypeOK
    BY <2>1, Constants DEF ArmInit, ArmTypeOK, Agent, Props
  <2>3. \A p \in ArmCallers : agent[p].pc = "idle" /\ agent[p].left = {}
    BY DEF ArmInit, NoAgent
  <2> QED
    BY <2>2, <2>3, Constants
       DEF ArmInit, ArmInv, Working, Installing, Syncing, Advertising, Free, On,
           Mounted, AdvertisedIsThere, NoSession
<1> QED
  BY <1>1, ArmStep, PTL DEF ArmSpec

\* The layer, its copy and whoever works on them stay well typed.
THEOREM Typing == ASSUME ArmAssumption PROVE ArmSpec => []ArmTypeOK
<1>1. ArmInv => ArmTypeOK
  BY DEF ArmInv
<1> QED
  BY <1>1, ArmInvHolds, PTL

\* Android is told of a native bridge only when the overlay it boots with has the
\* libraries, at the start of a session and at each restart in it, whatever has been
\* installed and uninstalled meanwhile, as long as nothing fails
\* (tools/helpers/arm_translation.py).
THEOREM AdvertisedSafety == ASSUME ArmAssumption PROVE ArmSpec => []AdvertisedIsThere
<1>1. ArmInv => AdvertisedIsThere
  BY DEF ArmInv, Advertising, AdvertisedIsThere
<1> QED
  BY <1>1, ArmInvHolds, PTL

\* A session that starts with a layer installed boots with a whole copy of it, over
\* whatever earlier layers, sessions and starts that failed half way have left there
\* (tools/helpers/lxc.py, do_start's sync_to_overlay).
THEOREM BootSafety == ASSUME ArmAssumption PROVE ArmSpec => BootsWithTheLayer
<1> DEFINE Boots == (android.is = "none" /\ android'.is = "up" /\ IsInstalled /\ "beside" \notin armFaults)
                      => \A f \in Files : DirOf[f] \in LayerDirs => android'.files[f] = layer[f]
<1>1. ArmInv /\ [ArmNext]_armVars => [Boots]_armVars
  <2> SUFFICES ASSUME ArmInv, ArmNext, android.is = "none", android'.is = "up", IsInstalled,
                      "beside" \notin armFaults, NEW f \in Files, DirOf[f] \in LayerDirs
               PROVE  android'.files[f] = layer[f]
    OBVIOUS
  <2>1. BootAndroid /\ base # "empty" /\ android' = [is |-> "up", props |-> base, files |-> copy]
    BY DEF ArmNext, Begin, RemoveLayer, Obtain, CopyFile, Check, Discard, Look, WriteProps,
           StartContainer, Sync, Replace, Mirror, MirrorFile, BootAndroid, ArmKill, Raise,
           AndroidStep, StopContainer, Die, Halt, Restart, GuestUpgrade, NoSession
  <2> QED
    BY <2>1 DEF BootAndroid, On, ArmInv, Syncing
<1>2. ArmSpec => [][Boots]_armVars
  BY <1>1, ArmInvHolds, PTL DEF ArmSpec
<1>3. ArmSpec =>
        [][(android.is = "none" /\ android'.is = "up" /\ IsInstalled /\ "beside" \notin armFaults)
             => \A f \in Files : DirOf[f] \in LayerDirs => android'.files[f] = layer[f]]_armVars
  BY <1>2
<1> QED
  BY <1>3 DEF BootsWithTheLayer

LEMMA CliStays ==
  ASSUME ArmAssumption, ArmTypeOK,
         StartContainer \/ Sync \/ MirrorFile \/ BootAndroid \/ AndroidStep \/ ArmKill(Starter)
  PROVE  agent'[Cli] = agent[Cli]
<1>1. Cli # Starter /\ Cli \in ArmCallers /\ agent \in [ArmCallers -> Agent]
  BY Constants, Typed
<1>2. ASSUME NEW to, agent' = [agent EXCEPT ![Starter] = to] PROVE agent'[Cli] = agent[Cli]
  BY <1>1, <1>2
<1> QED
  BY <1>1, <1>2
     DEF StartContainer, Begin, Sync, Replace, Mirror, MirrorFile, BootAndroid, ArmKill,
         Raise, GoOn, Done, AndroidStep, StopContainer, Die, Halt, Restart, GuestUpgrade

\* An installation that returns has left exactly what it was given, and one that is
\* refused nothing (tools/actions/arm_translation.py, install).
THEOREM InstallSafety == ASSUME ArmAssumption PROVE ArmSpec => InstallIsAllOrNothing
<1> DEFINE Left == (On(Cli, "write") /\ agent'[Cli].pc = "ok" /\ agent[Cli].op = "install")
                     => /\ \A f \in Files : layer'[f] = IF f \in Contents[agent[Cli].from]
                                                        THEN agent[Cli].from ELSE Absent
                        /\ base' = "bridge"
           Refused == ("kill" \notin armFaults /\ agent'[Cli].pc = "error"
                         /\ (On(Cli, "check") \/ On(Cli, "discard")))
                        => layer' = Empty
<1>1. ArmInv /\ [ArmNext]_armVars => [Left]_armVars
  <2> SUFFICES ASSUME ArmInv, ArmNext, On(Cli, "write"), agent'[Cli].pc = "ok",
                      agent[Cli].op = "install"
               PROVE  /\ \A f \in Files : layer'[f] = IF f \in Contents[agent[Cli].from]
                                                      THEN agent[Cli].from ELSE Absent
                      /\ base' = "bridge"
    OBVIOUS
  <2>1. WriteProps(Cli)
    <3>1. agent'[Cli] # agent[Cli] /\ ArmTypeOK /\ ~Free(Cli)
      BY DEF On, ArmInv, Free
    <3>2. ~ArmKill(Cli)
      <4>1. ASSUME Done(Cli, "error") PROVE FALSE
        BY <3>1, <4>1, DoneMoved, Constants DEF Moved
      <4> QED
        BY <4>1 DEF ArmKill, Raise
    <3> QED
      BY <3>1, <3>2, CliStays
         DEF ArmNext, ArmCallers, Begin, RemoveLayer, Obtain, CopyFile, Check, Discard, Look, On
  <2> QED
    BY <2>1 DEF WriteProps, On, ArmInv, Installing, Whole
<1>2. ArmInv /\ [ArmNext]_armVars => [Refused]_armVars
  <2> SUFFICES ASSUME ArmInv, ArmNext, "kill" \notin armFaults, agent'[Cli].pc = "error",
                      On(Cli, "check") \/ On(Cli, "discard")
               PROVE  layer' = Empty
    OBVIOUS
  <2>1. Check(Cli) \/ Discard(Cli)
    <3>1. agent'[Cli] # agent[Cli] /\ ArmTypeOK /\ ~Free(Cli)
      BY DEF On, ArmInv, Free
    <3> QED
      BY <3>1, CliStays
        
            DEF ArmNext, ArmCallers, ArmKill, Begin, RemoveLayer, Obtain, CopyFile, Look,
                WriteProps, On
  <2>2. ~Check(Cli)
    <3>1. ASSUME NEW pc \in {"look", "discard"}, GoOn(Cli, pc) PROVE FALSE
      BY <3>1, GoOnMoved, Constants DEF ArmInv, Moved
    <3> QED
      BY <3>1 DEF Check
  <2> QED
    BY <2>1, <2>2 DEF Discard, On
<1>3. ArmSpec => [][Left]_armVars /\ [][Refused]_armVars
  BY <1>1, <1>2, ArmInvHolds, PTL DEF ArmSpec
<1>4. ArmSpec =>
        /\ [][(On(Cli, "write") /\ agent'[Cli].pc = "ok" /\ agent[Cli].op = "install")
                => /\ \A f \in Files : layer'[f] = IF f \in Contents[agent[Cli].from]
                                                   THEN agent[Cli].from ELSE Absent
                   /\ base' = "bridge"]_armVars
        /\ [][("kill" \notin armFaults /\ agent'[Cli].pc = "error"
                 /\ (On(Cli, "check") \/ On(Cli, "discard")))
                => layer' = Empty]_armVars
  BY <1>3
<1> QED
  BY <1>4 DEF InstallIsAllOrNothing, InstalledIsWhole, RefusedLeavesNothing
=============================================================================
