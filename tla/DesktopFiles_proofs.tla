------------------------- MODULE DesktopFiles_proofs -------------------------
(***************************************************************************)
(* MigratedEntirely and FilesAreTheApps for any packages.  The sequence of *)
(* messages on their way is what relates the files to the packages: a      *)
(* package whose file is not what it should be is the subject of a message *)
(* or of what the monitor has left to do.                                  *)
(***************************************************************************)
EXTENDS DesktopFiles, SequenceTheorems, TLAPS

\* What is left to migrate are files.
MigratesFiles == In("migrate") => monitor.left \subseteq Existing

\* An old action is in a file that the migration has not come to.
Migrating == In("migrate") => \A p \in Existing : OldAction \in files[p] => p \in monitor.left

\* An app whose state has changed is written alone.
WritesOne == In("write") => monitor.left = {} \/ \E p \in Packages : monitor.left = {p}

About(note, p) == note # Unlocked /\ note.package = p
Announced(p)   == \E i \in 1..Len(notes) : About(notes[i], p)

\* The last message about a package says whether it is there now.
LastIsTrue ==
  \A p \in Packages : \A i \in 1..Len(notes) :
    About(notes[i], p) /\ (\A j \in (i+1)..Len(notes) : ~About(notes[j], p))
      => (notes[i].removed <=> packages[p] = "absent")

OffHearsNothing == In("off") => notes = <<>>

\* The file of a package is there if the package has a launcher.
Right(p) == files[p] # NoFile <=> packages[p] = "launcher"

\* What the monitor knows of a package is true, unless a message is on its way.
Known(p) == monitor.info[p] = packages[p]

Agrees ==
  /\ In("idle") /\ monitor.synced => \A p \in Packages : Announced(p) \/ Right(p)
  /\ In("write") /\ monitor.synced =>
       \A p \in Packages : Announced(p) \/ IF p \in monitor.left THEN Known(p) ELSE Right(p)
  /\ In("update") =>
       \A p \in Packages :
         \/ Announced(p)
         \/ Known(p) /\ (p \in monitor.left \/ packages[p] = "absent" \/ Right(p))
  /\ In("prune") =>
       \A p \in Packages :
         Announced(p) \/ IF p \in monitor.left THEN packages[p] = "absent" ELSE Right(p)

USE DEF Info, In

Pcs == {"off", "idle", "migrate", "ask", "update", "prune", "write"}
Monitors == [pc : Pcs, synced : BOOLEAN, info : [Packages -> Info], left : SUBSET Packages]

Files    == [Packages -> {NoFile} \cup SUBSET {OldAction, NewAction}]

Types == /\ monitor \in Monitors /\ packages \in [Packages -> Info] /\ files \in Files
         /\ notes \in Seq(Changed \cup {Unlocked})

Structure == Types /\ MigratesFiles /\ WritesOne

\* The monitor's fields after a step.
Step(pc, synced, info, left) ==
  /\ monitor' \in Monitors
  /\ monitor'.pc = pc /\ monitor'.synced = synced /\ monitor'.info = info
  /\ monitor'.left = left

\* It has gone elsewhere, with other things to do or with none.
LEMMA Gone ==
  ASSUME monitor \in Monitors, NEW pc \in Pcs, NEW left \in SUBSET Packages,
         monitor' = [monitor EXCEPT !.pc = pc, !.left = left]
  PROVE  Step(pc, monitor.synced, monitor.info, left)
BY DEF Monitors, Step

\* It has learnt what packages there are, or what one of them is.
LEMMA Learnt ==
  ASSUME monitor \in Monitors, NEW pc \in Pcs, NEW info \in [Packages -> Info],
         NEW left \in SUBSET Packages,
         monitor' = [monitor EXCEPT !.pc = pc, !.info = info, !.left = left]
  PROVE  Step(pc, monitor.synced, info, left)
BY DEF Monitors, Step

\* It has done one of the things it had left.
LEMMA Done ==
  ASSUME monitor \in Monitors, NEW p, Remaining(p)
  PROVE  Step(monitor.pc, monitor.synced, monitor.info, monitor.left \ {p})
BY DEF Monitors, Step, Remaining

\* What updateDesktopFile leaves.
LEMMA UpdatedFile ==
  ASSUME DesktopAssumption, Types, NEW p \in Packages, NEW info \in Info
  PROVE  /\ Updated(p, info) \in Files
         /\ Updated(p, info)[p] # NoFile <=> info = "launcher"
         /\ \A q \in Packages \ {p} : Updated(p, info)[q] = files[q]
         /\ (OldAction \in Updated(p, info)[p] /\ Updated(p, info)[p] # NoFile)
              => files[p] # NoFile /\ OldAction \in files[p]
<1>1. CASE info # "launcher"
  <2>1. Updated(p, info) = [files EXCEPT ![p] = NoFile]
    BY <1>1 DEF Updated
  <2>2. files \in [Packages -> {NoFile} \cup SUBSET {OldAction, NewAction}]
    BY DEF Types, Files
  <2> QED
    BY <1>1, <2>1, <2>2 DEF Files
<1>2. CASE info = "launcher"
  <2>1. (IF files[p] = NoFile THEN {} ELSE files[p]) \cup {NewAction} \in SUBSET {OldAction, NewAction}
    BY DEF Types, Files
  <2>2. Updated(p, info) = [files EXCEPT ![p] =
                              (IF files[p] = NoFile THEN {} ELSE files[p]) \cup {NewAction}]
    BY <1>2 DEF Updated
  <2>3. files \in [Packages -> {NoFile} \cup SUBSET {OldAction, NewAction}]
    BY DEF Types, Files
  <2>4. DEFINE set == (IF files[p] = NoFile THEN {} ELSE files[p]) \cup {NewAction}
  <2>5. set # NoFile
    BY <2>1 DEF DesktopAssumption
  <2>6. OldAction \in set => files[p] # NoFile /\ OldAction \in files[p]
    BY DEF OldAction, NewAction
  <2> HIDE DEF set
  <2>7. Updated(p, info) = [files EXCEPT ![p] = set] /\ set \in SUBSET {OldAction, NewAction}
    BY <2>1, <2>2 DEF set
  <2> QED
    BY <1>2, <2>3, <2>5, <2>6, <2>7 DEF Files
<1> QED
  BY <1>1, <1>2

-----------------------------------------------------------------------------
(* What each step does.                                                     *)

LEMMA BootStep ==
  ASSUME Boot \/ EndSession
  PROVE  /\ monitor' \in Monitors /\ ~monitor'.synced /\ monitor'.left = {}
         /\ monitor'.pc \in {"off", "idle"} /\ (monitor'.pc = "off" => notes' = <<>>)
         /\ notes' \in Seq(Changed \cup {Unlocked})
         /\ \A i \in 1..Len(notes') : notes'[i] = Unlocked
         /\ UNCHANGED <<packages, files, migrated>>
<1>1. Off \in Monitors /\ Off.pc = "off" /\ Off.left = {} /\ ~Off.synced
  BY DEF Off, Monitors, Pcs
<1>2. <<>> \in Seq(Changed \cup {Unlocked}) /\ <<Unlocked>> \in Seq(Changed \cup {Unlocked})
  OBVIOUS
<1>3. CASE Boot
  <2>1. monitor' = [Off EXCEPT !.pc = "idle"] /\ notes' = <<Unlocked>>
    BY <1>3 DEF Boot
  <2>2. monitor' \in Monitors /\ monitor'.pc = "idle" /\ monitor'.left = {} /\ ~monitor'.synced
    BY <1>1, <2>1 DEF Monitors, Pcs
  <2>3. \A i \in 1..Len(<<Unlocked>>) : <<Unlocked>>[i] = Unlocked
    OBVIOUS
  <2> QED
    BY <1>2, <1>3, <2>1, <2>2, <2>3 DEF Boot
<1>4. CASE EndSession
  BY <1>1, <1>2, <1>4 DEF EndSession
<1> QED
  BY <1>3, <1>4

LEMMA UnlockedStep ==
  ASSUME Types, UserUnlocked
  PROVE  /\ \/ ~migrated /\ Step("migrate", monitor.synced, monitor.info, Existing)
            \/ Step("ask", monitor.synced, monitor.info, {})
         /\ notes # <<>> /\ notes' = Tail(notes) /\ Head(notes) = Unlocked
         /\ UNCHANGED <<packages, files, migrated>>
<1>1. Existing \in SUBSET Packages /\ {} \in SUBSET Packages /\ "migrate" \in Pcs /\ "ask" \in Pcs
  BY DEF Existing, Pcs
<1>2. CASE Existing # {} /\ ~migrated
  <2>0. monitor' = [monitor EXCEPT !.pc = "migrate", !.left = Existing]
    BY <1>2 DEF UserUnlocked
  <2>1. Step("migrate", monitor.synced, monitor.info, Existing)
    BY <1>1, <2>0, Gone DEF Types
  <2> QED
    BY <2>1, <1>2 DEF UserUnlocked
<1>3. CASE ~(Existing # {} /\ ~migrated)
  <2>0. monitor' = GotoPc("ask")
    BY <1>3 DEF UserUnlocked
  <2>1. Step("ask", monitor.synced, monitor.info, {})
    BY <1>1, <2>0, Gone DEF Types, GotoPc
  <2> QED
    BY <2>1 DEF UserUnlocked
<1> QED
  BY <1>2, <1>3 DEF UserUnlocked


LEMMA MigrateStep ==
  ASSUME Types, Migrate
  PROVE  /\ In("migrate") /\ UNCHANGED <<packages, notes>>
         /\ \/ \E p \in monitor.left :
                 /\ files' = [files EXCEPT ![p] = @ \ {OldAction}]
                 /\ Step("migrate", monitor.synced, monitor.info, monitor.left \ {p})
                 /\ UNCHANGED migrated
            \/ /\ monitor.left = {} /\ files' = files /\ migrated' = TRUE
               /\ Step("ask", monitor.synced, monitor.info, {})
<1>1. ASSUME NEW p \in monitor.left, Remaining(p)
      PROVE  Step("migrate", monitor.synced, monitor.info, monitor.left \ {p})
  BY <1>1, Done DEF Migrate, Types
<1>2. ASSUME monitor' = GotoPc("ask")
      PROVE  Step("ask", monitor.synced, monitor.info, {})
  <2>1. "ask" \in Pcs /\ {} \in SUBSET Packages
    BY DEF Pcs
  <2> QED
    BY <1>2, <2>1, Gone DEF GotoPc, Types
<1> QED
  BY <1>1, <1>2 DEF Migrate

LEMMA AskStep ==
  ASSUME Types, AskApps
  PROVE  /\ \/ \E info \in [Packages -> Info] :
                 /\ "silent" \notin desktopFaults => info = packages
                 /\ Step("update", monitor.synced, info, {p \in Packages : info[p] # "absent"})
            \/ /\ "silent" \in desktopFaults
               /\ Step("idle", monitor.synced, monitor.info, {})
         /\ UNCHANGED <<packages, notes, files, migrated>>
<1>1. "update" \in Pcs /\ "idle" \in Pcs /\ {} \in SUBSET Packages /\ Off.info \in [Packages -> Info]
  BY DEF Pcs, Off
<1>2. ASSUME NEW info \in {packages} \cup IF "silent" \in desktopFaults THEN {Off.info} ELSE {},
             monitor' = [monitor EXCEPT !.pc = "update", !.info = info,
                        !.left = {p \in Packages : info[p] # "absent"}]
      PROVE  /\ info \in [Packages -> Info] /\ ("silent" \notin desktopFaults => info = packages)
             /\ Step("update", monitor.synced, info, {p \in Packages : info[p] # "absent"})
  <2>1. info \in [Packages -> Info] /\ ("silent" \notin desktopFaults => info = packages)
    BY <1>1, <1>2 DEF Types
  <2>2. {p \in Packages : info[p] # "absent"} \in SUBSET Packages
    OBVIOUS
  <2> QED
    BY <1>1, <1>2, <2>1, <2>2, Learnt DEF Types
<1>3. ASSUME monitor' = GotoPc("idle")
      PROVE  Step("idle", monitor.synced, monitor.info, {})
  BY <1>1, <1>3, Gone DEF GotoPc, Types
<1> QED
  BY <1>2, <1>3 DEF AskApps

LEMMA UpdateStep ==
  ASSUME Types, Update
  PROVE  /\ In("update") /\ UNCHANGED <<packages, notes, migrated>>
         /\ \/ \E p \in monitor.left :
                 /\ files' = Updated(p, monitor.info[p])
                 /\ Step("update", monitor.synced, monitor.info, monitor.left \ {p})
            \/ /\ monitor.left = {} /\ files' = files
               /\ Step("prune", monitor.synced, monitor.info,
                       {p \in Existing : monitor.info[p] = "absent"})
<1>1. ASSUME NEW p \in monitor.left, Remaining(p)
      PROVE  Step("update", monitor.synced, monitor.info, monitor.left \ {p})
  BY <1>1, Done DEF Update, Types
<1> DEFINE gone == {p \in Existing : monitor.info[p] = "absent"}
<1>2. ASSUME monitor' = [monitor EXCEPT !.pc = "prune", !.left = gone]
      PROVE  Step("prune", monitor.synced, monitor.info, gone)
  <2>1. "prune" \in Pcs /\ gone \in SUBSET Packages
    BY DEF Pcs, Existing
  <2> HIDE DEF gone
  <2> QED
    BY <1>2, <2>1, Gone DEF Types
<1> QED
  BY <1>1, <1>2 DEF Update

LEMMA PruneStep ==
  ASSUME Types, Prune
  PROVE  /\ In("prune") /\ UNCHANGED <<packages, notes, migrated>>
         /\ \/ \E p \in monitor.left :
                 /\ files' = [files EXCEPT ![p] = NoFile]
                 /\ Step("prune", monitor.synced, monitor.info, monitor.left \ {p})
            \/ /\ monitor.left = {} /\ files' = files
               /\ Step("idle", TRUE, monitor.info, {})
<1>1. ASSUME monitor.left = {}, monitor' = [monitor EXCEPT !.pc = "idle", !.synced = TRUE]
      PROVE  Step("idle", TRUE, monitor.info, {})
  BY <1>1 DEF Step, Types, Monitors, Pcs
<1>2. ASSUME NEW p \in monitor.left, Remaining(p)
      PROVE  Step("prune", monitor.synced, monitor.info, monitor.left \ {p})
  BY <1>2, Done DEF Prune, Types
<1> QED
  BY <1>1, <1>2 DEF Prune

LEMMA ChangedStep ==
  ASSUME Types, PackageStateChanged
  PROVE  /\ In("idle") /\ notes # <<>> /\ notes' = Tail(notes)
         /\ Head(notes) \in Changed /\ Head(notes) # Unlocked
         /\ UNCHANGED <<packages, migrated>>
         /\ \/ /\ Head(notes).removed /\ monitor' = monitor
               /\ files' = [files EXCEPT ![Head(notes).package] = NoFile]
            \/ /\ ~Head(notes).removed /\ files' = files
               /\ \E info \in Info :
                    /\ "silent" \notin desktopFaults => info = packages[Head(notes).package]
                    /\ Step("write", monitor.synced,
                            [monitor.info EXCEPT ![Head(notes).package] = info],
                            IF info = "absent" THEN {} ELSE {Head(notes).package})
<1> DEFINE p == Head(notes).package
<1>1. Head(notes) \in Changed /\ p \in Packages
  <2>1. notes \in Seq(Changed \cup {Unlocked}) /\ notes # <<>> /\ Head(notes) # Unlocked
    BY DEF PackageStateChanged, Types
  <2>2. Head(notes) \in Changed \cup {Unlocked}
    BY <2>1, HeadTailProperties
  <2> QED
    BY <2>1, <2>2 DEF Changed
<1>2. ASSUME NEW info \in {packages[p]} \cup IF "silent" \in desktopFaults THEN {"absent"} ELSE {},
             monitor' = [monitor EXCEPT !.pc = "write", !.info[p] = info,
                                        !.left = IF info = "absent" THEN {} ELSE {p}]
      PROVE  /\ info \in Info /\ ("silent" \notin desktopFaults => info = packages[p])
             /\ Step("write", monitor.synced, [monitor.info EXCEPT ![p] = info],
                     IF info = "absent" THEN {} ELSE {p})
  <2>1. info \in Info /\ ("silent" \notin desktopFaults => info = packages[p])
    BY <1>1, <1>2 DEF Types
  <2> DEFINE infos == [monitor.info EXCEPT ![p] = info]
             left  == IF info = "absent" THEN {} ELSE {p}
  <2>2. infos \in [Packages -> Info] /\ left \in SUBSET Packages /\ "write" \in Pcs
    BY <1>1, <2>1 DEF Types, Monitors, Pcs
  <2>3. monitor' = [monitor EXCEPT !.pc = "write", !.info = infos, !.left = left]
    BY <1>2
  <2> HIDE DEF infos, left
  <2>4. Step("write", monitor.synced, infos, left)
    BY <2>2, <2>3, Learnt DEF Types
  <2> QED
    BY <2>1, <2>4 DEF infos, left
<1> QED
  BY <1>1, <1>2 DEF PackageStateChanged

LEMMA WriteStep ==
  ASSUME Types, WritesOne, Write
  PROVE  /\ In("write") /\ UNCHANGED <<packages, notes, migrated>>
         /\ Step("idle", monitor.synced, monitor.info, {})
         /\ \/ monitor.left = {} /\ files' = files
            \/ \E p \in Packages : monitor.left = {p} /\ files' = Updated(p, monitor.info[p])
<1>1. Step("idle", monitor.synced, monitor.info, {})
  <2>1. "idle" \in Pcs /\ {} \in SUBSET Packages /\ monitor' = GotoPc("idle")
    BY DEF Pcs, Write
  <2> QED
    BY <2>1, Gone DEF GotoPc, Types
<1>2. ASSUME NEW p \in Packages, monitor.left = {p}
      PROVE  files' = Updated(p, monitor.info[p])
  <2>1. (CHOOSE q \in monitor.left : TRUE) = p
    BY <1>2
  <2> QED
    BY <1>2, <2>1 DEF Write
<1> QED
  BY <1>1, <1>2 DEF Write, WritesOne

-----------------------------------------------------------------------------
(* Types, and the migration. *)

\* Every step keeps the state well typed, migrates only files that exist and
\* writes at most one app at a time.
LEMMA StructureStays == DesktopAssumption /\ Structure /\ [DesktopNext]_desktopVars => Structure'
<1> SUFFICES ASSUME DesktopAssumption, Structure, [DesktopNext]_desktopVars
             PROVE  Structure'
  OBVIOUS
<1> USE DEF Structure
<1>1. CASE Boot \/ EndSession
  BY <1>1, BootStep DEF Types, MigratesFiles, WritesOne
<1>2. ASSUME NEW p \in Packages, NEW info \in Info, Change(p, info)
      PROVE  Structure'
  <2>1. /\ UNCHANGED <<files, migrated, monitor>> /\ packages' \in [Packages -> Info]
        /\ notes' \in {notes, Append(notes, [package |-> p, removed |-> info = "absent"])}
    BY <1>2 DEF Change, Types
  <2>2. [package |-> p, removed |-> info = "absent"] \in Changed
    BY DEF Changed
  <2>3. notes' \in Seq(Changed \cup {Unlocked})
    BY <2>1, <2>2, AppendProperties DEF Types
  <2> QED
    BY <2>1, <2>3 DEF Types, MigratesFiles, WritesOne, Existing
<1>3. CASE UserUnlocked
  <2>1. notes' \in Seq(Changed \cup {Unlocked})
    BY <1>3, UnlockedStep, HeadTailProperties DEF Types
  <2> QED
    BY <1>3, <2>1, UnlockedStep DEF Types, MigratesFiles, WritesOne, Existing, Step
<1>4. CASE Migrate
  <2>1. ASSUME NEW p \in monitor.left, files' = [files EXCEPT ![p] = @ \ {OldAction}],
               Step("migrate", monitor.synced, monitor.info, monitor.left \ {p})
        PROVE  Structure'
    <3>1. /\ files \in [Packages -> {NoFile} \cup SUBSET {OldAction, NewAction}]
          /\ p \in Packages /\ files[p] \in SUBSET {OldAction, NewAction}
          /\ monitor.left \subseteq Existing
      BY <1>4, MigrateStep DEF MigratesFiles, Existing, Types, Files
    <3>2. files[p] \ {OldAction} \in SUBSET {OldAction, NewAction}
      BY <3>1
    <3>3. files' \in Files /\ (\A q \in Packages : files[q] # NoFile => files'[q] # NoFile)
      BY <2>1, <3>1, <3>2 DEF DesktopAssumption, Files
    <3>4. Existing \subseteq Existing'
      BY <3>3 DEF Existing
    <3> QED
      BY <1>4, <2>1, <3>1, <3>3, <3>4, MigrateStep DEF Types, MigratesFiles, WritesOne, Step
  <2>2. CASE files' = files /\ Step("ask", monitor.synced, monitor.info, {})
    BY <1>4, <2>2, MigrateStep DEF Types, MigratesFiles, WritesOne, Step
  <2> QED
    BY <1>4, <2>1, <2>2, MigrateStep
<1>5. CASE AskApps
  BY <1>5, AskStep DEF Types, MigratesFiles, WritesOne, Step
<1>6. CASE Update
  <2>1. files' \in Files
    <3>1. \A p \in monitor.left : p \in Packages /\ monitor.info[p] \in Info
      BY DEF Types, Monitors
    <3> QED
      BY <1>6, <3>1, UpdateStep, UpdatedFile DEF Types
  <2> QED
    BY <1>6, <2>1, UpdateStep DEF Types, MigratesFiles, WritesOne, Step
<1>7. CASE Prune
  <2>1. files' \in Files
    BY <1>7, PruneStep DEF Types, Files
  <2> QED
    BY <1>7, <2>1, PruneStep DEF Types, MigratesFiles, WritesOne, Step
<1>8. CASE PackageStateChanged
  <2>0. Head(notes).package \in Packages
    BY <1>8, ChangedStep DEF Changed
  <2>1. notes' \in Seq(Changed \cup {Unlocked})
    BY <1>8, ChangedStep, HeadTailProperties DEF Types
  <2>2. files' \in Files
    BY <1>8, ChangedStep DEF Types, Files
  <2>3. MigratesFiles' /\ WritesOne' /\ monitor' \in Monitors
    BY <1>8, <2>0, ChangedStep DEF Types, MigratesFiles, WritesOne, Step
  <2> QED
    BY <1>8, <2>1, <2>2, <2>3, ChangedStep DEF Types
<1>9. CASE Write
  <2>1. files' \in Files
    BY <1>9, WriteStep, UpdatedFile DEF Types, Monitors
  <2> QED
    BY <1>9, <2>1, WriteStep DEF Types, MigratesFiles, WritesOne, Step
<1>10. CASE UNCHANGED desktopVars
  BY <1>10 DEF desktopVars, Types, MigratesFiles, WritesOne, Existing
<1> QED
  BY <1>1, <1>2, <1>3, <1>4, <1>5, <1>6, <1>7, <1>8, <1>9, <1>10 DEF DesktopNext

\* What an older waydroid has left is migrated or on the list.
Old == Migrating /\ MigratedEntirely

LEMMA OldStays ==
  DesktopAssumption /\ Structure /\ Old /\ [DesktopNext]_desktopVars => Old'
<1> SUFFICES ASSUME DesktopAssumption, Structure, Old, [DesktopNext]_desktopVars
             PROVE  Old'
  OBVIOUS
<1> USE DEF Old, Structure
<1>1. CASE Boot \/ EndSession
  BY <1>1, BootStep DEF Migrating, MigratedEntirely, Existing
<1>2. ASSUME NEW p \in Packages, NEW info \in Info, Change(p, info)
      PROVE  Old'
  BY <1>2 DEF Change, Migrating, MigratedEntirely, Existing
<1>3. CASE UserUnlocked
  BY <1>3, UnlockedStep DEF Step, Migrating, MigratedEntirely, Existing
<1>4. CASE Migrate
  <2>1. ASSUME NEW p \in monitor.left, files' = [files EXCEPT ![p] = @ \ {OldAction}],
               Step("migrate", monitor.synced, monitor.info, monitor.left \ {p}),
               migrated' = migrated
        PROVE  Old'
    <3>1. \A q \in Packages : /\ OldAction \in files'[q] => q # p /\ OldAction \in files[q]
                              /\ q # p => files'[q] = files[q]
      BY <2>1 DEF Types, Files
    <3>2. \A q \in Existing' : OldAction \in files'[q] => q \in Existing /\ q # p
      BY <3>1 DEF Existing
    <3> QED
      BY <1>4, <2>1, <3>1, <3>2, MigrateStep DEF Step, Migrating, MigratedEntirely, Existing
  <2>2. CASE /\ monitor.left = {} /\ files' = files
             /\ Step("ask", monitor.synced, monitor.info, {})
    BY <1>4, <2>2, MigrateStep DEF Step, Migrating, MigratedEntirely, Existing
  <2> QED
    BY <1>4, <2>1, <2>2, MigrateStep
<1>5. CASE AskApps
  BY <1>5, AskStep DEF Step, Migrating, MigratedEntirely, Existing
\* Elsewhere files are only removed, or written with the new action.
<1>6. ASSUME UNCHANGED migrated, ~(monitor'.pc = "migrate"),
             \/ files' = files
             \/ \E p \in Packages : files' = [files EXCEPT ![p] = NoFile]
             \/ \E p \in Packages, info \in Info : files' = Updated(p, info)
      PROVE  Old'
  <2>1. \A q \in Existing' : OldAction \in files'[q] => q \in Existing /\ OldAction \in files[q]
    <3>1. CASE files' = files
      BY <3>1 DEF Existing
    <3>2. CASE \E p \in Packages : files' = [files EXCEPT ![p] = NoFile]
      BY <3>2 DEF Existing, Types, Files
    <3>3. ASSUME NEW p \in Packages, NEW info \in Info, files' = Updated(p, info)
          PROVE  \A q \in Existing' : OldAction \in files'[q] => q \in Existing /\ OldAction \in files[q]
      BY <3>3, UpdatedFile DEF Existing
    <3> QED
      BY <1>6, <3>1, <3>2, <3>3
  <2> QED
    BY <1>6, <2>1 DEF Migrating, MigratedEntirely
<1>7. CASE Update
  <2>1. \A p \in monitor.left : p \in Packages /\ monitor.info[p] \in Info
    BY DEF Types, Monitors
  <2> QED
    BY <1>6, <1>7, <2>1, UpdateStep DEF Step
<1>8. CASE Prune
  BY <1>6, <1>8, PruneStep DEF Step, Types, Monitors
<1>9. CASE PackageStateChanged
  <2>1. Head(notes).package \in Packages
    BY <1>9, ChangedStep DEF Changed
  <2> QED
    BY <1>6, <1>9, <2>1, ChangedStep DEF Step
<1>10. CASE Write
  BY <1>6, <1>10, WriteStep DEF Step, Types, Monitors
<1>11. CASE UNCHANGED desktopVars
  BY <1>11 DEF desktopVars, Migrating, MigratedEntirely, Existing
<1> QED
  BY <1>1, <1>2, <1>3, <1>4, <1>5, <1>7, <1>8, <1>9, <1>10, <1>11 DEF DesktopNext

-----------------------------------------------------------------------------
(* The messages on their way.                                               *)

Messages == LastIsTrue /\ OffHearsNothing

\* Whoever a message that is taken from the queue is about is announced again,
\* or the message was the last about it and says what is true.
LEMMA Taken ==
  ASSUME Types, notes # <<>>, notes' = Tail(notes), packages' = packages, LastIsTrue
  PROVE  /\ \A p \in Packages : Announced(p) => Announced(p)' \/ About(Head(notes), p)
         /\ \A p \in Packages : About(Head(notes), p) =>
              Announced(p)' \/ (Head(notes).removed <=> packages[p] = "absent")
         /\ LastIsTrue'
<1>1. /\ Len(notes) \in Nat /\ Len(notes) > 0
      /\ Len(notes') = Len(notes) - 1
      /\ \A i \in 1..Len(notes') : notes'[i] = notes[i+1]
      /\ Head(notes) = notes[1]
  <2>1. notes \in Seq(Changed \cup {Unlocked})
    BY DEF Types
  <2> QED
    BY <2>1, HeadTailProperties, EmptySeq
<1>2. \A p : \A i \in 2..Len(notes) : About(notes[i], p) => Announced(p)'
  <2> SUFFICES ASSUME NEW p, NEW i \in 2..Len(notes), About(notes[i], p)
               PROVE  Announced(p)'
    OBVIOUS
  <2>1. i - 1 \in 1..Len(notes') /\ notes'[i-1] = notes[i]
    BY <1>1
  <2> QED
    BY <2>1 DEF Announced, About
<1>3. \A p \in Packages : Announced(p) => Announced(p)' \/ About(Head(notes), p)
  <2> SUFFICES ASSUME NEW p \in Packages, NEW i \in 1..Len(notes), About(notes[i], p)
               PROVE  Announced(p)' \/ About(Head(notes), p)
    BY DEF Announced
  <2>1. i = 1 \/ i \in 2..Len(notes)
    BY <1>1
  <2> QED
    BY <1>1, <1>2, <2>1
<1>4. \A p \in Packages : About(Head(notes), p) =>
              Announced(p)' \/ (Head(notes).removed <=> packages[p] = "absent")
  BY <1>1, <1>2 DEF LastIsTrue
<1>5. LastIsTrue'
  <2> SUFFICES ASSUME NEW p \in Packages, NEW i \in 1..Len(notes'), About(notes'[i], p),
                      \A j \in (i+1)..Len(notes') : ~About(notes'[j], p)
               PROVE  notes'[i].removed <=> packages[p] = "absent"
    BY DEF LastIsTrue, About
  <2>1. i + 1 \in 1..Len(notes) /\ notes'[i] = notes[i+1]
    BY <1>1
  <2>2. \A j \in (i+2)..Len(notes) : ~About(notes[j], p)
    <3> SUFFICES ASSUME NEW j \in (i+2)..Len(notes) PROVE ~About(notes[j], p)
      OBVIOUS
    <3>1. j - 1 \in (i+1)..Len(notes') /\ notes'[j-1] = notes[j]
      BY <1>1
    <3> QED
      BY <3>1
  <2> QED
    BY <2>1, <2>2 DEF LastIsTrue
<1> QED
  BY <1>3, <1>4, <1>5

\* A change is announced, if there is anybody to hear of it.
LEMMA Sent ==
  ASSUME DesktopAssumption, Types, Messages, NEW p \in Packages, NEW info \in Info,
         Change(p, info)
  PROVE  /\ \A q \in Packages : Announced(q) => Announced(q)'
         /\ ~In("off") => Announced(p)'
         /\ LastIsTrue'
<1> DEFINE note == [package |-> p, removed |-> info = "absent"]
<1>0. /\ packages' = [packages EXCEPT ![p] = info] /\ packages \in [Packages -> Info]
      /\ notes \in Seq(Changed \cup {Unlocked}) /\ note \in Changed /\ note # Unlocked
      /\ note.package = p /\ (note.removed <=> info = "absent")
  <2>1. (info = "absent") \in BOOLEAN
    OBVIOUS
  <2>2. note \in Changed
    BY <2>1 DEF Changed
  <2> QED
    BY <2>2 DEF Change, Types, DesktopAssumption
<1>1. CASE In("off")
  <2>1. notes = <<>> /\ notes' = <<>>
    BY <1>1 DEF Messages, OffHearsNothing, Change
  <2> QED
    BY <1>1, <2>1 DEF LastIsTrue, Announced
<1>2. CASE ~In("off")
  <2> HIDE DEF note
  <2>1. notes' = Append(notes, note)
    BY <1>2 DEF Change, note
  <2>2. /\ Len(notes) \in Nat /\ Len(notes') = Len(notes) + 1
        /\ \A i \in 1..Len(notes) : notes'[i] = notes[i]
        /\ notes'[Len(notes) + 1] = note
    BY <1>0, <2>1, AppendProperties, EmptySeq
  <2>3. \A q : About(note, q) <=> q = p
    BY <1>0 DEF About
  <2>4. Announced(p)' /\ \A q \in Packages : Announced(q) => Announced(q)'
    BY <2>2, <2>3 DEF Announced, About
  <2>5. LastIsTrue'
    <3> SUFFICES ASSUME NEW q \in Packages, NEW i \in 1..Len(notes'), About(notes'[i], q),
                        \A j \in (i+1)..Len(notes') : ~About(notes'[j], q)
                 PROVE  notes'[i].removed <=> packages'[q] = "absent"
      BY DEF LastIsTrue, About
    <3>1. CASE i = Len(notes) + 1
      BY <1>0, <2>2, <2>3, <3>1
    <3>2. CASE i # Len(notes) + 1
      <4>1. /\ i \in 1..Len(notes) /\ Len(notes) + 1 \in (i+1)..Len(notes')
            /\ notes'[i] = notes[i]
        BY <2>2, <3>2
      <4>2. q # p
        BY <2>2, <2>3, <4>1
      <4>3. \A j \in (i+1)..Len(notes) : ~About(notes[j], q)
        BY <2>2, <4>1
      <4>4. notes[i].removed <=> packages[q] = "absent"
        BY <4>1, <4>3 DEF LastIsTrue, Messages
      <4> QED
        BY <1>0, <4>1, <4>2, <4>4
    <3> QED
      BY <3>1, <3>2
  <2> QED
    BY <2>4, <2>5
<1> QED
  BY <1>1, <1>2

\* Every step keeps the last message about each package true.
LEMMA MessagesStay ==
  DesktopAssumption /\ Structure /\ Messages /\ [DesktopNext]_desktopVars => Messages'
<1> SUFFICES ASSUME DesktopAssumption, Structure, Messages, [DesktopNext]_desktopVars
             PROVE  Messages'
  OBVIOUS
<1> USE DEF Messages, Structure
<1>1. CASE Boot \/ EndSession
  BY <1>1, BootStep DEF LastIsTrue, OffHearsNothing, About
<1>2. ASSUME NEW p \in Packages, NEW info \in Info, Change(p, info)
      PROVE  Messages'
  BY <1>2, Sent DEF OffHearsNothing, Change
<1>3. CASE UserUnlocked
  BY <1>3, UnlockedStep, Taken DEF OffHearsNothing, Step
<1>4. CASE PackageStateChanged
  BY <1>4, ChangedStep, Taken DEF OffHearsNothing, Step
<1>5. CASE UNCHANGED <<packages, notes>> /\ monitor'.pc # "off"
  BY <1>5 DEF LastIsTrue, OffHearsNothing, About
<1>6. CASE UNCHANGED desktopVars
  BY <1>6 DEF desktopVars, LastIsTrue, OffHearsNothing, About
<1>7. Migrate \/ AskApps \/ Update \/ Prune \/ Write => UNCHANGED <<packages, notes>> /\ monitor'.pc # "off"
  BY MigrateStep, AskStep, UpdateStep, PruneStep, WriteStep DEF Step
<1> QED
  BY <1>1, <1>2, <1>3, <1>4, <1>5, <1>6, <1>7 DEF DesktopNext

-----------------------------------------------------------------------------
(* The files and the packages.                                              *)

\* Every step of an Android that answers keeps each file right, to be made
\* right by the monitor, or the subject of a message.
LEMMA AgreementStays ==
  ASSUME DesktopAssumption, Structure, Messages, "silent" \notin desktopFaults, Agrees,
         [DesktopNext]_desktopVars
  PROVE  Agrees'
<1> USE DEF Structure, Messages
<1>1. CASE Boot \/ EndSession
  BY <1>1, BootStep DEF Agrees
<1>2. ASSUME NEW p \in Packages, NEW info \in Info, Change(p, info)
      PROVE  Agrees'
  <2>1. /\ UNCHANGED <<files, monitor>> /\ \A q \in Packages \ {p} : packages'[q] = packages[q]
        /\ \A q \in Packages : Announced(q) => Announced(q)'
        /\ ~In("off") => Announced(p)'
    BY <1>2, Sent DEF Change, Types
  <2>2. \A q \in Packages \ {p} : (Right(q) <=> Right(q)') /\ (Known(q) <=> Known(q)')
    BY <2>1 DEF Right, Known
  <2> QED
    BY <2>1, <2>2 DEF Agrees
<1>3. CASE UserUnlocked
  BY <1>3, UnlockedStep DEF Agrees, Step
<1>4. CASE Migrate
  BY <1>4, MigrateStep DEF Agrees, Step
<1>5. CASE AskApps
  <2>1. /\ UNCHANGED <<packages, notes, files>>
        /\ Step("update", monitor.synced, packages, {p \in Packages : packages[p] # "absent"})
    BY <1>5, AskStep
  <2> QED
    BY <2>1 DEF Step, Agrees, Known
<1>6. CASE Update
  <2>1. ASSUME NEW p \in monitor.left, files' = Updated(p, monitor.info[p]),
               Step("update", monitor.synced, monitor.info, monitor.left \ {p})
        PROVE  Agrees'
    <3>1. p \in Packages /\ monitor.info[p] \in Info /\ UNCHANGED <<packages, notes>>
      BY <1>6, UpdateStep DEF Types, Monitors
    <3>2. \A q \in Packages \ {p} : Right(q) <=> Right(q)'
      BY <2>1, <3>1, UpdatedFile DEF Right
    <3>3. Known(p) => Right(p)'
      BY <2>1, <3>1, UpdatedFile DEF Right, Known
    <3>4. \A q \in Packages : (Known(q) <=> Known(q)') /\ (Announced(q) <=> Announced(q)')
      BY <2>1, <3>1 DEF Known, Announced, About, Step
    <3> QED
      BY <1>6, <2>1, <3>1, <3>2, <3>3, <3>4, UpdateStep DEF Agrees, Step
  <2>2. ASSUME monitor.left = {}, files' = files,
               Step("prune", monitor.synced, monitor.info,
                    {p \in Existing : monitor.info[p] = "absent"})
        PROVE  Agrees'
    <3>1. \A q \in Packages : /\ Right(q) <=> Right(q)'
                              /\ Announced(q) <=> Announced(q)'
                              /\ packages'[q] = packages[q]
      BY <1>6, <2>2, UpdateStep DEF Right, Announced, About
    <3>2. \A q \in Packages : \/ Announced(q)
                              \/ Known(q) /\ (packages[q] = "absent" \/ Right(q))
      BY <1>6, <2>2, UpdateStep DEF Agrees
    <3>3. \A q \in Packages : Known(q) /\ (packages[q] = "absent" \/ Right(q))
                                => IF q \in monitor'.left THEN packages[q] = "absent" ELSE Right(q)
      BY <2>2 DEF Step, Existing, Known, Right
    <3> QED
      BY <2>2, <3>1, <3>2, <3>3 DEF Agrees, Step
  <2> QED
    BY <1>6, <2>1, <2>2, UpdateStep
<1>7. CASE Prune
  <2>1. ASSUME NEW p \in monitor.left, files' = [files EXCEPT ![p] = NoFile],
               Step("prune", monitor.synced, monitor.info, monitor.left \ {p})
        PROVE  Agrees'
    <3>1. p \in Packages /\ UNCHANGED <<packages, notes>>
      BY <1>7, PruneStep DEF Types, Monitors
    <3>2. \A q \in Packages \ {p} : Right(q) <=> Right(q)'
      BY <2>1, <3>1 DEF Right, Types, Files
    <3>3. packages[p] = "absent" => Right(p)'
      BY <2>1, <3>1 DEF Right, Types, Files
    <3>4. \A q \in Packages : Announced(q) <=> Announced(q)'
      BY <3>1 DEF Announced, About
    <3> QED
      BY <1>7, <2>1, <3>1, <3>2, <3>3, <3>4, PruneStep DEF Agrees, Step
  <2>2. ASSUME monitor.left = {}, files' = files, Step("idle", TRUE, monitor.info, {})
        PROVE  Agrees'
    <3>1. \A q \in Packages : (Right(q) <=> Right(q)') /\ (Announced(q) <=> Announced(q)')
      BY <1>7, <2>2, PruneStep DEF Right, Announced, About
    <3> QED
      BY <1>7, <2>2, <3>1, PruneStep DEF Agrees, Step
  <2> QED
    BY <1>7, <2>1, <2>2, PruneStep
\* The package that a message is about, when Android was asked what it is, is
\* what Android said or is announced again; the file of one that is removed is
\* gone, and one that is not to be written has been removed since.
<1>8. CASE PackageStateChanged
  <2>0. PICK p \in Packages : p = Head(notes).package
    BY <1>8, ChangedStep DEF Changed
  <2>1. /\ UNCHANGED packages /\ In("idle") /\ About(Head(notes), p)
        /\ \A q \in Packages : q # p => ~About(Head(notes), q)
    BY <1>8, <2>0, ChangedStep DEF About
  <2>2. /\ \A q \in Packages \ {p} : Announced(q) => Announced(q)'
        /\ Announced(p)' \/ (Head(notes).removed <=> packages[p] = "absent")
    BY <1>8, <2>1, ChangedStep, Taken
  <2>3. CASE /\ Head(notes).removed /\ monitor' = monitor
             /\ files' = [files EXCEPT ![p] = NoFile]
    <3>1. \A q \in Packages \ {p} : Right(q) <=> Right(q)'
      BY <2>1, <2>3 DEF Right, Types, Files
    <3>2. Announced(p)' \/ Right(p)'
      BY <2>1, <2>2, <2>3 DEF Right, Types, Files
    <3> QED
      BY <2>1, <2>2, <2>3, <3>1, <3>2 DEF Agrees
  <2>4. CASE ~Head(notes).removed /\ files' = files
    <3>1. PICK info \in Info :
            /\ info = packages[p]
            /\ Step("write", monitor.synced, [monitor.info EXCEPT ![p] = info],
                    IF info = "absent" THEN {} ELSE {p})
      BY <1>8, <2>0, <2>4, ChangedStep
    <3>2. \A q \in Packages : Right(q) <=> Right(q)'
      BY <2>1, <2>4 DEF Right
    <3>3. Known(p)'
      BY <2>1, <3>1 DEF Known, Step, Types, Monitors
    <3>4. info = "absent" => Announced(p)'
      BY <2>2, <2>4, <3>1
    <3> QED
      BY <2>1, <2>2, <3>1, <3>2, <3>3, <3>4 DEF Agrees, Step
  <2> QED
    BY <1>8, <2>0, <2>3, <2>4, ChangedStep
<1>9. CASE Write
  <2>1. /\ Step("idle", monitor.synced, monitor.info, {}) /\ UNCHANGED <<packages, notes>>
        /\ In("write")
    BY <1>9, WriteStep
  <2>2. \A q \in Packages : Announced(q) <=> Announced(q)'
    BY <2>1 DEF Announced, About
  <2>3. \A q \in Packages : (IF q \in monitor.left THEN Known(q) ELSE Right(q)) => Right(q)'
    <3>1. CASE monitor.left = {} /\ files' = files
      BY <2>1, <3>1 DEF Right
    <3>2. ASSUME NEW p \in Packages, monitor.left = {p}, files' = Updated(p, monitor.info[p])
          PROVE  \A q \in Packages : (IF q \in monitor.left THEN Known(q) ELSE Right(q)) => Right(q)'
      <4>1. monitor.info[p] \in Info
        BY DEF Types, Monitors
      <4>2. \A q \in Packages \ {p} : Right(q) => Right(q)'
        BY <2>1, <3>2, <4>1, UpdatedFile DEF Right
      <4>3. Known(p) => Right(p)'
        BY <2>1, <3>2, <4>1, UpdatedFile DEF Right, Known
      <4> QED
        BY <3>2, <4>2, <4>3
    <3> QED
      BY <1>9, <3>1, <3>2, WriteStep
  <2> QED
    BY <2>1, <2>2, <2>3 DEF Agrees, Step
<1>10. CASE UNCHANGED desktopVars
  BY <1>10 DEF desktopVars, Agrees, Announced, About, Right, Known
<1> QED
  BY <1>1, <1>2, <1>3, <1>4, <1>5, <1>6, <1>7, <1>8, <1>9, <1>10 DEF DesktopNext

-----------------------------------------------------------------------------
(* The theorems. *)

LEMMA Initially ==
  ASSUME DesktopAssumption, DesktopInit
  PROVE  Structure /\ Old /\ Messages /\ Agrees
<1>1. monitor.pc = "off" /\ notes = <<>> /\ ~migrated
  BY DEF DesktopInit, Off
<1>2. monitor \in Monitors /\ packages \in [Packages -> Info]
  BY DEF DesktopInit, Off, Monitors, Pcs
<1>3. files \in Files
  <2>1. files \in [Packages -> {NoFile, {OldAction}}]
    BY DEF DesktopInit
  <2>2. {OldAction} \in SUBSET {OldAction, NewAction}
    OBVIOUS
  <2> QED
    BY <2>1, <2>2 DEF Files
<1>4. notes \in Seq(Changed \cup {Unlocked})
  BY <1>1, EmptySeq
<1> QED
  BY <1>1, <1>2, <1>3, <1>4 DEF Structure, Types, MigratesFiles, WritesOne, Old, Migrating,
     MigratedEntirely, Messages, LastIsTrue, OffHearsNothing, Agrees

\* The packages, the messages about them, the files and the monitor stay well typed;
\* what makes it so is that only files are migrated.
THEOREM Typing == ASSUME DesktopAssumption PROVE DesktopSpec => []DesktopTypeOK
<1> DEFINE Rest == desktopFaults \in DesktopFaultSets /\ migrated \in BOOLEAN
<1>1. DesktopInit => Structure /\ Rest
  BY Initially DEF DesktopInit
<1>2. (Structure /\ Rest) /\ [DesktopNext]_desktopVars => (Structure /\ Rest)'
  <2>1. Rest /\ [DesktopNext]_desktopVars => Rest'
    BY DEF DesktopNext, desktopVars, Boot, EndSession, Change, UserUnlocked, Migrate, AskApps,
           Update, Prune, PackageStateChanged, Write
  <2> QED
    BY <2>1, StructureStays
<1>3. Structure /\ Rest => DesktopTypeOK
  BY DEF Structure, Types, Monitors, Pcs, Files, DesktopTypeOK
<1> QED
  BY <1>1, <1>2, <1>3, PTL DEF DesktopSpec

\* Whichever sessions were killed in the middle of it, a migration that is
\* marked as done has left no old action in any file.
THEOREM Migration == ASSUME DesktopAssumption PROVE DesktopSpec => []MigratedEntirely
<1>1. DesktopInit => Structure /\ Old
  BY Initially
<1>2. (Structure /\ Old) /\ [DesktopNext]_desktopVars => (Structure /\ Old)'
  BY StructureStays, OldStays
<1>3. Structure /\ Old => MigratedEntirely
  BY DEF Old
<1> QED
  BY <1>1, <1>2, <1>3, PTL DEF DesktopSpec

\* In whatever order packages came, changed and went, and whatever a killed
\* session has left, the files are those of the apps when nothing is left to do.
THEOREM Synchronised == ASSUME DesktopAssumption PROVE DesktopSpec => []FilesAreTheApps
<1> DEFINE Inv == /\ Structure /\ Messages
                  /\ "silent" \notin desktopFaults => Agrees
<1>1. DesktopInit => Inv
  BY Initially
<1>2. Inv /\ [DesktopNext]_desktopVars => Inv'
  <2>1. [DesktopNext]_desktopVars => desktopFaults' = desktopFaults
    BY DEF DesktopNext, desktopVars
  <2> QED
    BY <2>1, StructureStays, MessagesStay, AgreementStays
<1>3. Inv => FilesAreTheApps
  <2>1. notes = <<>> => \A p : ~Announced(p)
    BY DEF Announced
  <2> QED
    BY <2>1 DEF Agrees, Right, FilesAreTheApps
<1> QED
  BY <1>1, <1>2, <1>3, PTL DEF DesktopSpec
=============================================================================
