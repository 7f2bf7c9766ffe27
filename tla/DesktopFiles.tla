---------------------------- MODULE DesktopFiles ----------------------------
(***************************************************************************)
(* The desktop files of Android's apps (tools/services/user_manager.py).   *)
(* Android tells the session's user monitor that its user is unlocked and  *)
(* which package has changed; the monitor, one message at a time, asks     *)
(* Android for what there is by then and writes or removes files.  Android *)
(* goes on changing packages meanwhile, and the session may be killed      *)
(* anywhere, to begin again with an Android that boots.                    *)
(***************************************************************************)
EXTENDS Naturals, Sequences

CONSTANTS Packages,
          NoFile,
          Unlocked,         \* Android's message that its user is unlocked
          DesktopFaultSets, \* subsets of {"silent", "kill"}
          MaxNotes          \* bound: messages on their way

VARIABLES desktopFaults, \* what may happen in this behaviour; it never changes
          packages,      \* Android's packages: absent, without or with a launcher
          notes,         \* Android's messages to the monitor, oldest first
          files,         \* the actions in each waydroid.<package>.desktop
          migrated,      \* .migrated-app-settings-desktop-action exists
          monitor        \* the monitor of the session

desktopVars == <<desktopFaults, packages, notes, files, migrated, monitor>>

OldAction == "app_settings"
NewAction == "app-settings"
Changed   == [package : Packages, removed : BOOLEAN]
Info      == {"absent", "plain", "launcher"}

\* "silent": Android may not answer the monitor's questions.
DesktopAssumption == /\ DesktopFaultSets \subseteq SUBSET {"silent", "kill"}
                     /\ \A A \in SUBSET {OldAction, NewAction} : NoFile # A
                     /\ \A note \in Changed : Unlocked # note

DesktopTypeOK ==
  /\ desktopFaults \in DesktopFaultSets
  /\ packages \in [Packages -> Info]
  /\ notes \in Seq(Changed \cup {Unlocked})
  /\ files \in [Packages -> {NoFile} \cup SUBSET {OldAction, NewAction}]
  /\ migrated \in BOOLEAN
  /\ monitor \in [pc : {"off", "idle", "migrate", "ask", "update", "prune", "write"},
                  synced : BOOLEAN, info : [Packages -> Info], left : SUBSET Packages]

Off == [pc |-> "off", synced |-> FALSE, info |-> [p \in Packages |-> "absent"], left |-> {}]

\* What an older waydroid has left.
DesktopInit ==
  /\ desktopFaults \in DesktopFaultSets
  /\ packages \in [Packages -> Info]
  /\ notes = <<>>
  /\ files \in [Packages -> {NoFile, {OldAction}}]
  /\ migrated = FALSE
  /\ monitor = Off

-----------------------------------------------------------------------------
Existing      == {p \in Packages : files[p] # NoFile}
In(pc)        == monitor.pc = pc
GotoPc(pc)    == [monitor EXCEPT !.pc = pc, !.left = {}]
Remaining(p)  == monitor' = [monitor EXCEPT !.left = @ \ {p}]

\* A slip: an app that has lost its launcher keeps its file.
UpdatedOrKept(p, info) ==
  IF info # "launcher" THEN files
  ELSE [files EXCEPT ![p] = (IF @ = NoFile THEN {} ELSE @) \cup {NewAction}]

\* updateDesktopFile, of an app that Android knows.
Updated(p, info) ==
  [files EXCEPT ![p] = IF info # "launcher" THEN NoFile
                       ELSE (IF @ = NoFile THEN {} ELSE @) \cup {NewAction}]

\* The session starts, Android boots and unlocks its user.
Boot == /\ In("off")
        /\ monitor' = [Off EXCEPT !.pc = "idle"]
        /\ notes' = <<Unlocked>>
        /\ UNCHANGED <<packages, files, migrated>>

\* A session that stops ends its handler first; one that is killed does not.
EndSession == /\ ~In("off")
              /\ In("idle") \/ "kill" \in desktopFaults
              /\ monitor' = Off
              /\ notes' = <<>>
              /\ UNCHANGED <<packages, files, migrated>>

Change(p, info) ==
  /\ packages[p] # info
  /\ packages' = [packages EXCEPT ![p] = info]
  /\ IF In("off") THEN UNCHANGED notes
     ELSE /\ Len(notes) < MaxNotes
          /\ notes' = Append(notes, [package |-> p, removed |-> info = "absent"])
  /\ UNCHANGED <<files, migrated, monitor>>

-----------------------------------------------------------------------------
(* userUnlocked. *)

\* Migrates what an older version has left, if there are any files.
UserUnlocked ==
  /\ In("idle") /\ notes # <<>> /\ Head(notes) = Unlocked
  /\ notes' = Tail(notes)
  /\ monitor' = IF Existing # {} /\ ~migrated
                THEN [monitor EXCEPT !.pc = "migrate", !.left = Existing]
                ELSE GotoPc("ask")
  /\ UNCHANGED <<packages, files, migrated>>

\* A slip: the migration is marked as done when it begins.
MigrateMarked ==
  /\ In("migrate")
  /\ migrated' = TRUE
  /\ \/ \E p \in monitor.left :
          /\ files' = [files EXCEPT ![p] = @ \ {OldAction}]
          /\ Remaining(p)
     \/ monitor.left = {} /\ monitor' = GotoPc("ask") /\ UNCHANGED files
  /\ UNCHANGED <<packages, notes>>

Migrate ==
  /\ In("migrate")
  /\ \/ \E p \in monitor.left :
          /\ files' = [files EXCEPT ![p] = @ \ {OldAction}]
          /\ Remaining(p)
          /\ UNCHANGED migrated
     \/ /\ monitor.left = {}
        /\ monitor' = GotoPc("ask")
        /\ migrated' = TRUE
        /\ UNCHANGED files
  /\ UNCHANGED <<packages, notes>>

\* getAppsInfo: one that fails is an empty list; without the platform service
\* nothing is done.
AskApps ==
  /\ In("ask")
  /\ \/ \E info \in {packages} \cup IF "silent" \in desktopFaults THEN {Off.info} ELSE {} :
          monitor' = [monitor EXCEPT !.pc = "update", !.info = info,
                        !.left = {p \in Packages : info[p] # "absent"}]
     \/ "silent" \in desktopFaults /\ monitor' = GotoPc("idle")
  /\ UNCHANGED <<packages, notes, files, migrated>>

Update ==
  /\ In("update")
  /\ \/ \E p \in monitor.left : files' = Updated(p, monitor.info[p]) /\ Remaining(p)
     \/ /\ monitor.left = {}
        /\ monitor' = [monitor EXCEPT !.pc = "prune", !.left =
                         {p \in Existing : monitor.info[p] = "absent"}]
        /\ UNCHANGED files
  /\ UNCHANGED <<packages, notes, migrated>>

Prune ==
  /\ In("prune")
  /\ \/ \E p \in monitor.left : files' = [files EXCEPT ![p] = NoFile] /\ Remaining(p)
     \/ /\ monitor.left = {}
        /\ monitor' = [monitor EXCEPT !.pc = "idle", !.synced = TRUE]
        /\ UNCHANGED files
  /\ UNCHANGED <<packages, notes, migrated>>

-----------------------------------------------------------------------------
(* packageStateChanged. *)

\* getAppInfo says what there is now, not what the message was sent for.
PackageStateChanged ==
  /\ In("idle") /\ notes # <<>> /\ Head(notes) # Unlocked
  /\ notes' = Tail(notes)
  /\ LET p == Head(notes).package
     IN  IF Head(notes).removed
         THEN files' = [files EXCEPT ![p] = NoFile] /\ UNCHANGED monitor
         ELSE /\ \E info \in {packages[p]} \cup IF "silent" \in desktopFaults THEN {"absent"}
                                                                              ELSE {} :
                   monitor' = [monitor EXCEPT !.pc = "write", !.info[p] = info,
                                 !.left = IF info = "absent" THEN {} ELSE {p}]
              /\ UNCHANGED files
  /\ UNCHANGED <<packages, migrated>>

Write ==
  /\ In("write")
  /\ files' = IF monitor.left = {} THEN files
              ELSE LET p == CHOOSE q \in monitor.left : TRUE IN Updated(p, monitor.info[p])
  /\ monitor' = GotoPc("idle")
  /\ UNCHANGED <<packages, notes, migrated>>

DesktopNext ==
  /\ \/ Boot \/ EndSession
     \/ \E p \in Packages, info \in Info : Change(p, info)
     \/ UserUnlocked \/ Migrate \/ AskApps \/ Update \/ Prune
     \/ PackageStateChanged \/ Write
  /\ UNCHANGED desktopFaults

DesktopSpec == DesktopInit /\ [][DesktopNext]_desktopVars

-----------------------------------------------------------------------------
(* What the user monitor promises.                                          *)

\* When the monitor has nothing left to do, there is a desktop file for each app
\* with a launcher and for no other package, in whatever order packages came,
\* changed and went while it was at work, and whatever a killed session has left.
\* An Android that does not answer can cost every file there is.
FilesAreTheApps ==
  (In("idle") /\ notes = <<>> /\ monitor.synced /\ "silent" \notin desktopFaults)
    => \A p \in Packages : files[p] # NoFile <=> packages[p] = "launcher"

\* A migration that is marked as done has left no old action in any file, though
\* a session may have been killed on its way.
MigratedEntirely == migrated => \A p \in Existing : OldAction \notin files[p]
=============================================================================
