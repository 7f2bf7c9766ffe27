---------------------------- MODULE FreezeClients ----------------------------
(***************************************************************************)
(* The commands that need a running Android for a moment: app install,     *)
(* remove, list, launch, intent and show-full-ui                           *)
(* (tools/actions/app_manager.py), prop get and set                        *)
(* (tools/actions/prop.py), shell and logcat (tools/helpers/lxc.py).  A    *)
(* container that is frozen when one begins is thawed, used and frozen     *)
(* again by what the command saw when it began.                            *)
(*                                                                         *)
(* The container service answers one call at a time, so a call of it is    *)
(* one step here; its own steps are in ContainerManager.                   *)
(***************************************************************************)
CONSTANTS Clients,    \* processes that run such commands
          FaultSets   \* what may happen together, subsets of FaultKinds

\* "overlap": commands run beside each other;  "launch": commands that leave
\* the container running;  "suspend": Android or root freezes it;
\* "unfreeze": root unfreezes it;  "off": Android shuts down;  "session": the
\* session is stopped and started;  "hangup": a shell's terminal goes away;
\* "break": a command raises or is killed.
FaultKinds == {"overlap", "launch", "suspend", "unfreeze", "off", "session",
               "hangup", "break"}

ASSUME FaultAssumption == FaultSets \subseteq SUBSET FaultKinds

VARIABLES faults,     \* what may happen in this behaviour; it never changes
          tracked,    \* the service tracks a session
          lxc,        \* what lxc-info -sH prints
          wanted,     \* the state last asked for by other than these commands'
                      \* thawing and freezing again (history)
          pc,         \* the step each client is about to take
          kind,       \* whether it goes through the service or works on LXC
          sawFrozen   \* session["state"] == "FROZEN" in each client

vars == <<faults, tracked, lxc, wanted, pc, kind, sawFrozen>>

LxcStates == {"STOPPED", "RUNNING", "FROZEN"}
Steps     == {"idle", "thaw", "act", "refreeze"}

TypeOK ==
  /\ faults \in FaultSets
  /\ tracked \in BOOLEAN
  /\ lxc \in LxcStates
  /\ wanted \in LxcStates
  /\ pc \in [Clients -> Steps]
  /\ kind \in [Clients -> {"command", "shell"}]
  /\ sawFrozen \in [Clients -> BOOLEAN]

Init ==
  /\ faults \in FaultSets
  /\ tracked = TRUE
  /\ lxc \in {"RUNNING", "FROZEN"}
  /\ wanted = lxc
  /\ pc = [c \in Clients |-> "idle"]
  /\ kind = [c \in Clients |-> "command"]
  /\ sawFrozen = [c \in Clients |-> FALSE]

-----------------------------------------------------------------------------
(* The commands. *)

Goto(c, step) == pc' = [pc EXCEPT ![c] = step]

\* unfreeze and freeze of the service change nothing but log an error when the
\* container is in another state than the one they start from.
Thawed   == IF lxc = "FROZEN" THEN "RUNNING" ELSE lxc
Refrozen == IF lxc = "RUNNING" THEN "FROZEN" ELSE lxc

MayBegin(c) == /\ pc[c] = "idle"
               /\ "overlap" \notin faults => \A d \in Clients : pc[d] = "idle"

Saw(c, k, frozen) == /\ kind' = [kind EXCEPT ![c] = k]
                     /\ sawFrozen' = [sawFrozen EXCEPT ![c] = frozen]

\* A slip: the command freezes again but does not thaw.
LookOnly(c) == /\ MayBegin(c)
               /\ tracked
               /\ Saw(c, "command", lxc = "FROZEN")
               /\ Goto(c, "act")
               /\ UNCHANGED <<faults, tracked, lxc, wanted>>

\* GetSession is an error when no session is tracked; the command ends there.
Look(c) == /\ MayBegin(c)
           /\ tracked
           /\ Saw(c, "command", lxc = "FROZEN")
           /\ Goto(c, IF lxc = "FROZEN" THEN "thaw" ELSE "act")
           /\ UNCHANGED <<faults, tracked, lxc, wanted>>

ShellLook(c) == /\ MayBegin(c)
                /\ lxc # "STOPPED"
                /\ Saw(c, "shell", lxc = "FROZEN")
                /\ Goto(c, IF lxc = "FROZEN" THEN "thaw" ELSE "act")
                /\ UNCHANGED <<faults, tracked, lxc, wanted>>

\* A command that launches something unfreezes without looking, leaves the
\* container running, and goes on when the call has failed.
Launch(c) == /\ "launch" \in faults
             /\ MayBegin(c)
             /\ tracked
             /\ Saw(c, "command", FALSE)
             /\ \/ /\ lxc' = Thawed
                   /\ wanted' = lxc'
                \/ "break" \in faults /\ UNCHANGED <<lxc, wanted>>
             /\ Goto(c, "act")
             /\ UNCHANGED <<faults, tracked>>

\* A call of the service is refused, and ends the command, when no session is
\* tracked any more; lxc-unfreeze and lxc-freeze fail on a stopped container.
Allowed(c) == IF kind[c] = "command" THEN tracked ELSE lxc # "STOPPED"

Thaw(c) == /\ pc[c] = "thaw"
           /\ lxc' = IF Allowed(c) THEN Thawed ELSE lxc
           /\ Goto(c, IF Allowed(c) THEN "act" ELSE "idle")
           /\ UNCHANGED <<faults, tracked, wanted, kind, sawFrozen>>

\* Nothing inside a frozen container answers; without a container the platform
\* service and lxc-attach fail, which a command logs or ignores.
Act(c) == /\ pc[c] = "act"
          /\ lxc # "FROZEN"
          /\ Goto(c, IF sawFrozen[c] THEN "refreeze" ELSE "idle")
          /\ UNCHANGED <<faults, tracked, lxc, wanted, kind, sawFrozen>>

\* A slip: the shell lets the signal end it.
HangupEnds(c) == /\ "hangup" \in faults
                 /\ pc[c] = "act"
                 /\ kind[c] = "shell"
                 /\ Goto(c, "idle")
                 /\ UNCHANGED <<faults, tracked, lxc, wanted, kind, sawFrozen>>

\* A signal interrupts a shell even when the container is frozen, and the
\* shell goes on to its end.
Hangup(c) == /\ "hangup" \in faults
             /\ pc[c] = "act"
             /\ kind[c] = "shell"
             /\ Goto(c, IF sawFrozen[c] THEN "refreeze" ELSE "idle")
             /\ UNCHANGED <<faults, tracked, lxc, wanted, kind, sawFrozen>>

Refreeze(c) == /\ pc[c] = "refreeze"
               /\ lxc' = IF Allowed(c) THEN Refrozen ELSE lxc
               /\ Goto(c, "idle")
               /\ UNCHANGED <<faults, tracked, wanted, kind, sawFrozen>>

\* Nothing freezes again what a command that raises or is killed has thawed.
Break(c) == /\ "break" \in faults
            /\ pc[c] # "idle"
            /\ Goto(c, "idle")
            /\ UNCHANGED <<faults, tracked, lxc, wanted, kind, sawFrozen>>

Command(c) == \/ Look(c) \/ ShellLook(c) \/ Launch(c)
              \/ Thaw(c) \/ Act(c) \/ Hangup(c) \/ Refreeze(c) \/ Break(c)

-----------------------------------------------------------------------------
(* What others do with the container. *)

Others == UNCHANGED <<faults, pc, kind, sawFrozen>>

\* The guest's suspend and root's "container freeze".
Suspend == /\ "suspend" \in faults
           /\ lxc = "RUNNING"
           /\ lxc' = "FROZEN"
           /\ wanted' = "FROZEN"
           /\ UNCHANGED tracked
           /\ Others

\* Root's "container unfreeze".
Unfreeze == /\ "unfreeze" \in faults
            /\ lxc = "FROZEN"
            /\ lxc' = "RUNNING"
            /\ wanted' = "RUNNING"
            /\ UNCHANGED tracked
            /\ Others

Shutdown == /\ "off" \in faults
            /\ lxc = "RUNNING"
            /\ lxc' = "STOPPED"
            /\ wanted' = "STOPPED"
            /\ UNCHANGED tracked
            /\ Others

SessionStop == /\ "session" \in faults
               /\ tracked
               /\ tracked' = FALSE
               /\ lxc' = "STOPPED"
               /\ wanted' = "STOPPED"
               /\ Others

SessionStart == /\ "session" \in faults
                /\ ~tracked
                /\ tracked' = TRUE
                /\ lxc' = "RUNNING"
                /\ wanted' = "RUNNING"
                /\ Others

Next == \/ \E c \in Clients : Command(c)
        \/ Suspend \/ Unfreeze \/ Shutdown \/ SessionStop \/ SessionStart

Spec == Init /\ [][Next]_vars

\* Commands run on; nobody has to end a shell or to begin anything.
Fairness == \A c \in Clients :
              /\ WF_vars(Thaw(c))
              /\ WF_vars(kind[c] = "command" /\ Act(c))
              /\ WF_vars(Refreeze(c))

FairSpec == Spec /\ Fairness

-----------------------------------------------------------------------------
(* Properties *)

\* The events after which a stale sawFrozen freezes what others want to run, or
\* nobody is left to freeze again.
Undisturbed == /\ faults \cap {"unfreeze", "session", "break"} = {}
               /\ ~({"overlap", "launch"} \subseteq faults)

\* However many commands thaw and freeze the container beside each other, and
\* whichever shells are hung up, the container ends up as it was last asked to
\* be: what was frozen is frozen again, what was running runs.
FrozenAgain ==
  Undisturbed /\ (\A c \in Clients : pc[c] = "idle") => lxc = wanted

\* Nobody freezes the container below a command, and no launch goes on in spite
\* of a call that has failed.
Alone == /\ faults \cap {"overlap", "suspend"} = {}
         /\ ~({"launch", "break"} \subseteq faults)

\* A command that is alone is not stuck in a container that was frozen when it
\* began: it ends, whatever happens to the session meanwhile.
CommandsEnd ==
  \A c \in Clients :
    (Alone /\ kind[c] = "command" /\ pc[c] # "idle") ~> pc[c] = "idle"
=============================================================================
