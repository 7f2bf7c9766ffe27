--------------------------- MODULE SessionManager ---------------------------
(***************************************************************************)
(* The session processes of tools/actions/session_manager.py, the          *)
(* "waydroid session stop" and "waydroid upgrade" processes that act on    *)
(* them, and the calls they make to the container service.  The service is *)
(* the one ContainerLease specifies, which ContainerManager implements: it *)
(* serves one call at a time, and a call takes effect some time after it   *)
(* was accepted, when its caller may have stopped waiting.                 *)
(***************************************************************************)
EXTENDS FiniteSets

CONSTANTS Users,      \* unprivileged users, each with a session bus of its own
          Root,       \* uid 0
          Sessions,   \* session processes
          Owner,      \* the user each session process runs as
          NoSession,
          FaultSets   \* what may go wrong together, subsets of FaultKinds

\* "timeout": a session process gives up before its call is answered;
\* "impatient": "waydroid session stop" does;  "kill": a session process dies at
\* once;  "start", "stop": the service's handler fails;  "crash": the service is
\* killed, or told to terminate while its stop fails, with a session tracked;
\* "sigterm": it is told to terminate and stops its container first;
\* "silent": the container goes down and the service does not hear of it (root's
\* "waydroid container stop", a death of Android);  "upgrade": root upgrades
\* beside the sessions, once, and may get no answers either.
FaultKinds == {"timeout", "impatient", "kill", "start", "stop", "crash", "sigterm",
               "silent", "upgrade"}

ASSUME SessionAssumption ==
  /\ Root \notin Users
  /\ NoSession \notin Sessions
  /\ Owner \in [Sessions -> Users]
  /\ Users \cap Sessions = {}
  /\ Root \notin Sessions
  /\ FaultSets \subseteq SUBSET FaultKinds

VARIABLES faults,    \* what may go wrong in this behaviour; it never changes
          state,     \* where each session process is
          asked,     \* what each session process has been asked and not handled
          stopper,   \* where each user's "waydroid session stop" is
          upgrader,  \* where root's "waydroid upgrade" is
          saved,     \* the session the upgrade is to restart
          calls,     \* the calls sent to the container service
          serving,   \* the call the container service has accepted
          holder,    \* the session the container service tracks
          notified,  \* the sessions it has sent SIGUSR1 to
          running    \* the container of the session it tracks is there

procs == <<faults, state, asked, stopper, upgrader, saved>>
lease == <<holder, notified>>
vars  == <<procs, calls, serving, lease, running>>

Lease == INSTANCE ContainerLease

Callers == Sessions \cup Users \cup {Root}
Calls == [op : {"start"}, from : Sessions \cup {Root}, session : Sessions]
           \cup [op : {"stop"}, from : Callers, quit : BOOLEAN]
NoCall == [op |-> "none"]

TypeOK ==
  /\ faults \in FaultSets
  /\ state \in [Sessions -> {"new", "starting", "looping", "stopping", "gone"}]
  /\ asked \in [Sessions -> SUBSET {"signal", "Stop", "handled", "SIGUSR1"}]
  /\ stopper \in [Users -> {"idle", "asking", "stopping"}]
  /\ upgrader \in {"idle", "stopping", "stopped", "starting", "done"}
  /\ saved \in Sessions \cup {NoSession}
  /\ calls \subseteq Calls
  /\ serving \in Calls \cup {NoCall}
  /\ holder \in Sessions \cup {NoSession}
  /\ notified \subseteq Sessions
  /\ running \in BOOLEAN

Init ==
  /\ faults \in FaultSets
  /\ state = [p \in Sessions |-> "new"]
  /\ asked = [p \in Sessions |-> {}]
  /\ stopper = [u \in Users |-> "idle"]
  /\ upgrader = "idle"
  /\ saved = NoSession
  /\ calls = {}
  /\ serving = NoCall
  /\ Lease!Init
  /\ running = FALSE

Alive(p) == state[p] \notin {"new", "gone"}

\* The process that owns id.waydro.Session on the user's session bus.
Named(u) == {p \in Sessions : Alive(p) /\ Owner[p] = u}

MayFail(fault) == fault \in faults

UserOf(caller) == IF caller \in Sessions THEN Owner[caller] ELSE caller

StartCall(from, p)   == [op |-> "start", from |-> from, session |-> p]
StopCall(from, quit) == [op |-> "stop", from |-> from, quit |-> quit]

-----------------------------------------------------------------------------
(* Session processes                                                        *)

\* The bus name is taken first; without a compositor the process gives up.
Launch(p) ==
  /\ state[p] = "new"
  /\ \/ /\ Named(Owner[p]) = {}
        /\ state' = [state EXCEPT ![p] = "starting"]
        /\ calls' = calls \cup {StartCall(p, p)}
     \/ /\ state' = [state EXCEPT ![p] = "gone"]
        /\ UNCHANGED calls
  /\ UNCHANGED <<faults, asked, stopper, upgrader, saved, serving, lease, running>>

\* SIGINT, SIGTERM, SIGHUP or the loss of the session bus, handled by the main
\* loop, which does not run before Start has been answered.
Signal(p) ==
  /\ state[p] \in {"starting", "looping"}
  /\ asked' = [asked EXCEPT ![p] = @ \cup {"signal"}]
  /\ UNCHANGED <<faults, state, stopper, upgrader, saved, calls, serving, lease, running>>

\* Slips the runs must notice: the process exits without waiting for the
\* container, or only its D-Bus method is there and signals are forgotten.
HandleStopAndExit(p) ==
  /\ state[p] = "looping"
  /\ asked[p] \cap {"signal", "Stop"} # {}
  /\ state' = [state EXCEPT ![p] = "gone"]
  /\ calls' = calls \cup {StopCall(p, FALSE)}
  /\ UNCHANGED <<faults, asked, stopper, upgrader, saved, serving, lease, running>>

HandleStopMethodOnly(p) ==
  /\ state[p] = "looping"
  /\ "Stop" \in asked[p]
  /\ asked' = [asked EXCEPT ![p] = {"handled"}]
  /\ state' = [state EXCEPT ![p] = "stopping"]
  /\ calls' = calls \cup {StopCall(p, FALSE)}
  /\ UNCHANGED <<faults, stopper, upgrader, saved, serving, lease, running>>

\* sigint_handler, handle_disconnect, Stop: do_stop, then the container.  One of
\* them quits the loop: what else the process was asked is never handled.
HandleStop(p) ==
  /\ state[p] = "looping"
  /\ \/ "signal" \in asked[p] /\ asked' = [asked EXCEPT ![p] = @ \cap {"Stop"}]
     \/ "Stop" \in asked[p] /\ asked' = [asked EXCEPT ![p] = {"handled"}]
  /\ state' = [state EXCEPT ![p] = "stopping"]
  /\ calls' = calls \cup {StopCall(p, FALSE)}
  /\ UNCHANGED <<faults, stopper, upgrader, saved, serving, lease, running>>

\* sigusr_handler: the container is gone already.
HandleQuit(p) ==
  /\ state[p] = "looping"
  /\ p \in notified \/ "SIGUSR1" \in asked[p]
  /\ state' = [state EXCEPT ![p] = "gone"]
  /\ asked' = [asked EXCEPT ![p] = {}]
  /\ UNCHANGED <<faults, stopper, upgrader, saved, calls, serving, lease, running>>

\* The process waits for the container because of a Stop, which it is to answer.
Answers(p) == state[p] = "stopping" /\ "handled" \in asked[p] /\ "Stop" \notin asked[p]

Killed(p) ==
  /\ MayFail("kill")
  /\ Alive(p)
  /\ state' = [state EXCEPT ![p] = "gone"]
  /\ asked' = [asked EXCEPT ![p] = {}]
  /\ UNCHANGED <<faults, stopper, upgrader, saved, calls, serving, lease, running>>

\* A call that is not answered in time: Start makes the process exit, Stop is
\* given up silently.
GiveUp(p) ==
  /\ MayFail("timeout")
  /\ state[p] \in {"starting", "stopping"}
  /\ state' = [state EXCEPT ![p] = "gone"]
  /\ stopper' = IF Answers(p)
                  THEN [stopper EXCEPT ![Owner[p]] = IF @ = "asking" THEN "idle" ELSE @]
                  ELSE stopper
  /\ asked' = [asked EXCEPT ![p] = {}]
  /\ UNCHANGED <<faults, upgrader, saved, calls, serving, lease, running>>

-----------------------------------------------------------------------------
(* waydroid session stop: ask the session process, or else the container.   *)

SessionStop(u) ==
  /\ stopper[u] = "idle"
  /\ IF Named(u) # {}
       THEN /\ asked' = [p \in Sessions |->
                           IF p \in Named(u) THEN asked[p] \cup {"Stop"} ELSE asked[p]]
            /\ stopper' = [stopper EXCEPT ![u] = "asking"]
            /\ UNCHANGED calls
       ELSE /\ calls' = calls \cup {StopCall(u, TRUE)}
            /\ stopper' = [stopper EXCEPT ![u] = "stopping"]
            /\ UNCHANGED asked
  /\ UNCHANGED <<faults, state, upgrader, saved, serving, lease, running>>

\* The session process that was asked went away, or was too busy, without an answer.
Unanswered(u) ==
  /\ stopper[u] = "asking"
  /\ \/ \A p \in Named(u) : asked[p] \cap {"Stop", "handled"} = {}
     \/ MayFail("impatient")
  /\ calls' = calls \cup {StopCall(u, TRUE)}
  /\ stopper' = [stopper EXCEPT ![u] = "stopping"]
  /\ UNCHANGED <<faults, state, asked, upgrader, saved, serving, lease, running>>

StopperGivesUp(u) ==
  /\ MayFail("impatient")
  /\ stopper[u] = "stopping"
  /\ stopper' = [stopper EXCEPT ![u] = "idle"]
  /\ UNCHANGED <<faults, state, asked, upgrader, saved, calls, serving, lease, running>>

-----------------------------------------------------------------------------
(* waydroid upgrade: the session is asked for, the container is stopped     *)
(* below it and started again for it.                                       *)

UpgradeStop ==
  /\ MayFail("upgrade")
  /\ upgrader = "idle"
  /\ holder # NoSession
  /\ saved' = holder
  /\ upgrader' = "stopping"
  /\ calls' = calls \cup {StopCall(Root, FALSE)}
  /\ UNCHANGED <<faults, state, asked, stopper, serving, lease, running>>

\* A Stop that is not answered: the upgrade stops the container itself, with a
\* SIGUSR1 for the session it was told of.
UpgradeStopsItself ==
  /\ upgrader = "stopping"
  /\ upgrader' = "stopped"
  /\ asked' = [asked EXCEPT ![saved] = IF Alive(saved) THEN @ \cup {"SIGUSR1"} ELSE @]
  /\ UNCHANGED <<faults, state, stopper, saved, calls, serving, lease, running>>

\* The session it was told of is started again, unless something has failed in
\* between.
UpgradeStart ==
  /\ upgrader = "stopped"
  /\ \/ upgrader' = "starting" /\ calls' = calls \cup {StartCall(Root, saved)}
     \/ upgrader' = "done" /\ UNCHANGED calls
  /\ UNCHANGED <<faults, state, asked, stopper, saved, serving, lease, running>>

UpgradeGivesUp ==
  /\ upgrader = "starting"
  /\ upgrader' = "done"
  /\ UNCHANGED <<faults, state, asked, stopper, saved, calls, serving, lease, running>>

-----------------------------------------------------------------------------
(* The container service                                                    *)

\* A caller that is still on the bus; the service asks the bus for its uid
\* before it does anything else.
OnBus(caller) ==
  CASE caller \in Sessions -> Alive(caller)
    [] caller \in Users    -> stopper[caller] = "stopping"
    [] caller = Root       -> upgrader \in {"stopping", "stopped", "starting"}

\* What a process has been asked is gone with it.
Unread(states) == [p \in Sessions |-> IF states[p] = "gone" THEN {} ELSE asked[p]]

\* Where the answer to a call finds its caller.
Answer(call, ok) ==
  LET p == call.from IN
  /\ state' = CASE p \in Sessions /\ state[p] = "starting" ->
                     [state EXCEPT ![p] = IF ok THEN "looping" ELSE "gone"]
                [] p \in Sessions /\ state[p] = "stopping" -> [state EXCEPT ![p] = "gone"]
                [] OTHER -> state
  /\ stopper' = CASE p \in Users /\ call \notin calls' ->
                       [stopper EXCEPT ![p] = IF @ = "stopping" THEN "idle" ELSE @]
                  [] p \in Sessions /\ Answers(p) ->
                       [stopper EXCEPT ![Owner[p]] = IF @ = "asking" THEN "idle" ELSE @]
                  [] OTHER -> stopper
  /\ upgrader' = CASE p = Root /\ call.op = "stop" /\ upgrader = "stopping" -> "stopped"
                   [] p = Root /\ call.op = "start" -> "done"
                   [] OTHER -> upgrader
  /\ asked' = Unread(state')
  /\ UNCHANGED <<faults, saved>>

\* Slips: Stop mirrors the check of the caller's pid that Start has, or has no
\* check of its user.
AcceptsFromHolder(call) ==
  /\ OnBus(call.from)
  /\ call.op = "start" => holder = NoSession
  /\ call.op = "stop" => call.from \in {Root, holder}

AcceptsAnyUser(call) ==
  /\ OnBus(call.from)
  /\ call.op = "start" => holder = NoSession

Accepts(call) ==
  /\ OnBus(call.from)
  /\ call.op = "start" => holder = NoSession
  /\ call.op = "stop" => \/ call.from = Root
                         \/ holder # NoSession /\ UserOf(call.from) = Owner[holder]

Accept(call) ==
  /\ serving = NoCall
  /\ call \in calls
  /\ Accepts(call)
  /\ serving' = call
  /\ calls' = calls \ {call}
  /\ UNCHANGED <<procs, lease, running>>

Refuse(call) ==
  /\ serving = NoCall
  /\ call \in calls
  /\ ~Accepts(call)
  /\ calls' = calls \ {call}
  /\ Answer(call, FALSE)
  /\ UNCHANGED <<serving, lease, running>>

FinishStart ==
  /\ serving.op = "start"
  /\ serving' = NoCall
  /\ UNCHANGED calls
  /\ \/ Lease!Grant(serving.session) /\ running' = TRUE /\ Answer(serving, TRUE)
     \/ MayFail("start") /\ UNCHANGED <<lease, running>> /\ Answer(serving, FALSE)

\* A slip: the session is never terminated.
FinishStopSilently ==
  /\ serving.op = "stop"
  /\ serving' = NoCall
  /\ UNCHANGED calls
  /\ \/ holder # NoSession /\ Lease!Release /\ running' = FALSE
     \/ (holder = NoSession \/ MayFail("stop")) /\ UNCHANGED <<lease, running>>
  /\ Answer(serving, TRUE)

\* A stop that fails tells nobody, neither by its answer nor by SIGUSR1, and leaves
\* the session tracked, with its container or without.
FinishStop ==
  /\ serving.op = "stop"
  /\ serving' = NoCall
  /\ UNCHANGED calls
  /\ \/ /\ holder # NoSession
        /\ IF serving.quit THEN Lease!Revoke ELSE Lease!Release
        /\ running' = FALSE
     \/ /\ holder = NoSession \/ MayFail("stop")
        /\ UNCHANGED lease
        /\ running' \in {running, FALSE}
  /\ Answer(serving, TRUE)

\* Android shuts down and asks for it.
ContainerStops ==
  /\ serving = NoCall
  /\ Lease!Revoke
  /\ running' = FALSE
  /\ UNCHANGED <<procs, calls, serving>>

\* Root's "waydroid container stop" is a process of its own, which tracks no session;
\* Android may die as well.  The service goes on tracking its session.
ContainerLost ==
  /\ MayFail("silent")
  /\ running
  /\ running' = FALSE
  /\ UNCHANGED <<procs, calls, serving, lease>>

\* The service process is gone, and everybody who waits for it gets an error; the
\* next call is the next service's.
LeavesCallers ==
  /\ calls' = {}
  /\ serving' = NoCall
  /\ running' = FALSE
  /\ state' = [p \in Sessions |-> IF state[p] \in {"starting", "stopping"} THEN "gone"
                                                                          ELSE state[p]]
  /\ stopper' = [u \in Users |->
                   IF \/ stopper[u] = "stopping"
                      \/ stopper[u] = "asking" /\ \E p \in Named(u) : Answers(p)
                     THEN "idle"
                     ELSE stopper[u]]
  /\ asked' = Unread(state')
  /\ UNCHANGED <<faults, upgrader, saved>>

\* SIGTERM: sigint_handler stops the container first, with a SIGUSR1.
Terminated ==
  /\ MayFail("sigterm")
  /\ serving = NoCall
  /\ IF holder # NoSession THEN Lease!Revoke ELSE UNCHANGED lease
  /\ LeavesCallers

\* SIGKILL, or a stop in sigint_handler that fails: nobody is told.
ServiceDies ==
  /\ MayFail("crash")
  /\ holder' = NoSession
  /\ UNCHANGED notified
  /\ LeavesCallers

ServiceEnds == ContainerStops \/ ContainerLost \/ Terminated \/ ServiceDies

Service == FinishStart \/ FinishStop \/ \E call \in calls : Accept(call) \/ Refuse(call)

-----------------------------------------------------------------------------
Next ==
  \/ \E p \in Sessions : \/ Launch(p) \/ Signal(p) \/ HandleStop(p) \/ HandleQuit(p)
                         \/ Killed(p) \/ GiveUp(p)
  \/ \E u \in Users : SessionStop(u) \/ Unanswered(u) \/ StopperGivesUp(u)
  \/ UpgradeStop \/ UpgradeStopsItself \/ UpgradeStart \/ UpgradeGivesUp
  \/ Service \/ ServiceEnds

\* Processes handle what they have been asked, and the service serves its calls.
Fairness == /\ \A p \in Sessions : WF_vars(HandleStop(p)) /\ WF_vars(HandleQuit(p))
            /\ \A u \in Users : WF_vars(Unanswered(u))
            /\ WF_vars(UpgradeStart)
            /\ WF_vars(FinishStart) /\ WF_vars(FinishStop)
            /\ \A call \in Calls : WF_vars(Accept(call) \/ Refuse(call))

Spec == Init /\ [][Next]_vars
FairSpec == Spec /\ Fairness

-----------------------------------------------------------------------------
(* Properties *)

\* A session process whose main loop runs, and which has not been told to quit,
\* is the one the service tracks, whatever answers were late, whoever stopped
\* whom and whichever processes died; and its container is there.  A session goes on
\* without knowing that its container is gone or is somebody else's on four paths
\* only, which the code has: an upgrade that cannot start it again, a service that
\* dies or whose last stop fails ("crash"), a stop that fails half-way, and a
\* container that goes down behind the service's back ("silent").
SessionHasContainer ==
  \A p \in Sessions : state[p] = "looping" /\ p \notin notified =>
    /\ faults \cap {"upgrade", "crash"} = {} => holder = p
    /\ faults \cap {"upgrade", "crash", "stop", "silent"} = {} => running

\* Unless a process is killed, a caller gives up or a stop fails, the service
\* never tracks a session whose process is gone, not even across its own deaths.
NoOrphanTracking ==
  faults \subseteq {"start", "crash", "sigterm", "silent"} =>
    \A p \in Sessions : holder = p => Alive(p)

\* A session that is told to stop, even before its Start is answered, exits,
\* and leaves the container free, also when the service or the container dies.
StopReleases ==
  \A p \in Sessions :
    faults \subseteq {"start", "crash", "sigterm", "silent"} /\ asked[p] # {} ~> state[p] = "gone" /\ holder # p

\* When the process of a tracked session is gone, its user can still free the
\* container by asking often enough with "waydroid session stop".
DeadSessionsCanBeStopped ==
  \A p \in Sessions :
    WF_vars(SessionStop(Owner[p])) =>
      (/\ faults \subseteq {"timeout", "kill", "start", "crash", "sigterm"}
       /\ holder = p
       /\ state[p] = "gone") ~> holder # p

\* A call takes a session's container away only on behalf of the session's own
\* user or of root, although the session may not be the one that was tracked
\* when the call was made.  (A service that dies drops it on nobody's behalf.)
OnlyOwnersStop ==
  [][\A p \in Sessions : holder = p /\ holder' # p /\ serving # NoCall /\ "crash" \notin faults
       => UserOf(serving.from) \in {Owner[p], Root}]_vars
=============================================================================
