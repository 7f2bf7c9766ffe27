------------------------ MODULE SessionManager_proofs ------------------------
(***************************************************************************)
(* Type correctness, SessionHasContainer, NoOrphanTracking and             *)
(* OnlyOwnersStop for any users, sessions and faults, and that a Start     *)
(* which was accepted finds the container free.                            *)
(***************************************************************************)
EXTENDS SessionManager, TLAPS

\* The calls that are under way.
Pending == calls \cup {serving}

\* An upgrade that is under way knows a session.
UpgradeKnows == upgrader # "idle" => saved \in Sessions

\* Root calls the service only in an upgrade.
RootUpgrades == \A call \in Pending :
                  call.op \in {"start", "stop"} /\ call.from = Root => upgrader # "idle"

\* A session bus has one owner of id.waydro.Session.
NameUnique == \A p, q \in Sessions :
                Alive(p) /\ Alive(q) /\ Owner[p] = Owner[q] => p = q

\* A process that has asked for a Stop waits for its answer or is gone.
StopsWait == \A call \in Pending :
               call.op = "stop" /\ call.from \in Sessions
                 => state[call.from] \in {"stopping", "gone"}

\* Stops are served for root or for the user of the session that is tracked.
ServedForOwner ==
  serving.op = "stop" => \/ serving.from = Root
                         \/ holder # NoSession /\ UserOf(serving.from) = Owner[holder]

Shared == UpgradeKnows /\ RootUpgrades /\ NameUnique /\ StopsWait /\ ServedForOwner

\* Without an upgrade sessions start themselves, and only a session that stops
\* itself asks for a Stop without a SIGUSR1; nobody loops when it is served.
OwnCalls == \A call \in Pending :
              /\ call.op = "start" => call.from \in Sessions /\ call.session = call.from
              /\ call.op = "stop" /\ ~call.quit => call.from \in Sessions

StoppedByItself ==
  serving.op = "stop" /\ ~serving.quit /\ holder # NoSession => state[holder] # "looping"

LoopersHold == "crash" \notin faults =>
                 \A p \in Sessions : state[p] = "looping" /\ p \notin notified => holder = p

Undisturbed == "upgrade" \notin faults =>
                 upgrader = "idle" /\ OwnCalls /\ StoppedByItself /\ LoopersHold

\* A container goes down below the session that is tracked in two ways only.
TrackedRuns == faults \cap {"stop", "silent"} = {} /\ holder # NoSession => running

IInv == TypeOK /\ Shared /\ Undisturbed /\ TrackedRuns

USE SessionAssumption DEF NoCall, lease

\* The calls that are sent are calls.
LEMMA CallTypes ==
  /\ \A p, from \in Sessions \cup {Root} : p # Root => StartCall(from, p) \in Calls
  /\ \A from \in Callers : StopCall(from, TRUE) \in Calls /\ StopCall(from, FALSE) \in Calls
<1>1. TRUE \in BOOLEAN /\ FALSE \in BOOLEAN
  OBVIOUS
<1> QED
  BY <1>1 DEF Calls, StartCall, StopCall, Callers

\* What a call consists of.
LEMMA CallFields ==
  ASSUME NEW call \in Calls
  PROVE  /\ call # NoCall
         /\ call.op \in {"start", "stop"}
         /\ call.op = "start" => call.from \in Sessions \cup {Root} /\ call.session \in Sessions
         /\ call.op = "stop" => call.from \in Callers
BY DEF Calls

\* What an answer does to the processes.
LEMMA AnswerEffect ==
  ASSUME TypeOK, NEW call \in Calls, NEW ok \in BOOLEAN, Answer(call, ok)
  PROVE  /\ UNCHANGED <<faults, saved>>
         /\ asked' \in [Sessions -> SUBSET {"signal", "Stop", "handled", "SIGUSR1"}]
         /\ \A p \in Sessions : asked'[p] \subseteq asked[p]
         /\ state' \in [Sessions -> {"new", "starting", "looping", "stopping", "gone"}]
         /\ stopper' \in [Users -> {"idle", "asking", "stopping"}]
         /\ upgrader' \in {"idle", "stopping", "stopped", "starting", "done"}
         /\ \A p \in Sessions :
              \/ state'[p] = state[p] /\ (p = call.from => state[p] \notin {"starting", "stopping"})
              \/ p = call.from /\ state[p] = "starting" /\ state'[p] = (IF ok THEN "looping" ELSE "gone")
              \/ p = call.from /\ state[p] = "stopping" /\ state'[p] = "gone"
         /\ call.from # Root => upgrader' = upgrader
<1>1. /\ UNCHANGED <<faults, saved>>
      /\ asked' \in [Sessions -> SUBSET {"signal", "Stop", "handled", "SIGUSR1"}]
      /\ \A p \in Sessions : asked'[p] \subseteq asked[p]
  BY DEF Answer, Unread, TypeOK
<1>2. state' = CASE call.from \in Sessions /\ state[call.from] = "starting" ->
                     [state EXCEPT ![call.from] = IF ok THEN "looping" ELSE "gone"]
                [] call.from \in Sessions /\ state[call.from] = "stopping" ->
                     [state EXCEPT ![call.from] = "gone"]
                [] OTHER -> state
  BY DEF Answer
<1>3. /\ state' \in [Sessions -> {"new", "starting", "looping", "stopping", "gone"}]
      /\ \A p \in Sessions :
              \/ state'[p] = state[p] /\ (p = call.from => state[p] \notin {"starting", "stopping"})
              \/ p = call.from /\ state[p] = "starting" /\ state'[p] = (IF ok THEN "looping" ELSE "gone")
              \/ p = call.from /\ state[p] = "stopping" /\ state'[p] = "gone"
  <2>1. CASE call.from \in Sessions /\ state[call.from] = "starting"
    BY <1>2, <2>1 DEF TypeOK
  <2>2. CASE call.from \in Sessions /\ state[call.from] = "stopping"
    BY <1>2, <2>2 DEF TypeOK
  <2>3. CASE ~(call.from \in Sessions /\ state[call.from] \in {"starting", "stopping"})
    BY <1>2, <2>3 DEF TypeOK
  <2> QED
    BY <2>1, <2>2, <2>3
<1>4. stopper' \in [Users -> {"idle", "asking", "stopping"}]
  BY DEF Answer, TypeOK
<1>5. /\ upgrader' \in {"idle", "stopping", "stopped", "starting", "done"}
      /\ call.from # Root => upgrader' = upgrader
  BY DEF Answer, TypeOK
<1> QED
  BY <1>1, <1>3, <1>4, <1>5

\* What the end of the service does to them.
LEMMA LeaveEffect ==
  ASSUME TypeOK, LeavesCallers
  PROVE  /\ UNCHANGED <<faults, upgrader, saved>>
         /\ calls' = {} /\ serving' = NoCall /\ running' = FALSE
         /\ asked' \in [Sessions -> SUBSET {"signal", "Stop", "handled", "SIGUSR1"}]
         /\ \A p \in Sessions : asked'[p] \subseteq asked[p]
         /\ state' \in [Sessions -> {"new", "starting", "looping", "stopping", "gone"}]
         /\ stopper' \in [Users -> {"idle", "asking", "stopping"}]
         /\ \A p \in Sessions : \/ state'[p] = state[p] /\ state[p] \notin {"starting", "stopping"}
                                \/ state[p] \in {"starting", "stopping"} /\ state'[p] = "gone"
BY DEF LeavesCallers, Unread, TypeOK

-----------------------------------------------------------------------------
(* Type correctness. *)

\* Every step keeps the state well typed.
LEMMA Types == TypeOK /\ UpgradeKnows /\ [Next]_vars => TypeOK'
<1> SUFFICES ASSUME TypeOK, UpgradeKnows, [Next]_vars PROVE TypeOK'
  OBVIOUS
<1> USE DEF TypeOK
<1>1. ASSUME NEW p \in Sessions,
             Launch(p) \/ Signal(p) \/ HandleStop(p) \/ HandleQuit(p) \/ Killed(p) \/ GiveUp(p)
      PROVE  TypeOK'
  <2>1. CASE Launch(p)
    BY <2>1, CallTypes DEF Launch
  <2>2. CASE Signal(p)
    BY <2>2 DEF Signal
  <2>3. CASE HandleStop(p)
    <3>1. asked' \in [Sessions -> SUBSET {"signal", "Stop", "handled", "SIGUSR1"}]
      BY <2>3 DEF HandleStop
    <3>2. /\ state' = [state EXCEPT ![p] = "stopping"]
          /\ calls' = calls \cup {StopCall(p, FALSE)}
          /\ UNCHANGED <<faults, stopper, upgrader, saved, serving, lease, running>>
      BY <2>3 DEF HandleStop
    <3> QED
      BY <3>1, <3>2, CallTypes DEF Callers
  <2>4. CASE HandleQuit(p) \/ Killed(p)
    BY <2>4 DEF HandleQuit, Killed
  <2>5. CASE GiveUp(p)
    BY <2>5 DEF GiveUp
  <2> QED
    BY <1>1, <2>1, <2>2, <2>3, <2>4, <2>5
<1>2. ASSUME NEW u \in Users, SessionStop(u) \/ Unanswered(u) \/ StopperGivesUp(u)
      PROVE  TypeOK'
  <2>0. StopCall(u, TRUE) \in Calls
    BY CallTypes DEF Callers
  <2>1. CASE SessionStop(u)
    <3>2. CASE Named(u) # {}
      <4>1. /\ asked' = [p \in Sessions |->
                           IF p \in Named(u) THEN asked[p] \cup {"Stop"} ELSE asked[p]]
            /\ stopper' = [stopper EXCEPT ![u] = "asking"]
            /\ UNCHANGED <<faults, state, upgrader, saved, calls, serving, lease, running>>
        BY <2>1, <3>2 DEF SessionStop
      <4> QED
        BY <4>1
    <3>3. CASE Named(u) = {}
      <4>1. /\ calls' = calls \cup {StopCall(u, TRUE)}
            /\ stopper' = [stopper EXCEPT ![u] = "stopping"]
            /\ UNCHANGED <<faults, state, asked, upgrader, saved, serving, lease, running>>
        BY <2>1, <3>3 DEF SessionStop
      <4> QED
        BY <2>0, <4>1
    <3> QED
      BY <3>2, <3>3
  <2>2. CASE Unanswered(u) \/ StopperGivesUp(u)
    BY <2>0, <2>2 DEF Unanswered, StopperGivesUp
  <2> QED
    BY <1>2, <2>1, <2>2
<1>3. CASE UpgradeStop \/ UpgradeStopsItself \/ UpgradeStart \/ UpgradeGivesUp
  <2>1. CASE UpgradeStop
    BY <2>1, CallTypes DEF UpgradeStop, Callers
  <2>2. CASE UpgradeStopsItself
    BY <2>2 DEF UpgradeStopsItself, UpgradeKnows
  <2>3. CASE UpgradeStart
    BY <2>3, CallTypes DEF UpgradeStart, UpgradeKnows
  <2>4. CASE UpgradeGivesUp
    BY <2>4 DEF UpgradeGivesUp
  <2> QED
    BY <1>3, <2>1, <2>2, <2>3, <2>4
<1>4. ASSUME NEW call \in calls, Accept(call)
      PROVE  TypeOK'
  BY <1>4 DEF Accept, procs
<1>5. ASSUME NEW call \in calls, Refuse(call)
      PROVE  TypeOK'
  <2>1. /\ call \in Calls /\ Answer(call, FALSE) /\ calls' \subseteq calls
        /\ UNCHANGED <<serving, lease, running>>
    BY <1>5 DEF Refuse
  <2> QED
    BY <2>1, AnswerEffect
<1>6. CASE FinishStart
  <2>1. serving \in Calls /\ serving' = NoCall /\ calls' = calls
    BY <1>6 DEF FinishStart
  <2>2. \E ok \in BOOLEAN : Answer(serving, ok)
    BY <1>6 DEF FinishStart
  <2>3. /\ holder' \in Sessions \cup {NoSession} /\ notified' \subseteq Sessions
        /\ running' \in BOOLEAN
    BY <1>6, <2>1, CallFields DEF FinishStart, Lease!Grant
  <2> QED
    BY <2>1, <2>2, <2>3, AnswerEffect
<1>7. CASE FinishStop
  <2>1. serving' = NoCall /\ calls' = calls /\ Answer(serving, TRUE) /\ serving.op = "stop"
    BY <1>7, Zenon DEF FinishStop
  <2>2. \/ UNCHANGED lease
        \/ Lease!Release
        \/ Lease!Revoke
    BY <1>7, Zenon DEF FinishStop
  <2>3. holder' \in Sessions \cup {NoSession} /\ notified' \subseteq Sessions
    BY <2>2 DEF Lease!Release, Lease!Revoke
  <2>4. serving \in Calls
    BY <2>1
  <2>5. running' \in {TRUE, FALSE}
    <3>1. running' = FALSE \/ running' \in {running, FALSE}
      BY <1>7, Zenon DEF FinishStop
    <3> QED
      BY <3>1
  <2> QED
    BY <2>1, <2>3, <2>4, <2>5, AnswerEffect
<1>8. CASE ServiceEnds
  <2>1. CASE ContainerStops \/ ContainerLost
    BY <2>1 DEF ContainerStops, ContainerLost, procs, Lease!Revoke
  <2>2. CASE Terminated \/ ServiceDies
    <3>1. holder' \in Sessions \cup {NoSession} /\ notified' \subseteq Sessions /\ LeavesCallers
      BY <2>2 DEF Terminated, ServiceDies, Lease!Revoke
    <3> QED
      BY <3>1, LeaveEffect
  <2> QED
    BY <1>8, <2>1, <2>2 DEF ServiceEnds
<1>9. CASE UNCHANGED vars
  BY <1>9 DEF vars, procs
<1> QED
  BY <1>1, <1>2, <1>3, <1>4, <1>5, <1>6, <1>7, <1>8, <1>9 DEF Next, Service

-----------------------------------------------------------------------------
(* The invariant. *)

\* A process that is stopped, or asks for its stop, keeps the shared part.
LEMMA SessionShared ==
  ASSUME TypeOK, Shared, NEW p \in Sessions,
         Launch(p) \/ Signal(p) \/ HandleStop(p) \/ HandleQuit(p) \/ Killed(p) \/ GiveUp(p)
  PROVE  Shared'
<1> USE DEF TypeOK
<1>1. /\ UNCHANGED <<upgrader, saved, serving, holder, faults, notified>>
      /\ UpgradeKnows' /\ ServedForOwner'
  BY DEF Launch, Signal, HandleStop, HandleQuit, Killed, GiveUp, Shared, UpgradeKnows,
         ServedForOwner, UserOf
<1>2. NameUnique'
  <2>1. CASE Launch(p)
    <3>1. \A q \in Sessions \ {p} : Alive(q)' <=> Alive(q)
      BY <2>1 DEF Launch, Alive
    <3>2. Alive(p)' => Named(Owner[p]) = {}
      BY <2>1 DEF Launch, Alive
    <3> QED
      BY <3>1, <3>2 DEF NameUnique, Shared, Named
  <2>2. CASE Signal(p) \/ HandleStop(p) \/ HandleQuit(p) \/ Killed(p) \/ GiveUp(p)
    <3>1. \A q \in Sessions : Alive(q)' => Alive(q)
      BY <2>2 DEF Signal, HandleStop, HandleQuit, Killed, GiveUp, Alive
    <3> QED
      BY <3>1 DEF NameUnique, Shared
  <2> QED
    BY <2>1, <2>2
<1>3. StopsWait'
  <2>1. \A q \in Sessions : state[q] \in {"stopping", "gone"} => state'[q] \in {"stopping", "gone"}
    BY DEF Launch, Signal, HandleStop, HandleQuit, Killed, GiveUp, Alive
  <2>2. \A call \in Pending' : \/ call \in Pending
                               \/ call = StartCall(p, p)
                               \/ call = StopCall(p, FALSE) /\ state'[p] = "stopping"
    BY DEF Launch, Signal, HandleStop, HandleQuit, Killed, GiveUp, Pending
  <2> QED
    BY <2>1, <2>2 DEF StopsWait, Shared, StartCall, StopCall
<1>4. RootUpgrades'
  <2>1. \A call \in Pending' : call \in Pending \/ call \in {StartCall(p, p), StopCall(p, FALSE)}
    BY DEF Launch, Signal, HandleStop, HandleQuit, Killed, GiveUp, Pending
  <2> QED
    BY <1>1, <2>1 DEF RootUpgrades, Shared, StartCall, StopCall
<1> QED
  BY <1>1, <1>2, <1>3, <1>4 DEF Shared

\* So do the commands beside it.
LEMMA CommandShared ==
  ASSUME TypeOK, Shared,
         \/ \E u \in Users : SessionStop(u) \/ Unanswered(u) \/ StopperGivesUp(u)
         \/ UpgradeStop \/ UpgradeStopsItself \/ UpgradeStart \/ UpgradeGivesUp
  PROVE  Shared'
<1>1. /\ UNCHANGED <<state, serving, holder, faults, notified>>
      /\ UpgradeKnows'
  BY DEF TypeOK, SessionStop, Unanswered, StopperGivesUp, UpgradeStop, UpgradeStopsItself,
         UpgradeStart, UpgradeGivesUp, Shared, UpgradeKnows
<1>2. \A call \in Pending' : \/ call \in Pending
                             \/ call.from = Root /\ upgrader' # "idle"
                             \/ call.from \in Users
  <2>1. ASSUME NEW u \in Users, SessionStop(u) \/ Unanswered(u) \/ StopperGivesUp(u)
        PROVE  calls' \in {calls, calls \cup {StopCall(u, TRUE)}}
    BY <2>1 DEF SessionStop, Unanswered, StopperGivesUp
  <2>2. CASE UpgradeStop \/ UpgradeStopsItself \/ UpgradeStart \/ UpgradeGivesUp
    <3>1. /\ calls' \in {calls, calls \cup {StopCall(Root, FALSE)},
                        calls \cup {StartCall(Root, saved)}}
          /\ upgrader' # "idle"
      BY <2>2 DEF UpgradeStop, UpgradeStopsItself, UpgradeStart, UpgradeGivesUp
    <3> QED
      BY <1>1, <3>1 DEF Pending, StopCall, StartCall
  <2>3. ASSUME NEW u \in Users, SessionStop(u) \/ Unanswered(u) \/ StopperGivesUp(u),
               NEW call \in Pending'
        PROVE  call \in Pending \/ call.from \in Users
    BY <1>1, <2>1, <2>3 DEF Pending, StopCall
  <2> QED
    BY <2>2, <2>3
<1>3. NameUnique' /\ StopsWait' /\ ServedForOwner' /\ RootUpgrades'
  <2>1. upgrader # "idle" => upgrader' # "idle"
    BY DEF SessionStop, Unanswered, StopperGivesUp, UpgradeStop, UpgradeStopsItself,
           UpgradeStart, UpgradeGivesUp
  <2> QED
    BY <1>1, <1>2, <2>1 DEF RootUpgrades, Shared, NameUnique, StopsWait, ServedForOwner, Alive, UserOf
<1> QED
  BY <1>1, <1>3 DEF Shared

\* So does the service.
LEMMA ServiceShared ==
  ASSUME TypeOK, Shared, Service \/ ServiceEnds
  PROVE  Shared'
<1>1. ASSUME NEW call \in calls, Accept(call)
      PROVE  Shared'
  <2>1. /\ UNCHANGED <<state, upgrader, saved, holder>>
        /\ serving' = call /\ Pending' \subseteq Pending /\ Accepts(call)
    BY <1>1 DEF Accept, procs, Pending
  <2> QED
    BY <2>1 DEF Shared, UpgradeKnows, RootUpgrades, NameUnique, StopsWait, ServedForOwner,
                Alive, UserOf, Accepts
<1>2. ASSUME NEW call \in Calls, NEW ok \in BOOLEAN, Answer(call, ok),
             call \in Pending, Pending' \subseteq Pending \cup {NoCall},
             \/ UNCHANGED <<serving, holder>>
             \/ serving' = NoCall
      PROVE  Shared'
  <2>1. ServedForOwner'
    <3>1. CASE serving' = NoCall
      BY <3>1 DEF ServedForOwner
    <3>2. CASE UNCHANGED <<serving, holder>>
      BY <3>2 DEF Shared, ServedForOwner, UserOf
    <3> QED
      BY <1>2, <3>1, <3>2
  <2>2. UpgradeKnows' /\ RootUpgrades'
    <3>1. saved' = saved /\ (upgrader = "idle" <=> upgrader' = "idle")
      <4>1. upgrader = "idle" => call.from # Root
        BY <1>2, CallFields DEF Shared, RootUpgrades
      <4>2. upgrader # "idle" => upgrader' # "idle"
        BY <1>2 DEF Answer
      <4> QED
        BY <1>2, <4>1, <4>2, AnswerEffect
    <3>2. \A c \in Pending' : c \in Pending \/ c.op = "none"
      BY <1>2
    <3> QED
      BY <3>1, <3>2 DEF Shared, UpgradeKnows, RootUpgrades
  <2>3. NameUnique'
    BY <1>2, AnswerEffect DEF Shared, NameUnique, Alive
  <2>4. StopsWait'
    <3>1. \A c \in Pending' : c \in Pending \/ c.op = "none"
      BY <1>2
    <3>2. \A p \in Sessions : state[p] \in {"stopping", "gone"} => state'[p] \in {"stopping", "gone"}
      BY <1>2, AnswerEffect
    <3> QED
      BY <3>1, <3>2 DEF Shared, StopsWait
  <2> QED
    BY <2>1, <2>2, <2>3, <2>4 DEF Shared
<1>3. ASSUME NEW call \in calls, Refuse(call)
      PROVE  Shared'
  <2>1. /\ call \in Calls /\ Answer(call, FALSE) /\ call \in Pending
        /\ Pending' \subseteq Pending /\ UNCHANGED <<serving, holder>>
    BY <1>3 DEF Refuse, TypeOK, Pending
  <2> QED
    BY <1>2, <2>1
<1>4. CASE FinishStart
  <2>1. serving' = NoCall /\ calls' = calls /\ serving.op = "start"
    BY <1>4 DEF FinishStart
  <2>2. \E ok \in BOOLEAN : Answer(serving, ok)
    BY <1>4 DEF FinishStart
  <2>3. serving \in Calls
    BY <2>1 DEF TypeOK
  <2> QED
    BY <1>2, <2>1, <2>2, <2>3 DEF Pending
<1>5. CASE FinishStop
  <2>1. serving.op = "stop" /\ serving' = NoCall /\ calls' = calls /\ Answer(serving, TRUE)
    BY <1>5, Zenon DEF FinishStop
  <2>2. serving \in Calls
    BY <2>1 DEF TypeOK
  <2> QED
    BY <1>2, <2>1, <2>2 DEF Pending
<1>6. CASE ContainerStops \/ ContainerLost
  BY <1>6 DEF ContainerStops, ContainerLost, procs, Lease!Revoke, Shared, UpgradeKnows,
              RootUpgrades, NameUnique, StopsWait, ServedForOwner, Alive, Pending, UserOf
<1>7. CASE Terminated \/ ServiceDies
  <2>1. LeavesCallers
    BY <1>7 DEF Terminated, ServiceDies
  <2> QED
    BY <2>1, LeaveEffect DEF Shared, UpgradeKnows, RootUpgrades, NameUnique, StopsWait,
                             ServedForOwner, Alive, Pending
<1> QED
  BY <1>1, <1>3, <1>4, <1>5, <1>6, <1>7 DEF Service, ServiceEnds

\* The faults of a behaviour never change.
LEMMA FaultsStay == [Next]_vars => faults' = faults
BY DEF Next, vars, procs, Launch, Signal, HandleStop, HandleQuit, Killed, GiveUp,
       SessionStop, Unanswered, StopperGivesUp, UpgradeStop, UpgradeStopsItself, UpgradeStart,
       UpgradeGivesUp, Service, Accept, Refuse, FinishStart, FinishStop, Answer, ServiceEnds,
       ContainerStops, ContainerLost, Terminated, ServiceDies, LeavesCallers

\* Without an upgrade, what session processes do keeps what holds then.
LEMMA SessionUndisturbed ==
  ASSUME IInv, NEW p \in Sessions,
         Launch(p) \/ Signal(p) \/ HandleStop(p) \/ HandleQuit(p) \/ Killed(p) \/ GiveUp(p)
  PROVE  Undisturbed'
<1> USE DEF TypeOK, IInv
<1>1. UNCHANGED <<upgrader, saved, serving, holder, faults, notified>>
  BY DEF Launch, Signal, HandleStop, HandleQuit, Killed, GiveUp
<1>2. \A q \in Sessions : state'[q] = "looping" => state[q] = "looping"
  BY DEF Launch, Signal, HandleStop, HandleQuit, Killed, GiveUp
<1>3. \A call \in Pending' : call \in Pending \/ call \in {StartCall(p, p), StopCall(p, FALSE)}
  BY DEF Launch, Signal, HandleStop, HandleQuit, Killed, GiveUp, Pending
<1>4. OwnCalls => OwnCalls'
  BY <1>3 DEF OwnCalls, StartCall, StopCall
<1>5. StoppedByItself /\ LoopersHold => StoppedByItself' /\ LoopersHold'
  BY <1>1, <1>2 DEF StoppedByItself, LoopersHold
<1> QED
  BY <1>1, <1>4, <1>5 DEF Undisturbed

\* So do the commands, which are none of root then.
LEMMA CommandUndisturbed ==
  ASSUME IInv,
         \/ \E u \in Users : SessionStop(u) \/ Unanswered(u) \/ StopperGivesUp(u)
         \/ UpgradeStop \/ UpgradeStopsItself \/ UpgradeStart \/ UpgradeGivesUp
  PROVE  Undisturbed'
<1> SUFFICES ASSUME "upgrade" \notin faults
             PROVE  upgrader' = "idle" /\ OwnCalls' /\ StoppedByItself' /\ LoopersHold'
  BY DEF Undisturbed, SessionStop, Unanswered, StopperGivesUp, UpgradeStop,
         UpgradeStopsItself, UpgradeStart, UpgradeGivesUp
<1>1. PICK u \in Users : SessionStop(u) \/ Unanswered(u) \/ StopperGivesUp(u)
  BY DEF IInv, Undisturbed, UpgradeStop, UpgradeStopsItself, UpgradeStart, UpgradeGivesUp,
         MayFail
<1>2. /\ UNCHANGED <<faults, state, upgrader, serving, holder, notified>>
      /\ calls' \in {calls, calls \cup {StopCall(u, TRUE)}}
  BY <1>1 DEF SessionStop, Unanswered, StopperGivesUp
<1>3. \A call \in Pending' : call \in Pending \/ call = StopCall(u, TRUE)
  BY <1>2 DEF Pending
<1>4. OwnCalls'
  BY <1>3 DEF OwnCalls, StopCall, IInv, Undisturbed
<1> QED
  BY <1>2, <1>4 DEF IInv, Undisturbed, StoppedByItself, LoopersHold

\* So does the service: nobody is looping when it grants the container, and
\* whoever is when it takes it away has been told.
LEMMA ServiceUndisturbed ==
  ASSUME IInv, Service \/ ServiceEnds
  PROVE  Undisturbed'
<1>f. faults' = faults
  BY FaultsStay DEF Next
<1> SUFFICES ASSUME "upgrade" \notin faults
             PROVE  upgrader' = "idle" /\ OwnCalls' /\ StoppedByItself' /\ LoopersHold'
  BY <1>f DEF Undisturbed
<1> USE <1>f DEF TypeOK
<1>0. upgrader = "idle" /\ OwnCalls /\ StoppedByItself /\ LoopersHold /\ TypeOK /\ Shared
  BY DEF IInv, Undisturbed
<1>1. ASSUME NEW call \in calls, Accept(call)
      PROVE  upgrader' = "idle" /\ OwnCalls' /\ StoppedByItself' /\ LoopersHold'
  <2>1. /\ UNCHANGED <<state, upgrader, holder, notified>>
        /\ serving' = call /\ Pending' \subseteq Pending /\ Accepts(call) /\ call \in Pending
    BY <1>1 DEF Accept, procs, Pending
  <2>2. ASSUME call.op = "stop", ~call.quit, holder # NoSession, state[holder] = "looping"
        PROVE  FALSE
    <3>1. call.from \in Sessions /\ call.from # Root
      BY <1>0, <2>1, <2>2 DEF OwnCalls
    <3>2. Alive(call.from) /\ Owner[call.from] = Owner[holder] /\ Alive(holder)
      BY <1>0, <2>1, <2>2, <3>1 DEF Accepts, OnBus, UserOf, Alive
    <3>3. call.from = holder
      BY <1>0, <2>2, <3>1, <3>2 DEF Shared, NameUnique
    <3> QED
      BY <1>0, <2>1, <2>2, <3>1, <3>3 DEF Shared, StopsWait
  <2>3. StoppedByItself'
    BY <2>1, <2>2 DEF StoppedByItself
  <2> QED
    BY <1>0, <2>1, <2>3 DEF OwnCalls, LoopersHold
<1>2. ASSUME NEW call \in Pending, call \in Calls, NEW ok \in BOOLEAN, Answer(call, ok),
             Pending' \subseteq Pending \cup {NoCall}
      PROVE  upgrader' = "idle" /\ OwnCalls'
  <2>1. call.from # Root
    BY <1>0, <1>2, CallFields DEF Shared, RootUpgrades
  <2>2. \A c \in Pending' : c \in Pending \/ c.op = "none"
    BY <1>2
  <2> QED
    BY <1>0, <1>2, <2>1, <2>2, AnswerEffect DEF OwnCalls
<1>3. ASSUME NEW call \in calls, Refuse(call)
      PROVE  upgrader' = "idle" /\ OwnCalls' /\ StoppedByItself' /\ LoopersHold'
  <2>1. /\ call \in Calls /\ call \in Pending /\ Answer(call, FALSE)
        /\ Pending' \subseteq Pending /\ UNCHANGED <<serving, holder, notified>>
    BY <1>0, <1>3 DEF Refuse, Pending
  <2>2. \A q \in Sessions : state'[q] = "looping" => state[q] = "looping"
    BY <1>0, <2>1, AnswerEffect
  <2>3. StoppedByItself' /\ LoopersHold'
    BY <1>0, <2>1, <2>2 DEF StoppedByItself, LoopersHold
  <2> QED
    BY <1>2, <2>1, <2>3
<1>4. CASE FinishStart
  <2>1. serving' = NoCall /\ calls' = calls /\ serving.op = "start" /\ serving \in Pending
    BY <1>4 DEF FinishStart, Pending
  <2>2. serving \in Calls
    BY <1>0, <2>1
  <2>3. serving.from \in Sessions /\ serving.session = serving.from
    BY <1>0, <2>1 DEF OwnCalls
  <2>4. StoppedByItself'
    BY <2>1 DEF StoppedByItself
  <2>5. CASE Lease!Grant(serving.session) /\ Answer(serving, TRUE)
    <3>1. holder = NoSession /\ holder' = serving.from /\ notified' = notified
      BY <2>3, <2>5 DEF Lease!Grant
    <3>2. LoopersHold'
      BY <1>0, <2>2, <2>3, <2>5, <3>1, AnswerEffect DEF LoopersHold
    <3> QED
      BY <1>2, <2>1, <2>2, <2>4, <2>5, <3>2 DEF Pending
  <2>6. CASE UNCHANGED lease /\ Answer(serving, FALSE)
    <3>1. \A q \in Sessions : state'[q] = "looping" => state[q] = "looping"
      BY <1>0, <2>2, <2>6, AnswerEffect
    <3>2. LoopersHold'
      BY <1>0, <2>6, <3>1 DEF LoopersHold
    <3> QED
      BY <1>2, <2>1, <2>2, <2>4, <2>6, <3>2 DEF Pending
  <2> QED
    BY <1>4, <2>5, <2>6 DEF FinishStart
<1>5. CASE FinishStop
  <2>1. serving.op = "stop" /\ serving' = NoCall /\ calls' = calls /\ Answer(serving, TRUE)
    BY <1>5, Zenon DEF FinishStop
  <2>2. serving \in Calls /\ serving \in Pending
    BY <1>0, <2>1 DEF Pending
  <2>3. \A q \in Sessions : state'[q] = "looping" => state[q] = "looping"
    <3>1. serving.from \in Sessions => state[serving.from] \in {"stopping", "gone"}
      BY <1>0, <2>1, <2>2 DEF Shared, StopsWait
    <3>2. \A q \in Sessions :
            \/ state'[q] = state[q]
            \/ q = serving.from /\ state[q] = "starting"
            \/ state'[q] = "gone"
      BY <1>0, <2>1, <2>2, AnswerEffect
    <3> QED
      BY <3>1, <3>2
  <2>4. StoppedByItself'
    BY <2>1 DEF StoppedByItself
  <2>5. LoopersHold'
    <3>1. CASE UNCHANGED lease
      BY <1>0, <2>3, <3>1 DEF LoopersHold
    <3>2. CASE Lease!Revoke
      BY <1>0, <2>3, <3>2 DEF LoopersHold, Lease!Revoke
    <3>3. CASE ~serving.quit /\ holder # NoSession /\ Lease!Release
      <4>1. state[holder] # "looping" /\ notified' = notified
        BY <1>0, <2>1, <3>3 DEF StoppedByItself, Lease!Release
      <4> QED
        BY <1>0, <2>3, <4>1 DEF LoopersHold
    <3>4. \/ holder # NoSession /\ IF serving.quit THEN Lease!Revoke ELSE Lease!Release
          \/ UNCHANGED lease
      BY <1>5, Zenon DEF FinishStop
    <3>5. CASE serving.quit
      BY <3>1, <3>2, <3>4, <3>5, Zenon
    <3>6. CASE ~serving.quit
      BY <3>1, <3>3, <3>4, <3>6, Zenon
    <3> QED
      BY <3>5, <3>6, Zenon
  <2> QED
    BY <1>2, <2>1, <2>2, <2>4, <2>5 DEF Pending
<1>6. CASE ContainerStops \/ ContainerLost
  <2>1. UNCHANGED <<state, upgrader, calls, serving>>
    BY <1>6 DEF ContainerStops, ContainerLost, procs
  <2>2. (Lease!Revoke /\ serving = NoCall) \/ UNCHANGED lease
    BY <1>6 DEF ContainerStops, ContainerLost
  <2> QED
    BY <1>0, <1>f, <2>1, <2>2 DEF Lease!Revoke, OwnCalls, Pending, StoppedByItself, LoopersHold
<1>7. CASE Terminated \/ ServiceDies
  <2>1. LeavesCallers
    BY <1>7 DEF Terminated, ServiceDies
  <2>2. upgrader' = "idle" /\ OwnCalls' /\ StoppedByItself'
    <3>1. upgrader' = upgrader /\ calls' = {} /\ serving' = NoCall
      BY <2>1 DEF LeavesCallers
    <3>2. \A call \in Pending' : call.op = "none"
      BY <3>1 DEF Pending
    <3> QED
      BY <1>0, <3>1, <3>2 DEF OwnCalls, StoppedByItself
  <2>3. \A q \in Sessions : state'[q] = "looping" => state[q] = "looping"
    BY <1>0, <2>1, LeaveEffect
  <2>4. LoopersHold'
    <3> SUFFICES ASSUME "crash" \notin faults PROVE LoopersHold'
      BY <1>f DEF LoopersHold
    <3>1. Lease!Revoke \/ UNCHANGED lease
      BY <1>7 DEF Terminated, ServiceDies, MayFail
    <3> QED
      BY <1>0, <2>3, <3>1 DEF LoopersHold, Lease!Revoke
  <2> QED
    BY <2>2, <2>4
<1> QED
  BY <1>1, <1>3, <1>4, <1>5, <1>6, <1>7 DEF Service, ServiceEnds

\* Every step keeps a container below the session that is tracked.
LEMMA Running == TypeOK /\ TrackedRuns /\ [Next]_vars => TrackedRuns'
<1> SUFFICES ASSUME TypeOK, TrackedRuns, [Next]_vars,
                    faults \cap {"stop", "silent"} = {}, holder' # NoSession
             PROVE  running'
  BY FaultsStay DEF TrackedRuns
<1>1. \/ UNCHANGED <<holder, running>>
      \/ FinishStart \/ FinishStop \/ ServiceEnds
  BY DEF Next, vars, Service, Launch, Signal, HandleStop, HandleQuit, Killed, GiveUp,
         SessionStop, Unanswered, StopperGivesUp, UpgradeStop, UpgradeStopsItself,
         UpgradeStart, UpgradeGivesUp, Accept, Refuse
<1>2. CASE UNCHANGED <<holder, running>>
  BY <1>2 DEF TrackedRuns
<1>3. CASE FinishStart
  BY <1>3 DEF FinishStart, TrackedRuns
<1>4. CASE FinishStop
  <2>1. ~MayFail("stop")
    BY DEF MayFail
  <2>2. Lease!Release \/ Lease!Revoke \/ (holder = NoSession /\ UNCHANGED lease)
    <3>1. \/ IF serving.quit THEN Lease!Revoke ELSE Lease!Release
          \/ (holder = NoSession \/ MayFail("stop")) /\ UNCHANGED lease
      BY <1>4, Zenon DEF FinishStop
    <3>2. CASE serving.quit
      BY <2>1, <3>1, <3>2, Zenon
    <3>3. CASE ~serving.quit
      BY <2>1, <3>1, <3>3, Zenon
    <3> QED
      BY <3>2, <3>3, Zenon
  <2> QED
    BY <2>2 DEF Lease!Release, Lease!Revoke
<1>5. CASE ServiceEnds
  BY <1>5 DEF ServiceEnds, ContainerStops, ContainerLost, Terminated, ServiceDies, MayFail,
              Lease!Revoke
<1> QED
  BY <1>1, <1>2, <1>3, <1>4, <1>5

\* The invariant holds in every behaviour.
THEOREM Invariance == Spec => []IInv
<1>1. Init => IInv
  <2> SUFFICES ASSUME Init PROVE IInv
    OBVIOUS
  <2>1. /\ calls = {} /\ serving = NoCall /\ holder = NoSession /\ notified = {}
        /\ upgrader = "idle" /\ state = [p \in Sessions |-> "new"]
    BY DEF Init, Lease!Init
  <2>2. TypeOK
    BY <2>1 DEF Init, TypeOK
  <2>3. \A call \in Pending : call.op = "none"
    BY <2>1 DEF Pending
  <2>4. Shared
    BY <2>1, <2>3 DEF Shared, UpgradeKnows, RootUpgrades, NameUnique, StopsWait,
                      ServedForOwner, Alive
  <2>5. Undisturbed /\ TrackedRuns
    BY <2>1, <2>3 DEF Undisturbed, OwnCalls, StoppedByItself, LoopersHold, TrackedRuns
  <2> QED
    BY <2>2, <2>4, <2>5 DEF IInv
<1>2. IInv /\ [Next]_vars => IInv'
  <2> SUFFICES ASSUME IInv, [Next]_vars PROVE IInv'
    OBVIOUS
  <2>1. TypeOK'
    BY Types DEF IInv, Shared
  <2>2. Shared' /\ Undisturbed'
    <3>1. CASE \E p \in Sessions : Launch(p) \/ Signal(p) \/ HandleStop(p) \/ HandleQuit(p)
                                     \/ Killed(p) \/ GiveUp(p)
      BY <3>1, SessionShared, SessionUndisturbed DEF IInv
    <3>2. CASE \/ \E u \in Users : SessionStop(u) \/ Unanswered(u) \/ StopperGivesUp(u)
               \/ UpgradeStop \/ UpgradeStopsItself \/ UpgradeStart \/ UpgradeGivesUp
      BY <3>2, CommandShared, CommandUndisturbed DEF IInv
    <3>3. CASE Service \/ ServiceEnds
      BY <3>3, ServiceShared, ServiceUndisturbed DEF IInv
    <3>4. CASE UNCHANGED vars
      BY <3>4 DEF vars, procs, IInv, Shared, UpgradeKnows, RootUpgrades, NameUnique, StopsWait,
                  ServedForOwner, Undisturbed, OwnCalls, StoppedByItself, LoopersHold,
                  Pending, Alive, UserOf
    <3> QED
      BY <3>1, <3>2, <3>3, <3>4 DEF Next
  <2>3. TrackedRuns'
    BY Running DEF IInv
  <2> QED
    BY <2>1, <2>2, <2>3 DEF IInv
<1> QED
  BY <1>1, <1>2, PTL DEF Spec

\* The state is well typed.
THEOREM Typing == Spec => []TypeOK
BY Invariance, PTL DEF IInv

\* Whatever is late, refused, killed or given up, a session process that runs
\* on and has not been told to quit has the container.
THEOREM HoldSafety == Spec => []SessionHasContainer
<1>1. IInv => SessionHasContainer
  BY DEF IInv, TypeOK, Undisturbed, LoopersHold, TrackedRuns, SessionHasContainer
<1> QED
  BY <1>1, Invariance, PTL

-----------------------------------------------------------------------------
(* Nothing but a refused Start goes wrong, and the end of the service. *)

\* Then the process of a tracked session waits for its container's stop at the
\* most, and a Start is answered while its caller waits for it.
TrackedWait == \A p \in Sessions : holder = p => /\ state[p] \in {"looping", "stopping"}
                                                 /\ p \notin notified
NotifiedStarted == \A p \in notified : state[p] \in {"looping", "stopping", "gone"}
NobodySignals   == \A p \in Sessions : "SIGUSR1" \notin asked[p]
StartsWait      == \A call \in Pending : call.op = "start" => state[call.from] = "starting"
ServedOnce      == serving.op = "start" => serving \notin calls

Faithful == TrackedWait /\ NotifiedStarted /\ NobodySignals /\ StartsWait /\ ServedOnce

\* What session processes do keeps it.
LEMMA SessionFaithful ==
  ASSUME IInv, Faithful, faults \subseteq {"start", "crash", "sigterm", "silent"}, NEW p \in Sessions,
         Launch(p) \/ Signal(p) \/ HandleStop(p) \/ HandleQuit(p) \/ Killed(p) \/ GiveUp(p)
  PROVE  Faithful'
<1> USE DEF Faithful
<1>0. TypeOK /\ OwnCalls /\ Shared
  BY DEF IInv, Undisturbed
<1>1. /\ UNCHANGED <<serving, holder, notified>>
      /\ ~Killed(p) /\ ~GiveUp(p)
  BY DEF Launch, Signal, HandleStop, HandleQuit, Killed, GiveUp, MayFail
<1>2. CASE Launch(p)
  <2>1. /\ asked' = asked /\ state[p] = "new"
        /\ \A q \in Sessions \ {p} : state'[q] = state[q]
    BY <1>0, <1>2 DEF Launch, TypeOK
  <2>2. \A call \in Pending : call.op = "start" => call.from \in Sessions /\ call.from # p
    BY <1>0, <2>1 DEF StartsWait, OwnCalls
  <2>3. \A call \in Pending' : \/ call \in Pending
                               \/ call = StartCall(p, p) /\ state'[p] = "starting"
    BY <1>0, <1>1, <1>2 DEF Launch, Pending, TypeOK
  <2>4. StartsWait'
    BY <2>1, <2>2, <2>3 DEF StartsWait, StartCall
  <2>5. calls' \in {calls, calls \cup {StartCall(p, p)}}
    BY <1>2 DEF Launch
  <2>6. ServedOnce'
    <3>1. serving \in Pending /\ (serving.op = "start" => serving # StartCall(p, p))
      BY <2>2 DEF StartCall, Pending
    <3> QED
      BY <1>1, <2>5, <3>1 DEF ServedOnce
  <2>7. TrackedWait' /\ NotifiedStarted'
    BY <1>0, <1>1, <2>1 DEF TrackedWait, NotifiedStarted, TypeOK
  <2> QED
    BY <2>1, <2>4, <2>6, <2>7 DEF NobodySignals
<1>3. CASE Signal(p)
  BY <1>0, <1>1, <1>3 DEF Signal, TypeOK, TrackedWait, NotifiedStarted, NobodySignals,
                          StartsWait, ServedOnce, Pending
<1>4. CASE HandleStop(p)
  <2>1. /\ \A q \in Sessions : asked'[q] \subseteq asked[q] \cup {"handled"}
        /\ state[p] = "looping" /\ state'[p] = "stopping"
        /\ \A q \in Sessions \ {p} : state'[q] = state[q]
        /\ calls' = calls \cup {StopCall(p, FALSE)}
    BY <1>0, <1>4 DEF HandleStop, TypeOK
  <2>2. \A call \in Pending' : call.op = "start" => call \in Pending
    BY <1>1, <2>1 DEF Pending, StopCall
  <2>3. StartsWait' /\ ServedOnce'
    BY <1>0, <1>1, <2>1, <2>2 DEF StartsWait, ServedOnce, OwnCalls, StopCall
  <2> QED
    BY <1>0, <1>1, <2>1, <2>3 DEF TrackedWait, NotifiedStarted, NobodySignals, TypeOK
<1>5. CASE HandleQuit(p)
  <2>1. /\ \A q \in Sessions : asked'[q] \subseteq asked[q]
        /\ calls' = calls /\ state[p] = "looping" /\ state'[p] = "gone"
        /\ p \in notified
        /\ \A q \in Sessions \ {p} : state'[q] = state[q]
    BY <1>0, <1>5 DEF HandleQuit, TypeOK, NobodySignals
  <2>2. StartsWait' /\ ServedOnce'
    BY <1>0, <1>1, <2>1 DEF StartsWait, ServedOnce, OwnCalls, Pending
  <2> QED
    BY <1>0, <1>1, <2>1, <2>2 DEF TrackedWait, NotifiedStarted, NobodySignals, TypeOK
<1> QED
  BY <1>1, <1>2, <1>3, <1>4, <1>5

\* So do the commands: there is no upgrade.
LEMMA CommandFaithful ==
  ASSUME IInv, Faithful, faults \subseteq {"start", "crash", "sigterm", "silent"},
         \/ \E u \in Users : SessionStop(u) \/ Unanswered(u) \/ StopperGivesUp(u)
         \/ UpgradeStop \/ UpgradeStopsItself \/ UpgradeStart \/ UpgradeGivesUp
  PROVE  Faithful'
<1>1. PICK u \in Users : SessionStop(u) \/ Unanswered(u) \/ StopperGivesUp(u)
  BY DEF IInv, Undisturbed, UpgradeStop, UpgradeStopsItself, UpgradeStart, UpgradeGivesUp,
         MayFail
<1>2. /\ UNCHANGED <<state, serving, holder, notified>>
      /\ calls' \in {calls, calls \cup {StopCall(u, TRUE)}}
  BY <1>1 DEF SessionStop, Unanswered, StopperGivesUp
<1>3. \A q \in Sessions : asked'[q] \in {asked[q], asked[q] \cup {"Stop"}}
  BY <1>1 DEF SessionStop, Unanswered, StopperGivesUp, IInv, TypeOK
<1>4. \A call \in Pending' : call.op = "start" => call \in Pending
  BY <1>2 DEF Pending, StopCall
<1>5. StartsWait' /\ ServedOnce'
  BY <1>2, <1>4 DEF StartsWait, ServedOnce, Faithful, StopCall
<1> QED
  BY <1>2, <1>3, <1>5 DEF Faithful, TrackedWait, NotifiedStarted, NobodySignals

\* So does the service: it answers those who wait, and whoever it refuses a
\* Stop has no container.
LEMMA ServiceFaithful ==
  ASSUME IInv, Faithful, faults \subseteq {"start", "crash", "sigterm", "silent"}, Service \/ ServiceEnds
  PROVE  Faithful'
<1> USE DEF Faithful
<1>0. TypeOK /\ OwnCalls /\ StopsWait
  BY DEF IInv, Undisturbed, Shared
<1>1. ASSUME NEW call \in calls, Accept(call)
      PROVE  Faithful'
  <2>1. /\ UNCHANGED <<state, asked, holder, notified>>
        /\ serving' = call /\ calls' = calls \ {call} /\ call \in Pending
    BY <1>1 DEF Accept, procs, Pending
  <2> QED
    BY <2>1 DEF TrackedWait, NotifiedStarted, NobodySignals, StartsWait, ServedOnce, Pending
\* What an answer to a call leaves is what the call alone was about.
<1>2. ASSUME NEW call \in Pending, call \in Calls, NEW ok \in BOOLEAN, Answer(call, ok),
             Pending' \subseteq Pending \cup {NoCall}, call.op = "start" => call \notin Pending',
             serving' = NoCall
      PROVE  notified' \subseteq notified \cup ({holder} \ {NoSession})
               => NotifiedStarted' /\ NobodySignals' /\ StartsWait' /\ ServedOnce'
  <2>1. NobodySignals' /\ ServedOnce'
    BY <1>0, <1>2, AnswerEffect DEF NobodySignals, ServedOnce
  <2>2. \A c \in Pending' : c \in Pending \/ c.op = "none"
    BY <1>2
  <2>3. ASSUME NEW c \in Pending', c.op = "start"
        PROVE  c \in Pending /\ c.from \in Sessions /\ state[c.from] = "starting" /\ c # call
    BY <1>0, <1>2, <2>2, <2>3 DEF StartsWait, OwnCalls
  <2>4. ASSUME NEW c \in Pending', c.op = "start"
        PROVE  c.from # call.from
    <3>1. c \in Calls
      BY <1>0, <2>3, <2>4 DEF Pending, TypeOK
    <3>2. CASE call.op = "stop"
      BY <1>0, <1>2, <2>3, <2>4, <3>2 DEF StopsWait
    <3>3. CASE call.op = "start"
      <4>1. call.session = call.from /\ c.session = c.from
        BY <1>0, <1>2, <2>3, <2>4, <3>3 DEF OwnCalls
      <4>2. call = StartCall(call.from, call.from) /\ c = StartCall(c.from, c.from)
        BY <1>2, <2>4, <3>1, <3>3, <4>1 DEF Calls, StartCall
      <4> QED
        BY <2>3, <2>4, <4>2
    <3> QED
      BY <1>2, <3>2, <3>3, CallFields
  <2>5. StartsWait'
    BY <1>0, <1>2, <2>3, <2>4, AnswerEffect DEF StartsWait
  <2>6. notified' \subseteq notified \cup ({holder} \ {NoSession}) => NotifiedStarted'
    BY <1>0, <1>2, AnswerEffect DEF NotifiedStarted, TrackedWait, TypeOK
  <2> QED
    BY <2>1, <2>5, <2>6
<1>3. ASSUME NEW call \in calls, Refuse(call)
      PROVE  Faithful'
  <2>1. /\ call \in Calls /\ call \in Pending /\ Answer(call, FALSE) /\ ~Accepts(call)
        /\ calls' = calls \ {call} /\ UNCHANGED <<serving, holder, notified>> /\ serving = NoCall
        /\ serving' = NoCall
    BY <1>0, <1>3 DEF Refuse, Pending, TypeOK
  <2>2. Pending' \subseteq Pending \cup {NoCall} /\ (call.op = "start" => call \notin Pending')
    BY <2>1, CallFields DEF Pending
  <2>3. TrackedWait'
    <3> SUFFICES ASSUME NEW p \in Sessions, holder = p
                 PROVE  state'[p] \in {"looping", "stopping"} /\ p \notin notified
      BY <2>1 DEF TrackedWait
    <3>1. state[p] \in {"looping", "stopping"} /\ p \notin notified
      BY DEF TrackedWait
    <3>2. ~(p = call.from /\ state[p] = "stopping")
      <4>1. call.op = "start" => state[call.from] = "starting"
        BY <2>1 DEF StartsWait
      <4>2. p = call.from /\ state[p] = "stopping" => OnBus(call.from) /\ UserOf(call.from) = Owner[holder]
        BY DEF OnBus, Alive, UserOf
      <4> QED
        BY <2>1, <4>1, <4>2, CallFields DEF Accepts
    <3> QED
      BY <1>0, <2>1, <3>1, <3>2, AnswerEffect
  <2> QED
    BY <1>2, <2>1, <2>2, <2>3
<1>4. CASE FinishStart
  <2>1. /\ serving' = NoCall /\ calls' = calls /\ serving.op = "start" /\ serving \in Pending
        /\ serving \notin calls
    BY <1>4 DEF FinishStart, Pending, ServedOnce
  <2>2. serving \in Calls
    BY <1>0, <2>1 DEF TypeOK
  <2>3. Pending' \subseteq Pending \cup {NoCall} /\ serving \notin Pending'
    BY <2>1, <2>2, CallFields DEF Pending
  <2>4. serving.from \in Sessions /\ serving.session = serving.from
        /\ state[serving.from] = "starting"
    BY <1>0, <2>1 DEF OwnCalls, StartsWait
  <2>5. CASE Lease!Grant(serving.session) /\ Answer(serving, TRUE)
    <3>1. holder' = serving.from /\ notified' = notified
      BY <2>4, <2>5 DEF Lease!Grant
    <3>2. TrackedWait'
      BY <1>0, <2>2, <2>4, <2>5, <3>1, AnswerEffect DEF TrackedWait, NotifiedStarted
    <3> QED
      BY <1>2, <2>1, <2>2, <2>3, <2>5, <3>1, <3>2
  <2>6. CASE UNCHANGED lease /\ Answer(serving, FALSE)
    <3>1. TrackedWait'
      BY <1>0, <2>2, <2>4, <2>6, AnswerEffect DEF TrackedWait
    <3> QED
      BY <1>2, <2>1, <2>2, <2>3, <2>6, <3>1
  <2> QED
    BY <1>4, <2>5, <2>6 DEF FinishStart
<1>5. CASE FinishStop
  <2>1. /\ serving.op = "stop" /\ serving' = NoCall /\ calls' = calls /\ Answer(serving, TRUE)
    BY <1>5, Zenon DEF FinishStop
  <2>2. serving \in Calls
    BY <1>0, <2>1 DEF TypeOK
  <2>3. Pending' \subseteq Pending \cup {NoCall} /\ serving \in Pending
    BY <2>1 DEF Pending
  <2>4. \/ Lease!Revoke
        \/ Lease!Release
        \/ holder = NoSession /\ UNCHANGED lease
    <3>1. ~MayFail("stop")
      BY DEF MayFail
    <3> QED
      BY <1>5, <3>1, Zenon DEF FinishStop
  <2>5. TrackedWait' /\ notified' \subseteq notified \cup ({holder} \ {NoSession})
    BY <1>0, <2>4 DEF Lease!Revoke, Lease!Release, TrackedWait, TypeOK
  <2> QED
    BY <1>2, <2>1, <2>2, <2>3, <2>5
<1>6. CASE ContainerStops \/ ContainerLost
  <2>1. /\ UNCHANGED <<state, asked, calls, serving>>
        /\ Lease!Revoke \/ UNCHANGED lease
    BY <1>6 DEF ContainerStops, ContainerLost, procs
  <2> QED
    BY <1>0, <2>1 DEF Lease!Revoke, TrackedWait, NotifiedStarted, NobodySignals, StartsWait,
                      ServedOnce, Pending, TypeOK
<1>7. CASE Terminated \/ ServiceDies
  <2>1. /\ LeavesCallers /\ holder' = NoSession
        /\ notified' \subseteq notified \cup ({holder} \ {NoSession})
    BY <1>7 DEF Terminated, ServiceDies, Lease!Revoke
  <2>2. NobodySignals' /\ StartsWait' /\ ServedOnce' /\ TrackedWait'
    BY <1>0, <2>1, LeaveEffect DEF NobodySignals, StartsWait, ServedOnce, TrackedWait, Pending
  <2>3. NotifiedStarted'
    <3> SUFFICES ASSUME NEW p \in notified' PROVE state'[p] \in {"looping", "stopping", "gone"}
      BY DEF NotifiedStarted
    <3>1. p \in Sessions /\ state[p] \in {"looping", "stopping", "gone"}
      BY <1>0, <2>1 DEF NotifiedStarted, TrackedWait, TypeOK
    <3> QED
      BY <1>0, <2>1, <3>1, LeaveEffect
  <2> QED
    BY <2>2, <2>3
<1> QED
  BY <1>1, <1>3, <1>4, <1>5, <1>6, <1>7 DEF Service, ServiceEnds

\* Unless a process is killed, a caller gives up or a stop fails, a session that
\* is tracked has a process.
THEOREM OrphanSafety == Spec => []NoOrphanTracking
<1> DEFINE Calm == faults \subseteq {"start", "crash", "sigterm", "silent"} => Faithful
<1>1. Init => Calm
  BY DEF Init, Lease!Init, Faithful, TrackedWait, NotifiedStarted, NobodySignals, StartsWait,
         ServedOnce, Pending
<1>2. IInv /\ Calm /\ [Next]_vars => Calm'
  <2> SUFFICES ASSUME IInv, Faithful, faults \subseteq {"start", "crash", "sigterm", "silent"}, [Next]_vars
               PROVE  Faithful'
    BY FaultsStay
  <2>1. CASE \E p \in Sessions : Launch(p) \/ Signal(p) \/ HandleStop(p) \/ HandleQuit(p)
                                   \/ Killed(p) \/ GiveUp(p)
    BY <2>1, SessionFaithful
  <2>2. CASE \/ \E u \in Users : SessionStop(u) \/ Unanswered(u) \/ StopperGivesUp(u)
             \/ UpgradeStop \/ UpgradeStopsItself \/ UpgradeStart \/ UpgradeGivesUp
    BY <2>2, CommandFaithful
  <2>3. CASE Service \/ ServiceEnds
    BY <2>3, ServiceFaithful
  <2>4. CASE UNCHANGED vars
    BY <2>4 DEF vars, procs, Faithful, TrackedWait, NotifiedStarted, NobodySignals,
                StartsWait, ServedOnce, Pending
  <2> QED
    BY <2>1, <2>2, <2>3, <2>4 DEF Next
<1>3. Calm => NoOrphanTracking
  BY DEF Faithful, TrackedWait, NoOrphanTracking, Alive
<1> QED
  BY <1>1, <1>2, <1>3, Invariance, PTL DEF Spec

\* A call that takes the container away was made for the user who has it, or
\* for root.
THEOREM OwnerSafety == Spec => OnlyOwnersStop
<1> DEFINE Step == \A p \in Sessions : holder = p /\ holder' # p /\ serving # NoCall
                                            /\ "crash" \notin faults
                     => UserOf(serving.from) \in {Owner[p], Root}
<1>1. IInv /\ [Next]_vars => [Step]_vars
  <2> SUFFICES ASSUME IInv, Next, NEW p \in Sessions, holder = p, holder' # p,
                      serving # NoCall, "crash" \notin faults
               PROVE  UserOf(serving.from) \in {Owner[p], Root}
    BY DEF OnlyOwnersStop
  <2>1. \/ FinishStart \/ FinishStop
        \/ \E q \in Sessions : \/ Launch(q) \/ Signal(q) \/ HandleStop(q) \/ HandleQuit(q)
                               \/ Killed(q) \/ GiveUp(q)
        \/ \E u \in Users : SessionStop(u) \/ Unanswered(u) \/ StopperGivesUp(u)
        \/ UpgradeStop \/ UpgradeStopsItself \/ UpgradeStart \/ UpgradeGivesUp
        \/ ServiceEnds \/ \E call \in calls : Accept(call) \/ Refuse(call)
    BY DEF Next, Service
  <2>2. FinishStop
    BY <2>1 DEF Launch, Signal, HandleStop, HandleQuit, Killed, GiveUp, SessionStop,
           Unanswered, StopperGivesUp, UpgradeStop, UpgradeStopsItself, UpgradeStart,
           UpgradeGivesUp, Accept, Refuse, FinishStart, ServiceEnds, ContainerStops,
           ContainerLost, Terminated, ServiceDies, MayFail, Lease!Grant
  <2>3. serving.op = "stop"
    BY <2>2, Zenon DEF FinishStop
  <2> QED
    BY <2>3 DEF IInv, Shared, ServedForOwner, UserOf
<1>2. Spec => [][Step]_vars
  BY <1>1, Invariance, PTL DEF Spec
<1> QED
  BY <1>2 DEF OnlyOwnersStop

-----------------------------------------------------------------------------
(* Starts.  The service takes its calls one at a time: between the check that *)
(* the container is free and the Start that takes it nothing else is served,  *)
(* and Android does not shut down beside a call.                              *)

FreeForStart == serving.op = "start" => holder = NoSession

\* What a step leaves of the service, or the service of its state.
LEMMA ServiceSteps ==
  ASSUME Next
  PROVE  \/ UNCHANGED <<serving, lease>>
         \/ \E call \in calls : Accept(call)
         \/ FinishStart \/ FinishStop \/ ServiceEnds
<1>1. ASSUME NEW p \in Sessions,
             Launch(p) \/ Signal(p) \/ HandleStop(p) \/ HandleQuit(p) \/ Killed(p) \/ GiveUp(p)
      PROVE  UNCHANGED <<serving, lease>>
  BY <1>1 DEF Launch, Signal, HandleStop, HandleQuit, Killed, GiveUp
<1>2. ASSUME NEW u \in Users, SessionStop(u) \/ Unanswered(u) \/ StopperGivesUp(u)
      PROVE  UNCHANGED <<serving, lease>>
  BY <1>2 DEF SessionStop, Unanswered, StopperGivesUp
<1>3. ASSUME UpgradeStop \/ UpgradeStopsItself \/ UpgradeStart \/ UpgradeGivesUp
      PROVE  UNCHANGED <<serving, lease>>
  BY <1>3 DEF UpgradeStop, UpgradeStopsItself, UpgradeStart, UpgradeGivesUp
<1>4. ASSUME NEW call \in calls, Refuse(call)
      PROVE  UNCHANGED <<serving, lease>>
  BY <1>4 DEF Refuse
<1> QED
  BY <1>1, <1>2, <1>3, <1>4 DEF Next, Service

\* A Start that was accepted finds the container free when it takes effect, however
\* long that takes and whoever stops, dies or upgrades meanwhile: the guard that the
\* lease has on Grant never holds it up.
THEOREM AcceptedStartsFindItFree == Spec => []FreeForStart
<1>1. Init => FreeForStart
  BY DEF Init, FreeForStart
<1>2. IInv /\ FreeForStart /\ [Next]_vars => FreeForStart'
  <2> SUFFICES ASSUME IInv, FreeForStart, [Next]_vars PROVE FreeForStart'
    OBVIOUS
  <2>1. CASE UNCHANGED <<serving, lease>>
    BY <2>1 DEF FreeForStart
  <2>2. ASSUME NEW call \in calls, Accept(call) PROVE FreeForStart'
    BY <2>2 DEF Accept, Accepts, FreeForStart
  <2>3. CASE FinishStart \/ FinishStop
    <3>1. serving' = NoCall
      BY <2>3, Zenon DEF FinishStart, FinishStop
    <3> QED
      BY <3>1 DEF FreeForStart
  <2>4. CASE ServiceEnds
    <3>1. holder' = NoSession \/ UNCHANGED <<serving, holder>>
      BY <2>4 DEF ServiceEnds, ContainerStops, ContainerLost, Terminated, ServiceDies,
                  Lease!Revoke
    <3> QED
      BY <3>1 DEF FreeForStart
  <2> QED
    BY <2>1, <2>2, <2>3, <2>4, ServiceSteps DEF vars
<1> QED
  BY <1>1, <1>2, Invariance, PTL DEF Spec
=============================================================================
