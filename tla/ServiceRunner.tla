---------------------------- MODULE ServiceRunner ----------------------------
(***************************************************************************)
(* tools/services/runner.py: a binder service kept registered by a worker  *)
(* thread, with the add_service functions of tools/interfaces/*.py that    *)
(* the worker runs.  Every such function creates a GLib main loop, puts it *)
(* on args, registers the service and runs the loop; stop raises a flag    *)
(* and quits the loop it finds on args.                                    *)
(*                                                                         *)
(* A GLib main loop remembers no quit: run marks the loop running whatever *)
(* happened to it before, quit only unmarks it.                            *)
(***************************************************************************)
EXTENDS Naturals, FiniteSets

CONSTANTS Workers,   \* worker threads, one for each call of start
          Loops,     \* main loop objects; one that nobody refers to is reused
          NoLoop     \* args has no loop attribute

ASSUME RunnerAssumption ==
  /\ NoLoop \notin Loops
  /\ IsFiniteSet(Loops) /\ IsFiniteSet(Workers)
  /\ Cardinality(Loops) > Cardinality(Workers) + 1

VARIABLES stopping,  \* self._stopping
          loop,      \* the loop attribute of args
          running,   \* the main loops that are marked running
          pc,        \* what each worker does next
          at,        \* the loop each worker is inside
          added,     \* what became of each worker's service
          caller     \* where the thread that calls start and stop is

vars == <<stopping, loop, running, pc, at, added, caller>>

WorkerSteps == {"new", "check", "create", "register", "watch", "run", "inside", "done"}

TypeOK == /\ stopping \in BOOLEAN
          /\ loop \in Loops \cup {NoLoop}
          /\ running \subseteq Loops
          /\ pc \in [Workers -> WorkerSteps]
          /\ at \in [Workers -> Loops \cup {NoLoop}]
          /\ added \in [Workers -> {"absent", "added", "refused"}]
          /\ caller \in {"unstarted", "started", "quit", "stopped"}

Init == /\ stopping = FALSE
        /\ loop = NoLoop
        /\ running = {}
        /\ pc = [w \in Workers |-> "new"]
        /\ at = [w \in Workers |-> NoLoop]
        /\ added = [w \in Workers |-> "absent"]
        /\ caller = "unstarted"

Goto(w, step) == pc' = [pc EXCEPT ![w] = step]

-----------------------------------------------------------------------------
(* The thread that owns the service.                                        *)

\* A service is started when it is stopped: once by a session process, again
\* and again by the container service.
Start(w) == /\ caller \in {"unstarted", "stopped"}
            /\ pc[w] = "new"
            /\ stopping' = FALSE
            /\ Goto(w, "check")
            /\ caller' = "started"
            /\ UNCHANGED <<loop, running, at, added>>

\* stop may be called at any time, also twice: a second signal, a Stop request
\* when nothing is tracked.
StopFlag == /\ caller # "quit"
            /\ stopping' = TRUE
            /\ caller' = "quit"
            /\ UNCHANGED <<loop, running, pc, at, added>>

\* A slip the run must notice: the flag is raised, the loop is left running.
StopFlagOnly == /\ caller = "quit"
                /\ caller' = "stopped"
                /\ UNCHANGED <<stopping, loop, running, pc, at, added>>

StopQuit == /\ caller = "quit"
            /\ running' = running \ {loop}
            /\ caller' = "stopped"
            /\ UNCHANGED <<stopping, loop, pc, at, added>>

-----------------------------------------------------------------------------
(* A worker: _loop, and the add_service it runs.                            *)

Check(w) == /\ pc[w] = "check"
            /\ Goto(w, IF stopping THEN "done" ELSE "create")
            /\ UNCHANGED <<stopping, loop, running, at, added, caller>>

\* A new main loop replaces the one on args.
Create(w) == /\ pc[w] = "create"
             /\ \E l \in Loops \ ({loop} \cup running \cup {at[v] : v \in Workers}) :
                  loop' = l
             /\ Goto(w, "register")
             /\ UNCHANGED <<stopping, running, at, added, caller>>

\* binder_presence: nothing without the container's service manager; when it
\* refuses the service, the loop on args is quit.
Presence(w, outcome) ==
  /\ added' = [added EXCEPT ![w] = outcome]
  /\ running' = IF outcome = "refused" THEN running \ {loop} ELSE running

Register(w) == /\ pc[w] = "register"
               /\ \E outcome \in {"absent", "added", "refused"} : Presence(w, outcome)
               /\ Goto(w, "watch")
               /\ UNCHANGED <<stopping, loop, at, caller>>

\* add_presence_handler: without it add_service returns, and is run again.
Watch(w) == /\ pc[w] = "watch"
            /\ pc' \in {[pc EXCEPT ![w] = "run"], [pc EXCEPT ![w] = "check"]}
            /\ UNCHANGED <<stopping, loop, running, at, added, caller>>

Run(w) == /\ pc[w] = "run"
          /\ at' = [at EXCEPT ![w] = loop]
          /\ running' = running \cup {loop}
          /\ Goto(w, "inside")
          /\ UNCHANGED <<stopping, loop, added, caller>>

\* The container's service manager appears while the worker is in its loop.
Appear(w) == /\ pc[w] = "inside"
             /\ \E outcome \in {"added", "refused"} : Presence(w, outcome)
             /\ UNCHANGED <<stopping, loop, pc, at, caller>>

Return(w) == /\ pc[w] = "inside"
             /\ at[w] \notin running
             /\ at' = [at EXCEPT ![w] = NoLoop]
             /\ Goto(w, "check")
             /\ UNCHANGED <<stopping, loop, running, added, caller>>

Worker(w) == Check(w) \/ Create(w) \/ Register(w) \/ Watch(w) \/ Run(w) \/ Return(w)

Next == \/ \E w \in Workers : Start(w) \/ Worker(w) \/ Appear(w)
        \/ StopFlag \/ StopQuit

\* Threads are scheduled, and a call of stop that has begun goes on.
Fairness == /\ \A w \in Workers : WF_vars(Worker(w))
            /\ WF_vars(StopQuit)

Spec == Init /\ [][Next]_vars
FairSpec == Spec /\ Fairness

-----------------------------------------------------------------------------
(* Properties *)

\* A service that is started once can always be stopped: a stop that finds the
\* worker inside the loop it quits ends the worker.
StopEndsARunningWorker ==
  \A w \in Workers :
    caller = "quit" /\ pc[w] = "inside" /\ loop \in running /\ Workers = {w}
      ~> pc[w] = "done"

\* After a stop that is not followed by a start, no loop of the service runs
\* any more ("The session stop path must quit the GLib loop of every
\* per-session service", tests/test_services_runner.py).
StopQuitsLoop == caller = "stopped" ~> running = {} \/ caller # "stopped"

\* A service the service manager refuses is registered again ("a worker thread
\* that keeps re-registering the service", tools/services/runner.py).
RefusalIsRetried ==
  \A w \in Workers : pc[w] = "watch" /\ added[w] = "refused"
                      ~> pc[w] \in {"check", "done"} \/ added[w] # "refused"

\* A service is kept registered by one worker thread ("a worker thread that
\* keeps re-registering the service"): two of them are never inside loops that run.
OneWorker ==
  \A v, w \in Workers : /\ pc[v] = "inside" /\ at[v] \in running
                         /\ pc[w] = "inside" /\ at[w] \in running
                         => v = w
=============================================================================
