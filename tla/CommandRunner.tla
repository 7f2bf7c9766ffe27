--------------------------- MODULE CommandRunner ---------------------------
(***************************************************************************)
(* How a command is run (tools/helpers/run_core.py, foreground_pipe): its  *)
(* output is read while it runs, it is killed with its children when it    *)
(* has been silent for args.timeout seconds, and its return code becomes   *)
(* an exception unless the caller does not check it.  The command, its     *)
(* child and its grandchild go on meanwhile.                               *)
(***************************************************************************)
EXTENDS Naturals, Sequences, FiniteSets

CONSTANTS RunFaultSets, \* subsets of {"hangs", "closes", "perm"}
          MaxLines      \* bound: lines a command writes

\* "hangs": the command may never end by itself;  "closes": it closes its
\* output and runs on;  "perm": it may not be killed by us.
RunAssumption == /\ RunFaultSets \subseteq SUBSET {"hangs", "closes", "perm"}
                 /\ MaxLines \in Nat

VARIABLES runFaults, \* what may happen in this behaviour; it never changes
          mode,      \* output_timeout and check; as above
          alive,     \* the processes of the command that run
          forked,    \* those that have ever run
          code,      \* the command's return code, "none" while it runs
          lines,     \* lines the command has written
          unread,    \* how many of them are still in the pipe
          closed,    \* the command has closed its output
          runner     \* where foreground_pipe is, what ps has listed, whom it still kills

runVars == <<runFaults, mode, alive, forked, code, lines, unread, closed, runner>>
command == <<alive, forked, code, lines, unread, closed>>

Tree == {"cmd", "child", "grandchild"}
Parent == [p \in {"child", "grandchild"} |-> IF p = "child" THEN "cmd" ELSE "child"]

RunTypeOK ==
  /\ runFaults \in RunFaultSets
  /\ mode \in [timeout : BOOLEAN, check : BOOLEAN]
  /\ alive \subseteq Tree /\ forked \subseteq Tree
  /\ code \in {"none", "zero", "one", "killed"}
  /\ lines \in 0..MaxLines /\ unread \in 0..lines
  /\ closed \in BOOLEAN
  /\ runner \in [pc : {"idle", "poll", "select", "read", "ps", "kill", "last", "ok", "error"},
                 listed : SUBSET Tree, victims : Seq(Tree)]

RunInit ==
  /\ runFaults \in RunFaultSets
  /\ mode \in [timeout : BOOLEAN, check : BOOLEAN]
  /\ alive = {} /\ forked = {}
  /\ code = "none"
  /\ lines = 0 /\ unread = 0
  /\ closed = FALSE
  /\ runner = [pc |-> "idle", listed |-> {}, victims |-> <<>>]

-----------------------------------------------------------------------------
(* The command. *)

Holders == IF closed THEN alive \ {"cmd"} ELSE alive

Fork(p) == /\ p \in DOMAIN Parent /\ p \notin forked
           /\ Parent[p] \in alive
           /\ alive' = alive \cup {p} /\ forked' = forked \cup {p}
           /\ UNCHANGED <<code, lines, unread, closed>>

WriteLine == /\ "cmd" \in alive /\ ~closed /\ lines < MaxLines
             /\ lines' = lines + 1 /\ unread' = unread + 1
             /\ UNCHANGED <<alive, forked, code, closed>>

CloseOutput == /\ "closes" \in runFaults /\ "cmd" \in alive /\ ~closed
               /\ closed' = TRUE
               /\ UNCHANGED <<alive, forked, code, lines, unread>>

End(p) == /\ p \in alive
          /\ alive' = alive \ {p}
          /\ IF p = "cmd" THEN code' \in {"zero", "one"} ELSE UNCHANGED code
          /\ UNCHANGED <<forked, lines, unread, closed>>

-----------------------------------------------------------------------------
(* foreground_pipe. *)

Is(pc)   == runner.pc = pc
Enter(pc) == runner' = [runner EXCEPT !.pc = pc]

Popen == /\ Is("idle")
         /\ alive' = {"cmd"} /\ forked' = {"cmd"}
         /\ Enter("poll")
         /\ UNCHANGED <<code, lines, unread, closed>>

Poll == /\ Is("poll")
        /\ Enter(IF code = "none" THEN "select" ELSE "last")
        /\ UNCHANGED command

\* Output is available, or there will be none: nobody has the pipe open.
Readable == unread > 0 \/ Holders = {}
Select   == /\ Is("select") /\ Readable
            /\ Enter("read")
            /\ UNCHANGED command

Timeout == /\ Is("select") /\ mode.timeout /\ ~Readable
           /\ Enter("ps")
           /\ UNCHANGED command

\* pipe_read: all there is.
PipeRead == /\ Is("read")
            /\ unread' = 0
            /\ Enter("poll")
            /\ UNCHANGED <<alive, forked, code, lines, closed>>

\* A slip: the children are killed, the command is waited for.
FoundChildren == (IF {"cmd", "child"} \subseteq alive THEN <<"child">> ELSE <<>>)
                   \o (IF Tree \subseteq alive THEN <<"grandchild">> ELSE <<>>)

\* kill_command lists the processes with their parents once; who has lost its
\* parent is not found.
Found == <<"cmd">> \o (IF {"cmd", "child"} \subseteq alive THEN <<"child">> ELSE <<>>)
                   \o (IF Tree \subseteq alive THEN <<"grandchild">> ELSE <<>>)

ListTree == /\ Is("ps")
            /\ runner' = [pc |-> "kill", listed |-> alive, victims |-> Found]
            /\ UNCHANGED command

\* kill -9, if it is allowed to; then the children of the one that was killed.
KillOne(left) ==
  /\ Is("kill") /\ runner.victims # <<>>
  /\ LET p == Head(runner.victims)
     IN  IF p \in alive /\ "perm" \notin runFaults
         THEN /\ alive' = alive \ {p}
              /\ code' = IF p = "cmd" THEN "killed" ELSE code
         ELSE UNCHANGED <<alive, code>>
  /\ runner' = [runner EXCEPT !.victims = left]
  /\ UNCHANGED <<forked, lines, unread, closed>>

\* A slip: the children are looked for when their parent is gone.
KillTreeLate == KillOne(<<>>)

KillTree == KillOne(Tail(runner.victims))

KillDone == /\ Is("kill") /\ runner.victims = <<>>
            /\ Enter("poll")
            /\ UNCHANGED command

\* A slip: what the command wrote before it ended is left in the pipe.
LastNothing == UNCHANGED unread

LastRead == unread' = 0

\* What the command wrote last, and check_return_code.
Finish == /\ Is("last")
          /\ LastRead
          /\ Enter(IF mode.check /\ code # "zero" THEN "error" ELSE "ok")
          /\ UNCHANGED <<alive, forked, code, lines, closed>>

RunnerStep == \/ Poll \/ Select \/ Timeout \/ PipeRead \/ ListTree \/ KillTree \/ KillDone
              \/ Finish

RunNext ==
  /\ \/ /\ \/ \E p \in Tree : Fork(p) \/ End(p)
           \/ WriteLine \/ CloseOutput
        /\ UNCHANGED runner
     \/ Popen \/ RunnerStep
  /\ UNCHANGED <<runFaults, mode>>

RunSpec == RunInit /\ [][RunNext]_runVars

\* The caller is scheduled; a command that does not hang ends.
Ends == End("cmd") /\ "hangs" \notin runFaults /\ UNCHANGED <<runFaults, mode, runner>>
RunFair == /\ WF_runVars(RunnerStep /\ UNCHANGED <<runFaults, mode>>)
           /\ WF_runVars(Ends)

-----------------------------------------------------------------------------
(* What run promises.                                                       *)

Returned == Is("ok") \/ Is("error")

\* A caller that goes on has all that the command wrote, and knows how it ended:
\* a command that was killed for its silence is an error like any other.
ReturnsTheWhole ==
  Returned => /\ "cmd" \notin alive /\ code # "none"
              /\ mode.check => (Is("ok") <=> code = "zero")
              /\ unread = 0

\* When a silent command has been killed, so has everything it had started when
\* ps was asked, whichever of them dies first; only what has lost its parent
\* before that, or is forked later, lives on.
KilledWithChildren ==
  [][(Is("kill") /\ runner'.pc = "poll" /\ "perm" \notin runFaults)
       => \A p \in alive' : \/ p \notin runner.listed
                            \/ p \in DOMAIN Parent /\ ~({"cmd", Parent[p]} \subseteq runner.listed)
    ]_runVars

\* A command that is run with a timeout does not keep its caller for ever,
\* though it hangs.  It does if it closes its output and runs on, for then
\* select returns at once every time, or if it may not be killed.
CallerGoesOn ==
  (Is("poll") /\ mode.timeout /\ runFaults \subseteq {"hangs"}) ~> Returned
=============================================================================
