------------------------ MODULE ServiceRunner_proofs ------------------------
(***************************************************************************)
(* Type correctness of ServiceRunner for any workers and loops: whoever is *)
(* about to run or quit a loop finds one on args.                          *)
(***************************************************************************)
EXTENDS ServiceRunner, TLAPS

\* Once a worker has created a loop, args has one for good: a later worker only
\* replaces it.
LoopOnArgs == \A w \in Workers : pc[w] \in {"register", "watch", "run", "inside"} => loop # NoLoop

IInv == TypeOK /\ LoopOnArgs

\* The loops that are marked running, and those that workers are inside, are
\* loops: no worker runs a loop before one was created for it.
THEOREM Typing == Spec => []TypeOK
<1>1. Init => IInv
  BY DEF Init, IInv, TypeOK, LoopOnArgs, WorkerSteps
<1>2. IInv /\ [Next]_vars => IInv'
  <2> SUFFICES ASSUME IInv, [Next]_vars PROVE IInv'
    OBVIOUS
  <2> USE DEF IInv, TypeOK, LoopOnArgs, WorkerSteps, Goto
  <2>1. ASSUME NEW w \in Workers, Start(w) \/ Appear(w)
        PROVE  IInv'
    BY <2>1 DEF Start, Appear, Presence
  <2>2. ASSUME NEW w \in Workers, Worker(w)
        PROVE  IInv'
    <3>1. CASE Check(w)
      BY <3>1 DEF Check
    <3>2. CASE Create(w)
      BY <3>2, RunnerAssumption DEF Create
    <3>3. CASE Register(w)
      BY <3>3 DEF Register, Presence
    <3>4. CASE Watch(w)
      BY <3>4 DEF Watch
    <3>5. CASE Run(w)
      BY <3>5 DEF Run
    <3>6. CASE Return(w)
      BY <3>6 DEF Return
    <3> QED
      BY <2>2, <3>1, <3>2, <3>3, <3>4, <3>5, <3>6 DEF Worker
  <2>3. CASE StopFlag \/ StopQuit
    BY <2>3 DEF StopFlag, StopQuit
  <2>4. CASE UNCHANGED vars
    BY <2>4 DEF vars
  <2> QED
    BY <2>1, <2>2, <2>3, <2>4 DEF Next
<1> QED
  BY <1>1, <1>2, PTL DEF Spec, IInv
=============================================================================
