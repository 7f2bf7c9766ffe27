------------------------ MODULE FreezeClients_proofs ------------------------
(***************************************************************************)
(* FrozenAgain for any number of clients.                                  *)
(***************************************************************************)
EXTENDS FreezeClients, TLAPS

Pending(c) == pc[c] # "idle" /\ sawFrozen[c]

\* While nothing disturbs them, a command that has seen the container frozen
\* works on a container that ought to be frozen (or has been shut down), and a
\* container that is not as it ought to be is one that such a command has
\* thawed and will freeze again.
Restored == Undisturbed =>
  /\ \A c \in Clients : Pending(c) => wanted \in {"FROZEN", "STOPPED"}
  /\ lxc # wanted => /\ lxc = "RUNNING"
                     /\ wanted = "FROZEN"
                     /\ \E c \in Clients : Pending(c)

\* A command that has still to thaw or to freeze has seen the container frozen,
\* and only the service's clients are refused, when no session is tracked.
Placed == /\ \A c \in Clients : pc[c] \in {"thaw", "refreeze"} => sawFrozen[c]
          /\ "session" \notin faults => tracked

IInv == TypeOK /\ Placed /\ Restored

\* Every step of a command keeps the state well typed.
LEMMA CommandTypes ==
  ASSUME TypeOK, NEW c \in Clients, Command(c)
  PROVE  TypeOK'
<1> USE DEF TypeOK, Steps, LxcStates, Goto, Saw, Thawed, Refrozen, Allowed
<1>1. CASE Look(c) \/ ShellLook(c) \/ Launch(c)
  BY <1>1 DEF Look, ShellLook, Launch
<1>2. CASE Thaw(c) \/ Act(c) \/ Refreeze(c)
  BY <1>2 DEF Thaw, Act, Refreeze
<1>3. CASE Hangup(c) \/ Break(c)
  BY <1>3 DEF Hangup, Break
<1> QED
  BY <1>1, <1>2, <1>3 DEF Command

\* Every step of a command keeps Placed.
LEMMA CommandPlaced ==
  ASSUME TypeOK, Placed, NEW c \in Clients, Command(c)
  PROVE  Placed'
<1> USE DEF TypeOK, Placed, Goto, Saw
<1>1. CASE Look(c) \/ ShellLook(c) \/ Launch(c)
  BY <1>1 DEF Look, ShellLook, Launch
<1>2. CASE Thaw(c) \/ Act(c) \/ Refreeze(c)
  BY <1>2 DEF Thaw, Act, Refreeze
<1>3. CASE Hangup(c) \/ Break(c)
  BY <1>3 DEF Hangup, Break
<1> QED
  BY <1>1, <1>2, <1>3 DEF Command

\* Every step of a command keeps Restored: a command that leaves had nothing
\* to restore, or freezes the container.
LEMMA CommandRestored ==
  ASSUME IInv, NEW c \in Clients, Command(c)
  PROVE  Restored'
<1> SUFFICES ASSUME Undisturbed'
             PROVE  /\ \A d \in Clients : Pending(d)' => wanted' \in {"FROZEN", "STOPPED"}
                    /\ lxc' # wanted' => /\ lxc' = "RUNNING"
                                         /\ wanted' = "FROZEN"
                                         /\ \E d \in Clients : Pending(d)'
  BY DEF Restored
<1> USE DEF IInv, TypeOK, Restored, Placed, Pending, Goto, Saw
<1>1. Undisturbed /\ faults' = faults
  BY DEF Command, Look, ShellLook, Launch, Thaw, Act, Hangup, Refreeze, Break, Undisturbed
<1>2. "break" \notin faults /\ "session" \notin faults
  BY <1>1 DEF Undisturbed
<1>3. CASE Look(c) \/ ShellLook(c)
  <2>1. /\ UNCHANGED <<lxc, wanted>>
        /\ pc'[c] # "idle" /\ (sawFrozen'[c] <=> lxc = "FROZEN")
        /\ \A d \in Clients \ {c} : Pending(d)' <=> Pending(d)
        /\ ~Pending(c)
    BY <1>3 DEF Look, ShellLook, MayBegin
  <2> QED
    BY <1>1, <2>1
<1>4. CASE Launch(c)
  <2>1. \A d \in Clients : ~Pending(d)
    BY <1>1, <1>4 DEF Launch, MayBegin, Undisturbed
  <2>2. \A d \in Clients : ~Pending(d)'
    BY <1>4, <2>1 DEF Launch
  <2> QED
    BY <1>2, <1>4, <2>2 DEF Launch
<1>5. CASE Thaw(c)
  <2>1. /\ wanted' = wanted
        /\ pc[c] = "thaw" /\ sawFrozen[c] /\ sawFrozen' = sawFrozen
        /\ \A d \in Clients \ {c} : pc'[d] = pc[d]
    BY <1>5 DEF Thaw
  <2>2. CASE Allowed(c)
    BY <1>1, <1>5, <2>1, <2>2 DEF Thaw, Thawed, LxcStates
  <2>3. CASE ~Allowed(c)
    BY <1>1, <1>2, <1>5, <2>1, <2>3 DEF Thaw, Allowed
  <2> QED
    BY <2>2, <2>3
<1>6. CASE Act(c) \/ Hangup(c)
  <2>1. /\ UNCHANGED <<lxc, wanted>>
        /\ \A d \in Clients : Pending(d)' <=> Pending(d)
    BY <1>6 DEF Act, Hangup
  <2> QED
    BY <1>1, <2>1
<1>7. CASE Refreeze(c)
  <2>1. /\ wanted' = wanted
        /\ pc[c] = "refreeze" /\ sawFrozen[c] /\ sawFrozen' = sawFrozen
        /\ \A d \in Clients : Pending(d)' => Pending(d)
    BY <1>7 DEF Refreeze
  <2>2. lxc' = wanted'
    BY <1>1, <1>2, <1>7, <2>1 DEF Refreeze, Refrozen, Allowed, LxcStates
  <2> QED
    BY <1>1, <2>1, <2>2
<1>8. CASE Break(c)
  BY <1>2, <1>8 DEF Break
<1> QED
  BY <1>3, <1>4, <1>5, <1>6, <1>7, <1>8 DEF Command

\* What others do to the container keeps the invariant.
LEMMA OthersKeep ==
  ASSUME IInv, Suspend \/ Unfreeze \/ Shutdown \/ SessionStop \/ SessionStart
  PROVE  IInv'
<1> USE DEF IInv, TypeOK, Placed, Restored, Undisturbed, Pending, Others, LxcStates
<1>1. CASE Suspend
  BY <1>1 DEF Suspend
<1>2. CASE Unfreeze
  BY <1>2 DEF Unfreeze
<1>3. CASE Shutdown
  BY <1>3 DEF Shutdown
<1>4. CASE SessionStop \/ SessionStart
  BY <1>4 DEF SessionStop, SessionStart
<1> QED
  BY <1>1, <1>2, <1>3, <1>4

\* The invariant holds in every behaviour.
THEOREM Invariance == Spec => []IInv
<1>1. Init => IInv
  BY FaultAssumption DEF Init, IInv, TypeOK, Placed, Restored, Pending, Steps, LxcStates
<1>2. IInv /\ [Next]_vars => IInv'
  <2> SUFFICES ASSUME IInv, [Next]_vars PROVE IInv'
    OBVIOUS
  <2>1. ASSUME NEW c \in Clients, Command(c) PROVE IInv'
    BY <2>1, CommandTypes, CommandPlaced, CommandRestored DEF IInv
  <2>2. CASE UNCHANGED vars
    BY <2>2 DEF vars, IInv, TypeOK, Placed, Restored, Undisturbed, Pending
  <2> QED
    BY <2>1, <2>2, OthersKeep DEF Next
<1> QED
  BY <1>1, <1>2, PTL DEF Spec

\* The clients' state is well typed.
THEOREM Typing == Spec => []TypeOK
BY Invariance, PTL DEF IInv

\* Whatever any number of commands do beside each other, a container is again
\* as it was last asked to be when they are all done.
THEOREM FreezeSafety == Spec => []FrozenAgain
<1>1. IInv => FrozenAgain
  BY DEF IInv, Restored, Pending, FrozenAgain
<1> QED
  BY <1>1, Invariance, PTL
=============================================================================
