--------------------------- MODULE ContainerLease ---------------------------
(***************************************************************************)
(* What the container service promises about the session it tracks, seen   *)
(* from outside: the container is leased to at most one session at a time, *)
(* a lease is never handed over from one session to another without being  *)
(* given up first, and a session is told to quit exactly when its own      *)
(* lease ends, never at any other moment.                                  *)
(***************************************************************************)
CONSTANTS Sessions,    \* session processes (one per "waydroid session start")
          NoSession    \* the lease is free

VARIABLES holder,      \* the session the container runs for
          notified     \* the sessions that have been told to quit

vars == <<holder, notified>>

Init == /\ holder = NoSession
        /\ notified = {}

Grant(s) == /\ holder = NoSession
            /\ holder' = s
            /\ UNCHANGED notified

\* Given up by a request of the session itself, or lost with the service.
Release == /\ holder # NoSession
           /\ holder' = NoSession
           /\ UNCHANGED notified

\* Taken away: the session is told in the same step.
Revoke == /\ holder # NoSession
          /\ holder' = NoSession
          /\ notified' = notified \cup {holder}

Next == \/ \E s \in Sessions : Grant(s)
        \/ Release
        \/ Revoke

Spec == Init /\ [][Next]_vars
=============================================================================
