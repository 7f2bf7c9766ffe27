-------------------------- MODULE MCSessionManager --------------------------
(***************************************************************************)
(* SessionManager for TLC: alice starts two sessions, at the same time or  *)
(* one after the other, and bob starts one.                                *)
(***************************************************************************)
EXTENDS SessionManager

CONSTANTS alice, bob, alice1, alice2, bob1

OwnerDef == [p \in Sessions |-> IF p = bob1 THEN bob ELSE alice]
=============================================================================
