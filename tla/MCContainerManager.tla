------------------------- MODULE MCContainerManager -------------------------
(***************************************************************************)
(* ContainerManager for TLC: session processes of two users compete for    *)
(* the container.                                                          *)
(***************************************************************************)
EXTENDS ContainerManager, TLC

CONSTANTS alice, bob, alice1, bob1

\* alice and bob run one session process each.
OwnerDef == [s \in Sessions |-> IF s = bob1 THEN bob ELSE alice]

\* No user is part of a state, and what one's session may do the other's may, so
\* the sessions may be taken for each other (their owners change places with them).
Exchange == Permutations(Sessions)

\* One request of Android waits to be dispatched, beside root's commands none.
InboxDef == [f \in FaultSets |-> IF "cli" \in f THEN 0 ELSE 1]
=============================================================================
