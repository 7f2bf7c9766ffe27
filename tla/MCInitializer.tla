--------------------------- MODULE MCInitializer ---------------------------
(***************************************************************************)
(* Initializer for TLC: two channels of system images, one of vendor       *)
(* images, two worker processes and one other command.                     *)
(***************************************************************************)
EXTENDS Initializer

CONSTANTS lineage, custom, vendors

OffersDef == [x \in Parts |-> IF x = "system" THEN {lineage, custom} ELSE {vendors}]
BuildsDef == [c \in {lineage, custom, vendors} |-> IF c = lineage THEN 2 ELSE 1]
DefaultDef == [x \in Parts |-> IF x = "system" THEN lineage ELSE vendors]
=============================================================================
