--------------------------- MODULE BaseProperties ---------------------------
(***************************************************************************)
(* The end of lxc.make_base_props: the [properties] of waydroid.cfg        *)
(* override what was found on the host, one after another, in a list that  *)
(* loses elements while it is enumerated.                                  *)
(***************************************************************************)
EXTENDS Naturals, SequencesExt

CONSTANTS Names,    \* names of properties
          Within,   \* pairs <<k, l>> of names: "k=" is found in an entry of l, too
          MaxFound, \* bound: how many properties the host has
          MaxUser   \* bound: how many waydroid.cfg has

PropsAssumption == Within \subseteq Names \X Names /\ MaxFound \in Nat /\ MaxUser \in Nat

VARIABLES found,   \* the names of the host's properties, in order; they never change
          user,    \* those of waydroid.cfg, as above
          props,   \* the list: [name, by]
          idx,     \* the place of the enumeration
          applied  \* how many properties of waydroid.cfg are done

propsVars == <<found, user, props, idx, applied>>

Entry == [name : Names, by : {"host", "user"}]

PropsTypeOK ==
  /\ found \in Seq(Names) /\ user \in Seq(Names)
  /\ props \in Seq(Entry)
  /\ idx \in 1..(Len(props) + 2)
  /\ applied \in 0..Len(user)

Entries(names, by) == [i \in DOMAIN names |-> [name |-> names[i], by |-> by]]

\* A section of waydroid.cfg has each name once.
PropsInit ==
  /\ found \in SeqOf(Names, MaxFound)
  /\ user \in {names \in SeqOf(Names, MaxUser) : IsInjective(names)}
  /\ props = Entries(found, "host")
  /\ idx = 1
  /\ applied = 0

More    == applied < Len(user)
Current == user[applied + 1]

\* Any entry that has the name and "=" somewhere.
Matches(entry) == entry.name = Current \/ <<Current, entry.name>> \in Within

\* A slip: the entries of the host stay.
EnumerateOnly ==
  /\ More /\ idx <= Len(props)
  /\ idx' = idx + 1
  /\ UNCHANGED <<found, user, props, applied>>

\* What follows an entry that is removed takes its place and is not looked at.
Enumerate ==
  /\ More /\ idx <= Len(props)
  /\ props' = IF Matches(props[idx]) THEN RemoveAt(props, idx) ELSE props
  /\ idx' = idx + 1
  /\ UNCHANGED <<found, user, applied>>

Override ==
  /\ More /\ idx > Len(props)
  /\ props' = Append(props, [name |-> Current, by |-> "user"])
  /\ applied' = applied + 1
  /\ idx' = 1
  /\ UNCHANGED <<found, user>>

PropsNext == Enumerate \/ Override

PropsSpec == PropsInit /\ [][PropsNext]_propsVars

-----------------------------------------------------------------------------
(* What Android is given. *)

\* No name is found twice, and none that is overridden is found in another's entry.
Distinct ==
  /\ IsInjective(found)
  /\ \A k \in ToSet(user), l \in ToSet(found) \cup ToSet(user) : <<k, l>> \notin Within

\* The host's properties and then those of waydroid.cfg.
All == Entries(found, "host") \o Entries(user, "user")

InTheirOrder == \A i, j \in DOMAIN props : i < j =>
                  \E a, b \in DOMAIN All : a < b /\ props[i] = All[a] /\ props[j] = All[b]

\* Every property of waydroid.cfg ends with the value it has there, once, what it does
\* not name keeps the host's, all are in their order, and nothing else is there,
\* although entries are skipped while others are removed.
PropertiesOverride ==
  (~More /\ Distinct) =>
    /\ ToSet(props) = {e \in ToSet(All) : e.by = "host" => e.name \notin ToSet(user)}
    /\ IsInjective(props)
    /\ InTheirOrder
=============================================================================
