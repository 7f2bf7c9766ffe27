------------------------- MODULE HostCommands_proofs -------------------------
(***************************************************************************)
(* What runs on the host beside the services, each program with a state of *)
(* its own: the network script, for any firewall rules, commands that fail *)
(* and scripts that are killed; foreground_pipe, which runs a command such *)
(* as that script, for any command that hangs, forks or may not be killed; *)
(* the mounts of the root file system, for any mounts made by hand, any    *)
(* commands that fail and callers that are killed; what is concluded from  *)
(* the host, for any versions and any number of graphics cards; and the    *)
(* properties that Android is given, for any lists of them.                *)
(*                                                                         *)
(* NetInv says what each step of start and stop finds: rules are made and  *)
(* deleted from the first to the last, a bridge is there as long as        *)
(* anything else is, and no two scripts are ever at work, because          *)
(* network_up turns a start away while a stop works, and its absence a     *)
(* stop while a start does.                                                *)
(*                                                                         *)
(* RunInv says what the caller and the command know of each other: there   *)
(* is a return code when the command has ended, and while its tree is      *)
(* killed, whoever still lives of those that ps showed below it is on the  *)
(* list of those to be killed.                                             *)
(*                                                                         *)
(* MountInv says that whatever is mounted lies on rootfs, that who         *)
(* unmounts has read of every mount that is there, and that who mounts has *)
(* made the mounts of the program before its step, in that order. That     *)
(* nothing is skipped or unmounted before what lies on it follows from the *)
(* sorted order in which mount points are unmounted.                       *)
(*                                                                         *)
(* PropsInv says what an enumeration has done so far with the one entry    *)
(* there may be of the name that is overridden: if it is still there, it   *)
(* is ahead, so that what is skipped after a removal is never it.          *)
(***************************************************************************)
EXTENDS WaydroidNet, CommandRunner, RootfsMount, HostConfig, BaseProperties, SequenceTheorems,
        FunctionTheorems, FiniteSetTheorems, WellFoundedInduction, TLAPS

-----------------------------------------------------------------------------
(* The network script. *)

Pcs    == {"idle", "ok", "error", "killed", "link", "ifup", "rules", "dnsmasq", "touch",
           "ifdown", "unrule", "undns", "unlink", "rm"}
Script == [pc : Pcs, then : {"ok", "error", "link"}, rule : 1..(Len(Rules) + 1)]

\* The steps of start, and those of stop, which undo.
Forth == {"link", "ifup", "rules", "dnsmasq", "touch"}
Back  == {"ifdown", "unrule", "undns", "unlink", "rm"}

NoRules  == \A r \in Rule : rules[r] = 0
AllRules == \A r \in Rule : rules[r] = 1

Exclusive == \A s, t \in Scripts : ~Rests(s) /\ ~Rests(t) => s = t

\* A stop works on a network that is up, everything else on one that is not.
Fits(s) ==
  /\ script[s].pc \in Forth => ~up /\ s = StartScript /\ script[s].then = "link"
  /\ script[s].pc \in Back  => (up <=> script[s].then = "ok") /\ (~up => s = StartScript)

\* What a start has done so far.
Going(s) ==
  /\ script[s].pc \in {"link", "ifup"} => NoRules /\ ~dnsmasq
  /\ script[s].pc = "ifup" => bridge # "absent"
  /\ script[s].pc = "rules" => /\ bridge = "up" /\ ~dnsmasq
                               /\ script[s].rule \in Rule /\ (nft => script[s].rule = 1)
                               /\ \A r \in Rule : rules[r] = IF r < script[s].rule THEN 1 ELSE 0
  /\ script[s].pc \in {"dnsmasq", "touch"} => /\ bridge = "up" /\ AllRules
                                              /\ dnsmasq <=> script[s].pc = "touch"

\* What a stop, or the clean-up of a start, has undone so far.
Undoing(s) ==
  /\ script[s].pc \in Back \ {"rm"} => bridge # "absent"
  /\ script[s].pc \in Back \ {"ifdown"} => bridge # "up"
  /\ script[s].pc = "unrule" => /\ script[s].rule \in Rule
                                /\ \A r \in Rule : r < script[s].rule => rules[r] = 0
  /\ script[s].pc \in {"undns", "unlink", "rm"} => NoRules
  /\ script[s].pc \in {"unlink", "rm"} => ~dnsmasq

Works(s) == Fits(s) /\ Going(s) /\ Undoing(s)

\* What every step keeps but for the scripts.
NetSound == /\ RulesOnce
            /\ bridge = "absent" => NoRules /\ ~dnsmasq

NetInv == /\ NetTypeOK
          /\ NetSound
          /\ Exclusive
          /\ \A s \in Scripts : Works(s)
          /\ UpIsComplete

LEMMA RestWorks == \A s : Rests(s) => Works(s)
BY DEF Rests, Works, Fits, Going, Undoing, Forth, Back

\* A script that goes on is alone.
Went(s, pc, then, rule) ==
  /\ script' \in [Scripts -> Script]
  /\ script'[s].pc = pc /\ script'[s].then = then /\ script'[s].rule = rule
  /\ \A t \in Scripts \ {s} : script'[t] = script[t]

LEMMA GotoWent ==
  ASSUME NetAssumption, NetTypeOK, NEW s \in Scripts, NEW pc \in Pcs, Goto(s, pc)
  PROVE  Went(s, pc, script[s].then, 1)
<1> DEFINE to == [script[s] EXCEPT !.pc = pc, !.rule = 1]
<1>1. 1 \in 1..(Len(Rules) + 1)
  BY DEF NetAssumption
<1>2. script \in [Scripts -> Script]
  BY DEF NetTypeOK, Script, Pcs
<1>3. to \in Script /\ to.pc = pc /\ to.then = script[s].then /\ to.rule = 1
  BY <1>1, <1>2 DEF Script
<1>4. script' = [script EXCEPT ![s] = to]
  BY DEF Goto
<1> HIDE DEF to
<1> QED
  BY <1>2, <1>3, <1>4 DEF Went

LEMMA UndoWent ==
  ASSUME NetAssumption, NetTypeOK, NEW s \in Scripts, NEW then \in {"ok", "error", "link"},
         Undo(s, then)
  PROVE  Went(s, IF bridge # "absent" THEN "ifdown" ELSE "rm", then, 1)
<1> DEFINE pc == IF bridge # "absent" THEN "ifdown" ELSE "rm"
           to == [script[s] EXCEPT !.pc = pc, !.then = then, !.rule = 1]
<1>1. 1 \in 1..(Len(Rules) + 1) /\ pc \in Pcs
  BY DEF NetAssumption, Pcs
<1>2. script \in [Scripts -> Script]
  BY DEF NetTypeOK, Script, Pcs
<1> HIDE DEF pc
<1>3. to \in Script /\ to.pc = pc /\ to.then = then /\ to.rule = 1
  BY <1>1, <1>2 DEF Script
<1>4. script' = [script EXCEPT ![s] = to]
  BY DEF Undo, pc
<1> HIDE DEF to
<1>5. Went(s, pc, then, 1)
  BY <1>2, <1>3, <1>4 DEF Went
<1> QED
  BY <1>5 DEF pc

LEMMA SetWent ==
  ASSUME NetAssumption, NetTypeOK, NEW s \in Scripts, Set(s)
  PROVE  Went(s, "link", "link", 1)
<1> DEFINE to == [script[s] EXCEPT !.pc = "link", !.then = "link", !.rule = 1]
<1>1. 1 \in 1..(Len(Rules) + 1)
  BY DEF NetAssumption
<1>2. script \in [Scripts -> Script]
  BY DEF NetTypeOK, Script, Pcs
<1>3. to \in Script /\ to.pc = "link" /\ to.then = "link" /\ to.rule = 1
  BY <1>1, <1>2 DEF Script, Pcs
<1>4. script' = [script EXCEPT ![s] = to]
  BY DEF Set
<1> HIDE DEF to
<1> QED
  BY <1>2, <1>3, <1>4 DEF Went

LEMMA RuleWent ==
  ASSUME NetAssumption, NetTypeOK, NEW s \in Scripts, script[s].rule \in Rule,
         script' = [script EXCEPT ![s].rule = @ + 1]
  PROVE  Went(s, script[s].pc, script[s].then, script[s].rule + 1)
<1> DEFINE to == [script[s] EXCEPT !.rule = @ + 1]
<1>1. script[s].rule + 1 \in 1..(Len(Rules) + 1)
  BY DEF NetAssumption, Rule
<1>2. script \in [Scripts -> Script]
  BY DEF NetTypeOK, Script, Pcs
<1>3. to \in Script /\ to.pc = script[s].pc /\ to.then = script[s].then
      /\ to.rule = script[s].rule + 1
  BY <1>1, <1>2 DEF Script
<1>4. script' = [script EXCEPT ![s] = to]
  OBVIOUS
<1> HIDE DEF to
<1> QED
  BY <1>2, <1>3, <1>4 DEF Went

\* The step of a script that is at work, or begins while no other is.
LEMMA AloneKeeps ==
  ASSUME NEW s \in Scripts, \A t \in Scripts \ {s} : Rests(t),
         NEW pc, NEW then, NEW rule, Went(s, pc, then, rule),
         NetTypeOK', NetSound', Works(s)', UpIsComplete'
  PROVE  NetInv'
<1>1. \A t \in Scripts \ {s} : Rests(t)'
  BY DEF Went, Rests
<1>2. \A t \in Scripts : Works(t)'
  BY <1>1, RestWorks DEF Rests, Works, Fits, Going, Undoing, Forth, Back
<1> QED
  BY <1>1, <1>2 DEF NetInv, Exclusive

\* The steps of start.
LEMMA ForthKeeps ==
  ASSUME NetAssumption, NetInv, NEW s \in Scripts, UNCHANGED <<netFaults, nft, ports>>,
         Link(s) \/ IfUp(s) \/ AddRule(s) \/ Dnsmasq(s) \/ Touch(s)
  PROVE  NetInv'
<1>0. /\ NetTypeOK /\ Works(s) /\ RulesOnce /\ rules \in [Rule -> 0..MaxCopies]
      /\ (bridge = "absent" => NoRules /\ ~dnsmasq) /\ script[s].pc \in Forth
      /\ Len(Rules) \in Nat \ {0} /\ MaxCopies \in Nat \ {0}
      /\ ~up /\ s = StartScript /\ script[s].then = "link"
  <2>1. script[s].pc \in Forth
    BY DEF Link, IfUp, AddRule, Dnsmasq, Touch, At, Forth
  <2> QED
    BY <2>1 DEF NetInv, NetTypeOK, NetSound, NetAssumption, Works, Fits
<1>1. \A t \in Scripts \ {s} : Rests(t)
  BY <1>0 DEF NetInv, Exclusive, Rests, Forth
<1>2. ASSUME NEW pc \in Pcs, NEW rule, Went(s, pc, "link", rule),
             NetTypeOK', NetSound', Works(s)', UpIsComplete'
      PROVE  NetInv'
  BY <1>1, <1>2, AloneKeeps
<1>3. ASSUME NEW pc \in Pcs, NEW rule, Went(s, pc, "link", rule),
             bridge' \in {"absent", "down", "up"},
             dnsmasq' \in BOOLEAN, up' \in BOOLEAN, rules' \in [Rule -> 0..MaxCopies]
      PROVE  NetTypeOK' /\ (pc \in Forth => UpIsComplete')
  <2>1. NetTypeOK'
    BY <1>0, <1>3 DEF NetTypeOK, Went, Script, Pcs
  <2>2. pc \in Forth => ~Rests(s)'
    BY <1>3 DEF Went, Rests, Forth
  <2> QED
    BY <2>1, <2>2 DEF UpIsComplete
<1>4. CASE Link(s)
  <2>1. Went(s, "ifup", "link", 1) /\ UNCHANGED <<rules, dnsmasq, up>> /\ bridge' \in {"down", "up"}
    BY <1>0, <1>4, GotoWent DEF Link, Pcs, NetTypeOK
  <2>2. NoRules /\ ~dnsmasq
    BY <1>0, <1>4 DEF Works, Going, Link, At
  <2>3. Works(s)' /\ NetSound'
    BY <1>0, <2>1, <2>2
       DEF Works, Fits, Going, Undoing, Went, Forth, Back, NetSound, RulesOnce, NoRules
  <2> QED
    BY <1>0, <1>2, <1>3, <2>1, <2>3 DEF Pcs, Forth, NetTypeOK
<1>5. CASE IfUp(s)
  <2>1. Went(s, "rules", "link", 1) /\ UNCHANGED <<rules, dnsmasq, up>> /\ bridge' = "up"
    BY <1>0, <1>5, GotoWent DEF IfUp, Pcs
  <2>2. NoRules /\ ~dnsmasq
    BY <1>0, <1>5 DEF Works, Going, IfUp, At
  <2>3. 1 \in Rule /\ \A r \in Rule : ~(r < 1)
    BY <1>0 DEF Rule
  <2>4. Works(s)' /\ NetSound'
    BY <1>0, <2>1, <2>2, <2>3
       DEF Works, Fits, Going, Undoing, Went, Forth, Back, NetSound, RulesOnce, NoRules
  <2> QED
    BY <1>0, <1>2, <1>3, <2>1, <2>4 DEF Pcs, Forth, NetTypeOK
<1>6. CASE AddRule(s)
  <2> DEFINE i == script[s].rule
  <2>0. /\ bridge = "up" /\ ~dnsmasq /\ i \in Rule /\ UNCHANGED <<bridge, dnsmasq, up>>
        /\ \A r \in Rule : rules[r] = IF r < i THEN 1 ELSE 0
        /\ At(s, "rules")
    BY <1>0, <1>6 DEF Works, Going, AddRule, At
  <2>1. /\ nft \/ i = Len(Rules) => Went(s, "dnsmasq", "link", 1)
        /\ ~nft /\ i # Len(Rules) => Went(s, "rules", "link", i + 1)
    BY <1>0, <1>6, <2>0, GotoWent, RuleWent DEF AddRule, Pcs, At
  <2>2. /\ rules' \in [Rule -> 0..MaxCopies]
        /\ nft => AllRules'
        /\ ~nft => \A r \in Rule : rules'[r] = IF r < i + 1 THEN 1 ELSE 0
    <3>1. CASE nft
      BY <1>0, <1>6, <3>1 DEF AddRule, AllRules
    <3>2. CASE ~nft
      <4>1. rules[i] = 0 /\ 0 < MaxCopies
        BY <1>0, <2>0 DEF Rule
      <4>2. rules' = [rules EXCEPT ![i] = 1]
        BY <1>6, <3>2, <4>1 DEF AddRule
      <4> QED
        BY <1>0, <2>0, <3>2, <4>2 DEF Rule
    <3> QED
      BY <3>1, <3>2
  <2>3. RulesOnce'
    BY <2>2 DEF RulesOnce, AllRules
  <2>4. CASE nft \/ i = Len(Rules)
    <3>1. AllRules'
      BY <1>0, <2>2, <2>4 DEF AllRules, Rule
    <3>2. Works(s)' /\ NetSound'
      BY <1>0, <2>0, <2>1, <2>3, <2>4, <3>1
         DEF Works, Fits, Going, Undoing, Went, Forth, Back, NetSound, AllRules
    <3> QED
      BY <1>0, <1>2, <1>3, <2>0, <2>1, <2>2, <2>4, <3>2 DEF Pcs, Forth, NetTypeOK
  <2>5. CASE ~nft /\ i # Len(Rules)
    <3>1. i + 1 \in Rule
      BY <1>0, <2>0, <2>5 DEF Rule
    <3>2. Works(s)' /\ NetSound'
      BY <1>0, <2>0, <2>1, <2>2, <2>3, <2>5, <3>1
         DEF Works, Fits, Going, Undoing, Went, Forth, Back, NetSound
    <3> QED
      BY <1>0, <1>2, <1>3, <2>0, <2>1, <2>2, <2>5, <3>2 DEF Pcs, Forth, NetTypeOK
  <2> QED
    BY <2>4, <2>5
<1>7. CASE Dnsmasq(s)
  <2>1. Went(s, "touch", "link", 1) /\ UNCHANGED <<bridge, rules, up>> /\ dnsmasq'
    BY <1>0, <1>7, GotoWent DEF Dnsmasq, Pcs
  <2>2. AllRules /\ bridge = "up"
    BY <1>0, <1>7 DEF Works, Going, Dnsmasq, At
  <2>3. Works(s)' /\ NetSound'
    BY <1>0, <2>1, <2>2
       DEF Works, Fits, Going, Undoing, Went, Forth, Back, NetSound, RulesOnce, AllRules
  <2>4. NetTypeOK'
    BY <1>3, <1>0, <1>7, <2>1 DEF Pcs, NetTypeOK, Dnsmasq
  <2> QED
    BY <1>0, <1>2, <1>3, <1>7, <2>1, <2>3, <2>4 DEF Pcs, Forth, NetTypeOK, Dnsmasq
<1>8. CASE Touch(s)
  <2>1. Went(s, "ok", "link", 1) /\ UNCHANGED <<bridge, rules, dnsmasq>> /\ up' = TRUE
    BY <1>0, <1>8, GotoWent DEF Touch, Pcs
  <2>2. AllRules /\ bridge = "up" /\ dnsmasq
    BY <1>0, <1>8 DEF Works, Going, Touch, At
  <2>3. Works(s)' /\ NetSound' /\ UpIsComplete'
    BY <1>0, <2>1, <2>2
       DEF Works, Fits, Going, Undoing, Went, Forth, Back, NetSound, RulesOnce, AllRules,
           UpIsComplete
  <2> QED
    BY <1>0, <1>2, <1>3, <2>1, <2>3 DEF Pcs, NetTypeOK
<1> QED
  BY <1>4, <1>5, <1>6, <1>7, <1>8

\* The steps of stop and of the clean-up.
LEMMA BackKeeps ==
  ASSUME NetAssumption, NetInv, NEW s \in Scripts, UNCHANGED <<netFaults, nft, ports>>,
         IfDown(s) \/ DeleteRule(s) \/ KillDnsmasq(s) \/ Unlink(s) \/ RemoveUp(s)
  PROVE  NetInv'
<1> DEFINE then == script[s].then
<1>0. /\ NetTypeOK /\ Works(s) /\ RulesOnce /\ rules \in [Rule -> 0..MaxCopies]
      /\ (bridge = "absent" => NoRules /\ ~dnsmasq) /\ script[s].pc \in Back
      /\ Len(Rules) \in Nat \ {0} /\ MaxCopies \in Nat \ {0}
      /\ (up <=> then = "ok") /\ (~up => s = StartScript) /\ then \in {"ok", "error", "link"}
  <2>1. script[s].pc \in Back
    BY DEF IfDown, DeleteRule, KillDnsmasq, Unlink, RemoveUp, At, Back
  <2>2. script[s].then \in {"ok", "error", "link"}
    BY DEF NetInv, NetTypeOK
  <2> QED
    BY <2>1, <2>2 DEF NetInv, NetTypeOK, NetSound, NetAssumption, Works, Fits
<1>1. \A t \in Scripts \ {s} : Rests(t)
  BY <1>0 DEF NetInv, Exclusive, Rests, Back
<1>2. ASSUME NEW pc \in Pcs, NEW rule, Went(s, pc, then, rule),
             NetTypeOK', NetSound', Works(s)', UpIsComplete'
      PROVE  NetInv'
  BY <1>1, <1>2, AloneKeeps
<1>3. ASSUME NEW pc \in Pcs, NEW rule, Went(s, pc, then, rule),
             bridge' \in {"absent", "down", "up"},
             dnsmasq' \in BOOLEAN, up' \in BOOLEAN, rules' \in [Rule -> 0..MaxCopies]
      PROVE  NetTypeOK' /\ (pc \in Back => UpIsComplete')
  <2>1. NetTypeOK'
    BY <1>0, <1>3 DEF NetTypeOK, Went, Script, Pcs
  <2>2. pc \in Back => ~Rests(s)'
    BY <1>3 DEF Went, Rests, Back
  <2> QED
    BY <2>1, <2>2 DEF UpIsComplete
<1>4. CASE IfDown(s)
  <2>1. Went(s, "unrule", then, 1) /\ UNCHANGED <<rules, dnsmasq, up>> /\ bridge' = "down"
    <3>1. bridge # "absent"
      BY <1>0, <1>4 DEF Works, Undoing, IfDown, At, Back
    <3> QED
      BY <1>0, <1>4, <3>1, GotoWent DEF IfDown, Pcs, NetTypeOK
  <2>2. 1 \in Rule /\ \A r \in Rule : ~(r < 1)
    BY <1>0 DEF Rule
  <2>3. Works(s)' /\ NetSound'
    BY <1>0, <2>1, <2>2
       DEF Works, Fits, Going, Undoing, Went, Forth, Back, NetSound, RulesOnce, NoRules
  <2> QED
    BY <1>0, <1>2, <1>3, <2>1, <2>3 DEF Pcs, Back, NetTypeOK
<1>5. CASE DeleteRule(s)
  <2> DEFINE i == script[s].rule
  <2>0. /\ bridge = "down" /\ i \in Rule /\ UNCHANGED <<bridge, dnsmasq, up>>
        /\ \A r \in Rule : r < i => rules[r] = 0
        /\ At(s, "unrule")
    BY <1>0, <1>5 DEF Works, Undoing, DeleteRule, At, Back, NetTypeOK
  <2>1. /\ nft \/ i = Len(Rules) => Went(s, "undns", then, 1)
        /\ ~nft /\ i # Len(Rules) => Went(s, "unrule", then, i + 1)
    BY <1>0, <1>5, <2>0, GotoWent, RuleWent DEF DeleteRule, Pcs, At
  <2>2. /\ rules' \in [Rule -> 0..MaxCopies]
        /\ RulesOnce'
        /\ nft => NoRules'
        /\ ~nft => \A r \in Rule : r < i + 1 => rules'[r] = 0
    <3>1. CASE nft
      BY <1>0, <1>5, <3>1 DEF DeleteRule, NoRules, RulesOnce
    <3>2. CASE ~nft
      <4>1. rules[i] \in {0, 1}
        BY <1>0, <2>0 DEF RulesOnce
      <4>2. rules' = [rules EXCEPT ![i] = 0]
        BY <1>5, <3>2, <4>1 DEF DeleteRule
      <4>3. rules' \in [Rule -> 0..MaxCopies]
        BY <1>0, <2>0, <4>2
      <4>4. \A r \in Rule : rules'[r] = IF r = i THEN 0 ELSE rules[r]
        BY <1>0, <2>0, <4>2
      <4>5. \A r \in Rule : r < i + 1 => rules'[r] = 0
        BY <2>0, <4>4 DEF Rule
      <4>6. RulesOnce'
        BY <1>0, <4>4 DEF RulesOnce
      <4> QED
        BY <3>2, <4>3, <4>5, <4>6
    <3> QED
      BY <3>1, <3>2
  <2>4. CASE nft \/ i = Len(Rules)
    <3>1. NoRules'
      BY <1>0, <2>0, <2>2, <2>4 DEF NoRules, Rule
    <3>2. Works(s)' /\ NetSound'
      BY <1>0, <2>0, <2>1, <2>2, <2>4, <3>1
         DEF Works, Fits, Going, Undoing, Went, Forth, Back, NetSound
    <3> QED
      BY <1>0, <1>2, <1>3, <2>0, <2>1, <2>2, <2>4, <3>2 DEF Pcs, Back, NetTypeOK
  <2>5. CASE ~nft /\ i # Len(Rules)
    <3>1. i + 1 \in Rule
      BY <1>0, <2>0, <2>5 DEF Rule
    <3>2. Works(s)' /\ NetSound'
      BY <1>0, <2>0, <2>1, <2>2, <2>5, <3>1
         DEF Works, Fits, Going, Undoing, Went, Forth, Back, NetSound
    <3> QED
      BY <1>0, <1>2, <1>3, <2>0, <2>1, <2>2, <2>5, <3>2 DEF Pcs, Back, NetTypeOK
  <2> QED
    BY <2>4, <2>5
<1>6. CASE KillDnsmasq(s)
  <2>1. Went(s, "unlink", then, 1) /\ UNCHANGED <<bridge, rules, up>> /\ dnsmasq' = FALSE
    BY <1>0, <1>6, GotoWent DEF KillDnsmasq, Pcs
  <2>2. NoRules /\ bridge = "down"
    BY <1>0, <1>6 DEF Works, Undoing, KillDnsmasq, At, Back, NetTypeOK
  <2>3. Works(s)' /\ NetSound'
    BY <1>0, <2>1, <2>2
       DEF Works, Fits, Going, Undoing, Went, Forth, Back, NetSound, RulesOnce, NoRules
  <2> QED
    BY <1>0, <1>2, <1>3, <2>1, <2>3 DEF Pcs, Back, NetTypeOK
<1>7. CASE Unlink(s)
  <2>1. NoRules /\ bridge = "down" /\ ~dnsmasq
    BY <1>0, <1>7 DEF Works, Undoing, Unlink, At, Back, NetTypeOK
  <2>2. Went(s, "rm", then, 1) /\ UNCHANGED <<rules, dnsmasq, up>> /\ bridge' \in {"absent", "down"}
    BY <1>0, <1>7, <2>1, GotoWent DEF Unlink, Pcs
  <2>3. Works(s)' /\ NetSound'
    BY <1>0, <2>1, <2>2
       DEF Works, Fits, Going, Undoing, Went, Forth, Back, NetSound, RulesOnce, NoRules
  <2> QED
    BY <1>0, <1>2, <1>3, <2>2, <2>3 DEF Pcs, Back, NetTypeOK
<1>8. CASE RemoveUp(s)
  <2>1. NoRules /\ bridge # "up" /\ ~dnsmasq
    BY <1>0, <1>8 DEF Works, Undoing, RemoveUp, At, Back
  <2>2. then \in Pcs
    BY <1>0 DEF Pcs
  <2>3. Went(s, then, then, 1) /\ UNCHANGED <<bridge, rules, dnsmasq>> /\ up' = FALSE
    BY <1>0, <1>8, <2>2, GotoWent DEF RemoveUp
  <2>4. then = "link" => s = StartScript
    BY <1>0
  <2>5. Works(s)'
    BY <1>0, <2>1, <2>3, <2>4 DEF Works, Fits, Going, Undoing, Went, Forth, Back, NoRules
  <2>6. NetSound' /\ UpIsComplete'
    BY <1>0, <2>1, <2>3 DEF NetSound, RulesOnce, NoRules, UpIsComplete
  <2> QED
    BY <1>0, <1>2, <1>3, <2>2, <2>3, <2>5, <2>6 DEF NetTypeOK
<1> QED
  BY <1>4, <1>5, <1>6, <1>7, <1>8

\* A command that fails: what is undone is what there is.
LEMMA FailsKeeps ==
  ASSUME NetAssumption, NetInv, NEW s \in Scripts, UNCHANGED <<netFaults, nft, ports>>, Fails(s)
  PROVE  NetInv'
<1>0. /\ NetTypeOK /\ Works(s) /\ NetSound /\ script[s].pc \in Forth
      /\ ~up /\ s = StartScript /\ UNCHANGED net
  <2>1. script[s].pc \in Forth /\ UNCHANGED net
    BY DEF Fails, Forth
  <2> QED
    BY <2>1 DEF NetInv, Works, Fits
<1>1. \A t \in Scripts \ {s} : Rests(t)
  BY <1>0 DEF NetInv, Exclusive, Rests, Forth
<1>2. Went(s, IF bridge # "absent" THEN "ifdown" ELSE "rm", "error", 1)
  BY <1>0, UndoWent DEF Fails, Cleanup
<1>3. NetTypeOK' /\ NetSound'
  BY <1>0, <1>2 DEF NetTypeOK, NetSound, RulesOnce, NoRules, net, Went, Script, Pcs
<1>4. Works(s)'
  <2>1. CASE bridge = "absent"
    BY <1>0, <1>2, <2>1
       DEF Works, Fits, Going, Undoing, Went, Forth, Back, NetSound, NoRules, net
  <2>2. CASE bridge # "absent"
    BY <1>0, <1>2, <2>2 DEF Works, Fits, Going, Undoing, Went, Forth, Back, net
  <2> QED
    BY <2>1, <2>2
<1>5. UpIsComplete'
  BY <1>0 DEF UpIsComplete, net
<1> QED
  BY <1>1, <1>2, <1>3, <1>4, <1>5, AloneKeeps

LEMMA KilledKeeps ==
  ASSUME NetAssumption, NetInv, NEW s \in Scripts, UNCHANGED <<netFaults, nft, ports>>, Killed(s)
  PROVE  NetInv'
<1>0. NetTypeOK /\ NetSound /\ "kill" \in netFaults /\ UNCHANGED net
  BY DEF NetInv, Killed
<1>1. \A t \in Scripts \ {s} : Rests(t)
  BY DEF NetInv, Exclusive, Killed
<1>2. Went(s, "killed", script[s].then, 1)
  BY <1>0, GotoWent DEF Killed, Pcs
<1>3. NetTypeOK' /\ NetSound'
  BY <1>0, <1>2 DEF NetTypeOK, NetSound, RulesOnce, NoRules, net, Went, Script, Pcs
<1>4. Works(s)'
  BY <1>2 DEF Works, Fits, Going, Undoing, Went, Forth, Back
<1>5. UpIsComplete'
  BY <1>0 DEF UpIsComplete
<1> QED
  BY <1>1, <1>2, <1>3, <1>4, <1>5, AloneKeeps

\* A script that rests goes to rest again: nobody else is disturbed.
LEMMA RestsOn ==
  ASSUME NetInv, NEW s \in Scripts, Rests(s), NEW pc \in {"ok", "error"},
         Went(s, pc, script[s].then, 1), UNCHANGED net, UNCHANGED <<netFaults, nft, ports>>
  PROVE  NetInv'
<1>1. \A t \in Scripts : Rests(t)' <=> Rests(t)
  BY DEF Went, Rests
<1>2. NetTypeOK' /\ NetSound'
  BY DEF NetInv, NetTypeOK, NetSound, RulesOnce, NoRules, net, Went, Script, Pcs
<1>3. Exclusive'
  BY <1>1 DEF NetInv, Exclusive
<1>4. ASSUME NEW t \in Scripts PROVE Works(t)'
  <2>1. CASE t = s
    BY <2>1 DEF Works, Fits, Going, Undoing, Went, Forth, Back
  <2>2. CASE t # s
    <3>1. Works(t) /\ script'[t] = script[t]
      BY <2>2 DEF NetInv, Went
    <3> QED
      BY <3>1 DEF Works, Fits, Going, Undoing, AllRules, NoRules, net
  <2> QED
    BY <2>1, <2>2
<1>5. UpIsComplete'
  BY <1>1 DEF NetInv, UpIsComplete, net
<1> QED
  BY <1>2, <1>3, <1>4, <1>5 DEF NetInv

\* The network is down: whoever works is the script that starts it.  It is up: whoever
\* works stops it.
LEMMA OthersAre ==
  ASSUME NetInv, NEW t \in Scripts, ~Rests(t)
  PROVE  (up <=> script[t].then = "ok") /\ (~up => t = StartScript)
<1>1. script[t].pc \in Forth \cup Back /\ Works(t)
  BY DEF NetInv, NetTypeOK, Rests, Forth, Back
<1> QED
  BY <1>1 DEF Works, Fits

LEMMA BeginKeeps ==
  ASSUME NetAssumption, NetInv, UNCHANGED <<netFaults, nft, ports>>,
         NEW s \in Scripts, (s = StartScript /\ Start(s)) \/ Stop(s)
  PROVE  NetInv'
<1>0. NetTypeOK /\ NetSound /\ Rests(s) /\ UNCHANGED net /\ bridge \in {"absent", "down", "up"}
  BY DEF NetInv, NetTypeOK, Start, Stop
<1>1. ASSUME \A t \in Scripts \ {s} : Rests(t), NEW pc, NEW then, Went(s, pc, then, 1),
             Works(s)', ~Rests(s)'
      PROVE  NetInv'
  <2>1. NetTypeOK' /\ NetSound'
    BY <1>0, <1>1 DEF NetTypeOK, NetSound, RulesOnce, NoRules, net, Went, Script, Pcs
  <2>2. UpIsComplete'
    BY <1>1 DEF UpIsComplete
  <2> QED
    BY <1>1, <2>1, <2>2, AloneKeeps
<1>2. CASE s = StartScript /\ Start(s)
  <2>1. CASE up
    <3>1. Went(s, "ok", script[s].then, 1)
      BY <1>0, <1>2, <2>1, GotoWent DEF Start, Pcs
    <3> QED
      BY <1>0, <3>1, RestsOn
  <2>2. CASE ~up
    <3>1. \A t \in Scripts \ {s} : Rests(t)
      BY <1>2, <2>2, OthersAre
    <3>2. CASE bridge # "absent"
      <4>1. Went(s, "ifdown", "link", 1)
        BY <1>0, <1>2, <2>2, <3>2, UndoWent DEF Start
      <4>2. Works(s)' /\ ~Rests(s)'
        BY <1>0, <1>2, <2>2, <3>2, <4>1
           DEF Works, Fits, Going, Undoing, Went, Forth, Back, net, Rests
      <4> QED
        BY <1>1, <3>1, <4>1, <4>2
    <3>3. CASE bridge = "absent"
      <4>1. Went(s, "link", "link", 1)
        BY <1>0, <1>2, <2>2, <3>3, SetWent DEF Start
      <4>2. Works(s)' /\ ~Rests(s)'
        BY <1>0, <1>2, <2>2, <3>3, <4>1
           DEF Works, Fits, Going, Undoing, Went, Forth, Back, net, Rests, NetSound, NoRules
      <4> QED
        BY <1>1, <3>1, <4>1, <4>2
    <3> QED
      BY <3>2, <3>3
  <2> QED
    BY <2>1, <2>2
<1>3. CASE Stop(s)
  <2>1. CASE ~up
    <3>1. Went(s, "error", script[s].then, 1)
      BY <1>0, <1>3, <2>1, GotoWent DEF Stop, Pcs
    <3> QED
      BY <1>0, <3>1, RestsOn
  <2>2. CASE up
    <3>1. \A t \in Scripts \ {s} : Rests(t)
      BY <1>3, <2>2, OthersAre DEF Stop, Stopping
    <3>2. Went(s, IF bridge # "absent" THEN "ifdown" ELSE "rm", "ok", 1)
      BY <1>0, <1>3, <2>2, UndoWent DEF Stop
    <3>3. Works(s)' /\ ~Rests(s)'
      <4>1. CASE bridge = "absent"
        BY <1>0, <2>2, <3>2, <4>1
           DEF Works, Fits, Going, Undoing, Went, Forth, Back, net, Rests, NetSound, NoRules
      <4>2. CASE bridge # "absent"
        BY <1>0, <2>2, <3>2, <4>2
           DEF Works, Fits, Going, Undoing, Went, Forth, Back, net, Rests
      <4> QED
        BY <4>1, <4>2
    <3> QED
      BY <1>1, <3>1, <3>2, <3>3
  <2> QED
    BY <2>1, <2>2
<1> QED
  BY <1>2, <1>3

LEMMA NetInvHolds == ASSUME NetAssumption PROVE NetSpec => []NetInv
<1>1. NetInit => NetInv
  <2> SUFFICES ASSUME NetInit PROVE NetInv
    OBVIOUS
  <2>1. Len(Rules) \in Nat \ {0} /\ MaxCopies \in Nat \ {0}
    BY DEF NetAssumption
  <2>2. NetTypeOK
    <3>1. [pc |-> "idle", then |-> "ok", rule |-> 1] \in Script
      BY <2>1 DEF Script, Pcs
    <3>2. script \in [Scripts -> Script]
      BY <3>1 DEF NetInit
    <3>3. rules \in [Rule -> 0..MaxCopies]
      BY <2>1 DEF NetInit
    <3> QED
      BY <3>2, <3>3 DEF NetInit, NetTypeOK, Script, Pcs
  <2>3. \A s \in Scripts : Rests(s)
    BY DEF NetInit, Rests
  <2>4. NetSound /\ UpIsComplete
    BY DEF NetInit, NetSound, RulesOnce, NoRules, UpIsComplete
  <2> QED
    BY <2>2, <2>3, <2>4, RestWorks DEF NetInv, Exclusive
<1>2. NetInv /\ [NetNext]_netVars => NetInv'
  <2> SUFFICES ASSUME NetInv, [NetNext]_netVars PROVE NetInv'
    OBVIOUS
  <2>1. ASSUME UNCHANGED <<netFaults, nft, net, script>>, ports' \in BOOLEAN PROVE NetInv'
    <3>1. \A s \in Scripts : Rests(s)' <=> Rests(s)
      BY <2>1 DEF Rests
    <3>2. ASSUME NEW s \in Scripts PROVE Works(s)'
      <4>1. Works(s)
        BY DEF NetInv
      <4> QED
        BY <2>1, <4>1 DEF Works, Fits, Going, Undoing, NoRules, AllRules, net
    <3>3. NetTypeOK' /\ NetSound'
      BY <2>1 DEF NetInv, NetTypeOK, NetSound, RulesOnce, NoRules, net
    <3>4. Exclusive' /\ UpIsComplete'
      BY <2>1, <3>1 DEF NetInv, Exclusive, UpIsComplete, net
    <3> QED
      BY <3>2, <3>3, <3>4 DEF NetInv
  <2>2. CASE Start(StartScript) /\ UNCHANGED <<netFaults, nft, ports>>
    BY <2>2, BeginKeeps DEF Scripts
  <2>3. ASSUME NEW s \in Scripts, Stop(s), UNCHANGED <<netFaults, nft, ports>> PROVE NetInv'
    BY <2>3, BeginKeeps
  <2>4. ASSUME NEW s \in Scripts, UNCHANGED <<netFaults, nft, ports>>,
               Link(s) \/ IfUp(s) \/ AddRule(s) \/ Dnsmasq(s) \/ Touch(s) PROVE NetInv'
    BY <2>4, ForthKeeps
  <2>5. ASSUME NEW s \in Scripts, UNCHANGED <<netFaults, nft, ports>>, Fails(s) PROVE NetInv'
    BY <2>5, FailsKeeps
  <2>6. ASSUME NEW s \in Scripts, UNCHANGED <<netFaults, nft, ports>>,
               IfDown(s) \/ DeleteRule(s) \/ KillDnsmasq(s) \/ Unlink(s) \/ RemoveUp(s) PROVE NetInv'
    BY <2>6, BackKeeps
  <2>7. ASSUME NEW s \in Scripts, UNCHANGED <<netFaults, nft, ports>>, Killed(s) PROVE NetInv'
    BY <2>7, KilledKeeps
  <2>8. CASE (Attach \/ Detach) /\ UNCHANGED <<net, script, netFaults, nft>>
    BY <2>1, <2>8 DEF Attach, Detach
  <2>9. CASE UNCHANGED netVars
    BY <2>1, <2>9 DEF netVars, net, NetInv, NetTypeOK
  <2> QED
    BY <2>2, <2>3, <2>4, <2>5, <2>6, <2>7, <2>8, <2>9 DEF NetNext
<1> QED
  BY <1>1, <1>2, PTL DEF NetSpec

\* No counter of rules overflows and no script runs past its last rule, whatever fails
\* or is killed.
THEOREM NetTyping == ASSUME NetAssumption PROVE NetSpec => []NetTypeOK
<1>1. NetInv => NetTypeOK
  BY DEF NetInv
<1> QED
  BY <1>1, NetInvHolds, PTL

\* network_up means what it says while no script works, for any rules, unless scripts
\* are killed (data/scripts/waydroid-net.sh).
THEOREM UpSafety == ASSUME NetAssumption PROVE NetSpec => []UpIsComplete
<1>1. NetInv => UpIsComplete
  BY DEF NetInv
<1> QED
  BY <1>1, NetInvHolds, PTL

\* No rule is ever there twice, also when scripts are killed half way.
THEOREM RulesSafety == ASSUME NetAssumption PROVE NetSpec => []RulesOnce
<1>1. NetInv => RulesOnce
  BY DEF NetInv, NetSound
<1> QED
  BY <1>1, NetInvHolds, PTL

\* A start that fails leaves nothing behind but a bridge that is down.
THEOREM FailedStartSafety == ASSUME NetAssumption PROVE NetSpec => FailedStartLeavesNothing
<1> DEFINE Leaves == \A s \in Scripts :
                       (~Rests(s) /\ script'[s].pc = "error")
                         => /\ ~up' /\ ~dnsmasq'
                            /\ \A r \in Rule : rules'[r] = 0
                            /\ bridge' # "up"
<1>1. NetInv /\ [NetNext]_netVars => [Leaves]_netVars
  <2> SUFFICES ASSUME NetInv, NetNext, NEW s \in Scripts, ~Rests(s), script'[s].pc = "error"
               PROVE  ~up' /\ ~dnsmasq' /\ (\A r \in Rule : rules'[r] = 0) /\ bridge' # "up"
    OBVIOUS
  <2>0. NetTypeOK /\ script[s] \in Script /\ Works(s)
    BY DEF NetInv, NetTypeOK, Script, Pcs
  <2>1. \A t \in Scripts \ {s} : Rests(t)
    BY DEF NetInv, Exclusive
  <2>2. script'[s] # script[s]
    BY DEF Rests
  <2>3. PICK t \in Scripts : \/ Start(t) \/ Stop(t) \/ Link(t) \/ IfUp(t) \/ AddRule(t)
                             \/ Dnsmasq(t) \/ Touch(t) \/ Fails(t) \/ IfDown(t) \/ DeleteRule(t)
                             \/ KillDnsmasq(t) \/ Unlink(t) \/ RemoveUp(t) \/ Killed(t)
    BY <2>2 DEF NetNext, Scripts
  <2>4. t = s
    <3> SUFFICES ASSUME t # s PROVE FALSE
      OBVIOUS
    <3>1. Start(t) \/ Stop(t)
      BY <2>1, <2>3
         DEF Rests, Link, IfUp, AddRule, Dnsmasq, Touch, Fails, IfDown, DeleteRule,
                        KillDnsmasq, Unlink, RemoveUp, Killed, At
    <3>2. script \in [Scripts -> Script]
      BY <2>0 DEF NetTypeOK, Script, Pcs
    <3>3. script'[s] = script[s]
      BY <3>1, <3>2 DEF Start, Stop, Goto, Undo, Set
    <3> QED
      BY <2>2, <3>3
  <2>5. RemoveUp(s)
    <3>1. script \in [Scripts -> Script]
      BY <2>0 DEF NetTypeOK, Script, Pcs
    <3>2. ~(Start(s) \/ Stop(s))
      BY DEF Start, Stop
    <3>3. ASSUME NEW pc \in Pcs \ {"error"}, Goto(s, pc) PROVE FALSE
      BY <2>0, <3>3, GotoWent DEF Went
    <3>4. ~(Link(s) \/ IfUp(s) \/ Dnsmasq(s) \/ Touch(s) \/ IfDown(s) \/ KillDnsmasq(s)
              \/ Unlink(s) \/ Killed(s))
      BY <3>3 DEF Link, IfUp, Dnsmasq, Touch, IfDown, KillDnsmasq, Unlink, Killed, Pcs
    <3>5. ~Fails(s)
      <4>1. ASSUME Undo(s, "error") PROVE FALSE
        BY <2>0, <4>1, UndoWent DEF Went
      <4> QED
        BY <4>1 DEF Fails, Cleanup
    <3>6. ~(AddRule(s) \/ DeleteRule(s))
      <4>1. ASSUME At(s, "rules") \/ At(s, "unrule") PROVE script[s].rule \in Rule
        BY <2>0, <4>1 DEF At, Works, Going, Undoing, Back
      <4>2. ASSUME script' = [script EXCEPT ![s].rule = @ + 1],
                   At(s, "rules") \/ At(s, "unrule") PROVE FALSE
        BY <2>0, <4>1, <4>2, RuleWent DEF Went, Rests
      <4> QED
        BY <3>3, <4>2 DEF AddRule, DeleteRule, Pcs
    <3> QED
      BY <2>3, <2>4, <3>2, <3>4, <3>5, <3>6
  <2> QED
    BY <2>0, <2>5 DEF RemoveUp, At, Works, Undoing, Back, NoRules
<1>2. NetSpec => [][Leaves]_netVars
  BY <1>1, NetInvHolds, PTL DEF NetSpec
<1>3. NetSpec => [][\A s \in Scripts :
                       (~Rests(s) /\ script'[s].pc = "error")
                         => /\ ~up' /\ ~dnsmasq'
                            /\ \A r \in Rule : rules'[r] = 0
                            /\ bridge' # "up"]_netVars
  BY <1>2
<1> QED
  BY <1>3 DEF FailedStartLeavesNothing

-----------------------------------------------------------------------------
(* foreground_pipe. *)

Kills(p) == \E i \in DOMAIN runner.victims : runner.victims[i] = p

\* Who was found below the command when ps was asked.
Reached(p) == p \in runner.listed /\ (p = "cmd" \/ {"cmd", Parent[p]} \subseteq runner.listed)

RunInv ==
  /\ RunTypeOK
  /\ alive \subseteq forked
  /\ Is("idle") => forked = {} /\ code = "none"
  /\ ~Is("idle") => "cmd" \in forked /\ (code = "none" <=> "cmd" \in alive)
  /\ Is("last") \/ Returned => code # "none"
  /\ Returned => unread = 0 /\ (mode.check => (Is("ok") <=> code = "zero"))
  /\ Is("kill") => /\ runner.listed \subseteq forked
                   /\ "perm" \notin runFaults => \A p \in alive : Reached(p) => Kills(p)

RunnerRec == [pc : {"idle", "poll", "select", "read", "ps", "kill", "last", "ok", "error"},
              listed : SUBSET Tree, victims : Seq(Tree)]

\* The command and its processes: a return code is there when the command has ended.
LEMMA CommandKeeps ==
  ASSUME RunAssumption, RunInv, UNCHANGED <<runner, runFaults, mode>>,
         \/ \E p \in Tree : Fork(p) \/ End(p)
         \/ WriteLine \/ CloseOutput
  PROVE  RunInv'
<1>1. ASSUME NEW p \in Tree, Fork(p) PROVE RunInv'
  <2>1. p # "cmd" /\ (p \notin runner.listed \/ ~Is("kill"))
    BY <1>1 DEF Fork, RunInv, Parent
  <2>2. p # "cmd" /\ ~Is("idle")
    BY <1>1 DEF Fork, RunInv, Parent
  <2> QED
    BY <1>1, <2>1, <2>2 DEF RunInv, RunTypeOK, Fork, Is, Returned, Reached, Kills, Tree
<1>2. ASSUME NEW p \in Tree, End(p) PROVE RunInv'
  <2>1. RunTypeOK' /\ alive' = alive \ {p} /\ forked' = forked /\ unread' = unread
    BY <1>2 DEF RunInv, RunTypeOK, End
  <2>2. p = "cmd" => code' # "none" /\ ~(Is("idle") \/ Is("last") \/ Returned)
    BY <1>2 DEF RunInv, End, Is, Returned
  <2>3. p # "cmd" => code' = code
    BY <1>2 DEF End
  <2> QED
    BY <2>1, <2>2, <2>3 DEF RunInv, Is, Returned, Reached, Kills
<1>3. CASE WriteLine
  <2>1. ~(Is("idle") \/ Is("last") \/ Returned)
    BY <1>3 DEF RunInv, WriteLine, Is, Returned
  <2>2. RunTypeOK'
    <3>1. lines \in Nat /\ unread \in 0..lines /\ lines < MaxLines /\ MaxLines \in Nat
      BY <1>3 DEF RunAssumption, RunInv, RunTypeOK, WriteLine
    <3>2. lines + 1 \in 0..MaxLines /\ unread + 1 \in 0..(lines + 1)
      BY <3>1
    <3> QED
      BY <1>3, <3>2 DEF RunInv, RunTypeOK, WriteLine
  <2> QED
    BY <1>3, <2>1, <2>2 DEF RunInv, WriteLine, Is, Returned, Reached, Kills
<1>4. CASE CloseOutput
  BY <1>4 DEF RunInv, RunTypeOK, CloseOutput, Is, Returned, Reached, Kills
<1> QED
  BY <1>1, <1>2, <1>3, <1>4

LEMMA FoundReached ==
  ASSUME RunTypeOK
  PROVE  /\ Found \in Seq(Tree)
         /\ \A p \in alive : (p = "cmd" \/ {"cmd", Parent[p]} \subseteq alive)
                               => \E i \in DOMAIN Found : Found[i] = p
<1> DEFINE A == IF {"cmd", "child"} \subseteq alive THEN <<"child">> ELSE <<>>
           B == IF Tree \subseteq alive THEN <<"grandchild">> ELSE <<>>
           C == <<"cmd">> \o A
<1>1. /\ A \in Seq(Tree) /\ ({"cmd", "child"} \subseteq alive => Len(A) = 1 /\ A[1] = "child")
      /\ B \in Seq(Tree) /\ (Tree \subseteq alive => Len(B) = 1 /\ B[1] = "grandchild")
      /\ <<"cmd">> \in Seq(Tree) /\ Len(<<"cmd">>) = 1 /\ <<"cmd">>[1] = "cmd"
  <2>1. /\ <<>> \in Seq(Tree) /\ <<"cmd">> \in Seq(Tree) /\ <<"child">> \in Seq(Tree)
        /\ <<"grandchild">> \in Seq(Tree)
    BY DEF Tree
  <2> QED
    BY <2>1
<1>2. Found = C \o B
  BY DEF Found
<1> HIDE DEF A, B
<1>3. /\ C \in Seq(Tree) /\ Len(C) = 1 + Len(A)
      /\ \A i \in 1..(1 + Len(A)) : C[i] = IF i <= 1 THEN <<"cmd">>[i] ELSE A[i - 1]
  BY <1>1, ConcatProperties
<1> HIDE DEF C
<1>4. /\ C \o B \in Seq(Tree) /\ Len(C \o B) = Len(C) + Len(B)
      /\ \A i \in 1..(Len(C) + Len(B)) :
           (C \o B)[i] = IF i <= Len(C) THEN C[i] ELSE B[i - Len(C)]
  BY <1>1, <1>3, ConcatProperties
<1>5. /\ Found \in Seq(Tree) /\ Len(Found) = 1 + Len(A) + Len(B)
      /\ \A i \in 1..(1 + Len(A) + Len(B)) :
           Found[i] = IF i <= 1 + Len(A) THEN C[i] ELSE B[i - (1 + Len(A))]
      /\ Len(A) \in Nat /\ Len(B) \in Nat
  BY <1>1, <1>2, <1>3, <1>4
<1>6. 1 \in DOMAIN Found /\ Found[1] = "cmd"
  BY <1>1, <1>3, <1>5
<1>7. {"cmd", "child"} \subseteq alive => 2 \in DOMAIN Found /\ Found[2] = "child"
  BY <1>1, <1>3, <1>5
<1>8. Tree \subseteq alive => 3 \in DOMAIN Found /\ Found[3] = "grandchild"
  <2> SUFFICES ASSUME Tree \subseteq alive PROVE 3 \in DOMAIN Found /\ Found[3] = "grandchild"
    OBVIOUS
  <2>1. {"cmd", "child"} \subseteq alive
    BY DEF Tree
  <2> QED
    BY <1>1, <1>5, <2>1
<1>9. ASSUME NEW p \in alive, p = "cmd" \/ {"cmd", Parent[p]} \subseteq alive
      PROVE  p = "cmd" \/ (p = "child" /\ {"cmd", "child"} \subseteq alive)
                \/ (p = "grandchild" /\ Tree \subseteq alive)
  BY <1>9 DEF RunTypeOK, Tree, Parent
<1> QED
  BY <1>5, <1>6, <1>7, <1>8, <1>9

LEMMA RunnerKeeps ==
  ASSUME RunInv, UNCHANGED <<runFaults, mode>>, Popen \/ RunnerStep
  PROVE  RunInv'
<1>0. RunTypeOK /\ runner \in RunnerRec /\ Tree = {"cmd", "child", "grandchild"}
  BY DEF RunInv, RunTypeOK, RunnerRec, Tree
<1>1. ASSUME NEW pc \in {"poll", "select", "read", "ps", "last", "ok", "error"}, Enter(pc)
      PROVE  runner' \in RunnerRec /\ runner'.pc = pc
  BY <1>0, <1>1 DEF Enter, RunnerRec
<1>2. CASE Popen
  BY <1>0, <1>1, <1>2 DEF Popen, RunInv, RunTypeOK, RunnerRec, Is, Returned
<1>3. CASE Poll
  BY <1>0, <1>1, <1>3 DEF Poll, command, RunInv, RunTypeOK, RunnerRec, Is, Returned
<1>4. CASE Select
  BY <1>0, <1>1, <1>4 DEF Select, command, RunInv, RunTypeOK, RunnerRec, Is, Returned
<1>5. CASE Timeout
  BY <1>0, <1>1, <1>5 DEF Timeout, command, RunInv, RunTypeOK, RunnerRec, Is, Returned
<1>6. CASE PipeRead
  BY <1>0, <1>1, <1>6 DEF PipeRead, RunInv, RunTypeOK, RunnerRec, Is, Returned
<1>7. CASE ListTree
  <2>1. runner' \in RunnerRec /\ runner'.pc = "kill" /\ runner'.listed = alive
        /\ runner'.victims = Found
    BY <1>0, <1>7, FoundReached DEF ListTree, RunnerRec, RunTypeOK
  <2>2. \A p \in alive' : Reached(p)' => Kills(p)'
    BY <1>0, <1>7, <2>1, FoundReached DEF ListTree, command, Reached, Kills
  <2> QED
    BY <1>0, <1>7, <2>1, <2>2
       DEF ListTree, command, RunInv, RunTypeOK, RunnerRec, Is, Returned
<1>8. CASE KillTree
  <2> DEFINE v == runner.victims
             p == Head(v)
  <2>1. v \in Seq(Tree) /\ v # <<>> /\ p \in Tree /\ Tail(v) \in Seq(Tree) /\ p = v[1]
    BY <1>0, <1>8 DEF KillTree, KillOne, RunnerRec
  <2>2. runner' \in RunnerRec /\ runner'.pc = "kill" /\ runner'.listed = runner.listed
        /\ runner'.victims = Tail(v)
    BY <1>0, <1>8, <2>1 DEF KillTree, KillOne, RunnerRec, Is
  <2>3. ASSUME NEW q, Kills(q), q # p PROVE Kills(q)'
    <3>1. PICK i \in DOMAIN v : v[i] = q
      BY <2>3 DEF Kills
    <3>2. i - 1 \in DOMAIN Tail(v) /\ Tail(v)[i - 1] = q
      BY <2>1, <2>3, <3>1
    <3> QED
      BY <2>2, <3>2 DEF Kills
  <2>4. /\ alive' \subseteq alive /\ ("perm" \notin runFaults => p \notin alive')
        /\ code' \in {"none", "zero", "one", "killed"}
        /\ "cmd" \in forked => (code' = "none" <=> "cmd" \in alive')
    BY <1>0, <1>8 DEF KillTree, KillOne, RunInv, RunTypeOK, Is
  <2>5. "perm" \notin runFaults => \A q \in alive' : Reached(q)' => Kills(q)'
    BY <1>8, <2>2, <2>3, <2>4 DEF RunInv, Reached, KillTree, KillOne, Is
  <2> HIDE DEF p
  <2> QED
    BY <1>0, <1>8, <2>2, <2>4, <2>5
       DEF KillTree, KillOne, RunInv, RunTypeOK, RunnerRec, Is, Returned
<1>9. CASE KillDone
  BY <1>0, <1>1, <1>9 DEF KillDone, command, RunInv, RunTypeOK, RunnerRec, Is, Returned
<1>10. CASE Finish
  BY <1>0, <1>1, <1>10 DEF Finish, LastRead, RunInv, RunTypeOK, RunnerRec, Is, Returned
<1> QED
  BY <1>2, <1>3, <1>4, <1>5, <1>6, <1>7, <1>8, <1>9, <1>10 DEF RunnerStep

LEMMA RunInvHolds == ASSUME RunAssumption PROVE RunSpec => []RunInv
<1>1. RunInit => RunInv
  <2> SUFFICES ASSUME RunInit PROVE RunInv
    OBVIOUS
  <2>1. runner \in RunnerRec
    <3>1. <<>> \in Seq(Tree) /\ {} \in SUBSET Tree
      OBVIOUS
    <3> QED
      BY <3>1 DEF RunInit, RunnerRec
  <2>2. RunTypeOK
    <3>1. 0 \in 0..MaxLines /\ 0 \in 0..0
      BY DEF RunAssumption
    <3>2. lines \in 0..MaxLines /\ unread \in 0..lines
      BY <3>1 DEF RunInit
    <3> QED
      BY <2>1, <3>2 DEF RunInit, RunTypeOK, RunnerRec
  <2> QED
    BY <2>2 DEF RunInit, RunInv, Is, Returned
<1>2. RunInv /\ [RunNext]_runVars => RunInv'
  <2> SUFFICES ASSUME RunInv, [RunNext]_runVars PROVE RunInv'
    OBVIOUS
  <2>1. CASE RunNext
    BY <2>1, CommandKeeps, RunnerKeeps DEF RunNext
  <2>2. CASE UNCHANGED runVars
    BY <2>2 DEF runVars, RunInv, RunTypeOK, Is, Returned, Reached, Kills
  <2> QED
    BY <2>1, <2>2
<1> QED
  BY <1>1, <1>2, PTL DEF RunSpec

\* There is never more output to read than was written, and none but processes of the
\* command are killed.
THEOREM RunTyping == ASSUME RunAssumption PROVE RunSpec => []RunTypeOK
<1>1. RunInv => RunTypeOK
  BY DEF RunInv
<1> QED
  BY <1>1, RunInvHolds, PTL

\* foreground_pipe (tools/helpers/run_core.py) returns when the command has ended, with
\* all that it wrote, and with an error when its return code says one.
THEOREM ReturnSafety == ASSUME RunAssumption PROVE RunSpec => []ReturnsTheWhole
<1>1. RunInv => ReturnsTheWhole
  BY DEF RunInv, ReturnsTheWhole, Returned, Is
<1> QED
  BY <1>1, RunInvHolds, PTL

\* kill_command leaves nothing alive that ps had shown below the command.
THEOREM KillSafety == ASSUME RunAssumption PROVE RunSpec => KilledWithChildren
<1> DEFINE Gone ==
      (Is("kill") /\ runner'.pc = "poll" /\ "perm" \notin runFaults)
         => \A p \in alive' : \/ p \notin runner.listed
                              \/ p \in DOMAIN Parent /\ ~({"cmd", Parent[p]} \subseteq runner.listed)
<1>1. RunInv /\ [RunNext]_runVars => [Gone]_runVars
  <2> SUFFICES ASSUME RunInv, RunNext, Is("kill"), runner'.pc = "poll", "perm" \notin runFaults,
                      NEW p \in alive', p \in runner.listed
               PROVE  p \in DOMAIN Parent /\ ~({"cmd", Parent[p]} \subseteq runner.listed)
    OBVIOUS
  <2>0. runner \in RunnerRec
    BY DEF RunInv, RunTypeOK, RunnerRec
  <2>1. KillDone
    BY <2>0
       DEF RunNext, RunnerStep, Popen, Poll, Select, Timeout, PipeRead, ListTree,
           KillTree,
                KillOne, Finish, Is, RunnerRec
  <2>2. ~Kills(p) /\ p \in alive /\ p \in Tree
    BY <2>1 DEF KillDone, Kills, command, RunInv, RunTypeOK
  <2>3. ~Reached(p)
    BY <2>2 DEF RunInv
  <2> QED
    BY <2>2, <2>3 DEF Reached, Parent, Tree
<1>2. RunSpec => [][Gone]_runVars
  BY <1>1, RunInvHolds, PTL DEF RunSpec
<1>3. RunSpec =>
        [][(Is("kill") /\ runner'.pc = "poll" /\ "perm" \notin runFaults)
             => \A p \in alive' : \/ p \notin runner.listed
                                  \/ p \in DOMAIN Parent /\ ~({"cmd", Parent[p]} \subseteq runner.listed)
          ]_runVars
  BY <1>2
<1> QED
  BY <1>3 DEF KilledWithChildren

-----------------------------------------------------------------------------
(* The root file system. *)

\* Whatever is mounted lies on rootfs.
OnRootfs == mounts # <<>> => mounts[1].at = "rootfs"

\* Only the service mounts, and only unmounting is done by two at once.
Apart ==
  /\ \A p \in Callers : caller[p].op = "mount" \/ caller[p].pc = "mount" => p = Service
  /\ caller[Service].pc = "mount" => caller[Service].op = "mount"
  /\ \A p, q \in Callers : p # q /\ ~Ready(p) /\ ~Ready(q) =>
       "beside" \in mountFaults /\ caller[p].op = "umount" /\ caller[q].op = "umount"

\* Who unmounts has read of every mount that is there, and of no other unless
\* somebody else unmounts too.
Unmounts(p) ==
  caller[p].pc = "umount" =>
    /\ \A i \in DOMAIN mounts : mounts[i].at \in caller[p].all
    /\ "beside" \notin mountFaults =>
         \A pt \in Points : caller[p].left[pt] = Times(pt, mounts)
    /\ caller[p].step = 1 /\ caller[p].overlays = overlays

\* The mounts of Program that come before a step.
Before(step) == {Program[k] : k \in {k \in 1..(step - 1) : Wants(overlays, Program[k])}}

Mounts ==
  caller[Service].pc = "mount" =>
    /\ caller[Service].overlays = overlays
    /\ ToSet(mounts) = Before(caller[Service].step)
    /\ \A i, j \in DOMAIN mounts : i < j =>
         \E k, l \in 1..(caller[Service].step - 1) :
           k < l /\ mounts[i] = Program[k] /\ mounts[j] = Program[l]

MountInv == /\ MountTypeOK
            /\ OnRootfs
            /\ Apart
            /\ \A p \in Callers : Unmounts(p)
            /\ Mounts
            /\ LeftoversAreUndone

LEMMA PointsAre == Points = {"prop", "egl64", "egl", "vendor", "odm", "rootfs"}
BY DEF Points, Order, ToSet

LEMMA BelowRootfs == \A pt \in Points : pt # "rootfs" => Below(pt, "rootfs")
BY PointsAre DEF Below

\* The list is sorted: what lies below the next mount point has been unmounted.
LEMMA FirstIsInnermost ==
  ASSUME NEW left \in [Points -> Nat], left # NoneLeft
  PROVE  /\ First(left) \in Points /\ left[First(left)] > 0
         /\ \A pt \in Points : Below(pt, First(left)) => left[pt] = 0
<1> DEFINE Foremost(i) == left[Order[i]] > 0 /\ \A j \in 1..(i - 1) : left[Order[j]] = 0
<1>1. DOMAIN Order = 1..6 /\ \A i \in 1..6 : Order[i] \in Points
  BY PointsAre DEF Order
<1>2. /\ Order[1] = "prop" /\ Order[2] = "egl64" /\ Order[3] = "egl" /\ Order[4] = "vendor"
      /\ Order[5] = "odm" /\ Order[6] = "rootfs"
  BY DEF Order
<1>3. PICK pt \in Points : left[pt] > 0
  BY DEF NoneLeft
<1>4. \E i \in 1..6 : Foremost(i)
  <2>1. \A i \in 1..6 : left[Order[i]] \in Nat
    BY <1>1
  <2>2. \E i \in 1..6 : left[Order[i]] > 0
    BY <1>2, <1>3, PointsAre
  <2> QED
    BY <2>1, <2>2
<1> DEFINE n == CHOOSE i \in 1..6 : Foremost(i)
<1>5. n \in 1..6 /\ Foremost(n)
  BY <1>4
<1>6. First(left) = Order[n]
  BY <1>1 DEF First
<1> HIDE DEF n
<1>7. \A pq \in Points : Below(pq, Order[n]) => \E j \in 1..(n - 1) : pq = Order[j]
  <2> SUFFICES ASSUME NEW pq \in Points, Below(pq, Order[n])
               PROVE  \E j \in 1..(n - 1) : pq = Order[j]
    OBVIOUS
  <2>1. CASE Order[n] = "rootfs"
    BY <1>2, <1>5, <2>1, PointsAre DEF Below
  <2>2. CASE Order[n] = "vendor"
    BY <1>2, <1>5, <2>2 DEF Below
  <2> QED
    BY <2>1, <2>2 DEF Below
<1> QED
  BY <1>1, <1>5, <1>6, <1>7

\* A mount point that is mounted has one mount on top.
LEMMA TopIsThere ==
  ASSUME mounts \in Seq(Mount), NEW pt, IsMount(pt)
  PROVE  \E i \in DOMAIN mounts : i \in Top(pt)
<1> DEFINE at   == {i \in DOMAIN mounts : mounts[i].at = pt}
           away == {Len(mounts) - i : i \in at}
<1>1. DOMAIN mounts = 1..Len(mounts) /\ Len(mounts) \in Nat
  OBVIOUS
<1>2. away \subseteq Nat /\ away # {}
  BY <1>1 DEF IsMount
<1>3. PICK x \in away : \A y \in away : ~(<<y, x>> \in OpToRel(<, Nat))
  BY <1>2, NatLessThanWellFounded, WFMin
<1>4. \A y \in away : ~(y < x)
  BY <1>2, <1>3 DEF OpToRel
<1>5. PICK i \in at : x = Len(mounts) - i
  BY <1>3
<1>6. ASSUME NEW j \in at PROVE j <= i
  <2>1. j \in 1..Len(mounts) /\ i \in 1..Len(mounts) /\ Len(mounts) - j \in away
    BY <1>1
  <2>2. ~(Len(mounts) - j < x)
    BY <1>4, <2>1
  <2> HIDE DEF away, at
  <2> QED
    BY <1>1, <1>5, <2>1, <2>2
<1> QED
  BY <1>5, <1>6 DEF Top

\* What is left of a sequence without one of its elements.
LEMMA RemovedOne ==
  ASSUME NEW S, NEW s \in Seq(S), NEW i \in 1..Len(s)
  PROVE  /\ RemoveAt(s, i) \in Seq(S)
         /\ Len(RemoveAt(s, i)) = Len(s) - 1
         /\ \A j \in 1..(Len(s) - 1) : RemoveAt(s, i)[j] = IF j < i THEN s[j] ELSE s[j + 1]
<1> DEFINE a == SubSeq(s, 1, i - 1)
           b == SubSeq(s, i + 1, Len(s))
<1>0. Len(s) \in Nat /\ \A j \in 1..Len(s) : s[j] \in S
  BY LenProperties, ElementOfSeq
<1>1. /\ a \in Seq(S) /\ Len(a) = i - 1
      /\ \A j \in 1..(i - 1) : a[j] = s[j]
  BY <1>0, SubSeqProperties
<1>2. /\ b \in Seq(S) /\ Len(b) = Len(s) - i
      /\ \A j \in 1..(Len(s) - i) : b[j] = s[j + i]
  <2>1. /\ \A j \in (i + 1)..Len(s) : s[j] \in S
        /\ i + 1 \in Int /\ Len(s) \in Int
    BY <1>0
  <2>2. /\ b \in Seq(S) /\ Len(b) = IF i + 1 <= Len(s) THEN Len(s) - (i + 1) + 1 ELSE 0
        /\ \A j \in 1..(Len(s) - (i + 1) + 1) : b[j] = s[i + 1 + j - 1]
    BY <2>1, SubSeqProperties
  <2>3. \A j \in 1..(Len(s) - i) : i + 1 + j - 1 = j + i
    BY <1>0
  <2>4. Len(s) - (i + 1) + 1 = Len(s) - i /\ (i + 1 <= Len(s) \/ Len(s) - i = 0)
    BY <1>0
  <2> HIDE DEF b
  <2>5. b \in Seq(S) /\ Len(b) = Len(s) - i
    BY <2>2, <2>4
  <2>6. \A j \in 1..(Len(s) - i) : b[j] = s[j + i]
    BY <2>2, <2>3, <2>4
  <2> QED
    BY <2>5, <2>6
<1>3. RemoveAt(s, i) = a \o b
  BY DEF RemoveAt
<1> HIDE DEF a, b
<1>4. /\ a \o b \in Seq(S) /\ Len(a \o b) = Len(a) + Len(b)
      /\ \A j \in 1..(Len(a) + Len(b)) : (a \o b)[j] = IF j <= Len(a) THEN a[j] ELSE b[j - Len(a)]
  BY <1>1, <1>2, ConcatProperties
<1>5. ASSUME NEW j \in 1..(Len(s) - 1)
      PROVE  RemoveAt(s, i)[j] = IF j < i THEN s[j] ELSE s[j + 1]
  <2>1. CASE j < i
    BY <1>0, <1>1, <1>2, <1>3, <1>4, <2>1
  <2>2. CASE ~(j < i)
    <3>1. j - (i - 1) \in 1..(Len(s) - i) /\ j - (i - 1) + i = j + 1
      BY <1>0, <2>2
    <3>2. (a \o b)[j] = b[j - (i - 1)]
      BY <1>0, <1>1, <1>2, <1>4, <2>2
    <3>3. b[j - (i - 1)] = s[j + 1]
      BY <1>2, <3>1
    <3> QED
      BY <1>3, <2>2, <3>2, <3>3
  <2> QED
    BY <2>1, <2>2
<1> QED
  BY <1>0, <1>1, <1>2, <1>3, <1>4, <1>5

\* A mount point is counted as long as anything is mounted there.
LEMMA TimesCounts ==
  ASSUME NEW s \in Seq(Mount), NEW pt
  PROVE  Times(pt, s) \in Nat /\ (Times(pt, s) = 0 <=> \A i \in DOMAIN s : s[i].at # pt)
<1> DEFINE A == {i \in DOMAIN s : s[i].at = pt}
<1>1. IsFiniteSet(1..Len(s)) /\ A \subseteq 1..Len(s)
  BY FS_Interval
<1>2. IsFiniteSet(A)
  BY <1>1, FS_Subset
<1>3. Cardinality(A) \in Nat /\ (Cardinality(A) = 0 <=> A = {})
  BY <1>2, FS_CardinalityType, FS_EmptySet
<1> QED
  BY <1>3 DEF Times

\* One mount less is one less of its mount point.
LEMMA TimesRemoved ==
  ASSUME NEW s \in Seq(Mount), NEW i \in 1..Len(s), NEW pt
  PROVE  Times(pt, RemoveAt(s, i)) = IF s[i].at = pt THEN Times(pt, s) - 1 ELSE Times(pt, s)
<1> DEFINE t == RemoveAt(s, i)
           A == {j \in DOMAIN s : s[j].at = pt}
           B == {j \in DOMAIN t : t[j].at = pt}
           f == [j \in B |-> IF j < i THEN j ELSE j + 1]
<1>0. /\ t \in Seq(Mount) /\ Len(t) = Len(s) - 1
      /\ \A j \in 1..(Len(s) - 1) : t[j] = IF j < i THEN s[j] ELSE s[j + 1]
  BY RemovedOne
<1> HIDE DEF t
<1>1. /\ Len(s) \in Nat /\ DOMAIN s = 1..Len(s) /\ DOMAIN t = 1..(Len(s) - 1)
      /\ \A j \in 1..(Len(s) - 1) : t[j] = IF j < i THEN s[j] ELSE s[j + 1]
  BY <1>0, LenProperties
<1>2. IsFiniteSet(A)
  <2>1. IsFiniteSet(1..Len(s)) /\ A \in SUBSET (1..Len(s))
    BY <1>1, FS_Interval
  <2> QED
    BY <2>1, FS_Subset
<1>3. IsFiniteSet(A \ {i}) /\ Cardinality(A \ {i}) = IF i \in A THEN Cardinality(A) - 1 ELSE Cardinality(A)
  BY <1>2, FS_RemoveElement
<1>4. f \in [B -> A \ {i}]
  BY <1>1
<1>5. \A j, k \in B : f[j] = f[k] => j = k
  BY <1>1
<1>6. \A k \in A \ {i} : \E j \in B : f[j] = k
  <2> SUFFICES ASSUME NEW k \in A \ {i} PROVE \E j \in B : f[j] = k
    OBVIOUS
  <2>1. CASE k < i
    <3>1. k \in B
      BY <1>1, <2>1
    <3> QED
      BY <2>1, <3>1
  <2>2. CASE k > i
    <3>1. k - 1 \in B /\ ~(k - 1 < i) /\ (k - 1) + 1 = k
      BY <1>1, <2>2
    <3> QED
      BY <3>1
  <2> QED
    BY <1>1, <2>1, <2>2
<1>7. IsFiniteSet(B) /\ Cardinality(B) = Cardinality(A \ {i})
  <2>1. f \in Bijection(B, A \ {i})
    BY <1>4, <1>5, <1>6, Fun_IsBij
  <2>2. ExistsBijection(A \ {i}, B)
    <3>1. ExistsBijection(B, A \ {i})
      BY <2>1 DEF ExistsBijection
    <3> QED
      BY <3>1, Fun_ExistsBijSymmetric
  <2> QED
    BY <1>3, <2>2, FS_Bijection
<1>8. i \in A <=> s[i].at = pt
  BY <1>1
<1> QED
  BY <1>3, <1>7, <1>8 DEF Times, t

\* What a caller does to itself.
Becomes(p, c) == /\ c \in Caller
                 /\ caller' \in [Callers -> Caller]
                 /\ caller'[p] = c
                 /\ \A q \in Callers \ {p} : caller'[q] = caller[q]

LEMMA Became ==
  ASSUME MountTypeOK, NEW p \in Callers, NEW c \in Caller, caller' = [caller EXCEPT ![p] = c]
  PROVE  Becomes(p, c)
BY DEF MountTypeOK, Becomes

LEMMA RestingIsOne ==
  \A pc \in {"idle", "mounted", "unmounted", "failed"} :
    /\ Resting(pc) \in Caller /\ Resting(pc).pc = pc /\ Resting(pc).op = "umount"
BY DEF Resting, Caller, NoneLeft, Program

\* Who rests says nothing.
LEMMA RestKeeps ==
  ASSUME MountInv, NEW p \in Callers, NEW pc \in {"idle", "mounted", "unmounted", "failed"},
         Becomes(p, Resting(pc)), UNCHANGED <<mountFaults, dirs, mounts, overlays>>,
         pc = "mounted" => p = Service,
         pc = "failed" => mountFaults \cap {"fail", "beside"} # {}
  PROVE  MountInv'
<1> USE DEF MountInv
<1>1. caller'[p].pc = pc /\ caller'[p].op = "umount"
  BY RestingIsOne DEF Becomes
<1>2. MountTypeOK' /\ OnRootfs'
  BY DEF MountTypeOK, OnRootfs, Becomes
<1>3. Apart'
  BY <1>1 DEF Apart, Becomes, Ready, Callers
<1>4. \A q \in Callers : Unmounts(q)'
  BY <1>1 DEF Unmounts, Becomes
<1>5. Mounts'
  BY <1>1 DEF Mounts, Becomes, Before, Wants, Callers
<1>6. LeftoversAreUndone'
  BY <1>1 DEF LeftoversAreUndone, Becomes
<1> QED
  BY <1>2, <1>3, <1>4, <1>5, <1>6

LEMMA BeginWorkKeeps ==
  ASSUME MountInv, NEW p \in Callers, NEW op \in {"mount", "umount"},
         BeginWork(p, op), op = "mount" => p = Service, UNCHANGED <<mountFaults, dirs>>
  PROVE  MountInv'
<1> USE DEF MountInv
<1> DEFINE left == IF op = "umount" THEN Listed("rootfs") ELSE Cleared
           c == [pc |-> "umount", op |-> op, left |-> left,
                 all |-> {pt \in Points : left[pt] > 0}, step |-> 1, overlays |-> overlays]
<1>1. mounts \in Seq(Mount) /\ overlays \in BOOLEAN /\ caller \in [Callers -> Caller]
  BY DEF MountTypeOK
<1>2. Listed("rootfs") = [pt \in Points |-> Times(pt, mounts)]
  BY BelowRootfs DEF Listed
<1>3. left = [pt \in Points |-> Times(pt, mounts)]
  <2>1. CASE op = "umount" \/ IsMount("rootfs")
    BY <1>2, <2>1 DEF Cleared
  <2>2. CASE ~IsMount("rootfs") /\ op = "mount"
    <3>1. mounts = <<>>
      BY <1>1, <2>2 DEF OnRootfs, IsMount
    <3>2. \A pt \in Points : Times(pt, mounts) = 0
      <4>1. \A pt : \A i \in DOMAIN mounts : mounts[i].at # pt
        BY <3>1
      <4> QED
        BY <1>1, <4>1, TimesCounts
    <3> QED
      BY <2>2, <3>2 DEF Cleared, NoneLeft
  <2> QED
    BY <2>1, <2>2
<1> HIDE DEF left
<1>4. \A pt \in Points : left[pt] \in Nat /\ left[pt] = Times(pt, mounts)
  BY <1>1, <1>3, TimesCounts
<1>5. \A i \in DOMAIN mounts : mounts[i].at \in {pt \in Points : left[pt] > 0}
  <2> SUFFICES ASSUME NEW i \in DOMAIN mounts PROVE left[mounts[i].at] > 0 /\ mounts[i].at \in Points
    OBVIOUS
  <2>1. mounts[i].at \in Points
    <3>1. mounts[i] \in Mount
      BY <1>1
    <3> QED
      BY <3>1 DEF Mount
  <2>2. Times(mounts[i].at, mounts) # 0 /\ Times(mounts[i].at, mounts) \in Nat
    BY <1>1, TimesCounts
  <2> QED
    BY <1>4, <2>1, <2>2
<1>6. c \in Caller
  BY <1>1, <1>3, <1>4 DEF Caller, Program
<1>7. caller' = [caller EXCEPT ![p] = c] /\ UNCHANGED <<mounts, overlays>>
  BY DEF BeginWork, left
<1>8. Becomes(p, c) /\ c.pc = "umount" /\ c.op = op
  BY <1>6, <1>7, Became
<1>9. c.all = {pt \in Points : left[pt] > 0} /\ c.left = left /\ c.step = 1 /\ c.overlays = overlays
  OBVIOUS
<1> HIDE DEF c
<1>10. MountTypeOK' /\ OnRootfs'
  BY <1>7, <1>8 DEF MountTypeOK, OnRootfs, Becomes
<1>11. Apart'
  <2>1. \A q \in Callers \ {p} : ~Ready(q) =>
          "beside" \in mountFaults /\ op = "umount" /\ caller[q].op = "umount"
    BY DEF BeginWork, Others
  <2>2. \A q \in Callers \ {p} : Ready(q)' => Ready(q)
    BY <1>8 DEF Becomes, Ready
  <2>3. \A q \in Callers \ {p} : caller'[q] = caller[q] /\ (Ready(q)' <=> Ready(q))
    BY <1>8 DEF Becomes, Ready
  <2>4. \A q \in Callers : caller'[q].op = "mount" \/ caller'[q].pc = "mount" => q = Service
    BY <1>8, <2>3 DEF Becomes, Apart
  <2>5. caller'[Service].pc = "mount" => caller'[Service].op = "mount"
    BY <1>8, <2>3 DEF Becomes, Apart, Callers
  <2>6. ASSUME NEW q \in Callers, NEW r \in Callers, q # r, ~Ready(q)', ~Ready(r)'
        PROVE  "beside" \in mountFaults /\ caller'[q].op = "umount" /\ caller'[r].op = "umount"
    <3>1. CASE q = p
      BY <1>8, <2>1, <2>3, <2>6, <3>1 DEF Becomes
    <3>2. CASE r = p
      BY <1>8, <2>1, <2>3, <2>6, <3>2 DEF Becomes
    <3>3. CASE q # p /\ r # p
      BY <2>3, <2>6, <3>3 DEF Apart
    <3> QED
      BY <3>1, <3>2, <3>3
  <2> QED
    BY <2>4, <2>5, <2>6 DEF Apart
<1>12. \A q \in Callers : Unmounts(q)'
  <2>1. Unmounts(p)'
    BY <1>4, <1>5, <1>7, <1>8, <1>9 DEF Unmounts, Becomes
  <2>2. \A q \in Callers \ {p} : Unmounts(q)'
    BY <1>7, <1>8 DEF Unmounts, Becomes
  <2> QED
    BY <2>1, <2>2
<1>13. Mounts'
  BY <1>7, <1>8 DEF Mounts, Becomes, Before, Wants, Callers
<1>14. LeftoversAreUndone'
  BY <1>8 DEF LeftoversAreUndone, Becomes
<1> QED
  BY <1>10, <1>11, <1>12, <1>13, <1>14

LEMMA UmountKeeps ==
  ASSUME MountInv, NEW p \in Callers, Umount(p), UNCHANGED <<mountFaults, dirs>>
  PROVE  MountInv'
<1> USE DEF MountInv
<1> DEFINE left == caller[p].left
           pt   == First(left)
<1>1. mounts \in Seq(Mount) /\ overlays \in BOOLEAN /\ caller \in [Callers -> Caller]
  BY DEF MountTypeOK
<1>2. /\ left \in [Points -> Nat] /\ left # NoneLeft /\ caller[p].pc = "umount" /\ caller[p] \in Caller
      /\ DOMAIN mounts = 1..Len(mounts) /\ Len(mounts) \in Nat
  BY <1>1 DEF Umount, Caller
<1>3. /\ pt \in Points /\ left[pt] > 0
      /\ \A q \in Points : Below(q, pt) => left[q] = 0
  BY <1>2, FirstIsInnermost
<1>4. \A i \in DOMAIN mounts : mounts[i] \in Mount /\ mounts[i].at \in Points
  <2>1. \A i \in DOMAIN mounts : mounts[i] \in Mount
    BY <1>1
  <2> QED
    BY <2>1 DEF Mount
<1>5. Umount(p) => \/ \E i \in Top(pt) : /\ ~Busy(i)
                                        /\ mounts' = RemoveAt(mounts, i)
                                        /\ caller' = [caller EXCEPT ![p].left[pt] = @ - 1]
                                        /\ UNCHANGED overlays
                  \/ /\ "fail" \in mountFaults \/ Top(pt) = {} \/ \E i \in Top(pt) : Busy(i)
                     /\ Fail(p)
  BY DEF Umount
<1> HIDE DEF left, pt
<1>6. ASSUME "fail" \in mountFaults \/ Top(pt) = {} \/ \E i \in Top(pt) : Busy(i), Fail(p)
      PROVE  MountInv'
  <2>1. mountFaults \cap {"fail", "beside"} # {}
    <3> SUFFICES ASSUME mountFaults \cap {"fail", "beside"} = {} PROVE FALSE
      OBVIOUS
    <3>1. \A q \in Points : left[q] = Times(q, mounts)
      BY <1>2 DEF Unmounts, left
    <3>2. \A q \in Points : left[q] = 0 <=> \A i \in DOMAIN mounts : mounts[i].at # q
      BY <1>1, <3>1, TimesCounts
    <3>3. \E i \in DOMAIN mounts : i \in Top(pt)
      BY <1>1, <1>3, <3>2, TopIsThere DEF IsMount
    <3>4. \A i \in Top(pt) : ~Busy(i)
      BY <1>3, <1>4, <3>2 DEF Top, Busy
    <3> QED
      BY <1>6, <3>3, <3>4
  <2>2. Becomes(p, Resting("failed")) /\ UNCHANGED <<mountFaults, dirs, mounts, overlays>>
    BY <1>6, RestingIsOne, Became DEF Fail
  <2> QED
    BY <2>1, <2>2, RestKeeps
<1>7. ASSUME NEW i \in Top(pt), ~Busy(i), mounts' = RemoveAt(mounts, i),
             caller' = [caller EXCEPT ![p].left[pt] = @ - 1], UNCHANGED overlays
      PROVE  MountInv'
  <2> DEFINE rest == [left EXCEPT ![pt] = @ - 1]
             c    == [caller[p] EXCEPT !.left = rest]
  <2>1. i \in 1..Len(mounts) /\ mounts[i].at = pt
    BY <1>2 DEF Top
  <2>2. /\ mounts' \in Seq(Mount) /\ DOMAIN mounts' = 1..(Len(mounts) - 1)
        /\ \A j \in 1..(Len(mounts) - 1) : mounts'[j] = IF j < i THEN mounts[j] ELSE mounts[j + 1]
    BY <1>1, <1>7, <2>1, RemovedOne
  <2>3. \A q : Times(q, mounts') = IF pt = q THEN Times(q, mounts) - 1 ELSE Times(q, mounts)
    BY <1>1, <1>7, <2>1, TimesRemoved
  <2>4. /\ c \in Caller /\ c.pc = "umount" /\ c.op = caller[p].op /\ c.all = caller[p].all
        /\ c.step = caller[p].step /\ c.overlays = caller[p].overlays
        /\ \A q \in Points : c.left[q] = IF q = pt THEN left[q] - 1 ELSE left[q]
    <3>1. /\ rest \in [Points -> Nat]
          /\ \A q \in Points : rest[q] = IF q = pt THEN left[q] - 1 ELSE left[q]
      BY <1>2, <1>3
    <3> HIDE DEF rest
    <3> QED
      BY <1>2, <3>1 DEF Caller
  <2>5. caller' = [caller EXCEPT ![p] = c]
    BY <1>7 DEF left
  <2> HIDE DEF c
  <2>6. Becomes(p, c)
    BY <2>4, <2>5, Became
  <2>7. MountTypeOK'
    BY <1>7, <2>2, <2>6 DEF MountTypeOK, Becomes
  <2>8. OnRootfs'
    <3>1. CASE i = 1
      <4>1. mounts # <<>> /\ mounts[1].at = "rootfs"
        BY <1>1, <1>2, <2>1 DEF OnRootfs
      <4>2. \A j \in DOMAIN mounts : j > 1 => mounts[j].at # "rootfs"
        BY <1>2, <2>1, <3>1, <4>1 DEF Top
      <4>3. \A j \in DOMAIN mounts : j > 1 => FALSE
        BY <1>4, <1>7, <3>1, <4>1, <4>2, BelowRootfs DEF Busy
      <4>4. Len(mounts) = 1
        BY <1>2, <2>1, <4>3
      <4> QED
        BY <2>2, <4>4 DEF OnRootfs
    <3>2. CASE i # 1
      <4>1. mounts' # <<>> => mounts'[1] = mounts[1]
        BY <1>2, <2>1, <2>2, <3>2
      <4>2. mounts # <<>>
        BY <1>2, <2>1
      <4> QED
        BY <4>1, <4>2 DEF OnRootfs
    <3> QED
      BY <3>1, <3>2
  <2>9. Apart'
    BY <1>2, <1>7, <2>4, <2>6 DEF Apart, Becomes, Ready, Callers
  <2>10. ASSUME NEW q \in Callers PROVE Unmounts(q)'
    <3>1. caller'[q].pc = "umount" => caller[q].pc = "umount" /\ caller'[q].all = caller[q].all
            /\ caller'[q].step = caller[q].step /\ caller'[q].overlays = caller[q].overlays
      BY <1>2, <2>4, <2>6 DEF Becomes
    <3>2. caller'[q].pc = "umount" => \A j \in DOMAIN mounts' : mounts'[j].at \in caller'[q].all
      <4> SUFFICES ASSUME caller'[q].pc = "umount", NEW j \in DOMAIN mounts'
                   PROVE  mounts'[j].at \in caller[q].all
        BY <3>1
      <4>1. \A k \in DOMAIN mounts : mounts[k].at \in caller[q].all
        BY <3>1 DEF Unmounts
      <4>2. j \in DOMAIN mounts /\ j + 1 \in DOMAIN mounts
        BY <1>2, <2>2
      <4> QED
        BY <2>2, <4>1, <4>2
    <3>3. caller'[q].pc = "umount" /\ "beside" \notin mountFaults => q = p
      BY <1>2, <3>1 DEF Apart, Ready
    <3>4. "beside" \notin mountFaults => \A pq \in Points : caller'[p].left[pq] = Times(pq, mounts')
      <4>1. "beside" \notin mountFaults => \A pq \in Points : left[pq] = Times(pq, mounts)
        BY <1>2 DEF Unmounts, left
      <4> QED
        BY <2>3, <2>4, <2>6, <4>1 DEF Becomes
    <3> QED
      BY <1>7, <3>1, <3>2, <3>3, <3>4 DEF Unmounts
  <2>11. Mounts'
    <3>1. caller'[Service].pc # "mount"
      BY <1>2, <2>4, <2>6 DEF Apart, Ready, Becomes, Callers
    <3> QED
      BY <3>1 DEF Mounts
  <2>12. LeftoversAreUndone'
    BY <1>7, <2>4, <2>6 DEF LeftoversAreUndone, Becomes
  <2> QED
    BY <2>7, <2>8, <2>9, <2>10, <2>11, <2>12
<1> QED
  BY <1>5, <1>6, <1>7

\* What was listed is gone: nothing is mounted.
LEMMA CheckedEmpty ==
  ASSUME MountInv, NEW p \in Callers, caller[p].pc = "umount",
         \A pt \in caller[p].all : ~IsMount(pt)
  PROVE  mounts = <<>>
<1>1. mounts \in Seq(Mount) /\ \A i \in DOMAIN mounts : mounts[i].at \in caller[p].all
  BY DEF MountInv, MountTypeOK, Unmounts
<1>2. \A i \in DOMAIN mounts : FALSE
  BY <1>1 DEF IsMount
<1> QED
  BY <1>1, <1>2

LEMMA UmountCheckKeeps ==
  ASSUME MountInv, NEW p \in Callers, UmountCheck(p),
         UNCHANGED <<mountFaults, dirs>>
  PROVE  MountInv'
<1> USE DEF MountInv
<1>1. /\ mounts \in Seq(Mount) /\ caller \in [Callers -> Caller]
      /\ caller[p].pc = "umount" /\ caller[p].left = NoneLeft /\ caller[p] \in Caller
  BY DEF MountTypeOK, UmountCheck
<1>2. CASE \E pt \in caller[p].all : IsMount(pt)
  <2>1. mountFaults \cap {"fail", "beside"} # {}
    <3>1. PICK pt \in caller[p].all : IsMount(pt)
      BY <1>2
    <3>2. pt \in Points /\ caller[p].left[pt] = 0
      BY <1>1 DEF Caller, NoneLeft
    <3>3. "beside" \notin mountFaults => Times(pt, mounts) = 0
      BY <1>1, <3>2 DEF Unmounts
    <3> QED
      BY <1>1, <3>1, <3>3, TimesCounts DEF IsMount
  <2>2. Becomes(p, Resting("failed")) /\ UNCHANGED <<mountFaults, dirs, mounts, overlays>>
    BY <1>2, RestingIsOne, Became DEF Fail, UmountCheck
  <2> QED
    BY <2>1, <2>2, RestKeeps
<1>3. CASE ~(\E pt \in caller[p].all : IsMount(pt)) /\ caller[p].op = "umount"
  <2>1. Becomes(p, Resting("unmounted")) /\ UNCHANGED <<mountFaults, dirs, mounts, overlays>>
    BY <1>3, RestingIsOne, Became DEF UmountCheck
  <2> QED
    BY <2>1, RestKeeps
<1>4. CASE ~(\E pt \in caller[p].all : IsMount(pt)) /\ caller[p].op = "mount"
  <2> DEFINE c == [caller[p] EXCEPT !.pc = "mount"]
  <2>1. p = Service /\ caller[p].step = 1 /\ caller[p].overlays = overlays
    BY <1>1, <1>4 DEF Apart, Unmounts
  <2>2. mounts = <<>>
    BY <1>1, <1>4, CheckedEmpty
  <2>3. /\ c \in Caller /\ c.pc = "mount" /\ c.op = "mount" /\ c.step = 1
        /\ c.overlays = overlays
    BY <1>1, <1>4, <2>1 DEF Caller
  <2>4. caller' = [caller EXCEPT ![p] = c] /\ UNCHANGED <<mounts, overlays>>
    BY <1>4 DEF UmountCheck
  <2> HIDE DEF c
  <2>5. Becomes(p, c)
    BY <2>3, <2>4, Became
  <2>6. MountTypeOK' /\ OnRootfs'
    BY <2>4, <2>5 DEF MountTypeOK, OnRootfs, Becomes
  <2>7. Apart'
    BY <1>1, <1>4, <2>1, <2>3, <2>5 DEF Apart, Becomes, Ready
  <2>8. \A q \in Callers : Unmounts(q)'
    BY <2>3, <2>4, <2>5 DEF Unmounts, Becomes
  <2>9. Mounts'
    <3>1. caller'[Service].step = 1 /\ caller'[Service].overlays = overlays
      BY <2>1, <2>3, <2>5 DEF Becomes
    <3>2. ToSet(mounts') = {} /\ DOMAIN mounts' = {}
      BY <2>2, <2>4 DEF ToSet
    <3>3. Before(1)' = {}
      BY DEF Before
    <3> QED
      BY <2>4, <3>1, <3>2, <3>3 DEF Mounts
  <2>10. LeftoversAreUndone'
    BY <2>3, <2>5 DEF LeftoversAreUndone, Becomes
  <2> QED
    BY <2>6, <2>7, <2>8, <2>9, <2>10
<1> QED
  BY <1>1, <1>2, <1>3, <1>4 DEF Caller

LEMMA ProgramIs ==
  /\ DOMAIN Program = 1..8 /\ Len(Program) = 8 /\ \A k \in 1..8 : Program[k] \in Mount
  /\ \A k \in 1..8 : Program[k].at = "rootfs" /\ Program[k].what = "overlay" <=> k = 2
  /\ Program[1].at = "rootfs" /\ Program[1].what = "image"
  /\ \A k \in 1..8 : Program[k].what \in {"bind", "file"} =>
       \A l \in 1..8 : Program[l].at = Program[k].at => l = k
BY PointsAre DEF Program, Mount

\* bind and bind_file find no mount of their own: what is mounted are those that
\* come before.
LEMMA NothingIsSkipped ==
  ASSUME MountInv, caller[Service].pc = "mount", NEW step, step = caller[Service].step
  PROVE  Skips(Service, Program[step]) <=> ~Wants(overlays, Program[step])
<1>1. step \in 1..8 /\ caller[Service].overlays = overlays /\ ToSet(mounts) = Before(step)
  <2>1. caller[Service] \in Caller
    BY DEF MountInv, MountTypeOK, Callers
  <2> QED
    BY <2>1, ProgramIs DEF MountInv, Mounts, Caller
<1>2. \A i \in DOMAIN mounts : \E k \in 1..(step - 1) : mounts[i] = Program[k]
  BY <1>1 DEF ToSet, Before
<1>3. Program[step].what \in {"bind", "file"} => ~IsMount(Program[step].at)
  BY <1>1, <1>2, ProgramIs DEF IsMount
<1> QED
  BY <1>1, <1>3 DEF Skips

\* A step adds its own mount, if it is wanted, to those that come before it.
LEMMA StepMade ==
  ASSUME MountInv, MountStep(Service), UNCHANGED <<mountFaults, dirs>>,
         NEW step, step = caller[Service].step
  PROVE  /\ step \in 1..8 /\ mounts' \in Seq(Mount) /\ UNCHANGED overlays /\ OnRootfs'
         /\ ToSet(mounts') = Before(step + 1)
         /\ \A i, j \in DOMAIN mounts' : i < j =>
              \E k, l \in 1..step : k < l /\ mounts'[i] = Program[k] /\ mounts'[j] = Program[l]
<1> DEFINE item == Program[step]
<1>1. /\ caller[Service].pc = "mount" /\ caller[Service] \in Caller /\ mounts \in Seq(Mount)
      /\ Len(mounts) \in Nat /\ DOMAIN mounts = 1..Len(mounts)
  BY DEF MountStep, MountInv, MountTypeOK, Callers
<1>2. step \in 1..8 /\ item \in Mount
  BY <1>1, ProgramIs DEF Caller
<1>3. /\ ToSet(mounts) = Before(step)
      /\ \A i, j \in DOMAIN mounts : i < j =>
           \E k, l \in 1..(step - 1) : k < l /\ mounts[i] = Program[k] /\ mounts[j] = Program[l]
  BY <1>1 DEF MountInv, Mounts
<1>4. /\ UNCHANGED overlays
      /\ mounts' = IF ~Wants(overlays, item) THEN mounts ELSE Append(mounts, item)
  BY <1>1, NothingIsSkipped DEF MountStep
<1>5. Before(step + 1) = Before(step) \cup (IF Wants(overlays, item) THEN {item} ELSE {})
  <2>1. 1..(step + 1 - 1) = 1..(step - 1) \cup {step}
    BY <1>2
  <2> QED
    BY <1>2, <2>1 DEF Before
<1> HIDE DEF item
<1>6. CASE ~Wants(overlays, item)
  <2>1. mounts' = mounts /\ Before(step + 1) = Before(step)
    BY <1>4, <1>5, <1>6
  <2>2. \A i, j \in DOMAIN mounts : i < j =>
          \E k, l \in 1..step : k < l /\ mounts[i] = Program[k] /\ mounts[j] = Program[l]
    <3>1. 1..(step - 1) \subseteq 1..step
      BY <1>2
    <3> QED
      BY <1>3, <3>1
  <2>3. OnRootfs'
    BY <2>1 DEF MountInv, OnRootfs
  <2>4. mounts' \in Seq(Mount) /\ ToSet(mounts') = Before(step + 1)
    BY <1>1, <1>3, <2>1
  <2> QED
    BY <1>2, <1>4, <2>1, <2>2, <2>3, <2>4
<1>7. CASE Wants(overlays, item)
  <2>1. /\ mounts' \in Seq(Mount) /\ DOMAIN mounts' = 1..(Len(mounts) + 1)
        /\ \A i \in 1..Len(mounts) : mounts'[i] = mounts[i]
        /\ mounts'[Len(mounts) + 1] = item
    BY <1>1, <1>2, <1>4, <1>7, AppendProperties
  <2>2. ToSet(mounts') = ToSet(mounts) \cup {item}
    BY <1>1, <2>1 DEF ToSet
  <2>3. ASSUME NEW i \in DOMAIN mounts', NEW j \in DOMAIN mounts', i < j
        PROVE  \E k, l \in 1..step : k < l /\ mounts'[i] = Program[k] /\ mounts'[j] = Program[l]
    <3>1. i \in DOMAIN mounts /\ mounts'[i] = mounts[i]
      BY <1>1, <2>1, <2>3
    <3>2. CASE j = Len(mounts) + 1
      <4>1. \E k \in 1..(step - 1) : mounts[i] = Program[k]
        <5>1. mounts[i] \in Before(step)
          BY <1>3, <3>1 DEF ToSet
        <5> QED
          BY <5>1 DEF Before
      <4>2. mounts'[j] = Program[step]
        BY <2>1, <3>2 DEF item
      <4> QED
        BY <1>2, <3>1, <4>1, <4>2
    <3>3. CASE j # Len(mounts) + 1
      <4>1. j \in DOMAIN mounts /\ mounts'[j] = mounts[j]
        BY <1>1, <2>1, <3>3
      <4>2. 1..(step - 1) \subseteq 1..step
        BY <1>2
      <4> QED
        BY <1>3, <2>3, <3>1, <4>1, <4>2
    <3> QED
      BY <3>2, <3>3
  <2>4. OnRootfs'
    <3>1. CASE mounts # <<>>
      BY <1>1, <2>1, <3>1 DEF MountInv, OnRootfs
    <3>2. CASE mounts = <<>>
      <4>1. step = 1
        <5>1. ToSet(mounts) = {}
          BY <3>2 DEF ToSet
        <5>2. step > 1 => Program[1] \in Before(step)
          BY <1>2, ProgramIs DEF Before, Wants
        <5> QED
          BY <1>2, <1>3, <5>1, <5>2
      <4>2. Len(mounts) = 0
        BY <3>2
      <4> QED
        BY <2>1, <4>1, <4>2, ProgramIs DEF OnRootfs, item
    <3> QED
      BY <3>1, <3>2
  <2> QED
    BY <1>2, <1>3, <1>4, <1>5, <1>7, <2>1, <2>2, <2>3, <2>4
<1> QED
  BY <1>6, <1>7

\* The service goes on with the next mount.
LEMMA GoesOn ==
  ASSUME MountInv, caller[Service].pc = "mount", NEW step \in 1..7, step = caller[Service].step,
         NEW c \in Caller, c.pc = "mount", c.op = "mount", c.step = step + 1,
         c.overlays = overlays', Becomes(Service, c), UNCHANGED <<mountFaults, dirs>>,
         mounts' \in Seq(Mount), overlays' \in BOOLEAN, OnRootfs',
         ToSet(mounts') = Before(step + 1)',
         \A i, j \in DOMAIN mounts' : i < j =>
           \E k, l \in 1..step : k < l /\ mounts'[i] = Program[k] /\ mounts'[j] = Program[l]
  PROVE  MountInv'
<1> USE DEF MountInv
<1>1. MountTypeOK'
  BY DEF MountTypeOK, Becomes
<1>2. Apart'
  BY DEF Apart, Becomes, Ready
<1>3. \A q \in Callers : caller'[q].pc # "umount"
  BY DEF Apart, Becomes, Ready, Callers
<1>4. \A q \in Callers : Unmounts(q)'
  BY <1>3 DEF Unmounts
<1>5. Mounts'
  <2>1. caller'[Service] = c /\ step + 1 - 1 = step
    BY DEF Becomes, Callers
  <2>2. /\ caller'[Service].overlays = overlays' /\ caller'[Service].step = step + 1
        /\ caller'[Service].step - 1 = step
    BY <2>1
  <2>3. ToSet(mounts') = Before(caller[Service].step)'
    BY <2>2 DEF Before
  <2> HIDE DEF MountInv
  <2> QED
    BY <2>2, <2>3 DEF Mounts
<1>6. LeftoversAreUndone'
  BY DEF LeftoversAreUndone, Becomes
<1> QED
  BY <1>1, <1>2, <1>4, <1>5, <1>6

LEMMA MountStepKeeps ==
  ASSUME MountInv, MountStep(Service), UNCHANGED <<mountFaults, dirs>>
  PROVE  MountInv'
<1>0. PICK step : step = caller[Service].step
  OBVIOUS
<1>1. /\ Service \in Callers /\ caller[Service].pc = "mount" /\ caller[Service] \in Caller
      /\ caller[Service].op = "mount" /\ MountTypeOK /\ caller[Service].overlays = overlays
      /\ caller' = Advance(Service)
  BY DEF MountStep, MountInv, MountTypeOK, Callers, Apart, Mounts
<1>2. /\ step \in 1..8 /\ mounts' \in Seq(Mount) /\ UNCHANGED overlays /\ OnRootfs'
      /\ ToSet(mounts') = Before(step + 1)
      /\ \A i, j \in DOMAIN mounts' : i < j =>
           \E k, l \in 1..step : k < l /\ mounts'[i] = Program[k] /\ mounts'[j] = Program[l]
  BY <1>0, StepMade
<1>3. CASE step = 8
  <2>1. Becomes(Service, Resting("mounted"))
    <3>1. caller' = [caller EXCEPT ![Service] = Resting("mounted")]
      BY <1>0, <1>1, <1>3, ProgramIs DEF Advance
    <3> QED
      BY <1>1, <3>1, RestingIsOne, Became
  <2>2. caller'[Service].pc = "mounted" /\ caller'[Service].op = "umount"
    BY <1>1, <2>1, RestingIsOne DEF Becomes
  <2>3. MountTypeOK'
    BY <1>1, <1>2, <2>1 DEF MountTypeOK, Becomes
  <2>4. \A q \in Callers : caller'[q].pc # "umount"
    BY <1>1, <2>1, <2>2 DEF MountInv, Apart, Becomes, Ready
  <2>5. Apart'
    BY <1>1, <2>1, <2>2 DEF MountInv, Apart, Becomes, Ready
  <2>6. (\A q \in Callers : Unmounts(q)') /\ Mounts'
    BY <2>2, <2>4 DEF Unmounts, Mounts
  <2>7. LeftoversAreUndone'
    BY <2>1, <2>2 DEF MountInv, LeftoversAreUndone, Becomes
  <2> QED
    BY <1>2, <2>3, <2>5, <2>6, <2>7 DEF MountInv
<1>4. CASE step # 8
  <2> DEFINE c == [caller[Service] EXCEPT !.step = @ + 1]
  <2>1. step \in 1..7 /\ caller' = [caller EXCEPT ![Service] = c]
    BY <1>0, <1>1, <1>2, <1>4, ProgramIs DEF Advance
  <2>2. /\ c \in Caller /\ c.pc = "mount" /\ c.op = "mount" /\ c.step = step + 1
        /\ c.overlays = overlays
    BY <1>0, <1>1, <2>1, ProgramIs DEF Caller
  <2> HIDE DEF c
  <2>3. Becomes(Service, c)
    BY <1>1, <2>1, <2>2, Became
  <2>4. Before(step + 1)' = Before(step + 1) /\ overlays' \in BOOLEAN
    BY <1>1, <1>2 DEF Before, Wants, MountTypeOK
  <2> QED
    BY <1>0, <1>1, <1>2, <2>1, <2>2, <2>3, <2>4, GoesOn
<1> QED
  BY <1>3, <1>4

LEMMA MountFailsKeeps ==
  ASSUME MountInv, MountFails(Service), UNCHANGED <<mountFaults, dirs>>
  PROVE  MountInv'
<1>0. PICK step : step = caller[Service].step
  OBVIOUS
<1>1. /\ Service \in Callers /\ caller[Service].pc = "mount" /\ caller[Service] \in Caller
      /\ caller[Service].op = "mount" /\ MountTypeOK /\ caller[Service].overlays = overlays
      /\ "fail" \in mountFaults /\ ToSet(mounts) = Before(step)
      /\ \A i, j \in DOMAIN mounts : i < j =>
           \E k, l \in 1..(step - 1) : k < l /\ mounts[i] = Program[k] /\ mounts[j] = Program[l]
  BY <1>0 DEF MountFails, MountInv, MountTypeOK, Callers, Apart, Mounts
<1>2. step \in 1..8
  BY <1>0, <1>1, ProgramIs DEF Caller
<1>3. CASE Program[step] = [at |-> "rootfs", what |-> "overlay"]
  <2> DEFINE c == [caller[Service] EXCEPT !.step = 3, !.overlays = FALSE]
  <2>1. step = 2
    BY <1>2, <1>3, ProgramIs
  <2>2. /\ overlays' = FALSE /\ UNCHANGED mounts
        /\ caller' = [Advance(Service) EXCEPT ![Service].overlays = FALSE]
    BY <1>0, <1>3 DEF MountFails
  <2>10. Advance(Service) = [caller EXCEPT ![Service] = [caller[Service] EXCEPT !.step = 3]]
    BY <1>0, <2>1, ProgramIs DEF Advance
  <2>11. caller' = [caller EXCEPT ![Service] = c]
    BY <1>1, <2>2, <2>10 DEF MountTypeOK
  <2>3. c \in Caller /\ c.pc = "mount" /\ c.op = "mount" /\ c.step = 3 /\ c.overlays = FALSE
    <3>1. 3 \in 1..Len(Program)
      BY ProgramIs
    <3> QED
      BY <1>1, <3>1 DEF Caller
  <2> HIDE DEF c
  <2>4. Becomes(Service, c)
    BY <1>1, <2>11, <2>3, Became
  <2>5. Before(2) = {Program[1]} /\ Before(3)' = {Program[1]}
    <3>1. 1..(2 - 1) = {1} /\ 1..(3 - 1) = {1, 2} /\ ~Wants(overlays, Program[2])'
      BY <2>2, ProgramIs DEF Wants
    <3>2. Wants(overlays, Program[1])
      BY ProgramIs DEF Wants
    <3>3. Wants(overlays, Program[1])'
      BY ProgramIs DEF Wants
    <3> QED
      BY <3>1, <3>2, <3>3 DEF Before
  <2>6. \A i, j \in DOMAIN mounts' : i < j =>
          \E k, l \in 1..2 : k < l /\ mounts'[i] = Program[k] /\ mounts'[j] = Program[l]
    BY <1>1, <2>1, <2>2
  <2>7. mounts' \in Seq(Mount) /\ OnRootfs'
    BY <2>2 DEF MountInv, MountTypeOK, OnRootfs
  <2>8. 2 \in 1..7 /\ c.step = 2 + 1 /\ caller[Service].step = 2
    BY <1>0, <2>1, <2>3
  <2>9. ToSet(mounts') = Before(2 + 1)' /\ c.overlays = overlays' /\ overlays' \in BOOLEAN
    <3>1. ToSet(mounts') = ToSet(mounts) /\ ToSet(mounts) = Before(2)
      BY <1>1, <2>1, <2>2
    <3>2. 2 + 1 = 3
      OBVIOUS
    <3>3. Before(2 + 1)' = Before(3)'
      BY <3>2 DEF Before
    <3> QED
      BY <2>2, <2>3, <2>5, <3>1, <3>3
  <2> QED
    BY <1>1, <2>3, <2>4, <2>6, <2>7, <2>8, <2>9, GoesOn
<1>4. CASE Program[step] # [at |-> "rootfs", what |-> "overlay"]
  <2>1. Becomes(Service, Resting("failed")) /\ UNCHANGED <<mountFaults, dirs, mounts, overlays>>
    BY <1>0, <1>1, <1>4, RestingIsOne, Became DEF MountFails, Fail
  <2> QED
    BY <1>1, <2>1, RestKeeps
<1> QED
  BY <1>3, <1>4

\* The invariant holds whatever the constants are.
LEMMA MountInvariance == MountSpec => []MountInv
<1>1. MountInit => MountInv
  <2> SUFFICES ASSUME MountInit PROVE MountInv
    OBVIOUS
  <2>1. \A p \in Callers : caller[p] = Resting("idle") /\ caller[p].pc = "idle" /\ caller[p].op = "umount"
    BY RestingIsOne DEF MountInit
  <2>2. MountTypeOK
    BY RestingIsOne DEF MountInit, MountTypeOK
  <2>3. OnRootfs /\ Apart /\ (\A p \in Callers : Unmounts(p)) /\ Mounts /\ LeftoversAreUndone
    BY <2>1 DEF MountInit, OnRootfs, Apart, Unmounts, Mounts, LeftoversAreUndone, Ready, Callers
  <2> QED
    BY <2>2, <2>3 DEF MountInv
<1>2. MountInv /\ [MountNext]_mountVars => MountInv'
  <2> SUFFICES ASSUME MountInv, [MountNext]_mountVars PROVE MountInv'
    OBVIOUS
  <2>1. CASE MountNext
    <3>0. UNCHANGED <<mountFaults, dirs>> /\ Service \in Callers /\ Root \in Callers
      BY <2>1 DEF MountNext, Callers
    <3>1. ASSUME NEW op \in {"mount", "umount"}, BeginWork(Service, op) PROVE MountInv'
      BY <3>0, <3>1, BeginWorkKeeps
    <3>2. CASE BeginWork(Root, "umount")
      BY <3>0, <3>2, BeginWorkKeeps
    <3>3. ASSUME NEW p \in Callers, Umount(p) PROVE MountInv'
      BY <3>0, <3>3, UmountKeeps
    <3>4. ASSUME NEW p \in Callers, UmountCheck(p) PROVE MountInv'
      BY <3>0, <3>4, UmountCheckKeeps
    <3>5. ASSUME NEW p \in Callers, KillCaller(p) PROVE MountInv'
      <4>1. Becomes(p, Resting("idle")) /\ UNCHANGED <<mounts, overlays>>
        BY <3>5, RestingIsOne, Became DEF KillCaller, MountInv
      <4> QED
        BY <3>0, <4>1, RestKeeps
    <3>6. CASE MountStep(Service)
      BY <3>0, <3>6, MountStepKeeps
    <3>7. CASE MountFails(Service)
      BY <3>0, <3>7, MountFailsKeeps
    <3> QED
      BY <2>1, <3>1, <3>2, <3>3, <3>4, <3>5, <3>6, <3>7 DEF MountNext
  <2>2. CASE UNCHANGED mountVars
    BY <2>2 DEF mountVars, MountInv, MountTypeOK, OnRootfs, Apart, Unmounts, Mounts, Before,
                LeftoversAreUndone, Ready, Wants, Times
  <2> QED
    BY <2>1, <2>2
<1> QED
  BY <1>1, <1>2, PTL DEF MountSpec

\* Whatever is killed or fails, and whoever unmounts at the same time, the mounts
\* and what each caller is about stay well typed.
THEOREM MountTyping == MountSpec => []MountTypeOK
<1>1. MountInv => MountTypeOK
  BY DEF MountInv
<1> QED
  BY <1>1, MountInvariance, PTL

\* umount_all finds no mount busy that it has put before another, and none that it
\* has listed is gone, unless another one unmounts too: only a command that fails
\* makes it fail.
THEOREM LeftoversSafety == MountSpec => []LeftoversAreUndone
<1>1. MountInv => LeftoversAreUndone
  BY DEF MountInv
<1> QED
  BY <1>1, MountInvariance, PTL

\* A caller that unmounts goes on with it or fails.
LEMMA UmountStays ==
  ASSUME MountTypeOK, NEW q \in Callers, Umount(q), NEW p \in Callers
  PROVE  caller'[p].pc \in {caller[p].pc, "failed"}
<1>1. caller \in [Callers -> Caller] /\ caller[q] \in Caller
  BY DEF MountTypeOK
<1>2. CASE Fail(q)
  BY <1>1, <1>2, RestingIsOne DEF Fail
<1>3. ASSUME NEW pt, caller' = [caller EXCEPT ![q].left[pt] = @ - 1]
      PROVE  caller'[p].pc = caller[p].pc
  <2> DEFINE rest == [caller[q].left EXCEPT ![pt] = @ - 1]
  <2>1. caller' = [caller EXCEPT ![q] = [caller[q] EXCEPT !.left = rest]]
    BY <1>3
  <2> HIDE DEF rest
  <2>2. [caller[q] EXCEPT !.left = rest].pc = caller[q].pc
    BY <1>1 DEF Caller
  <2> QED
    BY <1>1, <2>1, <2>2
<1> QED
  BY <1>2, <1>3 DEF Umount

\* An umount_rootfs that returns has left nothing.
THEOREM UnmountedSafety == MountSpec => UnmountedEntirely
<1>1. ASSUME MountInv, [MountNext]_mountVars, NEW p \in Callers,
             caller[p].pc = "umount", caller'[p].pc = "unmounted"
      PROVE  mounts' = <<>>
  <2>1. UmountCheck(p) /\ ~(\E pt \in caller[p].all : IsMount(pt)) /\ UNCHANGED mounts
    <3>0. /\ caller \in [Callers -> Caller] /\ Service \in Callers
          /\ \A q \in Callers : caller[q].pc = "mount" => q # p
      BY <1>1 DEF MountInv, MountTypeOK, Callers
    <3>1. MountNext
      BY <1>1 DEF mountVars
    <3>2. ASSUME NEW q \in Callers, NEW op, BeginWork(q, op) PROVE FALSE
      BY <1>1, <3>0, <3>2 DEF BeginWork, Ready
    <3>3. ASSUME NEW q \in Callers, Umount(q) PROVE FALSE
      BY <1>1, <3>3, UmountStays DEF MountInv
    <3>4. ASSUME NEW q \in Callers, KillCaller(q) PROVE FALSE
      BY <1>1, <3>0, <3>4, RestingIsOne DEF KillCaller
    <3>5. ~MountStep(Service) /\ ~MountFails(Service)
      BY <1>1, <3>0, RestingIsOne DEF MountStep, MountFails, Advance, Fail
    <3>6. ASSUME NEW q \in Callers, UmountCheck(q)
          PROVE  q = p /\ ~(\E pt \in caller[p].all : IsMount(pt)) /\ UNCHANGED mounts
      <4>1. q = p
        BY <1>1, <3>0, <3>6 DEF UmountCheck, Fail
      <4> QED
        BY <1>1, <3>0, <3>6, <4>1, RestingIsOne DEF UmountCheck, Fail
    <3> QED
      BY <3>1, <3>2, <3>3, <3>4, <3>5, <3>6 DEF MountNext, Callers
  <2> QED
    BY <1>1, <2>1, CheckedEmpty
<1>2. MountInv /\ [MountNext]_mountVars =>
        [\A p \in Callers : (caller[p].pc = "umount" /\ caller'[p].pc = "unmounted")
                             => mounts' = <<>>]_mountVars
  BY <1>1
<1> QED
  BY <1>2, MountInvariance, PTL DEF MountSpec, UnmountedEntirely

\* A mount_rootfs that returns has made exactly the mounts it is for, each once and
\* in order.
THEOREM MountedSafety == MountSpec => MountedExactly
<1>1. ASSUME MountInv, [MountNext]_mountVars,
             caller[Service].pc = "mount", caller'[Service].pc = "mounted"
      PROVE  ToSet(mounts') = Wanted' /\ InOrder'
  <2>0. /\ caller \in [Callers -> Caller] /\ Service \in Callers /\ caller[Service] \in Caller
    BY <1>1 DEF MountInv, MountTypeOK, Callers
  <2>1. MountStep(Service) /\ UNCHANGED <<mountFaults, dirs>>
    <3>1. MountNext
      BY <1>1 DEF mountVars
    <3>2. ASSUME NEW q \in Callers, NEW op, BeginWork(q, op) PROVE FALSE
      BY <1>1, <2>0, <3>2 DEF BeginWork, Ready
    <3>3. ASSUME NEW q \in Callers, Umount(q) PROVE FALSE
      BY <1>1, <2>0, <3>3, UmountStays DEF MountInv
    <3>4. ASSUME NEW q \in Callers, KillCaller(q) PROVE FALSE
      BY <1>1, <2>0, <3>4, RestingIsOne DEF KillCaller
    <3>5. ASSUME NEW q \in Callers, UmountCheck(q) PROVE FALSE
      BY <1>1, <2>0, <3>5, RestingIsOne DEF UmountCheck, Fail
    <3>6. ~MountFails(Service)
      <4> SUFFICES ASSUME MountFails(Service) PROVE FALSE
        OBVIOUS
      <4>1. caller[Service].step \in 1..8
        BY <2>0, ProgramIs DEF Caller
      <4>2. CASE Program[caller[Service].step] = [at |-> "rootfs", what |-> "overlay"]
        <5>1. caller[Service].step = 2
          BY <4>1, <4>2, ProgramIs
        <5> QED
          <6>1. caller' = [Advance(Service) EXCEPT ![Service].overlays = FALSE]
            BY <4>2 DEF MountFails
          <6>2. Advance(Service) = [caller EXCEPT ![Service] = [caller[Service] EXCEPT !.step = 3]]
            BY <5>1, ProgramIs DEF Advance
          <6>3. caller'[Service] = [caller[Service] EXCEPT !.step = 3, !.overlays = FALSE]
            BY <2>0, <6>1, <6>2
          <6> QED
            BY <1>1, <2>0, <6>3 DEF Caller
      <4>3. CASE Program[caller[Service].step] # [at |-> "rootfs", what |-> "overlay"]
        BY <1>1, <2>0, <4>3, RestingIsOne DEF MountFails, Fail
      <4> QED
        BY <4>2, <4>3
    <3> QED
      BY <3>1, <3>2, <3>3, <3>4, <3>5, <3>6 DEF MountNext, Callers
  <2>2. PICK step : step = caller[Service].step
    OBVIOUS
  <2>3. /\ mounts' \in Seq(Mount) /\ UNCHANGED <<dirs, overlays>> /\ ToSet(mounts') = Before(step + 1)
        /\ \A i, j \in DOMAIN mounts' : i < j =>
             \E k, l \in 1..step : k < l /\ mounts'[i] = Program[k] /\ mounts'[j] = Program[l]
    BY <1>1, <2>1, <2>2, StepMade
  <2>4. step = 8
    BY <1>1, <2>0, <2>1, <2>2, ProgramIs DEF MountStep, Advance
  <2>5. Before(9) = Wanted
    <3>1. 1..(9 - 1) = DOMAIN Program
      BY ProgramIs
    <3> QED
      BY <3>1 DEF Before, Wanted, ToSet
  <2>6. Wanted' = Wanted
    BY <2>3 DEF Wanted, Wants
  <2>7. ToSet(mounts') = Wanted'
    <3>1. 8 + 1 = 9
      OBVIOUS
    <3> QED
      BY <2>3, <2>4, <2>5, <2>6, <3>1
  <2>8. InOrder'
    BY <2>3, <2>4, ProgramIs DEF InOrder
  <2> QED
    BY <2>7, <2>8
<1>2. MountInv /\ [MountNext]_mountVars =>
        [(caller[Service].pc = "mount" /\ caller'[Service].pc = "mounted")
           => ToSet(mounts') = Wanted' /\ InOrder']_mountVars
  BY <1>1
<1> QED
  BY <1>2, MountInvariance, PTL DEF MountSpec, MountedExactly

-----------------------------------------------------------------------------
(* What is concluded from the host. *)

\* A search from 0 upwards finds the smallest number there is.
LEMMA SmallestIsThere ==
  ASSUME NEW S \in SUBSET Nat, S # {}
  PROVE  \E i \in S : \A j \in S : i <= j
<1>1. PICK x \in S : \A y \in S : ~(<<y, x>> \in OpToRel(<, Nat))
  BY NatLessThanWellFounded, WFMin
<1>2. \A y \in S : ~(y < x)
  BY <1>1 DEF OpToRel
<1>3. \A y \in S : x <= y
  BY <1>2
<1> QED
  BY <1>3

\* A host is the input of one function.
LEMMA HostCases ==
  ASSUME ConfigInit
  PROVE  /\ host.case = "version" => host \in VersionHosts
         /\ host.case = "nodes" => host \in NodeHosts
         /\ host.case = "graphics" => host \in GraphicsHosts
BY DEF ConfigInit, VersionHosts, NodeHosts, GraphicsHosts

LEMMA HostStays == ConfigSpec => []ConfigInit
<1>1. ConfigInit /\ [UNCHANGED host]_host => ConfigInit'
  BY DEF ConfigInit
<1> QED
  BY <1>1, PTL DEF ConfigSpec

\* The render node is none or one of the cards that is not nvidia's.
LEMMA DriNodeIs ==
  ASSUME ConfigAssumption, NEW h \in GraphicsHosts
  PROVE  DriNode(h) = 0 \/ (DriNode(h) \in DOMAIN h.cards /\ h.cards[DriNode(h)] # "nvidia")
<1> DEFINE good == {i \in DOMAIN h.cards : h.cards[i] # "nvidia"}
<1>1. good \in SUBSET Nat /\ 0 \notin good
  <2>1. h.cards \in SeqOf(Drivers, MaxCards)
    BY DEF GraphicsHosts
  <2>2. PICK n \in 0..MaxCards : h.cards \in [1..n -> Drivers]
    BY <2>1 DEF SeqOf
  <2> QED
    BY <2>2 DEF ConfigAssumption
<1>2. DriNode(h) = IF h.drm # 0 THEN IF h.drm \in good THEN h.drm ELSE 0
                   ELSE IF good = {} THEN 0 ELSE CHOOSE i \in good : \A j \in good : i <= j
  BY DEF DriNode
<1>3. good # {} => (CHOOSE i \in good : \A j \in good : i <= j) \in good
  <2> HIDE DEF good
  <2> QED
    BY <1>1, SmallestIsThere
<1>4. DriNode(h) = 0 \/ DriNode(h) \in good
  <2> HIDE DEF good
  <2> QED
    BY <1>2, <1>3
<1> QED
  BY <1>4

LEMMA VersionsFit == ASSUME ConfigAssumption, ConfigInit PROVE VersionsAreReleases
<1> SUFFICES ASSUME host.case = "version" PROVE VersionsAreReleases
  BY DEF VersionsAreReleases
<1>1. host.vndk \in Nat \cup {NoNumber} /\ host.api \in Nat \cup {NoNumber}
  BY HostCases DEF VersionHosts, ConfigAssumption
<1>2. host.vndk \in DOMAIN Releases =>
        VendorType(host.vndk, host.api) = Halium(Releases[host.vndk], host.vndk = 32)
  <2> SUFFICES ASSUME host.vndk \in 28..35
               PROVE  VendorType(host.vndk, host.api) = Halium(Releases[host.vndk], host.vndk = 32)
    BY DEF Releases
  <2>1. VendorType(host.vndk, host.api) =
          Halium(IF host.vndk > 31 THEN host.vndk - 20 ELSE host.vndk - 19, host.vndk = 32)
    BY DEF VendorType, Halium, NoNumber
  <2>2. Releases[host.vndk] = IF host.vndk > 31 THEN host.vndk - 20 ELSE host.vndk - 19
    BY DEF Releases
  <2> QED
    BY <2>1, <2>2
<1>3. (host.vndk = NoNumber /\ host.api \in 33..35) =>
        VendorType(host.vndk, host.api) = Halium(Releases[host.api], FALSE)
  <2> SUFFICES ASSUME host.vndk = NoNumber, host.api \in 33..35
               PROVE  VendorType(host.vndk, host.api) = Halium(Releases[host.api], FALSE)
    OBVIOUS
  <2>1. VendorType(host.vndk, host.api) = Halium(host.api - 20, FALSE)
    BY DEF VendorType, Halium, NoNumber
  <2>2. Releases[host.api] = host.api - 20
    BY DEF Releases
  <2> QED
    BY <2>1, <2>2
<1>4. (0 <= host.vndk /\ host.vndk <= host.api) =>
        Protocols(host.vndk).sm <= Protocols(host.api).sm
  <2>1. \A api \in Nat : Protocols(api).sm = IF api < 28 THEN 1 ELSE IF api < 30 THEN 2
                           ELSE IF api < 35 THEN 3 ELSE IF api = 35 THEN 5 ELSE 6
    BY DEF Protocols
  <2>2. (0 <= host.vndk /\ host.vndk <= host.api) => host.vndk \in Nat /\ host.api \in Nat
    BY <1>1 DEF NoNumber
  <2> QED
    BY <2>1, <2>2
<1> QED
  BY <1>2, <1>3, <1>4 DEF VersionsAreReleases

LEMMA StackFits == ASSUME ConfigAssumption, ConfigInit PROVE OneGraphicsStack
<1> SUFFICES ASSUME host.case = "graphics" PROVE OneGraphicsStack
  BY DEF OneGraphicsStack
<1>1. host \in GraphicsHosts /\ host.egl # "mesa" /\ host.vulkan \in BOOLEAN
  BY HostCases DEF GraphicsHosts
<1>2. \/ HasHal(host) /\ Gralloc(host) = "host"
      \/ ~HasHal(host) /\ DriNode(host) # 0 /\ Gralloc(host) = "gbm"
      \/ ~HasHal(host) /\ DriNode(host) = 0 /\ Gralloc(host) = "default"
  BY DEF Gralloc
<1>3. Gralloc(host) = "gbm" => \E i \in BoundCards(host) : host.cards[i] # "nvidia"
  BY <1>1, <1>2, DriNodeIs DEF BoundCards
<1>4. Gralloc(host) = "default" => Vulkan(host) \in {"", "host"}
  BY <1>1, <1>2 DEF Vulkan
<1>5. /\ Gralloc(host) = "host" => Egl(host) = host.egl
      /\ Gralloc(host) = "gbm" => Egl(host) = "mesa"
      /\ Gralloc(host) = "default" => Egl(host) = "swiftshader"
  BY <1>2 DEF Egl
<1> QED
  BY <1>1, <1>2, <1>3, <1>4, <1>5 DEF OneGraphicsStack

\* Whoever has looked for the drivers before finds what was found then.
LEMMA ProbeOnce ==
  ASSUME NEW dev \in [Kinds -> SUBSET {OwnNode, 2, HostNode}], NEW kernel
  PROVE  /\ Probe(dev, kernel) \in [Kinds -> SUBSET {OwnNode, 2, HostNode}]
         /\ kernel # "none" => Lacking(Probe(dev, kernel)) = {}
         /\ Probe(Probe(dev, kernel), kernel) = Probe(dev, kernel)
<1> DEFINE made == [k \in Kinds |-> dev[k] \cup (IF k \in Lacking(dev) THEN {OwnNode} ELSE {})
                               \cup (IF kernel = "binderfs" THEN {HostNode} ELSE {})]
<1>1. made \in [Kinds -> SUBSET {OwnNode, 2, HostNode}]
  OBVIOUS
<1>2. Lacking(made) = {}
  BY DEF Lacking
<1> HIDE DEF made
<1>3. Probe(dev, kernel) = IF Lacking(dev) = {} \/ kernel = "none" THEN dev ELSE made
  BY DEF Probe, made
<1>4. Probe(made, kernel) = made
  BY <1>2 DEF Probe
<1>5. Lacking(dev) = {} \/ kernel = "none" => Probe(dev, kernel) = dev
  BY DEF Probe
<1> QED
  BY <1>1, <1>2, <1>3, <1>4, <1>5

LEMMA NodesFit == ASSUME ConfigInit PROVE NodesSurviveBoot
<1> DEFINE Nodes  == {OwnNode, 2, HostNode}
           dev    == IF host.probed THEN Prepared(host.native, host.vendor) ELSE host.native
           booted == Prepared(host.native, host.vendor)
           cfg    == SetupNodes(dev, host.vendor)
           use    == Usable(booted, host.vendor)
<1> SUFFICES ASSUME host.case = "nodes"
             PROVE  /\ (host.vendor = "MAINLINE" /\ host.kernel # "none") => cfg # <<>>
                    /\ cfg # <<>> => \A k \in Kinds :
                         /\ cfg[k] \in booted[k]
                         /\ host.vendor = "HALIUM" => cfg[k] # HostNode
  BY DEF NodesSurviveBoot
<1>1. /\ host.native \in [Kinds -> SUBSET Nodes] /\ host.vendor \in {"MAINLINE", "HALIUM"}
      /\ host.probed \in BOOLEAN
  BY HostCases DEF NodeHosts
<1>2. /\ booted \in [Kinds -> SUBSET Nodes]
      /\ booted = (IF host.vendor = "MAINLINE" THEN Probe(dev, host.kernel) ELSE dev)
  BY <1>1, ProbeOnce DEF Prepared
<1>3. SetupNodes(dev, host.vendor) =
        IF \E k \in Kinds : use[k] = {} THEN <<>>
            ELSE [k \in Kinds |-> CHOOSE n \in use[k] : \A m \in use[k] : m <= n]
  <2>1. use = Usable(IF host.vendor = "MAINLINE" THEN Probe(dev, host.kernel) ELSE dev, host.vendor)
    BY <1>2
  <2> HIDE DEF use, dev
  <2> QED
    BY <2>1 DEF SetupNodes
<1>4. \A k \in Kinds : /\ use[k] \subseteq booted[k] /\ use[k] \subseteq Nodes
                       /\ host.vendor = "MAINLINE" => use[k] = booted[k]
                       /\ host.vendor = "HALIUM" => HostNode \notin use[k]
  BY <1>1, <1>2 DEF Usable
<1>5. (host.vendor = "MAINLINE" /\ host.kernel # "none") => \A k \in Kinds : use[k] # {}
  <2> SUFFICES ASSUME host.vendor = "MAINLINE", host.kernel # "none"
               PROVE  \A k \in Kinds : booted[k] # {}
    BY <1>4
  <2>1. Lacking(booted) = {}
    BY <1>1, ProbeOnce DEF Prepared
  <2> QED
    BY <2>1 DEF Lacking
<1> HIDE DEF use
<1>6. \A k \in Kinds : use[k] # {} => \E n \in use[k] : \A m \in use[k] : m <= n
  BY <1>4 DEF OwnNode, HostNode
<1>7. cfg # <<>> => \A k \in Kinds : cfg[k] \in use[k]
  BY <1>3, <1>6
<1>8. (\A k \in Kinds : use[k] # {}) => cfg # <<>>
  <2> SUFFICES ASSUME \A k \in Kinds : use[k] # {} PROVE cfg # <<>>
    OBVIOUS
  <2>1. DOMAIN cfg = Kinds
    BY <1>3
  <2>2. DOMAIN <<>> = {} /\ "binder" \in Kinds
    BY DEF Kinds
  <2> HIDE DEF cfg
  <2> QED
    BY <2>1, <2>2
<1>9. cfg # <<>> => \A k \in Kinds : /\ cfg[k] \in booted[k]
                                     /\ host.vendor = "HALIUM" => cfg[k] # HostNode
  BY <1>4, <1>7
<1>10. (host.vendor = "MAINLINE" /\ host.kernel # "none") => cfg # <<>>
  BY <1>5, <1>8
<1> QED
  BY <1>9, <1>10

\* Whatever the versions and the cards of a host, the vendor type is its Android
\* release, a newer image never has an older service manager, and EGL, gralloc and
\* Vulkan are of one stack.
THEOREM ConclusionsSafety == ASSUME ConfigAssumption PROVE ConfigSpec => []ConclusionsFit
<1>1. ConfigInit => ConclusionsFit
  BY VersionsFit, StackFits DEF ConclusionsFit
<1> QED
  BY <1>1, HostStays, PTL

\* The nodes that init has written to waydroid.cfg are there after a boot, and a
\* mainline host with binder gets some of every kind.
THEOREM NodesSafety == ConfigSpec => []NodesSurviveBoot
<1>1. ConfigInit => NodesSurviveBoot
  BY NodesFit
<1> QED
  BY <1>1, HostStays, PTL

-----------------------------------------------------------------------------
(* The properties that Android is given. *)

\* An entry that the list has but for those of the name that is being replaced.
Stays(e) == IF e.by = "user" THEN \E b \in 1..applied : e.name = user[b]
            ELSE e.name \in ToSet(found) /\ \A b \in 1..applied : e.name # user[b]

Justified == \A i \in DOMAIN props : Stays(props[i])
Present == \A e \in Entry : Stays(e) /\ (More => e.name # Current) => \E i \in DOMAIN props : props[i] = e

\* No entry of that name is behind the enumeration.
Ahead == More => \A i \in DOMAIN props : props[i].name = Current => i >= idx

NamesOnce == \A i, j \in DOMAIN props : props[i].name = props[j].name => i = j

PropsInv ==
  /\ PropsTypeOK
  /\ IsInjective(user)
  /\ Distinct => Justified /\ Present /\ Ahead /\ NamesOnce /\ InTheirOrder

\* The sequences of the state.
LEMMA PropsFields ==
  ASSUME PropsTypeOK
  PROVE  /\ Len(found) \in Nat /\ DOMAIN found = 1..Len(found)
         /\ Len(user) \in Nat /\ DOMAIN user = 1..Len(user)
         /\ Len(props) \in Nat /\ DOMAIN props = 1..Len(props)
         /\ \A i \in 1..Len(found) : found[i] \in Names
         /\ \A i \in 1..Len(user) : user[i] \in Names
         /\ \A i \in 1..Len(props) : props[i] \in Entry
         /\ applied \in Nat /\ applied <= Len(user)
         /\ idx \in Nat /\ idx >= 1
         /\ More => Current \in Names /\ applied + 1 \in 1..Len(user)
BY LenProperties, ElementOfSeq DEF PropsTypeOK, More, Current

\* What All consists of.
LEMMA AllIs ==
  ASSUME PropsTypeOK
  PROVE  /\ DOMAIN All = 1..(Len(found) + Len(user))
         /\ \A a \in 1..Len(found) : All[a] = [name |-> found[a], by |-> "host"]
         /\ \A b \in 1..Len(user) : All[Len(found) + b] = [name |-> user[b], by |-> "user"]
<1> DEFINE h == Entries(found, "host")
           u == Entries(user, "user")
<1>0. /\ Len(found) \in Nat /\ DOMAIN found = 1..Len(found)
      /\ Len(user) \in Nat /\ DOMAIN user = 1..Len(user)
      /\ \A i \in 1..Len(found) : found[i] \in Names
      /\ \A i \in 1..Len(user) : user[i] \in Names
  BY PropsFields
<1>1. h \in Seq(Entry) /\ Len(h) = Len(found) /\ u \in Seq(Entry) /\ Len(u) = Len(user)
  <2>1. h = [i \in 1..Len(found) |-> [name |-> found[i], by |-> "host"]]
    BY <1>0 DEF Entries
  <2>2. u = [i \in 1..Len(user) |-> [name |-> user[i], by |-> "user"]]
    BY <1>0 DEF Entries
  <2>3. h \in [1..Len(found) -> Entry] /\ u \in [1..Len(user) -> Entry]
    BY <1>0, <2>1, <2>2 DEF Entry
  <2> HIDE DEF h, u
  <2> QED
    BY <1>0, <2>3, SeqDef, LenProperties
<1>2. /\ \A a \in 1..Len(found) : h[a] = [name |-> found[a], by |-> "host"]
      /\ \A b \in 1..Len(user) : u[b] = [name |-> user[b], by |-> "user"]
  BY <1>0 DEF Entries
<1>3. All = h \o u
  BY DEF All
<1> HIDE DEF h, u
<1>4. /\ Len(h \o u) = Len(h) + Len(u) /\ h \o u \in Seq(Entry)
      /\ \A j \in 1..(Len(h) + Len(u)) : (h \o u)[j] = IF j <= Len(h) THEN h[j] ELSE u[j - Len(h)]
  BY <1>1, ConcatProperties
<1>5. DOMAIN All = 1..(Len(found) + Len(user))
  BY <1>1, <1>3, <1>4, LenProperties
<1>6. \A a \in 1..Len(found) : All[a] = [name |-> found[a], by |-> "host"]
  BY <1>0, <1>1, <1>2, <1>3, <1>4
<1>7. ASSUME NEW b \in 1..Len(user)
      PROVE  All[Len(found) + b] = [name |-> user[b], by |-> "user"]
  <2>1. Len(found) + b \in 1..(Len(h) + Len(u)) /\ ~(Len(found) + b <= Len(h))
          /\ Len(found) + b - Len(h) = b
    BY <1>0, <1>1
  <2> QED
    BY <1>2, <1>3, <1>4, <2>1
<1> QED
  BY <1>5, <1>6, <1>7

\* What is compared with an entry of the list is its name alone.
LEMMA MatchesName ==
  ASSUME PropsTypeOK, Distinct, Justified, More, NEW i \in DOMAIN props
  PROVE  Matches(props[i]) <=> props[i].name = Current
<1>1. Current \in ToSet(user)
  BY PropsFields DEF Current, ToSet
<1>2. props[i].name \in ToSet(found) \cup ToSet(user)
  BY PropsFields DEF Justified, Stays, ToSet
<1> QED
  BY <1>1, <1>2 DEF Distinct, Matches

LEMMA EnumerateKeeps ==
  ASSUME PropsInv, Enumerate
  PROVE  PropsInv'
<1>0. /\ PropsTypeOK /\ IsInjective(user) /\ UNCHANGED <<found, user, applied>> /\ More
      /\ idx' = idx + 1 /\ idx \in 1..Len(props)
  BY PropsFields DEF PropsInv, Enumerate
<1>1. CASE props' = props /\ (Distinct => props[idx].name # Current)
  <2>1. PropsTypeOK'
    BY <1>0, <1>1, PropsFields DEF PropsTypeOK
  <2>2. Distinct' => Distinct
    BY <1>0 DEF Distinct
  <2>3. ASSUME Distinct
        PROVE  Justified' /\ Present' /\ Ahead' /\ NamesOnce' /\ InTheirOrder'
    <3>1. Justified /\ Present /\ Ahead /\ NamesOnce /\ InTheirOrder
      BY <2>3 DEF PropsInv
    <3>2. More' = More /\ Current' = Current /\ All' = All /\ \A e : Stays(e)' = Stays(e)
      BY <1>0 DEF More, Current, All, Stays
    <3>3. Ahead'
      BY <1>0, <1>1, <2>3, <3>1, <3>2, PropsFields DEF Ahead
    <3>4. Justified' /\ Present' /\ NamesOnce' /\ InTheirOrder'
      BY <1>1, <3>1, <3>2 DEF Justified, Present, NamesOnce, InTheirOrder
    <3> QED
      BY <3>3, <3>4
  <2> QED
    BY <1>0, <2>1, <2>2, <2>3 DEF PropsInv
<1>2. CASE props' = RemoveAt(props, idx) /\ (Distinct => props[idx].name = Current)
  <2>0. /\ props' \in Seq(Entry) /\ Len(props') = Len(props) - 1
        /\ \A j \in 1..(Len(props) - 1) : props'[j] = IF j < idx THEN props[j] ELSE props[j + 1]
    BY <1>0, <1>2, RemovedOne DEF PropsTypeOK
  <2>1. PropsTypeOK'
    BY <1>0, <2>0, PropsFields DEF PropsTypeOK
  <2>2. Distinct' => Distinct
    BY <1>0 DEF Distinct
  <2>3. ASSUME Distinct
        PROVE  Justified' /\ Present' /\ Ahead' /\ NamesOnce' /\ InTheirOrder'
    <3>1. Justified /\ Present /\ Ahead /\ NamesOnce /\ InTheirOrder
      BY <2>3 DEF PropsInv
    <3>2. More' = More /\ Current' = Current /\ All' = All /\ \A e : Stays(e)' = Stays(e)
      BY <1>0 DEF More, Current, All, Stays
    <3> DEFINE old(j) == IF j < idx THEN j ELSE j + 1
    <3>3. DOMAIN props = 1..Len(props) /\ DOMAIN props' = 1..(Len(props) - 1) /\ Len(props) \in Nat
      BY <2>0, PropsFields, LenProperties
    <3>4. \A j \in DOMAIN props' : old(j) \in DOMAIN props /\ old(j) # idx /\ props'[j] = props[old(j)]
      BY <1>0, <2>0, <3>3
    <3>5. \A i, j \in DOMAIN props' : (i < j <=> old(i) < old(j)) /\ (old(i) = old(j) => i = j)
      BY <1>0, <3>3
    <3>6. \A i \in DOMAIN props \ {idx} : \E j \in DOMAIN props' : old(j) = i
      <4> SUFFICES ASSUME NEW i \in DOMAIN props \ {idx} PROVE \E j \in DOMAIN props' : old(j) = i
        OBVIOUS
      <4>1. CASE i < idx
        BY <1>0, <3>3, <4>1
      <4>2. CASE i > idx
        <5>1. i - 1 \in DOMAIN props' /\ old(i - 1) = i
          BY <1>0, <3>3, <4>2
        <5> QED
          BY <5>1
      <4> QED
        BY <1>0, <3>3, <4>1, <4>2
    <3> HIDE DEF old
    <3>7. \A j \in DOMAIN props' : props'[j].name # Current
      BY <1>0, <1>2, <2>3, <3>1, <3>4 DEF NamesOnce
    <3>8. Justified' /\ NamesOnce' /\ Ahead'
      BY <3>1, <3>2, <3>4, <3>5, <3>7 DEF Justified, NamesOnce, Ahead
    <3>9. InTheirOrder'
      BY <3>1, <3>2, <3>4, <3>5 DEF InTheirOrder
    <3>10. Present'
      <4> SUFFICES ASSUME NEW e \in Entry, Stays(e), e.name # Current
                   PROVE  \E j \in DOMAIN props' : props'[j] = e
        BY <1>0, <3>2 DEF Present
      <4>1. PICK i \in DOMAIN props : props[i] = e
        BY <3>1 DEF Present
      <4>2. i # idx
        BY <1>2, <2>3, <4>1
      <4>3. PICK j \in DOMAIN props' : old(j) = i
        BY <3>6, <4>2
      <4> QED
        BY <3>4, <4>1, <4>3
    <3> QED
      BY <3>8, <3>9, <3>10
  <2> QED
    BY <1>0, <2>1, <2>2, <2>3 DEF PropsInv
<1>3. Distinct => (Matches(props[idx]) <=> props[idx].name = Current)
  BY <1>0, MatchesName, PropsFields DEF PropsInv
<1> QED
  BY <1>1, <1>2, <1>3 DEF Enumerate

LEMMA OverrideKeeps ==
  ASSUME PropsInv, Override
  PROVE  PropsInv'
<1> DEFINE new == [name |-> Current, by |-> "user"]
<1>0. /\ PropsTypeOK /\ IsInjective(user) /\ UNCHANGED <<found, user>> /\ More
      /\ idx' = 1 /\ applied' = applied + 1 /\ idx > Len(props) /\ new \in Entry
      /\ Len(props) \in Nat /\ DOMAIN props = 1..Len(props)
  BY PropsFields DEF PropsInv, Override, Entry
<1>1. /\ props' \in Seq(Entry) /\ Len(props') = Len(props) + 1
      /\ DOMAIN props' = 1..(Len(props) + 1)
      /\ \A i \in 1..Len(props) : props'[i] = props[i]
      /\ props'[Len(props) + 1] = new
  BY <1>0, AppendProperties, LenProperties DEF Override, PropsTypeOK
<1>2. PropsTypeOK'
  BY <1>0, <1>1, PropsFields DEF PropsTypeOK, More
<1>3. Distinct' => Distinct
  BY <1>0 DEF Distinct
<1>4. ASSUME Distinct
      PROVE  Justified' /\ Present' /\ Ahead' /\ NamesOnce' /\ InTheirOrder'
  <2>1. Justified /\ Present /\ Ahead /\ NamesOnce /\ InTheirOrder
    BY <1>4 DEF PropsInv
  <2>2. \A i \in DOMAIN props : props[i].name # Current
    BY <1>0, <2>1, PropsFields DEF Ahead
  <2>3. All' = All
    BY <1>0 DEF All
  <2>4. new.name = Current /\ new.by = "user" /\ Current = user[applied + 1]
        /\ applied + 1 \in 1..Len(user) /\ applied \in Nat
    BY <1>0, PropsFields DEF Current
  <2> HIDE DEF new
  <2>5. \A e : Stays(e)' <=> \/ Stays(e) /\ (e.by # "user" => e.name # Current)
                             \/ e.by = "user" /\ e.name = Current
    BY <1>0, <2>4 DEF Stays
  <2>6. Justified'
    BY <1>0, <1>1, <2>1, <2>2, <2>4, <2>5 DEF Justified
  <2>7. Ahead'
    BY <1>0, <1>1, PropsFields DEF Ahead
  <2>8. NamesOnce'
    BY <1>0, <1>1, <2>1, <2>2, <2>4 DEF NamesOnce
  <2>9. Present'
    <3> SUFFICES ASSUME NEW e \in Entry, Stays(e)'
                 PROVE  \E j \in DOMAIN props' : props'[j] = e
      BY DEF Present
    <3>1. CASE e.name # Current
      <4>1. PICK i \in DOMAIN props : props[i] = e
        BY <2>1, <2>5, <3>1 DEF Present
      <4> QED
        BY <1>0, <1>1, <4>1
    <3>2. CASE e.name = Current
      <4>1. e.by = "user"
        BY <2>5, <3>2
      <4>2. e = new
        BY <3>2, <4>1 DEF Entry, new
      <4> QED
        BY <1>0, <1>1, <4>2
    <3> QED
      BY <3>1, <3>2
  <2>10. InTheirOrder'
    <3> SUFFICES ASSUME NEW i \in DOMAIN props', NEW j \in DOMAIN props', i < j
                 PROVE  \E a, b \in DOMAIN All : a < b /\ props'[i] = All[a] /\ props'[j] = All[b]
      BY <2>3 DEF InTheirOrder
    <3>1. CASE j <= Len(props)
      BY <1>0, <1>1, <2>1, <3>1 DEF InTheirOrder
    <3>2. CASE j = Len(props) + 1
      <4> DEFINE b == Len(found) + (applied + 1)
      <4>1. i \in DOMAIN props /\ props'[i] = props[i] /\ props'[j] = new
        BY <1>0, <1>1, <3>2
      <4>2. b \in DOMAIN All /\ All[b] = new
        <5>1. b \in DOMAIN All
          BY <1>0, <2>4, AllIs, PropsFields
        <5>2. All[b] = [name |-> user[applied + 1], by |-> "user"]
          BY <1>0, <2>4, AllIs
        <5> QED
          BY <2>4, <5>1, <5>2 DEF new
      <4>3. \E a \in DOMAIN All : a < b /\ All[a] = props[i]
        <5>0. props[i] \in Entry /\ Stays(props[i])
          BY <1>0, <2>1, <4>1, PropsFields DEF Justified
        <5>1. CASE props[i].by = "user"
          <6>1. PICK c \in 1..applied : props[i].name = user[c]
            BY <5>0, <5>1 DEF Stays
          <6>2. c \in 1..Len(user) /\ Len(found) + c < b /\ Len(found) + c \in DOMAIN All
            BY <1>0, <2>4, AllIs, PropsFields
          <6>3. All[Len(found) + c] = props[i]
            BY <1>0, <5>0, <5>1, <6>1, <6>2, AllIs DEF Entry
          <6> QED
            BY <6>2, <6>3
        <5>2. CASE props[i].by = "host"
          <6>1. PICK a \in DOMAIN found : props[i].name = found[a]
            BY <5>0, <5>2 DEF Stays, ToSet
          <6>2. a \in 1..Len(found) /\ a < b /\ a \in DOMAIN All
            BY <1>0, <2>4, AllIs, PropsFields
          <6>3. All[a] = props[i]
            BY <1>0, <5>0, <5>2, <6>1, <6>2, AllIs DEF Entry
          <6> QED
            BY <6>2, <6>3
        <5> QED
          BY <5>0, <5>1, <5>2 DEF Entry
      <4> QED
        BY <4>1, <4>2, <4>3
    <3> QED
      BY <1>0, <1>1, <3>1, <3>2
  <2> QED
    BY <2>6, <2>7, <2>8, <2>9, <2>10
<1> QED
  BY <1>0, <1>2, <1>3, <1>4 DEF PropsInv

LEMMA PropsBegin == ASSUME PropsAssumption, PropsInit PROVE PropsInv
<1>1. /\ found \in Seq(Names) /\ user \in Seq(Names) /\ IsInjective(user)
      /\ Len(found) \in Nat /\ Len(user) \in Nat
      /\ DOMAIN found = 1..Len(found)
  <2>1. found \in SeqOf(Names, MaxFound) /\ user \in SeqOf(Names, MaxUser) /\ IsInjective(user)
    BY DEF PropsInit
  <2>2. \A n \in Nat : SeqOf(Names, n) \subseteq Seq(Names)
    BY SeqDef DEF SeqOf
  <2>3. found \in Seq(Names) /\ user \in Seq(Names)
    BY <2>1, <2>2 DEF PropsAssumption
  <2> QED
    BY <2>1, <2>3, LenProperties
<1>2. \A i \in 1..Len(found) : found[i] \in Names
  BY <1>1, ElementOfSeq
<1>3. /\ props = [i \in 1..Len(found) |-> [name |-> found[i], by |-> "host"]]
      /\ idx = 1 /\ applied = 0
  BY <1>1 DEF PropsInit, Entries
<1>4. props \in [1..Len(found) -> Entry]
  BY <1>2, <1>3 DEF Entry
<1>5. props \in Seq(Entry) /\ Len(props) = Len(found) /\ DOMAIN props = 1..Len(found)
  BY <1>1, <1>4, SeqDef, LenProperties
<1>6. PropsTypeOK
  BY <1>1, <1>3, <1>5 DEF PropsTypeOK
<1>7. \A i \in 1..Len(found) : props[i].name = found[i] /\ props[i].by = "host"
  BY <1>3
<1>8. ASSUME Distinct
      PROVE  Justified /\ Present /\ Ahead /\ NamesOnce /\ InTheirOrder
  <2>1. Justified
    BY <1>1, <1>3, <1>5, <1>7 DEF Justified, Stays, ToSet
  <2>2. Present
    <3> SUFFICES ASSUME NEW e \in Entry, Stays(e) PROVE \E i \in DOMAIN props : props[i] = e
      BY DEF Present
    <3>1. e.by = "host" /\ e.name \in ToSet(found)
      BY <1>3 DEF Stays, Entry
    <3>2. PICK i \in 1..Len(found) : e.name = found[i]
      BY <1>1, <3>1 DEF ToSet
    <3> QED
      BY <1>3, <1>5, <3>1, <3>2 DEF Entry
  <2>3. Ahead
    BY <1>3, <1>5 DEF Ahead
  <2>4. NamesOnce
    BY <1>1, <1>5, <1>7, <1>8 DEF NamesOnce, Distinct, IsInjective
  <2>5. InTheirOrder
    <3>1. \A i \in DOMAIN props : i \in DOMAIN All /\ All[i] = props[i]
      BY <1>1, <1>3, <1>5, <1>6, AllIs
    <3> QED
      BY <3>1 DEF InTheirOrder
  <2> QED
    BY <2>1, <2>2, <2>3, <2>4, <2>5
<1> QED
  BY <1>1, <1>6, <1>8 DEF PropsInv

\* The invariant holds for any names, however one is part of another.
LEMMA PropsInvariance == ASSUME PropsAssumption PROVE PropsSpec => []PropsInv
<1>1. PropsInit => PropsInv
  BY PropsBegin
<1>2. PropsInv /\ [PropsNext]_propsVars => PropsInv'
  <2> SUFFICES ASSUME PropsInv, [PropsNext]_propsVars PROVE PropsInv'
    OBVIOUS
  <2>1. CASE UNCHANGED propsVars
    <3>1. UNCHANGED <<found, user, props, idx, applied>>
      BY <2>1 DEF propsVars
    <3>2. PropsTypeOK' = PropsTypeOK /\ Distinct' = Distinct /\ More' = More /\ Current' = Current
      BY <3>1 DEF PropsTypeOK, Distinct, More, Current
    <3>3. /\ \A e : Stays(e)' = Stays(e)
          /\ InTheirOrder' = InTheirOrder /\ NamesOnce' = NamesOnce
      BY <3>1 DEF Stays, InTheirOrder, All, NamesOnce
    <3>4. Justified' = Justified /\ Present' = Present /\ Ahead' = Ahead
      BY <3>1, <3>2, <3>3 DEF Justified, Present, Ahead
    <3> QED
      BY <3>1, <3>2, <3>3, <3>4 DEF PropsInv
  <2> QED
    BY <2>1, EnumerateKeeps, OverrideKeeps DEF PropsNext
<1> QED
  BY <1>1, <1>2, PTL DEF PropsSpec

\* The list of properties and the enumeration stay well typed: its place is never more
\* than two past the end, where the removal of the last entry leaves it.
THEOREM PropsTyping == ASSUME PropsAssumption PROVE PropsSpec => []PropsTypeOK
<1>1. PropsInv => PropsTypeOK
  BY DEF PropsInv
<1> QED
  BY <1>1, PropsInvariance, PTL

\* Whatever the host has and the [properties] of waydroid.cfg say (lxc.make_base_props),
\* removing entries from the list that is enumerated loses none and forgets none, if
\* names are distinct and not parts of each other.
THEOREM OverrideSafety == ASSUME PropsAssumption PROVE PropsSpec => []PropertiesOverride
<1>1. PropsInv => PropertiesOverride
  <2> SUFFICES ASSUME PropsInv, ~More, Distinct
               PROVE  /\ ToSet(props) = {e \in ToSet(All) : e.by = "host" => e.name \notin ToSet(user)}
                      /\ IsInjective(props) /\ InTheirOrder
    BY DEF PropertiesOverride
  <2>0. PropsTypeOK /\ Justified /\ Present /\ NamesOnce /\ InTheirOrder
    BY DEF PropsInv
  <2>1. applied = Len(user) /\ ToSet(user) = {user[b] : b \in 1..applied}
    BY <2>0, PropsFields DEF More, ToSet
  <2>2. IsInjective(props)
    BY <2>0 DEF NamesOnce, IsInjective
  <2>3. \A e \in Entry : e \in ToSet(All) <=> IF e.by = "user" THEN e.name \in ToSet(user)
                                              ELSE e.name \in ToSet(found)
    <3> SUFFICES ASSUME NEW e \in Entry
                 PROVE  e \in ToSet(All) <=> IF e.by = "user" THEN e.name \in ToSet(user)
                                             ELSE e.name \in ToSet(found)
      OBVIOUS
    <3>0. /\ Len(found) \in Nat /\ DOMAIN found = 1..Len(found)
          /\ Len(user) \in Nat /\ DOMAIN user = 1..Len(user)
      BY <2>0, PropsFields
    <3>1. ASSUME NEW a \in DOMAIN All, All[a] = e
          PROVE  IF e.by = "user" THEN e.name \in ToSet(user) ELSE e.name \in ToSet(found)
      <4>1. CASE a <= Len(found)
        <5>1. a \in 1..Len(found)
          BY <2>0, <3>0, <4>1, AllIs
        <5>2. All[a] = [name |-> found[a], by |-> "host"]
          BY <2>0, <5>1, AllIs
        <5> QED
          BY <3>0, <3>1, <5>1, <5>2 DEF ToSet
      <4>2. CASE ~(a <= Len(found))
        <5>1. a - Len(found) \in 1..Len(user) /\ Len(found) + (a - Len(found)) = a
          BY <2>0, <3>0, <4>2, AllIs
        <5>2. All[a] = [name |-> user[a - Len(found)], by |-> "user"]
          BY <2>0, <5>1, AllIs
        <5> QED
          BY <3>0, <3>1, <5>1, <5>2 DEF ToSet
      <4> QED
        BY <4>1, <4>2
    <3>2. CASE e.by = "user" /\ e.name \in ToSet(user)
      <4>1. PICK b \in 1..Len(user) : user[b] = e.name
        BY <3>0, <3>2 DEF ToSet
      <4>2. Len(found) + b \in DOMAIN All /\ All[Len(found) + b] = e
        BY <2>0, <3>0, <3>2, <4>1, AllIs DEF Entry
      <4> QED
        BY <3>2, <4>2 DEF ToSet
    <3>3. CASE e.by = "host" /\ e.name \in ToSet(found)
      <4>1. PICK a \in 1..Len(found) : found[a] = e.name
        BY <3>0, <3>3 DEF ToSet
      <4>2. a \in DOMAIN All /\ All[a] = e
        BY <2>0, <3>0, <3>3, <4>1, AllIs DEF Entry
      <4> QED
        BY <3>3, <4>2 DEF ToSet
    <3>4. e \in ToSet(All) <=> \E a \in DOMAIN All : All[a] = e
      BY DEF ToSet
    <3>5. e.by \in {"host", "user"}
      BY DEF Entry
    <3> QED
      BY <3>1, <3>2, <3>3, <3>4, <3>5
  <2>4. ToSet(All) \subseteq Entry
    <3>0. /\ Len(found) \in Nat /\ DOMAIN found = 1..Len(found)
          /\ Len(user) \in Nat /\ DOMAIN user = 1..Len(user)
          /\ \A i \in 1..Len(found) : found[i] \in Names
          /\ \A i \in 1..Len(user) : user[i] \in Names
      BY <2>0, PropsFields
    <3> SUFFICES ASSUME NEW a \in DOMAIN All PROVE All[a] \in Entry
      BY DEF ToSet
    <3>1. CASE a <= Len(found)
      <4>1. a \in 1..Len(found)
        BY <2>0, <3>0, <3>1, AllIs
      <4>2. All[a] = [name |-> found[a], by |-> "host"]
        BY <2>0, <4>1, AllIs
      <4> QED
        BY <3>0, <4>1, <4>2 DEF Entry
    <3>2. CASE ~(a <= Len(found))
      <4>1. a - Len(found) \in 1..Len(user) /\ Len(found) + (a - Len(found)) = a
        BY <2>0, <3>0, <3>2, AllIs
      <4>2. All[a] = [name |-> user[a - Len(found)], by |-> "user"]
        BY <2>0, <4>1, AllIs
      <4> QED
        BY <3>0, <4>1, <4>2 DEF Entry
    <3> QED
      BY <3>1, <3>2
  <2>5. ToSet(props) \subseteq Entry
    BY <2>0, PropsFields DEF ToSet
  <2>6. \A e \in Entry : e \in ToSet(props) <=> Stays(e)
    BY <2>0 DEF Justified, Present, ToSet
  <2>7. \A e \in Entry : Stays(e) <=> e \in ToSet(All) /\ (e.by = "host" => e.name \notin ToSet(user))
    <3>1. \A e \in Entry : e.by \in {"host", "user"}
      BY DEF Entry
    <3> QED
      BY <2>1, <2>3, <3>1 DEF Stays
  <2> QED
    BY <2>0, <2>2, <2>4, <2>5, <2>6, <2>7
<1> QED
  BY <1>1, PropsInvariance, PTL
=============================================================================
