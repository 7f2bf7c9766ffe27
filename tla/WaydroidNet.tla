---------------------------- MODULE WaydroidNet ----------------------------
(***************************************************************************)
(* The container's private network, data/scripts/waydroid-net.sh: a        *)
(* bridge with an address, firewall rules and a dnsmasq, and a file that   *)
(* says that all of it is there.  The container service runs the script to *)
(* start and to stop the network, root's commands to stop it.  A command   *)
(* of it may fail, and the script may be terminated or killed anywhere.    *)
(***************************************************************************)
EXTENDS Naturals, Sequences

CONSTANTS StartScript,  \* the script the service runs
          StopScript,   \* the one of root
          Rules,        \* the firewall rules, in the order they are made
          NetFaultSets, \* subsets of {"fail", "kill", "beside"}
          MaxCopies     \* bound: how often one rule is counted

Scripts == {StartScript, StopScript}

NetAssumption ==
  /\ StartScript # StopScript
  /\ NetFaultSets \subseteq SUBSET {"fail", "kill", "beside"}
  /\ Len(Rules) \in Nat \ {0} /\ MaxCopies \in Nat \ {0}

VARIABLES netFaults, \* what may happen in this behaviour; it never changes
          nft,       \* nftables rather than iptables; as above
          bridge,    \* the bridge: absent, down or up with its address
          ports,     \* the container's interface is attached to it
          rules,     \* how many copies of each rule there are
          dnsmasq,   \* it runs, and its pid is in the file
          up,        \* the file network_up
          script     \* what each script does

netVars == <<netFaults, nft, bridge, ports, rules, dnsmasq, up, script>>
net     == <<bridge, rules, dnsmasq, up>>

Rule == 1..Len(Rules)

NetTypeOK ==
  /\ netFaults \in NetFaultSets
  /\ nft \in BOOLEAN /\ ports \in BOOLEAN
  /\ bridge \in {"absent", "down", "up"}
  /\ rules \in [Rule -> 0..MaxCopies]
  /\ dnsmasq \in BOOLEAN /\ up \in BOOLEAN
  /\ script \in [Scripts -> [pc : {"idle", "ok", "error", "killed", "link", "ifup", "rules",
                                   "dnsmasq", "touch", "ifdown", "unrule", "undns",
                                   "unlink", "rm"},
                             then : {"ok", "error", "link"}, rule : 1..(Len(Rules) + 1)]]

NetInit ==
  /\ netFaults \in NetFaultSets
  /\ nft \in BOOLEAN
  /\ bridge = "absent"
  /\ ports = FALSE
  /\ rules = [r \in Rule |-> 0]
  /\ dnsmasq = FALSE
  /\ up = FALSE
  /\ script = [s \in Scripts |-> [pc |-> "idle", then |-> "ok", rule |-> 1]]

-----------------------------------------------------------------------------
Rests(s)    == script[s].pc \in {"idle", "ok", "error", "killed"}
At(s, pc)   == script[s].pc = pc
Goto(s, pc) == script' = [script EXCEPT ![s].pc = pc, ![s].rule = 1]

\* stop without and with a bridge, and what the script does after it.
Undo(s, then) == script' = [script EXCEPT ![s].pc = IF bridge # "absent" THEN "ifdown" ELSE "rm",
                                          ![s].then = then, ![s].rule = 1]

Serial == "beside" \in netFaults \/ \A s \in Scripts : Rests(s)

\* A stop is at work.
Stopping == \E s \in Scripts : ~Rests(s) /\ script[s].then = "ok"

\* The first command of start after its trap.
Set(s) == script' = [script EXCEPT ![s].pc = "link", ![s].then = "link", ![s].rule = 1]

\* A slip: a bridge that is left over is taken as it is.
StartOverLeftover(s) ==
  /\ Rests(s) /\ Serial
  /\ IF up THEN Goto(s, "ok") ELSE Set(s)
  /\ UNCHANGED net

\* start: nothing to do, or what a killed script has left is undone first.
Start(s) ==
  /\ Rests(s) /\ Serial
  /\ CASE up                         -> Goto(s, "ok")
       [] ~up /\ bridge # "absent" -> Undo(s, "link")
       [] ~up /\ bridge = "absent" -> Set(s)
  /\ UNCHANGED net

\* stop: an error if the network is not up.  Two at once are left out.
Stop(s) ==
  /\ Rests(s) /\ Serial /\ ~Stopping
  /\ IF up THEN Undo(s, "ok") ELSE Goto(s, "error")
  /\ UNCHANGED net

-----------------------------------------------------------------------------
(* start, from its trap on. *)

Link(s) == /\ At(s, "link")
           /\ bridge' = IF bridge = "absent" THEN "down" ELSE bridge
           /\ Goto(s, "ifup")
           /\ UNCHANGED <<rules, dnsmasq, up>>

IfUp(s) == /\ At(s, "ifup") /\ bridge # "absent"
           /\ bridge' = "up"
           /\ Goto(s, "rules")
           /\ UNCHANGED <<rules, dnsmasq, up>>

\* One command for each rule of iptables; nft replaces its table in one.
AddRule(s) ==
  /\ At(s, "rules")
  /\ LET r == script[s].rule
     IN  IF nft
         THEN rules' = [q \in Rule |-> 1] /\ Goto(s, "dnsmasq")
         ELSE /\ rules' = [rules EXCEPT ![r] = IF @ < MaxCopies THEN @ + 1 ELSE @]
              /\ IF r = Len(Rules) THEN Goto(s, "dnsmasq")
                 ELSE script' = [script EXCEPT ![s].rule = @ + 1]
  /\ UNCHANGED <<bridge, dnsmasq, up>>

\* A second dnsmasq finds the address in use.
Dnsmasq(s) == /\ At(s, "dnsmasq") /\ bridge = "up" /\ ~dnsmasq
              /\ dnsmasq' = TRUE
              /\ Goto(s, "touch")
              /\ UNCHANGED <<bridge, rules, up>>

Touch(s) == /\ At(s, "touch")
            /\ up' = TRUE
            /\ Goto(s, "ok")
            /\ UNCHANGED <<bridge, rules, dnsmasq>>

\* A slip: an error ends the script, which undoes nothing.
CleanupNever(s) == Goto(s, "error")

Cleanup(s) == Undo(s, "error")

\* A slip: whatever dnsmasq says, the network is up.
FailsUnlessDnsmasq(s) ==
  /\ script[s].pc \in {"link", "ifup", "rules", "touch", "dnsmasq"}
  /\ "fail" \in netFaults
  /\ IF At(s, "dnsmasq") THEN Goto(s, "touch") ELSE Cleanup(s)
  /\ UNCHANGED net

\* A command that fails, and a signal but SIGKILL, ends in cleanup.
Fails(s) ==
  /\ script[s].pc \in {"link", "ifup", "rules", "touch", "dnsmasq"}
  /\ \/ "fail" \in netFaults
     \/ At(s, "ifup") /\ bridge = "absent"
     \/ At(s, "dnsmasq") /\ (bridge # "up" \/ dnsmasq)
  /\ Cleanup(s)
  /\ UNCHANGED net

-----------------------------------------------------------------------------
(* stop, which goes on when a command of it fails. *)

IfDown(s) == /\ At(s, "ifdown")
             /\ bridge' = IF bridge = "up" THEN "down" ELSE bridge
             /\ Goto(s, "unrule")
             /\ UNCHANGED <<rules, dnsmasq, up>>

\* -D takes one copy of a rule; nft deletes its table.
DeleteRule(s) ==
  /\ At(s, "unrule")
  /\ LET r == script[s].rule
     IN  IF nft
         THEN rules' = [q \in Rule |-> 0] /\ Goto(s, "undns")
         ELSE /\ rules' = [rules EXCEPT ![r] = IF @ > 0 THEN @ - 1 ELSE 0]
              /\ IF r = Len(Rules) THEN Goto(s, "undns")
                 ELSE script' = [script EXCEPT ![s].rule = @ + 1]
  /\ UNCHANGED <<bridge, dnsmasq, up>>

KillDnsmasq(s) == /\ At(s, "undns")
                  /\ dnsmasq' = FALSE
                  /\ Goto(s, "unlink")
                  /\ UNCHANGED <<bridge, rules, up>>

\* A bridge with interfaces attached is kept.
Unlink(s) == /\ At(s, "unlink")
             /\ bridge' = IF ports THEN bridge ELSE "absent"
             /\ Goto(s, "rm")
             /\ UNCHANGED <<rules, dnsmasq, up>>

RemoveUp(s) == /\ At(s, "rm")
               /\ up' = FALSE
               /\ Goto(s, script[s].then)
               /\ UNCHANGED <<bridge, rules, dnsmasq>>

-----------------------------------------------------------------------------
Killed(s) == /\ "kill" \in netFaults
             /\ ~Rests(s)
             /\ Goto(s, "killed")
             /\ UNCHANGED net

\* LXC attaches the container to the bridge and detaches it.
Attach == /\ bridge = "up" /\ ~ports /\ ports' = TRUE
Detach == ports /\ ports' = FALSE

NetNext ==
  /\ \/ /\ \/ Start(StartScript)
           \/ \E s \in Scripts :
                \/ Stop(s) \/ Link(s) \/ IfUp(s) \/ AddRule(s) \/ Dnsmasq(s) \/ Touch(s)
                \/ Fails(s) \/ IfDown(s) \/ DeleteRule(s) \/ KillDnsmasq(s) \/ Unlink(s)
                \/ RemoveUp(s) \/ Killed(s)
        /\ UNCHANGED ports
     \/ (Attach \/ Detach) /\ UNCHANGED <<net, script>>
  /\ UNCHANGED <<netFaults, nft>>

NetSpec == NetInit /\ [][NetNext]_netVars

-----------------------------------------------------------------------------
(* What the script promises.                                                *)

\* network_up means what it says while no script is at work: the bridge has its
\* address, each rule is there and dnsmasq answers.  Only a stop that is killed
\* leaves the file without the network.
UpIsComplete ==
  (up /\ "kill" \notin netFaults /\ \A s \in Scripts : Rests(s))
    => /\ bridge = "up" /\ dnsmasq
       /\ \A r \in Rule : rules[r] = 1

\* A start that fails leaves nothing behind but the bridge, down, of a
\* container that was attached to it, though it began with what a killed script had left.
FailedStartLeavesNothing ==
  [][\A s \in Scripts :
       (~Rests(s) /\ script'[s].pc = "error")
         => /\ ~up' /\ ~dnsmasq'
            /\ \A r \in Rule : rules'[r] = 0
            /\ bridge' # "up"]_netVars

\* Rules do not pile up, however often scripts are killed half way.
RulesOnce == \A r \in Rule : rules[r] <= 1
=============================================================================
