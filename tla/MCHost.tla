------------------------------- MODULE MCHost -------------------------------
(***************************************************************************)
(* The host's side of a container for TLC: RootfsMount, WaydroidNet,       *)
(* ArmTranslation, CommandRunner, DesktopFiles, HostConfig and             *)
(* BaseProperties have no state in common.  A behaviour is one of one of   *)
(* them, named by part, while the others keep a fixed initial state: the   *)
(* sum of their state spaces, not the product.                             *)
(***************************************************************************)
EXTENDS RootfsMount, WaydroidNet, ArmTranslation, CommandRunner, DesktopFiles, HostConfig,
        BaseProperties

CONSTANTS svc, cli, old, new, bad

VARIABLE part

vars == <<part, mountVars, netVars, armVars, runVars, desktopVars, host, propsVars>>

HostMountFaults == {{}, {"kill"}, {"fail", "kill", "beside"}}

HostRules     == <<"dhcp", "forward", "nat">>
HostNetFaults == {{"fail", "beside"}, {"fail", "kill", "beside"}}

HostFiles     == {"bridge", "guest", "proxy", "runner"}
HostDirOf     == [f \in HostFiles |-> IF f = "runner" THEN "bin" ELSE "lib64"]
HostRequired  == {"bridge", "guest"}
HostContents  == [a \in {old, new, bad} |-> CASE a = old -> HostFiles
                                              [] a = new -> {"bridge", "guest"}
                                              [] a = bad -> {"bridge", "runner"}]
HostArmFaults == {{}, {"bad"}, {"bad", "fail", "disk", "kill"}, {"bad", "beside", "upgrade"}}

HostRunFaults == {{"hangs"}, {"hangs", "closes"}, {"perm"}}

HostVersions == 0..37

HostNames  == {"x", "y", "zx"}
HostWithin == {<<"x", "zx">>}

ASSUME HostAssumption ==
  /\ MountAssumption /\ NetAssumption /\ ArmAssumption
  /\ RunAssumption /\ DesktopAssumption /\ ConfigAssumption /\ PropsAssumption

\* A part that a behaviour is not about has one state.
Init ==
  /\ part \in {"rootfs", "net", "arm", "run", "desktop", "config", "props"}
  /\ MountInit /\ (part = "rootfs" \/ (mountFaults = {} /\ dirs = {} /\ overlays))
  /\ NetInit /\ (part = "net" \/ (netFaults = {"fail", "beside"} /\ nft))
  /\ ArmInit /\ (part = "arm" \/ armFaults = {})
  /\ RunInit /\ (part = "run" \/ (runFaults = {"hangs"} /\ mode.timeout /\ mode.check))
  /\ DesktopInit
  /\ part = "desktop" \/ (desktopFaults = {"kill"} /\ files = [p \in Packages |-> NoFile]
                            /\ packages = [p \in Packages |-> "absent"])
  /\ PropsInit /\ (part = "props" \/ (found = <<>> /\ user = <<>>))
  /\ IF part = "config" THEN ConfigInit ELSE host = [case |-> "none"]

Next ==
  \/ /\ part = "rootfs" /\ MountNext
     /\ UNCHANGED <<part, netVars, armVars, runVars, desktopVars, host, propsVars>>
  \/ /\ part = "net" /\ NetNext
     /\ UNCHANGED <<part, mountVars, armVars, runVars, desktopVars, host, propsVars>>
  \/ /\ part = "arm" /\ ArmNext
     /\ UNCHANGED <<part, mountVars, netVars, runVars, desktopVars, host, propsVars>>
  \/ /\ part = "run" /\ RunNext
     /\ UNCHANGED <<part, mountVars, netVars, armVars, desktopVars, host, propsVars>>
  \/ /\ part = "desktop" /\ DesktopNext
     /\ UNCHANGED <<part, mountVars, netVars, armVars, runVars, host, propsVars>>
  \/ /\ part = "props" /\ PropsNext
     /\ UNCHANGED <<part, mountVars, netVars, armVars, runVars, desktopVars, host>>

Spec == Init /\ [][Next]_vars /\ RunFair

-----------------------------------------------------------------------------
\* Every part's state is well typed.
TypeOK == MountTypeOK /\ NetTypeOK /\ ArmTypeOK /\ RunTypeOK /\ DesktopTypeOK /\ PropsTypeOK
=============================================================================
