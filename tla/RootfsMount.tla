---------------------------- MODULE RootfsMount ----------------------------
(***************************************************************************)
(* The container's root file system (tools/helpers/mount.py and            *)
(* images.mount_rootfs): up to eight mounts that lie on and below each     *)
(* other, made one command at a time by the container service and undone   *)
(* by it or by root's "waydroid container stop".  Commands fail and        *)
(* processes are killed between them, and what they leave is found by the  *)
(* next one.  Two may unmount at once; that root unmounts below a service  *)
(* that is mounting is left out.                                           *)
(***************************************************************************)
EXTENDS Naturals, SequencesExt

CONSTANTS Service,        \* the container service
          Root,           \* root's commands
          MountFaultSets, \* subsets of {"fail", "kill", "beside"}
          MaxMounts       \* bound: no command begins with more mounts than this

Callers == {Service, Root}

MountAssumption ==
  Service # Root /\ MountFaultSets \subseteq SUBSET {"fail", "kill", "beside"}

VARIABLES mountFaults, \* what may happen in this behaviour; it never changes
          dirs,        \* the directories of the host's vendor that are bound; as above
          mounts,      \* /proc/mounts: [at, what], oldest first
          overlays,    \* mount_overlays in waydroid.cfg
          caller       \* what each caller does

mountVars == <<mountFaults, dirs, mounts, overlays, caller>>

\* The mount points in the order of list.sort(reverse=True).
Order  == <<"prop", "egl64", "egl", "vendor", "odm", "rootfs">>
Points == ToSet(Order)
Below(a, b) == \/ b = "rootfs" /\ a # "rootfs"
               \/ b = "vendor" /\ a \in {"prop", "egl", "egl64"}

\* mount_rootfs, in order.
Program == <<[at |-> "rootfs", what |-> "image"], [at |-> "rootfs", what |-> "overlay"],
             [at |-> "vendor", what |-> "image"], [at |-> "vendor", what |-> "overlay"],
             [at |-> "egl",    what |-> "bind"],  [at |-> "egl64",  what |-> "bind"],
             [at |-> "odm",    what |-> "bind"],  [at |-> "prop",   what |-> "file"]>>

Mount  == [at : Points, what : {"image", "overlay", "bind", "file"}]

\* The sorted list of umount_all is what it was read with (all) and how many of each
\* mount point are still to be unmounted (left).
Caller == [pc : {"idle", "umount", "mount", "mounted", "unmounted", "failed"},
           op : {"mount", "umount"}, left : [Points -> Nat], all : SUBSET Points,
           step : 1..Len(Program), overlays : BOOLEAN]

MountTypeOK ==
  /\ mountFaults \in MountFaultSets
  /\ dirs \subseteq {"egl", "egl64", "odm"}
  /\ mounts \in Seq(Mount)
  /\ overlays \in BOOLEAN
  /\ caller \in [Callers -> Caller]

NoneLeft == [pt \in Points |-> 0]

\* A caller that is not at work.
Resting(pc) == [pc |-> pc, op |-> "umount", left |-> NoneLeft, all |-> {}, step |-> 1,
                overlays |-> TRUE]

MountInit ==
  /\ mountFaults \in MountFaultSets
  /\ dirs \in SUBSET {"egl", "egl64", "odm"}
  /\ mounts = <<>>
  /\ overlays \in BOOLEAN
  /\ caller = [p \in Callers |-> Resting("idle")]

-----------------------------------------------------------------------------
(* The kernel.                                                              *)

IsMount(pt) == \E i \in DOMAIN mounts : mounts[i].at = pt

Top(pt) == {i \in DOMAIN mounts :
              /\ mounts[i].at = pt
              /\ \A j \in DOMAIN mounts : mounts[j].at = pt => j <= i}
Busy(i) == \E j \in DOMAIN mounts : j > i /\ Below(mounts[j].at, mounts[i].at)

-----------------------------------------------------------------------------
(* umount_all. *)

\* How often a mount point is there.
Times(pt, stack) == Cardinality({i \in DOMAIN stack : stack[i].at = pt})

\* A slip: a prefix that ends in a slash, which rootfs itself has not got.
ListedBelow(pt) == [q \in Points |-> IF Below(q, pt) THEN Times(q, mounts) ELSE 0]

\* umount_all_list: a mount point is listed as often as it is mounted.
Listed(pt) == [q \in Points |-> IF q = pt \/ Below(q, pt) THEN Times(q, mounts) ELSE 0]

\* A slip: ascending order.
FirstAscending(left) ==
  Order[CHOOSE i \in DOMAIN Order : /\ left[Order[i]] > 0
                                    /\ \A j \in (i + 1)..Len(Order) : left[Order[j]] = 0]

\* The next mount point of the list.
First(left) ==
  Order[CHOOSE i \in DOMAIN Order : /\ left[Order[i]] > 0
                                    /\ \A j \in 1..(i - 1) : left[Order[j]] = 0]

Ready(p)   == caller[p].pc \notin {"umount", "mount"}
Fail(p)    == /\ caller' = [caller EXCEPT ![p] = Resting("failed")]
              /\ UNCHANGED <<mounts, overlays>>

\* A slip: rootfs is mounted over whatever is there.
ClearedForce == NoneLeft

\* What mount(umount=True) unmounts before it mounts the system image.
Cleared == IF IsMount("rootfs") THEN Listed("rootfs") ELSE NoneLeft

Others(p, op) == \A q \in Callers \ {p} :
  Ready(q) \/ ("beside" \in mountFaults /\ op = "umount" /\ caller[q].op = "umount")

BeginWork(p, op) ==
  /\ Ready(p) /\ Others(p, op)
  /\ Len(mounts) <= MaxMounts
  /\ LET left == IF op = "umount" THEN Listed("rootfs") ELSE Cleared
     IN  caller' = [caller EXCEPT ![p] =
                      [pc |-> "umount", op |-> op, left |-> left,
                       all |-> {pt \in Points : left[pt] > 0},
                       step |-> 1, overlays |-> overlays]]
  /\ UNCHANGED <<mounts, overlays>>

Umount(p) ==
  /\ caller[p].pc = "umount" /\ caller[p].left # NoneLeft
  /\ LET pt  == First(caller[p].left)
         top == Top(pt)
     IN  \/ \E i \in top : /\ ~Busy(i)
                           /\ mounts' = RemoveAt(mounts, i)
                           /\ caller' = [caller EXCEPT ![p].left[pt] = @ - 1]
                           /\ UNCHANGED overlays
         \/ /\ "fail" \in mountFaults \/ top = {} \/ \E i \in top : Busy(i)
            /\ Fail(p)

\* The mount points that were listed must be none now.
UmountCheck(p) ==
  /\ caller[p].pc = "umount" /\ caller[p].left = NoneLeft
  /\ IF \E pt \in caller[p].all : IsMount(pt)
     THEN Fail(p)
     ELSE /\ caller' = IF caller[p].op = "mount" THEN [caller EXCEPT ![p].pc = "mount"]
                       ELSE [caller EXCEPT ![p] = Resting("unmounted")]
          /\ UNCHANGED <<mounts, overlays>>

-----------------------------------------------------------------------------
(* mount_rootfs. *)

Wants(on, item) == /\ item.what = "overlay" => on
                   /\ item.what = "bind" => item.at \in dirs

\* bind and bind_file leave a mount point alone that is one; mount does not.
Skips(p, item) == \/ ~Wants(caller[p].overlays, item)
                  \/ item.what \in {"bind", "file"} /\ IsMount(item.at)

\* A slip: the last mount is followed by another.
AdvancePast(p) == IF caller[p].step > Len(Program)
                  THEN [caller EXCEPT ![p] = Resting("mounted")]
                  ELSE [caller EXCEPT ![p].step = @ + 1]

Advance(p) == IF caller[p].step = Len(Program)
              THEN [caller EXCEPT ![p] = Resting("mounted")]
              ELSE [caller EXCEPT ![p].step = @ + 1]

MountStep(p) ==
  /\ caller[p].pc = "mount"
  /\ LET item == Program[caller[p].step]
     IN  /\ mounts' = IF Skips(p, item) THEN mounts ELSE Append(mounts, item)
         /\ caller' = Advance(p)
         /\ UNCHANGED overlays

\* The overlay of the system is given up, and waydroid.cfg says so from then
\* on; every other failure, the vendor's overlay included, is the caller's.
MountFails(p) ==
  /\ "fail" \in mountFaults
  /\ caller[p].pc = "mount"
  /\ LET item == Program[caller[p].step]
     IN  /\ ~Skips(p, item) \/ item.what = "file"
         /\ IF item = [at |-> "rootfs", what |-> "overlay"]
            THEN /\ overlays' = FALSE
                 /\ caller' = [Advance(p) EXCEPT ![p].overlays = FALSE]
                 /\ UNCHANGED mounts
            ELSE Fail(p)

KillCaller(p) ==
  /\ "kill" \in mountFaults
  /\ ~Ready(p)
  /\ caller' = [caller EXCEPT ![p] = Resting("idle")]
  /\ UNCHANGED <<mounts, overlays>>

MountNext ==
  /\ \/ \E op \in {"mount", "umount"} : BeginWork(Service, op)
     \/ BeginWork(Root, "umount")
     \/ \E p \in Callers : Umount(p) \/ UmountCheck(p) \/ KillCaller(p)
     \/ MountStep(Service) \/ MountFails(Service)
  /\ UNCHANGED <<mountFaults, dirs>>

MountSpec == MountInit /\ [][MountNext]_mountVars

-----------------------------------------------------------------------------
(* What the mounts promise.                                                 *)

Wanted == {item \in ToSet(Program) : Wants(overlays, item)}

\* The mounts lie on each other as mount_rootfs makes them, each once.
InOrder == \A i, j \in DOMAIN mounts : i < j =>
             \E k, l \in DOMAIN Program :
               k < l /\ mounts[i] = Program[k] /\ mounts[j] = Program[l]

\* A mount_rootfs that returns has made exactly the mounts it is for, each once
\* and in order, whatever an earlier one that was killed or failed had left.
MountedExactly ==
  [][(caller[Service].pc = "mount" /\ caller'[Service].pc = "mounted")
       => ToSet(mounts') = Wanted' /\ InOrder']_mountVars

\* An umount_rootfs that returns has left nothing, also when another one has taken
\* mounts away under it.
UnmountedEntirely ==
  [][\A p \in Callers :
       (caller[p].pc = "umount" /\ caller'[p].pc = "unmounted")
         => mounts' = <<>>]_mountVars

\* What a killed caller has left never makes the next one fail: mounts are undone
\* from the inside out, so that none is busy with another.
LeftoversAreUndone ==
  (\E p \in Callers : caller[p].pc = "failed") => mountFaults \cap {"fail", "beside"} # {}
=============================================================================
