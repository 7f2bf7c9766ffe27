----------------------------- MODULE HostConfig -----------------------------
(***************************************************************************)
(* What waydroid concludes from its host: the vendor type and the binder   *)
(* protocols, the binder nodes and the graphics stack.  These are          *)
(* functions of the host; each is compared with what it is to compute on   *)
(* every host of a small world.                                            *)
(***************************************************************************)
EXTENDS Integers, SequencesExt, FiniteSets

CONSTANTS Versions, \* bound: the version numbers of hosts and images
          MaxCards  \* bound: the render nodes of a host

ConfigAssumption == Versions \subseteq Nat /\ MaxCards \in Nat

VARIABLE host \* a host, that is, the input of one of the functions below

NoNumber == -1 \* a property that is absent or no number

-----------------------------------------------------------------------------
(* Versions: get_vendor_type and set_aidl_version. *)

Halium(n, l) == [halium |-> n, l |-> l]
Mainline     == Halium(0, FALSE)

\* A slip: 12L is counted as a release of its own.
VendorTypeWithout12L(vndk, api) ==
  IF vndk > 19 THEN Halium(vndk - 19, vndk = 32)
  ELSE IF vndk = NoNumber /\ api > 32 THEN Halium(api - 20, FALSE) ELSE Mainline

VendorType(vndk, api) ==
  CASE vndk > 19                       -> Halium(IF vndk > 31 THEN vndk - 20 ELSE vndk - 19, vndk = 32)
    [] vndk = NoNumber /\ api > 32 -> Halium(api - 20, FALSE)
    [] OTHER                           -> Mainline

Protocols(api) ==
  CASE api < 28               -> [binder |-> "aidl",  sm |-> 1]
    [] api \in 28..29         -> [binder |-> "aidl2", sm |-> 2]
    [] api = 30               -> [binder |-> "aidl3", sm |-> 3]
    [] api \in 31..32         -> [binder |-> "aidl4", sm |-> 3]
    [] api \in 33..34         -> [binder |-> "aidl3", sm |-> 3]
    [] api = 35               -> [binder |-> "aidl3", sm |-> 5]
    [] api > 35               -> [binder |-> "aidl3", sm |-> 6]

VersionHosts == [case : {"version"}, vndk : {NoNumber} \cup Versions,
                 api : {NoNumber} \cup Versions]

-----------------------------------------------------------------------------
(* Binder nodes: probeBinderDriver, setupBinderNodes and loadBinderNodes.   *)

Kinds == {"binder", "vndbinder", "hwbinder"}

\* The names of each kind by their place in BINDER_DRIVERS and the like: the
\* first is what waydroid makes, the last what an Android host has itself.
OwnNode == 1
HostNode  == 4

\* "module": modprobe makes the devices it is asked for;  "binderfs": a mount
\* has the standard nodes and those that are allocated;  "bare": only those.
Kernels == {"none", "module", "binderfs", "bare"}

Lacking(dev) == {k \in Kinds : dev[k] = {}}

\* A slip: one kind that is there is taken for all of them.
ProbeAnyKind(dev, kernel) ==
  IF \E k \in Kinds : dev[k] # {} THEN dev ELSE [k \in Kinds |-> {OwnNode}]

Probe(dev, kernel) ==
  IF Lacking(dev) = {} \/ kernel = "none" THEN dev
  ELSE [k \in Kinds |-> dev[k] \cup (IF k \in Lacking(dev) THEN {OwnNode} ELSE {})
                               \cup (IF kernel = "binderfs" THEN {HostNode} ELSE {})]

\* A node of the host's own Android is not for waydroid.
Usable(dev, vendor) == [k \in Kinds |-> IF vendor = "MAINLINE" THEN dev[k] ELSE dev[k] \ {HostNode}]

\* The last one that is there is taken; the OSError is an empty function.
SetupNodes(dev, vendor) ==
  LET use == Usable(IF vendor = "MAINLINE" THEN Probe(dev, host.kernel) ELSE dev, vendor)
  IN  IF \E k \in Kinds : use[k] = {} THEN <<>>
      ELSE [k \in Kinds |-> CHOOSE n \in use[k] : \A m \in use[k] : m <= n]

\* What there is when the service prepares the drivers after the next boot.
Prepared(dev, vendor) == IF vendor = "MAINLINE" THEN Probe(dev, host.kernel) ELSE dev

NodeHosts == [case : {"nodes"}, native : [Kinds -> SUBSET {OwnNode, 2, HostNode}],
              kernel : Kernels, vendor : {"MAINLINE", "HALIUM"}, probed : BOOLEAN]

-----------------------------------------------------------------------------
(* Graphics: getDriNode, getVulkanDriver, make_base_props and               *)
(* generate_nodes_lxc_config.                                               *)

Drivers == {"i915", "xe", "amdgpu", "panfrost", "msm", "vc4", "nouveau", "nvidia", "other"}
Vulkans == [d \in Drivers |-> CASE d \in {"i915", "xe"} -> "intel"
                                [] d = "amdgpu"         -> "radeon"
                                [] d = "msm"            -> "freedreno"
                                [] d = "vc4"            -> "broadcom"
                                [] d \in {"panfrost", "nouveau"} -> d
                                [] OTHER                -> ""]

\* A configured drm_device that is not there is an OSError: init and upgrade end
\* with nothing concluded.
Raises(h) == h.drm > Len(h.cards)

\* The render node, 0 for none: the configured one or the first that is not
\* nvidia's.
DriNode(h) ==
  LET good == {i \in DOMAIN h.cards : h.cards[i] # "nvidia"}
  IN  IF h.drm # 0 THEN IF h.drm \in good THEN h.drm ELSE 0
      ELSE IF good = {} THEN 0 ELSE CHOOSE i \in good : \A j \in good : i <= j

\* find_hidl and find_aidl do not look on a mainline host.
HasHal(h) == h.hal \/ (h.vendor # "MAINLINE" /\ (h.hidl \/ h.aidl))

Gralloc(h) == CASE HasHal(h) -> "host"
                [] ~HasHal(h) /\ DriNode(h) # 0 -> "gbm"
                [] ~HasHal(h) /\ DriNode(h) = 0 -> "default"

Egl(h) == CASE Gralloc(h) = "host"    -> h.egl
            [] Gralloc(h) = "gbm"     -> "mesa"
            [] Gralloc(h) = "default" -> "swiftshader"

\* Old Intel GPUs have a driver of their own.
Vulkan(h) == CASE h.vulkan -> "host"
               [] ~h.vulkan /\ DriNode(h) = 0 -> ""
               [] ~h.vulkan /\ DriNode(h) # 0 ->
                    IF h.cards[DriNode(h)] = "i915" /\ h.old THEN "intel_hasvk"
                    ELSE Vulkans[h.cards[DriNode(h)]]

\* The render nodes the container gets.
BoundCards(h) == {DriNode(h)} \ {0}

GraphicsHosts == [case : {"graphics"}, cards : SeqOf(Drivers, MaxCards),
                  drm : 0..MaxCards, hal : BOOLEAN, hidl : BOOLEAN, aidl : BOOLEAN, vulkan : BOOLEAN, old : BOOLEAN,
                  egl : {"", "vendor"}, vendor : {"MAINLINE", "HALIUM"}]

-----------------------------------------------------------------------------
ConfigInit == host \in VersionHosts \cup NodeHosts \cup GraphicsHosts

\* A host stays what it is.
ConfigSpec == ConfigInit /\ [][UNCHANGED host]_host

-----------------------------------------------------------------------------
(* What the functions compute.                                              *)

Releases == [api \in 28..35 |-> CASE api = 28 -> 9 [] api = 29 -> 10 [] api = 30 -> 11
                                  [] api \in 31..32 -> 12 [] api = 33 -> 13
                                  [] api = 34 -> 14 [] api = 35 -> 15]

\* A Halium host is named after its Android release, 12L included, wherever its
\* version is taken from; a newer image never has an older service manager.
VersionsAreReleases ==
  host.case = "version" =>
    /\ host.vndk \in DOMAIN Releases =>
         VendorType(host.vndk, host.api) = Halium(Releases[host.vndk], host.vndk = 32)
    /\ (host.vndk = NoNumber /\ host.api \in 33..35) =>
         VendorType(host.vndk, host.api) = Halium(Releases[host.api], FALSE)
    /\ (0 <= host.vndk /\ host.vndk <= host.api) =>
         Protocols(host.vndk).sm <= Protocols(host.api).sm

\* A mainline host whose kernel has binder gets nodes of every kind, and the nodes
\* that init has written to waydroid.cfg are there again after a boot, whether
\* init looked before or after a service had made nodes.  Nodes of others must be
\* the same at each boot: a kind that has one of them is not made again.
NodesSurviveBoot ==
  host.case = "nodes" =>
    LET dev == IF host.probed THEN Prepared(host.native, host.vendor) ELSE host.native
        cfg == SetupNodes(dev, host.vendor)
    IN  /\ (host.vendor = "MAINLINE" /\ host.kernel # "none") => cfg # <<>>
        /\ cfg # <<>> => \A k \in Kinds :
             /\ cfg[k] \in Prepared(host.native, host.vendor)[k]
             /\ host.vendor = "HALIUM" => cfg[k] # HostNode

\* EGL, gralloc and Vulkan are of one stack: Mesa's on a render node that the
\* container has, the host's own, or software without any of them.
OneGraphicsStack ==
  (host.case = "graphics" /\ ~Raises(host)) =>
    /\ Gralloc(host) = "gbm" <=> Egl(host) = "mesa"
    /\ Gralloc(host) = "gbm" => \E i \in BoundCards(host) : host.cards[i] # "nvidia"
    /\ (Gralloc(host) = "default") => /\ Egl(host) = "swiftshader"
                                      /\ Vulkan(host) \in {"", "host"}
    /\ (Gralloc(host) = "host") => Egl(host) = host.egl

\* The versions and the graphics stack that Android is told of are the host's.
ConclusionsFit == VersionsAreReleases /\ OneGraphicsStack
=============================================================================
