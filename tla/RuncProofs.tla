------------------------------ MODULE RuncProofs ------------------------------
(***************************************************************************)
(* The theorems about Runc: the inductive invariant of RuncInv holds of    *)
(* every reachable state, for every set of launchers, every selection of   *)
(* controllers, every set of faults and every right to kill; the           *)
(* properties that follow from it; and Supervised, where no launcher is    *)
(* killed.                                                                 *)
(*                                                                         *)
(* CgroupProofs has the cgroups; first come here the network and user      *)
(* namespace parts of the invariant.  The argument: whoever touches the    *)
(* pair holds it or finds the name free, so the maker of a pair is the     *)
(* only one to change it while its child lives or its descriptor is open   *)
(* (lemma OthersKeep); what remains is what each launcher and child does   *)
(* to its own.                                                             *)
(***************************************************************************)
EXTENDS CgroupProofs

-----------------------------------------------------------------------------
(* What one step leaves alone.                                             *)

(* A launcher that has left prepare_netns()'s first request behind is      *)
(* alive, has a child and holds the pair.                                  *)
LEMMA Holder ==
    ASSUME NEW l \in Launchers, NetLocal(l),
           pc[l] \in (NetPoints \ {"veth"}) \cup Connected
    PROVE  /\ Alive(l) /\ cpc[l] # "none" /\ veth.maker = l
           /\ pc[l] \in BeforeMove => veth.peer = HostNs
           /\ pc[l] \notin BeforeMove => veth.peer = l /\ holds[l]
BY DEF NetLocal, LockInv, Alive, Ended, NetPoints, Connected, RulePoints, MapPoints

(* The names stay another launcher's, and its network as it was.           *)
LEMMA NetFrame ==
    ASSUME NEW m \in Launchers, NetLocal(m),
           pc'[m] = pc[m], at'[m] = at[m], holds'[m] = holds[m], cpc'[m] = cpc[m],
           netcfg'[m] = netcfg[m], veth.maker = m => veth' = veth
    PROVE  NetLocal(m)'
<1>1. LockInv(m)'
  BY DEF NetLocal, LockInv, Alive
<1>2. ConfInv(m)'
  <2>1. CASE pc[m] \in (NetPoints \ {"veth"}) \cup Connected
    BY <2>1, Holder DEF NetLocal, ConfInv
  <2>2. CASE pc[m] \notin (NetPoints \ {"veth"}) \cup Connected
    BY <2>2 DEF ConfInv, NetPoints, Connected, InsideChild
  <2> QED BY <2>1, <2>2
<1> QED BY <1>1, <1>2 DEF NetLocal

LEMMA UserNsFrame ==
    ASSUME NEW m \in Launchers, UserNsLocal(m),
           pc'[m] = pc[m] \/ pc'[m] \notin {"off", "clone"} \cup Building,
           cpc'[m] = cpc[m], userns'[m] = userns[m],
           uidmap'[m] = uidmap[m], gidmap'[m] = gidmap[m], creds'[m] = creds[m],
           ChildLive(m) /\ NetReady(m) => NetReady(m)'
    PROVE  UserNsLocal(m)'
BY DEF UserNsLocal, ChildLive

(* A step of launcher l, of its child, or of the kernel on their namespace *)
(* keeps the invariant when it keeps l's part of it.                       *)
LEMMA OthersKeep ==
    ASSUME NetInv, UserNsInv, NEW l \in Launchers,
           \A m \in Launchers : m # l =>
              /\ pc'[m] = pc[m] /\ cpc'[m] = cpc[m] /\ userns'[m] = userns[m]
              /\ uidmap'[m] = uidmap[m] /\ gidmap'[m] = gidmap[m] /\ creds'[m] = creds[m]
              /\ at'[m] = at[m] /\ holds'[m] = holds[m] /\ netcfg'[m] = netcfg[m],
           veth' = veth \/ veth.maker \in {l, NoOne},
           netcfg'[HostNs] = {},
           veth'.peer # HostNs => veth'.peer = veth'.maker,
           NetLocal(l)', UserNsLocal(l)'
    PROVE  NetInv' /\ UserNsInv'
<1>1. ASSUME NEW m \in Launchers, m # l PROVE NetLocal(m)' /\ UserNsLocal(m)'
  <2>1. veth.maker = m => veth' = veth
    BY <1>1, NoOneAssumption
  <2>2. NetReady(m) => NetReady(m)'
    <3>1. NetReady(m) => veth.maker = m
      BY DEF NetReady
    <3> QED BY <1>1, <2>1, <3>1 DEF NetReady
  <2> QED BY <1>1, <2>1, <2>2, NetFrame, UserNsFrame DEF NetInv, UserNsInv
<1> QED BY <1>1 DEF NetInv, UserNsInv, HostNs

-----------------------------------------------------------------------------
(* One lemma per kind of network step.                                     *)

(* The pair is made where there is none.                                   *)
LEMMA CreatePairInv ==
    ASSUME TypeOK, NetInv, UserNsInv, NEW l \in Launchers,
           CreatePair(l), UNCHANGED usernsVars
    PROVE  NetInv' /\ UserNsInv'
<1>1. /\ pc[l] = "veth" /\ pc'[l] = "hostaddr" /\ \A m \in Launchers : m # l => pc'[m] = pc[m]
      /\ veth' = [maker |-> l, peer |-> HostNs, conf |-> {}]
      /\ UNCHANGED <<cpc, userns, flags, at, holds, netcfg>>
  BY DEF CreatePair, Advance, TypeOK, LauncherTypeOK
<1>2. NetLocal(l) /\ UserNsLocal(l) /\ at[l] = HostNs /\ cpc[l] # "none"
  BY <1>1 DEF NetInv, UserNsInv, NetLocal, InsideChild, NetPoints
<1>3. veth.maker = NoOne
  BY <1>1, <1>2 DEF CreatePair, NetAccepts, HasLink
<1>4. NetLocal(l)'
  <2>1. LockInv(l)' /\ ConfInv(l)'
    BY <1>1 DEF LockInv, ConfInv, BeforeMove, InsideChild, Connected, RulePoints, MapPoints
  <2> QED BY <1>1, <1>2, <2>1 DEF NetLocal, InsideChild
<1>5. UserNsLocal(l)'
  <2>1. ~NetReady(l)
    BY <1>3, NoOneAssumption DEF NetReady
  <2> QED BY <1>1, <1>2, <2>1, UserNsFrame DEF usernsVars, Building
<1> QED BY <1>1, <1>3, <1>4, <1>5, OthersKeep DEF NetInv, usernsVars

(* An address or a link up adds to what the launcher has configured.       *)
LEMMA ConfigureInv ==
    ASSUME TypeOK, NetInv, UserNsInv, NEW l \in Launchers, UNCHANGED usernsVars,
           AddHostAddr(l) \/ SetHostUp(l) \/ AddPeerAddr(l) \/ SetPeerUp(l)
    PROVE  NetInv' /\ UserNsInv'
<1>1. PICK item \in VethConf :
        /\ \/ pc[l] = "hostaddr" /\ pc'[l] = "getns" /\ item = "hostAddr"
           \/ pc[l] = "hostup" /\ pc'[l] = "enter" /\ item = "hostUp"
           \/ pc[l] = "peeraddr" /\ pc'[l] = "peerup" /\ item = "peerAddr"
           \/ pc[l] = "peerup" /\ pc'[l] = "lo" /\ item = "peerUp"
        /\ veth' = [veth EXCEPT !.conf = @ \cup {item}]
        /\ \A m \in Launchers : m # l => pc'[m] = pc[m]
        /\ UNCHANGED <<cpc, userns, flags, at, holds, netcfg>>
  BY DEF AddHostAddr, SetHostUp, AddPeerAddr, SetPeerUp, Configure, Advance, VethConf,
     TypeOK, LauncherTypeOK
<1>2. /\ veth'.maker = veth.maker /\ veth'.peer = veth.peer
      /\ veth'.conf = veth.conf \cup {item}
  BY <1>1 DEF TypeOK, NetTypeOK
<1>3. /\ NetLocal(l) /\ UserNsLocal(l) /\ veth.maker = l /\ cpc[l] # "none"
      /\ pc[l] \in BeforeMove => veth.peer = HostNs
      /\ pc[l] \notin BeforeMove => veth.peer = l /\ holds[l]
  BY <1>1, Holder DEF NetInv, UserNsInv, NetPoints
<1>4. NetLocal(l)'
  <2>1. LockInv(l)'
    BY <1>1, <1>2, <1>3 DEF LockInv, BeforeMove
  <2>2. ConfInv(l)'
    BY <1>1, <1>2, <1>3 DEF NetLocal, ConfInv, InsideChild, Connected, RulePoints, MapPoints
  <2> QED BY <1>1, <1>3, <2>1, <2>2 DEF NetLocal, InsideChild
<1>5. UserNsLocal(l)'
  <2>1. NetReady(l) => veth' = veth
    BY <1>1 DEF NetReady
  <2>2. NetReady(l) => NetReady(l)'
    BY <1>1, <2>1 DEF NetReady
  <2> QED BY <1>1, <1>3, <2>2, UserNsFrame DEF usernsVars, Building
<1> QED BY <1>1, <1>2, <1>3, <1>4, <1>5, OthersKeep DEF NetInv, usernsVars

(* vpeer1 goes to the child's namespace: the launcher holds its descriptor.*)
LEMMA MovePeerInv ==
    ASSUME TypeOK, NetInv, UserNsInv, NEW l \in Launchers,
           MovePeer(l), UNCHANGED usernsVars
    PROVE  NetInv' /\ UserNsInv'
<1>1. /\ pc[l] = "move" /\ pc'[l] = "hostup" /\ \A m \in Launchers : m # l => pc'[m] = pc[m]
      /\ veth' = [veth EXCEPT !.peer = l, !.conf = @ \ {"peerAddr", "peerUp"}]
      /\ UNCHANGED <<cpc, userns, flags, at, holds, netcfg>> /\ holds[l]
  BY DEF MovePeer, NetAccepts, Advance, TypeOK, LauncherTypeOK
<1>2. /\ veth'.maker = veth.maker /\ veth'.peer = l
      /\ veth'.conf = veth.conf \ {"peerAddr", "peerUp"}
  BY <1>1 DEF TypeOK, NetTypeOK
<1>3. /\ NetLocal(l) /\ UserNsLocal(l) /\ veth.maker = l /\ cpc[l] # "none"
      /\ veth.peer = HostNs
  BY <1>1, Holder DEF NetInv, UserNsInv, NetPoints, BeforeMove
<1>4. NetLocal(l)'
  <2>1. LockInv(l)'
    BY <1>1, <1>2, <1>3 DEF LockInv, BeforeMove
  <2>2. ConfInv(l)'
    BY <1>1, <1>2, <1>3 DEF NetLocal, ConfInv, InsideChild, Connected, RulePoints, MapPoints
  <2> QED BY <1>1, <1>3, <2>1, <2>2 DEF NetLocal, InsideChild
<1>5. UserNsLocal(l)'
  <2>1. ~NetReady(l)
    BY <1>3, NoOneAssumption DEF NetReady, HostNs
  <2> QED BY <1>1, <1>3, <2>1, UserNsFrame DEF usernsVars, Building
<1> QED BY <1>1, <1>2, <1>3, <1>4, <1>5, OthersKeep DEF NetInv, usernsVars

(* setns() and the descriptor of the child's namespace.                    *)
LEMMA NamespaceInv ==
    ASSUME TypeOK, NetInv, UserNsInv, NEW l \in Launchers, UNCHANGED usernsVars,
           GetNetnsFd(l) \/ EnterNetns(l) \/ LeaveNetns(l)
    PROVE  NetInv' /\ UserNsInv'
<1>1. /\ \/ /\ pc[l] = "getns" /\ pc'[l] = "move" /\ UNCHANGED at
            /\ \A m \in Launchers : m # l => holds'[m] = holds[m]
         \/ pc[l] = "enter" /\ pc'[l] = "peeraddr" /\ at'[l] = l /\ UNCHANGED holds
         \/ pc[l] = "leave" /\ pc'[l] = "nat" /\ at'[l] = HostNs /\ UNCHANGED holds
      /\ \A m \in Launchers : m # l => pc'[m] = pc[m] /\ at'[m] = at[m]
      /\ UNCHANGED <<cpc, userns, flags, veth, netcfg>>
  BY DEF GetNetnsFd, EnterNetns, LeaveNetns, Advance, TypeOK, LauncherTypeOK, NetTypeOK
<1>2. /\ NetLocal(l) /\ UserNsLocal(l) /\ veth.maker = l /\ cpc[l] # "none"
      /\ pc[l] \in BeforeMove => veth.peer = HostNs
      /\ pc[l] \notin BeforeMove => veth.peer = l /\ holds[l]
  BY <1>1, Holder DEF NetInv, UserNsInv, NetPoints
<1>3. NetLocal(l)'
  <2>1. LockInv(l)'
    BY <1>1, <1>2 DEF LockInv, BeforeMove
  <2>2. ConfInv(l)'
    BY <1>1, <1>2 DEF NetLocal, ConfInv, InsideChild, Connected, RulePoints, MapPoints
  <2> QED BY <1>1, <1>2, <2>1, <2>2 DEF NetLocal, InsideChild
<1>4. UserNsLocal(l)'
  BY <1>1, <1>2, UserNsFrame DEF usernsVars, Building, NetReady
<1> QED BY <1>1, <1>2, <1>3, <1>4, OthersKeep, NoOneAssumption
       DEF NetInv, usernsVars, TypeOK, NetTypeOK, HostNs

(* Loopback and route of the namespace the launcher has entered.           *)
LEMMA InsideInv ==
    ASSUME TypeOK, NetInv, UserNsInv, NEW l \in Launchers, UNCHANGED usernsVars,
           SetLoUp(l) \/ AddRoute(l)
    PROVE  NetInv' /\ UserNsInv'
<1>1. PICK item \in {"lo", "default"} :
        /\ \/ pc[l] = "lo" /\ pc'[l] = "route" /\ item = "lo"
           \/ pc[l] = "route" /\ pc'[l] = "leave" /\ item = "default"
        /\ netcfg' = [netcfg EXCEPT ![at[l]] = @ \cup {item}]
        /\ \A m \in Launchers : m # l => pc'[m] = pc[m]
        /\ UNCHANGED <<cpc, userns, flags, veth, at, holds>>
  BY DEF SetLoUp, AddRoute, Advance, TypeOK, LauncherTypeOK
<1>2. /\ NetLocal(l) /\ UserNsLocal(l) /\ veth.maker = l /\ cpc[l] # "none"
      /\ veth.peer = l /\ holds[l] /\ at[l] = l
  BY <1>1, Holder DEF NetInv, UserNsInv, NetLocal, NetPoints, BeforeMove, InsideChild
<1>3. /\ netcfg'[l] = netcfg[l] \cup {item}
      /\ \A n \in Namespaces : n # l => netcfg'[n] = netcfg[n]
  BY <1>1, <1>2 DEF TypeOK, NetTypeOK, Namespaces
<1>4. NetLocal(l)'
  <2>1. LockInv(l)'
    BY <1>1, <1>2 DEF LockInv, BeforeMove
  <2>2. ConfInv(l)'
    BY <1>1, <1>2, <1>3 DEF NetLocal, ConfInv, InsideChild, Connected, RulePoints, MapPoints
  <2> QED BY <1>1, <1>2, <2>1, <2>2 DEF NetLocal, InsideChild
<1>5. UserNsLocal(l)'
  BY <1>1, <1>2, <1>3, UserNsFrame DEF usernsVars, Building, NetReady
<1> QED BY <1>1, <1>2, <1>3, <1>4, <1>5, OthersKeep, NoOneAssumption
       DEF NetInv, usernsVars, Namespaces, HostNs

(* The three rules; the last one ends prepare_netns().                     *)
LEMMA RuleInv ==
    ASSUME TypeOK, NetInv, UserNsInv, NEW l \in Launchers, UNCHANGED usernsVars,
           AppendMasquerade(l) \/ AppendForwardOut(l) \/ AppendForwardIn(l)
    PROVE  NetInv' /\ UserNsInv'
<1>1. /\ pc[l] \in RulePoints /\ pc'[l] \in RulePoints \cup {"uidmap", "wait"}
      /\ \A m \in Launchers : m # l => pc'[m] = pc[m]
      /\ UNCHANGED <<cpc, userns, flags, veth, at, holds, netcfg>>
  BY DEF AppendMasquerade, AppendForwardOut, AppendForwardIn, AppendRule, Advance,
     RulePoints, TypeOK, LauncherTypeOK
<1>2. /\ NetLocal(l) /\ UserNsLocal(l) /\ veth.maker = l /\ cpc[l] # "none"
      /\ veth.peer = l /\ holds[l]
  BY <1>1, Holder DEF NetInv, UserNsInv, BeforeMove, RulePoints, Connected
<1>3. NetLocal(l)'
  <2>1. LockInv(l)'
    BY <1>1, <1>2 DEF LockInv, BeforeMove, RulePoints
  <2>2. ConfInv(l)'
    BY <1>1, <1>2 DEF NetLocal, ConfInv, InsideChild, Connected, RulePoints, MapPoints
  <2> QED BY <1>1, <1>2, <2>1, <2>2 DEF NetLocal, InsideChild, RulePoints
<1>4. UserNsLocal(l)'
  BY <1>1, <1>2, UserNsFrame DEF usernsVars, Building, RulePoints, NetReady
<1> QED BY <1>1, <1>3, <1>4, OthersKeep DEF NetInv, usernsVars

-----------------------------------------------------------------------------
(* The maps are written where the network is complete.                     *)
LEMMA MapInv ==
    ASSUME TypeOK, NetInv, UserNsInv, NEW l \in Launchers,
           UserNsStep(l), UNCHANGED netVars
    PROVE  NetInv' /\ UserNsInv'
<1> USE DEF netVars
<1>1. /\ pc[l] \in MapPoints /\ pc'[l] \in MapPoints \cup {"wait"}
      /\ UNCHANGED <<cpc, userns, flags, creds>>
      /\ uidmap'[l] \in {uidmap[l], ContainerMap} /\ gidmap'[l] \in {gidmap[l], ContainerMap}
      /\ \A m \in Launchers : m # l =>
            pc'[m] = pc[m] /\ uidmap'[m] = uidmap[m] /\ gidmap'[m] = gidmap[m]
  BY DEF UserNsStep, WriteUidMap, WriteSetgroups, WriteGidMap, Notify, CloseWriteEnd,
     Advance, MapPoints, TypeOK, LauncherTypeOK, UserNsTypeOK
<1>2. /\ NetLocal(l) /\ UserNsLocal(l) /\ veth.maker = l /\ cpc[l] # "none"
      /\ veth.peer = l /\ holds[l]
  BY <1>1, Holder DEF NetInv, UserNsInv, BeforeMove, MapPoints, Connected
<1>3. NetLocal(l)'
  <2>1. LockInv(l)'
    BY <1>1, <1>2 DEF LockInv, BeforeMove, MapPoints
  <2>2. ConfInv(l)'
    BY <1>1, <1>2 DEF NetLocal, ConfInv, InsideChild, Connected, RulePoints, MapPoints
  <2> QED BY <1>1, <1>2, <2>1, <2>2 DEF NetLocal, InsideChild, MapPoints, Connected
<1>4. NetReady(l)'
  <2>1. veth.conf = VethConf /\ netcfg[l] = {"lo", "default"}
    BY <1>1, <1>2 DEF NetLocal, ConfInv, Connected, MapPoints, VethConf, TypeOK, NetTypeOK,
       Namespaces
  <2>2. veth = [maker |-> l, peer |-> l, conf |-> VethConf]
    BY <1>2, <2>1 DEF TypeOK, NetTypeOK
  <2> QED BY <2>1, <2>2 DEF NetReady
<1>5. UserNsLocal(l)'
  BY <1>1, <1>2, <1>4 DEF UserNsLocal, Building, MapPoints, ChildLive, Unmapped, ContainerMap
<1> QED BY <1>1, <1>3, <1>5, OthersKeep DEF NetInv

(* The launcher's first call, clone() and the way out of it, waitpid() and *)
(* the cgroup steps: no network yet, or no further work on it.             *)
LEMMA StartInv ==
    ASSUME TypeOK, NetInv, UserNsInv, NEW l \in Launchers, UNCHANGED netVars,
           UNCHANGED <<uidmap, gidmap>>,
           \A m \in Launchers : m # l =>
              /\ pc'[m] = pc[m] /\ cpc'[m] = cpc[m] /\ userns'[m] = userns[m]
              /\ creds'[m] = creds[m],
           \/ /\ pc'[l] \in {"clone"} \cup Building \cup Releasing \cup {"free"}
              /\ cpc[l] = "none" /\ cpc'[l] = "none"
              /\ pc[l] \notin NetPoints \cup Connected
              /\ pc[l] \notin {"off", "clone"} \cup Building
                    => pc'[l] \notin {"off", "clone"} \cup Building
           \/ pc[l] = "clone" /\ pc'[l] = "veth" /\ cpc'[l] = "born"
           \/ /\ pc[l] \in {"wait"} \cup Releasing /\ pc'[l] \in Releasing \cup {"free"}
              /\ UNCHANGED <<cpc, userns, creds>>
    PROVE  NetInv' /\ UserNsInv'
<1> USE DEF netVars
<1>1. NetLocal(l) /\ UserNsLocal(l)
  BY DEF NetInv, UserNsInv
<1>2. NetLocal(l)'
  <2>1. LockInv(l)'
    BY <1>1 DEF NetLocal, LockInv, Alive, Ended, BeforeMove, Releasing
  <2>2. ConfInv(l)'
    BY <1>1 DEF NetLocal, ConfInv, InsideChild, Connected, RulePoints, MapPoints, Releasing,
       Building
  <2> QED BY <1>1, <2>1, <2>2 DEF NetLocal, InsideChild, NetPoints, Connected, RulePoints,
       MapPoints, Building, Releasing
<1>3. UserNsLocal(l)'
  BY <1>1 DEF UserNsLocal, ChildLive, NetReady, Building, Releasing, Unmapped, ContainerMap
<1> QED BY <1>2, <1>3, OthersKeep DEF NetInv

(* The end of the launcher closes what it holds.                           *)
LEMMA ParentEndsNetInv ==
    ASSUME TypeOK, NetInv, UserNsInv, NEW l \in Launchers, NEW how \in Ended,
           ParentEnds(l, how)
    PROVE  NetInv' /\ UserNsInv'
<1>1. /\ pc'[l] = how /\ at'[l] = HostNs
      /\ \A m \in Launchers : m # l => pc'[m] = pc[m] /\ at'[m] = at[m] /\ holds'[m] = holds[m]
      /\ UNCHANGED <<cpc, userns, flags, veth, netcfg, uidmap, gidmap, creds>>
  BY DEF ParentEnds, CloseWriteEnd, CloseNetns, TypeOK, LauncherTypeOK, NetTypeOK
<1>2. UserNsLocal(l)
  BY DEF UserNsInv
<1>3. NetLocal(l)'
  BY <1>1 DEF NetLocal, LockInv, ConfInv, Alive, Ended, NetPoints, Connected, RulePoints,
     MapPoints, InsideChild
<1>4. UserNsLocal(l)'
  BY <1>1, <1>2, UserNsFrame DEF Ended, Building, NetReady
<1> QED BY <1>1, <1>3, <1>4, OthersKeep DEF NetInv

(* The end of the child: its network may stay, or go, and nobody relies on *)
(* it any more but a launcher that still holds its descriptor.             *)
LEMMA ChildEndsNetInv ==
    ASSUME TypeOK, NetInv, UserNsInv, NEW l \in Launchers, ChildLive(l), ChildEnds(l)
    PROVE  NetInv' /\ UserNsInv'
<1>1. /\ cpc'[l] = "dead" /\ \A m \in Launchers : m # l => cpc'[m] = cpc[m]
      /\ UNCHANGED <<pc, userns, flags, netVars, uidmap, gidmap, creds>>
  BY DEF ChildEnds, CloseWriteEnd, TypeOK, LauncherTypeOK
<1>2. NetLocal(l) /\ UserNsLocal(l)
  BY DEF NetInv, UserNsInv
<1>3. NetLocal(l)'
  BY <1>1, <1>2 DEF NetLocal, LockInv, ConfInv, Alive, ChildLive, netVars
<1>4. UserNsLocal(l)'
  BY <1>1, <1>2 DEF UserNsLocal, ChildLive
<1> QED BY <1>1, <1>3, <1>4, OthersKeep DEF NetInv, netVars

(* The child takes its identity only by the maps, group first.             *)
LEMMA ChildInv ==
    ASSUME TypeOK, NetInv, UserNsInv, NEW l \in Launchers, UNCHANGED netVars,
           UserNsChildStep(l) \/ ChildSkipsUserNs(l) \/ ChildExec(l)
    PROVE  NetInv' /\ UserNsInv'
<1> USE DEF netVars
<1>1. NetLocal(l) /\ UserNsLocal(l)
  BY DEF NetInv, UserNsInv
<1>2. /\ UNCHANGED <<pc, userns, flags, uidmap, gidmap>>
      /\ ChildLive(l) /\ ChildLive(l)'
      /\ \A m \in Launchers : m # l => cpc'[m] = cpc[m] /\ creds'[m] = creds[m]
  BY DEF UserNsChildStep, ChildClose, ChildRead, ChildSetGid, ChildSetUid, ChildSkipsUserNs,
     ChildExec, ChildAdvance, ChildLive, CloseWriteEnd, usernsVars, TypeOK, LauncherTypeOK,
     UserNsTypeOK
<1>3. NetLocal(l)'
  BY <1>1, <1>2 DEF NetLocal, LockInv, ConfInv, Alive, ChildLive
<1>4. /\ gidmap[l] = ContainerMap <=> Mapped(gidmap[l], 0)
      /\ uidmap[l] = ContainerMap <=> Mapped(uidmap[l], 0)
  BY <1>1 DEF UserNsLocal, Mapped, ContainerMap, Unmapped
<1>5. userns[l] /\ cpc'[l] \in {"setuid", "rootfs", "running"} =>
          gidmap[l] = ContainerMap /\ creds'[l].gid = 0
  BY <1>1, <1>4 DEF UserNsLocal, UserNsChildStep, ChildClose, ChildRead, ChildSetGid,
     ChildSetUid, ChildSkipsUserNs, ChildExec, ChildAdvance, IdsAccepted, CloseWriteEnd,
     usernsVars, TypeOK, LauncherTypeOK, UserNsTypeOK
<1>6. userns[l] /\ cpc'[l] \in {"rootfs", "running"} =>
          uidmap[l] = ContainerMap /\ creds'[l].uid = 0
  BY <1>1, <1>4 DEF UserNsLocal, UserNsChildStep, ChildClose, ChildRead, ChildSetGid,
     ChildSetUid, ChildSkipsUserNs, ChildExec, ChildAdvance, IdsAccepted, CloseWriteEnd,
     usernsVars, TypeOK, LauncherTypeOK, UserNsTypeOK
<1>7. UserNsLocal(l)'
  BY <1>1, <1>2, <1>5, <1>6 DEF UserNsLocal, NetReady
<1> QED BY <1>2, <1>3, <1>7, OthersKeep DEF NetInv

(* A namespace is destroyed, with the pair, only when nobody holds it.     *)
LEMMA DestroyInv ==
    ASSUME TypeOK, NetInv, UserNsInv, NEW l \in Launchers,
           DestroyNetns(l), UNCHANGED usernsVars
    PROVE  NetInv' /\ UserNsInv'
<1>1. /\ cpc[l] = "dead" /\ ~holds[l] /\ veth.peer = l /\ veth.maker = l
      /\ veth' = NoPair /\ \A n \in Namespaces : n # l => netcfg'[n] = netcfg[n]
      /\ UNCHANGED <<pc, cpc, userns, flags, at, holds>>
  BY NoOneAssumption
     DEF DestroyNetns, NetInv, HostNs, launcherVars, TypeOK, NetTypeOK
<1>2. NetLocal(l) /\ UserNsLocal(l)
  BY DEF NetInv, UserNsInv
<1>3. ~Alive(l) \/ pc[l] = "veth"
  BY <1>1, <1>2, NoOneAssumption DEF NetLocal, LockInv, HostNs
<1>4. NetLocal(l)'
  BY <1>1, <1>2, <1>3 DEF NetLocal, LockInv, ConfInv, Alive, Ended, InsideChild, Connected,
     RulePoints, MapPoints
<1>5. UserNsLocal(l)'
  BY <1>1, <1>2, UserNsFrame DEF usernsVars, ChildLive
<1> QED BY <1>1, <1>4, <1>5, OthersKeep, NoOneAssumption
       DEF NetInv, usernsVars, Namespaces, HostNs, NoPair

-----------------------------------------------------------------------------
(* All together.                                                           *)

LEMMA NetInvInit ==
    ASSUME Init
    PROVE  NetInv /\ UserNsInv
<1> USE DEF Init, LauncherInit, NetInit, UserNsInit
<1>1. netcfg[HostNs] = {} /\ veth.peer = HostNs
  BY DEF NoPair, Namespaces, HostNs
<1>2. ASSUME NEW l \in Launchers PROVE NetLocal(l) /\ UserNsLocal(l)
  BY DEF NetLocal, LockInv, ConfInv, UserNsLocal, Alive, ChildLive, NetPoints, Connected,
     RulePoints, MapPoints, InsideChild, Unmapped, ContainerMap
<1> QED BY <1>1, <1>2 DEF NetInv, UserNsInv

LEMMA CgroupStepNetInv ==
    ASSUME TypeOK, CgroupInv, NetInv, UserNsInv, NEW l \in Launchers,
           CgroupStep(l), UNCHANGED <<usernsVars, netVars>>
    PROVE  NetInv' /\ UserNsInv'
<1>1. /\ UNCHANGED <<cpc, userns, flags>>
      /\ \A m \in Launchers : m # l => pc'[m] = pc[m]
      /\ \/ pc[l] \in Building /\ pc'[l] \in Building \cup {"clone"}
         \/ pc[l] \in Releasing /\ pc'[l] \in Releasing \cup {"free"}
  BY DEF CgroupStep, Mkdir, WriteSetting, JoinTasks, MoveOut, Rmdir, Advance, Building,
     Releasing, TypeOK, LauncherTypeOK
<1>2. pc[l] \in Building => cpc[l] = "none"
  BY DEF CgroupInv, CgroupLocal, BuildInv
<1>3. \/ /\ pc'[l] \in {"clone"} \cup Building \cup Releasing \cup {"free"}
         /\ cpc[l] = "none" /\ cpc'[l] = "none"
         /\ pc[l] \notin NetPoints \cup Connected
         /\ pc[l] \notin {"off", "clone"} \cup Building
               => pc'[l] \notin {"off", "clone"} \cup Building
      \/ /\ pc[l] \in {"wait"} \cup Releasing /\ pc'[l] \in Releasing \cup {"free"}
         /\ UNCHANGED <<cpc, userns, creds>>
  BY <1>1, <1>2 DEF Building, Releasing, NetPoints, Connected, RulePoints, MapPoints,
     usernsVars
<1> QED BY <1>1, <1>3, StartInv DEF usernsVars

LEMMA ParentStepNetInv ==
    ASSUME TypeOK, CgroupInv, NetInv, UserNsInv, NEW l \in Launchers, ParentStep(l)
    PROVE  NetInv' /\ UserNsInv'
<1>1. CASE CgroupStep(l) /\ UNCHANGED <<usernsVars, netVars>>
  BY <1>1, CgroupStepNetInv
<1>2. CASE UserNsStep(l) /\ UNCHANGED <<cgroupVars, netVars>>
  BY <1>2, MapInv
<1>3. CASE NetStep(l) /\ UNCHANGED <<cgroupVars, usernsVars>>
  BY <1>3, CreatePairInv, ConfigureInv, MovePeerInv, NamespaceInv, InsideInv, RuleInv
     DEF NetStep
<1>4. CASE Clone(l)
  <2>1. /\ pc[l] = "clone" /\ pc'[l] = "veth" /\ cpc'[l] = "born"
        /\ \A m \in Launchers : m # l =>
              pc'[m] = pc[m] /\ cpc'[m] = cpc[m] /\ creds'[m] = creds[m]
        /\ UNCHANGED <<userns, netVars, uidmap, gidmap>>
    BY <1>4 DEF Clone, EnterUserNs, TypeOK, LauncherTypeOK, UserNsTypeOK
  <2> QED BY <2>1, StartInv
<1>5. CASE CloneFails(l) \/ Wait(l)
  <2>1. /\ (pc[l] = "clone" /\ cpc[l] = "none") \/ pc[l] = "wait"
        /\ pc'[l] \in Releasing \cup {"free"}
        /\ \A m \in Launchers : m # l => pc'[m] = pc[m]
        /\ UNCHANGED <<cpc, userns, netVars, uidmap, gidmap, creds>>
    BY <1>5 DEF CloneFails, Wait, Release, Releasing, usernsVars, CgroupInv, CgroupLocal,
       TypeOK, LauncherTypeOK
  <2> QED BY <2>1, StartInv DEF Building, Releasing, NetPoints, Connected, RulePoints, MapPoints
<1>6. CASE Free(l) \/ Fail(l)
  BY <1>6, ParentEndsNetInv DEF Free, Fail, Ended
<1> QED BY <1>1, <1>2, <1>3, <1>4, <1>5, <1>6 DEF ParentStep

LEMMA NetInvNext ==
    ASSUME TypeOK, CgroupInv, NetInv, UserNsInv, [Next]_vars
    PROVE  NetInv' /\ UserNsInv'
<1>1. ASSUME UNCHANGED vars PROVE NetInv' /\ UserNsInv'
  <2>1. UNCHANGED <<pc, cpc, userns, uidmap, gidmap, creds, veth, at, holds, netcfg>>
    BY <1>1 DEF vars, launcherVars, usernsVars, netVars
  <2>2. \A l \in Launchers : NetLocal(l)' /\ UserNsLocal(l)'
    BY <2>1, NetFrame, UserNsFrame DEF NetInv, UserNsInv, NetReady
  <2> QED BY <2>1, <2>2 DEF NetInv, UserNsInv, HostNs
<1>2. ASSUME NEW l \in Launchers, Boot(l) PROVE NetInv' /\ UserNsInv'
  <2>1. /\ pc[l] = "off" /\ pc'[l] \in {"clone", "mkdir"}
        /\ \A m \in Launchers : m # l => pc'[m] = pc[m] /\ userns'[m] = userns[m]
        /\ UNCHANGED <<cpc, netVars, uidmap, gidmap, creds>>
    BY <1>2 DEF Boot, OpenPipe, TypeOK, LauncherTypeOK
  <2>2. cpc[l] = "none"
    BY <2>1 DEF CgroupInv, CgroupLocal
  <2> QED BY <2>1, <2>2, StartInv DEF Building, NetPoints, Connected, RulePoints, MapPoints
<1>3. ASSUME NEW l \in Launchers, ChildStep(l) \/ CommandEnds(l) PROVE NetInv' /\ UserNsInv'
  <2>1. CASE /\ UserNsChildStep(l) \/ ChildSkipsUserNs(l) \/ ChildExec(l)
             /\ UNCHANGED <<cgroupVars, netVars>>
    BY <2>1, ChildInv
  <2>2. CASE ChildFails(l) \/ CommandEnds(l)
    <3>1. ChildLive(l) /\ ChildEnds(l)
      BY <2>2 DEF ChildFails, CommandEnds, IdsAccepted, ChildLive, TypeOK, LauncherTypeOK
    <3> QED BY <3>1, ChildEndsNetInv
  <2> QED BY <1>3, <2>1, <2>2 DEF ChildStep
<1>4. ASSUME NEW l \in Launchers, KillParent(l) \/ KillChild(l) PROVE NetInv' /\ UserNsInv'
  BY <1>4, ParentEndsNetInv, ChildEndsNetInv DEF KillParent, KillChild, Ended
<1>5. ASSUME NEW l \in Launchers, KernelStep(l) PROVE NetInv' /\ UserNsInv'
  BY <1>5, DestroyInv DEF KernelStep
<1> QED BY <1>1, <1>2, <1>3, <1>4, <1>5, ParentStepNetInv DEF Next, Over

-----------------------------------------------------------------------------

(* IInv is inductive: it holds initially, and every step of a launcher, of *)
(* a child, or of the kernel preserves it.                                 *)
THEOREM Invariance == Spec => []IInv
<1>1. Init => IInv
  BY InitType, CgroupInvInit, NetInvInit DEF IInv
<1>2. IInv /\ [Next]_vars => IInv'
  BY NextType, CgroupInvNext, NetInvNext DEF IInv
<1> QED BY <1>1, <1>2, PTL DEF Spec

(* While a container's process lives it is inside the cgroups its command  *)
(* line asked for, under its own launcher's values: BuildInv carries what  *)
(* setting_cgroups() has achieved up to clone(), and nobody else's step    *)
(* removes or rewrites it.                                                 *)
THEOREM ContainerLimits == Spec => []ContainerConfined
<1>1. IInv => ContainerConfined
  BY DEF IInv, CgroupInv, CgroupLocal, ContainerConfined
<1> QED BY <1>1, Invariance, PTL

(* Whoever is inside a container cgroup is there under the limits of his   *)
(* own launcher, although every launcher uses the same directory names.    *)
THEOREM LimitsOwn == Spec => []NoForeignLimits
<1>1. IInv => NoForeignLimits
  BY DEF IInv, CgroupInv
<1> QED BY <1>1, Invariance, PTL

LEMMA RmdirFindsEmpty == IInv => RmdirAccepted
<1>1. ASSUME IInv, NEW l \in Launchers, pc[l] = "rmdir", NEW s \in Settings, Reached(l, s)
      PROVE  dir[ControllerOf[s]] # NoOne /\ tasks[ControllerOf[s]] = {}
  <2> DEFINE c == ControllerOf[s]
  <2>1. /\ CgroupLocal(l) /\ ReleaseInv(l) /\ ~ChildLive(l) /\ s \in todo[l]
        /\ c \in Controllers /\ s \in SettingsOf({c})
    BY <1>1, SettingsFacts, InSettingsOf
       DEF IInv, CgroupInv, CgroupLocal, ReleaseInv, Releasing, Reached
  <2>2. dir[c] = l /\ Parent(l) \notin tasks[c] /\ Child(l) \notin tasks[c]
    BY <1>1, <2>1 DEF ReleaseInv, Releasing, CgroupLocal, TasksInv
  <2>3. \A p \in tasks[c] : p = Parent(l) \/ p = Child(l)
    BY <1>1, <2>1, <2>2, InsideIsOwn DEF IInv, CgroupInv
  <2> QED BY <2>2, <2>3, NoOneAssumption
<1> QED BY <1>1 DEF RmdirAccepted, CgroupAccepts

(* free_cgroup_resources() finds the directory it removes, and finds it    *)
(* empty: the child is dead and the launcher has moved out.                *)
THEOREM RmdirNeverBusy == Spec => []RmdirAccepted
BY RmdirFindsEmpty, Invariance, PTL

(* A launcher past free_cgroup_resources() owns no directory.              *)
THEOREM ReleaseComplete == Spec => []AllReleased
<1>1. IInv => AllReleased
  BY DEF IInv, CgroupInv, CgroupLocal, ReleaseInv, AllReleased
<1> QED BY <1>1, Invariance, PTL

(* In a user namespace the command starts with its maps, its identity and  *)
(* its network, even when the launcher was killed on the way.              *)
THEOREM CommandStartsReady == Spec => []ExecReady
<1>1. IInv => ExecReady
  <2> SUFFICES ASSUME IInv, NEW l \in Launchers, userns[l], cpc[l] = "running"
               PROVE  /\ uidmap[l] = ContainerMap /\ gidmap[l] = ContainerMap
                      /\ creds[l] = [uid |-> 0, gid |-> 0]
                      /\ NetReady(l)
    BY DEF ExecReady
  <2>1. UserNsLocal(l) /\ creds[l] \in [uid : Nat, gid : Nat]
    BY DEF IInv, UserNsInv, TypeOK, UserNsTypeOK
  <2>2. /\ uidmap[l] = ContainerMap /\ gidmap[l] = ContainerMap
        /\ creds[l].uid = 0 /\ creds[l].gid = 0 /\ ChildLive(l)
    BY <2>1 DEF UserNsLocal, ChildLive
  <2> QED BY <2>1, <2>2 DEF UserNsLocal
<1> QED BY <1>1, Invariance, PTL

(* The names veth1 and vpeer1 exclude a second launcher from               *)
(* prepare_netns() and from what follows it.                               *)
THEOREM NetworkExclusive == Spec => []OneNetwork
<1>1. IInv => OneNetwork
  BY DEF IInv, NetInv, NetLocal, LockInv, OneNetwork
<1> QED BY <1>1, Invariance, PTL

(* A launcher in waitpid() has completed its container's network and has   *)
(* touched no route of the host.                                           *)
THEOREM NetworkComplete == Spec => []WaitsConfigured
<1>1. ASSUME IInv, NEW l \in Launchers, pc[l] = "wait"
      PROVE  NetReady(l) /\ netcfg[HostNs] = {}
  <2>1. NetLocal(l) /\ pc[l] \in Connected /\ netcfg[HostNs] = {}
    BY <1>1 DEF IInv, NetInv, Connected
  <2>2. veth.maker = l /\ veth.peer = l
    BY <1>1, <2>1, Holder DEF BeforeMove
  <2>3. veth.conf = VethConf /\ netcfg[l] = {"lo", "default"}
    BY <1>1, <2>1
       DEF NetLocal, ConfInv, Connected, VethConf, IInv, TypeOK, NetTypeOK, Namespaces
  <2>4. veth = [maker |-> l, peer |-> l, conf |-> VethConf]
    BY <1>1, <2>2, <2>3 DEF IInv, TypeOK, NetTypeOK
  <2> QED BY <2>1, <2>3, <2>4 DEF NetReady
<1>2. IInv => WaitsConfigured
  BY <1>1 DEF WaitsConfigured
<1> QED BY <1>2, Invariance, PTL

(* A directory disappears only by an rmdir() of its maker, whose child is  *)
(* dead, and its maker never changes otherwise.                            *)
THEOREM RemovalByOwner == Spec => OwnerRemoves
<1> DEFINE Removal == \A c \in Controllers : dir[c] # NoOne /\ dir'[c] # dir[c] =>
                         /\ dir'[c] = NoOne
                         /\ pc[dir[c]] = "rmdir" /\ pc'[dir[c]] # "rmdir"
                         /\ ~ChildLive(dir[c])
<1>1. ASSUME IInv, NEW l \in Launchers, CgroupStep(l) PROVE Removal
  <2>1. CASE Mkdir(l)
    BY <1>1, <2>1, SettingsFacts DEF Mkdir, IInv, TypeOK, CgroupTypeOK
  <2>2. CASE Rmdir(l)
    <3>1. PICK s \in Settings :
            /\ Reached(l, s) /\ pc[l] = "rmdir" /\ pc'[l] # "rmdir"
            /\ dir' = [dir EXCEPT ![ControllerOf[s]] = NoOne]
      BY <1>1, <2>2 DEF Rmdir, Advance, IInv, TypeOK, LauncherTypeOK
    <3>2. /\ ReleaseInv(l) /\ ~ChildLive(l) /\ s \in todo[l]
          /\ ControllerOf[s] \in Controllers /\ s \in SettingsOf({ControllerOf[s]})
      BY <1>1, <3>1, SettingsFacts, InSettingsOf
         DEF IInv, CgroupInv, CgroupLocal, ReleaseInv, Releasing, Reached
    <3>3. dir[ControllerOf[s]] = l
      BY <3>1, <3>2 DEF ReleaseInv, Releasing
    <3> QED BY <1>1, <3>1, <3>2, <3>3 DEF IInv, TypeOK, CgroupTypeOK
  <2>3. CASE WriteSetting(l) \/ JoinTasks(l) \/ MoveOut(l)
    BY <2>3 DEF WriteSetting, JoinTasks, MoveOut
  <2> QED BY <1>1, <2>1, <2>2, <2>3 DEF CgroupStep
<1>2. ASSUME NEW l \in Launchers, UserNsStep(l) \/ NetStep(l), UNCHANGED cgroupVars PROVE Removal
  BY <1>2 DEF cgroupVars
<1>3. ASSUME NEW l \in Launchers, Clone(l) \/ CloneFails(l) \/ Wait(l) \/ Boot(l) PROVE Removal
  BY <1>3 DEF Clone, InheritTasks, CloneFails, Wait, Boot, Release, BeginLoop
<1>4. ASSUME NEW l \in Launchers, Free(l) \/ Fail(l) \/ KillParent(l) PROVE Removal
  BY <1>4 DEF Free, Fail, KillParent, ParentEnds, LeaveTasks
<1>5. ASSUME NEW l \in Launchers, ChildStep(l) \/ CommandEnds(l) \/ KillChild(l) PROVE Removal
  BY <1>5 DEF ChildStep, ChildFails, CommandEnds, KillChild, ChildEnds, LeaveTasks, cgroupVars
<1>6. ASSUME NEW l \in Launchers, KernelStep(l) PROVE Removal
  BY <1>6 DEF KernelStep, cgroupVars
<1>7. ASSUME UNCHANGED vars PROVE Removal
  BY <1>7 DEF vars, cgroupVars
<1>8. IInv /\ [Next]_vars => [Removal]_vars
  BY <1>1, <1>2, <1>3, <1>4, <1>5, <1>6, <1>7 DEF Next, ParentStep, Over
<1> QED BY <1>8, Invariance, PTL DEF Spec, OwnerRemoves

-----------------------------------------------------------------------------
(***************************************************************************)
(* Nobody kills a launcher: then no command in a user namespace runs       *)
(* without a launcher that waits for it.  The argument follows the pipe:   *)
(* the launcher holds the write end until Notify, and once both maps are   *)
(* written no call of its that can fail is left before waitpid().          *)
(***************************************************************************)

(* What nobody touches but the launcher and its child.                     *)
LEMMA PipeFrame ==
    ASSUME NEW m \in Launchers, PipeLocal(m),
           pc'[m] = pc[m], cpc'[m] = cpc[m], userns'[m] = userns[m],
           wend'[m] = wend[m], gidmap'[m] = gidmap[m]
    PROVE  PipeLocal(m)'
BY DEF PipeLocal, ChildLive

LEMMA PipeOthers ==
    ASSUME PipeInv, NEW l \in Launchers, PipeLocal(l)',
           \A m \in Launchers : m # l =>
              /\ pc'[m] = pc[m] /\ cpc'[m] = cpc[m] /\ userns'[m] = userns[m]
              /\ wend'[m] = wend[m] /\ gidmap'[m] = gidmap[m]
    PROVE  PipeInv'
BY PipeFrame DEF PipeInv

LEMMA PipeInvInit ==
    ASSUME Init
    PROVE  PipeInv
BY DEF Init, LauncherInit, UserNsInit, PipeInv, PipeLocal, ChildLive, Unmapped, ContainerMap

LEMMA BootPipe ==
    ASSUME IInv, PipeInv, NEW l \in Launchers, Boot(l)
    PROVE  PipeInv'
<1>1. /\ pc[l] = "off" /\ pc'[l] \in {"clone", "mkdir"} /\ UNCHANGED <<cpc, gidmap>>
      /\ \A m \in Launchers : m # l =>
            pc'[m] = pc[m] /\ userns'[m] = userns[m] /\ wend'[m] = wend[m]
      /\ userns'[l] => "parent" \in wend'[l]
  BY DEF Boot, OpenPipe, IInv, TypeOK, LauncherTypeOK, UserNsTypeOK
<1>2. cpc[l] = "none" /\ gidmap[l] = Unmapped
  BY <1>1 DEF IInv, CgroupInv, CgroupLocal, PipeInv, PipeLocal
<1>3. PipeLocal(l)'
  BY <1>1, <1>2 DEF PipeLocal, ChildLive, Building, NetPoints, RulePoints, MapPoints
<1> QED BY <1>1, <1>3, PipeOthers

LEMMA ClonePipe ==
    ASSUME IInv, PipeInv, NEW l \in Launchers, Clone(l)
    PROVE  PipeInv'
<1>1. /\ pc[l] = "clone" /\ pc'[l] = "veth" /\ cpc'[l] = "born" /\ UNCHANGED <<userns, gidmap>>
      /\ wend[l] \subseteq wend'[l]
      /\ \A m \in Launchers : m # l => pc'[m] = pc[m] /\ cpc'[m] = cpc[m] /\ wend'[m] = wend[m]
  BY DEF Clone, EnterUserNs, IInv, TypeOK, LauncherTypeOK, UserNsTypeOK
<1>2. PipeLocal(l)'
  BY <1>1 DEF PipeInv, PipeLocal, ChildLive, Building, NetPoints, Unmapped, ContainerMap
<1> QED BY <1>1, <1>2, PipeOthers

(* Steps of the launcher that leave the pipe and the group map alone: none *)
(* of them starts from notify.                                             *)
LEMMA WorkPipe ==
    ASSUME IInv, PipeInv, NEW l \in Launchers,
           UNCHANGED <<cpc, userns, wend, gidmap>>,
           \A m \in Launchers : m # l => pc'[m] = pc[m],
           \/ /\ pc[l] \in Building \cup NetPoints \cup RulePoints \cup {"uidmap", "setgroups"}
              /\ pc'[l] \in {"clone"} \cup Building \cup NetPoints \cup RulePoints
                               \cup {"uidmap", "setgroups", "gidmap"}
              /\ pc'[l] \in {"clone"} \cup Building => pc[l] \in Building
           \/ pc'[l] = "wait" /\ ~userns[l]
           \/ pc'[l] \in Releasing \cup {"free"} /\ ~ChildLive(l)
    PROVE  PipeInv'
<1>1. PipeLocal(l)
  BY DEF PipeInv
<1>2. PipeLocal(l)'
  BY <1>1 DEF PipeLocal, ChildLive, Building, Releasing, NetPoints, RulePoints, MapPoints
<1> QED BY <1>2, PipeOthers

LEMMA MapPipe ==
    ASSUME IInv, PipeInv, NEW l \in Launchers, WriteGidMap(l) \/ Notify(l)
    PROVE  PipeInv'
<1>1. /\ \/ pc[l] = "gidmap" /\ pc'[l] = "notify" /\ UNCHANGED wend
         \/ pc[l] = "notify" /\ pc'[l] = "wait" /\ wend'[l] \subseteq wend[l] /\ UNCHANGED gidmap
      /\ UNCHANGED <<cpc, userns>>
      /\ \A m \in Launchers : m # l =>
            pc'[m] = pc[m] /\ gidmap'[m] = gidmap[m] /\ wend'[m] = wend[m]
  BY DEF WriteGidMap, Notify, CloseWriteEnd, Advance, IInv, TypeOK, LauncherTypeOK, UserNsTypeOK
<1>2. PipeLocal(l)'
  BY <1>1 DEF PipeInv, PipeLocal, ChildLive, Building, NetPoints, RulePoints, MapPoints
<1> QED BY <1>1, <1>2, PipeOthers

(* A launcher that is not killed ends in Free, or in a call that fails:    *)
(* its child is dead, or its group map is not written.                     *)
LEMMA FailPipe ==
    ASSUME IInv, PipeInv, NEW l \in Launchers, Free(l) \/ Fail(l)
    PROVE  PipeInv'
<1>1. /\ pc'[l] \in Ended /\ UNCHANGED <<cpc, userns, gidmap>>
      /\ wend'[l] \subseteq wend[l]
      /\ \A m \in Launchers : m # l => pc'[m] = pc[m] /\ wend'[m] = wend[m]
  BY DEF Free, Fail, ParentEnds, CloseWriteEnd, IInv, TypeOK, LauncherTypeOK, UserNsTypeOK, Ended
<1>2. pc[l] # "notify" /\ (pc[l] = "wait" => cpc[l] = "dead")
  BY DEF Free, Fail, CgroupAccepts, NetAccepts
<1>3. PipeLocal(l)'
  BY <1>1, <1>2 DEF PipeInv, PipeLocal, ChildLive, Building, Ended, NetPoints, RulePoints,
     MapPoints
<1> QED BY <1>1, <1>3, PipeOthers

LEMMA ChildPipe ==
    ASSUME IInv, PipeInv, NEW l \in Launchers,
           ChildStep(l) \/ CommandEnds(l) \/ KillChild(l)
    PROVE  PipeInv'
<1>1. /\ UNCHANGED <<pc, userns, gidmap>> /\ ChildLive(l)
      /\ \A m \in Launchers : m # l => cpc'[m] = cpc[m] /\ wend'[m] = wend[m]
      /\ wend'[l] \subseteq wend[l] /\ ("parent" \in wend[l] => "parent" \in wend'[l])
      /\ \/ cpc'[l] \in {"reading", "dead"}
         \/ ~userns[l]
         \/ wend[l] = {}
         \/ cpc[l] \in {"setgid", "setuid", "rootfs", "running"}
  BY DEF ChildStep, UserNsChildStep, ChildClose, ChildRead, ChildSetGid, ChildSetUid,
     ChildSkipsUserNs, ChildExec, ChildFails, CommandEnds, KillChild, ChildEnds, ChildAdvance,
     CloseWriteEnd, IdsAccepted, ChildLive, usernsVars, IInv, TypeOK, LauncherTypeOK,
     UserNsTypeOK
<1>2. PipeLocal(l)'
  BY <1>1 DEF PipeInv, PipeLocal, ChildLive
<1> QED BY <1>1, <1>2, PipeOthers

LEMMA PipeInvNext ==
    ASSUME "parent" \notin Killable, IInv, PipeInv, [Next]_vars
    PROVE  PipeInv'
<1>1. ASSUME UNCHANGED vars PROVE PipeInv'
  BY <1>1, PipeFrame DEF PipeInv, vars, launcherVars, usernsVars
<1>2. ASSUME NEW l \in Launchers, CgroupStep(l), UNCHANGED usernsVars PROVE PipeInv'
  <2>1. /\ UNCHANGED <<cpc, userns, wend, gidmap>>
        /\ \A m \in Launchers : m # l => pc'[m] = pc[m]
        /\ \/ pc[l] \in Building /\ pc'[l] \in Building \cup {"clone"}
           \/ pc[l] \in Releasing /\ pc'[l] \in Releasing \cup {"free"}
    BY <1>2 DEF CgroupStep, Mkdir, WriteSetting, JoinTasks, MoveOut, Rmdir, Advance, Building,
       Releasing, usernsVars, IInv, TypeOK, LauncherTypeOK
  <2>2. pc[l] \in Releasing => ~ChildLive(l)
    BY DEF IInv, CgroupInv, CgroupLocal, ReleaseInv
  <2> QED BY <2>1, <2>2, WorkPipe
<1>3. ASSUME NEW l \in Launchers, NetStep(l), UNCHANGED usernsVars PROVE PipeInv'
  <2>1. /\ UNCHANGED <<cpc, userns, wend, gidmap>>
        /\ \A m \in Launchers : m # l => pc'[m] = pc[m]
        /\ pc[l] \in NetPoints \cup RulePoints
        /\ \/ pc'[l] \in NetPoints \cup RulePoints \cup {"uidmap"}
           \/ pc'[l] = "wait" /\ ~userns[l]
    BY <1>3 DEF NetStep, CreatePair, AddHostAddr, GetNetnsFd, MovePeer, SetHostUp, EnterNetns,
       AddPeerAddr, SetPeerUp, Configure, SetLoUp, AddRoute, LeaveNetns, AppendRule,
       AppendMasquerade, AppendForwardOut, AppendForwardIn, Advance, usernsVars,
       NetPoints, RulePoints, IInv, TypeOK, LauncherTypeOK
  <2> QED BY <2>1, WorkPipe DEF Building, NetPoints, RulePoints
<1>4. ASSUME NEW l \in Launchers, UserNsStep(l) PROVE PipeInv'
  <2>1. CASE WriteUidMap(l) \/ WriteSetgroups(l)
    <3>1. /\ UNCHANGED <<cpc, userns, wend, gidmap>>
          /\ \A m \in Launchers : m # l => pc'[m] = pc[m]
          /\ pc[l] \in {"uidmap", "setgroups"} /\ pc'[l] \in {"setgroups", "gidmap"}
      BY <2>1 DEF WriteUidMap, WriteSetgroups, Advance, IInv, TypeOK, LauncherTypeOK
    <3> QED BY <3>1, WorkPipe DEF Building
  <2> QED BY <1>4, <2>1, MapPipe DEF UserNsStep
<1>5. ASSUME NEW l \in Launchers, CloneFails(l) \/ Wait(l) PROVE PipeInv'
  <2>1. /\ UNCHANGED <<cpc, userns, wend, gidmap>> /\ ~ChildLive(l)
        /\ \A m \in Launchers : m # l => pc'[m] = pc[m]
        /\ pc'[l] \in Releasing \cup {"free"}
    BY <1>5 DEF CloneFails, Wait, Release, Releasing, usernsVars, ChildLive, IInv, CgroupInv,
       CgroupLocal, TypeOK, LauncherTypeOK
  <2> QED BY <2>1, WorkPipe
<1>6. ASSUME NEW l \in Launchers, KernelStep(l) PROVE PipeInv'
  BY <1>6, PipeFrame DEF PipeInv, KernelStep, DestroyNetns, launcherVars, usernsVars
<1> QED BY <1>1, <1>2, <1>3, <1>4, <1>5, <1>6, BootPipe, ClonePipe, FailPipe, ChildPipe
       DEF Next, ParentStep, KillParent, Over

(* IInv and PipeInv hold together when nobody kills a launcher.            *)
THEOREM PipeInvariance ==
    ASSUME "parent" \notin Killable
    PROVE  Spec => [](IInv /\ PipeInv)
<1>1. Init => PipeInv
  BY PipeInvInit
<1>2. IInv /\ IInv' /\ PipeInv /\ [Next]_vars => PipeInv'
  BY PipeInvNext
<1> QED BY <1>1, <1>2, Invariance, PTL DEF Spec

(* Unless the launcher is killed, a command in a user namespace is never   *)
(* without a launcher that waits for it, whatever calls fail.              *)
THEOREM NeverUnsupervised ==
    ASSUME "parent" \notin Killable
    PROVE  Spec => []Supervised
<1>1. ASSUME IInv, PipeInv, NEW l \in Launchers,
             userns[l], cpc[l] \in {"rootfs", "running"}
      PROVE  pc[l] = "wait"
  <2>1. gidmap[l] = ContainerMap /\ ChildLive(l)
    BY <1>1 DEF IInv, UserNsInv, UserNsLocal, ChildLive
  <2>2. wend[l] = {} /\ pc[l] \in {"notify", "wait"}
    BY <1>1, <2>1 DEF PipeInv, PipeLocal
  <2> QED BY <1>1, <2>2 DEF PipeInv, PipeLocal, MapPoints
<1>2. IInv /\ PipeInv => Supervised
  BY <1>1 DEF Supervised
<1> QED BY <1>2, PipeInvariance, PTL

=============================================================================
