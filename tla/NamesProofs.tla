----------------------------- MODULE NamesProofs ------------------------------
(***************************************************************************)
(* What the names of the host do for launchers that know nothing of each   *)
(* other: directories and interface names work as locks, and of those who  *)
(* race for them not all lose.                                             *)
(*                                                                         *)
(* The race, when every container has a user namespace, no call fails for  *)
(* reasons of the host and nobody is killed: the names are taken in one    *)
(* order, the cgroup directories by Rank and then the pair; a call that    *)
(* finds its name taken finds it taken by a launcher that is at least as   *)
(* far, so the foremost launcher never loses.                              *)
(*                                                                         *)
(* The locks, with all faults and kills: Runc implements NameLocks.        *)
(* Initial states map to initial states, and by IInv and LifeInv every     *)
(* step maps to a step of the same launcher's, or to none.                 *)
(***************************************************************************)
EXTENDS RuncProofs, RuncRefines

-----------------------------------------------------------------------------
(* PathInv: what is on the way of a launcher that loses no race.           *)

LEMMA PathFrame ==
    ASSUME NEW m \in Launchers, PathLocal(m),
           pc'[m] = pc[m], cpc'[m] = cpc[m], userns'[m] = userns[m],
           holds'[m] = holds[m], netcfg'[m] = netcfg[m], veth'.maker = m => veth.maker = m
    PROVE  PathLocal(m)'
BY DEF PathLocal, Wins, Alive

LEMMA PathOthers ==
    ASSUME PathInv, NEW l \in Launchers, PathLocal(l)',
           veth'.maker \in {veth.maker, l, NoOne},
           \A m \in Launchers : m # l =>
              /\ pc'[m] = pc[m] /\ cpc'[m] = cpc[m] /\ userns'[m] = userns[m]
              /\ holds'[m] = holds[m] /\ netcfg'[m] = netcfg[m]
    PROVE  PathInv'
BY PathFrame, NoOneAssumption DEF PathInv

LEMMA PathInvInit ==
    ASSUME Init
    PROVE  PathInv
BY NoOneAssumption DEF Init, LauncherInit, NetInit, PathInv, PathLocal, Wins, Alive, Releasing,
   NoPair, Namespaces

LEMMA BootPath ==
    ASSUME IInv, PathInv, NEW l \in Launchers, Boot(l)
    PROVE  PathInv'
<1>1. /\ pc[l] = "off" /\ pc'[l] \in {"clone", "mkdir"} /\ UNCHANGED <<cpc, netVars>>
      /\ \A m \in Launchers : m # l => pc'[m] = pc[m] /\ userns'[m] = userns[m]
  BY DEF Boot, IInv, TypeOK, LauncherTypeOK
<1>2. cpc[l] = "none" /\ PathLocal(l)
  BY <1>1 DEF IInv, CgroupInv, CgroupLocal, PathInv
<1>3. PathLocal(l)'
  BY <1>1, <1>2 DEF PathLocal, Wins, Alive, Releasing, Building, netVars
<1> QED BY <1>1, <1>3, PathOthers DEF netVars

(* The steps of the launcher that leave the network alone.                 *)
LEMMA WorkPath ==
    ASSUME IInv, PathInv, NEW l \in Launchers, UNCHANGED <<netVars, userns>>,
           \A m \in Launchers : m # l => pc'[m] = pc[m] /\ cpc'[m] = cpc[m],
           \/ /\ pc[l] \in Building /\ pc'[l] \in Building \cup {"clone"} /\ UNCHANGED cpc
           \/ pc[l] = "clone" /\ pc'[l] = "veth" /\ cpc'[l] = "born"
           \/ /\ pc[l] \in RulePoints \cup MapPoints
              /\ pc'[l] \in RulePoints \cup MapPoints \cup {"wait"} /\ UNCHANGED cpc
           \/ /\ pc[l] \in {"wait"} \cup Releasing
              /\ pc'[l] \in Releasing \cup {"free"} /\ UNCHANGED cpc
    PROVE  PathInv'
<1> USE DEF netVars
<1>1. PathLocal(l) /\ NetLocal(l)
  BY DEF PathInv, IInv, NetInv
<1>2. PathLocal(l)'
  BY <1>1, NoOneAssumption DEF PathLocal, NetLocal, LockInv, Wins, Alive, Ended, Releasing,
     Building, Connected, NetPoints, RulePoints, MapPoints
<1> QED BY <1>2, PathOthers

LEMMA NetPath ==
    ASSUME IInv, PipeInv, PathInv, NEW l \in Launchers, NetStep(l)
    PROVE  PathInv'
<1>1. /\ UNCHANGED <<cpc, userns>> /\ \A m \in Launchers : m # l => pc'[m] = pc[m]
      /\ pc[l] \in NetPoints \cup RulePoints
  BY DEF NetStep, CreatePair, AddHostAddr, GetNetnsFd, MovePeer, SetHostUp, EnterNetns,
     AddPeerAddr, SetPeerUp, Configure, SetLoUp, AddRoute, LeaveNetns, AppendRule,
     AppendMasquerade, AppendForwardOut, AppendForwardIn, Advance,
     NetPoints, RulePoints, IInv, TypeOK, LauncherTypeOK
<1>2. /\ PathLocal(l) /\ NetLocal(l) /\ cpc[l] # "none"
      /\ pc[l] \in InsideChild => at[l] = l
  BY <1>1 DEF PathInv, IInv, NetInv, NetLocal, Connected
<1>3. CASE CreatePair(l)
  <2>1. /\ pc[l] = "veth" /\ pc'[l] = "hostaddr" /\ veth'.maker = l /\ UNCHANGED <<holds, netcfg>>
    BY <1>3 DEF CreatePair, Advance, IInv, TypeOK, LauncherTypeOK
  <2>2. PathLocal(l)'
    BY <1>1, <1>2, <2>1 DEF PathLocal, Wins, Alive, Ended, Releasing, Building, Connected,
       RulePoints, MapPoints
  <2> QED BY <1>1, <2>1, <2>2, PathOthers
<1>4. CASE GetNetnsFd(l)
  <2>1. /\ pc[l] = "getns" /\ pc'[l] = "move" /\ UNCHANGED <<veth, netcfg>>
        /\ holds'[l] = ChildLive(l) /\ \A m \in Launchers : m # l => holds'[m] = holds[m]
    BY <1>4 DEF GetNetnsFd, Advance, IInv, TypeOK, LauncherTypeOK, NetTypeOK
  <2>2. userns[l] => ChildLive(l)
    BY <1>2, <2>1 DEF PathLocal, Wins, Releasing, Ended, ChildLive
  <2>3. PathLocal(l)'
    BY <1>1, <1>2, <2>1, <2>2 DEF PathLocal, Wins, Alive, Ended, Releasing, Building, Connected,
       RulePoints, MapPoints
  <2> QED BY <1>1, <2>1, <2>3, PathOthers
<1>5. CASE AddHostAddr(l) \/ SetHostUp(l) \/ AddPeerAddr(l) \/ SetPeerUp(l) \/ MovePeer(l)
           \/ EnterNetns(l)
  <2>1. /\ pc[l] \in {"hostaddr", "move", "hostup", "enter", "peeraddr", "peerup"}
        /\ pc'[l] \in {"getns", "hostup", "enter", "peeraddr", "peerup", "lo"}
        /\ veth'.maker = veth.maker /\ UNCHANGED <<holds, netcfg>>
    BY <1>5 DEF AddHostAddr, SetHostUp, AddPeerAddr, SetPeerUp, MovePeer, EnterNetns, Configure,
       Advance, IInv, TypeOK, LauncherTypeOK, NetTypeOK
  <2>2. PathLocal(l)'
    BY <1>1, <1>2, <2>1 DEF PathLocal, Wins, Alive, Ended, Releasing, Building, Connected,
       RulePoints, MapPoints
  <2> QED BY <1>1, <2>1, <2>2, PathOthers
<1>6. CASE SetLoUp(l) \/ AddRoute(l)
  <2>1. /\ \/ pc[l] = "lo" /\ pc'[l] = "route" /\ netcfg'[l] = netcfg[l] \cup {"lo"}
           \/ pc[l] = "route" /\ pc'[l] = "leave"
        /\ \A m \in Launchers : m # l => netcfg'[m] = netcfg[m]
        /\ UNCHANGED <<holds, veth>>
    BY <1>2, <1>6 DEF SetLoUp, AddRoute, Advance, InsideChild, IInv, TypeOK, LauncherTypeOK,
       NetTypeOK, Namespaces
  <2>2. PathLocal(l)'
    BY <1>1, <1>2, <2>1 DEF PathLocal, Wins, Alive, Ended, Releasing, Building, Connected,
       RulePoints, MapPoints
  <2> QED BY <1>1, <2>1, <2>2, PathOthers
<1>7. CASE LeaveNetns(l) \/ AppendMasquerade(l) \/ AppendForwardOut(l) \/ AppendForwardIn(l)
  <2>1. /\ pc[l] \in {"leave"} \cup RulePoints
        /\ pc'[l] \in RulePoints \cup {"uidmap", "wait"}
        /\ UNCHANGED <<veth, holds, netcfg>>
    BY <1>7 DEF LeaveNetns, AppendMasquerade, AppendForwardOut, AppendForwardIn, AppendRule,
       Advance, RulePoints, IInv, TypeOK, LauncherTypeOK
  <2>2. PathLocal(l)'
    BY <1>1, <1>2, <2>1 DEF PathLocal, Wins, Alive, Ended, Releasing, Building, Connected,
       RulePoints, MapPoints
  <2> QED BY <1>1, <2>1, <2>2, PathOthers
<1> QED BY <1>3, <1>4, <1>5, <1>6, <1>7 DEF NetStep

LEMMA EndPath ==
    ASSUME IInv, PathInv, NEW l \in Launchers, Free(l) \/ Fail(l)
    PROVE  PathInv'
<1>1. PICK how \in Ended : ParentEnds(l, how) /\ (how \in {"done", "aborted"} => pc[l] = "free")
  BY DEF Free, Fail, Ended
<1>2. /\ pc'[l] = how /\ UNCHANGED <<cpc, userns, veth, netcfg>>
      /\ \A m \in Launchers : m # l => pc'[m] = pc[m] /\ holds'[m] = holds[m]
  BY <1>1 DEF ParentEnds, CloseNetns, IInv, TypeOK, LauncherTypeOK, NetTypeOK
<1>3. PathLocal(l)'
  BY <1>1, <1>2 DEF PathInv, PathLocal, Wins, Alive, Ended, Releasing, Building
<1> QED BY <1>2, <1>3, PathOthers

LEMMA ChildPath ==
    ASSUME FaultPoints = {}, IInv, PipeInv, PathInv, NEW l \in Launchers,
           ChildStep(l) \/ CommandEnds(l)
    PROVE  PathInv'
<1>1. /\ UNCHANGED <<pc, userns, netVars>> /\ ChildLive(l) /\ cpc'[l] # "none"
      /\ \A m \in Launchers : m # l => cpc'[m] = cpc[m]
      /\ cpc'[l] = "dead" => cpc[l] \in {"setgid", "setuid", "running"}
  BY DEF ChildStep, UserNsChildStep, ChildClose, ChildRead, ChildSetGid, ChildSetUid,
     ChildSkipsUserNs, ChildExec, ChildFails, CommandEnds, ChildEnds, ChildAdvance,
     IdsAccepted, ChildLive, IInv, TypeOK, LauncherTypeOK
<1>2. userns[l] /\ cpc'[l] = "dead" => Wins(l) \/ pc[l] \in Ended
  <2> SUFFICES ASSUME userns[l], cpc'[l] = "dead" PROVE Wins(l) \/ pc[l] \in Ended
    OBVIOUS
  <2>1. wend[l] = {} /\ PipeLocal(l)
    BY <1>1 DEF PipeInv, PipeLocal
  <2>2. pc[l] \notin {"clone"} \cup Building \cup NetPoints \cup RulePoints \cup MapPoints
    BY <2>1 DEF PipeLocal
  <2>3. pc[l] # "off" /\ pc[l] \in ParentPoints
    BY <1>1 DEF IInv, CgroupInv, CgroupLocal, ChildLive, TypeOK, LauncherTypeOK
  <2> QED BY <2>2, <2>3 DEF ParentPoints, Building, Wins, Releasing
<1>3. PathLocal(l)'
  BY <1>1, <1>2 DEF PathInv, PathLocal, Wins, Alive, ChildLive, netVars
<1> QED BY <1>1, <1>3, PathOthers DEF netVars

LEMMA DestroyPath ==
    ASSUME IInv, PathInv, NEW l \in Launchers, KernelStep(l)
    PROVE  PathInv'
<1>1. /\ UNCHANGED <<pc, cpc, userns, holds>> /\ veth'.maker = NoOne
      /\ netcfg'[l] = {} /\ \A m \in Launchers : m # l => netcfg'[m] = netcfg[m]
  BY DEF KernelStep, DestroyNetns, NoPair, launcherVars, IInv, TypeOK, NetTypeOK, Namespaces
<1>2. PathLocal(l)'
  BY <1>1, NoOneAssumption DEF PathInv, PathLocal, Wins, Alive
<1> QED BY <1>1, <1>2, PathOthers

LEMMA PathInvNext ==
    ASSUME FaultPoints = {}, Killable = {}, IInv, PipeInv, PathInv, [Next]_vars
    PROVE  PathInv'
<1>1. ASSUME UNCHANGED vars PROVE PathInv'
  BY <1>1, PathFrame DEF PathInv, vars, launcherVars, netVars
<1>2. ASSUME NEW l \in Launchers, CgroupStep(l), UNCHANGED netVars PROVE PathInv'
  <2>1. /\ UNCHANGED <<cpc, userns>> /\ \A m \in Launchers : m # l => pc'[m] = pc[m]
        /\ \/ pc[l] \in Building /\ pc'[l] \in Building \cup {"clone"}
           \/ pc[l] \in Releasing /\ pc'[l] \in Releasing \cup {"free"}
    BY <1>2 DEF CgroupStep, Mkdir, WriteSetting, JoinTasks, MoveOut, Rmdir, Advance, Building,
       Releasing, IInv, TypeOK, LauncherTypeOK
  <2> QED BY <1>2, <2>1, WorkPath
<1>3. ASSUME NEW l \in Launchers, UserNsStep(l), UNCHANGED netVars PROVE PathInv'
  <2>1. /\ UNCHANGED <<cpc, userns>> /\ \A m \in Launchers : m # l => pc'[m] = pc[m]
        /\ pc[l] \in MapPoints /\ pc'[l] \in MapPoints \cup {"wait"}
    BY <1>3 DEF UserNsStep, WriteUidMap, WriteSetgroups, WriteGidMap, Notify, Advance,
       MapPoints, IInv, TypeOK, LauncherTypeOK
  <2> QED BY <1>3, <2>1, WorkPath
<1>4. ASSUME NEW l \in Launchers, Clone(l) PROVE PathInv'
  BY <1>4, WorkPath DEF Clone, IInv, TypeOK, LauncherTypeOK
<1>5. ASSUME NEW l \in Launchers, Wait(l) PROVE PathInv'
  BY <1>5, WorkPath DEF Wait, Release, Releasing, IInv, TypeOK, LauncherTypeOK
<1> QED BY <1>1, <1>2, <1>3, <1>4, <1>5, BootPath, NetPath, EndPath, ChildPath, DestroyPath
       DEF Next, ParentStep, CloneFails, KillParent, KillChild, Over

-----------------------------------------------------------------------------
(* AheadInv.                                                               *)

LEMMA AheadFrame ==
    ASSUME NEW m \in Launchers, AheadLocal(m), TypeOK,
           pc'[m] = pc[m] \/ pc'[m] \notin Building, todo'[m] = todo[m],
           \A c \in Controllers : dir'[c] = m => dir[c] = m
    PROVE  AheadLocal(m)'
BY SettingsFacts DEF AheadLocal, Reached, TypeOK, CgroupTypeOK

LEMMA AheadInvNext ==
    ASSUME IInv, AheadInv, [Next]_vars
    PROVE  AheadInv'
<1> USE SettingsFacts, InSettingsOf
<1> DEFINE Same == /\ \A m \in Launchers : /\ pc'[m] = pc[m] \/ pc'[m] \notin Building
                                           /\ todo'[m] = todo[m]
                   /\ dir' = dir
<1>0. TypeOK
  BY DEF IInv
<1>1. ASSUME Same PROVE AheadInv'
  BY <1>0, <1>1, AheadFrame DEF AheadInv
<1>2. ASSUME NEW l \in Launchers, AheadLocal(l)',
             \A m \in Launchers : m # l => pc'[m] = pc[m] /\ todo'[m] = todo[m],
             \A c \in Controllers : dir'[c] \in {dir[c], l, NoOne}
      PROVE  AheadInv'
  BY <1>0, <1>2, AheadFrame, NoOneAssumption DEF AheadInv
<1>3. ASSUME NEW l \in Launchers, Boot(l) PROVE AheadInv'
  <2>1. /\ pc[l] = "off" /\ UNCHANGED dir
        /\ \A m \in Launchers : m # l => pc'[m] = pc[m] /\ todo'[m] = todo[m]
        /\ todo'[l] \subseteq Settings
    BY <1>0, <1>3 DEF Boot, BeginLoop, TypeOK, LauncherTypeOK, CgroupTypeOK
  <2>2. \A c \in Controllers : dir[c] # l
    BY <2>1, NoOneAssumption DEF IInv, CgroupInv, DirInv, Started
  <2>3. AheadLocal(l)'
    BY <2>1, <2>2 DEF AheadLocal
  <2> QED BY <1>2, <2>1, <2>3
<1>4. ASSUME NEW l \in Launchers, Mkdir(l) PROVE AheadInv'
  <2>1. PICK s \in Settings : Reached(l, s) /\ dir' = [dir EXCEPT ![ControllerOf[s]] = l]
    BY <1>4 DEF Mkdir
  <2>2. /\ pc[l] = "mkdir" /\ pc'[l] = "setting" /\ todo' = todo /\ todo[l] \subseteq Settings
        /\ \A m \in Launchers : m # l => pc'[m] = pc[m]
    BY <1>0, <1>4 DEF Mkdir, Advance, TypeOK, LauncherTypeOK, CgroupTypeOK
  <2>3. \A c \in Controllers : dir'[c] = (IF c = ControllerOf[s] THEN l ELSE dir[c])
    BY <1>0, <2>1 DEF TypeOK, CgroupTypeOK
  <2>4. \A r : Reached(l, r)' => r = s
    BY <2>1, <2>2, ReachedUnique DEF Reached
  <2>5. \A t \in todo[l] : dir[ControllerOf[t]] # l
    BY <2>2 DEF AheadInv, AheadLocal, Building
  <2>6. AheadLocal(l)'
    BY <2>2, <2>3, <2>4, <2>5 DEF AheadLocal
  <2> QED BY <1>2, <2>2, <2>3, <2>6
<1>5. ASSUME NEW l \in Launchers, WriteSetting(l) PROVE AheadInv'
  <2>1. PICK s \in Settings :
          /\ Reached(l, s)
          /\ Advance(l, "setting",
                IF SettingsOf({ControllerOf[s]}) \cap todo[l] = {s} THEN "join" ELSE "setting")
          /\ todo' = [todo EXCEPT ![l] = @ \ {s}]
    BY <1>5 DEF WriteSetting
  <2>2. /\ pc[l] = "setting" /\ UNCHANGED dir
        /\ pc'[l] = IF SettingsOf({ControllerOf[s]}) \cap todo[l] = {s} THEN "join" ELSE "setting"
        /\ todo'[l] = todo[l] \ {s} /\ s \in todo[l] /\ todo[l] \subseteq Settings
        /\ \A m \in Launchers : m # l => pc'[m] = pc[m] /\ todo'[m] = todo[m]
    BY <1>0, <1>5, <2>1 DEF WriteSetting, Advance, Reached, TypeOK, LauncherTypeOK, CgroupTypeOK
  <2>3. ASSUME NEW t \in todo'[l], dir[ControllerOf[t]] = l
        PROVE  /\ pc'[l] = "setting"
               /\ \A r \in Settings : Reached(l, r)' => ControllerOf[r] = ControllerOf[t]
    <3>1. ControllerOf[t] = ControllerOf[s] /\ t # s /\ t \in todo[l] /\ t \in Settings
      BY <2>1, <2>2, <2>3 DEF AheadInv, AheadLocal, Building
    <3>2. pc'[l] = "setting"
      BY <2>2, <3>1
    <3>3. ASSUME NEW r \in Settings, Reached(l, r)' PROVE ControllerOf[r] = ControllerOf[t]
      <4>1. Rank[s] <= Rank[r] /\ Rank[r] <= Rank[t]
        BY <2>1, <2>2, <2>3, <3>3 DEF Reached
      <4> QED BY <3>1, <4>1, RankFacts
    <3> QED BY <3>2, <3>3
  <2>4. AheadLocal(l)'
    BY <2>2, <2>3 DEF AheadLocal
  <2> QED BY <1>2, <2>2, <2>4
<1>6. ASSUME NEW l \in Launchers, JoinTasks(l) PROVE AheadInv'
  <2>1. /\ pc[l] = "join" /\ UNCHANGED <<dir, todo>>
        /\ \A m \in Launchers : m # l => pc'[m] = pc[m]
    BY <1>0, <1>6 DEF JoinTasks, Advance, TypeOK, LauncherTypeOK
  <2>2. \A s \in todo[l] : dir[ControllerOf[s]] # l
    BY <2>1 DEF AheadInv, AheadLocal, Building
  <2>3. AheadLocal(l)'
    BY <2>1, <2>2 DEF AheadLocal
  <2> QED BY <1>2, <2>1, <2>3
<1>7. ASSUME NEW l \in Launchers, Rmdir(l) PROVE AheadInv'
  <2>1. /\ pc'[l] \in {"free", "moveout"} /\ \A c \in Controllers : dir'[c] \in {dir[c], NoOne}
        /\ \A m \in Launchers : m # l => pc'[m] = pc[m] /\ todo'[m] = todo[m]
    BY <1>0, <1>7 DEF Rmdir, Advance, TypeOK, LauncherTypeOK, CgroupTypeOK
  <2>2. AheadLocal(l)'
    BY <2>1 DEF AheadLocal, Building
  <2> QED BY <1>2, <2>1, <2>2
<1>8. ASSUME NEW l \in Launchers, CloneFails(l) \/ Wait(l) PROVE AheadInv'
  <2>1. /\ pc'[l] \in {"free", "moveout"} /\ UNCHANGED dir
        /\ \A m \in Launchers : m # l => pc'[m] = pc[m] /\ todo'[m] = todo[m]
    BY <1>0, <1>8 DEF CloneFails, Wait, Release, BeginLoop, TypeOK, LauncherTypeOK, CgroupTypeOK
  <2>2. AheadLocal(l)'
    BY <2>1 DEF AheadLocal, Building
  <2> QED BY <1>2, <2>1, <2>2
<1>9. ASSUME NEW l \in Launchers, Free(l) \/ Fail(l) \/ KillParent(l) PROVE AheadInv'
  BY <1>0, <1>1, <1>9
     DEF Free, Fail, KillParent, ParentEnds, LeaveTasks, Building, TypeOK, LauncherTypeOK
<1>10. ASSUME NEW l \in Launchers, MoveOut(l) PROVE AheadInv'
  BY <1>0, <1>1, <1>10 DEF MoveOut, Advance, Building, TypeOK, LauncherTypeOK
<1>11. ASSUME NEW l \in Launchers, UserNsStep(l), UNCHANGED cgroupVars PROVE AheadInv'
  BY <1>0, <1>1, <1>11 DEF UserNsStep, WriteUidMap, WriteSetgroups, WriteGidMap, Notify, Advance,
     Building, cgroupVars, TypeOK, LauncherTypeOK
<1>12. ASSUME NEW l \in Launchers, NetStep(l), UNCHANGED cgroupVars PROVE AheadInv'
  BY <1>0, <1>1, <1>12
     DEF NetStep, CreatePair, AddHostAddr, GetNetnsFd, MovePeer, SetHostUp, EnterNetns,
     AddPeerAddr, SetPeerUp, Configure, SetLoUp, AddRoute, LeaveNetns, AppendRule,
     AppendMasquerade, AppendForwardOut, AppendForwardIn, Advance, Building, cgroupVars,
     TypeOK, LauncherTypeOK
<1>13. ASSUME NEW l \in Launchers, Clone(l) PROVE AheadInv'
  BY <1>0, <1>1, <1>13 DEF Clone, InheritTasks, Building, TypeOK, LauncherTypeOK
<1>14. ASSUME NEW l \in Launchers,
              ChildStep(l) \/ CommandEnds(l) \/ KillChild(l) \/ KernelStep(l)
       PROVE  AheadInv'
  <2>1. UNCHANGED <<pc, dir, todo>>
    BY <1>14 DEF ChildStep, UserNsChildStep, ChildClose, ChildRead, ChildSetGid, ChildSetUid,
       ChildSkipsUserNs, ChildExec, ChildFails, CommandEnds, KillChild, ChildEnds, ChildAdvance,
       LeaveTasks, KernelStep, DestroyNetns, launcherVars, cgroupVars
  <2> QED BY <1>1, <2>1
<1>15. ASSUME UNCHANGED vars PROVE AheadInv'
  BY <1>1, <1>15 DEF vars, launcherVars, cgroupVars
<1> QED BY <1>3, <1>4, <1>5, <1>6, <1>7, <1>8, <1>9, <1>10, <1>11, <1>12, <1>13, <1>14, <1>15
       DEF Next, ParentStep, CgroupStep, Over

-----------------------------------------------------------------------------
(* RaceInv.                                                                *)

(* The only calls that are refused are the ones that take a name.          *)
LEMMA Refused ==
    ASSUME FaultPoints = {}, IInv, PathInv, NEW l \in Launchers, userns[l], Fail(l)
    PROVE  \/ /\ pc[l] = "mkdir"
              /\ \E s \in Settings : Reached(l, s) /\ dir[ControllerOf[s]] # NoOne
           \/ pc[l] = "veth" /\ veth.maker # NoOne
<1>1. CASE ~CgroupAccepts(l)
  <2>1. pc[l] # "rmdir"
    BY <1>1, RmdirFindsEmpty DEF RmdirAccepted
  <2> QED BY <1>1, <2>1 DEF CgroupAccepts
<1>2. CASE ~NetAccepts(l)
  <2>1. NetLocal(l) /\ PathLocal(l)
    BY DEF IInv, NetInv, PathInv
  <2>2. CASE pc[l] = "veth"
    BY <1>2, <2>2 DEF NetAccepts, HasLink
  <2>3. CASE pc[l] \in {"hostaddr", "move", "hostup", "enter", "peeraddr", "peerup", "route"}
    <3>1. /\ veth.maker = l /\ Alive(l)
          /\ pc[l] \in BeforeMove => veth.peer = HostNs
          /\ pc[l] \notin BeforeMove => veth.peer = l /\ holds[l]
      BY <2>1, <2>3, Holder DEF NetPoints
    <3>2. at[l] = IF pc[l] \in InsideChild THEN l ELSE HostNs
      BY <2>1 DEF NetLocal
    <3>3. pc[l] = "move" => holds[l]
      BY <2>1 DEF PathLocal
    <3>4. pc[l] = "route" => /\ "peerAddr" \in veth.conf /\ "peerUp" \in veth.conf
                             /\ "default" \notin netcfg[l]
      BY <2>1, <3>1 DEF NetLocal, ConfInv, PathLocal, Wins, Connected, Releasing, RulePoints,
         MapPoints
    <3> QED BY <1>2, <2>3, <3>1, <3>2, <3>3, <3>4, NoOneAssumption
           DEF NetAccepts, HasLink, HostEnd, PeerEnd, BeforeMove, InsideChild, HostNs
  <2> QED BY <1>2, <2>2, <2>3 DEF NetAccepts
<1> QED BY <1>1, <1>2 DEF Fail

(* So whoever is refused is not the foremost.                              *)
LEMMA RefusedIsBehind ==
    ASSUME FaultPoints = {}, IInv, PathInv, AheadInv, NEW l \in Launchers, userns[l], Fail(l)
    PROVE  ~Wins(l) /\ ~Foremost(l)
<1> USE InSettingsOf, SettingsFacts
<1>1. PathLocal(l) /\ AheadLocal(l) /\ CgroupLocal(l)
  BY DEF IInv, CgroupInv, PathInv, AheadInv
<1>2. CASE pc[l] = "veth" /\ veth.maker # NoOne
  BY <1>1, <1>2 DEF PathLocal, Wins, Releasing, Foremost
<1>3. CASE /\ pc[l] = "mkdir"
           /\ \E s \in Settings : Reached(l, s) /\ dir[ControllerOf[s]] # NoOne
  <2>1. PICK s \in Settings : Reached(l, s) /\ dir[ControllerOf[s]] # NoOne
    BY <1>3
  <2>2. veth.maker # l
    BY <1>1, <1>3 DEF PathLocal, Building
  <2>3. ASSUME NEW t \in Settings, dir[ControllerOf[t]] = l PROVE Rank[t] < Rank[s]
    <3>1. ControllerOf[t] \in flags[l]
      BY <2>3, NoOneAssumption DEF IInv, CgroupInv, DirInv
    <3>2. t \notin todo[l]
      BY <1>1, <1>3, <2>3 DEF AheadLocal, Building
    <3> QED BY <1>1, <1>3, <2>1, <3>1, <3>2
           DEF CgroupLocal, BuildInv, Building, Behind, Reached
  <2>4. ~Foremost(l)
    BY <2>1, <2>2, <2>3, RankFacts DEF Foremost
  <2> QED BY <1>3, <2>4 DEF Wins, Releasing
<1> QED BY <1>2, <1>3, Refused

(* The steps that take and release no name, and end nobody but a winner.   *)
LEMMA RaceFrame ==
    ASSUME RaceInv, NoOne \notin Launchers,
           \A m \in Launchers : /\ Started(m) => Started(m)' /\ userns'[m] = userns[m]
                                /\ Wins(m) => Wins(m)'
                                /\ pc'[m] \in Ended => pc[m] \in Ended \/ Wins(m),
           dir' = dir, veth'.maker = veth.maker
    PROVE  RaceInv'
<1> SUFFICES ASSUME \A m \in Launchers : Started(m)' => userns'[m] PROVE RaceInv'
  BY DEF RaceInv
<1>1. \A m \in Launchers : Started(m) => userns[m]
  OBVIOUS
<1>2. CASE \E m \in Launchers : Wins(m)
  BY <1>2 DEF RaceInv
<1>3. CASE NoneEnded /\ veth.maker = NoOne /\ \A c \in Controllers : dir[c] = NoOne
  <2>1. CASE NoneEnded'
    BY <1>3, <2>1 DEF RaceInv
  <2>2. CASE ~NoneEnded'
    <3>1. PICK m \in Launchers : pc'[m] \in Ended
      BY <2>2 DEF NoneEnded
    <3> QED BY <1>2, <1>3, <3>1 DEF NoneEnded
  <2> QED BY <2>1, <2>2
<1>4. CASE \E m \in Launchers : Alive(m) /\ Foremost(m)
  <2>1. PICK m \in Launchers : Alive(m) /\ Foremost(m)
    BY <1>4
  <2>2. Foremost(m)'
    BY <2>1 DEF Foremost
  <2>3. CASE pc'[m] \in Ended
    BY <1>2, <2>1, <2>3 DEF Alive
  <2>4. CASE pc'[m] \notin Ended
    <3>1. Alive(m)'
      BY <2>1, <2>4 DEF Alive, Started
    <3> QED BY <2>2, <3>1 DEF RaceInv
  <2> QED BY <2>3, <2>4
<1> QED BY <1>1, <1>2, <1>3, <1>4 DEF RaceInv

(* A new directory makes its maker the foremost, or leaves the foremost.   *)
LEMMA MkdirRace ==
    ASSUME IInv, RaceInv, NEW l \in Launchers, Mkdir(l), UNCHANGED netVars
    PROVE  RaceInv'
<1> USE SettingsFacts, NoOneAssumption
<1>1. PICK s \in Settings : /\ dir[ControllerOf[s]] = NoOne
                            /\ dir' = [dir EXCEPT ![ControllerOf[s]] = l]
  BY DEF Mkdir
<1>2. /\ pc[l] = "mkdir" /\ pc'[l] = "setting" /\ UNCHANGED <<userns, veth>>
      /\ \A m \in Launchers : m # l => pc'[m] = pc[m]
  BY DEF Mkdir, Advance, netVars, IInv, TypeOK, LauncherTypeOK
<1>3. \A c \in Controllers : dir'[c] = IF c = ControllerOf[s] THEN l ELSE dir[c]
  BY <1>1 DEF IInv, TypeOK, CgroupTypeOK
<1> SUFFICES ASSUME \A m \in Launchers : Started(m)' => userns'[m] PROVE RaceInv'
  BY DEF RaceInv
<1>4. \A m \in Launchers : Started(m) => userns[m]
  BY <1>2 DEF Started
<1>5. Alive(l)'
  BY <1>2 DEF Alive, Ended
<1>6. CASE \E m \in Launchers : Wins(m)
  BY <1>2, <1>6 DEF RaceInv, Wins, Releasing
<1>7. CASE NoneEnded /\ veth.maker = NoOne /\ \A c \in Controllers : dir[c] = NoOne
  <2> DEFINE top == CHOOSE t \in Settings : /\ ControllerOf[t] = ControllerOf[s]
                        /\ \A u \in Settings : ControllerOf[u] = ControllerOf[s] => Rank[u] <= Rank[t]
  <2>1. \E t \in Settings : /\ ControllerOf[t] = ControllerOf[s]
                            /\ \A u \in Settings : ControllerOf[u] = ControllerOf[s]
                                  => Rank[u] <= Rank[t]
    BY DEF Settings, Rank, ControllerOf
  <2>2. \A c \in Controllers : dir'[c] # NoOne => c = ControllerOf[s]
    BY <1>3, <1>7
  <2>3. Foremost(l)'
    BY <1>2, <1>3, <1>7, <2>1, <2>2 DEF Foremost
  <2> QED BY <1>5, <2>3 DEF RaceInv
<1>8. CASE \E m \in Launchers : Alive(m) /\ Foremost(m)
  <2>1. PICK m \in Launchers : Alive(m) /\ Foremost(m)
    BY <1>8
  <2>2. Alive(m)'
    BY <1>2, <1>5, <2>1 DEF Alive
  <2>3. CASE veth.maker = m
    BY <1>2, <2>2, <2>3 DEF RaceInv, Foremost
  <2>4. CASE veth.maker = NoOne
    <3>1. PICK t \in Settings :
            /\ dir[ControllerOf[t]] = m
            /\ \A u \in Settings : dir[ControllerOf[u]] # NoOne => Rank[u] <= Rank[t]
      BY <2>1, <2>4 DEF Foremost
    <3>2. PICK r \in Settings :
            /\ ControllerOf[r] = ControllerOf[s]
            /\ \A u \in Settings : ControllerOf[u] = ControllerOf[s] => Rank[u] <= Rank[r]
      BY DEF Settings, Rank, ControllerOf
    <3>3. CASE Rank[r] <= Rank[t]
      <4>1. \A u \in Settings : dir'[ControllerOf[u]] # NoOne => Rank[u] <= Rank[t]
        BY <1>3, <3>1, <3>2, <3>3, RankFacts
      <4>2. dir'[ControllerOf[t]] = m
        BY <1>1, <1>3, <3>1
      <4>3. Foremost(m)'
        BY <1>2, <2>4, <4>1, <4>2 DEF Foremost
      <4> QED BY <2>2, <4>3 DEF RaceInv
    <3>4. CASE ~(Rank[r] <= Rank[t])
      <4>1. \A u \in Settings : dir'[ControllerOf[u]] # NoOne => Rank[u] <= Rank[r]
        BY <1>3, <3>1, <3>2, <3>4, RankFacts
      <4>2. dir'[ControllerOf[r]] = l
        BY <1>3, <3>2
      <4>3. Foremost(l)'
        BY <1>2, <2>4, <4>1, <4>2 DEF Foremost
      <4> QED BY <1>5, <4>3 DEF RaceInv
    <3> QED BY <3>3, <3>4
  <2> QED BY <2>1, <2>3, <2>4 DEF Foremost
<1> QED BY <1>4, <1>6, <1>7, <1>8 DEF RaceInv

LEMMA RaceInvNext ==
    ASSUME FaultPoints = {}, Killable = {}, IInv, PipeInv, PathInv, AheadInv, RaceInv,
           [Next]_vars
    PROVE  RaceInv'
<1> USE NoOneAssumption
<1>0. TypeOK
  BY DEF IInv
<1>1. ASSUME NEW l \in Launchers, Mkdir(l), UNCHANGED netVars PROVE RaceInv'
  BY <1>1, MkdirRace
<1>2. ASSUME NEW l \in Launchers, Rmdir(l) \/ Wait(l) PROVE RaceInv'
  BY <1>0, <1>2 DEF Rmdir, Wait, Release, Advance, RaceInv, Wins, Releasing, TypeOK, LauncherTypeOK
<1>3. ASSUME NEW l \in Launchers, CreatePair(l) PROVE RaceInv'
  <2>1. pc'[l] = "hostaddr" /\ veth'.maker = l
    BY <1>0, <1>3 DEF CreatePair, Advance, TypeOK, LauncherTypeOK
  <2> QED BY <2>1 DEF RaceInv, Foremost, Alive, Ended
<1>4. ASSUME NEW l \in Launchers, Fail(l) PROVE RaceInv'
  <2>1. /\ pc'[l] = "failed" /\ UNCHANGED <<userns, dir, veth>>
        /\ \A m \in Launchers : m # l => pc'[m] = pc[m]
    BY <1>0, <1>4 DEF Fail, ParentEnds, LeaveTasks, CloseNetns, TypeOK, LauncherTypeOK
  <2>2. SUFFICES ASSUME \A m \in Launchers : Started(m)' => userns'[m] PROVE RaceInv'
    BY DEF RaceInv
  <2>3. userns[l]
    BY <2>1, <2>2 DEF Started
  <2>4. \A m \in Launchers : Started(m) => userns[m]
    BY <2>1, <2>2, <2>3 DEF Started
  <2>5. ~Wins(l) /\ ~Foremost(l)
    BY <1>4, <2>3, RefusedIsBehind
  <2>6. veth.maker # NoOne \/ \E c \in Controllers : dir[c] # NoOne
    BY <1>4, <2>3, Refused, SettingsFacts
  <2>7. PICK m \in Launchers : m # l /\ (Wins(m) \/ (Alive(m) /\ Foremost(m)))
    <3>1. \/ \E m \in Launchers : Wins(m)
          \/ \E m \in Launchers : Alive(m) /\ Foremost(m)
      BY <2>4, <2>6 DEF RaceInv
    <3>2. PICK m \in Launchers : Wins(m) \/ (Alive(m) /\ Foremost(m))
      BY <3>1
    <3>3. m # l
      BY <2>5, <3>2 DEF Wins, Foremost
    <3> QED BY <3>2, <3>3
  <2> QED BY <2>1, <2>7 DEF RaceInv, Wins, Alive, Foremost
<1>5. ASSUME NEW l \in Launchers, KernelStep(l) PROVE RaceInv'
  <2>1. /\ cpc[l] = "dead" /\ veth.peer = l /\ UNCHANGED <<pc, userns, dir>>
    BY <1>5 DEF KernelStep, DestroyNetns, launcherVars, cgroupVars
  <2>2. veth.maker = l
    BY <2>1 DEF IInv, NetInv, HostNs
  <2>3. SUFFICES ASSUME \A m \in Launchers : Started(m)' => userns'[m] PROVE RaceInv'
    BY DEF RaceInv
  <2>4. Started(l)
    BY <2>1 DEF Started, IInv, CgroupInv, CgroupLocal
  <2>5. Wins(l) \/ pc[l] \in Ended
    BY <2>1, <2>3, <2>4 DEF PathInv, PathLocal, Started
  <2>6. \E m \in Launchers : Wins(m)
    BY <2>1, <2>2, <2>3, <2>5 DEF RaceInv, Started, Alive, Foremost
  <2> QED BY <2>1, <2>6 DEF RaceInv, Wins
<1>6. ASSUME NEW l \in Launchers, dir' = dir, veth'.maker = veth.maker,
             \A m \in Launchers : m # l => pc'[m] = pc[m] /\ userns'[m] = userns[m],
             Started(l) => Started(l)' /\ userns'[l] = userns[l],
             Wins(l) => Wins(l)', pc'[l] \in Ended => pc[l] \in Ended \/ Wins(l)
      PROVE  RaceInv'
  BY <1>6, RaceFrame DEF Started, Wins
<1>7. ASSUME NEW l \in Launchers, Boot(l) PROVE RaceInv'
  BY <1>0, <1>6, <1>7 DEF Boot, BeginLoop, netVars, Started, Wins, Releasing, Ended, TypeOK,
     LauncherTypeOK
<1>8. ASSUME NEW l \in Launchers, WriteSetting(l) \/ JoinTasks(l) \/ MoveOut(l),
             UNCHANGED netVars
      PROVE  RaceInv'
  BY <1>0, <1>6, <1>8 DEF WriteSetting, JoinTasks, MoveOut, Advance, netVars, Started, Wins,
     Releasing, Ended, TypeOK, LauncherTypeOK
<1>9. ASSUME NEW l \in Launchers, UserNsStep(l), UNCHANGED <<cgroupVars, netVars>>
      PROVE  RaceInv'
  BY <1>0, <1>6, <1>9 DEF UserNsStep, WriteUidMap, WriteSetgroups, WriteGidMap, Notify, Advance,
     cgroupVars, netVars, Started, Wins, Releasing, Ended, TypeOK, LauncherTypeOK
<1>10. ASSUME NEW l \in Launchers, NetStep(l), ~CreatePair(l), UNCHANGED cgroupVars
       PROVE  RaceInv'
  <2>1. /\ veth'.maker = veth.maker /\ UNCHANGED <<userns, dir>>
        /\ \A m \in Launchers : m # l => pc'[m] = pc[m]
        /\ pc[l] \in NetPoints \cup RulePoints
        /\ pc'[l] \in NetPoints \cup RulePoints \cup {"uidmap", "wait"}
    BY <1>0, <1>10
       DEF NetStep, AddHostAddr, GetNetnsFd, MovePeer, SetHostUp, EnterNetns,
       AddPeerAddr, SetPeerUp, Configure, SetLoUp, AddRoute, LeaveNetns, AppendRule,
       AppendMasquerade, AppendForwardOut, AppendForwardIn, Advance, NetPoints, RulePoints,
       cgroupVars, TypeOK, LauncherTypeOK, NetTypeOK
  <2> QED BY <1>6, <2>1 DEF Started, Wins, Releasing, Ended, NetPoints, RulePoints
<1>11. ASSUME NEW l \in Launchers, Clone(l) PROVE RaceInv'
  BY <1>0, <1>6, <1>11 DEF Clone, InheritTasks, netVars, Started, Wins, Releasing, Ended, TypeOK,
     LauncherTypeOK
<1>12. ASSUME NEW l \in Launchers, Free(l) PROVE RaceInv'
  <2>1. pc[l] = "free" /\ cpc[l] # "none"
    BY <1>12 DEF Free, PathInv, PathLocal, Wins
  <2>2. /\ pc'[l] \in {"done", "aborted"} /\ UNCHANGED <<userns, dir, veth>>
        /\ \A m \in Launchers : m # l => pc'[m] = pc[m]
    BY <1>0, <1>12, <2>1 DEF Free, ParentEnds, LeaveTasks, CloseNetns, TypeOK, LauncherTypeOK
  <2> QED BY <1>6, <2>1, <2>2 DEF Started, Wins, Releasing, Ended
<1>13. ASSUME NEW l \in Launchers, ChildStep(l) \/ CommandEnds(l) PROVE RaceInv'
  <2>1. UNCHANGED <<pc, userns, dir, veth>>
    BY <1>13 DEF ChildStep, UserNsChildStep, ChildClose, ChildRead, ChildSetGid, ChildSetUid,
       ChildSkipsUserNs, ChildExec, ChildFails, CommandEnds, ChildEnds, ChildAdvance,
       LeaveTasks, cgroupVars, netVars
  <2> QED BY <2>1, <1>6 DEF Started, Wins
<1>14. ASSUME UNCHANGED vars PROVE RaceInv'
  <2>1. UNCHANGED <<pc, userns, dir, veth>>
    BY <1>14 DEF vars, launcherVars, cgroupVars, netVars
  <2> QED BY <2>1, RaceFrame DEF Started, Wins
<1> QED BY <1>1, <1>2, <1>3, <1>4, <1>5, <1>7, <1>8, <1>9, <1>10, <1>11, <1>12, <1>13, <1>14
       DEF Next, ParentStep, CgroupStep, CloneFails, KillParent, KillChild, Over

-----------------------------------------------------------------------------
LEMMA RaceInit ==
    ASSUME Init
    PROVE  PathInv /\ AheadInv /\ RaceInv
<1>1. PathInv
  BY PathInvInit
<1>2. AheadInv
  BY DEF Init, LauncherInit, AheadInv, AheadLocal, Building
<1>3. RaceInv
  BY DEF Init, LauncherInit, CgroupInit, NetInit, NoPair, RaceInv, NoneEnded, Ended
<1> QED BY <1>1, <1>2, <1>3

(* When no call fails for reasons of the host, nobody kills and every      *)
(* container has a user namespace, then out of any number of launchers     *)
(* that have all ended, one has waited for its container.                  *)
THEOREM SomeoneWins ==
    ASSUME FaultPoints = {}, Killable = {}, Launchers # {}
    PROVE  Spec => []NotAllLose
<1>1. Init => PathInv /\ AheadInv /\ RaceInv
  BY RaceInit
<1>2. IInv /\ PipeInv /\ PathInv /\ AheadInv /\ RaceInv /\ [Next]_vars
         => PathInv' /\ AheadInv' /\ RaceInv'
  BY PathInvNext, AheadInvNext, RaceInvNext
<1>3. Spec => [](IInv /\ PipeInv)
  BY PipeInvariance
<1>4. PathInv /\ RaceInv => NotAllLose
  <2> SUFFICES ASSUME RaceInv, \A l \in Launchers : userns[l] /\ pc[l] \in Ended
               PROVE  \E l \in Launchers : pc[l] \in {"done", "aborted"}
    BY DEF NotAllLose
  <2> QED BY DEF RaceInv, NoneEnded, Alive, Wins, Releasing, Ended
<1> QED BY <1>1, <1>2, <1>3, <1>4, PTL DEF Spec

-----------------------------------------------------------------------------
(* LifeInv.                                                                *)

LEMMA LifeInvInit ==
    ASSUME Init
    PROVE  LifeInv
BY NoOneAssumption DEF Init, LauncherInit, NetInit, NoPair, LifeInv, LifeLocal, Building

(* The others keep it when their control points stay and the pair goes to  *)
(* nobody else.                                                            *)
LEMMA LifeOthers ==
    ASSUME LifeInv, NEW l \in Launchers, LifeLocal(l)',
           veth'.maker \in {veth.maker, l, NoOne},
           \A m \in Launchers : m # l => pc'[m] = pc[m] /\ cpc'[m] = cpc[m]
    PROVE  LifeInv'
BY NoOneAssumption DEF LifeInv, LifeLocal, ChildLive

LEMMA CgroupStepLife ==
    ASSUME IInv, LifeInv, NEW l \in Launchers, CgroupStep(l), UNCHANGED netVars
    PROVE  LifeInv'
<1>1. /\ UNCHANGED <<cpc, veth>>
      /\ \A m \in Launchers : m # l => pc'[m] = pc[m]
      /\ \/ pc[l] \in Building /\ pc'[l] \in Building \cup {"clone"}
         \/ pc[l] \in Releasing /\ pc'[l] \in Releasing \cup {"free"}
  BY DEF CgroupStep, Mkdir, WriteSetting, JoinTasks, MoveOut, Rmdir, Advance, Building,
     Releasing, netVars, IInv, TypeOK, LauncherTypeOK
<1>2. pc[l] \in Releasing => ~ChildLive(l)
  BY DEF IInv, CgroupInv, CgroupLocal, ReleaseInv
<1>3. LifeLocal(l)'
  BY <1>1, <1>2 DEF LifeInv, LifeLocal, ChildLive, Building, Releasing
<1> QED BY <1>1, <1>3, LifeOthers

(* In prepare_netns() only the first request changes who made the pair.    *)
LEMMA NetMaker ==
    ASSUME IInv, NEW l \in Launchers, NetStep(l)
    PROVE  \/ CreatePair(l) /\ veth'.maker = l
           \/ pc[l] # "veth" /\ veth'.maker = veth.maker
<1> USE DEF IInv, TypeOK, NetTypeOK
<1>1. CASE CreatePair(l)
  BY <1>1 DEF CreatePair
<1>2. CASE AddHostAddr(l) \/ SetHostUp(l) \/ AddPeerAddr(l) \/ SetPeerUp(l)
  <2>1. PICK item : veth' = [veth EXCEPT !.conf = @ \cup {item}]
    BY <1>2 DEF AddHostAddr, SetHostUp, AddPeerAddr, SetPeerUp, Configure
  <2>2. pc[l] # "veth"
    BY <1>2 DEF AddHostAddr, SetHostUp, AddPeerAddr, SetPeerUp, Configure, Advance
  <2> QED BY <2>1, <2>2
<1>3. CASE MovePeer(l)
  BY <1>3 DEF MovePeer, Advance
<1>4. CASE GetNetnsFd(l) \/ EnterNetns(l) \/ LeaveNetns(l) \/ SetLoUp(l) \/ AddRoute(l)
  BY <1>4 DEF GetNetnsFd, EnterNetns, LeaveNetns, SetLoUp, AddRoute, Advance
<1>5. CASE AppendMasquerade(l) \/ AppendForwardOut(l) \/ AppendForwardIn(l)
  BY <1>5 DEF AppendMasquerade, AppendForwardOut, AppendForwardIn, AppendRule, Advance
<1> QED BY <1>1, <1>2, <1>3, <1>4, <1>5 DEF NetStep

(* The launcher's steps from the pair on to waitpid().                     *)
LEMMA WorkLife ==
    ASSUME IInv, LifeInv, NEW l \in Launchers, NetStep(l) \/ (UserNsStep(l) /\ UNCHANGED netVars)
    PROVE  LifeInv'
<1>1. /\ UNCHANGED cpc
      /\ \A m \in Launchers : m # l => pc'[m] = pc[m]
      /\ pc'[l] \in NetPoints \cup RulePoints \cup MapPoints \cup {"wait"}
      /\ pc'[l] # "veth"
  BY DEF NetStep, CreatePair, AddHostAddr, GetNetnsFd, MovePeer, SetHostUp, EnterNetns,
     AddPeerAddr, SetPeerUp, Configure, SetLoUp, AddRoute, LeaveNetns, AppendRule,
     AppendMasquerade, AppendForwardOut, AppendForwardIn, Advance, UserNsStep, WriteUidMap,
     WriteSetgroups, WriteGidMap, Notify,
     NetPoints, RulePoints, MapPoints, IInv, TypeOK, LauncherTypeOK
<1>2. veth'.maker \in {veth.maker, l}
  BY NetMaker DEF netVars, IInv, NetTypeOK
<1>3. LifeLocal(l)'
  BY <1>1 DEF LifeLocal, Building, NetPoints, RulePoints, MapPoints
<1> QED BY <1>1, <1>2, <1>3, LifeOthers

LEMMA TurnLife ==
    ASSUME IInv, LifeInv, NEW l \in Launchers,
           Boot(l) \/ Clone(l) \/ CloneFails(l) \/ Wait(l)
    PROVE  LifeInv'
<1>1. /\ UNCHANGED veth
      /\ \A m \in Launchers : m # l => pc'[m] = pc[m] /\ cpc'[m] = cpc[m]
      /\ \/ pc[l] \in {"off", "clone"} /\ pc'[l] \in {"clone", "mkdir", "veth"}
         \/ pc'[l] \in {"free", "moveout"} /\ UNCHANGED cpc /\ pc[l] = "clone"
         \/ pc'[l] \in {"free", "moveout"} /\ UNCHANGED cpc /\ cpc[l] = "dead"
  BY DEF Boot, Clone, CloneFails, Wait, Release, netVars, IInv, TypeOK, LauncherTypeOK
<1>2. pc[l] = "clone" => cpc[l] = "none"
  BY DEF IInv, CgroupInv, CgroupLocal
<1>3. LifeLocal(l)'
  BY <1>1, <1>2 DEF LifeInv, LifeLocal, ChildLive, Building
<1> QED BY <1>1, <1>3, LifeOthers

LEMMA ParentEndsLife ==
    ASSUME IInv, LifeInv, NEW l \in Launchers, Free(l) \/ Fail(l) \/ KillParent(l)
    PROVE  LifeInv'
<1>1. /\ UNCHANGED <<cpc, veth>>
      /\ \A m \in Launchers : m # l => pc'[m] = pc[m]
      /\ pc'[l] \in Ended
      /\ pc'[l] = "done" => pc[l] = "free" /\ cpc[l] # "none"
  BY DEF Free, Fail, KillParent, ParentEnds, CloseNetns, Ended, IInv, TypeOK, LauncherTypeOK
<1>2. LifeLocal(l)'
  BY <1>1 DEF LifeInv, LifeLocal, ChildLive, Building, Ended
<1> QED BY <1>1, <1>2, LifeOthers

(* The child of a launcher in free or done is not alive.                   *)
LEMMA ChildLife ==
    ASSUME IInv, LifeInv, NEW l \in Launchers,
           ChildStep(l) \/ CommandEnds(l) \/ KillChild(l)
    PROVE  LifeInv'
<1>1. /\ UNCHANGED <<pc, veth>> /\ ChildLive(l)
      /\ \A m \in Launchers : m # l => cpc'[m] = cpc[m]
  BY DEF ChildStep, UserNsChildStep, ChildClose, ChildRead, ChildSetGid, ChildSetUid,
     ChildSkipsUserNs, ChildExec, ChildFails, CommandEnds, KillChild, ChildEnds, ChildAdvance,
     IdsAccepted, ChildLive, netVars, IInv, TypeOK, LauncherTypeOK
<1>2. LifeLocal(l)'
  BY <1>1 DEF LifeInv, LifeLocal, ChildLive
<1> QED BY <1>1, <1>2, LifeOthers

LEMMA LifeInvNext ==
    ASSUME IInv, LifeInv, [Next]_vars
    PROVE  LifeInv'
<1>1. ASSUME UNCHANGED vars PROVE LifeInv'
  BY <1>1 DEF LifeInv, LifeLocal, ChildLive, vars, launcherVars, netVars
<1>2. ASSUME NEW l \in Launchers, KernelStep(l) PROVE LifeInv'
  <2>1. UNCHANGED <<pc, cpc>> /\ veth'.maker = NoOne
    BY <1>2 DEF KernelStep, DestroyNetns, NoPair, launcherVars
  <2> QED BY <2>1, NoOneAssumption DEF LifeInv, LifeLocal, ChildLive
<1>3. ASSUME NEW l \in Launchers, ParentStep(l) PROVE LifeInv'
  <2>1. CASE CgroupStep(l) /\ UNCHANGED <<usernsVars, netVars>>
    BY <2>1, CgroupStepLife
  <2>2. CASE UserNsStep(l) /\ UNCHANGED <<cgroupVars, netVars>>
    BY <2>2, WorkLife
  <2>3. CASE NetStep(l)
    BY <2>3, WorkLife, Zenon
  <2> QED BY <1>3, <2>1, <2>2, <2>3, TurnLife, ParentEndsLife DEF ParentStep
<1> QED BY <1>1, <1>2, <1>3, TurnLife, ParentEndsLife, ChildLife DEF Next, Over

-----------------------------------------------------------------------------
(* The mapping.                                                            *)

(* A step between two control points of a launcher that is at work.        *)
LEMMA SameStands ==
    ASSUME NEW l \in Launchers, Alive(l), Alive(l)',
           \A m \in Launchers : m # l => pc'[m] = pc[m]
    PROVE  UNCHANGED StandsAs
BY DEF StandsAs, Alive, Ended

LEMMA NewStands ==
    ASSUME NEW l \in Launchers, \A m \in Launchers : m # l => pc'[m] = pc[m]
    PROVE  StandsAs' = [StandsAs EXCEPT ![l] = StandsAs'[l]]
BY DEF StandsAs

LEMMA NewBox ==
    ASSUME NEW l \in Launchers, \A m \in Launchers : m # l => cpc'[m] = cpc[m]
    PROVE  BoxAs' = [BoxAs EXCEPT ![l] = BoxAs'[l]]
BY DEF BoxAs

LEMMA OwnerFacts ==
    /\ \A c \in Controllers : OwnerOf[c] = dir[c] /\ c # PairName
    /\ OwnerOf[PairName] = veth.maker
BY DEF OwnerOf, Controllers, PairName

(* A controller's place is that of the first of its settings.              *)
LEMMA PlaceFacts ==
    \A c \in Controllers :
        /\ \E s \in Settings : ControllerOf[s] = c /\ Rank[s] = PlaceOf[c]
        /\ \A s \in Settings : ControllerOf[s] = c => PlaceOf[c] <= Rank[s]
        /\ PlaceOf[c] \in Nat
BY SettingsFacts DEF PlaceOf, Rank, ControllerOf, Controllers

LEMMA InitMaps == Init => Locks!LocksInit
<1> SUFFICES ASSUME Init PROVE Locks!LocksInit
  OBVIOUS
<1>1. OwnerOf = [n \in Controllers \cup {PairName} |-> NoOne]
  BY DEF Init, CgroupInit, NetInit, NoPair, OwnerOf
<1>2. StandsAs = [l \in Launchers |-> "idle"] /\ BoxAs = [l \in Launchers |-> "none"]
  BY DEF Init, LauncherInit, StandsAs, BoxAs
<1> QED BY <1>1, <1>2 DEF Init, LauncherInit, Locks!LocksInit, Locks!Names

(* mkdir() takes a limit.                                                  *)
LEMMA MkdirTakes ==
    ASSUME IInv, NEW l \in Launchers, Mkdir(l), UNCHANGED netVars
    PROVE  \E c \in Controllers : Locks!TakeLimit(l, c)
<1>1. PICK s \in Settings :
        /\ Reached(l, s) /\ dir[ControllerOf[s]] = NoOne
        /\ dir' = [dir EXCEPT ![ControllerOf[s]] = l]
        /\ pc[l] = "mkdir" /\ pc'[l] = "setting"
        /\ \A m \in Launchers : m # l => pc'[m] = pc[m]
        /\ UNCHANGED <<cpc, flags, veth>>
  BY DEF Mkdir, Advance, netVars, IInv, TypeOK, LauncherTypeOK
<1>2. PICK c \in Controllers : c = ControllerOf[s]
  BY SettingsFacts
<1>3. /\ cpc[l] = "none" /\ todo[l] \subseteq SettingsOf(flags[l])
      /\ \A t \in Behind(l) : dir[ControllerOf[t]] = l
  BY <1>1 DEF IInv, CgroupInv, CgroupLocal, BuildInv, Building
<1>4. c \in flags[l]
  BY <1>1, <1>2, <1>3 DEF Reached, SettingsOf
<1>5. ASSUME NEW d \in flags[l], PlaceOf[d] < PlaceOf[c] PROVE dir[d] = l
  <2>1. d \in Controllers
    BY DEF IInv, TypeOK, LauncherTypeOK
  <2>2. PICK t \in Settings : ControllerOf[t] = d /\ Rank[t] = PlaceOf[d]
    BY <2>1, PlaceFacts
  <2>3. PlaceOf[c] <= Rank[s] /\ Rank[s] \in Nat /\ PlaceOf[c] \in Nat /\ PlaceOf[d] \in Nat
    BY <1>2, <2>1, PlaceFacts, SettingsFacts DEF Rank
  <2>4. t \notin todo[l]
    BY <1>1, <1>5, <2>2, <2>3 DEF Reached
  <2>5. t \in Behind(l)
    BY <2>2, <2>4, InSettingsOf DEF Behind
  <2> QED BY <1>3, <2>2, <2>5
<1>6. OwnerOf' = [OwnerOf EXCEPT ![c] = l]
  BY <1>1, <1>2 DEF OwnerOf, IInv, TypeOK, CgroupTypeOK, Controllers, PairName
<1>7. UNCHANGED StandsAs
  BY <1>1, SameStands DEF Alive, Ended
<1>8. /\ StandsAs[l] = "busy" /\ BoxAs[l] = "none" /\ OwnerOf[c] = NoOne
      /\ \A d \in flags[l] : PlaceOf[d] < PlaceOf[c] => OwnerOf[d] = l
      /\ UNCHANGED BoxAs
  BY <1>1, <1>2, <1>3, <1>5, OwnerFacts DEF StandsAs, BoxAs, Ended, IInv, TypeOK, LauncherTypeOK
<1> QED BY <1>1, <1>4, <1>6, <1>7, <1>8 DEF Locks!TakeLimit

(* rmdir() gives it back.                                                  *)
LEMMA RmdirGives ==
    ASSUME IInv, NEW l \in Launchers, Rmdir(l), UNCHANGED netVars
    PROVE  \E c \in Controllers : Locks!GiveLimit(l, c)
<1>1. PICK s \in Settings :
        /\ Reached(l, s)
        /\ dir' = [dir EXCEPT ![ControllerOf[s]] = NoOne]
        /\ pc[l] = "rmdir" /\ pc'[l] \in {"moveout", "free"}
        /\ \A m \in Launchers : m # l => pc'[m] = pc[m]
        /\ UNCHANGED <<cpc, flags, veth>>
  BY DEF Rmdir, Advance, netVars, IInv, TypeOK, LauncherTypeOK
<1>2. PICK c \in Controllers : c = ControllerOf[s]
  BY SettingsFacts
<1>3. ReleaseInv(l) /\ ~ChildLive(l) /\ s \in todo[l] /\ s \in SettingsOf({c})
  BY <1>1, <1>2, InSettingsOf
     DEF IInv, CgroupInv, CgroupLocal, ReleaseInv, Releasing, Reached
<1>4. dir[c] = l
  BY <1>1, <1>3 DEF ReleaseInv, Releasing
<1>5. OwnerOf' = [OwnerOf EXCEPT ![c] = NoOne]
  BY <1>1, <1>2 DEF OwnerOf, IInv, TypeOK, CgroupTypeOK, Controllers, PairName
<1>6. UNCHANGED StandsAs
  BY <1>1, SameStands DEF Alive, Ended
<1>7. StandsAs[l] = "busy" /\ BoxAs[l] # "live" /\ OwnerOf[c] = l /\ UNCHANGED BoxAs
  BY <1>1, <1>3, <1>4, OwnerFacts DEF StandsAs, BoxAs, ChildLive, Ended
<1> QED BY <1>1, <1>5, <1>6, <1>7 DEF Locks!GiveLimit

(* RTM_NEWLINK takes the pair.                                             *)
LEMMA CreatePairTakes ==
    ASSUME IInv, NEW l \in Launchers, CreatePair(l), UNCHANGED cgroupVars
    PROVE  Locks!TakePair(l)
<1>1. /\ pc[l] = "veth" /\ pc'[l] = "hostaddr" /\ veth'.maker = l
      /\ \A m \in Launchers : m # l => pc'[m] = pc[m]
      /\ UNCHANGED <<cpc, flags, dir>>
  BY DEF CreatePair, Advance, cgroupVars, IInv, TypeOK, LauncherTypeOK
<1>2. at[l] = HostNs /\ cpc[l] # "none"
  BY <1>1 DEF IInv, NetInv, NetLocal, InsideChild, NetPoints
<1>3. veth.maker = NoOne
  BY <1>1, <1>2 DEF CreatePair, NetAccepts, HasLink
<1>4. OwnerOf' = [OwnerOf EXCEPT ![PairName] = l]
  BY <1>1 DEF OwnerOf
<1>5. UNCHANGED StandsAs
  BY <1>1, SameStands DEF Alive, Ended
<1>6. StandsAs[l] = "busy" /\ BoxAs[l] # "none" /\ OwnerOf[PairName] = NoOne /\ UNCHANGED BoxAs
  BY <1>1, <1>2, <1>3, OwnerFacts DEF StandsAs, BoxAs, Ended
<1> QED BY <1>1, <1>4, <1>5, <1>6 DEF Locks!TakePair

(* clone() starts the container, under all its limits.                     *)
LEMMA CloneStarts ==
    ASSUME IInv, NEW l \in Launchers, Clone(l)
    PROVE  Locks!StartBox(l)
<1>1. /\ pc[l] = "clone" /\ pc'[l] = "veth" /\ cpc'[l] = "born"
      /\ \A m \in Launchers : m # l => pc'[m] = pc[m] /\ cpc'[m] = cpc[m]
      /\ UNCHANGED <<flags, dir, veth>>
  BY DEF Clone, InheritTasks, netVars, IInv, TypeOK, LauncherTypeOK
<1>2. cpc[l] = "none" /\ flags[l] \subseteq Controllers /\ \A c \in flags[l] : dir[c] = l
  BY <1>1 DEF IInv, CgroupInv, CgroupLocal, LimitedInv, Limited, TypeOK, LauncherTypeOK
<1>3. UNCHANGED OwnerOf
  BY <1>1 DEF OwnerOf
<1>4. UNCHANGED StandsAs
  BY <1>1, SameStands DEF Alive, Ended
<1>5. /\ StandsAs[l] = "busy" /\ BoxAs[l] = "none" /\ BoxAs'[l] = "live"
      /\ \A c \in flags[l] : OwnerOf[c] = l
  BY <1>1, <1>2, OwnerFacts DEF StandsAs, BoxAs, Ended
<1>6. BoxAs' = [BoxAs EXCEPT ![l] = "live"]
  BY <1>1, <1>5, NewBox
<1> QED BY <1>1, <1>3, <1>4, <1>5, <1>6 DEF Locks!StartBox

LEMMA BootBegins ==
    ASSUME IInv, NEW l \in Launchers, Boot(l)
    PROVE  Locks!Begin(l)
<1>1. PICK f \in SUBSET Controllers :
        /\ flags' = [flags EXCEPT ![l] = f]
        /\ pc[l] = "off" /\ pc'[l] \in {"clone", "mkdir"}
        /\ \A m \in Launchers : m # l => pc'[m] = pc[m]
        /\ UNCHANGED <<cpc, dir, veth>>
  BY SelectionsAssumption DEF Boot, BeginLoop, netVars, IInv, TypeOK, LauncherTypeOK
<1>2. UNCHANGED <<OwnerOf, BoxAs>>
  BY <1>1 DEF OwnerOf, BoxAs
<1>3. StandsAs[l] = "idle" /\ StandsAs'[l] = "busy"
  BY <1>1 DEF StandsAs, Ended
<1>4. StandsAs' = [StandsAs EXCEPT ![l] = "busy"]
  BY <1>1, <1>3, NewStands
<1> QED BY <1>1, <1>2, <1>3, <1>4 DEF Locks!Begin

(* The launcher ends: well, or not.                                        *)
LEMMA ParentEndsMaps ==
    ASSUME IInv, LifeInv, NEW l \in Launchers, Free(l) \/ Fail(l) \/ KillParent(l)
    PROVE  Locks!Finish(l) \/ Locks!Lose(l)
<1>1. /\ Alive(l) /\ pc'[l] \in Ended
      /\ pc'[l] = "done" => pc[l] = "free" /\ cpc[l] # "none"
      /\ \A m \in Launchers : m # l => pc'[m] = pc[m]
      /\ UNCHANGED <<cpc, flags, dir, veth>>
  BY DEF Free, Fail, KillParent, ParentEnds, CloseNetns, LeaveTasks, CgroupAccepts, NetAccepts,
     Alive, Ended, IInv, TypeOK, LauncherTypeOK
<1>2. UNCHANGED <<OwnerOf, BoxAs>> /\ StandsAs[l] = "busy"
  BY <1>1 DEF OwnerOf, BoxAs, StandsAs, Alive, Ended
<1>3. CASE pc'[l] = "done"
  <2>1. cpc[l] = "dead" /\ \A c \in Controllers : dir[c] # l
    BY <1>1, <1>3 DEF LifeInv, LifeLocal, ChildLive, IInv, CgroupInv, CgroupLocal, ReleaseInv
  <2>2. BoxAs[l] = "dead" /\ StandsAs'[l] = "done" /\ \A c \in Controllers : OwnerOf[c] # l
    BY <1>3, <2>1, OwnerFacts DEF BoxAs, StandsAs, Ended
  <2>3. StandsAs' = [StandsAs EXCEPT ![l] = "done"]
    BY <1>1, <2>2, NewStands
  <2> QED BY <1>1, <1>2, <2>2, <2>3 DEF Locks!Finish
<1>4. CASE pc'[l] # "done"
  <2>1. StandsAs'[l] = "lost"
    BY <1>1, <1>4 DEF StandsAs, Ended
  <2>2. StandsAs' = [StandsAs EXCEPT ![l] = "lost"]
    BY <1>1, <2>1, NewStands
  <2> QED BY <1>1, <1>2, <2>2 DEF Locks!Lose
<1> QED BY <1>3, <1>4

(* The child dies, or only gets on.                                        *)
LEMMA ChildMaps ==
    ASSUME IInv, NEW l \in Launchers, ChildStep(l) \/ CommandEnds(l) \/ KillChild(l)
    PROVE  Locks!EndBox(l) \/ UNCHANGED Locks!lockVars
<1>1. /\ UNCHANGED <<pc, flags, dir, veth>> /\ ChildLive(l) /\ cpc'[l] # "none"
      /\ \A m \in Launchers : m # l => cpc'[m] = cpc[m]
  BY DEF ChildStep, UserNsChildStep, ChildClose, ChildRead, ChildSetGid, ChildSetUid,
     ChildSkipsUserNs, ChildExec, ChildFails, CommandEnds, KillChild, ChildEnds, ChildAdvance,
     IdsAccepted, ChildLive, LeaveTasks, cgroupVars, netVars, IInv, TypeOK, LauncherTypeOK
<1>2. UNCHANGED <<OwnerOf, StandsAs>> /\ BoxAs[l] = "live"
  BY <1>1 DEF OwnerOf, StandsAs, BoxAs, ChildLive
<1>3. CASE cpc'[l] = "dead"
  <2>1. BoxAs' = [BoxAs EXCEPT ![l] = "dead"]
    BY <1>1, <1>3, NewBox DEF BoxAs
  <2> QED BY <1>1, <1>2, <2>1 DEF Locks!EndBox
<1>4. CASE cpc'[l] # "dead"
  <2>1. UNCHANGED BoxAs
    BY <1>1, <1>4 DEF BoxAs, ChildLive
  <2> QED BY <1>1, <1>2, <2>1 DEF Locks!lockVars
<1> QED BY <1>3, <1>4

(* The kernel destroys the namespace: LockInv says that the launcher has   *)
(* ended by then.                                                          *)
LEMMA KernelMaps ==
    ASSUME IInv, LifeInv, NEW l \in Launchers, KernelStep(l)
    PROVE  Locks!Reclaim(l)
<1>1. /\ cpc[l] = "dead" /\ ~holds[l] /\ veth.maker # NoOne /\ veth.peer = l
      /\ veth'.maker = NoOne /\ UNCHANGED <<pc, cpc, flags, dir>>
  BY DEF KernelStep, DestroyNetns, NoPair, launcherVars, cgroupVars
<1>2. veth.maker = l /\ LockInv(l)
  BY <1>1, NoOneAssumption DEF IInv, NetInv, NetLocal, HostNs
<1>3. pc[l] \notin {"off", "veth"}
  BY <1>2 DEF LifeInv, LifeLocal
<1>4. pc[l] \in Ended
  BY <1>1, <1>2, <1>3, NoOneAssumption DEF LockInv, Alive, HostNs
<1>5. OwnerOf' = [OwnerOf EXCEPT ![PairName] = NoOne] /\ UNCHANGED <<StandsAs, BoxAs>>
  BY <1>1 DEF OwnerOf, StandsAs, BoxAs
<1>6. StandsAs[l] \in {"done", "lost"} /\ BoxAs[l] = "dead" /\ OwnerOf[PairName] = l
  BY <1>1, <1>2, <1>3, <1>4, OwnerFacts DEF StandsAs, BoxAs
<1> QED BY <1>1, <1>5, <1>6 DEF Locks!Reclaim

(* The launcher's other steps move no name.                                *)
LEMMA StepsBetween ==
    ASSUME IInv, NEW l \in Launchers, Alive(l), Alive(l)',
           \A m \in Launchers : m # l => pc'[m] = pc[m],
           UNCHANGED <<cpc, flags, dir>>, veth'.maker = veth.maker
    PROVE  UNCHANGED Locks!lockVars
<1>1. UNCHANGED <<OwnerOf, BoxAs>>
  BY DEF OwnerOf, BoxAs
<1>2. UNCHANGED StandsAs
  BY SameStands
<1> QED BY <1>1, <1>2 DEF Locks!lockVars

LEMMA BetweenMaps ==
    ASSUME IInv, NEW l \in Launchers,
           \/ (WriteSetting(l) \/ JoinTasks(l) \/ MoveOut(l)) /\ UNCHANGED netVars
           \/ UserNsStep(l) /\ UNCHANGED <<cgroupVars, netVars>>
           \/ NetStep(l) /\ ~CreatePair(l) /\ UNCHANGED cgroupVars
           \/ CloneFails(l)
           \/ Wait(l)
    PROVE  UNCHANGED Locks!lockVars
<1>1. \A m \in Launchers : m # l => pc'[m] = pc[m]
  BY DEF WriteSetting, JoinTasks, MoveOut, UserNsStep, WriteUidMap, WriteSetgroups, WriteGidMap,
     Notify, NetStep, AddHostAddr, GetNetnsFd, MovePeer, SetHostUp, EnterNetns, AddPeerAddr,
     SetPeerUp, Configure, SetLoUp, AddRoute, LeaveNetns, AppendRule, AppendMasquerade,
     AppendForwardOut, AppendForwardIn, CloneFails, Wait, Release, Advance,
     IInv, TypeOK, LauncherTypeOK
<1>2. Alive(l) /\ Alive(l)'
  BY DEF WriteSetting, JoinTasks, MoveOut, UserNsStep, WriteUidMap, WriteSetgroups, WriteGidMap,
     Notify, NetStep, AddHostAddr, GetNetnsFd, MovePeer, SetHostUp, EnterNetns, AddPeerAddr,
     SetPeerUp, Configure, SetLoUp, AddRoute, LeaveNetns, AppendRule, AppendMasquerade,
     AppendForwardOut, AppendForwardIn, CloneFails, Wait, Release, Advance, Alive, Ended,
     IInv, TypeOK, LauncherTypeOK
<1>3. UNCHANGED <<cpc, flags, dir>>
  BY DEF WriteSetting, JoinTasks, MoveOut, UserNsStep, WriteUidMap, WriteSetgroups, WriteGidMap,
     Notify, NetStep, AddHostAddr, GetNetnsFd, MovePeer, SetHostUp, EnterNetns, AddPeerAddr,
     SetPeerUp, Configure, SetLoUp, AddRoute, LeaveNetns, AppendRule, AppendMasquerade,
     AppendForwardOut, AppendForwardIn, CloneFails, Wait, Release, Advance, BeginLoop, cgroupVars
<1>4. veth'.maker = veth.maker
  BY NetMaker DEF CloneFails, Wait, Release, netVars
<1> QED BY <1>1, <1>2, <1>3, <1>4, StepsBetween

LEMMA ParentStepMaps ==
    ASSUME IInv, LifeInv, NEW l \in Launchers, ParentStep(l)
    PROVE  [Locks!LocksNext]_(Locks!lockVars)
<1>1. CASE CgroupStep(l) /\ UNCHANGED <<usernsVars, netVars>>
  <2>1. CASE Mkdir(l)
    BY <1>1, <2>1, MkdirTakes DEF Locks!LocksNext
  <2>2. CASE Rmdir(l)
    BY <1>1, <2>2, RmdirGives DEF Locks!LocksNext
  <2> QED BY <1>1, <2>1, <2>2, BetweenMaps DEF CgroupStep
<1>2. CASE NetStep(l) /\ UNCHANGED <<cgroupVars, usernsVars>>
  <2>1. CASE CreatePair(l)
    BY <1>2, <2>1, CreatePairTakes DEF Locks!LocksNext
  <2> QED BY <1>2, <2>1, BetweenMaps
<1>3. CASE Clone(l)
  BY <1>3, CloneStarts DEF Locks!LocksNext
<1>4. CASE Free(l) \/ Fail(l)
  BY <1>4, ParentEndsMaps DEF Locks!LocksNext
<1>5. CASE UserNsStep(l) /\ UNCHANGED <<cgroupVars, netVars>>
  BY <1>5, BetweenMaps
<1>6. CASE CloneFails(l) \/ Wait(l)
  BY <1>6, BetweenMaps
<1> QED BY <1>1, <1>2, <1>3, <1>4, <1>5, <1>6 DEF ParentStep

LEMMA StepMaps == IInv /\ LifeInv /\ [Next]_vars => [Locks!LocksNext]_(Locks!lockVars)
<1> SUFFICES ASSUME IInv, LifeInv, [Next]_vars PROVE [Locks!LocksNext]_(Locks!lockVars)
  OBVIOUS
<1>1. ASSUME UNCHANGED vars PROVE UNCHANGED Locks!lockVars
  BY <1>1 DEF vars, launcherVars, cgroupVars, netVars, Locks!lockVars, OwnerOf, StandsAs, BoxAs
<1>2. ASSUME NEW l \in Launchers, Boot(l) PROVE Locks!LocksNext
  BY <1>2, BootBegins DEF Locks!LocksNext
<1>3. ASSUME NEW l \in Launchers, KillParent(l) PROVE Locks!LocksNext
  BY <1>3, ParentEndsMaps DEF Locks!LocksNext
<1>4. ASSUME NEW l \in Launchers, ChildStep(l) \/ CommandEnds(l) \/ KillChild(l)
      PROVE  [Locks!LocksNext]_(Locks!lockVars)
  BY <1>4, ChildMaps DEF Locks!LocksNext
<1>5. ASSUME NEW l \in Launchers, KernelStep(l) PROVE Locks!LocksNext
  BY <1>5, KernelMaps DEF Locks!LocksNext
<1> QED BY <1>1, <1>2, <1>3, <1>4, <1>5, ParentStepMaps DEF Next, Over

(* The child of a launcher that has finished is dead, and the pair belongs *)
(* to launchers that have passed their first request, always.              *)
LEMMA LifeInvariance == Spec => []LifeInv
<1>1. Init => LifeInv
  BY LifeInvInit
<1>2. IInv /\ LifeInv /\ [Next]_vars => LifeInv'
  BY LifeInvNext
<1> QED BY <1>1, <1>2, Invariance, PTL DEF Spec

(* Every behaviour of the launchers, with every fault and kill, is one of  *)
(* NameLocks: no directory goes away under a live container, no container  *)
(* starts without what it asked for, nothing is taken from anybody.        *)
THEOREM ImplementsLocks == Spec => KeepsLocks
BY InitMaps, StepMaps, Invariance, LifeInvariance, PTL DEF Spec, KeepsLocks, Locks!LocksSpec

-----------------------------------------------------------------------------
(* RulesInv: who has a rule has passed AppendMasquerade.                   *)

LEMMA RulesFrame ==
    ASSUME RulesInv, NEW l \in Launchers, \A m \in Launchers : m # l => pc'[m] = pc[m],
           \/ pc[l] \in BeforeRules /\ UNCHANGED iptables
           \/ pc'[l] \notin BeforeRules /\ iptables' \subseteq iptables \cup ({l} \X Rules)
    PROVE  RulesInv'
BY DEF RulesInv

(* A rule is appended where nobody has passed to the maps yet.             *)
LEMMA AppendSteps ==
    ASSUME IInv, NEW l \in Launchers,
           AppendMasquerade(l) \/ AppendForwardOut(l) \/ AppendForwardIn(l)
    PROVE  \E k \in 1 .. 3 :
              /\ pc[l] = <<"nat", "fwdout", "fwdin">>[k]
              /\ pc'[l] \in {<<"fwdout", "fwdin", "uidmap">>[k], <<"fwdout", "fwdin", "wait">>[k]}
              /\ \/ iptables' = iptables \cup {<<l, RuleOf[k]>>}
                 \/ UNCHANGED iptables
              /\ UNCHANGED cpc
              /\ \A m \in Launchers : m # l => pc'[m] = pc[m]
<1> USE DEF AppendRule, Advance, IInv, TypeOK, LauncherTypeOK, RuleOf
<1>1. CASE AppendMasquerade(l)
  BY <1>1 DEF AppendMasquerade
<1>2. CASE AppendForwardOut(l)
  BY <1>2 DEF AppendForwardOut
<1>3. CASE AppendForwardIn(l)
  BY <1>3 DEF AppendForwardIn
<1> QED BY <1>1, <1>2, <1>3

(* The steps of a launcher that append no rule: where they lead, and which *)
(* call of _ipt_rule() it makes next, before and after.                    *)
LEMMA OtherSteps ==
    ASSUME IInv, NEW l \in Launchers,
           \/ CgroupStep(l) /\ UNCHANGED <<usernsVars, netVars>>
           \/ UserNsStep(l) /\ UNCHANGED <<cgroupVars, netVars>>
           \/ NetStep(l) /\ ~(AppendMasquerade(l) \/ AppendForwardOut(l) \/ AppendForwardIn(l))
           \/ Boot(l) \/ Clone(l) \/ CloneFails(l) \/ Wait(l)
    PROVE  /\ UNCHANGED iptables
           /\ \A m \in Launchers : m # l => pc'[m] = pc[m] /\ cpc'[m] = cpc[m]
           /\ \/ pc[l] \in {"off", "clone"} \cup Building /\ cpc[l] = "none"
                 /\ \/ pc'[l] \in {"clone"} \cup Building /\ UNCHANGED cpc
                    \/ pc'[l] = "veth" /\ cpc'[l] = "born"
                    \/ pc'[l] \in Releasing \cup {"free"} /\ UNCHANGED cpc
              \/ CreatePair(l) /\ pc[l] = "veth" /\ pc'[l] = "hostaddr" /\ UNCHANGED cpc
              \/ pc[l] \in NetPoints \ {"veth"} /\ pc'[l] \in (NetPoints \ {"veth"}) \cup {"nat"}
                 /\ UNCHANGED cpc
              \/ pc[l] \in MapPoints \cup {"wait"} \cup Releasing /\ UNCHANGED cpc
                 /\ pc'[l] \in MapPoints \cup {"wait", "free"} \cup Releasing
<1>1. \A m \in Launchers : pc[m] \in {"off", "clone"} \cup Building => cpc[m] = "none"
  BY DEF IInv, CgroupInv, CgroupLocal, BuildInv
<1>2. CASE CgroupStep(l) /\ UNCHANGED <<usernsVars, netVars>>
  <2>1. /\ UNCHANGED <<cpc, iptables>>
        /\ \A m \in Launchers : m # l => pc'[m] = pc[m]
        /\ \/ pc[l] \in Building /\ pc'[l] \in Building \cup {"clone"}
           \/ pc[l] \in Releasing /\ pc'[l] \in Releasing \cup {"free"}
    BY <1>2 DEF CgroupStep, Mkdir, WriteSetting, JoinTasks, MoveOut, Rmdir, Advance, Building,
       Releasing, netVars, IInv, TypeOK, LauncherTypeOK
  <2> QED BY <1>1, <2>1
<1>3. CASE UserNsStep(l) /\ UNCHANGED <<cgroupVars, netVars>>
  BY <1>3 DEF UserNsStep, WriteUidMap, WriteSetgroups, WriteGidMap, Notify, Advance,
     MapPoints, netVars, IInv, TypeOK, LauncherTypeOK
<1>4. CASE CreatePair(l)
  BY <1>4 DEF CreatePair, Advance, IInv, TypeOK, LauncherTypeOK
<1>5. CASE AddHostAddr(l) \/ SetHostUp(l) \/ AddPeerAddr(l) \/ SetPeerUp(l)
  BY <1>5 DEF AddHostAddr, SetHostUp, AddPeerAddr, SetPeerUp, Configure, Advance, NetPoints,
     IInv, TypeOK, LauncherTypeOK
<1>6. CASE GetNetnsFd(l) \/ MovePeer(l) \/ EnterNetns(l) \/ LeaveNetns(l) \/ SetLoUp(l)
             \/ AddRoute(l)
  BY <1>6 DEF GetNetnsFd, MovePeer, EnterNetns, LeaveNetns, SetLoUp, AddRoute, Advance,
     NetPoints, IInv, TypeOK, LauncherTypeOK
<1>7. CASE Boot(l)
  BY <1>1, <1>7 DEF Boot, Building, netVars, IInv, TypeOK, LauncherTypeOK
<1>8. CASE Clone(l)
  BY <1>1, <1>8 DEF Clone, netVars, IInv, TypeOK, LauncherTypeOK
<1>9. CASE CloneFails(l) \/ Wait(l)
  BY <1>1, <1>9 DEF CloneFails, Wait, Release, Releasing, netVars, IInv, TypeOK, LauncherTypeOK
<1> QED BY <1>2, <1>3, <1>4, <1>5, <1>6, <1>7, <1>8, <1>9 DEF NetStep

(* The launcher ends.                                                      *)
LEMMA EndSteps ==
    ASSUME IInv, NEW l \in Launchers, Free(l) \/ Fail(l) \/ KillParent(l)
    PROVE  /\ UNCHANGED <<cpc, iptables>> /\ pc'[l] \in Ended
           /\ \A m \in Launchers : m # l => pc'[m] = pc[m]
BY DEF Free, Fail, KillParent, ParentEnds, CloseNetns, Ended, IInv, TypeOK, LauncherTypeOK

(* Nobody else touches the rules.                                          *)
LEMMA NobodyElse ==
    ASSUME IInv, NEW l \in Launchers,
           ChildStep(l) \/ CommandEnds(l) \/ KillChild(l) \/ KernelStep(l)
    PROVE  /\ UNCHANGED <<pc, iptables>>
           /\ \A m \in Launchers : cpc'[m] = "none" <=> cpc[m] = "none"
<1>1. CASE KernelStep(l)
  BY <1>1 DEF KernelStep, DestroyNetns, launcherVars
<1>2. CASE ChildStep(l) \/ CommandEnds(l) \/ KillChild(l)
  BY <1>2 DEF ChildStep, UserNsChildStep, ChildClose, ChildRead, ChildSetGid, ChildSetUid,
     ChildSkipsUserNs, ChildExec, ChildFails, CommandEnds, KillChild, ChildEnds, ChildAdvance,
     IdsAccepted, ChildLive, netVars, IInv, TypeOK, LauncherTypeOK
<1> QED BY <1>1, <1>2

LEMMA RulesInvNext ==
    ASSUME IInv, RulesInv, [Next]_vars
    PROVE  RulesInv'
<1> USE DEF BeforeRules, Building, NetPoints, MapPoints, Releasing, Ended
<1>1. ASSUME UNCHANGED vars PROVE RulesInv'
  BY <1>1 DEF RulesInv, vars, launcherVars, netVars
<1>2. ASSUME NEW l \in Launchers,
             AppendMasquerade(l) \/ AppendForwardOut(l) \/ AppendForwardIn(l)
      PROVE  RulesInv'
  <2>1. PICK k \in 1 .. 3 :
              /\ pc'[l] \in {<<"fwdout", "fwdin", "uidmap">>[k], <<"fwdout", "fwdin", "wait">>[k]}
              /\ iptables' \subseteq iptables \cup {<<l, RuleOf[k]>>}
              /\ \A m \in Launchers : m # l => pc'[m] = pc[m]
    BY <1>2, AppendSteps
  <2>2. RuleOf[k] \in Rules /\ pc'[l] \notin BeforeRules
    BY <2>1 DEF RuleOf, Rules
  <2> QED BY <2>1, <2>2, RulesFrame
<1>3. ASSUME NEW l \in Launchers,
             \/ CgroupStep(l) /\ UNCHANGED <<usernsVars, netVars>>
             \/ UserNsStep(l) /\ UNCHANGED <<cgroupVars, netVars>>
             \/ NetStep(l) /\ ~(AppendMasquerade(l) \/ AppendForwardOut(l) \/ AppendForwardIn(l))
             \/ Boot(l) \/ Clone(l) \/ CloneFails(l) \/ Wait(l)
      PROVE  RulesInv'
  BY <1>3, OtherSteps, RulesFrame
<1>4. ASSUME NEW l \in Launchers, Free(l) \/ Fail(l) \/ KillParent(l) PROVE RulesInv'
  BY <1>4, EndSteps, RulesFrame
<1>5. ASSUME NEW l \in Launchers,
             ChildStep(l) \/ CommandEnds(l) \/ KillChild(l) \/ KernelStep(l)
      PROVE  RulesInv'
  BY <1>5, NobodyElse DEF RulesInv
<1> QED BY <1>1, <1>2, <1>3, <1>4, <1>5 DEF Next, ParentStep, Over

LEMMA RulesInvariance == Spec => []RulesInv
<1>1. Init => RulesInv
  BY DEF Init, NetInit, RulesInv
<1>2. IInv /\ RulesInv /\ [Next]_vars => RulesInv'
  BY RulesInvNext
<1> QED BY <1>1, <1>2, Invariance, PTL DEF Spec

-----------------------------------------------------------------------------
(* The refinement of RuleLog: what each step looks like there.             *)

LEMMA InLog ==
    ASSUME NEW t \in {"nat", "filter"}
    PROVE  /\ LogAs[t] \subseteq Launchers \X (1 .. 3)
           /\ \A l \in Launchers, k \in 1 .. 3 :
                 <<l, k>> \in LogAs[t] <=> RuleTables[k] = t /\ <<l, RuleOf[k]>> \in iptables
BY DEF LogAs

LEMMA InitLog == Init => Log!LogInit
<1> SUFFICES ASSUME Init PROVE Log!LogInit
  OBVIOUS
<1>1. Log!Tables = {"nat", "filter"}
  BY DEF Log!Tables, RuleTables
<1>2. LogAs = [t \in {"nat", "filter"} |-> {}]
  BY DEF Init, NetInit, LogAs
<1>3. NextAs = [l \in Launchers |-> 0]
  BY DEF Init, LauncherInit, NextAs, Alive
<1> QED BY <1>1, <1>2, <1>3 DEF Log!LogInit

(* A step moves at most its own launcher.                                  *)
LEMMA NewNext ==
    ASSUME NEW l \in Launchers,
           \A m \in Launchers : m # l => pc'[m] = pc[m] /\ (cpc'[m] = "none" <=> cpc[m] = "none")
    PROVE  NextAs' = [NextAs EXCEPT ![l] = NextAs'[l]]
BY DEF NextAs, Alive

(* Whoever is inside has made the pair.                                    *)
LEMMA InsideMade ==
    ASSUME IInv, NEW l \in Launchers, NextAs[l] # 0
    PROVE  veth.maker = l
BY DEF IInv, NetInv, NetLocal, LockInv, NextAs

LEMMA CreatePairEnters ==
    ASSUME IInv, RulesInv, NEW l \in Launchers, CreatePair(l)
    PROVE  Log!Enter(l)
<1>1. /\ pc[l] = "veth" /\ pc'[l] = "hostaddr" /\ UNCHANGED <<cpc, iptables>>
      /\ \A m \in Launchers : m # l => pc'[m] = pc[m]
  BY DEF CreatePair, Advance, IInv, TypeOK, LauncherTypeOK
<1>2. at[l] = HostNs /\ cpc[l] # "none"
  BY <1>1 DEF IInv, NetInv, NetLocal, InsideChild, NetPoints
<1>3. veth.maker = NoOne
  BY <1>1, <1>2 DEF CreatePair, NetAccepts, HasLink
<1>4. \A m \in Launchers : NextAs[m] = 0
  BY <1>3, InsideMade, NoOneAssumption
<1>5. NextAs'[l] = 1
  BY <1>1, <1>2 DEF NextAs, Alive, Ended, NetPoints
<1>6. NextAs' = [NextAs EXCEPT ![l] = 1]
  BY <1>1, <1>5, NewNext
<1>7. ASSUME NEW t \in Log!Tables, NEW k \in DOMAIN RuleTables PROVE <<l, k>> \notin LogAs[t]
  <2>1. k \in 1 .. 3 /\ t \in {"nat", "filter"} /\ RuleOf[k] \in Rules
    BY DEF Log!Tables, RuleTables, RuleOf, Rules
  <2>2. <<l, RuleOf[k]>> \notin iptables
    BY <1>1, <2>1 DEF RulesInv, BeforeRules, NetPoints
  <2> QED BY <2>1, <2>2, InLog
<1>8. LogAs' = LogAs
  BY <1>1 DEF LogAs
<1> QED BY <1>4, <1>6, <1>7, <1>8 DEF Log!Enter

(* No two calls of a launcher append the same rule.                        *)
LEMMA RulesDiffer == \A j, k \in 1 .. 3 : RuleOf[j] = RuleOf[k] => j = k
<1>1. Masquerade # ForwardOut /\ Masquerade # ForwardIn /\ ForwardOut # ForwardIn
  BY DEF Masquerade, ForwardOut, ForwardIn
<1> QED BY <1>1 DEF RuleOf

(* Appended or not, the next call is due.                                  *)
LEMMA AppendLogs ==
    ASSUME IInv, NEW l \in Launchers,
           AppendMasquerade(l) \/ AppendForwardOut(l) \/ AppendForwardIn(l)
    PROVE  Log!Write(l) \/ Log!Miss(l)
<1>1. PICK k \in 1 .. 3 :
              /\ pc[l] = <<"nat", "fwdout", "fwdin">>[k]
              /\ pc'[l] \in {<<"fwdout", "fwdin", "uidmap">>[k], <<"fwdout", "fwdin", "wait">>[k]}
              /\ \/ iptables' = iptables \cup {<<l, RuleOf[k]>>}
                 \/ UNCHANGED iptables
              /\ UNCHANGED cpc
              /\ \A m \in Launchers : m # l => pc'[m] = pc[m]
  BY AppendSteps
<1>2. cpc[l] # "none"
  BY <1>1 DEF IInv, NetInv, NetLocal, Connected, RulePoints
<1>3. NextAs[l] = k /\ NextAs'[l] = k + 1
  BY <1>1, <1>2 DEF NextAs, Alive, Ended, NetPoints
<1>4. NextAs' = [NextAs EXCEPT ![l] = @ + 1] /\ k \in DOMAIN RuleTables
  BY <1>1, <1>3, NewNext DEF RuleTables
<1>5. CASE UNCHANGED iptables
  <2>1. LogAs' = LogAs
    BY <1>5 DEF LogAs
  <2> QED BY <1>3, <1>4, <2>1 DEF Log!Miss
<1>6. CASE iptables' = iptables \cup {<<l, RuleOf[k]>>}
  <2>1. ASSUME NEW t \in {"nat", "filter"}, NEW m \in Launchers, NEW j \in 1 .. 3
        PROVE  <<m, j>> \in LogAs'[t] <=>
                  <<m, j>> \in LogAs[t] \/ (t = RuleTables[k] /\ m = l /\ j = k)
    <3>1. <<m, RuleOf[j]>> \in iptables' <=> <<m, RuleOf[j]>> \in iptables \/ (m = l /\ j = k)
      BY <1>6, RulesDiffer
    <3>2. <<m, j>> \in LogAs'[t] <=> RuleTables[j] = t /\ <<m, RuleOf[j]>> \in iptables'
      BY DEF LogAs
    <3>3. <<m, j>> \in LogAs[t] <=> RuleTables[j] = t /\ <<m, RuleOf[j]>> \in iptables
      BY DEF LogAs
    <3> QED BY <3>1, <3>2, <3>3
  <2>2. RuleTables[k] \in {"nat", "filter"}
    BY DEF RuleTables
  <2>3. ASSUME NEW t \in {"nat", "filter"}
        PROVE  LogAs'[t] = IF t = RuleTables[k] THEN LogAs[t] \cup {<<l, k>>} ELSE LogAs[t]
    <3>1. LogAs'[t] \subseteq Launchers \X (1 .. 3) /\ LogAs[t] \subseteq Launchers \X (1 .. 3)
      BY DEF LogAs
    <3>2. ASSUME NEW w \in Launchers \X (1 .. 3)
          PROVE  w \in LogAs'[t] <=> w \in LogAs[t] \/ (t = RuleTables[k] /\ w = <<l, k>>)
      <4>1. PICK m \in Launchers, j \in 1 .. 3 : w = <<m, j>>
        OBVIOUS
      <4> QED BY <2>1, <4>1
    <3>3. <<l, k>> \in Launchers \X (1 .. 3)
      OBVIOUS
    <3> QED BY <3>1, <3>2, <3>3
  <2>4. /\ LogAs' = [t \in {"nat", "filter"} |-> LogAs'[t]]
        /\ LogAs = [t \in {"nat", "filter"} |-> LogAs[t]]
    BY DEF LogAs
  <2>5. LogAs' = [LogAs EXCEPT ![RuleTables[k]] = @ \cup {<<l, k>>}]
    BY <2>2, <2>3, <2>4
  <2> QED BY <1>3, <1>4, <2>5 DEF Log!Write
<1> QED BY <1>1, <1>5, <1>6

LEMMA OthersUnseen ==
    ASSUME IInv, NEW l \in Launchers,
           \/ CgroupStep(l) /\ UNCHANGED <<usernsVars, netVars>>
           \/ UserNsStep(l) /\ UNCHANGED <<cgroupVars, netVars>>
           \/ NetStep(l) /\ ~(AppendMasquerade(l) \/ AppendForwardOut(l) \/ AppendForwardIn(l))
           \/ Boot(l) \/ Clone(l) \/ CloneFails(l) \/ Wait(l),
           ~CreatePair(l)
    PROVE  UNCHANGED Log!logVars
<1>1. NextAs'[l] = NextAs[l]
  BY OtherSteps DEF NextAs, Alive, Ended, Building, Releasing, NetPoints, MapPoints
<1>2. NextAs' = [NextAs EXCEPT ![l] = NextAs'[l]] /\ LogAs' = LogAs
  BY OtherSteps, NewNext DEF LogAs
<1>3. NextAs' = NextAs
  BY <1>1, <1>2 DEF NextAs
<1> QED BY <1>2, <1>3 DEF Log!logVars

LEMMA ParentEndsLeaves ==
    ASSUME IInv, NEW l \in Launchers, Free(l) \/ Fail(l) \/ KillParent(l)
    PROVE  Log!Leave(l) \/ UNCHANGED Log!logVars
<1>1. NextAs'[l] = 0 /\ LogAs' = LogAs
  BY EndSteps DEF NextAs, LogAs, Alive
<1>2. NextAs' = [NextAs EXCEPT ![l] = 0]
  BY <1>1, EndSteps, NewNext
<1>3. NextAs[l] = 0 => NextAs' = NextAs
  BY <1>2 DEF NextAs
<1> QED BY <1>1, <1>2, <1>3 DEF Log!Leave, Log!logVars

LEMMA StepLogs == IInv /\ RulesInv /\ [Next]_vars => [Log!LogNext]_(Log!logVars)
<1> SUFFICES ASSUME IInv, RulesInv, [Next]_vars PROVE [Log!LogNext]_(Log!logVars)
  OBVIOUS
<1>1. ASSUME UNCHANGED <<pc, iptables>>,
             \A m \in Launchers : cpc'[m] = "none" <=> cpc[m] = "none"
      PROVE  UNCHANGED Log!logVars
  BY <1>1 DEF Log!logVars, LogAs, NextAs, Alive
<1>2. CASE UNCHANGED vars
  BY <1>1, <1>2 DEF vars, launcherVars, netVars
<1>3. ASSUME NEW l \in Launchers,
             ChildStep(l) \/ CommandEnds(l) \/ KillChild(l) \/ KernelStep(l)
      PROVE  UNCHANGED Log!logVars
  BY <1>1, <1>3, NobodyElse
<1>4. ASSUME NEW l \in Launchers, NetStep(l) PROVE [Log!LogNext]_(Log!logVars)
  BY <1>4, CreatePairEnters, AppendLogs, OthersUnseen DEF Log!LogNext
<1>5. ASSUME NEW l \in Launchers,
             \/ CgroupStep(l) /\ UNCHANGED <<usernsVars, netVars>>
             \/ UserNsStep(l) /\ UNCHANGED <<cgroupVars, netVars>>
             \/ Boot(l) \/ Clone(l) \/ CloneFails(l) \/ Wait(l)
      PROVE  [Log!LogNext]_(Log!logVars)
  <2>1. CASE CreatePair(l)
    BY <2>1, CreatePairEnters DEF Log!LogNext
  <2> QED BY <1>5, <2>1, OthersUnseen
<1>6. ASSUME NEW l \in Launchers, Free(l) \/ Fail(l) \/ KillParent(l)
      PROVE  [Log!LogNext]_(Log!logVars)
  BY <1>6, ParentEndsLeaves DEF Log!LogNext
<1> QED BY <1>2, <1>3, <1>4, <1>5, <1>6 DEF Next, ParentStep, Over

(* One launcher at a time writes its rules, each once and in their order,  *)
(* with any faults and kills: the pair that a launcher makes first keeps   *)
(* the next one out until both its processes are gone.                     *)
THEOREM ImplementsRules == Spec => WritesRules
BY InitLog, StepLogs, Invariance, RulesInvariance, PTL DEF Spec, WritesRules, Log!LogSpec

=============================================================================
