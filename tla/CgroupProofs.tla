----------------------------- MODULE CgroupProofs -----------------------------
(***************************************************************************)
(* Type correctness of Runc, and the cgroup part of its inductive          *)
(* invariant, for any set of launchers, any selections of controllers and  *)
(* any set of faults and kills.  The argument for the cgroups: a directory *)
(* is made only where none is, removed only by its maker, and settings are *)
(* written only by its maker; so what one launcher does leaves the others' *)
(* directories, settings and membership alone (lemma Frame), and only its  *)
(* own loops remain.                                                       *)
(***************************************************************************)
EXTENDS RuncInv, TLAPS

USE DEF Parent, Child, HostNs, Namespaces

-----------------------------------------------------------------------------
(* Type correctness.                                                       *)

(* The settings are five, each of one of the four controllers.             *)
LEMMA SettingsFacts ==
    /\ Settings = {"memory", "kmem", "shares", "pids", "weight"}
    /\ \A s \in Settings : ControllerOf[s] \in Controllers
BY DEF Settings, Rank, ControllerOf, Controllers

(* A process' step from one control point to another keeps the launchers'  *)
(* own variables in their types.                                           *)
LEMMA AdvanceType ==
    ASSUME LauncherTypeOK, NEW l \in Launchers, NEW from, NEW to \in ParentPoints,
           Advance(l, from, to)
    PROVE  LauncherTypeOK'
BY DEF LauncherTypeOK, Advance

LEMMA ChildAdvanceType ==
    ASSUME LauncherTypeOK, NEW l \in Launchers, NEW from, NEW to \in ChildPoints,
           ChildAdvance(l, from, to)
    PROVE  LauncherTypeOK'
BY DEF LauncherTypeOK, ChildAdvance

(* Each component's steps keep the types.                                  *)
LEMMA CgroupStepType ==
    ASSUME TypeOK, NEW l \in Launchers, CgroupStep(l)
    PROVE  LauncherTypeOK' /\ CgroupTypeOK'
<1> USE SettingsFacts
<1>1. CASE Mkdir(l)
  <2>1. LauncherTypeOK'
    BY <1>1, AdvanceType DEF TypeOK, Mkdir, ParentPoints
  <2>2. CgroupTypeOK'
    BY <1>1 DEF TypeOK, CgroupTypeOK, Mkdir
  <2> QED BY <2>1, <2>2
<1>2. CASE WriteSetting(l)
  <2>1. LauncherTypeOK'
    BY <1>2, AdvanceType DEF TypeOK, WriteSetting, ParentPoints
  <2>2. CgroupTypeOK'
    BY <1>2 DEF TypeOK, CgroupTypeOK, WriteSetting
  <2> QED BY <2>1, <2>2
<1>3. CASE JoinTasks(l)
  <2>1. LauncherTypeOK'
    BY <1>3, AdvanceType DEF TypeOK, JoinTasks, ParentPoints
  <2>2. CgroupTypeOK'
    BY <1>3 DEF TypeOK, CgroupTypeOK, JoinTasks, Processes
  <2> QED BY <2>1, <2>2
<1>4. CASE MoveOut(l)
  <2>1. LauncherTypeOK'
    BY <1>4, AdvanceType DEF TypeOK, MoveOut, ParentPoints
  <2>2. CgroupTypeOK'
    BY <1>4 DEF TypeOK, CgroupTypeOK, MoveOut
  <2> QED BY <2>1, <2>2
<1>5. CASE Rmdir(l)
  <2>1. LauncherTypeOK'
    BY <1>5, AdvanceType DEF TypeOK, Rmdir, ParentPoints
  <2>2. CgroupTypeOK'
    BY <1>5 DEF TypeOK, CgroupTypeOK, Rmdir
  <2> QED BY <2>1, <2>2
<1> QED BY <1>1, <1>2, <1>3, <1>4, <1>5 DEF CgroupStep

LEMMA UserNsStepType ==
    ASSUME TypeOK, NEW l \in Launchers, UserNsStep(l)
    PROVE  LauncherTypeOK' /\ UserNsTypeOK'
<1>0. ContainerMap \in MapLines
  BY DEF ContainerMap, MapLines
<1>1. LauncherTypeOK'
  BY AdvanceType DEF TypeOK, UserNsStep, WriteUidMap, WriteSetgroups, WriteGidMap, Notify,
     ParentPoints, MapPoints
<1> USE DEF TypeOK, UserNsTypeOK
<1>2. CASE WriteUidMap(l)
  BY <1>0, <1>1, <1>2 DEF WriteUidMap
<1>3. CASE WriteSetgroups(l)
  BY <1>1, <1>3 DEF WriteSetgroups
<1>4. CASE WriteGidMap(l)
  BY <1>0, <1>1, <1>4 DEF WriteGidMap
<1>5. CASE Notify(l)
  BY <1>1, <1>5 DEF Notify, CloseWriteEnd
<1> QED BY <1>2, <1>3, <1>4, <1>5 DEF UserNsStep

LEMMA UserNsChildStepType ==
    ASSUME TypeOK, NEW l \in Launchers, UserNsChildStep(l)
    PROVE  LauncherTypeOK' /\ UserNsTypeOK'
<1>1. LauncherTypeOK'
  BY ChildAdvanceType DEF TypeOK, UserNsChildStep, ChildClose, ChildRead, ChildSetGid,
     ChildSetUid, ChildPoints
<1>2. CASE ChildClose(l) \/ ChildRead(l)
  BY <1>1, <1>2 DEF TypeOK, UserNsTypeOK, ChildClose, ChildRead, CloseWriteEnd, usernsVars
<1>3. CASE ChildSetGid(l)
  BY <1>1, <1>3 DEF TypeOK, UserNsTypeOK, ChildSetGid
<1>4. CASE ChildSetUid(l)
  BY <1>1, <1>4 DEF TypeOK, UserNsTypeOK, ChildSetUid
<1> QED BY <1>2, <1>3, <1>4 DEF UserNsChildStep

LEMMA NetStepType ==
    ASSUME TypeOK, NEW l \in Launchers, NetStep(l)
    PROVE  LauncherTypeOK' /\ NetTypeOK'
<1> USE DEF TypeOK, NetTypeOK
<1>0. LauncherTypeOK'
  BY AdvanceType DEF NetStep, CreatePair, Configure, AddHostAddr, SetHostUp, AddPeerAddr,
     SetPeerUp, GetNetnsFd, MovePeer, EnterNetns, LeaveNetns, SetLoUp, AddRoute, AppendRule,
     AppendMasquerade, AppendForwardOut, AppendForwardIn,
     ParentPoints, NetPoints, RulePoints, MapPoints
<1>1. CASE CreatePair(l)
  BY <1>0, <1>1 DEF CreatePair
<1>2. ASSUME NEW from, NEW to, NEW item \in VethConf, Configure(l, from, to, item)
      PROVE  NetTypeOK'
  BY <1>2 DEF Configure
<1>3. CASE AddHostAddr(l) \/ SetHostUp(l) \/ AddPeerAddr(l) \/ SetPeerUp(l)
  BY <1>0, <1>2, <1>3 DEF AddHostAddr, SetHostUp, AddPeerAddr, SetPeerUp, VethConf
<1>4. CASE GetNetnsFd(l)
  BY <1>0, <1>4 DEF GetNetnsFd, ChildLive
<1>5. CASE MovePeer(l)
  BY <1>0, <1>5 DEF MovePeer
<1>6. CASE EnterNetns(l) \/ LeaveNetns(l)
  BY <1>0, <1>6 DEF EnterNetns, LeaveNetns
<1>7. CASE SetLoUp(l) \/ AddRoute(l)
  BY <1>0, <1>7 DEF SetLoUp, AddRoute
<1>8. ASSUME NEW from, NEW to, NEW rule \in Rules, AppendRule(l, from, to, rule)
      PROVE  NetTypeOK'
  BY <1>8 DEF AppendRule
<1>9. CASE AppendMasquerade(l) \/ AppendForwardOut(l) \/ AppendForwardIn(l)
  BY <1>0, <1>8, <1>9 DEF AppendMasquerade, AppendForwardOut, AppendForwardIn, Rules
<1> QED BY <1>1, <1>3, <1>4, <1>5, <1>6, <1>7, <1>9 DEF NetStep

(* The ends of the two processes, however they come about.                 *)
LEMMA ParentEndsType ==
    ASSUME TypeOK, NEW l \in Launchers, NEW how \in Ended, ParentEnds(l, how)
    PROVE  TypeOK'
<1>1. LauncherTypeOK'
  BY DEF TypeOK, LauncherTypeOK, ParentEnds, ParentPoints
<1>2. CgroupTypeOK'
  BY DEF TypeOK, CgroupTypeOK, ParentEnds, LeaveTasks
<1>3. UserNsTypeOK'
  BY DEF TypeOK, UserNsTypeOK, ParentEnds, CloseWriteEnd
<1>4. NetTypeOK'
  BY DEF TypeOK, NetTypeOK, ParentEnds, CloseNetns
<1> QED BY <1>1, <1>2, <1>3, <1>4 DEF TypeOK

LEMMA ChildEndsType ==
    ASSUME TypeOK, NEW l \in Launchers, ChildEnds(l)
    PROVE  TypeOK'
<1>1. LauncherTypeOK'
  BY DEF TypeOK, LauncherTypeOK, ChildEnds, ChildPoints
<1>2. CgroupTypeOK'
  BY DEF TypeOK, CgroupTypeOK, ChildEnds, LeaveTasks
<1>3. UserNsTypeOK'
  BY DEF TypeOK, UserNsTypeOK, ChildEnds, CloseWriteEnd
<1>4. NetTypeOK'
  BY DEF TypeOK, NetTypeOK, ChildEnds, netVars
<1> QED BY <1>1, <1>2, <1>3, <1>4 DEF TypeOK

(* The launcher's loop over its controllers starts with settings.          *)
LEMMA BeginLoopType ==
    ASSUME CgroupTypeOK, NEW l \in Launchers, NEW ctls, BeginLoop(l, ctls)
    PROVE  CgroupTypeOK'
BY DEF CgroupTypeOK, BeginLoop, SettingsOf

LEMMA ReleaseType ==
    ASSUME TypeOK, NEW l \in Launchers, Release(l)
    PROVE  TypeOK'
<1>1. LauncherTypeOK'
  BY DEF TypeOK, LauncherTypeOK, Release, ParentPoints
<1>2. CgroupTypeOK'
  BY BeginLoopType DEF TypeOK, Release
<1>3. UserNsTypeOK' /\ NetTypeOK'
  BY DEF TypeOK, UserNsTypeOK, NetTypeOK, Release, usernsVars, netVars
<1> QED BY <1>1, <1>2, <1>3 DEF TypeOK

LEMMA BootType ==
    ASSUME TypeOK, NEW l \in Launchers, Boot(l)
    PROVE  TypeOK'
<1>1. LauncherTypeOK'
  BY SelectionsAssumption DEF TypeOK, LauncherTypeOK, Boot, ParentPoints
<1>2. CgroupTypeOK'
  BY BeginLoopType DEF TypeOK, Boot
<1>3. UserNsTypeOK' /\ NetTypeOK'
  BY DEF TypeOK, UserNsTypeOK, NetTypeOK, Boot, OpenPipe, netVars
<1> QED BY <1>1, <1>2, <1>3 DEF TypeOK

LEMMA CloneType ==
    ASSUME TypeOK, NEW l \in Launchers, Clone(l)
    PROVE  TypeOK'
<1>1. LauncherTypeOK'
  BY DEF TypeOK, LauncherTypeOK, Clone, ParentPoints, NetPoints, ChildPoints
<1>2. CgroupTypeOK'
  <2>1. \A c \in Controllers : tasks'[c] \in SUBSET Processes
    BY DEF TypeOK, CgroupTypeOK, Clone, InheritTasks, Processes
  <2> QED BY <2>1 DEF TypeOK, CgroupTypeOK, Clone, InheritTasks
<1>3. UserNsTypeOK'
  BY DEF TypeOK, UserNsTypeOK, Clone, EnterUserNs, Overflow
<1>4. NetTypeOK'
  BY DEF TypeOK, NetTypeOK, Clone, netVars
<1> QED BY <1>1, <1>2, <1>3, <1>4 DEF TypeOK

LEMMA ParentStepType ==
    ASSUME TypeOK, NEW l \in Launchers, ParentStep(l)
    PROVE  TypeOK'
<1>1. CASE CgroupStep(l) /\ UNCHANGED <<usernsVars, netVars>>
  BY <1>1, CgroupStepType DEF TypeOK, UserNsTypeOK, NetTypeOK, usernsVars, netVars
<1>2. CASE UserNsStep(l) /\ UNCHANGED <<cgroupVars, netVars>>
  BY <1>2, UserNsStepType DEF TypeOK, CgroupTypeOK, NetTypeOK, cgroupVars, netVars
<1>3. CASE NetStep(l) /\ UNCHANGED <<cgroupVars, usernsVars>>
  BY <1>3, NetStepType DEF TypeOK, CgroupTypeOK, UserNsTypeOK, cgroupVars, usernsVars
<1>4. CASE Clone(l)
  BY <1>4, CloneType
<1>5. CASE CloneFails(l) \/ Wait(l)
  BY <1>5, ReleaseType DEF CloneFails, Wait
<1>6. CASE Free(l) \/ Fail(l)
  BY <1>6, ParentEndsType DEF Free, Fail, Ended
<1> QED BY <1>1, <1>2, <1>3, <1>4, <1>5, <1>6 DEF ParentStep

LEMMA ChildStepType ==
    ASSUME TypeOK, NEW l \in Launchers, ChildStep(l)
    PROVE  TypeOK'
<1>1. CASE UserNsChildStep(l) /\ UNCHANGED <<cgroupVars, netVars>>
  BY <1>1, UserNsChildStepType DEF TypeOK, CgroupTypeOK, NetTypeOK, cgroupVars, netVars
<1>2. CASE (ChildSkipsUserNs(l) \/ ChildExec(l)) /\ UNCHANGED <<cgroupVars, netVars>>
  <2>1. LauncherTypeOK'
    BY <1>2, ChildAdvanceType DEF TypeOK, ChildSkipsUserNs, ChildExec, ChildPoints
  <2> QED
    BY <1>2, <2>1 DEF TypeOK, CgroupTypeOK, UserNsTypeOK, NetTypeOK, cgroupVars,
       usernsVars, netVars, ChildSkipsUserNs, ChildExec
<1>3. CASE ChildFails(l)
  BY <1>3, ChildEndsType DEF ChildFails
<1> QED BY <1>1, <1>2, <1>3 DEF ChildStep

LEMMA InitType == Init => TypeOK
<1> SUFFICES ASSUME Init PROVE TypeOK OBVIOUS
<1>1. LauncherTypeOK
  BY DEF Init, LauncherInit, LauncherTypeOK, ParentPoints, ChildPoints
<1>2. CgroupTypeOK
  BY DEF Init, CgroupInit, CgroupTypeOK
<1>3. UserNsTypeOK
  BY DEF Init, UserNsInit, UserNsTypeOK, Unmapped, MapLines
<1>4. NetTypeOK
  BY DEF Init, NetInit, NetTypeOK, NoPair
<1> QED BY <1>1, <1>2, <1>3, <1>4 DEF TypeOK

LEMMA NextType == TypeOK /\ [Next]_vars => TypeOK'
<1> SUFFICES ASSUME TypeOK, [Next]_vars PROVE TypeOK' OBVIOUS
<1>1. ASSUME NEW l \in Launchers, Boot(l) PROVE TypeOK'
  BY <1>1, BootType
<1>2. ASSUME NEW l \in Launchers, ParentStep(l) PROVE TypeOK'
  BY <1>2, ParentStepType
<1>3. ASSUME NEW l \in Launchers, ChildStep(l) PROVE TypeOK'
  BY <1>3, ChildStepType
<1>4. ASSUME NEW l \in Launchers, CommandEnds(l) \/ KillChild(l) PROVE TypeOK'
  BY <1>4, ChildEndsType DEF CommandEnds, KillChild
<1>5. ASSUME NEW l \in Launchers, KillParent(l) PROVE TypeOK'
  BY <1>5, ParentEndsType DEF KillParent, Ended
<1>6. ASSUME NEW l \in Launchers, KernelStep(l) PROVE TypeOK'
  BY <1>6 DEF KernelStep, DestroyNetns, TypeOK, LauncherTypeOK, CgroupTypeOK, UserNsTypeOK,
     NetTypeOK, NoPair, launcherVars, cgroupVars, usernsVars
<1>7. CASE Over \/ UNCHANGED vars
  BY <1>7 DEF Over, vars, TypeOK, LauncherTypeOK, CgroupTypeOK, UserNsTypeOK, NetTypeOK,
     launcherVars, cgroupVars, usernsVars, netVars
<1> QED BY <1>1, <1>2, <1>3, <1>4, <1>5, <1>6, <1>7 DEF Next

(* Every variable keeps its type in every behaviour of MyDocker.           *)
THEOREM TypeCorrect == Spec => []TypeOK
BY InitType, NextType, PTL DEF Spec

HIDE DEF Parent, Child, HostNs, Namespaces

-----------------------------------------------------------------------------
(* Facts about the settings and about the loops.                           *)

LEMMA InSettingsOf ==
    \A ctls : \A s : s \in SettingsOf(ctls) <=> s \in Settings /\ ControllerOf[s] \in ctls
BY DEF SettingsOf

(* The order of the settings is total and keeps each controller together.  *)
LEMMA RankFacts ==
    /\ \A s \in Settings : Rank[s] \in Nat
    /\ \A s, t \in Settings : Rank[s] = Rank[t] => s = t
    /\ \A s, t, u \in Settings :
          Rank[s] <= Rank[t] /\ Rank[t] <= Rank[u] /\ ControllerOf[s] = ControllerOf[u]
              => ControllerOf[t] = ControllerOf[s]
BY SettingsFacts DEF Rank, ControllerOf

(* Every controller has a setting.                                         *)
LEMMA SomeSetting ==
    \A c \in Controllers : \E s \in Settings : ControllerOf[s] = c
BY SettingsFacts DEF ControllerOf, Controllers

(* The loop has reached one setting.                                       *)
LEMMA ReachedUnique ==
    ASSUME NEW l, todo[l] \subseteq Settings, NEW s, NEW t, Reached(l, s), Reached(l, t)
    PROVE  s = t
BY RankFacts DEF Reached

(* The controller whose settings were written last is one.                 *)
LEMMA CurrentUnique ==
    ASSUME NEW l, NEW c, NEW d, Current(l, c), Current(l, d)
    PROVE  c = d
<1>1. PICK s \in SettingsOf(flags[l]) \ todo[l] :
        ControllerOf[s] = c /\ \A t \in SettingsOf(flags[l]) \ todo[l] : Rank[t] <= Rank[s]
  BY DEF Current
<1>2. PICK u \in SettingsOf(flags[l]) \ todo[l] :
        ControllerOf[u] = d /\ \A t \in SettingsOf(flags[l]) \ todo[l] : Rank[t] <= Rank[u]
  BY DEF Current
<1>3. s \in Settings /\ u \in Settings
  BY <1>1, <1>2, InSettingsOf
<1>4. Rank[s] \in Nat /\ Rank[u] \in Nat /\ Rank[s] <= Rank[u] /\ Rank[u] <= Rank[s]
  BY <1>1, <1>2, <1>3, RankFacts
<1>5. s = u
  BY <1>3, <1>4, RankFacts
<1> QED BY <1>1, <1>2, <1>5

(* Who is inside a cgroup: the parent or the child of its maker.           *)
LEMMA InsideIsOwn ==
    ASSUME TypeOK, NoForeignLimits, NEW c \in Controllers, NEW p \in tasks[c]
    PROVE  dir[c] \in Launchers /\ (p = Parent(dir[c]) \/ p = Child(dir[c]))
<1>1. p \in Processes /\ dir[c] = p[2]
  BY DEF TypeOK, CgroupTypeOK, NoForeignLimits
<1>2. PICK r \in {"parent", "child"}, m \in Launchers : p = <<r, m>>
  BY <1>1 DEF Processes
<1> QED BY <1>1, <1>2 DEF Parent, Child

(* What keeps NoForeignLimits: whoever is inside a cgroup was there before *)
(* and nothing about it has changed, or is right about it now.             *)
LEMMA ForeignFrame ==
    ASSUME NoForeignLimits,
           \A d \in Controllers : \A p \in tasks'[d] :
              \/ /\ p \in tasks[d] /\ dir'[d] = dir[d]
                 /\ \A t \in SettingsOf({d}) : limits'[t] = limits[t]
              \/ /\ dir'[d] = p[2]
                 /\ \A t \in SettingsOf({d}) : limits'[t] = p[2]
    PROVE  NoForeignLimits'
<1>1. ASSUME NEW d \in Controllers, NEW p \in tasks'[d]
      PROVE  dir'[d] = p[2] /\ \A t \in SettingsOf({d}) : limits'[t] = p[2]
  <2>1. CASE dir'[d] = p[2] /\ \A t \in SettingsOf({d}) : limits'[t] = p[2]
    BY <2>1
  <2>2. CASE /\ p \in tasks[d] /\ dir'[d] = dir[d]
             /\ \A t \in SettingsOf({d}) : limits'[t] = limits[t]
    <3>1. dir[d] = p[2] /\ \A t \in SettingsOf({d}) : limits[t] = p[2]
      BY <2>2 DEF NoForeignLimits
    <3> QED BY <2>2, <3>1
  <2> QED BY <1>1, <2>1, <2>2
<1>2. \A d : SettingsOf({d})' = SettingsOf({d})
  BY DEF SettingsOf
<1> QED BY <1>1, <1>2 DEF NoForeignLimits

(* What keeps one launcher's part of the invariant: its own control points *)
(* and loop do not move, its directories and their settings stay, and its  *)
(* two processes stay where they are.                                      *)
LEMMA Frame ==
    ASSUME TypeOK, NEW m \in Launchers, CgroupLocal(m),
           pc'[m] = pc[m], cpc'[m] = cpc[m], flags'[m] = flags[m], todo'[m] = todo[m],
           \A c \in Controllers : dir'[c] = m <=> dir[c] = m,
           \A c \in Controllers : Parent(m) \in tasks'[c] <=> Parent(m) \in tasks[c],
           \A c \in Controllers : Child(m) \in tasks'[c] <=> Child(m) \in tasks[c],
           \A s \in Settings : dir[ControllerOf[s]] = m => limits'[s] = limits[s]
    PROVE  CgroupLocal(m)'
<1> USE InSettingsOf, SettingsFacts DEF CgroupLocal
<1>0. flags[m] \subseteq Controllers /\ todo[m] \subseteq Settings
  BY DEF TypeOK, LauncherTypeOK, CgroupTypeOK
<1>1. (todo[m] \subseteq SettingsOf(flags[m]))' /\ (pc[m] \in {"off", "clone"} => cpc[m] = "none")'
  OBVIOUS
<1>2. (ChildLive(m) => Confined(m))'
  BY <1>0 DEF ChildLive, Confined
<1>3. BuildInv(m)'
  <2> SUFFICES ASSUME pc[m] \in Building PROVE BuildInv(m)'
    BY DEF BuildInv
  <2>1. \A s : Reached(m, s)' <=> Reached(m, s)
    BY DEF Reached
  <2>2. \A c : Current(m, c)' <=> Current(m, c)
    BY DEF Current
  <2>3. Behind(m)' = Behind(m) /\ Behind(m) \subseteq Settings
    BY DEF Behind
  <2>4. BetweenControllers(m)' <=> BetweenControllers(m)
    BY <2>3 DEF BetweenControllers
  <2> QED BY <2>1, <2>2, <2>3, <2>4 DEF BuildInv
<1>4. LimitedInv(m)'
  BY <1>0 DEF LimitedInv
<1>5. ReleaseInv(m)'
  <2>1. \A s : Reached(m, s)' <=> Reached(m, s)
    BY DEF Reached
  <2> QED BY <1>0, <2>1 DEF ReleaseInv, ChildLive
<1>6. TasksInv(m)'
  BY DEF TasksInv, Alive, ChildLive
<1> QED BY <1>1, <1>2, <1>3, <1>4, <1>5, <1>6

-----------------------------------------------------------------------------
(* One lemma per step: it keeps CgroupInv.                                 *)

LEMMA MkdirInv ==
    ASSUME TypeOK, CgroupInv, NEW l \in Launchers, Mkdir(l)
    PROVE  CgroupInv'
<1> USE InSettingsOf, SettingsFacts, NoOneAssumption
<1>1. PICK s \in Settings :
        /\ Reached(l, s)
        /\ dir[ControllerOf[s]] = NoOne
        /\ dir' = [dir EXCEPT ![ControllerOf[s]] = l]
        /\ limits' = [t \in Settings |->
                        IF ControllerOf[t] = ControllerOf[s] THEN NoOne ELSE limits[t]]
  BY DEF Mkdir
<1> DEFINE c == ControllerOf[s]
<1>2. /\ pc[l] = "mkdir" /\ pc' = [pc EXCEPT ![l] = "setting"]
      /\ UNCHANGED <<cpc, userns, flags, tasks, todo>>
  BY DEF Mkdir, Advance
<1>3. c \in Controllers /\ tasks[c] = {}
  BY <1>1, InsideIsOwn DEF CgroupInv
<1>4. NoForeignLimits'
  <2>1. ASSUME NEW d \in Controllers, NEW p \in tasks'[d]
        PROVE  /\ p \in tasks[d] /\ dir'[d] = dir[d]
               /\ \A t \in SettingsOf({d}) : limits'[t] = limits[t]
    <3>1. p \in tasks[d] /\ d # c
      BY <1>2, <1>3, <2>1
    <3>2. \A t \in SettingsOf({d}) : t \in Settings /\ ControllerOf[t] # c
      BY <3>1
    <3> QED BY <1>1, <1>3, <3>1, <3>2 DEF TypeOK, CgroupTypeOK
  <2> QED BY <2>1, ForeignFrame DEF CgroupInv
<1>5. c \in flags[l]
  BY <1>1 DEF Reached, CgroupInv, CgroupLocal
<1>6. DirInv'
  BY <1>1, <1>2, <1>3, <1>5 DEF CgroupInv, DirInv, TypeOK, CgroupTypeOK, LauncherTypeOK, Started
<1>7. ASSUME NEW m \in Launchers, m # l PROVE CgroupLocal(m)'
  BY <1>1, <1>2, <1>3, <1>7, Frame DEF CgroupInv, TypeOK, CgroupTypeOK, LauncherTypeOK
<1>8. CgroupLocal(l)'
  <2> USE DEF CgroupLocal
  <2>0. /\ CgroupLocal(l) /\ BuildInv(l) /\ pc'[l] = "setting" /\ todo[l] \subseteq Settings
        /\ dir'[c] = l /\ \A d \in Controllers : d # c => dir'[d] = dir[d]
        /\ \A t \in Settings : ControllerOf[t] # c => limits'[t] = limits[t]
    BY <1>1, <1>2, <1>3 DEF CgroupInv, TypeOK, CgroupTypeOK, LauncherTypeOK
  <2>1. BetweenControllers(l) /\ cpc[l] = "none" /\ s \in todo[l]
    BY <1>1, <1>2, <2>0 DEF BuildInv, Building, Reached
  <2>2. \A t \in Behind(l) : t \in Settings /\ ControllerOf[t] # c
    BY <2>1 DEF BetweenControllers, Behind
  <2>3. Behind(l)' = Behind(l) /\ \A t : Reached(l, t)' <=> Reached(l, t)
    BY <1>2 DEF Behind, Reached
  <2>4. BuildInv(l)'
    BY <1>1, <1>2, <2>0, <2>1, <2>2, <2>3, ReachedUnique DEF BuildInv, Building
  <2>5. LimitedInv(l)' /\ ReleaseInv(l)'
    BY <2>0 DEF LimitedInv, ReleaseInv, Limited, Releasing, NetPoints, RulePoints, MapPoints
  <2>6. TasksInv(l)'
    BY <1>2, <2>0 DEF TasksInv, Alive, ChildLive, Ended
  <2> QED BY <1>2, <2>0, <2>1, <2>4, <2>5, <2>6 DEF ChildLive
<1> QED BY <1>4, <1>6, <1>7, <1>8 DEF CgroupInv

LEMMA WriteSettingInv ==
    ASSUME TypeOK, CgroupInv, NEW l \in Launchers, WriteSetting(l)
    PROVE  CgroupInv'
<1> USE InSettingsOf, SettingsFacts
<1>1. PICK s \in Settings :
        /\ Reached(l, s)
        /\ Advance(l, "setting",
                   IF SettingsOf({ControllerOf[s]}) \cap todo[l] = {s} THEN "join" ELSE "setting")
        /\ limits' = [limits EXCEPT ![s] = l]
        /\ todo' = [todo EXCEPT ![l] = @ \ {s}]
        /\ UNCHANGED <<dir, tasks>>
  BY DEF WriteSetting
<1> DEFINE c == ControllerOf[s]
<1>2. /\ pc[l] = "setting" /\ UNCHANGED <<cpc, userns, flags>>
      /\ pc' = [pc EXCEPT ![l] =
                    IF SettingsOf({c}) \cap todo[l] = {s} THEN "join" ELSE "setting"]
  BY <1>1 DEF Advance
<1>3. /\ CgroupLocal(l) /\ BuildInv(l) /\ c \in Controllers /\ s \in todo[l]
      /\ dir[c] = l /\ todo[l] \subseteq Settings /\ cpc[l] = "none"
  BY <1>1, <1>2 DEF CgroupInv, CgroupLocal, BuildInv, Building, Reached, TypeOK, CgroupTypeOK
<1>4. /\ limits'[s] = l /\ \A t \in Settings : t # s => limits'[t] = limits[t]
      /\ todo'[l] = todo[l] \ {s} /\ pc'[l] \in {"join", "setting"}
      /\ \A m \in Launchers : m # l => pc'[m] = pc[m]
  BY <1>1, <1>2 DEF TypeOK, CgroupTypeOK, LauncherTypeOK
<1>5. NoForeignLimits'
  <2>1. ASSUME NEW d \in Controllers, NEW p \in tasks'[d]
        PROVE  /\ dir'[d] = p[2]
               /\ \A t \in SettingsOf({d}) : limits'[t] = p[2]
    <3>1. p \in tasks[d] /\ dir'[d] = dir[d]
      BY <1>1, <2>1
    <3>2. dir[d] = p[2] /\ \A t \in SettingsOf({d}) : limits[t] = p[2]
      BY <2>1, <3>1 DEF CgroupInv, NoForeignLimits
    <3>3. \A t \in SettingsOf({d}) : t \in Settings /\ ControllerOf[t] = d
      OBVIOUS
    <3> QED BY <1>3, <1>4, <3>1, <3>2, <3>3
  <2> QED BY <2>1, ForeignFrame DEF CgroupInv
<1>6. DirInv'
  <2> SUFFICES ASSUME NEW d \in Controllers, dir[d] # NoOne
               PROVE  pc'[dir[d]] # "off" /\ d \in flags[dir[d]]
    BY <1>1, <1>2 DEF DirInv, Started
  <2>1. dir[d] \in Launchers /\ pc[dir[d]] # "off" /\ d \in flags[dir[d]]
    BY DEF CgroupInv, DirInv, TypeOK, CgroupTypeOK, Started
  <2> QED BY <1>4, <2>1
<1>7. ASSUME NEW m \in Launchers, m # l PROVE CgroupLocal(m)'
  BY <1>1, <1>2, <1>3, <1>4, <1>7, Frame DEF CgroupInv, TypeOK, CgroupTypeOK, LauncherTypeOK
<1>8. CgroupLocal(l)'
  <2>1. /\ Behind(l)' = Behind(l) \cup {s} /\ Behind(l) \subseteq Settings
        /\ s \in SettingsOf(flags[l])
    <3>1. s \in SettingsOf(flags[l]) /\ Behind(l) \subseteq Settings
      BY <1>3 DEF Behind, CgroupLocal
    <3>2. Behind(l)' = SettingsOf(flags[l]) \ (todo[l] \ {s})
      BY <1>2, <1>4 DEF Behind
    <3> QED BY <3>1, <3>2 DEF Behind
  <2>2. \A u \in Behind(l)' : Rank[u] <= Rank[s]
    BY <1>2, <1>3, <2>1, RankFacts DEF BuildInv, Building
  <2>3. \A t \in todo'[l] : Rank[s] < Rank[t]
    BY <1>1, <1>3, <1>4, RankFacts DEF Reached
  <2>4. \A u \in Behind(l)', t \in todo'[l] : Rank[u] < Rank[t]
    BY <1>3, <1>4, <2>1, <2>2, <2>3, RankFacts
  <2>5. \A u \in Behind(l)', t \in todo'[l] : ControllerOf[u] = ControllerOf[t]
            => ControllerOf[t] = c
    BY <1>3, <1>4, <2>1, <2>2, <2>3, RankFacts
  <2>6. pc'[l] = "join" => \A t \in todo'[l] : ControllerOf[t] # c
    BY <1>2, <1>3, <1>4 DEF TypeOK, LauncherTypeOK
  <2>7. pc'[l] = "setting" => \E t \in todo'[l] : ControllerOf[t] = c
    BY <1>1, <1>2, <1>3, <1>4 DEF TypeOK, LauncherTypeOK
  <2>8. pc'[l] = "join" => Current(l, c)'
    BY <1>2, <1>4, <2>1, <2>2 DEF Current, Behind
  <2>9. \A u \in Behind(l)' :
            \/ Parent(l) \in tasks[ControllerOf[u]]
            \/ ControllerOf[u] = c
    <3> SUFFICES ASSUME NEW u \in Behind(l), Parent(l) \notin tasks[ControllerOf[u]]
                 PROVE  ControllerOf[u] = c
      BY <2>1
    <3>1. PICK t \in todo[l] : ControllerOf[t] = ControllerOf[u]
      BY <1>2, <1>3 DEF BuildInv, Building
    <3>2. Rank[u] <= Rank[s] /\ Rank[s] <= Rank[t]
      BY <1>1, <2>1, <2>2, <3>1 DEF Reached
    <3> QED BY <1>3, <2>1, <3>1, <3>2, RankFacts
  <2>10. pc'[l] = "setting" => \A t \in Settings : Reached(l, t)' => ControllerOf[t] = c
    <3> SUFFICES ASSUME pc'[l] = "setting", NEW t \in Settings, Reached(l, t)'
                 PROVE  ControllerOf[t] = c
      OBVIOUS
    <3>1. PICK u \in todo'[l] : ControllerOf[u] = c
      BY <2>7
    <3>2. t \in todo'[l] /\ Rank[t] <= Rank[u]
      BY <3>1 DEF Reached
    <3>3. Rank[s] <= Rank[t] /\ u \in Settings
      BY <1>3, <1>4, <2>3, <3>1, <3>2, RankFacts
    <3> QED BY <3>1, <3>2, <3>3, RankFacts
  <2>11. \A u \in Behind(l)' : limits'[u] = l /\ dir[ControllerOf[u]] = l
    BY <1>2, <1>3, <1>4, <2>1 DEF BuildInv, Building
  <2>12. pc'[l] = "join" => BetweenControllers(l)'
    BY <2>5, <2>6 DEF BetweenControllers
  <2>13. \A u \in Behind(l)' :
            \/ Parent(l) \in tasks'[ControllerOf[u]]
            \/ pc'[l] = "join" /\ Current(l, ControllerOf[u])'
            \/ pc'[l] = "setting" /\ \E t \in todo'[l] : ControllerOf[t] = ControllerOf[u]
    BY <1>1, <1>4, <2>7, <2>8, <2>9
  <2>14. BuildInv(l)'
    BY <1>1, <1>2, <1>3, <1>4, <2>4, <2>10, <2>11, <2>12, <2>13 DEF BuildInv
  <2>15. LimitedInv(l)' /\ ReleaseInv(l)'
    BY <1>4 DEF LimitedInv, ReleaseInv, Limited, Releasing, NetPoints, RulePoints, MapPoints
  <2>16. TasksInv(l)'
    BY <1>1, <1>2, <1>3, <1>4 DEF CgroupLocal, TasksInv, Alive, ChildLive, Ended
  <2> QED BY <1>1, <1>2, <1>3, <1>4, <2>14, <2>15, <2>16 DEF CgroupLocal, ChildLive
<1> QED BY <1>5, <1>6, <1>7, <1>8 DEF CgroupInv

(* A directory stays its maker's when nobody is unstarted and no command   *)
(* line changes.                                                           *)
LEMMA DirFrame ==
    ASSUME TypeOK, DirInv, UNCHANGED <<dir, flags>>,
           \A m \in Launchers : pc[m] # "off" => pc'[m] # "off"
    PROVE  DirInv'
BY DEF DirInv, Started, TypeOK, CgroupTypeOK

LEMMA JoinTasksInv ==
    ASSUME TypeOK, CgroupInv, NEW l \in Launchers, JoinTasks(l)
    PROVE  CgroupInv'
<1> USE InSettingsOf, SettingsFacts
<1>1. PICK c \in Controllers :
        /\ Current(l, c)
        /\ tasks' = [tasks EXCEPT ![c] = @ \cup {Parent(l)}]
  BY DEF JoinTasks
<1>2. /\ pc[l] = "join" /\ UNCHANGED <<cpc, userns, flags, dir, limits, todo>>
      /\ pc' = [pc EXCEPT ![l] = IF todo[l] = {} THEN "clone" ELSE "mkdir"]
  BY DEF JoinTasks, Advance
<1>3. /\ CgroupLocal(l) /\ BuildInv(l) /\ BetweenControllers(l) /\ cpc[l] = "none"
      /\ \A s \in Behind(l) : limits[s] = l /\ dir[ControllerOf[s]] = l
      /\ flags[l] \subseteq Controllers
  BY <1>2 DEF CgroupInv, CgroupLocal, BuildInv, Building, TypeOK, LauncherTypeOK
<1>4. /\ pc'[l] = IF todo[l] = {} THEN "clone" ELSE "mkdir"
      /\ \A m \in Launchers : m # l => pc'[m] = pc[m]
      /\ tasks'[c] = tasks[c] \cup {Parent(l)}
      /\ \A d \in Controllers : d # c => tasks'[d] = tasks[d]
  BY <1>1, <1>2 DEF TypeOK, CgroupTypeOK, LauncherTypeOK
<1>5. c \in flags[l] /\ dir[c] = l /\ \A t \in SettingsOf({c}) : limits[t] = l
  <2>1. PICK s \in Behind(l) : ControllerOf[s] = c
    BY <1>1 DEF Current, Behind
  <2>2. c \in flags[l] /\ dir[c] = l
    BY <1>3, <2>1 DEF Behind
  <2>3. ASSUME NEW t \in SettingsOf({c}) PROVE t \in Behind(l)
    BY <1>3, <2>1, <2>2 DEF Behind, BetweenControllers
  <2> QED BY <1>3, <2>2, <2>3
<1>6. NoForeignLimits'
  <2>1. \A d \in Controllers : \A p \in tasks'[d] : p \in tasks[d] \/ (d = c /\ p = Parent(l))
    BY <1>4
  <2>2. Parent(l)[2] = l
    BY DEF Parent
  <2> QED BY <1>2, <1>5, <2>1, <2>2, ForeignFrame DEF CgroupInv
<1>7. DirInv'
  BY <1>2, <1>4, DirFrame DEF CgroupInv
<1>8. ASSUME NEW m \in Launchers, m # l PROVE CgroupLocal(m)'
  <2>1. Parent(m) # Parent(l) /\ Child(m) # Parent(l)
    BY <1>8 DEF Parent, Child
  <2> QED BY <1>2, <1>4, <1>8, <2>1, Frame DEF CgroupInv
<1>9. CgroupLocal(l)'
  <2>1. Behind(l)' = Behind(l) /\ BetweenControllers(l)' <=> BetweenControllers(l)
    BY <1>2 DEF Behind, BetweenControllers
  <2>2. \A s \in Behind(l) : Parent(l) \in tasks'[ControllerOf[s]]
    BY <1>1, <1>2, <1>3, <1>4, CurrentUnique DEF BuildInv, Building, Behind
  <2>3. BuildInv(l)'
    BY <1>2, <1>3, <1>4, <2>1, <2>2 DEF BuildInv, Building, BetweenControllers
  <2>4. LimitedInv(l)'
    <3> SUFFICES ASSUME todo[l] = {} PROVE LimitedInv(l)'
      BY <1>4 DEF LimitedInv, Limited, NetPoints, RulePoints, MapPoints
    <3>1. Behind(l) = SettingsOf(flags[l])
      BY DEF Behind
    <3>2. \A d \in flags[l] : dir[d] = l /\ Parent(l) \in tasks'[d]
      BY <1>3, <2>2, <3>1, SomeSetting
    <3> QED BY <1>2, <1>3, <3>1, <3>2 DEF LimitedInv
  <2>5. ReleaseInv(l)'
    BY <1>4 DEF ReleaseInv, Releasing
  <2>6. TasksInv(l)'
    <3>1. Child(l) # Parent(l)
      BY DEF Parent, Child
    <3> QED BY <1>2, <1>3, <1>4, <3>1 DEF CgroupLocal, TasksInv, Alive, ChildLive, Ended
  <2> QED BY <1>2, <1>3, <1>4, <2>3, <2>4, <2>5, <2>6 DEF CgroupLocal, ChildLive
<1> QED BY <1>6, <1>7, <1>8, <1>9 DEF CgroupInv

LEMMA MoveOutInv ==
    ASSUME TypeOK, CgroupInv, NEW l \in Launchers, MoveOut(l)
    PROVE  CgroupInv'
<1> USE InSettingsOf, SettingsFacts
<1>1. PICK s \in Settings :
        /\ Reached(l, s)
        /\ tasks' = [tasks EXCEPT ![ControllerOf[s]] = @ \ {Parent(l)}]
  BY DEF MoveOut
<1> DEFINE c == ControllerOf[s]
<1>2. /\ pc[l] = "moveout" /\ UNCHANGED <<cpc, userns, flags, dir, limits, todo>>
      /\ pc' = [pc EXCEPT ![l] = "rmdir"]
  BY DEF MoveOut, Advance
<1>3. /\ CgroupLocal(l) /\ ReleaseInv(l) /\ ~ChildLive(l) /\ c \in Controllers
      /\ todo[l] \subseteq Settings
  BY <1>2 DEF CgroupInv, CgroupLocal, ReleaseInv, Releasing, TypeOK, CgroupTypeOK
<1>4. /\ pc'[l] = "rmdir" /\ \A m \in Launchers : m # l => pc'[m] = pc[m]
      /\ tasks'[c] = tasks[c] \ {Parent(l)}
      /\ \A d \in Controllers : d # c => tasks'[d] = tasks[d]
  BY <1>1, <1>2, <1>3 DEF TypeOK, CgroupTypeOK, LauncherTypeOK
<1>5. NoForeignLimits'
  <2>1. \A d \in Controllers : tasks'[d] \subseteq tasks[d]
    BY <1>4
  <2> QED BY <1>2, <2>1, ForeignFrame DEF CgroupInv
<1>6. DirInv'
  BY <1>2, <1>4, DirFrame DEF CgroupInv
<1>7. ASSUME NEW m \in Launchers, m # l PROVE CgroupLocal(m)'
  <2>1. Parent(m) # Parent(l) /\ Child(m) # Parent(l)
    BY <1>7 DEF Parent, Child
  <2> QED BY <1>2, <1>4, <1>7, <2>1, Frame DEF CgroupInv
<1>8. CgroupLocal(l)'
  <2>1. BuildInv(l)' /\ LimitedInv(l)'
    BY <1>4 DEF BuildInv, LimitedInv, Building, Limited, NetPoints, RulePoints, MapPoints
  <2>2. \A t : Reached(l, t)' => t = s
    BY <1>1, <1>2, <1>3, ReachedUnique DEF Reached
  <2>3. ReleaseInv(l)'
    BY <1>2, <1>3, <1>4, <2>2 DEF ReleaseInv, Releasing, ChildLive
  <2>4. TasksInv(l)'
    BY <1>2, <1>3, <1>4 DEF CgroupLocal, TasksInv, Alive, ChildLive, Ended
  <2> QED BY <1>2, <1>3, <1>4, <2>1, <2>3, <2>4 DEF CgroupLocal, ChildLive
<1> QED BY <1>5, <1>6, <1>7, <1>8 DEF CgroupInv

LEMMA RmdirInv ==
    ASSUME TypeOK, CgroupInv, NEW l \in Launchers, Rmdir(l)
    PROVE  CgroupInv'
<1> USE InSettingsOf, SettingsFacts, NoOneAssumption
<1>1. PICK s \in Settings : LET rest == todo[l] \ SettingsOf({ControllerOf[s]}) IN
        /\ Reached(l, s)
        /\ CgroupAccepts(l)
        /\ Advance(l, "rmdir", IF rest = {} THEN "free" ELSE "moveout")
        /\ dir' = [dir EXCEPT ![ControllerOf[s]] = NoOne]
        /\ todo' = [todo EXCEPT ![l] = rest]
        /\ UNCHANGED <<limits, tasks>>
  BY DEF Rmdir
<1> DEFINE c == ControllerOf[s]
<1> DEFINE rest == todo[l] \ SettingsOf({c})
<1>2. /\ pc[l] = "rmdir" /\ UNCHANGED <<cpc, userns, flags>>
      /\ pc' = [pc EXCEPT ![l] = IF rest = {} THEN "free" ELSE "moveout"]
  BY <1>1 DEF Advance
<1>3. /\ CgroupLocal(l) /\ ReleaseInv(l) /\ ~ChildLive(l) /\ c \in Controllers
      /\ s \in todo[l] /\ todo[l] \subseteq Settings
  BY <1>1, <1>2 DEF CgroupInv, CgroupLocal, ReleaseInv, Releasing, Reached, TypeOK, CgroupTypeOK
<1>4. dir[c] = l /\ tasks[c] = {}
  BY <1>1, <1>2, <1>3 DEF CgroupAccepts, ReleaseInv, Releasing
<1>5. /\ pc'[l] = (IF rest = {} THEN "free" ELSE "moveout")
      /\ \A m \in Launchers : m # l => pc'[m] = pc[m] /\ todo'[m] = todo[m]
      /\ todo'[l] = rest /\ dir'[c] = NoOne
      /\ \A d \in Controllers : d # c => dir'[d] = dir[d]
  BY <1>1, <1>2, <1>3 DEF TypeOK, CgroupTypeOK, LauncherTypeOK
<1>6. NoForeignLimits'
  BY <1>1, <1>4, <1>5, ForeignFrame DEF CgroupInv
<1>7. DirInv'
  <2> SUFFICES ASSUME NEW d \in Controllers, dir'[d] # NoOne
               PROVE  pc'[dir'[d]] # "off" /\ d \in flags[dir'[d]]
    BY <1>2 DEF DirInv, Started
  <2>1. dir'[d] = dir[d] /\ dir[d] \in Launchers /\ pc[dir[d]] # "off" /\ d \in flags[dir[d]]
    BY <1>5 DEF CgroupInv, DirInv, Started, TypeOK, CgroupTypeOK
  <2> QED BY <1>5, <2>1
<1>8. ASSUME NEW m \in Launchers, m # l PROVE CgroupLocal(m)'
  BY <1>1, <1>2, <1>4, <1>5, <1>8, Frame DEF CgroupInv
<1>9. CgroupLocal(l)'
  <2>1. BuildInv(l)' /\ LimitedInv(l)'
    BY <1>5 DEF BuildInv, LimitedInv, Building, Limited, NetPoints, RulePoints, MapPoints
  <2>2. \A d \in Controllers : dir'[d] = l <=> SettingsOf({d}) \cap rest # {}
    <3>1. \A d \in Controllers : d # c => SettingsOf({d}) \cap rest = SettingsOf({d}) \cap todo[l]
      OBVIOUS
    <3>2. \A d \in Controllers : d # c => (dir'[d] = l <=> SettingsOf({d}) \cap todo[l] # {})
      BY <1>2, <1>3, <1>5 DEF ReleaseInv, Releasing
    <3>3. dir'[c] # l /\ SettingsOf({c}) \cap rest = {}
      BY <1>5
    <3> QED BY <3>1, <3>2, <3>3
  <2>3. ASSUME NEW t \in rest PROVE SettingsOf({ControllerOf[t]}) \subseteq rest
    <3>1. t \in todo[l] /\ ControllerOf[t] # c
      BY <1>3
    <3>2. SettingsOf({ControllerOf[t]}) \subseteq todo[l]
      BY <1>2, <1>3, <3>1 DEF ReleaseInv, Releasing
    <3> QED BY <3>1, <3>2
  <2>4. ReleaseInv(l)'
    <3>1. pc'[l] = "free" => \A d \in Controllers : dir'[d] # l
      <4>1. pc'[l] = "free" => rest = {}
        BY <1>5
      <4>2. rest = {} => \A d \in Controllers : SettingsOf({d}) \cap rest = {}
        OBVIOUS
      <4> HIDE DEF rest
      <4> QED BY <2>2, <4>1, <4>2
    <3>2. pc'[l] \in {"free", "moveout"} /\ ~ChildLive(l)'
      BY <1>2, <1>3, <1>5 DEF ChildLive
    <3> HIDE DEF rest
    <3> QED BY <1>5, <2>2, <2>3, <3>1, <3>2 DEF ReleaseInv, Releasing
  <2>5. TasksInv(l)'
    <3>1. Alive(l)' /\ (ChildLive(l)' <=> ChildLive(l))
      BY <1>2, <1>5 DEF Alive, ChildLive, Ended
    <3> QED BY <1>1, <1>3, <3>1 DEF CgroupLocal, TasksInv
  <2> QED BY <1>2, <1>3, <1>5, <2>1, <2>4, <2>5 DEF CgroupLocal, ChildLive
<1> QED BY <1>6, <1>7, <1>8, <1>9 DEF CgroupInv

LEMMA CloneInv ==
    ASSUME TypeOK, CgroupInv, NEW l \in Launchers, Clone(l)
    PROVE  CgroupInv'
<1> USE InSettingsOf, SettingsFacts
<1>1. /\ pc[l] = "clone" /\ UNCHANGED <<userns, flags, dir, limits, todo>>
      /\ pc'[l] = "veth" /\ cpc'[l] = "born"
      /\ \A m \in Launchers : m # l => pc'[m] = pc[m] /\ cpc'[m] = cpc[m]
  BY DEF Clone, InheritTasks, TypeOK, LauncherTypeOK
<1>2. \A c \in Controllers : \A p :
        p \in tasks'[c] <=> p \in tasks[c] \/ (p = Child(l) /\ Parent(l) \in tasks[c])
  BY DEF Clone, InheritTasks
<1>3. /\ CgroupLocal(l) /\ flags[l] \subseteq Controllers
      /\ \A c \in flags[l] : dir[c] = l /\ Parent(l) \in tasks[c]
      /\ \A s \in SettingsOf(flags[l]) : limits[s] = l
  BY <1>1 DEF CgroupInv, CgroupLocal, LimitedInv, Limited, TypeOK, LauncherTypeOK
<1>4. NoForeignLimits'
  <2>1. ASSUME NEW c \in Controllers, NEW p \in tasks'[c], p \notin tasks[c]
        PROVE  dir[c] = p[2] /\ \A t \in SettingsOf({c}) : limits[t] = p[2]
    <3>1. p = Child(l) /\ Parent(l) \in tasks[c]
      BY <1>2, <2>1
    <3>2. Parent(l)[2] = p[2]
      BY <3>1 DEF Parent, Child
    <3>3. dir[c] = Parent(l)[2] /\ \A t \in SettingsOf({c}) : limits[t] = Parent(l)[2]
      BY <3>1 DEF CgroupInv, NoForeignLimits
    <3> QED BY <3>2, <3>3
  <2>2. ASSUME NEW d \in Controllers, NEW p \in tasks'[d]
        PROVE  \/ /\ p \in tasks[d] /\ dir'[d] = dir[d]
                  /\ \A t \in SettingsOf({d}) : limits'[t] = limits[t]
               \/ /\ dir'[d] = p[2]
                  /\ \A t \in SettingsOf({d}) : limits'[t] = p[2]
    BY <1>1, <2>1, <2>2
  <2> QED BY <2>2, ForeignFrame DEF CgroupInv
<1>5. DirInv'
  <2>1. \A m \in Launchers : pc[m] # "off" => pc'[m] # "off"
    BY <1>1
  <2> QED BY <1>1, <2>1, DirFrame DEF CgroupInv
<1>6. ASSUME NEW m \in Launchers, m # l PROVE CgroupLocal(m)'
  <2>1. Parent(m) # Child(l) /\ Child(m) # Child(l)
    BY <1>6 DEF Parent, Child
  <2> QED BY <1>1, <1>2, <1>6, <2>1, Frame DEF CgroupInv
<1>7. CgroupLocal(l)'
  <2>1. BuildInv(l)' /\ ReleaseInv(l)'
    BY <1>1 DEF BuildInv, ReleaseInv, Building, Releasing
  <2>2. LimitedInv(l)' /\ Confined(l)'
    BY <1>1, <1>2, <1>3 DEF LimitedInv, Confined
  <2>3. TasksInv(l)'
    BY <1>1 DEF TasksInv, Alive, ChildLive, Ended
  <2> QED BY <1>1, <1>3, <2>1, <2>2, <2>3 DEF CgroupLocal
<1> QED BY <1>4, <1>5, <1>6, <1>7 DEF CgroupInv

LEMMA BootInv ==
    ASSUME TypeOK, CgroupInv, NEW l \in Launchers, Boot(l)
    PROVE  CgroupInv'
<1> USE InSettingsOf, SettingsFacts
<1>1. /\ pc[l] = "off" /\ UNCHANGED <<cpc, dir, limits, tasks>>
      /\ \A m \in Launchers : m # l =>
            pc'[m] = pc[m] /\ flags'[m] = flags[m] /\ todo'[m] = todo[m]
      /\ todo'[l] = SettingsOf(flags'[l])
      /\ pc'[l] = IF flags'[l] = {} THEN "clone" ELSE "mkdir"
  BY DEF Boot, BeginLoop, TypeOK, LauncherTypeOK, CgroupTypeOK
<1>2. CgroupLocal(l) /\ cpc[l] = "none" /\ \A c \in Controllers : dir[c] # l
  BY <1>1, NoOneAssumption DEF CgroupInv, CgroupLocal, DirInv, Started
<1>3. NoForeignLimits'
  BY <1>1, ForeignFrame DEF CgroupInv
<1>4. DirInv'
  <2> SUFFICES ASSUME NEW c \in Controllers, dir[c] # NoOne
               PROVE  pc'[dir[c]] # "off" /\ c \in flags'[dir[c]]
    BY <1>1 DEF DirInv, Started
  <2>1. dir[c] \in Launchers /\ dir[c] # l
    BY <1>2 DEF TypeOK, CgroupTypeOK
  <2> QED BY <1>1, <2>1 DEF CgroupInv, DirInv, Started
<1>5. ASSUME NEW m \in Launchers, m # l PROVE CgroupLocal(m)'
  BY <1>1, <1>5, Frame DEF CgroupInv
<1>6. CgroupLocal(l)'
  <2>1. Behind(l)' = {}
    BY <1>1 DEF Behind
  <2>2. BuildInv(l)'
    BY <1>1, <1>2, <2>1 DEF BuildInv, BetweenControllers
  <2>3. LimitedInv(l)' /\ ReleaseInv(l)'
    BY <1>1 DEF LimitedInv, ReleaseInv, Limited, Releasing, NetPoints, RulePoints, MapPoints
  <2>4. TasksInv(l)'
    BY <1>1, <1>2 DEF CgroupLocal, TasksInv, Alive, ChildLive
  <2> QED BY <1>1, <1>2, <2>2, <2>3, <2>4 DEF CgroupLocal, ChildLive
<1> QED BY <1>3, <1>4, <1>5, <1>6 DEF CgroupInv

(* free_cgroup_resources() starts where the launcher is fully limited and  *)
(* its child is dead, or was never born.                                   *)
LEMMA ReleaseInvStep ==
    ASSUME TypeOK, CgroupInv, NEW l \in Launchers, CloneFails(l) \/ Wait(l)
    PROVE  CgroupInv'
<1> USE InSettingsOf, SettingsFacts
<1>1. /\ pc[l] \in {"clone", "wait"} /\ ~ChildLive(l)
      /\ UNCHANGED <<cpc, userns, flags, dir, limits, tasks>>
      /\ \A m \in Launchers : m # l => pc'[m] = pc[m] /\ todo'[m] = todo[m]
      /\ todo'[l] = SettingsOf(flags[l])
      /\ pc'[l] = IF flags[l] = {} THEN "free" ELSE "moveout"
  BY DEF CloneFails, Wait, Release, BeginLoop, TypeOK, LauncherTypeOK, CgroupTypeOK,
     CgroupInv, CgroupLocal, ChildLive
<1>2. /\ CgroupLocal(l) /\ flags[l] \subseteq Controllers
      /\ \A c \in flags[l] : dir[c] = l
  BY <1>1 DEF CgroupInv, CgroupLocal, LimitedInv, Limited, TypeOK, LauncherTypeOK
<1>3. \A c \in Controllers : dir[c] = l <=> c \in flags[l]
  BY <1>2, NoOneAssumption DEF CgroupInv, DirInv
<1>4. NoForeignLimits'
  BY <1>1, ForeignFrame DEF CgroupInv
<1>5. DirInv'
  BY <1>1, DirFrame DEF CgroupInv
<1>6. ASSUME NEW m \in Launchers, m # l PROVE CgroupLocal(m)'
  BY <1>1, <1>6, Frame DEF CgroupInv
<1>7. CgroupLocal(l)'
  <2>1. BuildInv(l)' /\ LimitedInv(l)'
    BY <1>1 DEF BuildInv, LimitedInv, Building, Limited, NetPoints, RulePoints, MapPoints
  <2>2. \A c \in Controllers : c \in flags[l] <=> SettingsOf({c}) \cap todo'[l] # {}
    BY <1>1, SomeSetting
  <2>3. ReleaseInv(l)'
    BY <1>1, <1>3, <2>2 DEF ReleaseInv, Releasing, ChildLive
  <2>4. TasksInv(l)'
    BY <1>1, <1>2 DEF CgroupLocal, TasksInv, Alive, ChildLive, Ended
  <2> QED BY <1>1, <1>2, <2>1, <2>3, <2>4 DEF CgroupLocal, ChildLive
<1> QED BY <1>4, <1>5, <1>6, <1>7 DEF CgroupInv

(* A launcher that ends leaves its directories, unless it had removed them.*)
LEMMA ParentEndsInv ==
    ASSUME TypeOK, CgroupInv, NEW l \in Launchers, NEW how \in Ended,
           ParentEnds(l, how), how \in {"done", "aborted"} => pc[l] = "free"
    PROVE  CgroupInv'
<1> USE InSettingsOf, SettingsFacts
<1>1. /\ UNCHANGED <<cpc, userns, flags, dir, limits, todo>>
      /\ pc'[l] = how /\ \A m \in Launchers : m # l => pc'[m] = pc[m]
      /\ \A c \in Controllers : tasks'[c] = tasks[c] \ {Parent(l)}
  BY DEF ParentEnds, LeaveTasks, TypeOK, LauncherTypeOK
<1>2. NoForeignLimits'
  BY <1>1, ForeignFrame DEF CgroupInv
<1>3. DirInv'
  BY <1>1, DirFrame DEF CgroupInv, Ended
<1>4. ASSUME NEW m \in Launchers, m # l PROVE CgroupLocal(m)'
  <2>1. Parent(m) # Parent(l) /\ Child(m) # Parent(l)
    BY <1>4 DEF Parent, Child
  <2> QED BY <1>1, <1>4, <2>1, Frame DEF CgroupInv
<1>5. CgroupLocal(l)'
  <2>1. BuildInv(l)' /\ LimitedInv(l)'
    BY <1>1 DEF BuildInv, LimitedInv, Building, Limited, NetPoints, RulePoints, MapPoints, Ended
  <2>2. CgroupLocal(l) /\ ReleaseInv(l) /\ TasksInv(l)
    BY DEF CgroupInv, CgroupLocal
  <2>3. ReleaseInv(l)'
    BY <1>1, <2>2 DEF ReleaseInv, Releasing, Ended
  <2>4. TasksInv(l)' /\ (ChildLive(l)' => Confined(l)')
    <3>1. Child(l) # Parent(l)
      BY DEF Parent, Child
    <3> QED BY <1>1, <2>2, <3>1
           DEF CgroupLocal, TasksInv, Alive, ChildLive, Confined, TypeOK, LauncherTypeOK
  <2> QED BY <1>1, <2>1, <2>2, <2>3, <2>4 DEF CgroupLocal, Ended
<1> QED BY <1>2, <1>3, <1>4, <1>5 DEF CgroupInv

LEMMA ChildEndsInv ==
    ASSUME TypeOK, CgroupInv, NEW l \in Launchers, ChildLive(l), ChildEnds(l)
    PROVE  CgroupInv'
<1> USE InSettingsOf, SettingsFacts
<1>1. /\ UNCHANGED <<pc, userns, flags, dir, limits, todo>>
      /\ cpc'[l] = "dead" /\ \A m \in Launchers : m # l => cpc'[m] = cpc[m]
      /\ \A c \in Controllers : tasks'[c] = tasks[c] \ {Child(l)}
  BY DEF ChildEnds, LeaveTasks, TypeOK, LauncherTypeOK
<1>2. NoForeignLimits'
  BY <1>1, ForeignFrame DEF CgroupInv
<1>3. DirInv'
  BY <1>1, DirFrame DEF CgroupInv
<1>4. ASSUME NEW m \in Launchers, m # l PROVE CgroupLocal(m)'
  <2>1. Parent(m) # Child(l) /\ Child(m) # Child(l)
    BY <1>4 DEF Parent, Child
  <2> QED BY <1>1, <1>4, <2>1, Frame DEF CgroupInv
<1>5. CgroupLocal(l)'
  <2>1. CgroupLocal(l) /\ pc[l] \notin Building \cup {"off", "clone"} \cup Releasing
    BY DEF CgroupInv, CgroupLocal, BuildInv, ReleaseInv, ChildLive
  <2>2. Parent(l) # Child(l)
    BY DEF Parent, Child
  <2>3. BuildInv(l)' /\ ReleaseInv(l)'
    BY <1>1, <2>1 DEF CgroupLocal, BuildInv, ReleaseInv, Releasing
  <2>4. LimitedInv(l)' /\ TasksInv(l)'
    BY <1>1, <2>1, <2>2
       DEF CgroupLocal, LimitedInv, TasksInv, Alive, ChildLive, TypeOK, LauncherTypeOK
  <2> QED BY <1>1, <2>1, <2>3, <2>4 DEF CgroupLocal, ChildLive
<1> QED BY <1>2, <1>3, <1>4, <1>5 DEF CgroupInv

(* The launcher's steps in other components, from one point where it is    *)
(* limited to another, and the child's while it lives.                     *)
LEMMA ElsewhereInv ==
    ASSUME TypeOK, CgroupInv, NEW l \in Launchers,
           UNCHANGED cgroupVars, UNCHANGED flags,
           \A m \in Launchers : m # l => pc'[m] = pc[m] /\ cpc'[m] = cpc[m],
           \/ cpc'[l] = cpc[l] /\ pc'[l] = pc[l]
           \/ cpc'[l] = cpc[l] /\ pc[l] \in Limited /\ pc'[l] \in Limited \ {"clone"}
           \/ pc'[l] = pc[l] /\ ChildLive(l) /\ ChildLive(l)'
    PROVE  CgroupInv'
<1> USE InSettingsOf, SettingsFacts DEF cgroupVars
<1>1. NoForeignLimits'
  BY ForeignFrame DEF CgroupInv
<1>2. DirInv'
  BY DirFrame DEF CgroupInv, Limited, NetPoints, RulePoints, MapPoints
<1>3. ASSUME NEW m \in Launchers, m # l PROVE CgroupLocal(m)'
  BY <1>3, Frame DEF CgroupInv
<1>4. CgroupLocal(l)'
  <2>0. CgroupLocal(l)
    BY DEF CgroupInv
  <2>1. CASE cpc'[l] = cpc[l] /\ pc'[l] = pc[l]
    BY <2>0, <2>1, Frame
  <2>2. CASE cpc'[l] = cpc[l] /\ pc[l] \in Limited /\ pc'[l] \in Limited \ {"clone"}
    <3>1. BuildInv(l)' /\ ReleaseInv(l)' /\ LimitedInv(l)'
      BY <2>0, <2>2 DEF CgroupLocal, BuildInv, ReleaseInv, LimitedInv, Limited, Building,
         Releasing, NetPoints, RulePoints, MapPoints
    <3>2. TasksInv(l)' /\ (ChildLive(l)' => Confined(l)') /\ pc'[l] # "off"
      BY <2>0, <2>2 DEF CgroupLocal, TasksInv, Alive, ChildLive, Confined, Limited, Ended,
         NetPoints, RulePoints, MapPoints
    <3> QED BY <2>0, <2>2, <3>1, <3>2 DEF CgroupLocal
  <2>3. CASE pc'[l] = pc[l] /\ ChildLive(l) /\ ChildLive(l)'
    <3>1. pc[l] \notin Building \cup {"off", "clone"} \cup Releasing
      BY <2>0, <2>3 DEF CgroupLocal, BuildInv, ReleaseInv, ChildLive
    <3>2. BuildInv(l)' /\ ReleaseInv(l)' /\ LimitedInv(l)'
      BY <2>0, <2>3, <3>1 DEF CgroupLocal, BuildInv, ReleaseInv, LimitedInv, Releasing
    <3>3. TasksInv(l)' /\ Confined(l)'
      BY <2>0, <2>3 DEF CgroupLocal, TasksInv, Alive, Confined
    <3> QED BY <2>0, <2>3, <3>1, <3>2, <3>3 DEF CgroupLocal
  <2> QED BY <2>1, <2>2, <2>3
<1> QED BY <1>1, <1>2, <1>3, <1>4 DEF CgroupInv

-----------------------------------------------------------------------------
(* All together.                                                           *)

LEMMA CgroupInvInit ==
    ASSUME Init
    PROVE  CgroupInv
<1> USE InSettingsOf, SettingsFacts DEF Init, LauncherInit, CgroupInit
<1>1. NoForeignLimits /\ DirInv
  BY DEF NoForeignLimits, DirInv
<1>2. ASSUME NEW l \in Launchers PROVE CgroupLocal(l)
  <2>1. BuildInv(l) /\ LimitedInv(l) /\ ReleaseInv(l) /\ TasksInv(l)
    BY DEF BuildInv, LimitedInv, ReleaseInv, TasksInv, Building, Limited, Releasing,
       NetPoints, RulePoints, MapPoints
  <2> QED BY <2>1 DEF CgroupLocal, ChildLive
<1> QED BY <1>1, <1>2 DEF CgroupInv

LEMMA ParentStepCgroupInv ==
    ASSUME TypeOK, CgroupInv, NEW l \in Launchers, ParentStep(l)
    PROVE  CgroupInv'
<1>1. CASE CgroupStep(l)
  BY <1>1, MkdirInv, WriteSettingInv, JoinTasksInv, MoveOutInv, RmdirInv DEF CgroupStep
<1>2. CASE UserNsStep(l) /\ UNCHANGED <<cgroupVars, netVars>>
  <2>1. /\ UNCHANGED <<cpc, flags>>
        /\ \A m \in Launchers : m # l => pc'[m] = pc[m]
        /\ pc[l] \in MapPoints /\ pc'[l] \in MapPoints \cup {"wait"}
    BY <1>2 DEF UserNsStep, WriteUidMap, WriteSetgroups, WriteGidMap, Notify, Advance,
       MapPoints, TypeOK, LauncherTypeOK
  <2> QED BY <1>2, <2>1, ElsewhereInv DEF Limited, MapPoints
<1>3. CASE NetStep(l) /\ UNCHANGED <<cgroupVars, usernsVars>>
  <2>1. /\ UNCHANGED <<cpc, flags>>
        /\ \A m \in Launchers : m # l => pc'[m] = pc[m]
        /\ pc[l] \in NetPoints \cup RulePoints
        /\ pc'[l] \in NetPoints \cup RulePoints \cup MapPoints \cup {"wait"}
    BY <1>3 DEF NetStep, CreatePair, AddHostAddr, GetNetnsFd, MovePeer, SetHostUp, EnterNetns,
       AddPeerAddr, SetPeerUp, Configure, SetLoUp, AddRoute, LeaveNetns, AppendRule,
       AppendMasquerade, AppendForwardOut, AppendForwardIn, Advance,
       NetPoints, RulePoints, MapPoints, TypeOK, LauncherTypeOK
  <2> QED BY <1>3, <2>1, ElsewhereInv DEF Limited, NetPoints, RulePoints, MapPoints
<1>4. CASE Clone(l)
  BY <1>4, CloneInv
<1>5. CASE CloneFails(l) \/ Wait(l)
  BY <1>5, ReleaseInvStep
<1>6. CASE Free(l)
  BY <1>6, ParentEndsInv DEF Free, Ended
<1>7. CASE Fail(l)
  BY <1>7, ParentEndsInv DEF Fail, Ended
<1> QED BY <1>1, <1>2, <1>3, <1>4, <1>5, <1>6, <1>7 DEF ParentStep

LEMMA ChildStepCgroupInv ==
    ASSUME TypeOK, CgroupInv, NEW l \in Launchers, ChildStep(l) \/ CommandEnds(l)
    PROVE  CgroupInv'
<1>1. CASE /\ UserNsChildStep(l) \/ ChildSkipsUserNs(l) \/ ChildExec(l)
           /\ UNCHANGED <<cgroupVars, netVars>>
  <2>1. /\ UNCHANGED <<pc, flags>>
        /\ \A m \in Launchers : m # l => cpc'[m] = cpc[m]
        /\ ChildLive(l) /\ ChildLive(l)'
    BY <1>1 DEF UserNsChildStep, ChildClose, ChildRead, ChildSetGid, ChildSetUid,
       ChildSkipsUserNs, ChildExec, ChildAdvance, ChildLive, TypeOK, LauncherTypeOK
  <2> QED BY <1>1, <2>1, ElsewhereInv
<1>2. CASE ChildFails(l) \/ CommandEnds(l)
  <2>1. ChildLive(l) /\ ChildEnds(l)
    BY <1>2 DEF ChildFails, CommandEnds, IdsAccepted, ChildLive
  <2> QED BY <2>1, ChildEndsInv
<1> QED BY <1>1, <1>2 DEF ChildStep

LEMMA CgroupInvNext ==
    ASSUME TypeOK, CgroupInv, [Next]_vars
    PROVE  CgroupInv'
<1>1. ASSUME UNCHANGED vars PROVE CgroupInv'
  <2>1. UNCHANGED <<launcherVars, cgroupVars>>
    BY <1>1 DEF vars
  <2>2. NoForeignLimits' /\ DirInv'
    BY <2>1 DEF CgroupInv, NoForeignLimits, DirInv, Started, SettingsOf, launcherVars, cgroupVars
  <2>3. ASSUME NEW l \in Launchers PROVE CgroupLocal(l)'
    BY <2>1, Frame DEF CgroupInv, launcherVars, cgroupVars
  <2> QED BY <2>2, <2>3 DEF CgroupInv
<1>2. ASSUME NEW l \in Launchers, KernelStep(l) PROVE CgroupInv'
  BY <1>2, ElsewhereInv DEF KernelStep, DestroyNetns, launcherVars
<1>3. ASSUME NEW l \in Launchers, KillParent(l) \/ KillChild(l) PROVE CgroupInv'
  BY <1>3, ParentEndsInv, ChildEndsInv DEF KillParent, KillChild, Ended
<1> QED BY <1>1, <1>2, <1>3, BootInv, ParentStepCgroupInv, ChildStepCgroupInv DEF Next, Over

=============================================================================
