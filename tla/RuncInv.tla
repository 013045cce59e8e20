------------------------------ MODULE RuncInv -------------------------------
(***************************************************************************)
(* The inductive invariant of Runc: what has to be known of every control  *)
(* point for the safety properties to be preserved by every step.  TLC     *)
(* checks it on the instances of MCRunc, RuncProofs proves it.             *)
(***************************************************************************)
EXTENDS Runc

-----------------------------------------------------------------------------
(* Cgroups.                                                                *)

Building  == {"mkdir", "setting", "join"}
Releasing == {"moveout", "rmdir"}

(* From the last JoinTasks to free_cgroup_resources().                     *)
Limited == {"clone", "wait"} \cup NetPoints \cup RulePoints \cup MapPoints

(* The settings the loop of setting_cgroups() has behind it.               *)
Behind(l) == SettingsOf(flags[l]) \ todo[l]

(* No controller has some of its settings behind and some before the loop. *)
BetweenControllers(l) ==
    \A s \in Behind(l), t \in todo[l] : ControllerOf[s] # ControllerOf[t]

(* While it builds, the launcher owns what it has behind it, and is inside *)
(* every controller it is finished with.                                   *)
BuildInv(l) ==
    pc[l] \in Building =>
        /\ cpc[l] = "none"
        /\ \A s \in Behind(l) : limits[s] = l /\ dir[ControllerOf[s]] = l
        /\ \A s \in Behind(l), t \in todo[l] : Rank[s] < Rank[t]
        /\ \A s \in Behind(l) :
              \/ Parent(l) \in tasks[ControllerOf[s]]
              \/ pc[l] = "join" /\ Current(l, ControllerOf[s])
              \/ pc[l] = "setting" /\ \E t \in todo[l] : ControllerOf[t] = ControllerOf[s]
        /\ pc[l] = "setting" =>
              \A s \in Settings : Reached(l, s) => dir[ControllerOf[s]] = l
        /\ pc[l] \in {"mkdir", "join"} => BetweenControllers(l)

LimitedInv(l) ==
    pc[l] \in Limited =>
        /\ \A c \in flags[l] : dir[c] = l /\ Parent(l) \in tasks[c]
        /\ \A s \in SettingsOf(flags[l]) : limits[s] = l

(* While it releases, what it still owns is what the loop has to do.       *)
ReleaseInv(l) ==
    /\ pc[l] \in Releasing =>
          /\ ~ChildLive(l)
          /\ \A c \in Controllers : dir[c] = l <=> SettingsOf({c}) \cap todo[l] # {}
          /\ \A s \in todo[l] : SettingsOf({ControllerOf[s]}) \subseteq todo[l]
    /\ pc[l] = "rmdir" =>
          \A s \in Settings : Reached(l, s) => Parent(l) \notin tasks[ControllerOf[s]]
    /\ pc[l] \in {"free", "done", "aborted"} => \A c \in Controllers : dir[c] # l

(* Only the launcher that made a directory and its child are ever inside.  *)
TasksInv(l) ==
    \A c \in Controllers :
        /\ Parent(l) \in tasks[c] => Alive(l)
        /\ Child(l) \in tasks[c] => ChildLive(l)

(* What concerns one launcher.                                             *)
CgroupLocal(l) ==
    /\ todo[l] \subseteq SettingsOf(flags[l])
    /\ pc[l] \in {"off", "clone"} => cpc[l] = "none"
    /\ ChildLive(l) => Confined(l)
    /\ BuildInv(l)
    /\ LimitedInv(l)
    /\ ReleaseInv(l)
    /\ TasksInv(l)

(* A directory belongs to a launcher that asked for it.                    *)
DirInv ==
    \A c \in Controllers : dir[c] # NoOne => Started(dir[c]) /\ c \in flags[dir[c]]

CgroupInv ==
    /\ NoForeignLimits
    /\ DirInv
    /\ \A l \in Launchers : CgroupLocal(l)

-----------------------------------------------------------------------------
(* The network.                                                            *)

(* The control points after prepare_netns(), up to waitpid().              *)
Connected == RulePoints \cup MapPoints \cup {"wait"}

(* vpeer1 is still in the host's namespace.                                *)
BeforeMove == {"hostaddr", "getns", "move"}

InsideChild == {"peeraddr", "peerup", "lo", "route", "leave"}

(* What the launcher has set up, from its control point.                   *)
ConfInv(l) ==
    /\ pc[l] \in {"getns", "move", "hostup", "enter"} \cup InsideChild \cup Connected
          => "hostAddr" \in veth.conf
    /\ pc[l] \in {"enter"} \cup InsideChild \cup Connected => "hostUp" \in veth.conf
    /\ pc[l] \in {"peerup", "lo", "route", "leave"} \cup Connected => "peerAddr" \in veth.conf
    /\ pc[l] \in {"lo", "route", "leave"} \cup Connected => "peerUp" \in veth.conf
    /\ pc[l] \in {"route", "leave"} \cup Connected => "lo" \in netcfg[l]
    /\ pc[l] \in {"leave"} \cup Connected => "default" \in netcfg[l]

(* The pair as a lock: held from CreatePair on, and kept by the descriptor *)
(* child_netns even when the child is dead.                                *)
LockInv(l) ==
    Alive(l) /\ cpc[l] # "none" /\ pc[l] # "veth" =>
        /\ veth.maker = l
        /\ pc[l] \in BeforeMove => veth.peer = HostNs
        /\ pc[l] \notin BeforeMove => veth.peer = l /\ holds[l]

NetLocal(l) ==
    /\ pc[l] \in NetPoints \cup Connected => cpc[l] # "none"
    /\ at[l] = IF pc[l] \in InsideChild THEN l ELSE HostNs
    /\ LockInv(l)
    /\ ConfInv(l)

NetInv ==
    /\ netcfg[HostNs] = {}
    /\ veth.peer # HostNs => veth.peer = veth.maker
    /\ \A l \in Launchers : NetLocal(l)

-----------------------------------------------------------------------------
(* The user namespace.                                                     *)

(* The maps are written only when the network is ready, and it stays so    *)
(* while the child lives.  What the child has done is right by the maps.   *)
UserNsLocal(l) ==
    /\ uidmap[l] \in {Unmapped, ContainerMap}
    /\ gidmap[l] \in {Unmapped, ContainerMap}
    /\ uidmap[l] = ContainerMap /\ ChildLive(l) => NetReady(l)
    /\ pc[l] \in {"off", "clone"} \cup Building => uidmap[l] = Unmapped
    /\ userns[l] /\ cpc[l] \in {"setuid", "rootfs", "running"} =>
          gidmap[l] = ContainerMap /\ creds[l].gid = 0
    /\ userns[l] /\ cpc[l] \in {"rootfs", "running"} =>
          uidmap[l] = ContainerMap /\ creds[l].uid = 0

UserNsInv == \A l \in Launchers : UserNsLocal(l)

(* The inductive invariant: what every step of every launcher, child and   *)
(* of the kernel preserves, in any order, with faults and kills.           *)
IInv ==
    /\ TypeOK
    /\ CgroupInv
    /\ NetInv
    /\ UserNsInv

-----------------------------------------------------------------------------
(* For the refinement of NameLocks.                                        *)

(* The child is dead, or was never cloned, when the launcher has released  *)
(* everything; and a launcher that has not asked for the pair has no pair. *)
LifeLocal(l) ==
    /\ pc[l] \in {"free", "done"} => ~ChildLive(l)
    /\ pc[l] = "done" => cpc[l] = "dead"
    /\ veth.maker = l => pc[l] \notin {"off", "clone", "veth"} \cup Building

LifeInv == \A l \in Launchers : LifeLocal(l)

(* For the refinement of RuleLog: nobody has a rule before the first one.  *)
BeforeRules == {"off", "clone", "nat"} \cup Building \cup NetPoints

RulesInv ==
    \A l \in Launchers, r \in Rules : <<l, r>> \in iptables => pc[l] \notin BeforeRules

-----------------------------------------------------------------------------
(* For Supervised, where nobody kills a launcher.                          *)

(* The launcher holds the write end until Notify, and the child is past    *)
(* its read() only when nobody does.  A live child with both maps has a    *)
(* launcher that has only to notify it, or waits.                          *)
PipeLocal(l) ==
    /\ pc[l] \in {"off", "clone"} \cup Building => gidmap[l] = Unmapped
    /\ userns[l] =>
          /\ pc[l] \in {"clone"} \cup Building \cup NetPoints \cup RulePoints \cup MapPoints
                => "parent" \in wend[l]
          /\ cpc[l] \in {"setgid", "setuid", "rootfs", "running"} => wend[l] = {}
          /\ ChildLive(l) /\ gidmap[l] = ContainerMap => pc[l] \in {"notify", "wait"}

PipeInv == \A l \in Launchers : PipeLocal(l)

-----------------------------------------------------------------------------
(* For NotAllLose, where no call fails for other reasons and nobody kills. *)

(* The launcher has waited for its container, or does.                     *)
Wins(l) == pc[l] \in {"wait", "free", "done", "aborted"} \cup Releasing

(* A child in a user namespace dies only after its launcher's set-up, so   *)
(* the launcher has a valid descriptor and finds no route.                 *)
PathLocal(l) ==
    /\ Wins(l) => cpc[l] # "none"
    /\ veth.maker = l => pc[l] \notin {"off", "clone", "veth"} \cup Building
    /\ userns[l] /\ cpc[l] = "dead" => Wins(l) \/ pc[l] \in Ended
    /\ userns[l] /\ pc[l] = "move" => holds[l]
    /\ Alive(l) /\ pc[l] \notin {"leave"} \cup Connected /\ ~Wins(l)
          => "default" \notin netcfg[l]
    /\ pc[l] = "off" => netcfg[l] = {}

(* Of what is before its loop a launcher owns at most the directory it has *)
(* just made.                                                              *)
AheadLocal(l) ==
    pc[l] \in Building =>
        \A s \in todo[l] : dir[ControllerOf[s]] = l =>
            /\ pc[l] = "setting"
            /\ \A r \in Settings : Reached(l, r) => ControllerOf[r] = ControllerOf[s]

PathInv == \A l \in Launchers : PathLocal(l)

AheadInv == \A l \in Launchers : AheadLocal(l)

(* Nobody is further: l holds the pair, or the directory last in order of  *)
(* those that exist when there is no pair.                                 *)
Foremost(l) ==
    \/ veth.maker = l
    \/ /\ veth.maker = NoOne
       /\ \E s \in Settings :
             /\ dir[ControllerOf[s]] = l
             /\ \A t \in Settings : dir[ControllerOf[t]] # NoOne => Rank[t] <= Rank[s]

NoneEnded == \A l \in Launchers : pc[l] \notin Ended

RaceInv ==
    (\A l \in Launchers : Started(l) => userns[l]) =>
        \/ \E l \in Launchers : Wins(l)
        \/ NoneEnded /\ veth.maker = NoOne /\ \A c \in Controllers : dir[c] = NoOne
        \/ \E l \in Launchers : Alive(l) /\ Foremost(l)

=============================================================================
