-------------------------------- MODULE Runc --------------------------------
(***************************************************************************)
(* MyDocker as a whole: main() (src/src/main.c), runc() and child_fn()     *)
(* (src/src/runc.c) of every launcher on a host, over the kernel state of  *)
(* Cgroup, UserNs and Netns.  Each step is one system call, so launchers   *)
(* and children interleave wherever the kernel lets them.                  *)
(*                                                                         *)
(* Every error path is printErr() or exit(1): the calling process ends     *)
(* where it stands, and nothing it made is undone.  The one exception is   *)
(* a failed clone().                                                       *)
(***************************************************************************)
EXTENDS Cgroup, UserNs, Netns

CONSTANT
    Killable      \* of "parent" and "child", who may be sent SIGKILL

ASSUME KillableAssumption == Killable \subseteq {"parent", "child"}

vars == <<launcherVars, cgroupVars, usernsVars, netVars>>

TypeOK ==
    /\ LauncherTypeOK
    /\ CgroupTypeOK
    /\ UserNsTypeOK
    /\ NetTypeOK

Init ==
    /\ LauncherInit
    /\ CgroupInit
    /\ UserNsInit
    /\ NetInit

-----------------------------------------------------------------------------
(* The launcher's own steps.                                               *)

(* main(): the options, then runc() up to the first call that another      *)
(* process can notice.  Where mmap() or pipe() fails the launcher ends     *)
(* before that, as if it had not been started.                             *)
Boot(l) ==
    /\ pc[l] = "off"
    /\ \E u \in BOOLEAN, f \in Selections :
        /\ userns' = [userns EXCEPT ![l] = u]
        /\ flags' = [flags EXCEPT ![l] = f]
        /\ pc' = [pc EXCEPT ![l] = IF f = {} THEN "clone" ELSE "mkdir"]
        /\ BeginLoop(l, f)
        /\ OpenPipe(l, u)
    /\ UNCHANGED <<cpc, netVars>>

Clone(l) ==
    /\ pc[l] = "clone"
    /\ pc' = [pc EXCEPT ![l] = "veth"]
    /\ cpc' = [cpc EXCEPT ![l] = "born"]
    /\ InheritTasks(l)
    /\ EnterUserNs(l)
    /\ UNCHANGED <<userns, flags, netVars>>

(* free_cgroup_resources() starts, or has nothing to do.                   *)
Release(l) ==
    /\ pc' = [pc EXCEPT ![l] = IF flags[l] = {} THEN "free" ELSE "moveout"]
    /\ BeginLoop(l, flags[l])
    /\ UNCHANGED <<cpc, userns, flags, usernsVars, netVars>>

CloneFails(l) ==
    /\ pc[l] = "clone" /\ "clone" \in FaultPoints
    /\ Release(l)

(* waitpid() returns when the child is a zombie.                           *)
Wait(l) ==
    /\ pc[l] = "wait" /\ cpc[l] = "dead"
    /\ Release(l)

(* The launcher ends: the kernel closes its descriptors and takes it out   *)
(* of its cgroups.                                                         *)
ParentEnds(l, how) ==
    /\ pc' = [pc EXCEPT ![l] = how]
    /\ LeaveTasks(Parent(l))
    /\ CloseWriteEnd(l, "parent")
    /\ CloseNetns(l)
    /\ UNCHANGED <<cpc, userns, flags>>

(* cleanup_controller() frees the value string that the two memory         *)
(* settings share twice, and main() frees every value string again.        *)
DoubleFree(l) ==
    IF cpc[l] = "none" THEN "memory" \in flags[l] ELSE flags[l] # {}

(* After the cleanup a failed clone() is reported, or main() returns; a    *)
(* double free may abort the process before that, or go unnoticed.         *)
Free(l) ==
    /\ pc[l] = "free"
    /\ \/ ParentEnds(l, IF cpc[l] = "none" THEN "failed" ELSE "done")
       \/ DoubleFree(l) /\ ParentEnds(l, "aborted")

(* Mutant of Fail: a refused netlink request is waited for for ever.       *)
FailNotNetlink(l) ==
    /\ ~CgroupAccepts(l)
    /\ ParentEnds(l, "failed")

(* A system call is refused by the kernel's state, or fails for a reason   *)
(* of the host's: exit(EXIT_FAILURE).  waitpid() fails only when there is  *)
(* no child left, and a failed clone() is CloneFails.                      *)
Fail(l) ==
    /\ \/ ~CgroupAccepts(l)
       \/ ~NetAccepts(l)
       \/ /\ pc[l] \in FaultPoints \ ({"off", "clone", "getns", "setgroups", "notify", "free"}
                                        \cup RulePoints \cup Ended)
          /\ pc[l] = "wait" => cpc[l] = "dead"
    /\ ParentEnds(l, "failed")

ParentStep(l) ==
    \/ CgroupStep(l) /\ UNCHANGED <<usernsVars, netVars>>
    \/ UserNsStep(l) /\ UNCHANGED <<cgroupVars, netVars>>
    \/ NetStep(l) /\ UNCHANGED <<cgroupVars, usernsVars>>
    \/ Clone(l)
    \/ CloneFails(l)
    \/ Wait(l)
    \/ Free(l)
    \/ Fail(l)

-----------------------------------------------------------------------------
(* The child's own steps.                                                  *)

(* Without -U there is nothing to wait for.                                *)
ChildSkipsUserNs(l) ==
    /\ ~userns[l]
    /\ ChildAdvance(l, "born", "rootfs")
    /\ UNCHANGED usernsVars

(* Host name, mounts, pivot_root(), then execvp() of the command.          *)
ChildExec(l) ==
    /\ ChildAdvance(l, "rootfs", "running")
    /\ UNCHANGED usernsVars

ChildEnds(l) ==
    /\ cpc' = [cpc EXCEPT ![l] = "dead"]
    /\ LeaveTasks(Child(l))
    /\ CloseWriteEnd(l, "child")
    /\ UNCHANGED <<pc, userns, flags, netVars>>

ChildFails(l) ==
    /\ \/ ~IdsAccepted(l)
       \/ cpc[l] \in FaultPoints \ {"none", "born", "running", "dead"}
    /\ ChildEnds(l)

CommandEnds(l) ==
    /\ cpc[l] = "running"
    /\ ChildEnds(l)

ChildStep(l) ==
    \/ /\ \/ UserNsChildStep(l)
          \/ ChildSkipsUserNs(l)
          \/ ChildExec(l)
       /\ UNCHANGED <<cgroupVars, netVars>>
    \/ ChildFails(l)

-----------------------------------------------------------------------------
(* SIGKILL to one of the two.                                              *)
KillParent(l) ==
    /\ "parent" \in Killable /\ Alive(l)
    /\ ParentEnds(l, "killed")

KillChild(l) ==
    /\ "child" \in Killable /\ ChildLive(l)
    /\ ChildEnds(l)

KernelStep(l) == DestroyNetns(l) /\ UNCHANGED <<cgroupVars, usernsVars>>

(* Every launcher has ended and so has every child.                        *)
Over ==
    /\ \A l \in Launchers : pc[l] \in Ended /\ ~ChildLive(l)
    /\ UNCHANGED vars

Next ==
    \/ \E l \in Launchers :
        \/ Boot(l)
        \/ ParentStep(l)
        \/ ChildStep(l)
        \/ CommandEnds(l)
        \/ KillParent(l)
        \/ KillChild(l)
        \/ KernelStep(l)
    \/ Over

Spec == Init /\ [][Next]_vars

(* The scheduler runs every process that can run; nobody is obliged to     *)
(* start a launcher, to end a command, or to kill.                         *)
Fairness ==
    \A l \in Launchers : WF_vars(ParentStep(l)) /\ WF_vars(ChildStep(l))

FairSpec == Spec /\ Fairness

-----------------------------------------------------------------------------
(* Safety.                                                                 *)

(* Under the limits of its command line and of its own launcher.           *)
Confined(l) ==
    /\ \A c \in flags[l] : dir[c] = l /\ Child(l) \in tasks[c]
    /\ \A s \in SettingsOf(flags[l]) : limits[s] = l

(* The container's processes are limited from birth to death: while a      *)
(* child lives, it is inside the cgroup of each controller its command     *)
(* line limits, and the settings there are its own launcher's.  This is    *)
(* why runc() joins the cgroups before clone() and why nobody may remove   *)
(* or rewrite them in between, although all launchers use the same names.  *)
ContainerConfined == \A l \in Launchers : ChildLive(l) => Confined(l)

(* Nobody runs under somebody else's limits: a process inside a            *)
(* container cgroup belongs to the launcher that made the cgroup, and      *)
(* every setting in force there is the value of that launcher.             *)
NoForeignLimits ==
    \A c \in Controllers : \A p \in tasks[c] :
        /\ dir[c] = p[2]
        /\ \A s \in SettingsOf({c}) : limits[s] = p[2]

(* free_cgroup_resources() never meets EBUSY or ENOENT: whoever reaches    *)
(* rmdir() has emptied the cgroup, whatever happened to its container and  *)
(* to the other launchers since.                                           *)
RmdirAccepted == \A l \in Launchers : pc[l] = "rmdir" => CgroupAccepts(l)

(* A launcher that has gone through free_cgroup_resources(), after its     *)
(* container or after a failed clone(), leaves no directory behind.        *)
AllReleased ==
    \A l \in Launchers : pc[l] \in {"free", "done", "aborted"} =>
        \A c \in Controllers : dir[c] # l

(* The pair and the child's namespace are configured as prepare_netns()    *)
(* intends.                                                                *)
NetReady(l) ==
    /\ veth = [maker |-> l, peer |-> l, conf |-> VethConf]
    /\ netcfg[l] = {"lo", "default"}

(* In a user namespace the command never starts too early: when execvp()   *)
(* has run, both maps are written, the process has been given user and     *)
(* group 0 by them and its network is complete.  That is what the pipe is  *)
(* for, and it must also hold when the launcher dies half-way, which the   *)
(* child cannot tell from the launcher's being done.                       *)
ExecReady ==
    \A l \in Launchers : userns[l] /\ cpc[l] = "running" =>
        /\ uidmap[l] = ContainerMap /\ gidmap[l] = ContainerMap
        /\ creds[l] = [uid |-> 0, gid |-> 0]
        /\ NetReady(l)

(* The two names of the pair work as a lock on the network set-up: from    *)
(* the creation of the pair until a launcher ends, the interfaces it finds *)
(* by name are its own, and so no second launcher is in prepare_netns(),   *)
(* in the firewall or waiting at that time.                                *)
OneNetwork ==
    \A l \in Launchers :
        Alive(l) /\ cpc[l] # "none" /\ pc[l] # "veth" => veth.maker = l

(* A launcher that waits for its container has given it a network, with or *)
(* without a user namespace, and the host has kept its own routes.         *)
WaitsConfigured ==
    \A l \in Launchers : pc[l] = "wait" => NetReady(l) /\ netcfg[HostNs] = {}

(* Unless somebody kills the launcher, a command in a user namespace never *)
(* runs without one waiting for it: the errors on the launcher's way leave *)
(* a child that cannot get past its setresgid() and setresuid().           *)
Supervised ==
    \A l \in Launchers :
        userns[l] /\ cpc[l] \in {"rootfs", "running"} => pc[l] = "wait"

(* Launchers that race for the same names cannot all lose.  The cgroup     *)
(* directories are taken in one order and the pair after them, so a        *)
(* launcher that gives up found a name held by one that had got further:   *)
(* when no call fails for other reasons, every container has a user        *)
(* namespace and all launchers have ended, some container was waited for.  *)
(* (Without a user namespace the only launcher can lose: its command may   *)
(* be over before get_netns_fd() looks for it.)                            *)
NotAllLose ==
    (\A l \in Launchers : userns[l] /\ pc[l] \in Ended) =>
        \E l \in Launchers : pc[l] \in {"done", "aborted"}

(* A cgroup directory is removed by the launcher that made it and by       *)
(* nobody else, and never under a live container.                          *)
OwnerRemoves ==
    [][\A c \in Controllers : dir[c] # NoOne /\ dir'[c] # dir[c] =>
            /\ dir'[c] = NoOne
            /\ pc[dir[c]] = "rmdir" /\ pc'[dir[c]] # "rmdir"
            /\ ~ChildLive(dir[c])]_vars

-----------------------------------------------------------------------------
(* Liveness.                                                               *)

(* No launcher hangs before its command runs: once started it gets its     *)
(* container's command running, or it ends.  In particular the child does  *)
(* not wait for the pipe for ever, nor the launcher for such a child.      *)
BootSettles ==
    \A l \in Launchers :
        Started(l) ~> (cpc[l] = "running" \/ pc[l] \in Ended)

(* When its child is dead, for whatever reason, the launcher ends.         *)
LauncherEnds ==
    \A l \in Launchers : cpc[l] = "dead" ~> pc[l] \in Ended

-----------------------------------------------------------------------------
(* What the documentation says and the code does not do.                   *)

(* README.md: after -c -C 50 -I 20 -P 333 the limits applied include       *)
(* "memory_limit | 1GB", and the help gives every option a default.  So a  *)
(* container for which limits were asked is under all four controllers.    *)
DefaultsApplied ==
    \A l \in Launchers : pc[l] = "wait" /\ ChildLive(l) /\ flags[l] # {} =>
        \A c \in Controllers : Child(l) \in tasks[c]

=============================================================================
