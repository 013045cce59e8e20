------------------------------ MODULE Launcher ------------------------------
(***************************************************************************)
(* What every component of MyDocker shares: the invocations of ./MyDocker  *)
(* ("launchers"), the process each of them clones (its "child"), and where *)
(* both processes stand in their code.  A launcher runs main() and runc()  *)
(* (src/src/main.c, src/src/runc.c); its child runs child_fn() and then    *)
(* the container's command.  A control point names the next system call    *)
(* the process will make.                                                  *)
(*                                                                         *)
(* The modules Cgroup, UserNs and Netns extend this one with the state the *)
(* kernel keeps for cgroups, user namespaces and network namespaces; Runc  *)
(* composes them.                                                          *)
(***************************************************************************)
EXTENDS Naturals, FiniteSets

CONSTANTS
    Launchers,    \* the invocations of ./MyDocker on one host
    NoOne,        \* "no launcher"
    Selections,   \* the sets of controllers a command line may limit
    FaultPoints   \* the control points whose system call the host may fail

(* One controller per option: -M, -C, -P, -I.                              *)
Controllers == {"memory", "cpu", "pids", "blkio"}

(* The control points of prepare_netns() at which a netlink request, a     *)
(* setns() or a socket() may be refused.                                   *)
NetPoints == {"veth", "hostaddr", "getns", "move", "hostup", "enter",
              "peeraddr", "peerup", "lo", "route", "leave"}

(* The control points of the three _ipt_rule() calls.                      *)
RulePoints == {"nat", "fwdout", "fwdin"}

MapPoints == {"uidmap", "setgroups", "gidmap", "notify"}

(* No system call is left to the launcher at these points: it never        *)
(* started, exit(EXIT_SUCCESS), exit(EXIT_FAILURE), abort() from free(),   *)
(* or a signal.                                                            *)
Ended == {"done", "failed", "aborted", "killed"}

ParentPoints ==
    {"off", "mkdir", "setting", "join", "clone", "wait", "moveout", "rmdir", "free"}
        \cup NetPoints \cup RulePoints \cup MapPoints \cup Ended

(* "none": not cloned yet; "dead": a zombie, or reaped.                    *)
ChildPoints ==
    {"none", "born", "reading", "setgid", "setuid", "rootfs", "running", "dead"}

ASSUME NoOneAssumption == NoOne \notin Launchers

ASSUME SelectionsAssumption == Selections \subseteq SUBSET Controllers

ASSUME FaultPointsAssumption ==
    FaultPoints \subseteq (ParentPoints \cup ChildPoints)

VARIABLES
    pc,       \* launcher -> its control point
    cpc,      \* launcher -> the control point of its child
    userns,   \* launcher -> TRUE with -aU, FALSE with -a alone
    flags     \* launcher -> the controllers its command line limits

launcherVars == <<pc, cpc, userns, flags>>

(* The two processes of a launcher.                                        *)
Parent(l) == <<"parent", l>>
Child(l)  == <<"child", l>>

Processes == {"parent", "child"} \X Launchers

Started(l)   == pc[l] # "off"
Alive(l)     == pc[l] \notin Ended \cup {"off"}
ChildLive(l) == cpc[l] \notin {"none", "dead"}

LauncherTypeOK ==
    /\ pc \in [Launchers -> ParentPoints]
    /\ cpc \in [Launchers -> ChildPoints]
    /\ userns \in [Launchers -> BOOLEAN]
    /\ flags \in [Launchers -> SUBSET Controllers]

LauncherInit ==
    /\ pc = [l \in Launchers |-> "off"]
    /\ cpc = [l \in Launchers |-> "none"]
    /\ userns = [l \in Launchers |-> FALSE]
    /\ flags = [l \in Launchers |-> {}]

(* The launcher, or the child, passes from one control point to another.   *)
Advance(l, from, to) ==
    /\ pc[l] = from
    /\ pc' = [pc EXCEPT ![l] = to]
    /\ UNCHANGED <<cpc, userns, flags>>

ChildAdvance(l, from, to) ==
    /\ cpc[l] = from
    /\ cpc' = [cpc EXCEPT ![l] = to]
    /\ UNCHANGED <<pc, userns, flags>>

=============================================================================
