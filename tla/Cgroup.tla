------------------------------- MODULE Cgroup -------------------------------
(***************************************************************************)
(* Resource limits: src/src/namespaces/cgroup/cgroup.c.                    *)
(*                                                                         *)
(* For each controller the command line limits, setting_cgroups() creates  *)
(* /sys/fs/cgroup/<controller>/container, writes the controller's settings *)
(* into it and moves the launcher into it, so that the child, cloned       *)
(* afterwards, is born inside.  free_cgroup_resources() moves the launcher *)
(* back to the root cgroup and removes the directory.  The directory's     *)
(* name is the constant HOSTNAME, so every launcher of the host uses the   *)
(* same one.                                                               *)
(***************************************************************************)
EXTENDS Launcher

VARIABLES
    dir,      \* controller -> the launcher that made its directory, or NoOne
    limits,   \* setting -> the launcher whose value it holds, or NoOne: the
              \*   default of the kernel, no limit
    tasks,    \* controller -> the processes inside its directory
    todo      \* launcher -> the settings its loop over the controllers has
              \*   still to write, or to remove

cgroupVars == <<dir, limits, tasks, todo>>

(* The files written by alloc_ctr_memory(), alloc_ctr_cpu(),               *)
(* alloc_ctr_pids() and alloc_ctr_blkio(), in the order of                 *)
(* setup_cgrp_controller().                                                *)
Rank == [memory |-> 1, kmem |-> 2, shares |-> 3, pids |-> 4, weight |-> 5]

Settings == DOMAIN Rank

ControllerOf == [memory |-> "memory", kmem |-> "memory", shares |-> "cpu",
                 pids |-> "pids", weight |-> "blkio"]

SettingsOf(ctls) == {s \in Settings : ControllerOf[s] \in ctls}

(* Mutant of Reached: each launcher takes the controllers in any order.    *)
ReachedAnyOrder(l, s) == s \in todo[l]

(* The loops of setting_cgroups() and free_cgroup_resources() go through   *)
(* the array in its order: s is the setting they have reached.             *)
Reached(l, s) ==
    /\ s \in todo[l]
    /\ \A t \in todo[l] : Rank[s] <= Rank[t]

CgroupTypeOK ==
    /\ dir \in [Controllers -> Launchers \cup {NoOne}]
    /\ limits \in [Settings -> Launchers \cup {NoOne}]
    /\ tasks \in [Controllers -> SUBSET Processes]
    /\ todo \in [Launchers -> SUBSET Settings]

CgroupInit ==
    /\ dir = [c \in Controllers |-> NoOne]
    /\ limits = [s \in Settings |-> NoOne]
    /\ tasks = [c \in Controllers |-> {}]
    /\ todo = [l \in Launchers |-> {}]

(* What the kernel demands of the cgroup call the launcher is about to     *)
(* make: mkdir() of a new name, rmdir() of an empty cgroup.                *)
CgroupAccepts(l) ==
    \A s \in Settings : Reached(l, s) =>
        /\ pc[l] = "mkdir" => dir[ControllerOf[s]] = NoOne
        /\ pc[l] = "rmdir" => /\ dir[ControllerOf[s]] # NoOne
                              /\ tasks[ControllerOf[s]] = {}

(* Both loops start over the controllers of the command line.              *)
BeginLoop(l, ctls) ==
    /\ todo' = [todo EXCEPT ![l] = SettingsOf(ctls)]
    /\ UNCHANGED <<dir, limits, tasks>>

(* Mutant of Mkdir: a directory that exists is taken as it is.             *)
MkdirTolerant(l) ==
    /\ Advance(l, "mkdir", "setting")
    /\ \E s \in Settings : LET c == ControllerOf[s] IN
        /\ Reached(l, s)
        /\ dir' = [dir EXCEPT ![c] = IF @ = NoOne THEN l ELSE @]
    /\ UNCHANGED <<limits, tasks, todo>>

(* setting_cgroups(): mkdir(dir), whose failure, EEXIST included, is       *)
(* fatal.  A new cgroup has the kernel's defaults.                         *)
Mkdir(l) ==
    /\ Advance(l, "mkdir", "setting")
    /\ \E s \in Settings : LET c == ControllerOf[s] IN
        /\ Reached(l, s)
        /\ dir[c] = NoOne
        /\ dir' = [dir EXCEPT ![c] = l]
        /\ limits' = [t \in Settings |-> IF ControllerOf[t] = c THEN NoOne ELSE limits[t]]
    /\ UNCHANGED <<tasks, todo>>

(* The inner loop: open and write one setting; when it was the last of its *)
(* controller, the launcher's next call writes the tasks file.             *)
WriteSetting(l) ==
    \E s \in Settings : LET c == ControllerOf[s] IN
        /\ Reached(l, s)
        /\ Advance(l, "setting",
                   IF SettingsOf({c}) \cap todo[l] = {s} THEN "join" ELSE "setting")
        /\ limits' = [limits EXCEPT ![s] = l]
        /\ todo' = [todo EXCEPT ![l] = @ \ {s}]
        /\ UNCHANGED <<dir, tasks>>

(* write_writing_process_task(): "0" written to dir/tasks moves the writer *)
(* there.  The controller is the one whose settings were just written: the *)
(* latest of those limited that the loop has behind it.                    *)
Current(l, c) ==
    \E s \in SettingsOf(flags[l]) \ todo[l] :
        /\ ControllerOf[s] = c
        /\ \A t \in SettingsOf(flags[l]) \ todo[l] : Rank[t] <= Rank[s]

(* Mutant of JoinTasks: the value is not written to the tasks file.        *)
JoinTasksSkipped(l) ==
    /\ Advance(l, "join", IF todo[l] = {} THEN "clone" ELSE "mkdir")
    /\ UNCHANGED cgroupVars

JoinTasks(l) ==
    /\ Advance(l, "join", IF todo[l] = {} THEN "clone" ELSE "mkdir")
    /\ \E c \in Controllers :
        /\ Current(l, c)
        /\ tasks' = [tasks EXCEPT ![c] = @ \cup {Parent(l)}]
    /\ UNCHANGED <<dir, limits, todo>>

(* Mutant of MoveOut: the launcher stays in the cgroup it removes.         *)
MoveOutSkipped(l) ==
    /\ Advance(l, "moveout", "rmdir")
    /\ UNCHANGED cgroupVars

(* free_cgroup_resources(): the launcher writes itself into the root       *)
(* cgroup's tasks, then removes the directory.                             *)
MoveOut(l) ==
    /\ Advance(l, "moveout", "rmdir")
    /\ \E s \in Settings :
        /\ Reached(l, s)
        /\ tasks' = [tasks EXCEPT ![ControllerOf[s]] = @ \ {Parent(l)}]
    /\ UNCHANGED <<dir, limits, todo>>

(* Mutant of Rmdir: the loop stops one controller short.                   *)
RmdirOffByOne(l) ==
    \E s \in Settings :
        LET c    == ControllerOf[s]
            rest == todo[l] \ SettingsOf({c})
        IN  /\ Reached(l, s)
            /\ CgroupAccepts(l)
            /\ Advance(l, "rmdir", IF Cardinality(rest) <= 1 THEN "free" ELSE "moveout")
            /\ dir' = [dir EXCEPT ![c] = NoOne]
            /\ todo' = [todo EXCEPT ![l] = rest]
            /\ UNCHANGED <<limits, tasks>>

Rmdir(l) ==
    \E s \in Settings :
        LET c    == ControllerOf[s]
            rest == todo[l] \ SettingsOf({c})
        IN  /\ Reached(l, s)
            /\ CgroupAccepts(l)
            /\ Advance(l, "rmdir", IF rest = {} THEN "free" ELSE "moveout")
            /\ dir' = [dir EXCEPT ![c] = NoOne]
            /\ todo' = [todo EXCEPT ![l] = rest]
            /\ UNCHANGED <<limits, tasks>>

(* clone(): the child is born in every cgroup of its parent.               *)
InheritTasks(l) ==
    /\ tasks' = [c \in Controllers |->
                    IF Parent(l) \in tasks[c] THEN tasks[c] \cup {Child(l)} ELSE tasks[c]]
    /\ UNCHANGED <<dir, limits, todo>>

(* A process that ends leaves its cgroups; the directories stay.           *)
LeaveTasks(p) ==
    /\ tasks' = [c \in Controllers |-> tasks[c] \ {p}]
    /\ UNCHANGED <<dir, limits, todo>>

CgroupStep(l) ==
    \/ Mkdir(l)
    \/ WriteSetting(l)
    \/ JoinTasks(l)
    \/ MoveOut(l)
    \/ Rmdir(l)

=============================================================================
