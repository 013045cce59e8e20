------------------------------- MODULE Rootfs -------------------------------
(***************************************************************************)
(* The root file system of a container: what child_fn() (src/src/runc.c)   *)
(* and namespaces/mount/mount.c do to the mount namespace the child got    *)
(* from clone(CLONE_NEWNS).  Each container's child works in its own       *)
(* namespace, but the namespaces hang together: mounts and umounts         *)
(* propagate from a shared mount to its peers and slaves, and all          *)
(* containers use the one directory root_fs.                               *)
(*                                                                         *)
(* A mount is known by its name in its namespace:                          *)
(*   "/", "home", "devtmpfs"   what every host has mounted                 *)
(*   "vol", "mnt"              what the host may mount and unmount at any  *)
(*                             time, inside root_fs and elsewhere          *)
(*   "new"                     the bind mount of root_fs over itself       *)
(*   "newvol"                  "vol" as seen below "new"                   *)
(*   the rest                  what prepare_rootfs() mounts below "new"    *)
(***************************************************************************)
EXTENDS Naturals, FiniteSets

CONSTANTS
    Containers,   \* the containers of one host
    Host,         \* the host's mount namespace, and its directory root_fs
    Devices,      \* default_devs without the console
    FaultStages   \* where a call may fail for the host's reasons, or a kill hit

HostTree    == {"/", "home", "devtmpfs"}
Volumes     == {"vol", "mnt"}
OldTree     == HostTree \cup Volumes
Filesystems == {"proc", "dev", "shm", "mqueue", "pts", "sys"}
DevFiles    == Devices \cup {"console"}
NewTree     == {"new", "newvol"} \cup Filesystems \cup DevFiles
Mounts      == OldTree \cup NewTree

(* default_symlinks: their names in /dev.                                  *)
Links == {"fd", "stdin", "stdout", "stderr", "ptmx"}

Stages == {"none", "slave", "private", "bind", "mkdir", "mount", "device", "console",
           "pivot", "oldslave", "detach", "links", "running", "dead"}

ASSUME HostAssumption == Host \notin Containers

ASSUME DevicesAssumption ==
    Devices # {} /\ Devices \subseteq {"null", "zero", "full", "tty", "random", "urandom"}

ASSUME FaultStagesAssumption == FaultStages \subseteq Stages

VARIABLES
    base,     \* the mount the repository, and so root_fs, lies on
    stage,    \* container -> the next call of its child
    userns,   \* container -> whether it has a user namespace
    left,     \* container -> what the loop of prepare_rootfs() has still to mount
    mnt,      \* namespace -> mount -> "none", or its propagation type
    top,      \* container -> the mount its root directory is in
    made,     \* <<directory, name>>: files made in root_fs (Host) or a container's /dev
    unsealed  \* history: the living containers whose mount(MS_PRIVATE) has failed,
              \*   which the code does not notice

vars == <<base, stage, userns, left, mnt, top, made, unsealed>>

Namespaces == Containers \cup {Host}

TypeOK ==
    /\ base \in {"/", "home"}
    /\ stage \in [Containers -> Stages]
    /\ userns \in [Containers -> BOOLEAN]
    /\ left \in [Containers -> SUBSET (Filesystems \cup Devices)]
    /\ mnt \in [Namespaces -> [Mounts -> {"none", "shared", "slave", "private"}]]
    /\ top \in [Containers -> {"/", "new"}]
    /\ made \subseteq Namespaces \X (Filesystems \cup DevFiles \cup Links)
    /\ unsealed \subseteq Containers

-----------------------------------------------------------------------------
(* Mounts and their propagation.                                           *)

(* What a mount is attached to ("/": once pivot_root() has moved it).      *)
On(k) ==
    CASE k \in {"home", "devtmpfs", "mnt"}                  -> "/"
      [] k \in {"vol", "new"}                               -> base
      [] k \in {"shm", "mqueue", "pts"} \cup DevFiles       -> "dev"
      [] OTHER                                              -> "new"

(* A bind mount belongs to the peer group, or follows the master, of what  *)
(* it is a bind mount of.                                                  *)
Origin(k) ==
    CASE k = "new"       -> base
      [] k = "newvol"    -> "vol"
      [] k \in DevFiles  -> "devtmpfs"
      [] OTHER           -> k

(* The mount point of k is in the tree that q shows, and how k is called   *)
(* there.                                                                  *)
Covers(q, k) == q = "new" => k \in {"vol"} \cup NewTree
Seen(q, k)   == IF q = "new" /\ k = "vol" THEN "newvol" ELSE k

(* The mounts <<namespace, mount>> that follow k's being mounted or         *)
(* unmounted in namespace n: the peers and slaves of what it is on.        *)
Receivers(t, n, k) ==
    IF t[n][On(k)] # "shared" THEN {}
    ELSE {r \in (Namespaces \X Mounts) \ {<<n, On(k)>>} :
            /\ t[r[1]][r[2]] \in {"shared", "slave"}
            /\ Origin(r[2]) = Origin(On(k)) /\ Covers(r[2], k)}

(* The mount table t after n has mounted k, of propagation type own unless *)
(* the mount it is attached to is shared.                                  *)
Mounted(t, n, k, own) ==
    LET type == IF t[n][On(k)] = "shared" THEN "shared" ELSE own
        new  == {<<n, k, type>>}
                  \cup {<<r[1], Seen(r[2], k), t[r[1]][r[2]]>> : r \in Receivers(t, n, k)}
    IN [m \in Namespaces |-> [j \in Mounts |->
            IF <<m, j, "shared">> \in new THEN "shared"
            ELSE IF <<m, j, "slave">> \in new THEN "slave"
            ELSE IF <<m, j, own>> \in new THEN own
            ELSE t[m][j]]]

(* The mount table t after n has unmounted the mounts K.                   *)
Unmounted(t, n, K) ==
    LET gone == {<<n, k>> : k \in K}
                  \cup UNION {{<<r[1], Seen(r[2], k)>> : r \in Receivers(t, n, k)} : k \in K}
    IN [m \in Namespaces |-> [j \in Mounts |->
            IF <<m, j>> \in gone THEN "none" ELSE t[m][j]]]

(* mount(MS_SLAVE | MS_REC) on a tree.                                     *)
Enslaved(n, tree) ==
    [mnt EXCEPT ![n] = [k \in Mounts |->
        IF k \in tree /\ @[k] = "shared" THEN "slave" ELSE @[k]]]

-----------------------------------------------------------------------------
(* Every process of the host starts with all mounts shared, as systemd     *)
(* leaves them.  An earlier container may have left its mount points.      *)
Init ==
    /\ base \in {"/", "home"}
    /\ stage = [n \in Containers |-> "none"]
    /\ userns = [n \in Containers |-> FALSE]
    /\ left = [n \in Containers |-> {}]
    /\ mnt = [n \in Namespaces |-> [k \in Mounts |->
                  IF n = Host /\ k \in HostTree THEN "shared" ELSE "none"]]
    /\ top = [n \in Containers |-> "/"]
    /\ made \in SUBSET ({Host} \X {"proc", "dev", "sys"})
    /\ unsealed = {}

(* The order of default_fs and of default_devs, and where the loop is.     *)
Rank == [proc |-> 1, dev |-> 2, shm |-> 3, mqueue |-> 4, pts |-> 5, sys |-> 6,
         null |-> 7, zero |-> 8, full |-> 9, tty |-> 10, random |-> 11, urandom |-> 12]

Reached(n, k) == k \in left[n] /\ \A j \in left[n] : Rank[k] <= Rank[j]

(* The directory a path below root_fs is in: the container's own tmpfs, or *)
(* the directory of the host.                                              *)
DirOf(n, k) == IF On(k) = "dev" /\ mnt[n]["dev"] # "none" THEN n ELSE Host

(* Mutant of Accepted: EEXIST is an error of mkdir(), too.                 *)
AcceptedStrict(n) ==
    /\ stage[n] \in {"mkdir", "device"} =>
          \A k \in left[n] : Reached(n, k) => <<DirOf(n, k), k>> \notin made

(* What a call needs, or it fails and the child exits: mknod() and         *)
(* symlink() a new name, pivot_root() that neither the new root nor what   *)
(* it is attached to is shared.                                            *)
Accepted(n) ==
    /\ stage[n] = "device" /\ ~userns[n] =>
          \A d \in left[n] : Reached(n, d) => <<DirOf(n, d), d>> \notin made
    /\ stage[n] = "pivot" => mnt[n]["new"] # "shared" /\ mnt[n][base] # "shared"
    /\ stage[n] = "links" => \A s \in Links : <<DirOf(n, "console"), s>> \notin made

Proceed(n, from, to) ==
    /\ stage[n] = from /\ Accepted(n)
    /\ stage' = [stage EXCEPT ![n] = to]
    /\ UNCHANGED <<base, userns, unsealed>>

(* clone(CLONE_NEWNS): a copy of the launcher's mounts, which are slaves   *)
(* from the start in a new user namespace.                                 *)
Clone(n) ==
    /\ stage[n] = "none"
    /\ \E u \in BOOLEAN :
        /\ userns' = [userns EXCEPT ![n] = u]
        /\ mnt' = [mnt EXCEPT ![n] = [k \in Mounts |->
                      IF u /\ mnt[Host][k] = "shared" THEN "slave" ELSE mnt[Host][k]]]
    /\ stage' = [stage EXCEPT ![n] = "slave"]
    /\ left' = [left EXCEPT ![n] = Filesystems]
    /\ UNCHANGED <<base, top, made, unsealed>>

(* Mutant of MakeSlave: left out.                                          *)
MakeSlaveSkipped(n) ==
    /\ Proceed(n, "slave", "private")
    /\ UNCHANGED <<mnt, left, top, made>>

(* child_fn(): "Be sure umount events are not propagated to the host".     *)
MakeSlave(n) ==
    /\ Proceed(n, "slave", "private")
    /\ mnt' = Enslaved(n, Mounts)
    /\ UNCHANGED <<left, top, made>>

(* Mutant of MakePrivate: left out.                                        *)
MakePrivateSkipped(n) ==
    /\ Proceed(n, "private", "bind")
    /\ UNCHANGED <<mnt, left, top, made>>

(* child_fn(): "Make parent mount private".  Only "/" is made private, and *)
(* as the result is compared with 1 a failure goes unnoticed.              *)
MakePrivate(n) ==
    /\ stage[n] = "private" /\ Accepted(n)
    /\ stage' = [stage EXCEPT ![n] = "bind"]
    /\ \/ mnt' = [mnt EXCEPT ![n]["/"] = "private"] /\ UNCHANGED unsealed
       \/ "private" \in FaultStages /\ unsealed' = unsealed \cup {n} /\ UNCHANGED mnt
    /\ UNCHANGED <<base, userns, left, top, made>>

(* child_fn(): root_fs and the volume in it, bound over root_fs.           *)
BindRoot(n) ==
    /\ Proceed(n, "bind", "mkdir")
    /\ LET bound == Mounted(mnt, n, "new", mnt[n][base]) IN
       mnt' = IF mnt[n]["vol"] = "none" THEN bound
              ELSE Mounted(bound, n, "newvol", mnt[n]["vol"])
    /\ UNCHANGED <<left, top, made>>

(* prepare_rootfs(): a mount point that exists will do.                    *)
Mkdir(n) ==
    /\ Proceed(n, "mkdir", "mount")
    /\ \E f \in Filesystems : Reached(n, f) /\ made' = made \cup {<<DirOf(n, f), f>>}
    /\ UNCHANGED <<left, mnt, top>>

(* Mutant of MountFs: nobody looks at what mount() returned.               *)
MountFsUnchecked(n) ==
    /\ \E f \in Filesystems :
        /\ Reached(n, f)
        /\ \/ mnt' = Mounted(mnt, n, f, "private")
           \/ "mount" \in FaultStages /\ UNCHANGED mnt
        /\ Proceed(n, "mount", IF left[n] = {f} THEN "device" ELSE "mkdir")
        /\ left' = [left EXCEPT ![n] = IF @ = {f} THEN Devices ELSE @ \ {f}]
    /\ UNCHANGED <<top, made>>

MountFs(n) ==
    /\ \E f \in Filesystems :
        /\ Reached(n, f)
        /\ mnt' = Mounted(mnt, n, f, "private")
        /\ Proceed(n, "mount", IF left[n] = {f} THEN "device" ELSE "mkdir")
        /\ left' = [left EXCEPT ![n] = IF @ = {f} THEN Devices ELSE @ \ {f}]
    /\ UNCHANGED <<top, made>>

(* mknod(), or in a user namespace an empty file and a bind mount of the   *)
(* host's device over it (MS_PRIVATE beside MS_BIND is ignored).           *)
MakeDevice(n) ==
    /\ \E d \in Devices :
        /\ Reached(n, d)
        /\ Proceed(n, "device", IF left[n] = {d} THEN "console" ELSE "device")
        /\ left' = [left EXCEPT ![n] = @ \ {d}]
        /\ made' = made \cup {<<DirOf(n, d), d>>}
        /\ mnt' = IF userns[n] THEN Mounted(mnt, n, d, mnt[n]["devtmpfs"]) ELSE mnt
    /\ UNCHANGED top

BindConsole(n) ==
    /\ Proceed(n, "console", "pivot")
    /\ made' = made \cup {<<DirOf(n, "console"), "console">>}
    /\ mnt' = Mounted(mnt, n, "console", mnt[n]["devtmpfs"])
    /\ UNCHANGED <<left, top>>

(* perform_pivot_root(): the new root goes to "/", the old one on top of   *)
(* it.                                                                     *)
PivotRoot(n) ==
    /\ Proceed(n, "pivot", "oldslave")
    /\ top' = [top EXCEPT ![n] = "new"]
    /\ UNCHANGED <<left, mnt, made>>

(* The working directory is the old root again.                            *)
SlaveOldRoot(n) ==
    /\ Proceed(n, "oldslave", "detach")
    /\ mnt' = Enslaved(n, OldTree)
    /\ UNCHANGED <<left, top, made>>

(* Mutant of DetachOldRoot: a failure goes unnoticed, as in MakePrivate.   *)
DetachUnnoticed(n) ==
    /\ Proceed(n, "detach", "links")
    /\ \/ mnt' = Unmounted(mnt, n, OldTree)
       \/ "detach" \in FaultStages /\ UNCHANGED mnt
    /\ UNCHANGED <<left, top, made>>

(* umount2(MNT_DETACH), and a chdir("/") that nobody checks: the links     *)
(* that follow have absolute names.                                        *)
DetachOldRoot(n) ==
    /\ Proceed(n, "detach", "links")
    /\ mnt' = Unmounted(mnt, n, OldTree)
    /\ UNCHANGED <<left, top, made>>

(* prepare_dev_fd(), then execvp().                                        *)
MakeLinks(n) ==
    /\ Proceed(n, "links", "running")
    /\ made' = made \cup {<<DirOf(n, "console"), s>> : s \in Links}
    /\ UNCHANGED <<left, mnt, top>>

(* The child ends, and with it its namespace and its tmpfs; what it made   *)
(* in root_fs stays.                                                       *)
ChildEnds(n) ==
    /\ stage' = [stage EXCEPT ![n] = "dead"]
    /\ mnt' = [mnt EXCEPT ![n] = [k \in Mounts |-> "none"]]
    /\ made' = {e \in made : e[1] # n}
    /\ unsealed' = unsealed \ {n}
    /\ UNCHANGED <<base, userns, left, top>>

Fail(n) ==
    /\ stage[n] \notin {"none", "running", "dead"}
    /\ ~Accepted(n) \/ stage[n] \in FaultStages
    /\ ChildEnds(n)

CommandEnds(n) ==
    /\ stage[n] = "running"
    /\ ChildEnds(n)

ChildStep(n) ==
    \/ MakeSlave(n) \/ MakePrivate(n) \/ BindRoot(n)
    \/ Mkdir(n) \/ MountFs(n) \/ MakeDevice(n) \/ BindConsole(n)
    \/ PivotRoot(n) \/ SlaveOldRoot(n) \/ DetachOldRoot(n)
    \/ MakeLinks(n)

-----------------------------------------------------------------------------
(* The rest of the host mounts and unmounts its volumes.                   *)

HostMounts(v) ==
    /\ mnt[Host][v] = "none"
    /\ mnt' = Mounted(mnt, Host, v, "shared")

HostUnmounts(v) ==
    /\ mnt[Host][v] # "none"
    /\ mnt' = Unmounted(mnt, Host, {v})

HostStep ==
    /\ \E v \in Volumes : HostMounts(v) \/ HostUnmounts(v)
    /\ UNCHANGED <<base, stage, userns, left, top, made, unsealed>>

Next ==
    \/ \E n \in Containers :
        \/ Clone(n)
        \/ ChildStep(n)
        \/ Fail(n)
        \/ CommandEnds(n)
    \/ HostStep

Spec == Init /\ [][Next]_vars

-----------------------------------------------------------------------------
(* Safety.                                                                 *)

(* Every namespace is its own: what a container's child mounts or unmounts *)
(* changes neither what the host has mounted nor what another container    *)
(* has, at no point of the set-up and although its mounts start as peers   *)
(* of theirs: "make sure our unmounts don't propagate to the host".  Only  *)
(* the host's own mounts and umounts may reach others.                     *)
Isolated ==
    [][/\ mnt'[Host] # mnt[Host] => UNCHANGED <<stage, left>>
       /\ \A n \in Containers :
            stage'[n] = stage[n] /\ left'[n] = left[n] /\ mnt'[n] # mnt[n]
                => UNCHANGED <<stage, left>>]_vars

(* When the command runs its root is root_fs and nothing of the old tree   *)
(* is mounted in its namespace, nor comes back with what the host mounts   *)
(* later.                                                                  *)
OldRootGone ==
    \A n \in Containers : stage[n] \in {"links", "running"} =>
        top[n] = "new" /\ \A k \in OldTree : mnt[n][k] = "none"

(* Where root_fs lies on the root mount, "/" being private seals the       *)
(* container: from the bind mount on, what the host mounts or unmounts in  *)
(* root_fs does not reach the new root.  Where root_fs lies elsewhere, and *)
(* where mount(MS_PRIVATE), whose result is compared with 1, has failed,   *)
(* volumes in root_fs follow the host, and still nothing else does.        *)
NewRootSealed ==
    [][\A n \in Containers :
        stage[n] \notin {"none", "slave", "private", "bind"} /\ UNCHANGED <<stage, left>>
            => \A k \in NewTree : mnt'[n][k] # mnt[n][k] =>
                  k = "newvol" /\ (base # "/" \/ n \in unsealed)]_vars

(* Containers share the directory root_fs of the host.  All that their     *)
(* set-up leaves there is mount points: devices, consoles and links are in *)
(* the tmpfs of each.                                                      *)
SharedDirClean == \A e \in made : e[1] = Host => e[2] \in {"proc", "dev", "sys"}

(* Containers do not make each other's set-up fail, nor does what earlier  *)
(* ones left behind, nor what the host mounts meanwhile: a child ends      *)
(* before its command runs only where a call fails for other reasons.      *)
NeverRefused ==
    [][\A n \in Containers : stage[n] # "dead" /\ stage'[n] = "dead" =>
          stage[n] \in FaultStages \cup {"running"}]_vars

-----------------------------------------------------------------------------
(* The inductive invariant.                                                *)

(* The host has what it has mounted itself, and shares it.                 *)
HostInv ==
    /\ \A k \in HostTree : mnt[Host][k] = "shared"
    /\ \A v \in Volumes : mnt[Host][v] \in {"none", "shared"}
    /\ \A k \in NewTree : mnt[Host][k] = "none"

PreparedBy(n) == stage[n] \in {"device", "console", "pivot", "oldslave", "detach", "links", "running"}

(* What a child has mounted, from the point it has reached.                *)
MountInv(n) ==
    /\ stage[n] \in {"none", "dead"} => \A k \in Mounts : mnt[n][k] = "none"
    /\ stage[n] \in {"slave", "private"} => mnt[n]["/"] # "none"
    /\ stage[n] \notin {"none", "slave"} => \A k \in Mounts : mnt[n][k] # "shared"
    /\ stage[n] \in {"slave", "private", "bind"} =>
          left[n] = Filesystems /\ \A k \in NewTree : mnt[n][k] = "none"
    /\ stage[n] \in {"mkdir", "mount"} => left[n] \subseteq Filesystems
    /\ stage[n] \in {"mkdir", "mount"} /\ "dev" \notin left[n] => mnt[n]["dev"] # "none"
    /\ stage[n] = "device" => left[n] \subseteq Devices
    /\ PreparedBy(n) => mnt[n]["dev"] # "none"
    /\ stage[n] \in {"oldslave", "detach", "links", "running"} => top[n] = "new"
    /\ stage[n] \in {"links", "running"} => \A k \in OldTree : mnt[n][k] = "none"

(* What is in a container's own /dev.                                      *)
DevInv(n) ==
    \A e \in made : e[1] = n =>
        /\ stage[n] \notin {"none", "slave", "private", "bind", "dead"}
        /\ stage[n] \in {"mkdir", "mount"} => e[2] \in Filesystems
        /\ stage[n] = "device" => e[2] \notin left[n] \cup Links
        /\ stage[n] # "running" => e[2] \notin Links

(* Where "/" is private, the bind mount is.                                *)
SealInv(n) ==
    base = "/" /\ n \notin unsealed /\ stage[n] \notin {"none", "slave", "private"} =>
        /\ mnt[n]["/"] \in {"private", "none"}
        /\ mnt[n]["new"] \in {"private", "none"}

RootfsInv ==
    /\ TypeOK
    /\ HostInv
    /\ SharedDirClean
    /\ \A n \in Containers : MountInv(n) /\ DevInv(n) /\ SealInv(n)

=============================================================================
