# MyDocker in TLA+

`src/` holds MyDocker, a small container runtime in C: `sudo ./MyDocker <options> <entrypoint>`
clones a process into new namespaces, limits its resources with cgroups, gives it a network and a
root file system and executes a command there. This directory specifies the program in TLA+,
checks the specification with TLC on small hosts and proves theorems about it with TLAPS.

## 1. The system

| component | source | state | operations |
|---|---|---|---|
| launcher | `src/src/main.c`, `src/src/runc.c` | options; where the process stands | parse, boot, `clone`, wait, release, exit |
| child | `child_fn()` in `runc.c` | where the process stands; its identity | wait for the maps, take identity 0, change root, `execvp` |
| cgroups | `namespaces/cgroup/cgroup.c` | `/sys/fs/cgroup/<controller>/container` with its settings and tasks; the array `controller` | `setting_cgroups`, `free_cgroup_resources` |
| user namespace | `namespaces/user/user.c` and the pipe in `runc.c` | both maps, setgroups, the ends of the pipe | `map_uid_gid`, the notification |
| network | `namespaces/network/network.c` | the pair veth1 / vpeer1, addresses, routes, firewall rules, two descriptors | `prepare_netns` |
| netlink and iptables helpers | `helpers/helpers.c` | the message being built | `_nlmsg_put`, `_nlmsg_send`, `_nlmsg_recieve`, `_ipt_rule` |
| root file system | `namespaces/mount/mount.c`, `child_fn()` | the mount tree of the child; the directory `root_fs` | `prepare_rootfs`, `perform_pivot_root`, `prepare_dev_fd` |
| capabilities, seccomp | `capabilities/`, `seccomp/` | none: their calls are commented out | - |

**How they interact.** A launcher and its child share a pipe and the kernel's view of each other
(the child's maps and namespaces are written through `/proc/<pid>`). All launchers of a host share
what has a fixed name: the four cgroup directories `container`, the interface names `veth1` and
`vpeer1`, the firewall and the directory `root_fs`. There is no lock: `mkdir()` and `NLM_F_EXCL` fail when the name is
taken, and the loser exits. The firewall is not even taken: each rule is a read of a whole table, and a write
back of it, one rule longer, later on. Mount namespaces are copies, but they stay tied to each other: a mount or
umount under a shared mount also happens under its peers and slaves.

**What is hard here.**

* The order of two processes. Limits must be complete before `clone()`; the maps and the network
  before `execvp()`. The only signal is an end of file, and a dying launcher gives the same signal.
* Names shared by launchers that know nothing of each other.
* Error handling. Every error is `exit(EXIT_FAILURE)` on the spot (`printErr()`): nothing is undone
  and the child is not waited for, except after a failed `clone()`.
* What the kernel does later: a dead container's network namespace, and the pair with it, disappears
  some time after the last process and descriptor.
* Without `-U` the child does not wait for anything, so it races its launcher's set-up.
* The limits' strings are owned twice, by `cgroup_args` and by the settings of `cgrp_control`.
* The child unmounts the whole tree it inherited. Whether the host keeps its mounts depends on the
  propagation type of each mount at that moment, and the host goes on mounting meanwhile.

`PROJECT.json` lists each hazard at its line with the properties that cover it.

**What makes each component right.** Cgroups: a container is under exactly its own limits, all its
life, and a launcher that cleans up removes all of its directories, only its own and only when they
are empty. User namespace: the command runs with both maps and identity 0, whatever happens to the
launcher, and nobody hangs on the pipe. Network: only one launcher configures the shared names at a
time, a container that is waited for is connected, no launcher loses another's firewall rules, and
the kernel reads out of a request what the launcher has put in. Root file system: the command sees nothing of
the old root, nothing of the set-up reaches the host or another container, and containers that share
`root_fs` do not make each other fail. Launcher: it reads its command line as it is meant, takes and
gives back the names as locks, and ends when its container has ended; racing launchers do not all
fail.

## 2. The modules

    Launcher            processes and their control points
      Cgroup            directories, settings, tasks
      UserNs            pipe, maps, identity
      Netns             the pair, the namespaces, the firewall
        Runc            all of them: main(), runc(), child_fn(); the properties
          RuncInv       the inductive invariants
            RuncRefines         the refinement mappings to NameLocks and RuleLog
              MCRunc            instances for TLC
            CgroupProofs        TypeOK, and the part of the invariant about the directories
              RuncProofs        the rest of the invariant, and the safety theorems
                NamesProofs     racing launchers do not all lose; the two refinements
    NameLocks           abstract: the names as locks nobody waits for
      Firewall          the rules, in detail, over that protocol
        FirewallRefines         the refinement mapping to RuleLog
          MCFirewall            instances for TLC
          FirewallProofs        the theorems about both
    RuleLog             abstract: one launcher at a time appends its rules
    OwnRoot             abstract: a change of root, as host and command see it
    Rootfs              mounts of the host and of the containers, root_fs
      RootfsRefines     the refinement mapping to OwnRoot
        MCRootfs        instances for TLC
        RootfsProofs    the theorems about both
    Cli                 the option loop of main()
      MCCli             instances for TLC
      CliProofs         its theorems
    Heap                who frees the limits
      HeapProofs        its theorems
    Nlmsg               the layout of the netlink requests
      NlmsgProofs       its theorems

### Launchers and children

Each component module extends `Launcher`, owns its variables and has one action per system call of
its C file. `Runc` composes them: a step of the system is one step of one process, which leaves the
variables of the other components alone, or one of the few steps that concern several (`Clone`,
the end of a process). `pc[l]` names the next system call of launcher `l`, `cpc[l]` that of its
child, so an interleaving of system calls is an interleaving of actions.

| in the model | in the code |
|---|---|
| `dir[c]`, `limits[s]`, `tasks[c]` | directory of controller `c` and who made it, whose value its settings hold, its `tasks` file |
| `todo[l]` | what the loops over `controller[]` have still to do, in the order of `Rank` |
| `wend[l]` | who holds the write end of `sync_uid_gid_map_fd` |
| `uidmap`, `gidmap`, `setgroups` | the files of that name in `/proc/<child>` |
| `creds[l]` | the child's user and group inside its namespace |
| `veth` | the pair: who made it, where vpeer1 is, what has been configured |
| `at[l]`, `holds[l]` | the launcher's network namespace; `child_netns` is a descriptor, not -1 |
| `netcfg[n]`, `iptables` | loopback and default route of a namespace; the rules appended |

Abstractions. A value written to a cgroup setting is identified by the launcher that wrote it.
Host name, mounts, `pivot_root` and `execvp` are one step of the child here (`ChildExec`); the mounts
are `Rootfs`. The command line is a choice of `-U` and of the controllers (how it is read is `Cli`);
`-c` with no further option behaves, for all that is modelled here, as no `-c` at all (`n_controller` is 0). The end of a
process closes its descriptors and takes it out of its cgroups at once. Refusals by the kernel are
the operators `CgroupAccepts`, `NetAccepts` and `IdsAccepted`: a call they do not accept ends the
process (`Fail`, `ChildFails`). The undefined behaviour of a double `free()` is a choice: it may abort
the launcher or not (`Free`; block by block in `Heap`). A firewall rule is one step here; that it
is not is `Firewall`, and that it may be taken for one `RuleLog`.

### The names as locks

`NameLocks` says what launchers promise each other and nothing about how: limits are taken in one
order and only when free, a container starts when its holder has all it asked for, no limit goes
away under a live container, a holder that has to give up keeps what it has, and the pair is free
again only when holder and container are gone. In `RuncRefines` the limits are the cgroup directories
(`dir`), the pair is `veth.maker`, a holder is a launcher and its container the child; `KeepsLocks`
is `NameLocks` under that mapping. All of the pipe, the maps, the network and the settings are
stuttering steps there.

### The firewall

`Firewall` refines the three `_ipt_rule()` calls over the protocol of `NameLocks`, whose actions it
uses as they are: `Wire` is `TakePair`, `Release` and `Stop` are ends of a launcher with what they
mean for its calls.

| in the model | in the code |
|---|---|
| `rules[t]` | the rules of table `t` in the kernel, by who has made them |
| `calls[h]` | the `_ipt_rule()` call of `prepare_netns()` that is next, or running |
| `view[h]`, `open` | the copy that `iptc_init()` has read, and who has one |
| `IptcCommit`, `IptcCommitStale` | `iptc_commit()`: the kernel takes the copy if the number of rules is still that of the copy, whatever the rules are, and refuses it with EAGAIN otherwise |

Rules are a set: their order plays no part in what is said of them.

`RuleLog` is what is left of the firewall when one looks at the launchers' rules only: a launcher enters
when nobody is inside, writes its rules one by one in the order of its calls or misses some, leaves,
and never comes back; nothing that is written is overwritten. Two modules are mapped to it.
`FirewallRefines` takes each table's rules without those of other programs, and `NextCall` is `calls` of
a launcher that has not ended (`AppendsRules`): the commit of a copy is there the writing of one rule.
`RuncRefines` takes `iptables` by tables, and `NextAs` from the control points (`WritesRules`): `_ipt_rule()` is one
step there. So what entitles `Netns` to that one step is a property of both.

### The root file system

`Rootfs` follows the children of several containers through `child_fn()` and `mount.c`, call by
call, beside a host that mounts and unmounts two volumes at any time: `vol` inside `root_fs`, `mnt`
elsewhere. `stage[n]` is the next call of container `n`'s child.

| in the model | in the code or the kernel |
|---|---|
| `mnt[n][k]` | in the mount namespace of `n`: mount `k`'s propagation type, or "none" |
| `base` | the mount the repository lies on: the root mount, or another one of the host |
| `left[n]` | what the loops over `default_fs` and `default_devs` have still to do, in the order of `Rank` |
| `top[n]` | the mount the child's root directory is in |
| `made` | files made in `root_fs` of the host and in the tmpfs on each container's `/dev` |
| `unsealed` | a history variable, read by no action: the living containers whose `mount(MS_PRIVATE)` has failed, which `child_fn()` does not notice because it compares the result with 1 |
| `Receivers`, `Mounted`, `Unmounted`, `Enslaved` | mount propagation as mount_namespaces(7) describes it |

A mount is known by its name, not by its path: what it is attached to (`On`) and what it is a bind
mount of (`Origin`) follow from the name. The host starts with every mount shared, as systemd leaves
them. `devtmpfs` stands for the source of the bound devices and of the console. The five links are
one step, and so are a device's file and the bind mount over it: no other process sees that tmpfs.
A call may fail because the model's kernel does not accept it (`Accepted`), or at any stage of
`FaultStages`; the latter also stands for a kill. At "private" a failing call goes unnoticed. The end of a child removes its namespace.

`OwnRoot` is what is left of this when one does not look into it: a box has all that its host has,
leaves it as a whole, then runs; the host's tree changes by the host alone. `RootfsRefines` maps
`Rootfs` to it (`SwapsRoot`), which is what entitles `Runc` to have one step for the mounts.

### The command line

`Cli` has one action per case of the option loop, with glibc's `getopt()` as the code calls it
(options and words permuted, no `POSIXLY_CORRECT`). An argument is a cluster of letters, perhaps with
a word attached to the last, or a word, or `--`. Of a word only what the loop can tell apart is kept:
whether it is empty and for which options `strtol()` makes an accepted number of it (`InRange`).
`ReadAsMeant` compares what comes out with a reading that knows no loop. It goes by places: an argument
is taken by the option before it when an odd number of arguments in a row before it want the next one
(`Taken`); the options of an argument are its letters up to the first that wants an argument (`OptionsIn`);
each may have a `Fault`, and the first of them decides; a limit is the word of the last option of its
letter; the operands are the words that are not taken, and everything behind the first `--` that is not.

### The heap

`Heap` has the blocks that `init_resources()` and the `alloc_ctr_...()` functions allocate and one step
per `free()` of `cleanup_controller()` and of the end of `main()`. A second `free()` of a block aborts the
launcher or goes unnoticed. `i`, `j` and `controller` are the loop variables and the array of the code, as
long as it lives; `frees` counts how often each block has been freed.

### The netlink requests

`Nlmsg` builds each request of `prepare_netns()` attribute by attribute, with the sizes of the C
structures, and then has the kernel walk through it, from length to length, each rounded up to four:
`ReadAttr` and `LeaveNest`. An attribute that is longer than what it is in ends the walk. `trail` is a
history variable: the length of the message and the open nests before each of the launcher's operations.

### Mutants

Operators marked "Mutant of ..." are slips a programmer could make in the operator they name. They
are used by no specification: replacing the operator by its mutant must break the property
`PROJECT.json` pairs it with, which shows that the property can fail.

## 3. What is checked

Deadlock is checked in the runs of `Runc`, where the system may stop only when everybody has ended
(`Over`), and of `Rootfs`, where the host never stops. `Firewall`, `Cli`, `Heap` and `Nlmsg` end by
themselves: their launchers get through, or stop, and nothing follows.

| run | instance | question |
|---|---|---|
| `faults` | 2 launchers; no limit, memory, memory and pids; a failing call at one point of each phase; SIGKILL to anybody | `ContainerConfined`, `NoForeignLimits`, `RmdirAccepted`, `AllReleased`, `OwnerRemoves`: the limits. `ExecReady`, `WaitsConfigured`, `OneNetwork`: the order of the start. `KeepsLocks`, `WritesRules`: `Runc` implements `NameLocks` and `RuleLog`. `TypeOK`, `IInv`: the invariant the proofs use |
| `errors` | the same, with failing firewall rules, but launchers are not killed | `Supervised`: no error of the launcher leaves a running container in a user namespace alone. `WritesRules`: `RuleLog` holds where a rule is missed, too, which `faults` leaves out |
| `race` | 3 launchers with overlapping limits, no faults | `NotAllLose` |
| `live` | 2 launchers, kills, weak fairness | `BootSettles`, `LauncherEnds` |
| `rootfs` | 2 containers, with and without a user namespace; devices `null` and `tty`; failing mounts and umounts, the unchecked `mount(MS_PRIVATE)` among them; both places of the repository | `Isolated`: nothing reaches the host or another container. `OldRootGone`, `NewRootSealed`: what the command sees. `SharedDirClean`, `NeverRefused`: the shared directory. `SwapsRoot`: `Rootfs` implements `OwnRoot`. `RootfsInv`: the invariant of the proofs |
| `firewall` | 2 launchers that compete for the pair, one limit, two edits by another program, failing calls, launchers that stop anywhere | `RulesStay`: no lost update of a launcher's rule. `RulesComplete`: a refused commit, which nobody would notice, does not happen without another program. `AppendsRules`: `Firewall` implements `RuleLog`. `FirewallInv`: the invariant of the proofs |
| `cli` | all command lines of up to 4 arguments from 7 clusters, 4 words, attached or not, and `--` | `ReadAsMeant`: the loop and the reading without one agree. `CliInv`: the invariant of the proofs |
| `heap` | all selections of limits; `clone()` fails or not | `NothingDangling`, `TwiceAsInRunc`: `Free` of `Runc` is right about when blocks are freed twice. `HeapInv`: the invariant of the proofs |
| `nlmsg` | all five requests; names of eleven lengths, all remainders by four among them | `ReadBack`: the kernel reads what was meant. `NlmsgInv`: the invariant of the proofs |
| `defaults` | 2 launchers, no faults | a promise of the documentation that the code does not keep (section 5) |
| `entrypoint` | command lines of up to 3 arguments | another |
| `twice` | as `heap` | a comment about memory that is wrong |

Bounds. Everything launchers share is shared by name, so two of them show any conflict of a pair;
`race` takes three because a launcher may lose to one that has lost to another. Two controllers are
enough for a loop with a next element; memory is the one with two settings. Every control point is
reachable in `faults`. For the mounts two containers are a peer group with a second member besides
the host, and two devices are a loop with a next element; the six file systems are all there. An
earlier container is covered by `Init`, which lets any of its mount points be there. In `firewall`
two edits are enough for an append and a deletion that leave the number of rules as it was, which is
when the kernel's test does not notice them; `HostEdits` is the bound. In `cli` four arguments hold an
option, the element it takes, `--` and what follows, in every order; the clusters contain every kind
of option, first, in the middle and last; `MaxArgs` is the bound. `heap` and `nlmsg` have no bound:
`Heap` is finite as it is, and in `Nlmsg` a name has at most 16 bytes. No counter is unbounded
elsewhere.

Fairness. `FairSpec` has weak fairness of each launcher's and each child's own steps: the scheduler
runs a process that can run. Nothing obliges a launcher to be started, a command to end, a kill to
happen or the kernel to destroy a namespace. The other specifications state no liveness: their
processes go on or are stopped, and wait for nobody.

## 4. What is proved

TLAPS proves the following for every set of launchers or containers, every selection of controllers,
all devices, any number of other programs' edits, and every choice of faults and kills except where a
theorem says otherwise; for every command line, and for interface names of every size that fits. The
assumptions on the constants are the `ASSUME`s of `Launcher`, `Runc`, `NameLocks`, `Firewall`, `Rootfs`, `Cli`
and `Nlmsg`: `NoOne`, `NoHolder` and `Host` are not launchers, holders or containers, the pair is not a
limit, selections are sets of controllers, fault points are control points, `Devices` is a non-empty set
of the devices of `default_devs`; a cluster has a letter, no limit accepts the empty word or one that
is no number, and "no word" is not a word; an interface name has 1 to 16 bytes.

**The safety of the launchers** (`RuncProofs`). `IInv` is `TypeOK` with `CgroupInv`, `NetInv` and
`UserNsInv`. The properties are not inductive by themselves: that an `rmdir()` finds its directory
empty, say, depends on who may be inside a directory at every earlier control point of its owner. So
`CgroupInv` says, for each launcher and control point, which directories it owns, which settings hold
its value and which tasks files it is in; `NetInv` that at most one launcher is past `CreatePair` with
the pair and how much of it is configured there; `UserNsInv` which maps and identities go with which
control points of launcher and child. A step of one launcher changes what is local to that launcher;
what it leaves of the others is one lemma per component (`...Frame`, `OthersKeep`), cited by every
action. `Invariance` is that `IInv` holds in every state; `ContainerLimits`, `LimitsOwn`,
`RmdirNeverBusy`, `ReleaseComplete`, `CommandStartsReady`, `NetworkExclusive`, `NetworkComplete` and
the action property `RemovalByOwner` follow from it.

**No container alone** (`RuncProofs`, too). `NeverUnsupervised` assumes that launchers are not killed
(`"parent" \notin Killable`); with kills it is false. `PipeInv` relates the ends of the pipe, the maps
and the control points: a launcher that gives up before the maps are complete leaves a child that
cannot become identity 0, so it ends before its command.

**The race** (`NamesProofs`). `SomeoneWins` assumes no faults, no kills and at least one launcher; the
property itself speaks of launchers that all use a user namespace. `RaceInv` says that somebody has won,
or nobody has given up and no name is taken, or a launcher that is alive holds the last of the names
that are taken, in the order in which all launchers take them. That one cannot be refused: the names
it still needs come later and are free. `PathInv` and `AheadInv` say what it needs on its way.

**The names as locks** (`NamesProofs`, too). `ImplementsLocks`: initial states map to initial states, and under
`IInv` each step of a launcher, a child or the kernel maps to one step of the same holder's or to none.
`Mkdir`, `Rmdir`, `CreatePair`, `Clone`, `Boot` and the ends of processes are the steps that map to
something; one lemma each shows to what, and `BetweenMaps` that the rest changes nothing that is
mapped. `IInv` alone is not enough: `LifeInv` adds that the pair belongs to a launcher that has passed
its first request and that a launcher which releases or has finished has a dead child.

**The rules as a log** (`NamesProofs` and `FirewallProofs`). `ImplementsRules`: in `Runc` whoever is inside has
made the pair (`InsideMade`, from `IInv`), and `CreatePair` is accepted only when there is none, so it maps
to `Enter`; a launcher that enters has no rule yet, which is `RulesInv`. `AppendLogs` and `ParentEndsLeaves`
show what the calls of `_ipt_rule()` and the ends of launchers map to, `OthersUnseen` and `NobodyElse` that
all else maps to nothing. `ImplementsRuleLog`: in `Firewall` a commit puts a whole copy in place of the
table, and `CopyComplete`, a part of `FirewallInv`, is what makes this the writing of one rule: the copy and
the table agree on the launchers' rules, not one less and not one more.

**The firewall** (`FirewallProofs`). `FirewallInv` says that who is between the pair and `waitpid()` owns
the pair, so of two launchers at most one has a copy open, that an open copy agrees with the table about
the launchers' rules, and that a launcher's rules are those of calls it has made. `NoRuleIsLost` follows for every commit, edits of other programs or not. `RulesAreComplete` needs
more: with no edits the copy is the table itself, so the kernel's count agrees and the commit succeeds,
whatever calls have failed for other launchers (`refused` remembers for whom).

**The mounts** (`RootfsProofs`). `RootfsInv` says that past `MakeSlave` no mount of a container is
shared. A mount or umount under a mount that is not shared has no receivers (`MountedAlone`,
`UnmountedAlone`), so every later step of a child is its own: `ContainersAreIsolated`. What the host
mounts is attached to the old tree and reaches a container only there or below the bind mount of
`root_fs` (`HostReach`); hence `OldRootIsGone`; and `NewRootIsSealed`: the bind mount is private where `root_fs` lies on "/" and
`mount(MS_PRIVATE)` has not failed (`SealInv`), and elsewhere only a volume in `root_fs` follows the host.
What `made` holds of a container's own `/dev` is kept with the point its loop has reached, which gives
`ChildrenAreNeverRefused` and `SharedDirStaysClean`. For `ImplementsOwnRoot` each step of a child maps to
a step of its box or to none (`OneBox`), only the detach changes what there is of the old tree
(`ChildAlone`), and what the host mounts or unmounts reaches exactly boxes that still have it
(`VolumeReach`).

**The command line** (`CliProofs`). `CliInv` says what the loop knows after each option, in terms of the
reading without a loop: `RestInv` where it is, `TakenInv` which arguments were taken so far, `OptionsInv`
that flags and limits are those of the options it has passed, none of which has a fault, and `OperandsInv`
that the operands are those so far, in order. That the loop agrees with counting places by parity is
`NextTaken` and `NotTaken`: an argument is taken exactly when the one before it wants it and is not taken
itself, and the run of wanting arguments grows by one or begins anew. `OptionRead` is the step every option
makes; the actions differ in what they add to it. `LoopReadsAsMeant` is a part of `LoopReadsSoFar`. No
induction over sequences is needed, because the reading is stated with places and not with recursion.

**The heap** (`HeapProofs`). `HeapInv` gives for every point of the loops of `cleanup_controller()` and
`main()` how often each block has been freed and what still lives. The blocks that may be read at each
point are among the latter (`NoDanglingRead`), and the ones counted twice are the value that the two
memory settings share, during the cleanup, and then what `main()` frees again (`RuncIsRightAboutFrees`).

**The netlink requests** (`NlmsgProofs`). `NlmsgInv` says that the kernel stands where the launcher stood
before some operation, and has read what had been put until then (`Retraced`). For that `TrailInv` has the
launcher's places, which only grow and are multiples of four, `NestInv` that what is open at each place
was opened before it and is closed behind it, once and innermost first, and `AttrInv` what the message
holds at each place. Padding matters in `AttributeThere` and `InsideEnds`: the end of the last attribute
of a nest, rounded up, is the end of the nest. The requests are taken as they are in the code; what is
needed of them (`FlatIsWellFormed`, `PairIsWellFormed`) is that their nests are closed.

Only model-checked: `BootSettles` and `LauncherEnds`, because TLAPS proves no liveness under fairness
and nothing about ENABLED; and the three violations.

## 5. Where code and documentation disagree

Three disagreements are runs, which end with a counterexample:

* `defaults`: the README promises a 1 GB memory limit for `-c -C 50 -I 20 -P 333` (`README.md:100`); a
  controller without an option of its own is never created (`cgroup.c:251`).
* `entrypoint`: "Usage: sudo ./MyDocker <options> <entrypoint>"; but options behind the first word are
  taken for the launcher's (`main.c:30`): in `-a ls -a` the second `-a` never reaches `ls`.
* `twice`: before the last frees of `main()`, "now it's time to free them" (`main.c:169`); the values have
  been freed by `cleanup_controller()` (`cgroup.c:413`), the memory limit's twice.

Others can be read off the code and the model, and have no run:

* The FORWARD rules name `veth0`; the pair is `veth1` and `vpeer1` (`network.c:47,322`; `ForwardOut`).
* A comment in `runc()` speaks of a map of one identity (`runc.c:204`); 65536 are mapped (`user.c:20`).
* After the detach "we will see only the mount points of the container that has been prepared by
  prepare_rootfs()" (`mount.c:146`); but the recursive bind (`runc.c:76`) takes along what the host has
  mounted in `root_fs`.
* The old root is not made private, so that umounts of the host reach it (`mount.c:135`); but
  `child_fn()` has made it private before (`runc.c:66`).
* `-c` "must be chained with at least one of" four options (`main.c:192`); alone it is accepted.
* "Now we can free the settings associated with each controller" (`cgroup.c:402`); the `cgrp_setting`
  and `cgrp_control` structures stay allocated (`cgroup.c:415`).

## 6. Not modelled

* Capabilities and seccomp: their calls are commented out. The helpers nothing calls.
* `get_rootfs()`, `_init_addr()` and the texts printed: conversions of constants of the build.
* The host name: `sethostname()` concerns the container's own UTS namespace and nothing reads it again.
* The array that `get_child_entrypoint()` allocates with as many bytes as it should have pointers, and
  does not terminate: what `execvp()` finds depends on the allocator's chunks and on what the heap held
  before. The command's arguments are not modelled.
* Shortage of memory: no `malloc()` fails in the models.
* Another program's own window between reading a table and writing it back: `HostEdit` is one step. Such a
  program can undo a launcher's rule, which no order of the launcher's calls could prevent.
* The working directory after the detach: the `chdir("/")` behind it is not checked (`mount.c:155`).
* The scripts in `tools` and the Ubuntu tree in `root_fs`, which is nearly all of the repository by size
  (its Python library included). It is the data containers see as their root, not the program's logic.

Composition. `Runc` and `Rootfs` meet in `OwnRoot`, and `Runc` and `Firewall` in `NameLocks` and `RuleLog`, as abstract
specifications rather than as one product: the product of mounts, names and tables is out of TLC's reach,
and the components share nothing else. `Cli` ends where `Boot` of `Runc` begins, and `Heap` says when
`DoubleFree` of `Runc` holds.

What could follow: `Heap` with the array of the command's arguments under a model of the allocator, and
a proof that the child of `Runc` itself implements `OwnRoot`.
