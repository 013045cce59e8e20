-------------------------------- MODULE Heap --------------------------------
(***************************************************************************)
(* Who allocates and who frees the limits of a container: init_resources() *)
(* and the alloc_ctr_*() functions (src/src/namespaces/cgroup/cgroup.c),   *)
(* cleanup_controller() there, and the end of main() (src/src/main.c).     *)
(* The value strings belong to the command line's cgroup_args and to the   *)
(* controllers' settings at the same time.                                 *)
(*                                                                         *)
(* One launcher, call by call of free().  Freeing what has been freed is   *)
(* undefined: the library aborts the process, or does not notice.  Module  *)
(* Runc has all this as DoubleFree and the step Free.                      *)
(***************************************************************************)
EXTENDS Naturals, SequencesExt

(* The order of setup_cgrp_controller(), and the settings of each.         *)
Order == <<"memory", "cpu", "pids", "blkio">>

Controllers == Range(Order)

SettingsIn == [memory |-> <<"limit", "kmem">>, cpu |-> <<"shares">>, pids |-> <<"max">>,
               blkio |-> <<"weight">>]

(* main() frees the values in an order of its own.                         *)
MainOrder == <<"pids", "blkio", "cpu", "memory">>

VARIABLES
    at,        \* where the launcher stands
    given,     \* TRUE with -c: there is a cgroup_args
    flags,     \* the controllers that are limited
    cloned,    \* TRUE when clone() has succeeded
    i, j,      \* the loop variables
    controller,\* the array controller[]
    live,      \* the allocated blocks
    frees      \* block -> how often it was freed

heapVars == <<at, given, flags, cloned, i, j, controller, live, frees>>

(* The blocks: of cgroup_args, of a controller c, of its setting s.        *)
Args        == <<"args">>
Array       == <<"controller">>
Value(c)    == <<"value", c>>
Control(c)  == <<"cgrp_control", c>>
Name(c)     == <<"control", c>>
Pointers(c) == <<"settings", c>>
Setting(s)  == <<"cgrp_setting", s>>
SName(s)    == <<"name", s>>

ArgsBlocks == {Args} \cup {Value(c) : c \in Controllers}

ControlBlocks(c) ==
    {Control(c), Name(c), Pointers(c)}
        \cup {Setting(s) : s \in Range(SettingsIn[c])} \cup {SName(s) : s \in Range(SettingsIn[c])}

Blocks == ArgsBlocks \cup {Array} \cup UNION {ControlBlocks(c) : c \in Controllers}

HeapInit ==
    /\ at = "start"
    /\ given = FALSE /\ flags = {} /\ cloned = FALSE
    /\ i = 1 /\ j = 1
    /\ controller = <<>>
    /\ live = {}
    /\ frees = [b \in Blocks |-> 0]

-----------------------------------------------------------------------------
(* Without -c there is nothing to limit.                                   *)
InitResources ==
    /\ at = "start"
    /\ \/ /\ given' = FALSE /\ flags' = {} /\ live' = {}
          /\ at' = "clone"
       \/ /\ given' = TRUE /\ flags' \in SUBSET Controllers /\ live' = ArgsBlocks
          /\ at' = "setup"
    /\ UNCHANGED <<cloned, i, j, controller, frees>>

(* setup_cgrp_controller(): one controller after the other, then the array *)
(* they are put into.                                                      *)
SetupControllers ==
    /\ at = "setup"
    /\ IF i <= Len(Order)
       THEN /\ IF Order[i] \in flags
               THEN /\ live' = live \cup ControlBlocks(Order[i])
                    /\ controller' = Append(controller, Order[i])
               ELSE UNCHANGED <<live, controller>>
            /\ i' = i + 1
            /\ UNCHANGED at
       ELSE /\ live' = live \cup {Array}
            /\ at' = "apply" /\ i' = 1
            /\ UNCHANGED controller
    /\ UNCHANGED <<given, flags, cloned, j, frees>>

(* setting_cgroups() reads names and values.                               *)
Apply ==
    /\ at = "apply" /\ at' = "clone"
    /\ UNCHANGED <<given, flags, cloned, i, j, controller, live, frees>>

(* clone(), and waitpid() when it succeeds.                                *)
Clone ==
    /\ at = "clone" /\ at' = "release"
    /\ cloned' \in BOOLEAN
    /\ UNCHANGED <<given, flags, i, j, controller, live, frees>>

(* free_cgroup_resources(), up to cleanup_controller().                    *)
Release ==
    /\ at = "release"
    /\ at' = IF controller = <<>> THEN "array" ELSE "control"
    /\ UNCHANGED <<given, flags, cloned, i, j, controller, live, frees>>

(* free(b), then on to a place.                                            *)
Free(b, to) ==
    /\ live' = live \ {b}
    /\ frees' = [frees EXCEPT ![b] = @ + 1]
    /\ \/ at' = to
       \/ b \notin live /\ at' = "aborted"
    /\ UNCHANGED <<given, flags, cloned, controller>>

(* Mutant of FreeControl: what was allocated with it goes with it.         *)
FreeControlWhole ==
    /\ at = "control"
    /\ live' = live \ {Name(controller[i]), Control(controller[i])}
    /\ frees' = [frees EXCEPT ![Name(controller[i])] = @ + 1, ![Control(controller[i])] = @ + 1]
    /\ at' = "name" /\ j' = 1
    /\ UNCHANGED <<given, flags, cloned, i, controller>>

FreeControl ==
    /\ at = "control"
    /\ Free(Name(controller[i]), "name")
    /\ j' = 1
    /\ UNCHANGED i

FreeName ==
    /\ at = "name"
    /\ Free(SName(SettingsIn[controller[i]][j]), "value")
    /\ UNCHANGED <<i, j>>

(* Mutant of FreeValue: once for each controller.                          *)
FreeValueOnce ==
    /\ at = "value"
    /\ IF j < Len(SettingsIn[controller[i]])
       THEN at' = "name" /\ UNCHANGED <<given, flags, cloned, controller, live, frees>>
       ELSE Free(Value(controller[i]), "settings")
    /\ j' = j + 1
    /\ UNCHANGED i

FreeValue ==
    /\ at = "value"
    /\ Free(Value(controller[i]), IF j < Len(SettingsIn[controller[i]]) THEN "name" ELSE "settings")
    /\ j' = j + 1
    /\ UNCHANGED i

(* Mutant of FreeSettings: the loop ends one controller early.             *)
FreeSettingsOffByOne ==
    /\ at = "settings"
    /\ Free(Pointers(controller[i]), IF i + 1 < Len(controller) THEN "control" ELSE "array")
    /\ i' = i + 1
    /\ UNCHANGED j

FreeSettings ==
    /\ at = "settings"
    /\ Free(Pointers(controller[i]), IF i < Len(controller) THEN "control" ELSE "array")
    /\ i' = i + 1
    /\ UNCHANGED j

(* free(controller), NULL without -c; a failed clone() ends here.          *)
FreeArray ==
    /\ at = "array"
    /\ LET to == IF ~cloned THEN "failed" ELSE IF given THEN "main" ELSE "done" IN
         IF given THEN Free(Array, to)
         ELSE at' = to /\ UNCHANGED <<given, flags, cloned, controller, live, frees>>
    /\ i' = 1
    /\ UNCHANGED j

FreeResources ==
    /\ at = "main"
    /\ IF i <= Len(MainOrder) THEN Free(Value(MainOrder[i]), "main") ELSE Free(Args, "done")
    /\ i' = i + 1
    /\ UNCHANGED j

HeapNext ==
    \/ InitResources
    \/ SetupControllers
    \/ Apply
    \/ Clone
    \/ Release
    \/ FreeControl
    \/ FreeName
    \/ FreeValue
    \/ FreeSettings
    \/ FreeArray
    \/ FreeResources

HeapSpec == HeapInit /\ [][HeapNext]_heapVars

-----------------------------------------------------------------------------
(* What the next step dereferences.                                        *)
Reads ==
    CASE at \in {"apply", "release"} /\ given ->
            {Array} \cup UNION {ControlBlocks(c) \cup {Value(c)} : c \in flags}
      [] at \in {"control", "settings"} -> {Array, Control(controller[i])}
      [] at \in {"name", "value"} ->
            {Array, Control(controller[i]), Pointers(controller[i]),
             Setting(SettingsIn[controller[i]][j])}
      [] at = "main" -> {Args}
      [] OTHER -> {}

(* The cleanup pulls the structures down from the leaves: nothing is read  *)
(* after it was freed, not even when double frees go unnoticed.            *)
NothingDangling == Reads \subseteq live

(* DoubleFree of module Runc: some block is freed twice.                   *)
Excused == IF cloned THEN flags # {} ELSE "memory" \in flags

(* That is so for the memory limit's value always, and after a container   *)
(* has run for the values of all limits.  Only then can the launcher be    *)
(* aborted, and only after the cgroup directories are gone.                *)
TwiceAsInRunc ==
    /\ at \in {"done", "failed"} =>
        ((\E b \in Blocks : frees[b] > 1) <=> Excused)
    /\ at = "aborted" => Excused

-----------------------------------------------------------------------------
(* The inductive invariant: what has been freed, read off from where the   *)
(* launcher stands.                                                        *)

Early == {"start", "setup", "apply", "clone", "release"}

Loop == {"control", "name", "value", "settings"}

Late == {"array", "failed", "main", "done"}

(* The controllers that cleanup_controller() has been through, and the one *)
(* it is at.                                                               *)
Cleaned ==
    IF at \in Early THEN {} ELSE IF at \in Loop THEN {controller[k] : k \in 1 .. i - 1} ELSE flags

Current == IF at \in Loop THEN {controller[i]} ELSE {}

(* How many settings of controller c have had their value, or their name,  *)
(* freed; main() has freed the values of MainFreed once more.              *)
ValuesFreed(c) ==
    IF c \in Cleaned THEN Len(SettingsIn[c])
    ELSE IF c \in Current /\ at # "control" THEN j - 1 ELSE 0

NamesFreed(c) == IF c \in Current /\ at = "value" THEN j ELSE ValuesFreed(c)

MainFreed ==
    IF at = "main" THEN {MainOrder[k] : k \in 1 .. i - 1}
    ELSE IF at = "done" /\ given THEN Controllers ELSE {}

Times(happened) == IF happened THEN 1 ELSE 0

(* The loop variables stay in their arrays, and controller[] lists what is *)
(* limited, each once.                                                     *)
PlaceInv ==
    /\ given \in BOOLEAN /\ cloned \in BOOLEAN /\ flags \subseteq Controllers
    /\ i \in Nat /\ j \in Nat
    /\ controller \in Seq(Controllers)
    /\ \A k, m \in 1 .. Len(controller) : controller[k] = controller[m] => k = m
    /\ ~given => flags = {}
    /\ at \in {"setup", "apply", "main"} \cup Loop => given
    /\ at = "start" => controller = <<>> /\ i = 1
    /\ at = "setup" => /\ i \in 1 .. Len(Order) + 1
                       /\ Range(controller) = flags \cap {Order[k] : k \in 1 .. i - 1}
    /\ at \notin {"start", "setup"} => Range(controller) = flags
    /\ at \in {"apply", "clone", "release"} => i = 1
    /\ at \in Loop => i \in 1 .. Len(controller)
    /\ at \in {"name", "value"} => j \in 1 .. Len(SettingsIn[controller[i]])
    /\ at = "settings" => j = Len(SettingsIn[controller[i]]) + 1
    /\ at = "main" => i \in 1 .. Len(MainOrder) + 1
    /\ at \in {"main", "done"} => cloned
    /\ at = "failed" => ~cloned

FreesInv ==
    /\ \A c \in Controllers :
          /\ frees[Control(c)] = 0
          /\ frees[Name(c)] = Times(c \in Cleaned \/ (c \in Current /\ at # "control"))
          /\ frees[Pointers(c)] = Times(c \in Cleaned)
          /\ frees[Value(c)] = ValuesFreed(c) + Times(c \in MainFreed)
          /\ \A m \in 1 .. Len(SettingsIn[c]) :
                /\ frees[Setting(SettingsIn[c][m])] = 0
                /\ frees[SName(SettingsIn[c][m])] = Times(m <= NamesFreed(c))
    /\ frees[Array] = Times(given /\ at \in {"failed", "main", "done"})
    /\ frees[Args] = Times(given /\ at = "done")

(* A block that was allocated lives until its first free.                  *)
LiveInv ==
    /\ given => \A b \in ArgsBlocks : frees[b] = 0 => b \in live
    /\ \A c \in Range(controller), b \in Blocks :
          b \in ControlBlocks(c) /\ frees[b] = 0 => b \in live
    /\ given /\ at \notin {"start", "setup"} /\ frees[Array] = 0 => Array \in live

HeapInv ==
    /\ at \in Early \cup Loop \cup Late \cup {"aborted"}
    /\ frees \in [Blocks -> Nat]
    /\ IF at = "aborted" THEN Excused ELSE PlaceInv /\ FreesInv /\ LiveInv

-----------------------------------------------------------------------------
(* What the comments say and the code does not do.                         *)

(* main.c, before it frees cgroup_args and its values: "Now it's time to   *)
(* free them."  They have not been freed before.                           *)
ToBeFreed == at = "main" /\ i = 1 => ArgsBlocks \subseteq live

=============================================================================
