----------------------------- MODULE HeapProofs -----------------------------
(***************************************************************************)
(* The proofs about module Heap: what cleanup_controller() and main() have *)
(* freed is known at every free() from where the launcher stands           *)
(* (HeapInv), so that nothing is read after its free, and module Runc is   *)
(* right about when a block is freed twice.                                *)
(***************************************************************************)
EXTENDS Heap, TLAPS

(* The controllers and their settings, by name.                            *)
LEMMA ControllersAre == Controllers = {"memory", "cpu", "pids", "blkio"}
  BY DEF Controllers, Range, Order

(* Only the memory controller has two settings.                            *)
LEMMA SettingsAre ==
    /\ SettingsIn["memory"] = <<"limit", "kmem">> /\ Len(SettingsIn["memory"]) = 2
    /\ SettingsIn["cpu"] = <<"shares">> /\ Len(SettingsIn["cpu"]) = 1
    /\ SettingsIn["pids"] = <<"max">> /\ Len(SettingsIn["pids"]) = 1
    /\ SettingsIn["blkio"] = <<"weight">> /\ Len(SettingsIn["blkio"]) = 1
  BY DEF SettingsIn

LEMMA SettingsCount ==
    \A c \in Controllers :
        Len(SettingsIn[c]) \in 1 .. 2 /\ (Len(SettingsIn[c]) = 2 <=> c = "memory")
  BY ControllersAre, SettingsAre

(* No two settings share a name.                                           *)
LEMMA SettingsApart ==
    \A c, d \in Controllers :
        \A m \in 1 .. Len(SettingsIn[c]), n \in 1 .. Len(SettingsIn[d]) :
            SettingsIn[c][m] = SettingsIn[d][n] => c = d /\ m = n
  <1> SUFFICES ASSUME NEW c \in Controllers, NEW d \in Controllers,
                      NEW m \in 1 .. Len(SettingsIn[c]), NEW n \in 1 .. Len(SettingsIn[d]),
                      SettingsIn[c][m] = SettingsIn[d][n]
               PROVE  c = d /\ m = n
    OBVIOUS
  <1> DEFINE At(x) == CASE x = "limit" -> <<"memory", 1>> [] x = "kmem" -> <<"memory", 2>>
                        [] x = "shares" -> <<"cpu", 1>> [] x = "max" -> <<"pids", 1>>
                        [] x = "weight" -> <<"blkio", 1>>
  <1>1. \A e \in Controllers : \A k \in 1 .. Len(SettingsIn[e]) : At(SettingsIn[e][k]) = <<e, k>>
    BY ControllersAre, SettingsAre
  <1> QED  BY <1>1

(* Both orders list every controller once.                                 *)
LEMMA OrderIs ==
    /\ Len(Order) = 4
    /\ \A k \in 1 .. 4 : Order[k] \in Controllers
    /\ {Order[k] : k \in 1 .. 4} = Controllers
    /\ \A k, m \in 1 .. 4 : Order[k] = Order[m] => k = m
  BY ControllersAre DEF Order

LEMMA MainOrderIs ==
    /\ Len(MainOrder) = 4
    /\ \A k \in 1 .. 4 : MainOrder[k] \in Controllers
    /\ {MainOrder[k] : k \in 1 .. 4} = Controllers
    /\ \A k, m \in 1 .. 4 : MainOrder[k] = MainOrder[m] => k = m
  BY ControllersAre DEF MainOrder

LEMMA RangeIs ==
    ASSUME NEW S, NEW s \in Seq(S)
    PROVE  Range(s) = {s[k] : k \in 1 .. Len(s)}
  <1>1. DOMAIN s = 1 .. Len(s)
    OBVIOUS
  <1> QED  BY <1>1 DEF Range

(* What belongs to a controller, element by element.                       *)
LEMMA ControlBlocksAre ==
    ASSUME NEW c \in Controllers
    PROVE  \A b : b \in ControlBlocks(c) <=>
              \/ b \in {Control(c), Name(c), Pointers(c)}
              \/ \E m \in 1 .. Len(SettingsIn[c]) :
                    b \in {Setting(SettingsIn[c][m]), SName(SettingsIn[c][m])}
  <1>1. DOMAIN SettingsIn[c] = 1 .. Len(SettingsIn[c])
    BY ControllersAre, SettingsAre
  <1> QED  BY <1>1 DEF ControlBlocks, Range

LEMMA BlocksAre ==
    /\ Args \in Blocks /\ Array \in Blocks
    /\ ArgsBlocks \subseteq Blocks
    /\ \A c \in Controllers :
          /\ ControlBlocks(c) \subseteq Blocks
          /\ {Value(c), Control(c), Name(c), Pointers(c)} \subseteq Blocks
          /\ \A m \in 1 .. Len(SettingsIn[c]) :
                {Setting(SettingsIn[c][m]), SName(SettingsIn[c][m])} \subseteq Blocks
  <1>1. \A c \in Controllers : ControlBlocks(c) \subseteq Blocks
    BY DEF Blocks
  <1>2. \A c \in Controllers : {Value(c), Control(c), Name(c), Pointers(c)} \subseteq Blocks
    BY <1>1, ControlBlocksAre DEF Blocks, ArgsBlocks
  <1>3. \A c \in Controllers : \A m \in 1 .. Len(SettingsIn[c]) :
           {Setting(SettingsIn[c][m]), SName(SettingsIn[c][m])} \subseteq Blocks
    BY <1>1, ControlBlocksAre
  <1> QED  BY <1>1, <1>2, <1>3 DEF Blocks, ArgsBlocks

(* One free() and its block.                                               *)
LEMMA FreeEffect ==
    ASSUME NEW b \in Blocks, NEW to, frees \in [Blocks -> Nat], Free(b, to)
    PROVE  /\ frees' \in [Blocks -> Nat]
           /\ frees'[b] = frees[b] + 1
           /\ \A x \in Blocks : x # b => frees'[x] = frees[x]
           /\ at' = to \/ (at' = "aborted" /\ b \notin live)
           /\ given' = given /\ flags' = flags /\ cloned' = cloned /\ controller' = controller
  BY DEF Free

(* What has not been freed lives on.                                       *)
LEMMA FreeKeepsLive ==
    ASSUME NEW b \in Blocks, NEW to, frees \in [Blocks -> Nat], Free(b, to),
           controller \in Seq(Controllers), at \notin {"start", "setup"}, LiveInv
    PROVE  LiveInv'
  <1>1. \A x \in Blocks : frees'[x] = 0 => x # b /\ frees[x] = 0
    BY FreeEffect
  <1>2. live' = live \ {b} /\ given' = given /\ controller' = controller
    BY DEF Free
  <1>3. Range(controller) \subseteq Controllers
    BY DEF Range
  <1>4. \A x \in ArgsBlocks : x \in Blocks
    BY BlocksAre
  <1> QED  BY <1>1, <1>2, <1>3, <1>4, BlocksAre DEF LiveInv

(* The start: there is nothing, and nothing has been freed.                *)
LEMMA InitHeap == HeapInit => HeapInv
  <1> SUFFICES ASSUME HeapInit PROVE HeapInv
    OBVIOUS
  <1>1. PlaceInv
    <2>1. controller \in Seq(Controllers) /\ Len(controller) = 0
      BY DEF HeapInit
    <2>2. /\ at = "start" /\ given = FALSE /\ cloned = FALSE /\ flags \subseteq Controllers
          /\ flags = {} /\ controller = <<>> /\ i = 1 /\ j = 1
      BY DEF HeapInit
    <2>3. \A k, m \in 1 .. Len(controller) : controller[k] = controller[m] => k = m
      BY <2>1
    <2> QED  BY <2>1, <2>2, <2>3 DEF PlaceInv, Loop
  <1>2. FreesInv
    <2>1. \A b \in Blocks : frees[b] = 0
      BY DEF HeapInit
    <2>2. \A c \in Controllers :
             /\ frees[Control(c)] = 0 /\ frees[Name(c)] = 0 /\ frees[Pointers(c)] = 0
             /\ frees[Value(c)] = 0
             /\ \A m \in 1 .. Len(SettingsIn[c]) :
                   frees[Setting(SettingsIn[c][m])] = 0 /\ frees[SName(SettingsIn[c][m])] = 0
      BY <2>1, BlocksAre
    <2>3. at = "start" /\ given = FALSE /\ frees[Array] = 0 /\ frees[Args] = 0
      BY <2>1, BlocksAre DEF HeapInit
    <2> QED
      BY <2>2, <2>3 DEF FreesInv, Cleaned, Current, ValuesFreed, NamesFreed, MainFreed, Times,
         Early, Loop
  <1>3. LiveInv
    BY DEF HeapInit, LiveInv, Range
  <1> QED  BY <1>1, <1>2, <1>3 DEF HeapInit, HeapInv, Early

-----------------------------------------------------------------------------
(* Before the cleanup nothing is freed.                                    *)
LEMMA EarlyFrees ==
    ASSUME at \in Early, at' \in Early, frees' = frees, FreesInv
    PROVE  FreesInv'
  BY DEF FreesInv, Cleaned, Current, ValuesFreed, NamesFreed, MainFreed, Times, Early, Loop

LEMMA InitResourcesStep ==
    ASSUME HeapInv, InitResources
    PROVE  HeapInv'
  <1>1. at = "start" /\ at' \in {"clone", "setup"} /\ frees' = frees
    BY DEF InitResources
  <1>2. PlaceInv /\ FreesInv /\ LiveInv /\ frees \in [Blocks -> Nat]
    BY <1>1 DEF HeapInv
  <1>3. FreesInv'
    BY <1>1, <1>2, EarlyFrees DEF Early
  <1>4. controller = <<>> /\ controller' = <<>> /\ i' = i /\ j' = j /\ cloned' = cloned /\ i = 1
    BY <1>1, <1>2 DEF PlaceInv, InitResources
  <1>5. /\ at' = "setup" => given' = TRUE
        /\ at' = "clone" => given' = FALSE /\ flags' = {}
        /\ given' = FALSE => at' = "clone"
        /\ given' \in BOOLEAN /\ flags' \subseteq Controllers
    BY <1>1 DEF InitResources
  <1>6. Range(<<>>) = {}
    BY DEF Range
  <1>7. PlaceInv'
    BY <1>1, <1>2, <1>4, <1>5, <1>6, OrderIs DEF PlaceInv, Loop
  <1>8. LiveInv'
    BY <1>1, <1>4, <1>6 DEF LiveInv, InitResources
  <1> QED  BY <1>1, <1>2, <1>3, <1>7, <1>8 DEF HeapInv, Early

LEMMA SetupControllersStep ==
    ASSUME HeapInv, SetupControllers
    PROVE  HeapInv'
  <1>1. at = "setup" /\ at' \in {"setup", "apply"} /\ frees' = frees /\ given' = given
        /\ flags' = flags /\ cloned' = cloned /\ j' = j
    BY DEF SetupControllers
  <1>2. PlaceInv /\ FreesInv /\ LiveInv /\ frees \in [Blocks -> Nat]
    BY <1>1 DEF HeapInv
  <1>3. FreesInv'
    BY <1>1, <1>2, EarlyFrees DEF Early
  <1>4. /\ i \in 1 .. 5 /\ Range(controller) = flags \cap {Order[k] : k \in 1 .. i - 1}
        /\ controller \in Seq(Controllers) /\ given /\ flags \subseteq Controllers
        /\ \A k, m \in 1 .. Len(controller) : controller[k] = controller[m] => k = m
    BY <1>1, <1>2, OrderIs DEF PlaceInv
  <1>5. CASE i <= 4 /\ Order[i] \in flags
    <2>1. live' = live \cup ControlBlocks(Order[i]) /\ controller' = Append(controller, Order[i])
          /\ i' = i + 1 /\ at' = "setup"
      BY <1>1, <1>5, OrderIs DEF SetupControllers
    <2>2. Order[i] \in Controllers /\ Order[i] \notin Range(controller)
      BY <1>4, <1>5, OrderIs
    <2>3. /\ controller' \in Seq(Controllers) /\ Len(controller') = Len(controller) + 1
          /\ \A k \in 1 .. Len(controller) : controller'[k] = controller[k]
          /\ controller'[Len(controller) + 1] = Order[i]
      BY <1>4, <2>1, <2>2
    <2>4. \A k \in 1 .. Len(controller) : controller[k] \in Range(controller)
      BY <1>4 DEF Range
    <2>5. \A k, m \in 1 .. Len(controller') : controller'[k] = controller'[m] => k = m
      <3> SUFFICES ASSUME NEW k \in 1 .. Len(controller'), NEW m \in 1 .. Len(controller'),
                          controller'[k] = controller'[m]
                   PROVE  k = m
        OBVIOUS
      <3>1. Len(controller) \in Nat
        BY <1>4
      <3>2. /\ k \in 1 .. Len(controller) \/ k = Len(controller) + 1
            /\ m \in 1 .. Len(controller) \/ m = Len(controller) + 1
        BY <2>3, <3>1
      <3>3. ~(k \in 1 .. Len(controller) /\ m = Len(controller) + 1)
        BY <2>2, <2>3, <2>4
      <3>4. ~(m \in 1 .. Len(controller) /\ k = Len(controller) + 1)
        BY <2>2, <2>3, <2>4
      <3> QED  BY <1>4, <2>3, <3>2, <3>3, <3>4
    <2>6. Range(controller') = Range(controller) \cup {Order[i]}
      <3>1. 1 .. Len(controller') = 1 .. Len(controller) \cup {Len(controller) + 1}
        <4>1. Len(controller) \in Nat
          BY <1>4
        <4> QED  BY <2>3, <4>1
      <3>2. /\ Range(controller) = {controller[k] : k \in 1 .. Len(controller)}
            /\ Range(controller') = {controller'[k] : k \in 1 .. Len(controller')}
        BY <1>4, <2>3, RangeIs
      <3> QED  BY <2>3, <3>1, <3>2
    <2>7. Range(controller') = flags \cap {Order[k] : k \in 1 .. i}
      <3>1. {Order[k] : k \in 1 .. i} = {Order[k] : k \in 1 .. i - 1} \cup {Order[i]}
        BY <1>4
      <3> QED  BY <1>4, <1>5, <2>6, <3>1
    <2>8. PlaceInv'
      <3>1. i' \in 1 .. Len(Order) + 1 /\ i' - 1 = i
        BY <1>4, <1>5, <2>1, OrderIs
      <3> QED  BY <1>1, <1>2, <1>4, <2>1, <2>3, <2>5, <2>7, <3>1 DEF PlaceInv, Loop
    <2>9. LiveInv'
      BY <1>1, <1>2, <2>1, <2>6 DEF LiveInv
    <2> QED  BY <1>1, <1>2, <1>3, <2>1, <2>8, <2>9 DEF HeapInv, Early
  <1>6. CASE i <= 4 /\ Order[i] \notin flags
    <2>1. live' = live /\ controller' = controller /\ i' = i + 1 /\ at' = "setup"
      BY <1>1, <1>6, OrderIs DEF SetupControllers
    <2>2. flags \cap {Order[k] : k \in 1 .. i} = flags \cap {Order[k] : k \in 1 .. i - 1}
      BY <1>4, <1>6
    <2>3. PlaceInv'
      <3>1. i' \in 1 .. Len(Order) + 1 /\ i' - 1 = i
        BY <1>4, <1>6, <2>1, OrderIs
      <3> QED  BY <1>1, <1>2, <1>4, <2>1, <2>2, <3>1 DEF PlaceInv, Loop
    <2>4. LiveInv'
      BY <1>1, <1>2, <2>1 DEF LiveInv
    <2> QED  BY <1>1, <1>2, <1>3, <2>1, <2>3, <2>4 DEF HeapInv, Early
  <1>7. CASE i > 4
    <2>1. live' = live \cup {Array} /\ controller' = controller /\ i' = 1 /\ at' = "apply"
      BY <1>1, <1>4, <1>7, OrderIs DEF SetupControllers
    <2>2. Range(controller) = flags
      <3>1. i - 1 = 4
        BY <1>4, <1>7
      <3> QED  BY <1>4, <3>1, OrderIs
    <2>3. PlaceInv'
      BY <1>1, <1>2, <1>4, <2>1, <2>2 DEF PlaceInv, Loop
    <2>4. LiveInv'
      BY <1>1, <1>2, <2>1 DEF LiveInv
    <2> QED  BY <1>1, <1>2, <1>3, <2>1, <2>3, <2>4 DEF HeapInv, Early
  <1> QED  BY <1>4, <1>5, <1>6, <1>7

LEMMA ApplyStep ==
    ASSUME HeapInv, Apply
    PROVE  HeapInv'
  <1>1. at = "apply" /\ at' = "clone" /\ UNCHANGED <<given, flags, cloned, i, j, controller, live, frees>>
    BY DEF Apply
  <1>2. PlaceInv /\ FreesInv /\ LiveInv /\ frees \in [Blocks -> Nat]
    BY <1>1 DEF HeapInv
  <1>3. PlaceInv' /\ LiveInv'
    BY <1>1, <1>2 DEF PlaceInv, LiveInv, Loop
  <1> QED  BY <1>1, <1>2, <1>3, EarlyFrees DEF HeapInv, Early

LEMMA CloneStep ==
    ASSUME HeapInv, Clone
    PROVE  HeapInv'
  <1>1. at = "clone" /\ at' = "release" /\ UNCHANGED <<given, flags, i, j, controller, live, frees>>
        /\ cloned' \in BOOLEAN
    BY DEF Clone
  <1>2. PlaceInv /\ FreesInv /\ LiveInv /\ frees \in [Blocks -> Nat]
    BY <1>1 DEF HeapInv
  <1>3. PlaceInv' /\ LiveInv'
    BY <1>1, <1>2 DEF PlaceInv, LiveInv, Loop
  <1> QED  BY <1>1, <1>2, <1>3, EarlyFrees DEF HeapInv, Early

(* The cleanup begins with everything still to free.                       *)
LEMMA ReleaseStep ==
    ASSUME HeapInv, Release
    PROVE  HeapInv'
  <1>1. at = "release" /\ UNCHANGED <<given, flags, cloned, i, j, controller, live, frees>>
        /\ at' = IF controller = <<>> THEN "array" ELSE "control"
    BY DEF Release
  <1>2. PlaceInv /\ FreesInv /\ LiveInv /\ frees \in [Blocks -> Nat]
    BY <1>1 DEF HeapInv
  <1>3. controller \in Seq(Controllers) /\ Range(controller) = flags /\ i = 1
    BY <1>1, <1>2 DEF PlaceInv
  <1>4. controller = <<>> => flags = {}
    BY <1>3 DEF Range
  <1>5. controller # <<>> => Len(controller) > 0 /\ flags # {}
    <2>1. controller # <<>> => Len(controller) > 0
      BY <1>3
    <2>2. Len(controller) > 0 => controller[1] \in Range(controller)
      BY <1>3, RangeIs
    <2> QED  BY <1>3, <2>1, <2>2
  <1>6. PlaceInv'
    BY <1>1, <1>2, <1>3, <1>5 DEF PlaceInv, Loop
  <1>7. FreesInv'
    BY <1>1, <1>2, <1>3, <1>4
       DEF FreesInv, Cleaned, Current, ValuesFreed, NamesFreed, MainFreed, Times, Early, Loop
  <1>8. LiveInv'
    BY <1>1, <1>2 DEF LiveInv
  <1> QED  BY <1>1, <1>2, <1>6, <1>7, <1>8 DEF HeapInv, Early, Loop, Late

-----------------------------------------------------------------------------
(* In the loops of cleanup_controller(): the controller at hand is limited *)
(* and has not been cleaned before.                                        *)
LEMMA InLoop ==
    ASSUME HeapInv, at \in Loop
    PROVE  /\ PlaceInv /\ FreesInv /\ LiveInv /\ frees \in [Blocks -> Nat]
           /\ given /\ i \in 1 .. Len(controller) /\ Len(controller) \in Nat
           /\ Range(controller) = flags /\ controller \in Seq(Controllers)
           /\ controller[i] \in flags /\ controller[i] \in Controllers
           /\ controller[i] \notin Cleaned /\ Current = {controller[i]} /\ MainFreed = {}
           /\ Cleaned = {controller[k] : k \in 1 .. i - 1}
           /\ Len(SettingsIn[controller[i]]) \in 1 .. 2
  <1>1. PlaceInv /\ FreesInv /\ LiveInv /\ frees \in [Blocks -> Nat]
    BY DEF HeapInv, Loop
  <1>2. /\ given /\ i \in 1 .. Len(controller) /\ Range(controller) = flags
        /\ controller \in Seq(Controllers)
        /\ \A k, m \in 1 .. Len(controller) : controller[k] = controller[m] => k = m
    BY <1>1 DEF PlaceInv, Loop
  <1>3. controller[i] \in flags /\ controller[i] \in Controllers /\ Len(controller) \in Nat
    BY <1>2, RangeIs
  <1>4. /\ Cleaned = {controller[k] : k \in 1 .. i - 1}
        /\ Current = {controller[i]} /\ MainFreed = {}
    BY DEF Cleaned, Current, MainFreed, Loop, Early
  <1>5. controller[i] \notin Cleaned
    BY <1>2, <1>3, <1>4
  <1> QED  BY <1>1, <1>2, <1>3, <1>4, <1>5, SettingsCount

(* A step inside the body of the loop stays where it is.                   *)
LEMMA LoopStays ==
    ASSUME HeapInv, at \in Loop, at' \in {"name", "value", "settings"}, i' = i, j' \in Nat,
           at' \in {"name", "value"} => j' \in 1 .. Len(SettingsIn[controller[i]]),
           at' = "settings" => j' = Len(SettingsIn[controller[i]]) + 1,
           UNCHANGED <<given, flags, cloned, controller>>
    PROVE  PlaceInv' /\ Cleaned' = Cleaned /\ Current' = Current /\ MainFreed' = {}
  <1>1. PlaceInv
    BY InLoop
  <1>2. PlaceInv'
    BY <1>1 DEF PlaceInv, Loop
  <1>3. Cleaned' = Cleaned /\ Current' = Current /\ MainFreed' = {}
    BY DEF Cleaned, Current, MainFreed, Loop, Early
  <1> QED  BY <1>2, <1>3

(* The blocks of a controller that are not freed yet can be freed.         *)
LEMMA StillLive ==
    ASSUME LiveInv, controller \in Seq(Controllers), Range(controller) = flags, given,
           NEW c \in flags, NEW b \in Blocks, b \in ControlBlocks(c) \/ b = Value(c),
           c \in Controllers, frees[b] = 0
    PROVE  b \in live
  BY DEF LiveInv, ArgsBlocks

(* What is not empty has a first element.                                  *)
LEMMA FirstOfSome == \A n \in 1 .. 2 : 1 \in Nat /\ 1 \in 1 .. n
  OBVIOUS

LEMMA FreeControlStep ==
    ASSUME HeapInv, FreeControl
    PROVE  HeapInv'
  <1> DEFINE c == controller[i]
  <1>1. at = "control" /\ at \in Loop /\ i' = i /\ j' = 1 /\ Free(Name(c), "name")
    BY DEF FreeControl, Loop
  <1>2. Name(c) \in Blocks /\ Name(c) \in ControlBlocks(c) /\ frees[Name(c)] = 0
    <2>1. frees[Name(c)] = Times(c \in Cleaned \/ (c \in Current /\ at # "control"))
      BY <1>1, InLoop DEF FreesInv
    <2> QED  BY <1>1, <2>1, InLoop, BlocksAre, ControlBlocksAre DEF Times
  <1>3. Name(c) \in live
    BY <1>1, <1>2, InLoop, StillLive
  <1>4. /\ frees' \in [Blocks -> Nat] /\ frees'[Name(c)] = 1
        /\ \A x \in Blocks : x # Name(c) => frees'[x] = frees[x]
        /\ at' = "name" /\ UNCHANGED <<given, flags, cloned, controller>>
    <2>1. frees \in [Blocks -> Nat]
      BY <1>1, InLoop
    <2> HIDE DEF c
    <2> QED  BY <1>1, <1>2, <1>3, <2>1, FreeEffect
  <1>5. PlaceInv' /\ Cleaned' = Cleaned /\ Current' = Current /\ MainFreed' = {}
    <2>1. Len(SettingsIn[controller[i]]) \in 1 .. 2
      BY <1>1, InLoop
    <2>2. 1 \in Nat /\ 1 \in 1 .. Len(SettingsIn[controller[i]])
      BY <2>1, FirstOfSome
    <2>3. j' = 1
      BY <1>1
    <2>4. j' \in Nat /\ j' \in 1 .. Len(SettingsIn[controller[i]])
      BY <2>2, <2>3
    <2> QED  BY <1>1, <1>4, <2>4, LoopStays
  <1>6. \A d \in Controllers : /\ ValuesFreed(d)' = ValuesFreed(d)
                               /\ NamesFreed(d)' = NamesFreed(d)
    BY <1>1, <1>4, <1>5 DEF ValuesFreed, NamesFreed
  <1>7. FreesInv'
    <2>1. ASSUME NEW d \in Controllers
          PROVE  /\ frees'[Control(d)] = 0
                 /\ frees'[Name(d)] = Times(d \in Cleaned' \/ (d \in Current' /\ at' # "control"))
                 /\ frees'[Pointers(d)] = Times(d \in Cleaned')
                 /\ frees'[Value(d)] = ValuesFreed(d)' + Times(d \in MainFreed')
                 /\ \A m \in 1 .. Len(SettingsIn[d]) :
                       /\ frees'[Setting(SettingsIn[d][m])] = 0
                       /\ frees'[SName(SettingsIn[d][m])] = Times(m <= NamesFreed(d)')
      <3>1. /\ frees[Control(d)] = 0
            /\ frees[Name(d)] = Times(d \in Cleaned \/ (d \in Current /\ at # "control"))
            /\ frees[Pointers(d)] = Times(d \in Cleaned)
            /\ frees[Value(d)] = ValuesFreed(d) + Times(d \in MainFreed)
            /\ \A m \in 1 .. Len(SettingsIn[d]) :
                  /\ frees[Setting(SettingsIn[d][m])] = 0
                  /\ frees[SName(SettingsIn[d][m])] = Times(m <= NamesFreed(d))
        BY <1>1, InLoop DEF FreesInv
      <3>2. /\ frees'[Control(d)] = 0 /\ frees'[Pointers(d)] = frees[Pointers(d)]
            /\ frees'[Value(d)] = frees[Value(d)]
            /\ \A m \in 1 .. Len(SettingsIn[d]) :
                  /\ frees'[Setting(SettingsIn[d][m])] = 0
                  /\ frees'[SName(SettingsIn[d][m])] = frees[SName(SettingsIn[d][m])]
        BY <1>4, <3>1, BlocksAre DEF Control, Name, Pointers, Value, Setting, SName
      <3>3. frees'[Name(d)] = Times(d \in Cleaned' \/ (d \in Current' /\ at' # "control"))
        <4>1. CASE d = c
          BY <1>1, <1>4, <1>5, <4>1, InLoop DEF Times
        <4>2. CASE d # c
          <5>1. Name(d) # Name(c)
            BY <4>2 DEF Name
          <5> QED  BY <1>1, <1>4, <1>5, <3>1, <4>2, <5>1, InLoop, BlocksAre DEF Times
        <4> QED  BY <4>1, <4>2
      <3> QED  BY <1>1, <1>5, <1>6, <3>1, <3>2, <3>3, InLoop
    <2>2. frees'[Array] = frees[Array] /\ frees'[Args] = frees[Args]
      BY <1>4, BlocksAre DEF Array, Args, Name
    <2> QED  BY <1>1, <1>4, <2>1, <2>2, InLoop DEF FreesInv
  <1>8. LiveInv'
    BY <1>1, <1>2, InLoop, FreeKeepsLive
  <1> QED  BY <1>4, <1>5, <1>7, <1>8 DEF HeapInv, Loop

(* free(controller[i]->settings[j]->name)                                  *)
LEMMA FreeNameStep ==
    ASSUME HeapInv, FreeName
    PROVE  HeapInv'
  <1> DEFINE c == controller[i]
             s == SettingsIn[c][j]
  <1>1. at = "name" /\ at \in Loop /\ i' = i /\ j' = j /\ Free(SName(s), "value")
    BY DEF FreeName, Loop
  <1>2. j \in 1 .. Len(SettingsIn[c]) /\ c \in Controllers /\ c \notin Cleaned /\ c \in Current
    BY <1>1, InLoop DEF PlaceInv
  <1>3. SName(s) \in Blocks /\ SName(s) \in ControlBlocks(c) /\ frees[SName(s)] = 0
    <2>1. NamesFreed(c) = j - 1
      BY <1>1, <1>2 DEF NamesFreed, ValuesFreed
    <2>2. frees[SName(s)] = Times(j <= NamesFreed(c))
      BY <1>1, <1>2, InLoop DEF FreesInv
    <2> QED  BY <1>2, <2>1, <2>2, BlocksAre, ControlBlocksAre DEF Times
  <1>4. SName(s) \in live
    BY <1>1, <1>3, InLoop, StillLive
  <1>5. /\ frees' \in [Blocks -> Nat] /\ frees'[SName(s)] = 1
        /\ \A x \in Blocks : x # SName(s) => frees'[x] = frees[x]
        /\ at' = "value" /\ UNCHANGED <<given, flags, cloned, controller>>
    <2>1. frees \in [Blocks -> Nat]
      BY <1>1, InLoop
    <2> HIDE DEF s
    <2> QED  BY <1>1, <1>3, <1>4, <2>1, FreeEffect
  <1>6. PlaceInv' /\ Cleaned' = Cleaned /\ Current' = Current /\ MainFreed' = {}
    <2>1. j' \in Nat /\ j' \in 1 .. Len(SettingsIn[controller[i]])
      BY <1>1, <1>2
    <2> QED  BY <1>1, <1>5, <2>1, LoopStays
  <1>7. \A d \in Controllers :
           /\ ValuesFreed(d)' = ValuesFreed(d)
           /\ d # c => NamesFreed(d)' = NamesFreed(d)
    BY <1>1, <1>5, <1>6, InLoop DEF ValuesFreed, NamesFreed
  <1>8. \A d \in Controllers : d = c => NamesFreed(d) = j - 1 /\ NamesFreed(d)' = j
    BY <1>1, <1>2, <1>5, <1>6 DEF ValuesFreed, NamesFreed
  <1>9. FreesInv'
    <2>1. ASSUME NEW d \in Controllers
          PROVE  /\ frees'[Control(d)] = 0
                 /\ frees'[Name(d)] = Times(d \in Cleaned' \/ (d \in Current' /\ at' # "control"))
                 /\ frees'[Pointers(d)] = Times(d \in Cleaned')
                 /\ frees'[Value(d)] = ValuesFreed(d)' + Times(d \in MainFreed')
                 /\ \A m \in 1 .. Len(SettingsIn[d]) :
                       /\ frees'[Setting(SettingsIn[d][m])] = 0
                       /\ frees'[SName(SettingsIn[d][m])] = Times(m <= NamesFreed(d)')
      <3>1. /\ frees[Control(d)] = 0
            /\ frees[Name(d)] = Times(d \in Cleaned \/ (d \in Current /\ at # "control"))
            /\ frees[Pointers(d)] = Times(d \in Cleaned)
            /\ frees[Value(d)] = ValuesFreed(d) + Times(d \in MainFreed)
            /\ \A m \in 1 .. Len(SettingsIn[d]) :
                  /\ frees[Setting(SettingsIn[d][m])] = 0
                  /\ frees[SName(SettingsIn[d][m])] = Times(m <= NamesFreed(d))
        BY <1>1, InLoop DEF FreesInv
      <3>2. /\ frees'[Control(d)] = 0 /\ frees'[Pointers(d)] = frees[Pointers(d)]
            /\ frees'[Value(d)] = frees[Value(d)] /\ frees'[Name(d)] = frees[Name(d)]
            /\ \A m \in 1 .. Len(SettingsIn[d]) : frees'[Setting(SettingsIn[d][m])] = 0
        BY <1>5, <3>1, BlocksAre DEF Control, Name, Pointers, Value, Setting, SName
      <3>3. ASSUME NEW m \in 1 .. Len(SettingsIn[d])
            PROVE  frees'[SName(SettingsIn[d][m])] = Times(m <= NamesFreed(d)')
        <4>1. CASE d = c /\ m = j
          <5>1. m <= NamesFreed(d)' /\ SettingsIn[d][m] = s
            BY <1>2, <1>8, <4>1
          <5> QED  BY <1>5, <5>1 DEF Times
        <4>2. CASE ~(d = c /\ m = j)
          <5>1. SettingsIn[d][m] # s
            BY <1>2, <4>2, SettingsApart
          <5>2. SName(SettingsIn[d][m]) # SName(s)
            BY <5>1 DEF SName
          <5>3. frees'[SName(SettingsIn[d][m])] = Times(m <= NamesFreed(d))
            BY <1>5, <3>1, <5>2, BlocksAre
          <5>4. m <= NamesFreed(d) <=> m <= NamesFreed(d)'
            BY <1>2, <1>7, <1>8, <4>2
          <5> QED  BY <5>3, <5>4 DEF Times
        <4> QED  BY <4>1, <4>2
      <3>4. MainFreed = {} /\ at # "control" /\ at' # "control"
        BY <1>1, <1>5, InLoop
      <3> QED  BY <1>6, <1>7, <3>1, <3>2, <3>3, <3>4
    <2>2. frees'[Array] = frees[Array] /\ frees'[Args] = frees[Args]
      BY <1>5, BlocksAre DEF Array, Args, SName
    <2> QED  BY <1>1, <1>5, <2>1, <2>2, InLoop DEF FreesInv
  <1>10. LiveInv'
    BY <1>1, <1>3, InLoop, FreeKeepsLive
  <1> QED  BY <1>5, <1>6, <1>9, <1>10 DEF HeapInv, Loop

(* free(controller[i]->settings[j]->value): the second time for the memory *)
(* limit, where the launcher may be aborted.                               *)
LEMMA FreeValueStep ==
    ASSUME HeapInv, FreeValue
    PROVE  HeapInv'
  <1> DEFINE c == controller[i]
             to == IF j < Len(SettingsIn[c]) THEN "name" ELSE "settings"
  <1>1. at = "value" /\ at \in Loop /\ i' = i /\ j' = j + 1 /\ Free(Value(c), to)
    BY DEF FreeValue, Loop
  <1>2. /\ j \in 1 .. Len(SettingsIn[c]) /\ c \in Controllers /\ c \notin Cleaned
        /\ c \in Current /\ c \in flags /\ Len(SettingsIn[c]) \in 1 .. 2
    BY <1>1, InLoop DEF PlaceInv
  <1>3. Value(c) \in Blocks /\ frees[Value(c)] = j - 1
    <2>1. ValuesFreed(c) = j - 1
      BY <1>1, <1>2 DEF ValuesFreed
    <2>2. frees[Value(c)] = ValuesFreed(c) + 0
      BY <1>1, <1>2, InLoop DEF FreesInv, Times
    <2> QED  BY <1>2, <2>1, <2>2, BlocksAre
  <1>4. /\ frees' \in [Blocks -> Nat] /\ frees'[Value(c)] = j
        /\ \A x \in Blocks : x # Value(c) => frees'[x] = frees[x]
        /\ at' = to \/ (at' = "aborted" /\ Value(c) \notin live)
        /\ UNCHANGED <<given, flags, cloned, controller>>
    <2>1. frees \in [Blocks -> Nat]
      BY <1>1, InLoop
    <2>2. j - 1 + 1 = j
      BY <1>2
    <2> HIDE DEF c, to
    <2> QED  BY <1>1, <1>3, <2>1, <2>2, FreeEffect
  <1>5. CASE at' = "aborted" /\ Value(c) \notin live
    <2>1. frees[Value(c)] # 0
      BY <1>1, <1>2, <1>3, <1>5, InLoop, StillLive
    <2>2. Len(SettingsIn[c]) = 2
      <3> DEFINE n == Len(SettingsIn[c])
      <3>1. j # 1 /\ j \in 1 .. n /\ n \in 1 .. 2
        BY <1>2, <1>3, <2>1
      <3>2. n = 2
        <4> HIDE DEF n
        <4> QED  BY <3>1
      <3> QED  BY <3>2
    <2>3. Excused'
      BY <1>2, <1>4, <2>2, SettingsCount DEF Excused
    <2> QED  BY <1>4, <1>5, <2>3 DEF HeapInv
  <1>6. CASE at' = to
    <2>1. PlaceInv' /\ Cleaned' = Cleaned /\ Current' = Current /\ MainFreed' = {}
      <3>1. /\ at' \in {"name", "settings"} /\ j' \in Nat
            /\ at' = "name" => j' \in 1 .. Len(SettingsIn[c])
            /\ at' = "settings" => j' = Len(SettingsIn[c]) + 1
        BY <1>1, <1>2, <1>6
      <3> QED  BY <1>1, <1>4, <3>1, LoopStays
    <2>2. at' # "value" /\ at' # "control"
      BY <1>6
    <2>3. \A d \in Controllers : d # c => /\ ValuesFreed(d)' = ValuesFreed(d)
                                          /\ NamesFreed(d)' = NamesFreed(d)
      BY <1>1, <2>1, InLoop DEF ValuesFreed, NamesFreed
    <2>4. \A d \in Controllers :
             d = c => NamesFreed(d) = j /\ ValuesFreed(d)' = j /\ NamesFreed(d)' = j
      <3>1. ASSUME NEW d \in Controllers, d = c
            PROVE  d \notin Cleaned' /\ d \in Current' /\ d \in Current /\ d \notin Cleaned
        BY <1>2, <2>1, <3>1
      <3>2. j' - 1 = j
        BY <1>1, <1>2
      <3> QED  BY <1>1, <2>2, <3>1, <3>2 DEF ValuesFreed, NamesFreed
    <2>5. FreesInv'
      <3>1. ASSUME NEW d \in Controllers
            PROVE  /\ frees'[Control(d)] = 0
                   /\ frees'[Name(d)] = Times(d \in Cleaned' \/ (d \in Current' /\ at' # "control"))
                   /\ frees'[Pointers(d)] = Times(d \in Cleaned')
                   /\ frees'[Value(d)] = ValuesFreed(d)' + Times(d \in MainFreed')
                   /\ \A m \in 1 .. Len(SettingsIn[d]) :
                         /\ frees'[Setting(SettingsIn[d][m])] = 0
                         /\ frees'[SName(SettingsIn[d][m])] = Times(m <= NamesFreed(d)')
        <4>1. /\ frees[Control(d)] = 0
              /\ frees[Name(d)] = Times(d \in Cleaned \/ (d \in Current /\ at # "control"))
              /\ frees[Pointers(d)] = Times(d \in Cleaned)
              /\ frees[Value(d)] = ValuesFreed(d) + Times(d \in MainFreed)
              /\ \A m \in 1 .. Len(SettingsIn[d]) :
                    /\ frees[Setting(SettingsIn[d][m])] = 0
                    /\ frees[SName(SettingsIn[d][m])] = Times(m <= NamesFreed(d))
          BY <1>1, InLoop DEF FreesInv
        <4>2. /\ frees'[Control(d)] = 0 /\ frees'[Pointers(d)] = frees[Pointers(d)]
              /\ frees'[Name(d)] = frees[Name(d)]
              /\ \A m \in 1 .. Len(SettingsIn[d]) :
                    /\ frees'[Setting(SettingsIn[d][m])] = 0
                    /\ frees'[SName(SettingsIn[d][m])] = frees[SName(SettingsIn[d][m])]
          BY <1>4, <4>1, BlocksAre DEF Control, Name, Pointers, Value, Setting, SName
        <4>3. frees'[Value(d)] = ValuesFreed(d)' + Times(d \in MainFreed')
          <5>1. CASE d = c
            <6>1. ValuesFreed(d)' = j /\ frees'[Value(d)] = j /\ MainFreed' = {}
              BY <1>4, <2>1, <2>4, <5>1
            <6> QED  BY <1>2, <6>1 DEF Times
          <5>2. CASE d # c
            <6>1. Value(d) # Value(c)
              BY <5>2 DEF Value
            <6> QED  BY <1>1, <1>4, <2>1, <2>3, <4>1, <5>2, <6>1, InLoop, BlocksAre
          <5> QED  BY <5>1, <5>2
        <4>4. NamesFreed(d)' = NamesFreed(d)
          BY <2>3, <2>4
        <4>5. at # "control" /\ at' # "control"
          BY <1>1, <2>2
        <4> QED  BY <2>1, <4>1, <4>2, <4>3, <4>4, <4>5
      <3>2. frees'[Array] = frees[Array] /\ frees'[Args] = frees[Args]
        BY <1>4, BlocksAre DEF Array, Args, Value
      <3> QED  BY <1>1, <1>4, <1>6, <3>1, <3>2, InLoop DEF FreesInv
    <2>6. LiveInv'
      BY <1>1, <1>3, InLoop, FreeKeepsLive
    <2> QED  BY <1>4, <1>6, <2>1, <2>5, <2>6 DEF HeapInv, Loop
  <1> QED  BY <1>4, <1>5, <1>6

(* free(controller[i]->settings), and on to the next controller.           *)
LEMMA FreeSettingsStep ==
    ASSUME HeapInv, FreeSettings
    PROVE  HeapInv'
  <1> DEFINE c == controller[i]
             to == IF i < Len(controller) THEN "control" ELSE "array"
  <1>1. at = "settings" /\ at \in Loop /\ i' = i + 1 /\ j' = j /\ Free(Pointers(c), to)
    BY DEF FreeSettings, Loop
  <1>2. /\ j = Len(SettingsIn[c]) + 1 /\ Len(SettingsIn[c]) \in 1 .. 2 /\ c \in Controllers
        /\ c \notin Cleaned /\ Current = {c} /\ c \in flags
        /\ i \in 1 .. Len(controller) /\ Len(controller) \in Nat
    BY <1>1, InLoop DEF PlaceInv
  <1>3. Pointers(c) \in Blocks /\ Pointers(c) \in ControlBlocks(c) /\ frees[Pointers(c)] = 0
    <2>1. frees[Pointers(c)] = Times(c \in Cleaned)
      BY <1>1, <1>2, InLoop DEF FreesInv
    <2> QED  BY <1>2, <2>1, BlocksAre, ControlBlocksAre DEF Times
  <1>4. Pointers(c) \in live
    BY <1>1, <1>3, InLoop, StillLive
  <1>5. /\ frees' \in [Blocks -> Nat] /\ frees'[Pointers(c)] = 1
        /\ \A x \in Blocks : x # Pointers(c) => frees'[x] = frees[x]
        /\ at' = to /\ UNCHANGED <<given, flags, cloned, controller>>
    <2>1. frees \in [Blocks -> Nat]
      BY <1>1, InLoop
    <2> HIDE DEF c, to
    <2> QED  BY <1>1, <1>3, <1>4, <2>1, FreeEffect
  <1>6. at' \in {"control", "array"} /\ MainFreed' = {}
    BY <1>5 DEF MainFreed
  <1>7. PlaceInv'
    <2>1. at' = "control" => i' \in 1 .. Len(controller)
      BY <1>1, <1>2, <1>5
    <2>2. PlaceInv /\ j \in Nat /\ i' \in Nat
      BY <1>1, <1>2, InLoop
    <2> QED  BY <1>1, <1>5, <1>6, <2>1, <2>2, InLoop DEF PlaceInv, Loop
  <1>8. Cleaned' = Cleaned \cup {c}
    <2>1. Cleaned = {controller[k] : k \in 1 .. i - 1}
      BY <1>1, InLoop
    <2>2. 1 .. i = (1 .. i - 1) \cup {i}
      BY <1>2
    <2>3. {controller[k] : k \in 1 .. i} = Cleaned \cup {c}
      BY <2>1, <2>2
    <2>4. CASE at' = "control"
      <3>1. Cleaned' = {controller[k] : k \in 1 .. i' - 1}
        BY <1>5, <2>4 DEF Cleaned, Loop, Early
      <3>2. i' - 1 = i
        BY <1>1, <1>2
      <3> QED  BY <2>3, <3>1, <3>2
    <2>5. CASE at' = "array"
      <3>1. i = Len(controller)
        BY <1>2, <1>5, <2>5
      <3>2. Cleaned' = flags
        BY <1>5, <2>5 DEF Cleaned, Loop, Early
      <3>3. flags = {controller[k] : k \in 1 .. Len(controller)}
        BY <1>1, InLoop, RangeIs
      <3> QED  BY <2>3, <3>1, <3>2, <3>3
    <2> QED  BY <1>6, <2>4, <2>5
  <1>9. \A d \in Controllers : /\ ValuesFreed(d)' = ValuesFreed(d)
                               /\ NamesFreed(d)' = NamesFreed(d)
    <2> SUFFICES ASSUME NEW d \in Controllers
                 PROVE  ValuesFreed(d)' = ValuesFreed(d) /\ NamesFreed(d)' = NamesFreed(d)
      OBVIOUS
    <2>1. NamesFreed(d) = ValuesFreed(d) /\ NamesFreed(d)' = ValuesFreed(d)'
      BY <1>1, <1>6 DEF NamesFreed
    <2>2. d \notin Cleaned' => ValuesFreed(d)' = 0
      BY <1>6 DEF ValuesFreed, Current, Loop
    <2>3. d \in Cleaned' => ValuesFreed(d)' = Len(SettingsIn[d])
      BY DEF ValuesFreed
    <2>4. d = c => ValuesFreed(d) = Len(SettingsIn[d])
      BY <1>1, <1>2 DEF ValuesFreed
    <2>5. d # c => ValuesFreed(d) = IF d \in Cleaned THEN Len(SettingsIn[d]) ELSE 0
      BY <1>2 DEF ValuesFreed
    <2> QED  BY <1>8, <2>1, <2>2, <2>3, <2>4, <2>5
  <1>10. FreesInv'
    <2>1. ASSUME NEW d \in Controllers
          PROVE  /\ frees'[Control(d)] = 0
                 /\ frees'[Name(d)] = Times(d \in Cleaned' \/ (d \in Current' /\ at' # "control"))
                 /\ frees'[Pointers(d)] = Times(d \in Cleaned')
                 /\ frees'[Value(d)] = ValuesFreed(d)' + Times(d \in MainFreed')
                 /\ \A m \in 1 .. Len(SettingsIn[d]) :
                       /\ frees'[Setting(SettingsIn[d][m])] = 0
                       /\ frees'[SName(SettingsIn[d][m])] = Times(m <= NamesFreed(d)')
      <3>1. /\ frees[Control(d)] = 0
            /\ frees[Name(d)] = Times(d \in Cleaned \/ (d \in Current /\ at # "control"))
            /\ frees[Pointers(d)] = Times(d \in Cleaned)
            /\ frees[Value(d)] = ValuesFreed(d) + Times(d \in MainFreed)
            /\ \A m \in 1 .. Len(SettingsIn[d]) :
                  /\ frees[Setting(SettingsIn[d][m])] = 0
                  /\ frees[SName(SettingsIn[d][m])] = Times(m <= NamesFreed(d))
        BY <1>1, InLoop DEF FreesInv
      <3>2. /\ frees'[Control(d)] = 0 /\ frees'[Name(d)] = frees[Name(d)]
            /\ frees'[Value(d)] = frees[Value(d)]
            /\ \A m \in 1 .. Len(SettingsIn[d]) :
                  /\ frees'[Setting(SettingsIn[d][m])] = 0
                  /\ frees'[SName(SettingsIn[d][m])] = frees[SName(SettingsIn[d][m])]
        BY <1>5, <3>1, BlocksAre DEF Control, Name, Pointers, Value, Setting, SName
      <3>3. frees'[Pointers(d)] = Times(d \in Cleaned')
        <4>1. CASE d = c
          BY <1>5, <1>8, <4>1 DEF Times
        <4>2. CASE d # c
          <5>1. Pointers(d) # Pointers(c)
            BY <4>2 DEF Pointers
          <5>2. frees'[Pointers(d)] = Times(d \in Cleaned)
            BY <1>5, <3>1, <5>1, BlocksAre
          <5> QED  BY <1>8, <4>2, <5>2
        <4> QED  BY <4>1, <4>2
      <3>4. frees'[Name(d)] = Times(d \in Cleaned' \/ (d \in Current' /\ at' # "control"))
        <4>1. ~(d \in Current' /\ at' # "control")
          BY <1>6 DEF Current, Loop
        <4>2. d \in Current /\ at # "control" <=> d = c
          BY <1>1, <1>2
        <4> QED  BY <1>8, <3>1, <3>2, <4>1, <4>2 DEF Times
      <3>5. MainFreed = {}
        BY <1>1, InLoop
      <3> QED  BY <1>6, <1>9, <3>1, <3>2, <3>3, <3>4, <3>5
    <2>2. frees'[Array] = frees[Array] /\ frees'[Args] = frees[Args]
      BY <1>5, BlocksAre DEF Array, Args, Pointers
    <2> QED  BY <1>1, <1>5, <1>6, <2>1, <2>2, InLoop DEF FreesInv
  <1>11. LiveInv'
    BY <1>1, <1>3, InLoop, FreeKeepsLive
  <1> QED  BY <1>5, <1>6, <1>7, <1>10, <1>11 DEF HeapInv, Loop, Late

-----------------------------------------------------------------------------
(* free(controller), and what is left of the launcher.                     *)
LEMMA FreeArrayStep ==
    ASSUME HeapInv, FreeArray
    PROVE  HeapInv'
  <1> DEFINE to == IF ~cloned THEN "failed" ELSE IF given THEN "main" ELSE "done"
  <1>1. at = "array" /\ i' = 1 /\ j' = j
    BY DEF FreeArray
  <1>2. PlaceInv /\ FreesInv /\ LiveInv /\ frees \in [Blocks -> Nat]
    BY <1>1 DEF HeapInv
  <1>3. /\ controller \in Seq(Controllers) /\ given \in BOOLEAN /\ cloned \in BOOLEAN
        /\ Range(controller) = flags /\ (~given => flags = {})
    BY <1>1, <1>2 DEF PlaceInv
  <1>4. frees[Array] = 0 /\ frees[Args] = 0
    BY <1>1, <1>2 DEF FreesInv, Times
  <1>5. /\ at' = to /\ UNCHANGED <<given, flags, cloned, controller>>
        /\ frees' \in [Blocks -> Nat] /\ LiveInv'
        /\ \A x \in Blocks : x # Array => frees'[x] = frees[x]
        /\ frees'[Array] = Times(given)
    <2>1. CASE given
      <3>1. Free(Array, to) /\ Array \in Blocks
        BY <1>1, <2>1, BlocksAre DEF FreeArray
      <3>2. Array \in live
        BY <1>1, <1>2, <1>4, <2>1 DEF LiveInv
      <3>3. LiveInv'
        BY <1>1, <1>2, <1>3, <3>1, FreeKeepsLive
      <3>4. /\ at' = to /\ UNCHANGED <<given, flags, cloned, controller>>
            /\ frees' \in [Blocks -> Nat] /\ frees'[Array] = 1
            /\ \A x \in Blocks : x # Array => frees'[x] = frees[x]
        <4> HIDE DEF to
        <4> QED  BY <1>2, <1>4, <3>1, <3>2, FreeEffect
      <3> QED  BY <2>1, <3>3, <3>4 DEF Times
    <2>2. CASE ~given
      <3>1. at' = to /\ UNCHANGED <<given, flags, cloned, controller, live, frees>>
        BY <2>2 DEF FreeArray
      <3>2. LiveInv'
        BY <1>2, <2>2, <3>1 DEF LiveInv
      <3> QED  BY <1>2, <1>4, <2>2, <3>1, <3>2 DEF Times
    <2> QED  BY <1>3, <2>1, <2>2
  <1>6. /\ at' \in {"failed", "main", "done"} /\ (at' = "failed" <=> ~cloned)
        /\ at' = "main" => given
        /\ at' = "done" => ~given
    BY <1>3, <1>5
  <1>7. PlaceInv'
    <2>1. i' \in 1 .. Len(MainOrder) + 1
      BY <1>1, OrderIs, MainOrderIs
    <2> QED  BY <1>1, <1>2, <1>3, <1>5, <1>6, <2>1 DEF PlaceInv, Loop
  <1>8. Cleaned' = Cleaned /\ Current' = {} /\ Current = {} /\ MainFreed' = {} /\ MainFreed = {}
    <2>1. {MainOrder[k] : k \in 1 .. 1 - 1} = {}
      OBVIOUS
    <2> QED  BY <1>1, <1>5, <1>6, <2>1 DEF Cleaned, Current, MainFreed, Loop, Early
  <1>9. \A d \in Controllers : /\ ValuesFreed(d)' = ValuesFreed(d)
                               /\ NamesFreed(d)' = NamesFreed(d)
    BY <1>8 DEF ValuesFreed, NamesFreed
  <1>10. FreesInv'
    <2>1. \A d \in Controllers :
             /\ frees'[Control(d)] = frees[Control(d)] /\ frees'[Name(d)] = frees[Name(d)]
             /\ frees'[Pointers(d)] = frees[Pointers(d)] /\ frees'[Value(d)] = frees[Value(d)]
             /\ \A m \in 1 .. Len(SettingsIn[d]) :
                   /\ frees'[Setting(SettingsIn[d][m])] = frees[Setting(SettingsIn[d][m])]
                   /\ frees'[SName(SettingsIn[d][m])] = frees[SName(SettingsIn[d][m])]
      BY <1>5, BlocksAre DEF Array, Control, Name, Pointers, Value, Setting, SName
    <2>2. frees'[Args] = 0
      BY <1>4, <1>5, BlocksAre DEF Array, Args
    <2>3. /\ frees'[Array] = Times(given' /\ at' \in {"failed", "main", "done"})
          /\ frees'[Args] = Times(given' /\ at' = "done")
      BY <1>5, <1>6, <2>2 DEF Times
    <2> QED  BY <1>2, <1>8, <1>9, <2>1, <2>3 DEF FreesInv
  <1> QED  BY <1>5, <1>6, <1>7, <1>10 DEF HeapInv, Late

(* main() frees the values, each perhaps once more, then cgroup_args.      *)
LEMMA FreeResourcesStep ==
    ASSUME HeapInv, FreeResources
    PROVE  HeapInv'
  <1>1. at = "main" /\ i' = i + 1 /\ j' = j
    BY DEF FreeResources
  <1>2. PlaceInv /\ FreesInv /\ LiveInv /\ frees \in [Blocks -> Nat]
    BY <1>1 DEF HeapInv
  <1>3. /\ controller \in Seq(Controllers) /\ given /\ cloned /\ i \in 1 .. 5
        /\ flags \subseteq Controllers /\ Range(controller) = flags
    BY <1>1, <1>2, MainOrderIs DEF PlaceInv
  <1>4. /\ frees[Array] = 1 /\ frees[Args] = 0
        /\ Cleaned = flags /\ Current = {} /\ MainFreed = {MainOrder[k] : k \in 1 .. i - 1}
    BY <1>1, <1>2, <1>3 DEF FreesInv, Times, Cleaned, Current, MainFreed, Loop, Early
  <1>5. CASE i <= 4
    <2> DEFINE c == MainOrder[i]
    <2>1. Free(Value(c), "main") /\ c \in Controllers /\ Value(c) \in Blocks
      BY <1>1, <1>3, <1>5, MainOrderIs, BlocksAre DEF FreeResources
    <2>2. c \notin MainFreed
      BY <1>3, <1>4, <1>5, MainOrderIs
    <2>3. frees[Value(c)] = ValuesFreed(c)
      <3>1. ValuesFreed(c) \in Nat
        BY <1>4, <2>1, SettingsCount DEF ValuesFreed
      <3> QED  BY <1>2, <2>1, <2>2, <3>1 DEF FreesInv, Times
    <2>4. /\ frees' \in [Blocks -> Nat] /\ frees'[Value(c)] = frees[Value(c)] + 1
          /\ \A x \in Blocks : x # Value(c) => frees'[x] = frees[x]
          /\ at' = "main" \/ (at' = "aborted" /\ Value(c) \notin live)
          /\ UNCHANGED <<given, flags, cloned, controller>>
      <3> HIDE DEF c
      <3> QED  BY <1>2, <2>1, FreeEffect
    <2>5. CASE at' = "aborted" /\ Value(c) \notin live
      <3>1. frees[Value(c)] # 0
        BY <1>2, <1>3, <2>1, <2>5 DEF LiveInv, ArgsBlocks
      <3>2. c \in flags
        BY <1>4, <2>3, <3>1 DEF ValuesFreed
      <3> QED  BY <1>3, <2>4, <2>5, <3>2 DEF HeapInv, Excused
    <2>6. CASE at' = "main"
      <3>1. /\ Cleaned' = Cleaned /\ Current' = {}
            /\ MainFreed' = {MainOrder[k] : k \in 1 .. i' - 1}
        BY <1>4, <2>4, <2>6 DEF Cleaned, Current, MainFreed, Loop, Early
      <3>2. MainFreed' = MainFreed \cup {c}
        <4>1. i' - 1 = i /\ 1 .. i = (1 .. i - 1) \cup {i}
          BY <1>1, <1>3
        <4> QED  BY <1>4, <3>1, <4>1
      <3>3. PlaceInv'
        <4>1. i' \in 1 .. Len(MainOrder) + 1
          BY <1>1, <1>3, <1>5, MainOrderIs
        <4> QED  BY <1>1, <1>2, <1>3, <2>4, <2>6, <4>1 DEF PlaceInv, Loop
      <3>4. \A d \in Controllers :
               ValuesFreed(d)' = ValuesFreed(d) /\ NamesFreed(d)' = NamesFreed(d)
        BY <1>4, <3>1 DEF ValuesFreed, NamesFreed
      <3>5. FreesInv'
        <4>1. ASSUME NEW d \in Controllers
              PROVE  frees'[Value(d)] = ValuesFreed(d)' + Times(d \in MainFreed')
          <5>1. frees[Value(d)] = ValuesFreed(d) + Times(d \in MainFreed)
            BY <1>2 DEF FreesInv
          <5>2. CASE d = c
            BY <2>3, <2>4, <3>2, <3>4, <5>2 DEF Times
          <5>3. CASE d # c
            <6>1. Value(d) # Value(c) /\ Value(d) \in Blocks
              BY <5>3, BlocksAre DEF Value
            <6>2. frees'[Value(d)] = frees[Value(d)]
              BY <2>4, <6>1
            <6> QED  BY <3>2, <3>4, <5>1, <5>3, <6>2
          <5> QED  BY <5>2, <5>3
        <4>2. \A d \in Controllers :
                 /\ frees'[Control(d)] = frees[Control(d)] /\ frees'[Name(d)] = frees[Name(d)]
                 /\ frees'[Pointers(d)] = frees[Pointers(d)]
                 /\ \A m \in 1 .. Len(SettingsIn[d]) :
                       /\ frees'[Setting(SettingsIn[d][m])] = frees[Setting(SettingsIn[d][m])]
                       /\ frees'[SName(SettingsIn[d][m])] = frees[SName(SettingsIn[d][m])]
          BY <2>4, BlocksAre DEF Control, Name, Pointers, Value, Setting, SName
        <4>3. frees'[Array] = frees[Array] /\ frees'[Args] = frees[Args]
          BY <2>4, BlocksAre DEF Array, Args, Value
        <4> QED  BY <1>1, <1>2, <1>4, <2>4, <2>6, <3>1, <3>4, <4>1, <4>2, <4>3 DEF FreesInv
      <3>6. LiveInv'
        BY <1>1, <1>2, <1>3, <2>1, FreeKeepsLive
      <3> QED  BY <2>4, <2>6, <3>3, <3>5, <3>6 DEF HeapInv, Late
    <2> QED  BY <2>4, <2>5, <2>6
  <1>6. CASE i = 5
    <2>1. Free(Args, "done") /\ Args \in Blocks
      BY <1>1, <1>6, MainOrderIs, BlocksAre DEF FreeResources
    <2>2. Args \in live
      BY <1>2, <1>3, <1>4 DEF LiveInv, ArgsBlocks
    <2>3. /\ frees' \in [Blocks -> Nat] /\ frees'[Args] = 1
          /\ \A x \in Blocks : x # Args => frees'[x] = frees[x]
          /\ at' = "done" /\ UNCHANGED <<given, flags, cloned, controller>>
      BY <1>2, <1>4, <2>1, <2>2, FreeEffect
    <2>4. Cleaned' = Cleaned /\ Current' = {} /\ MainFreed' = Controllers /\ MainFreed = Controllers
      <3>1. i - 1 = 4
        BY <1>6
      <3> QED  BY <1>3, <1>4, <2>3, <3>1, MainOrderIs DEF Cleaned, Current, MainFreed, Loop, Early
    <2>5. PlaceInv'
      BY <1>1, <1>2, <1>3, <2>3 DEF PlaceInv, Loop
    <2>6. \A d \in Controllers :
             ValuesFreed(d)' = ValuesFreed(d) /\ NamesFreed(d)' = NamesFreed(d)
      BY <1>4, <2>4 DEF ValuesFreed, NamesFreed
    <2>7. FreesInv'
      <3>1. \A d \in Controllers :
               /\ frees'[Control(d)] = frees[Control(d)] /\ frees'[Name(d)] = frees[Name(d)]
               /\ frees'[Pointers(d)] = frees[Pointers(d)] /\ frees'[Value(d)] = frees[Value(d)]
               /\ \A m \in 1 .. Len(SettingsIn[d]) :
                     /\ frees'[Setting(SettingsIn[d][m])] = frees[Setting(SettingsIn[d][m])]
                     /\ frees'[SName(SettingsIn[d][m])] = frees[SName(SettingsIn[d][m])]
        BY <2>3, BlocksAre DEF Args, Control, Name, Pointers, Value, Setting, SName
      <3>2. frees'[Array] = 1 /\ frees'[Args] = 1
        BY <1>4, <2>3, BlocksAre DEF Array, Args
      <3>3. /\ frees'[Array] = Times(given' /\ at' \in {"failed", "main", "done"})
            /\ frees'[Args] = Times(given' /\ at' = "done")
        BY <1>3, <2>3, <3>2 DEF Times
      <3> QED  BY <1>2, <1>4, <2>4, <2>6, <3>1, <3>3 DEF FreesInv
    <2>8. LiveInv'
      BY <1>1, <1>2, <1>3, <2>1, FreeKeepsLive
    <2> QED  BY <2>3, <2>5, <2>7, <2>8 DEF HeapInv, Late
  <1> QED  BY <1>3, <1>5, <1>6

-----------------------------------------------------------------------------
(* HeapInv is inductive: after any number of frees, what was freed and     *)
(* what still lives is known from where cleanup_controller() or main()     *)
(* stands.                                                                 *)
THEOREM FreesKnown == HeapSpec => []HeapInv
  <1>1. HeapInv /\ [HeapNext]_heapVars => HeapInv'
    <2> SUFFICES ASSUME HeapInv, [HeapNext]_heapVars PROVE HeapInv'
      OBVIOUS
    <2>1. CASE UNCHANGED heapVars
      BY <2>1 DEF heapVars, HeapInv, PlaceInv, FreesInv, LiveInv, Excused, Cleaned, Current,
         ValuesFreed, NamesFreed, MainFreed
    <2> QED
      BY <2>1, InitResourcesStep, SetupControllersStep, ApplyStep, CloneStep, ReleaseStep,
         FreeControlStep, FreeNameStep, FreeValueStep, FreeSettingsStep, FreeArrayStep,
         FreeResourcesStep DEF HeapNext
  <1> QED  BY <1>1, InitHeap, PTL DEF HeapSpec

(* Every block of a controller that is not cleaned yet can be read.        *)
LEMMA NothingDanglingHolds == HeapInv => NothingDangling
  <1> SUFFICES ASSUME HeapInv PROVE Reads \subseteq live
    BY DEF NothingDangling
  <1>1. CASE at \in {"apply", "release"} /\ given
    <2>1. PlaceInv /\ FreesInv /\ LiveInv
      BY <1>1 DEF HeapInv
    <2>2. Range(controller) = flags /\ flags \subseteq Controllers /\ controller \in Seq(Controllers)
      BY <1>1, <2>1 DEF PlaceInv
    <2>3. Cleaned = {} /\ Current = {} /\ MainFreed = {}
      BY <1>1 DEF Cleaned, Current, MainFreed, Loop, Early
    <2>4. \A c \in Controllers : ValuesFreed(c) = 0 /\ NamesFreed(c) = 0
      BY <2>3 DEF ValuesFreed, NamesFreed
    <2>5. frees[Array] = 0
      BY <1>1, <2>1 DEF FreesInv, Times
    <2>6. ASSUME NEW c \in flags, NEW b \in ControlBlocks(c) \cup {Value(c)}
          PROVE  b \in live
      <3>1. c \in Controllers /\ b \in Blocks
        BY <2>2, BlocksAre
      <3>2. frees[b] = 0
        <4>1. /\ frees[Control(c)] = 0 /\ frees[Name(c)] = 0 /\ frees[Pointers(c)] = 0
              /\ frees[Value(c)] = 0
              /\ \A m \in 1 .. Len(SettingsIn[c]) :
                    frees[Setting(SettingsIn[c][m])] = 0 /\ frees[SName(SettingsIn[c][m])] = 0
          BY <2>1, <2>3, <2>4, <3>1, SettingsCount DEF FreesInv, Times
        <4> QED  BY <3>1, <4>1, ControlBlocksAre
      <3> QED  BY <1>1, <2>1, <2>2, <3>1, <3>2, StillLive
    <2>7. Array \in live
      BY <1>1, <2>1, <2>5 DEF LiveInv
    <2>8. Reads = {Array} \cup UNION {ControlBlocks(c) \cup {Value(c)} : c \in flags}
      BY <1>1 DEF Reads
    <2> QED  BY <2>6, <2>7, <2>8
  <1>2. CASE at \in Loop
    <2> DEFINE c == controller[i]
    <2>1. frees[Array] = 0 /\ frees[Control(c)] = 0 /\ frees[Pointers(c)] = 0
      BY <1>2, InLoop DEF FreesInv, Times, Loop
    <2>2. {Control(c), Pointers(c)} \subseteq ControlBlocks(c) /\ ControlBlocks(c) \subseteq Blocks
      BY <1>2, InLoop, BlocksAre, ControlBlocksAre
    <2>3. Control(c) \in live /\ Pointers(c) \in live
      BY <1>2, <2>1, <2>2, InLoop, StillLive
    <2>4. Array \in live
      BY <1>2, <2>1, InLoop DEF LiveInv, Loop
    <2>5. CASE at \in {"control", "settings"}
      BY <2>3, <2>4, <2>5 DEF Reads
    <2>6. CASE at \in {"name", "value"}
      <3> DEFINE b == Setting(SettingsIn[c][j])
      <3>1. j \in 1 .. Len(SettingsIn[c])
        BY <1>2, <2>6, InLoop DEF PlaceInv
      <3>2. frees[b] = 0 /\ b \in ControlBlocks(c)
        BY <1>2, <3>1, InLoop, ControlBlocksAre DEF FreesInv
      <3>3. b \in live
        BY <1>2, <2>2, <3>2, InLoop, StillLive
      <3> QED  BY <2>3, <2>4, <2>6, <3>3 DEF Reads
    <2> QED  BY <1>2, <2>5, <2>6 DEF Loop
  <1>3. CASE at = "main"
    <2>1. PlaceInv /\ FreesInv /\ LiveInv
      BY <1>3 DEF HeapInv
    <2>2. given /\ frees[Args] = 0
      BY <1>3, <2>1 DEF PlaceInv, FreesInv, Times
    <2>3. Args \in live
      BY <2>1, <2>2 DEF LiveInv, ArgsBlocks
    <2> QED  BY <1>3, <2>3 DEF Reads
  <1>4. CASE ~(at \in {"apply", "release"} /\ given) /\ at \notin Loop /\ at # "main"
    BY <1>4 DEF Reads, Loop
  <1> QED  BY <1>1, <1>2, <1>3, <1>4

(* NothingDangling: whatever is limited and whether or not the container   *)
(* ran, cleanup_controller() and main() follow no pointer they have freed. *)
THEOREM NoDanglingRead == HeapSpec => []NothingDangling
  BY FreesKnown, NothingDanglingHolds, PTL

(* Only values are freed twice: the memory limit's by its two settings,    *)
(* and those of all limits by main() once more.                            *)
LEMMA TwiceHolds == HeapInv => TwiceAsInRunc
  <1> SUFFICES ASSUME HeapInv PROVE TwiceAsInRunc
    OBVIOUS
  <1>1. at = "aborted" => Excused
    BY DEF HeapInv
  <1>2. ASSUME at \in {"done", "failed"}
        PROVE  (\E b \in Blocks : frees[b] > 1) <=> Excused
    <2>1. PlaceInv /\ FreesInv /\ LiveInv
      BY <1>2 DEF HeapInv
    <2>2. /\ flags \subseteq Controllers /\ (~given => flags = {})
          /\ at = "done" <=> cloned
      BY <1>2, <2>1 DEF PlaceInv
    <2>3. /\ Cleaned = flags /\ Current = {}
          /\ MainFreed = IF cloned /\ given THEN Controllers ELSE {}
      BY <1>2, <2>2 DEF Cleaned, Current, MainFreed, Loop, Early
    <2>4. \A c \in Controllers :
             ValuesFreed(c) = IF c \in flags THEN Len(SettingsIn[c]) ELSE 0
      BY <2>3 DEF ValuesFreed
    <2>5. \A c \in Controllers : frees[Value(c)] = ValuesFreed(c) + Times(c \in MainFreed)
      BY <2>1 DEF FreesInv
    <2>6. \A c \in Controllers : frees[Value(c)] > 1 => Excused
      BY <2>2, <2>3, <2>4, <2>5, SettingsCount DEF Excused, Times
    <2>7. ASSUME NEW b \in Blocks, frees[b] > 1
          PROVE  \E c \in Controllers : b = Value(c)
      <3>1. frees[Array] <= 1 /\ frees[Args] <= 1
        BY <2>1 DEF FreesInv, Times
      <3>2. \A c \in Controllers :
               /\ frees[Control(c)] <= 1 /\ frees[Name(c)] <= 1 /\ frees[Pointers(c)] <= 1
               /\ \A m \in 1 .. Len(SettingsIn[c]) :
                     frees[Setting(SettingsIn[c][m])] <= 1 /\ frees[SName(SettingsIn[c][m])] <= 1
        BY <2>1 DEF FreesInv, Times
      <3>3. ~(frees[b] <= 1)
        BY <2>7 DEF HeapInv
      <3>4. \A c \in Controllers : b \notin ControlBlocks(c)
        BY <3>2, <3>3, ControlBlocksAre
      <3> QED  BY <3>1, <3>3, <3>4 DEF Blocks, ArgsBlocks
    <2>8. ASSUME Excused
          PROVE  \E c \in Controllers : frees[Value(c)] > 1
      <3>1. CASE cloned
        <4>1. PICK c \in flags : TRUE
          BY <2>8, <3>1 DEF Excused
        <4>2. c \in Controllers /\ c \in MainFreed
          BY <2>2, <2>3, <3>1, <4>1
        <4>3. frees[Value(c)] > 1
          BY <2>4, <2>5, <4>1, <4>2, SettingsCount DEF Times
        <4> QED  BY <4>2, <4>3
      <3>2. CASE ~cloned
        <4>1. "memory" \in flags /\ "memory" \in Controllers
          BY <2>8, <3>2, ControllersAre DEF Excused
        <4>2. frees[Value("memory")] > 1
          BY <2>4, <2>5, <4>1, SettingsAre DEF Times
        <4> QED  BY <4>1, <4>2
      <3> QED  BY <3>1, <3>2
    <2> QED  BY <2>6, <2>7, <2>8, BlocksAre
  <1> QED  BY <1>1, <1>2 DEF TwiceAsInRunc

(* TwiceAsInRunc: DoubleFree and Free of module Runc are right about which *)
(* launchers free a block twice and which can be aborted for it.           *)
THEOREM RuncIsRightAboutFrees == HeapSpec => []TwiceAsInRunc
  BY FreesKnown, TwiceHolds, PTL

=============================================================================
