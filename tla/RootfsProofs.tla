---------------------------- MODULE RootfsProofs ----------------------------
(***************************************************************************)
(* The theorems about Rootfs, for any number of containers and whatever    *)
(* calls fail.  The argument: once MakeSlave has run no mount of the       *)
(* container is shared, so what it mounts or unmounts has no receivers;    *)
(* and what the host mounts is attached to the old tree, which the         *)
(* container loses before its command runs.                                *)
(***************************************************************************)
EXTENDS RootfsRefines, TLAPS

Types == {"none", "shared", "slave", "private"}

(* A mount on a mount that is not shared stays alone, and so does an       *)
(* umount.                                                                 *)
LEMMA MountedAlone ==
    ASSUME NEW n \in Namespaces, NEW k \in Mounts,
           NEW t, t \in [Namespaces -> [Mounts -> Types]],
           t[n][On(k)] # "shared", NEW own \in Types \ {"shared"}
    PROVE  Mounted(t, n, k, own) = [t EXCEPT ![n][k] = own]
<1>1. Receivers(t, n, k) = {}
  BY DEF Receivers
<1>2. \A m, j, y : <<m, j, y>> \in {<<n, k, own>>} <=> m = n /\ j = k /\ y = own
  OBVIOUS
<1> QED BY <1>1, <1>2 DEF Mounted

(* One entry of a mount table changes.                                     *)
LEMMA Put ==
    ASSUME NEW t, t \in [Namespaces -> [Mounts -> Types]],
           NEW n \in Namespaces, NEW k \in Mounts, NEW own \in Types
    PROVE  /\ [t EXCEPT ![n][k] = own] \in [Namespaces -> [Mounts -> Types]]
           /\ \A m \in Namespaces : m # n => [t EXCEPT ![n][k] = own][m] = t[m]
           /\ \A j \in Mounts : [t EXCEPT ![n][k] = own][n][j] = IF j = k THEN own ELSE t[n][j]
OBVIOUS

LEMMA UnmountedAlone ==
    ASSUME NEW n \in Namespaces, NEW t, t \in [Namespaces -> [Mounts -> Types]],
           NEW K, \A k \in K : t[n][On(k)] # "shared"
    PROVE  /\ \A m \in Namespaces \ {n} : Unmounted(t, n, K)[m] = t[m]
           /\ \A j \in Mounts : Unmounted(t, n, K)[n][j] = IF j \in K THEN "none" ELSE t[n][j]
           /\ Unmounted(t, n, K) \in [Namespaces -> [Mounts -> Types]]
<1>1. \A k \in K : Receivers(t, n, k) = {}
  BY DEF Receivers
<1> DEFINE gone == {<<n, k>> : k \in K}
                     \cup UNION {{<<r[1], Seen(r[2], k)>> : r \in Receivers(t, n, k)} : k \in K}
<1>2. UNION {{<<r[1], Seen(r[2], k)>> : r \in Receivers(t, n, k)} : k \in K} = {}
  BY <1>1
<1>3. \A m, j : <<m, j>> \in gone <=> m = n /\ j \in K
  BY <1>2
<1>4. \A m \in Namespaces, j \in Mounts :
        Unmounted(t, n, K)[m][j] = IF m = n /\ j \in K THEN "none" ELSE t[m][j]
  <2> HIDE DEF gone
  <2>1. Unmounted(t, n, K) = [m \in Namespaces |-> [j \in Mounts |->
                                  IF <<m, j>> \in gone THEN "none" ELSE t[m][j]]]
    BY Zenon DEF Unmounted, gone
  <2>2. SUFFICES ASSUME NEW m \in Namespaces, NEW j \in Mounts
                 PROVE  Unmounted(t, n, K)[m][j] = IF m = n /\ j \in K THEN "none" ELSE t[m][j]
    OBVIOUS
  <2>3. Unmounted(t, n, K)[m][j] = IF <<m, j>> \in gone THEN "none" ELSE t[m][j]
    BY <2>1
  <2> QED BY <1>3, <2>3
<1>5. \A m \in Namespaces \ {n} : \A j \in Mounts : Unmounted(t, n, K)[m][j] = t[m][j]
  BY <1>4
<1>6. \A j \in Mounts : Unmounted(t, n, K)[n][j] = IF j \in K THEN "none" ELSE t[n][j]
  BY <1>4
<1>7. /\ Unmounted(t, n, K) = [m \in Namespaces |-> Unmounted(t, n, K)[m]]
      /\ \A m \in Namespaces :
            Unmounted(t, n, K)[m] = [j \in Mounts |-> Unmounted(t, n, K)[m][j]]
  BY DEF Unmounted
<1>8. Unmounted(t, n, K) \in [Namespaces -> [Mounts -> Types]]
  BY <1>4, <1>7 DEF Types
<1>9. \A m \in Namespaces \ {n} : Unmounted(t, n, K)[m] = t[m]
  BY <1>5, <1>7
<1> QED BY <1>6, <1>8, <1>9

(* Where the mounts are and what they are bind mounts of.                  *)
LEMMA Kinds ==
    ASSUME TypeOK
    PROVE  /\ OldTree \cap NewTree = {} /\ Mounts = OldTree \cup NewTree
           /\ OldTree = {"/", "home", "devtmpfs", "vol", "mnt"}
           /\ "new" \in NewTree /\ "newvol" \in NewTree /\ "dev" \in NewTree
           /\ Filesystems \cup DevFiles \subseteq NewTree
BY DevicesAssumption
   DEF Mounts, OldTree, NewTree, HostTree, Volumes, DevFiles, Filesystems

LEMMA OnFacts ==
    ASSUME TypeOK
    PROVE  /\ On("vol") = base /\ On("mnt") = "/" /\ On("new") = base
           /\ On("newvol") = "new" /\ On("/") = "new"
           /\ On("home") = "/" /\ On("devtmpfs") = "/"
           /\ \A f \in Filesystems : On(f) \in {"new", "dev"}
           /\ \A d \in DevFiles : On(d) = "dev"
BY DevicesAssumption DEF On, DevFiles, Filesystems

LEMMA OriginFacts ==
    ASSUME TypeOK
    PROVE  /\ Origin("new") = base /\ Origin("newvol") = "vol"
           /\ \A k \in OldTree \cup Filesystems : Origin(k) = k
           /\ \A d \in DevFiles : Origin(d) = "devtmpfs"
BY Kinds, DevicesAssumption DEF Origin, DevFiles, Filesystems

(* What is on the old tree, and what follows a mount of the old tree.      *)
LEMMA VolumesOn ==
    ASSUME TypeOK, NEW v \in Volumes, NEW q \in Mounts, Origin(q) = Origin(On(v)), Covers(q, v)
    PROVE  /\ On(v) \in HostTree
           /\ \/ q = On(v) /\ Seen(q, v) = v
              \/ q = "new" /\ v = "vol" /\ Seen(q, v) = "newvol"
<1>1. On(v) \in {"/", base} /\ base \in {"/", "home"} /\ (v # "vol" => On(v) = "/")
  BY OnFacts DEF Volumes, TypeOK
<1>2. On(v) \in HostTree /\ Origin(On(v)) = On(v) /\ On(v) \in {"/", "home"}
  BY <1>1, OriginFacts, Kinds DEF HostTree
<1>3. CASE q \in OldTree \cup Filesystems
  <2>1. q = On(v) /\ q # "new"
    BY <1>2, <1>3, OriginFacts
  <2> QED BY <1>2, <2>1 DEF Seen
<1>4. CASE q \in DevFiles \cup {"newvol"}
  BY <1>2, <1>4, OriginFacts
<1>5. CASE q = "new"
  BY <1>1, <1>2, <1>5, Kinds DEF Seen, Covers, Volumes
<1> QED BY <1>3, <1>4, <1>5 DEF Mounts, NewTree

(* What a step of the host does to a container: its volume appears or      *)
(* disappears there, too, on a mount that is not private, or below the new *)
(* root.                                                                   *)
LEMMA VolumeReach ==
    ASSUME TypeOK, HostInv, NEW v \in Volumes, HostMounts(v) \/ HostUnmounts(v)
    PROVE  /\ mnt' \in [Namespaces -> [Mounts -> Types]]
           /\ HostInv'
           /\ \A j \in Mounts \ {v} : mnt'[Host][j] = mnt[Host][j]
           /\ \/ mnt[Host][v] = "none" /\ mnt'[Host][v] = "shared"
              \/ mnt[Host][v] # "none" /\ mnt'[Host][v] = "none"
           /\ \A n \in Containers : \A j \in Mounts : mnt'[n][j] # mnt[n][j] =>
                 /\ \/ j = v /\ mnt[n][On(j)] \in {"shared", "slave"}
                    \/ j = "newvol" /\ mnt[n]["new"] \in {"shared", "slave"}
                 /\ mnt'[n][j] = "none" <=> mnt'[Host][v] = "none"
           /\ \A n \in Containers : (\A j \in Mounts : mnt[n][j] # "shared") =>
                 \A j \in Mounts : mnt'[n][j] # "shared"
<1> USE DEF Types
<1>2. v \in Mounts /\ "newvol" \in Mounts /\ Host \in Namespaces
  BY DEF Mounts, OldTree, NewTree, Namespaces
<1>3. ASSUME NEW r \in Receivers(mnt, Host, v)
      PROVE  /\ r = <<r[1], r[2]>> /\ r[1] \in Namespaces /\ r[2] \in Mounts
             /\ mnt[r[1]][r[2]] \in {"shared", "slave"}
             /\ On(v) \in HostTree
             /\ \/ r[2] = On(v) /\ Seen(r[2], v) = v
                \/ r[2] = "new" /\ v = "vol" /\ Seen(r[2], v) = "newvol"
             /\ r[1] # Host
  <2>1. /\ r \in (Namespaces \X Mounts) \ {<<Host, On(v)>>}
        /\ mnt[r[1]][r[2]] \in {"shared", "slave"}
        /\ Origin(r[2]) = Origin(On(v)) /\ Covers(r[2], v)
    BY <1>3 DEF Receivers
  <2>2. r = <<r[1], r[2]>> /\ r[1] \in Namespaces /\ r[2] \in Mounts
    BY <2>1
  <2>3. /\ On(v) \in HostTree
        /\ \/ r[2] = On(v) /\ Seen(r[2], v) = v
           \/ r[2] = "new" /\ v = "vol" /\ Seen(r[2], v) = "newvol"
    BY <2>1, <2>2, VolumesOn
  <2>4. r[1] # Host
    BY <2>1, <2>2, <2>3 DEF HostInv, NewTree
  <2> QED BY <2>1, <2>2, <2>3, <2>4
<1>4. CASE HostMounts(v)
  <2>1. mnt' = Mounted(mnt, Host, v, "shared") /\ mnt[Host][v] = "none"
    BY <1>4 DEF HostMounts
  <2> DEFINE new == {<<Host, v, "shared">>}
                      \cup {<<r[1], Seen(r[2], v), mnt[r[1]][r[2]]>> : r \in Receivers(mnt, Host, v)}
  <2>2. ASSUME NEW m \in Namespaces, NEW j \in Mounts, NEW y, <<m, j, y>> \in new
        PROVE  \/ m = Host /\ j = v /\ y = "shared"
               \/ /\ m # Host /\ y \in {"shared", "slave"}
                  /\ \/ j = v /\ y = mnt[m][On(v)]
                     \/ j = "newvol" /\ y = mnt[m]["new"]
    BY <1>3, <2>2
  <2>3. \A m \in Namespaces, j \in Mounts :
            mnt'[m][j] = IF <<m, j, "shared">> \in new THEN "shared"
                         ELSE IF <<m, j, "slave">> \in new THEN "slave" ELSE mnt[m][j]
    <3> HIDE DEF new
    <3> QED BY <2>1 DEF Mounted, new
  <2>4. <<Host, v, "shared">> \in new
    OBVIOUS
  <2> HIDE DEF new
  <2>5. mnt' \in [Namespaces -> [Mounts -> Types]]
    BY <2>1, <2>3 DEF TypeOK, Mounted
  <2>6. mnt'[Host][v] = "shared" /\ \A j \in Mounts \ {v} : mnt'[Host][j] = mnt[Host][j]
    BY <1>2, <2>2, <2>3, <2>4
  <2>7. HostInv'
    BY <2>6, Kinds DEF HostInv, HostTree, Volumes
  <2>8. ASSUME NEW n \in Containers, NEW j \in Mounts, mnt'[n][j] # mnt[n][j]
        PROVE  /\ \/ j = v /\ mnt[n][On(j)] \in {"shared", "slave"}
                  \/ j = "newvol" /\ mnt[n]["new"] \in {"shared", "slave"}
               /\ mnt'[n][j] # "none"
               /\ mnt'[n][j] = "shared" => \E k \in Mounts : mnt[n][k] = "shared"
    <3>1. n \in Namespaces /\ n # Host /\ On(v) \in Mounts /\ "new" \in Mounts
      BY HostAssumption, OnFacts, Kinds DEF Namespaces, Volumes, TypeOK
    <3>2. CASE <<n, j, "shared">> \in new
      <4>1. \/ j = v /\ mnt[n][On(v)] = "shared"
            \/ j = "newvol" /\ mnt[n]["new"] = "shared"
        BY <2>2, <3>1, <3>2
      <4>2. mnt'[n][j] = "shared"
        BY <2>3, <3>1, <3>2
      <4> QED BY <3>1, <4>1, <4>2
    <3>3. CASE <<n, j, "shared">> \notin new /\ <<n, j, "slave">> \in new
      BY <2>2, <2>3, <2>8, <3>1, <3>3
    <3> QED BY <2>3, <2>8, <3>1, <3>2, <3>3
  <2> QED BY <2>1, <2>5, <2>6, <2>7, <2>8
<1>5. CASE HostUnmounts(v)
  <2>1. mnt' = Unmounted(mnt, Host, {v})
    BY <1>5 DEF HostUnmounts
  <2> DEFINE gone == {<<Host, k>> : k \in {v}}
                \cup UNION {{<<r[1], Seen(r[2], k)>> : r \in Receivers(mnt, Host, k)} : k \in {v}}
  <2>2. ASSUME NEW m \in Namespaces, NEW j \in Mounts, <<m, j>> \in gone
        PROVE  \/ m = Host /\ j = v
               \/ /\ m # Host
                  /\ \/ j = v /\ mnt[m][On(v)] \in {"shared", "slave"}
                     \/ j = "newvol" /\ mnt[m]["new"] \in {"shared", "slave"}
    BY <1>3, <2>2
  <2>3. \A m \in Namespaces, j \in Mounts :
            mnt'[m][j] = IF <<m, j>> \in gone THEN "none" ELSE mnt[m][j]
    <3> HIDE DEF gone
    <3> QED BY <2>1 DEF Unmounted, gone
  <2> HIDE DEF gone
  <2>5. mnt' \in [Namespaces -> [Mounts -> Types]]
    BY <2>1, <2>3 DEF TypeOK, Unmounted
  <2>6. mnt'[Host][v] = "none" /\ \A j \in Mounts \ {v} : mnt'[Host][j] = mnt[Host][j]
    <3>1. <<Host, v>> \in gone
      BY DEF gone
    <3> QED BY <1>2, <2>2, <2>3, <3>1
  <2>7. HostInv'
    BY <2>6, Kinds DEF HostInv, HostTree, Volumes
  <2>8. ASSUME NEW n \in Containers, NEW j \in Mounts, mnt'[n][j] # mnt[n][j]
        PROVE  /\ \/ j = v /\ mnt[n][On(j)] \in {"shared", "slave"}
                  \/ j = "newvol" /\ mnt[n]["new"] \in {"shared", "slave"}
               /\ mnt'[n][j] = "none"
    <3>1. n \in Namespaces /\ n # Host
      BY HostAssumption DEF Namespaces
    <3> QED BY <2>2, <2>3, <2>8, <3>1
  <2>9. mnt[Host][v] # "none"
    BY <1>5 DEF HostUnmounts
  <2> QED BY <2>5, <2>6, <2>7, <2>8, <2>9
<1> QED BY <1>4, <1>5

(* The same of HostStep, whichever the volume.                             *)
LEMMA HostReach ==
    ASSUME TypeOK, HostInv, HostStep
    PROVE  /\ mnt' \in [Namespaces -> [Mounts -> Types]]
           /\ HostInv'
           /\ \A n \in Containers : \A j \in Mounts : mnt'[n][j] # mnt[n][j] =>
                 \/ j \in Volumes /\ mnt[n][On(j)] \in {"shared", "slave"}
                 \/ j = "newvol" /\ mnt[n]["new"] \in {"shared", "slave"}
           /\ \A n \in Containers : (\A j \in Mounts : mnt[n][j] # "shared") =>
                 \A j \in Mounts : mnt'[n][j] # "shared"
<1>1. PICK v \in Volumes : HostMounts(v) \/ HostUnmounts(v)
  BY DEF HostStep
<1> QED BY <1>1, VolumeReach

-----------------------------------------------------------------------------
(* RootfsInv is inductive.                                                 *)

Local(n) == MountInv(n) /\ DevInv(n) /\ SealInv(n)

(* What a container's step leaves of the others'.                          *)
LEMMA OthersKeep ==
    ASSUME RootfsInv, NEW n \in Containers, TypeOK', Local(n)', SharedDirClean', base' = base,
           \A m \in Namespaces : m # n => mnt'[m] = mnt[m],
           \A m \in Containers : m # n =>
              stage'[m] = stage[m] /\ left'[m] = left[m] /\ top'[m] = top[m],
           \A m \in Containers : m # n => (m \in unsealed' <=> m \in unsealed),
           \A e \in made' : e \in made \/ e[1] \in {n, Host}
    PROVE  RootfsInv'
<1>1. HostInv'
  BY HostAssumption, Kinds DEF HostInv, Namespaces, RootfsInv, HostTree, Volumes
<1>2. ASSUME NEW m \in Containers, m # n PROVE Local(m)'
  <2>1. /\ MountInv(m) /\ DevInv(m) /\ SealInv(m)
        /\ mnt'[m] = mnt[m] /\ stage'[m] = stage[m] /\ left'[m] = left[m] /\ top'[m] = top[m]
        /\ m # Host /\ (m \in unsealed' <=> m \in unsealed)
    BY <1>2, HostAssumption DEF RootfsInv, Namespaces
  <2>2. MountInv(m)'
    BY <2>1 DEF MountInv, PreparedBy
  <2>3. DevInv(m)'
    BY <1>2, <2>1 DEF DevInv
  <2>4. SealInv(m)'
    BY <2>1 DEF SealInv
  <2> QED BY <2>2, <2>3, <2>4 DEF Local
<1> QED BY <1>1, <1>2 DEF RootfsInv, Local

(* A mount of a child's that is past MakeSlave has no receivers.           *)
LEMMA ChildMounts ==
    ASSUME RootfsInv, NEW n \in Containers, stage[n] \notin {"none", "slave"},
           NEW k \in Mounts, NEW own \in Types \ {"shared"}
    PROVE  Mounted(mnt, n, k, own) = [mnt EXCEPT ![n][k] = own]
<1>1. On(k) \in Mounts
  BY OnFacts, Kinds DEF RootfsInv, TypeOK, NewTree, Filesystems
<1>2. mnt[n][On(k)] # "shared" /\ mnt \in [Namespaces -> [Mounts -> Types]] /\ n \in Namespaces
  BY <1>1 DEF RootfsInv, MountInv, TypeOK, Types, Namespaces
<1> QED BY <1>2, MountedAlone

LEMMA InvInit ==
    ASSUME Init
    PROVE  RootfsInv
<1> USE DEF Init
<1>1. TypeOK
  BY DEF TypeOK, Stages, Filesystems, Namespaces
<1>2. HostInv
  BY <1>1, Kinds DEF HostInv, HostTree, Volumes, Namespaces
<1>3. SharedDirClean
  BY DEF SharedDirClean
<1>4. ASSUME NEW n \in Containers PROVE MountInv(n) /\ DevInv(n) /\ SealInv(n)
  BY <1>4, HostAssumption DEF MountInv, DevInv, SealInv, PreparedBy, Namespaces
<1> QED BY <1>1, <1>2, <1>3, <1>4 DEF RootfsInv

(* The steps before the bind mount.                                        *)
LEMMA CloneInv ==
    ASSUME RootfsInv, NEW n \in Containers, Clone(n)
    PROVE  RootfsInv'
<1> USE DEF RootfsInv
<1>1. /\ TypeOK' /\ SharedDirClean' /\ base' = base /\ made' = made
      /\ stage[n] = "none" /\ stage'[n] = "slave" /\ top' = top
      /\ \A m \in Namespaces : m # n => mnt'[m] = mnt[m]
      /\ \A m \in Containers : m # n => stage'[m] = stage[m] /\ left'[m] = left[m]
      /\ unsealed' = unsealed
  BY DEF Clone, TypeOK, Namespaces, Stages, SharedDirClean
<1>2. \A k \in NewTree : mnt'[n][k] = "none"
  BY Kinds DEF Clone, TypeOK, Namespaces, HostInv
<1>3. MountInv(n)'
  <2>1. left'[n] = Filesystems
    BY DEF Clone, TypeOK
  <2>2. mnt'[n]["/"] # "none"
    BY Kinds DEF Clone, TypeOK, Namespaces, HostInv, HostTree
  <2> QED BY <1>1, <1>2, <2>1, <2>2 DEF MountInv, PreparedBy
<1>4. DevInv(n)' /\ SealInv(n)'
  BY <1>1 DEF DevInv, SealInv
<1> QED BY <1>1, <1>3, <1>4, OthersKeep DEF Local

LEMMA SlaveInv ==
    ASSUME RootfsInv, NEW n \in Containers, MakeSlave(n)
    PROVE  RootfsInv'
<1> USE DEF RootfsInv, Namespaces
<1>1. /\ TypeOK' /\ SharedDirClean' /\ base' = base /\ made' = made /\ left' = left /\ top' = top
      /\ stage[n] = "slave" /\ stage'[n] = "private" /\ unsealed' = unsealed
      /\ \A m \in Namespaces : m # n => mnt'[m] = mnt[m]
      /\ \A m \in Containers : m # n => stage'[m] = stage[m]
  BY DEF MakeSlave, Enslaved, Proceed, TypeOK, Stages, SharedDirClean
<1>2. \A k \in Mounts : /\ mnt'[n][k] # "shared"
                        /\ mnt[n][k] = "none" <=> mnt'[n][k] = "none"
  BY DEF MakeSlave, Enslaved, TypeOK
<1>3. MountInv(n)'
  BY <1>1, <1>2, Kinds DEF MountInv, PreparedBy
<1>4. DevInv(n)' /\ SealInv(n)'
  BY <1>1 DEF DevInv, SealInv
<1> QED BY <1>1, <1>3, <1>4, OthersKeep DEF Local

LEMMA PrivateInv ==
    ASSUME RootfsInv, NEW n \in Containers, MakePrivate(n)
    PROVE  RootfsInv'
<1> USE DEF RootfsInv, Namespaces
<1>1. /\ TypeOK' /\ SharedDirClean' /\ base' = base /\ made' = made /\ left' = left /\ top' = top
      /\ stage[n] = "private" /\ stage'[n] = "bind"
      /\ \A m \in Namespaces : m # n => mnt'[m] = mnt[m]
      /\ \A m \in Containers : m # n => stage'[m] = stage[m] /\ (m \in unsealed' <=> m \in unsealed)
  <2>0. /\ [mnt EXCEPT ![n]["/"] = "private"] \in [Namespaces -> [Mounts -> Types]]
        /\ \A m \in Namespaces : m # n => [mnt EXCEPT ![n]["/"] = "private"][m] = mnt[m]
    BY Kinds, Put DEF TypeOK, Types
  <2>1. mnt' \in [Namespaces -> [Mounts -> Types]] /\ \A m \in Namespaces : m # n => mnt'[m] = mnt[m]
    BY <2>0 DEF MakePrivate, TypeOK, Types
  <2> QED BY <2>1 DEF MakePrivate, TypeOK, Types, Stages, SharedDirClean
<1>2. /\ \A k \in Mounts \ {"/"} : mnt'[n][k] = mnt[n][k]
      /\ \/ mnt'[n]["/"] = "private"
         \/ n \in unsealed' /\ mnt' = mnt
  BY Kinds DEF MakePrivate, TypeOK
<1>3. MountInv(n)'
  BY <1>1, <1>2, Kinds DEF MountInv, PreparedBy
<1>4. DevInv(n)'
  BY <1>1 DEF DevInv
<1>5. SealInv(n)'
  BY <1>1, <1>2, Kinds DEF SealInv, MountInv
<1> QED BY <1>1, <1>3, <1>4, <1>5, OthersKeep DEF Local

(* A step past MakeSlave that mounts k, if anything, and otherwise only    *)
(* moves its loop and makes files.                                         *)
LEMMA MountStep ==
    ASSUME RootfsInv, NEW n \in Containers, stage[n] \notin {"none", "slave"},
           NEW k \in Mounts, NEW own \in Types \ {"shared"}
    PROVE  /\ Mounted(mnt, n, k, own) \in [Namespaces -> [Mounts -> Types]]
           /\ \A m \in Namespaces : m # n => Mounted(mnt, n, k, own)[m] = mnt[m]
           /\ \A j \in Mounts : Mounted(mnt, n, k, own)[n][j] = IF j = k THEN own ELSE mnt[n][j]
<1>1. Mounted(mnt, n, k, own) = [mnt EXCEPT ![n][k] = own]
  BY ChildMounts
<1>2. mnt \in [Namespaces -> [Mounts -> Types]] /\ n \in Namespaces /\ own \in Types
  BY DEF RootfsInv, TypeOK, Types, Namespaces
<1> QED BY <1>1, <1>2, Put

LEMMA BindInv ==
    ASSUME RootfsInv, NEW n \in Containers, BindRoot(n)
    PROVE  RootfsInv'
<1> USE DEF RootfsInv
<1>1. /\ base' = base /\ made' = made /\ left' = left /\ top' = top
      /\ userns' = userns /\ unsealed' = unsealed
      /\ stage[n] = "bind" /\ stage' = [stage EXCEPT ![n] = "mkdir"] /\ n \in Namespaces
  BY DEF BindRoot, Proceed, Namespaces
<1> DEFINE bound == Mounted(mnt, n, "new", mnt[n][base])
<1>2. /\ mnt[n][base] \in Types \ {"shared"} /\ mnt[n]["vol"] \in Types \ {"shared"}
      /\ "new" \in Mounts /\ "newvol" \in Mounts
  BY <1>1, Kinds DEF TypeOK, MountInv, Types
<1>3. /\ bound \in [Namespaces -> [Mounts -> Types]]
      /\ \A m \in Namespaces : m # n => bound[m] = mnt[m]
      /\ \A j \in Mounts : bound[n][j] = IF j = "new" THEN mnt[n][base] ELSE mnt[n][j]
  BY <1>1, <1>2, MountStep
<1>4. ASSUME mnt' \in [Namespaces -> [Mounts -> Types]],
             \A m \in Namespaces : m # n => mnt'[m] = mnt[m],
             \A j \in Mounts \ {"newvol"} : mnt'[n][j] = bound[n][j],
             mnt'[n]["newvol"] # "shared"
      PROVE  RootfsInv'
  <2>1. TypeOK' /\ SharedDirClean'
    BY <1>1, <1>4 DEF TypeOK, Types, Stages, SharedDirClean
  <2>2. stage'[n] = "mkdir" /\ left'[n] = Filesystems /\ "dev" \in Filesystems
    BY <1>1 DEF TypeOK, MountInv, Filesystems
  <2>3. \A j \in Mounts : mnt'[n][j] # "shared"
    BY <1>1, <1>2, <1>3, <1>4 DEF MountInv
  <2>4. MountInv(n)'
    BY <2>2, <2>3 DEF MountInv, PreparedBy
  <2>5. SealInv(n)'
    BY <1>1, <1>2, <1>3, <1>4, Kinds DEF SealInv
  <2>6. DevInv(n)'
    BY <1>1, <2>2 DEF DevInv
  <2> QED BY <1>1, <1>4, <2>1, <2>4, <2>5, <2>6, OthersKeep DEF Local, TypeOK
<1>5. CASE mnt' = bound
  BY <1>1, <1>2, <1>3, <1>4, <1>5, Kinds DEF MountInv
<1>6. CASE mnt' = Mounted(bound, n, "newvol", mnt[n]["vol"])
  <2>1. PICK b : b = bound
    OBVIOUS
  <2>2. PICK own : own = mnt[n]["vol"]
    OBVIOUS
  <2> HIDE DEF bound
  <2>7. PICK k : k = "newvol"
    OBVIOUS
  <2>3. /\ b \in [Namespaces -> [Mounts -> Types]] /\ b[n][On(k)] # "shared"
        /\ own \in Types \ {"shared"} /\ k \in Mounts /\ n \in Namespaces
    BY <1>1, <1>2, <1>3, <2>1, <2>2, <2>7, OnFacts
  <2>4. mnt' = Mounted(b, n, k, own)
    BY <1>6, <2>1, <2>2, <2>7
  <2>5. /\ mnt' \in [Namespaces -> [Mounts -> Types]]
        /\ \A m \in Namespaces : m # n => mnt'[m] = b[m]
        /\ \A j \in Mounts : mnt'[n][j] = IF j = k THEN own ELSE b[n][j]
    <3>1. mnt' = [b EXCEPT ![n][k] = own]
      BY <2>3, <2>4, MountedAlone
    <3>2. own \in Types
      BY <2>3
    <3> QED BY <2>3, <3>1, <3>2, Put
  <2> QED BY <1>2, <1>3, <1>4, <2>1, <2>7, <2>3, <2>5
<1> QED BY <1>5, <1>6 DEF BindRoot

(* prepare_rootfs(): each step makes a file, or mounts something on what   *)
(* the child has mounted itself.                                           *)
LEMMA PrepareStep ==
    ASSUME RootfsInv, NEW n \in Containers, stage[n] \notin {"none", "slave", "private", "bind"},
           UNCHANGED <<base, userns, top, unsealed>>,
           \A m \in Containers : m # n => stage'[m] = stage[m] /\ left'[m] = left[m],
           mnt' \in [Namespaces -> [Mounts -> Types]],
           \A m \in Namespaces : m # n => mnt'[m] = mnt[m],
           \A k \in OldTree \cup {"new", "newvol"} : mnt'[n][k] = mnt[n][k],
           \A k \in Mounts : mnt'[n][k] # "shared",
           mnt[n]["dev"] # "none" => mnt'[n]["dev"] # "none",
           stage' \in [Containers -> Stages],
           stage'[n] \in {"mkdir", "mount", "device", "console", "pivot"},
           left' \in [Containers -> SUBSET (Filesystems \cup Devices)],
           stage'[n] \in {"mkdir", "mount"} => left'[n] \subseteq Filesystems,
           stage'[n] = "device" => left'[n] \subseteq Devices,
           stage'[n] \notin {"mkdir", "mount"} \/ "dev" \notin left'[n] => mnt'[n]["dev"] # "none",
           made \subseteq made', made' \subseteq Namespaces \X (Filesystems \cup DevFiles \cup Links),
           \A e \in made' \ made :
              \/ e[1] = Host /\ e[2] \in {"proc", "dev", "sys"}
              \/ e[1] = n,
           \A e \in made' : e[1] = n =>
              /\ stage'[n] \in {"mkdir", "mount"} => e[2] \in Filesystems
              /\ stage'[n] = "device" => e[2] \notin left'[n]
              /\ e[2] \notin Links
    PROVE  RootfsInv'
<1> USE DEF RootfsInv
<1>1. TypeOK'
  BY DEF TypeOK, Types
<1>2. SharedDirClean'
  BY HostAssumption DEF SharedDirClean
<1>3. MountInv(n)'
  BY DEF MountInv, PreparedBy
<1>4. DevInv(n)'
  BY DEF DevInv
<1>5. SealInv(n)'
  BY Kinds DEF SealInv
<1> QED BY <1>1, <1>2, <1>3, <1>4, <1>5, OthersKeep DEF Local

LEMMA MkdirInv ==
    ASSUME RootfsInv, NEW n \in Containers, Mkdir(n)
    PROVE  RootfsInv'
<1> USE DEF RootfsInv
<1>1. PICK f \in Filesystems : Reached(n, f) /\ made' = made \cup {<<DirOf(n, f), f>>}
  BY DEF Mkdir
<1>2. /\ stage[n] = "mkdir" /\ stage' = [stage EXCEPT ![n] = "mount"]
      /\ UNCHANGED <<base, userns, left, mnt, top, unsealed>>
  BY DEF Mkdir, Proceed
<1>3. /\ left[n] \subseteq Filesystems /\ ("dev" \notin left[n] => mnt[n]["dev"] # "none")
      /\ \A k \in Mounts : mnt[n][k] # "shared"
  BY <1>2 DEF MountInv
<1>4. \/ DirOf(n, f) = Host /\ f \in {"proc", "dev", "sys"}
      \/ DirOf(n, f) = n
  <2>1. CASE f \in {"proc", "dev", "sys"}
    BY <2>1 DEF DirOf
  <2>2. CASE f \in {"shm", "mqueue", "pts"}
    <3>1. "dev" \notin left[n]
      BY <1>1, <2>2 DEF Reached, Rank
    <3> QED BY <1>3, <2>2, <3>1 DEF DirOf, On
  <2> QED BY <2>1, <2>2 DEF Filesystems
<1>5. \A e \in made' \ made : e = <<DirOf(n, f), f>>
  BY <1>1
<1>6. made \subseteq made' /\ made' \subseteq Namespaces \X (Filesystems \cup DevFiles \cup Links)
  BY <1>1, <1>4 DEF TypeOK, Namespaces
<1>7. ASSUME NEW e \in made', e[1] = n
      PROVE  e[2] \in Filesystems /\ e[2] \notin Links
  BY <1>1, <1>2, <1>7 DEF DevInv, Filesystems, Links
<1> QED
  BY <1>1, <1>2, <1>3, <1>4, <1>5, <1>6, <1>7, PrepareStep DEF TypeOK, Types, Stages, Namespaces

LEMMA MountFsInv ==
    ASSUME RootfsInv, NEW n \in Containers, MountFs(n)
    PROVE  RootfsInv'
<1> USE DEF RootfsInv
<1>1. PICK f \in Filesystems :
        /\ Reached(n, f)
        /\ mnt' = Mounted(mnt, n, f, "private")
        /\ stage' = [stage EXCEPT ![n] = IF left[n] = {f} THEN "device" ELSE "mkdir"]
        /\ left' = [left EXCEPT ![n] = IF @ = {f} THEN Devices ELSE @ \ {f}]
  BY DEF MountFs, Proceed
<1>2. stage[n] = "mount" /\ UNCHANGED <<base, userns, made, top, unsealed>>
  BY DEF MountFs, Proceed
<1>3. /\ left[n] \subseteq Filesystems /\ ("dev" \notin left[n] => mnt[n]["dev"] # "none")
      /\ f \in Mounts /\ f \in NewTree /\ f \notin OldTree \cup {"new", "newvol"}
      /\ \A k \in Mounts : mnt[n][k] # "shared"
  BY <1>2, Kinds DEF MountInv, Filesystems
<1>4. /\ mnt' \in [Namespaces -> [Mounts -> Types]]
      /\ \A m \in Namespaces : m # n => mnt'[m] = mnt[m]
      /\ \A j \in Mounts : mnt'[n][j] = IF j = f THEN "private" ELSE mnt[n][j]
  <2>1. PICK own \in Types \ {"shared"} : own = "private"
    BY DEF Types
  <2>2. mnt' = Mounted(mnt, n, f, own)
    BY <1>1, <2>1
  <2> QED BY <1>2, <1>3, <2>1, <2>2, MountStep
<1>5. /\ left' \in [Containers -> SUBSET (Filesystems \cup Devices)]
      /\ stage' \in [Containers -> Stages]
      /\ \A m \in Containers : m # n => stage'[m] = stage[m] /\ left'[m] = left[m]
      /\ \/ left[n] = {f} /\ stage'[n] = "device" /\ left'[n] = Devices
         \/ left[n] # {f} /\ stage'[n] = "mkdir" /\ left'[n] = left[n] \ {f}
  BY <1>1, <1>2 DEF TypeOK, Stages
<1>6. stage'[n] \notin {"mkdir", "mount"} \/ "dev" \notin left'[n] => mnt'[n]["dev"] # "none"
  <2>1. "dev" \notin left'[n] \/ stage'[n] = "device" => "dev" \notin left[n] \/ f = "dev"
    BY <1>5
  <2> QED BY <1>3, <1>4, <1>5, <2>1, Kinds
<1>7. ASSUME NEW e \in made', e[1] = n
      PROVE  /\ e[2] \in Filesystems /\ e[2] \notin Links
             /\ e[2] \notin Devices
  <2>1. e[2] \in Filesystems
    BY <1>2, <1>7 DEF DevInv
  <2> QED BY <2>1, DevicesAssumption DEF Filesystems, Links
<1>8. /\ \A k \in OldTree \cup {"new", "newvol"} : mnt'[n][k] = mnt[n][k]
      /\ \A k \in Mounts : mnt'[n][k] # "shared"
      /\ mnt[n]["dev"] # "none" => mnt'[n]["dev"] # "none"
  BY <1>3, <1>4, Kinds
<1>9. /\ stage'[n] \in {"mkdir", "mount", "device", "console", "pivot"}
      /\ stage'[n] \in {"mkdir", "mount"} => left'[n] \subseteq Filesystems
      /\ stage'[n] = "device" => left'[n] \subseteq Devices
  BY <1>3, <1>5
<1>10. made' = made /\ made \subseteq Namespaces \X (Filesystems \cup DevFiles \cup Links)
  BY <1>2 DEF TypeOK
<1>11. \A e \in made' : e[1] = n =>
          /\ stage'[n] \in {"mkdir", "mount"} => e[2] \in Filesystems
          /\ stage'[n] = "device" => e[2] \notin left'[n]
          /\ e[2] \notin Links
  BY <1>5, <1>7
<1> QED  BY <1>2, <1>4, <1>5, <1>6, <1>8, <1>9, <1>10, <1>11, PrepareStep

(* What a child makes in its /dev, past the loop of the file systems, is   *)
(* made in its own tmpfs.                                                  *)
LEMMA OwnDev ==
    ASSUME RootfsInv, NEW n \in Containers, PreparedBy(n), NEW k \in DevFiles
    PROVE  DirOf(n, k) = n /\ mnt[n]["dev"] # "none"
<1>1. On(k) = "dev"
  BY OnFacts DEF RootfsInv
<1> QED BY <1>1 DEF DirOf, RootfsInv, MountInv

LEMMA DeviceInv ==
    ASSUME RootfsInv, NEW n \in Containers, MakeDevice(n)
    PROVE  RootfsInv'
<1> USE DEF RootfsInv
<1>1. PICK d \in Devices :
        /\ Reached(n, d)
        /\ stage' = [stage EXCEPT ![n] = IF left[n] = {d} THEN "console" ELSE "device"]
        /\ left' = [left EXCEPT ![n] = @ \ {d}]
        /\ made' = made \cup {<<DirOf(n, d), d>>}
        /\ mnt' = IF userns[n] THEN Mounted(mnt, n, d, mnt[n]["devtmpfs"]) ELSE mnt
  BY DEF MakeDevice, Proceed
<1>2. stage[n] = "device" /\ UNCHANGED <<base, userns, top, unsealed>> /\ PreparedBy(n)
  BY DEF MakeDevice, Proceed, PreparedBy
<1>3. /\ left[n] \subseteq Devices /\ d \in Mounts /\ d \in DevFiles /\ d \in NewTree
      /\ d \notin OldTree \cup {"new", "newvol", "dev"}
      /\ DirOf(n, d) = n /\ mnt[n]["dev"] # "none"
      /\ \A k \in Mounts : mnt[n][k] # "shared"
  <2>1. d \in DevFiles /\ left[n] \subseteq Devices
    BY <1>2 DEF DevFiles, MountInv
  <2>2. d \in NewTree /\ d \in Mounts /\ d \notin OldTree \cup {"new", "newvol", "dev"}
    BY <2>1, Kinds, DevicesAssumption
  <2> QED BY <1>2, <2>1, <2>2, OwnDev DEF MountInv
<1>4. /\ mnt' \in [Namespaces -> [Mounts -> Types]]
      /\ \A m \in Namespaces : m # n => mnt'[m] = mnt[m]
      /\ \A j \in Mounts \ {d} : mnt'[n][j] = mnt[n][j]
      /\ \A j \in Mounts : mnt'[n][j] # "shared"
  <2>1. PICK own \in Types \ {"shared"} : own = mnt[n]["devtmpfs"]
    BY <1>3, Kinds DEF Types, TypeOK, Namespaces
  <2>2. CASE userns[n]
    <3>1. mnt' = Mounted(mnt, n, d, own)
      BY <1>1, <2>1, <2>2
    <3>2. /\ mnt' \in [Namespaces -> [Mounts -> Types]]
          /\ \A m \in Namespaces : m # n => mnt'[m] = mnt[m]
          /\ \A j \in Mounts : mnt'[n][j] = IF j = d THEN own ELSE mnt[n][j]
      BY <1>2, <1>3, <2>1, <3>1, MountStep
    <3> QED BY <1>3, <2>1, <3>2
  <2>3. CASE ~userns[n]
    BY <1>1, <1>3, <2>3 DEF TypeOK, Types
  <2> QED BY <2>2, <2>3
<1>5. /\ left' \in [Containers -> SUBSET (Filesystems \cup Devices)]
      /\ stage' \in [Containers -> Stages]
      /\ \A m \in Containers : m # n => stage'[m] = stage[m] /\ left'[m] = left[m]
      /\ stage'[n] \in {"device", "console"} /\ left'[n] = left[n] \ {d}
  BY <1>1, <1>2 DEF TypeOK, Stages
<1>6. /\ made \subseteq made'
      /\ made' \subseteq Namespaces \X (Filesystems \cup DevFiles \cup Links)
      /\ \A e \in made' \ made : e[1] = n
  BY <1>1, <1>3 DEF TypeOK, Namespaces
<1>7. ASSUME NEW e \in made', e[1] = n
      PROVE  e[2] \notin left'[n] /\ e[2] \notin Links
  <2>1. CASE e \in made
    BY <1>2, <1>5, <1>7, <2>1 DEF DevInv
  <2>2. CASE e = <<n, d>>
    BY <1>5, <2>2, DevicesAssumption DEF Links
  <2> QED BY <1>1, <1>3, <2>1, <2>2
<1> QED
  BY <1>2, <1>3, <1>4, <1>5, <1>6, <1>7, PrepareStep, Kinds DEF TypeOK

LEMMA ConsoleInv ==
    ASSUME RootfsInv, NEW n \in Containers, BindConsole(n)
    PROVE  RootfsInv'
<1> USE DEF RootfsInv
<1>1. /\ stage[n] = "console" /\ stage' = [stage EXCEPT ![n] = "pivot"]
      /\ made' = made \cup {<<DirOf(n, "console"), "console">>}
      /\ mnt' = Mounted(mnt, n, "console", mnt[n]["devtmpfs"])
      /\ UNCHANGED <<base, userns, left, top, unsealed>> /\ PreparedBy(n)
  BY DEF BindConsole, Proceed, PreparedBy
<1>2. PICK d \in DevFiles : d = "console"
  BY DEF DevFiles
<1>3. /\ d \in Mounts /\ d \notin OldTree \cup {"new", "newvol", "dev"}
      /\ DirOf(n, d) = n /\ mnt[n]["dev"] # "none"
      /\ \A k \in Mounts : mnt[n][k] # "shared"
  <2>1. d \in Mounts /\ d \notin OldTree \cup {"new", "newvol", "dev"}
    BY <1>2, Kinds
  <2> QED BY <1>1, <2>1, OwnDev DEF MountInv
<1>4. /\ mnt' \in [Namespaces -> [Mounts -> Types]]
      /\ \A m \in Namespaces : m # n => mnt'[m] = mnt[m]
      /\ \A j \in Mounts \ {d} : mnt'[n][j] = mnt[n][j]
      /\ \A j \in Mounts : mnt'[n][j] # "shared"
  <2>1. PICK own \in Types \ {"shared"} : own = mnt[n]["devtmpfs"]
    BY <1>3, Kinds DEF Types, TypeOK, Namespaces
  <2>2. mnt' = Mounted(mnt, n, d, own)
    BY <1>1, <1>2, <2>1
  <2>3. /\ mnt' \in [Namespaces -> [Mounts -> Types]]
        /\ \A m \in Namespaces : m # n => mnt'[m] = mnt[m]
        /\ \A j \in Mounts : mnt'[n][j] = IF j = d THEN own ELSE mnt[n][j]
    BY <1>1, <1>3, <2>1, <2>2, MountStep
  <2> QED BY <1>3, <2>1, <2>3
<1>5. /\ stage' \in [Containers -> Stages] /\ stage'[n] = "pivot"
      /\ \A m \in Containers : m # n => stage'[m] = stage[m]
  BY <1>1 DEF TypeOK, Stages
<1>6. /\ made \subseteq made'
      /\ made' \subseteq Namespaces \X (Filesystems \cup DevFiles \cup Links)
      /\ \A e \in made' \ made : e[1] = n
  BY <1>1, <1>2, <1>3 DEF TypeOK, Namespaces
<1>7. ASSUME NEW e \in made', e[1] = n
      PROVE  e[2] \notin Links
  BY <1>1, <1>2, <1>7 DEF DevInv, Links
<1>8. mnt[n]["dev"] # "none" => mnt'[n]["dev"] # "none"
  BY <1>3, <1>4, Kinds
<1>9. \A k \in OldTree \cup {"new", "newvol"} : mnt'[n][k] = mnt[n][k]
  BY <1>3, <1>4, Kinds
<1> QED
  BY <1>1, <1>3, <1>4, <1>5, <1>6, <1>7, <1>8, <1>9, PrepareStep, Kinds DEF TypeOK

(* perform_pivot_root() and the links.                                     *)
LEMMA PivotInv ==
    ASSUME RootfsInv, NEW n \in Containers, PivotRoot(n)
    PROVE  RootfsInv'
<1> USE DEF RootfsInv
<1>1. /\ TypeOK' /\ SharedDirClean' /\ base' = base /\ made' = made /\ left' = left /\ mnt' = mnt
      /\ stage[n] = "pivot" /\ stage'[n] = "oldslave" /\ top'[n] = "new" /\ unsealed' = unsealed
      /\ \A m \in Containers : m # n => stage'[m] = stage[m] /\ top'[m] = top[m]
  BY DEF PivotRoot, Proceed, TypeOK, Stages, SharedDirClean
<1>2. MountInv(n)'
  BY <1>1 DEF MountInv, PreparedBy
<1>3. DevInv(n)' /\ SealInv(n)'
  BY <1>1 DEF DevInv, SealInv
<1> QED BY <1>1, <1>2, <1>3, OthersKeep DEF Local

LEMMA SlaveOldInv ==
    ASSUME RootfsInv, NEW n \in Containers, SlaveOldRoot(n)
    PROVE  RootfsInv'
<1> USE DEF RootfsInv, Namespaces
<1>1. /\ TypeOK' /\ SharedDirClean' /\ base' = base /\ made' = made /\ left' = left /\ top' = top
      /\ stage[n] = "oldslave" /\ stage'[n] = "detach" /\ unsealed' = unsealed
      /\ \A m \in Namespaces : m # n => mnt'[m] = mnt[m]
      /\ \A m \in Containers : m # n => stage'[m] = stage[m]
  BY DEF SlaveOldRoot, Enslaved, Proceed, TypeOK, Stages, SharedDirClean
<1>2. \A k \in Mounts : mnt[n][k] # "shared"
  BY <1>1 DEF MountInv
<1>3. \A k \in Mounts : mnt'[n][k] = mnt[n][k]
  BY <1>2 DEF SlaveOldRoot, Enslaved, TypeOK
<1>4. MountInv(n)'
  BY <1>1, <1>2, <1>3, Kinds DEF MountInv, PreparedBy
<1>5. DevInv(n)' /\ SealInv(n)'
  BY <1>1, <1>3, Kinds DEF DevInv, SealInv
<1> QED BY <1>1, <1>4, <1>5, OthersKeep DEF Local

LEMMA DetachInv ==
    ASSUME RootfsInv, NEW n \in Containers, DetachOldRoot(n)
    PROVE  RootfsInv'
<1> USE DEF RootfsInv
<1>1. /\ base' = base /\ made' = made /\ left' = left /\ top' = top
      /\ userns' = userns /\ unsealed' = unsealed
      /\ stage[n] = "detach" /\ stage' = [stage EXCEPT ![n] = "links"]
      /\ mnt' = Unmounted(mnt, n, OldTree) /\ n \in Namespaces
  BY DEF DetachOldRoot, Proceed, Namespaces
<1>2. \A k \in Mounts : mnt[n][k] # "shared"
  BY <1>1 DEF MountInv
<1>3. \A k \in OldTree : On(k) \in Mounts
  BY OnFacts, Kinds DEF TypeOK
<1>4. /\ \A m \in Namespaces \ {n} : mnt'[m] = mnt[m]
      /\ \A j \in Mounts : mnt'[n][j] = IF j \in OldTree THEN "none" ELSE mnt[n][j]
      /\ mnt' \in [Namespaces -> [Mounts -> Types]]
  <2>1. \A k \in OldTree : mnt[n][On(k)] # "shared"
    BY <1>2, <1>3
  <2>2. mnt \in [Namespaces -> [Mounts -> Types]]
    BY DEF TypeOK, Types
  <2> QED BY <1>1, <2>1, <2>2, UnmountedAlone
<1>5. TypeOK' /\ SharedDirClean'
  BY <1>1, <1>4 DEF TypeOK, Types, Stages, SharedDirClean
<1>6. stage'[n] = "links" /\ \A m \in Containers : m # n => stage'[m] = stage[m]
  BY <1>1 DEF TypeOK
<1>7. MountInv(n)'
  BY <1>1, <1>2, <1>4, <1>6, Kinds DEF MountInv, PreparedBy
<1>8. DevInv(n)'
  BY <1>1, <1>6 DEF DevInv
<1>9. SealInv(n)'
  BY <1>1, <1>4, <1>6, Kinds DEF SealInv
<1> QED BY <1>1, <1>4, <1>5, <1>6, <1>7, <1>8, <1>9, OthersKeep DEF Local

LEMMA LinksInv ==
    ASSUME RootfsInv, NEW n \in Containers, MakeLinks(n)
    PROVE  RootfsInv'
<1> USE DEF RootfsInv
<1>1. /\ base' = base /\ left' = left /\ top' = top /\ userns' = userns /\ mnt' = mnt
      /\ unsealed' = unsealed
      /\ stage[n] = "links" /\ stage' = [stage EXCEPT ![n] = "running"] /\ n \in Namespaces
      /\ made' = made \cup {<<DirOf(n, "console"), s>> : s \in Links} /\ PreparedBy(n)
  BY DEF MakeLinks, Proceed, Namespaces, PreparedBy
<1>2. PICK d \in DevFiles : d = "console"
  BY DEF DevFiles
<1>3. DirOf(n, d) = n
  BY <1>1, OwnDev
<1>4. \A e \in made' : e \in made \/ (e[1] = n /\ e \in Namespaces \X Links)
  <2>1. made' = made \cup {<<n, s>> : s \in Links}
    BY <1>1, <1>2, <1>3
  <2> QED BY <1>1, <2>1
<1>5. TypeOK'
  BY <1>1, <1>4 DEF TypeOK, Stages
<1>6. SharedDirClean'
  BY <1>4, HostAssumption DEF SharedDirClean
<1>7. stage'[n] = "running" /\ \A m \in Containers : m # n => stage'[m] = stage[m]
  BY <1>1 DEF TypeOK
<1>8. MountInv(n)' /\ DevInv(n)' /\ SealInv(n)'
  BY <1>1, <1>7 DEF MountInv, DevInv, SealInv, PreparedBy
<1> QED BY <1>1, <1>4, <1>5, <1>6, <1>7, <1>8, OthersKeep DEF Local

(* The end of a child.                                                     *)
LEMMA EndInv ==
    ASSUME RootfsInv, NEW n \in Containers, ChildEnds(n)
    PROVE  RootfsInv'
<1> USE DEF RootfsInv
<1>1. /\ base' = base /\ left' = left /\ top' = top /\ n \in Namespaces
      /\ stage'[n] = "dead" /\ \A m \in Containers : m # n => stage'[m] = stage[m]
      /\ \A m \in Namespaces : m # n => mnt'[m] = mnt[m]
      /\ \A k \in Mounts : mnt'[n][k] = "none"
      /\ \A e \in made' : e \in made /\ e[1] # n
      /\ \A m \in Containers : m # n => (m \in unsealed' <=> m \in unsealed)
  BY DEF ChildEnds, TypeOK, Namespaces
<1>2. TypeOK' /\ SharedDirClean'
  BY DEF ChildEnds, TypeOK, Stages, SharedDirClean, Namespaces
<1>3. MountInv(n)' /\ DevInv(n)' /\ SealInv(n)'
  BY <1>1, Kinds DEF MountInv, DevInv, SealInv, PreparedBy
<1> QED BY <1>1, <1>2, <1>3, OthersKeep DEF Local

(* What the host does reaches the old tree, and what is bound from it.     *)
LEMMA HostInvariant ==
    ASSUME RootfsInv, HostStep
    PROVE  RootfsInv'
<1> USE DEF RootfsInv
<1>1. /\ UNCHANGED <<base, stage, userns, left, top, made, unsealed>>
      /\ TypeOK /\ HostInv
  BY DEF HostStep
<1>2. /\ mnt' \in [Namespaces -> [Mounts -> Types]] /\ HostInv'
      /\ \A n \in Containers : \A j \in Mounts : mnt'[n][j] # mnt[n][j] =>
            \/ j \in Volumes /\ mnt[n][On(j)] \in {"shared", "slave"}
            \/ j = "newvol" /\ mnt[n]["new"] \in {"shared", "slave"}
      /\ \A n \in Containers : (\A j \in Mounts : mnt[n][j] # "shared") =>
            \A j \in Mounts : mnt'[n][j] # "shared"
  BY <1>1, HostReach
<1>3. TypeOK' /\ SharedDirClean'
  BY <1>1, <1>2 DEF TypeOK, Types, SharedDirClean
<1>4. ASSUME NEW n \in Containers
      PROVE  MountInv(n)' /\ DevInv(n)' /\ SealInv(n)'
  <2>1. \A j \in Mounts : mnt'[n][j] # mnt[n][j] => j \in {"vol", "mnt", "newvol"}
    BY <1>2 DEF Volumes
  <2>2. \A v \in Volumes : On(v) \in OldTree
    BY OnFacts, Kinds DEF Volumes, TypeOK
  <2>3. (\A k \in OldTree : mnt[n][k] = "none") =>
           \A k \in OldTree : mnt'[n][k] = "none"
    BY <1>2, <2>2, Kinds
  <2>4. (\A k \in NewTree : mnt[n][k] = "none") =>
           \A k \in NewTree : mnt'[n][k] = "none"
    BY <1>2, Kinds DEF Volumes
  <2>5. (\A k \in Mounts : mnt[n][k] = "none") =>
           \A k \in Mounts : mnt'[n][k] = "none"
    BY <2>3, <2>4, Kinds
  <2>6. mnt'[n]["dev"] = mnt[n]["dev"] /\ mnt'[n]["/"] = mnt[n]["/"]
    BY <2>1, Kinds
  <2>7. MountInv(n)'
    BY <1>1, <1>2, <2>3, <2>4, <2>5, <2>6 DEF MountInv, PreparedBy
  <2>8. DevInv(n)'
    BY <1>1 DEF DevInv
  <2>9. SealInv(n)'
    BY <1>1, <2>1, Kinds DEF SealInv
  <2> QED BY <2>7, <2>8, <2>9
<1> QED BY <1>2, <1>3, <1>4

LEMMA InvNext ==
    ASSUME RootfsInv, [Next]_vars
    PROVE  RootfsInv'
<1>1. ASSUME NEW n \in Containers, ChildStep(n) PROVE RootfsInv'
  BY <1>1, SlaveInv, PrivateInv, BindInv, MkdirInv, MountFsInv, DeviceInv, ConsoleInv,
     PivotInv, SlaveOldInv, DetachInv, LinksInv DEF ChildStep
<1>2. ASSUME NEW n \in Containers, Fail(n) \/ CommandEnds(n) PROVE RootfsInv'
  BY <1>2, EndInv DEF Fail, CommandEnds
<1>3. CASE UNCHANGED vars
  BY <1>3 DEF vars, RootfsInv, TypeOK, HostInv, SharedDirClean, MountInv, DevInv, SealInv, PreparedBy
<1> QED BY <1>1, <1>2, <1>3, CloneInv, HostInvariant DEF Next

(* RootfsInv is an invariant: from MakeSlave on, no mount of a container   *)
(* is shared.                                                              *)
THEOREM RootfsInvariance == Spec => []RootfsInv
<1>1. Init => RootfsInv
  BY InvInit
<1>2. RootfsInv /\ [Next]_vars => RootfsInv'
  BY InvNext
<1> QED BY <1>1, <1>2, PTL DEF Spec

(* Nothing of the old tree is mounted when the command runs.               *)
THEOREM OldRootIsGone == Spec => []OldRootGone
<1>1. RootfsInv => OldRootGone
  BY DEF RootfsInv, MountInv, OldRootGone
<1> QED BY <1>1, RootfsInvariance, PTL

(* The set-up leaves nothing but mount points in the shared root_fs.       *)
THEOREM SharedDirStaysClean == Spec => []SharedDirClean
<1>1. RootfsInv => SharedDirClean
  BY DEF RootfsInv
<1> QED BY <1>1, RootfsInvariance, PTL

-----------------------------------------------------------------------------
(* The action properties.                                                  *)

(* Of the old tree, everything is there that was there before, and nothing *)
(* else.                                                                   *)
KeepsOld(n) == \A k \in OldTree : mnt'[n][k] = "none" <=> mnt[n][k] = "none"

(* A step of a container's changes no other namespace, and moves its child *)
(* on.  Only the detach changes what there is of the old tree.             *)
LEMMA ChildAlone ==
    ASSUME RootfsInv, NEW n \in Containers, ChildStep(n)
    PROVE  /\ \A m \in Namespaces : m # n => mnt'[m] = mnt[m]
           /\ stage'[n] # "dead"
           /\ stage'[n] # stage[n] \/ left'[n] # left[n]
           /\ \A m \in Containers : m # n => stage'[m] = stage[m]
           /\ stage[n] # "detach" => KeepsOld(n)
<1> USE DEF Proceed
<1>1. TypeOK /\ MountInv(n)
  BY DEF RootfsInv
<1>2. /\ mnt \in [Namespaces -> [Mounts -> Types]] /\ stage \in [Containers -> Stages]
      /\ Containers \subseteq Namespaces
  BY <1>1 DEF TypeOK, Types, Namespaces
<1>3. CASE MakeSlave(n)
  <2>1. KeepsOld(n)
    BY <1>1, <1>2, <1>3, Kinds DEF KeepsOld, MakeSlave, Enslaved
  <2> QED BY <1>2, <1>3, <2>1 DEF MakeSlave, Enslaved
<1>4. CASE MakePrivate(n)
  <2>1. \A m \in Namespaces : m # n => [mnt EXCEPT ![n]["/"] = "private"][m] = mnt[m]
    BY <1>2
  <2>2. KeepsOld(n)
    BY <1>1, <1>2, <1>4, Kinds DEF KeepsOld, MakePrivate, MountInv
  <2> QED BY <1>2, <1>4, <2>1, <2>2 DEF MakePrivate
<1>5. CASE BindRoot(n)
  <2>1. stage[n] = "bind" /\ stage' = [stage EXCEPT ![n] = "mkdir"]
    BY <1>5 DEF BindRoot
  <2>2. /\ mnt[n][base] \in Types \ {"shared"} /\ mnt[n]["vol"] \in Types \ {"shared"}
        /\ "new" \in Mounts /\ "newvol" \in Mounts
    BY <1>1, <1>2, <2>1, Kinds DEF TypeOK, MountInv, Types
  <2>3. PICK b : b = Mounted(mnt, n, "new", mnt[n][base])
    OBVIOUS
  <2>4. /\ b \in [Namespaces -> [Mounts -> Types]]
        /\ \A m \in Namespaces : m # n => b[m] = mnt[m]
        /\ \A j \in Mounts : b[n][j] # "shared"
        /\ \A j \in Mounts \ {"new"} : b[n][j] = mnt[n][j]
    <3>1. PICK own, k : own = mnt[n][base] /\ k = "new"
      OBVIOUS
    <3>2. /\ b = Mounted(mnt, n, k, own) /\ own \in Types \ {"shared"} /\ k \in Mounts
          /\ \A j \in Mounts : mnt[n][j] # "shared"
      BY <1>1, <2>1, <2>2, <2>3, <3>1 DEF MountInv
    <3>3. /\ b \in [Namespaces -> [Mounts -> Types]]
          /\ \A m \in Namespaces : m # n => b[m] = mnt[m]
          /\ \A j \in Mounts : b[n][j] = IF j = k THEN own ELSE mnt[n][j]
      BY <2>1, <3>2, MountStep
    <3> QED BY <3>1, <3>2, <3>3
  <2>5. PICK own, k : own = mnt[n]["vol"] /\ k = "newvol"
    OBVIOUS
  <2>6. b[n][On(k)] # "shared" /\ own \in Types \ {"shared"} /\ k \in Mounts
    BY <1>1, <2>2, <2>4, <2>5, OnFacts
  <2>7. mnt' = b \/ mnt' = Mounted(b, n, k, own)
    BY <1>5, <2>3, <2>5 DEF BindRoot
  <2>8. Mounted(b, n, k, own) = [b EXCEPT ![n][k] = own]
    BY <1>2, <2>4, <2>6, MountedAlone
  <2>9. \A m \in Namespaces : m # n => mnt'[m] = mnt[m]
    BY <2>4, <2>7, <2>8
  <2>10. KeepsOld(n)
    <3>1. k = "newvol" /\ n \in Namespaces
      BY <1>2, <2>5
    <3>2. \A j \in Mounts : [b EXCEPT ![n][k] = own][n][j] = IF j = k THEN own ELSE b[n][j]
      BY <2>4, <2>6, <3>1, Put
    <3>3. \A j \in Mounts \ {"new", "newvol"} : mnt'[n][j] = mnt[n][j]
      BY <2>4, <2>7, <2>8, <3>1, <3>2
    <3> QED BY <1>1, <3>3, Kinds DEF KeepsOld
  <2> QED BY <1>2, <2>1, <2>9, <2>10
<1>6. CASE Mkdir(n)
  BY <1>2, <1>6 DEF Mkdir, KeepsOld
<1>7. CASE MountFs(n)
  <2>1. PICK f \in Filesystems :
          /\ Reached(n, f)
          /\ mnt' = Mounted(mnt, n, f, "private")
          /\ stage' = [stage EXCEPT ![n] = IF left[n] = {f} THEN "device" ELSE "mkdir"]
    BY <1>7 DEF MountFs
  <2>2. PICK own \in Types \ {"shared"} : own = "private"
    BY DEF Types
  <2>3. mnt' = Mounted(mnt, n, f, own) /\ stage[n] = "mount" /\ f \in Mounts
    BY <1>7, <2>1, <2>2, Kinds, <1>1 DEF MountFs
  <2>4. \A m \in Namespaces : m # n => mnt'[m] = mnt[m]
    BY <2>2, <2>3, MountStep
  <2>5. KeepsOld(n)
    BY <1>1, <2>2, <2>3, MountStep, Kinds DEF KeepsOld
  <2> QED BY <1>2, <2>1, <2>3, <2>4, <2>5
<1>8. CASE MakeDevice(n)
  <2>1. PICK d \in Devices :
          /\ Reached(n, d)
          /\ stage' = [stage EXCEPT ![n] = IF left[n] = {d} THEN "console" ELSE "device"]
          /\ left' = [left EXCEPT ![n] = @ \ {d}]
          /\ mnt' = IF userns[n] THEN Mounted(mnt, n, d, mnt[n]["devtmpfs"]) ELSE mnt
    BY <1>8 DEF MakeDevice
  <2>2. stage[n] = "device" /\ d \in Mounts /\ d \in left[n]
    BY <1>1, <1>8, <2>1, Kinds DEF MakeDevice, Reached, DevFiles
  <2>3. PICK own \in Types \ {"shared"} : own = mnt[n]["devtmpfs"]
    BY <1>1, <1>2, <2>2, Kinds DEF MountInv
  <2>4. mnt' = mnt \/ mnt' = Mounted(mnt, n, d, own)
    BY <2>1, <2>3
  <2>5. \A m \in Namespaces : m # n => mnt'[m] = mnt[m]
    BY <2>2, <2>3, <2>4, MountStep
  <2>6. left'[n] # left[n]
    BY <1>1, <2>1, <2>2 DEF TypeOK
  <2>7. d \notin OldTree
    BY <1>1, Kinds DEF DevFiles
  <2>8. KeepsOld(n)
    BY <1>1, <2>2, <2>3, <2>4, <2>7, MountStep, Kinds DEF KeepsOld
  <2> QED BY <1>2, <2>1, <2>5, <2>6, <2>8
<1>9. CASE BindConsole(n)
  <2>1. PICK own, k : own = mnt[n]["devtmpfs"] /\ k = "console"
    OBVIOUS
  <2>2. /\ stage[n] = "console" /\ stage' = [stage EXCEPT ![n] = "pivot"]
        /\ mnt' = Mounted(mnt, n, k, own)
    BY <1>9, <2>1 DEF BindConsole
  <2>3. own \in Types \ {"shared"} /\ k \in Mounts
    BY <1>1, <1>2, <2>1, <2>2, Kinds DEF MountInv, DevFiles
  <2>4. \A m \in Namespaces : m # n => mnt'[m] = mnt[m]
    BY <2>2, <2>3, MountStep
  <2>5. k \notin OldTree
    BY <2>1 DEF OldTree, HostTree, Volumes
  <2>6. KeepsOld(n)
    BY <1>1, <2>2, <2>3, <2>5, MountStep, Kinds DEF KeepsOld
  <2> QED BY <1>2, <2>2, <2>4, <2>6
<1>10. CASE PivotRoot(n)
  BY <1>2, <1>10 DEF PivotRoot, KeepsOld
<1>11. CASE SlaveOldRoot(n)
  <2>1. KeepsOld(n)
    BY <1>2, <1>11, Kinds, <1>1 DEF KeepsOld, SlaveOldRoot, Enslaved
  <2> QED BY <1>2, <1>11, <2>1 DEF SlaveOldRoot, Enslaved
<1>12. CASE DetachOldRoot(n)
  <2>1. /\ stage[n] = "detach" /\ stage' = [stage EXCEPT ![n] = "links"]
        /\ mnt' = Unmounted(mnt, n, OldTree)
    BY <1>12 DEF DetachOldRoot
  <2>2. \A k \in OldTree : mnt[n][On(k)] # "shared"
    BY <1>1, <2>1, OnFacts, Kinds DEF MountInv, TypeOK
  <2>3. \A m \in Namespaces \ {n} : mnt'[m] = mnt[m]
    BY <1>2, <2>1, <2>2, UnmountedAlone
  <2> QED BY <1>2, <2>1, <2>3
<1>13. CASE MakeLinks(n)
  BY <1>2, <1>13 DEF MakeLinks, KeepsOld
<1> QED
  BY <1>3, <1>4, <1>5, <1>6, <1>7, <1>8, <1>9, <1>10, <1>11, <1>12, <1>13 DEF ChildStep

(* No call of the set-up is refused for what containers do to each other.  *)
LEMMA AlwaysAccepted ==
    ASSUME RootfsInv, NEW n \in Containers
    PROVE  Accepted(n)
<1> USE DEF RootfsInv
<1>1. ASSUME stage[n] = "device", NEW d \in left[n]
      PROVE  <<DirOf(n, d), d>> \notin made
  <2>1. d \in DevFiles /\ PreparedBy(n)
    BY <1>1 DEF MountInv, DevFiles, PreparedBy
  <2>2. DirOf(n, d) = n
    BY <2>1, OwnDev
  <2>3. ASSUME <<n, d>> \in made PROVE FALSE
    BY <1>1, <2>3 DEF DevInv
  <2> QED BY <2>2, <2>3
<1>2. stage[n] = "pivot" => mnt[n]["new"] # "shared" /\ mnt[n][base] # "shared"
  BY Kinds DEF MountInv, TypeOK
<1>3. ASSUME stage[n] = "links", NEW s \in Links
      PROVE  <<DirOf(n, "console"), s>> \notin made
  <2>1. PICK d \in DevFiles : d = "console"
    BY DEF DevFiles
  <2>2. DirOf(n, d) = n
    BY <1>3, OwnDev DEF PreparedBy
  <2>3. ASSUME <<n, s>> \in made PROVE FALSE
    BY <1>3, <2>3 DEF DevInv
  <2> QED BY <2>1, <2>2, <2>3
<1> QED BY <1>1, <1>2, <1>3 DEF Accepted

(* What each step of the system is: one container's, which changes no      *)
(* other namespace, or the host's, which moves no child.                   *)
LEMMA Steps ==
    ASSUME RootfsInv, Next
    PROVE  \/ \E n \in Containers :
               /\ \A m \in Namespaces : m # n => mnt'[m] = mnt[m]
               /\ stage'[n] # stage[n] \/ left'[n] # left[n]
               /\ \A m \in Containers : m # n => stage'[m] = stage[m]
               /\ stage'[n] = "dead" => stage[n] \in FaultStages \cup {"running"}
           \/ HostStep
<1> USE DEF RootfsInv, TypeOK, Namespaces
<1>1. ASSUME NEW n \in Containers, Clone(n)
      PROVE  /\ \A m \in Namespaces : m # n => mnt'[m] = mnt[m]
             /\ stage'[n] = "slave" /\ stage[n] = "none"
             /\ \A m \in Containers : m # n => stage'[m] = stage[m]
  BY <1>1 DEF Clone
<1>2. ASSUME NEW n \in Containers, Fail(n) \/ CommandEnds(n)
      PROVE  /\ \A m \in Namespaces : m # n => mnt'[m] = mnt[m]
             /\ stage'[n] # stage[n]
             /\ \A m \in Containers : m # n => stage'[m] = stage[m]
             /\ stage[n] \in FaultStages \cup {"running"}
  <2>1. ChildEnds(n) /\ stage[n] # "dead" /\ stage[n] \in FaultStages \cup {"running"}
    BY <1>2, AlwaysAccepted DEF Fail, CommandEnds
  <2> QED BY <2>1 DEF ChildEnds
<1>3. CASE \E n \in Containers : ChildStep(n)
  BY <1>3, ChildAlone
<1>4. CASE \E n \in Containers : Clone(n)
  BY <1>1, <1>4
<1>5. CASE \E n \in Containers : Fail(n) \/ CommandEnds(n)
  BY <1>2, <1>5
<1> QED BY <1>3, <1>4, <1>5 DEF Next

(* What a child mounts or unmounts reaches neither the host nor another    *)
(* container.                                                              *)
THEOREM ContainersAreIsolated == Spec => Isolated
<1>1. RootfsInv /\ [Next]_vars =>
        [/\ mnt'[Host] # mnt[Host] => UNCHANGED <<stage, left>>
         /\ \A n \in Containers :
              stage'[n] = stage[n] /\ left'[n] = left[n] /\ mnt'[n] # mnt[n]
                  => UNCHANGED <<stage, left>>]_vars
  <2> SUFFICES ASSUME RootfsInv, Next
               PROVE  /\ mnt'[Host] # mnt[Host] => UNCHANGED <<stage, left>>
                      /\ \A n \in Containers :
                           stage'[n] = stage[n] /\ left'[n] = left[n] /\ mnt'[n] # mnt[n]
                               => UNCHANGED <<stage, left>>
    OBVIOUS
  <2>1. CASE HostStep
    BY <2>1 DEF HostStep
  <2>2. CASE \E n \in Containers :
               /\ \A m \in Namespaces : m # n => mnt'[m] = mnt[m]
               /\ stage'[n] # stage[n] \/ left'[n] # left[n]
    BY <2>2, HostAssumption DEF Namespaces
  <2> QED BY <2>1, <2>2, Steps
<1> QED BY <1>1, RootfsInvariance, PTL DEF Spec, Isolated

(* A child ends before its command runs only where a call fails for the    *)
(* host's reasons.                                                         *)
THEOREM ChildrenAreNeverRefused == Spec => NeverRefused
<1>1. RootfsInv /\ [Next]_vars =>
        [\A n \in Containers : stage[n] # "dead" /\ stage'[n] = "dead" =>
              stage[n] \in FaultStages \cup {"running"}]_vars
  <2> SUFFICES ASSUME RootfsInv, Next, NEW n \in Containers,
                      stage[n] # "dead", stage'[n] = "dead"
               PROVE  stage[n] \in FaultStages \cup {"running"}
    OBVIOUS
  <2>1. ~HostStep
    BY DEF HostStep
  <2>2. PICK m \in Containers :
               /\ \A c \in Containers : c # m => stage'[c] = stage[c]
               /\ stage'[m] = "dead" => stage[m] \in FaultStages \cup {"running"}
    BY <2>1, Steps
  <2> QED BY <2>2
<1> QED BY <1>1, RootfsInvariance, PTL DEF Spec, NeverRefused

(* Only a volume in root_fs can follow the host into the new root, and not *)
(* where root_fs lies on a private "/".                                    *)
THEOREM NewRootIsSealed == Spec => NewRootSealed
<1>1. RootfsInv /\ [Next]_vars =>
        [\A n \in Containers :
            stage[n] \notin {"none", "slave", "private", "bind"} /\ UNCHANGED <<stage, left>>
                => \A k \in NewTree : mnt'[n][k] # mnt[n][k] =>
                      k = "newvol" /\ (base # "/" \/ n \in unsealed)]_vars
  <2> SUFFICES ASSUME RootfsInv, Next, NEW n \in Containers, NEW k \in NewTree,
                      stage[n] \notin {"none", "slave", "private", "bind"},
                      UNCHANGED <<stage, left>>, mnt'[n][k] # mnt[n][k]
               PROVE  k = "newvol" /\ (base # "/" \/ n \in unsealed)
    OBVIOUS
  <2>1. HostStep
    BY Steps
  <2>2. TypeOK /\ HostInv /\ SealInv(n)
    BY DEF RootfsInv
  <2>3. k \notin Volumes /\ k \in Mounts
    BY <2>2, Kinds DEF Volumes
  <2>4. k = "newvol" /\ mnt[n]["new"] \in {"shared", "slave"}
    BY <2>1, <2>2, <2>3, HostReach
  <2>5. base # "/" \/ n \in unsealed
    BY <2>2, <2>4 DEF SealInv
  <2> QED BY <2>4, <2>5
<1> QED BY <1>1, RootfsInvariance, PTL DEF Spec, NewRootSealed

-----------------------------------------------------------------------------
(* Rootfs implements OwnRoot.                                              *)

LEMMA SwapInit == Init => Own!OwnInit
<1> SUFFICES ASSUME Init PROVE Own!OwnInit
  OBVIOUS
<1>1. Has(Host, Mounts) = HostTree
  BY DEF Init, Has, Namespaces, Mounts, OldTree
<1>2. LifeAs = [n \in Containers |-> "none"]
  BY DEF Init, LifeAs
<1>3. OldAs = [n \in Containers |-> {}]
  BY HostAssumption DEF Init, OldAs, Has, Namespaces, Mounts
<1> QED BY <1>1, <1>2, <1>3 DEF Own!OwnInit

(* A step of one container leaves the host and the other boxes alone.      *)
LEMMA OneBox ==
    ASSUME NEW n \in Containers,
           \A m \in Namespaces : m # n => mnt'[m] = mnt[m],
           \A m \in Containers : m # n => stage'[m] = stage[m]
    PROVE  /\ Has(Host, Mounts)' = Has(Host, Mounts)
           /\ LifeAs' = [LifeAs EXCEPT ![n] = LifeAs'[n]]
           /\ OldAs' = [OldAs EXCEPT ![n] = OldAs'[n]]
<1>1. Host \in Namespaces /\ Host # n
  BY HostAssumption DEF Namespaces
<1>2. Has(Host, Mounts)' = Has(Host, Mounts)
  BY <1>1 DEF Has
<1>3. \A m \in Containers : m # n => OldAs'[m] = OldAs[m]
  BY DEF OldAs, Has, Namespaces
<1>4. \A m \in Containers : m # n => LifeAs'[m] = LifeAs[m]
  BY DEF LifeAs
<1> QED BY <1>2, <1>3, <1>4 DEF LifeAs, OldAs

LEMMA CloneSwaps ==
    ASSUME RootfsInv, NEW n \in Containers, Clone(n)
    PROVE  Own!Start(n)
<1>1. TypeOK /\ HostInv
  BY DEF RootfsInv
<1>2. /\ \A m \in Namespaces : m # n => mnt'[m] = mnt[m]
      /\ \A m \in Containers : m # n => stage'[m] = stage[m]
      /\ stage[n] = "none" /\ stage'[n] = "slave"
      /\ \A k \in Mounts : mnt'[n][k] = "none" <=> mnt[Host][k] = "none"
  BY <1>1 DEF Clone, TypeOK, Namespaces
<1>3. Has(n, OldTree)' = Has(Host, Mounts)
  BY <1>1, <1>2, Kinds DEF Has, HostInv
<1>4. LifeAs[n] = "none" /\ LifeAs'[n] = "setup" /\ OldAs'[n] = Has(Host, Mounts)
  BY <1>2, <1>3 DEF LifeAs, OldAs
<1> QED BY <1>2, <1>4, OneBox DEF Own!Start

LEMMA ChildSwaps ==
    ASSUME RootfsInv, RootfsInv', NEW n \in Containers, ChildStep(n)
    PROVE  Own!Leave(n) \/ Own!Exec(n) \/ UNCHANGED Own!ownVars
<1>1. /\ \A m \in Namespaces : m # n => mnt'[m] = mnt[m]
      /\ \A m \in Containers : m # n => stage'[m] = stage[m]
      /\ stage[n] # "detach" => KeepsOld(n)
  BY ChildAlone
<1>2. stage[n] # "detach" => OldAs'[n] = OldAs[n]
  BY <1>1 DEF KeepsOld, OldAs, Has
<1>3. \/ stage[n] = "detach" /\ stage'[n] = "links"
      \/ stage[n] = "links" /\ stage'[n] = "running"
      \/ LifeAs[n] = "setup" /\ LifeAs'[n] = "setup" /\ stage[n] # "detach"
  BY DEF RootfsInv, TypeOK, ChildStep, Proceed, LifeAs, MakeSlave, MakePrivate, BindRoot, Mkdir,
     MountFs, MakeDevice, BindConsole, PivotRoot, SlaveOldRoot, DetachOldRoot, MakeLinks
<1>4. CASE stage[n] = "detach" /\ stage'[n] = "links"
  <2>1. OldAs'[n] = {}
    BY <1>4 DEF RootfsInv, MountInv, OldAs, Has
  <2>2. LifeAs[n] = "setup" /\ LifeAs'[n] = "setup"
    BY <1>4 DEF LifeAs
  <2>3. LifeAs' = LifeAs
    BY <1>1, <2>2, OneBox DEF LifeAs
  <2> QED BY <1>1, <2>1, <2>2, <2>3, OneBox DEF Own!Leave
<1>5. CASE stage[n] = "links" /\ stage'[n] = "running"
  <2>1. OldAs[n] = {} /\ OldAs'[n] = {}
    BY <1>5 DEF RootfsInv, MountInv, OldAs, Has
  <2>2. LifeAs[n] = "setup" /\ LifeAs'[n] = "running"
    BY <1>5 DEF LifeAs
  <2>3. OldAs' = OldAs
    BY <1>1, <2>1, OneBox DEF OldAs
  <2> QED BY <1>1, <2>1, <2>2, <2>3, OneBox DEF Own!Exec
<1>6. CASE LifeAs[n] = "setup" /\ LifeAs'[n] = "setup" /\ stage[n] # "detach"
  <2>1. OldAs' = OldAs /\ LifeAs' = LifeAs
    BY <1>1, <1>2, <1>6, OneBox DEF OldAs, LifeAs
  <2> QED BY <1>1, <2>1, OneBox DEF Own!ownVars
<1> QED BY <1>3, <1>4, <1>5, <1>6

LEMMA EndSwaps ==
    ASSUME RootfsInv, NEW n \in Containers, Fail(n) \/ CommandEnds(n)
    PROVE  Own!End(n)
<1>1. ChildEnds(n) /\ stage[n] \notin {"none", "dead"} /\ n \in Namespaces
  BY DEF Fail, CommandEnds, Namespaces
<1>2. /\ \A m \in Namespaces : m # n => mnt'[m] = mnt[m]
      /\ \A m \in Containers : m # n => stage'[m] = stage[m]
      /\ stage'[n] = "dead"
      /\ \A k \in Mounts : mnt'[n][k] = "none"
  BY <1>1 DEF ChildEnds, RootfsInv, TypeOK
<1>3. OldAs'[n] = {}
  BY <1>2 DEF OldAs, Has, Mounts
<1>4. LifeAs[n] \in {"setup", "running"} /\ LifeAs'[n] = "dead"
  BY <1>1, <1>2 DEF LifeAs
<1> QED BY <1>2, <1>3, <1>4, OneBox DEF Own!End

(* A container that has left the old tree does not follow the host.        *)
LEMMA HostSwaps ==
    ASSUME RootfsInv, HostStep
    PROVE  \E v \in Volumes : Own!HostTakes(v) \/ Own!HostDrops(v)
<1>1. PICK v \in Volumes : HostMounts(v) \/ HostUnmounts(v)
  BY DEF HostStep
<1>2. /\ \A j \in Mounts \ {v} : mnt'[Host][j] = mnt[Host][j]
      /\ \/ mnt[Host][v] = "none" /\ mnt'[Host][v] = "shared"
         \/ mnt[Host][v] # "none" /\ mnt'[Host][v] = "none"
      /\ \A n \in Containers : \A j \in Mounts : mnt'[n][j] # mnt[n][j] =>
            /\ \/ j = v /\ mnt[n][On(j)] \in {"shared", "slave"}
               \/ j = "newvol" /\ mnt[n]["new"] \in {"shared", "slave"}
            /\ mnt'[n][j] = "none" <=> mnt'[Host][v] = "none"
  BY <1>1, VolumeReach DEF RootfsInv
<1>3. /\ v \in OldTree /\ v \in Mounts /\ On(v) \in OldTree /\ OldTree \subseteq Mounts
      /\ "newvol" \notin OldTree
  BY Kinds, OnFacts DEF RootfsInv, TypeOK, Volumes
<1>4. LifeAs' = LifeAs
  BY DEF HostStep, LifeAs
<1> DEFINE appears == mnt'[Host][v] # "none"
           F == {n \in Containers : mnt'[n][v] # mnt[n][v]}
<1>5. Has(Host, Mounts)' = IF appears THEN Has(Host, Mounts) \cup {v} ELSE Has(Host, Mounts) \ {v}
  BY <1>2, <1>3 DEF Has
<1>6. appears <=> v \notin Has(Host, Mounts)
  BY <1>2, <1>3 DEF Has
<1>7. ASSUME NEW n \in Containers
      PROVE  Has(n, OldTree)' =
                IF n \notin F THEN Has(n, OldTree)
                ELSE IF appears THEN Has(n, OldTree) \cup {v} ELSE Has(n, OldTree) \ {v}
  <2>1. \A k \in OldTree \ {v} : mnt'[n][k] = mnt[n][k]
    BY <1>2, <1>3
  <2>2. n \in F => (mnt'[n][v] = "none" <=> ~appears)
    BY <1>2, <1>3
  <2> QED BY <1>3, <2>1, <2>2 DEF Has
<1>8. F \in SUBSET {n \in Containers : OldAs[n] # {}}
  BY <1>2, <1>3 DEF OldAs, Has
<1>9. OldAs' = [n \in Containers |->
                  IF n \notin F THEN OldAs[n]
                  ELSE IF appears THEN OldAs[n] \cup {v} ELSE OldAs[n] \ {v}]
  BY <1>7 DEF OldAs
<1>10. Own!Follow(v, appears)
  BY <1>8, <1>9 DEF Own!Follow
<1> QED BY <1>4, <1>5, <1>6, <1>10 DEF Own!HostTakes, Own!HostDrops

LEMMA StepSwaps == RootfsInv /\ RootfsInv' /\ [Next]_vars => [Own!OwnNext]_(Own!ownVars)
<1> SUFFICES ASSUME RootfsInv, RootfsInv', [Next]_vars PROVE [Own!OwnNext]_(Own!ownVars)
  OBVIOUS
<1>1. ASSUME UNCHANGED vars PROVE UNCHANGED Own!ownVars
  BY <1>1 DEF vars, Own!ownVars, LifeAs, OldAs, Has
<1>2. ASSUME NEW n \in Containers, Clone(n) PROVE Own!OwnNext
  BY <1>2, CloneSwaps DEF Own!OwnNext
<1>3. ASSUME NEW n \in Containers, ChildStep(n) PROVE [Own!OwnNext]_(Own!ownVars)
  BY <1>3, ChildSwaps DEF Own!OwnNext
<1>4. ASSUME NEW n \in Containers, Fail(n) \/ CommandEnds(n) PROVE Own!OwnNext
  BY <1>4, EndSwaps DEF Own!OwnNext
<1>5. ASSUME HostStep PROVE Own!OwnNext
  BY <1>5, HostSwaps DEF Own!OwnNext
<1> QED BY <1>1, <1>2, <1>3, <1>4, <1>5 DEF Next

(* Every behaviour of the set-up is one of OwnRoot: to the host and the    *)
(* other containers nothing happens, and the command finds the old tree    *)
(* gone as a whole.                                                        *)
THEOREM ImplementsOwnRoot == Spec => SwapsRoot
<1>1. RootfsInv /\ [Next]_vars => RootfsInv'
  BY InvNext
<1> QED BY <1>1, SwapInit, StepSwaps, RootfsInvariance, PTL DEF Spec, SwapsRoot, Own!OwnSpec

=============================================================================
