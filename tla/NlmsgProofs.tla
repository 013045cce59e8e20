---------------------------- MODULE NlmsgProofs -----------------------------
(***************************************************************************)
(* The proofs about module Nlmsg: for names of any size, the kernel walks  *)
(* through the message in the launcher's own steps (NlmsgInv), and reads   *)
(* out of it what was put in (ReadBack).                                   *)
(***************************************************************************)
EXTENDS Nlmsg, FiniteSetTheorems, TLAPS

(* Counting the operations of a kind before the k-th.                      *)
LEMMA BeforeIs ==
    ASSUME NEW n \in Nat, NEW S \in SUBSET (1 .. n)
    PROVE  /\ \A k \in Nat : Before(S, k) \in Nat
           /\ Before(S, 1) = 0
           /\ \A k \in Nat : Before(S, k + 1) = IF k \in S THEN Before(S, k) + 1 ELSE Before(S, k)
           /\ Before(S, n + 1) = Cardinality(S)
  <1>0. \A i \in S : i \in Int /\ 1 <= i /\ i < n + 1
    OBVIOUS
  <1>1. IsFiniteSet(S)
    <2>1. IsFiniteSet(1 .. n)
      BY FS_Interval
    <2> QED  BY <2>1, FS_Subset
  <1>2. ASSUME NEW k \in Nat
        PROVE  IsFiniteSet({i \in S : i < k})
    <2>1. {i \in S : i < k} \in SUBSET S
      OBVIOUS
    <2> QED  BY <1>1, <2>1, FS_Subset
  <1>3. ASSUME NEW k \in Nat
        PROVE  Before(S, k) \in Nat
    BY <1>2, FS_CardinalityType DEF Before
  <1>4. Before(S, 1) = 0
    <2>1. {i \in S : i < 1} = {}
      <3>1. \A i \in S : ~(i < 1)
        BY <1>0
      <3> QED  BY <3>1, Zenon
    <2> QED  BY <2>1, FS_EmptySet DEF Before
  <1>5. Before(S, n + 1) = Cardinality(S)
    <2>1. {i \in S : i < n + 1} = S
      BY <1>0
    <2> QED  BY <2>1 DEF Before
  <1>6. ASSUME NEW k \in Nat
        PROVE  Before(S, k + 1) = IF k \in S THEN Before(S, k) + 1 ELSE Before(S, k)
    <2> DEFINE T == {i \in S : i < k}
    <2>0. \A i \in S : i < k + 1 <=> i < k \/ i = k
      BY <1>0
    <2>1. CASE k \in S
      <3>1. {i \in S : i < k + 1} = T \cup {k}
        BY <2>0, <2>1, Zenon
      <3>2. k \notin T /\ IsFiniteSet(T)
        BY <1>2
      <3> HIDE DEF T
      <3>3. Cardinality(T \cup {k}) = Cardinality(T) + 1
        BY <3>2, FS_AddElement
      <3> QED  BY <2>1, <3>1, <3>3 DEF Before, T
    <2>2. CASE k \notin S
      <3>1. {i \in S : i < k + 1} = T
        BY <2>0, <2>2, Zenon
      <3> QED  BY <2>2, <3>1 DEF Before
    <2> QED  BY <2>1, <2>2
  <1> QED  BY <1>3, <1>4, <1>5, <1>6

(* The work of a request: each close has a nest to close, all nests are    *)
(* closed in the end, and the peer's header follows the opening of its     *)
(* nest and nothing else.                                                  *)
WellFormed(w) ==
    /\ Len(w) \in Nat
    /\ \A k \in 1 .. Len(w) :
          /\ w[k].op \in {"put", "open", "skip", "close"}
          /\ w[k].op = "put" => w[k].size \in Nat /\ w[k].data # "nest"
          /\ w[k].op = "skip" => k > 1 /\ w[k - 1].op = "open" /\ w[k - 1].type = "INFO_PEER"
          /\ w[k].op = "open" /\ w[k].type = "INFO_PEER" => k < Len(w) /\ w[k + 1].op = "skip"
          /\ w[k].op = "close" => Depth(w, k) > 0
    /\ Depth(w, Len(w) + 1) = 0

LEMMA DepthIs ==
    ASSUME NEW w, Len(w) \in Nat
    PROVE  /\ \A k \in Nat : Depth(w, k) \in Int
           /\ Depth(w, 1) = 0
           /\ \A k \in 1 .. Len(w) :
                 Depth(w, k + 1) = CASE w[k].op = "open" -> Depth(w, k) + 1
                                     [] w[k].op = "close" -> Depth(w, k) - 1
                                     [] OTHER -> Depth(w, k)
  <1> DEFINE O == Ops(w, "open")
             C == Ops(w, "close")
  <1>1. O \in SUBSET (1 .. Len(w)) /\ C \in SUBSET (1 .. Len(w))
    BY DEF Ops
  <1>2. \A k \in 1 .. Len(w) : (k \in O <=> w[k].op = "open") /\ (k \in C <=> w[k].op = "close")
    BY DEF Ops
  <1>3. \A k : Depth(w, k) = Before(O, k) - Before(C, k)
    BY DEF Depth
  <1> HIDE DEF O, C
  <1>4. /\ \A k \in Nat : Before(O, k) \in Nat /\ Before(C, k) \in Nat
        /\ Before(O, 1) = 0 /\ Before(C, 1) = 0
    BY <1>1, BeforeIs
  <1>5. ASSUME NEW k \in 1 .. Len(w)
        PROVE  /\ Before(O, k + 1) = IF k \in O THEN Before(O, k) + 1 ELSE Before(O, k)
               /\ Before(C, k + 1) = IF k \in C THEN Before(C, k) + 1 ELSE Before(C, k)
    <2>1. k \in Nat
      OBVIOUS
    <2>2. Before(O, k + 1) = IF k \in O THEN Before(O, k) + 1 ELSE Before(O, k)
      BY <1>1, <2>1, BeforeIs
    <2>3. Before(C, k + 1) = IF k \in C THEN Before(C, k) + 1 ELSE Before(C, k)
      BY <1>1, <2>1, BeforeIs
    <2> QED  BY <2>2, <2>3
  <1>6. ASSUME NEW k \in 1 .. Len(w)
        PROVE  Depth(w, k + 1) = CASE w[k].op = "open" -> Depth(w, k) + 1
                                   [] w[k].op = "close" -> Depth(w, k) - 1
                                   [] OTHER -> Depth(w, k)
    <2>1. Before(O, k) \in Nat /\ Before(C, k) \in Nat
      BY <1>4
    <2> QED  BY <1>2, <1>3, <1>5, <2>1
  <1> QED  BY <1>3, <1>4, <1>6

(* A request with data only.                                               *)
LEMMA FlatIsWellFormed ==
    ASSUME NEW w, Len(w) \in 0 .. 3,
           \A k \in 1 .. Len(w) : w[k].op = "put" /\ w[k].size \in Nat /\ w[k].data # "nest"
    PROVE  WellFormed(w)
  <1>1. Depth(w, Len(w) + 1) = 0
    <2>1. \A k \in 1 .. Len(w) : Depth(w, k + 1) = Depth(w, k)
      BY DepthIs
    <2>2. Depth(w, 1) = 0
      BY DepthIs
    <2>3. /\ 1 <= Len(w) => Depth(w, 2) = 0
          /\ 2 <= Len(w) => Depth(w, 3) = 0
          /\ 3 <= Len(w) => Depth(w, 4) = 0
      <3>1. 1 <= Len(w) => Depth(w, 1 + 1) = Depth(w, 1)
        BY <2>1
      <3>2. 2 <= Len(w) => Depth(w, 2 + 1) = Depth(w, 2)
        BY <2>1
      <3>3. 3 <= Len(w) => Depth(w, 3 + 1) = Depth(w, 3)
        BY <2>1
      <3> QED  BY <2>2, <3>1, <3>2, <3>3
    <2>4. Len(w) \in {0, 1, 2, 3}
      OBVIOUS
    <2> QED  BY <2>2, <2>3, <2>4
  <1> QED  BY <1>1 DEF WellFormed

LEMMA PairIsWellFormed ==
    ASSUME NEW n \in Nat, NEW m \in Nat
    PROVE  WellFormed(NewPair(n, m))
  <1> DEFINE w == NewPair(n, m)
  <1>1. Len(w) = 10
    BY DEF NewPair
  <1>2. /\ w[1].op = "put" /\ w[2].op = "open" /\ w[3].op = "put" /\ w[4].op = "open"
        /\ w[5].op = "open" /\ w[6].op = "skip" /\ w[7].op = "put"
        /\ w[8].op = "close" /\ w[9].op = "close" /\ w[10].op = "close"
    BY DEF NewPair, PutOp, OpenOp, SkipOp, CloseOp
  <1>3. /\ w[1].size = n /\ w[3].size = 5 /\ w[7].size = m
        /\ w[1].data = "veth1" /\ w[3].data = "veth" /\ w[7].data = "vpeer1"
        /\ w[2].type = "LINKINFO" /\ w[4].type = "INFO_DATA" /\ w[5].type = "INFO_PEER"
    BY DEF NewPair, PutOp, OpenOp
  <1> HIDE DEF w
  <1>4. /\ Depth(w, 2) = 0 /\ Depth(w, 3) = 1 /\ Depth(w, 4) = 1 /\ Depth(w, 5) = 2
        /\ Depth(w, 6) = 3 /\ Depth(w, 7) = 3 /\ Depth(w, 8) = 3 /\ Depth(w, 9) = 2
        /\ Depth(w, 10) = 1 /\ Depth(w, 11) = 0
    <2>1. Depth(w, 1) = 0
      BY <1>1, DepthIs
    <2>2. \A k \in 1 .. 10 : Depth(w, k + 1) = CASE w[k].op = "open" -> Depth(w, k) + 1
                                                 [] w[k].op = "close" -> Depth(w, k) - 1
                                                 [] OTHER -> Depth(w, k)
      <3>1. Len(w) \in Nat /\ 1 .. Len(w) = 1 .. 10
        BY <1>1
      <3> QED  BY <3>1, DepthIs
    <2>3. Depth(w, 1 + 1) = 0 /\ Depth(w, 2 + 1) = Depth(w, 2) + 1
      BY <1>2, <2>1, <2>2
    <2>4. Depth(w, 3 + 1) = Depth(w, 3) /\ Depth(w, 4 + 1) = Depth(w, 4) + 1
      BY <1>2, <2>2
    <2>5. Depth(w, 5 + 1) = Depth(w, 5) + 1 /\ Depth(w, 6 + 1) = Depth(w, 6)
      BY <1>2, <2>2
    <2>6. Depth(w, 7 + 1) = Depth(w, 7) /\ Depth(w, 8 + 1) = Depth(w, 8) - 1
      BY <1>2, <2>2
    <2>7. Depth(w, 9 + 1) = Depth(w, 9) - 1 /\ Depth(w, 10 + 1) = Depth(w, 10) - 1
      BY <1>2, <2>2
    <2> QED  BY <2>3, <2>4, <2>5, <2>6, <2>7
  <1>5. ASSUME NEW k \in 1 .. 10
        PROVE  /\ w[k].op \in {"put", "open", "skip", "close"}
               /\ w[k].op = "put" => w[k].size \in Nat /\ w[k].data # "nest"
               /\ w[k].op = "skip" => k > 1 /\ w[k - 1].op = "open" /\ w[k - 1].type = "INFO_PEER"
               /\ w[k].op = "open" /\ w[k].type = "INFO_PEER" => k < 10 /\ w[k + 1].op = "skip"
               /\ w[k].op = "close" => Depth(w, k) > 0
    <2>1. k \in {1, 2, 3, 4, 5, 6, 7, 8, 9, 10}
      OBVIOUS
    <2> QED  BY <1>2, <1>3, <1>4, <2>1
  <1>6. WellFormed(w)
    BY <1>1, <1>4, <1>5 DEF WellFormed
  <1> QED  BY <1>6 DEF w

LEMMA RequestsAre ==
    ASSUME NEW r \in Requests
    PROVE  /\ WellFormed(r.work)
           /\ r.body \in {"ifinfomsg", "ifaddrmsg", "rtmsg"}
  <1>1. ASSUME NEW n \in NameSizes, NEW m \in NameSizes,
               r = [body |-> "ifinfomsg", work |-> NewPair(n, m)]
        PROVE  WellFormed(r.work) /\ r.body = "ifinfomsg"
    BY <1>1, PairIsWellFormed, NameSizesAssumption
  <1>2. WellFormed(NewAddr) /\ WellFormed(NewLink) /\ WellFormed(MoveLink) /\ WellFormed(NewRoute)
    <2>1. WellFormed(NewAddr)
      BY FlatIsWellFormed DEF NewAddr, PutOp
    <2>2. WellFormed(NewLink)
      BY FlatIsWellFormed DEF NewLink
    <2>3. WellFormed(MoveLink)
      BY FlatIsWellFormed DEF MoveLink, PutOp
    <2>4. WellFormed(NewRoute)
      BY FlatIsWellFormed DEF NewRoute, PutOp
    <2> QED  BY <2>1, <2>2, <2>3, <2>4
  <1> QED  BY <1>1, <1>2 DEF Requests

-----------------------------------------------------------------------------
(* Alignment to four bytes.                                                *)
LEMMA AlignIs ==
    ASSUME NEW n \in Nat
    PROVE  /\ Align(n) \in Nat /\ Align(n) >= n
           /\ \E q \in Nat : Align(n) = 4 * q
  <1>1. (n + 3) \div 4 \in Nat /\ 4 * ((n + 3) \div 4) >= n
    OBVIOUS
  <1> QED  BY <1>1 DEF Align

LEMMA AlignedIs ==
    ASSUME NEW n \in Nat
    PROVE  Align(n) = n <=> \E q \in Nat : n = 4 * q
  <1>1. ASSUME NEW q \in Nat, n = 4 * q
        PROVE  Align(n) = n
    <2>1. (4 * q + 3) \div 4 = q
      OBVIOUS
    <2> QED  BY <1>1, <2>1 DEF Align
  <1> QED  BY <1>1, AlignIs

LEMMA AlignedSum ==
    ASSUME NEW m \in Nat, NEW n \in Nat, Align(m) = m
    PROVE  /\ Align(m + Align(n)) = m + Align(n)
           /\ Align(m + 4) = m + 4 /\ Align(m + 16) = m + 16
           /\ Align(n) = n /\ m >= n => Align(m - n) = m - n
  <1>1. PICK q \in Nat : m = 4 * q
    BY AlignedIs
  <1>2. Align(m + Align(n)) = m + Align(n)
    <2>1. PICK p \in Nat : Align(n) = 4 * p
      BY AlignIs
    <2>2. m + Align(n) = 4 * (q + p) /\ q + p \in Nat /\ m + Align(n) \in Nat
      BY <1>1, <2>1
    <2> QED  BY <2>2, AlignedIs
  <1>3. Align(m + 4) = m + 4
    <2>1. m + 4 = 4 * (q + 1) /\ q + 1 \in Nat /\ m + 4 \in Nat
      BY <1>1
    <2> QED  BY <2>1, AlignedIs
  <1>4. Align(m + 16) = m + 16
    <2>1. m + 16 = 4 * (q + 4) /\ q + 4 \in Nat /\ m + 16 \in Nat
      BY <1>1
    <2> QED  BY <2>1, AlignedIs
  <1>5. ASSUME Align(n) = n, m >= n
        PROVE  Align(m - n) = m - n
    <2>1. PICK p \in Nat : n = 4 * p
      BY <1>5, AlignedIs
    <2>2. m - n = 4 * (q - p) /\ q - p \in Nat /\ m - n \in Nat
      BY <1>1, <1>5, <2>1
    <2> QED  BY <2>2, AlignedIs
  <1> QED  BY <1>2, <1>3, <1>4, <1>5

LEMMA SizesAre ==
    /\ RtattrSize = 4 /\ BodySize.ifinfomsg = 16 /\ Align(RtattrSize + 0) = 4
    /\ \A b \in {"ifinfomsg", "ifaddrmsg", "rtmsg"} :
          HeaderSize + BodySize[b] \in Nat /\ Align(HeaderSize + BodySize[b]) = HeaderSize + BodySize[b]
  <1>1. /\ BodySize["ifinfomsg"] = 16 /\ BodySize["ifaddrmsg"] = 8 /\ BodySize["rtmsg"] = 12
        /\ BodySize.ifinfomsg = 16
    BY DEF BodySize
  <1>2. Align(32) = 32 /\ Align(24) = 24 /\ Align(28) = 28 /\ Align(4) = 4
    BY DEF Align
  <1> QED  BY <1>1, <1>2 DEF HeaderSize, RtattrSize

-----------------------------------------------------------------------------
(* What holds of the request throughout.                                   *)
LEMMA WorkIs ==
    ASSUME TrailInv
    PROVE  /\ WellFormed(work) /\ step \in 1 .. Len(work) + 1 /\ Len(work) \in Nat
           /\ nlmsg_len \in Nat /\ nests \in Seq(Nat) /\ MsgTail = nlmsg_len
           /\ trail[step].len = nlmsg_len /\ trail[step].nests = nests
           /\ \A k \in 1 .. step : trail[k].len \in Nat /\ trail[k].nests \in Seq(Nat)
  <1>1. WellFormed(work) /\ Len(work) \in Nat
    BY RequestsAre DEF TrailInv, work, WellFormed
  <1>2. /\ step \in 1 .. Len(work) + 1 /\ step = Len(trail)
        /\ trail \in Seq([len : Nat, nests : Seq(Nat)])
        /\ trail[step] = Trail(nlmsg_len, nests)
        /\ Align(trail[step].len) = trail[step].len
    BY <1>1 DEF TrailInv, step
  <1>3. \A k \in 1 .. step : trail[k] \in [len : Nat, nests : Seq(Nat)]
    <2> DEFINE R == [len : Nat, nests : Seq(Nat)]
    <2>1. trail \in Seq(R) /\ step = Len(trail)
      BY <1>2
    <2> HIDE DEF R
    <2>2. \A k \in 1 .. step : trail[k] \in R
      BY <2>1
    <2> QED  BY <2>2 DEF R
  <1>4. /\ trail[step].len = nlmsg_len /\ trail[step].nests = nests
        /\ trail[step] \in [len : Nat, nests : Seq(Nat)]
    BY <1>1, <1>2, <1>3 DEF Trail
  <1> QED  BY <1>1, <1>2, <1>3, <1>4 DEF MsgTail

LEMMA InitNlmsg == NlmsgInit => NlmsgInv
  <1> SUFFICES ASSUME NlmsgInit PROVE NlmsgInv
    OBVIOUS
  <1>1. /\ request \in Requests /\ attrs = <<>> /\ nests = <<>>
        /\ nlmsg_len = HeaderSize + BodySize[request.body]
        /\ trail = <<Trail(nlmsg_len, nests)>> /\ pos = nlmsg_len /\ inside = <<>> /\ read = <<>>
    BY DEF NlmsgInit
  <1>2. WellFormed(work) /\ Len(work) \in Nat /\ nlmsg_len \in Nat /\ Align(nlmsg_len) = nlmsg_len
    <2>1. WellFormed(work) /\ Len(work) \in Nat
      BY <1>1, RequestsAre DEF work, WellFormed
    <2>2. request.body \in {"ifinfomsg", "ifaddrmsg", "rtmsg"}
      BY <1>1, RequestsAre
    <2> QED  BY <1>1, <2>1, <2>2, SizesAre
  <1>3. /\ step = 1 /\ trail[1] = Trail(nlmsg_len, nests)
        /\ trail[1].len = nlmsg_len /\ trail[1].nests = <<>>
        /\ trail \in Seq([len : Nat, nests : Seq(Nat)])
    BY <1>1, <1>2 DEF step, Trail
  <1>4. TrailInv
    BY <1>1, <1>2, <1>3 DEF TrailInv
  <1>5. NestInv
    <2>1. Depth(work, 1) = 0
      BY <1>2, DepthIs
    <2>2. Ops(work, "open") \subseteq Nat /\ Ops(work, "close") \subseteq Nat
      BY <1>2 DEF Ops
    <2>3. Len(trail[1].nests) = 0 /\ 1 .. step = {1}
      BY <1>3
    <2>4. \A o \in Nat : o >= 1 => o + 1 .. step = {}
      BY <1>3
    <2>5. Ops(work, "open") \subseteq 1 .. Len(work) /\ Ops(work, "close") \subseteq 1 .. Len(work)
      BY DEF Ops
    <2>6. \A o \in Ops(work, "open") \cup Ops(work, "close") : o + 1 .. step = {}
      BY <2>2, <2>4, <2>5
    <2> QED  BY <2>1, <2>3, <2>6 DEF NestInv
  <1>6. AttrInv
    <2>1. /\ Ops(work, "open") \subseteq Nat \ {0} /\ Ops(work, "close") \subseteq Nat \ {0}
          /\ Attributes(work) \subseteq Nat \ {0}
      BY <1>2 DEF Ops, Attributes
    <2>2. DOMAIN attrs = {}
      BY <1>1
    <2> QED  BY <1>3, <2>1, <2>2 DEF AttrInv
  <1>7. Retraced(1)
    <2>1. Attributes(work) \in SUBSET (1 .. Len(work))
      BY DEF Attributes, Ops
    <2>2. Before(Attributes(work), 1) = 0
      BY <1>2, <2>1, BeforeIs
    <2>3. \A i \in Attributes(work) : ~(i < 1)
      BY <1>2, <2>1
    <2>4. 1 <= Len(work) => work[1].op # "skip"
      BY <1>2 DEF WellFormed
    <2>5. read \in Seq({MeantBy(work, i) : i \in Attributes(work)})
      <3> DEFINE R == {MeantBy(work, i) : i \in Attributes(work)}
      <3> HIDE DEF R
      <3>1. read \in Seq(R)
        BY <1>1
      <3> QED  BY <3>1 DEF R
    <2>6. pos = trail[1].len /\ inside = trail[1].nests /\ Len(read) = 0
      BY <1>1, <1>3
    <2> QED  BY <2>2, <2>3, <2>4, <2>5, <2>6 DEF Retraced
  <1> QED  BY <1>3, <1>4, <1>5, <1>6, <1>7 DEF NlmsgInv

-----------------------------------------------------------------------------
(* What the launcher's operation at hand does to nlmsg_len and nests.      *)
Effect ==
    /\ work[step].op = "put" =>
          nlmsg_len' = nlmsg_len + Align(RtattrSize + work[step].size) /\ nests' = nests
    /\ work[step].op = "open" =>
          nlmsg_len' = nlmsg_len + RtattrSize /\ nests' = <<nlmsg_len>> \o nests
    /\ work[step].op = "skip" => nlmsg_len' = nlmsg_len + BodySize.ifinfomsg /\ nests' = nests
    /\ work[step].op = "close" =>
          nests # <<>> /\ nlmsg_len' = nlmsg_len /\ nests' = Tail(nests)

LEMMA Kinds ==
    ASSUME TrailInv, ~Sent
    PROVE  /\ step \in 1 .. Len(work) /\ step \in Nat /\ Len(work) \in Nat
           /\ work[step].op \in {"put", "open", "skip", "close"}
           /\ work[step].op = "put" => work[step].size \in Nat
           /\ step \in Attributes(work) <=> work[step].op \in {"put", "open"}
           /\ step \in Ops(work, "open") <=> work[step].op = "open"
           /\ step \in Ops(work, "close") <=> work[step].op = "close"
           /\ Attributes(work) \in SUBSET (1 .. Len(work))
           /\ Ops(work, "open") \in SUBSET (1 .. Len(work))
           /\ Ops(work, "close") \in SUBSET (1 .. Len(work))
  <1>1. step \in 1 .. Len(work) /\ WellFormed(work) /\ Len(work) \in Nat
    BY WorkIs DEF Sent
  <1>2. /\ work[step].op \in {"put", "open", "skip", "close"}
        /\ work[step].op = "put" => work[step].size \in Nat
    BY <1>1 DEF WellFormed
  <1> QED  BY <1>1, <1>2 DEF Attributes, Ops

LEMMA EffectIs ==
    ASSUME TrailInv, ~Sent, Effect
    PROVE  /\ nlmsg_len' \in Nat /\ nests' \in Seq(Nat)
           /\ Align(nlmsg_len') = nlmsg_len' /\ nlmsg_len' >= nlmsg_len
           /\ step \in Attributes(work) => nlmsg_len' > nlmsg_len
  <1>1. nlmsg_len \in Nat /\ nests \in Seq(Nat) /\ Align(nlmsg_len) = nlmsg_len
    BY WorkIs DEF MsgTail
  <1>2. CASE work[step].op = "put"
    <2>1. RtattrSize + work[step].size \in Nat /\ RtattrSize + work[step].size > 0
      BY <1>2, Kinds, SizesAre
    <2>2. /\ Align(RtattrSize + work[step].size) \in Nat
          /\ Align(RtattrSize + work[step].size) > 0
      BY <2>1, AlignIs
    <2>3. /\ nlmsg_len' = nlmsg_len + Align(RtattrSize + work[step].size)
          /\ nests' = nests
      BY <1>2 DEF Effect
    <2>4. Align(nlmsg_len') = nlmsg_len'
      BY <1>1, <2>1, <2>3, AlignedSum
    <2> QED  BY <1>1, <2>2, <2>3, <2>4
  <1>3. CASE work[step].op = "open"
    <2>1. nlmsg_len' = nlmsg_len + 4 /\ nests' = <<nlmsg_len>> \o nests
      BY <1>3, SizesAre DEF Effect
    <2>2. nests' \in Seq(Nat)
      BY <1>1, <2>1
    <2>3. Align(nlmsg_len + 4) = nlmsg_len + 4
      BY <1>1, AlignedSum
    <2> QED  BY <1>1, <2>1, <2>2, <2>3
  <1>4. CASE work[step].op = "skip"
    <2>1. nlmsg_len' = nlmsg_len + 16 /\ nests' = nests
      BY <1>4, SizesAre DEF Effect
    <2>2. step \notin Attributes(work)
      BY <1>4, Kinds
    <2>3. Align(nlmsg_len + 16) = nlmsg_len + 16
      BY <1>1, AlignedSum
    <2> QED  BY <1>1, <2>1, <2>2, <2>3
  <1>5. CASE work[step].op = "close"
    BY <1>1, <1>5, Kinds DEF Effect
  <1> QED  BY <1>2, <1>3, <1>4, <1>5, Kinds

(* An operation adds to the trail what it does, and changes nothing there. *)
LEMMA TrailGrows ==
    ASSUME TrailInv, ~Sent, Effect, Proceed
    PROVE  /\ request' = request /\ work' = work /\ step' = step + 1
           /\ \A k \in 1 .. step : trail'[k] = trail[k]
           /\ trail'[step + 1].len = nlmsg_len' /\ trail'[step + 1].nests = nests'
           /\ TrailInv'
  <1> DEFINE R == [len : Nat, nests : Seq(Nat)]
             t == Trail(nlmsg_len', nests')
  <1>1. request' = request /\ work' = work
    BY DEF Proceed, work
  <1>2. /\ step \in 1 .. Len(work) /\ step = Len(trail) /\ trail \in Seq(R)
        /\ Len(work) \in Nat /\ step \in Nat
    BY WorkIs, Kinds DEF TrailInv, step
  <1>3. t \in R /\ t.len = nlmsg_len' /\ t.nests = nests'
    BY EffectIs DEF Trail
  <1>4. trail' = Append(trail, t)
    BY DEF Proceed
  <1>5. /\ trail' \in Seq(R) /\ Len(trail') = step + 1
        /\ \A k \in 1 .. step : trail'[k] = trail[k]
        /\ trail'[step + 1] = t
    <2> HIDE DEF R, t
    <2> QED  BY <1>2, <1>3, <1>4
  <1>6. step' = step + 1
    BY <1>5 DEF step
  <1>7. trail[step].len = nlmsg_len /\ trail[step].nests = nests /\ nlmsg_len \in Nat
    BY WorkIs
  <1>8. \A k \in 1 .. step' - 1 : Laid(k)'
    <2>1. ASSUME NEW k \in 1 .. step - 1
          PROVE  Laid(k)'
      <3>1. Laid(k)
        BY <2>1 DEF TrailInv
      <3>2. k \in 1 .. step /\ k + 1 \in 1 .. step
        BY <1>2
      <3>3. trail'[k] = trail[k] /\ trail'[k + 1] = trail[k + 1]
        BY <1>5, <3>2
      <3> QED  BY <1>1, <3>1, <3>3 DEF Laid
    <2>2. ASSUME NEW k, k = step
          PROVE  Laid(k)'
      <3>1. trail'[k] = trail[step] /\ trail'[k + 1] = Trail(nlmsg_len', nests') /\ work'[k] = work[step]
        BY <1>1, <1>2, <1>5, <2>2
      <3> QED  BY <1>7, <3>1, Kinds DEF Laid, Effect
    <2>3. \A k \in 1 .. step' - 1 : k \in 1 .. step - 1 \/ k = step
      BY <1>2, <1>6
    <2> QED  BY <2>1, <2>2, <2>3
  <1>9. \A k \in 1 .. step' : Align(trail'[k].len) = trail'[k].len
    <2>1. \A k \in 1 .. step : Align(trail'[k].len) = trail'[k].len
      BY <1>5 DEF TrailInv
    <2>2. Align(trail'[step + 1].len) = trail'[step + 1].len
      BY <1>3, <1>5, EffectIs
    <2>3. \A k \in 1 .. step' : k \in 1 .. step \/ k = step + 1
      BY <1>2, <1>6
    <2> QED  BY <2>1, <2>2, <2>3
  <1>10. \A k \in 1 .. step' : \A j \in 1 .. k - 1 :
            /\ trail'[j].len <= trail'[k].len
            /\ j \in Attributes(work)' => trail'[j].len < trail'[k].len
    <2>1. ASSUME NEW k \in 1 .. step, NEW j \in 1 .. k - 1
          PROVE  /\ trail'[j].len <= trail'[k].len
                 /\ j \in Attributes(work) => trail'[j].len < trail'[k].len
      <3>1. j \in 1 .. step
        BY <1>2
      <3>2. /\ trail[j].len <= trail[k].len
            /\ j \in Attributes(work) => trail[j].len < trail[k].len
        BY DEF TrailInv
      <3> QED  BY <1>5, <3>1, <3>2
    <2>2. ASSUME NEW j \in 1 .. step
          PROVE  /\ trail'[j].len <= trail'[step + 1].len
                 /\ j \in Attributes(work) => trail'[j].len < trail'[step + 1].len
      <3>1. trail'[step + 1].len = nlmsg_len' /\ trail'[j].len = trail[j].len
        BY <1>3, <1>5
      <3>2. /\ nlmsg_len' \in Nat /\ nlmsg_len' >= nlmsg_len
            /\ step \in Attributes(work) => nlmsg_len' > nlmsg_len
        BY EffectIs
      <3>3. CASE j = step
        BY <1>7, <3>1, <3>2, <3>3
      <3>4. CASE j # step
        <4>1. j \in 1 .. step - 1 /\ step \in 1 .. step
          BY <1>2, <3>4
        <4>2. /\ trail[j].len <= trail[step].len
              /\ j \in Attributes(work) => trail[j].len < trail[step].len
          BY <4>1 DEF TrailInv
        <4>3. trail[j].len \in Nat
          BY WorkIs
        <4> QED  BY <1>7, <3>1, <3>2, <4>2, <4>3
      <3> QED  BY <3>3, <3>4
    <2>3. \A k \in 1 .. step' : k \in 1 .. step \/ (k = step + 1 /\ k - 1 = step)
      BY <1>2, <1>6
    <2>4. Attributes(work)' = Attributes(work)
      BY <1>1 DEF Attributes, Ops
    <2> QED  BY <2>1, <2>2, <2>3, <2>4
  <1>11. TrailInv'
    <2>1. request' \in Requests /\ step' \in 1 .. Len(work') + 1
      BY <1>1, <1>2, <1>6 DEF TrailInv
    <2>2. trail'[1] = Trail(HeaderSize + BodySize[request'.body], <<>>)
      BY <1>1, <1>2, <1>5 DEF TrailInv
    <2>3. trail'[step'] = Trail(nlmsg_len', nests')
      BY <1>5, <1>6
    <2> QED  BY <1>5, <1>8, <1>9, <1>10, <2>1, <2>2, <2>3 DEF TrailInv
  <1> QED  BY <1>1, <1>3, <1>5, <1>6, <1>11

-----------------------------------------------------------------------------
(* Stacks as sequences.                                                    *)
LEMMA PushIs ==
    ASSUME NEW x \in Nat, NEW s \in Seq(Nat)
    PROVE  /\ Len(<<x>> \o s) = Len(s) + 1 /\ Len(s) \in Nat
           /\ <<x>> \o s # <<>> /\ Head(<<x>> \o s) = x /\ Tail(<<x>> \o s) = s
           /\ (<<x>> \o s)[1] = x
           /\ \A m \in 2 .. Len(s) + 1 : m - 1 \in 1 .. Len(s) /\ (<<x>> \o s)[m] = s[m - 1]
           /\ Range(<<x>> \o s) = {x} \cup Range(s)
  <1> DEFINE t == <<x>> \o s
  <1>1. t \in Seq(Nat) /\ Len(t) = Len(s) + 1 /\ Len(s) \in Nat
    OBVIOUS
  <1>2. t # <<>> /\ t[1] = x /\ Head(t) = x /\ Tail(t) = s
    OBVIOUS
  <1>3. \A m \in 2 .. Len(s) + 1 : m - 1 \in 1 .. Len(s) /\ t[m] = s[m - 1]
    OBVIOUS
  <1>4. DOMAIN t = 1 .. Len(s) + 1 /\ DOMAIN s = 1 .. Len(s)
    OBVIOUS
  <1>5. Range(t) = {x} \cup Range(s)
    <2>1. \A m \in 1 .. Len(s) : m + 1 \in 1 .. Len(s) + 1 /\ t[m + 1] = s[m]
      OBVIOUS
    <2>2. \A m \in 1 .. Len(s) + 1 : t[m] = x \/ t[m] \in Range(s)
      <3> TAKE m \in 1 .. Len(s) + 1
      <3>1. m = 1 \/ m \in 2 .. Len(s) + 1
        BY <1>1
      <3> QED  BY <1>2, <1>3, <1>4, <3>1 DEF Range
    <2>3. x \in Range(t)
      BY <1>1, <1>2, <1>4 DEF Range
    <2>4. \A m \in 1 .. Len(s) : s[m] \in Range(t)
      BY <1>4, <2>1 DEF Range
    <2> HIDE DEF t
    <2> QED  BY <1>4, <2>2, <2>3, <2>4 DEF Range
  <1> QED  BY <1>1, <1>2, <1>3, <1>5

LEMMA PopIs ==
    ASSUME NEW s \in Seq(Nat), s # <<>>
    PROVE  /\ Tail(s) \in Seq(Nat) /\ Len(Tail(s)) = Len(s) - 1 /\ Len(s) \in Nat /\ Len(s) > 0
           /\ Head(s) = s[1] /\ Head(s) \in Nat /\ Head(s) \in Range(s)
           /\ \A m \in 1 .. Len(s) - 1 : m + 1 \in 1 .. Len(s) /\ Tail(s)[m] = s[m + 1]
           /\ Range(Tail(s)) \subseteq Range(s)
           /\ \A x \in Range(s) : x = Head(s) \/ x \in Range(Tail(s))
  <1>1. Tail(s) \in Seq(Nat) /\ Len(Tail(s)) = Len(s) - 1 /\ Len(s) \in Nat /\ Len(s) > 0
    OBVIOUS
  <1>2. Head(s) = s[1] /\ Head(s) \in Nat
    OBVIOUS
  <1>3. \A m \in 1 .. Len(s) - 1 : m + 1 \in 1 .. Len(s) /\ Tail(s)[m] = s[m + 1]
    OBVIOUS
  <1>4. DOMAIN s = 1 .. Len(s) /\ DOMAIN Tail(s) = 1 .. Len(s) - 1
    BY <1>1
  <1>5. Head(s) \in Range(s)
    BY <1>1, <1>2, <1>4 DEF Range
  <1>6. Range(Tail(s)) \subseteq Range(s)
    BY <1>3, <1>4 DEF Range
  <1>7. ASSUME NEW m \in 1 .. Len(s)
        PROVE  s[m] = Head(s) \/ s[m] \in Range(Tail(s))
    <2>1. CASE m = 1
      BY <1>2, <2>1
    <2>2. CASE m # 1
      <3>1. m - 1 \in 1 .. Len(s) - 1 /\ (m - 1) + 1 = m
        BY <1>1, <2>2
      <3> QED  BY <1>3, <1>4, <3>1 DEF Range
    <2> QED  BY <2>1, <2>2
  <1> QED  BY <1>1, <1>2, <1>3, <1>4, <1>5, <1>6, <1>7 DEF Range

-----------------------------------------------------------------------------
(* What the operation at hand makes of the open nests.                     *)
LEMMA NestsNow ==
    ASSUME TrailInv, NestInv, ~Sent, Effect
    PROVE  /\ Len(nests') = Depth(work, step + 1)
           /\ \A m \in 1 .. Len(nests') :
                 /\ \E o \in Ops(work, "open") : o <= step /\ nests'[m] = trail[o].len
                 /\ \A n \in 1 .. m - 1 : nests'[m] < nests'[n]
  <1>1. /\ step \in 1 .. Len(work) /\ step \in Nat /\ nests \in Seq(Nat) /\ nlmsg_len \in Nat
        /\ trail[step].nests = nests /\ trail[step].len = nlmsg_len
    BY WorkIs, Kinds
  <1>2. /\ Len(nests) = Depth(work, step)
        /\ \A m \in 1 .. Len(nests) :
              /\ \E o \in Ops(work, "open") : o < step /\ nests[m] = trail[o].len
              /\ \A n \in 1 .. m - 1 : nests[m] < nests[n]
    BY <1>1 DEF NestInv
  <1>3. Depth(work, step + 1) = CASE work[step].op = "open" -> Depth(work, step) + 1
                                  [] work[step].op = "close" -> Depth(work, step) - 1
                                  [] OTHER -> Depth(work, step)
    BY <1>1, Kinds, DepthIs
  <1>4. \A o \in Ops(work, "open") : o < step => o <= step
    BY <1>1, Kinds
  <1>5. CASE work[step].op \in {"put", "skip"}
    <2>1. nests' = nests
      BY <1>5 DEF Effect
    <2> QED  BY <1>2, <1>3, <1>4, <1>5, <2>1
  <1>6. CASE work[step].op = "open"
    <2>1. nests' = <<nlmsg_len>> \o nests
      BY <1>6 DEF Effect
    <2>2. /\ Len(nests') = Len(nests) + 1 /\ Len(nests) \in Nat /\ nests'[1] = nlmsg_len
          /\ \A m \in 2 .. Len(nests) + 1 : m - 1 \in 1 .. Len(nests) /\ nests'[m] = nests[m - 1]
      BY <1>1, <2>1, PushIs
    <2>3. step \in Ops(work, "open") /\ nests'[1] = trail[step].len
      BY <1>1, <1>6, <2>2, Kinds
    <2>4. ASSUME NEW m \in 2 .. Len(nests) + 1
          PROVE  /\ \E o \in Ops(work, "open") : o <= step /\ nests'[m] = trail[o].len
                 /\ \A n \in 1 .. m - 1 : nests'[m] < nests'[n]
      <3>1. m - 1 \in 1 .. Len(nests) /\ nests'[m] = nests[m - 1]
        BY <2>2
      <3>2. PICK o \in Ops(work, "open") : o < step /\ nests[m - 1] = trail[o].len
        BY <1>2, <3>1
      <3>3. nests'[m] < nests'[1]
        <4>1. o \in 1 .. step - 1 /\ o \in Attributes(work) /\ step \in 1 .. step
          BY <1>1, <3>2, Kinds DEF Attributes
        <4>2. trail[o].len < trail[step].len
          BY <4>1 DEF TrailInv
        <4> QED  BY <2>3, <3>1, <3>2, <4>2
      <3>4. ASSUME NEW n \in 2 .. m - 1
            PROVE  nests'[m] < nests'[n]
        <4>1. n - 1 \in 1 .. (m - 1) - 1 /\ nests'[n] = nests[n - 1]
          BY <2>2
        <4> QED  BY <1>2, <3>1, <4>1
      <3>5. \A n \in 1 .. m - 1 : n = 1 \/ n \in 2 .. m - 1
        OBVIOUS
      <3> QED  BY <1>4, <3>1, <3>2, <3>3, <3>4, <3>5
    <2>5. \A m \in 1 .. Len(nests') : m \in 2 .. Len(nests) + 1 \/ (m = 1 /\ 1 .. m - 1 = {})
      BY <2>2
    <2>6. step <= step
      BY <1>1
    <2>7. \A m \in 1 .. Len(nests') :
             /\ \E o \in Ops(work, "open") : o <= step /\ nests'[m] = trail[o].len
             /\ \A n \in 1 .. m - 1 : nests'[m] < nests'[n]
      BY <2>3, <2>4, <2>5, <2>6
    <2> QED  BY <1>2, <1>3, <1>6, <2>2, <2>7
  <1>7. CASE work[step].op = "close"
    <2>1. nests # <<>> /\ nests' = Tail(nests)
      BY <1>7 DEF Effect
    <2>2. /\ Len(nests') = Len(nests) - 1 /\ Len(nests) \in Nat
          /\ \A m \in 1 .. Len(nests) - 1 : m + 1 \in 1 .. Len(nests) /\ nests'[m] = nests[m + 1]
      BY <1>1, <2>1, PopIs
    <2>3. ASSUME NEW m \in 1 .. Len(nests')
          PROVE  /\ \E o \in Ops(work, "open") : o <= step /\ nests'[m] = trail[o].len
                 /\ \A n \in 1 .. m - 1 : nests'[m] < nests'[n]
      <3>1. m + 1 \in 1 .. Len(nests) /\ nests'[m] = nests[m + 1]
        BY <2>2
      <3>2. ASSUME NEW n \in 1 .. m - 1
            PROVE  nests'[m] < nests'[n]
        <4>1. n \in 1 .. Len(nests) - 1 /\ n + 1 \in 1 .. (m + 1) - 1
          BY <2>2
        <4>2. nests'[n] = nests[n + 1]
          BY <2>2, <4>1
        <4> QED  BY <1>2, <3>1, <4>1, <4>2
      <3> QED  BY <1>2, <1>4, <3>1, <3>2
    <2>4. Len(nests') = Depth(work, step + 1)
      BY <1>2, <1>3, <1>7, <2>2
    <2> QED  BY <2>3, <2>4
  <1> QED  BY <1>5, <1>6, <1>7, Kinds

LEMMA NestGrows ==
    ASSUME TrailInv, NestInv, ~Sent, Effect, Proceed
    PROVE  NestInv'
  <1>1. /\ step \in 1 .. Len(work) /\ step \in Nat /\ nests \in Seq(Nat) /\ nlmsg_len \in Nat
        /\ trail[step].nests = nests /\ trail[step].len = nlmsg_len
        /\ Ops(work, "open") \in SUBSET (1 .. Len(work))
        /\ Ops(work, "close") \in SUBSET (1 .. Len(work)) /\ Len(work) \in Nat
    BY WorkIs, Kinds
  <1>2. /\ work' = work /\ step' = step + 1
        /\ \A k \in 1 .. step : trail'[k] = trail[k]
        /\ trail'[step + 1].nests = nests' /\ trail'[step + 1].len = nlmsg_len'
    BY TrailGrows
  <1>3. \A k \in 1 .. step' : k \in 1 .. step \/ k = step + 1
    BY <1>1, <1>2
  <1>4. \A o \in Ops(work, "open") \cup Ops(work, "close") :
           /\ \A k \in o + 1 .. step' : k \in o + 1 .. step \/ (k = step + 1 /\ o <= step)
           /\ o \in 1 .. Len(work) /\ o \in Nat
    BY <1>1, <1>2
  <1>5. \A k \in 1 .. step' : Len(trail'[k].nests) = Depth(work, k)
    BY <1>2, <1>3, NestsNow DEF NestInv
  <1>6. \A k \in 1 .. step' : \A m \in 1 .. Len(trail'[k].nests) :
           /\ \E o \in Ops(work, "open") : o < k /\ trail'[k].nests[m] = trail'[o].len
           /\ \A n \in 1 .. m - 1 : trail'[k].nests[m] < trail'[k].nests[n]
    <2>1. ASSUME NEW k \in 1 .. step, NEW m \in 1 .. Len(trail'[k].nests)
          PROVE  /\ \E o \in Ops(work, "open") : o < k /\ trail'[k].nests[m] = trail'[o].len
                 /\ \A n \in 1 .. m - 1 : trail'[k].nests[m] < trail'[k].nests[n]
      <3>1. trail'[k].nests = trail[k].nests
        BY <1>2
      <3>2. PICK o \in Ops(work, "open") : o < k /\ trail[k].nests[m] = trail[o].len
        BY <2>1, <3>1 DEF NestInv
      <3>3. o \in 1 .. step
        BY <1>1, <1>4, <3>2
      <3> QED  BY <1>2, <2>1, <3>1, <3>2, <3>3 DEF NestInv
    <2>2. ASSUME NEW m \in 1 .. Len(nests')
          PROVE  /\ \E o \in Ops(work, "open") : o < step + 1 /\ nests'[m] = trail'[o].len
                 /\ \A n \in 1 .. m - 1 : nests'[m] < nests'[n]
      <3>1. PICK o \in Ops(work, "open") : o <= step /\ nests'[m] = trail[o].len
        BY NestsNow
      <3>2. o \in 1 .. step /\ o < step + 1
        BY <1>1, <1>4, <3>1
      <3>3. nests'[m] = trail'[o].len
        BY <1>2, <3>1, <3>2
      <3> QED  BY <3>2, <3>3, NestsNow
    <2> QED  BY <1>2, <1>3, <2>1, <2>2
  <1>7. ASSUME NEW o \in Ops(work, "open"), NEW k \in o + 1 .. step'
        PROVE  \/ trail'[o].len \in Range(trail'[k].nests)
               \/ \E c \in Ops(work, "close") : c \in o + 1 .. k - 1 /\ Closes(c, o)'
    <2>1. o \in 1 .. step /\ trail'[o].len = trail[o].len
      BY <1>1, <1>2, <1>4
    <2>2. \A c \in 1 .. step : Closes(c, o)' <=> Closes(c, o)
      BY <1>2, <2>1 DEF Closes
    <2>3. CASE k \in o + 1 .. step
      <3>1. k \in 1 .. step /\ trail'[k] = trail[k]
        BY <1>1, <1>2, <2>1, <2>3
      <3>2. \A c \in o + 1 .. k - 1 : c \in 1 .. step
        BY <1>1, <2>1, <2>3
      <3> QED  BY <2>1, <2>2, <2>3, <3>1, <3>2 DEF NestInv
    <2>4. CASE k = step + 1 /\ o = step
      <3>1. work[step].op = "open"
        BY <2>4, Kinds
      <3>2. nests' = <<nlmsg_len>> \o nests
        BY <3>1 DEF Effect
      <3>3. nlmsg_len \in Range(nests')
        BY <1>1, <3>2, PushIs
      <3> QED  BY <1>1, <1>2, <2>1, <2>4, <3>3
    <2>5. CASE k = step + 1 /\ o < step
      <3>1. step \in o + 1 .. step /\ step - 1 \in Nat
        BY <1>1, <2>1, <2>5
      <3>2. \/ trail[o].len \in Range(nests)
            \/ \E c \in Ops(work, "close") : c \in o + 1 .. step - 1 /\ Closes(c, o)
        BY <1>1, <3>1 DEF NestInv
      <3>3. ASSUME NEW c \in Ops(work, "close"), c \in o + 1 .. step - 1, Closes(c, o)
            PROVE  c \in o + 1 .. k - 1 /\ Closes(c, o)'
        <4>1. c \in 1 .. step /\ c \in o + 1 .. k - 1
          BY <1>1, <2>1, <2>5, <3>3
        <4> QED  BY <2>2, <3>3, <4>1
      <3>4. ASSUME trail[o].len \in Range(nests)
            PROVE  \/ trail[o].len \in Range(nests')
                   \/ step \in Ops(work, "close") /\ Closes(step, o)
        <4>1. CASE work[step].op \in {"put", "skip"}
          BY <3>4, <4>1 DEF Effect
        <4>2. CASE work[step].op = "open"
          <5>1. Range(nests') = {nlmsg_len} \cup Range(nests)
            <6>1. nests' = <<nlmsg_len>> \o nests
              BY <4>2 DEF Effect
            <6> QED  BY <1>1, <6>1, PushIs
          <5> QED  BY <3>4, <5>1
        <4>3. CASE work[step].op = "close"
          <5>1. nests # <<>> /\ nests' = Tail(nests)
            BY <4>3 DEF Effect
          <5>2. trail[o].len = Head(nests) \/ trail[o].len \in Range(nests')
            BY <1>1, <3>4, <5>1, PopIs
          <5> QED  BY <1>1, <4>3, <5>1, <5>2, Kinds DEF Closes
        <4> QED  BY <4>1, <4>2, <4>3, Kinds
      <3>5. step \in o + 1 .. k - 1 /\ step \in 1 .. step
        BY <1>1, <2>1, <2>5
      <3> QED  BY <1>2, <2>1, <2>2, <2>5, <3>2, <3>3, <3>4, <3>5
    <2> QED  BY <1>1, <1>4, <2>1, <2>3, <2>4, <2>5
  <1>8. ASSUME NEW c \in Ops(work, "close"), NEW k \in c + 1 .. step'
        PROVE  Head(trail'[c].nests) \notin Range(trail'[k].nests)
    <2>1. c \in 1 .. step /\ trail'[c] = trail[c]
      BY <1>1, <1>2, <1>4
    <2>2. CASE k \in c + 1 .. step
      <3>1. k \in 1 .. step /\ trail'[k] = trail[k]
        BY <1>1, <1>2, <2>1, <2>2
      <3> QED  BY <2>1, <2>2, <3>1 DEF NestInv
    <2>3. CASE k = step + 1 /\ c = step
      <3>1. work[step].op = "close"
        BY <2>3, Kinds
      <3>2. nests # <<>> /\ nests' = Tail(nests)
        BY <3>1 DEF Effect
      <3>3. /\ Head(nests) = nests[1] /\ Len(nests) \in Nat /\ Len(nests') = Len(nests) - 1
            /\ nests' \in Seq(Nat)
            /\ \A m \in 1 .. Len(nests) - 1 : m + 1 \in 1 .. Len(nests) /\ nests'[m] = nests[m + 1]
        BY <1>1, <3>2, PopIs
      <3>4. \A m \in 1 .. Len(nests') : nests'[m] # Head(nests)
        <4> TAKE m \in 1 .. Len(nests')
        <4>1. m + 1 \in 1 .. Len(nests) /\ nests'[m] = nests[m + 1] /\ 1 \in 1 .. (m + 1) - 1
          BY <3>3
        <4>2. nests[m + 1] < nests[1]
          <5>1. step \in 1 .. step
            BY <1>1
          <5>2. \A i \in 1 .. Len(nests) : \A n \in 1 .. i - 1 : nests[i] < nests[n]
            BY <1>1, <5>1 DEF NestInv
          <5> QED  BY <4>1, <5>2
        <4>3. nests[m + 1] \in Nat /\ nests[1] \in Nat
          <5>1. m + 1 \in 1 .. Len(nests) /\ 1 \in 1 .. Len(nests)
            BY <3>3, <4>1
          <5>2. ASSUME NEW s \in Seq(Nat), NEW i \in 1 .. Len(s)
                PROVE  s[i] \in Nat
            OBVIOUS
          <5> QED  BY <1>1, <5>1, <5>2
        <4>4. nests[m + 1] # nests[1]
          BY <4>2, <4>3
        <4> QED  BY <3>3, <4>1, <4>4
      <3>5. Head(nests) \notin Range(nests')
        <4>1. DOMAIN nests' = 1 .. Len(nests')
          BY <3>3
        <4> QED  BY <3>4, <4>1 DEF Range
      <3> QED  BY <1>1, <1>2, <2>1, <2>3, <3>5
    <2>4. CASE k = step + 1 /\ c < step
      <3>1. step \in c + 1 .. step
        BY <1>1, <2>1, <2>4
      <3>2. Head(trail[c].nests) \notin Range(nests)
        BY <1>1, <3>1 DEF NestInv
      <3>3. Head(trail[c].nests) # nlmsg_len
        <4>1. c \in 1 .. step - 1 /\ work[c].op = "close"
          BY <1>1, <2>1, <2>4 DEF Ops
        <4>2. trail[c].nests # <<>> /\ trail[c].nests \in Seq(Nat)
          BY <2>1, <4>1, WorkIs DEF TrailInv, Laid
        <4>3. Head(trail[c].nests) = trail[c].nests[1] /\ 1 \in 1 .. Len(trail[c].nests)
          BY <4>2, PopIs
        <4>4. PICK o \in Ops(work, "open") : o < c /\ trail[c].nests[1] = trail[o].len
          BY <2>1, <4>3 DEF NestInv
        <4>5. o \in 1 .. step - 1 /\ o \in Attributes(work) /\ step \in 1 .. step /\ o \in 1 .. step
          BY <1>1, <1>4, <4>1, <4>4 DEF Attributes
        <4>6. trail[o].len < trail[step].len
          BY <4>5 DEF TrailInv
        <4>7. trail[o].len \in Nat
          BY <4>5, WorkIs
        <4> QED  BY <1>1, <4>3, <4>4, <4>6, <4>7
      <3>4. Range(nests') \subseteq Range(nests) \cup {nlmsg_len}
        <4>1. CASE work[step].op \in {"put", "skip"}
          BY <4>1 DEF Effect
        <4>2. CASE work[step].op = "open"
          <5>1. nests' = <<nlmsg_len>> \o nests
            BY <4>2 DEF Effect
          <5> QED  BY <1>1, <5>1, PushIs
        <4>3. CASE work[step].op = "close"
          <5>1. nests # <<>> /\ nests' = Tail(nests)
            BY <4>3 DEF Effect
          <5> QED  BY <1>1, <5>1, PopIs
        <4> QED  BY <4>1, <4>2, <4>3, Kinds
      <3> QED  BY <1>2, <2>1, <2>4, <3>2, <3>3, <3>4
    <2> QED  BY <1>1, <1>4, <2>1, <2>2, <2>3, <2>4
  <1> QED  BY <1>2, <1>5, <1>6, <1>7, <1>8 DEF NestInv

-----------------------------------------------------------------------------
(* Attributes are at places of their own.                                  *)
LEMMA PlacesApart ==
    ASSUME TrailInv, NEW j \in 1 .. step, NEW k \in 1 .. step,
           j \in Attributes(work), k \in Attributes(work), trail[j].len = trail[k].len
    PROVE  j = k
  <1>1. step \in Nat /\ trail[j].len \in Nat
    BY WorkIs
  <1>2. CASE j < k
    <2>1. j \in 1 .. k - 1
      BY <1>1, <1>2
    <2>2. trail[j].len < trail[k].len
      BY <2>1 DEF TrailInv
    <2> QED  BY <1>1, <2>2
  <1>3. CASE k < j
    <2>1. k \in 1 .. j - 1
      BY <1>1, <1>3
    <2>2. trail[k].len < trail[j].len
      BY <2>1 DEF TrailInv
    <2> QED  BY <1>1, <2>2
  <1> QED  BY <1>1, <1>2, <1>3

(* _nlmsg_put(): the attribute is new.                                     *)
LEMMA PutKeeps ==
    ASSUME TrailInv, AttrInv, ~Sent, Effect, Proceed, step \in Attributes(work), NEW size \in Nat,
           NEW data, data = IF work[step].op = "put" THEN work[step].data ELSE "nest",
           work[step].op = "put" => size = work[step].size,
           Put(MsgTail, work[step].type, data, size)
    PROVE  AttrInv'
  <1>1. /\ step \in 1 .. Len(work) /\ step \in Nat /\ Len(work) \in Nat
        /\ trail[step].len = nlmsg_len /\ nlmsg_len \in Nat /\ MsgTail = nlmsg_len
        /\ Attributes(work) \in SUBSET (1 .. Len(work)) /\ step \notin Ops(work, "close")
    BY WorkIs, Kinds
  <1>2. work' = work /\ step' = step + 1 /\ \A k \in 1 .. step : trail'[k] = trail[k]
    BY TrailGrows
  <1>3. Attributes(work)' = Attributes(work)
    BY <1>2 DEF Attributes, Ops
  <1>4. /\ DOMAIN attrs' = DOMAIN attrs \cup {nlmsg_len}
        /\ attrs'[nlmsg_len] =
              [type |-> work[step].type, data |-> data, rta_len |-> RtattrSize + size]
        /\ \A q \in DOMAIN attrs : q # nlmsg_len => attrs'[q] = attrs[q]
    BY <1>1 DEF Put
  <1>5. \A k \in Attributes(work) : k < step' =>
           /\ k \in 1 .. step
           /\ trail'[k].len = trail[k].len
           /\ k < step \/ k = step
    BY <1>1, <1>2
  <1>6. \A k \in Attributes(work) : k < step =>
           /\ trail[k].len \in DOMAIN attrs /\ trail[k].len # nlmsg_len
           /\ attrs'[trail[k].len] = attrs[trail[k].len]
    <2> TAKE k \in Attributes(work)
    <2> HAVE k < step
    <2>1. k \in 1 .. step /\ step \in 1 .. step
      BY <1>1
    <2>2. trail[k].len # nlmsg_len
      BY <1>1, <2>1, PlacesApart
    <2>3. trail[k].len \in DOMAIN attrs
      BY DEF AttrInv
    <2> QED  BY <1>4, <2>2, <2>3
  <1>7. DOMAIN attrs' = {trail'[k].len : k \in {i \in Attributes(work) : i < step'}}
    <2>1. {i \in Attributes(work) : i < step'} = {i \in Attributes(work) : i < step} \cup {step}
      BY <1>1, <1>2
    <2>2. DOMAIN attrs = {trail[k].len : k \in {i \in Attributes(work) : i < step}}
      BY DEF AttrInv
    <2>3. \A k \in {i \in Attributes(work) : i < step} \cup {step} : trail'[k].len = trail[k].len
      BY <1>1, <1>2
    <2> QED  BY <1>1, <1>4, <2>1, <2>2, <2>3
  <1>8. ASSUME NEW k \in Attributes(work), k < step'
        PROVE  /\ DOMAIN attrs'[trail'[k].len] = {"type", "data", "rta_len"}
               /\ attrs'[trail'[k].len].type = work[k].type
               /\ attrs'[trail'[k].len].data = IF work[k].op = "put" THEN work[k].data ELSE "nest"
               /\ work[k].op = "put" => attrs'[trail'[k].len].rta_len = RtattrSize + work[k].size
    <2>1. CASE k < step
      BY <1>5, <1>6, <1>8, <2>1 DEF AttrInv
    <2>2. CASE k = step
      <3>1. trail'[k].len = nlmsg_len
        BY <1>1, <1>5, <1>8, <2>2
      <3> QED  BY <1>4, <2>2, <3>1
    <2> QED  BY <1>5, <1>8, <2>1, <2>2
  <1>9. ASSUME NEW o \in Ops(work, "open"), NEW c \in Ops(work, "close"),
               o < c, c < step', Closes(c, o)'
        PROVE  attrs'[trail'[o].len].rta_len = trail'[c].len - trail'[o].len
    <2>1. c \in 1 .. Len(work) /\ o \in 1 .. Len(work) /\ o \in Attributes(work)
      BY DEF Ops, Attributes
    <2>2. c < step /\ o < step /\ c \in 1 .. step /\ o \in 1 .. step
      BY <1>1, <1>2, <1>9, <2>1
    <2>3. trail'[c] = trail[c] /\ trail'[o] = trail[o]
      BY <1>2, <2>2
    <2>4. Closes(c, o)
      BY <1>9, <2>3 DEF Closes
    <2>5. attrs[trail[o].len].rta_len = trail[c].len - trail[o].len
      BY <1>9, <2>2, <2>4 DEF AttrInv
    <2> QED  BY <1>6, <2>1, <2>2, <2>3, <2>5
  <1>10. Ops(work, "open")' = Ops(work, "open") /\ Ops(work, "close")' = Ops(work, "close")
    BY <1>2 DEF Ops
  <1> QED  BY <1>2, <1>3, <1>7, <1>8, <1>9, <1>10 DEF AttrInv

(* The peer's header is no attribute.                                      *)
LEMMA SkipKeeps ==
    ASSUME TrailInv, AttrInv, ~Sent, Effect, Proceed, work[step].op = "skip", attrs' = attrs
    PROVE  AttrInv'
  <1>1. /\ step \in 1 .. Len(work) /\ step \in Nat /\ Len(work) \in Nat
        /\ Attributes(work) \in SUBSET (1 .. Len(work))
        /\ step \notin Attributes(work) /\ step \notin Ops(work, "close")
    BY Kinds
  <1>2. work' = work /\ step' = step + 1 /\ \A k \in 1 .. step : trail'[k] = trail[k]
    BY TrailGrows
  <1>3. /\ Attributes(work)' = Attributes(work)
        /\ Ops(work, "open")' = Ops(work, "open") /\ Ops(work, "close")' = Ops(work, "close")
    BY <1>2 DEF Attributes, Ops
  <1>4. \A k \in Attributes(work) : k < step' <=> k < step
    BY <1>1, <1>2
  <1>5. \A k \in Attributes(work) : k < step => trail'[k] = trail[k]
    BY <1>1, <1>2
  <1>6. DOMAIN attrs' = {trail'[k].len : k \in {i \in Attributes(work) : i < step'}}
    <2>1. DOMAIN attrs = {trail[k].len : k \in {i \in Attributes(work) : i < step}}
      BY DEF AttrInv
    <2> QED  BY <1>4, <1>5, <2>1
  <1>7. ASSUME NEW o \in Ops(work, "open"), NEW c \in Ops(work, "close"),
               o < c, c < step', Closes(c, o)'
        PROVE  attrs'[trail'[o].len].rta_len = trail'[c].len - trail'[o].len
    <2>1. c \in 1 .. Len(work) /\ o \in 1 .. Len(work)
      BY DEF Ops
    <2>2. c < step /\ c \in 1 .. step /\ o \in 1 .. step
      BY <1>1, <1>2, <1>7, <2>1
    <2>3. trail'[c] = trail[c] /\ trail'[o] = trail[o]
      BY <1>2, <2>2
    <2>4. Closes(c, o)
      BY <1>7, <2>3 DEF Closes
    <2> QED  BY <1>7, <2>2, <2>3, <2>4 DEF AttrInv
  <1>8. ASSUME NEW k \in Attributes(work), k < step'
        PROVE  /\ DOMAIN attrs'[trail'[k].len] = {"type", "data", "rta_len"}
               /\ attrs'[trail'[k].len].type = work[k].type
               /\ attrs'[trail'[k].len].data = IF work[k].op = "put" THEN work[k].data ELSE "nest"
               /\ work[k].op = "put" => attrs'[trail'[k].len].rta_len = RtattrSize + work[k].size
    BY <1>4, <1>5, <1>8 DEF AttrInv
  <1> QED  BY <1>2, <1>3, <1>6, <1>7, <1>8 DEF AttrInv

(* The length of a nest is written into an attribute that was opened and   *)
(* whose length no other operation writes.                                 *)
Written(p) ==
    /\ \E q \in Attributes(work) : q \in 1 .. step /\ work[q].op = "open" /\ p = trail[q].len
    /\ p \in Range(nests)
    /\ DOMAIN attrs' = DOMAIN attrs
    /\ \A x \in DOMAIN attrs : x # p => attrs'[x] = attrs[x]
    /\ DOMAIN attrs'[p] = {"type", "data", "rta_len"}
    /\ attrs'[p].type = attrs[p].type /\ attrs'[p].data = attrs[p].data
    /\ attrs'[p].rta_len = nlmsg_len - p

LEMMA ClosingWrites ==
    ASSUME TrailInv, NestInv, AttrInv, ~Sent, Effect, work[step].op = "close",
           attrs' = [attrs EXCEPT ![Head(nests)].rta_len = MsgTail - Head(nests)]
    PROVE  Written(Head(nests))
  <1> DEFINE p == Head(nests)
  <1>1. /\ step \in 1 .. Len(work) /\ step \in Nat /\ Len(work) \in Nat
        /\ Attributes(work) \in SUBSET (1 .. Len(work))
        /\ trail[step].nests = nests /\ MsgTail = nlmsg_len /\ nests \in Seq(Nat)
    BY Kinds, WorkIs
  <1>2. \A k \in Attributes(work) : k < step => k \in 1 .. step
    BY <1>1
  <1>3. nests # <<>> /\ p = nests[1] /\ p \in Range(nests) /\ 1 \in 1 .. Len(nests)
    <2>1. nests # <<>>
      BY DEF Effect
    <2> QED  BY <1>1, <2>1, PopIs
  <1>4. /\ \E q \in Attributes(work) : q \in 1 .. step /\ work[q].op = "open" /\ p = trail[q].len
        /\ p \in DOMAIN attrs /\ DOMAIN attrs[p] = {"type", "data", "rta_len"}
    <2>1. PICK q \in Ops(work, "open") : q < step /\ p = trail[q].len
      <3>1. step \in 1 .. step /\ 1 \in 1 .. Len(trail[step].nests) /\ p = trail[step].nests[1]
        BY <1>1, <1>3
      <3> QED  BY <3>1 DEF NestInv
    <2>2. q \in Attributes(work) /\ work[q].op = "open"
      BY DEF Attributes, Ops
    <2> QED  BY <1>1, <1>2, <2>1, <2>2 DEF AttrInv
  <1> QED  BY <1>1, <1>3, <1>4 DEF Written

LEMMA CloseKeeps ==
    ASSUME TrailInv, NestInv, AttrInv, ~Sent, Effect, Proceed, work[step].op = "close",
           Written(Head(nests))
    PROVE  AttrInv'
  <1> DEFINE p == Head(nests)
  <1>1. /\ step \in 1 .. Len(work) /\ step \in Nat /\ Len(work) \in Nat
        /\ Attributes(work) \in SUBSET (1 .. Len(work))
        /\ step \notin Attributes(work) /\ step \in Ops(work, "close")
        /\ trail[step].len = nlmsg_len /\ trail[step].nests = nests
        /\ MsgTail = nlmsg_len /\ nests \in Seq(Nat)
    BY Kinds, WorkIs
  <1>2. work' = work /\ step' = step + 1 /\ \A k \in 1 .. step : trail'[k] = trail[k]
    BY TrailGrows
  <1>3. /\ Attributes(work)' = Attributes(work)
        /\ Ops(work, "open")' = Ops(work, "open") /\ Ops(work, "close")' = Ops(work, "close")
    BY <1>2 DEF Attributes, Ops
  <1>4. /\ \A k \in Attributes(work) : k < step' <=> k < step
        /\ \A k \in Attributes(work) : k < step => trail'[k] = trail[k] /\ k \in 1 .. step
    BY <1>1, <1>2
  <1>5. \E q \in Attributes(work) : q \in 1 .. step /\ work[q].op = "open" /\ p = trail[q].len
    BY DEF Written
  <1>6. /\ DOMAIN attrs' = DOMAIN attrs /\ p \in Range(nests)
        /\ \A x \in DOMAIN attrs : x # p => attrs'[x] = attrs[x]
        /\ DOMAIN attrs'[p] = {"type", "data", "rta_len"}
        /\ attrs'[p].type = attrs[p].type /\ attrs'[p].data = attrs[p].data
        /\ attrs'[p].rta_len = nlmsg_len - p
    BY DEF Written
  <1> HIDE DEF p
  <1>7. DOMAIN attrs' = {trail'[k].len : k \in {i \in Attributes(work) : i < step'}}
    <2>1. DOMAIN attrs = {trail[k].len : k \in {i \in Attributes(work) : i < step}}
      BY DEF AttrInv
    <2> QED  BY <1>4, <1>6, <2>1
  <1>8. ASSUME NEW k \in Attributes(work), k < step'
         PROVE  /\ DOMAIN attrs'[trail'[k].len] = {"type", "data", "rta_len"}
                /\ attrs'[trail'[k].len].type = work[k].type
                /\ attrs'[trail'[k].len].data = IF work[k].op = "put" THEN work[k].data ELSE "nest"
                /\ work[k].op = "put" => attrs'[trail'[k].len].rta_len = RtattrSize + work[k].size
    <2>1. /\ k < step /\ k \in 1 .. step /\ trail'[k].len = trail[k].len
          /\ DOMAIN attrs[trail[k].len] = {"type", "data", "rta_len"}
          /\ attrs[trail[k].len].type = work[k].type
          /\ attrs[trail[k].len].data = IF work[k].op = "put" THEN work[k].data ELSE "nest"
          /\ work[k].op = "put" => attrs[trail[k].len].rta_len = RtattrSize + work[k].size
          /\ trail[k].len \in DOMAIN attrs
      BY <1>4, <1>8 DEF AttrInv
    <2>2. CASE trail[k].len = p
      <3>1. PICK q \in Attributes(work) :
                q \in 1 .. step /\ work[q].op = "open" /\ p = trail[q].len
        BY <1>5
      <3>2. k = q
        BY <2>1, <2>2, <3>1, PlacesApart
      <3> QED  BY <1>6, <2>1, <2>2, <3>1, <3>2
    <2>3. CASE trail[k].len # p
      BY <1>6, <2>1, <2>3
    <2> QED  BY <2>2, <2>3
  <1>9. ASSUME NEW o \in Ops(work, "open"), NEW c \in Ops(work, "close"),
                o < c, c < step', Closes(c, o)'
         PROVE  attrs'[trail'[o].len].rta_len = trail'[c].len - trail'[o].len
    <2>1. c \in 1 .. Len(work) /\ o \in 1 .. Len(work) /\ o \in Attributes(work)
      BY DEF Ops, Attributes
    <2>2. c <= step /\ o < step /\ c \in 1 .. step /\ o \in 1 .. step
      BY <1>1, <1>2, <1>9, <2>1
    <2>3. trail'[c] = trail[c] /\ trail'[o] = trail[o]
      BY <1>2, <2>2
    <2>4. Closes(c, o)
      BY <1>9, <2>3 DEF Closes
    <2>5. CASE c = step
      <3>1. trail[o].len = p
        BY <1>1, <2>4, <2>5 DEF Closes, p
      <3> QED  BY <1>1, <1>6, <2>3, <2>5, <3>1
    <2>6. CASE c < step
      <3>1. step \in c + 1 .. step
        BY <1>1, <2>1, <2>6
      <3>2. Head(trail[c].nests) \notin Range(nests)
        BY <1>1, <3>1 DEF NestInv
      <3>3. trail[o].len # p
        BY <1>6, <2>4, <3>2 DEF Closes
      <3>4. trail[o].len \in DOMAIN attrs
        BY <2>1, <2>2 DEF AttrInv
      <3>5. attrs[trail[o].len].rta_len = trail[c].len - trail[o].len
        BY <1>9, <2>4, <2>6 DEF AttrInv
      <3> QED  BY <1>6, <2>3, <3>3, <3>4, <3>5
    <2> QED  BY <1>1, <2>1, <2>2, <2>5, <2>6
  <1>10. \A k \in Attributes(work) : k < step' =>
            /\ DOMAIN attrs'[trail'[k].len] = {"type", "data", "rta_len"}
            /\ attrs'[trail'[k].len].type = work[k].type
            /\ attrs'[trail'[k].len].data = IF work[k].op = "put" THEN work[k].data ELSE "nest"
            /\ work[k].op = "put" => attrs'[trail'[k].len].rta_len = RtattrSize + work[k].size
    BY <1>8
  <1>11. \A o \in Ops(work, "open") : \A c \in Ops(work, "close") :
            o < c /\ c < step' /\ Closes(c, o)' =>
                attrs'[trail'[o].len].rta_len = trail'[c].len - trail'[o].len
    BY <1>9
  <1> QED  BY <1>2, <1>3, <1>7, <1>10, <1>11 DEF AttrInv

-----------------------------------------------------------------------------
(* The launcher's operations keep the invariant.                           *)
LEMMA RetracedKept ==
    ASSUME TrailInv, ~Sent, Effect, Proceed, NEW k \in 1 .. step, Retraced(k)
    PROVE  k \in 1 .. step' /\ Retraced(k)'
  <1>1. work' = work /\ step' = step + 1 /\ trail'[k] = trail[k] /\ step \in Nat
    BY TrailGrows, Kinds
  <1>2. pos' = pos /\ inside' = inside /\ read' = read
    BY DEF Proceed, readVars
  <1>3. /\ Attributes(work)' = Attributes(work)
        /\ \A i : Before(Attributes(work), i)' = Before(Attributes(work), i)
        /\ \A i : MeantBy(work, i)' = MeantBy(work, i)
    BY <1>1 DEF Attributes, Ops, Before, MeantBy, Depth
  <1>4. k \in 1 .. step'
    BY <1>1
  <1>5. {MeantBy(work, i) : i \in Attributes(work)}' = {MeantBy(work, i) : i \in Attributes(work)}
    BY <1>3
  <1> QED  BY <1>1, <1>2, <1>3, <1>4, <1>5 DEF Retraced

LEMMA Built ==
    ASSUME NlmsgInv, ~Sent, Effect, Proceed, AttrInv'
    PROVE  NlmsgInv'
  <1>1. TrailInv' /\ NestInv'
    BY TrailGrows, NestGrows DEF NlmsgInv
  <1>2. PICK k \in 1 .. step : Retraced(k)
    BY DEF NlmsgInv
  <1>3. k \in 1 .. step' /\ Retraced(k)'
    BY <1>2, RetracedKept DEF NlmsgInv
  <1> QED  BY <1>1, <1>3 DEF NlmsgInv

LEMMA PutDataStep == NlmsgInv /\ PutData => NlmsgInv'
  <1> SUFFICES ASSUME NlmsgInv, PutData PROVE NlmsgInv'
    OBVIOUS
  <1>1. /\ TrailInv /\ AttrInv /\ ~Sent /\ Proceed /\ work[step].op = "put"
        /\ Put(MsgTail, work[step].type, work[step].data, work[step].size)
        /\ nlmsg_len' = MsgTail + Align(RtattrSize + work[step].size) /\ nests' = nests
    BY DEF NlmsgInv, PutData, At, NlmsgPut
  <1>2. Effect
    BY <1>1, WorkIs DEF Effect
  <1>3. step \in Attributes(work) /\ work[step].size \in Nat
    BY <1>1, Kinds
  <1>4. AttrInv'
    BY <1>1, <1>2, <1>3, PutKeeps
  <1> QED  BY <1>1, <1>2, <1>4, Built

LEMMA OpenNestStep == NlmsgInv /\ OpenNest => NlmsgInv'
  <1> SUFFICES ASSUME NlmsgInv, OpenNest PROVE NlmsgInv'
    OBVIOUS
  <1>1. /\ TrailInv /\ AttrInv /\ ~Sent /\ Proceed /\ work[step].op = "open"
        /\ Put(MsgTail, work[step].type, "nest", 0)
        /\ nlmsg_len' = MsgTail + Align(RtattrSize + 0) /\ nests' = <<MsgTail>> \o nests
    BY DEF NlmsgInv, OpenNest, At, NlmsgPut
  <1>2. Effect
    BY <1>1, WorkIs, SizesAre DEF Effect
  <1>3. step \in Attributes(work)
    BY <1>1, Kinds
  <1>4. AttrInv'
    BY <1>1, <1>2, <1>3, PutKeeps
  <1> QED  BY <1>1, <1>2, <1>4, Built

LEMMA SkipHeaderStep == NlmsgInv /\ SkipHeader => NlmsgInv'
  <1> SUFFICES ASSUME NlmsgInv, SkipHeader PROVE NlmsgInv'
    OBVIOUS
  <1>1. /\ TrailInv /\ AttrInv /\ ~Sent /\ Proceed /\ work[step].op = "skip"
        /\ nlmsg_len' = nlmsg_len + BodySize.ifinfomsg /\ nests' = nests /\ attrs' = attrs
    BY DEF NlmsgInv, SkipHeader, At
  <1>2. Effect
    BY <1>1 DEF Effect
  <1>3. AttrInv'
    BY <1>1, <1>2, SkipKeeps
  <1> QED  BY <1>1, <1>2, <1>3, Built

LEMMA CloseNestStep == NlmsgInv /\ CloseNest => NlmsgInv'
  <1> SUFFICES ASSUME NlmsgInv, CloseNest PROVE NlmsgInv'
    OBVIOUS
  <1>1. /\ TrailInv /\ NestInv /\ AttrInv /\ ~Sent /\ Proceed /\ work[step].op = "close"
        /\ attrs' = [attrs EXCEPT ![Head(nests)].rta_len = MsgTail - Head(nests)]
        /\ nlmsg_len' = nlmsg_len /\ nests' = Tail(nests)
    BY DEF NlmsgInv, CloseNest, At
  <1>2. nests # <<>>
    <2>1. step \in 1 .. Len(work) /\ step \in 1 .. step /\ WellFormed(work)
      BY <1>1, Kinds, WorkIs
    <2>2. Depth(work, step) > 0
      BY <1>1, <2>1 DEF WellFormed
    <2>3. Len(nests) = Depth(work, step)
      BY <1>1, <2>1, WorkIs DEF NestInv
    <2>4. Len(nests) > 0
      BY <2>2, <2>3
    <2> QED  BY <2>4
  <1>3. Effect
    BY <1>1, <1>2 DEF Effect
  <1>4. Written(Head(nests))
    BY <1>1, <1>3, ClosingWrites
  <1>5. AttrInv'
    BY <1>1, <1>3, <1>4, CloseKeeps
  <1> QED  BY <1>1, <1>3, <1>5, Built

-----------------------------------------------------------------------------
(* The kernel's walk.  Everything has been put, and every nest is closed.  *)
LEMMA SentIs ==
    ASSUME TrailInv, NestInv, Sent
    PROVE  /\ step = Len(work) + 1 /\ Len(work) \in Nat /\ nests = <<>>
           /\ trail[step].nests = <<>> /\ trail[step].len = nlmsg_len
           /\ \A k \in 1 .. Len(work) : k \in 1 .. step /\ k + 1 \in 1 .. step /\ Laid(k)
           /\ Attributes(work) \in SUBSET (1 .. Len(work))
           /\ Ops(work, "open") \in SUBSET (1 .. Len(work))
           /\ Ops(work, "close") \in SUBSET (1 .. Len(work))
  <1>1. /\ step = Len(work) + 1 /\ Len(work) \in Nat /\ step \in 1 .. step
        /\ trail[step].nests = nests /\ nests \in Seq(Nat) /\ trail[step].len = nlmsg_len
        /\ WellFormed(work)
    BY WorkIs DEF Sent
  <1>2. nests = <<>>
    <2>1. Len(nests) = Depth(work, step)
      BY <1>1 DEF NestInv
    <2>2. Len(nests) = 0
      BY <1>1, <2>1 DEF WellFormed
    <2> QED  BY <1>1, <2>2
  <1>3. \A k \in 1 .. Len(work) : k \in 1 .. step /\ k + 1 \in 1 .. step /\ k \in 1 .. step - 1
    BY <1>1
  <1>4. \A k \in 1 .. Len(work) : Laid(k)
    BY <1>3 DEF TrailInv
  <1>5. /\ Attributes(work) \in SUBSET (1 .. Len(work))
        /\ Ops(work, "open") \in SUBSET (1 .. Len(work))
        /\ Ops(work, "close") \in SUBSET (1 .. Len(work))
    BY DEF Attributes, Ops
  <1> QED  BY <1>1, <1>2, <1>3, <1>4, <1>5

(* What the kernel is in, it leaves where the launcher stood when it       *)
(* closed the nest.                                                        *)
Ends(k, c) ==
    /\ c \in k .. step /\ Upto = trail[c].len
    /\ inside = <<>> => c = step
    /\ inside # <<>> =>
          /\ c \in Ops(work, "close") /\ trail[c].nests # <<>>
          /\ Head(trail[c].nests) = Head(inside)
          /\ attrs[Head(inside)].rta_len = trail[c].len - Head(inside)
          /\ \E o \in Ops(work, "open") : o < k /\ o < c /\ Head(inside) = trail[o].len

LEMMA InsideEnds ==
    ASSUME TrailInv, NestInv, AttrInv, Sent, NEW k \in 1 .. step, inside = trail[k].nests
    PROVE  \E c \in 1 .. step : Ends(k, c)
  <1>1. /\ step = Len(work) + 1 /\ Len(work) \in Nat /\ trail[step].nests = <<>>
        /\ trail[step].len = nlmsg_len /\ step \in 1 .. step /\ inside \in Seq(Nat)
        /\ Ops(work, "open") \in SUBSET (1 .. Len(work))
        /\ Ops(work, "close") \in SUBSET (1 .. Len(work))
    BY SentIs, WorkIs
  <1>2. CASE inside = <<>>
    <2>1. Upto = trail[step].len /\ step \in k .. step
      BY <1>1, <1>2 DEF Upto
    <2> QED  BY <1>1, <1>2, <2>1 DEF Ends
  <1>3. CASE inside # <<>>
    <2>1. Head(inside) = inside[1] /\ 1 \in 1 .. Len(inside) /\ Head(inside) \in Range(inside)
      BY <1>1, <1>3, PopIs
    <2>2. PICK o \in Ops(work, "open") : o < k /\ Head(inside) = trail[o].len
      BY <2>1 DEF NestInv
    <2>3. o \in 1 .. Len(work) /\ step \in o + 1 .. step
      BY <1>1, <2>2
    <2>4. trail[o].len \notin Range(trail[step].nests)
      BY <1>1 DEF Range
    <2>5. PICK c \in Ops(work, "close") : c \in o + 1 .. step - 1 /\ Closes(c, o)
      BY <2>3, <2>4 DEF NestInv
    <2>6. c >= k
      <3>1. SUFFICES ASSUME c < k PROVE FALSE
        BY <1>1, <2>3, <2>5
      <3>2. k \in c + 1 .. step
        BY <1>1, <2>3, <2>5, <3>1
      <3>3. Head(trail[c].nests) \notin Range(trail[k].nests)
        BY <3>2 DEF NestInv
      <3> QED  BY <2>1, <2>2, <2>5, <3>3 DEF Closes
    <2>7. attrs[trail[o].len].rta_len = trail[c].len - trail[o].len
      <3>1. o < c /\ c < step
        BY <1>1, <2>3, <2>5
      <3> QED  BY <2>5, <3>1 DEF AttrInv
    <2>8. c \in k .. step /\ c \in 1 .. step /\ o \in 1 .. step /\ o < c
      BY <1>1, <2>3, <2>5, <2>6
    <2>9. trail[c].len \in Nat /\ trail[o].len \in Nat
      BY <2>8, WorkIs
    <2>10. Upto = trail[c].len
      BY <1>3, <2>2, <2>7, <2>9 DEF Upto
    <2> QED  BY <1>3, <2>2, <2>5, <2>7, <2>8, <2>10 DEF Ends, Closes
  <1> QED  BY <1>2, <1>3

(* No operation between the place and the end closes what ends there.      *)
LEMMA ClosedThere ==
    ASSUME TrailInv, NestInv, Sent, NEW k \in 1 .. Len(work), NEW c \in 1 .. step, Ends(k, c),
           inside = trail[k].nests, work[k].op = "close", k < c
    PROVE  FALSE
  <1>1. k \in Ops(work, "close") /\ c \in k + 1 .. step /\ trail[k].nests # <<>>
    <2>1. Laid(k) /\ step \in Nat
      BY SentIs
    <2>2. trail[k].nests # <<>>
      BY <2>1 DEF Laid
    <2> QED  BY <2>1, <2>2 DEF Ops
  <1>2. c \in Ops(work, "close") /\ trail[c].nests # <<>> /\ Head(trail[c].nests) = Head(trail[k].nests)
    BY <1>1 DEF Ends
  <1>3. Head(trail[c].nests) \in Range(trail[c].nests)
    BY <1>2, WorkIs, PopIs
  <1>4. Head(trail[k].nests) \notin Range(trail[c].nests)
    BY <1>1 DEF NestInv
  <1> QED  BY <1>2, <1>3, <1>4

LEMMA BeforeGrows ==
    ASSUME NEW n \in Nat, NEW S \in SUBSET (1 .. n), NEW i \in S, NEW k \in Nat, i < k
    PROVE  Before(S, i) \in Nat /\ Before(S, k) \in Nat /\ Before(S, i) + 1 <= Before(S, k)
  <1>1. /\ i \in Nat /\ Before(S, i) \in Nat /\ Before(S, k) \in Nat
        /\ Before(S, i + 1) = Before(S, i) + 1
    <2>1. i \in Nat
      OBVIOUS
    <2>2. /\ \A j \in Nat : Before(S, j) \in Nat
          /\ \A j \in Nat : Before(S, j + 1) = IF j \in S THEN Before(S, j) + 1 ELSE Before(S, j)
      BY BeforeIs
    <2> QED  BY <2>1, <2>2
  <1>2. {j \in S : j < i + 1} \subseteq {j \in S : j < k}
    <2>1. \A j \in S : j \in Int
      OBVIOUS
    <2>2. \A j \in S : j < i + 1 => j < k
      BY <1>1, <2>1
    <2> QED  BY <2>2
  <1>3. IsFiniteSet({j \in S : j < k})
    <2>1. IsFiniteSet(1 .. n)
      BY FS_Interval
    <2>2. {j \in S : j < k} \subseteq 1 .. n
      OBVIOUS
    <2> QED  BY <2>1, <2>2, FS_Subset
  <1>4. Cardinality({j \in S : j < i + 1}) <= Cardinality({j \in S : j < k})
    BY <1>2, <1>3, FS_Subset
  <1> QED  BY <1>1, <1>4 DEF Before

-----------------------------------------------------------------------------
(* The kernel has come behind the k-th operation, an attribute.            *)
LEMMA ReadOn ==
    ASSUME TrailInv, NestInv, Sent, NEW k \in Attributes(work), Retraced(k),
           read' = Append(read, MeantBy(work, k)), UNCHANGED sentVars,
           NEW j \in 1 .. step, j = k + 1 \/ (j = k + 2 /\ k + 1 \notin Attributes(work)),
           j <= Len(work) => work[j].op # "skip",
           pos' = trail[j].len, inside' = trail[j].nests
    PROVE  j \in 1 .. step' /\ Retraced(j)'
  <1> DEFINE A == Attributes(work)
             R == {MeantBy(work, i) : i \in A}
  <1>1. work' = work /\ trail' = trail /\ step' = step
    BY DEF sentVars, work, step
  <1>2. /\ A' = A /\ R' = R
        /\ \A i : Before(A, i)' = Before(A, i)
        /\ \A i : MeantBy(work, i)' = MeantBy(work, i)
    BY <1>1 DEF Attributes, Ops, Before, MeantBy, Depth
  <1>3. A \in SUBSET (1 .. Len(work)) /\ Len(work) \in Nat /\ k \in A /\ k \in Nat /\ k + 1 \in Nat
    BY SentIs
  <1>4. /\ read \in Seq(R) /\ Len(read) = Before(A, k)
        /\ \A i \in A : i < k => read[Before(A, i) + 1] = MeantBy(work, i)
    BY DEF Retraced
  <1>5. MeantBy(work, k) \in R
    BY <1>3
  <1> HIDE DEF A, R
  <1>6. /\ Before(A, k) \in Nat /\ Before(A, k + 1) = Before(A, k) + 1
        /\ k + 1 \notin A => Before(A, k + 2) = Before(A, k + 1)
    <2>1. /\ \A i \in Nat : Before(A, i) \in Nat
          /\ \A i \in Nat : Before(A, i + 1) = IF i \in A THEN Before(A, i) + 1 ELSE Before(A, i)
      BY <1>3, BeforeIs
    <2>2. (k + 1) + 1 = k + 2
      BY <1>3
    <2>3. Before(A, (k + 1) + 1) = IF k + 1 \in A THEN Before(A, k + 1) + 1 ELSE Before(A, k + 1)
      BY <1>3, <2>1
    <2> QED  BY <1>3, <2>1, <2>2, <2>3
  <1>7. Before(A, j) = Before(A, k) + 1
    BY <1>6 DEF A
  <1>8. /\ read' \in Seq(R) /\ Len(read') = Before(A, k) + 1
        /\ read'[Before(A, k) + 1] = MeantBy(work, k)
        /\ \A n \in 1 .. Len(read) : read'[n] = read[n]
    BY <1>4, <1>5
  <1>9. ASSUME NEW i \in A, i < j
        PROVE  read'[Before(A, i) + 1] = MeantBy(work, i)
    <2>1. i < k \/ i = k
      <3>1. i \in Nat /\ (j = k + 2 => k + 1 # i)
        BY <1>3, <1>9 DEF A
      <3> QED  BY <1>3, <1>9, <3>1
    <2>2. CASE i = k
      BY <1>8, <2>2
    <2>3. CASE i < k
      <3>1. Before(A, i) \in Nat /\ Before(A, i) + 1 <= Before(A, k)
        BY <1>3, <2>3, BeforeGrows
      <3>2. Before(A, i) + 1 \in 1 .. Len(read)
        BY <1>4, <1>6, <3>1
      <3> QED  BY <1>4, <1>8, <2>3, <3>2
    <2> QED  BY <2>1, <2>2, <2>3
  <1>10. j <= Len(work') => work'[j].op # "skip"
    BY <1>1
  <1>11. pos' = trail'[j].len /\ inside' = trail'[j].nests /\ j \in 1 .. step'
    BY <1>1
  <1> QED  BY <1>1, <1>2, <1>7, <1>8, <1>9, <1>10, <1>11 DEF Retraced, A, R

(* What does not change while the kernel reads.                            *)
LEMMA SentKept ==
    ASSUME UNCHANGED sentVars
    PROVE  (TrailInv => TrailInv') /\ (NestInv => NestInv') /\ (AttrInv => AttrInv')
  <1>1. /\ request' = request /\ attrs' = attrs /\ nests' = nests
        /\ nlmsg_len' = nlmsg_len /\ trail' = trail
    BY DEF sentVars
  <1>2. work' = work /\ step' = step
    BY <1>1 DEF work, step
  <1>3. TrailInv => TrailInv'
    BY <1>1, <1>2 DEF TrailInv, Laid, Attributes, Ops
  <1>4. NestInv => NestInv'
    <2>1. /\ \A op : Ops(work, op)' = Ops(work, op)
          /\ \A k : Depth(work, k)' = Depth(work, k)
          /\ \A c, o : Closes(c, o)' = Closes(c, o)
      BY <1>1, <1>2 DEF Closes, Ops, Depth, Before
    <2> QED  BY <1>1, <1>2, <2>1 DEF NestInv
  <1>5. AttrInv => AttrInv'
    BY <1>1, <1>2 DEF AttrInv, Attributes, Closes, Ops
  <1> QED  BY <1>3, <1>4, <1>5

(* A nest that is opened in another ends in it.                            *)
LEMMA NestReadable ==
    ASSUME TrailInv, NestInv, AttrInv, Sent, NEW k \in 1 .. Len(work), work[k].op = "open",
           NEW c \in 1 .. step, k < c, Ends(k, c), inside = trail[k].nests
    PROVE  trail[k].len + attrs[trail[k].len].rta_len <= trail[c].len
  <1>1. /\ k \in Ops(work, "open") /\ k \in Attributes(work) /\ step \in Nat
        /\ c \in k + 1 .. step /\ k \in 1 .. step
    BY SentIs DEF Ops, Attributes
  <1>2. trail[k].len \notin Range(trail[c].nests)
    <2>1. CASE inside = <<>>
      <3>1. trail[c].nests = <<>>
        BY <2>1, SentIs DEF Ends
      <3> QED  BY <3>1 DEF Range
    <2>2. CASE inside # <<>>
      <3>1. PICK o \in Ops(work, "open") : o < k /\ Head(inside) = trail[o].len
        BY <2>2 DEF Ends
      <3>2. /\ trail[c].nests # <<>> /\ trail[c].nests \in Seq(Nat)
            /\ Head(trail[c].nests) = trail[o].len
        BY <2>2, <3>1, WorkIs DEF Ends
      <3>3. trail[c].nests[1] = trail[o].len
        BY <3>2, PopIs
      <3>4. o \in 1 .. k - 1 /\ o \in Attributes(work) /\ o \in 1 .. step
        <4>1. o \in 1 .. Len(work)
          BY SentIs
        <4> QED  BY <1>1, <3>1, <4>1 DEF Attributes
      <3>5. trail[o].len < trail[k].len /\ trail[o].len \in Nat /\ trail[k].len \in Nat
        BY <1>1, <3>4, WorkIs DEF TrailInv
      <3>6. ASSUME NEW m \in 1 .. Len(trail[c].nests)
            PROVE  trail[c].nests[m] # trail[k].len
        <4>1. CASE m = 1
          BY <3>3, <3>5, <4>1
        <4>2. CASE m # 1
          <5>1. 1 \in 1 .. m - 1 /\ trail[c].nests[m] \in Nat
            BY <3>2, <4>2
          <5>2. trail[c].nests[m] < trail[c].nests[1]
            BY <5>1 DEF NestInv
          <5> QED  BY <3>3, <3>5, <5>1, <5>2
        <4> QED  BY <4>1, <4>2
      <3>7. DOMAIN trail[c].nests = 1 .. Len(trail[c].nests)
        BY <3>2
      <3> QED  BY <3>6, <3>7 DEF Range
    <2> QED  BY <2>1, <2>2
  <1>3. PICK d \in Ops(work, "close") : d \in k + 1 .. c - 1 /\ Closes(d, k)
    BY <1>1, <1>2 DEF NestInv
  <1>4. k < d /\ d < c /\ d < step /\ d \in 1 .. step /\ d \in 1 .. c - 1
    BY <1>1, <1>3
  <1>5. attrs[trail[k].len].rta_len = trail[d].len - trail[k].len
    BY <1>1, <1>3, <1>4 DEF AttrInv
  <1>6. trail[d].len <= trail[c].len
    BY <1>4 DEF TrailInv
  <1>7. trail[d].len \in Nat /\ trail[k].len \in Nat /\ trail[c].len \in Nat
    BY <1>1, <1>4, WorkIs
  <1> QED  BY <1>5, <1>6, <1>7

-----------------------------------------------------------------------------
(* Where the kernel looks for an attribute, the launcher has put one.      *)
LEMMA AttributeThere ==
    ASSUME TrailInv, NestInv, AttrInv, Sent, NEW k \in 1 .. step, Retraced(k), pos < Upto
    PROVE  /\ k \in 1 .. Len(work) /\ work[k].op \in {"put", "open"} /\ Readable
           /\ attrs[pos].type = work[k].type /\ pos \in Nat
           /\ attrs[pos].data = IF work[k].op = "put" THEN work[k].data ELSE "nest"
           /\ work[k].op = "put" => attrs[pos].rta_len = RtattrSize + work[k].size
  <1>1. /\ step = Len(work) + 1 /\ Len(work) \in Nat
        /\ pos = trail[k].len /\ inside = trail[k].nests
        /\ k <= Len(work) => work[k].op # "skip"
    BY SentIs DEF Retraced
  <1>2. PICK c \in 1 .. step : Ends(k, c)
    BY <1>1, InsideEnds
  <1>3. /\ trail[k].len \in Nat /\ trail[c].len \in Nat /\ c \in k .. step
        /\ Upto = trail[c].len
    BY <1>2, WorkIs DEF Ends
  <1>4. k < c /\ k \in 1 .. Len(work)
    <2>1. k # c
      BY <1>1, <1>3
    <2> QED  BY <1>1, <1>3, <2>1
  <1>5. work[k].op \in {"put", "open"}
    <2>1. work[k].op \in {"put", "open", "skip", "close"}
      BY <1>4, WorkIs DEF WellFormed
    <2>2. work[k].op # "close"
      BY <1>1, <1>2, <1>4, ClosedThere
    <2> QED  BY <1>1, <1>4, <2>1, <2>2
  <1>6. k \in Attributes(work) /\ k < step
    BY <1>1, <1>4, <1>5 DEF Attributes, Ops
  <1>7. /\ pos \in DOMAIN attrs /\ attrs[pos].type = work[k].type
        /\ attrs[pos].data = IF work[k].op = "put" THEN work[k].data ELSE "nest"
        /\ work[k].op = "put" => attrs[pos].rta_len = RtattrSize + work[k].size
    BY <1>1, <1>6 DEF AttrInv
  <1>8. CASE work[k].op = "put"
    <2>1. RtattrSize + work[k].size \in Nat
      BY <1>4, <1>8, WorkIs, SizesAre DEF WellFormed
    <2>2. /\ Align(RtattrSize + work[k].size) \in Nat
          /\ Align(RtattrSize + work[k].size) >= RtattrSize + work[k].size
      BY <2>1, AlignIs
    <2>3. trail[k + 1].len = trail[k].len + Align(RtattrSize + work[k].size)
      <3>1. Laid(k)
        BY <1>4, SentIs
      <3> QED  BY <1>8, <3>1 DEF Laid, Trail
    <2>4. trail[k + 1].len <= trail[c].len
      <3>1. k + 1 = c \/ k + 1 \in 1 .. c - 1
        BY <1>3, <1>4
      <3>2. CASE k + 1 = c
        BY <1>3, <3>2
      <3>3. CASE k + 1 \in 1 .. c - 1
        BY <3>3 DEF TrailInv
      <3> QED  BY <3>1, <3>2, <3>3
    <2>5. pos + attrs[pos].rta_len <= Upto
      <3> DEFINE r == RtattrSize + work[k].size
      <3>1. /\ r \in Nat /\ Align(r) \in Nat /\ Align(r) >= r
            /\ pos = trail[k].len /\ attrs[pos].rta_len = r
            /\ trail[k].len + Align(r) <= trail[c].len
        BY <1>1, <1>7, <1>8, <2>1, <2>2, <2>3, <2>4
      <3> HIDE DEF r
      <3> QED  BY <1>3, <3>1
    <2> QED  BY <1>1, <1>3, <1>4, <1>5, <1>7, <2>5 DEF Readable
  <1>9. CASE work[k].op = "open"
    <2>1. trail[k].len + attrs[trail[k].len].rta_len <= trail[c].len
      BY <1>1, <1>2, <1>4, <1>9, NestReadable
    <2>2. pos + attrs[pos].rta_len <= Upto
      BY <1>1, <1>3, <2>1
    <2> QED  BY <1>1, <1>3, <1>4, <1>5, <1>7, <2>2 DEF Readable
  <1> QED  BY <1>5, <1>8, <1>9

LEMMA ReadAttrStep == NlmsgInv /\ ReadAttr => NlmsgInv'
  <1> SUFFICES ASSUME NlmsgInv, ReadAttr PROVE NlmsgInv'
    OBVIOUS
  <1>1. /\ TrailInv /\ NestInv /\ AttrInv /\ Sent /\ pos < Upto /\ UNCHANGED sentVars
        /\ \E k \in 1 .. step : Retraced(k)
    BY DEF NlmsgInv, ReadAttr
  <1>2. PICK k \in 1 .. step : Retraced(k)
    BY <1>1
  <1>3. /\ k \in 1 .. Len(work) /\ work[k].op \in {"put", "open"} /\ Readable
        /\ attrs[pos].type = work[k].type /\ pos \in Nat
        /\ attrs[pos].data = IF work[k].op = "put" THEN work[k].data ELSE "nest"
        /\ work[k].op = "put" => attrs[pos].rta_len = RtattrSize + work[k].size
    BY <1>1, <1>2, AttributeThere
  <1>4. /\ pos = trail[k].len /\ inside = trail[k].nests /\ Len(inside) = Depth(work, k)
        /\ k \in Attributes(work) /\ step = Len(work) + 1 /\ Len(work) \in Nat
        /\ k + 1 \in 1 .. step /\ Laid(k) /\ WellFormed(work)
    BY <1>1, <1>2, <1>3, SentIs, WorkIs DEF Retraced, NestInv, Attributes, Ops
  <1>5. \A j \in 1 .. Len(work) : j \in Attributes(work) <=> work[j].op \in {"put", "open"}
    BY DEF Attributes, Ops
  <1>6. k + 1 <= Len(work) /\ work[k + 1].op = "skip" =>
           work[k].op = "open" /\ work[k].type = "INFO_PEER"
    <2>1. k + 1 <= Len(work) => k + 1 \in 1 .. Len(work) /\ (k + 1) - 1 = k
      BY <1>3, <1>4
    <2> QED  BY <1>4, <2>1 DEF WellFormed
  <1>7. ASSUME NEW j \in 1 .. step, Retraced(j)'
        PROVE  NlmsgInv'
    <2>1. TrailInv' /\ NestInv' /\ AttrInv'
      BY <1>1, SentKept
    <2>2. step' = step
      BY <1>1 DEF sentVars, step
    <2> QED  BY <1>7, <2>1, <2>2 DEF NlmsgInv
  <1>8. CASE work[k].op = "put"
    <2>1. work[k].size \in Nat /\ attrs[pos].data # "nest" /\ attrs[pos].data = work[k].data
      BY <1>3, <1>4, <1>8 DEF WellFormed
    <2>2. /\ read' = Append(read,
                        Read(attrs[pos].type, Len(inside), attrs[pos].data,
                             attrs[pos].rta_len - RtattrSize))
          /\ pos' = pos + Align(attrs[pos].rta_len) /\ inside' = inside
      BY <1>3, <2>1 DEF ReadAttr
    <2>3. attrs[pos].rta_len = RtattrSize + work[k].size
          /\ attrs[pos].rta_len - RtattrSize = work[k].size
      BY <1>3, <1>8, <2>1, SizesAre
    <2>4. read' = Append(read, MeantBy(work, k))
      BY <1>3, <1>4, <1>8, <2>1, <2>2, <2>3 DEF MeantBy
    <2>5. pos' = trail[k + 1].len /\ inside' = trail[k + 1].nests
      BY <1>4, <1>8, <2>2, <2>3 DEF Laid, Trail
    <2>6. k + 1 <= Len(work) => work[k + 1].op # "skip"
      BY <1>6, <1>8
    <2>7. Retraced(k + 1)'
      BY <1>1, <1>2, <1>4, <2>4, <2>5, <2>6, ReadOn
    <2> QED  BY <1>4, <1>7, <2>7
  <1>9. CASE work[k].op = "open"
    <2>1. attrs[pos].data = "nest"
      BY <1>3, <1>9
    <2>2. /\ read' = Append(read, Read(attrs[pos].type, Len(inside), "nest", 0))
          /\ pos' = pos + RtattrSize
                      + IF attrs[pos].type = "INFO_PEER" THEN BodySize.ifinfomsg ELSE 0
          /\ inside' = <<pos>> \o inside
      BY <1>3, <2>1 DEF ReadAttr
    <2>3. read' = Append(read, MeantBy(work, k))
      BY <1>3, <1>4, <1>9, <2>2 DEF MeantBy
    <2>4. trail[k + 1].len = pos + 4 /\ trail[k + 1].nests = inside'
      <3>1. trail[k + 1] = Trail(trail[k].len + RtattrSize, <<trail[k].len>> \o trail[k].nests)
        BY <1>4, <1>9 DEF Laid
      <3>2. trail[k + 1].len = pos + RtattrSize /\ trail[k + 1].nests = <<pos>> \o inside
        BY <1>4, <3>1 DEF Trail
      <3> QED  BY <2>2, <3>2, SizesAre
    <2>5. CASE work[k].type # "INFO_PEER"
      <3>1. pos' = trail[k + 1].len
        BY <1>3, <2>2, <2>4, <2>5, SizesAre
      <3>2. k + 1 <= Len(work) => work[k + 1].op # "skip"
        BY <1>6, <2>5
      <3>3. Retraced(k + 1)'
        BY <1>1, <1>2, <1>4, <2>3, <2>4, <3>1, <3>2, ReadOn
      <3> QED  BY <1>4, <1>7, <3>3
    <2>6. CASE work[k].type = "INFO_PEER"
      <3>1. k < Len(work) /\ work[k + 1].op = "skip"
        BY <1>3, <1>4, <1>9, <2>6 DEF WellFormed
      <3>2. k + 1 \in 1 .. Len(work) /\ k + 2 \in 1 .. step /\ (k + 1) + 1 = k + 2
        BY <1>3, <1>4, <3>1
      <3>3. trail[k + 2].len = trail[k + 1].len + 16 /\ trail[k + 2].nests = trail[k + 1].nests
        <4>1. Laid(k + 1)
          BY <1>1, <3>2, SentIs
        <4> QED  BY <3>1, <3>2, <4>1, SizesAre DEF Laid, Trail
      <3>4. pos' = trail[k + 2].len /\ inside' = trail[k + 2].nests
        <4>1. pos' = pos + 4 + 16
          BY <1>3, <2>2, <2>6, SizesAre
        <4> QED  BY <1>3, <2>4, <3>3, <4>1
      <3>5. k + 1 \notin Attributes(work)
        BY <1>5, <3>1, <3>2
      <3>6. k + 2 <= Len(work) => work[k + 2].op # "skip"
        <4>1. k + 2 <= Len(work) => k + 2 \in 1 .. Len(work) /\ (k + 2) - 1 = k + 1
          BY <1>3, <1>4
        <4> QED  BY <1>4, <3>1, <4>1 DEF WellFormed
      <3>7. Retraced(k + 2)'
        BY <1>1, <1>2, <1>4, <2>3, <3>2, <3>4, <3>5, <3>6, ReadOn
      <3> QED  BY <1>7, <3>2, <3>7
    <2> QED  BY <2>5, <2>6
  <1> QED  BY <1>3, <1>8, <1>9

(* The kernel comes to the end of a nest where the launcher has closed it. *)
LEMMA LeaveNestStep == NlmsgInv /\ LeaveNest => NlmsgInv'
  <1> SUFFICES ASSUME NlmsgInv, LeaveNest PROVE NlmsgInv'
    OBVIOUS
  <1>1. /\ TrailInv /\ NestInv /\ AttrInv /\ Sent /\ inside # <<>> /\ pos >= Upto
        /\ pos' = Head(inside) + Align(attrs[Head(inside)].rta_len) /\ inside' = Tail(inside)
        /\ UNCHANGED sentVars /\ read' = read
        /\ \E k \in 1 .. step : Retraced(k)
    BY DEF NlmsgInv, LeaveNest
  <1>2. PICK k \in 1 .. step : Retraced(k)
    BY <1>1
  <1>3. /\ step = Len(work) + 1 /\ Len(work) \in Nat
        /\ pos = trail[k].len /\ inside = trail[k].nests
        /\ k <= Len(work) => work[k].op # "skip"
        /\ Attributes(work) \in SUBSET (1 .. Len(work))
        /\ Ops(work, "open") \in SUBSET (1 .. Len(work))
        /\ Ops(work, "close") \in SUBSET (1 .. Len(work))
    BY <1>1, <1>2, SentIs DEF Retraced
  <1>4. PICK c \in 1 .. step : Ends(k, c)
    BY <1>1, <1>3, InsideEnds
  <1>5. /\ c \in k .. step /\ Upto = trail[c].len /\ c \in 1 .. Len(work) /\ work[c].op = "close"
        /\ attrs[Head(inside)].rta_len = trail[c].len - Head(inside)
        /\ \E o \in Ops(work, "open") : o < c /\ Head(inside) = trail[o].len
    BY <1>1, <1>3, <1>4 DEF Ends, Ops
  <1>6. k \in 1 .. Len(work) /\ trail[k].len \in Nat /\ trail[c].len \in Nat
    <2>1. k \in 1 .. Len(work)
      BY <1>3, <1>5
    <2>2. \A i \in 1 .. step : trail[i].len \in Nat
      BY <1>1, WorkIs
    <2> QED  BY <2>1, <2>2
  <1>7. work[k].op = "close" /\ trail[k].len = trail[c].len
    <2>1. CASE c = k
      BY <1>5, <2>1
    <2>2. CASE c # k
      <3>1. k \in 1 .. c - 1
        BY <1>5, <1>6, <2>2
      <3>2. trail[k].len <= trail[c].len /\ (k \in Attributes(work) => trail[k].len < trail[c].len)
        BY <1>1, <3>1 DEF TrailInv
      <3>3. trail[k].len = trail[c].len /\ k \notin Attributes(work)
        BY <1>1, <1>3, <1>5, <1>6, <3>2
      <3>4. work[k].op \in {"put", "open", "skip", "close"}
        BY <1>1, <1>6, WorkIs DEF WellFormed
      <3>5. work[k].op \notin {"put", "open"}
        BY <1>6, <3>3 DEF Attributes, Ops
      <3> QED  BY <1>3, <1>6, <3>3, <3>4, <3>5
    <2> QED  BY <2>1, <2>2
  <1>8. /\ k + 1 \in 1 .. step
        /\ trail[k + 1].len = trail[k].len /\ trail[k + 1].nests = Tail(trail[k].nests)
    <2>1. Laid(k) /\ k + 1 \in 1 .. step
      BY <1>1, <1>6, SentIs
    <2>2. trail[k + 1] = Trail(trail[k].len, Tail(trail[k].nests))
      BY <1>7, <2>1 DEF Laid
    <2> QED  BY <2>1, <2>2 DEF Trail
  <1>9. pos' = trail[k + 1].len
    <2>1. PICK o \in Ops(work, "open") : o < c /\ Head(inside) = trail[o].len
      BY <1>5
    <2>2. o \in 1 .. step /\ o \in 1 .. c - 1
      BY <1>3, <1>5, <2>1
    <2>3. /\ trail[o].len \in Nat /\ trail[o].len <= trail[c].len
          /\ Align(trail[o].len) = trail[o].len /\ Align(trail[c].len) = trail[c].len
      BY <1>1, <2>2, WorkIs DEF TrailInv
    <2>4. Align(trail[c].len - trail[o].len) = trail[c].len - trail[o].len
      BY <1>6, <2>3, AlignedSum
    <2>5. pos' = trail[c].len
      BY <1>1, <1>5, <1>6, <2>1, <2>3, <2>4
    <2> QED  BY <1>7, <1>8, <2>5
  <1>10. k + 1 <= Len(work) => work[k + 1].op # "skip"
    <2>1. k + 1 <= Len(work) => k + 1 \in 1 .. Len(work) /\ (k + 1) - 1 = k
      BY <1>3, <1>6
    <2> QED  BY <1>1, <1>7, <2>1, WorkIs DEF WellFormed
  <1>11. k \notin Attributes(work)
    BY <1>7 DEF Attributes, Ops
  <1>12. Before(Attributes(work), k + 1) = Before(Attributes(work), k)
    <2>1. k \in Nat
      OBVIOUS
    <2> QED  BY <1>3, <1>11, <2>1, BeforeIs
  <1>13. \A i \in Attributes(work) : i < k + 1 <=> i < k
    BY <1>3, <1>6, <1>11
  <1>14. /\ work' = work /\ trail' = trail /\ step' = step
         /\ Attributes(work)' = Attributes(work)
         /\ \A i : Before(Attributes(work), i)' = Before(Attributes(work), i)
         /\ \A i : MeantBy(work, i)' = MeantBy(work, i)
    <2>1. work' = work /\ trail' = trail /\ step' = step
      BY <1>1 DEF sentVars, work, step
    <2> QED  BY <2>1 DEF Attributes, Ops, Before, MeantBy, Depth
  <1>15. Retraced(k + 1)'
    <2>1. /\ read \in Seq({MeantBy(work, i) : i \in Attributes(work)})
          /\ Len(read) = Before(Attributes(work), k)
          /\ \A i \in Attributes(work) :
                i < k => read[Before(Attributes(work), i) + 1] = MeantBy(work, i)
      BY <1>2 DEF Retraced
    <2>2. {MeantBy(work, i) : i \in Attributes(work)}' = {MeantBy(work, i) : i \in Attributes(work)}
      BY <1>14
    <2> QED  BY <1>1, <1>3, <1>8, <1>9, <1>10, <1>12, <1>13, <1>14, <2>1, <2>2 DEF Retraced
  <1>16. TrailInv' /\ NestInv' /\ AttrInv'
    BY <1>1, SentKept
  <1> QED  BY <1>8, <1>14, <1>15, <1>16 DEF NlmsgInv

-----------------------------------------------------------------------------
(* Whatever the launcher and the kernel do, the kernel is where the        *)
(* launcher once was, and has read what had been put until then.           *)
THEOREM KernelRetraces == NlmsgSpec => []NlmsgInv
  <1>1. NlmsgInv /\ [NlmsgNext]_nlVars => NlmsgInv'
    <2> SUFFICES ASSUME NlmsgInv, [NlmsgNext]_nlVars PROVE NlmsgInv'
      OBVIOUS
    <2>1. CASE NlmsgNext
      BY <2>1, PutDataStep, OpenNestStep, SkipHeaderStep, CloseNestStep, ReadAttrStep, LeaveNestStep
         DEF NlmsgNext
    <2>2. CASE UNCHANGED nlVars
      <3>1. UNCHANGED sentVars /\ UNCHANGED readVars
        BY <2>2 DEF nlVars
      <3>2. TrailInv' /\ NestInv' /\ AttrInv'
        BY <3>1, SentKept DEF NlmsgInv
      <3>3. PICK k \in 1 .. step : Retraced(k)
        BY DEF NlmsgInv
      <3>4. /\ work' = work /\ trail' = trail /\ step' = step
            /\ pos' = pos /\ inside' = inside /\ read' = read
        BY <3>1 DEF sentVars, readVars, work, step
      <3>5. /\ Attributes(work)' = Attributes(work)
            /\ \A i : Before(Attributes(work), i)' = Before(Attributes(work), i)
            /\ \A i : MeantBy(work, i)' = MeantBy(work, i)
        BY <3>4 DEF Attributes, Ops, Before, MeantBy, Depth
      <3>6. {MeantBy(work, i) : i \in Attributes(work)}' = {MeantBy(work, i) : i \in Attributes(work)}
        BY <3>5
      <3>7. Retraced(k)'
        BY <3>3, <3>4, <3>5, <3>6 DEF Retraced
      <3> QED  BY <3>2, <3>4, <3>7 DEF NlmsgInv
    <2> QED  BY <2>1, <2>2
  <1> QED  BY <1>1, InitNlmsg, PTL DEF NlmsgSpec

(* The kernel reads out of each request what prepare_netns() has put into  *)
(* it, whatever the lengths of the names.                                  *)
THEOREM RequestsReadBack == NlmsgSpec => []ReadBack
  <1>1. NlmsgInv => ReadBack
    <2> SUFFICES ASSUME NlmsgInv, ReadWhole
                 PROVE  /\ Len(read) = Cardinality(Attributes(work))
                        /\ \A k \in Attributes(work) :
                              read[Before(Attributes(work), k) + 1] = MeantBy(work, k)
      BY DEF ReadBack
    <2>1. /\ TrailInv /\ NestInv /\ Sent /\ inside = <<>> /\ pos >= nlmsg_len
          /\ \E k \in 1 .. step : Retraced(k)
      BY DEF NlmsgInv, ReadWhole
    <2>2. PICK k \in 1 .. step : Retraced(k)
      BY <2>1
    <2>3. /\ step = Len(work) + 1 /\ Len(work) \in Nat
          /\ Attributes(work) \in SUBSET (1 .. Len(work))
          /\ pos = trail[k].len /\ trail[k].nests = <<>> /\ trail[step].len = nlmsg_len
          /\ k <= Len(work) => work[k].op # "skip"
          /\ Len(read) = Before(Attributes(work), k)
          /\ \A i \in Attributes(work) :
                i < k => read[Before(Attributes(work), i) + 1] = MeantBy(work, i)
      BY <2>1, <2>2, SentIs DEF Retraced
    <2>4. k = step
      <3>1. SUFFICES ASSUME k # step PROVE FALSE
        OBVIOUS
      <3>2. k \in 1 .. Len(work) /\ k \in 1 .. step - 1 /\ step \in 1 .. step
        BY <2>3, <3>1
      <3>3. work[k].op \in {"put", "open", "skip", "close"} /\ Laid(k)
        BY <2>1, <3>2, WorkIs, SentIs DEF WellFormed
      <3>4. CASE work[k].op = "close"
        BY <2>3, <3>3, <3>4 DEF Laid
      <3>5. CASE work[k].op \in {"put", "open"}
        <4>1. k \in Attributes(work)
          BY <3>2, <3>5 DEF Attributes, Ops
        <4>2. trail[k].len < trail[step].len
          BY <2>1, <3>2, <4>1 DEF TrailInv
        <4>3. trail[k].len \in Nat /\ nlmsg_len \in Nat
          BY <2>1, <3>2, WorkIs
        <4> QED  BY <2>1, <2>3, <4>2, <4>3
      <3> QED  BY <2>3, <3>2, <3>3, <3>4, <3>5
    <2>5. Before(Attributes(work), Len(work) + 1) = Cardinality(Attributes(work))
      BY <2>3, BeforeIs
    <2>6. \A i \in Attributes(work) : i < k
      BY <2>3, <2>4
    <2> QED  BY <2>3, <2>4, <2>5, <2>6
  <1> QED  BY <1>1, KernelRetraces, PTL

=============================================================================
