------------------------------- MODULE Nlmsg --------------------------------
(***************************************************************************)
(* The netlink requests of prepare_netns()                                 *)
(* (src/src/namespaces/network/network.c), attribute by attribute:         *)
(* _nlmsg_put() and NLMSG_TAIL (src/src/helpers/helpers.c and helpers.h)   *)
(* and the way the kernel then walks through the message.                  *)
(*                                                                         *)
(* A message is a header, a structure, and attributes; an attribute says   *)
(* its length, begins at a multiple of four bytes, and may hold other      *)
(* attributes.  Such a nest is opened empty and gets its length when all   *)
(* that belongs into it has been put behind it.                            *)
(***************************************************************************)
EXTENDS Integers, FiniteSets, Sequences, Functions

CONSTANT
    NameSizes     \* the sizes of interface names, with their final zero

ASSUME NameSizesAssumption == NameSizes \subseteq 1 .. 16

(* sizeof: of the message's header, ifinfomsg, ifaddrmsg, rtmsg, rtattr.   *)
HeaderSize == 16
BodySize   == [ifinfomsg |-> 16, ifaddrmsg |-> 8, rtmsg |-> 12]
RtattrSize == 4

(* What the launcher does after the header and the structure of a request. *)
PutOp(type, data, size) == [op |-> "put", type |-> type, data |-> data, size |-> size]
OpenOp(type)            == [op |-> "open", type |-> type]
SkipOp                  == [op |-> "skip"]
CloseOp                 == [op |-> "close"]

NewPair(n, m) ==
    <<PutOp("IFNAME", "veth1", n),
      OpenOp("LINKINFO"), PutOp("INFO_KIND", "veth", 5), OpenOp("INFO_DATA"), OpenOp("INFO_PEER"),
      SkipOp, PutOp("IFNAME", "vpeer1", m),
      CloseOp, CloseOp, CloseOp>>

NewAddr ==
    <<PutOp("LOCAL", "addr", 4), PutOp("ADDRESS", "addr", 4), PutOp("BROADCAST", "bcast", 4)>>

NewLink   == <<>>
MoveLink  == <<PutOp("NET_NS_FD", "child_netns", 4)>>
NewRoute  == <<PutOp("GATEWAY", "addr", 4)>>

Requests ==
    {[body |-> "ifinfomsg", work |-> NewPair(n, m)] : n \in NameSizes, m \in NameSizes}
        \cup {[body |-> "ifaddrmsg", work |-> NewAddr],
              [body |-> "ifinfomsg", work |-> NewLink],
              [body |-> "ifinfomsg", work |-> MoveLink],
              [body |-> "rtmsg", work |-> NewRoute]}

VARIABLES
    request,      \* what is sent
    attrs,        \* place in the message -> the attribute put there
    nests,        \* the places of the open nests, the innermost first
    nlmsg_len,
    trail,        \* nlmsg_len and nests before each operation so far, and now
    pos,          \* where the kernel is in the message
    inside,       \* the places of the nests it is in, the innermost first
    read          \* what it has read

sentVars == <<request, attrs, nests, nlmsg_len, trail>>
readVars == <<pos, inside, read>>
nlVars   == <<sentVars, readVars>>

Align(n) == ((n + 3) \div 4) * 4

(* NLMSG_TAIL: where the next attribute goes.                              *)
MsgTail == Align(nlmsg_len)

(* The launcher is at the step-th operation of the request's work.         *)
work == request.work
step == Len(trail)
Sent == step > Len(work)

Trail(len, places) == [len |-> len, nests |-> places]

NlmsgInit ==
    /\ request \in Requests
    /\ attrs = <<>>
    /\ nests = <<>>
    /\ nlmsg_len = HeaderSize + BodySize[request.body]
    /\ trail = <<Trail(nlmsg_len, nests)>>
    /\ pos = nlmsg_len
    /\ inside = <<>>
    /\ read = <<>>

-----------------------------------------------------------------------------
(* Attribute type is at place p of the message.                            *)
Put(p, type, data, size) ==
    attrs' = [q \in DOMAIN attrs \cup {p} |->
                 IF q = p THEN [type |-> type, data |-> data, rta_len |-> RtattrSize + size]
                 ELSE attrs[q]]

(* Mutant of NlmsgPut: the length of the message counts no padding.        *)
NlmsgPutUnpadded(type, data, size) ==
    /\ Put(MsgTail, type, data, size)
    /\ nlmsg_len' = MsgTail + RtattrSize + size

(* _nlmsg_put().                                                           *)
NlmsgPut(type, data, size) ==
    /\ Put(MsgTail, type, data, size)
    /\ nlmsg_len' = MsgTail + Align(RtattrSize + size)

At(op) == ~Sent /\ work[step].op = op

Proceed ==
    /\ trail' = Append(trail, Trail(nlmsg_len', nests'))
    /\ UNCHANGED <<request, readVars>>

(* NLMSG_STRING, or _nlmsg_put() of an address or a descriptor.            *)
PutData ==
    /\ At("put")
    /\ NlmsgPut(work[step].type, work[step].data, work[step].size)
    /\ UNCHANGED nests
    /\ Proceed

(* Mutant of OpenNest: the nests are closed in the order they were opened. *)
OpenNestBehind ==
    /\ At("open")
    /\ nests' = nests \o <<MsgTail>>
    /\ NlmsgPut(work[step].type, "nest", 0)
    /\ Proceed

(* NLMSG_ATTR, whose place is remembered.                                  *)
OpenNest ==
    /\ At("open")
    /\ nests' = <<MsgTail>> \o nests
    /\ NlmsgPut(work[step].type, "nest", 0)
    /\ Proceed

(* The peer's own ifinfomsg, all zero.                                     *)
SkipHeader ==
    /\ At("skip")
    /\ nlmsg_len' = nlmsg_len + BodySize.ifinfomsg
    /\ UNCHANGED <<attrs, nests>>
    /\ Proceed

CloseNest ==
    /\ At("close")
    /\ attrs' = [attrs EXCEPT ![Head(nests)].rta_len = MsgTail - Head(nests)]
    /\ nests' = Tail(nests)
    /\ UNCHANGED nlmsg_len
    /\ Proceed

-----------------------------------------------------------------------------
(* The kernel's reading, in the order of the message: a nest, then what it *)
(* holds, then what is behind it.                                          *)

Read(type, depth, data, size) == [type |-> type, depth |-> depth, data |-> data, size |-> size]

(* The end of what the kernel is in.                                       *)
Upto == IF inside = <<>> THEN nlmsg_len ELSE Head(inside) + attrs[Head(inside)].rta_len

Readable == pos \in DOMAIN attrs /\ pos + attrs[pos].rta_len <= Upto

(* The next attribute, with the number of nests it is in.  Where there is  *)
(* none, or one that is longer than what it is in, the kernel gives up.    *)
ReadAttr ==
    /\ Sent /\ pos < Upto
    /\ IF ~Readable
       THEN /\ read' = Append(read, Read("?", Len(inside), "?", 0))
            /\ pos' = nlmsg_len /\ inside' = <<>>
       ELSE LET a == attrs[pos] IN
            IF a.data = "nest"
            THEN /\ read' = Append(read, Read(a.type, Len(inside), "nest", 0))
                 /\ pos' = pos + RtattrSize
                              + IF a.type = "INFO_PEER" THEN BodySize.ifinfomsg ELSE 0
                 /\ inside' = <<pos>> \o inside
            ELSE /\ read' = Append(read,
                               Read(a.type, Len(inside), a.data, a.rta_len - RtattrSize))
                 /\ pos' = pos + Align(a.rta_len)
                 /\ UNCHANGED inside
    /\ UNCHANGED sentVars

LeaveNest ==
    /\ Sent /\ inside # <<>> /\ pos >= Upto
    /\ pos' = Head(inside) + Align(attrs[Head(inside)].rta_len)
    /\ inside' = Tail(inside)
    /\ UNCHANGED <<sentVars, read>>

ReadWhole == Sent /\ inside = <<>> /\ pos >= nlmsg_len

NlmsgNext ==
    \/ PutData
    \/ OpenNest
    \/ SkipHeader
    \/ CloseNest
    \/ ReadAttr
    \/ LeaveNest

NlmsgSpec == NlmsgInit /\ [][NlmsgNext]_nlVars

-----------------------------------------------------------------------------
(* What the launcher means by its work w.                                  *)

Ops(w, op) == {k \in 1 .. Len(w) : w[k].op = op}

Attributes(w) == Ops(w, "put") \cup Ops(w, "open")

Before(S, k) == Cardinality({i \in S : i < k})

(* How many nests are open before the k-th operation.                      *)
Depth(w, k) == Before(Ops(w, "open"), k) - Before(Ops(w, "close"), k)

MeantBy(w, k) ==
    IF w[k].op = "put" THEN Read(w[k].type, Depth(w, k), w[k].data, w[k].size)
    ELSE Read(w[k].type, Depth(w, k), "nest", 0)

(* The kernel reads out of each request what the launcher has put in, for  *)
(* every length of the two names: padding belongs to the nests it is in    *)
(* and to the message, the peer's header is where it is looked for, and    *)
(* no attribute ends outside of what holds it.                             *)
ReadBack ==
    ReadWhole =>
        /\ Len(read) = Cardinality(Attributes(work))
        /\ \A k \in Attributes(work) : read[Before(Attributes(work), k) + 1] = MeantBy(work, k)

-----------------------------------------------------------------------------
(* The inductive invariant.                                                *)

(* What the k-th operation has done to the length and the open nests.      *)
Laid(k) ==
    LET len == trail[k].len
        places == trail[k].nests
    IN  CASE work[k].op = "put"   -> trail[k + 1] = Trail(len + Align(RtattrSize + work[k].size), places)
          [] work[k].op = "open"  -> trail[k + 1] = Trail(len + RtattrSize, <<len>> \o places)
          [] work[k].op = "skip"  -> trail[k + 1] = Trail(len + BodySize.ifinfomsg, places)
          [] work[k].op = "close" -> /\ places # <<>>
                                     /\ trail[k + 1] = Trail(len, Tail(places))

(* The c-th operation closes the nest that the o-th opened.                *)
Closes(c, o) == trail[c].nests # <<>> /\ Head(trail[c].nests) = trail[o].len

(* The message only grows, by attributes at least, and stays aligned.      *)
TrailInv ==
    /\ request \in Requests
    /\ trail \in Seq([len : Nat, nests : Seq(Nat)])
    /\ step \in 1 .. Len(work) + 1
    /\ trail[1] = Trail(HeaderSize + BodySize[request.body], <<>>)
    /\ trail[step] = Trail(nlmsg_len, nests)
    /\ \A k \in 1 .. step - 1 : Laid(k)
    /\ \A k \in 1 .. step : Align(trail[k].len) = trail[k].len
    /\ \A k \in 1 .. step : \A j \in 1 .. k - 1 :
          /\ trail[j].len <= trail[k].len
          /\ j \in Attributes(work) => trail[j].len < trail[k].len

(* A nest that is opened is open until an operation closes it, and never   *)
(* again; what is open is nested in the order of opening.                  *)
NestInv ==
    /\ \A k \in 1 .. step : Len(trail[k].nests) = Depth(work, k)
    /\ \A k \in 1 .. step : \A m \in 1 .. Len(trail[k].nests) :
          /\ \E o \in Ops(work, "open") : o < k /\ trail[k].nests[m] = trail[o].len
          /\ \A n \in 1 .. m - 1 : trail[k].nests[m] < trail[k].nests[n]
    /\ \A o \in Ops(work, "open") : \A k \in o + 1 .. step :
          \/ trail[o].len \in Range(trail[k].nests)
          \/ \E c \in Ops(work, "close") : c \in o + 1 .. k - 1 /\ Closes(c, o)
    /\ \A c \in Ops(work, "close") : \A k \in c + 1 .. step :
          Head(trail[c].nests) \notin Range(trail[k].nests)

(* Each attribute is where its operation has put it, and a closed nest     *)
(* reaches to where it was closed.                                         *)
AttrInv ==
    /\ DOMAIN attrs = {trail[k].len : k \in {i \in Attributes(work) : i < step}}
    /\ \A k \in Attributes(work) : k < step =>
          /\ DOMAIN attrs[trail[k].len] = {"type", "data", "rta_len"}
          /\ attrs[trail[k].len].type = work[k].type
          /\ attrs[trail[k].len].data = IF work[k].op = "put" THEN work[k].data ELSE "nest"
          /\ work[k].op = "put" => attrs[trail[k].len].rta_len = RtattrSize + work[k].size
    /\ \A o \in Ops(work, "open") : \A c \in Ops(work, "close") :
          o < c /\ c < step /\ Closes(c, o) =>
              attrs[trail[o].len].rta_len = trail[c].len - trail[o].len

(* The kernel stands where the launcher stood before its k-th operation,   *)
(* and has read what was put until then.                                   *)
Retraced(k) ==
    /\ k <= Len(work) => work[k].op # "skip"
    /\ pos = trail[k].len /\ inside = trail[k].nests
    /\ read \in Seq({MeantBy(work, i) : i \in Attributes(work)})
    /\ Len(read) = Before(Attributes(work), k)
    /\ \A i \in Attributes(work) :
          i < k => read[Before(Attributes(work), i) + 1] = MeantBy(work, i)

NlmsgInv == TrailInv /\ NestInv /\ AttrInv /\ \E k \in 1 .. step : Retraced(k)

=============================================================================
