------------------------------- MODULE UserNs -------------------------------
(***************************************************************************)
(* The user namespace: map_uid_gid() (src/src/namespaces/user/user.c) and  *)
(* the pipe by which runc() tells the child that the maps are written      *)
(* (src/src/runc.c).                                                       *)
(*                                                                         *)
(* Nothing is ever written to the pipe: the child's read() returns 0, end  *)
(* of file, once no process holds the write end any more.  Both processes  *)
(* hold it after clone().                                                  *)
(***************************************************************************)
EXTENDS Launcher

VARIABLES
    wend,       \* launcher -> which of its two processes hold the write end
    uidmap,     \* launcher -> the uid_map of its child's user namespace
    gidmap,     \* launcher -> the gid_map
    setgroups,  \* launcher -> "allow" or "deny"
    creds       \* launcher -> the child's user and group in its namespace

usernsVars == <<wend, uidmap, gidmap, setgroups, creds>>

(* A line of a map: `length' identities from `inside' on stand for those   *)
(* from `outside' on.  Length 0 is the map nobody has written.             *)
MapLines == [inside : Nat, outside : Nat, length : Nat]

Unmapped == [inside |-> 0, outside |-> 0, length |-> 0]

(* "0 100000 65536", for users and for groups.                             *)
ContainerMap == [inside |-> 0, outside |-> 100000, length |-> 65536]

(* An identity without a mapping reads as this one.                        *)
Overflow == 65534

(* setresuid(id) and setresgid(id) need a mapping of id.                   *)
Mapped(map, id) == map.inside <= id /\ id < map.inside + map.length

UserNsTypeOK ==
    /\ wend \in [Launchers -> SUBSET {"parent", "child"}]
    /\ uidmap \in [Launchers -> MapLines]
    /\ gidmap \in [Launchers -> MapLines]
    /\ setgroups \in [Launchers -> {"allow", "deny"}]
    /\ creds \in [Launchers -> [uid : Nat, gid : Nat]]

UserNsInit ==
    /\ wend = [l \in Launchers |-> {}]
    /\ uidmap = [l \in Launchers |-> Unmapped]
    /\ gidmap = [l \in Launchers |-> Unmapped]
    /\ setgroups = [l \in Launchers |-> "allow"]
    /\ creds = [l \in Launchers |-> [uid |-> 0, gid |-> 0]]

(* pipe(), with -U only.                                                   *)
OpenPipe(l, with) ==
    /\ wend' = [wend EXCEPT ![l] = IF with THEN {"parent"} ELSE {}]
    /\ UNCHANGED <<uidmap, gidmap, setgroups, creds>>

(* clone(CLONE_NEWUSER): the child shares the pipe and has no identity yet *)
(* in its new namespace.  Without CLONE_NEWUSER it stays root.             *)
EnterUserNs(l) ==
    /\ wend' = [wend EXCEPT ![l] = IF userns[l] THEN @ \cup {"child"} ELSE @]
    /\ creds' = [creds EXCEPT ![l] =
                    IF userns[l] THEN [uid |-> Overflow, gid |-> Overflow] ELSE @]
    /\ UNCHANGED <<uidmap, gidmap, setgroups>>

(* A process that ends, or closes the write end, no longer holds it.       *)
CloseWriteEnd(l, who) ==
    /\ wend' = [wend EXCEPT ![l] = @ \ {who}]
    /\ UNCHANGED <<uidmap, gidmap, setgroups, creds>>

(* map_uid_gid(), in its order.                                            *)
WriteUidMap(l) ==
    /\ Advance(l, "uidmap", "setgroups")
    /\ uidmap' = [uidmap EXCEPT ![l] = ContainerMap]
    /\ UNCHANGED <<wend, gidmap, setgroups, creds>>

(* proc_setgroups_write(): when it fails it prints a message and returns.  *)
WriteSetgroups(l) ==
    /\ Advance(l, "setgroups", "gidmap")
    /\ \/ setgroups' = [setgroups EXCEPT ![l] = "deny"]
       \/ "setgroups" \in FaultPoints /\ UNCHANGED setgroups
    /\ UNCHANGED <<wend, uidmap, gidmap, creds>>

WriteGidMap(l) ==
    /\ Advance(l, "gidmap", "notify")
    /\ gidmap' = [gidmap EXCEPT ![l] = ContainerMap]
    /\ UNCHANGED <<wend, uidmap, setgroups, creds>>

(* runc(): "Notify child that the mapping is done".                        *)
Notify(l) ==
    /\ Advance(l, "notify", "wait")
    /\ CloseWriteEnd(l, "parent")

UserNsStep(l) ==
    \/ WriteUidMap(l)
    \/ WriteSetgroups(l)
    \/ WriteGidMap(l)
    \/ Notify(l)

-----------------------------------------------------------------------------
(* child_fn(), up to its identity.                                         *)

(* Mutant of ChildClose: the child keeps its copy of the write end.        *)
ChildKeepsWriteEnd(l) ==
    /\ userns[l]
    /\ ChildAdvance(l, "born", "reading")
    /\ UNCHANGED usernsVars

ChildClose(l) ==
    /\ userns[l]
    /\ ChildAdvance(l, "born", "reading")
    /\ CloseWriteEnd(l, "child")

(* read() blocks while the write end is held, then returns 0.              *)
ChildRead(l) ==
    /\ ChildAdvance(l, "reading", "setgid")
    /\ wend[l] = {}
    /\ UNCHANGED usernsVars

(* Mutant of IdsAccepted: nobody looks at what setresuid() returned.       *)
IdsUnchecked(l) == cpc[l] \in ChildPoints

(* What the kernel demands of the child's next call.                       *)
IdsAccepted(l) ==
    /\ cpc[l] = "setgid" => Mapped(gidmap[l], 0)
    /\ cpc[l] = "setuid" => Mapped(uidmap[l], 0)

(* Mutant of ChildSetGid: its result is not checked.                       *)
ChildSetGidUnchecked(l) ==
    /\ ChildAdvance(l, "setgid", "setuid")
    /\ creds' = [creds EXCEPT ![l].gid = IF Mapped(gidmap[l], 0) THEN 0 ELSE @]
    /\ UNCHANGED <<wend, uidmap, gidmap, setgroups>>

ChildSetGid(l) ==
    /\ ChildAdvance(l, "setgid", "setuid")
    /\ IdsAccepted(l)
    /\ creds' = [creds EXCEPT ![l].gid = 0]
    /\ UNCHANGED <<wend, uidmap, gidmap, setgroups>>

ChildSetUid(l) ==
    /\ ChildAdvance(l, "setuid", "rootfs")
    /\ IdsAccepted(l)
    /\ creds' = [creds EXCEPT ![l].uid = 0]
    /\ UNCHANGED <<wend, uidmap, gidmap, setgroups>>

UserNsChildStep(l) ==
    \/ ChildClose(l)
    \/ ChildRead(l)
    \/ ChildSetGid(l)
    \/ ChildSetUid(l)

=============================================================================
