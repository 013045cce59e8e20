------------------------------- MODULE Netns --------------------------------
(***************************************************************************)
(* The container's network: prepare_netns() in                             *)
(* src/src/namespaces/network/network.c, over the netlink and libiptc      *)
(* helpers of src/src/helpers/helpers.c.                                   *)
(*                                                                         *)
(* The launcher makes a pair of virtual interfaces named veth1 and vpeer1  *)
(* in the host's namespace, gives veth1 an address, moves vpeer1 into the  *)
(* child's namespace, goes there itself to configure it, comes back, and   *)
(* appends three firewall rules.  Interfaces are always found by name, in  *)
(* the namespace the launcher is in.                                       *)
(***************************************************************************)
EXTENDS Launcher

VARIABLES
    veth,      \* the pair: its maker, the namespace of vpeer1, what is set up
    at,        \* launcher -> the network namespace it is in
    holds,     \* launcher -> TRUE when its descriptor child_netns is valid
    netcfg,    \* namespace -> of loopback and default route, what was set up
    iptables   \* the firewall rules appended, with the launcher that did

netVars == <<veth, at, holds, netcfg, iptables>>

(* The host's namespace is the one of no launcher's child.                 *)
HostNs     == NoOne
Namespaces == Launchers \cup {HostNs}

(* The ends of the pair.  They exist together, or not at all.              *)
HostEnd == "veth1"
PeerEnd == "vpeer1"

VethConf == {"hostAddr", "hostUp", "peerAddr", "peerUp"}

NoPair == [maker |-> NoOne, peer |-> HostNs, conf |-> {}]

HasLink(end, n) ==
    /\ veth.maker # NoOne
    /\ IF end = HostEnd THEN n = HostNs ELSE n = veth.peer

(* The rules, in the order of the code.                                    *)
Masquerade == [entry |-> "POSTROUTING", iface |-> "any", oface |-> "eth0"]
ForwardOut == [entry |-> "FORWARD", iface |-> "veth0", oface |-> "eth0"]
ForwardIn  == [entry |-> "FORWARD", iface |-> "eth0", oface |-> "veth0"]

Rules == {Masquerade, ForwardOut, ForwardIn}

NetTypeOK ==
    /\ veth \in [maker : Launchers \cup {NoOne}, peer : Namespaces, conf : SUBSET VethConf]
    /\ at \in [Launchers -> Namespaces]
    /\ holds \in [Launchers -> BOOLEAN]
    /\ netcfg \in [Namespaces -> SUBSET {"lo", "default"}]
    /\ iptables \in SUBSET (Launchers \X Rules)

NetInit ==
    /\ veth = NoPair
    /\ at = [l \in Launchers |-> HostNs]
    /\ holds = [l \in Launchers |-> FALSE]
    /\ netcfg = [n \in Namespaces |-> {}]
    /\ iptables = {}

(* What the kernel demands of the launcher's next request: new names for   *)
(* the pair (NLM_F_EXCL), an interface of that name in the namespace the   *)
(* launcher is in, a valid descriptor of the child's namespace, and for    *)
(* the default route a gateway in reach of an interface that is up.        *)
NetAccepts(l) ==
    /\ pc[l] = "veth" => ~HasLink(HostEnd, at[l]) /\ ~HasLink(PeerEnd, at[l])
    /\ pc[l] \in {"hostaddr", "hostup"} => HasLink(HostEnd, at[l])
    /\ pc[l] = "move" => HasLink(PeerEnd, at[l]) /\ holds[l]
    /\ pc[l] = "enter" => holds[l]
    /\ pc[l] \in {"peeraddr", "peerup", "route"} => HasLink(PeerEnd, at[l])
    /\ pc[l] = "route" => /\ {"peerAddr", "peerUp"} \subseteq veth.conf
                          /\ "default" \notin netcfg[at[l]]

(* Mutant of CreatePair: the answer to the request is not checked.         *)
CreatePairUnchecked(l) ==
    /\ Advance(l, "veth", "hostaddr")
    /\ veth' = IF NetAccepts(l) THEN [maker |-> l, peer |-> HostNs, conf |-> {}] ELSE veth
    /\ UNCHANGED <<at, holds, netcfg, iptables>>

(* RTM_NEWLINK of kind veth.                                               *)
CreatePair(l) ==
    /\ NetAccepts(l)
    /\ Advance(l, "veth", "hostaddr")
    /\ veth' = [maker |-> l, peer |-> HostNs, conf |-> {}]
    /\ UNCHANGED <<at, holds, netcfg, iptables>>

(* An address given to an end of the pair, or an end set up.               *)
Configure(l, from, to, item) ==
    /\ NetAccepts(l)
    /\ Advance(l, from, to)
    /\ veth' = [veth EXCEPT !.conf = @ \cup {item}]
    /\ UNCHANGED <<at, holds, netcfg, iptables>>

AddHostAddr(l) == Configure(l, "hostaddr", "getns", "hostAddr")
SetHostUp(l)   == Configure(l, "hostup", "enter", "hostUp")
AddPeerAddr(l) == Configure(l, "peeraddr", "peerup", "peerAddr")
SetPeerUp(l)   == Configure(l, "peerup", "lo", "peerUp")

(* get_netns_fd() of the child: opening /proc/<pid>/ns/net of a zombie     *)
(* fails, which only prints a message; the descriptor is then -1.          *)
GetNetnsFd(l) ==
    /\ Advance(l, "getns", "move")
    /\ holds' = [holds EXCEPT ![l] = ChildLive(l)]
    /\ UNCHANGED <<veth, at, netcfg, iptables>>

(* Mutant of MovePeer: the namespace is named by the process.              *)
MovePeerByPid(l) ==
    /\ NetAccepts(l)
    /\ Advance(l, "move", "hostup")
    /\ veth' = [veth EXCEPT !.peer = Child(l)]
    /\ UNCHANGED <<at, holds, netcfg, iptables>>

(* An interface that changes namespace loses its addresses and goes down.  *)
MovePeer(l) ==
    /\ NetAccepts(l)
    /\ Advance(l, "move", "hostup")
    /\ veth' = [veth EXCEPT !.peer = l, !.conf = @ \ {"peerAddr", "peerUp"}]
    /\ UNCHANGED <<at, holds, netcfg, iptables>>

(* setns(): into the child's namespace, and later back into the host's.    *)
EnterNetns(l) ==
    /\ NetAccepts(l)
    /\ Advance(l, "enter", "peeraddr")
    /\ at' = [at EXCEPT ![l] = l]
    /\ UNCHANGED <<veth, holds, netcfg, iptables>>

(* The socket opened then is never used; failing to open it is one more    *)
(* way to fail here.                                                       *)
LeaveNetns(l) ==
    /\ Advance(l, "leave", "nat")
    /\ at' = [at EXCEPT ![l] = HostNs]
    /\ UNCHANGED <<veth, holds, netcfg, iptables>>

(* Mutant of SetLoUp: through the socket opened before setns(), which      *)
(* stays in the host's namespace.                                          *)
SetLoUpOldSocket(l) ==
    /\ Advance(l, "lo", "route")
    /\ netcfg' = [netcfg EXCEPT ![HostNs] = @ \cup {"lo"}]
    /\ UNCHANGED <<veth, at, holds, iptables>>

SetLoUp(l) ==
    /\ Advance(l, "lo", "route")
    /\ netcfg' = [netcfg EXCEPT ![at[l]] = @ \cup {"lo"}]
    /\ UNCHANGED <<veth, at, holds, iptables>>

AddRoute(l) ==
    /\ NetAccepts(l)
    /\ Advance(l, "route", "leave")
    /\ netcfg' = [netcfg EXCEPT ![at[l]] = @ \cup {"default"}]
    /\ UNCHANGED <<veth, at, holds, iptables>>

(* _ipt_rule(): nobody looks at its result.                                *)
AppendRule(l, from, to, rule) ==
    /\ Advance(l, from, to)
    /\ \/ iptables' = iptables \cup {<<l, rule>>}
       \/ from \in FaultPoints /\ UNCHANGED iptables
    /\ UNCHANGED <<veth, at, holds, netcfg>>

(* Mutant of AppendForwardOut: the interfaces of the rule after it.        *)
AppendForwardOutSwapped(l) == AppendRule(l, "fwdout", "fwdin", ForwardIn)

AppendMasquerade(l) == AppendRule(l, "nat", "fwdout", Masquerade)

AppendForwardOut(l) == AppendRule(l, "fwdout", "fwdin", ForwardOut)

AppendForwardIn(l)  ==
    AppendRule(l, "fwdin", IF userns[l] THEN "uidmap" ELSE "wait", ForwardIn)

(* A launcher that ends closes mynetns and child_netns, which              *)
(* prepare_netns() leaves open.                                            *)
CloseNetns(l) ==
    /\ at' = [at EXCEPT ![l] = HostNs]
    /\ holds' = [holds EXCEPT ![l] = FALSE]
    /\ UNCHANGED <<veth, netcfg, iptables>>

(* The kernel destroys a namespace once no process is in it and no         *)
(* descriptor refers to it, at some later time.  A veth end inside goes    *)
(* with it, and its other end too.                                         *)
DestroyNetns(l) ==
    /\ cpc[l] = "dead" /\ ~holds[l]
    /\ veth.maker # NoOne /\ veth.peer = l
    /\ veth' = NoPair
    /\ netcfg' = [netcfg EXCEPT ![l] = {}]
    /\ UNCHANGED <<at, holds, iptables>>
    /\ UNCHANGED launcherVars

NetStep(l) ==
    \/ CreatePair(l)
    \/ AddHostAddr(l)
    \/ GetNetnsFd(l)
    \/ MovePeer(l)
    \/ SetHostUp(l)
    \/ EnterNetns(l)
    \/ AddPeerAddr(l)
    \/ SetPeerUp(l)
    \/ SetLoUp(l)
    \/ AddRoute(l)
    \/ LeaveNetns(l)
    \/ AppendMasquerade(l)
    \/ AppendForwardOut(l)
    \/ AppendForwardIn(l)

=============================================================================
