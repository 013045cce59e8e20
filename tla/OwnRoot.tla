------------------------------ MODULE OwnRoot -------------------------------
(***************************************************************************)
(* What the set-up of a root file system promises, without propagation,    *)
(* file systems or the order of prepare_rootfs().                          *)
(*                                                                         *)
(* A box starts with all that the host has mounted, leaves that tree as a  *)
(* whole, once and for ever, and only then runs its command.  To the host  *)
(* and to the other boxes nothing happens meanwhile.  The host goes on     *)
(* mounting and unmounting, and while a box has not left the old tree it   *)
(* may or may not follow.                                                  *)
(*                                                                         *)
(* Rootfs implements this specification (module RootfsRefines).            *)
(***************************************************************************)
CONSTANTS
    Boxes,      \* the containers
    Fixed,      \* what the host always has mounted
    Changing    \* what it mounts and unmounts

VARIABLES
    life,       \* box -> "none", "setup", "running", "dead"
    host,       \* what the host has mounted
    old         \* box -> what it has of the tree it started with

ownVars == <<life, host, old>>

OwnInit ==
    /\ life = [n \in Boxes |-> "none"]
    /\ host = Fixed
    /\ old = [n \in Boxes |-> {}]

Start(n) ==
    /\ life[n] = "none"
    /\ life' = [life EXCEPT ![n] = "setup"]
    /\ old' = [old EXCEPT ![n] = host]
    /\ UNCHANGED host

Leave(n) ==
    /\ life[n] = "setup"
    /\ old' = [old EXCEPT ![n] = {}]
    /\ UNCHANGED <<life, host>>

Exec(n) ==
    /\ life[n] = "setup" /\ old[n] = {}
    /\ life' = [life EXCEPT ![n] = "running"]
    /\ UNCHANGED <<host, old>>

(* In the set-up, or when the command has ended.                           *)
End(n) ==
    /\ life[n] \in {"setup", "running"}
    /\ life' = [life EXCEPT ![n] = "dead"]
    /\ old' = [old EXCEPT ![n] = {}]
    /\ UNCHANGED host

(* What the host mounts or unmounts reaches some boxes that have not left. *)
Follow(v, appears) ==
    \E F \in SUBSET {n \in Boxes : old[n] # {}} :
        old' = [n \in Boxes |-> IF n \notin F THEN old[n]
                                ELSE IF appears THEN old[n] \cup {v} ELSE old[n] \ {v}]

HostTakes(v) ==
    /\ v \notin host
    /\ host' = host \cup {v}
    /\ Follow(v, TRUE)
    /\ UNCHANGED life

HostDrops(v) ==
    /\ v \in host
    /\ host' = host \ {v}
    /\ Follow(v, FALSE)
    /\ UNCHANGED life

OwnNext ==
    \/ \E n \in Boxes : Start(n) \/ Leave(n) \/ Exec(n) \/ End(n)
    \/ \E v \in Changing : HostTakes(v) \/ HostDrops(v)

OwnSpec == OwnInit /\ [][OwnNext]_ownVars

=============================================================================
