--------------------------- MODULE RootfsRefines ----------------------------
(***************************************************************************)
(* Rootfs implements OwnRoot: a box is a container's child, and what it    *)
(* has of the old tree is read off its mount namespace.                    *)
(***************************************************************************)
EXTENDS Rootfs

Has(n, K) == {k \in K : mnt[n][k] # "none"}

LifeAs ==
    [n \in Containers |-> IF stage[n] \in {"none", "running", "dead"} THEN stage[n] ELSE "setup"]

OldAs == [n \in Containers |-> Has(n, OldTree)]

Own == INSTANCE OwnRoot WITH
    Boxes    <- Containers,
    Fixed    <- HostTree,
    Changing <- Volumes,
    life     <- LifeAs,
    host     <- Has(Host, Mounts),
    old      <- OldAs

(* The twelve system calls of the set-up, its loops and its failures look  *)
(* to the host and to the other containers like nothing, and to the        *)
(* command like one step: the old tree goes as a whole, before the command *)
(* runs, whatever the host mounts and unmounts, and never returns.         *)
SwapsRoot == Own!OwnSpec

=============================================================================
