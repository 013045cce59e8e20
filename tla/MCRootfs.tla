------------------------------ MODULE MCRootfs ------------------------------
(* Instances of Rootfs for TLC.                                            *)
EXTENDS RootfsRefines, TLC

Symmetry == Permutations(Containers)

=============================================================================
