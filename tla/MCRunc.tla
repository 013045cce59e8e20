------------------------------- MODULE MCRunc -------------------------------
(* Instances of Runc for TLC.                                              *)
EXTENDS RuncRefines, TLC

(* Control points whose call may fail, one for each kind of set-up work    *)
(* the process has behind it then.                                         *)
SomeFaults == {"setting", "join", "clone", "hostup", "route", "fwdout", "uidmap",
               "setgroups", "gidmap", "wait", "setuid", "rootfs"}

(* Without the call nobody checks: a missing rule doubles the states, and  *)
(* of the properties only WritesRules is about it, which the run with      *)
(* SomeFaults checks.                                                      *)
CheckedFaults == SomeFaults \ {"fwdout"}

NoLimit   == {}
OnlyMem   == {"memory"}
MemPids   == {"memory", "pids"}
OnlyPids  == {"pids"}

MCSelections == {NoLimit, OnlyMem, MemPids}
MCOverlapping == {OnlyPids, MemPids}

MCLiveSelections == {NoLimit, OnlyMem}

Symmetry == Permutations(Launchers)
=============================================================================
