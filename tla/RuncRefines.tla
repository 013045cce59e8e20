---------------------------- MODULE RuncRefines -----------------------------
(***************************************************************************)
(* Runc implements NameLocks.  The locks are the cgroup directories, which *)
(* belong to who made them, and the interface names of the pair; a holder  *)
(* is a launcher, its container is the child.                              *)
(*                                                                         *)
(* And Runc implements RuleLog: a launcher is inside from the creation of  *)
(* the pair to its end.                                                    *)
(***************************************************************************)
EXTENDS RuncInv

PairName == "pair"

OwnerOf == [n \in Controllers \cup {PairName} |-> IF n = PairName THEN veth.maker ELSE dir[n]]

StandsAs ==
    [l \in Launchers |-> IF pc[l] = "off" THEN "idle"
                         ELSE IF pc[l] \notin Ended THEN "busy"
                         ELSE IF pc[l] = "done" THEN "done" ELSE "lost"]

BoxAs ==
    [l \in Launchers |-> IF cpc[l] \in {"none", "dead"} THEN cpc[l] ELSE "live"]

PlaceOf == [memory |-> Rank.memory, cpu |-> Rank.shares, pids |-> Rank.pids,
            blkio |-> Rank.weight]

Locks == INSTANCE NameLocks WITH
    Holders  <- Launchers,
    NoHolder <- NoOne,
    Limits   <- Controllers,
    Place    <- PlaceOf,
    Pair     <- PairName,
    owner    <- OwnerOf,
    asked    <- flags,
    stands   <- StandsAs,
    box      <- BoxAs

(* Whatever fails and whoever is killed, the launchers keep the protocol   *)
(* of the names: limits are taken in one order and only when free, a       *)
(* container starts when it has all of them, no limit goes away under it,  *)
(* who gives up keeps what it has, and the pair is free again only when    *)
(* its launcher and its container are gone.                                *)
KeepsLocks == Locks!LocksSpec

-----------------------------------------------------------------------------
(* The rules, and their tables, in the order of prepare_netns().           *)
RuleOf == <<Masquerade, ForwardOut, ForwardIn>>

RuleTables == <<"nat", "filter", "filter">>

LogAs ==
    [t \in {"nat", "filter"} |->
        {w \in Launchers \X (1 .. 3) :
            RuleTables[w[2]] = t /\ <<w[1], RuleOf[w[2]]>> \in iptables}]

NextAs ==
    [l \in Launchers |->
        IF ~Alive(l) \/ cpc[l] = "none" \/ pc[l] = "veth" THEN 0
        ELSE IF pc[l] \in NetPoints \cup {"nat"} THEN 1
        ELSE IF pc[l] = "fwdout" THEN 2
        ELSE IF pc[l] = "fwdin" THEN 3 ELSE 4]

Log == INSTANCE RuleLog WITH
    Writers <- Launchers,
    TableOf <- RuleTables,
    log     <- LogAs,
    next    <- NextAs

(* The names of the pair keep the rules of one launcher together: between  *)
(* a launcher's first rule and its end nobody else appends one, each       *)
(* launcher appends its rules once and in their order, whoever fails or is *)
(* killed on the way.  Firewall keeps the same promise without taking      *)
(* _ipt_rule() for one step.                                               *)
WritesRules == Log!LogSpec

=============================================================================
