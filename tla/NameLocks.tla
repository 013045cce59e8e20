----------------------------- MODULE NameLocks ------------------------------
(***************************************************************************)
(* What launchers promise each other, without cgroups, pipes or netlink:   *)
(* the fixed names of a host are locks that nobody waits for.              *)
(*                                                                         *)
(* Some names are limits, taken in one order before the container starts,  *)
(* kept at least while it lives and given back by their holder.  One name, *)
(* the pair of interfaces, is taken after the start, and is given back by  *)
(* the kernel when container and holder are gone.  A holder that finds a   *)
(* name taken gives up, and then keeps what it has for ever.               *)
(*                                                                         *)
(* Runc implements this specification (module RuncRefines): its names are  *)
(* the directories of src/src/namespaces/cgroup/cgroup.c and the interface *)
(* names of src/src/namespaces/network/network.c.                          *)
(***************************************************************************)
EXTENDS Naturals

CONSTANTS
    Holders,     \* who takes names
    NoHolder,    \* "nobody"
    Limits,      \* the names that are limits
    Place,       \* limit -> its place in the order in which limits are taken
    Pair         \* the name that is taken after the start

ASSUME NoHolderAssumption == NoHolder \notin Holders

ASSUME PairAssumption == Pair \notin Limits

VARIABLES
    owner,       \* name -> the holder that has it, or NoHolder
    asked,       \* holder -> the limits its container is to be under
    stands,      \* holder -> "idle", "busy", or how it ended
    box          \* holder -> its container: "none", "live", "dead"

lockVars == <<owner, asked, stands, box>>

Names == Limits \cup {Pair}

LocksTypeOK ==
    /\ owner \in [Names -> Holders \cup {NoHolder}]
    /\ asked \in [Holders -> SUBSET Limits]
    /\ stands \in [Holders -> {"idle", "busy", "done", "lost"}]
    /\ box \in [Holders -> {"none", "live", "dead"}]

LocksInit ==
    /\ owner = [n \in Names |-> NoHolder]
    /\ asked = [h \in Holders |-> {}]
    /\ stands = [h \in Holders |-> "idle"]
    /\ box = [h \in Holders |-> "none"]

Begin(h) ==
    /\ stands[h] = "idle"
    /\ stands' = [stands EXCEPT ![h] = "busy"]
    /\ \E A \in SUBSET Limits : asked' = [asked EXCEPT ![h] = A]
    /\ UNCHANGED <<owner, box>>

(* A limit that is asked for and free, when all before it are held.        *)
TakeLimit(h, n) ==
    /\ stands[h] = "busy" /\ box[h] = "none"
    /\ n \in asked[h] /\ owner[n] = NoHolder
    /\ \A m \in asked[h] : Place[m] < Place[n] => owner[m] = h
    /\ owner' = [owner EXCEPT ![n] = h]
    /\ UNCHANGED <<asked, stands, box>>

(* Mutant of TakePair: the names are shared with who has them.             *)
TakePairAnyway(h) ==
    /\ stands[h] = "busy" /\ box[h] # "none"
    /\ owner' = [owner EXCEPT ![Pair] = h]
    /\ UNCHANGED <<asked, stands, box>>

TakePair(h) ==
    /\ stands[h] = "busy" /\ box[h] # "none"
    /\ owner[Pair] = NoHolder
    /\ owner' = [owner EXCEPT ![Pair] = h]
    /\ UNCHANGED <<asked, stands, box>>

(* The container starts under all limits that were asked for.              *)
StartBox(h) ==
    /\ stands[h] = "busy" /\ box[h] = "none"
    /\ \A n \in asked[h] : owner[n] = h
    /\ box' = [box EXCEPT ![h] = "live"]
    /\ UNCHANGED <<owner, asked, stands>>

EndBox(h) ==
    /\ box[h] = "live"
    /\ box' = [box EXCEPT ![h] = "dead"]
    /\ UNCHANGED <<owner, asked, stands>>

(* Never under a container that lives, and only by the holder.             *)
GiveLimit(h, n) ==
    /\ stands[h] = "busy" /\ box[h] # "live"
    /\ owner[n] = h
    /\ owner' = [owner EXCEPT ![n] = NoHolder]
    /\ UNCHANGED <<asked, stands, box>>

(* Success: the container has ended and no limit is left behind.           *)
Finish(h) ==
    /\ stands[h] = "busy" /\ box[h] = "dead"
    /\ \A n \in Limits : owner[n] # h
    /\ stands' = [stands EXCEPT ![h] = "done"]
    /\ UNCHANGED <<owner, asked, box>>

(* Any other end, at any time: nothing is given back.                      *)
Lose(h) ==
    /\ stands[h] = "busy"
    /\ stands' = [stands EXCEPT ![h] = "lost"]
    /\ UNCHANGED <<owner, asked, box>>

Reclaim(h) ==
    /\ stands[h] \in {"done", "lost"} /\ box[h] = "dead"
    /\ owner[Pair] = h
    /\ owner' = [owner EXCEPT ![Pair] = NoHolder]
    /\ UNCHANGED <<asked, stands, box>>

LocksNext ==
    \E h \in Holders :
        \/ Begin(h)
        \/ \E n \in Limits : TakeLimit(h, n) \/ GiveLimit(h, n)
        \/ TakePair(h)
        \/ StartBox(h)
        \/ EndBox(h)
        \/ Finish(h)
        \/ Lose(h)
        \/ Reclaim(h)

LocksSpec == LocksInit /\ [][LocksNext]_lockVars

=============================================================================
