------------------------------ MODULE RuleLog -------------------------------
(***************************************************************************)
(* What the launchers' firewall rules come to: a log for each table,       *)
(* written by one launcher at a time, one rule at a time, in which nothing *)
(* is ever overwritten.  A launcher writes its rules in the order of its   *)
(* calls and may miss some of them; whether it comes to the end or stops   *)
(* on the way, the next one can begin.                                     *)
(*                                                                         *)
(* Two modules implement this specification.  Runc (in RuncRefines) has    *)
(* _ipt_rule() of src/src/helpers/helpers.c as one step, and Firewall (in  *)
(* FirewallRefines) as a read of the table and a write back later on.      *)
(***************************************************************************)
EXTENDS Naturals, Sequences

CONSTANTS
    Writers,     \* the launchers
    TableOf      \* the tables that a launcher's rules belong to, in order

VARIABLES
    log,         \* table -> the rules there: <<writer, place in TableOf>>
    next         \* writer -> the rule it writes next; 0 when it is not inside

logVars == <<log, next>>

Tables == {TableOf[k] : k \in DOMAIN TableOf}

LogInit ==
    /\ log = [t \in Tables |-> {}]
    /\ next = [w \in Writers |-> 0]

(* Only when nobody is inside, and only to write for the first time.       *)
Enter(w) ==
    /\ \A v \in Writers : next[v] = 0
    /\ \A t \in Tables, k \in DOMAIN TableOf : <<w, k>> \notin log[t]
    /\ next' = [next EXCEPT ![w] = 1]
    /\ UNCHANGED log

Write(w) ==
    /\ next[w] \in DOMAIN TableOf
    /\ log' = [log EXCEPT ![TableOf[next[w]]] = @ \cup {<<w, next[w]>>}]
    /\ next' = [next EXCEPT ![w] = @ + 1]

(* A rule that is not written, which nobody notices.                       *)
Miss(w) ==
    /\ next[w] \in DOMAIN TableOf
    /\ next' = [next EXCEPT ![w] = @ + 1]
    /\ UNCHANGED log

(* For good, with all rules or not.                                        *)
Leave(w) ==
    /\ next[w] # 0
    /\ next' = [next EXCEPT ![w] = 0]
    /\ UNCHANGED log

LogNext == \E w \in Writers : Enter(w) \/ Write(w) \/ Miss(w) \/ Leave(w)

LogSpec == LogInit /\ [][LogNext]_logVars

=============================================================================
