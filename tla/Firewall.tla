------------------------------ MODULE Firewall ------------------------------
(***************************************************************************)
(* The firewall rules of the launchers, over the protocol of the names:    *)
(* the three _ipt_rule() calls of prepare_netns()                          *)
(* (src/src/namespaces/network/network.c), made between the pair and       *)
(* waitpid().                                                              *)
(*                                                                         *)
(* _ipt_rule() (src/src/helpers/helpers.c) is not one step: iptc_init()    *)
(* copies a whole table out of the kernel, and iptc_commit() puts the      *)
(* copy, one rule longer, back in place of whatever is there by then.  The *)
(* kernel only looks whether the number of rules is still the one of the   *)
(* copy, and nobody looks at the result.  Netns has these calls as single  *)
(* steps; the launchers' control points are here those of NameLocks, which *)
(* Runc implements.                                                        *)
(***************************************************************************)
EXTENDS NameLocks, FiniteSets

CONSTANT
    HostEdits    \* how many edits other programs make to the tables (a bound)

ASSUME HostEditsAssumption == HostEdits \in Nat

VARIABLES
    rules,       \* table -> its rules: <<launcher, call>> or <<NoHolder, edit>>
    calls,       \* holder -> the _ipt_rule() call it makes next or is in;
                 \*   0 without the pair, 4 after the last
    open,        \* the holders between iptc_init() and iptc_commit()
    view,        \* holder -> the copy of the table that it has then
    edits,       \* how often another program has changed a table
    refused      \* the holders a libiptc call has failed for by itself

fwVars == <<rules, calls, open, view, edits, refused>>

allVars == <<lockVars, fwVars>>

Calls == 1 .. 3

TableOf == <<"nat", "filter", "filter">>

Tables == {"nat", "filter"}

Rules == (Holders \X Calls) \cup ({NoHolder} \X (0 .. HostEdits))

FirewallTypeOK ==
    /\ LocksTypeOK
    /\ rules \in [Tables -> SUBSET Rules]
    /\ calls \in [Holders -> 0 .. 4]
    /\ open \in SUBSET Holders
    /\ view \in [Holders -> SUBSET Rules]
    /\ edits \in 0 .. HostEdits
    /\ refused \in SUBSET Holders

(* The host has a rule of its own in each table.                           *)
FirewallInit ==
    /\ LocksInit
    /\ rules = [t \in Tables |-> {<<NoHolder, 0>>}]
    /\ calls = [h \in Holders |-> 0]
    /\ open = {}
    /\ view = [h \in Holders |-> {}]
    /\ edits = 0
    /\ refused = {}

-----------------------------------------------------------------------------
(* Mutant of IptcInit: the handle of a table is kept for its second rule.  *)
IptcInitOnce(h) ==
    /\ stands[h] = "busy" /\ calls[h] \in Calls /\ h \notin open
    /\ open' = open \cup {h}
    /\ view' = [view EXCEPT ![h] = IF calls[h] = 3 THEN @ ELSE rules[TableOf[calls[h]]]]
    /\ UNCHANGED <<rules, calls, edits, refused, lockVars>>

(* iptc_init().                                                            *)
IptcInit(h) ==
    /\ stands[h] = "busy" /\ calls[h] \in Calls /\ h \notin open
    /\ open' = open \cup {h}
    /\ view' = [view EXCEPT ![h] = rules[TableOf[calls[h]]]]
    /\ UNCHANGED <<rules, calls, edits, refused, lockVars>>

(* The end of _ipt_rule(), whatever came of it: nobody looks.              *)
Return(h) ==
    /\ stands[h] = "busy"
    /\ calls' = [calls EXCEPT ![h] = @ + 1]
    /\ open' = open \ {h}
    /\ UNCHANGED <<view, edits, lockVars>>

(* iptc_append_entry() and an iptc_commit() that the kernel accepts: the   *)
(* table has as many rules as the copy had.                                *)
IptcCommit(h) ==
    LET t == TableOf[calls[h]] IN
        /\ h \in open
        /\ Cardinality(rules[t]) = Cardinality(view[h])
        /\ rules' = [rules EXCEPT ![t] = view[h] \cup {<<h, calls[h]>>}]
        /\ UNCHANGED refused
        /\ Return(h)

(* One that it refuses, with EAGAIN.                                       *)
IptcCommitStale(h) ==
    /\ h \in open
    /\ Cardinality(rules[TableOf[calls[h]]]) # Cardinality(view[h])
    /\ UNCHANGED <<rules, refused>>
    /\ Return(h)

(* The table cannot be read, or not be replaced, for another reason.       *)
Refused(h) ==
    /\ calls[h] \in Calls
    /\ refused' = refused \cup {h}
    /\ UNCHANGED rules
    /\ Return(h)

(* Another program appends a rule of its own, or deletes one, in one step: *)
(* its own read and write back are not taken apart.                        *)
HostEdit ==
    /\ edits < HostEdits
    /\ edits' = edits + 1
    /\ \E t \in Tables :
        \/ rules' = [rules EXCEPT ![t] = @ \cup {<<NoHolder, edits + 1>>}]
        \/ \E e \in 0 .. HostEdits :
            /\ <<NoHolder, e>> \in rules[t]
            /\ rules' = [rules EXCEPT ![t] = @ \ {<<NoHolder, e>>}]
    /\ UNCHANGED <<calls, open, view, refused, lockVars>>

-----------------------------------------------------------------------------
(* The steps of NameLocks, with what they mean here.                       *)

(* The pair is made before the rules.                                      *)
Wire(h) ==
    /\ calls[h] = 0
    /\ TakePair(h)
    /\ calls' = [calls EXCEPT ![h] = 1]
    /\ UNCHANGED <<rules, open, view, edits, refused>>

(* Limits are given back, and the launcher finishes, after waitpid(), or   *)
(* when the container was not started.                                     *)
Release(h) ==
    /\ box[h] = "none" \/ calls[h] = 4
    /\ Finish(h) \/ \E n \in Limits : GiveLimit(h, n)
    /\ UNCHANGED fwVars

(* The launcher ends, and its copy with it.                                *)
Stop(h) ==
    /\ Lose(h)
    /\ open' = open \ {h}
    /\ UNCHANGED <<rules, calls, view, edits, refused>>

Elsewhere(h) ==
    /\ \/ Begin(h)
       \/ \E n \in Limits : TakeLimit(h, n)
       \/ StartBox(h)
       \/ EndBox(h)
       \/ Reclaim(h)
    /\ UNCHANGED fwVars

FirewallNext ==
    \/ \E h \in Holders :
        \/ IptcInit(h)
        \/ IptcCommit(h)
        \/ IptcCommitStale(h)
        \/ Refused(h)
        \/ Wire(h)
        \/ Release(h)
        \/ Stop(h)
        \/ Elsewhere(h)
    \/ HostEdit

FirewallSpec == FirewallInit /\ [][FirewallNext]_allVars

-----------------------------------------------------------------------------
(* What the names are good for here: whoever is in the firewall holds the  *)
(* pair, and so its copy has the launchers' rules that the table has, not  *)
(* one less and not one more.                                              *)
CopyComplete(h) ==
    LET t == TableOf[calls[h]] IN
        rules[t] \cap (Holders \X Calls) = view[h] \cap (Holders \X Calls)

(* A launcher's rules are those of calls that it has made.                 *)
RulesMade(h) ==
    \A t \in Tables, k \in Calls : <<h, k>> \in rules[t] => k < calls[h]

(* The invariant behind the two properties below: between the pair and     *)
(* waitpid() a launcher that has not ended owns the pair; an open copy     *)
(* agrees with the table about the launchers' rules, and it is the table   *)
(* itself as long as no other program has edited one.                      *)
FirewallInv ==
    /\ FirewallTypeOK
    /\ \A h \in Holders :
        /\ stands[h] = "idle" => calls[h] = 0
        /\ stands[h] = "busy" /\ calls[h] # 0 => owner[Pair] = h
        /\ RulesMade(h)
        /\ h \in open => /\ stands[h] = "busy" /\ calls[h] \in Calls
                         /\ CopyComplete(h)
                         /\ edits = 0 => view[h] = rules[TableOf[calls[h]]]

(* The whole-table copies lose no update of a launcher's: a rule that was  *)
(* committed stays, however launchers, the kernel, kills and other         *)
(* programs' edits interleave with the reads and the commits.  (A rule of  *)
(* another program's can be lost, or come back after it was deleted, when  *)
(* that program edits between a read and a commit and the count agrees.)   *)
RulesStay ==
    [][\A t \in Tables : rules[t] \cap (Holders \X Calls) \subseteq rules'[t]]_allVars

(* Although a refused commit goes unnoticed: as long as no other program   *)
(* edits the tables, a launcher on its way to waitpid() none of whose      *)
(* calls has failed by itself has every rule that it asked for in its      *)
(* table, whatever failed for others, and the host's rule is there too.    *)
RulesComplete ==
    edits = 0 =>
        /\ \A h \in Holders \ refused, k \in Calls :
                k < calls[h] => <<h, k>> \in rules[TableOf[k]]
        /\ \A t \in Tables : <<NoHolder, 0>> \in rules[t]

=============================================================================
