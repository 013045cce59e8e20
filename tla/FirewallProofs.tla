--------------------------- MODULE FirewallProofs ---------------------------
(***************************************************************************)
(* The firewall rules of any number of launchers: no update is lost among  *)
(* them, however often other programs edit the tables, because the names   *)
(* of the pair let one launcher at a time into _ipt_rule(); and undisturbed*)
(* every launcher gets its rules.                                          *)
(***************************************************************************)
EXTENDS FirewallRefines, TLAPS

LEMMA TableFacts == \A k \in Calls : TableOf[k] \in Tables
BY DEF Calls, TableOf, Tables

(* The part of FirewallInv that concerns one launcher.                     *)
Local(h) ==
    /\ stands[h] = "idle" => calls[h] = 0
    /\ stands[h] = "busy" /\ calls[h] # 0 => owner[Pair] = h
    /\ RulesMade(h)
    /\ h \in open => /\ stands[h] = "busy" /\ calls[h] \in Calls
                     /\ CopyComplete(h)
                     /\ edits = 0 => view[h] = rules[TableOf[calls[h]]]

LEMMA LocalInv == FirewallInv <=> FirewallTypeOK /\ \A h \in Holders : Local(h)
BY DEF FirewallInv, Local

LEMMA FromLocal ==
    ASSUME FirewallTypeOK', \A h \in Holders : Local(h)'
    PROVE  FirewallInv'
BY DEF FirewallInv, Local

(* A launcher whose state a step leaves alone, with the tables.            *)
LEMMA Frame ==
    ASSUME NEW g \in Holders, Local(g),
           stands'[g] = stands[g], calls'[g] = calls[g], g \in open' <=> g \in open,
           view'[g] = view[g], UNCHANGED <<rules, edits>>,
           owner[Pair] = g /\ stands[g] = "busy" => owner'[Pair] = g
    PROVE  Local(g)'
BY DEF Local, CopyComplete, RulesMade

LEMMA InitInv == FirewallInit => FirewallInv
<1> SUFFICES ASSUME FirewallInit PROVE FirewallInv
  OBVIOUS
<1>1. FirewallTypeOK
  BY HostEditsAssumption, PairAssumption
     DEF FirewallInit, LocksInit, FirewallTypeOK, LocksTypeOK, Rules, Names
<1>2. \A h \in Holders : RulesMade(h)
  BY NoHolderAssumption DEF FirewallInit, RulesMade
<1> QED BY <1>1, <1>2 DEF FirewallInit, LocksInit, FirewallInv

(* The names: limits, pair and containers.                                 *)
LEMMA LocksTypes ==
    ASSUME LocksTypeOK, NEW h \in Holders,
           \/ Begin(h) \/ TakePair(h) \/ StartBox(h) \/ EndBox(h) \/ Finish(h) \/ Lose(h)
           \/ Reclaim(h)
           \/ \E n \in Limits : TakeLimit(h, n) \/ GiveLimit(h, n)
    PROVE  LocksTypeOK'
BY DEF LocksTypeOK, Names, Begin, TakePair, StartBox, EndBox, Finish, Lose, Reclaim,
   TakeLimit, GiveLimit

LEMMA ElsewhereInv ==
    ASSUME FirewallInv, NEW h \in Holders, Elsewhere(h) \/ Release(h)
    PROVE  FirewallInv'
<1> USE DEF FirewallTypeOK, LocksTypeOK
<1>1. UNCHANGED fwVars /\ FirewallTypeOK /\ FirewallTypeOK' /\ \A g \in Holders : Local(g)
  BY LocksTypes, LocalInv DEF Elsewhere, Release, fwVars
<1>2. CASE Begin(h)
  <2>1. /\ stands[h] = "idle" /\ UNCHANGED owner
        /\ \A g \in Holders : g # h => stands'[g] = stands[g]
    BY <1>1, <1>2 DEF Begin
  <2>2. calls[h] = 0 /\ h \notin open
    BY <1>1, <2>1 DEF Local
  <2>3. Local(h)'
    BY <1>1, <2>1, <2>2, <1>2 DEF Local, fwVars, Begin, RulesMade
  <2> QED BY <1>1, <2>1, <2>3, Frame, FromLocal DEF fwVars
<1>3. CASE Finish(h) /\ (box[h] = "none" \/ calls[h] = 4)
  <2>1. /\ stands'[h] = "done" /\ UNCHANGED owner /\ calls[h] = 4
        /\ \A g \in Holders : g # h => stands'[g] = stands[g]
    BY <1>1, <1>3 DEF Finish
  <2>2. h \notin open
    BY <1>1, <2>1 DEF Local, Calls
  <2>3. Local(h)'
    BY <1>1, <2>1, <2>2 DEF Local, fwVars, RulesMade
  <2> QED BY <1>1, <2>1, <2>3, Frame, FromLocal DEF fwVars
<1>4. CASE StartBox(h) \/ EndBox(h) \/ Reclaim(h)
            \/ (\E n \in Limits : TakeLimit(h, n) \/ GiveLimit(h, n))
  <2>1. UNCHANGED stands
    BY <1>4 DEF StartBox, EndBox, Reclaim, TakeLimit, GiveLimit
  <2>2. owner'[Pair] = owner[Pair] \/ (stands[h] # "busy" /\ owner[Pair] = h)
    BY <1>1, <1>4, PairAssumption DEF StartBox, EndBox, Reclaim, TakeLimit, GiveLimit, Names
  <2> QED BY <1>1, <2>1, <2>2, Frame, FromLocal DEF fwVars
<1> QED BY <1>2, <1>3, <1>4 DEF Elsewhere, Release

LEMMA StopInv ==
    ASSUME FirewallInv, NEW h \in Holders, Stop(h)
    PROVE  FirewallInv'
<1> USE DEF FirewallTypeOK, LocksTypeOK
<1>1. FirewallTypeOK /\ FirewallTypeOK' /\ \A g \in Holders : Local(g)
  BY LocksTypes, LocalInv DEF Stop
<1>2. /\ stands'[h] = "lost" /\ h \notin open' /\ UNCHANGED <<owner, rules, calls, view, edits>>
      /\ \A g \in Holders : g # h => stands'[g] = stands[g] /\ (g \in open' <=> g \in open)
  BY <1>1 DEF Stop, Lose
<1>3. Local(h)'
  BY <1>1, <1>2 DEF Local, RulesMade
<1> QED BY <1>1, <1>2, <1>3, Frame, FromLocal

(* Before its first call a launcher has no rule.                           *)
LEMMA NoRuleYet ==
    ASSUME NEW h \in Holders, RulesMade(h), calls[h] = 0
    PROVE  \A t \in Tables, k \in Calls : <<h, k>> \notin rules[t]
<1> SUFFICES ASSUME NEW t \in Tables, NEW k \in Calls, <<h, k>> \in rules[t]
             PROVE  FALSE
  OBVIOUS
<1>1. k < 0
  BY DEF RulesMade
<1> QED BY <1>1 DEF Calls

LEMMA WireInv ==
    ASSUME FirewallInv, NEW h \in Holders, Wire(h)
    PROVE  FirewallInv'
<1> USE DEF FirewallTypeOK, LocksTypeOK
<1>1. FirewallTypeOK /\ FirewallTypeOK' /\ \A g \in Holders : Local(g)
  BY LocksTypes, LocalInv DEF Wire
<1>2. /\ calls[h] = 0 /\ calls'[h] = 1 /\ owner[Pair] = NoHolder /\ owner'[Pair] = h
      /\ UNCHANGED <<stands, rules, open, view, edits>> /\ stands[h] = "busy"
      /\ \A g \in Holders : g # h => calls'[g] = calls[g]
  BY <1>1 DEF Wire, TakePair, Names
<1>3. h \notin open
  BY <1>1, <1>2 DEF Local, Calls
<1>4. RulesMade(h)'
  BY <1>1, <1>2, NoRuleYet DEF Local, RulesMade
<1>5. Local(h)'
  BY <1>2, <1>3, <1>4 DEF Local
<1> QED BY <1>1, <1>2, <1>5, Frame, FromLocal, NoHolderAssumption

LEMMA IptcInitInv ==
    ASSUME FirewallInv, NEW h \in Holders, IptcInit(h)
    PROVE  FirewallInv'
<1> USE DEF FirewallTypeOK, LocksTypeOK
<1>1. FirewallTypeOK /\ FirewallTypeOK' /\ \A g \in Holders : Local(g)
  BY LocalInv, TableFacts DEF IptcInit, lockVars
<1>2. /\ view'[h] = rules[TableOf[calls[h]]]
      /\ UNCHANGED <<owner, stands, rules, calls, edits>>
      /\ stands[h] = "busy" /\ calls[h] \in Calls
      /\ \A g \in Holders : g # h => view'[g] = view[g] /\ (g \in open' <=> g \in open)
  BY <1>1 DEF IptcInit, lockVars
<1>3. Local(h)'
  BY <1>1, <1>2 DEF Local, CopyComplete, RulesMade
<1> QED BY <1>1, <1>2, <1>3, Frame, FromLocal

(* While one launcher is in the firewall no other copy is open.            *)
LEMMA OneCopy ==
    ASSUME FirewallInv, NEW h \in Holders, NEW g \in Holders, g # h,
           stands[h] = "busy", calls[h] # 0
    PROVE  g \notin open
BY LocalInv DEF Local, Calls

(* A call of _ipt_rule() returns, the table changed or not.                *)
LEMMA ReturnInv ==
    ASSUME FirewallInv, NEW h \in Holders, Return(h), calls[h] \in Calls,
           rules' \in [Tables -> SUBSET Rules], refused' \in SUBSET Holders,
           \A g \in Holders, k \in Calls, t \in Tables :
                <<g, k>> \in rules'[t] => <<g, k>> \in rules[t] \/ (g = h /\ k = calls[h])
    PROVE  FirewallInv'
<1> USE DEF FirewallTypeOK, LocksTypeOK
<1>1. FirewallTypeOK /\ \A g \in Holders : Local(g)
  BY LocalInv
<1>2. FirewallTypeOK'
  BY <1>1 DEF Return, lockVars, Calls
<1>3. /\ UNCHANGED <<owner, stands, view, edits>> /\ stands[h] = "busy" /\ h \notin open'
      /\ \A g \in Holders : g # h => calls'[g] = calls[g] /\ g \notin open'
  BY <1>1, OneCopy DEF Return, lockVars, Calls
<1>4. owner[Pair] = h
  BY <1>1, <1>3 DEF Local, Calls
<1>5. ASSUME NEW g \in Holders, NEW t \in Tables, NEW k \in Calls, <<g, k>> \in rules'[t]
      PROVE  k < calls'[g]
  <2>1. calls[g] \in 0 .. 4 /\ calls'[g] = IF g = h THEN calls[g] + 1 ELSE calls[g]
    BY <1>1 DEF Return
  <2>2. k < calls[g] \/ (g = h /\ k = calls[h])
    BY <1>1, <1>5 DEF Local, RulesMade
  <2> QED BY <2>1, <2>2 DEF Calls
<1>6. ASSUME NEW g \in Holders PROVE Local(g)'
  BY <1>1, <1>3, <1>4, <1>5 DEF Local, RulesMade
<1> QED BY <1>2, <1>6, FromLocal

LEMMA CallsInv ==
    ASSUME FirewallInv, NEW h \in Holders, IptcCommit(h) \/ IptcCommitStale(h) \/ Refused(h)
    PROVE  FirewallInv'
<1>1. FirewallTypeOK /\ Local(h) /\ Return(h)
  BY LocalInv DEF IptcCommit, IptcCommitStale, Refused
<1>2. calls[h] \in Calls
  BY <1>1 DEF Local, IptcCommit, IptcCommitStale, Refused
<1>3. rules' \in [Tables -> SUBSET Rules]
  BY <1>1, <1>2, TableFacts DEF FirewallTypeOK, IptcCommit, IptcCommitStale, Refused, Rules
<1>4. refused' \in SUBSET Holders
  BY <1>1 DEF FirewallTypeOK, IptcCommit, IptcCommitStale, Refused
<1>5. ASSUME NEW g \in Holders, NEW k \in Calls, NEW t \in Tables, <<g, k>> \in rules'[t]
      PROVE  <<g, k>> \in rules[t] \/ (g = h /\ k = calls[h])
  <2>1. CASE IptcCommit(h)
    <3>1. /\ rules' = [rules EXCEPT ![TableOf[calls[h]]] = view[h] \cup {<<h, calls[h]>>}]
          /\ CopyComplete(h) /\ rules \in [Tables -> SUBSET Rules]
      BY <1>1, <2>1 DEF IptcCommit, Local, FirewallTypeOK
    <3>2. CASE t = TableOf[calls[h]]
      <4>1. <<g, k>> \in view[h] \/ <<g, k>> = <<h, calls[h]>>
        BY <1>5, <3>1, <3>2
      <4> QED BY <3>1, <3>2, <4>1 DEF CopyComplete
    <3> QED BY <1>5, <3>1, <3>2
  <2>2. CASE UNCHANGED rules
    BY <1>5, <2>2
  <2> QED BY <2>1, <2>2 DEF IptcCommitStale, Refused
<1> QED BY <1>1, <1>2, <1>3, <1>4, <1>5, ReturnInv

(* Another program deletes only what is not a launcher's.                  *)
LEMMA HostEditKeeps ==
    ASSUME FirewallTypeOK, HostEdit, NEW t \in Tables
    PROVE  /\ rules'[t] \cap (Holders \X Calls) = rules[t] \cap (Holders \X Calls)
           /\ rules'[t] \in SUBSET Rules
<1>1. PICK t1 \in Tables, e \in 0 .. HostEdits :
        \/ rules' = [rules EXCEPT ![t1] = @ \cup {<<NoHolder, e>>}]
        \/ rules' = [rules EXCEPT ![t1] = @ \ {<<NoHolder, e>>}]
  <2>1. edits + 1 \in 0 .. HostEdits
    BY HostEditsAssumption DEF HostEdit, FirewallTypeOK
  <2> QED BY <2>1, Zenon DEF HostEdit
<1>2. <<NoHolder, e>> \in Rules /\ <<NoHolder, e>> \notin Holders \X Calls
  BY NoHolderAssumption DEF Rules
<1>3. \/ rules'[t] = rules[t]
      \/ rules'[t] = rules[t] \cup {<<NoHolder, e>>}
      \/ rules'[t] = rules[t] \ {<<NoHolder, e>>}
  BY <1>1 DEF FirewallTypeOK
<1> QED BY <1>2, <1>3 DEF FirewallTypeOK

LEMMA HostEditInv ==
    ASSUME FirewallInv, HostEdit
    PROVE  FirewallInv'
<1>1. FirewallTypeOK /\ \A g \in Holders : Local(g)
  BY LocalInv
<1>2. /\ UNCHANGED <<calls, open, view, refused, lockVars>>
      /\ edits' \in 0 .. HostEdits /\ edits' # 0
      /\ rules' \in [Tables -> SUBSET Rules]
  <2>1. DOMAIN rules' = Tables /\ rules' = [t \in Tables |-> rules'[t]]
    BY <1>1 DEF HostEdit, FirewallTypeOK
  <2>2. edits' \in 0 .. HostEdits /\ edits' # 0
    BY <1>1, HostEditsAssumption DEF HostEdit, FirewallTypeOK
  <2> QED BY <1>1, <2>1, <2>2, HostEditKeeps DEF HostEdit
<1>3. FirewallTypeOK'
  BY <1>1, <1>2 DEF FirewallTypeOK, LocksTypeOK, lockVars
<1>4. ASSUME NEW g \in Holders, NEW t \in Tables, NEW k \in Calls, <<g, k>> \in rules'[t]
      PROVE  k < calls'[g]
  BY <1>1, <1>2, <1>4, HostEditKeeps DEF Local, RulesMade
<1>5. ASSUME NEW g \in Holders PROVE Local(g)'
  BY <1>1, <1>2, <1>4, TableFacts, HostEditKeeps
     DEF Local, CopyComplete, RulesMade, lockVars
<1> QED BY <1>3, <1>5, FromLocal

(* FirewallInv is inductive.                                               *)
THEOREM FirewallInvariance == FirewallSpec => []FirewallInv
<1>1. FirewallInv /\ UNCHANGED allVars => FirewallInv'
  BY DEF FirewallInv, FirewallTypeOK, LocksTypeOK, CopyComplete, RulesMade, allVars, lockVars, fwVars
<1>2. FirewallInv /\ [FirewallNext]_allVars => FirewallInv'
  BY <1>1, ElsewhereInv, StopInv, WireInv, IptcInitInv, CallsInv, HostEditInv DEF FirewallNext
<1> QED BY <1>2, InitInv, PTL DEF FirewallSpec

(* No committed rule of a launcher's is overwritten by a stale copy.       *)
THEOREM NoRuleIsLost == FirewallSpec => RulesStay
<1> DEFINE Stay == \A t \in Tables : rules[t] \cap (Holders \X Calls) \subseteq rules'[t]
<1>1. ASSUME FirewallInv, NEW h \in Holders, IptcCommit(h) PROVE Stay
  BY <1>1, LocalInv, TableFacts DEF Local, CopyComplete, IptcCommit, FirewallTypeOK
<1>2. ASSUME FirewallInv, HostEdit PROVE Stay
  BY <1>2, HostEditKeeps DEF FirewallInv
<1>3. ASSUME NEW h \in Holders,
             \/ IptcInit(h) \/ IptcCommitStale(h) \/ Refused(h) \/ Wire(h)
             \/ Release(h) \/ Stop(h) \/ Elsewhere(h)
      PROVE  Stay
  BY <1>3 DEF IptcInit, IptcCommitStale, Refused, Wire, Release, Stop, Elsewhere, fwVars
<1>4. FirewallInv /\ [FirewallNext]_allVars => [Stay]_allVars
  BY <1>1, <1>2, <1>3 DEF FirewallNext
<1> QED BY <1>4, FirewallInvariance, PTL DEF FirewallSpec, RulesStay

(* Undisturbed, every rule asked for is there, and nothing else is lost.   *)
THEOREM RulesAreComplete == FirewallSpec => []RulesComplete
<1>1. FirewallInit => RulesComplete
  BY DEF FirewallInit, RulesComplete, Calls
<1>2. FirewallInv /\ RulesComplete /\ [FirewallNext]_allVars => RulesComplete'
  <2> SUFFICES ASSUME FirewallInv, RulesComplete, [FirewallNext]_allVars, edits' = 0
               PROVE  RulesComplete'
    BY DEF RulesComplete
  <2>1. ASSUME NEW h \in Holders, IptcCommit(h) \/ IptcCommitStale(h) PROVE RulesComplete'
    <3>1. /\ FirewallTypeOK /\ UNCHANGED edits /\ calls[h] \in Calls
          /\ view[h] = rules[TableOf[calls[h]]] /\ TableOf[calls[h]] \in Tables
          /\ calls' = [calls EXCEPT ![h] = @ + 1] /\ UNCHANGED refused
      BY <2>1, LocalInv, TableFacts DEF Local, IptcCommit, IptcCommitStale, Return
    <3>2. rules' = [rules EXCEPT ![TableOf[calls[h]]] = @ \cup {<<h, calls[h]>>}]
      BY <2>1, <3>1 DEF IptcCommit, IptcCommitStale, FirewallTypeOK
    <3>3. \A t \in Tables : rules[t] \subseteq rules'[t]
      BY <3>1, <3>2 DEF FirewallTypeOK
    <3>4. <<h, calls[h]>> \in rules'[TableOf[calls[h]]]
      BY <3>1, <3>2 DEF FirewallTypeOK
    <3>5. ASSUME NEW g \in Holders, NEW k \in Calls, k < calls'[g]
          PROVE  k < calls[g] \/ (g = h /\ k = calls[h])
      BY <3>1, <3>5 DEF FirewallTypeOK, Calls
    <3> QED BY <3>1, <3>3, <3>4, <3>5, TableFacts DEF RulesComplete
  <2>2. ASSUME NEW h \in Holders, Refused(h) PROVE RulesComplete'
    <3>1. /\ UNCHANGED <<rules, edits>> /\ refused' = refused \cup {h}
          /\ calls' = [calls EXCEPT ![h] = @ + 1] /\ FirewallTypeOK
      BY <2>2 DEF Refused, Return, FirewallInv
    <3> QED BY <3>1 DEF RulesComplete, FirewallTypeOK
  <2>3. ASSUME NEW h \in Holders, Wire(h) PROVE RulesComplete'
    BY <2>3 DEF Wire, RulesComplete, Calls, FirewallInv, FirewallTypeOK
  <2>4. ASSUME NEW h \in Holders, IptcInit(h) \/ Release(h) \/ Stop(h) \/ Elsewhere(h)
        PROVE  RulesComplete'
    BY <2>4 DEF IptcInit, Release, Stop, Elsewhere, fwVars, RulesComplete
  <2>5. ~HostEdit
    BY DEF HostEdit, FirewallInv, FirewallTypeOK
  <2>6. CASE UNCHANGED allVars
    BY <2>6 DEF allVars, fwVars, RulesComplete
  <2> QED BY <2>1, <2>2, <2>3, <2>4, <2>5, <2>6 DEF FirewallNext
<1> QED BY <1>1, <1>2, FirewallInvariance, PTL DEF FirewallSpec

-----------------------------------------------------------------------------
(* The refinement of RuleLog: what each step looks like there.             *)

LEMMA LogStarts == FirewallInit => Log!LogInit
<1> SUFFICES ASSUME FirewallInit PROVE Log!LogInit
  OBVIOUS
<1>1. /\ rules = [t \in Tables |-> {<<NoHolder, 0>>}] /\ calls = [h \in Holders |-> 0]
      /\ Log!Tables = Tables
  BY DEF FirewallInit, TableOf, Tables, Log!Tables
<1>2. {<<NoHolder, 0>>} \cap (Holders \X Calls) = {}
  BY NoHolderAssumption
<1>3. RulesOfOurs = [t \in Tables |-> {}]
  BY <1>1, <1>2 DEF RulesOfOurs
<1>4. NextCall = [h \in Holders |-> 0]
  BY <1>1 DEF NextCall
<1> QED BY <1>1, <1>3, <1>4 DEF Log!LogInit

(* Whoever is inside has the pair.                                         *)
LEMMA InsideHasPair ==
    ASSUME FirewallInv, NEW h \in Holders, NextCall[h] # 0
    PROVE  owner[Pair] = h /\ stands[h] = "busy"
BY DEF FirewallInv, NextCall

LEMMA WireEnters ==
    ASSUME FirewallInv, NEW h \in Holders, Wire(h)
    PROVE  Log!Enter(h)
<1>1. /\ calls[h] = 0 /\ stands[h] = "busy" /\ owner[Pair] = NoHolder
      /\ calls' = [calls EXCEPT ![h] = 1] /\ UNCHANGED <<rules, stands>>
  BY DEF Wire, TakePair
<1>2. calls \in [Holders -> 0 .. 4]
  BY DEF FirewallInv, FirewallTypeOK
<1>3. \A g \in Holders : NextCall[g] = 0
  BY <1>1, InsideHasPair, NoHolderAssumption
<1>4. NextCall' = [NextCall EXCEPT ![h] = 1]
  <2>1. \A g \in Holders : g # h => calls'[g] = calls[g]
    BY <1>1, <1>2
  <2>2. calls'[h] = 1
    BY <1>1, <1>2
  <2> QED BY <1>1, <2>1, <2>2 DEF NextCall
<1>5. RulesOfOurs' = RulesOfOurs
  BY <1>1 DEF RulesOfOurs
<1>6. ASSUME NEW t \in Log!Tables, NEW k \in DOMAIN TableOf
      PROVE  <<h, k>> \notin RulesOfOurs[t]
  <2>1. t \in Tables /\ k \in Calls
    BY <1>6 DEF Log!Tables, Tables, TableOf, Calls
  <2>2. <<h, k>> \notin rules[t]
    BY <1>1, <2>1, NoRuleYet DEF FirewallInv
  <2> QED BY <2>1, <2>2 DEF RulesOfOurs
<1> QED BY <1>3, <1>4, <1>5, <1>6 DEF Log!Enter

(* The end of _ipt_rule(), in RuleLog.                                     *)
LEMMA ReturnAdvances ==
    ASSUME FirewallInv, NEW h \in Holders, Return(h), calls[h] \in Calls
    PROVE  /\ NextCall[h] = calls[h] /\ calls[h] \in DOMAIN TableOf
           /\ NextCall' = [NextCall EXCEPT ![h] = @ + 1]
<1>1. /\ stands[h] = "busy" /\ UNCHANGED stands /\ calls' = [calls EXCEPT ![h] = @ + 1]
      /\ calls \in [Holders -> 0 .. 4]
  BY DEF Return, lockVars, FirewallInv, FirewallTypeOK
<1>2. calls'[h] = calls[h] + 1 /\ \A g \in Holders : g # h => calls'[g] = calls[g]
  BY <1>1
<1>3. NextCall[h] = calls[h]
  BY <1>1 DEF NextCall
<1>4. NextCall' = [NextCall EXCEPT ![h] = @ + 1]
  BY <1>1, <1>2, <1>3 DEF NextCall
<1>5. DOMAIN TableOf = Calls
  BY DEF TableOf, Calls
<1> QED BY <1>3, <1>4, <1>5

LEMMA CommitWrites ==
    ASSUME FirewallInv, NEW h \in Holders, IptcCommit(h)
    PROVE  Log!Write(h)
<1> DEFINE t == TableOf[calls[h]]
           r == <<h, calls[h]>>
<1>1. calls[h] \in Calls /\ CopyComplete(h) /\ Return(h)
  BY DEF IptcCommit, FirewallInv
<1>2. t \in Tables /\ r \in Holders \X Calls
  BY <1>1, TableFacts
<1>3. /\ rules \in [Tables -> SUBSET Rules]
      /\ rules' = [rules EXCEPT ![t] = view[h] \cup {r}]
  BY DEF IptcCommit, FirewallInv, FirewallTypeOK
<1>4. rules[t] \cap (Holders \X Calls) = view[h] \cap (Holders \X Calls)
  BY <1>1 DEF CopyComplete
<1> HIDE DEF t, r
<1>5. RulesOfOurs' = [RulesOfOurs EXCEPT ![t] = @ \cup {r}]
  <2>1. rules'[t] = view[h] \cup {r} /\ \A u \in Tables : u # t => rules'[u] = rules[u]
    BY <1>2, <1>3
  <2>2. rules'[t] \cap (Holders \X Calls) = (rules[t] \cap (Holders \X Calls)) \cup {r}
    BY <1>2, <1>4, <2>1
  <2> QED BY <1>2, <2>1, <2>2 DEF RulesOfOurs
<1> QED BY <1>1, <1>5, ReturnAdvances DEF Log!Write, t, r

LEMMA OthersMiss ==
    ASSUME FirewallInv, NEW h \in Holders, IptcCommitStale(h) \/ Refused(h)
    PROVE  Log!Miss(h)
<1>1. calls[h] \in Calls /\ Return(h) /\ UNCHANGED rules
  BY DEF IptcCommitStale, Refused, FirewallInv
<1>2. RulesOfOurs' = RulesOfOurs
  BY <1>1 DEF RulesOfOurs
<1> QED BY <1>1, <1>2, ReturnAdvances DEF Log!Miss

(* A launcher's end, or any other step of a launcher's.                    *)
LEMMA EndLeaves ==
    ASSUME FirewallInv, NEW h \in Holders, Release(h) \/ Stop(h) \/ Elsewhere(h) \/ IptcInit(h)
    PROVE  Log!Leave(h) \/ UNCHANGED Log!logVars
<1>1. UNCHANGED <<rules, calls>> /\ RulesOfOurs' = RulesOfOurs
  BY DEF Release, Stop, Elsewhere, IptcInit, fwVars, RulesOfOurs
<1>2. stands \in [Holders -> {"idle", "busy", "done", "lost"}]
  BY DEF FirewallInv, FirewallTypeOK, LocksTypeOK
<1>3. CASE Finish(h) \/ Lose(h)
  <2>1. /\ stands'[h] # "busy" /\ \A g \in Holders : g # h => stands'[g] = stands[g]
    BY <1>2, <1>3 DEF Finish, Lose
  <2>2. NextCall' = [NextCall EXCEPT ![h] = 0]
    BY <1>1, <2>1 DEF NextCall
  <2>3. NextCall[h] = 0 => NextCall' = NextCall
    BY <2>2 DEF NextCall
  <2> QED BY <1>1, <2>2, <2>3 DEF Log!Leave, Log!logVars
<1>4. CASE Begin(h)
  <2>1. calls[h] = 0 /\ \A g \in Holders : g # h => stands'[g] = stands[g]
    BY <1>2, <1>4 DEF Begin, FirewallInv
  <2>2. NextCall' = NextCall
    BY <1>1, <2>1 DEF NextCall
  <2> QED BY <1>1, <2>2 DEF Log!logVars
<1>5. CASE UNCHANGED stands
  <2>1. NextCall' = NextCall
    BY <1>1, <1>5 DEF NextCall
  <2> QED BY <1>1, <2>1 DEF Log!logVars
<1>6. Finish(h) \/ Lose(h) \/ Begin(h) \/ UNCHANGED stands
  BY DEF Release, Stop, Elsewhere, IptcInit, TakeLimit, GiveLimit, StartBox, EndBox, Reclaim,
         lockVars
<1> QED BY <1>3, <1>4, <1>5, <1>6

LEMMA HostEditUnseen ==
    ASSUME FirewallInv, HostEdit
    PROVE  UNCHANGED Log!logVars
<1>1. UNCHANGED <<calls, stands>> /\ NextCall' = NextCall
  BY DEF HostEdit, lockVars, NextCall
<1>2. \A t \in Tables : rules'[t] \cap (Holders \X Calls) = rules[t] \cap (Holders \X Calls)
  BY HostEditKeeps DEF FirewallInv
<1>3. RulesOfOurs' = RulesOfOurs
  BY <1>2 DEF RulesOfOurs
<1> QED BY <1>1, <1>3 DEF Log!logVars

(* For any number of launchers and of edits of other programs, reading a   *)
(* table and putting the copy back later comes to appending a rule at once.*)
THEOREM ImplementsRuleLog == FirewallSpec => AppendsRules
<1>1. FirewallInv /\ [FirewallNext]_allVars => [Log!LogNext]_(Log!logVars)
  <2> SUFFICES ASSUME FirewallInv, [FirewallNext]_allVars
               PROVE  [Log!LogNext]_(Log!logVars)
    OBVIOUS
  <2>1. ASSUME NEW h \in Holders,
               \/ IptcInit(h) \/ IptcCommit(h) \/ IptcCommitStale(h) \/ Refused(h)
               \/ Wire(h) \/ Release(h) \/ Stop(h) \/ Elsewhere(h)
        PROVE  [Log!LogNext]_(Log!logVars)
    BY <2>1, WireEnters, CommitWrites, OthersMiss, EndLeaves DEF Log!LogNext
  <2>2. CASE UNCHANGED allVars
    <3>1. RulesOfOurs' = RulesOfOurs /\ NextCall' = NextCall
      BY <2>2 DEF allVars, lockVars, fwVars, RulesOfOurs, NextCall
    <3> QED BY <3>1 DEF Log!logVars
  <2> QED BY <2>1, <2>2, HostEditUnseen DEF FirewallNext
<1> QED BY <1>1, LogStarts, FirewallInvariance, PTL
        DEF FirewallSpec, AppendsRules, Log!LogSpec

=============================================================================
