-------------------------- MODULE FirewallRefines ---------------------------
(***************************************************************************)
(* Firewall implements RuleLog: of a table only the launchers' rules are   *)
(* looked at, and a launcher is inside between the pair and its end.       *)
(***************************************************************************)
EXTENDS Firewall

RulesOfOurs == [t \in Tables |-> rules[t] \cap (Holders \X Calls)]

NextCall == [h \in Holders |-> IF stands[h] = "busy" THEN calls[h] ELSE 0]

Log == INSTANCE RuleLog WITH
    Writers <- Holders,
    log     <- RulesOfOurs,
    next    <- NextCall

(* Reading a whole table, and putting a copy back in its place later on,   *)
(* looks to the launchers like appending one rule at once: no commit       *)
(* removes, repeats or invents a rule of another launcher, no launcher is  *)
(* in the firewall before the one before it has ended, and neither other   *)
(* programs' edits nor failed calls nor launchers that stop between a read *)
(* and a commit change that.                                               *)
AppendsRules == Log!LogSpec

=============================================================================
