------------------------------- MODULE MCCli --------------------------------
(* Instances of Cli for TLC.  64 is in every range, 5 is too little for -P *)
(* and -I.                                                                 *)
EXTENDS Cli

MCInRange == [M |-> {"5", "64"}, C |-> {"5", "64"}, P |-> {"64"}, I |-> {"64"}]

(* "x" stands for -h and for every letter that is no option, -P for -I.    *)
MCClusters == {<<"a">>, <<"c">>, <<"a", "U", "c">>, <<"M">>, <<"P", "a">>, <<"a", "c", "C">>,
               <<"x">>}
=============================================================================
