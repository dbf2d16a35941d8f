------------------------------- MODULE MCSilo -------------------------------
EXTENDS Silo, MCGrainDirectory

\* The key of grain c has a comma in it.
MCChainEntries == [a |-> <<"a">>, b |-> <<"b">>, c |-> <<"c1", "c2">>]
=============================================================================
