---------------------------- MODULE MCHTTPProxy ----------------------------
(* Instances of HTTPProxy for TLC.                                         *)
EXTENDS HTTPProxy

MCByte        == Response!Symbol
MCReadLengths == {30}
MCShortReads  == {9}
MCCallbackPairs == Callbacks \X Callbacks
MCAnswers     == {<<"2", "0", "0">>, <<"4", "0", "1">>, <<"4", "0", "7">>}
=============================================================================
