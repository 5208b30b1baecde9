----------------------------- MODULE MCTwoPrograms ----------------------------
EXTENDS TwoPrograms

MCUnit == {"x", "mark", "lone"}
MCText == {<<>>, <<"x", "x">>}
MCFound == {Absent}
=============================================================================
