---------------------------- MODULE MCGraphTask -----------------------------
EXTENDS GraphTask, MCGraphBuild

MCTaskIds == <<"a", "b", "c">>
=============================================================================
