---------------------------- MODULE MCGraphStore ----------------------------
EXTENDS GraphStore

\* Two executions one after the other with the same data context, beside a
\* third with its own.
SharedData == [e \in Execs |-> IF e = "e3" THEN "d2" ELSE "d1"]
=============================================================================
