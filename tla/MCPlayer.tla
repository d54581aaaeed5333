------------------------------ MODULE MCPlayer ------------------------------
(***************************************************************************)
(* Instances of Player for TLC.  At rates 2 and 3 a long enough carrier    *)
(* takes the second generator one call more than the first.                *)
(***************************************************************************)
EXTENDS Player

MCOpType == [op \in Ops |-> IF op = 0 THEN "wave" ELSE "noise"]

Timed(at_ms, vo_id, op, time_ms) ==
    [at_ms |-> at_ms, vo_id |-> vo_id, carr_op_id |-> op,
     sets_time |-> TRUE, time_ms |-> time_ms]

Long == [events |-> <<Timed(0, 0, 0, 6)>>, vo_count |-> 1]
Two == [events |-> <<Timed(0, 0, 0, 1), Timed(2, 1, 1, 1)>>, vo_count |-> 2]

ASSUME ProgramsAssumption ==
    \A p \in {Long, Two} : Gen!ValidProgram(p) /\ Gen!ReusesOnlyExpired(p)

MCScriptLists ==
    {<<NoProgram>>, <<Long>>, <<NoProgram, Two>>, <<Two, NoProgram, Long>>}
=============================================================================
