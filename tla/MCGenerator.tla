---------------------------- MODULE MCGenerator -----------------------------
(***************************************************************************)
(* Instances of Generator for TLC: all valid programs of up to MaxEvents   *)
(* events over the given waits, times, carriers and voices.                *)
(***************************************************************************)
EXTENDS Generator

CONSTANTS
    MaxEvents,  \* bound: events in a program
    MaxVoices,  \* bound: voices of a program
    Waits,      \* waits before an event, ms
    Times       \* play times of a carrier, ms

MCOpType == [op \in Ops |-> IF op = 0 THEN "wave" ELSE "noise"]

VoCountOf(evs) ==
    Cardinality({evs[k].vo_id : k \in DOMAIN evs})

ProgramOf(evs) == [events |-> evs, vo_count |-> VoCountOf(evs)]

(* Every way to add one more event to a sequence of events. *)
Extended(evs) ==
    LET last == IF evs = <<>> THEN 0 ELSE evs[Len(evs)].at_ms
        Next_ == {[at_ms |-> last + w, vo_id |-> v, carr_op_id |-> op,
                   sets_time |-> t > 0, time_ms |-> IF t > 0 THEN t - 1 ELSE 0] :
                     w \in Waits, v \in 0..(MaxVoices - 1), op \in Ops,
                     t \in {0} \union {x + 1 : x \in Times}}
        AfterAll == {Append(evs, e) : e \in Next_}
    IN  {s \in AfterAll : 
              /\ ValidEvent(ProgramOf(s), Len(s))
              /\ TakesExpired(ProgramOf(s), Len(s))}

AllExtended(S) == UNION {Extended(evs) : evs \in S}

ProgramsUpTo[n \in 0..MaxEvents] ==
    IF n = 0 THEN {<<>>}
    ELSE ProgramsUpTo[n - 1] \union
         AllExtended({s \in ProgramsUpTo[n - 1] : Len(s) = n - 1})

MCPrograms ==
    {p \in {ProgramOf(evs) : evs \in ProgramsUpTo[MaxEvents]} : ValidProgram(p)}

ASSUME MCReuseAssumption == ReuseExpired
=============================================================================
