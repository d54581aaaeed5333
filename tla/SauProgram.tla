----------------------------- MODULE SauProgram -----------------------------
(***************************************************************************)
(* The audio program that the parser hands to the generator (program.h),   *)
(* what parse conversion guarantees about it, and the sound it denotes.    *)
(*                                                                         *)
(* An event is the part of a sauProgramEvent that voice timing depends on: *)
(* the voice it is for, the carrier of that voice, and whether the data it *)
(* carries sets the play time of that carrier.  The code keeps the wait    *)
(* before each event; the model keeps the sum of the waits, at_ms, and     *)
(* defines the wait as a difference.                                       *)
(***************************************************************************)
EXTENDS Integers, Sequences, FiniteSets

CONSTANTS
    Ops,        \* operator ids used as carriers
    OpType,     \* [Ops -> OpTypes], the signal generator behind each one
    Srate,      \* samples per second
    MsPerSec    \* time units per second; 1000 in the code

OpTypes == {"amp", "noise", "wave", "raseg"}

ASSUME OpAssumption == Ops # {} /\ OpType \in [Ops -> OpTypes]

ASSUME RateAssumption ==
    /\ Srate \in Nat \ {0}
    /\ MsPerSec \in Nat \ {0}

-----------------------------------------------------------------------------

Event == [at_ms : Nat, vo_id : Nat, carr_op_id : Ops,
          sets_time : BOOLEAN, time_ms : Nat]

(* sau_ms_in_samples() without a carry. *)
MsInSamples(ms) == (ms * Srate) \div MsPerSec

AtMs(p, k) == IF k = 0 THEN 0 ELSE p.events[k].at_ms
WaitMs(p, k) == p.events[k].at_ms - AtMs(p, k - 1)
EvCount(p) == Len(p.events)

(* The events before the kth that are for voice v, or for carrier op. *)
OnVoiceBefore(p, k, v) == {j \in 1..(k - 1) : p.events[j].vo_id = v}
TimedBefore(p, k, op) ==
    {j \in 1..(k - 1) : p.events[j].carr_op_id = op /\ p.events[j].sets_time}

(* Voice v belongs to op when the latest event for v names op. *)
Owns(p, k, v, op) ==
    \E j \in OnVoiceBefore(p, k, v) :
        /\ p.events[j].carr_op_id = op
        /\ \A i \in OnVoiceBefore(p, k, v) : i <= j

(* All time ever given to op has passed, in ms, when event k comes. *)
ExpiredMs(p, k, op) ==
    \E j \in TimedBefore(p, k, op) :
        /\ \A i \in TimedBefore(p, k, op) : i <= j
        /\ p.events[j].at_ms + p.events[j].time_ms <= p.events[k].at_ms

(* What sauVoAlloc_update() makes of event k: it keeps the voice that its  *)
(* carrier owns; or its carrier owns none, and it takes the next new voice *)
(* or that of another.  A carrier's first event sets its time.             *)
ValidEvent(p, k) ==
    LET e == p.events[k]
    IN  /\ AtMs(p, k - 1) <= e.at_ms
        /\ e.vo_id < p.vo_count
        /\ \/ e.sets_time
           \/ TimedBefore(p, k, e.carr_op_id) # {}
        /\ \/ Owns(p, k, e.vo_id, e.carr_op_id)
           \/ /\ \A v \in 0..(p.vo_count - 1) : ~Owns(p, k, v, e.carr_op_id)
              /\ \A v \in 0..(e.vo_id - 1) : OnVoiceBefore(p, k, v) # {}

ValidProgram(p) ==
    /\ \A k \in 1..EvCount(p) : ValidEvent(p, k)
    /\ \A v \in 0..(p.vo_count - 1) :
          OnVoiceBefore(p, EvCount(p) + 1, v) # {}

(* What it is to see to ("duration expired"): event k does not take its    *)
(* voice from another carrier that has time left.                          *)
TakesExpired(p, k) ==
    LET e == p.events[k]
    IN  \A op \in Ops \ {e.carr_op_id} :
            Owns(p, k, e.vo_id, op) => ExpiredMs(p, k, op)

ReusesOnlyExpired(p) == \A k \in 1..EvCount(p) : TakesExpired(p, k)

Program == [events : Seq(Event), vo_count : Nat]

-----------------------------------------------------------------------------
(* What the program means, with no generator in sight.  A timed event      *)
(* sounds its carrier from its own time until its time is up, or until a   *)
(* later event times the same carrier anew.                                *)

At(p, k) == MsInSamples(p.events[k].at_ms)
EndAt(p, k) == At(p, k) + MsInSamples(p.events[k].time_ms)

Sounding(p, k, t) ==
    /\ p.events[k].sets_time
    /\ At(p, k) <= t /\ t < EndAt(p, k)
    /\ \A j \in (k + 1)..EvCount(p) :
          ~ /\ p.events[j].sets_time
            /\ p.events[j].carr_op_id = p.events[k].carr_op_id
            /\ At(p, j) <= t

(* A sample is the set of what is mixed into it: which carrier, and how    *)
(* many samples of its time are left.                                      *)
Sample == SUBSET (Ops \X Nat)

IdealSample(p, t) ==
    {<<p.events[k].carr_op_id, EndAt(p, k) - t>> :
        k \in {j \in 1..EvCount(p) : Sounding(p, j, t)}}

(* The signal lasts until every event has been reached and nothing sounds. *)
AllReached(p, t) == \A k \in 1..EvCount(p) : At(p, k) <= t
SilentFrom(p, t) ==
    /\ AllReached(p, t)
    /\ \A k \in 1..EvCount(p) : ~Sounding(p, k, t)

(* It can only end where an event comes or a time is up. *)
Turns(p) ==
    {0} \union {At(p, k) : k \in 1..EvCount(p)} \union {EndAt(p, k) : k \in 1..EvCount(p)}
SignalLength(p) ==
    CHOOSE n \in Turns(p) :
        /\ SilentFrom(p, n)
        /\ \A m \in Turns(p) : SilentFrom(p, m) => n <= m
Signal(p) == [x \in 1..SignalLength(p) |-> IdealSample(p, x - 1)]
=============================================================================
