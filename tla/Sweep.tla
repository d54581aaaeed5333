------------------------------- MODULE Sweep ---------------------------------
(***************************************************************************)
(* What a parameter is to do, as line.h and line.c have it: it has a value *)
(* or moves from one to a goal in a time.  A goal that is set takes the    *)
(* time set with it, or else what remains of the time set before, which is *)
(* "to be kept if currently set", or the external time if there is none;   *)
(* it starts from the value set with it, or "at its current position" on   *)
(* the way to the goal before.  How samples are got in pieces is of no     *)
(* consequence, and neither is which of them are skipped.                  *)
(***************************************************************************)
EXTENDS Integers, Sequences

CONSTANT Point(_, _, _, _)  \* from, to, and how far of how much

VARIABLES
    start,
    going, goal,    \* whether there is a goal, and it, or 0
    passed, total,  \* samples of the way to it
    left,           \* what remains of the time set, or NoTime
    out,            \* the values of the samples got last
    given           \* what was set last, with nothing got since, or NoChange

vars == <<start, goal, going, passed, total, left, out, given>>

-----------------------------------------------------------------------------

NoTime == -1
NoChange == [value |-> {}, goal |-> {}, time |-> {}, external |-> NoTime]

ValueAfter(n) ==
    CASE ~going -> start
      [] going /\ passed + n < total -> Point(start, goal, passed + n, total)
      [] OTHER -> goal

Init ==
    /\ start = 0 /\ goal = 0 /\ left = NoTime
    /\ going = FALSE /\ passed = 0 /\ total = 0
    /\ out = <<>> /\ given = NoChange

(* c is what is set: a value, a goal, a time, and the external time.  A    *)
(* time with no goal is for the way to the goal there is, from its start.  *)
Update(c) ==
    LET kept == c.time = {} /\ left # NoTime
        time == IF c.time = {} THEN c.external ELSE CHOOSE t \in c.time : TRUE
        rest == IF time > passed THEN time - passed ELSE 0
    IN  /\ start' \in CASE c.value # {} -> c.value
                        [] c.value = {} /\ c.goal # {} -> {ValueAfter(0)}
                        [] OTHER -> {start}
        /\ goal' \in IF c.goal # {} THEN c.goal ELSE {goal}
        /\ going' = (going \/ c.goal # {})
        /\ passed' = IF c.goal # {} THEN 0 ELSE passed
        /\ left' = CASE kept -> left
                     [] ~kept /\ going /\ c.goal = {} -> rest
                     [] OTHER -> time
        /\ total' = CASE c.goal # {} -> left'
                      [] c.goal = {} /\ going /\ ~kept -> time
                      [] OTHER -> total
        /\ out' = <<>> /\ given' = c

Pass(n) ==
    /\ given' = NoChange
    /\ left' = IF left > n THEN left - n ELSE NoTime
    /\ IF going /\ passed + n >= total
       THEN /\ start' = goal /\ goal' = 0
            /\ going' = FALSE /\ passed' = 0 /\ total' = 0
       ELSE /\ passed' = IF going THEN passed + n ELSE 0
            /\ UNCHANGED <<start, goal, going, total>>

Get(n) ==
    /\ Pass(n)
    /\ out' = [i \in 1..n |-> ValueAfter(i - 1)]

Skip(n) ==
    /\ Pass(n)
    /\ out' = <<>>

Next(Changes, lengths) ==
    \/ \E c \in Changes : Update(c)
    \/ \E n \in lengths : Get(n) \/ Skip(n)
=============================================================================
