---------------------------- MODULE AudioStream -----------------------------
(***************************************************************************)
(* What sauGenerator_run() promises its caller (the comment at             *)
(* generator.c:893-904 and the loop of Player_run() in saugns.c): called   *)
(* again and again with a buffer of ChLen samples, it cuts the signal of   *)
(* the program into consecutive chunks, loses and repeats nothing, zeroes  *)
(* what lies beyond the end of the signal, reports how many samples were   *)
(* generated, and says FALSE once the signal has ended.                    *)
(***************************************************************************)
EXTENDS SauProgram

CONSTANT
    ChLen       \* samples per channel in the caller's buffer

VARIABLES
    prog,       \* the program being played
    pos,        \* samples of the signal delivered so far
    out         \* the last delivery: buffer, *out_len and return value

vars == <<prog, pos, out>>

NoDelivery == [chunk |-> <<>>, len |-> 0, more |-> TRUE]

Init ==
    /\ prog \in Program
    /\ ValidProgram(prog)
    /\ ReusesOnlyExpired(prog)
    /\ pos = 0
    /\ out = NoDelivery

(* The end is noticed in a call that has reached every event, and at the   *)
(* end of which nothing is left to sound.                                  *)
EndsWithin(p, from) ==
    /\ AllReached(p, from + ChLen - 1)
    /\ SilentFrom(p, from + ChLen)

LengthOf(p, from) ==
    IF EndsWithin(p, from)
    THEN CHOOSE n \in 0..ChLen :
            /\ SilentFrom(p, from + n)
            /\ \A m \in 0..(n - 1) : ~SilentFrom(p, from + m)
    ELSE ChLen

Deliver ==
    LET n == LengthOf(prog, pos)
    IN  /\ out' = [chunk |-> [x \in 0..(ChLen - 1) |-> IdealSample(prog, pos + x)],
                   len |-> n,
                   more |-> ~EndsWithin(prog, pos)]
        /\ pos' = pos + n
        /\ UNCHANGED prog

Next == Deliver

Spec == Init /\ [][Next]_vars
=============================================================================
