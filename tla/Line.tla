------------------------------- MODULE Line ----------------------------------
(***************************************************************************)
(* A parameter of an operator, src/sau/line.c: set by the lines the parser *)
(* makes (parser.c), and run or skipped for so many samples at a time by   *)
(* the generator.  Values are numbers, some of them ratios, to be          *)
(* multiplied with another parameter's value (mulbuf), Mul, for all        *)
(* samples the same.  Line shapes are left out: each is the linear one.    *)
(*                                                                         *)
(* Flags are those of SAU_LINEP_* which tell states apart: in a line that  *)
(* runs the state is always set.                                           *)
(***************************************************************************)
EXTENDS Integers, Sequences

CONSTANTS
    Values,     \* numbers given, with what the model divides them by in them
    Ratios,     \* numbers given as ratios
    Times,      \* in samples
    Mul,        \* what ratios are multiplied with; 1 if there is no mulbuf
    Garbage,    \* values of a float not set
    Wrap,       \* 2^32, for uint32_t
    MaxLen,     \* bound: samples got at once
    MaxUpdates, \* bound: updates
    Loose       \* whether updates may come where the code loses track

ASSUME LineAssumption ==
    /\ Values \subseteq Int /\ Ratios \subseteq Int /\ Garbage \subseteq Int
    /\ Wrap \in Nat \ {0} /\ Times \subseteq 0..(Wrap - 1)
    /\ Mul \in Nat \ {0} /\ MaxLen \in Nat /\ MaxUpdates \in Nat
    /\ Loose \in BOOLEAN

VARIABLES
    line,       \* the sauLine of the generator
    out,        \* the values got last
    updates,    \* counts updates, for the bound
    due,        \* history: when the time set runs out, or NoTime
    given       \* history: what the last step has set, or NoChange

vars == <<line, out, updates, due, given>>

-----------------------------------------------------------------------------

NoTime == -1
NoChange == [value |-> {}, goal |-> {}, time |-> {}, external |-> NoTime]

(* How the fill functions place a value, for any shape: by the position in *)
(* the line's time alone.                                                  *)
Point(v0, vt, pos, time) == v0 + ((vt - v0) * pos) \div time

Multiplied(v, ratio) == IF ratio THEN v * Mul ELSE v

Fresh == [v0 |-> 0, vt |-> 0, pos |-> 0, end |-> 0, flags |-> {}]

(* A line as the parser makes it, from what a script gives of it.  v and g *)
(* are a number and whether it is a ratio, or nothing.  A time that is not *)
(* given is the operator's (time_line()), and is not to replace another.   *)
Numbers == [n : Values, ratio : {FALSE}] \union [n : Ratios, ratio : {TRUE}]
Maybe(S) == {{}} \union {{x} : x \in S}
Number(maybe) == IF maybe = {} THEN 0 ELSE (CHOOSE x \in maybe : TRUE).n
IsRatio(maybe) == \E x \in maybe : x.ratio

Source(v, g, t, dur) ==
    [v0 |-> Number(v), vt |-> Number(g),
     time |-> IF t = {} THEN dur ELSE CHOOSE x \in t : TRUE,
     flags |-> {"TIME"}
        \union (IF v # {} THEN {"STATE"} ELSE {})
        \union (IF IsRatio(v) THEN {"STATE_RATIO"} ELSE {})
        \union (IF g # {} THEN {"GOAL"} ELSE {})
        \union (IF IsRatio(g) THEN {"GOAL_RATIO"} ELSE {})
        \union (IF t = {} THEN {"TIME_IF_NEW"} ELSE {})]

-----------------------------------------------------------------------------
(* Getting values.                                                         *)

(* sauLine_get(): the state value is made of the goal's kind; mul is 1     *)
(* where there is no mulbuf.                                               *)
Adjusted(o, mul) ==
    CASE "GOAL_RATIO" \in o.flags /\ "STATE_RATIO" \notin o.flags ->
            [o EXCEPT !.v0 = @ \div mul, !.flags = @ \union {"STATE_RATIO"}]
      [] "GOAL_RATIO" \notin o.flags /\ "STATE_RATIO" \in o.flags ->
            [o EXCEPT !.v0 = @ * mul, !.flags = @ \ {"STATE_RATIO"}]
      [] OTHER -> o

(* How many values there are before the goal. *)
Count(o, buf_len) ==
    IF "GOAL" \notin o.flags \/ o.pos >= o.end THEN 0
    ELSE IF o.end - o.pos < buf_len THEN o.end - o.pos ELSE buf_len

(* The values got: of the line while it lasts, then of where it ended. *)
Filled(o, buf_len) ==
    LET a == Adjusted(o, Mul)
        n == Count(o, buf_len)
        to_goal == "GOAL" \in o.flags
    IN  [i \in 1..buf_len |->
            CASE i <= n -> Multiplied(Point(a.v0, a.vt, a.pos + i - 1, a.end),
                                      "GOAL_RATIO" \in a.flags)
              [] i > n /\ to_goal -> Multiplied(a.vt, "STATE_RATIO" \in a.flags)
              [] OTHER -> Multiplied(o.v0, "STATE_RATIO" \in o.flags)]

(* advance_len().  It moves on for a line that has no time set, too. *)
Advanced(o, buf_len) ==
    LET len == IF o.pos < o.end /\ o.end - o.pos < buf_len THEN o.end - o.pos ELSE buf_len
    IN  IF o.pos + len < o.end THEN [o EXCEPT !.pos = @ + len]
        ELSE [o EXCEPT !.pos = 0, !.flags = @ \ {"TIME"}]

(* sauLine_run() *)
LineRun(o, buf_len) ==
    LET a == Adjusted(o, Mul)
        pos == o.pos + Count(o, buf_len)
    IN  CASE "GOAL" \notin o.flags -> Advanced(o, buf_len)
          [] "GOAL" \in o.flags /\ pos < o.end -> [a EXCEPT !.pos = pos]
          [] OTHER -> [a EXCEPT !.v0 = a.vt, !.pos = 0,
                                !.flags = @ \ {"GOAL", "GOAL_RATIO", "TIME"}]

(* sauLine_skip() *)
LineSkip_GoalKept(o, skip_len) == Advanced(o, skip_len)
LineSkip(o, skip_len) ==
    LET a == Advanced(o, skip_len)
        kind == IF "GOAL_RATIO" \in o.flags THEN {"STATE_RATIO"} ELSE {}
    IN  IF "GOAL" \notin o.flags \/ o.pos + skip_len < o.end THEN a
        ELSE [a EXCEPT !.v0 = o.vt,
                       !.flags = (@ \ {"GOAL", "GOAL_RATIO", "STATE_RATIO"}) \union kind]

-----------------------------------------------------------------------------
(* sauLine_copy(), by what is set.                                         *)

(* With no state given, a goal starts from where the line is.  That is not *)
(* looked up past the end: the variable for it then is not set.            *)
CopiedState(o, src, unset) ==
    LET a == Adjusted(o, 1)
    IN  CASE "STATE" \in src.flags ->
                [o EXCEPT !.v0 = src.v0,
                          !.flags = (@ \ {"STATE_RATIO"})
                                    \union (src.flags \intersect {"STATE_RATIO"})]
          [] "STATE" \notin src.flags /\ "GOAL" \in o.flags \intersect src.flags ->
                [a EXCEPT !.v0 = IF Count(o, 1) = 0 THEN unset
                                 ELSE Point(a.v0, a.vt, a.pos, a.end)]
          [] OTHER -> o

CopiedGoal_WholeTime(o, src) ==
    IF "GOAL" \notin src.flags THEN o
    ELSE [o EXCEPT !.vt = src.vt, !.pos = 0,
                   !.flags = (@ \ {"GOAL_RATIO"})
                             \union (src.flags \intersect {"GOAL", "GOAL_RATIO"})]

CopiedGoal(o, src) ==
    IF "GOAL" \notin src.flags THEN o
    ELSE [o EXCEPT !.vt = src.vt, !.pos = 0,
                   !.end = IF "TIME_IF_NEW" \in src.flags THEN (@ - o.pos) % Wrap ELSE @,
                   !.flags = (@ \ {"GOAL_RATIO"})
                             \union (src.flags \intersect {"GOAL", "GOAL_RATIO"})]

TimeKept(o, src) == "TIME" \in o.flags /\ "TIME_IF_NEW" \in src.flags

CopiedTime(o, src) ==
    IF TimeKept(o, src) THEN o
    ELSE [o EXCEPT !.end = src.time, !.flags = @ \union {"TIME"}]

Copied(o, src, unset) == CopiedTime(CopiedGoal(CopiedState(o, src, unset), src), src)

-----------------------------------------------------------------------------

Init ==
    /\ line = Fresh
    /\ out = <<>> /\ updates = 0 /\ due = NoTime /\ given = NoChange

(* Where the code loses track: a time is set, with no goal, for a line     *)
(* that stands within its last one; a goal, before the end of another's    *)
(* time has been run, or before that one has made the state its kind.      *)
StalePosition(src) ==
    /\ "GOAL" \notin src.flags \union line.flags
    /\ ~TimeKept(line, src)
    /\ line.pos # 0
GoalNotRun(src) ==
    /\ "GOAL" \in src.flags \intersect line.flags
    /\ line.pos >= line.end
KindUnsettled(src) ==
    /\ "GOAL" \in src.flags \intersect line.flags
    /\ "STATE" \notin src.flags
    /\ ("STATE_RATIO" \in line.flags) # ("GOAL_RATIO" \in line.flags)

Absolute(maybe) == {Multiplied(x.n, x.ratio) : x \in maybe}

(* update_op(), for one parameter.  A new operator's has a state. *)
Update(v, g, t, dur) ==
    LET src == Source(v, g, t, dur)
        timing == IF "GOAL" \in line.flags /\ g = {} THEN src.time - line.pos ELSE src.time
    IN  /\ updates < MaxUpdates
        /\ updates = 0 => v # {}
        /\ Loose \/ ~(StalePosition(src) \/ GoalNotRun(src) \/ KindUnsettled(src))
        /\ \E unset \in Garbage : line' = Copied(line, src, unset)
        /\ due' = IF t = {} /\ due # NoTime THEN due ELSE timing
        /\ updates' = updates + 1
        /\ out' = <<>>
        /\ given' = [value |-> Absolute(v), goal |-> Absolute(g), time |-> t, external |-> dur]

DueAfter(len) == IF due > len THEN due - len ELSE NoTime

Run(buf_len) ==
    /\ updates > 0
    /\ line' = LineRun(line, buf_len)
    /\ out' = Filled(line, buf_len)
    /\ due' = DueAfter(buf_len) /\ given' = NoChange
    /\ UNCHANGED updates

Skip(skip_len) ==
    /\ updates > 0
    /\ line' = LineSkip(line, skip_len)
    /\ out' = <<>>
    /\ due' = DueAfter(skip_len) /\ given' = NoChange
    /\ UNCHANGED updates

Next ==
    \/ \E v, g \in Maybe(Numbers), t \in Maybe(Times), dur \in Times : Update(v, g, t, dur)
    \/ \E len \in 1..MaxLen : Run(len) \/ Skip(len)

Spec == Init /\ [][Next]_vars

-----------------------------------------------------------------------------
(* Properties. *)

(* Types: the end is within a time that was set; a goal has a time set     *)
(* until it is reached, and then has none.                                 *)
TypeOK ==
    /\ line.v0 \in Int /\ line.vt \in Int
    /\ line.pos \in Nat
    /\ line.end = 0 \/ \E t \in Times : line.end <= t
    /\ line.flags \subseteq {"STATE_RATIO", "GOAL", "GOAL_RATIO", "TIME"}
    /\ "GOAL" \in line.flags => "TIME" \in line.flags
    /\ "GOAL_RATIO" \in line.flags => "GOAL" \in line.flags

Going == "GOAL" \in line.flags
Timed == "TIME" \in line.flags

(* The line as a sweep. *)
Promise == INSTANCE Sweep WITH
    start <- Multiplied(line.v0, "STATE_RATIO" \in line.flags),
    goal <- IF Going THEN Multiplied(line.vt, "GOAL_RATIO" \in line.flags) ELSE 0,
    going <- Going,
    passed <- IF Going THEN line.pos ELSE 0,
    total <- IF Going THEN line.end ELSE 0,
    left <- CASE ~Timed -> NoTime
              [] Timed /\ line.pos < line.end -> line.end - line.pos
              [] OTHER -> 0

Changes ==
    [value : {Absolute(x) : x \in Maybe(Numbers)}, goal : {Absolute(x) : x \in Maybe(Numbers)},
     time : Maybe(Times), external : Times]

(* A parameter sweeps as promised: in whatever pieces it is run or         *)
(* skipped, and whatever is set of it in between, each value is the one    *)
(* doc/README.SAU tells of (sauLine_run(), sauLine_skip(), sauLine_copy()).*)
FollowsSweep ==
    Promise!Init /\ [][Promise!Next(Changes, 1..MaxLen)]_(Promise!vars)

(* "Time to reach goal (default is the external "t" duration, or the       *)
(* remaining previous time, if any, for this parameter)."                  *)
GoalInRemainingTime ==
    [][\A g \in Maybe(Numbers) \ {{}}, v \in Maybe(Numbers), dur \in Times :
          Update(v, g, {}, dur) /\ due # NoTime => line'.end = due]_vars

-----------------------------------------------------------------------------
(* The invariant that the proofs are by induction on: a line with no goal  *)
(* stands at the start of its time, or within it.                          *)

LineType == [v0 : Int, vt : Int, pos : Nat, end : Nat,
             flags : SUBSET {"STATE_RATIO", "GOAL", "GOAL_RATIO", "TIME"}]

Sound(o) ==
    /\ o \in LineType
    /\ o.end = 0 \/ \E t \in Times : o.end <= t
    /\ "GOAL" \in o.flags => "TIME" \in o.flags
    /\ "GOAL_RATIO" \in o.flags => "GOAL" \in o.flags
    /\ "GOAL" \in o.flags \/ o.pos = 0 \/ o.pos < o.end
    /\ Ratios = {} => o.flags \intersect {"STATE_RATIO", "GOAL_RATIO"} = {}

LineInv == Sound(line)
=============================================================================
