----------------------------- MODULE EventTiming -----------------------------
(***************************************************************************)
(* The timing of script events, src/sau/parser.c.  While a script is read, *)
(* steps become events: in the main sequence, or, for the sub-steps of a   *)
(* compound step (';'), in sequences that fork from a main event.  At each *)
(* time separator ('|') and at the end, time_durgroup() times the events   *)
(* of the group, merges the forks into the main sequence, and fills in the *)
(* play times that were left open.                                         *)
(*                                                                         *)
(* A script is any series of steps for operators, each with a time or      *)
(* without; an operator may have a list with one modulator, which may have *)
(* sub-steps of its own.  Unsigned arithmetic is modulo Wrap.              *)
(***************************************************************************)
EXTENDS Integers, Sequences, FiniteSets

CONSTANTS
    MaxEvents,  \* bound: events of a script without lists
    MaxInLists, \* bound: events of a script with lists
    Waits,      \* waits before a step, and gap shifts, ms
    Times,      \* times set for a step, ms
    DefTime,    \* def_time_ms
    Wrap        \* 2^32 in the code

ASSUME TimingAssumption ==
    /\ MaxEvents \in Nat /\ MaxInLists \in 0..MaxEvents
    /\ Wrap \in Nat \ {0} /\ DefTime \in 0..(Wrap - 1)
    /\ Waits \subseteq 0..(Wrap - 1) /\ Times \subseteq 0..(Wrap - 1)

VARIABLES
    pc,
    evs,        \* event nodes
    ops,        \* operator nodes, one for each step of an operator
    cur,        \* what the current parse level has open
    outer,      \* the same of the level around it, when inside a list
    labels,     \* the operator nodes that labels refer to
    carry,      \* carry_wait_ms
    last_ev,    \* last_event
    group_ev,   \* group_event
    tm,         \* locals of time_durgroup()
    plan,       \* history: when each event of the group is due, and its end
    placed      \* history: the events of the flat sequence so far

scriptVars == <<cur, outer, labels, carry, last_ev, group_ev>>
vars == <<pc, evs, ops, scriptVars, tm, plan, placed>>

-----------------------------------------------------------------------------

Mod(x) == x % Wrap
None == 0       \* in place of an event or operator node
Larger(a, b) == IF a < b THEN b ELSE a

NoLevel == [ev |-> None, op |-> None, fork |-> FALSE, main_ev |-> None]
NoTiming == [e |-> None, cur_longest |-> 0, wait_sum |-> 0, group_carry |-> 0,
             subtract |-> FALSE, subtract_after |-> None, at |-> 0]
NoPlan == [due |-> <<>>, end |-> 0, last |-> 0]

NewEvent(w, main) ==
    [wait |-> w, dur |-> 0, set_dur |-> FALSE, implicit |-> FALSE,
     wait_prev |-> FALSE, gapshift |-> FALSE, lock |-> FALSE,
     next |-> None, forks |-> <<>>, main |-> main]

(* sauTime, with its flags.  A step may set no time, the default value     *)
(* ("td"), or, for a modulator, an implicit time ("ti").                   *)
NoTime == -1
TimeTd == -2
TimeTi == -3

TimeValue(v) == [v |-> v, set |-> TRUE, default |-> FALSE, impl |-> FALSE]
TimeDefault(v, impl) == [v |-> v, set |-> FALSE, default |-> TRUE, impl |-> impl]
TimeImplicit == [v |-> DefTime, set |-> TRUE, default |-> TRUE, impl |-> TRUE]

TimeChoice(nested) ==
    {NoTime, TimeTd} \union Times \union (IF nested THEN {TimeTi} ELSE {})

TimeOf(t, context) ==
    CASE t = NoTime -> context
      [] t = TimeTd -> TimeDefault(DefTime, FALSE)
      [] t = TimeTi -> TimeImplicit
      [] OTHER -> TimeValue(t)

Init ==
    /\ pc = "parse"
    /\ evs = <<>> /\ ops = <<>>
    /\ cur = NoLevel /\ outer = NoLevel
    /\ labels = {}
    /\ carry = 0
    /\ last_ev = None /\ group_ev = None
    /\ tm = NoTiming
    /\ plan = NoPlan
    /\ placed = <<>>

-----------------------------------------------------------------------------
(* Steps become nodes: begin_event(), begin_operator(), link_ev_obj().     *)

NewOp(e, prev, t, nested) ==
    [ev |-> e, prev |-> prev, sub |-> None, nested |-> nested,
     has_time |-> prev = None \/ t # NoTime,
     time |-> TimeOf(t, IF prev = None THEN TimeDefault(DefTime, nested)
                        ELSE TimeDefault(ops[prev].time.v, ops[prev].time.impl))]

NextEv == Len(evs) + 1
NextOp == Len(ops) + 1
HasLists == \E o \in DOMAIN ops : ops[o].nested
Reading ==
    /\ pc = "parse"
    /\ Len(evs) < IF HasLists THEN MaxInLists ELSE MaxEvents

(* An event of the main sequence. *)
MainEvent(w, prev, t) ==
    LET implicit == prev # None /\ ops[prev].nested
        new == [NewEvent(w + carry, NextOp) EXCEPT !.implicit = implicit]
        linked == IF last_ev = None THEN evs ELSE [evs EXCEPT ![last_ev].next = NextEv]
    IN  /\ evs' = Append(linked, new)
        /\ ops' = Append(ops, NewOp(NextEv, prev, t, implicit))
        /\ cur' = [ev |-> NextEv, op |-> NextOp, fork |-> TRUE, main_ev |-> None]
        /\ carry' = 0
        /\ last_ev' = NextEv
        /\ group_ev' = IF group_ev = None THEN NextEv ELSE group_ev
        /\ UNCHANGED <<pc, outer, tm, plan, placed>>

NewCarrier(w, t) ==
    /\ Reading
    /\ outer = NoLevel
    /\ MainEvent(w, None, t)
    /\ labels' = labels \union {NextOp}

(* A reference back ('@'), which moves the label on. *)
Refer(op, w, t) ==
    /\ Reading
    /\ outer = NoLevel
    /\ op \in labels
    /\ MainEvent(w, op, t)
    /\ labels' = (labels \ {op}) \union {NextOp}

(* A delay ('/') after a step, which splits it. *)
Split(w, t) ==
    /\ Reading
    /\ cur.op # None
    /\ MainEvent(w, cur.op, t)
    /\ UNCHANGED labels

(* A sub-step (';'), with a gap shift or without.  The first after a step  *)
(* forks from the main event, others follow on the one before.             *)
SubStep(shift, w, t) ==
    LET prev == cur.op
        main == IF cur.main_ev = None THEN ops[prev].ev ELSE cur.main_ev
        new == [NewEvent(IF shift THEN w ELSE 0, NextOp) EXCEPT
                   !.implicit = ops[prev].nested,
                   !.gapshift = shift,
                   !.wait_prev = ~shift]
        linked == IF cur.fork
                  THEN [evs EXCEPT ![main].forks = <<NextEv>> \o @]
                  ELSE [evs EXCEPT ![ops[prev].ev].next = NextEv]
    IN  /\ Reading
        /\ cur.op # None
        /\ evs' = Append(linked, new)
        /\ ops' = Append(ops, NewOp(NextEv, prev, t, ops[prev].nested))
        /\ cur' = [ev |-> NextEv, op |-> NextOp, fork |-> FALSE,
                   main_ev |-> IF cur.fork THEN main ELSE cur.main_ev]
        /\ UNCHANGED <<pc, outer, labels, carry, last_ev, group_ev, tm, plan, placed>>

(* A list with a new modulator, at a parse level of its own. *)
OpenList(t) ==
    /\ Reading
    /\ Len(evs) < MaxInLists
    /\ outer = NoLevel
    /\ cur.op # None /\ ops[cur.op].sub = None
    /\ ops' = Append([ops EXCEPT ![cur.op].sub = NextOp], NewOp(cur.ev, None, t, TRUE))
    /\ labels' = labels \union {NextOp}
    /\ outer' = cur
    /\ cur' = [ev |-> cur.ev, op |-> NextOp, fork |-> TRUE, main_ev |-> None]
    /\ UNCHANGED <<pc, evs, carry, last_ev, group_ev, tm, plan, placed>>

CloseList ==
    /\ pc = "parse"
    /\ outer # NoLevel
    /\ cur' = outer
    /\ outer' = NoLevel
    /\ UNCHANGED <<pc, evs, ops, labels, carry, last_ev, group_ev, tm, plan, placed>>

(* finish_durgroup(), at '|' or the end. *)
EndGroup ==
    /\ pc = "parse"
    /\ outer = NoLevel
    /\ group_ev # None
    /\ pc' = "time"
    /\ cur' = NoLevel
    /\ tm' = [NoTiming EXCEPT !.e = group_ev, !.subtract_after = group_ev]
    /\ plan' = NoPlan
    /\ placed' = <<>>
    /\ UNCHANGED <<evs, ops, outer, labels, carry, last_ev, group_ev>>

-----------------------------------------------------------------------------
(* time_operator(), time_event(): on the event and operator nodes together. *)

RECURSIVE TimeOperator(_, _)
TimeOperator(s, o) ==
    LET op == s.ops[o]
        used == CASE op.time.set -> op.time
                  [] ~op.time.set /\ op.time.default -> [op.time EXCEPT !.set = TRUE]
                  [] OTHER -> [op.time EXCEPT !.default = TRUE]
        s1 == [s EXCEPT !.evs[op.ev].set_dur = @ /\ op.has_time,
                        !.evs[op.ev].lock = @ \/ (op.time.set /\ ~op.nested),
                        !.ops[o].time = used]
        s2 == IF op.sub = None THEN s1 ELSE TimeOperator(s1, op.sub)
    IN  IF op.sub = None \/ ~used.default THEN s2
        ELSE [s2 EXCEPT !.ops[o].time.v = Larger(@, s2.ops[op.sub].time.v)]

RECURSIVE TimeEvent(_, _), TimeForks(_, _, _, _), TimeSteps(_, _, _, _, _, _)

TimeEvent(s, e) ==
    LET s1 == TimeOperator(s, s.evs[e].main)
    IN  TimeForks(s1, e, 1, s1.ops[s.evs[e].main].time.v)

(* The forks of e from the latest on, dur being the longest so far. *)
TimeForks(s, e, i, dur) ==
    IF i > Len(s.evs[e].forks) THEN [s EXCEPT !.evs[e].dur = dur]
    ELSE LET first == s.evs[e].forks[i]
             e_op == s.ops[s.evs[first].main].prev
             v == s.ops[e_op].time.v
             s1 == [s EXCEPT !.evs[e].dur = v,
                             !.evs[e].set_dur = @ \/ ~s.evs[e].implicit]
             r == TimeSteps(s1, first, e, e_op, v, v)
             counts == ~r.s.evs[e].lock \/ ~r.s.ops[e_op].nested
         IN  TimeForks(r.s, e, i + 1, IF counts THEN Larger(dur, r.total) ELSE dur)

(* The steps of a fork: a time left open is that of the step before; one   *)
(* that was given before a gap shift becomes 0; a step without gap shift   *)
(* waits for the one before.                                               *)
StepWait_Unset(s, ne, prev_op) == s.evs[ne].wait
StepWait(s, ne, prev_op) ==
    IF s.evs[ne].wait_prev THEN Mod(s.evs[ne].wait + s.ops[prev_op].time.v)
    ELSE s.evs[ne].wait

TimeSteps(s, ne, prev_ev, prev_op, def, total) ==
    IF ne = None THEN [s |-> s, total |-> total]
    ELSE LET o == s.evs[ne].main
             shift == s.evs[ne].gapshift
             s1 == IF s.ops[o].time.set THEN s
                   ELSE [s EXCEPT !.ops[o].time.v = def, !.ops[o].time.set = shift]
             s2 == TimeEvent(s1, ne)
             gap == shift /\ s2.ops[prev_op].time.default /\ ~s2.evs[prev_ev].gapshift
             s3 == IF gap THEN [s2 EXCEPT !.ops[prev_op].time = TimeValue(0)] ELSE s2
             s4 == [s3 EXCEPT !.evs[ne].wait = StepWait(s3, ne, prev_op),
                              !.ops[prev_op].time.impl = @ /\ ~s.evs[ne].wait_prev,
                              !.ops[prev_op].time.default = FALSE,
                              !.ops[o].time.set = TRUE,
                              !.ops[o].has_time = TRUE]
         IN  TimeSteps(s4, s.evs[ne].next, ne, o, s2.ops[o].time.v,
                       Mod(total + s4.evs[ne].dur + s4.evs[ne].wait - s4.evs[prev_ev].dur))

-----------------------------------------------------------------------------
(* time_durgroup(), its first loop: the times of events, and the longest   *)
(* of those that count.                                                    *)

Flagged(e) == [evs EXCEPT ![e].set_dur = @ \/ ~evs[e].implicit]

Lessened_Below(longest, w) == longest - w
Lessened(longest, w) == IF longest > w THEN longest - w ELSE 0

(* History: what comes before an event in the tree, and so when it is due. *)
Before(es, e) == {p \in DOMAIN es : es[p].next = e \/ \E i \in DOMAIN es[p].forks : es[p].forks[i] = e}
DueIn(es, first) ==
    LET due[e \in first..Len(es)] ==
            IF e = first THEN es[e].wait
            ELSE due[CHOOSE p \in Before(es, e) : TRUE] + es[e].wait
    IN  due
EndOf(es, due) ==
    LET ends == {due[e] + es[e].dur : e \in {x \in DOMAIN due : es[x].set_dur}} \union {0}
    IN  CHOOSE t \in ends : \A u \in ends : u <= t

ScanEvent ==
    LET e == tm.e
        s == TimeEvent([evs |-> Flagged(e), ops |-> ops], e)
        longest == s.evs[e].set_dur /\ tm.cur_longest < s.evs[e].dur
        found == IF longest
                 THEN [tm EXCEPT !.cur_longest = s.evs[e].dur,
                                 !.group_carry = s.evs[e].dur,
                                 !.subtract_after = e]
                 ELSE tm
        next == s.evs[e].next
    IN  /\ pc = "time"
        /\ evs' = s.evs
        /\ ops' = s.ops
        /\ IF next # None
           THEN /\ tm' = [found EXCEPT !.e = next,
                            !.cur_longest = Lessened(@, evs[next].wait),
                            !.wait_sum = Mod(@ + evs[next].wait)]
                /\ UNCHANGED <<pc, plan>>
           ELSE /\ tm' = [found EXCEPT !.e = group_ev]
                /\ pc' = "place"
                /\ LET due == DueIn(s.evs, group_ev)
                   IN  plan' = [due |-> due, end |-> EndOf(s.evs, due), last |-> due[e]]
        /\ UNCHANGED <<scriptVars, placed>>

-----------------------------------------------------------------------------
(* flatten_events(): one fork merged into the sequence that follows e.     *)

RECURSIVE SkipAhead(_, _, _), Merge(_, _, _, _)

SkipAhead_NotAtAll(es, fe, w) == [fe |-> fe, wait |-> w]

(* Past the events of the flat sequence that come before a wait of w. *)
SkipAhead(es, fe, w) ==
    LET next == es[fe].next
    IN  IF next # None /\ es[next].wait <= w
        THEN SkipAhead(es, next, w - es[next].wait)
        ELSE [fe |-> fe, wait |-> w]

Merge(es, fe_prev, fe, ne) ==
    CASE ne = None -> es
      [] ne # None /\ fe = None -> [es EXCEPT ![fe_prev].next = ne]
      [] OTHER ->
          LET rest == es[ne].next
          IN  IF es[fe].wait >= es[ne].wait
              THEN Merge([es EXCEPT ![fe].wait = @ - es[ne].wait,
                                    ![fe_prev].next = ne,
                                    ![ne].next = fe], ne, fe, rest)
              ELSE LET at == SkipAhead(es, fe, es[ne].wait - es[fe].wait)
                       after == es[at.fe].next
                       in == [es EXCEPT ![at.fe].next = ne,
                                        ![ne].next = after,
                                        ![ne].wait = at.wait]
                   IN  IF after = None THEN Merge(in, ne, None, rest)
                       ELSE Merge([in EXCEPT ![after].wait = @ - at.wait], ne, after, rest)

FlattenEvents ==
    /\ pc = "place"
    /\ evs[tm.e].forks # <<>>
    /\ evs' = [Merge(evs, tm.e, evs[tm.e].next, Head(evs[tm.e].forks))
                 EXCEPT ![tm.e].forks = Tail(@)]
    /\ UNCHANGED <<pc, ops, scriptVars, tm, plan, placed>>

(* The second loop, when all forks at e are merged: a default time is      *)
(* filled in, and the event converted.                                     *)
FilledTime_NoSum == tm.cur_longest
FilledTime == Mod(tm.cur_longest + tm.wait_sum)

CarryAfter_AtOnce(next) == Lessened(tm.group_carry, evs[next].wait)
CarryAfter(next) ==
    IF tm.subtract \/ tm.e = tm.subtract_after
    THEN Lessened(tm.group_carry, evs[next].wait) ELSE tm.group_carry

PlaceEvent ==
    LET e == tm.e
        o == evs[e].main
        fill == ~ops[o].time.set \/ ops[o].time.default
        next == evs[e].next
    IN  /\ pc = "place"
        /\ evs[e].forks = <<>>
        /\ ops' = IF fill THEN [ops EXCEPT ![o].time.v = FilledTime, ![o].time.set = TRUE]
                  ELSE ops
        /\ evs' = IF fill THEN [evs EXCEPT ![e].dur = Larger(@, FilledTime)] ELSE evs
        /\ placed' = Append(placed, [ev |-> e, at |-> tm.at + evs[e].wait, filled |-> fill])
        /\ IF next # None
           THEN /\ tm' = [tm EXCEPT !.e = next,
                            !.at = @ + evs[e].wait,
                            !.wait_sum = Mod(@ - evs[next].wait),
                            !.subtract = @ \/ e = tm.subtract_after,
                            !.group_carry = CarryAfter(next)]
                /\ UNCHANGED <<pc, carry, last_ev, group_ev>>
           ELSE /\ pc' = "parse"
                /\ tm' = NoTiming
                /\ carry' = Mod(carry + tm.group_carry)
                /\ last_ev' = e
                /\ group_ev' = None
        /\ UNCHANGED <<cur, outer, labels, plan>>

TimeHere == IF cur.op = None THEN {NoTime} ELSE TimeChoice(ops[cur.op].nested)

Parse ==
    \/ \E w \in Waits :
          \/ \E t \in TimeChoice(FALSE) : NewCarrier(w, t)
          \/ \E op \in labels : \E t \in TimeChoice(ops[op].nested) : Refer(op, w, t)
          \/ \E t \in TimeHere :
                Split(w, t) \/ \E shift \in BOOLEAN : SubStep(shift, w, t)
    \/ \E t \in TimeChoice(TRUE) : OpenList(t)
    \/ CloseList

TimeDurgroup == EndGroup \/ ScanEvent \/ FlattenEvents \/ PlaceEvent

Next == Parse \/ TimeDurgroup

Spec == Init /\ [][Next]_vars

-----------------------------------------------------------------------------
(* Properties. *)

GroupDone == pc = "parse" /\ group_ev = None /\ placed # <<>>
Last == placed[Len(placed)].at

(* Each node refers to nodes that there are. *)
TypeOK ==
    /\ pc \in {"parse", "time", "place"}
    /\ \A e \in DOMAIN evs :
          /\ {evs[e].wait, evs[e].dur} \subseteq 0..(Wrap - 1)
          /\ evs[e].next \in {None} \union DOMAIN evs
          /\ evs[e].main \in DOMAIN ops
    /\ \A o \in DOMAIN ops :
          /\ ops[o].time.v \in 0..(Wrap - 1)
          /\ ops[o].ev \in DOMAIN evs
          /\ ops[o].sub \in {None} \union DOMAIN ops
    /\ {tm.wait_sum, tm.cur_longest, tm.group_carry, carry} \subseteq 0..(Wrap - 1)

(* flatten_events() gives sub-events "their place in the ordinary event    *)
(* list": however forks and main events interleave, each event comes just  *)
(* when the waits in the tree say, none waits for a negative time, and     *)
(* none of the group is lost or comes twice.                               *)
EachPlacedOnce ==
    /\ {placed[i].ev : i \in DOMAIN placed} = DOMAIN plan.due
    /\ Len(placed) = Cardinality(DOMAIN plan.due)

PlacedOnTime ==
    /\ \A i \in DOMAIN placed :
          /\ placed[i].at = plan.due[placed[i].ev]
          /\ i > 1 => placed[i - 1].at <= placed[i].at
    /\ GroupDone => EachPlacedOnce

(* "Delays all that follows by the duration of prior steps": what is       *)
(* carried over to the next group leads right up to the end of this one.   *)
CarryEndsGroup ==
    GroupDone => Last + carry = Larger(plan.end, Last)

(* "which apply just after the previous time duration": a sub-step without *)
(* a gap shift comes when the time of the one before is over.              *)
TimeIn(e) == placed[CHOOSE i \in DOMAIN placed : placed[i].ev = e].at
StepsConnected ==
    GroupDone =>
        \A e \in DOMAIN plan.due :
            LET prev == ops[evs[e].main].prev
            IN  evs[e].wait_prev => TimeIn(e) = TimeIn(ops[prev].ev) + ops[prev].time.v

(* A time that was left open reaches to the end of the group, or to its    *)
(* last main event when that comes later: in each event, lists or not, the *)
(* sum that is kept while forks are merged has come to just what is left.  *)
(* For an event after that end less than nothing is left, and unsigned     *)
(* arithmetic makes of it what SensibleDefaultTime says it should not be.  *)
FilledToTheEnd ==
    \A i \in DOMAIN placed :
        LET op == ops[evs[placed[i].ev].main]
            left == Larger(plan.end, plan.last) - placed[i].at
        IN  placed[i].filled =>
                op.time.v = IF left >= 0 THEN left ELSE Wrap + left

(* "fill in sensible default time": not one that wraps around.             *)
SensibleDefaultTime ==
    \A i \in DOMAIN placed :
        LET op == ops[evs[placed[i].ev].main]
        IN  placed[i].filled /\ ~op.time.impl => op.time.v < Wrap \div 2
=============================================================================
