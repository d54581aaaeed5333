------------------------------- MODULE Parser --------------------------------
(***************************************************************************)
(* The script parser, src/sau/parser.c, as to structure: parse levels and  *)
(* nested lists, the events and operator nodes made for the steps of       *)
(* objects, how they are linked, labels, and the amplitude multiplier.     *)
(*                                                                         *)
(* What is read is any series of tokens, an action for each; tokens that   *)
(* are only warned about are left out, and so are parameter values.  Of    *)
(* time, only whether there is a delay is kept: EventTiming has the rest.  *)
(* Steps take no time of their own, so that those of a fork come right     *)
(* after the event they fork from.  "@[...]" is left out.                  *)
(*                                                                         *)
(* o is the sauParser; functions of the code are operators on it.          *)
(***************************************************************************)
EXTENDS Integers, Sequences, FiniteSets, SequencesExt

CONSTANTS
    MaxNodes,   \* bound: operator and list nodes of a script
    MaxEvents,  \* bound: events of a script
    MaxTokens,  \* bound: what is read before the end
    MaxGrouped, \* bound: the same for scripts with "{...}"
    MaxLevels,  \* bound: parse levels nested in one another
    Names,      \* of labels
    Mults,      \* values that scripts give to "S a"
    Gain        \* the script's value for "S a.m", set first

ASSUME ParserAssumption ==
    /\ MaxNodes \in Nat /\ MaxEvents \in Nat
    /\ MaxTokens \in Nat /\ MaxGrouped \in Nat /\ MaxLevels \in Nat \ {0}
    /\ Mults \subseteq Nat \ {0} /\ Gain \in Nat \ {0}

VARIABLES
    pc,
    o,          \* the parser
    tokens,     \* counts what was read, for the bound
    grouped     \* history: whether there was a "{"

vars == <<pc, o, tokens, grouped>>

-----------------------------------------------------------------------------

None == 0       \* in place of a node, event or object
NoName == "none"

(* What a list is used for: carriers, amplitude or phase modulation.  Only *)
(* amplitude has a value, which the list can also sweep.                   *)
Uses == {"carr", "amod", "pmod"}
Sweeps(use) == use = "amod"

DefOptions == [ampmult |-> Gain, def_ampmult |-> 1]

TopLevel ==
    [scope |-> "group", use |-> "carr", sub |-> "none",
     event |-> None, op |-> None, own_ev |-> FALSE, own_op |-> FALSE,
     fork |-> FALSE, main_ev |-> None, set_label |-> NoName,
     wait |-> FALSE, carry |-> FALSE, used_ampmult |-> 0,
     param |-> "none",          \* the parameter lists are being read for
     outer_options |-> DefOptions]  \* history: those outside the list

(* A place of the NestArr.  Popping leaves what is there for whoever gets  *)
(* the place next.                                                         *)
NewSlot == [list |-> None, last_mods |-> None, last_item |-> None,
            options |-> DefOptions, sweep |-> FALSE,
            own_mult |-> None]  \* history: the value of "S a" in the list

Init ==
    /\ pc = "read"
    /\ tokens = 0 /\ grouped = FALSE
    /\ o = [levels |-> <<TopLevel>>,
            slots |-> [i \in 1..MaxLevels |-> NewSlot], nested |-> 0,
            nodes |-> <<>>, objs |-> <<>>, root_op |-> None,
            evs |-> <<>>, last_event |-> None, group_event |-> None,
            labels |-> [n \in Names |-> None],
            options |-> DefOptions,
            owed |-> FALSE]     \* history: a delay for the next event

Top(p) == Len(p.levels)
Pl(p) == p.levels[Len(p.levels)]
SetPl(p, l) == [p EXCEPT !.levels[Len(p.levels)] = l]
Tip(p) == p.slots[p.nested]

-----------------------------------------------------------------------------
(* Nodes and events.                                                       *)

EndOperator_Inherited(p) ==
    LET l == Pl(p)
    IN  IF l.op = None THEN p
        ELSE [SetPl(p, [l EXCEPT !.own_op = FALSE, !.op = None])
                EXCEPT !.nodes[l.op].amp = @ * l.used_ampmult]

EndOperator(p) ==
    LET l == Pl(p)
    IN  IF ~l.own_op THEN p
        ELSE [SetPl(p, [l EXCEPT !.own_op = FALSE, !.op = None])
                EXCEPT !.nodes[l.op].amp = @ * l.used_ampmult]

EndEvent(p) ==
    LET l == Pl(p)
    IN  IF ~l.own_ev THEN p
        ELSE LET q == EndOperator(SetPl(p, [l EXCEPT !.own_ev = FALSE]))
             IN  SetPl(q, [Pl(q) EXCEPT !.event = None])

(* A sub-step forks from the main event, if it is the first; others go on  *)
(* from the one before.                                                    *)
Forks_Never(l, compstep) == FALSE
Forks(l, compstep) == compstep /\ l.fork

(* q has ended the event before. *)
NextEvent(q, prev, compstep) ==
    LET l == Pl(q)
        e == Len(q.evs) + 1
        forks == Forks(l, compstep)
        pve == q.nodes[prev].event
        main == CASE ~compstep -> None
                  [] forks /\ l.main_ev = None -> pve
                  [] OTHER -> l.main_ev
        linked == CASE forks -> [q.evs EXCEPT ![main].forks = <<e>> \o @]
                    [] compstep /\ ~forks -> [q.evs EXCEPT ![pve].next = e]
                    [] ~compstep /\ q.last_event # None ->
                           [q.evs EXCEPT ![q.last_event].next = e]
                    [] OTHER -> q.evs
    IN  SetPl([q EXCEPT
                 !.evs = Append(linked,
                    [main_obj |-> None, next |-> None, forks |-> <<>>,
                     wait |-> l.wait \/ l.carry,
                     owed |-> q.owed /\ ~compstep,
                     converted |-> 0]),
                 !.last_event = IF compstep THEN @ ELSE e,
                 !.group_event = CASE @ # None -> @
                                   [] @ = None /\ main # None -> main
                                   [] OTHER -> e,
                 !.owed = @ /\ compstep],
              [l EXCEPT !.event = e, !.own_ev = TRUE, !.main_ev = main,
                        !.fork = @ /\ ~compstep,
                        !.wait = FALSE, !.carry = FALSE])
BeginEvent(p, prev, compstep) == NextEvent(EndEvent(p), prev, compstep)

PrepareEvent(p, prev, compstep) ==
    LET l == Pl(p)
    IN  IF \/ l.event = None
           \/ l.wait
           \/ (prev # None \/ p.nested = 0) /\ p.evs[l.event].main_obj # None
           \/ compstep
        THEN BeginEvent(p, prev, compstep) ELSE p

(* link_ev_obj(), at level k and with the list of nest place s, if any.    *)
Labelled(p, k, n) ==
    LET name == p.levels[k].set_label
    IN  IF name = NoName THEN p
        ELSE [p EXCEPT !.labels[name] = n, !.levels[k].set_label = NoName]

Linked(p, k, s, n, prev) ==
    LET list == p.slots[s].list
    IN  IF prev # None \/ s = 0
        THEN [p EXCEPT !.evs[p.levels[k].event].main_obj = n]
        ELSE [(IF p.nodes[list].first = None THEN [p EXCEPT !.nodes[list].first = n]
               ELSE [p EXCEPT !.nodes[p.slots[s].last_item].next = n])
                EXCEPT !.slots[s].last_item = n]

LinkObj_Copied(p, k, s, n, prev) == Labelled(Linked(p, k, s, n, prev), k, n)
LinkObj(p, k, s, n, prev) ==
    Labelled(Linked([p EXCEPT !.nodes[n].next = None], k, s, n, prev), k, n)

NewNode == [kind |-> "none", obj |-> None, prev |-> None, next |-> None,
            event |-> None, mods |-> None,
            first |-> None, \* for lists
            amp |-> 1,      \* what its amplitude has been multiplied by
            mult |-> 1]     \* history: the multiplier when it was begun

(* q has prepared the event and ended the operator before. *)
NextOperator(q, prev, compstep) ==
    LET l == Pl(q)
        n == Len(q.nodes) + 1
        id == Len(q.objs) + 1
        inlist == l.use # "carr"
        new == prev = None
        root == IF new /\ ~inlist THEN id ELSE q.root_op
        made == IF new
                THEN [NewNode EXCEPT !.kind = "op", !.obj = id, !.event = l.event,
                                     !.mult = q.options.def_ampmult]
                ELSE [q.nodes[prev] EXCEPT
                        !.prev = prev, !.event = l.event, !.mods = None,
                        !.amp = 1, !.mult = q.options.def_ampmult]
        obj == [root |-> root,
                parent |-> IF inlist /\ q.nested > 0
                           THEN q.objs[q.nodes[Tip(q).list].obj].parent ELSE id]
        r == [q EXCEPT !.nodes = Append(@, made),
                       !.objs = IF new THEN Append(@, obj) ELSE @,
                       !.root_op = root]
    IN  LinkObj(SetPl(r, [l EXCEPT !.op = n, !.own_op = TRUE,
                                   !.fork = @ \/ ~compstep,
                                   !.used_ampmult = q.options.def_ampmult,
                                   !.sub = "op_step"]),
                Top(r), r.nested, n, prev)
BeginOperator(p, prev, compstep) ==
    NextOperator(EndOperator(PrepareEvent(p, prev, compstep)), prev, compstep)

(* time_durgroup(): the events from the first of the group on, each with   *)
(* its forks put after it, are converted.                                  *)
Flattened(es, first) ==
    LET walk[i \in 0..Len(es)] ==
            IF i = 0 THEN [done |-> <<>>, todo |-> <<first>>]
            ELSE LET s == walk[i - 1]
                     e == Head(s.todo)
                 IN  IF s.todo = <<>> THEN s
                     ELSE [done |-> Append(s.done, e),
                           todo |-> Reverse(es[e].forks)
                                    \o (IF es[e].next = None THEN <<>> ELSE <<es[e].next>>)
                                    \o Tail(s.todo)]
    IN  walk[Len(es)].done

Converted(es, flat) ==
    [e \in DOMAIN es |->
        IF ~Contains(flat, e) THEN es[e]
        ELSE LET i == CHOOSE j \in DOMAIN flat : flat[j] = e
             IN  [es[e] EXCEPT
                    !.forks = <<>>,
                    !.next = IF i < Len(flat) THEN flat[i + 1] ELSE None,
                    !.converted = IF @ < 2 THEN @ + 1 ELSE @]]

(* Whether the group leaves a delay for what follows depends on times. *)
FinishDurgroup(p, carry) ==
    LET q == SetPl(p, [Pl(p) EXCEPT !.wait = FALSE])
        flat == Flattened(p.evs, p.group_event)
    IN  IF p.group_event = None THEN q
        ELSE SetPl([q EXCEPT !.evs = Converted(@, flat),
                             !.last_event = Last(flat),
                             !.group_event = None,
                             !.owed = @ \/ carry],
                   [Pl(q) EXCEPT !.carry = @ \/ carry])

-----------------------------------------------------------------------------
(* Levels and lists.                                                       *)

(* A level starts out with the event and operator of the one around it,    *)
(* but does not own them.                                                  *)
EnterLevel(p, use, scope) ==
    LET l == Pl(p)
    IN  [p EXCEPT !.levels = Append(@,
            [TopLevel EXCEPT !.scope = scope, !.use = use, !.sub = l.sub,
                             !.event = l.event, !.op = l.op,
                             !.outer_options = p.options])]

(* begin_list(), with the level of the list entered.  The list goes to the *)
(* operator of the level around it, or is an object there itself.          *)
BeginList(p, use) ==
    LET n == Len(p.nodes) + 1
        k == Top(p) - 1
        s == p.nested
        on == p.levels[k].op
        carr == use = "carr"
        obj == [root |-> None, parent |-> IF carr THEN None ELSE p.nodes[on].obj]
        q == [SetPl(p, [Pl(p) EXCEPT !.sub = IF Tip(p).sweep THEN "sweep" ELSE "none"])
                EXCEPT !.nodes = Append(@, [NewNode EXCEPT !.kind = "list",
                                                           !.obj = Len(p.objs) + 1]),
                       !.objs = Append(@, obj),
                       !.slots[s].list = n]
    IN  CASE carr -> LinkObj(q, k, s - 1, n, None)
          [] ~carr /\ p.nodes[on].mods = None ->
                [q EXCEPT !.nodes[on].mods = n, !.slots[s].last_mods = n]
          [] OTHER ->
                [q EXCEPT !.nodes[Tip(p).last_mods].next = n, !.slots[s].last_mods = n]

(* The amplitude multiplier is reset in lists other than for amplitude. *)
EnterList(p, use) ==
    LET q == BeginList(EnterLevel(p, use, "nest"), use)
    IN  [q EXCEPT !.slots[q.nested].options = q.options,
                  !.slots[q.nested].own_mult = None,
                  !.options.def_ampmult = IF use = "pmod" THEN 1 ELSE @]

(* leave_level() *)
LeaveLevel_KeepOptions(p) ==
    LET q == EndOperator(p)
    IN  [(IF Pl(p).scope = "group" THEN EndEvent(q) ELSE q) EXCEPT !.levels = Front(@)]
LeaveLevel(p) ==
    LET q == EndOperator(p)
        r == IF Pl(p).scope = "group" THEN EndEvent(q)
             ELSE [q EXCEPT !.options = Tip(q).options,
                            !.slots[q.nested].own_mult = None]
    IN  [r EXCEPT !.levels = Front(@)]

PushNest(p) == [p EXCEPT !.nested = @ + 1]

PopNest_Missed(p) == p
PopNest(p) == [p EXCEPT !.nested = @ - 1]

-----------------------------------------------------------------------------
(* What is read next: parse_level() and the functions it uses within a     *)
(* step or script options.                                                 *)

L == Pl(o)

ReadToken(c) ==
    /\ pc = "read"
    /\ grouped' = (grouped \/ c = "{")
    /\ tokens < IF grouped' THEN MaxGrouped ELSE MaxTokens
    /\ tokens' = tokens + 1
ReadNext == ReadToken("other")
InStep == L.sub = "op_step" /\ L.op # None

RoomForNode == Len(o.nodes) < MaxNodes
RoomForStep == RoomForNode /\ Len(o.evs) < MaxEvents
RoomForLevel == Top(o) < MaxLevels

(* Where a value is swept, only modulators can be given; a list place may  *)
(* still be marked so from a list that had it before.                      *)
Refused == L.use = "carr" /\ o.nested > 0 /\ Tip(o).sweep

(* An object, of a type with names (W, N, R). *)
NewObject ==
    /\ ReadNext
    /\ RoomForStep
    /\ ~Refused
    /\ o' = BeginOperator(o, None, FALSE)
    /\ UNCHANGED pc

(* parse_par_list(): a parameter, with lists or without (whether they      *)
(* replace old ones is left out).                                          *)
ParList(p, use, list) ==
    LET q == PushNest(p)
        r == [q EXCEPT !.slots[q.nested].sweep = Sweeps(use)]
    IN  IF list THEN EnterList(SetPl(r, [Pl(r) EXCEPT !.param = use]), use) ELSE PopNest(r)

RoomForList(list) == list => Len(o.nodes) + 1 < MaxNodes

(* One of type A, which the value of its amplitude parameter follows. *)
NewAmplitude(list) ==
    /\ ReadNext
    /\ RoomForStep
    /\ RoomForLevel
    /\ RoomForList(list)
    /\ o' = ParList(BeginOperator(o, None, FALSE), "amod", list)
    /\ UNCHANGED pc

(* The type R goes on to use the operator node it would have had. *)
RefusedRumble ==
    /\ ReadNext
    /\ Refused
    /\ L.op = None
    /\ pc' = "crashed"
    /\ UNCHANGED o

(* '@', for what the label was last given to, if an object of a type. *)
IsOperator(n) == IF n = None THEN FALSE ELSE o.nodes[n].kind = "op"

Reference(name) ==
    LET n == o.labels[name]
        q == SetPl(o, [L EXCEPT !.sub = "none"])
        r == BeginOperator(q, n, FALSE)
    IN  /\ ReadNext
        /\ \/ /\ IsOperator(n)
              /\ RoomForStep
              /\ o' = [r EXCEPT !.labels[name] = Pl(r).op]
           \/ /\ ~IsOperator(n)
              /\ o' = q
        /\ UNCHANGED pc

(* A label, for what comes next ("'name"). *)
Label(name) ==
    /\ ReadNext
    /\ L.set_label = NoName
    /\ o' = SetPl(o, [L EXCEPT !.set_label = name])
    /\ UNCHANGED pc

(* '/', in a step, which it splits, or before one at the top. *)
Wait ==
    /\ ReadNext
    /\ \/ /\ InStep
          /\ RoomForStep
          /\ o' = BeginOperator(SetPl(o, [L EXCEPT !.wait = TRUE]), L.op, FALSE)
       \/ /\ ~InStep
          /\ o.nested = 0
          /\ o' = SetPl(o, [L EXCEPT !.wait = TRUE])
    /\ UNCHANGED pc

(* ';', with a gap shift or without. *)
SubStep(shift) ==
    /\ ReadNext
    /\ InStep
    /\ RoomForStep
    /\ o' = BeginOperator(SetPl(o, [L EXCEPT !.wait = @ \/ shift]), L.op, TRUE)
    /\ UNCHANGED pc

Parameter(use, list) ==
    /\ ReadNext
    /\ InStep
    /\ RoomForLevel
    /\ list => RoomForNode
    /\ o' = ParList(o, use, list)
    /\ UNCHANGED pc

(* '[', of itself: carriers. *)
OpenCarriers ==
    /\ ReadNext
    /\ RoomForStep
    /\ RoomForLevel
    /\ o' = EnterList(PushNest(PrepareEvent(o, None, FALSE)), "carr")
    /\ UNCHANGED pc

(* ']', after which another list may follow for the same parameter. *)
CloseList(again) ==
    LET q == LeaveLevel(o)
        use == Pl(q).param
    IN  /\ ReadNext
        /\ L.scope = "nest"
        /\ again => use # "none" /\ RoomForNode
        /\ o' = CASE again -> EnterList(q, use)
                  [] ~again /\ use # "none" ->
                        PopNest(SetPl(q, [Pl(q) EXCEPT !.param = "none"]))
                  [] OTHER -> EndOperator(PopNest(q))
        /\ UNCHANGED pc

OpenGroup ==
    /\ ReadToken("{")
    /\ RoomForLevel
    /\ o' = EnterLevel(o, L.use, "group")
    /\ UNCHANGED pc

CloseGroup ==
    /\ ReadNext
    /\ L.scope = "group" /\ Top(o) > 1
    /\ o' = LeaveLevel(o)
    /\ UNCHANGED pc

(* '|' *)
Separator(carry) ==
    LET q == EndEvent(o)
    IN  /\ ReadNext
        /\ o.nested = 0
        /\ o' = FinishDurgroup(SetPl(q, [Pl(q) EXCEPT !.sub = "none"]), carry)
        /\ UNCHANGED pc

(* 'S' with a value for 'a', the amplitude multiplier. *)
SetMult(v) ==
    /\ ReadNext
    /\ o' = [SetPl(o, [L EXCEPT !.sub = "settings"]) EXCEPT
               !.options.def_ampmult =
                   IF L.use = "amod" THEN v * Tip(o).options.ampmult ELSE v,
               !.slots = IF o.nested = 0 THEN @
                         ELSE [@ EXCEPT ![o.nested].own_mult = v]]
    /\ UNCHANGED pc

(* The end of the script: it ends levels that are open as brackets do.    *)
EndOfScript ==
    LET q == FinishDurgroup(EndEvent(EndOperator(o)), FALSE)
    IN  /\ pc = "read"
        /\ Top(o) = 1
        /\ pc' = "parsed"
        /\ o' = q
        /\ UNCHANGED <<tokens, grouped>>

Next ==
    \/ NewObject
    \/ \E list \in BOOLEAN :
          \/ NewAmplitude(list) \/ CloseList(list)
          \/ \E use \in Uses \ {"carr"} : Parameter(use, list)
    \/ RefusedRumble
    \/ \E name \in Names : Reference(name) \/ Label(name)
    \/ Wait
    \/ \E shift \in BOOLEAN : SubStep(shift)
    \/ OpenCarriers \/ OpenGroup \/ CloseGroup
    \/ \E carry \in BOOLEAN : Separator(carry)
    \/ \E v \in Mults : SetMult(v)
    \/ EndOfScript

Spec == Init /\ [][Next]_vars

-----------------------------------------------------------------------------
(* Properties. *)

ScopeNest(k) == o.levels[k].scope = "nest"
ForParameter(k) == o.levels[k].param # "none"

(* Nodes, events and levels refer to what there is, and there is a place   *)
(* in the NestArr for each parameter that is read and for each other list. *)
TypeOK ==
    /\ pc \in {"read", "parsed", "crashed"}
    /\ o.nested = Cardinality({k \in DOMAIN o.levels : ForParameter(k)})
                  + Cardinality({k \in DOMAIN o.levels : ScopeNest(k) /\ ~ForParameter(k - 1)})
    /\ \A n \in DOMAIN o.nodes :
          /\ o.nodes[n].obj \in DOMAIN o.objs
          /\ o.nodes[n].next \in {None} \union DOMAIN o.nodes
          /\ o.nodes[n].kind = "op" => o.nodes[n].event \in DOMAIN o.evs
    /\ \A e \in DOMAIN o.evs : o.evs[e].main_obj \in DOMAIN o.nodes
    /\ \A k \in DOMAIN o.levels :
          /\ o.levels[k].own_op => o.levels[k].op \in DOMAIN o.nodes
          /\ o.levels[k].own_ev => o.levels[k].event \in DOMAIN o.evs

(* "Changes made inside a nested list scope don't apply outside of it."    *)
OptionsRestored ==
    [][Top(o') < Top(o) /\ L.scope = "nest" => o'.options = L.outer_options]_vars

(* A level ends the operator it began, and no other: the multiplier that   *)
(* was in effect when a step began is applied to it once, however levels   *)
(* that have inherited the step end in between.                            *)
AmpScaledOnce ==
    \A n \in DOMAIN o.nodes :
        LET owners == {k \in DOMAIN o.levels : o.levels[k].own_op /\ o.levels[k].op = n}
        IN  /\ Cardinality(owners) <= 1
            /\ o.nodes[n].kind = "op" =>
                   o.nodes[n].amp = IF owners = {} THEN o.nodes[n].mult ELSE 1

(* "Add new object to parent(s), ie. either the current event node, or an  *)
(* object ref node": each node is linked from one place, none from two.    *)
LinkedFrom(n) ==
    {<<"next", m>> : m \in {x \in DOMAIN o.nodes : o.nodes[x].next = n}}
    \union {<<"first", m>> : m \in {x \in DOMAIN o.nodes : o.nodes[x].first = n}}
    \union {<<"mods", m>> : m \in {x \in DOMAIN o.nodes : o.nodes[x].mods = n}}
    \union {<<"event", e>> : e \in {x \in DOMAIN o.evs : o.evs[x].main_obj = n}}
LinkedOnce == \A n \in DOMAIN o.nodes : Cardinality(LinkedFrom(n)) = 1

(* "The multiplier also applies ... to the multiplier in any deeper main   *)
(* a[] modulator list."                                                    *)
MultiplierApplies ==
    o.nested > 0 /\ L.use = "amod" /\ L.param = "none" =>
        LET list == o.slots[o.nested]
        IN  list.own_mult # None =>
                o.options.def_ampmult = list.own_mult * list.options.def_ampmult

(* Every step that was read is converted: devtests/subscope3.sau has two   *)
(* objects, each with a sub-step.                                          *)
EventsKept ==
    pc = "parsed" => \A e \in DOMAIN o.evs : o.evs[e].converted # 0

(* No step is converted twice. *)
ConvertedOnce == \A e \in DOMAIN o.evs : o.evs[e].converted < 2

(* "Delays all that follows by the duration of prior steps." *)
DelaysWhatFollows == \A e \in DOMAIN o.evs : o.evs[e].owed => o.evs[e].wait

(* A list is among those of the operator it was written for. *)
ListsOf(n) ==
    LET from[m \in DOMAIN o.nodes] ==
            {m} \union IF o.nodes[m].next <= m THEN {} ELSE from[o.nodes[m].next]
    IN  IF o.nodes[n].mods = None THEN {} ELSE from[o.nodes[n].mods]
ListOfItsOperator ==
    \A n \in DOMAIN o.nodes : \A m \in ListsOf(n) :
        o.objs[o.nodes[m].obj].parent = o.nodes[n].obj

(* The last four hold for all scripts without "{...}": those levels share  *)
(* the step of the one around them, and only with them can it be taken up  *)
(* again when other steps, lists or time separators have come after it.    *)
HoldWithoutGroups ==
    ~grouped => EventsKept /\ ConvertedOnce /\ DelaysWhatFollows /\ ListOfItsOperator
=============================================================================
