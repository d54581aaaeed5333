----------------------------- MODULE ParseConv ------------------------------
(***************************************************************************)
(* Parse conversion, src/sau/parser/parseconv.h: script events, parsed and *)
(* timed by parser.c, become the events of an audio program.  Voices are   *)
(* allocated and reused, operators get their ids, modulator lists are      *)
(* built, and the nesting depth of operators is measured.                  *)
(*                                                                         *)
(* The script is the environment: an event of it is any that parser.c can  *)
(* link and time.  It has one main operator, new or referred back to, and  *)
(* possibly one modulator list, with a chain of new operators nested in    *)
(* one another.  Kinds of lists, and parameters other than time, are left  *)
(* out.                                                                    *)
(***************************************************************************)
EXTENDS SauProgram

CONSTANTS
    MaxEvents,  \* bound: events of a script without new operators in lists
    MaxInLists, \* bound: events of a script with them
    MaxChain,   \* bound: new operators nested in one event's list
    Waits,      \* waits before an event, ms
    Times,      \* times given to an operator, ms
    SubSteps,   \* whether scripts have sub-events that set times
    Longer      \* by how much an event may outlast its operator, ms

ASSUME ScriptAssumption ==
    /\ SubSteps \in BOOLEAN
    /\ MaxEvents \in Nat /\ MaxInLists \in 0..MaxEvents /\ MaxChain \in Nat
    /\ Waits \subseteq Nat /\ Times \subseteq Nat /\ Longer \subseteq Nat

(* An operator id for each operator there can be. *)
MaxOps == (1 + MaxChain) * MaxEvents
ASSUME IdAssumption == 0..(MaxOps - 1) \subseteq Ops

VARIABLES
    pc,         \* where the code is
    objects,    \* the sauScriptObjInfo array, of operators only
    root_op,    \* o->root_op_obj of the parser: the last new carrier
    ev,         \* the script event being converted
    va,         \* sauVoAlloc
    mods,       \* sauOpAlloc: the modulators of each operator
    nest_max,   \* op_nest_max
    tot_dur_ms,
    events      \* the program events converted so far

vars == <<pc, objects, root_op, ev, va, mods, nest_max, tot_dur_ms, events>>

-----------------------------------------------------------------------------

NoVoice == -1   \* SAU_PVO_NO_ID
NoOp == -1

Lists == {"none", "replace", "append"}

NoEvent == [wait_ms |-> 0, obj |-> 0, is_new |-> FALSE, sets_time |-> FALSE,
            time_ms |-> 0, set_dur |-> FALSE, dur_ms |-> 0, list |-> "none",
            chain |-> <<>>, vo_id |-> NoVoice, assign_voice |-> FALSE]

Init ==
    /\ pc = "script"
    /\ objects = <<>>
    /\ root_op = 0
    /\ ev = NoEvent
    /\ va = <<>>
    /\ mods = <<>>
    /\ nest_max = 0
    /\ tot_dur_ms = 0
    /\ events = <<>>

-----------------------------------------------------------------------------
(* parser.c: begin_operator() and link_ev_obj(). *)

NewObject(root, nested) ==
    [root_op_obj |-> root, nested |-> nested,
     last_vo_id |-> NoVoice, last_op_id |-> NoOp]

(* The operators new in the list: each takes the last new carrier for its  *)
(* root.                                                                   *)
ChainOf(first, n) == [i \in 1..n |-> first + i - 1]
Nested(root, n) == [i \in 1..n |-> NewObject(root, TRUE)]

ListChoice == {c \in Lists \X (0..MaxChain) : c[1] = "none" => c[2] = 0}

(* A new carrier: it has a time, which the event lasts for at least. *)
NewCarrier(w, t, more, choice) ==
    LET id == Len(objects) + 1
    IN  /\ root_op' = id
        /\ objects' = objects \o <<NewObject(id, FALSE)>> \o Nested(id, choice[2])
        /\ ev' = [NoEvent EXCEPT
                    !.wait_ms = w, !.obj = id, !.is_new = TRUE,
                    !.sets_time = TRUE, !.time_ms = t,
                    !.set_dur = TRUE, !.dur_ms = t + more,
                    !.list = choice[1], !.chain = ChainOf(id + 1, choice[2])]

(* An event that refers back to an operator.  Only one for a carrier that  *)
(* sets its time also sets the duration of the voice (time_durgroup(),     *)
(* time_operator()).  A sub-event, of a composite step, sets the time but  *)
(* not the duration: time_durgroup() flags the events of the group before  *)
(* it has put the sub-events among them.                                   *)
Update(id, w, t, more, timing, choice) ==
    LET timed == timing # "untimed"
        o == objects[id]
    IN  /\ timed => ~o.nested
        /\ timing = "sub" => SubSteps
        /\ objects' = objects \o Nested(root_op, choice[2])
        /\ ev' = [NoEvent EXCEPT
                    !.wait_ms = w, !.obj = id, !.sets_time = timed,
                    !.time_ms = IF timed THEN t ELSE 0,
                    !.set_dur = timing = "timed",
                    !.dur_ms = t + more,
                    !.list = choice[1],
                    !.chain = ChainOf(Len(objects) + 1, choice[2])]
        /\ UNCHANGED root_op

HasLists == \E id \in DOMAIN objects : objects[id].nested

ScriptEvent ==
    /\ pc = "script"
    /\ Len(events) < IF HasLists THEN MaxInLists ELSE MaxEvents
    /\ pc' = "voice"
    /\ \E w \in Waits, t \in Times, more \in Longer, choice \in ListChoice :
          \/ NewCarrier(w, t, more, choice)
          \/ \E id \in DOMAIN objects, timing \in {"timed", "untimed", "sub"} :
                Update(id, w, t, more, timing, choice)
    /\ UNCHANGED <<va, mods, nest_max, tot_dur_ms, events>>

-----------------------------------------------------------------------------
(* sauVoAlloc_update() *)

(* The countdown of remaining durations. *)
CountedDown_Signed(v) == va[v].duration_ms - ev.wait_ms
CountedDown(v) ==
    IF va[v].duration_ms < ev.wait_ms THEN 0
    ELSE va[v].duration_ms - ev.wait_ms

Counted == [v \in DOMAIN va |-> [va[v] EXCEPT !.duration_ms = CountedDown(v)]]

(* The object that holds the voice: the root of one referred back to. *)
Holder == IF ev.is_new THEN ev.obj ELSE objects[ev.obj].root_op_obj

Durated_UnlessKept(vas) ==
    IF ev.set_dur /\ ev.is_new THEN [vas EXCEPT !.duration_ms = ev.dur_ms] ELSE vas
Durated(vas) ==
    IF ev.set_dur THEN [vas EXCEPT !.duration_ms = ev.dur_ms] ELSE vas

Free == {v \in DOMAIN va : CountedDown(v) = 0}
Lowest(S) == CHOOSE v \in S : \A u \in S : v <= u

FreshVoice(id) == [obj_id |-> id, duration_ms |-> 0, carr_op_id |-> NoOp]

(* Use the voice it has. *)
PreserveVoice ==
    LET v == objects[Holder].last_vo_id + 1
    IN  /\ pc = "voice"
        /\ ~ev.is_new /\ objects[Holder].last_vo_id # NoVoice
        /\ pc' = "operators"
        /\ va' = [Counted EXCEPT ![v] = Durated(@)]
        /\ ev' = [ev EXCEPT !.vo_id = v - 1]
        /\ UNCHANGED <<objects, root_op, mods, nest_max, tot_dur_ms, events>>

NeedsVoice == ev.is_new \/ objects[Holder].last_vo_id = NoVoice

(* Take the lowest voice whose duration has expired from its old object. *)
Renumbered_NotHeld(old, v) == [objects EXCEPT ![old].last_vo_id = NoVoice]
Renumbered_Kept(old, v) == [objects EXCEPT ![Holder].last_vo_id = v - 1]
Renumbered(old, v) ==
    [objects EXCEPT ![old].last_vo_id = NoVoice, ![Holder].last_vo_id = v - 1]

RecycleVoice ==
    LET v == Lowest(Free)
    IN  /\ pc = "voice"
        /\ NeedsVoice
        /\ Free # {}
        /\ pc' = "operators"
        /\ objects' = Renumbered(va[v].obj_id, v)
        /\ va' = [Counted EXCEPT ![v] = Durated(FreshVoice(Holder))]
        /\ ev' = [ev EXCEPT !.vo_id = v - 1, !.assign_voice = TRUE]
        /\ UNCHANGED <<root_op, mods, nest_max, tot_dur_ms, events>>

AddVoice ==
    /\ pc = "voice"
    /\ NeedsVoice
    /\ Free = {}
    /\ pc' = "operators"
    /\ objects' = [objects EXCEPT ![Holder].last_vo_id = Len(va)]
    /\ va' = Append(Counted, Durated(FreshVoice(Holder)))
    /\ ev' = [ev EXCEPT !.vo_id = Len(va), !.assign_voice = TRUE]
    /\ UNCHANGED <<root_op, mods, nest_max, tot_dur_ms, events>>

-----------------------------------------------------------------------------
(* ParseConv_convert_event(), with ParseConv_convert_ops() for the main    *)
(* operator and its list, sauOpAlloc_update() giving the new ones their    *)
(* ids from the outside in, and ParseConv_convert_opdata() their lists.    *)

NewIds == (IF ev.is_new THEN <<ev.obj>> ELSE <<>>) \o ev.chain

(* Operator ids count from 0; mods is indexed by id + 1. *)
OpIdAfter(id) ==
    IF \E i \in DOMAIN NewIds : NewIds[i] = id
    THEN Len(mods) - 1 + (CHOOSE i \in DOMAIN NewIds : NewIds[i] = id)
    ELSE objects[id].last_op_id

(* Each new nested operator is the one modulator of the one around it. *)
ListOf(id) ==
    {OpIdAfter(ev.chain[i]) :
        i \in {j \in DOMAIN ev.chain :
                  id = IF j = 1 THEN ev.obj ELSE ev.chain[j - 1]}}

ModsAfter ==
    LET grown == mods \o [i \in DOMAIN NewIds |-> {}]
        main == OpIdAfter(ev.obj) + 1
        listed == [k \in DOMAIN grown |->
                    UNION {ListOf(ev.chain[i]) :
                        i \in {j \in DOMAIN ev.chain : OpIdAfter(ev.chain[j]) = k - 1}}]
    IN  [k \in DOMAIN grown |->
            CASE k = main /\ ev.list = "replace" -> ListOf(ev.obj)
              [] k = main /\ ev.list = "append"  -> grown[k] \union ListOf(ev.obj)
              [] OTHER -> grown[k] \union listed[k]]

CarrierAfter ==
    IF ev.assign_voice THEN OpIdAfter(objects[ev.obj].root_op_obj)
    ELSE va[ev.vo_id + 1].carr_op_id

(* Nesting below an operator; modulators have higher ids than the operator *)
(* they are for, so it is found from the last id down: by the distance of  *)
(* the id from the last.                                                   *)
Heights(ms) ==
    LET n == Len(ms)
        f[d \in 0..n] ==
            LET subs == ms[n - d]
            IN  IF d = n \/ subs = {} THEN 0
                ELSE 1 + Lowest({h \in 0..n : \A s \in subs : f[n - (s + 1)] <= h})
    IN  f

Height(ms, op) == Heights(ms)[Len(ms) - (op + 1)]

(* sauVoiceGraph_set(): measured when the voice got its carrier, or when a *)
(* list was set.                                                           *)
NestMaxAfter(ms, carr) ==
    IF (ev.assign_voice \/ ev.list # "none") /\ Height(ms, carr) > nest_max
    THEN Height(ms, carr) ELSE nest_max

ConvertEvent ==
    LET carr == CarrierAfter
    IN  /\ pc = "operators"
        /\ pc' = "script"
        /\ mods' = ModsAfter
        /\ objects' = [id \in DOMAIN objects |->
                         [objects[id] EXCEPT !.last_op_id = OpIdAfter(id)]]
        /\ va' = [va EXCEPT ![ev.vo_id + 1].carr_op_id = carr]
        /\ nest_max' = NestMaxAfter(ModsAfter, carr)
        /\ tot_dur_ms' = tot_dur_ms + ev.wait_ms
        /\ events' = Append(events,
              [at_ms |-> tot_dur_ms + ev.wait_ms,
               vo_id |-> ev.vo_id,
               carr_op_id |-> carr,
               sets_time |-> ev.sets_time,
               time_ms |-> ev.time_ms])
        /\ ev' = NoEvent
        /\ UNCHANGED root_op

(* leave_level() at the end of the script: ParseConv_end_dur_ms(). *)
Remaining_LastVoice == {IF va = <<>> THEN 0 ELSE va[Len(va)].duration_ms}
Remaining == {va[v].duration_ms : v \in DOMAIN va} \union {0}

EndScript ==
    /\ pc = "script"
    /\ pc' = "built"
    /\ tot_dur_ms' = tot_dur_ms + (CHOOSE r \in Remaining :
                                     \A q \in Remaining : q <= r)
    /\ UNCHANGED <<objects, root_op, ev, va, mods, nest_max, events>>

Next ==
    \/ ScriptEvent
    \/ PreserveVoice \/ RecycleVoice \/ AddVoice
    \/ ConvertEvent
    \/ EndScript

Spec == Init /\ [][Next]_vars

-----------------------------------------------------------------------------
(* Properties. *)

Built == [events |-> events, vo_count |-> Len(va)]

TypeOK ==
    /\ pc \in {"script", "voice", "operators", "built"}
    /\ events \in Seq(Event)
    /\ tot_dur_ms \in Nat /\ nest_max \in Nat
    /\ root_op \in 0..Len(objects)
    /\ \A id \in DOMAIN objects :
          /\ objects[id].root_op_obj \in DOMAIN objects
          /\ objects[id].last_vo_id \in {NoVoice} \union 0..(Len(va) - 1)
          /\ objects[id].last_op_id \in {NoOp} \union 0..(Len(mods) - 1)
    /\ \A v \in DOMAIN va :
          /\ va[v].obj_id \in DOMAIN objects
          /\ va[v].duration_ms \in Nat
    /\ \A k \in DOMAIN mods : mods[k] \subseteq k..(Len(mods) - 1)

(* Conversion only makes programs of the kind the generator is made for,   *)
(* as to voices and their carriers: what Generator assumes.                *)
Converted == pc \in {"script", "built"}
MakesValidPrograms == Converted => ValidProgram(Built)

(* "Reuse first lowest free voice (duration expired), if any": no voice is *)
(* taken from a carrier that still has time to play.  That holds for       *)
(* scripts with no sub-steps (~SubSteps); for those with them it fails, as *)
(* time_durgroup() flags events before sub-events are put among them.      *)
VoiceReuseAfterExpiry == Converted => ReusesOnlyExpired(Built)

(* last_vo_id and obj_id agree: a voice is held by one object, and an      *)
(* object that lost its voice to another does not still refer to it.       *)
VoiceHeldByOne ==
    /\ \A id \in DOMAIN objects :
          objects[id].last_vo_id # NoVoice =>
              va[objects[id].last_vo_id + 1].obj_id = id
    /\ \A v \in DOMAIN va : objects[va[v].obj_id].last_vo_id = v - 1

(* The duration reported for the program ("Duration: %u ms") is never      *)
(* shorter than what plays, in scripts with no sub-steps (~SubSteps).      *)
DurationCoversSound ==
    pc = "built" =>
        \A k \in DOMAIN events :
            \/ events[k].at_ms + events[k].time_ms <= tot_dur_ms
            \/ \E j \in (k + 1)..Len(events) :
                  /\ events[j].sets_time
                  /\ events[j].carr_op_id = events[k].carr_op_id

(* "maximum number of buffers needed for op nesting depth": the depth the  *)
(* generator sizes its buffers by covers what every voice runs.            *)
NestDepthCovers ==
    Converted =>
        \A v \in DOMAIN va : Height(mods, va[v].carr_op_id) <= nest_max

-----------------------------------------------------------------------------
(* The invariant that the proofs are by induction on, in parts. *)

ObjectType == [root_op_obj : Nat, nested : BOOLEAN,
               last_vo_id : {NoVoice} \union Nat, last_op_id : {NoOp} \union Nat]
VoiceType == [obj_id : Nat, duration_ms : Nat, carr_op_id : {NoOp} \union Ops]
EvType == [wait_ms : Nat, obj : Nat, is_new : BOOLEAN, sets_time : BOOLEAN,
           time_ms : Nat, set_dur : BOOLEAN, dur_ms : Nat, list : Lists,
           chain : Seq(Nat), vo_id : {NoVoice} \union Nat, assign_voice : BOOLEAN]

Types ==
    /\ pc \in {"script", "voice", "operators", "built"}
    /\ objects \in Seq(ObjectType)
    /\ root_op \in Nat
    /\ ev \in EvType
    /\ va \in Seq(VoiceType)
    /\ mods \in Seq(SUBSET Nat)
    /\ nest_max \in Nat
    /\ tot_dur_ms \in Nat
    /\ events \in Seq(Event)

InEvent == pc \in {"voice", "operators"}

(* There are ids for all operators. *)
Sizes ==
    /\ Len(events) <= MaxEvents
    /\ InEvent => Len(events) < MaxEvents
    /\ Len(objects) <= (1 + MaxChain) * (Len(events) + IF InEvent THEN 1 ELSE 0)

(* Operators get their ids in the order of their objects. *)
Known(id) == id <= Len(mods)
IdsInOrder ==
    /\ ~InEvent => Len(mods) = Len(objects)
    /\ InEvent => /\ Len(objects) = Len(mods) + Len(NewIds)
                  /\ \A i \in DOMAIN NewIds : NewIds[i] = Len(mods) + i
    /\ \A id \in DOMAIN objects :
          objects[id].last_op_id = IF Known(id) THEN id - 1 ELSE NoOp
    /\ \A k \in DOMAIN mods : mods[k] \subseteq k..(Len(mods) - 1)

(* Every operator has a carrier for its root, itself if it is one. *)
IsRoot(id) == id \in DOMAIN objects /\ ~objects[id].nested
Roots ==
    /\ root_op \in 0..Len(objects)
    /\ objects # <<>> => IsRoot(root_op)
    /\ \A id \in DOMAIN objects :
          LET root == objects[id].root_op_obj
          IN  /\ IsRoot(root) /\ root <= id
              /\ IsRoot(id) => root = id

(* The event that is being converted. *)
EventSound ==
    /\ ev.set_dur => ev.sets_time /\ ev.time_ms <= ev.dur_ms
    /\ ev.sets_time /\ ~SubSteps => ev.set_dur
    /\ ~ev.sets_time => ev.time_ms = 0
    /\ InEvent =>
          /\ ev.obj \in DOMAIN objects
          /\ ev.is_new => IsRoot(ev.obj) /\ ev.sets_time
          /\ ~ev.is_new => Known(ev.obj)
          /\ \A id \in DOMAIN objects :
                IsRoot(id) /\ ~Known(id) => ev.is_new /\ id = ev.obj
    /\ pc = "voice" =>
          /\ ~ev.assign_voice
          /\ ev.is_new => objects[ev.obj].last_vo_id = NoVoice
    /\ pc = "operators" =>
          /\ ev.vo_id + 1 \in DOMAIN va
          /\ va[ev.vo_id + 1].obj_id = Holder
          /\ ev.is_new => ev.assign_voice
          /\ ev.set_dur => va[ev.vo_id + 1].duration_ms = ev.dur_ms

(* Voices are held by carriers, and play the operator of their holder from *)
(* the end of the event that gives it to them on.                          *)
Pending(v) == pc = "operators" /\ ev.assign_voice /\ v = ev.vo_id + 1
VoicesHeld ==
    /\ \A id \in DOMAIN objects :
          objects[id].last_vo_id \in {NoVoice} \union 0..(Len(va) - 1)
    /\ \A v \in DOMAIN va :
          /\ IsRoot(va[v].obj_id)
          /\ Pending(v) \/ Known(va[v].obj_id)
          /\ va[v].carr_op_id = IF Pending(v) THEN NoOp ELSE va[v].obj_id - 1

(* The same as the events tell it: each voice belongs to the operator of   *)
(* its holder, or is still about to be taken from another that has ended.  *)
Upcoming == Len(events) + 1
Clock == IF pc = "operators" THEN tot_dur_ms + ev.wait_ms ELSE tot_dur_ms
EndsBy(p, k, op, t) ==
    \E j \in TimedBefore(p, k, op) :
        /\ \A i \in TimedBefore(p, k, op) : i <= j
        /\ p.events[j].at_ms + p.events[j].time_ms <= t
VoicesOwned ==
    \A v \in DOMAIN va :
        /\ ~Pending(v) => Owns(Built, Upcoming, v - 1, va[v].obj_id - 1)
        /\ Pending(v) =>
              \A op \in Ops : Owns(Built, Upcoming, v - 1, op) =>
                  /\ op # va[v].obj_id - 1
                  /\ ~SubSteps => EndsBy(Built, Upcoming, op, Clock)

EventsKnown ==
    \A k \in DOMAIN events :
        /\ events[k].vo_id < Len(va)
        /\ events[k].at_ms <= tot_dur_ms
        /\ ~events[k].sets_time => events[k].time_ms = 0
        /\ events[k].carr_op_id \in Nat
        /\ IsRoot(events[k].carr_op_id + 1) /\ Known(events[k].carr_op_id + 1)

RootsTimed ==
    \A id \in DOMAIN objects :
        IsRoot(id) /\ Known(id) => TimedBefore(Built, Upcoming, id - 1) # {}

(* What is left of a carrier is no more than what its voice counts down,   *)
(* if it has one, but for one whose time the event is about to set.        *)
Left(id) ==
    IF objects[id].last_vo_id = NoVoice \/ pc = "built" THEN 0
    ELSE va[objects[id].last_vo_id + 1].duration_ms
TimesCounted ==
    ~SubSteps =>
        \A id \in DOMAIN objects :
            /\ IsRoot(id) /\ Known(id)
            /\ ~(pc = "operators" /\ id = Holder /\ ev.sets_time)
            => EndsBy(Built, Upcoming, id - 1, Clock + Left(id))

EventsValid ==
    /\ \A k \in 1..Len(events) : ValidEvent(Built, k)
    /\ ~SubSteps => ReusesOnlyExpired(Built)

ConvInv ==
    /\ Types
    /\ Sizes
    /\ IdsInOrder
    /\ Roots
    /\ EventSound
    /\ VoicesHeld
    /\ VoiceHeldByOne
    /\ VoicesOwned
    /\ EventsKnown
    /\ RootsTimed
    /\ TimesCounted
    /\ EventsValid
=============================================================================
