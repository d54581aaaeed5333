---------------------------- MODULE ParserProofs -----------------------------
(***************************************************************************)
(* Theorems about Parser, for all bounds, names and multipliers.  All rest *)
(* on one inductive invariant, IInv: what the parser is like between one   *)
(* token and the next.  Its parts are about any parser, so that there is a *)
(* lemma for each function of the code, which says what it makes of one.   *)
(***************************************************************************)
EXTENDS Parser, Numbers, FiniteSetTheorems, SequenceTheorems

-----------------------------------------------------------------------------
(* The inductive invariant. *)

IsSeq(s) == Len(s) \in Nat /\ s = [i \in 1..Len(s) |-> s[i]]

Options == [ampmult : Nat, def_ampmult : Nat]

Level ==
    [scope : {"group", "nest"}, use : Uses,
     sub : {"none", "sweep", "op_step", "settings"},
     event : Nat, op : Nat, own_ev : BOOLEAN, own_op : BOOLEAN,
     fork : BOOLEAN, main_ev : Nat, set_label : Names \union {NoName},
     wait : BOOLEAN, carry : BOOLEAN, used_ampmult : Nat,
     param : {"none", "amod", "pmod"}, outer_options : Options]

Slot == [list : Nat, last_mods : Nat, last_item : Nat, options : Options,
         sweep : BOOLEAN, own_mult : Nat]

Node == [kind : {"op", "list"}, obj : Nat, prev : Nat, next : Nat, event : Nat,
         mods : Nat, first : Nat, amp : Nat, mult : Nat]

(* p is a record with the fields of a parser. *)
Shape(p) ==
    p = [levels |-> p.levels, slots |-> p.slots, nested |-> p.nested,
         nodes |-> p.nodes, objs |-> p.objs, root_op |-> p.root_op,
         evs |-> p.evs, last_event |-> p.last_event,
         group_event |-> p.group_event, labels |-> p.labels,
         options |-> p.options, owed |-> p.owed]

Typed(p) ==
    /\ p.levels \in Seq(Level) /\ Top(p) \in 1..MaxLevels
    /\ p.slots \in [1..MaxLevels -> Slot]
    /\ p.nested \in 0..MaxLevels
    /\ p.nodes \in Seq(Node)
    /\ IsSeq(p.objs)
    /\ IsSeq(p.evs) /\ \A e \in DOMAIN p.evs : "main_obj" \in DOMAIN p.evs[e]
    /\ p.labels \in [Names -> Nat]
    /\ p.options \in Options

(* References are to what there is. *)
IsNode(p, n) == n \in {None} \union DOMAIN p.nodes
IsOp(p, n) == n # None => n \in DOMAIN p.nodes /\ p.nodes[n].kind = "op"

NodesRefer(p) ==
    \A n \in DOMAIN p.nodes :
        /\ p.nodes[n].obj \in DOMAIN p.objs
        /\ IsNode(p, p.nodes[n].next) /\ IsNode(p, p.nodes[n].first)
        /\ IsNode(p, p.nodes[n].mods)
        /\ p.nodes[n].kind = "op" =>
               p.nodes[n].event \in DOMAIN p.evs /\ p.nodes[n].first = None

(* Of events, e may be yet without an object. *)
EventsRefer(p, e) ==
    \A x \in DOMAIN p.evs :
        IF x = e THEN p.evs[x].main_obj = None
        ELSE p.evs[x].main_obj \in DOMAIN p.nodes

LabelsRefer(p) == \A x \in Names : IsNode(p, p.labels[x])

(* Within a step that can be gone on with. *)
Stepping(l) == l.sub = "op_step" /\ l.op # None

LevelRefers(p, l) ==
    /\ IsOp(p, l.op)
    /\ l.own_op => l.op # None
    /\ l.event = None \/ l.event \in DOMAIN p.evs
    /\ l.own_ev => l.event # None

(* How many lists level k is nested in. *)
Lists(ls, k) == {j \in 1..k : ls[j].scope = "nest"}
Place(ls, k) == Cardinality(Lists(ls, k))

(* Where objects go on being added, there is an event for them. *)
HasEvent(ls, k) ==
    Stepping(ls[k]) \/ Place(ls, k) > 0 => ls[k].event # None /\ ~ls[k].wait

(* Other lists than of carriers are nested in something. *)
UsesNested(p) == \A k \in 1..Top(p) : p.levels[k].use # "carr" => Place(p.levels, k) > 0

LevelsRefer(p) ==
    /\ p.levels[1].scope = "group" /\ UsesNested(p)
    /\ \A k \in 1..Top(p) : LevelRefers(p, p.levels[k])
    /\ \A k \in 1..(Top(p) - 1) :
          /\ HasEvent(p.levels, k)
          /\ p.levels[k].param # "none" =>
                 p.levels[k + 1].scope = "nest" /\ Stepping(p.levels[k])

Settled(p) == HasEvent(p.levels, Top(p))

(* Each list has a place; there may be one more, for a parameter. *)
Nested(p, more) ==
    /\ p.nested = Place(p.levels, Top(p)) + more
    /\ Pl(p).param # "none" => more = 1 /\ Stepping(Pl(p))
    /\ \A k \in 1..Top(p) :
          p.levels[k].scope = "nest" =>
              p.slots[Place(p.levels, k)].options = p.levels[k].outer_options

(* The lists of places: each has its own, and an end if it has a start. *)
SlotsRefer(p) ==
    \A s \in 1..MaxLevels :
        LET list == p.slots[s].list
        IN  /\ IsNode(p, list)
            /\ list # None => /\ p.nodes[list].kind = "list"
                              /\ p.nodes[list].first # None => p.slots[s].last_item # None
            /\ \A t \in 1..MaxLevels : list # None /\ p.slots[t].list = list => t = s

SlotsUsed(p, upto) == \A s \in 1..upto : p.slots[s].list # None

(* Multipliers, of steps that levels are in and of those that ended. *)
Owns(p, k, n) == p.levels[k].own_op /\ p.levels[k].op = n

Scaled(p) ==
    /\ \A k \in 1..Top(p) :
          p.levels[k].own_op =>
              /\ p.nodes[p.levels[k].op].amp = 1
              /\ p.nodes[p.levels[k].op].mult = p.levels[k].used_ampmult
    /\ \A j, k \in 1..Top(p) :
          p.levels[j].own_op /\ p.levels[k].own_op /\ p.levels[j].op = p.levels[k].op
              => j = k
    /\ \A n \in DOMAIN p.nodes :
          p.nodes[n].kind = "op" /\ (\A k \in 1..Top(p) : ~Owns(p, k, n))
              => p.nodes[n].amp = p.nodes[n].mult

(* Nodes that others can be put after: none has one after it, and each is  *)
(* so for one reason.                                                      *)
IsEnd(p, n) == n # None => n \in DOMAIN p.nodes /\ p.nodes[n].next = None

Ends(p) ==
    \A s, t \in 1..MaxLevels :
        LET i == p.slots[s].last_item
            m == p.slots[s].last_mods
        IN  /\ IsEnd(p, i) /\ IsEnd(p, m)
            /\ i # None /\ i = p.slots[t].last_item => s = t
            /\ m # None /\ m = p.slots[t].last_mods => s = t
            /\ i # None => i # p.slots[t].last_mods

(* The lists of an operator that can get more are in the next place. *)
ModsEnd(p) ==
    \A k \in 1..Top(p) :
        Stepping(p.levels[k]) =>
            /\ p.nodes[p.levels[k].op].mods # None =>
                   /\ Place(p.levels, k) + 1 \in 1..MaxLevels
                   /\ p.slots[Place(p.levels, k) + 1].last_mods # None
            /\ \A j \in 1..Top(p) :
                  Stepping(p.levels[j]) /\ p.levels[j].op = p.levels[k].op
                      => Place(p.levels, j) = Place(p.levels, k)

(* What links to n; n is linked from one place, but for one new node. *)
From(p, n) ==
    {<<"next", m>> : m \in {x \in DOMAIN p.nodes : p.nodes[x].next = n}}
    \union {<<"first", m>> : m \in {x \in DOMAIN p.nodes : p.nodes[x].first = n}}
    \union {<<"mods", m>> : m \in {x \in DOMAIN p.nodes : p.nodes[x].mods = n}}
    \union {<<"event", e>> : e \in {x \in DOMAIN p.evs : p.evs[x].main_obj = n}}

Once(p, new) ==
    \A n \in DOMAIN p.nodes :
        IF n = new THEN From(p, n) = {} ELSE \E x \in From(p, n) : From(p, n) = {x}

Sound(p, more, e, new) ==
    /\ Shape(p) /\ Typed(p)
    /\ NodesRefer(p) /\ EventsRefer(p, e) /\ LabelsRefer(p) /\ LevelsRefer(p)
    /\ Nested(p, more) /\ SlotsRefer(p) /\ SlotsUsed(p, p.nested - more)
    /\ Scaled(p) /\ Ends(p) /\ ModsEnd(p) /\ Once(p, new)

IInv ==
    /\ pc \in {"read", "parsed", "crashed"}
    /\ Sound(o, 0, None, None)
    /\ pc # "parsed" => Settled(o)

-----------------------------------------------------------------------------
(* Records and sequences. *)

(* What of a parser the invariant is about. *)
Is(q, levels, slots, nested, nodes, objs, evs, labels, options) ==
    /\ Shape(q)
    /\ q.levels = levels /\ q.slots = slots /\ q.nested = nested
    /\ q.nodes = nodes /\ q.objs = objs /\ q.evs = evs
    /\ q.labels = labels /\ q.options = options

LEMMA SetPlIs ==
    ASSUME NEW p, Shape(p), NEW l
    PROVE  Is(SetPl(p, l), [p.levels EXCEPT ![Top(p)] = l], p.slots, p.nested,
              p.nodes, p.objs, p.evs, p.labels, p.options)
<1>1. PICK q : q = SetPl(p, l)
  OBVIOUS
<1> QED
  BY <1>1 DEF Shape, SetPl, Top, Is

LEMMA AppendIs ==
    ASSUME NEW s, IsSeq(s), NEW x
    PROVE  /\ IsSeq(Append(s, x)) /\ Len(Append(s, x)) = Len(s) + 1
           /\ DOMAIN Append(s, x) = 1..(Len(s) + 1)
           /\ \A i \in 1..Len(s) : Append(s, x)[i] = s[i]
           /\ Append(s, x)[Len(s) + 1] = x
<1>1. PICK S : S = {s[i] : i \in 1..Len(s)} \union {x}
  OBVIOUS
<1>2. s \in Seq(S) /\ x \in S
  BY <1>1 DEF IsSeq
<1>3. PICK t : t = Append(s, x)
  OBVIOUS
<1>4. /\ t \in Seq(S) /\ Len(t) = Len(s) + 1 /\ Len(s) \in Nat
      /\ \A i \in 1..Len(s) : t[i] = s[i]
      /\ t[Len(s) + 1] = x
  BY <1>2, <1>3
<1>5. DOMAIN t = 1..(Len(s) + 1) /\ t = [i \in 1..Len(t) |-> t[i]]
  BY <1>4
<1> QED
  BY <1>3, <1>4, <1>5 DEF IsSeq

Put(S, s, t, i, v) ==
    /\ t \in Seq(S) /\ Len(t) = Len(s) /\ DOMAIN t = DOMAIN s
    /\ i \in DOMAIN s => t[i] = v
    /\ \A j \in DOMAIN s : j # i => t[j] = s[j]

LEMMA PutIs ==
    ASSUME NEW S, NEW s \in Seq(S), NEW i, NEW v \in S,
           NEW t, t = [s EXCEPT ![i] = v]
    PROVE  Put(S, s, t, i, v)
<1>1. DOMAIN t = DOMAIN s /\ \A j \in DOMAIN s : t[j] = IF j = i THEN v ELSE s[j]
  OBVIOUS
<1>2. PICK m \in Nat : m = Len(s) /\ DOMAIN s = 1..m
  OBVIOUS
<1>3. t = [j \in 1..m |-> t[j]]
  BY <1>1, <1>2
<1>4. \A j \in 1..m : t[j] \in S
  BY <1>1, <1>2
<1>5. t \in Seq(S)
  <2>1. t \in [1..m -> S]
    BY <1>3, <1>4
  <2> QED
    BY <2>1, SeqDef
<1>6. Len(t) = m
  BY <1>1, <1>2, <1>5
<1> QED
  BY <1>1, <1>2, <1>5, <1>6 DEF Put

-----------------------------------------------------------------------------
(* Places: how many lists a level is nested in. *)

LEMMA ListsFinite ==
    ASSUME NEW ls, NEW k \in Nat
    PROVE  IsFiniteSet(Lists(ls, k)) /\ Place(ls, k) \in 0..k
<1>1. IsFiniteSet(1..k) /\ Cardinality(1..k) = k
  BY FS_Interval
<1>2. Lists(ls, k) \subseteq 1..k
  BY DEF Lists
<1>3. /\ IsFiniteSet(Lists(ls, k))
      /\ Cardinality(Lists(ls, k)) <= Cardinality(1..k)
  BY <1>1, <1>2, FS_Subset
<1>4. Cardinality(Lists(ls, k)) \in Nat
  BY <1>3, FS_CardinalityType
<1> QED
  BY <1>1, <1>3, <1>4 DEF Place

LEMMA PlaceNext ==
    ASSUME NEW ls, NEW k \in Nat
    PROVE  Place(ls, k + 1) = Place(ls, k) + IF ls[k + 1].scope = "nest" THEN 1 ELSE 0
<1>1. IsFiniteSet(Lists(ls, k)) /\ Place(ls, k) \in Nat
  BY ListsFinite
<1>2. k + 1 \notin Lists(ls, k)
  BY DEF Lists
<1>3. CASE ls[k + 1].scope = "nest"
  <2>1. Lists(ls, k + 1) = Lists(ls, k) \union {k + 1}
    BY <1>3 DEF Lists
  <2>2. Cardinality(Lists(ls, k) \union {k + 1}) = Cardinality(Lists(ls, k)) + 1
    BY <1>1, <1>2, FS_AddElement
  <2> QED
    BY <1>3, <2>1, <2>2 DEF Place
<1>4. CASE ls[k + 1].scope # "nest"
  <2>1. Lists(ls, k + 1) = Lists(ls, k)
    BY <1>4 DEF Lists
  <2> QED
    BY <1>1, <1>4, <2>1 DEF Place
<1> QED
  BY <1>3, <1>4

LEMMA PlaceSame ==
    ASSUME NEW ls, NEW ms, NEW k \in Nat, \A i \in 1..k : ls[i].scope = ms[i].scope
    PROVE  Place(ls, k) = Place(ms, k)
<1>1. Lists(ls, k) = Lists(ms, k)
  BY DEF Lists
<1> QED
  BY <1>1 DEF Place

LEMMA PlaceGrows ==
    ASSUME NEW ls, NEW j \in Nat, NEW k \in Nat, j < k
    PROVE  /\ Place(ls, j) <= Place(ls, k)
           /\ ls[k].scope = "nest" => Place(ls, j) < Place(ls, k)
<1>1. PICK i \in Nat : k = i + 1 /\ j <= i
  BY k - 1 \in Nat
<1>2. Lists(ls, j) \subseteq Lists(ls, i)
  BY <1>1 DEF Lists
<1>3. Place(ls, j) <= Place(ls, i)
  BY <1>2, FS_Subset, ListsFinite DEF Place
<1>4. Place(ls, j) \in Nat /\ Place(ls, i) \in Nat
  BY ListsFinite
<1>5. Place(ls, k) = Place(ls, i) + IF ls[k].scope = "nest" THEN 1 ELSE 0
  BY <1>1, PlaceNext
<1> QED
  BY <1>3, <1>4, <1>5

LEMMA PlaceBound ==
    ASSUME NEW ls, NEW k \in Nat \ {0}, ls[1].scope = "group"
    PROVE  Place(ls, k) \in 0..(k - 1)
<1>1. PICK i \in Nat : k = i + 1
  BY k - 1 \in Nat
<1>2. Lists(ls, k) \subseteq 2..k
  BY DEF Lists
<1>3. IsFiniteSet(2..k) /\ Cardinality(2..k) = i
  <2>1. IsFiniteSet(2..k) /\ Cardinality(2..k) = IF 2 > k THEN 0 ELSE k - 2 + 1
    BY FS_Interval
  <2> QED
    BY <1>1, <2>1
<1>4. Place(ls, k) <= i
  BY <1>2, <1>3, FS_Subset DEF Place
<1> QED
  BY <1>1, <1>4, ListsFinite

LEMMA NestPlace ==
    ASSUME NEW p, Typed(p), NEW k \in 1..Top(p), p.levels[k].scope = "nest"
    PROVE  Place(p.levels, k) \in 1..MaxLevels
<1>1. Top(p) \in 1..MaxLevels /\ MaxLevels \in Nat
  BY ParserAssumption DEF Typed
<1>2. PICK j \in Nat : k = j + 1
  BY <1>1, k - 1 \in Nat
<1>3. Place(p.levels, k) = Place(p.levels, j) + 1 /\ Place(p.levels, j) \in Nat
  BY <1>2, PlaceNext, ListsFinite
<1>4. Place(p.levels, k) \in 0..k
  BY <1>1, ListsFinite
<1> QED
  BY <1>1, <1>3, <1>4

LEMMA UsesKept ==
    ASSUME NEW p, NEW q, UsesNested(p), Top(q) = Top(p),
           \A k \in 1..Top(p) : /\ q.levels[k].use = p.levels[k].use
                               /\ Place(q.levels, k) = Place(p.levels, k)
    PROVE  UsesNested(q)
BY DEF UsesNested

-----------------------------------------------------------------------------
(* Changes to a level, to events or to settings only. *)

SameLevel(l, m) ==
    /\ l.scope = m.scope /\ l.use = m.use /\ l.outer_options = m.outer_options
    /\ l.op = m.op /\ l.own_op = m.own_op /\ l.used_ampmult = m.used_ampmult

SameSlot(s, t) ==
    /\ s.list = t.list /\ s.options = t.options
    /\ s.last_mods = t.last_mods /\ s.last_item = t.last_item

(* q has all of what p has, as far as the invariant tells; at the top      *)
(* level, in settings and in parts of places q may differ from p.          *)
Beside(p, q) ==
    /\ q.levels \in Seq(Level) /\ Top(q) = Top(p)
    /\ \A k \in 1..(Top(p) - 1) : q.levels[k] = p.levels[k]
    /\ SameLevel(Pl(q), Pl(p))
    /\ Stepping(Pl(q)) => Stepping(Pl(p))
    /\ q.slots \in [1..MaxLevels -> Slot]
    /\ \A s \in 1..MaxLevels : SameSlot(q.slots[s], p.slots[s])
    /\ q.nested = p.nested /\ q.nodes = p.nodes /\ q.objs = p.objs
    /\ q.options \in Options
    /\ q.labels \in [Names -> Nat]

(* Events of q are those of p, and new ones that have no object. *)
MoreEvents(p, q) ==
    /\ IsSeq(q.evs) /\ Len(p.evs) <= Len(q.evs)
    /\ \A x \in DOMAIN q.evs : "main_obj" \in DOMAIN q.evs[x]
    /\ \A x \in DOMAIN q.evs :
          q.evs[x].main_obj = IF x \in DOMAIN p.evs THEN p.evs[x].main_obj ELSE None

LEMMA PlacesBeside ==
    ASSUME NEW p, NEW q, Typed(p), Beside(p, q)
    PROVE  /\ Top(p) \in Nat \ {0} /\ Top(q) = Top(p)
           /\ \A k \in 1..Top(p) : /\ q.levels[k].scope = p.levels[k].scope
                                   /\ Place(q.levels, k) = Place(p.levels, k)
<1>1. Top(p) \in Nat \ {0} /\ Top(q) = Top(p)
  BY DEF Typed, Beside, Top
<1>2. ASSUME NEW k \in 1..Top(p) PROVE q.levels[k].scope = p.levels[k].scope
  <2>1. CASE k = Top(p)
    BY <1>1, <2>1 DEF Beside, SameLevel, Pl, Top
  <2>2. CASE k # Top(p)
    BY <1>1, <2>2 DEF Beside
  <2> QED
    BY <2>1, <2>2
<1>3. ASSUME NEW k \in 1..Top(p) PROVE Place(q.levels, k) = Place(p.levels, k)
  BY <1>1, <1>2, PlaceSame
<1> QED
  BY <1>1, <1>2, <1>3

LEMMA SoundBeside ==
    ASSUME NEW p, NEW q, NEW more \in {0, 1}, NEW e, NEW f, NEW new,
           Sound(p, more, e, new), Shape(q), Beside(p, q), MoreEvents(p, q),
           EventsRefer(q, f), LabelsRefer(q), LevelRefers(q, Pl(q)),
           Pl(q).param # "none" => more = 1 /\ Stepping(Pl(q))
    PROVE  Sound(q, more, f, new)
<1>1. Typed(p)
  BY DEF Sound
<1>2. /\ Top(p) \in Nat \ {0} /\ Top(q) = Top(p)
      /\ \A k \in 1..Top(p) : /\ q.levels[k].scope = p.levels[k].scope
                              /\ Place(q.levels, k) = Place(p.levels, k)
  BY <1>1, PlacesBeside
<1>3. Pl(p) = p.levels[Top(p)] /\ Pl(q) = q.levels[Top(p)]
  BY <1>2 DEF Pl, Top
<1>4. ASSUME NEW k \in 1..Top(p) PROVE k = Top(p) \/ q.levels[k] = p.levels[k]
  BY <1>2 DEF Beside
<1>5. DOMAIN p.evs \subseteq DOMAIN q.evs
  BY <1>1 DEF Typed, MoreEvents, IsSeq
<1>6. Typed(q)
  BY <1>1, <1>2 DEF Typed, Beside, MoreEvents
<1>7. NodesRefer(q)
  BY <1>5 DEF Sound, NodesRefer, Beside, IsNode
<1>8. LevelsRefer(q)
  <2>1. q.levels[1].scope = "group"
    BY <1>2 DEF Sound, LevelsRefer
  <2>2. ASSUME NEW k \in 1..Top(p) PROVE LevelRefers(q, q.levels[k])
    <3>1. CASE k = Top(p)
      BY <1>3, <3>1
    <3>2. CASE k # Top(p)
      <4>1. LevelRefers(p, p.levels[k]) /\ q.levels[k] = p.levels[k] /\ q.nodes = p.nodes
        BY <1>4, <3>2 DEF Sound, LevelsRefer, Beside
      <4> QED
        BY <1>5, <4>1 DEF LevelRefers, IsOp
    <3> QED
      BY <3>1, <3>2
  <2>3. ASSUME NEW k \in 1..(Top(p) - 1)
        PROVE  /\ HasEvent(q.levels, k)
               /\ q.levels[k].param # "none" =>
                      q.levels[k + 1].scope = "nest" /\ Stepping(q.levels[k])
    <3>1. k \in 1..Top(p) /\ k + 1 \in 1..Top(p) /\ q.levels[k] = p.levels[k]
      BY <1>2 DEF Beside
    <3>2. /\ HasEvent(p.levels, k)
          /\ p.levels[k].param # "none" =>
                 p.levels[k + 1].scope = "nest" /\ Stepping(p.levels[k])
      BY DEF Sound, LevelsRefer
    <3> QED
      BY <1>2, <3>1, <3>2 DEF HasEvent
  <2>4. UsesNested(q)
    <3>1. \A k \in 1..Top(p) : q.levels[k].use = p.levels[k].use
      BY <1>3, <1>4 DEF Beside, SameLevel
    <3>2. UsesNested(p)
      BY DEF Sound, LevelsRefer
    <3> QED
      BY <1>2, <3>1, <3>2, UsesKept
  <2> QED
    BY <1>2, <2>1, <2>2, <2>3, <2>4 DEF LevelsRefer
<1>9. Nested(q, more)
  <2>1. q.nested = Place(q.levels, Top(q)) + more
    BY <1>2 DEF Sound, Nested, Beside
  <2>2. ASSUME NEW k \in 1..Top(p), q.levels[k].scope = "nest"
        PROVE  q.slots[Place(q.levels, k)].options = q.levels[k].outer_options
    <3>1. /\ p.levels[k].scope = "nest"
          /\ p.slots[Place(p.levels, k)].options = p.levels[k].outer_options
      BY <1>2, <2>2 DEF Sound, Nested
    <3>2. q.levels[k].outer_options = p.levels[k].outer_options
      BY <1>3, <1>4 DEF Beside, SameLevel
    <3>3. Place(p.levels, k) \in 1..MaxLevels
      BY <1>1, <3>1, NestPlace
    <3> QED
      BY <1>2, <3>1, <3>2, <3>3 DEF Beside, SameSlot
  <2> QED
    BY <1>2, <2>1, <2>2 DEF Nested
<1>10. SlotsRefer(q)
  BY DEF Sound, SlotsRefer, Beside, SameSlot, IsNode
<1>11. SlotsUsed(q, q.nested - more)
  <2>1. p.nested - more \in 0..MaxLevels
    BY <1>1, <1>2, ListsFinite, ParserAssumption DEF Sound, Nested, Typed
  <2> QED
    BY <2>1, ParserAssumption DEF Sound, SlotsUsed, Beside, SameSlot
<1>12. Scaled(q)
  <2>1. ASSUME NEW k \in 1..Top(p)
        PROVE  /\ q.levels[k].op = p.levels[k].op
               /\ q.levels[k].own_op = p.levels[k].own_op
               /\ q.levels[k].used_ampmult = p.levels[k].used_ampmult
    BY <1>3, <1>4 DEF Beside, SameLevel
  <2>2. q.nodes = p.nodes
    BY DEF Beside
  <2> QED
    BY <1>2, <2>1, <2>2 DEF Sound, Scaled, Owns
<1>13. Ends(q)
  BY DEF Sound, Ends, Beside, SameSlot, IsEnd
<1>14. ModsEnd(q)
  <2>1. ASSUME NEW k \in 1..Top(p)
        PROVE  /\ q.levels[k].op = p.levels[k].op
               /\ Stepping(q.levels[k]) => Stepping(p.levels[k])
    BY <1>3, <1>4 DEF Beside, SameLevel
  <2>2. q.nodes = p.nodes
    BY DEF Beside
  <2>3. ASSUME NEW s \in 1..MaxLevels PROVE q.slots[s].last_mods = p.slots[s].last_mods
    BY DEF Beside, SameSlot
  <2> QED
    BY <1>2, <2>1, <2>2, <2>3 DEF Sound, ModsEnd
<1>15. Once(q, new)
  <2>1. q.nodes = p.nodes
    BY DEF Beside
  <2>2. ASSUME NEW n \in DOMAIN p.nodes PROVE From(q, n) = From(p, n)
    <3>1. n # None
      BY <1>1 DEF Typed, None
    <3>2. {x \in DOMAIN q.evs : q.evs[x].main_obj = n}
          = {x \in DOMAIN p.evs : p.evs[x].main_obj = n}
      BY <1>5, <3>1 DEF MoreEvents
    <3> QED
      BY <2>1, <3>2 DEF From
  <2> QED
    BY <2>1, <2>2 DEF Sound, Once
<1> QED
  BY <1>6, <1>7, <1>8, <1>9, <1>10, <1>11, <1>12, <1>13, <1>14, <1>15 DEF Sound

-----------------------------------------------------------------------------
(* end_operator() *)

SameNode(a, b) ==
    /\ a.kind = b.kind /\ a.obj = b.obj /\ a.prev = b.prev /\ a.next = b.next
    /\ a.event = b.event /\ a.mods = b.mods /\ a.first = b.first /\ a.mult = b.mult

Ended(p, q) ==
    /\ q.levels \in Seq(Level) /\ Top(q) = Top(p)
    /\ \A k \in 1..(Top(p) - 1) : q.levels[k] = p.levels[k]
    /\ Pl(q) = IF Pl(p).own_op THEN [Pl(p) EXCEPT !.own_op = FALSE, !.op = None]
               ELSE Pl(p)
    /\ q.slots = p.slots /\ q.nested = p.nested /\ q.objs = p.objs /\ q.evs = p.evs
    /\ q.labels = p.labels /\ q.options = p.options
    /\ q.nodes \in Seq(Node) /\ DOMAIN q.nodes = DOMAIN p.nodes
    /\ \A n \in DOMAIN p.nodes : SameNode(q.nodes[n], p.nodes[n])

LEMMA TopLevelOf ==
    ASSUME NEW p, Typed(p)
    PROVE  /\ Top(p) \in Nat \ {0} /\ Top(p) <= MaxLevels /\ p.levels \in Seq(Level)
           /\ Pl(p) \in Level /\ Pl(p) = p.levels[Top(p)] /\ Top(p) = Len(p.levels)
           /\ \A k \in 1..Top(p) : p.levels[k] \in Level
BY ParserAssumption DEF Typed, Top, Pl

LEMMA EndOperatorEnds ==
    ASSUME NEW p, NEW more, NEW e, NEW new, Sound(p, more, e, new),
           NEW q, q = EndOperator(p)
    PROVE  /\ Shape(q) /\ Ended(p, q)
           /\ \A n \in DOMAIN p.nodes : ~Pl(p).own_op \/ n # Pl(p).op => q.nodes[n] = p.nodes[n]
           /\ Pl(p).own_op => /\ Pl(p).op \in DOMAIN p.nodes
                              /\ q.nodes[Pl(p).op].amp
                                 = p.nodes[Pl(p).op].amp * Pl(p).used_ampmult
<1>1. /\ Shape(p) /\ Typed(p) /\ p.nodes \in Seq(Node)
      /\ LevelRefers(p, p.levels[Top(p)])
      /\ p.levels[Top(p)].own_op =>
             /\ p.nodes[p.levels[Top(p)].op].amp = 1
             /\ p.nodes[p.levels[Top(p)].op].mult = p.levels[Top(p)].used_ampmult
  BY ParserAssumption DEF Sound, Typed, LevelsRefer, Scaled
<1>2. /\ Top(p) \in Nat \ {0} /\ p.levels \in Seq(Level) /\ Pl(p) \in Level
      /\ Pl(p) = p.levels[Top(p)] /\ Top(p) = Len(p.levels)
  BY <1>1, TopLevelOf
<1>3. CASE ~Pl(p).own_op
  <2>1. q = p
    BY <1>3 DEF EndOperator
  <2>2. \A n \in DOMAIN p.nodes : SameNode(q.nodes[n], p.nodes[n])
    BY <2>1 DEF SameNode
  <2> QED
    BY <1>1, <1>2, <1>3, <2>1, <2>2 DEF Ended
<1>4. CASE Pl(p).own_op
  <2>1. PICK l, n : l = Pl(p) /\ n = Pl(p).op
    OBVIOUS
  <2>2. n \in DOMAIN p.nodes /\ p.nodes[n] \in Node /\ l \in Level
    BY <1>1, <1>2, <1>4, <2>1 DEF LevelRefers, IsOp
  <2>3. PICK m : m = [l EXCEPT !.own_op = FALSE, !.op = None]
    OBVIOUS
  <2>4. m \in Level
    BY <2>2, <2>3 DEF Level, None
  <2>5. PICK a : a = p.nodes[n].amp * l.used_ampmult
    OBVIOUS
  <2>6. a \in Nat
    <3>1. p.nodes[n].amp = 1 /\ l.used_ampmult \in Nat
      BY <1>1, <1>2, <1>4, <2>1, <2>2 DEF Level
    <3> QED
      BY <2>5, <3>1
  <2>7. PICK nn : nn = [p.nodes EXCEPT ![n].amp = a]
    OBVIOUS
  <2>8. /\ nn \in Seq(Node) /\ DOMAIN nn = DOMAIN p.nodes /\ nn[n].amp = a
        /\ \A x \in DOMAIN p.nodes : SameNode(nn[x], p.nodes[x])
        /\ \A x \in DOMAIN p.nodes : x # n => nn[x] = p.nodes[x]
    <3>1. PICK v : v = [p.nodes[n] EXCEPT !.amp = a]
      OBVIOUS
    <3>2. v \in Node /\ SameNode(v, p.nodes[n]) /\ v.amp = a
      BY <2>2, <2>6, <3>1 DEF SameNode, Node
    <3>3. nn = [p.nodes EXCEPT ![n] = v]
      BY <2>7, <3>1
    <3>4. \A x \in DOMAIN p.nodes : SameNode(p.nodes[x], p.nodes[x])
      BY DEF SameNode
    <3>5. /\ nn \in Seq(Node) /\ DOMAIN nn = DOMAIN p.nodes /\ nn[n] = v
          /\ \A x \in DOMAIN p.nodes : x # n => nn[x] = p.nodes[x]
      BY <1>1, <2>2, <3>2, <3>3, PutIs DEF Put
    <3> QED
      BY <3>2, <3>4, <3>5
  <2>9. PICK r : r = SetPl(p, m)
    OBVIOUS
  <2>10. Is(r, [p.levels EXCEPT ![Top(p)] = m], p.slots, p.nested,
            p.nodes, p.objs, p.evs, p.labels, p.options)
    BY <1>1, <2>9, SetPlIs
  <2>11. q = [r EXCEPT !.nodes[n].amp = @ * l.used_ampmult]
    BY <1>4, <2>1, <2>3, <2>9 DEF EndOperator
  <2>12. q = [r EXCEPT !.nodes = nn]
    BY <2>5, <2>7, <2>10, <2>11 DEF Is
  <2>13. /\ Shape(q) /\ q.nodes = nn /\ q.levels = [p.levels EXCEPT ![Top(p)] = m]
         /\ q.slots = p.slots /\ q.nested = p.nested /\ q.objs = p.objs
         /\ q.evs = p.evs /\ q.labels = p.labels /\ q.options = p.options
    BY <2>10, <2>12 DEF Is, Shape
  <2>14. /\ q.levels \in Seq(Level) /\ Top(q) = Top(p) /\ Pl(q) = m
         /\ \A k \in 1..(Top(p) - 1) : q.levels[k] = p.levels[k]
    BY <1>2, <2>4, <2>13 DEF Top, Pl
  <2> QED
    BY <1>4, <2>1, <2>2, <2>3, <2>5, <2>8, <2>13, <2>14 DEF Ended
<1> QED
  BY <1>3, <1>4

(* What Ended says of levels, without EXCEPT. *)
LEMMA LevelsEnded ==
    ASSUME NEW p, NEW q, Typed(p), Ended(p, q)
    PROVE  /\ Top(q) = Top(p) /\ Typed(q)
           /\ \A k \in 1..Top(p) :
                 LET m == q.levels[k]
                     l == p.levels[k]
                 IN  /\ m.scope = l.scope /\ m.use = l.use /\ m.event = l.event
                     /\ m.own_ev = l.own_ev /\ m.wait = l.wait /\ m.param = l.param
                     /\ m.sub = l.sub /\ m.used_ampmult = l.used_ampmult
                     /\ m.outer_options = l.outer_options
                     /\ Place(q.levels, k) = Place(p.levels, k)
                     /\ IF k = Top(p) /\ l.own_op THEN ~m.own_op /\ m.op = None
                        ELSE m.own_op = l.own_op /\ m.op = l.op
<1>1. /\ Top(p) \in Nat \ {0} /\ Top(p) <= MaxLevels
      /\ Pl(p) \in Level /\ Pl(p) = p.levels[Top(p)]
  BY TopLevelOf
<1>2. Top(q) = Top(p) /\ Pl(q) = q.levels[Top(p)]
  BY DEF Ended, Top, Pl
<1>3. ASSUME NEW k \in 1..Top(p)
      PROVE  LET m == q.levels[k]
                 l == p.levels[k]
             IN  /\ m.scope = l.scope /\ m.use = l.use /\ m.event = l.event
                 /\ m.own_ev = l.own_ev /\ m.wait = l.wait /\ m.param = l.param
                 /\ m.sub = l.sub /\ m.used_ampmult = l.used_ampmult
                 /\ m.outer_options = l.outer_options
                 /\ IF k = Top(p) /\ l.own_op THEN ~m.own_op /\ m.op = None
                    ELSE m.own_op = l.own_op /\ m.op = l.op
  <2>1. CASE k = Top(p)
    <3>1. PICK l, m : l = Pl(p) /\ m = Pl(q)
      OBVIOUS
    <3>2. m = IF l.own_op THEN [l EXCEPT !.own_op = FALSE, !.op = None] ELSE l
      BY <3>1 DEF Ended
    <3>3. /\ m.scope = l.scope /\ m.use = l.use /\ m.event = l.event
          /\ m.own_ev = l.own_ev /\ m.wait = l.wait /\ m.param = l.param
          /\ m.sub = l.sub /\ m.used_ampmult = l.used_ampmult
          /\ m.outer_options = l.outer_options
      BY <1>1, <3>1, <3>2 DEF Level
    <3>4. IF l.own_op THEN ~m.own_op /\ m.op = None
          ELSE m.own_op = l.own_op /\ m.op = l.op
      BY <1>1, <3>1, <3>2 DEF Level
    <3> QED
      BY <1>1, <1>2, <2>1, <3>1, <3>3, <3>4
  <2>2. CASE k # Top(p)
    BY <1>1, <2>2 DEF Ended
  <2> QED
    BY <2>1, <2>2
<1>4. ASSUME NEW k \in 1..Top(p) PROVE Place(q.levels, k) = Place(p.levels, k)
  BY <1>1, <1>3, PlaceSame
<1>5. Typed(q)
  BY <1>2 DEF Typed, Ended
<1> QED
  BY <1>2, <1>3, <1>4, <1>5

LEMMA EndOperatorSound ==
    ASSUME NEW p, NEW more \in {0, 1}, NEW e, NEW new, Sound(p, more, e, new),
           Pl(p).param = "none", NEW q, q = EndOperator(p)
    PROVE  Sound(q, more, e, new)
<1>1. Typed(p)
  BY DEF Sound
<1>2. /\ Shape(q) /\ Ended(p, q)
      /\ \A n \in DOMAIN p.nodes : ~Pl(p).own_op \/ n # Pl(p).op => q.nodes[n] = p.nodes[n]
      /\ Pl(p).own_op => /\ Pl(p).op \in DOMAIN p.nodes
                         /\ q.nodes[Pl(p).op].amp
                            = p.nodes[Pl(p).op].amp * Pl(p).used_ampmult
  BY EndOperatorEnds
<1>3. /\ Top(p) \in Nat \ {0} /\ Top(p) <= MaxLevels
      /\ Pl(p) \in Level /\ Pl(p) = p.levels[Top(p)] /\ Top(q) = Top(p)
      /\ Pl(q) = q.levels[Top(p)]
  BY <1>1, <1>2, TopLevelOf DEF Ended, Top, Pl
<1>4. ASSUME NEW k \in 1..Top(p)
      PROVE  LET m == q.levels[k]
                 l == p.levels[k]
             IN  /\ m.scope = l.scope /\ m.use = l.use /\ m.event = l.event
                 /\ m.own_ev = l.own_ev /\ m.wait = l.wait /\ m.param = l.param
                 /\ m.sub = l.sub /\ m.used_ampmult = l.used_ampmult
                 /\ m.outer_options = l.outer_options
                 /\ Place(q.levels, k) = Place(p.levels, k)
                 /\ IF k = Top(p) /\ l.own_op THEN ~m.own_op /\ m.op = None
                    ELSE m.own_op = l.own_op /\ m.op = l.op
  BY <1>1, <1>2, LevelsEnded
<1>5. /\ q.slots = p.slots /\ q.nested = p.nested /\ q.objs = p.objs /\ q.evs = p.evs
      /\ q.labels = p.labels /\ q.options = p.options /\ DOMAIN q.nodes = DOMAIN p.nodes
      /\ \A n \in DOMAIN p.nodes : SameNode(q.nodes[n], p.nodes[n])
  BY <1>2 DEF Ended
<1>6. Typed(q)
  BY <1>1, <1>2, <1>3 DEF Typed, Ended
<1>7. NodesRefer(q) /\ EventsRefer(q, e) /\ LabelsRefer(q)
  BY <1>5 DEF Sound, NodesRefer, EventsRefer, LabelsRefer, IsNode, SameNode
<1>8. LevelsRefer(q)
  <2>1. q.levels[1].scope = "group"
    BY <1>3, <1>4 DEF Sound, LevelsRefer
  <2>2. ASSUME NEW k \in 1..Top(p) PROVE LevelRefers(q, q.levels[k])
    <3>1. LevelRefers(p, p.levels[k])
      BY DEF Sound, LevelsRefer
    <3> QED
      BY <1>4, <1>5, <3>1 DEF LevelRefers, IsOp, SameNode
  <2>3. ASSUME NEW k \in 1..(Top(p) - 1)
        PROVE  /\ HasEvent(q.levels, k)
               /\ q.levels[k].param # "none" =>
                      q.levels[k + 1].scope = "nest" /\ Stepping(q.levels[k])
    <3>1. k \in 1..Top(p) /\ k + 1 \in 1..Top(p) /\ k # Top(p)
      BY <1>3
    <3>2. /\ HasEvent(p.levels, k)
          /\ p.levels[k].param # "none" =>
                 p.levels[k + 1].scope = "nest" /\ Stepping(p.levels[k])
      BY DEF Sound, LevelsRefer
    <3> QED
      BY <1>4, <3>1, <3>2 DEF HasEvent, Stepping
  <2>4. UsesNested(q)
    BY <1>3, <1>4, UsesKept DEF Sound, LevelsRefer
  <2> QED
    BY <1>3, <2>1, <2>2, <2>3, <2>4 DEF LevelsRefer
<1>9. Nested(q, more)
  BY <1>3, <1>4, <1>5 DEF Sound, Nested
<1>10. SlotsRefer(q) /\ SlotsUsed(q, q.nested - more)
  BY <1>5 DEF Sound, SlotsRefer, SlotsUsed, IsNode, SameNode
<1>11. Scaled(q)
  <2>1. ASSUME NEW k \in 1..Top(p), q.levels[k].own_op
        PROVE  /\ p.levels[k].own_op /\ p.levels[k].op = q.levels[k].op
               /\ p.levels[k].op \in DOMAIN p.nodes
               /\ ~Pl(p).own_op \/ p.levels[k].op # Pl(p).op
    <3>1. p.levels[k].own_op /\ p.levels[k].op = q.levels[k].op
      BY <1>4, <2>1
    <3>2. LevelRefers(p, p.levels[k])
      BY DEF Sound, LevelsRefer
    <3>3. k = Top(p) => ~Pl(p).own_op
      BY <1>3, <1>4, <2>1
    <3>4. k # Top(p) /\ Pl(p).own_op => p.levels[k].op # Pl(p).op
      BY <1>3, <3>1 DEF Sound, Scaled
    <3> QED
      BY <3>1, <3>2, <3>3, <3>4 DEF LevelRefers, IsOp
  <2>2. ASSUME NEW k \in 1..Top(p), q.levels[k].own_op
        PROVE  /\ q.nodes[q.levels[k].op].amp = 1
               /\ q.nodes[q.levels[k].op].mult = q.levels[k].used_ampmult
    <3>1. q.nodes[q.levels[k].op] = p.nodes[p.levels[k].op]
      BY <1>2, <2>1, <2>2
    <3> QED
      BY <1>4, <2>1, <2>2, <3>1 DEF Sound, Scaled
  <2>3. ASSUME NEW j \in 1..Top(p), NEW k \in 1..Top(p),
               q.levels[j].own_op, q.levels[k].own_op, q.levels[j].op = q.levels[k].op
        PROVE  j = k
    BY <2>1, <2>3 DEF Sound, Scaled
  <2>4. ASSUME NEW n \in DOMAIN p.nodes, p.nodes[n].kind = "op",
               \A k \in 1..Top(p) : ~Owns(q, k, n)
        PROVE  q.nodes[n].amp = q.nodes[n].mult
    <3>1. CASE Pl(p).own_op /\ n = Pl(p).op
      <4>1. q.nodes[n].amp = p.nodes[n].amp * Pl(p).used_ampmult
        BY <1>2, <3>1
      <4>2. p.nodes[n].amp = 1 /\ p.nodes[n].mult = Pl(p).used_ampmult
        BY <1>3, <3>1 DEF Sound, Scaled
      <4>3. Pl(p).used_ampmult \in Nat /\ q.nodes[n].mult = p.nodes[n].mult
        BY <1>3, <1>5 DEF Level, SameNode
      <4> QED
        BY <4>1, <4>2, <4>3
    <3>2. CASE ~Pl(p).own_op \/ n # Pl(p).op
      <4>1. q.nodes[n] = p.nodes[n]
        BY <1>2, <3>2
      <4>2. \A k \in 1..Top(p) : ~Owns(p, k, n)
        BY <1>3, <1>4, <2>4, <3>2 DEF Owns
      <4> QED
        BY <2>4, <4>1, <4>2 DEF Sound, Scaled
    <3> QED
      BY <3>1, <3>2
  <2> QED
    BY <1>3, <1>5, <2>2, <2>3, <2>4 DEF Scaled, SameNode
<1>12. Ends(q)
  BY <1>5 DEF Sound, Ends, IsEnd, SameNode
<1>13. ModsEnd(q)
  <2>1. ASSUME NEW k \in 1..Top(p), Stepping(q.levels[k])
        PROVE  /\ Stepping(p.levels[k]) /\ q.levels[k].op = p.levels[k].op
               /\ q.nodes[q.levels[k].op].mods = p.nodes[p.levels[k].op].mods
    <3>1. Stepping(p.levels[k]) /\ q.levels[k].op = p.levels[k].op
      BY <1>4, <2>1 DEF Stepping
    <3>2. LevelRefers(p, p.levels[k])
      BY DEF Sound, LevelsRefer
    <3> QED
      BY <1>5, <3>1, <3>2 DEF LevelRefers, IsOp, Stepping, SameNode
  <2> QED
    BY <1>3, <1>4, <1>5, <2>1 DEF Sound, ModsEnd
<1>14. Once(q, new)
  <2>1. ASSUME NEW n \in DOMAIN p.nodes PROVE From(q, n) = From(p, n)
    BY <1>5 DEF From, SameNode
  <2> QED
    BY <1>5, <2>1 DEF Sound, Once
<1> QED
  BY <1>2, <1>6, <1>7, <1>8, <1>9, <1>10, <1>11, <1>12, <1>13, <1>14 DEF Sound

-----------------------------------------------------------------------------
(* A level on its own, and end_event(). *)

LEMMA SetPlSound ==
    ASSUME NEW p, NEW more \in {0, 1}, NEW e, NEW new, Sound(p, more, e, new),
           NEW l \in Level, SameLevel(l, Pl(p)), Stepping(l) => Stepping(Pl(p)),
           LevelRefers(p, l), l.param # "none" => more = 1 /\ Stepping(l),
           NEW q, q = SetPl(p, l)
    PROVE  /\ Sound(q, more, e, new) /\ Top(q) = Top(p) /\ Pl(q) = l
           /\ \A k \in 1..(Top(p) - 1) : q.levels[k] = p.levels[k]
           /\ Is(q, q.levels, p.slots, p.nested, p.nodes, p.objs, p.evs, p.labels, p.options)
<1>1. Shape(p) /\ Typed(p)
  BY DEF Sound
<1>2. /\ Top(p) \in Nat \ {0} /\ p.levels \in Seq(Level)
      /\ Pl(p) = p.levels[Top(p)] /\ Top(p) = Len(p.levels)
  BY <1>1, TopLevelOf
<1>3. Is(q, [p.levels EXCEPT ![Top(p)] = l], p.slots, p.nested,
            p.nodes, p.objs, p.evs, p.labels, p.options)
  BY <1>1, SetPlIs
<1>4. PICK ls : ls = [p.levels EXCEPT ![Top(p)] = l]
  OBVIOUS
<1>5. /\ ls \in Seq(Level) /\ Len(ls) = Top(p) /\ ls[Top(p)] = l
      /\ \A k \in 1..(Top(p) - 1) : ls[k] = p.levels[k]
  <2>1. /\ ls \in Seq(Level) /\ Len(ls) = Len(p.levels)
        /\ Top(p) \in DOMAIN p.levels => ls[Top(p)] = l
        /\ \A k \in DOMAIN p.levels : k # Top(p) => ls[k] = p.levels[k]
    BY <1>2, <1>4, PutIs DEF Put
  <2> QED
    BY <1>2, <2>1
<1>6. q.levels = ls /\ Top(q) = Top(p) /\ Pl(q) = l
  BY <1>3, <1>4, <1>5 DEF Is, Top, Pl
<1>7. Is(q, q.levels, p.slots, p.nested, p.nodes, p.objs, p.evs, p.labels, p.options)
  BY <1>3 DEF Is
<1>8. Beside(p, q)
  BY <1>1, <1>5, <1>6, <1>7 DEF Beside, Is, SameSlot, Typed
<1>9. /\ MoreEvents(p, q) /\ EventsRefer(q, e) /\ LabelsRefer(q) /\ LevelRefers(q, Pl(q))
      /\ Shape(q)
  BY <1>1, <1>6, <1>7 DEF MoreEvents, Is, Sound, EventsRefer, LabelsRefer, LevelRefers,
                           IsOp, IsNode, Typed, IsSeq
<1>10. Sound(q, more, e, new)
  BY <1>6, <1>8, <1>9, SoundBeside
<1> QED
  BY <1>5, <1>6, <1>7, <1>10

(* What the ends of operators and events, and new events, leave alone. *)
Kept(p, q) ==
    /\ Top(q) = Top(p) /\ \A k \in 1..(Top(p) - 1) : q.levels[k] = p.levels[k]
    /\ Pl(q).scope = Pl(p).scope /\ Pl(q).use = Pl(p).use /\ Pl(q).param = Pl(p).param
    /\ Pl(q).outer_options = Pl(p).outer_options /\ Pl(q).sub = Pl(p).sub
    /\ Pl(q).set_label = Pl(p).set_label
    /\ q.slots = p.slots /\ q.nested = p.nested /\ q.objs = p.objs
    /\ q.labels = p.labels /\ q.options = p.options
    /\ DOMAIN q.nodes = DOMAIN p.nodes
    /\ \A n \in DOMAIN p.nodes : SameNode(q.nodes[n], p.nodes[n])

LEMMA KeptTwice ==
    ASSUME NEW p, NEW q, NEW r, Kept(p, q), Kept(q, r)
    PROVE  Kept(p, r)
BY DEF Kept, SameNode

LEMMA EndEventSound ==
    ASSUME NEW p, NEW e, NEW new, Sound(p, 0, e, new), NEW q, q = EndEvent(p)
    PROVE  /\ Sound(q, 0, e, new) /\ Kept(p, q) /\ q.evs = p.evs
           /\ ~Pl(q).own_ev /\ (Pl(q).own_op => Pl(p).own_op)
           /\ Pl(q).wait = Pl(p).wait /\ Pl(q).carry = Pl(p).carry
<1>1. Shape(p) /\ Typed(p) /\ Pl(p).param = "none"
  BY DEF Sound, Nested
<1>2. /\ Top(p) \in Nat \ {0} /\ Pl(p) \in Level /\ Pl(p) = p.levels[Top(p)]
      /\ LevelRefers(p, Pl(p))
  BY <1>1, TopLevelOf DEF Sound, LevelsRefer
<1>3. CASE ~Pl(p).own_ev
  <2>1. q = p
    BY <1>3 DEF EndEvent
  <2> QED
    BY <1>3, <2>1 DEF Kept, SameNode
<1>4. CASE Pl(p).own_ev
  <2>1. PICK l, m : l = Pl(p) /\ m = [l EXCEPT !.own_ev = FALSE]
    OBVIOUS
  <2>2. PICK p1, p2 : p1 = SetPl(p, m) /\ p2 = EndOperator(p1)
    OBVIOUS
  <2>3. PICK m2 : m2 = [Pl(p2) EXCEPT !.event = None]
    OBVIOUS
  <2>4. q = SetPl(p2, m2)
    BY <1>4, <2>1, <2>2, <2>3 DEF EndEvent
  <2>5. /\ m \in Level /\ SameLevel(m, Pl(p)) /\ m.event = l.event /\ m.sub = l.sub
        /\ ~m.own_ev /\ m.use = l.use /\ m.param = "none" /\ m.set_label = l.set_label
        /\ m.wait = l.wait /\ m.carry = l.carry
    BY <1>1, <1>2, <2>1 DEF Level, SameLevel
  <2>6. LevelRefers(p, m) /\ (Stepping(m) => Stepping(Pl(p)))
    BY <1>2, <2>1, <2>5 DEF LevelRefers, SameLevel, Stepping
  <2>7. /\ Sound(p1, 0, e, new) /\ Top(p1) = Top(p) /\ Pl(p1) = m
        /\ \A k \in 1..(Top(p) - 1) : p1.levels[k] = p.levels[k]
        /\ Is(p1, p1.levels, p.slots, p.nested, p.nodes, p.objs, p.evs, p.labels, p.options)
    BY <2>2, <2>5, <2>6, SetPlSound
  <2>8. Kept(p, p1)
    BY <2>1, <2>5, <2>7 DEF Kept, Is, SameNode, SameLevel
  <2>9. Sound(p2, 0, e, new) /\ Ended(p1, p2)
    BY <2>2, <2>5, <2>7, EndOperatorSound, EndOperatorEnds
  <2>10. Typed(p1) /\ Typed(p2)
    BY <2>7, <2>9 DEF Sound
  <2>11. PICK l2 : l2 = Pl(p2)
    OBVIOUS
  <2>12. /\ l2 \in Level /\ LevelRefers(p2, l2) /\ Top(p2) = Top(p)
         /\ l2.param = "none" /\ ~l2.own_ev
         /\ l2.scope = m.scope /\ l2.use = m.use /\ l2.sub = m.sub
         /\ l2.outer_options = m.outer_options /\ l2.set_label = m.set_label
         /\ l2.wait = m.wait /\ l2.carry = m.carry /\ (l2.own_op => m.own_op)
    <3>1. l2 = IF m.own_op THEN [m EXCEPT !.own_op = FALSE, !.op = None] ELSE m
      BY <2>7, <2>9, <2>11 DEF Ended
    <3>2. l2 \in Level /\ l2 = p2.levels[Top(p2)] /\ Top(p2) = Top(p) /\ Top(p) \in Nat \ {0}
      BY <2>7, <2>9, <2>10, <2>11, TopLevelOf DEF Ended
    <3>3. LevelRefers(p2, l2)
      BY <2>9, <3>2 DEF Sound, LevelsRefer
    <3> QED
      BY <2>5, <3>1, <3>2, <3>3 DEF Level
  <2>13. Kept(p1, p2)
    BY <2>7, <2>9, <2>11, <2>12 DEF Kept, Ended, SameNode
  <2>14. /\ m2 \in Level /\ SameLevel(m2, l2) /\ m2.event = None /\ m2.sub = l2.sub
         /\ ~m2.own_ev /\ m2.use = l2.use /\ m2.param = "none"
         /\ m2.set_label = l2.set_label /\ m2.wait = l2.wait /\ m2.carry = l2.carry
    BY <2>3, <2>11, <2>12 DEF Level, SameLevel, None
  <2>15. LevelRefers(p2, m2) /\ (Stepping(m2) => Stepping(l2))
    BY <2>12, <2>14 DEF LevelRefers, SameLevel, Stepping
  <2>16. /\ Sound(q, 0, e, new) /\ Top(q) = Top(p2) /\ Pl(q) = m2
         /\ \A k \in 1..(Top(p2) - 1) : q.levels[k] = p2.levels[k]
         /\ Is(q, q.levels, p2.slots, p2.nested, p2.nodes, p2.objs, p2.evs, p2.labels, p2.options)
    BY <2>4, <2>9, <2>11, <2>14, <2>15, SetPlSound
  <2>17. Kept(p2, q)
    BY <2>11, <2>12, <2>14, <2>16 DEF Kept, Is, SameNode, SameLevel
  <2>18. Kept(p, q)
    BY <2>8, <2>13, <2>17, KeptTwice
  <2>19. q.evs = p.evs
    BY <2>7, <2>9, <2>16 DEF Is, Ended
  <2> QED
    BY <2>1, <2>5, <2>12, <2>14, <2>16, <2>18, <2>19 DEF SameLevel
<1> QED
  BY <1>3, <1>4

-----------------------------------------------------------------------------
(* New events. *)

SameEvents(s, t) ==
    /\ IsSeq(t) /\ Len(t) = Len(s)
    /\ \A x \in 1..Len(s) : "main_obj" \in DOMAIN t[x] /\ t[x].main_obj = s[x].main_obj

Replaced(s, t, i, v) ==
    /\ IsSeq(t) /\ Len(t) = Len(s) /\ DOMAIN t = DOMAIN s /\ DOMAIN s = 1..Len(s)
    /\ \A j \in DOMAIN s : t[j] = IF j = i THEN v ELSE s[j]

LEMMA PutInSeq ==
    ASSUME NEW s, IsSeq(s), NEW i, NEW v, NEW t, t = [s EXCEPT ![i] = v]
    PROVE  Replaced(s, t, i, v)
<1>1. PICK S : S = {s[x] : x \in 1..Len(s)} \union {v}
  OBVIOUS
<1>2. s \in Seq(S) /\ v \in S /\ DOMAIN s = 1..Len(s)
  BY <1>1 DEF IsSeq
<1>3. DOMAIN t = DOMAIN s /\ \A j \in DOMAIN s : t[j] = IF j = i THEN v ELSE s[j]
  OBVIOUS
<1>4. Len(s) \in Nat
  BY <1>2
<1>5. t \in [1..Len(s) -> S]
  <2>1. t = [j \in 1..Len(s) |-> t[j]]
    BY <1>2, <1>3
  <2>2. \A j \in 1..Len(s) : t[j] \in S
    BY <1>2, <1>3
  <2> QED
    BY <2>1, <2>2
<1>6. t \in Seq(S) /\ Len(t) = Len(s)
  BY <1>2, <1>3, <1>4, <1>5, SeqDef
<1>7. IsSeq(t)
  BY <1>2, <1>3, <1>4, <1>6 DEF IsSeq
<1> QED
  BY <1>2, <1>3, <1>6, <1>7 DEF Replaced

LEMMA PutEvent ==
    ASSUME NEW s, IsSeq(s), \A x \in 1..Len(s) : "main_obj" \in DOMAIN s[x],
           NEW i, NEW v, "main_obj" \in DOMAIN s[i] =>
                             "main_obj" \in DOMAIN v /\ v.main_obj = s[i].main_obj,
           NEW t, t = [s EXCEPT ![i] = v]
    PROVE  SameEvents(s, t)
<1>1. Replaced(s, t, i, v)
  BY PutInSeq
<1>2. /\ IsSeq(t) /\ Len(t) = Len(s) /\ DOMAIN s = 1..Len(s)
      /\ \A j \in DOMAIN s : t[j] = IF j = i THEN v ELSE s[j]
  BY <1>1 DEF Replaced
<1>3. ASSUME NEW x \in 1..Len(s)
      PROVE  "main_obj" \in DOMAIN t[x] /\ t[x].main_obj = s[x].main_obj
  <2>1. CASE x = i
    BY <1>2, <2>1
  <2>2. CASE x # i
    BY <1>2, <2>2
  <2> QED
    BY <2>1, <2>2
<1> QED
  BY <1>2, <1>3 DEF SameEvents

LEMMA NextEventSound ==
    ASSUME NEW q, NEW new, Sound(q, 0, None, new), NEW prev, IsNode(q, prev),
           NEW compstep \in BOOLEAN, compstep => prev # None,
           NEW r, r = NextEvent(q, prev, compstep)
    PROVE  /\ Sound(r, 0, Len(q.evs) + 1, new) /\ Kept(q, r) /\ MoreEvents(q, r)
           /\ Len(r.evs) = Len(q.evs) + 1
           /\ Pl(r).event = Len(q.evs) + 1 /\ ~Pl(r).wait
           /\ Pl(r).own_op = Pl(q).own_op
<1>1. Shape(q) /\ Typed(q) /\ Pl(q).param = "none"
  BY DEF Sound, Nested
<1>2. /\ Top(q) \in Nat \ {0} /\ Pl(q) \in Level /\ Pl(q) = q.levels[Top(q)]
      /\ LevelRefers(q, Pl(q)) /\ Top(q) = Len(q.levels) /\ q.levels \in Seq(Level)
  BY <1>1, TopLevelOf DEF Sound, LevelsRefer
<1>3. PICK l, e : l = Pl(q) /\ e = Len(q.evs) + 1
  OBVIOUS
<1>4. e \in Nat \ {0} /\ l \in Level /\ DOMAIN q.evs = 1..(e - 1) /\ Len(q.evs) = e - 1
  BY <1>1, <1>2, <1>3 DEF Typed, IsSeq
<1>5. PICK forks \in BOOLEAN : forks <=> Forks(l, compstep)
  BY Zenon
<1>6. PICK pve : pve = q.nodes[prev].event
  OBVIOUS
<1>7. PICK main : main = CASE ~compstep -> None
                           [] forks /\ l.main_ev = None -> pve
                           [] OTHER -> l.main_ev
  OBVIOUS
<1>8. main \in Nat
  <2>1. compstep => pve \in Nat
    <3>1. SUFFICES ASSUME compstep PROVE pve \in Nat
      OBVIOUS
    <3>2. prev \in DOMAIN q.nodes /\ q.nodes \in Seq(Node)
      BY <1>1, <3>1 DEF IsNode, Typed
    <3>3. q.nodes[prev] \in Node
      BY <3>2
    <3> QED
      BY <1>6, <3>3 DEF Node
  <2>2. l.main_ev \in Nat
    BY <1>4 DEF Level
  <2> QED
    BY <1>5, <1>7, <2>1, <2>2 DEF Forks, None
<1>9. PICK forked : forked = [q.evs EXCEPT ![main].forks = <<e>> \o @]
  OBVIOUS
<1>10. PICK linked : linked =
              CASE forks -> forked
                [] compstep /\ ~forks -> [q.evs EXCEPT ![pve].next = e]
                [] ~compstep /\ q.last_event # None ->
                       [q.evs EXCEPT ![q.last_event].next = e]
                [] OTHER -> q.evs
  OBVIOUS
<1>11. SameEvents(q.evs, linked)
  <2>1. IsSeq(q.evs) /\ \A x \in 1..Len(q.evs) : "main_obj" \in DOMAIN q.evs[x]
    BY <1>1 DEF Typed, IsSeq
  <2>2. CASE forks
    <3>1. PICK v : v = [q.evs[main] EXCEPT !.forks = <<e>> \o @]
      OBVIOUS
    <3>2. linked = [q.evs EXCEPT ![main] = v]
      <4>1. linked = forked
        BY <1>5, <1>10, <2>2 DEF Forks
      <4>2. forked = [q.evs EXCEPT ![main] = v]
        BY <1>9, <3>1
      <4> QED
        BY <4>1, <4>2
    <3>3. "main_obj" \in DOMAIN q.evs[main] =>
              "main_obj" \in DOMAIN v /\ v.main_obj = q.evs[main].main_obj
      BY <3>1
    <3> QED
      BY <2>1, <3>2, <3>3, PutEvent
  <2>3. CASE compstep /\ ~forks
    <3>1. PICK v : v = [q.evs[pve] EXCEPT !.next = e]
      OBVIOUS
    <3>2. linked = [q.evs EXCEPT ![pve] = v]
      BY <1>10, <2>3, <3>1
    <3>3. "main_obj" \in DOMAIN q.evs[pve] =>
              "main_obj" \in DOMAIN v /\ v.main_obj = q.evs[pve].main_obj
      BY <3>1
    <3> QED
      BY <2>1, <3>2, <3>3, PutEvent
  <2>4. CASE ~forks /\ ~compstep /\ q.last_event # None
    <3>1. PICK i, v : i = q.last_event /\ v = [q.evs[i] EXCEPT !.next = e]
      OBVIOUS
    <3>2. linked = [q.evs EXCEPT ![i] = v]
      BY <1>10, <2>4, <3>1
    <3>3. "main_obj" \in DOMAIN q.evs[i] =>
              "main_obj" \in DOMAIN v /\ v.main_obj = q.evs[i].main_obj
      BY <3>1
    <3> QED
      BY <2>1, <3>2, <3>3, PutEvent
  <2>5. CASE ~forks /\ ~compstep /\ q.last_event = None
    <3>1. linked = q.evs
      BY <1>10, <2>5
    <3> QED
      BY <2>1, <3>1 DEF SameEvents
  <2> QED
    BY <2>2, <2>3, <2>4, <2>5
<1>12. PICK v : v = [main_obj |-> None, next |-> None, forks |-> <<>>,
                     wait |-> l.wait \/ l.carry,
                     owed |-> q.owed /\ ~compstep,
                     converted |-> 0]
  OBVIOUS
<1>13. PICK es : es = Append(linked, v)
  OBVIOUS
<1>14. /\ IsSeq(es) /\ Len(es) = e /\ DOMAIN es = 1..e
       /\ \A x \in 1..(e - 1) : "main_obj" \in DOMAIN es[x] /\ es[x].main_obj = q.evs[x].main_obj
       /\ "main_obj" \in DOMAIN es[e] /\ es[e].main_obj = None
  <2>1. IsSeq(linked) /\ Len(linked) = e - 1
    BY <1>4, <1>11 DEF SameEvents
  <2>2. /\ IsSeq(es) /\ Len(es) = e /\ DOMAIN es = 1..e /\ es[e] = v
        /\ \A x \in 1..(e - 1) : es[x] = linked[x]
    BY <1>4, <1>13, <2>1, AppendIs
  <2>3. "main_obj" \in DOMAIN v /\ v.main_obj = None
    BY <1>12
  <2> QED
    BY <1>4, <1>11, <2>2, <2>3 DEF SameEvents
<1>15. PICK fork \in BOOLEAN : fork <=> l.fork /\ ~compstep
  BY Zenon
<1>16. PICK m : m = [l EXCEPT !.event = e, !.own_ev = TRUE, !.main_ev = main,
                              !.fork = @ /\ ~compstep,
                              !.wait = FALSE, !.carry = FALSE]
  OBVIOUS
<1>17. /\ m \in Level /\ SameLevel(m, l) /\ m.event = e /\ ~m.wait /\ m.sub = l.sub
       /\ m.use = l.use /\ m.param = l.param /\ m.set_label = l.set_label
  <2>1. PICK m1 : m1 = [l EXCEPT !.event = e, !.own_ev = TRUE, !.main_ev = main]
    OBVIOUS
  <2>2. /\ m1 \in Level /\ SameLevel(m1, l) /\ m1.event = e /\ m1.sub = l.sub
        /\ m1.use = l.use /\ m1.param = l.param /\ m1.set_label = l.set_label
        /\ m1.fork = l.fork
    BY <1>4, <1>8, <2>1 DEF Level, SameLevel
  <2>3. (l.fork /\ ~compstep) \in BOOLEAN
    BY Zenon
  <2>4. PICK b : b = (l.fork /\ ~compstep)
    OBVIOUS
  <2>5. m = [m1 EXCEPT !.fork = b, !.wait = FALSE, !.carry = FALSE]
    BY <1>16, <2>1, <2>4
  <2> QED
    BY <2>2, <2>3, <2>4, <2>5 DEF Level, SameLevel
<1>18. PICK q1 : q1 = [q EXCEPT !.evs = es,
                 !.last_event = IF compstep THEN @ ELSE e,
                 !.group_event = CASE @ # None -> @
                                   [] @ = None /\ main # None -> main
                                   [] OTHER -> e,
                 !.owed = @ /\ compstep]
  OBVIOUS
<1>19. Is(q1, q.levels, q.slots, q.nested, q.nodes, q.objs, es, q.labels, q.options)
  BY <1>1, <1>18, ZenonT(40) DEF Is, Shape
<1>20. r = SetPl(q1, m)
  BY <1>3, <1>5, <1>6, <1>7, <1>9, <1>10, <1>12, <1>13, <1>16, <1>18, ZenonT(40) DEF NextEvent
<1>21. Top(q1) = Top(q) /\ Pl(q1) = l
  BY <1>3, <1>19 DEF Is, Top, Pl
<1>22. Is(r, [q.levels EXCEPT ![Top(q)] = m], q.slots, q.nested,
             q.nodes, q.objs, es, q.labels, q.options)
  BY <1>19, <1>20, <1>21, SetPlIs DEF Is
<1>23. /\ r.levels \in Seq(Level) /\ Top(r) = Top(q) /\ Pl(r) = m
       /\ \A k \in 1..(Top(q) - 1) : r.levels[k] = q.levels[k]
  BY <1>2, <1>17, <1>22 DEF Is, Top, Pl
<1>24. Beside(q, r)
  BY <1>1, <1>3, <1>17, <1>22, <1>23 DEF Beside, Is, SameSlot, SameLevel, Typed, Stepping
<1>25. MoreEvents(q, r)
  BY <1>4, <1>14, <1>22 DEF MoreEvents, Is
<1>26. EventsRefer(r, e) /\ LabelsRefer(r) /\ Shape(r)
  <2>1. \A x \in 1..(e - 1) : q.evs[x].main_obj \in DOMAIN q.nodes
    BY <1>4 DEF Sound, EventsRefer, None
  <2>2. /\ Shape(r) /\ r.evs = es /\ r.nodes = q.nodes /\ r.labels = q.labels
    BY <1>22 DEF Is
  <2>3. EventsRefer(r, e)
    <3>1. ASSUME NEW x \in 1..e, x # e
          PROVE  es[x].main_obj \in DOMAIN q.nodes
      <4>1. x \in 1..(e - 1)
        BY <1>4, <3>1
      <4> QED
        BY <1>14, <2>1, <4>1
    <3>2. DOMAIN r.evs = 1..e /\ r.evs[e].main_obj = None
      BY <1>14, <2>2
    <3> QED
      BY <2>2, <3>1, <3>2 DEF EventsRefer
  <2>4. LabelsRefer(r)
    BY <1>4, <2>2 DEF Sound, LabelsRefer, IsNode
  <2> QED
    BY <2>2, <2>3, <2>4
<1>27. LevelRefers(r, m)
  <2>1. IsOp(q, m.op) /\ (m.own_op => m.op # None)
    BY <1>2, <1>3, <1>17 DEF LevelRefers, SameLevel
  <2>2. r.nodes = q.nodes /\ DOMAIN r.evs = 1..e
    BY <1>14, <1>22 DEF Is
  <2> QED
    BY <1>4, <1>17, <2>1, <2>2 DEF LevelRefers, IsOp, None
<1>28. Sound(r, 0, e, new)
  BY <1>1, <1>3, <1>17, <1>23, <1>24, <1>25, <1>26, <1>27, SoundBeside
<1>29. Kept(q, r)
  BY <1>3, <1>17, <1>22, <1>23 DEF Kept, Is, SameNode, SameLevel
<1> QED
  BY <1>3, <1>14, <1>17, <1>22, <1>23, <1>25, <1>28, <1>29 DEF SameLevel, Is

(* prepare_event(): if an object is put into the event, then the event is  *)
(* a new one, which has none yet.                                          *)
LEMMA PrepareEventSound ==
    ASSUME NEW p, Sound(p, 0, None, None), NEW prev, IsNode(p, prev),
           NEW compstep \in BOOLEAN, compstep => prev # None,
           prev = None => Settled(p), NEW q, q = PrepareEvent(p, prev, compstep)
    PROVE  /\ Kept(p, q) /\ Pl(q).event # None /\ ~Pl(q).wait
           /\ IF prev # None \/ p.nested = 0 THEN Sound(q, 0, Pl(q).event, None)
              ELSE Sound(q, 0, None, None)
<1>1. Typed(p) /\ p.nested = Place(p.levels, Top(p))
  BY ListsFinite DEF Sound, Nested, Typed
<1>2. /\ Top(p) \in Nat \ {0} /\ Pl(p) \in Level /\ Pl(p) = p.levels[Top(p)]
      /\ LevelRefers(p, Pl(p))
  BY <1>1, TopLevelOf DEF Sound, LevelsRefer
<1>3. CASE prev = None /\ p.nested # 0
  <2>1. Place(p.levels, Top(p)) > 0
    BY <1>1, <1>2, <1>3, ListsFinite
  <2>2. Pl(p).event # None /\ ~Pl(p).wait
    BY <1>2, <1>3, <2>1 DEF Settled, HasEvent
  <2>3. q = p
    BY <1>3, <2>2 DEF PrepareEvent
  <2> QED
    BY <1>3, <2>2, <2>3 DEF Kept, SameNode
<1>4. CASE prev # None \/ p.nested = 0
  <2>1. Pl(p).event # None => p.evs[Pl(p).event].main_obj # None
    <3>1. \A n \in DOMAIN p.nodes : n # None
      BY <1>1 DEF Typed, None
    <3>2. \A x \in DOMAIN p.evs : x # None
      BY <1>1 DEF Typed, IsSeq, None
    <3> QED
      BY <1>2, <3>1, <3>2 DEF LevelRefers, Sound, EventsRefer
  <2>2. q = BeginEvent(p, prev, compstep)
    BY <1>4, <2>1 DEF PrepareEvent
  <2>3. PICK r : r = EndEvent(p)
    OBVIOUS
  <2>4. Sound(r, 0, None, None) /\ Kept(p, r)
    BY <2>3, EndEventSound
  <2>5. IsNode(r, prev)
    BY <2>4 DEF IsNode, Kept
  <2>6. q = NextEvent(r, prev, compstep)
    BY <2>2, <2>3 DEF BeginEvent
  <2>7. /\ Sound(q, 0, Len(r.evs) + 1, None) /\ Kept(r, q)
        /\ Pl(q).event = Len(r.evs) + 1 /\ ~Pl(q).wait
    BY <2>4, <2>5, <2>6, NextEventSound
  <2>8. Len(r.evs) \in Nat
    BY <2>4 DEF Sound, Typed, IsSeq
  <2> QED
    BY <1>4, <2>4, <2>7, <2>8, KeptTwice DEF None
<1> QED
  BY <1>3, <1>4

-----------------------------------------------------------------------------
(* Links to a new node. *)

EqualLevel(l, m) ==
    /\ SameLevel(l, m)
    /\ l.sub = m.sub /\ l.param = m.param
    /\ l.event = m.event /\ l.own_ev = m.own_ev /\ l.wait = m.wait

(* q and p differ in labels and links at most. *)
Relabelled(p, q) ==
    /\ Shape(q)
    /\ q.levels \in Seq(Level) /\ Top(q) = Top(p)
    /\ \A k \in 1..Top(p) : EqualLevel(q.levels[k], p.levels[k])
    /\ q.labels \in [Names -> Nat] /\ LabelsRefer(q)
    /\ q.nested = p.nested /\ q.objs = p.objs /\ q.options = p.options

LEMMA RelabelledLevels ==
    ASSUME NEW p, NEW q, NEW more \in {0, 1}, NEW e, NEW new, Sound(p, more, e, new),
           Relabelled(p, q), DOMAIN q.evs = DOMAIN p.evs, DOMAIN q.nodes = DOMAIN p.nodes,
           \A n \in DOMAIN p.nodes : q.nodes[n].kind = p.nodes[n].kind,
           \A s \in 1..MaxLevels : q.slots[s].options = p.slots[s].options
    PROVE  /\ Top(q) \in Nat \ {0} /\ Top(q) = Top(p) /\ Top(p) <= MaxLevels
           /\ \A k \in 1..Top(p) :
                 /\ EqualLevel(q.levels[k], p.levels[k])
                 /\ Place(q.levels, k) = Place(p.levels, k)
                 /\ Stepping(q.levels[k]) <=> Stepping(p.levels[k])
           /\ LevelsRefer(q) /\ Nested(q, more)
<1>1. Typed(p)
  BY DEF Sound
<1>2. /\ Top(q) \in Nat \ {0} /\ Top(q) = Top(p) /\ Pl(q) = q.levels[Top(p)]
      /\ Pl(p) = p.levels[Top(p)] /\ Top(p) <= MaxLevels
  BY <1>1, TopLevelOf DEF Relabelled, Pl, Top
<1>3. ASSUME NEW k \in 1..Top(p) PROVE EqualLevel(q.levels[k], p.levels[k])
  BY DEF Relabelled
<1>4. ASSUME NEW k \in 1..Top(p) PROVE Place(q.levels, k) = Place(p.levels, k)
  BY <1>2, <1>3, PlaceSame DEF EqualLevel, SameLevel
<1>5. ASSUME NEW k \in 1..Top(p) PROVE Stepping(q.levels[k]) <=> Stepping(p.levels[k])
  BY <1>3 DEF EqualLevel, SameLevel, Stepping
<1>6. LevelsRefer(q)
  <2>1. q.levels[1].scope = "group"
    BY <1>2, <1>3 DEF Sound, LevelsRefer, EqualLevel, SameLevel
  <2>2. ASSUME NEW k \in 1..Top(p) PROVE LevelRefers(q, q.levels[k])
    <3>1. LevelRefers(p, p.levels[k])
      BY DEF Sound, LevelsRefer
    <3> QED
      BY <1>3, <3>1 DEF LevelRefers, IsOp, EqualLevel, SameLevel
  <2>3. ASSUME NEW k \in 1..(Top(p) - 1)
        PROVE  /\ HasEvent(q.levels, k)
               /\ q.levels[k].param # "none" =>
                      q.levels[k + 1].scope = "nest" /\ Stepping(q.levels[k])
    <3>1. k \in 1..Top(p) /\ k + 1 \in 1..Top(p)
      BY <1>2
    <3>2. /\ HasEvent(p.levels, k)
          /\ p.levels[k].param # "none" =>
                 p.levels[k + 1].scope = "nest" /\ Stepping(p.levels[k])
      BY DEF Sound, LevelsRefer
    <3> QED
      BY <1>3, <1>4, <1>5, <3>1, <3>2 DEF HasEvent, EqualLevel, SameLevel
  <2>4. UsesNested(q)
    <3>1. \A k \in 1..Top(p) : q.levels[k].use = p.levels[k].use
      BY <1>3 DEF EqualLevel, SameLevel
    <3> QED
      BY <1>2, <1>4, <3>1, UsesKept DEF Sound, LevelsRefer
  <2> QED
    BY <1>2, <2>1, <2>2, <2>3, <2>4 DEF LevelsRefer
<1>7. Nested(q, more)
  <2>1. q.nested = Place(q.levels, Top(q)) + more
    BY <1>2, <1>4 DEF Sound, Nested, Relabelled
  <2>2. Pl(q).param # "none" => more = 1 /\ Stepping(Pl(q))
    BY <1>2, <1>3, <1>5 DEF Sound, Nested, EqualLevel
  <2>3. ASSUME NEW k \in 1..Top(p), q.levels[k].scope = "nest"
        PROVE  q.slots[Place(q.levels, k)].options = q.levels[k].outer_options
    <3>1. p.levels[k].scope = "nest" /\ q.levels[k].outer_options = p.levels[k].outer_options
      BY <1>3, <2>3 DEF EqualLevel, SameLevel
    <3>2. Place(p.levels, k) \in 1..MaxLevels
      BY <1>1, <3>1, NestPlace
    <3> QED
      BY <1>4, <3>1, <3>2 DEF Sound, Nested
  <2> QED
    BY <1>2, <2>1, <2>2, <2>3 DEF Nested
<1> QED
  BY <1>2, <1>3, <1>4, <1>5, <1>6, <1>7

(* q has places with what those of p have, but for settings. *)
SamePlaces(p, q) ==
    /\ q.slots \in [1..MaxLevels -> Slot]
    /\ \A t \in 1..MaxLevels :
          /\ q.slots[t].list = p.slots[t].list
          /\ q.slots[t].last_item = p.slots[t].last_item
          /\ q.slots[t].last_mods = p.slots[t].last_mods

LEMMA Unlinked ==
    ASSUME NEW p, NEW n, From(p, n) = {}
    PROVE  /\ \A x \in DOMAIN p.nodes :
                 p.nodes[x].next # n /\ p.nodes[x].first # n /\ p.nodes[x].mods # n
           /\ \A x \in DOMAIN p.evs : p.evs[x].main_obj # n
BY DEF From

(* A new node becomes the object of an event that has none. *)
LEMMA AttachEvent ==
    ASSUME NEW p, NEW q, NEW more \in {0, 1}, NEW e, NEW n, Sound(p, more, e, n),
           Relabelled(p, q), n \in DOMAIN p.nodes, e \in DOMAIN p.evs,
           q.nodes = p.nodes, SamePlaces(p, q),
           \A s \in 1..MaxLevels : q.slots[s].options = p.slots[s].options,
           IsSeq(q.evs), DOMAIN q.evs = DOMAIN p.evs,
           \A x \in DOMAIN p.evs :
              /\ "main_obj" \in DOMAIN q.evs[x]
              /\ q.evs[x].main_obj = IF x = e THEN n ELSE p.evs[x].main_obj
    PROVE  Sound(q, more, None, None)
<1>1. Typed(p)
  BY DEF Sound
<1>2. /\ Top(q) \in Nat \ {0} /\ Top(q) = Top(p) /\ Top(p) <= MaxLevels
      /\ \A k \in 1..Top(p) :
            /\ EqualLevel(q.levels[k], p.levels[k])
            /\ Place(q.levels, k) = Place(p.levels, k)
            /\ Stepping(q.levels[k]) <=> Stepping(p.levels[k])
      /\ LevelsRefer(q) /\ Nested(q, more)
  BY RelabelledLevels
<1>3. Typed(q)
  BY <1>1, <1>2 DEF Typed, Relabelled, SamePlaces
<1>4. None \notin DOMAIN p.evs /\ None \notin DOMAIN p.nodes
  BY <1>1 DEF Typed, IsSeq, None
<1>5. NodesRefer(q) /\ LabelsRefer(q) /\ EventsRefer(q, None)
  BY <1>4 DEF Sound, NodesRefer, LabelsRefer, EventsRefer, IsNode, Relabelled
<1>6. SlotsRefer(q) /\ SlotsUsed(q, q.nested - more) /\ Ends(q)
  <2>1. p.nested - more \in 0..MaxLevels
    BY <1>1, <1>2, ListsFinite, ParserAssumption DEF Sound, Nested, Typed
  <2>2. SlotsUsed(q, q.nested - more)
    BY <2>1, ParserAssumption DEF Sound, SlotsUsed, SamePlaces, Relabelled
  <2>3. SlotsRefer(q)
    BY DEF Sound, SlotsRefer, IsNode, SamePlaces
  <2>4. Ends(q)
    BY DEF Sound, Ends, IsEnd, SamePlaces
  <2> QED
    BY <2>2, <2>3, <2>4
<1>7. Scaled(q)
  BY <1>2 DEF Sound, Scaled, Owns, EqualLevel, SameLevel
<1>8. ModsEnd(q)
  BY <1>2 DEF Sound, ModsEnd, EqualLevel, SameLevel, SamePlaces
<1>9. Once(q, None)
  <2>1. ASSUME NEW y \in DOMAIN p.nodes
        PROVE  From(q, y) = IF y = n THEN {<<"event", e>>} ELSE From(p, y)
    <3>1. p.evs[e].main_obj = None /\ From(p, n) = {}
      BY DEF Sound, EventsRefer, Once
    <3>2. CASE y # n
      <4>1. {x \in DOMAIN q.evs : q.evs[x].main_obj = y}
            = {x \in DOMAIN p.evs : p.evs[x].main_obj = y}
        BY <1>4, <3>1, <3>2
      <4> QED
        BY <3>2, <4>1 DEF From
    <3>3. CASE y = n
      <4>1. {x \in DOMAIN q.evs : q.evs[x].main_obj = y} = {e}
        <5>1. ASSUME NEW x \in DOMAIN p.evs PROVE p.evs[x].main_obj # n
          <6>1. <<"event", x>> \notin From(p, n)
            BY <3>1
          <6> QED
            BY <6>1 DEF From
        <5> QED
          BY <3>3, <5>1
      <4>2. \A x \in DOMAIN p.nodes :
               p.nodes[x].next # n /\ p.nodes[x].first # n /\ p.nodes[x].mods # n
        BY <3>1, Unlinked
      <4> QED
        BY <3>3, <4>1, <4>2 DEF From
    <3> QED
      BY <3>2, <3>3
  <2> QED
    BY <1>4, <2>1 DEF Sound, Once
<1> QED
  BY <1>2, <1>3, <1>5, <1>6, <1>7, <1>8, <1>9 DEF Sound, Relabelled

NodeLinked(p, q, m, f, n) ==
    /\ q.nodes \in Seq(Node) /\ DOMAIN q.nodes = DOMAIN p.nodes
    /\ \A x \in DOMAIN p.nodes :
          LET a == q.nodes[x]
              b == p.nodes[x]
          IN  /\ a.kind = b.kind /\ a.obj = b.obj /\ a.event = b.event
              /\ a.amp = b.amp /\ a.mult = b.mult
              /\ a.next = IF f = "next" /\ x = m THEN n ELSE b.next
              /\ a.first = IF f = "first" /\ x = m THEN n ELSE b.first
              /\ a.mods = IF f = "mods" /\ x = m THEN n ELSE b.mods

SlotMoved(p, q, s, g, n) ==
    /\ q.slots \in [1..MaxLevels -> Slot]
    /\ \A t \in 1..MaxLevels :
          LET a == q.slots[t]
              b == p.slots[t]
          IN  /\ a.list = b.list /\ a.options = b.options
              /\ a.last_item = IF g = "item" /\ t = s THEN n ELSE b.last_item
              /\ a.last_mods = IF g = "mods" /\ t = s THEN n ELSE b.last_mods

(* Nothing has come after the new node, nor can yet. *)
Fresh(p, n) ==
    /\ n \in DOMAIN p.nodes /\ p.nodes[n].next = None
    /\ \A t \in 1..MaxLevels : p.slots[t].last_item # n /\ p.slots[t].last_mods # n

(* Where a link may be made, and the end that the new node then becomes.   *)
Linkable(p, m, f, s, g) ==
    \/ /\ f = "next" /\ g = "item" /\ m = p.slots[s].last_item /\ m # None
    \/ /\ f = "next" /\ g = "mods" /\ m = p.slots[s].last_mods /\ m # None
    \/ /\ f = "first" /\ g = "item" /\ m = p.slots[s].list /\ m # None
       /\ p.nodes[m].first = None
    \/ /\ f = "mods" /\ g = "mods" /\ m \in DOMAIN p.nodes /\ p.nodes[m].mods = None
       /\ \A k \in 1..Top(p) : Stepping(p.levels[k]) /\ p.levels[k].op = m
                                   => Place(p.levels, k) + 1 = s

(* A new node is put first in a list, or after the last of one. *)
LEMMA AttachNode ==
    ASSUME NEW p, NEW q, NEW more \in {0, 1}, NEW n, Sound(p, more, None, n),
           Relabelled(p, q), Fresh(p, n), q.evs = p.evs,
           NEW m, NEW f, NEW s \in 1..MaxLevels, NEW g, Linkable(p, m, f, s, g),
           NodeLinked(p, q, m, f, n), SlotMoved(p, q, s, g, n)
    PROVE  Sound(q, more, None, None)
<1>1. Typed(p)
  BY DEF Sound
<1>2. /\ Top(q) \in Nat \ {0} /\ Top(q) = Top(p) /\ Top(p) <= MaxLevels
      /\ \A k \in 1..Top(p) :
            /\ EqualLevel(q.levels[k], p.levels[k])
            /\ Place(q.levels, k) = Place(p.levels, k)
            /\ Stepping(q.levels[k]) <=> Stepping(p.levels[k])
      /\ LevelsRefer(q) /\ Nested(q, more)
  BY RelabelledLevels DEF NodeLinked, SlotMoved
<1>3. Typed(q)
  BY <1>1, <1>2 DEF Typed, Relabelled, NodeLinked, SlotMoved
<1>4. None \notin DOMAIN p.evs /\ None \notin DOMAIN p.nodes
  BY <1>1 DEF Typed, IsSeq, None
<1>5. m \in DOMAIN p.nodes
  BY DEF Linkable, Sound, Ends, IsEnd, SlotsRefer, IsNode
<1>6. /\ f = "next" => p.nodes[m].next = None
      /\ f = "first" => p.nodes[m].first = None /\ p.nodes[m].kind = "list"
      /\ f = "mods" => p.nodes[m].mods = None
  BY DEF Linkable, Sound, Ends, IsEnd, SlotsRefer
<1>7. NodesRefer(q)
  BY <1>6 DEF Sound, NodesRefer, IsNode, NodeLinked, Fresh, Relabelled
<1>8. LabelsRefer(q) /\ EventsRefer(q, None)
  BY DEF Sound, EventsRefer, NodeLinked, Relabelled
<1>9. SlotsUsed(q, q.nested - more)
  <2>1. p.nested - more \in 0..MaxLevels
    BY <1>1, <1>2, ListsFinite, ParserAssumption DEF Sound, Nested, Typed
  <2> QED
    BY <2>1, ParserAssumption DEF Sound, SlotsUsed, SlotMoved, Relabelled
<1>10. SlotsRefer(q)
  <2>1. ASSUME NEW t \in 1..MaxLevels, q.slots[t].list # None
        PROVE  /\ q.slots[t].list \in DOMAIN q.nodes
               /\ q.nodes[q.slots[t].list].kind = "list"
               /\ q.nodes[q.slots[t].list].first # None => q.slots[t].last_item # None
    <3>1. PICK list : list = q.slots[t].list
      OBVIOUS
    <3>2. /\ p.slots[t].list = list /\ list \in DOMAIN p.nodes
          /\ p.nodes[list].kind = "list"
          /\ p.nodes[list].first # None => p.slots[t].last_item # None
      BY <2>1, <3>1 DEF Sound, SlotsRefer, IsNode, SlotMoved
    <3>3. CASE f = "first" /\ list = m
      <4>1. p.slots[s].list = list /\ g = "item"
        BY <3>3 DEF Linkable
      <4>2. t = s
        BY <2>1, <3>1, <3>2, <4>1 DEF Sound, SlotsRefer
      <4>3. q.slots[t].last_item = n
        BY <4>1, <4>2 DEF SlotMoved
      <4> QED
        BY <1>4, <3>1, <3>2, <4>3 DEF NodeLinked, Fresh
    <3>4. CASE ~(f = "first" /\ list = m)
      <4>1. q.nodes[list].first = p.nodes[list].first
        BY <3>2, <3>4 DEF NodeLinked
      <4>2. p.slots[t].last_item # None => q.slots[t].last_item # None
        BY <1>4 DEF SlotMoved, Fresh
      <4> QED
        BY <3>1, <3>2, <4>1, <4>2 DEF NodeLinked
    <3> QED
      BY <3>3, <3>4
  <2>2. \A t \in 1..MaxLevels : q.slots[t].list = p.slots[t].list
    BY DEF SlotMoved
  <2> QED
    BY <2>1, <2>2 DEF Sound, SlotsRefer, IsNode
<1>11. Scaled(q)
  <2>1. ASSUME NEW k \in 1..Top(p)
        PROVE  /\ q.levels[k].own_op = p.levels[k].own_op /\ q.levels[k].op = p.levels[k].op
               /\ q.levels[k].used_ampmult = p.levels[k].used_ampmult
               /\ p.levels[k].own_op => p.levels[k].op \in DOMAIN p.nodes
    BY <1>2 DEF Sound, LevelsRefer, LevelRefers, IsOp, EqualLevel, SameLevel
  <2>2. /\ DOMAIN q.nodes = DOMAIN p.nodes
        /\ \A x \in DOMAIN p.nodes :
              /\ q.nodes[x].kind = p.nodes[x].kind
              /\ q.nodes[x].amp = p.nodes[x].amp /\ q.nodes[x].mult = p.nodes[x].mult
    BY DEF NodeLinked
  <2> QED
    BY <1>2, <2>1, <2>2 DEF Sound, Scaled, Owns
<1>12. Ends(q)
  <2>1. n # None /\ n \in DOMAIN p.nodes
    BY <1>4 DEF Fresh
  <2>2. f = "next" => m # n
    BY DEF Linkable, Fresh
  <2>3. IsEnd(q, n)
    BY <2>1, <2>2 DEF IsEnd, NodeLinked, Fresh
  <2>4. ASSUME NEW t \in 1..MaxLevels, t # s \/ g # "item"
        PROVE  IsEnd(q, p.slots[t].last_item)
    <3>1. IsEnd(p, p.slots[t].last_item)
      BY DEF Sound, Ends
    <3>2. f = "next" => p.slots[t].last_item = None \/ p.slots[t].last_item # m
      BY <2>4 DEF Sound, Ends, Linkable
    <3> QED
      BY <3>1, <3>2 DEF IsEnd, NodeLinked
  <2>5. ASSUME NEW t \in 1..MaxLevels, t # s \/ g # "mods"
        PROVE  IsEnd(q, p.slots[t].last_mods)
    <3>1. IsEnd(p, p.slots[t].last_mods)
      BY DEF Sound, Ends
    <3>2. f = "next" => p.slots[t].last_mods = None \/ p.slots[t].last_mods # m
      BY <2>5 DEF Sound, Ends, Linkable
    <3> QED
      BY <3>1, <3>2 DEF IsEnd, NodeLinked
  <2>6. ASSUME NEW t \in 1..MaxLevels
        PROVE  IsEnd(q, q.slots[t].last_item) /\ IsEnd(q, q.slots[t].last_mods)
    BY <2>3, <2>4, <2>5 DEF SlotMoved
  <2>7. ASSUME NEW t \in 1..MaxLevels, NEW u \in 1..MaxLevels
        PROVE  LET i == q.slots[t].last_item
                   j == q.slots[t].last_mods
               IN  /\ i # None /\ i = q.slots[u].last_item => t = u
                   /\ j # None /\ j = q.slots[u].last_mods => t = u
                   /\ i # None => i # q.slots[u].last_mods
    <3>1. /\ p.slots[t].last_item # n /\ p.slots[u].last_item # n
          /\ p.slots[t].last_mods # n /\ p.slots[u].last_mods # n
      BY DEF Fresh
    <3>2. LET i == p.slots[t].last_item
              j == p.slots[t].last_mods
          IN  /\ i # None /\ i = p.slots[u].last_item => t = u
              /\ j # None /\ j = p.slots[u].last_mods => t = u
              /\ i # None => i # p.slots[u].last_mods
      BY DEF Sound, Ends
    <3>3. g = "item" => g # "mods"
      OBVIOUS
    <3> QED
      BY <2>1, <3>1, <3>2, <3>3 DEF SlotMoved
  <2> QED
    BY <2>6, <2>7 DEF Ends
<1>13. ModsEnd(q)
  <2>1. ASSUME NEW k \in 1..Top(p), Stepping(q.levels[k]),
               q.nodes[q.levels[k].op].mods # None
        PROVE  /\ Place(q.levels, k) + 1 \in 1..MaxLevels
               /\ q.slots[Place(q.levels, k) + 1].last_mods # None
    <3>1. PICK x : x = p.levels[k].op
      OBVIOUS
    <3>2. Stepping(p.levels[k]) /\ q.levels[k].op = x
      BY <1>2, <2>1, <3>1 DEF EqualLevel, SameLevel
    <3>3. x \in DOMAIN p.nodes
      BY <3>1, <3>2 DEF Sound, LevelsRefer, LevelRefers, IsOp, Stepping
    <3>4. CASE f = "mods" /\ x = m
      <4>1. Place(p.levels, k) + 1 = s /\ g = "mods"
        BY <3>1, <3>2, <3>4 DEF Linkable
      <4>2. q.slots[s].last_mods = n /\ n # None
        BY <1>4, <4>1 DEF SlotMoved, Fresh
      <4> QED
        BY <1>2, <4>1, <4>2
    <3>5. CASE ~(f = "mods" /\ x = m)
      <4>1. p.nodes[x].mods # None
        BY <2>1, <3>2, <3>3, <3>5 DEF NodeLinked
      <4>2. /\ Place(p.levels, k) + 1 \in 1..MaxLevels
            /\ p.slots[Place(p.levels, k) + 1].last_mods # None
        BY <3>1, <3>2, <4>1 DEF Sound, ModsEnd
      <4> QED
        BY <1>2, <1>4, <4>2 DEF SlotMoved, Fresh
    <3> QED
      BY <3>4, <3>5
  <2>2. ASSUME NEW k \in 1..Top(p), NEW j \in 1..Top(p), Stepping(q.levels[k]),
               Stepping(q.levels[j]), q.levels[j].op = q.levels[k].op
        PROVE  Place(q.levels, j) = Place(q.levels, k)
    BY <1>2, <2>2 DEF Sound, ModsEnd, EqualLevel, SameLevel
  <2> QED
    BY <1>2, <2>1, <2>2 DEF ModsEnd
<1>14. Once(q, None)
  <2>1. ASSUME NEW y \in DOMAIN p.nodes
        PROVE  From(q, y) = IF y = n THEN {<<f, m>>} ELSE From(p, y)
    <3>1. From(p, n) = {}
      BY DEF Sound, Once, Fresh
    <3>2. f \in {"next", "first", "mods"} /\ DOMAIN q.nodes = DOMAIN p.nodes
      BY DEF Linkable, NodeLinked
    <3>3. CASE y # n
      <4>1. {x \in DOMAIN q.nodes : q.nodes[x].next = y}
            = {x \in DOMAIN p.nodes : p.nodes[x].next = y}
        BY <1>4, <1>6, <3>3 DEF NodeLinked
      <4>2. {x \in DOMAIN q.nodes : q.nodes[x].first = y}
            = {x \in DOMAIN p.nodes : p.nodes[x].first = y}
        BY <1>4, <1>6, <3>3 DEF NodeLinked
      <4>3. {x \in DOMAIN q.nodes : q.nodes[x].mods = y}
            = {x \in DOMAIN p.nodes : p.nodes[x].mods = y}
        BY <1>4, <1>6, <3>3 DEF NodeLinked
      <4> QED
        BY <3>3, <4>1, <4>2, <4>3 DEF From
    <3>4. CASE y = n
      <4>1. \A x \in DOMAIN p.nodes :
               p.nodes[x].next # n /\ p.nodes[x].first # n /\ p.nodes[x].mods # n
        BY <3>1 DEF From
      <4>2. {x \in DOMAIN p.evs : p.evs[x].main_obj = n} = {}
        BY <3>1 DEF From
      <4>3. /\ {x \in DOMAIN q.nodes : q.nodes[x].next = n} = IF f = "next" THEN {m} ELSE {}
            /\ {x \in DOMAIN q.nodes : q.nodes[x].first = n} = IF f = "first" THEN {m} ELSE {}
            /\ {x \in DOMAIN q.nodes : q.nodes[x].mods = n} = IF f = "mods" THEN {m} ELSE {}
        BY <1>5, <4>1 DEF NodeLinked
      <4> QED
        BY <3>2, <3>4, <4>2, <4>3 DEF From
    <3> QED
      BY <3>3, <3>4
  <2>2. \A y \in DOMAIN p.nodes : y # n => \E x \in From(p, y) : From(p, y) = {x}
    BY DEF Sound, Once
  <2> QED
    BY <1>4, <2>1, <2>2 DEF Once, NodeLinked
<1> QED
  BY <1>2, <1>3, <1>7, <1>8, <1>9, <1>10, <1>11, <1>12, <1>13, <1>14 DEF Sound, Relabelled

-----------------------------------------------------------------------------
(* link_ev_obj() *)

LEMMA LabelledIs ==
    ASSUME NEW p, Shape(p), p.levels \in Seq(Level), p.labels \in [Names -> Nat],
           NEW k \in 1..Top(p), NEW n \in Nat, NEW q, q = Labelled(p, k, n)
    PROVE  /\ Is(q, q.levels, p.slots, p.nested, p.nodes, p.objs, p.evs, q.labels, p.options)
           /\ q.levels \in Seq(Level) /\ Top(q) = Top(p)
           /\ \A j \in 1..Top(p) : EqualLevel(q.levels[j], p.levels[j])
           /\ q.labels \in [Names -> Nat]
           /\ \A x \in Names : q.labels[x] \in {n, p.labels[x]}
<1>1. PICK l, name : l = p.levels[k] /\ name = p.levels[k].set_label
  OBVIOUS
<1>2. l \in Level /\ Top(p) \in Nat /\ Top(p) = Len(p.levels)
  BY <1>1 DEF Top
<1>3. CASE name = NoName
  <2>1. q = p
    BY <1>1, <1>3 DEF Labelled
  <2> QED
    BY <2>1 DEF Is, EqualLevel, SameLevel
<1>4. CASE name # NoName
  <2>1. PICK m : m = [l EXCEPT !.set_label = NoName]
    OBVIOUS
  <2>2. m \in Level /\ EqualLevel(m, l)
    BY <1>2, <2>1 DEF Level, EqualLevel, SameLevel
  <2>3. PICK ls : ls = [p.levels EXCEPT ![k] = m]
    OBVIOUS
  <2>4. PICK lb : lb = [p.labels EXCEPT ![name] = n]
    OBVIOUS
  <2>5. q = [p EXCEPT !.labels[name] = n, !.levels[k].set_label = NoName]
    BY <1>1, <1>4 DEF Labelled
  <2>6. Is(q, ls, p.slots, p.nested, p.nodes, p.objs, p.evs, lb, p.options)
    BY <1>1, <2>1, <2>3, <2>4, <2>5 DEF Is, Shape
  <2>7. /\ ls \in Seq(Level) /\ Len(ls) = Top(p)
        /\ \A j \in 1..Top(p) : EqualLevel(ls[j], p.levels[j])
    <3>1. /\ ls \in Seq(Level) /\ Len(ls) = Len(p.levels)
          /\ k \in DOMAIN p.levels => ls[k] = m
          /\ \A j \in DOMAIN p.levels : j # k => ls[j] = p.levels[j]
      <4>1. Put(Level, p.levels, ls, k, m)
        BY <2>2, <2>3, PutIs
      <4> QED
        BY <4>1 DEF Put
    <3>2. \A j \in 1..Top(p) : EqualLevel(p.levels[j], p.levels[j])
      BY DEF EqualLevel, SameLevel
    <3> QED
      BY <1>1, <1>2, <2>2, <3>1, <3>2
  <2>8. lb \in [Names -> Nat] /\ \A x \in Names : lb[x] \in {n, p.labels[x]}
    BY <2>4
  <2> QED
    BY <2>6, <2>7, <2>8 DEF Is, Top
<1> QED
  BY <1>3, <1>4

(* p1 is as p, with the new node n and settings made as they are to be; r  *)
(* is as what link_ev_obj() gives, with the same settings.                 *)
LEMMA LinkObjSound ==
    ASSUME NEW p, NEW p1, NEW more \in {0, 1}, NEW e, NEW n,
           Sound(p1, more, e, n), Fresh(p1, n),
           Shape(p), p.levels = p1.levels, p.labels = p1.labels, p.nested = p1.nested,
           p.objs = p1.objs, p.evs = p1.evs, p1.nodes = [p.nodes EXCEPT ![n].next = None],
           SamePlaces(p1, p),
           NEW k \in 1..Top(p1), NEW s, NEW prev,
           IF prev # None \/ s = 0 THEN e = p.levels[k].event /\ e # None
           ELSE e = None /\ s \in 1..MaxLevels /\ p.slots[s].list # None,
           NEW q, q = LinkObj(p, k, s, n, prev),
           NEW r, Shape(r), r.levels = q.levels, r.labels = q.labels, r.nested = q.nested,
           r.objs = q.objs, r.evs = q.evs, r.nodes = q.nodes, r.options = p1.options,
           SamePlaces(q, r), \A t \in 1..MaxLevels : r.slots[t].options = p1.slots[t].options
    PROVE  /\ Sound(r, more, None, None) /\ Top(r) = Top(p1)
           /\ \A j \in 1..Top(p1) : EqualLevel(r.levels[j], p1.levels[j])
<1>1. Typed(p1)
  BY DEF Sound
<1>2. /\ Top(p1) \in Nat \ {0} /\ Top(p1) <= MaxLevels /\ p1.levels \in Seq(Level)
      /\ p1.labels \in [Names -> Nat] /\ p1.nodes \in Seq(Node) /\ n \in Nat
      /\ Top(p) = Top(p1)
  BY <1>1, TopLevelOf DEF Typed, Fresh, Top
<1>3. PICK p2 : p2 = [p EXCEPT !.nodes[n].next = None]
  OBVIOUS
<1>4. Is(p2, p1.levels, p.slots, p1.nested, p1.nodes, p1.objs, p1.evs, p1.labels, p.options)
  BY <1>3 DEF Is, Shape
<1>5. PICK p3 : p3 = Linked(p2, k, s, n, prev)
  OBVIOUS
<1>6. q = Labelled(p3, k, n)
  BY <1>3, <1>5 DEF LinkObj
<1>7. ASSUME NEW ss, NEW ns, NEW es,
             Is(p3, p1.levels, ss, p1.nested, ns, p1.objs, es, p1.labels, p.options)
      PROVE  /\ Is(q, q.levels, ss, p1.nested, ns, p1.objs, es, q.labels, p.options)
             /\ q.levels \in Seq(Level) /\ Top(q) = Top(p1) /\ Top(r) = Top(q)
             /\ \A j \in 1..Top(p1) : EqualLevel(q.levels[j], p1.levels[j])
             /\ q.labels \in [Names -> Nat]
             /\ \A x \in Names : q.labels[x] \in {n, p1.labels[x]}
  <2>1. /\ Shape(p3) /\ p3.levels \in Seq(Level) /\ p3.labels \in [Names -> Nat]
        /\ k \in 1..Top(p3) /\ Top(p3) = Top(p1)
    BY <1>2, <1>7 DEF Is, Top
  <2>2. /\ Is(q, q.levels, p3.slots, p3.nested, p3.nodes, p3.objs, p3.evs, q.labels, p3.options)
        /\ q.levels \in Seq(Level) /\ Top(q) = Top(p3)
        /\ \A j \in 1..Top(p3) : EqualLevel(q.levels[j], p3.levels[j])
        /\ q.labels \in [Names -> Nat]
        /\ \A x \in Names : q.labels[x] \in {n, p3.labels[x]}
    BY <1>2, <1>6, <2>1, LabelledIs
  <2> QED
    BY <1>7, <2>1, <2>2 DEF Is, Top
<1>8. ASSUME NEW ss, NEW ns, NEW es, DOMAIN ns = DOMAIN p1.nodes,
             Is(p3, p1.levels, ss, p1.nested, ns, p1.objs, es, p1.labels, p.options)
      PROVE  /\ Relabelled(p1, r) /\ r.nodes = ns /\ r.evs = es /\ q.slots = ss
             /\ Top(r) = Top(p1)
             /\ \A j \in 1..Top(p1) : EqualLevel(r.levels[j], p1.levels[j])
  <2>1. /\ Is(q, q.levels, ss, p1.nested, ns, p1.objs, es, q.labels, p.options)
        /\ q.levels \in Seq(Level) /\ Top(q) = Top(p1) /\ Top(r) = Top(q)
        /\ \A j \in 1..Top(p1) : EqualLevel(q.levels[j], p1.levels[j])
        /\ q.labels \in [Names -> Nat]
        /\ \A x \in Names : q.labels[x] \in {n, p1.labels[x]}
    BY <1>7, <1>8
  <2>2. LabelsRefer(r)
    BY <1>8, <2>1 DEF LabelsRefer, IsNode, Is, Sound, Fresh
  <2> QED
    BY <2>1, <2>2 DEF Is, Relabelled
<1>9. CASE prev # None \/ s = 0
  <2>1. PICK es : es = [p1.evs EXCEPT ![e].main_obj = n]
    BY Zenon
  <2>2. p3 = [p2 EXCEPT !.evs[e].main_obj = n]
    BY <1>4, <1>5, <1>9, ZenonT(40) DEF Linked, Is
  <2>3. Is(p3, p1.levels, p.slots, p1.nested, p1.nodes, p1.objs, es, p1.labels, p.options)
    BY <1>4, <2>1, <2>2 DEF Is, Shape
  <2>4. e \in DOMAIN p1.evs
    BY <1>9 DEF Sound, LevelsRefer, LevelRefers
  <2>5. /\ IsSeq(es) /\ DOMAIN es = DOMAIN p1.evs
        /\ \A x \in DOMAIN p1.evs :
              /\ "main_obj" \in DOMAIN es[x]
              /\ es[x].main_obj = IF x = e THEN n ELSE p1.evs[x].main_obj
    <3>1. IsSeq(p1.evs) /\ \A x \in DOMAIN p1.evs : "main_obj" \in DOMAIN p1.evs[x]
      BY <1>1 DEF Typed
    <3>2. PICK v : v = [p1.evs[e] EXCEPT !.main_obj = n]
      OBVIOUS
    <3>3. es = [p1.evs EXCEPT ![e] = v] /\ "main_obj" \in DOMAIN v /\ v.main_obj = n
      BY <2>1, <2>4, <3>1, <3>2
    <3>4. IsSeq(es) /\ DOMAIN es = DOMAIN p1.evs
      BY <3>1, <3>3, PutInSeq DEF Replaced
    <3> QED
      BY <2>4, <3>1, <3>3, <3>4
  <2>6. /\ Relabelled(p1, r) /\ r.nodes = p1.nodes /\ r.evs = es /\ q.slots = p.slots
        /\ Top(r) = Top(p1)
        /\ \A j \in 1..Top(p1) : EqualLevel(r.levels[j], p1.levels[j])
    BY <1>8, <2>3
  <2>7. \A t \in 1..MaxLevels :
           /\ r.slots[t].list = p1.slots[t].list
           /\ r.slots[t].last_item = p1.slots[t].last_item
           /\ r.slots[t].last_mods = p1.slots[t].last_mods
           /\ r.slots[t].options = p1.slots[t].options
    BY <2>6 DEF SamePlaces
  <2>8. r.slots \in [1..MaxLevels -> Slot]
    BY DEF SamePlaces
  <2> QED
    <3>1. SamePlaces(p1, r) /\ n \in DOMAIN p1.nodes
      BY <2>7, <2>8 DEF SamePlaces, Fresh
    <3>2. IsSeq(r.evs) /\ DOMAIN r.evs = DOMAIN p1.evs
      BY <2>5, <2>6
    <3>3. \A x \in DOMAIN p1.evs :
             /\ "main_obj" \in DOMAIN r.evs[x]
             /\ r.evs[x].main_obj = IF x = e THEN n ELSE p1.evs[x].main_obj
      BY <2>5, <2>6
    <3> QED
      BY <2>4, <2>6, <3>1, <3>2, <3>3, AttachEvent
<1>10. CASE prev = None /\ s # 0
  <2>1. PICK list : list = p.slots[s].list
    OBVIOUS
  <2>2. /\ s \in 1..MaxLevels /\ e = None /\ list # None /\ list = p1.slots[s].list
        /\ list \in DOMAIN p1.nodes /\ p.slots \in [1..MaxLevels -> Slot]
    BY <1>10, <2>1 DEF SamePlaces, Sound, SlotsRefer, IsNode
  <2>3. PICK ss : ss = [p.slots EXCEPT ![s].last_item = n]
    OBVIOUS
  <2>4. /\ ss \in [1..MaxLevels -> Slot] /\ ss[s].last_item = n
        /\ \A t \in 1..MaxLevels :
              /\ ss[t].list = p.slots[t].list /\ ss[t].last_mods = p.slots[t].last_mods
              /\ t # s => ss[t].last_item = p.slots[t].last_item
    <3>1. PICK v : v = [p.slots[s] EXCEPT !.last_item = n]
      OBVIOUS
    <3>2. p.slots[s] \in Slot
      BY <2>2
    <3>3. /\ v \in Slot /\ v.last_item = n /\ v.list = p.slots[s].list
          /\ v.last_mods = p.slots[s].last_mods
      BY <1>2, <3>1, <3>2 DEF Slot
    <3>4. ss = [p.slots EXCEPT ![s] = v]
      BY <2>3, <3>1
    <3> QED
      BY <2>2, <3>3, <3>4
  <2>5. PICK m, f : IF p1.nodes[list].first = None THEN m = list /\ f = "first"
                    ELSE m = p.slots[s].last_item /\ f = "next"
    OBVIOUS
  <2>6. PICK ns : ns = IF p1.nodes[list].first = None
                       THEN [p1.nodes EXCEPT ![list].first = n]
                       ELSE [p1.nodes EXCEPT ![p.slots[s].last_item].next = n]
    OBVIOUS
  <2>7. Is(p3, p1.levels, ss, p1.nested, ns, p1.objs, p1.evs, p1.labels, p.options)
    <3>1. CASE p1.nodes[list].first = None
      <4>1. p3 = [[p2 EXCEPT !.nodes[list].first = n] EXCEPT !.slots[s].last_item = n]
        BY <1>4, <1>5, <1>10, <2>1, <3>1 DEF Linked, Is
      <4>2. ns = [p1.nodes EXCEPT ![list].first = n]
        BY <2>6, <3>1
      <4> QED
        BY <1>4, <2>3, <4>1, <4>2 DEF Is, Shape
    <3>2. CASE p1.nodes[list].first # None
      <4>1. p3 = [[p2 EXCEPT !.nodes[p.slots[s].last_item].next = n]
                     EXCEPT !.slots[s].last_item = n]
        BY <1>4, <1>5, <1>10, <2>1, <3>2 DEF Linked, Is
      <4>2. ns = [p1.nodes EXCEPT ![p.slots[s].last_item].next = n]
        BY <2>6, <3>2
      <4> QED
        BY <1>4, <2>3, <4>1, <4>2 DEF Is, Shape
    <3> QED
      BY <3>1, <3>2
  <2>8. Linkable(p1, m, f, s, "item")
    BY <2>2, <2>5 DEF Linkable, SamePlaces, Sound, SlotsRefer
  <2>9. m \in DOMAIN p1.nodes
    BY <2>2, <2>8 DEF Linkable, Sound, Ends, IsEnd
  <2>10. PICK v : v = IF f = "first" THEN [p1.nodes[m] EXCEPT !.first = n]
                      ELSE [p1.nodes[m] EXCEPT !.next = n]
    OBVIOUS
  <2>11. /\ v \in Node /\ v.kind = p1.nodes[m].kind /\ v.obj = p1.nodes[m].obj
         /\ v.event = p1.nodes[m].event /\ v.amp = p1.nodes[m].amp
         /\ v.mult = p1.nodes[m].mult /\ v.mods = p1.nodes[m].mods
         /\ v.next = IF f = "next" THEN n ELSE p1.nodes[m].next
         /\ v.first = IF f = "first" THEN n ELSE p1.nodes[m].first
    <3>1. p1.nodes[m] \in Node /\ (f = "first" \/ f = "next")
      BY <1>2, <2>5, <2>9
    <3>2. CASE f = "first"
      BY <1>2, <2>10, <3>1, <3>2 DEF Node
    <3>3. CASE f = "next"
      BY <1>2, <2>10, <3>1, <3>3 DEF Node
    <3> QED
      BY <3>1, <3>2, <3>3
  <2>12. ns = [p1.nodes EXCEPT ![m] = v]
    BY <2>5, <2>6, <2>10
  <2>13. /\ ns \in Seq(Node) /\ DOMAIN ns = DOMAIN p1.nodes /\ ns[m] = v
         /\ \A x \in DOMAIN p1.nodes : x # m => ns[x] = p1.nodes[x]
    BY <1>2, <2>9, <2>11, <2>12, PutIs DEF Put
  <2>14. /\ Relabelled(p1, r) /\ r.nodes = ns /\ r.evs = p1.evs /\ q.slots = ss
         /\ Top(r) = Top(p1)
         /\ \A j \in 1..Top(p1) : EqualLevel(r.levels[j], p1.levels[j])
    BY <1>8, <2>7, <2>13
  <2>15. NodeLinked(p1, r, m, f, n)
    BY <2>5, <2>11, <2>13, <2>14 DEF NodeLinked
  <2>16. SlotMoved(p1, r, s, "item", n)
    BY <2>4, <2>14 DEF SlotMoved, SamePlaces
  <2>17. Sound(p1, more, None, n)
    BY <2>2
  <2> QED
    BY <2>2, <2>8, <2>14, <2>15, <2>16, <2>17, AttachNode
<1> QED
  BY <1>9, <1>10

-----------------------------------------------------------------------------
(* A new node that nothing is linked to, nor it to anything. *)

Grown(p, q, n, v) ==
    /\ n = Len(p.nodes) + 1 /\ n \in Nat /\ n # None /\ n \notin DOMAIN p.nodes
    /\ q.nodes \in Seq(Node) /\ DOMAIN q.nodes = DOMAIN p.nodes \union {n}
    /\ q.nodes[n] = v /\ \A x \in DOMAIN p.nodes : q.nodes[x] = p.nodes[x]

(* q is p with the node v added. *)
Adds(p, q, v) ==
    /\ v \in Node /\ v.next = None /\ v.first = None /\ v.mods = None
    /\ q.nodes = Append(p.nodes, v) /\ q.evs = p.evs /\ q.labels = p.labels
    /\ IsSeq(q.objs) /\ Len(p.objs) <= Len(q.objs) /\ v.obj \in 1..Len(q.objs)
    /\ v.kind = "op" => v.event \in DOMAIN p.evs

Added(p, q, e, n, v) ==
    /\ Grown(p, q, n, v)
    /\ NodesRefer(q) /\ EventsRefer(q, e) /\ LabelsRefer(q) /\ Once(q, n)
    /\ \A t \in 1..MaxLevels : /\ p.slots[t].list # n /\ p.slots[t].last_item # n
                               /\ p.slots[t].last_mods # n

LEMMA NewNodeSound ==
    ASSUME NEW p, NEW more, NEW e, Sound(p, more, e, None), NEW q, NEW v, Adds(p, q, v)
    PROVE  Added(p, q, e, Len(p.nodes) + 1, v)
<1> DEFINE n == Len(p.nodes) + 1
<1>1. /\ v \in Node /\ v.next = None /\ v.first = None /\ v.mods = None
      /\ q.nodes = Append(p.nodes, v) /\ q.evs = p.evs /\ q.labels = p.labels
      /\ IsSeq(q.objs) /\ Len(p.objs) <= Len(q.objs) /\ v.obj \in 1..Len(q.objs)
      /\ v.kind = "op" => v.event \in DOMAIN p.evs
  BY DEF Adds
<1>2. Typed(p)
  BY DEF Sound
<1>3. Grown(p, q, n, v)
  <2>1. p.nodes \in Seq(Node)
    BY <1>2 DEF Typed
  <2>2. PICK m \in Nat : m = Len(p.nodes)
    BY <2>1
  <2>3. /\ q.nodes \in Seq(Node) /\ Len(q.nodes) = m + 1 /\ q.nodes[m + 1] = v
        /\ \A x \in 1..m : q.nodes[x] = p.nodes[x]
    BY <1>1, <2>1, <2>2
  <2>4. DOMAIN p.nodes = 1..m /\ DOMAIN q.nodes = 1..(m + 1)
    BY <2>1, <2>2, <2>3
  <2> QED
    BY <2>2, <2>3, <2>4 DEF Grown, None
<1>4. /\ n \notin DOMAIN p.nodes /\ n # None /\ DOMAIN q.nodes = DOMAIN p.nodes \union {n}
      /\ q.nodes[n] = v /\ \A x \in DOMAIN p.nodes : q.nodes[x] = p.nodes[x]
      /\ None \notin DOMAIN p.nodes
  <2>1. None \notin DOMAIN p.nodes
    BY <1>2 DEF Typed, None
  <2> QED
    BY <1>3, <2>1 DEF Grown
<1>5. DOMAIN p.objs \subseteq DOMAIN q.objs /\ v.obj \in DOMAIN q.objs
  <2>1. DOMAIN p.objs = 1..Len(p.objs) /\ DOMAIN q.objs = 1..Len(q.objs)
        /\ Len(p.objs) \in Nat /\ Len(q.objs) \in Nat
    BY <1>1, <1>2 DEF Typed, IsSeq
  <2> QED
    BY <1>1, <2>1
<1>6. NodesRefer(q)
  <2>1. ASSUME NEW x \in DOMAIN p.nodes
        PROVE  /\ q.nodes[x].obj \in DOMAIN q.objs
               /\ IsNode(q, q.nodes[x].next) /\ IsNode(q, q.nodes[x].first)
               /\ IsNode(q, q.nodes[x].mods)
               /\ q.nodes[x].kind = "op" =>
                      q.nodes[x].event \in DOMAIN q.evs /\ q.nodes[x].first = None
    BY <1>1, <1>4, <1>5 DEF Sound, NodesRefer, IsNode
  <2>2. IsNode(q, v.next) /\ IsNode(q, v.first) /\ IsNode(q, v.mods)
    BY <1>1 DEF IsNode
  <2> QED
    BY <1>1, <1>4, <1>5, <2>1, <2>2 DEF NodesRefer
<1>7. EventsRefer(q, e) /\ LabelsRefer(q)
  BY <1>1, <1>4 DEF Sound, EventsRefer, LabelsRefer, IsNode
<1>8. Once(q, n)
  <2>1. ASSUME NEW y \in DOMAIN q.nodes PROVE From(q, y) = From(p, y)
    BY <1>1, <1>4 DEF From
  <2>2. From(p, n) = {}
    <3>1. \A x \in DOMAIN p.nodes :
             p.nodes[x].next # n /\ p.nodes[x].first # n /\ p.nodes[x].mods # n
      BY <1>4 DEF Sound, NodesRefer, IsNode
    <3>2. \A x \in DOMAIN p.evs : p.evs[x].main_obj # n
      BY <1>4 DEF Sound, EventsRefer
    <3> QED
      BY <3>1, <3>2 DEF From
  <2>3. \A y \in DOMAIN p.nodes : \E x \in From(p, y) : From(p, y) = {x}
    BY <1>4 DEF Sound, Once
  <2> QED
    BY <1>4, <2>1, <2>2, <2>3 DEF Once
<1>9. \A t \in 1..MaxLevels : /\ p.slots[t].list # n /\ p.slots[t].last_item # n
                              /\ p.slots[t].last_mods # n
  BY <1>4 DEF Sound, SlotsRefer, Ends, IsEnd, IsNode
<1> QED
  BY <1>3, <1>6, <1>7, <1>8, <1>9 DEF Added

-----------------------------------------------------------------------------
(* begin_operator() *)

(* The level of a step that was begun just now. *)
InNewStep(p, r) ==
    /\ Top(r) = Top(p) /\ r.nested = p.nested
    /\ Stepping(Pl(r)) /\ Pl(r).scope = Pl(p).scope /\ Pl(r).use = Pl(p).use
    /\ Pl(r).param = "none" /\ Pl(r).op \in DOMAIN r.nodes

(* The node of a new step, as it is before it is linked. *)
StepNode(q, prev, v) ==
    /\ v \in Node /\ v.kind = "op" /\ v.next = None /\ v.first = None /\ v.mods = None
    /\ v.event = Pl(q).event /\ v.amp = 1 /\ v.mult = q.options.def_ampmult
    /\ v.obj = IF prev = None THEN Len(q.objs) + 1 ELSE q.nodes[prev].obj

LEMMA StepLevel ==
    ASSUME NEW q, NEW e, Sound(q, 0, e, None), ~Pl(q).own_op,
           Pl(q).event # None, ~Pl(q).wait, NEW prev, IsOp(q, prev),
           NEW n, n = Len(q.nodes) + 1,
           NEW v, StepNode(q, prev, v),
           NEW l \in Level, l.scope = Pl(q).scope, l.use = Pl(q).use,
           l.outer_options = Pl(q).outer_options, l.event = Pl(q).event,
           l.own_ev = Pl(q).own_ev, l.wait = Pl(q).wait, l.param = Pl(q).param,
           l.op = n, l.own_op, l.used_ampmult = q.options.def_ampmult, l.sub = "op_step",
           NEW p, Shape(p), p.levels = [q.levels EXCEPT ![Top(q)] = l],
           p.slots = q.slots, p.nested = q.nested, p.evs = q.evs,
           p.labels = q.labels, p.options = q.options, p.nodes = Append(q.nodes, v),
           IsSeq(p.objs), Len(p.objs) = IF prev = None THEN Len(q.objs) + 1 ELSE Len(q.objs)
    PROVE  /\ Sound(p, 0, e, n) /\ Fresh(p, n) /\ Settled(p)
           /\ Top(p) = Top(q) /\ Pl(p) = l /\ n \in DOMAIN p.nodes
<1>1. Typed(q) /\ p.options \in Options
  BY DEF Sound, Typed
<1>2. /\ Top(q) \in Nat \ {0} /\ q.levels \in Seq(Level) /\ Pl(q) = q.levels[Top(q)]
      /\ Top(q) = Len(q.levels) /\ Top(q) <= MaxLevels
      /\ LevelRefers(q, Pl(q)) /\ Pl(q).param = "none"
  BY <1>1, TopLevelOf DEF Sound, LevelsRefer, Nested
<1>3. /\ Top(p) = Top(q) /\ Pl(p) = l /\ p.levels[Top(q)] = l /\ p.levels \in Seq(Level)
      /\ \A k \in 1..Top(q) : k # Top(q) => p.levels[k] = q.levels[k]
  BY <1>2 DEF Top, Pl
<1>4. v.obj \in 1..Len(p.objs) /\ Len(q.objs) <= Len(p.objs)
  <2>1. Len(q.objs) \in Nat /\ DOMAIN q.objs = 1..Len(q.objs)
    BY <1>1 DEF Typed, IsSeq
  <2>2. prev # None => q.nodes[prev].obj \in 1..Len(q.objs)
    BY <2>1 DEF IsOp, Sound, NodesRefer
  <2> QED
    BY <2>1, <2>2 DEF StepNode
<1>5. /\ Grown(q, p, n, v)
      /\ NodesRefer(p) /\ EventsRefer(p, e) /\ LabelsRefer(p) /\ Once(p, n)
      /\ \A t \in 1..MaxLevels : /\ q.slots[t].list # n /\ q.slots[t].last_item # n
                                 /\ q.slots[t].last_mods # n
  <2>1. v.event \in DOMAIN q.evs
    BY <1>2 DEF StepNode, LevelRefers
  <2>2. Adds(q, p, v)
    BY <1>4, <2>1 DEF StepNode, Adds
  <2>3. Added(q, p, e, n, v)
    BY <2>2, NewNodeSound
  <2> QED
    BY <2>3 DEF Added
<1>6. /\ n \in Nat /\ n # None /\ n \notin DOMAIN q.nodes /\ n \in DOMAIN p.nodes
      /\ p.nodes \in Seq(Node) /\ DOMAIN p.nodes = DOMAIN q.nodes \union {n}
      /\ p.nodes[n] = v /\ \A x \in DOMAIN q.nodes : p.nodes[x] = q.nodes[x]
  BY <1>5 DEF Grown
<1>7. ASSUME NEW k \in 1..Top(q)
      PROVE  /\ p.levels[k].scope = q.levels[k].scope
             /\ p.levels[k].outer_options = q.levels[k].outer_options
             /\ Place(p.levels, k) = Place(q.levels, k)
  <2>1. \A j \in 1..Top(q) : /\ p.levels[j].scope = q.levels[j].scope
                             /\ p.levels[j].outer_options = q.levels[j].outer_options
    BY <1>2, <1>3
  <2> QED
    BY <1>2, <2>1, PlaceSame
<1>8. Typed(p)
  BY <1>1, <1>3, <1>6 DEF Typed
<1>9. ASSUME NEW k \in 1..Top(q), q.levels[k].op # None
      PROVE  q.levels[k].op \in DOMAIN q.nodes /\ q.nodes[q.levels[k].op].kind = "op"
  BY <1>9 DEF Sound, LevelsRefer, LevelRefers, IsOp
<1>10. LevelsRefer(p)
  <2>1. p.levels[1].scope = "group"
    BY <1>2, <1>7 DEF Sound, LevelsRefer
  <2>2. ASSUME NEW k \in 1..Top(q) PROVE LevelRefers(p, p.levels[k])
    <3>1. CASE k = Top(q)
      BY <1>2, <1>3, <1>6, <3>1 DEF LevelRefers, IsOp, StepNode
    <3>2. CASE k # Top(q)
      BY <1>3, <1>6, <1>9, <3>2 DEF Sound, LevelsRefer, LevelRefers, IsOp
    <3> QED
      BY <3>1, <3>2
  <2>3. ASSUME NEW k \in 1..(Top(q) - 1)
        PROVE  /\ HasEvent(p.levels, k)
               /\ p.levels[k].param # "none" =>
                      p.levels[k + 1].scope = "nest" /\ Stepping(p.levels[k])
    <3>1. k \in 1..Top(q) /\ k + 1 \in 1..Top(q) /\ p.levels[k] = q.levels[k]
      BY <1>2, <1>3
    <3>2. /\ HasEvent(q.levels, k)
          /\ q.levels[k].param # "none" =>
                 q.levels[k + 1].scope = "nest" /\ Stepping(q.levels[k])
      BY DEF Sound, LevelsRefer
    <3> QED
      BY <1>7, <3>1, <3>2 DEF HasEvent
  <2>4. UsesNested(p)
    <3>1. \A k \in 1..Top(q) : p.levels[k].use = q.levels[k].use
      BY <1>2, <1>3
    <3> QED
      BY <1>3, <1>7, <3>1, UsesKept DEF Sound, LevelsRefer
  <2> QED
    BY <1>3, <2>1, <2>2, <2>3, <2>4 DEF LevelsRefer
<1>11. Nested(p, 0)
  <2>1. p.nested = Place(p.levels, Top(p)) + 0 /\ Pl(p).param = "none"
    BY <1>2, <1>3, <1>7 DEF Sound, Nested
  <2>2. ASSUME NEW k \in 1..Top(q), p.levels[k].scope = "nest"
        PROVE  p.slots[Place(p.levels, k)].options = p.levels[k].outer_options
    <3>1. q.levels[k].scope = "nest"
      BY <1>7, <2>2
    <3>2. q.slots[Place(q.levels, k)].options = q.levels[k].outer_options
      BY <3>1 DEF Sound, Nested
    <3> QED
      BY <1>7, <3>2
  <2> QED
    BY <1>3, <2>1, <2>2 DEF Nested
<1>12. SlotsRefer(p) /\ SlotsUsed(p, p.nested - 0)
  BY <1>6 DEF Sound, SlotsRefer, SlotsUsed, IsNode
<1>13. Scaled(p)
  <2>1. ASSUME NEW k \in 1..Top(q), p.levels[k].own_op, k # Top(q)
        PROVE  /\ q.levels[k].own_op /\ p.levels[k] = q.levels[k]
               /\ q.levels[k].op \in DOMAIN q.nodes /\ q.levels[k].op # n
    BY <1>3, <1>6, <1>9, <2>1 DEF Sound, LevelsRefer, LevelRefers
  <2>2. ASSUME NEW k \in 1..Top(q), p.levels[k].own_op
        PROVE  /\ p.nodes[p.levels[k].op].amp = 1
               /\ p.nodes[p.levels[k].op].mult = p.levels[k].used_ampmult
    <3>1. CASE k = Top(q)
      BY <1>3, <1>6, <3>1 DEF StepNode
    <3>2. CASE k # Top(q)
      BY <1>6, <2>1, <2>2, <3>2 DEF Sound, Scaled
    <3> QED
      BY <3>1, <3>2
  <2>3. ASSUME NEW j \in 1..Top(q), NEW k \in 1..Top(q),
               p.levels[j].own_op, p.levels[k].own_op, p.levels[j].op = p.levels[k].op
        PROVE  j = k
    <3>1. CASE j # Top(q) /\ k # Top(q)
      BY <2>1, <2>3, <3>1 DEF Sound, Scaled
    <3>2. CASE j = Top(q) \/ k = Top(q)
      BY <1>3, <2>1, <2>3, <3>2
    <3> QED
      BY <3>1, <3>2
  <2>4. ASSUME NEW x \in DOMAIN p.nodes, p.nodes[x].kind = "op",
               \A k \in 1..Top(q) : ~Owns(p, k, x)
        PROVE  p.nodes[x].amp = p.nodes[x].mult
    <3>1. x # n
      BY <1>2, <1>3, <2>4 DEF Owns
    <3>2. \A k \in 1..Top(q) : ~Owns(q, k, x)
      BY <1>2, <1>3, <2>4 DEF Owns
    <3> QED
      BY <1>6, <2>4, <3>1, <3>2 DEF Sound, Scaled
  <2> QED
    BY <1>3, <2>2, <2>3, <2>4 DEF Scaled
<1>14. Ends(p)
  BY <1>6 DEF Sound, Ends, IsEnd
<1>15. ModsEnd(p)
  <2>1. ASSUME NEW k \in 1..Top(q), k # Top(q), Stepping(p.levels[k])
        PROVE  /\ Stepping(q.levels[k]) /\ p.levels[k] = q.levels[k]
               /\ q.levels[k].op \in DOMAIN q.nodes /\ q.levels[k].op # n
    BY <1>3, <1>6, <1>9, <2>1 DEF Stepping
  <2>2. ASSUME NEW k \in 1..Top(q), Stepping(p.levels[k]),
               p.nodes[p.levels[k].op].mods # None
        PROVE  /\ Place(p.levels, k) + 1 \in 1..MaxLevels
               /\ p.slots[Place(p.levels, k) + 1].last_mods # None
    <3>1. k # Top(q)
      BY <1>3, <1>6, <2>2 DEF StepNode
    <3>2. /\ Stepping(q.levels[k]) /\ p.levels[k] = q.levels[k]
          /\ q.levels[k].op \in DOMAIN q.nodes
      BY <2>1, <2>2, <3>1
    <3>3. q.nodes[q.levels[k].op].mods # None
      BY <1>6, <2>2, <3>2
    <3>4. /\ Place(q.levels, k) + 1 \in 1..MaxLevels
          /\ q.slots[Place(q.levels, k) + 1].last_mods # None
      BY <3>2, <3>3 DEF Sound, ModsEnd
    <3> QED
      BY <1>7, <3>4
  <2>3. ASSUME NEW j \in 1..Top(q), NEW k \in 1..Top(q), Stepping(p.levels[j]),
               Stepping(p.levels[k]), p.levels[j].op = p.levels[k].op
        PROVE  Place(p.levels, j) = Place(p.levels, k)
    <3>1. CASE j # Top(q) /\ k # Top(q)
      BY <1>7, <2>1, <2>3, <3>1 DEF Sound, ModsEnd
    <3>2. CASE j = Top(q) \/ k = Top(q)
      BY <1>3, <2>1, <2>3, <3>2
    <3> QED
      BY <3>1, <3>2
  <2> QED
    BY <1>3, <2>2, <2>3 DEF ModsEnd
<1>16. Sound(p, 0, e, n)
  BY <1>5, <1>8, <1>10, <1>11, <1>12, <1>13, <1>14, <1>15 DEF Sound
<1>17. Fresh(p, n)
  BY <1>5, <1>6 DEF Fresh, StepNode
<1>18. Settled(p)
  BY <1>3 DEF Settled, HasEvent
<1> QED
  BY <1>3, <1>6, <1>16, <1>17, <1>18

(* What link_ev_obj() leaves alone. *)
LinkKept(p, q) ==
    /\ Shape(q) /\ q.options = p.options /\ q.nested = p.nested /\ q.objs = p.objs
    /\ q.slots \in [1..MaxLevels -> Slot]
    /\ \A t \in 1..MaxLevels :
          /\ q.slots[t].options = p.slots[t].options /\ q.slots[t].list = p.slots[t].list
          /\ q.slots[t].last_mods = p.slots[t].last_mods

LEMMA LinkObjKeeps ==
    ASSUME NEW p, Shape(p), p.slots \in [1..MaxLevels -> Slot], NEW n \in Nat,
           NEW k, NEW s, NEW prev, NEW q, q = LinkObj(p, k, s, n, prev)
    PROVE  LinkKept(p, q)
<1>1. PICK p2 : p2 = [p EXCEPT !.nodes[n].next = None]
  OBVIOUS
<1>2. /\ Shape(p2) /\ p2.options = p.options /\ p2.nested = p.nested /\ p2.objs = p.objs
      /\ p2.slots = p.slots
  BY <1>1 DEF Shape
<1>3. PICK p3 : p3 = Linked(p2, k, s, n, prev)
  OBVIOUS
<1>4. LinkKept(p, p3)
  <2>1. CASE prev # None \/ s = 0
    <3>1. p3 = [p2 EXCEPT !.evs[p2.levels[k].event].main_obj = n]
      BY <1>3, <2>1 DEF Linked
    <3> QED
      BY <1>2, <3>1, SMTT(30) DEF LinkKept, Shape
  <2>2. CASE ~(prev # None \/ s = 0)
    <3>1. PICK list : list = p2.slots[s].list
      OBVIOUS
    <3>2. PICK p4 : p4 = IF p2.nodes[list].first = None
                         THEN [p2 EXCEPT !.nodes[list].first = n]
                         ELSE [p2 EXCEPT !.nodes[p2.slots[s].last_item].next = n]
      OBVIOUS
    <3>3. p3 = [p4 EXCEPT !.slots[s].last_item = n]
      BY <1>3, <2>2, <3>1, <3>2 DEF Linked
    <3>4. /\ Shape(p4) /\ p4.options = p.options /\ p4.nested = p.nested
          /\ p4.objs = p.objs /\ p4.slots = p.slots
      BY <1>2, <3>2 DEF Shape
    <3>5. PICK ss : ss = [p.slots EXCEPT ![s].last_item = n]
      OBVIOUS
    <3>6. /\ ss \in [1..MaxLevels -> Slot]
          /\ \A t \in 1..MaxLevels :
                /\ ss[t].options = p.slots[t].options /\ ss[t].list = p.slots[t].list
                /\ ss[t].last_mods = p.slots[t].last_mods
      BY <3>5 DEF Slot
    <3>7. /\ Shape(p3) /\ p3.options = p.options /\ p3.nested = p.nested
          /\ p3.objs = p.objs /\ p3.slots = ss
      BY <3>3, <3>4, <3>5 DEF Shape
    <3> QED
      BY <3>6, <3>7 DEF LinkKept
  <2> QED
    BY <2>1, <2>2
<1>5. q = Labelled(p3, k, n)
  BY <1>1, <1>3 DEF LinkObj
<1>6. CASE p3.levels[k].set_label = NoName
  BY <1>4, <1>5, <1>6 DEF Labelled
<1>7. CASE p3.levels[k].set_label # NoName
  <2>1. q = [p3 EXCEPT !.labels[p3.levels[k].set_label] = n, !.levels[k].set_label = NoName]
    BY <1>5, <1>7 DEF Labelled
  <2>2. /\ Shape(q) /\ q.options = p3.options /\ q.nested = p3.nested
        /\ q.objs = p3.objs /\ q.slots = p3.slots
    BY <1>4, <2>1 DEF Shape, LinkKept
  <2> QED
    BY <1>4, <2>2 DEF LinkKept
<1> QED
  BY <1>6, <1>7

(* A node for a step, without what is made of it later. *)
Made(made, id, ev, mult) ==
    /\ made \in Node /\ made.kind = "op" /\ made.first = None /\ made.mods = None
    /\ made.event = ev /\ made.amp = 1 /\ made.mult = mult /\ made.obj = id

LEMMA PlainNodeMade ==
    ASSUME NEW id \in Nat, NEW ev \in Nat, NEW mult \in Nat
    PROVE  Made([kind |-> "op", obj |-> id, prev |-> None, next |-> None, event |-> ev,
                 mods |-> None, first |-> None, amp |-> 1, mult |-> mult], id, ev, mult)
BY DEF Made, Node, None

LEMMA NewNodeMade ==
    ASSUME NEW id \in Nat, NEW ev \in Nat, NEW mult \in Nat,
           NEW made, made = [NewNode EXCEPT !.kind = "op", !.obj = id, !.event = ev,
                                            !.mult = mult]
    PROVE  Made(made, id, ev, mult)
<1>1. made = [kind |-> "op", obj |-> id, prev |-> None, next |-> None,
              event |-> ev, mods |-> None, first |-> None, amp |-> 1, mult |-> mult]
  BY DEF NewNode
<1> QED
  BY <1>1, PlainNodeMade, ZenonT(40)

LEMMA CopiedNodeMade ==
    ASSUME NEW w \in Node, w.kind = "op", w.first = None,
           NEW prev \in Nat, NEW ev \in Nat, NEW mult \in Nat,
           NEW made, made = [w EXCEPT !.prev = prev, !.event = ev, !.mods = None,
                                      !.amp = 1, !.mult = mult]
    PROVE  Made(made, w.obj, ev, mult)
BY DEF Made, Node, None

LEMMA NextReset ==
    ASSUME NEW made \in Node, NEW v, v = [made EXCEPT !.next = None]
    PROVE  /\ v \in Node /\ v.next = None /\ v.kind = made.kind /\ v.first = made.first
           /\ v.mods = made.mods /\ v.event = made.event /\ v.amp = made.amp
           /\ v.mult = made.mult /\ v.obj = made.obj
BY DEF Node, None

MadeNode(q, prev) ==
    IF prev = None
    THEN [NewNode EXCEPT !.kind = "op", !.obj = Len(q.objs) + 1,
                         !.event = Pl(q).event, !.mult = q.options.def_ampmult]
    ELSE [q.nodes[prev] EXCEPT !.prev = prev, !.event = Pl(q).event, !.mods = None,
                               !.amp = 1, !.mult = q.options.def_ampmult]

LEMMA StepNodeMade ==
    ASSUME NEW q, NEW e, Sound(q, 0, e, None), NEW prev, IsOp(q, prev),
           NEW v, v = [MadeNode(q, prev) EXCEPT !.next = None]
    PROVE  StepNode(q, prev, v) /\ MadeNode(q, prev) \in Node
<1>1. Typed(q)
  BY DEF Sound
<1>2. PICK made : made = MadeNode(q, prev)
  OBVIOUS
<1>3. PICK id, ev, mult : id = Len(q.objs) + 1 /\ ev = Pl(q).event
                          /\ mult = q.options.def_ampmult
  OBVIOUS
<1>4. id \in Nat /\ ev \in Nat /\ mult \in Nat /\ q.nodes \in Seq(Node)
  <2>1. Pl(q).event \in Nat
    BY <1>1, TopLevelOf DEF Level
  <2>2. q.options.def_ampmult \in Nat /\ Len(q.objs) \in Nat /\ q.nodes \in Seq(Node)
    BY <1>1 DEF Typed, Options, IsSeq
  <2> QED
    BY <1>3, <2>1, <2>2
<1>5. Made(made, IF prev = None THEN id ELSE q.nodes[prev].obj, ev, mult)
  <2>1. CASE prev = None
    <3>1. made = [NewNode EXCEPT !.kind = "op", !.obj = id, !.event = ev, !.mult = mult]
      BY <1>2, <1>3, <2>1 DEF MadeNode
    <3>2. Made(made, id, ev, mult)
      BY <1>4, <3>1, NewNodeMade
    <3> QED
      BY <2>1, <3>2
  <2>2. CASE prev # None
    <3>1. prev \in DOMAIN q.nodes /\ q.nodes[prev].kind = "op" /\ q.nodes[prev].first = None
      BY <2>2 DEF IsOp, Sound, NodesRefer
    <3>2. prev \in Nat /\ q.nodes[prev] \in Node
      BY <1>4, <3>1
    <3>3. PICK w : w = q.nodes[prev]
      OBVIOUS
    <3>4. made = [w EXCEPT !.prev = prev, !.event = ev, !.mods = None,
                           !.amp = 1, !.mult = mult]
      BY <1>2, <1>3, <2>2, <3>3 DEF MadeNode
    <3>5. Made(made, w.obj, ev, mult)
      BY <1>4, <3>1, <3>2, <3>3, <3>4, CopiedNodeMade
    <3> QED
      BY <2>2, <3>3, <3>5
  <2> QED
    BY <2>1, <2>2
<1>6. /\ v \in Node /\ v.next = None /\ v.kind = made.kind /\ v.first = made.first
      /\ v.mods = made.mods /\ v.event = made.event /\ v.amp = made.amp
      /\ v.mult = made.mult /\ v.obj = made.obj
  BY <1>2, <1>5, NextReset DEF Made
<1> QED
  BY <1>2, <1>3, <1>5, <1>6 DEF StepNode, Made

(* LinkObjSound, for use: what it needs, what r is, and of its levels.     *)
LinkReady(p, p1, k, s, n, prev, e) ==
    /\ Fresh(p1, n) /\ Shape(p)
    /\ p.levels = p1.levels /\ p.labels = p1.labels /\ p.nested = p1.nested
    /\ p.objs = p1.objs /\ p.evs = p1.evs /\ p1.nodes = [p.nodes EXCEPT ![n].next = None]
    /\ SamePlaces(p1, p) /\ k \in 1..Top(p1)
    /\ IF prev # None \/ s = 0 THEN e = p.levels[k].event /\ e # None
       ELSE e = None /\ s \in 1..MaxLevels /\ p.slots[s].list # None

LinkDone(p1, q, r) ==
    /\ Shape(r) /\ r.levels = q.levels /\ r.labels = q.labels /\ r.nested = q.nested
    /\ r.objs = q.objs /\ r.evs = q.evs /\ r.nodes = q.nodes /\ r.options = p1.options
    /\ SamePlaces(q, r) /\ \A t \in 1..MaxLevels : r.slots[t].options = p1.slots[t].options

EqualLevels(p, q) ==
    Top(q) = Top(p) /\ \A j \in 1..Top(p) : EqualLevel(q.levels[j], p.levels[j])

LEMMA LinkSound ==
    ASSUME NEW p, NEW p1, NEW more \in {0, 1}, NEW k, NEW s, NEW n, NEW prev, NEW e,
           Sound(p1, more, e, n), LinkReady(p, p1, k, s, n, prev, e),
           NEW r, LinkDone(p1, LinkObj(p, k, s, n, prev), r)
    PROVE  Sound(r, more, None, None) /\ EqualLevels(p1, r)
<1>1. PICK q : q = LinkObj(p, k, s, n, prev)
  OBVIOUS
<1>2. /\ Fresh(p1, n) /\ Shape(p) /\ p.levels = p1.levels /\ p.labels = p1.labels
      /\ p.nested = p1.nested /\ p.objs = p1.objs /\ p.evs = p1.evs
      /\ p1.nodes = [p.nodes EXCEPT ![n].next = None] /\ SamePlaces(p1, p)
      /\ k \in 1..Top(p1)
      /\ IF prev # None \/ s = 0 THEN e = p.levels[k].event /\ e # None
         ELSE e = None /\ s \in 1..MaxLevels /\ p.slots[s].list # None
  BY DEF LinkReady
<1>3. /\ Shape(r) /\ r.levels = q.levels /\ r.labels = q.labels /\ r.nested = q.nested
      /\ r.objs = q.objs /\ r.evs = q.evs /\ r.nodes = q.nodes /\ r.options = p1.options
      /\ SamePlaces(q, r) /\ \A t \in 1..MaxLevels : r.slots[t].options = p1.slots[t].options
  BY <1>1 DEF LinkDone
<1>4. Sound(r, more, None, None) /\ Top(r) = Top(p1)
      /\ \A j \in 1..Top(p1) : EqualLevel(r.levels[j], p1.levels[j])
  BY <1>1, <1>2, <1>3, LinkObjSound
<1> QED
  BY <1>4 DEF EqualLevels

StepBegun(q, p, n, l, v, prev) ==
    /\ l \in Level /\ l.scope = Pl(q).scope /\ l.use = Pl(q).use
    /\ l.outer_options = Pl(q).outer_options /\ l.event = Pl(q).event
    /\ l.own_ev = Pl(q).own_ev /\ l.wait = Pl(q).wait /\ l.param = Pl(q).param
    /\ l.op = n /\ l.own_op /\ l.used_ampmult = q.options.def_ampmult /\ l.sub = "op_step"
    /\ Shape(p) /\ p.levels = [q.levels EXCEPT ![Top(q)] = l]
    /\ p.slots = q.slots /\ p.nested = q.nested /\ p.evs = q.evs
    /\ p.labels = q.labels /\ p.options = q.options /\ p.nodes = Append(q.nodes, v)
    /\ IsSeq(p.objs)
    /\ Len(p.objs) = IF prev = None THEN Len(q.objs) + 1 ELSE Len(q.objs)

StepSound(q, p, e, n, l) ==
    /\ Sound(p, 0, e, n) /\ Fresh(p, n) /\ Settled(p)
    /\ Top(p) = Top(q) /\ Pl(p) = l /\ n \in DOMAIN p.nodes

LEMMA StepBegunSound ==
    ASSUME NEW q, NEW e, Sound(q, 0, e, None), ~Pl(q).own_op,
           Pl(q).event # None, ~Pl(q).wait, NEW prev, IsOp(q, prev),
           NEW v, StepNode(q, prev, v), NEW n, n = Len(q.nodes) + 1,
           NEW l, NEW p, StepBegun(q, p, n, l, v, prev)
    PROVE  StepSound(q, p, e, n, l)
<1>1. /\ l \in Level /\ l.scope = Pl(q).scope /\ l.use = Pl(q).use
      /\ l.outer_options = Pl(q).outer_options /\ l.event = Pl(q).event
      /\ l.own_ev = Pl(q).own_ev /\ l.wait = Pl(q).wait /\ l.param = Pl(q).param
      /\ l.op = n /\ l.own_op /\ l.used_ampmult = q.options.def_ampmult /\ l.sub = "op_step"
      /\ Shape(p) /\ p.levels = [q.levels EXCEPT ![Top(q)] = l]
      /\ p.slots = q.slots /\ p.nested = q.nested /\ p.evs = q.evs
      /\ p.labels = q.labels /\ p.options = q.options /\ p.nodes = Append(q.nodes, v)
      /\ IsSeq(p.objs)
      /\ Len(p.objs) = IF prev = None THEN Len(q.objs) + 1 ELSE Len(q.objs)
  BY DEF StepBegun
<1>2. /\ Sound(p, 0, e, n) /\ Fresh(p, n) /\ Settled(p)
      /\ Top(p) = Top(q) /\ Pl(p) = l /\ n \in DOMAIN p.nodes
  BY <1>1, StepLevel
<1> QED
  BY <1>2 DEF StepSound

NewStep(p, r) == Sound(r, 0, None, None) /\ Settled(r) /\ InNewStep(p, r)

ResetLast(s, made, v) ==
    Append(s, v) = [Append(s, made) EXCEPT ![Len(s) + 1].next = None]

LEMMA NodeReset ==
    ASSUME NEW s \in Seq(Node), NEW made \in Node, NEW v, v = [made EXCEPT !.next = None]
    PROVE  ResetLast(s, made, v)
<1> DEFINE n == Len(s) + 1
<1>1. v \in Node
  BY NextReset
<1>2. PICK m \in Nat : m = Len(s) /\ n = m + 1
  OBVIOUS
<1> HIDE DEF n
<1>3. PICK a, b : a = Append(s, made) /\ b = Append(s, v)
  OBVIOUS
<1>4. /\ a \in Seq(Node) /\ Len(a) = m + 1 /\ a[n] = made /\ \A i \in 1..m : a[i] = s[i]
      /\ b \in Seq(Node) /\ Len(b) = m + 1 /\ b[n] = v /\ \A i \in 1..m : b[i] = s[i]
  BY <1>1, <1>2, <1>3
<1>5. a = [i \in 1..n |-> a[i]] /\ b = [i \in 1..n |-> b[i]]
  BY <1>2, <1>4
<1>6. PICK c : c = [a EXCEPT ![n].next = None]
  OBVIOUS
<1>7. c = [i \in 1..n |-> IF i = n THEN v ELSE a[i]]
  BY <1>2, <1>4, <1>5, <1>6
<1>8. \A i \in 1..n : b[i] = IF i = n THEN v ELSE a[i]
  BY <1>2, <1>4
<1>9. b = c
  BY <1>5, <1>7, <1>8
<1> QED
  BY <1>3, <1>6, <1>9 DEF ResetLast, n

LEMMA NextOperatorSound ==
    ASSUME NEW q, NEW prev, IsOp(q, prev),
           NEW e, e = IF prev # None \/ q.nested = 0 THEN Pl(q).event ELSE None,
           Sound(q, 0, e, None), ~Pl(q).own_op, Pl(q).event # None, ~Pl(q).wait,
           NEW compstep \in BOOLEAN, NEW r, r = NextOperator(q, prev, compstep)
    PROVE  NewStep(q, r)
<1>1. /\ Shape(q) /\ Typed(q) /\ Pl(q).param = "none"
      /\ q.nodes \in Seq(Node) /\ IsSeq(q.objs) /\ q.slots \in [1..MaxLevels -> Slot]
      /\ q.nested \in 0..MaxLevels /\ SlotsUsed(q, q.nested - 0) /\ q.options \in Options
  BY DEF Sound, Nested, Typed
<1>2. /\ Top(q) \in Nat \ {0} /\ Pl(q) \in Level /\ Pl(q) = q.levels[Top(q)]
      /\ Top(q) = Len(q.levels) /\ q.levels \in Seq(Level)
  BY <1>1, TopLevelOf
<1>3. PICK l, n, id : l = Pl(q) /\ n = Len(q.nodes) + 1 /\ id = Len(q.objs) + 1
  OBVIOUS
<1>4. PICK made : made = MadeNode(q, prev)
  OBVIOUS
<1>5. PICK v : v = [made EXCEPT !.next = None]
  OBVIOUS
<1>6. StepNode(q, prev, v) /\ made \in Node
  BY <1>4, <1>5, StepNodeMade
<1>7. PICK root : root = IF prev = None /\ ~(l.use # "carr") THEN id ELSE q.root_op
  OBVIOUS
<1>8. PICK obj : obj = [root |-> root,
                        parent |-> IF l.use # "carr" /\ q.nested > 0
                                   THEN q.objs[q.nodes[Tip(q).list].obj].parent ELSE id]
  OBVIOUS
<1>9. PICK objs : objs = IF prev = None THEN Append(q.objs, obj) ELSE q.objs
  OBVIOUS
<1>10. PICK r0 : r0 = [q EXCEPT !.nodes = Append(@, made), !.objs = objs, !.root_op = root]
  OBVIOUS
<1>11. PICK m : m = [l EXCEPT !.op = n, !.own_op = TRUE, !.fork = @ \/ ~compstep,
                              !.used_ampmult = q.options.def_ampmult, !.sub = "op_step"]
  OBVIOUS
<1>12. PICK p : p = SetPl(r0, m)
  OBVIOUS
<1>13. /\ Shape(r0) /\ r0.levels = q.levels /\ r0.slots = q.slots /\ r0.nested = q.nested
       /\ r0.nodes = Append(q.nodes, made) /\ r0.objs = objs /\ r0.evs = q.evs
       /\ r0.labels = q.labels /\ r0.options = q.options
  BY <1>1, <1>10 DEF Shape
<1>14. Is(p, [q.levels EXCEPT ![Top(q)] = m], q.slots, q.nested,
          Append(q.nodes, made), objs, q.evs, q.labels, q.options)
  <2>1. Is(p, [r0.levels EXCEPT ![Top(r0)] = m], r0.slots, r0.nested, r0.nodes,
           r0.objs, r0.evs, r0.labels, r0.options)
    BY <1>12, <1>13, SetPlIs
  <2> QED
    BY <1>13, <2>1 DEF Top
<1>15. r = LinkObj(p, Top(q), q.nested, n, prev)
  <2>1. r = LinkObj(p, Top(r0), r0.nested, n, prev)
    BY <1>3, <1>4, <1>7, <1>8, <1>9, <1>10, <1>11, <1>12, ZenonT(40) DEF NextOperator, MadeNode
  <2> QED
    BY <1>13, <2>1 DEF Top
<1>16. PICK p1 : p1 = [p EXCEPT !.nodes = Append(q.nodes, v)]
  OBVIOUS
<1>17. Is(p1, [q.levels EXCEPT ![Top(q)] = m], q.slots, q.nested,
          Append(q.nodes, v), objs, q.evs, q.labels, q.options)
  BY <1>14, <1>16 DEF Is, Shape
<1>18. StepBegun(q, p1, n, m, v, prev)
  <2>1. n \in Nat /\ q.options.def_ampmult \in Nat
    BY <1>1, <1>3 DEF Options
  <2>2. m \in Level
    BY <1>2, <1>3, <1>11, <2>1 DEF Level
  <2>3. /\ m.scope = l.scope /\ m.use = l.use /\ m.outer_options = l.outer_options
        /\ m.event = l.event /\ m.own_ev = l.own_ev /\ m.wait = l.wait
        /\ m.param = l.param /\ m.op = n /\ m.own_op
        /\ m.used_ampmult = q.options.def_ampmult /\ m.sub = "op_step"
    BY <1>2, <1>3, <1>11 DEF Level
  <2>4. /\ IsSeq(objs)
        /\ Len(objs) = IF prev = None THEN Len(q.objs) + 1 ELSE Len(q.objs)
    BY <1>1, <1>9, AppendIs
  <2> QED
    BY <1>3, <1>17, <2>2, <2>3, <2>4 DEF StepBegun, Is
<1>19. StepSound(q, p1, e, n, m)
  BY <1>3, <1>6, <1>18, StepBegunSound
<1>20. LinkReady(p, p1, Top(q), q.nested, n, prev, e)
  <2>1. p1.nodes = [p.nodes EXCEPT ![n].next = None]
    <3>1. ResetLast(q.nodes, made, v)
      BY <1>1, <1>5, <1>6, NodeReset
    <3> QED
      BY <1>3, <1>14, <1>17, <3>1 DEF Is, ResetLast
  <2>2. SamePlaces(p1, p)
    BY <1>1, <1>14, <1>17 DEF SamePlaces, Is
  <2>3. p.levels[Top(q)].event = Pl(q).event
    BY <1>2, <1>3, <1>11, <1>14 DEF Is, Level
  <2>4. ~(prev # None \/ q.nested = 0) =>
            q.nested \in 1..MaxLevels /\ p.slots[q.nested].list # None
    BY <1>1, <1>14, ParserAssumption DEF Is, SlotsUsed
  <2>5. Fresh(p1, n) /\ Top(q) \in 1..Top(p1)
    BY <1>2, <1>19 DEF StepSound
  <2> QED
    BY <1>14, <1>17, <2>1, <2>2, <2>3, <2>4, <2>5 DEF LinkReady, Is
<1>21. LinkKept(p, r)
  <2>1. n \in Nat /\ Shape(p) /\ p.slots \in [1..MaxLevels -> Slot]
    BY <1>1, <1>3, <1>14 DEF Is
  <2> QED
    BY <1>15, <2>1, LinkObjKeeps
<1>22. LinkDone(p1, r, r)
  BY <1>14, <1>17, <1>21 DEF LinkDone, LinkKept, SamePlaces, Is
<1>23. Sound(r, 0, None, None) /\ EqualLevels(p1, r)
  BY <1>15, <1>19, <1>20, <1>22, LinkSound DEF StepSound
<1>24. /\ Top(p1) = Top(q) /\ Pl(p1) = m /\ Settled(p1) /\ n \in DOMAIN p1.nodes
  BY <1>19 DEF StepSound
<1>25. Top(r) = Top(q) /\ EqualLevel(Pl(r), m)
  BY <1>2, <1>23, <1>24 DEF EqualLevels, Pl, Top
<1>26. /\ m.event # None /\ ~m.wait /\ m.op = n /\ m.sub = "op_step" /\ n # None
       /\ m.scope = Pl(q).scope /\ m.use = Pl(q).use /\ m.param = "none"
  BY <1>1, <1>3, <1>6, <1>18 DEF StepBegun, None
<1>27. Settled(r)
  BY <1>2, <1>25, <1>26 DEF Settled, HasEvent, EqualLevel, Pl, Top
<1>28. InNewStep(q, r)
  <2>1. LevelRefers(r, Pl(r))
    BY <1>2, <1>23, <1>25 DEF Sound, LevelsRefer, Pl, Top
  <2>2. r.nested = q.nested
    BY <1>14, <1>21 DEF LinkKept, Is
  <2> QED
    BY <1>25, <1>26, <2>1, <2>2 DEF InNewStep, EqualLevel, SameLevel, Stepping,
       LevelRefers, IsOp
<1> QED
  BY <1>23, <1>27, <1>28 DEF NewStep

LEMMA BeginOperatorSound ==
    ASSUME NEW p, Sound(p, 0, None, None), NEW prev, IsOp(p, prev),
           NEW compstep \in BOOLEAN, compstep => prev # None,
           prev = None => Settled(p), NEW r, r = BeginOperator(p, prev, compstep)
    PROVE  NewStep(p, r)
<1>1. PICK q : q = PrepareEvent(p, prev, compstep)
  OBVIOUS
<1>2. PICK e : e = IF prev # None \/ q.nested = 0 THEN Pl(q).event ELSE None
  OBVIOUS
<1>3. Kept(p, q) /\ Pl(q).event # None /\ ~Pl(q).wait /\ Sound(q, 0, e, None)
  <2>1. IsNode(p, prev)
    BY DEF IsNode, IsOp
  <2>2. /\ Kept(p, q) /\ Pl(q).event # None /\ ~Pl(q).wait
        /\ IF prev # None \/ p.nested = 0 THEN Sound(q, 0, Pl(q).event, None)
           ELSE Sound(q, 0, None, None)
    BY <1>1, <2>1, PrepareEventSound
  <2>3. q.nested = p.nested
    BY <2>2 DEF Kept
  <2> QED
    BY <1>2, <2>2, <2>3
<1>4. PICK q2 : q2 = EndOperator(q)
  OBVIOUS
<1>5. Sound(q2, 0, e, None)
  <2>1. Pl(q).param = "none"
    BY <1>3 DEF Sound, Nested
  <2> QED
    BY <1>3, <1>4, <2>1, EndOperatorSound
<1>6. Ended(q, q2)
  BY <1>3, <1>4, EndOperatorEnds
<1>7. Typed(q)
  BY <1>3 DEF Sound
<1>8. /\ Top(q) \in Nat \ {0} /\ Pl(q) = q.levels[Top(q)] /\ Top(q2) = Top(q)
      /\ Pl(q2) = q2.levels[Top(q)] /\ Pl(q) \in Level
  BY <1>6, <1>7, TopLevelOf DEF Ended, Pl, Top
<1>9. /\ ~Pl(q2).own_op /\ Pl(q2).event = Pl(q).event /\ Pl(q2).wait = Pl(q).wait
      /\ Pl(q2).scope = Pl(q).scope /\ Pl(q2).use = Pl(q).use
  <2>1. LET m == q2.levels[Top(q)]
            l == q.levels[Top(q)]
        IN  /\ m.scope = l.scope /\ m.use = l.use /\ m.event = l.event /\ m.wait = l.wait
            /\ IF Top(q) = Top(q) /\ l.own_op THEN ~m.own_op /\ m.op = None
               ELSE m.own_op = l.own_op /\ m.op = l.op
    BY <1>6, <1>7, <1>8, LevelsEnded
  <2> QED
    BY <1>8, <2>1
<1>10. q2.nested = q.nested /\ IsOp(q2, prev)
  <2>1. IsOp(q, prev)
    BY <1>3 DEF IsOp, Kept, SameNode
  <2> QED
    BY <1>6, <2>1 DEF IsOp, Ended, SameNode
<1>11. r = NextOperator(q2, prev, compstep)
  BY <1>1, <1>4 DEF BeginOperator
<1>12. NewStep(q2, r)
  <2>1. e = IF prev # None \/ q2.nested = 0 THEN Pl(q2).event ELSE None
    BY <1>2, <1>9, <1>10
  <2> QED
    BY <1>3, <1>5, <1>9, <1>10, <1>11, <2>1, NextOperatorSound
<1> QED
  BY <1>3, <1>6, <1>8, <1>9, <1>12 DEF NewStep, InNewStep, Kept, Ended

-----------------------------------------------------------------------------
(* enter_level() and begin_list() *)

(* q has the levels of p and another, l, which owns nothing. *)
Pushed(p, q, l) ==
    /\ q.levels = Append(p.levels, l) /\ l \in Level
    /\ l.op = Pl(p).op /\ l.event = Pl(p).event
    /\ ~l.own_op /\ ~l.own_ev /\ ~l.wait /\ l.param = "none"
    /\ Pl(p).param # "none" => l.scope = "nest"
    /\ l.scope = "nest" \/ l.use = Pl(p).use

(* Nodes of q are those of p, and may be more. *)
MoreNodes(p, q) ==
    /\ DOMAIN p.nodes \subseteq DOMAIN q.nodes
    /\ \A n \in DOMAIN p.nodes : q.nodes[n] = p.nodes[n]

AboveLevels(p, q, l) ==
    /\ Top(p) \in Nat \ {0} /\ Top(q) = Top(p) + 1 /\ Top(q) \in 1..MaxLevels
    /\ Pl(q) = l /\ q.levels[Top(q)] = l /\ q.levels \in Seq(Level)
    /\ \A k \in 1..Top(q) : k # Top(q) => k \in 1..Top(p)
    /\ \A k \in 1..Top(p) : /\ k # Top(q) /\ k \in 1..Top(q)
                            /\ q.levels[k] = p.levels[k]
                            /\ Place(q.levels, k) = Place(p.levels, k)
    /\ Place(q.levels, Top(q))
       = Place(p.levels, Top(p)) + IF l.scope = "nest" THEN 1 ELSE 0
    /\ LevelsRefer(q)

LEMMA PushedLevels ==
    ASSUME NEW p, NEW more, NEW e, NEW new, Sound(p, more, e, new), Settled(p),
           Top(p) < MaxLevels, NEW q, NEW l, Pushed(p, q, l), q.evs = p.evs, MoreNodes(p, q)
    PROVE  AboveLevels(p, q, l)
<1>1. Typed(p)
  BY DEF Sound
<1>2. /\ Top(p) \in Nat \ {0} /\ p.levels \in Seq(Level) /\ Pl(p) = p.levels[Top(p)]
      /\ Top(p) = Len(p.levels)
  BY <1>1, TopLevelOf
<1>3. /\ Top(q) = Top(p) + 1 /\ Pl(q) = l /\ q.levels[Top(p) + 1] = l
      /\ q.levels \in Seq(Level) /\ \A k \in 1..Top(p) : q.levels[k] = p.levels[k]
  <2>1. PICK m \in Nat : m = Len(p.levels)
    BY <1>2
  <2>2. /\ q.levels \in Seq(Level) /\ Len(q.levels) = m + 1 /\ q.levels[m + 1] = l
        /\ \A k \in 1..m : q.levels[k] = p.levels[k]
    BY <1>2, <2>1 DEF Pushed
  <2> QED
    BY <1>2, <2>1, <2>2 DEF Top, Pl
<1>4. Top(q) \in 1..MaxLevels
  BY <1>2, <1>3, ParserAssumption
<1>5. ASSUME NEW k \in 1..Top(p) PROVE Place(q.levels, k) = Place(p.levels, k)
  BY <1>2, <1>3, PlaceSame
<1>6. Place(q.levels, Top(q)) = Place(p.levels, Top(p)) + IF l.scope = "nest" THEN 1 ELSE 0
  <2>1. PICK k \in Nat : k = Top(p)
    BY <1>2
  <2>2. Place(q.levels, k + 1)
        = Place(q.levels, k) + IF q.levels[k + 1].scope = "nest" THEN 1 ELSE 0
    BY PlaceNext
  <2> QED
    BY <1>2, <1>3, <1>5, <2>1, <2>2
<1>7. LevelsRefer(q)
  <2>1. q.levels[1].scope = "group"
    BY <1>2, <1>3 DEF Sound, LevelsRefer
  <2>2. ASSUME NEW k \in 1..Top(p) PROVE LevelRefers(q, q.levels[k])
    <3>1. LevelRefers(p, p.levels[k])
      BY DEF Sound, LevelsRefer
    <3> QED
      BY <1>3, <3>1 DEF LevelRefers, IsOp, MoreNodes
  <2>3. LevelRefers(q, l)
    <3>1. LevelRefers(p, Pl(p))
      BY <1>2 DEF Sound, LevelsRefer
    <3> QED
      BY <3>1 DEF LevelRefers, IsOp, MoreNodes, Pushed
  <2>4. ASSUME NEW k \in 1..Top(p)
        PROVE  /\ HasEvent(q.levels, k)
               /\ q.levels[k].param # "none" =>
                      q.levels[k + 1].scope = "nest" /\ Stepping(q.levels[k])
    <3>1. CASE k = Top(p)
      <4>1. Pl(p).param # "none" => Stepping(Pl(p))
        BY DEF Sound, Nested
      <4> QED
        BY <1>2, <1>3, <1>5, <3>1, <4>1 DEF Settled, HasEvent, Pushed
    <3>2. CASE k # Top(p)
      <4>1. k \in 1..(Top(p) - 1) /\ k + 1 \in 1..Top(p)
        BY <1>2, <3>2
      <4>2. /\ HasEvent(p.levels, k)
            /\ p.levels[k].param # "none" =>
                   p.levels[k + 1].scope = "nest" /\ Stepping(p.levels[k])
        BY <4>1 DEF Sound, LevelsRefer
      <4> QED
        BY <1>3, <1>5, <4>1, <4>2 DEF HasEvent
    <3> QED
      BY <3>1, <3>2
  <2>5. \A k \in 1..Top(q) : LevelRefers(q, q.levels[k])
    BY <1>2, <1>3, <2>2, <2>3
  <2>6. 1..(Top(q) - 1) = 1..Top(p)
    BY <1>2, <1>3
  <2>7. UsesNested(q)
    <3>1. \A k \in 1..Top(p) : p.levels[k].use # "carr" => Place(p.levels, k) > 0
      BY DEF Sound, LevelsRefer, UsesNested
    <3>2. Place(p.levels, Top(p)) \in Nat /\ Top(p) \in 1..Top(p)
      BY <1>2, ListsFinite
    <3>3. l.use # "carr" => Place(q.levels, Top(q)) > 0
      BY <1>2, <1>6, <3>1, <3>2 DEF Pushed
    <3>4. ASSUME NEW k \in 1..Top(q), q.levels[k].use # "carr" PROVE Place(q.levels, k) > 0
      <4>1. CASE k = Top(q)
        BY <1>3, <3>3, <3>4, <4>1
      <4>2. CASE k # Top(q)
        BY <1>2, <1>3, <1>5, <3>1, <3>4, <4>2
      <4> QED
        BY <4>1, <4>2
    <3> QED
      BY <3>4 DEF UsesNested
  <2> QED
    BY <2>1, <2>4, <2>5, <2>6, <2>7 DEF LevelsRefer
<1> QED
  BY <1>2, <1>3, <1>4, <1>5, <1>6, <1>7 DEF AboveLevels

LEMMA PushedScaled ==
    ASSUME NEW p, NEW more, NEW e, NEW new, Sound(p, more, e, new), NEW q, NEW l,
           Pushed(p, q, l), AboveLevels(p, q, l), MoreNodes(p, q),
           \A n \in DOMAIN q.nodes : n \in DOMAIN p.nodes \/ q.nodes[n].kind # "op"
    PROVE  Scaled(q)
<1>1. ASSUME NEW k \in 1..Top(q), q.levels[k].own_op
      PROVE  /\ k \in 1..Top(p) /\ p.levels[k] = q.levels[k]
             /\ p.levels[k].op \in DOMAIN p.nodes
  <2>1. k # Top(q)
    BY <1>1 DEF AboveLevels, Pushed
  <2>2. k \in 1..Top(p) /\ p.levels[k] = q.levels[k]
    BY <2>1 DEF AboveLevels
  <2>3. LevelRefers(p, p.levels[k])
    BY <2>2 DEF Sound, LevelsRefer
  <2> QED
    BY <1>1, <2>2, <2>3 DEF LevelRefers, IsOp
<1>2. ASSUME NEW k \in 1..Top(q), q.levels[k].own_op
      PROVE  /\ q.nodes[q.levels[k].op].amp = 1
             /\ q.nodes[q.levels[k].op].mult = q.levels[k].used_ampmult
  BY <1>1, <1>2 DEF Sound, Scaled, MoreNodes
<1>3. ASSUME NEW j \in 1..Top(q), NEW k \in 1..Top(q), q.levels[j].own_op,
             q.levels[k].own_op, q.levels[j].op = q.levels[k].op
      PROVE  j = k
  BY <1>1, <1>3 DEF Sound, Scaled
<1>4. ASSUME NEW n \in DOMAIN q.nodes, q.nodes[n].kind = "op",
             \A k \in 1..Top(q) : ~Owns(q, k, n)
      PROVE  q.nodes[n].amp = q.nodes[n].mult
  <2>1. n \in DOMAIN p.nodes /\ q.nodes[n] = p.nodes[n]
    BY <1>4 DEF MoreNodes
  <2>2. \A k \in 1..Top(p) : ~Owns(p, k, n)
    BY <1>4 DEF AboveLevels, Owns
  <2> QED
    BY <1>4, <2>1, <2>2 DEF Sound, Scaled
<1> QED
  BY <1>2, <1>3, <1>4 DEF Scaled

LEMMA EnterGroupSound ==
    ASSUME NEW p, Sound(p, 0, None, None), Settled(p), Top(p) < MaxLevels,
           NEW q, q = EnterLevel(p, Pl(p).use, "group")
    PROVE  Sound(q, 0, None, None) /\ Settled(q) /\ Top(q) = Top(p) + 1
<1>1. Shape(p) /\ Typed(p) /\ Pl(p).param = "none" /\ p.options \in Options
  BY DEF Sound, Nested, Typed
<1>2. /\ Top(p) \in Nat \ {0} /\ Pl(p) \in Level /\ Pl(p) = p.levels[Top(p)]
  BY <1>1, TopLevelOf
<1>3. PICK l : l = [TopLevel EXCEPT !.scope = "group", !.use = Pl(p).use,
                             !.sub = Pl(p).sub, !.event = Pl(p).event, !.op = Pl(p).op,
                             !.outer_options = p.options]
  OBVIOUS
<1>4. q = [p EXCEPT !.levels = Append(@, l)]
  BY <1>3 DEF EnterLevel
<1>5. /\ Shape(q) /\ q.levels = Append(p.levels, l) /\ q.slots = p.slots
      /\ q.nested = p.nested /\ q.nodes = p.nodes /\ q.objs = p.objs /\ q.evs = p.evs
      /\ q.labels = p.labels /\ q.options = p.options
  BY <1>1, <1>4 DEF Shape
<1>6. /\ l.scope = "group" /\ l.sub = Pl(p).sub /\ l.outer_options = p.options
      /\ Pushed(p, q, l)
  <2>1. l = [scope |-> "group", use |-> Pl(p).use, sub |-> Pl(p).sub,
             event |-> Pl(p).event, op |-> Pl(p).op, own_ev |-> FALSE, own_op |-> FALSE,
             fork |-> FALSE, main_ev |-> None, set_label |-> NoName,
             wait |-> FALSE, carry |-> FALSE, used_ampmult |-> 0,
             param |-> "none", outer_options |-> p.options]
    BY <1>3 DEF TopLevel
  <2>2. /\ Pl(p).use \in Uses /\ Pl(p).event \in Nat /\ Pl(p).op \in Nat
        /\ Pl(p).sub \in {"none", "sweep", "op_step", "settings"}
    BY <1>2 DEF Level
  <2>3. l \in Level
    BY <1>1, <2>1, <2>2 DEF Level, None, NoName
  <2> QED
    BY <1>1, <1>5, <2>1, <2>3 DEF Pushed
<1>7. MoreNodes(p, q)
  BY <1>5 DEF MoreNodes
<1>8. AboveLevels(p, q, l)
  BY <1>5, <1>6, <1>7, PushedLevels
<1>9. Scaled(q)
  BY <1>5, <1>6, <1>7, <1>8, PushedScaled
<1>10. Typed(q)
  BY <1>1, <1>5, <1>8, SMTT(30) DEF Typed, AboveLevels
<1>11. NodesRefer(q) /\ EventsRefer(q, None) /\ LabelsRefer(q) /\ SlotsRefer(q)
       /\ SlotsUsed(q, q.nested - 0) /\ Ends(q) /\ Once(q, None)
  BY <1>5 DEF Sound, NodesRefer, EventsRefer, LabelsRefer, SlotsRefer, SlotsUsed, Ends,
     Once, IsNode, IsEnd, From
<1>12. Nested(q, 0)
  <2>1. q.nested = Place(q.levels, Top(q)) + 0
    BY <1>5, <1>6, <1>8, ListsFinite DEF Sound, Nested, AboveLevels
  <2>2. ASSUME NEW k \in 1..Top(q), q.levels[k].scope = "nest"
        PROVE  q.slots[Place(q.levels, k)].options = q.levels[k].outer_options
    <3>1. k \in 1..Top(p)
      BY <1>6, <1>8, <2>2 DEF AboveLevels
    <3> QED
      BY <1>5, <1>8, <2>2, <3>1 DEF Sound, Nested, AboveLevels
  <2> QED
    BY <1>6, <1>8, <2>1, <2>2 DEF Nested, AboveLevels, Pushed
<1>13. Stepping(l) <=> Stepping(Pl(p))
  BY <1>6 DEF Stepping, Pushed
<1>14. Place(q.levels, Top(q)) = Place(p.levels, Top(p))
  BY <1>2, <1>6, <1>8, ListsFinite DEF AboveLevels
<1>15. ModsEnd(q)
  <2>1. ASSUME NEW k \in 1..Top(q), Stepping(q.levels[k])
        PROVE  \E j \in 1..Top(p) :
                  /\ Stepping(p.levels[j]) /\ p.levels[j].op = q.levels[k].op
                  /\ Place(p.levels, j) = Place(q.levels, k)
    <3>1. CASE k = Top(q)
      <4>1. Stepping(p.levels[Top(p)]) /\ p.levels[Top(p)].op = q.levels[k].op
        BY <1>2, <1>6, <1>8, <1>13, <2>1, <3>1 DEF AboveLevels, Pushed
      <4> QED
        BY <1>2, <1>14, <3>1, <4>1
    <3>2. CASE k # Top(q)
      BY <1>8, <2>1, <3>2 DEF AboveLevels
    <3> QED
      BY <3>1, <3>2
  <2>2. ASSUME NEW k \in 1..Top(q), Stepping(q.levels[k]),
               q.nodes[q.levels[k].op].mods # None
        PROVE  /\ Place(q.levels, k) + 1 \in 1..MaxLevels
               /\ q.slots[Place(q.levels, k) + 1].last_mods # None
    BY <1>5, <2>1, <2>2 DEF Sound, ModsEnd
  <2>3. ASSUME NEW j \in 1..Top(q), NEW k \in 1..Top(q), Stepping(q.levels[j]),
               Stepping(q.levels[k]), q.levels[j].op = q.levels[k].op
        PROVE  Place(q.levels, j) = Place(q.levels, k)
    <3>1. PICK i \in 1..Top(p) :
             /\ Stepping(p.levels[i]) /\ p.levels[i].op = q.levels[j].op
             /\ Place(p.levels, i) = Place(q.levels, j)
      BY <2>1, <2>3
    <3>2. PICK h \in 1..Top(p) :
             /\ Stepping(p.levels[h]) /\ p.levels[h].op = q.levels[k].op
             /\ Place(p.levels, h) = Place(q.levels, k)
      BY <2>1, <2>3
    <3> QED
      BY <2>3, <3>1, <3>2 DEF Sound, ModsEnd
  <2> QED
    BY <2>2, <2>3 DEF ModsEnd
<1>16. Settled(q)
  <2>1. HasEvent(p.levels, Top(p))
    BY DEF Settled
  <2> QED
    BY <1>2, <1>6, <1>8, <1>13, <1>14, <2>1 DEF Settled, HasEvent, Pushed, AboveLevels
<1>17. Sound(q, 0, None, None)
  BY <1>5, <1>8, <1>9, <1>10, <1>11, <1>12, <1>15 DEF Sound, AboveLevels
<1> QED
  BY <1>8, <1>16, <1>17 DEF AboveLevels

(* A list's level and its node, before that is linked. *)
ListLevel(p, q, l, v) ==
    /\ Pushed(p, q, l) /\ l.scope = "nest" /\ l.sub # "op_step"
    /\ Shape(q) /\ q.nested = p.nested /\ q.options \in Options
    /\ Adds(p, q, v) /\ v.kind = "list"
    /\ q.slots \in [1..MaxLevels -> Slot]
    /\ \A t \in 1..MaxLevels :
          /\ q.slots[t].last_item = p.slots[t].last_item
          /\ q.slots[t].last_mods = p.slots[t].last_mods
          /\ IF t = p.nested
             THEN /\ q.slots[t].list = Len(p.nodes) + 1
                  /\ q.slots[t].options = l.outer_options
             ELSE /\ q.slots[t].list = p.slots[t].list
                  /\ q.slots[t].options = p.slots[t].options

ListSound(p, q, e, n, l) ==
    /\ Sound(q, 0, e, n) /\ Fresh(q, n) /\ Settled(q) /\ n = Len(p.nodes) + 1
    /\ AboveLevels(p, q, l) /\ p.nested \in 1..MaxLevels /\ MoreNodes(p, q)
    /\ DOMAIN q.nodes = DOMAIN p.nodes \union {n} /\ n \notin DOMAIN p.nodes

LEMMA ListLevelSound ==
    ASSUME NEW p, NEW e, Sound(p, 1, e, None), Top(p) < MaxLevels,
           Pl(p).event # None, ~Pl(p).wait,
           NEW q, NEW l, NEW v, ListLevel(p, q, l, v)
    PROVE  ListSound(p, q, e, Len(p.nodes) + 1, l)
<1>1. Shape(p) /\ Typed(p) /\ p.options \in Options
  BY DEF Sound, Typed
<1>2. /\ Top(p) \in Nat \ {0} /\ Pl(p) \in Level /\ Pl(p) = p.levels[Top(p)]
      /\ Top(p) <= MaxLevels
  BY <1>1, TopLevelOf
<1>3. PICK n, s : n = Len(p.nodes) + 1 /\ s = p.nested
  OBVIOUS
<1>4. /\ Pushed(p, q, l) /\ l.scope = "nest" /\ l.sub # "op_step"
      /\ Shape(q) /\ q.nested = s /\ q.options \in Options
      /\ Adds(p, q, v) /\ v.kind = "list" /\ v.first = None /\ v.next = None
      /\ q.evs = p.evs /\ q.labels = p.labels
      /\ q.slots \in [1..MaxLevels -> Slot] /\ IsSeq(q.objs)
  BY <1>3 DEF ListLevel, Adds
<1>5. ASSUME NEW t \in 1..MaxLevels
      PROVE  /\ q.slots[t].last_item = p.slots[t].last_item
             /\ q.slots[t].last_mods = p.slots[t].last_mods
             /\ q.slots[t].list = IF t = s THEN n ELSE p.slots[t].list
             /\ q.slots[t].options = IF t = s THEN l.outer_options ELSE p.slots[t].options
  BY <1>3 DEF ListLevel
<1>6. Added(p, q, e, n, v)
  BY <1>3, <1>4, NewNodeSound
<1>7. /\ Grown(p, q, n, v)
      /\ NodesRefer(q) /\ EventsRefer(q, e) /\ LabelsRefer(q) /\ Once(q, n)
      /\ \A t \in 1..MaxLevels : /\ p.slots[t].list # n /\ p.slots[t].last_item # n
                                 /\ p.slots[t].last_mods # n
  BY <1>6 DEF Added
<1>8. /\ n \in Nat /\ n # None /\ n \notin DOMAIN p.nodes /\ q.nodes \in Seq(Node)
      /\ DOMAIN q.nodes = DOMAIN p.nodes \union {n} /\ q.nodes[n] = v
      /\ \A x \in DOMAIN p.nodes : q.nodes[x] = p.nodes[x]
  BY <1>7 DEF Grown
<1>9. MoreNodes(p, q)
  BY <1>8 DEF MoreNodes
<1>10. Settled(p)
  BY DEF Settled, HasEvent, Pl, Top
<1>11. AboveLevels(p, q, l)
  BY <1>4, <1>9, <1>10, PushedLevels
<1>12. /\ s = Place(p.levels, Top(p)) + 1 /\ Place(p.levels, Top(p)) \in Nat
       /\ Place(q.levels, Top(q)) = s /\ s \in 1..MaxLevels
  <2>1. s = Place(p.levels, Top(p)) + 1
    BY <1>3 DEF Sound, Nested
  <2>2. Place(p.levels, Top(p)) \in 0..Top(p)
    BY <1>2, ListsFinite
  <2>3. Place(q.levels, Top(q)) = s
    BY <1>4, <1>11, <2>1 DEF AboveLevels
  <2> QED
    BY <1>2, <2>1, <2>2, <2>3, ParserAssumption
<1>13. Scaled(q)
  <2>1. \A x \in DOMAIN q.nodes : x \in DOMAIN p.nodes \/ q.nodes[x].kind # "op"
    BY <1>4, <1>8
  <2> QED
    BY <1>4, <1>9, <1>11, <2>1, PushedScaled
<1>14. Typed(q)
  <2>1. q.levels \in Seq(Level) /\ Top(q) \in 1..MaxLevels
    BY <1>11 DEF AboveLevels
  <2> QED
    BY <1>1, <1>3, <1>4, <1>8, <2>1 DEF Typed
<1>15. ASSUME NEW k \in 1..Top(p), p.levels[k].scope = "nest"
       PROVE  Place(p.levels, k) \in 1..MaxLevels /\ Place(p.levels, k) < s
  <2>1. Place(p.levels, k) \in 1..MaxLevels
    BY <1>1, <1>15, NestPlace
  <2>2. CASE k = Top(p)
    BY <1>12, <2>1, <2>2
  <2>3. CASE k # Top(p)
    <3>1. Place(p.levels, k) <= Place(p.levels, Top(p))
      BY <1>2, <2>3, PlaceGrows
    <3> QED
      BY <1>12, <2>1, <3>1
  <2> QED
    BY <2>1, <2>2, <2>3
<1>16. Nested(q, 0)
  <2>1. ASSUME NEW k \in 1..Top(q), q.levels[k].scope = "nest"
        PROVE  q.slots[Place(q.levels, k)].options = q.levels[k].outer_options
    <3>1. CASE k = Top(q)
      BY <1>5, <1>11, <1>12, <3>1 DEF AboveLevels
    <3>2. CASE k # Top(q)
      <4>1. /\ k \in 1..Top(p) /\ q.levels[k] = p.levels[k]
            /\ Place(q.levels, k) = Place(p.levels, k)
        BY <1>11, <3>2 DEF AboveLevels
      <4>2. Place(p.levels, k) \in 1..MaxLevels /\ Place(p.levels, k) # s
        BY <1>12, <1>15, <2>1, <4>1
      <4>3. p.slots[Place(p.levels, k)].options = p.levels[k].outer_options
        BY <2>1, <4>1 DEF Sound, Nested
      <4> QED
        BY <1>5, <4>1, <4>2, <4>3
    <3> QED
      BY <3>1, <3>2
  <2>2. Pl(q) = l /\ l.param = "none" /\ q.nested = Place(q.levels, Top(q)) + 0
    BY <1>4, <1>11, <1>12 DEF AboveLevels, Pushed
  <2> QED
    BY <2>1, <2>2 DEF Nested
<1>17. SlotsRefer(q)
  <2>1. ASSUME NEW t \in 1..MaxLevels
        PROVE  LET list == q.slots[t].list
               IN  /\ IsNode(q, list)
                   /\ list # None => /\ q.nodes[list].kind = "list"
                                     /\ q.nodes[list].first # None
                                            => q.slots[t].last_item # None
                   /\ \A u \in 1..MaxLevels : list # None /\ q.slots[u].list = list => u = t
    <3>1. CASE t = s
      BY <1>4, <1>5, <1>7, <1>8, <3>1 DEF IsNode
    <3>2. CASE t # s
      <4>1. PICK list : list = p.slots[t].list /\ list = q.slots[t].list /\ list # n
        BY <1>5, <1>7, <3>2
      <4>2. /\ IsNode(p, list)
            /\ list # None => /\ p.nodes[list].kind = "list"
                              /\ p.nodes[list].first # None => p.slots[t].last_item # None
            /\ \A u \in 1..MaxLevels : list # None /\ p.slots[u].list = list => u = t
        BY <4>1 DEF Sound, SlotsRefer
      <4> QED
        BY <1>5, <1>8, <4>1, <4>2 DEF IsNode
    <3> QED
      BY <3>1, <3>2
  <2> QED
    BY <2>1 DEF SlotsRefer
<1>18. SlotsUsed(q, q.nested - 0)
  <2>1. ASSUME NEW t \in 1..s PROVE q.slots[t].list # None
    <3>1. t \in 1..MaxLevels /\ (t # s => t \in 1..(s - 1))
      BY <1>2, <1>12, ParserAssumption
    <3> QED
      BY <1>3, <1>5, <1>8, <3>1 DEF Sound, SlotsUsed
  <2> QED
    BY <1>4, <1>12, <2>1 DEF SlotsUsed
<1>19. Ends(q)
  BY <1>5, <1>8 DEF Sound, Ends, IsEnd
<1>20. ModsEnd(q)
  <2>1. ASSUME NEW k \in 1..Top(q), Stepping(q.levels[k])
        PROVE  /\ k \in 1..Top(p) /\ q.levels[k] = p.levels[k]
               /\ Place(q.levels, k) = Place(p.levels, k)
               /\ p.levels[k].op \in DOMAIN p.nodes
    <3>1. k # Top(q)
      BY <1>4, <1>11, <2>1 DEF Stepping, AboveLevels
    <3>2. /\ k \in 1..Top(p) /\ q.levels[k] = p.levels[k]
          /\ Place(q.levels, k) = Place(p.levels, k)
      BY <1>11, <3>1 DEF AboveLevels
    <3>3. LevelRefers(p, p.levels[k])
      BY <3>2 DEF Sound, LevelsRefer
    <3> QED
      BY <2>1, <3>2, <3>3 DEF LevelRefers, IsOp, Stepping
  <2>2. ASSUME NEW k \in 1..Top(q), Stepping(q.levels[k]),
               q.nodes[q.levels[k].op].mods # None
        PROVE  /\ Place(q.levels, k) + 1 \in 1..MaxLevels
               /\ q.slots[Place(q.levels, k) + 1].last_mods # None
    BY <1>5, <1>8, <2>1, <2>2 DEF Sound, ModsEnd
  <2>3. ASSUME NEW j \in 1..Top(q), NEW k \in 1..Top(q), Stepping(q.levels[j]),
               Stepping(q.levels[k]), q.levels[j].op = q.levels[k].op
        PROVE  Place(q.levels, j) = Place(q.levels, k)
    BY <2>1, <2>3 DEF Sound, ModsEnd
  <2> QED
    BY <2>2, <2>3 DEF ModsEnd
<1>21. Settled(q)
  BY <1>4, <1>11 DEF Settled, HasEvent, Pushed, AboveLevels
<1>22. Sound(q, 0, e, n)
  BY <1>4, <1>7, <1>11, <1>13, <1>14, <1>16, <1>17, <1>18, <1>19, <1>20
     DEF Sound, AboveLevels
<1>23. Fresh(q, n)
  BY <1>4, <1>5, <1>7, <1>8 DEF Fresh
<1> QED
  BY <1>3, <1>8, <1>9, <1>11, <1>12, <1>21, <1>22, <1>23 DEF ListSound

LastPut(s, x, y) == [Append(s, x) EXCEPT ![Len(s) + 1] = y] = Append(s, y)

LEMMA AppendReset ==
    ASSUME NEW S, NEW s \in Seq(S), NEW x \in S, NEW y \in S
    PROVE  LastPut(s, x, y)
<1>1. PICK m \in Nat : m = Len(s)
  OBVIOUS
<1>2. PICK a, b : a = Append(s, x) /\ b = Append(s, y)
  OBVIOUS
<1>3. /\ a \in Seq(S) /\ Len(a) = m + 1 /\ \A i \in 1..m : a[i] = s[i]
      /\ b \in Seq(S) /\ Len(b) = m + 1 /\ b[m + 1] = y /\ \A i \in 1..m : b[i] = s[i]
  BY <1>1, <1>2
<1>4. a = [i \in 1..(m + 1) |-> a[i]] /\ b = [i \in 1..(m + 1) |-> b[i]]
  BY <1>3
<1>5. [a EXCEPT ![m + 1] = y] = [i \in 1..(m + 1) |-> IF i = m + 1 THEN y ELSE a[i]]
  BY <1>4
<1>6. \A i \in 1..(m + 1) : b[i] = IF i = m + 1 THEN y ELSE a[i]
  BY <1>3
<1> QED
  BY <1>1, <1>2, <1>4, <1>5, <1>6 DEF LastPut

(* The level that begin_list() makes of the one entered for a list. *)
ListTop(p, use) ==
    [TopLevel EXCEPT !.scope = "nest", !.use = use,
                     !.sub = IF Tip(p).sweep THEN "sweep" ELSE "none",
                     !.event = Pl(p).event, !.op = Pl(p).op,
                     !.outer_options = p.options]

ListNode(p) == [NewNode EXCEPT !.kind = "list", !.obj = Len(p.objs) + 1]

LEMMA ListTopIs ==
    ASSUME NEW p, Pl(p).event \in Nat, Pl(p).op \in Nat, p.options \in Options,
           NEW use \in Uses, NEW l, l = ListTop(p, use)
    PROVE  /\ l \in Level /\ l.scope = "nest" /\ l.sub # "op_step"
           /\ l.op = Pl(p).op /\ l.event = Pl(p).event /\ l.outer_options = p.options
           /\ ~l.own_op /\ ~l.own_ev /\ ~l.wait /\ l.param = "none"
<1>1. PICK sub : sub = IF Tip(p).sweep THEN "sweep" ELSE "none"
  OBVIOUS
<1>2. sub \in {"none", "sweep"}
  BY <1>1
<1>3. l = [scope |-> "nest", use |-> use, sub |-> sub,
           event |-> Pl(p).event, op |-> Pl(p).op, own_ev |-> FALSE, own_op |-> FALSE,
           fork |-> FALSE, main_ev |-> None, set_label |-> NoName,
           wait |-> FALSE, carry |-> FALSE, used_ampmult |-> 0,
           param |-> "none", outer_options |-> p.options]
  BY <1>1 DEF ListTop, TopLevel
<1>4. l \in Level
  BY <1>2, <1>3 DEF Level, None, NoName
<1> QED
  BY <1>2, <1>3, <1>4

LEMMA ListNodeIs ==
    ASSUME NEW p, IsSeq(p.objs), NEW v, v = ListNode(p)
    PROVE  /\ v \in Node /\ v.kind = "list" /\ v.next = None /\ v.first = None
           /\ v.mods = None /\ v.obj = Len(p.objs) + 1
           /\ v = [v EXCEPT !.next = None]
<1>1. PICK id : id = Len(p.objs) + 1
  OBVIOUS
<1>2. id \in Nat
  BY <1>1 DEF IsSeq
<1>3. v = [kind |-> "list", obj |-> id, prev |-> None, next |-> None, event |-> None,
           mods |-> None, first |-> None, amp |-> 1, mult |-> 1]
  BY <1>1 DEF ListNode, NewNode
<1>4. v \in Node
  BY <1>2, <1>3 DEF Node, None
<1>5. v = [v EXCEPT !.next = None]
  BY <1>3
<1> QED
  BY <1>1, <1>3, <1>4, <1>5

SameGroups(p, q) ==
    q.group_event = p.group_event /\ q.last_event = p.last_event /\ q.owed = p.owed

(* What begin_list() has, q, before it links the list, and what it gives.  *)
ListBegun(p, use, q, obj, b) ==
    /\ obj.parent = IF use = "carr" THEN None ELSE p.nodes[Pl(p).op].obj
    /\ SameGroups(p, q)
    /\ Is(q, Append(p.levels, ListTop(p, use)),
          [p.slots EXCEPT ![p.nested].list = Len(p.nodes) + 1], p.nested,
          Append(p.nodes, ListNode(p)), Append(p.objs, obj), p.evs, p.labels, p.options)
    /\ use = "carr" => b = LinkObj(q, Top(p), p.nested - 1, Len(p.nodes) + 1, None)
    /\ use # "carr" /\ p.nodes[Pl(p).op].mods = None =>
           b = [q EXCEPT !.nodes[Pl(p).op].mods = Len(p.nodes) + 1,
                         !.slots[p.nested].last_mods = Len(p.nodes) + 1]
    /\ use # "carr" /\ p.nodes[Pl(p).op].mods # None =>
           b = [q EXCEPT !.nodes[Tip(p).last_mods].next = Len(p.nodes) + 1,
                         !.slots[p.nested].last_mods = Len(p.nodes) + 1]

LEMMA BeginListIs ==
    ASSUME NEW p, Shape(p), Typed(p), NEW use \in Uses,
           NEW b, b = BeginList(EnterLevel(p, use, "nest"), use)
    PROVE  \E q, obj : ListBegun(p, use, q, obj, b)
<1>1. /\ Top(p) \in Nat \ {0} /\ Pl(p) \in Level /\ Pl(p) = p.levels[Top(p)]
      /\ Top(p) = Len(p.levels) /\ p.levels \in Seq(Level) /\ p.options \in Options
      /\ IsSeq(p.objs)
  BY TopLevelOf DEF Typed
<1>2. PICK l0 : l0 = [TopLevel EXCEPT !.scope = "nest", !.use = use, !.sub = Pl(p).sub,
                              !.event = Pl(p).event, !.op = Pl(p).op,
                              !.outer_options = p.options]
  OBVIOUS
<1>3. PICK a : a = EnterLevel(p, use, "nest")
  OBVIOUS
<1>4. a = [p EXCEPT !.levels = Append(@, l0)]
  BY <1>2, <1>3 DEF EnterLevel
<1>5. /\ Shape(a) /\ a.levels = Append(p.levels, l0) /\ a.slots = p.slots
      /\ a.nested = p.nested /\ a.nodes = p.nodes /\ a.objs = p.objs /\ a.evs = p.evs
      /\ a.labels = p.labels /\ a.options = p.options
  BY <1>4 DEF Shape
<1>6. l0 \in Level
  <2>1. l0 = [scope |-> "nest", use |-> use, sub |-> Pl(p).sub,
              event |-> Pl(p).event, op |-> Pl(p).op, own_ev |-> FALSE, own_op |-> FALSE,
              fork |-> FALSE, main_ev |-> None, set_label |-> NoName,
              wait |-> FALSE, carry |-> FALSE, used_ampmult |-> 0,
              param |-> "none", outer_options |-> p.options]
    BY <1>2 DEF TopLevel
  <2>2. /\ Pl(p).event \in Nat /\ Pl(p).op \in Nat
        /\ Pl(p).sub \in {"none", "sweep", "op_step", "settings"}
    BY <1>1 DEF Level
  <2> QED
    BY <1>1, <2>1, <2>2 DEF Level, None, NoName
<1>7. /\ Top(a) = Top(p) + 1 /\ Pl(a) = l0 /\ a.levels[Top(p)] = Pl(p)
  <2>1. PICK m \in Nat \ {0} : m = Len(p.levels)
    BY <1>1
  <2>2. /\ a.levels \in Seq(Level) /\ Len(a.levels) = m + 1 /\ a.levels[m + 1] = l0
        /\ a.levels[m] = p.levels[m]
    BY <1>1, <1>5, <1>6, <2>1
  <2> QED
    BY <1>1, <2>1, <2>2 DEF Top, Pl
<1>8. Tip(a) = Tip(p)
  BY <1>5 DEF Tip
<1>9. PICK l, v, n : l = ListTop(p, use) /\ v = ListNode(p) /\ n = Len(p.nodes) + 1
  OBVIOUS
<1>10. l = [Pl(a) EXCEPT !.sub = IF Tip(a).sweep THEN "sweep" ELSE "none"] /\ l \in Level
  <2>1. l = [l0 EXCEPT !.sub = IF Tip(p).sweep THEN "sweep" ELSE "none"]
    BY <1>2, <1>9 DEF ListTop, TopLevel
  <2>2. Pl(p).event \in Nat /\ Pl(p).op \in Nat
    BY <1>1 DEF Level
  <2>3. l \in Level
    BY <1>1, <1>9, <2>2, ListTopIs
  <2> QED
    BY <1>7, <1>8, <2>1, <2>3
<1>11. PICK obj : obj = [root |-> None,
                         parent |-> IF use = "carr" THEN None
                                    ELSE a.nodes[a.levels[Top(a) - 1].op].obj]
  OBVIOUS
<1>12. PICK d : d = SetPl(a, l)
  OBVIOUS
<1>13. Is(d, Append(p.levels, l), p.slots, p.nested, p.nodes, p.objs, p.evs, p.labels,
          p.options)
  <2>1. Is(d, [a.levels EXCEPT ![Top(a)] = l], a.slots, a.nested, a.nodes, a.objs, a.evs,
           a.labels, a.options)
    BY <1>5, <1>12, SetPlIs
  <2>2. [a.levels EXCEPT ![Top(a)] = l] = Append(p.levels, l)
    <3>1. LastPut(p.levels, l0, l)
      BY <1>1, <1>6, <1>10, AppendReset
    <3> QED
      BY <1>1, <1>5, <1>7, <3>1 DEF LastPut
  <2> QED
    BY <1>5, <2>1, <2>2
<1>14. PICK q : q = [d EXCEPT !.nodes = Append(@, v), !.objs = Append(@, obj),
                              !.slots[p.nested].list = n]
  OBVIOUS
<1>15. Is(q, Append(p.levels, l), [p.slots EXCEPT ![p.nested].list = n], p.nested,
          Append(p.nodes, v), Append(p.objs, obj), p.evs, p.labels, p.options)
  BY <1>13, <1>14 DEF Is, Shape
<1>16. b = BeginList(a, use)
  BY <1>3
<1>17. /\ q = [SetPl(a, [Pl(a) EXCEPT !.sub = IF Tip(a).sweep THEN "sweep" ELSE "none"])
               EXCEPT !.nodes = Append(@, [NewNode EXCEPT !.kind = "list",
                                                          !.obj = Len(a.objs) + 1]),
                      !.objs = Append(@, obj),
                      !.slots[a.nested].list = Len(a.nodes) + 1]
       /\ a.levels[Top(a) - 1].op = Pl(p).op
  BY <1>1, <1>5, <1>7, <1>9, <1>10, <1>12, <1>14 DEF ListNode
<1>18. SameGroups(p, q)
  <2>1. SameGroups(p, a)
    BY <1>4 DEF Shape, SameGroups
  <2>2. SameGroups(a, d)
    <3>1. d = [a EXCEPT !.levels = [a.levels EXCEPT ![Len(a.levels)] = l]]
      BY <1>5, <1>12 DEF SetPl, Shape
    <3> QED
      BY <1>5, <3>1 DEF Shape, SameGroups
  <2>3. SameGroups(d, q)
    BY <1>13, <1>14 DEF Is, Shape, SameGroups
  <2> QED
    BY <2>1, <2>2, <2>3 DEF SameGroups
<1>19. obj.parent = IF use = "carr" THEN None ELSE p.nodes[Pl(p).op].obj
  BY <1>5, <1>11, <1>17
<1>20. CASE use = "carr"
  <2>1. b = LinkObj(q, Top(a) - 1, a.nested - 1, Len(a.nodes) + 1, None)
    BY <1>11, <1>16, <1>17, <1>20, ZenonT(40) DEF BeginList
  <2>2. b = LinkObj(q, Top(p), p.nested - 1, n, None)
    BY <1>1, <1>5, <1>7, <1>9, <2>1
  <2> QED
    BY <1>9, <1>15, <1>18, <1>19, <1>20, <2>2 DEF ListBegun
<1>21. CASE use # "carr" /\ p.nodes[Pl(p).op].mods = None
  <2>1. b = [q EXCEPT !.nodes[Pl(p).op].mods = Len(a.nodes) + 1,
                      !.slots[a.nested].last_mods = Len(a.nodes) + 1]
    BY <1>5, <1>11, <1>16, <1>17, <1>21, ZenonT(40) DEF BeginList
  <2> QED
    BY <1>5, <1>9, <1>15, <1>18, <1>19, <1>21, <2>1, ZenonT(40) DEF ListBegun
<1>22. CASE use # "carr" /\ p.nodes[Pl(p).op].mods # None
  <2>1. b = [q EXCEPT !.nodes[Tip(a).last_mods].next = Len(a.nodes) + 1,
                      !.slots[a.nested].last_mods = Len(a.nodes) + 1]
    BY <1>5, <1>11, <1>16, <1>17, <1>22, ZenonT(40) DEF BeginList
  <2> QED
    BY <1>5, <1>8, <1>9, <1>15, <1>18, <1>19, <1>22, <2>1, ZenonT(40) DEF ListBegun
<1> QED
  BY <1>20, <1>21, <1>22

LEMMA SettledSame ==
    ASSUME NEW p, NEW q, Typed(p), EqualLevels(p, q), Settled(p)
    PROVE  Settled(q)
<1>1. Top(p) \in Nat \ {0} /\ Top(q) = Top(p)
  BY TopLevelOf DEF EqualLevels
<1>2. \A k \in 1..Top(p) : EqualLevel(q.levels[k], p.levels[k])
  BY DEF EqualLevels
<1>3. \A k \in 1..Top(p) : q.levels[k].scope = p.levels[k].scope
  BY <1>2 DEF EqualLevel, SameLevel
<1>4. Place(q.levels, Top(p)) = Place(p.levels, Top(p))
  BY <1>1, <1>3, PlaceSame
<1>5. EqualLevel(q.levels[Top(p)], p.levels[Top(p)])
  BY <1>1, <1>2
<1> QED
  BY <1>1, <1>4, <1>5 DEF Settled, HasEvent, EqualLevel, SameLevel, Stepping

(* Settings put at the place of a list that is entered. *)
PutSettings(slots, s, opts, t) ==
    /\ t \in [1..MaxLevels -> Slot]
    /\ \A i \in 1..MaxLevels :
          /\ t[i].list = slots[i].list /\ t[i].last_item = slots[i].last_item
          /\ t[i].last_mods = slots[i].last_mods
          /\ t[i].options = IF i = s THEN opts ELSE slots[i].options

LEMMA SettingsPut ==
    ASSUME NEW slots \in [1..MaxLevels -> Slot], NEW s \in 1..MaxLevels, NEW opts \in Options,
           NEW t, t = [slots EXCEPT ![s].options = opts, ![s].own_mult = None]
    PROVE  PutSettings(slots, s, opts, t)
<1>1. PICK x : x = [slots[s] EXCEPT !.options = opts, !.own_mult = None]
  OBVIOUS
<1>2. slots[s] \in Slot
  OBVIOUS
<1>3. /\ x \in Slot /\ x.options = opts /\ x.list = slots[s].list
      /\ x.last_item = slots[s].last_item /\ x.last_mods = slots[s].last_mods
  BY <1>1, <1>2 DEF Slot, None
<1>4. t = [i \in 1..MaxLevels |-> IF i = s THEN x ELSE slots[i]]
  BY <1>1
<1> QED
  BY <1>3, <1>4 DEF PutSettings

(* enter_level() changes settings last, in r; b has what is made before.   *)
Entered(b, s, opts, r) ==
    /\ Shape(r) /\ r.levels = b.levels /\ r.nested = b.nested /\ r.nodes = b.nodes
    /\ r.objs = b.objs /\ r.evs = b.evs /\ r.labels = b.labels
    /\ r.options \in Options /\ PutSettings(b.slots, s, opts, r.slots)

SettingsOf(b, use) ==
    [b EXCEPT !.slots[b.nested].options = b.options, !.slots[b.nested].own_mult = None,
              !.options.def_ampmult = IF use = "pmod" THEN 1 ELSE @]

EnteredOptions(use, opts) == [opts EXCEPT !.def_ampmult = IF use = "pmod" THEN 1 ELSE @]

LEMMA SettingsEntered ==
    ASSUME NEW b, Shape(b), NEW s \in 1..MaxLevels, b.nested = s,
           b.slots \in [1..MaxLevels -> Slot], b.options \in Options, NEW use,
           NEW r, r = SettingsOf(b, use)
    PROVE  /\ Entered(b, s, b.options, r)
           /\ r.options = EnteredOptions(use, b.options)
<1>1. PICK t : t = [b.slots EXCEPT ![s].options = b.options, ![s].own_mult = None]
  OBVIOUS
<1>2. PutSettings(b.slots, s, b.options, t)
  BY <1>1, SettingsPut
<1>3. PICK o2 : o2 = EnteredOptions(use, b.options)
  OBVIOUS
<1>4. o2 \in Options
  BY <1>3 DEF EnteredOptions, Options
<1>5. /\ Shape(r) /\ r.levels = b.levels /\ r.nested = b.nested /\ r.nodes = b.nodes
      /\ r.objs = b.objs /\ r.evs = b.evs /\ r.labels = b.labels
      /\ r.options = o2 /\ r.slots = t
  BY <1>1, <1>3 DEF Shape, EnteredOptions, SettingsOf
<1> QED
  BY <1>2, <1>3, <1>4, <1>5 DEF Entered

ModsPut(slots, s, n, t) ==
    /\ t \in [1..MaxLevels -> Slot]
    /\ \A i \in 1..MaxLevels :
          /\ t[i].list = slots[i].list /\ t[i].last_item = slots[i].last_item
          /\ t[i].options = slots[i].options
          /\ t[i].last_mods = IF i = s THEN n ELSE slots[i].last_mods

LEMMA LastModsPut ==
    ASSUME NEW slots \in [1..MaxLevels -> Slot], NEW s \in 1..MaxLevels, NEW n \in Nat,
           NEW t, t = [slots EXCEPT ![s].last_mods = n]
    PROVE  ModsPut(slots, s, n, t)
<1>1. PICK x : x = [slots[s] EXCEPT !.last_mods = n]
  OBVIOUS
<1>2. slots[s] \in Slot
  OBVIOUS
<1>3. /\ x \in Slot /\ x.options = slots[s].options /\ x.list = slots[s].list
      /\ x.last_item = slots[s].last_item /\ x.last_mods = n
  BY <1>1, <1>2 DEF Slot
<1>4. t = [i \in 1..MaxLevels |-> IF i = s THEN x ELSE slots[i]]
  BY <1>1
<1> QED
  BY <1>3, <1>4 DEF ModsPut

LEMMA ModsLinked ==
    ASSUME NEW p, NEW q, p.nodes \in Seq(Node), NEW m \in DOMAIN p.nodes, NEW n \in Nat,
           q.nodes = [p.nodes EXCEPT ![m].mods = n]
    PROVE  NodeLinked(p, q, m, "mods", n)
<1>1. PICK v : v = [p.nodes[m] EXCEPT !.mods = n]
  OBVIOUS
<1>2. p.nodes[m] \in Node
  OBVIOUS
<1>3. /\ v \in Node /\ v.kind = p.nodes[m].kind /\ v.obj = p.nodes[m].obj
      /\ v.event = p.nodes[m].event /\ v.amp = p.nodes[m].amp /\ v.mult = p.nodes[m].mult
      /\ v.next = p.nodes[m].next /\ v.first = p.nodes[m].first /\ v.mods = n
  BY <1>1, <1>2 DEF Node
<1>4. PICK ns : ns = q.nodes
  OBVIOUS
<1>5. ns = [p.nodes EXCEPT ![m] = v]
  BY <1>1, <1>4
<1>6. Put(Node, p.nodes, ns, m, v)
  BY <1>3, <1>5, PutIs
<1> QED
  BY <1>3, <1>4, <1>6 DEF Put, NodeLinked

LEMMA NextLinked ==
    ASSUME NEW p, NEW q, p.nodes \in Seq(Node), NEW m \in DOMAIN p.nodes, NEW n \in Nat,
           q.nodes = [p.nodes EXCEPT ![m].next = n]
    PROVE  NodeLinked(p, q, m, "next", n)
<1>1. PICK v : v = [p.nodes[m] EXCEPT !.next = n]
  OBVIOUS
<1>2. p.nodes[m] \in Node
  OBVIOUS
<1>3. /\ v \in Node /\ v.kind = p.nodes[m].kind /\ v.obj = p.nodes[m].obj
      /\ v.event = p.nodes[m].event /\ v.amp = p.nodes[m].amp /\ v.mult = p.nodes[m].mult
      /\ v.mods = p.nodes[m].mods /\ v.first = p.nodes[m].first /\ v.next = n
  BY <1>1, <1>2 DEF Node
<1>4. PICK ns : ns = q.nodes
  OBVIOUS
<1>5. ns = [p.nodes EXCEPT ![m] = v]
  BY <1>1, <1>4
<1>6. Put(Node, p.nodes, ns, m, v)
  BY <1>3, <1>5, PutIs
<1> QED
  BY <1>3, <1>4, <1>6 DEF Put, NodeLinked

ListEntered(p, r) ==
    Sound(r, 0, None, None) /\ Settled(r) /\ Top(p) \in Nat \ {0} /\ Top(r) = Top(p) + 1

LEMMA EnterListSound ==
    ASSUME NEW p, NEW use \in Uses,
           NEW e, e = IF use = "carr" /\ p.nested = 1 THEN Pl(p).event ELSE None,
           Sound(p, 1, e, None), Top(p) < MaxLevels, Pl(p).event # None, ~Pl(p).wait,
           use # "carr" => Stepping(Pl(p)), NEW r, r = EnterList(p, use)
    PROVE  ListEntered(p, r)
<1>1. /\ Shape(p) /\ Typed(p) /\ p.options \in Options /\ IsSeq(p.objs)
      /\ p.slots \in [1..MaxLevels -> Slot] /\ p.nodes \in Seq(Node)
  BY DEF Sound, Typed
<1>2. /\ Top(p) \in Nat \ {0} /\ Pl(p) \in Level /\ Pl(p) = p.levels[Top(p)]
      /\ Top(p) <= MaxLevels /\ Top(p) = Len(p.levels)
  BY <1>1, TopLevelOf
<1>3. PICK l, v, n, s : /\ l = ListTop(p, use) /\ v = ListNode(p)
                        /\ n = Len(p.nodes) + 1 /\ s = p.nested
  OBVIOUS
<1>4. PICK b : b = BeginList(EnterLevel(p, use, "nest"), use)
  OBVIOUS
<1>5. PICK q, obj : ListBegun(p, use, q, obj, b)
  BY <1>1, <1>4, BeginListIs
<1>6. Is(q, Append(p.levels, l), [p.slots EXCEPT ![s].list = n], s,
         Append(p.nodes, v), Append(p.objs, obj), p.evs, p.labels, p.options)
  BY <1>3, <1>5 DEF ListBegun
<1>7. s \in 1..MaxLevels /\ s = Place(p.levels, Top(p)) + 1
  <2>1. s = Place(p.levels, Top(p)) + 1
    BY <1>3 DEF Sound, Nested
  <2>2. Place(p.levels, Top(p)) \in 0..(Top(p) - 1)
    BY <1>2, PlaceBound DEF Sound, LevelsRefer
  <2> QED
    BY <1>2, <2>1, <2>2, ParserAssumption
<1>8. n \in Nat
  BY <1>1, <1>3
<1>9. /\ q.slots \in [1..MaxLevels -> Slot]
      /\ \A t \in 1..MaxLevels :
            /\ q.slots[t].last_item = p.slots[t].last_item
            /\ q.slots[t].last_mods = p.slots[t].last_mods
            /\ q.slots[t].options = p.slots[t].options
            /\ q.slots[t].list = IF t = s THEN n ELSE p.slots[t].list
  <2>1. PICK x : x = [p.slots[s] EXCEPT !.list = n]
    OBVIOUS
  <2>2. p.slots[s] \in Slot
    BY <1>1, <1>7
  <2>3. /\ x \in Slot /\ x.list = n /\ x.options = p.slots[s].options
        /\ x.last_item = p.slots[s].last_item /\ x.last_mods = p.slots[s].last_mods
    BY <1>8, <2>1, <2>2 DEF Slot
  <2>4. q.slots = [t \in 1..MaxLevels |-> IF t = s THEN x ELSE p.slots[t]]
    BY <1>1, <1>6, <2>1 DEF Is
  <2> QED
    BY <1>1, <2>3, <2>4
<1>10. PICK p1 : p1 = SettingsOf(q, use)
  OBVIOUS
<1>11. Entered(q, s, p.options, p1) /\ p1.options = EnteredOptions(use, p.options)
  <2>1. Shape(q) /\ q.nested = s /\ q.options = p.options
    BY <1>6 DEF Is
  <2>2. /\ Entered(q, s, q.options, p1)
        /\ p1.options = EnteredOptions(use, q.options)
    BY <1>1, <1>7, <1>9, <1>10, <2>1, SettingsEntered
  <2> QED
    BY <2>1, <2>2
<1>12. /\ Shape(p1) /\ p1.levels = Append(p.levels, l) /\ p1.nested = s
       /\ p1.nodes = Append(p.nodes, v) /\ p1.objs = Append(p.objs, obj)
       /\ p1.evs = p.evs /\ p1.labels = p.labels /\ p1.options \in Options
       /\ p1.slots \in [1..MaxLevels -> Slot]
       /\ \A t \in 1..MaxLevels :
             /\ p1.slots[t].last_item = p.slots[t].last_item
             /\ p1.slots[t].last_mods = p.slots[t].last_mods
             /\ p1.slots[t].options = IF t = s THEN p.options ELSE p.slots[t].options
             /\ p1.slots[t].list = IF t = s THEN n ELSE p.slots[t].list
  BY <1>6, <1>9, <1>11 DEF Is, Entered, PutSettings
<1>13. /\ v \in Node /\ v.kind = "list" /\ v.next = None /\ v.first = None
       /\ v.mods = None /\ v.obj = Len(p.objs) + 1 /\ v = [v EXCEPT !.next = None]
  BY <1>1, <1>3, ListNodeIs
<1>14. /\ l \in Level /\ l.scope = "nest" /\ l.sub # "op_step"
       /\ l.op = Pl(p).op /\ l.event = Pl(p).event /\ l.outer_options = p.options
       /\ ~l.own_op /\ ~l.own_ev /\ ~l.wait /\ l.param = "none"
  <2>1. Pl(p).event \in Nat /\ Pl(p).op \in Nat
    BY <1>2 DEF Level
  <2> QED
    BY <1>1, <1>3, <2>1, ListTopIs
<1>15. ListLevel(p, p1, l, v)
  <2>1. Pushed(p, p1, l)
    BY <1>12, <1>14 DEF Pushed
  <2>2. IsSeq(p1.objs) /\ Len(p1.objs) = Len(p.objs) + 1 /\ Len(p.objs) \in Nat
    <3>1. IsSeq(Append(p.objs, obj)) /\ Len(Append(p.objs, obj)) = Len(p.objs) + 1
      BY <1>1, AppendIs
    <3> QED
      BY <1>1, <1>12, <3>1 DEF IsSeq
  <2>3. Adds(p, p1, v)
    BY <1>12, <1>13, <2>2 DEF Adds
  <2> QED
    BY <1>3, <1>12, <1>13, <1>14, <2>1, <2>3 DEF ListLevel
<1>16. ListSound(p, p1, e, n, l)
  BY <1>3, <1>15, ListLevelSound
<1>17. /\ Sound(p1, 0, e, n) /\ Fresh(p1, n) /\ Settled(p1) /\ AboveLevels(p, p1, l)
       /\ MoreNodes(p, p1) /\ n \notin DOMAIN p.nodes
  BY <1>16 DEF ListSound
<1>18. /\ Top(p1) = Top(p) + 1 /\ Top(p) \in 1..Top(p1)
       /\ \A k \in 1..Top(p1) : k # Top(p1) => k \in 1..Top(p)
       /\ \A k \in 1..Top(p) : /\ p1.levels[k] = p.levels[k]
                               /\ Place(p1.levels, k) = Place(p.levels, k)
       /\ p1.levels[Top(p1)] = l
  BY <1>2, <1>17 DEF AboveLevels
<1>19. r = SettingsOf(b, use)
  BY <1>4 DEF EnterList, SettingsOf
<1>20. ASSUME Shape(b), b.nested = s, b.options = p.options,
              b.slots \in [1..MaxLevels -> Slot]
       PROVE  Entered(b, s, p.options, r) /\ r.options = p1.options
  <2>1. Entered(b, s, b.options, r) /\ r.options = EnteredOptions(use, b.options)
    BY <1>1, <1>7, <1>19, <1>20, SettingsEntered
  <2> QED
    BY <1>11, <1>20, <2>1
<1>21. CASE use = "carr"
  <2>1. b = LinkObj(q, Top(p), s - 1, n, None)
    BY <1>3, <1>5, <1>21 DEF ListBegun
  <2>2. LinkKept(q, b)
    <3>1. Shape(q)
      BY <1>6 DEF Is
    <3> QED
      BY <1>8, <1>9, <2>1, <3>1, LinkObjKeeps
  <2>3. Entered(b, s, p.options, r) /\ r.options = p1.options
    BY <1>6, <1>20, <2>2 DEF LinkKept, Is
  <2>4. LinkDone(p1, b, r)
    <3>1. SamePlaces(b, r)
      BY <2>3 DEF SamePlaces, Entered, PutSettings
    <3>2. \A t \in 1..MaxLevels : r.slots[t].options = p1.slots[t].options
      BY <1>9, <1>12, <2>2, <2>3 DEF Entered, PutSettings, LinkKept
    <3> QED
      BY <2>3, <3>1, <3>2 DEF LinkDone, Entered
  <2>5. LinkReady(q, p1, Top(p), s - 1, n, None, e)
    <3>1. p1.nodes = [q.nodes EXCEPT ![n].next = None]
      <4>1. ResetLast(p.nodes, v, v)
        BY <1>1, <1>13, NodeReset
      <4> QED
        BY <1>3, <1>6, <1>12, <4>1 DEF ResetLast, Is
    <3>2. SamePlaces(p1, q)
      BY <1>9, <1>12 DEF SamePlaces
    <3>3. q.levels[Top(p)].event = Pl(p).event
      BY <1>2, <1>6, <1>12, <1>18 DEF Is
    <3>4. IF s - 1 = 0 THEN e = q.levels[Top(p)].event /\ e # None
          ELSE e = None /\ s - 1 \in 1..MaxLevels /\ q.slots[s - 1].list # None
      <4>1. CASE s = 1
        BY <1>3, <1>21, <3>3, <4>1
      <4>2. CASE s # 1
        <5>1. s - 1 \in 1..MaxLevels /\ s - 1 \in 1..(p.nested - 1) /\ s - 1 # s
          BY <1>3, <1>7, <4>2, ParserAssumption
        <5>2. p.slots[s - 1].list # None
          BY <5>1 DEF Sound, SlotsUsed
        <5> QED
          BY <1>3, <1>7, <1>9, <4>2, <5>1, <5>2
      <4> QED
        BY <4>1, <4>2
    <3> QED
      BY <1>6, <1>12, <1>17, <1>18, <3>1, <3>2, <3>4 DEF LinkReady, Is
  <2>6. Sound(r, 0, None, None) /\ EqualLevels(p1, r)
    BY <1>17, <2>1, <2>4, <2>5, LinkSound
  <2>7. Typed(p1)
    BY <1>17 DEF Sound
  <2>8. Settled(r)
    BY <1>17, <2>6, <2>7, SettledSame
  <2> QED
    BY <1>2, <1>18, <2>6, <2>8 DEF ListEntered, EqualLevels
<1>22. CASE use # "carr"
  <2> DEFINE on == Pl(p).op
             last == p.slots[s].last_mods
             none == p.nodes[on].mods = None
             m == IF none THEN on ELSE last
             f == IF none THEN "mods" ELSE "next"
  <2>1. /\ Stepping(Pl(p)) /\ on \in DOMAIN p.nodes /\ e = None
        /\ ~none => last # None
    <3>1. LevelRefers(p, Pl(p))
      BY <1>2 DEF Sound, LevelsRefer
    <3>2. ~none => last # None
      BY <1>2, <1>7, <1>22 DEF Sound, ModsEnd
    <3> QED
      BY <1>22, <3>1, <3>2 DEF LevelRefers, IsOp, Stepping
  <2>2. Linkable(p1, m, f, s, "mods")
    <3>1. CASE none
      <4>1. on \in DOMAIN p1.nodes /\ p1.nodes[on].mods = None
        BY <1>17, <2>1, <3>1 DEF MoreNodes
      <4>2. ASSUME NEW k \in 1..Top(p1), Stepping(p1.levels[k]), p1.levels[k].op = on
            PROVE  Place(p1.levels, k) + 1 = s
        <5>1. k # Top(p1)
          BY <1>14, <1>18, <4>2 DEF Stepping
        <5>2. /\ k \in 1..Top(p) /\ p1.levels[k] = p.levels[k]
              /\ Place(p1.levels, k) = Place(p.levels, k)
          BY <1>18, <5>1
        <5>3. Place(p.levels, k) = Place(p.levels, Top(p))
          BY <1>2, <2>1, <4>2, <5>2 DEF Sound, ModsEnd
        <5> QED
          BY <1>7, <5>2, <5>3
      <4> QED
        BY <3>1, <4>1, <4>2 DEF Linkable
    <3>2. CASE ~none
      BY <1>7, <1>12, <2>1, <3>2 DEF Linkable
    <3> QED
      BY <3>1, <3>2
  <2>3. m \in DOMAIN p1.nodes
    <3>1. last \in DOMAIN p.nodes \/ none
      BY <1>7, <2>1 DEF Sound, Ends, IsEnd
    <3> QED
      BY <1>17, <2>1, <3>1 DEF MoreNodes
  <2>4. /\ Shape(b) /\ b.levels = p1.levels /\ b.nested = s /\ b.objs = p1.objs
        /\ b.evs = p1.evs /\ b.labels = p1.labels /\ b.options = p.options
        /\ b.slots = [q.slots EXCEPT ![s].last_mods = n]
        /\ b.nodes = IF none THEN [p1.nodes EXCEPT ![m].mods = n]
                     ELSE [p1.nodes EXCEPT ![m].next = n]
    <3>1. CASE none
      <4>1. b = [q EXCEPT !.nodes[m].mods = n, !.slots[s].last_mods = n]
        BY <1>3, <1>5, <1>22, <3>1 DEF ListBegun
      <4> QED
        BY <1>6, <1>12, <3>1, <4>1, ZenonT(40) DEF Is, Shape
    <3>2. CASE ~none
      <4>1. b = [q EXCEPT !.nodes[m].next = n, !.slots[s].last_mods = n]
        BY <1>3, <1>5, <1>22, <3>2, SMTT(30) DEF ListBegun, Tip
      <4> QED
        BY <1>6, <1>12, <3>2, <4>1, ZenonT(40) DEF Is, Shape
    <3> QED
      BY <3>1, <3>2
  <2>5. ModsPut(q.slots, s, n, b.slots)
    BY <1>7, <1>8, <1>9, <2>4, LastModsPut, ZenonT(40)
  <2>6. Entered(b, s, p.options, r) /\ r.options = p1.options
    BY <1>20, <2>4, <2>5 DEF ModsPut
  <2>7. NodeLinked(p1, r, m, f, n)
    <3>1. p1.nodes \in Seq(Node)
      BY <1>17 DEF Sound, Typed
    <3>2. CASE none
      <4>1. r.nodes = [p1.nodes EXCEPT ![m].mods = n]
        BY <2>4, <2>6, <3>2 DEF Entered
      <4> QED
        BY <1>8, <2>3, <3>1, <3>2, <4>1, ModsLinked
    <3>3. CASE ~none
      <4>1. r.nodes = [p1.nodes EXCEPT ![m].next = n]
        BY <2>4, <2>6, <3>3 DEF Entered
      <4> QED
        BY <1>8, <2>3, <3>1, <3>3, <4>1, NextLinked
    <3> QED
      BY <3>2, <3>3
  <2>8. SlotMoved(p1, r, s, "mods", n)
    <3>1. r.slots \in [1..MaxLevels -> Slot]
      BY <2>6 DEF Entered, PutSettings
    <3>2. ASSUME NEW t \in 1..MaxLevels
          PROVE  /\ r.slots[t].list = p1.slots[t].list
                 /\ r.slots[t].options = p1.slots[t].options
                 /\ r.slots[t].last_item = p1.slots[t].last_item
                 /\ r.slots[t].last_mods = IF t = s THEN n ELSE p1.slots[t].last_mods
      <4>1. /\ r.slots[t].list = b.slots[t].list
            /\ r.slots[t].last_item = b.slots[t].last_item
            /\ r.slots[t].last_mods = b.slots[t].last_mods
            /\ r.slots[t].options = IF t = s THEN p.options ELSE b.slots[t].options
        BY <2>6 DEF Entered, PutSettings
      <4>2. /\ b.slots[t].list = q.slots[t].list
            /\ b.slots[t].last_item = q.slots[t].last_item
            /\ b.slots[t].options = q.slots[t].options
            /\ b.slots[t].last_mods = IF t = s THEN n ELSE q.slots[t].last_mods
        BY <2>5 DEF ModsPut
      <4> QED
        BY <1>9, <1>12, <4>1, <4>2
    <3> QED
      BY <3>1, <3>2 DEF SlotMoved
  <2>9. EqualLevels(p1, r)
    BY <2>4, <2>6, SMTT(30) DEF EqualLevels, EqualLevel, SameLevel, Entered, Top
  <2>10. Relabelled(p1, r)
    <3>1. r.levels \in Seq(Level) /\ r.labels \in [Names -> Nat]
      BY <1>17, <2>4, <2>6, SMTT(30) DEF Entered, Sound, Typed
    <3>2. LabelsRefer(r)
      BY <1>17, <2>4, <2>6, <2>7, ZenonT(40) DEF Entered, Sound, LabelsRefer, NodeLinked, IsNode
    <3> QED
      BY <1>12, <2>4, <2>6, <2>9, <3>1, <3>2, ZenonT(40) DEF Relabelled, Entered, EqualLevels
  <2>11. Sound(r, 0, None, None)
    <3>1. r.evs = p1.evs
      BY <2>4, <2>6 DEF Entered
    <3>2. Sound(p1, 0, None, n)
      BY <1>17, <2>1
    <3> HIDE DEF m, f
    <3> QED
      BY <1>7, <1>17, <2>2, <2>7, <2>8, <2>10, <3>1, <3>2, AttachNode
  <2>12. Settled(r)
    BY <1>17, <2>9, SettledSame DEF Sound
  <2> QED
    BY <1>2, <1>18, <2>9, <2>11, <2>12 DEF ListEntered, EqualLevels
<1> QED
  BY <1>21, <1>22

-----------------------------------------------------------------------------
(* Places taken and left, and parse_par_list(). *)

LEMMA Renested ==
    ASSUME NEW p, NEW more \in {0, 1}, NEW e, Sound(p, more, e, None), NEW more2 \in {0, 1},
           NEW x \in 0..MaxLevels, x - more2 = p.nested - more,
           Pl(p).param # "none" => more2 = 1,
           NEW q, q = [p EXCEPT !.nested = x]
    PROVE  Sound(q, more2, e, None)
<1>1. /\ Shape(q) /\ q.levels = p.levels /\ q.slots = p.slots /\ q.nested = x
      /\ q.nodes = p.nodes /\ q.objs = p.objs /\ q.evs = p.evs /\ q.labels = p.labels
      /\ q.options = p.options
  BY DEF Sound, Shape
<1>2. /\ Typed(q) /\ NodesRefer(q) /\ EventsRefer(q, e) /\ LabelsRefer(q) /\ LevelsRefer(q)
      /\ SlotsRefer(q)
  <2>1. Typed(q)
    BY <1>1 DEF Sound, Typed, Top
  <2>2. NodesRefer(q) /\ EventsRefer(q, e) /\ LabelsRefer(q) /\ SlotsRefer(q)
    BY <1>1 DEF Sound, NodesRefer, EventsRefer, LabelsRefer, SlotsRefer, IsNode
  <2>3. LevelsRefer(q)
    BY <1>1 DEF Sound, LevelsRefer, LevelRefers, UsesNested, IsOp, Top
  <2> QED
    BY <2>1, <2>2, <2>3
<1>3. Place(p.levels, Top(p)) \in Nat /\ p.nested \in Nat
  BY TopLevelOf, ListsFinite DEF Sound, Typed
<1>4. Nested(q, more2)
  <2>1. q.nested = Place(q.levels, Top(q)) + more2
    BY <1>1, <1>3 DEF Sound, Nested, Top
  <2> QED
    BY <1>1, <2>1 DEF Sound, Nested, Top, Pl
<1>5. SlotsUsed(q, q.nested - more2)
  BY <1>1 DEF Sound, SlotsUsed
<1>6. Scaled(q) /\ Ends(q) /\ ModsEnd(q) /\ Once(q, None)
  BY <1>1 DEF Sound, Scaled, Owns, Ends, IsEnd, ModsEnd, Once, From, Top
<1> QED
  BY <1>1, <1>2, <1>4, <1>5, <1>6 DEF Sound

LEMMA PushNestSound ==
    ASSUME NEW p, NEW e, Sound(p, 0, e, None), Top(p) < MaxLevels, NEW q, q = PushNest(p)
    PROVE  /\ Sound(q, 1, e, None) /\ q.levels = p.levels /\ q.slots = p.slots
           /\ q.nested = p.nested + 1 /\ q.nested \in 1..MaxLevels /\ p.nested \in Nat
<1>1. Shape(p) /\ Typed(p) /\ Pl(p).param = "none" /\ Top(p) \in Nat \ {0}
  BY TopLevelOf DEF Sound, Nested
<1>2. p.nested \in 0..(Top(p) - 1)
  <2>1. p.nested = Place(p.levels, Top(p)) + 0
    BY DEF Sound, Nested
  <2>2. Place(p.levels, Top(p)) \in 0..(Top(p) - 1)
    BY <1>1, PlaceBound DEF Sound, LevelsRefer
  <2> QED
    BY <1>1, <2>1, <2>2
<1>3. PICK x : x = p.nested + 1
  OBVIOUS
<1>4. x \in 1..MaxLevels /\ x - 1 = p.nested - 0
  BY <1>1, <1>2, <1>3, ParserAssumption
<1>5. q = [p EXCEPT !.nested = x]
  BY <1>3 DEF PushNest
<1>6. Sound(q, 1, e, None)
  <2>1. x \in 0..MaxLevels
    BY <1>4
  <2> QED
    BY <1>1, <1>4, <1>5, <2>1, Renested
<1>7. q.levels = p.levels /\ q.slots = p.slots /\ q.nested = x
  BY <1>1, <1>5 DEF Shape
<1> QED
  BY <1>1, <1>2, <1>3, <1>4, <1>6, <1>7

LEMMA PopNestSound ==
    ASSUME NEW p, NEW e, Sound(p, 1, e, None), Pl(p).param = "none", NEW q, q = PopNest(p)
    PROVE  Sound(q, 0, e, None) /\ q.levels = p.levels /\ q.options = p.options
<1>1. Shape(p) /\ Typed(p) /\ Top(p) \in Nat \ {0} /\ p.nested \in 0..MaxLevels
  BY TopLevelOf DEF Sound, Typed
<1>2. p.nested = Place(p.levels, Top(p)) + 1 /\ Place(p.levels, Top(p)) \in Nat
  BY <1>1, ListsFinite DEF Sound, Nested
<1>3. PICK x : x = p.nested - 1
  OBVIOUS
<1>4. x \in 0..MaxLevels /\ x - 0 = p.nested - 1
  BY <1>1, <1>2, <1>3, ParserAssumption
<1>5. q = [p EXCEPT !.nested = x]
  BY <1>3 DEF PopNest
<1>6. Sound(q, 0, e, None)
  BY <1>4, <1>5, Renested
<1>7. q.levels = p.levels /\ q.options = p.options
  BY <1>1, <1>5 DEF Shape
<1> QED
  BY <1>6, <1>7

Swept(p, more, e, q) ==
    Sound(q, more, e, None) /\ q.levels = p.levels /\ q.nested = p.nested

LEMMA SweepSound ==
    ASSUME NEW p, NEW more \in {0, 1}, NEW e, Sound(p, more, e, None), NEW s, NEW b \in BOOLEAN,
           NEW q, q = [p EXCEPT !.slots[s].sweep = b]
    PROVE  Swept(p, more, e, q)
<1>1. Shape(p) /\ Typed(p) /\ p.slots \in [1..MaxLevels -> Slot]
  BY DEF Sound, Typed
<1>2. PICK ss : ss = [p.slots EXCEPT ![s].sweep = b]
  OBVIOUS
<1>3. /\ ss \in [1..MaxLevels -> Slot]
      /\ \A t \in 1..MaxLevels : SameSlot(ss[t], p.slots[t])
  BY <1>1, <1>2 DEF Slot, SameSlot
<1>4. Is(q, p.levels, ss, p.nested, p.nodes, p.objs, p.evs, p.labels, p.options)
  BY <1>1, <1>2 DEF Is, Shape
<1>5. /\ Top(p) \in Nat \ {0} /\ Pl(p) = p.levels[Top(p)] /\ p.levels \in Seq(Level)
      /\ LevelRefers(p, Pl(p))
  BY <1>1, TopLevelOf DEF Sound, LevelsRefer
<1>6. Beside(p, q)
  BY <1>1, <1>3, <1>4, <1>5 DEF Beside, Is, SameLevel, Typed, Top, Pl
<1>7. /\ MoreEvents(p, q) /\ EventsRefer(q, e) /\ LabelsRefer(q) /\ LevelRefers(q, Pl(q))
      /\ Shape(q)
  BY <1>1, <1>4, <1>5 DEF MoreEvents, Is, Sound, EventsRefer, LabelsRefer, LevelRefers,
                           IsOp, IsNode, Typed, IsSeq, Pl, Top
<1>8. Pl(q).param # "none" => more = 1 /\ Stepping(Pl(q))
  BY <1>4 DEF Sound, Nested, Is, Pl
<1>9. Sound(q, more, e, None)
  BY <1>6, <1>7, <1>8, SoundBeside
<1> QED
  BY <1>4, <1>9 DEF Is, Swept

(* A parameter of a step: what follows is in its list, or after it.        *)
LEMMA ParListSound ==
    ASSUME NEW p, Sound(p, 0, None, None), Settled(p), Stepping(Pl(p)), Top(p) < MaxLevels,
           NEW use \in Uses \ {"carr"}, NEW list \in BOOLEAN,
           NEW r, r = ParList(p, use, list)
    PROVE  /\ Sound(r, 0, None, None) /\ Settled(r)
           /\ Top(p) \in Nat \ {0} /\ Top(r) \in {Top(p), Top(p) + 1}
<1>1. PICK p1 : p1 = PushNest(p)
  OBVIOUS
<1>2. /\ Sound(p1, 1, None, None) /\ p1.levels = p.levels
      /\ p1.nested = p.nested + 1 /\ p1.nested \in 1..MaxLevels
  BY <1>1, PushNestSound
<1>3. PICK b \in BOOLEAN : b <=> Sweeps(use)
  BY Zenon
<1>4. b = Sweeps(use)
  BY <1>3 DEF Sweeps
<1>5. PICK p2 : p2 = [p1 EXCEPT !.slots[p1.nested].sweep = b]
  OBVIOUS
<1>6. Sound(p2, 1, None, None) /\ p2.levels = p.levels /\ p2.nested = p1.nested
  <2>1. Swept(p1, 1, None, p2)
    BY <1>2, <1>5, SweepSound
  <2> QED
    BY <1>2, <2>1 DEF Swept
<1>7. /\ Pl(p).param = "none" /\ Top(p) \in Nat \ {0} /\ Pl(p) \in Level
      /\ Pl(p) = p.levels[Top(p)] /\ LevelRefers(p, Pl(p))
  BY TopLevelOf DEF Sound, Nested, LevelsRefer
<1>8. Pl(p).event # None /\ ~Pl(p).wait
  BY <1>7 DEF Settled, HasEvent
<1>9. Pl(p2) = Pl(p) /\ Top(p2) = Top(p)
  BY <1>6 DEF Pl, Top
<1>10. r = IF list THEN EnterList(SetPl(p2, [Pl(p2) EXCEPT !.param = use]), use)
           ELSE PopNest(p2)
  BY <1>1, <1>4, <1>5 DEF ParList
<1>11. CASE list
  <2>1. PICK m : m = [Pl(p2) EXCEPT !.param = use]
    OBVIOUS
  <2>2. /\ m \in Level /\ SameLevel(m, Pl(p2)) /\ Stepping(m) /\ m.param = use
        /\ m.event = Pl(p).event /\ ~m.wait
    BY <1>7, <1>8, <1>9, <2>1 DEF Level, SameLevel, Stepping, Uses
  <2>3. LevelRefers(p2, m)
    <3>1. LevelRefers(p2, Pl(p2))
      BY <1>6, <1>7, <1>9 DEF Sound, LevelsRefer, Pl, Top
    <3> QED
      BY <1>7, <1>9, <2>1, <3>1 DEF LevelRefers, Level
  <2>4. PICK p3 : p3 = SetPl(p2, m)
    OBVIOUS
  <2>5. Sound(p3, 1, None, None) /\ Top(p3) = Top(p2) /\ Pl(p3) = m
    BY <1>6, <1>7, <1>9, <2>2, <2>3, <2>4, SetPlSound
  <2>6. r = EnterList(p3, use)
    BY <1>10, <1>11, <2>1, <2>4
  <2>7. ListEntered(p3, r)
    <3>1. None = IF use = "carr" /\ p3.nested = 1 THEN Pl(p3).event ELSE None
      OBVIOUS
    <3> QED
      BY <1>8, <1>9, <2>2, <2>5, <2>6, <3>1, EnterListSound
  <2> QED
    BY <1>7, <1>9, <2>5, <2>7 DEF ListEntered
<1>12. CASE ~list
  <2>1. Sound(r, 0, None, None) /\ r.levels = p.levels
    BY <1>6, <1>7, <1>9, <1>10, <1>12, PopNestSound
  <2> QED
    BY <1>7, <2>1 DEF Settled, HasEvent, Top
<1> QED
  BY <1>11, <1>12

(* '[' of itself. *)
LEMMA OpenCarriersSound ==
    ASSUME NEW p, Sound(p, 0, None, None), Settled(p), Top(p) < MaxLevels,
           NEW r, r = EnterList(PushNest(PrepareEvent(p, None, FALSE)), "carr")
    PROVE  ListEntered(p, r)
<1>1. PICK q : q = PrepareEvent(p, None, FALSE)
  OBVIOUS
<1>2. PICK e : e = IF p.nested = 0 THEN Pl(q).event ELSE None
  OBVIOUS
<1>3. Kept(p, q) /\ Pl(q).event # None /\ ~Pl(q).wait /\ Sound(q, 0, e, None)
  <2>1. IsNode(p, None) /\ FALSE \in BOOLEAN
    BY DEF IsNode
  <2>2. /\ Kept(p, q) /\ Pl(q).event # None /\ ~Pl(q).wait
        /\ IF None # None \/ p.nested = 0 THEN Sound(q, 0, Pl(q).event, None)
           ELSE Sound(q, 0, None, None)
    BY <1>1, <2>1, PrepareEventSound
  <2> QED
    BY <1>2, <2>2
<1>4. Top(q) = Top(p) /\ q.nested = p.nested /\ Top(p) \in Nat \ {0}
  BY <1>3, TopLevelOf DEF Kept, Sound
<1>5. PICK q2 : q2 = PushNest(q)
  OBVIOUS
<1>6. /\ Sound(q2, 1, e, None) /\ q2.levels = q.levels
      /\ q2.nested = q.nested + 1 /\ q.nested \in Nat
  BY <1>3, <1>4, <1>5, PushNestSound
<1>7. Pl(q2) = Pl(q) /\ Top(q2) = Top(q)
  BY <1>6 DEF Pl, Top
<1>8. e = IF "carr" = "carr" /\ q2.nested = 1 THEN Pl(q2).event ELSE None
  BY <1>2, <1>4, <1>6, <1>7
<1>9. ListEntered(q2, r)
  <2>1. "carr" \in Uses /\ r = EnterList(q2, "carr")
    BY <1>1, <1>5 DEF Uses
  <2> QED
    BY <1>3, <1>4, <1>6, <1>7, <1>8, <2>1, EnterListSound
<1> QED
  BY <1>4, <1>7, <1>9 DEF ListEntered

-----------------------------------------------------------------------------
(* leave_level() *)

(* r has the levels of q but for the top, and settings may differ. *)
Lower(q, r) ==
    /\ Shape(r) /\ r.levels = Front(q.levels) /\ r.nested = q.nested
    /\ r.nodes = q.nodes /\ r.objs = q.objs /\ r.evs = q.evs /\ r.labels = q.labels
    /\ r.slots \in [1..MaxLevels -> Slot]
    /\ \A s \in 1..MaxLevels : SameSlot(r.slots[s], q.slots[s])
    /\ r.options \in Options

Lowered(q, r) ==
    /\ Sound(r, IF Pl(q).scope = "nest" THEN 1 ELSE 0, None, None) /\ Settled(r)
    /\ Top(r) \in Nat \ {0} /\ Top(q) = Top(r) + 1
    /\ Pl(r).param # "none" => Pl(q).scope = "nest" /\ Stepping(Pl(r))

IsFront(S, s, t, m) == t \in Seq(S) /\ Len(t) = m /\ \A k \in 1..m : t[k] = s[k]

LEMMA FrontIs ==
    ASSUME NEW S, NEW s \in Seq(S), NEW m \in Nat, Len(s) = m + 1
    PROVE  IsFront(S, s, Front(s), m)
<1> DEFINE t == Front(s)
<1>1. t = SubSeq(s, 1, m)
  BY DEF Front
<1> HIDE DEF t
<1>2. \A k \in 1..m : k \in DOMAIN s /\ s[k] \in S
  OBVIOUS
<1>3. t = [k \in 1..m |-> s[k]]
  BY <1>1, Z3
<1>4. t \in [1..m -> S]
  BY <1>2, <1>3
<1>5. t \in Seq(S)
  BY <1>4, SeqDef
<1>6. Len(t) = m
  BY <1>3, <1>5
<1>7. \A k \in 1..m : t[k] = s[k]
  BY <1>3
<1> QED
  BY <1>5, <1>6, <1>7 DEF IsFront, t

LEMMA LoweredSound ==
    ASSUME NEW q, Sound(q, 0, None, None), Top(q) > 1, ~Pl(q).own_op,
           NEW r, Lower(q, r)
    PROVE  Lowered(q, r)
<1>1. Typed(q)
  BY DEF Sound
<1>2. /\ Top(q) \in Nat /\ Top(q) <= MaxLevels /\ q.levels \in Seq(Level)
      /\ Pl(q) = q.levels[Top(q)] /\ Top(q) = Len(q.levels)
  BY <1>1, TopLevelOf
<1>3. PICK m \in Nat \ {0} : Top(q) = m + 1
  BY <1>2, Top(q) - 1 \in Nat \ {0}
<1>4. /\ r.levels \in Seq(Level) /\ Top(r) = m
      /\ \A k \in 1..m : r.levels[k] = q.levels[k]
  <2>1. PICK ls \in Seq(Level) : ls = q.levels
    BY <1>2
  <2>2. m \in Nat /\ Len(ls) = m + 1
    BY <1>2, <1>3, <2>1
  <2>3. IsFront(Level, ls, Front(ls), m)
    BY <2>2, FrontIs
  <2>4. r.levels = Front(ls)
    BY <2>1 DEF Lower
  <2> QED
    BY <2>1, <2>3, <2>4 DEF Top, IsFront
<1>5. /\ Pl(r) = q.levels[m] /\ 1..m \subseteq 1..Top(q) /\ 1..(Top(q) - 1) = 1..m
      /\ m \in 1..m /\ m \in 1..(Top(q) - 1)
  BY <1>3, <1>4 DEF Pl, Top
<1>6. ASSUME NEW k \in 1..m PROVE Place(r.levels, k) = Place(q.levels, k)
  BY <1>4, PlaceSame
<1>7. Place(q.levels, Top(q)) = Place(q.levels, m) + IF Pl(q).scope = "nest" THEN 1 ELSE 0
  <2>1. Place(q.levels, m + 1)
        = Place(q.levels, m) + IF q.levels[m + 1].scope = "nest" THEN 1 ELSE 0
    BY PlaceNext
  <2> QED
    BY <1>2, <1>3, <2>1
<1>8. PICK more \in {0, 1} : more = IF Pl(q).scope = "nest" THEN 1 ELSE 0
  OBVIOUS
<1>9. /\ r.nested = q.nested /\ r.nodes = q.nodes /\ r.objs = q.objs /\ r.evs = q.evs
      /\ r.labels = q.labels /\ r.slots \in [1..MaxLevels -> Slot]
      /\ r.options \in Options /\ Shape(r)
      /\ \A s \in 1..MaxLevels : /\ r.slots[s].list = q.slots[s].list
                                 /\ r.slots[s].options = q.slots[s].options
                                 /\ r.slots[s].last_item = q.slots[s].last_item
                                 /\ r.slots[s].last_mods = q.slots[s].last_mods
  BY DEF Lower, SameSlot
<1>10. Typed(r)
  <2>1. Top(r) \in 1..MaxLevels
    BY <1>2, <1>3, <1>4, ParserAssumption
  <2> QED
    BY <1>1, <1>4, <1>9, <2>1 DEF Typed
<1>11. ASSUME NEW k \in 1..m
       PROVE  /\ HasEvent(r.levels, k)
              /\ r.levels[k].param # "none" =>
                     q.levels[k + 1].scope = "nest" /\ Stepping(r.levels[k])
  <2>1. /\ HasEvent(q.levels, k)
        /\ q.levels[k].param # "none" =>
               q.levels[k + 1].scope = "nest" /\ Stepping(q.levels[k])
    BY <1>5 DEF Sound, LevelsRefer
  <2> QED
    BY <1>4, <1>6, <2>1 DEF HasEvent
<1>12. Settled(r)
  BY <1>4, <1>5, <1>11 DEF Settled
<1>13. Pl(r).param # "none" => Pl(q).scope = "nest" /\ Stepping(Pl(r))
  BY <1>2, <1>3, <1>4, <1>5, <1>11
<1>14. LevelsRefer(r)
  <2>1. r.levels[1].scope = "group"
    BY <1>3, <1>4 DEF Sound, LevelsRefer
  <2>2. ASSUME NEW k \in 1..m PROVE LevelRefers(r, r.levels[k])
    <3>1. LevelRefers(q, q.levels[k])
      BY <1>5 DEF Sound, LevelsRefer
    <3> QED
      BY <1>4, <1>9, <3>1 DEF LevelRefers, IsOp
  <2>3. ASSUME NEW k \in 1..(m - 1)
        PROVE  /\ HasEvent(r.levels, k)
               /\ r.levels[k].param # "none" =>
                      r.levels[k + 1].scope = "nest" /\ Stepping(r.levels[k])
    <3>1. k \in 1..m /\ k + 1 \in 1..m
      BY <1>3
    <3> QED
      BY <1>4, <1>11, <3>1
  <2>4. UsesNested(r)
    <3>1. UsesNested(q)
      BY DEF Sound, LevelsRefer
    <3> QED
      BY <1>4, <1>5, <1>6, <3>1 DEF UsesNested
  <2> QED
    BY <1>4, <2>1, <2>2, <2>3, <2>4 DEF LevelsRefer
<1>15. Nested(r, more)
  <2>1. r.nested = Place(r.levels, Top(r)) + more
    <3>1. q.nested = Place(q.levels, Top(q)) + 0 /\ Place(q.levels, m) \in Nat
      BY ListsFinite DEF Sound, Nested
    <3> QED
      BY <1>4, <1>5, <1>6, <1>7, <1>8, <1>9, <3>1
  <2>2. ASSUME NEW k \in 1..m, r.levels[k].scope = "nest"
        PROVE  r.slots[Place(r.levels, k)].options = r.levels[k].outer_options
    <3>1. q.levels[k].scope = "nest" /\ k \in 1..Top(q)
      BY <1>4, <1>5, <2>2
    <3>2. Place(q.levels, k) \in 1..MaxLevels
      BY <1>1, <3>1, NestPlace
    <3>3. q.slots[Place(q.levels, k)].options = q.levels[k].outer_options
      BY <3>1 DEF Sound, Nested
    <3> QED
      BY <1>4, <1>6, <1>9, <3>2, <3>3
  <2> QED
    BY <1>4, <1>8, <1>13, <2>1, <2>2 DEF Nested
<1>16. NodesRefer(r) /\ EventsRefer(r, None) /\ LabelsRefer(r) /\ Ends(r) /\ Once(r, None)
  BY <1>9 DEF Sound, NodesRefer, EventsRefer, LabelsRefer, Ends, Once, IsNode, IsEnd, From
<1>17. SlotsRefer(r)
  BY <1>9 DEF Sound, SlotsRefer, IsNode
<1>18. SlotsUsed(r, r.nested - more)
  <2>1. q.nested \in 0..MaxLevels /\ MaxLevels \in Nat
    BY <1>1, ParserAssumption DEF Typed
  <2>2. \A s \in 1..(q.nested - more) : s \in 1..(q.nested - 0) /\ s \in 1..MaxLevels
    BY <2>1
  <2> QED
    BY <1>9, <2>2 DEF Sound, SlotsUsed
<1>19. Scaled(r)
  <2>1. ASSUME NEW n \in DOMAIN q.nodes, \A k \in 1..m : ~Owns(r, k, n)
        PROVE  \A k \in 1..Top(q) : ~Owns(q, k, n)
    <3>1. ~Owns(q, Top(q), n)
      BY <1>2 DEF Owns
    <3>2. ASSUME NEW k \in 1..Top(q), k # Top(q) PROVE ~Owns(q, k, n)
      BY <1>3, <1>4, <2>1, <3>2 DEF Owns
    <3> QED
      BY <3>1, <3>2
  <2>2. ASSUME NEW k \in 1..m, r.levels[k].own_op
        PROVE  /\ r.nodes[r.levels[k].op].amp = 1
               /\ r.nodes[r.levels[k].op].mult = r.levels[k].used_ampmult
    BY <1>4, <1>5, <1>9, <2>2 DEF Sound, Scaled
  <2>3. ASSUME NEW j \in 1..m, NEW k \in 1..m, r.levels[j].own_op, r.levels[k].own_op,
               r.levels[j].op = r.levels[k].op
        PROVE  j = k
    BY <1>4, <1>5, <2>3 DEF Sound, Scaled
  <2>4. ASSUME NEW n \in DOMAIN r.nodes, r.nodes[n].kind = "op",
               \A k \in 1..m : ~Owns(r, k, n)
        PROVE  r.nodes[n].amp = r.nodes[n].mult
    BY <1>9, <2>1, <2>4 DEF Sound, Scaled
  <2> QED
    BY <1>4, <2>2, <2>3, <2>4 DEF Scaled
<1>20. ModsEnd(r)
  <2>1. ASSUME NEW k \in 1..m, Stepping(r.levels[k]), r.nodes[r.levels[k].op].mods # None
        PROVE  /\ Place(r.levels, k) + 1 \in 1..MaxLevels
               /\ r.slots[Place(r.levels, k) + 1].last_mods # None
    <3>1. k \in 1..Top(q) /\ r.levels[k] = q.levels[k] /\ Place(r.levels, k) = Place(q.levels, k)
      BY <1>4, <1>5, <1>6
    <3> QED
      BY <1>9, <2>1, <3>1 DEF Sound, ModsEnd
  <2>2. ASSUME NEW j \in 1..m, NEW k \in 1..m, Stepping(r.levels[j]),
               Stepping(r.levels[k]), r.levels[j].op = r.levels[k].op
        PROVE  Place(r.levels, j) = Place(r.levels, k)
    BY <1>4, <1>5, <1>6, <2>2 DEF Sound, ModsEnd
  <2> QED
    BY <1>4, <2>1, <2>2 DEF ModsEnd
<1>21. Sound(r, more, None, None)
  BY <1>9, <1>10, <1>14, <1>15, <1>16, <1>17, <1>18, <1>19, <1>20 DEF Sound
<1> QED
  BY <1>3, <1>4, <1>8, <1>12, <1>13, <1>21 DEF Lowered

Left(p, r) ==
    /\ Sound(r, IF Pl(p).scope = "nest" THEN 1 ELSE 0, None, None) /\ Settled(r)
    /\ Top(r) \in Nat \ {0} /\ Top(p) = Top(r) + 1
    /\ Pl(r).param # "none" => Pl(p).scope = "nest" /\ Stepping(Pl(r))
    /\ Pl(p).scope = "nest" => r.options = Pl(p).outer_options

LeftSettings(q) ==
    [q EXCEPT !.options = Tip(q).options, !.slots[q.nested].own_mult = None]
LeftLevel(q) == [q EXCEPT !.levels = Front(@)]

LEMMA LeftLevelIs ==
    ASSUME NEW q, Shape(q), q.slots \in [1..MaxLevels -> Slot], q.options \in Options,
           NEW r, r = LeftLevel(q)
    PROVE  Lower(q, r) /\ r.options = q.options
<1>1. /\ Shape(r) /\ r.levels = Front(q.levels) /\ r.nested = q.nested
      /\ r.nodes = q.nodes /\ r.objs = q.objs /\ r.evs = q.evs /\ r.labels = q.labels
      /\ r.slots = q.slots /\ r.options = q.options
  BY DEF Shape, LeftLevel
<1> QED
  BY <1>1 DEF Lower, SameSlot

LEMMA LeftSettingsIs ==
    ASSUME NEW q, Shape(q), q.slots \in [1..MaxLevels -> Slot],
           NEW s \in 1..MaxLevels, q.nested = s, NEW r, r = LeftLevel(LeftSettings(q))
    PROVE  Lower(q, r) /\ r.options = q.slots[s].options
<1>1. PICK t : t = LeftSettings(q)
  OBVIOUS
<1>2. PICK old : old = q.slots
  OBVIOUS
<1>3. PICK new : new = [old EXCEPT ![s].own_mult = None]
  OBVIOUS
<1>4. /\ Shape(t) /\ t.levels = q.levels /\ t.nested = q.nested
      /\ t.nodes = q.nodes /\ t.objs = q.objs /\ t.evs = q.evs /\ t.labels = q.labels
      /\ t.slots = new /\ t.options = q.slots[s].options
  BY <1>1, <1>2, <1>3 DEF Shape, LeftSettings, Tip
<1>5. new \in [1..MaxLevels -> Slot] /\ \A i \in 1..MaxLevels : SameSlot(new[i], old[i])
  BY <1>2, <1>3, ZenonT(40) DEF Slot, None, SameSlot
<1>6. /\ Shape(r) /\ r.levels = Front(q.levels) /\ r.nested = q.nested
      /\ r.nodes = q.nodes /\ r.objs = q.objs /\ r.evs = q.evs /\ r.labels = q.labels
      /\ r.slots = new /\ r.options = q.slots[s].options
  BY <1>1, <1>4 DEF Shape, LeftLevel
<1>7. q.slots[s].options \in Options
  BY DEF Slot
<1> QED
  BY <1>2, <1>5, <1>6, <1>7 DEF Lower

LEMMA LeaveLevelSound ==
    ASSUME NEW p, Sound(p, 0, None, None), Top(p) > 1, NEW r, r = LeaveLevel(p)
    PROVE  Left(p, r)
<1>1. PICK q : q = EndOperator(p)
  OBVIOUS
<1>2. Pl(p).param = "none" /\ Typed(p)
  BY DEF Sound, Nested
<1>3. Sound(q, 0, None, None)
  BY <1>1, <1>2, EndOperatorSound
<1>4. Ended(p, q)
  BY <1>1, EndOperatorEnds
<1>5. /\ Top(q) = Top(p) /\ Typed(q) /\ ~Pl(q).own_op /\ Pl(q).scope = Pl(p).scope
      /\ Pl(q).outer_options = Pl(p).outer_options
  <2>1. Top(q) = Top(p) /\ Typed(q) /\ Top(p) \in 1..Top(p)
        /\ Pl(q) = q.levels[Top(p)] /\ Pl(p) = p.levels[Top(p)]
    BY <1>2, <1>4, LevelsEnded, TopLevelOf
  <2>2. Pl(q).scope = Pl(p).scope /\ Pl(q).outer_options = Pl(p).outer_options /\ ~Pl(q).own_op
    BY <1>2, <1>4, <2>1, LevelsEnded
  <2> QED
    BY <2>1, <2>2
<1>6. Pl(p).scope \in {"group", "nest"}
  BY <1>2, TopLevelOf DEF Level
<1>7. CASE Pl(p).scope = "group"
  <2>1. PICK q2 : q2 = EndEvent(q)
    OBVIOUS
  <2>2. Sound(q2, 0, None, None) /\ Kept(q, q2) /\ ~Pl(q2).own_op
    BY <1>3, <1>5, <2>1, EndEventSound
  <2>3. Top(q2) = Top(p) /\ Pl(q2).scope = "group"
    BY <1>5, <1>7, <2>2 DEF Kept
  <2>4. r = LeftLevel(q2)
    BY <1>1, <1>7, <2>1 DEF LeaveLevel, LeftLevel
  <2>5. Lower(q2, r)
    <3>1. Shape(q2) /\ q2.slots \in [1..MaxLevels -> Slot] /\ q2.options \in Options
      BY <2>2 DEF Sound, Typed
    <3> QED
      BY <2>4, <3>1, LeftLevelIs
  <2>6. Lowered(q2, r)
    BY <2>2, <2>3, <2>5, LoweredSound
  <2> QED
    BY <1>7, <2>3, <2>6 DEF Lowered, Left
<1>8. CASE Pl(p).scope = "nest"
  <2>1. r = LeftLevel(LeftSettings(q))
    BY <1>1, <1>8 DEF LeaveLevel, LeftLevel, LeftSettings
  <2>2. PICK s \in 1..MaxLevels : /\ q.nested = s
                                  /\ q.slots[s].options = Pl(q).outer_options
    <3>1. Top(q) \in 1..Top(q) /\ Pl(q) = q.levels[Top(q)]
      BY <1>5, TopLevelOf
    <3>2. q.levels[Top(q)].scope = "nest"
      BY <1>5, <1>8, <3>1
    <3>3. Place(q.levels, Top(q)) \in 1..MaxLevels
      BY <1>5, <3>1, <3>2, NestPlace
    <3>4. q.nested = Place(q.levels, Top(q)) + 0
          /\ q.slots[Place(q.levels, Top(q))].options = Pl(q).outer_options
      BY <1>3, <3>1, <3>2 DEF Sound, Nested
    <3> QED
      BY <3>3, <3>4
  <2>3. Lower(q, r) /\ r.options = q.slots[s].options
    <3>1. Shape(q) /\ q.slots \in [1..MaxLevels -> Slot] /\ q.nested = s /\ s \in 1..MaxLevels
      BY <1>3, <2>2 DEF Sound, Typed
    <3> QED
      BY <2>1, <3>1, LeftSettingsIs
  <2>4. Lowered(q, r)
    BY <1>3, <1>5, <2>3, LoweredSound
  <2> QED
    BY <1>5, <1>8, <2>2, <2>3, <2>4 DEF Lowered, Left
<1> QED
  BY <1>6, <1>7, <1>8

-----------------------------------------------------------------------------
(* ']' *)

SamePlace(p, q) ==
    /\ Top(q) = Top(p) /\ \A k \in 1..(Top(p) - 1) : q.levels[k] = p.levels[k]
    /\ Pl(q).scope = Pl(p).scope

LEMMA SettledTop ==
    ASSUME NEW p, NEW q, Typed(p), Typed(q), SamePlace(p, q)
    PROVE  /\ Place(q.levels, Top(q)) = Place(p.levels, Top(p))
           /\ Settled(q) <=>
                  (Stepping(Pl(q)) \/ Place(p.levels, Top(p)) > 0
                       => Pl(q).event # None /\ ~Pl(q).wait)
<1>1. /\ Top(p) \in Nat \ {0} /\ Top(q) = Top(p)
      /\ Pl(p) = p.levels[Top(p)] /\ Pl(q) = q.levels[Top(p)]
  BY TopLevelOf DEF SamePlace
<1>2. ASSUME NEW k \in 1..Top(p) PROVE p.levels[k].scope = q.levels[k].scope
  <2>1. k \in 1..(Top(p) - 1) \/ k = Top(p)
    BY <1>1
  <2> QED
    BY <1>1, <2>1 DEF SamePlace
<1>3. Place(q.levels, Top(q)) = Place(p.levels, Top(p))
  BY <1>1, <1>2, PlaceSame
<1> QED
  BY <1>1, <1>3 DEF Settled, HasEvent

LEMMA SettledEnded ==
    ASSUME NEW p, NEW q, Typed(p), Ended(p, q), Settled(p)
    PROVE  Settled(q)
<1>1. /\ Top(p) \in 1..Top(p) /\ Pl(p) = p.levels[Top(p)]
  BY TopLevelOf
<1>2. Top(q) = Top(p) /\ Typed(q) /\ Pl(q) = q.levels[Top(p)]
  BY LevelsEnded, TopLevelOf
<1>3. /\ q.levels[Top(p)].event = p.levels[Top(p)].event
      /\ q.levels[Top(p)].wait = p.levels[Top(p)].wait
      /\ q.levels[Top(p)].sub = p.levels[Top(p)].sub
      /\ Place(q.levels, Top(p)) = Place(p.levels, Top(p))
      /\ q.levels[Top(p)].op \in {None, p.levels[Top(p)].op}
  BY <1>1, LevelsEnded
<1> QED
  BY <1>2, <1>3 DEF Settled, HasEvent, Stepping

Closing(q, again) ==
    CASE again -> EnterList(q, Pl(q).param)
      [] ~again /\ Pl(q).param # "none" -> PopNest(SetPl(q, [Pl(q) EXCEPT !.param = "none"]))
      [] OTHER -> EndOperator(PopNest(q))

Closed(p, q, r) ==
    /\ Sound(r, 0, None, None) /\ Settled(r) /\ Top(r) \in {Top(p), Top(q)}
    /\ Top(q) + 1 = Top(p) /\ Top(q) \in Nat
    /\ Top(r) # Top(p) => r.options = q.options

LEMMA ClosingSound ==
    ASSUME NEW p, Sound(p, 0, None, None), Pl(p).scope = "nest", NEW q, Left(p, q),
           NEW again \in BOOLEAN, again => Pl(q).param # "none",
           NEW r, r = Closing(q, again)
    PROVE  Closed(p, q, r)
<1>1. /\ Sound(q, 1, None, None) /\ Settled(q) /\ Typed(q)
      /\ Top(q) \in Nat \ {0} /\ Top(p) = Top(q) + 1
      /\ Pl(q).param # "none" => Stepping(Pl(q))
  BY DEF Left, Sound
<1>2. Top(p) <= MaxLevels /\ MaxLevels \in Nat /\ Pl(q) \in Level /\ Pl(q) = q.levels[Top(q)]
  <2>1. Typed(p)
    BY DEF Sound
  <2> QED
    BY <1>1, <2>1, TopLevelOf, ParserAssumption
<1>3. CASE again
  <2>1. PICK use \in Uses : use = Pl(q).param /\ use # "carr"
    BY <1>2, <1>3 DEF Level, Uses
  <2>2. Stepping(Pl(q)) /\ Pl(q).event # None /\ ~Pl(q).wait
    BY <1>1, <1>2, <1>3 DEF Settled, HasEvent
  <2>3. r = EnterList(q, use)
    BY <1>3, <2>1 DEF Closing
  <2>4. None = IF use = "carr" /\ q.nested = 1 THEN Pl(q).event ELSE None
    BY <2>1
  <2>5. ListEntered(q, r)
    BY <1>1, <1>2, <2>1, <2>2, <2>3, <2>4, EnterListSound
  <2> QED
    BY <1>1, <2>5 DEF ListEntered, Closed
<1>4. CASE ~again /\ Pl(q).param # "none"
  <2>1. PICK l : l = [Pl(q) EXCEPT !.param = "none"]
    OBVIOUS
  <2>2. PICK q1 : q1 = SetPl(q, l)
    OBVIOUS
  <2>3. /\ l \in Level /\ SameLevel(l, Pl(q)) /\ l.param = "none"
        /\ l.event = Pl(q).event /\ l.wait = Pl(q).wait /\ l.scope = Pl(q).scope
        /\ l.sub = Pl(q).sub /\ l.op = Pl(q).op /\ l.own_ev = Pl(q).own_ev
        /\ l.own_op = Pl(q).own_op
    BY <1>2, <2>1 DEF Level, SameLevel
  <2>4. LevelRefers(q, l) /\ (Stepping(l) <=> Stepping(Pl(q)))
    <3>1. LevelRefers(q, Pl(q))
      BY <1>1, <1>2 DEF Sound, LevelsRefer
    <3> QED
      BY <2>3, <3>1 DEF LevelRefers, Stepping
  <2>5. /\ Sound(q1, 1, None, None) /\ Top(q1) = Top(q) /\ Pl(q1) = l
        /\ \A k \in 1..(Top(q) - 1) : q1.levels[k] = q.levels[k]
        /\ q1.options = q.options
    <3>1. 1 \in {0, 1}
      OBVIOUS
    <3>2. /\ Sound(q1, 1, None, None) /\ Top(q1) = Top(q) /\ Pl(q1) = l
          /\ \A k \in 1..(Top(q) - 1) : q1.levels[k] = q.levels[k]
          /\ Is(q1, q1.levels, q.slots, q.nested, q.nodes, q.objs, q.evs, q.labels, q.options)
      BY <1>1, <2>2, <2>3, <2>4, <3>1, SetPlSound
    <3> QED
      BY <3>2 DEF Is
  <2>6. Settled(q1)
    <3>1. Typed(q1) /\ SamePlace(q, q1)
      BY <2>3, <2>5 DEF Sound, SamePlace
    <3> QED
      BY <1>1, <1>2, <2>3, <2>4, <2>5, <3>1, SettledTop DEF Settled, HasEvent
  <2>7. r = PopNest(q1)
    BY <1>4, <2>1, <2>2 DEF Closing
  <2>8. Sound(r, 0, None, None) /\ r.levels = q1.levels /\ r.options = q1.options
    BY <2>3, <2>5, <2>7, PopNestSound
  <2> QED
    BY <1>1, <2>5, <2>6, <2>8 DEF Closed, Settled, Top
<1>5. CASE ~again /\ Pl(q).param = "none"
  <2>1. PICK q1 : q1 = PopNest(q)
    OBVIOUS
  <2>2. Sound(q1, 0, None, None) /\ q1.levels = q.levels /\ q1.options = q.options
    BY <1>1, <1>5, <2>1, PopNestSound
  <2>3. Settled(q1) /\ Typed(q1) /\ Pl(q1).param = "none" /\ Top(q1) = Top(q)
    BY <1>1, <1>5, <2>2 DEF Settled, HasEvent, Top, Pl, Sound
  <2>4. r = EndOperator(q1)
    BY <1>5, <2>1 DEF Closing
  <2>5. Ended(q1, r)
    BY <2>2, <2>4, EndOperatorEnds
  <2>6. Sound(r, 0, None, None)
    BY <2>2, <2>3, <2>4, EndOperatorSound
  <2>7. Settled(r) /\ Top(r) = Top(q) /\ r.options = q.options
    BY <2>2, <2>3, <2>5, SettledEnded DEF Ended
  <2> QED
    BY <1>1, <2>6, <2>7 DEF Closed
<1> QED
  BY <1>3, <1>4, <1>5

-----------------------------------------------------------------------------
(* time_durgroup(): whichever the events are that it goes through, they    *)
(* keep their objects.                                                     *)

SameButEvents(p, r) ==
    /\ Shape(r) /\ r.levels = p.levels /\ r.slots = p.slots /\ r.nested = p.nested
    /\ r.nodes = p.nodes /\ r.objs = p.objs /\ r.labels = p.labels /\ r.options = p.options
    /\ SameEvents(p.evs, r.evs)

ConvertedEvent(es, flat, e) ==
    LET i == CHOOSE j \in DOMAIN flat : flat[j] = e
    IN  [es[e] EXCEPT
           !.forks = <<>>,
           !.next = IF i < Len(flat) THEN flat[i + 1] ELSE None,
           !.converted = IF @ < 2 THEN @ + 1 ELSE @]

LEMMA ConvertedSame ==
    ASSUME NEW es, IsSeq(es), \A x \in 1..Len(es) : "main_obj" \in DOMAIN es[x], NEW flat,
           NEW t, t = Converted(es, flat)
    PROVE  SameEvents(es, t)
<1>1. Len(es) \in Nat /\ DOMAIN es = 1..Len(es)
  BY DEF IsSeq
<1>2. t = [e \in DOMAIN es |-> IF ~Contains(flat, e) THEN es[e] ELSE ConvertedEvent(es, flat, e)]
  BY Zenon DEF Converted, ConvertedEvent
<1>3. DOMAIN t = 1..Len(es)
  BY <1>1, <1>2
<1>4. ASSUME NEW e \in 1..Len(es)
      PROVE  "main_obj" \in DOMAIN t[e] /\ t[e].main_obj = es[e].main_obj
  <2>1. CASE ~Contains(flat, e)
    <3>1. t[e] = es[e]
      BY <1>1, <1>2, <2>1
    <3> QED
      BY <3>1
  <2>2. CASE Contains(flat, e)
    <3>1. PICK i : i = CHOOSE j \in DOMAIN flat : flat[j] = e
      OBVIOUS
    <3>2. t[e] = ConvertedEvent(es, flat, e)
      BY <1>1, <1>2, <2>2
    <3>3. t[e] = [es[e] EXCEPT
                    !.forks = <<>>,
                    !.next = IF i < Len(flat) THEN flat[i + 1] ELSE None,
                    !.converted = IF @ < 2 THEN @ + 1 ELSE @]
      BY <3>1, <3>2 DEF ConvertedEvent
    <3>4. PICK x : x = es[e] /\ "main_obj" \in DOMAIN x
      OBVIOUS
    <3>5. PICK y : y = [x EXCEPT !.forks = <<>>]
      OBVIOUS
    <3>6. PICK next : next = IF i < Len(flat) THEN flat[i + 1] ELSE None
      OBVIOUS
    <3>7. PICK z : z = [y EXCEPT !.next = next]
      OBVIOUS
    <3>8. t[e] = [z EXCEPT !.converted = IF @ < 2 THEN @ + 1 ELSE @]
      BY <3>3, <3>4, <3>5, <3>6, <3>7
    <3>9. "main_obj" \in DOMAIN y /\ y.main_obj = x.main_obj
      BY <3>4, <3>5
    <3>10. "main_obj" \in DOMAIN z /\ z.main_obj = x.main_obj
      BY <3>7, <3>9
    <3> QED
      BY <3>4, <3>8, <3>10
  <2> QED
    BY <2>1, <2>2
<1>5. IsSeq(t) /\ Len(t) = Len(es)
  <2>1. PICK S : S = {t[i] : i \in 1..Len(es)}
    OBVIOUS
  <2>2. t \in [1..Len(es) -> S]
    <3>1. t = [i \in 1..Len(es) |-> t[i]]
      BY <1>1, <1>3, <1>2
    <3>2. \A i \in 1..Len(es) : t[i] \in S
      BY <2>1
    <3> QED
      BY <3>1, <3>2
  <2>3. t \in Seq(S) /\ Len(t) = Len(es)
    BY <1>1, <1>3, <2>2, SeqDef
  <2> QED
    BY <1>1, <2>2, <2>3 DEF IsSeq
<1> QED
  BY <1>4, <1>5 DEF SameEvents

LEMMA EventsSound ==
    ASSUME NEW p, Sound(p, 0, None, None), NEW r, SameButEvents(p, r)
    PROVE  Sound(r, 0, None, None)
<1>1. /\ Typed(p) /\ EventsRefer(p, None) /\ LabelsRefer(p) /\ LevelRefers(p, Pl(p))
      /\ Pl(p).param # "none" => 0 = 1 /\ Stepping(Pl(p))
  <2>1. Typed(p)
    BY DEF Sound
  <2>2. Pl(p) = p.levels[Top(p)] /\ Top(p) \in 1..Top(p)
    BY <2>1, TopLevelOf
  <2> QED
    BY <2>1, <2>2 DEF Sound, LevelsRefer, Nested
<1>2. /\ IsSeq(r.evs) /\ Len(r.evs) = Len(p.evs) /\ Len(p.evs) \in Nat
      /\ DOMAIN r.evs = 1..Len(p.evs) /\ DOMAIN p.evs = 1..Len(p.evs)
      /\ \A x \in 1..Len(p.evs) : /\ "main_obj" \in DOMAIN r.evs[x]
                                  /\ r.evs[x].main_obj = p.evs[x].main_obj
  BY <1>1 DEF SameButEvents, SameEvents, Typed, IsSeq
<1>3. MoreEvents(p, r)
  BY <1>2 DEF MoreEvents
<1>4. Shape(r) /\ Beside(p, r) /\ Pl(r) = Pl(p)
  BY <1>1 DEF SameButEvents, Beside, SameLevel, SameSlot, Typed, Top, Pl
<1>5. EventsRefer(r, None) /\ LabelsRefer(r) /\ LevelRefers(r, Pl(r))
  BY <1>1, <1>2, <1>4 DEF SameButEvents, EventsRefer, LabelsRefer, LevelRefers, IsNode, IsOp
<1> QED
  BY <1>1, <1>3, <1>4, <1>5, SoundBeside

(* A level that changes in what the invariant says nothing of. *)
Incidental(l, m) ==
    /\ m \in Level /\ SameLevel(m, l) /\ m.event = l.event /\ m.own_ev = l.own_ev
    /\ m.param = l.param

LEMMA IncidentalSound ==
    ASSUME NEW p, Sound(p, 0, None, None), NEW l, Incidental(Pl(p), l),
           Stepping(l) => Stepping(Pl(p)), NEW q, q = SetPl(p, l)
    PROVE  /\ Sound(q, 0, None, None) /\ SamePlace(p, q) /\ Pl(q) = l
           /\ Is(q, q.levels, p.slots, p.nested, p.nodes, p.objs, p.evs, p.labels, p.options)
<1>1. Typed(p) /\ LevelRefers(p, Pl(p)) /\ Pl(p).param = "none"
  <2>1. Typed(p)
    BY DEF Sound
  <2>2. Pl(p) = p.levels[Top(p)] /\ Top(p) \in 1..Top(p)
    BY <2>1, TopLevelOf
  <2> QED
    BY <2>1, <2>2 DEF Sound, LevelsRefer, Nested
<1>2. /\ l \in Level /\ SameLevel(l, Pl(p)) /\ LevelRefers(p, l) /\ 0 \in {0, 1}
      /\ l.param # "none" => 0 = 1 /\ Stepping(l)
  BY <1>1 DEF Incidental, SameLevel, LevelRefers
<1>3. /\ Sound(q, 0, None, None) /\ Top(q) = Top(p) /\ Pl(q) = l
      /\ \A k \in 1..(Top(p) - 1) : q.levels[k] = p.levels[k]
      /\ Is(q, q.levels, p.slots, p.nested, p.nodes, p.objs, p.evs, p.labels, p.options)
  BY <1>2, SetPlSound
<1> QED
  BY <1>3 DEF SamePlace, Incidental, SameLevel

LEMMA FinishDurgroupSound ==
    ASSUME NEW p, Sound(p, 0, None, None), NEW carry \in BOOLEAN,
           NEW r, r = FinishDurgroup(p, carry)
    PROVE  /\ Sound(r, 0, None, None) /\ SamePlace(p, r) /\ Pl(r).sub = Pl(p).sub
           /\ r.nested = p.nested /\ r.options = p.options
<1>1. PICK l \in Level : l = Pl(p)
  BY TopLevelOf DEF Sound
<1>2. PICK m : m = [l EXCEPT !.wait = FALSE]
  OBVIOUS
<1>3. Incidental(l, m) /\ m.sub = l.sub /\ m.op = l.op
  BY <1>1, <1>2 DEF Incidental, Level, SameLevel
<1>4. PICK q : q = SetPl(p, m)
  OBVIOUS
<1>5. /\ Sound(q, 0, None, None) /\ SamePlace(p, q) /\ Pl(q) = m
      /\ q.nested = p.nested /\ q.options = p.options /\ q.evs = p.evs
  <2>1. Stepping(m) => Stepping(Pl(p))
    BY <1>1, <1>3 DEF Stepping
  <2>2. /\ Sound(q, 0, None, None) /\ SamePlace(p, q) /\ Pl(q) = m
        /\ Is(q, q.levels, p.slots, p.nested, p.nodes, p.objs, p.evs, p.labels, p.options)
    BY <1>1, <1>3, <1>4, <2>1, IncidentalSound
  <2> QED
    BY <2>2 DEF Is
<1>6. CASE p.group_event = None
  <2>1. r = q
    BY <1>1, <1>2, <1>4, <1>6 DEF FinishDurgroup
  <2> QED
    BY <1>1, <1>3, <1>5, <2>1
<1>7. CASE p.group_event # None
  <2>1. PICK flat : flat = Flattened(p.evs, p.group_event)
    OBVIOUS
  <2>2. PICK last : last = Last(flat)
    OBVIOUS
  <2>3. PICK es : es = Converted(p.evs, flat)
    OBVIOUS
  <2>4. SameEvents(p.evs, es)
    <3>1. IsSeq(p.evs) /\ \A x \in DOMAIN p.evs : "main_obj" \in DOMAIN p.evs[x]
      BY DEF Sound, Typed
    <3>2. DOMAIN p.evs = 1..Len(p.evs)
      BY <3>1 DEF IsSeq
    <3> QED
      BY <2>3, <3>1, <3>2, ConvertedSame
  <2>5. PICK q1 : q1 = [q EXCEPT !.evs = es, !.last_event = last, !.group_event = None,
                                 !.owed = @ \/ carry]
    OBVIOUS
  <2>6. SameButEvents(q, q1)
    <3>1. Shape(q)
      BY <1>5 DEF Sound
    <3> QED
      BY <1>5, <2>4, <2>5, <3>1 DEF SameButEvents, Shape
  <2>7. Sound(q1, 0, None, None)
    BY <1>5, <2>6, EventsSound
  <2>8. /\ Top(q1) = Top(q) /\ Pl(q1) = m /\ q1.nested = q.nested /\ q1.options = q.options
        /\ q1.levels = q.levels
    BY <1>5, <2>6 DEF SameButEvents, Top, Pl
  <2>9. PICK b \in BOOLEAN : b <=> (m.carry \/ carry)
    BY Zenon
  <2>10. (m.carry \/ carry) \in BOOLEAN
    BY Zenon
  <2>11. b = (m.carry \/ carry)
    BY <2>9, <2>10, Zenon
  <2>12. PICK k : k = [m EXCEPT !.carry = b]
    OBVIOUS
  <2>13. Incidental(m, k) /\ k.sub = m.sub /\ k.op = m.op
    BY <1>3, <2>12 DEF Incidental, Level, SameLevel
  <2>14. r = SetPl(q1, k)
    <3>1. k = [m EXCEPT !.carry = @ \/ carry]
      BY <2>11, <2>12
    <3>2. r = SetPl([q EXCEPT !.evs = Converted(@, flat), !.last_event = Last(flat),
                              !.group_event = None, !.owed = @ \/ carry],
                    [Pl(q) EXCEPT !.carry = @ \/ carry])
      BY <1>1, <1>2, <1>4, <1>7, <2>1 DEF FinishDurgroup
    <3>3. [q EXCEPT !.evs = Converted(@, flat), !.last_event = Last(flat),
                    !.group_event = None, !.owed = @ \/ carry] = q1
      BY <1>5, <2>2, <2>3, <2>5
    <3> QED
      BY <1>5, <3>1, <3>2, <3>3
  <2>15. /\ Sound(r, 0, None, None) /\ SamePlace(q1, r) /\ Pl(r) = k
         /\ Is(r, r.levels, q1.slots, q1.nested, q1.nodes, q1.objs, q1.evs, q1.labels, q1.options)
    <3>1. Stepping(k) => Stepping(Pl(q1))
      BY <2>8, <2>13 DEF Stepping
    <3> QED
      BY <2>7, <2>8, <2>13, <2>14, <3>1, IncidentalSound
  <2>16. SamePlace(p, r)
    BY <1>5, <2>8, <2>15 DEF SamePlace
  <2> QED
    BY <1>1, <1>3, <1>5, <2>8, <2>13, <2>15, <2>16 DEF Is
<1> QED
  BY <1>6, <1>7

-----------------------------------------------------------------------------
(* The tokens.  A step is from p to r. *)

Good(p) == Sound(p, 0, None, None) /\ Settled(p)

Step(p, r) ==
    /\ Good(r)
    /\ Top(r) < Top(p) /\ Pl(p).scope = "nest" => r.options = Pl(p).outer_options

LEMMA StepUp ==
    ASSUME NEW p, Good(p), NEW r, Good(r), Top(r) = Top(p) \/ Top(r) = Top(p) + 1
    PROVE  Step(p, r)
<1>1. Top(p) \in Nat
  BY TopLevelOf DEF Good, Sound
<1> QED
  BY <1>1 DEF Step

LEMMA TopOfGood ==
    ASSUME NEW p, Sound(p, 0, None, None)
    PROVE  /\ Typed(p) /\ Pl(p) \in Level /\ Pl(p).param = "none"
           /\ Top(p) \in Nat \ {0} /\ Pl(p) = p.levels[Top(p)] /\ LevelRefers(p, Pl(p))
           /\ p.nested = Place(p.levels, Top(p)) /\ p.nested \in Nat
           /\ Settled(p) <=> (Stepping(Pl(p)) \/ p.nested > 0 => Pl(p).event # None /\ ~Pl(p).wait)
<1>1. Typed(p)
  BY DEF Sound
<1>2. /\ Top(p) \in Nat \ {0} /\ Pl(p) \in Level /\ Pl(p) = p.levels[Top(p)]
      /\ Top(p) \in 1..Top(p)
  BY <1>1, TopLevelOf
<1>3. Place(p.levels, Top(p)) \in Nat
  BY <1>2, ListsFinite
<1>4. p.nested = Place(p.levels, Top(p)) + 0 /\ Pl(p).param = "none"
  BY DEF Sound, Nested
<1>5. LevelRefers(p, Pl(p))
  BY <1>2 DEF Sound, LevelsRefer
<1> QED
  BY <1>1, <1>2, <1>3, <1>4, <1>5 DEF Settled, HasEvent

LEMMA IncidentalStep ==
    ASSUME NEW p, Good(p), NEW l, Incidental(Pl(p), l), Stepping(l) => Stepping(Pl(p)),
           l.wait = Pl(p).wait \/ (p.nested = 0 /\ ~Stepping(l)), NEW q, q = SetPl(p, l)
    PROVE  Step(p, q) /\ Pl(q) = l /\ Top(q) = Top(p)
<1>1. Sound(p, 0, None, None) /\ Settled(p)
  BY DEF Good
<1>2. /\ Sound(q, 0, None, None) /\ SamePlace(p, q) /\ Pl(q) = l
      /\ Is(q, q.levels, p.slots, p.nested, p.nodes, p.objs, p.evs, p.labels, p.options)
  BY <1>1, IncidentalSound
<1>3. q.nested = p.nested /\ Top(q) = Top(p)
  BY <1>2 DEF Is, SamePlace
<1>4. Settled(q)
  BY <1>1, <1>2, <1>3, TopOfGood DEF Incidental
<1> QED
  BY <1>2, <1>3, <1>4, StepUp DEF Good

(* "'name" *)
LEMMA LabelStep ==
    ASSUME NEW p, Good(p), NEW name \in Names,
           NEW r, r = SetPl(p, [Pl(p) EXCEPT !.set_label = name])
    PROVE  Step(p, r)
<1>1. PICK k \in Level : k = Pl(p)
  BY TopOfGood DEF Good
<1>2. PICK l : l = [k EXCEPT !.set_label = name]
  OBVIOUS
<1>3. Incidental(k, l) /\ l.wait = k.wait /\ l.sub = k.sub /\ l.op = k.op
  BY <1>2 DEF Incidental, Level, SameLevel
<1>4. Stepping(l) => Stepping(Pl(p))
  BY <1>1, <1>3 DEF Stepping
<1>5. r = SetPl(p, l)
  BY <1>1, <1>2
<1> QED
  BY <1>1, <1>3, <1>4, <1>5, IncidentalStep

(* A step that was begun in p2, which has the level of p or above. *)
LEMMA NewStepStep ==
    ASSUME NEW p, Good(p), NEW p2, Top(p2) = Top(p), NEW r, NewStep(p2, r)
    PROVE  Step(p, r)
<1>1. Good(r) /\ Top(r) = Top(p)
  BY DEF NewStep, InNewStep, Good
<1> QED
  BY <1>1, StepUp

LEMMA NewObjectStep ==
    ASSUME NEW p, Good(p), NEW r, r = BeginOperator(p, None, FALSE)
    PROVE  Step(p, r) /\ NewStep(p, r)
<1>1. IsOp(p, None) /\ FALSE \in BOOLEAN
  BY DEF IsOp
<1>2. NewStep(p, r)
  BY <1>1, BeginOperatorSound DEF Good
<1> QED
  BY <1>2, NewStepStep

(* '/' *)
LEMMA WaitStep ==
    ASSUME NEW p, Good(p), NEW r, NEW l, l = [Pl(p) EXCEPT !.wait = TRUE],
           \/ Stepping(Pl(p)) /\ r = BeginOperator(SetPl(p, l), Pl(p).op, FALSE)
           \/ ~Stepping(Pl(p)) /\ p.nested = 0 /\ r = SetPl(p, l)
    PROVE  Step(p, r)
<1>1. PICK k \in Level : k = Pl(p)
  BY TopOfGood DEF Good
<1>2. Incidental(k, l) /\ l.sub = k.sub /\ l.op = k.op
  <2>1. l = [k EXCEPT !.wait = TRUE]
    BY <1>1
  <2> QED
    BY <2>1 DEF Incidental, Level, SameLevel
<1>3. Stepping(l) <=> Stepping(Pl(p))
  BY <1>1, <1>2 DEF Stepping
<1>4. CASE ~Stepping(Pl(p)) /\ p.nested = 0 /\ r = SetPl(p, l)
  BY <1>1, <1>2, <1>3, <1>4, IncidentalStep
<1>5. CASE Stepping(Pl(p)) /\ r = BeginOperator(SetPl(p, l), Pl(p).op, FALSE)
  <2>1. PICK q : q = SetPl(p, l)
    OBVIOUS
  <2>2. /\ Sound(q, 0, None, None) /\ SamePlace(p, q) /\ Pl(q) = l
        /\ Is(q, q.levels, p.slots, p.nested, p.nodes, p.objs, p.evs, p.labels, p.options)
    BY <1>1, <1>2, <1>3, <2>1, IncidentalSound DEF Good
  <2>3. PICK op : op = Pl(p).op
    OBVIOUS
  <2>4. IsOp(q, op) /\ op # None /\ FALSE \in BOOLEAN
    <3>1. IsOp(p, op) /\ op # None
      BY <1>5, <2>3, TopOfGood DEF Good, LevelRefers, Stepping
    <3> QED
      BY <2>2, <3>1 DEF IsOp, Is
  <2>5. r = BeginOperator(q, op, FALSE)
    BY <1>5, <2>1, <2>3
  <2>6. NewStep(q, r)
    BY <2>2, <2>4, <2>5, BeginOperatorSound
  <2> QED
    BY <2>2, <2>6, NewStepStep DEF SamePlace
<1> QED
  BY <1>4, <1>5

(* ';' *)
LEMMA SubStepStep ==
    ASSUME NEW p, Good(p), Stepping(Pl(p)), NEW shift \in BOOLEAN, NEW r,
           r = BeginOperator(SetPl(p, [Pl(p) EXCEPT !.wait = @ \/ shift]), Pl(p).op, TRUE)
    PROVE  Step(p, r)
<1>1. PICK k \in Level : k = Pl(p)
  BY TopOfGood DEF Good
<1>2. (k.wait \/ shift) \in BOOLEAN
  BY Zenon
<1>3. PICK b \in BOOLEAN : b = (k.wait \/ shift)
  BY <1>2
<1>4. PICK l : l = [k EXCEPT !.wait = b]
  OBVIOUS
<1>5. Incidental(k, l) /\ l.sub = k.sub /\ l.op = k.op
  BY <1>4 DEF Incidental, Level, SameLevel
<1>6. PICK q : q = SetPl(p, l)
  OBVIOUS
<1>7. /\ Sound(q, 0, None, None) /\ SamePlace(p, q) /\ Pl(q) = l
      /\ Is(q, q.levels, p.slots, p.nested, p.nodes, p.objs, p.evs, p.labels, p.options)
  <2>1. Stepping(l) => Stepping(Pl(p))
    BY <1>1, <1>5 DEF Stepping
  <2> QED
    BY <1>1, <1>5, <1>6, <2>1, IncidentalSound DEF Good
<1>8. PICK op : op = Pl(p).op
  OBVIOUS
<1>9. IsOp(q, op) /\ op # None /\ TRUE \in BOOLEAN
  <2>1. IsOp(p, op) /\ op # None
    BY <1>8, TopOfGood DEF Good, LevelRefers, Stepping
  <2> QED
    BY <1>7, <2>1 DEF IsOp, Is
<1>10. r = BeginOperator(q, op, TRUE)
  <2>1. [k EXCEPT !.wait = @ \/ shift] = l
    BY <1>3, <1>4
  <2> QED
    BY <1>1, <1>6, <1>8, <2>1
<1>11. NewStep(q, r)
  BY <1>7, <1>9, <1>10, BeginOperatorSound
<1> QED
  BY <1>7, <1>11, NewStepStep DEF SamePlace

LEMMA GivenLabel ==
    ASSUME NEW p, Good(p), NEW name \in Names, NEW n \in DOMAIN p.nodes,
           NEW r, r = [p EXCEPT !.labels[name] = n]
    PROVE  Good(r) /\ Top(r) = Top(p)
<1>1. Sound(p, 0, None, None) /\ Settled(p) /\ Shape(p)
  BY DEF Good, Sound
<1>2. PICK labels : labels = [p.labels EXCEPT ![name] = n]
  OBVIOUS
<1>3. /\ Shape(r) /\ r.levels = p.levels /\ r.slots = p.slots /\ r.nested = p.nested
      /\ r.nodes = p.nodes /\ r.objs = p.objs /\ r.evs = p.evs /\ r.options = p.options
      /\ r.labels = labels
  BY <1>1, <1>2 DEF Shape
<1>4. /\ Typed(p) /\ LevelRefers(p, Pl(p)) /\ Pl(p).param = "none" /\ EventsRefer(p, None)
      /\ LabelsRefer(p)
  BY <1>1, TopOfGood DEF Sound
<1>5. labels \in [Names -> Nat] /\ \A x \in Names : labels[x] \in {n, p.labels[x]}
  <2>1. n \in Nat
    BY <1>4 DEF Typed
  <2> QED
    BY <1>2, <1>4, <2>1 DEF Typed
<1>6. LabelsRefer(r)
  BY <1>3, <1>4, <1>5 DEF LabelsRefer, IsNode
<1>7. Beside(p, r) /\ MoreEvents(p, r) /\ Pl(r) = Pl(p) /\ Top(r) = Top(p)
  BY <1>3, <1>4, <1>5 DEF Beside, MoreEvents, SameLevel, SameSlot, Typed, Top, Pl, IsSeq
<1>8. EventsRefer(r, None) /\ LevelRefers(r, Pl(r))
  BY <1>3, <1>4, <1>7 DEF EventsRefer, LevelRefers, IsOp
<1>9. Sound(r, 0, None, None)
  BY <1>1, <1>3, <1>4, <1>6, <1>7, <1>8, SoundBeside
<1> QED
  BY <1>1, <1>3, <1>7, <1>9 DEF Good, Settled

(* '@' *)
Referred(q, name, n) ==
    [BeginOperator(q, n, FALSE) EXCEPT !.labels[name] = Pl(BeginOperator(q, n, FALSE)).op]

LEMMA ReferenceStep ==
    ASSUME NEW p, Good(p), NEW name \in Names, NEW r, NEW q,
           q = SetPl(p, [Pl(p) EXCEPT !.sub = "none"]), NEW n, n = p.labels[name],
           \/ n # None /\ p.nodes[n].kind = "op" /\ r = Referred(q, name, n)
           \/ r = q
    PROVE  Step(p, r)
<1>1. PICK k \in Level : k = Pl(p)
  BY TopOfGood DEF Good
<1>2. PICK l : l = [k EXCEPT !.sub = "none"]
  OBVIOUS
<1>3. Incidental(k, l) /\ l.sub = "none" /\ l.wait = k.wait
  BY <1>2 DEF Incidental, Level, SameLevel
<1>4. Step(p, q) /\ Top(q) = Top(p) /\ q.nodes = p.nodes
  <2>1. q = SetPl(p, l) /\ ~Stepping(l)
    BY <1>1, <1>2, <1>3 DEF Stepping
  <2>2. Step(p, q) /\ Top(q) = Top(p)
    BY <1>1, <1>3, <2>1, IncidentalStep
  <2>3. Shape(p)
    BY DEF Good, Sound
  <2>4. Is(q, [p.levels EXCEPT ![Top(p)] = l], p.slots, p.nested, p.nodes, p.objs, p.evs,
           p.labels, p.options)
    BY <2>1, <2>3, SetPlIs
  <2> QED
    BY <2>2, <2>4 DEF Is
<1>5. CASE r = q
  BY <1>4, <1>5
<1>6. CASE n # None /\ p.nodes[n].kind = "op" /\ r = Referred(q, name, n)
  <2>1. PICK s : s = BeginOperator(q, n, FALSE)
    OBVIOUS
  <2>2. IsOp(q, n) /\ FALSE \in BOOLEAN
    <3>1. IsNode(p, n)
      BY DEF Good, Sound, LabelsRefer
    <3> QED
      BY <1>4, <1>6, <3>1 DEF IsOp, IsNode
  <2>3. NewStep(q, s)
    BY <1>4, <1>6, <2>1, <2>2, BeginOperatorSound DEF Step, Good
  <2>4. PICK m : m = Pl(s).op
    OBVIOUS
  <2>5. Good(s) /\ Top(s) = Top(p) /\ m \in DOMAIN s.nodes
    BY <1>4, <2>3, <2>4 DEF NewStep, InNewStep, Good
  <2>6. r = [s EXCEPT !.labels[name] = m]
    BY <1>6, <2>1, <2>4 DEF Referred
  <2>7. Good(r) /\ Top(r) = Top(s)
    BY <2>5, <2>6, GivenLabel
  <2> QED
    BY <2>5, <2>7, StepUp
<1> QED
  BY <1>5, <1>6

(* 'S' with 'a' *)
SetMultOf(q, use, v) ==
    [q EXCEPT
       !.options.def_ampmult = IF use = "amod" THEN v * Tip(q).options.ampmult ELSE v,
       !.slots = IF q.nested = 0 THEN @ ELSE [@ EXCEPT ![q.nested].own_mult = v]]

LEMMA OwnMultPut ==
    ASSUME NEW slots \in [1..MaxLevels -> Slot], NEW s, NEW v \in Nat,
           NEW t, t = [slots EXCEPT ![s].own_mult = v]
    PROVE  t \in [1..MaxLevels -> Slot] /\ \A i \in 1..MaxLevels : SameSlot(t[i], slots[i])
<1>1. ASSUME NEW i \in 1..MaxLevels PROVE t[i] \in Slot /\ SameSlot(t[i], slots[i])
  <2>1. PICK x \in Slot : x = slots[i]
    OBVIOUS
  <2>2. PICK y : y = [x EXCEPT !.own_mult = v]
    OBVIOUS
  <2>3. y \in Slot /\ SameSlot(y, x) /\ SameSlot(x, x)
    BY <2>2 DEF Slot, SameSlot
  <2>4. t[i] = IF i = s THEN y ELSE x
    BY <2>1, <2>2
  <2> QED
    BY <2>1, <2>3, <2>4
<1> QED
  BY <1>1

LEMMA SetMultIs ==
    ASSUME NEW q, Good(q), NEW use, use = "amod" => q.nested > 0, NEW v \in Nat,
           NEW r, r = SetMultOf(q, use, v)
    PROVE  Good(r) /\ Top(r) = Top(q)
<1>1. Sound(q, 0, None, None) /\ Settled(q) /\ Shape(q)
  BY DEF Good, Sound
<1>2. /\ Typed(q) /\ LevelRefers(q, Pl(q)) /\ Pl(q).param = "none" /\ EventsRefer(q, None)
      /\ LabelsRefer(q) /\ q.nested \in Nat
  BY <1>1, TopOfGood DEF Sound
<1>3. PICK m \in Nat : m = IF use = "amod" THEN v * Tip(q).options.ampmult ELSE v
  <2>1. CASE use = "amod"
    <3>1. q.nested \in 1..MaxLevels
      BY <1>2, <2>1, ParserAssumption DEF Typed
    <3>2. Tip(q).options.ampmult \in Nat
      BY <1>2, <3>1 DEF Typed, Tip, Slot, Options
    <3> QED
      BY <2>1, <3>2
  <2>2. CASE use # "amod"
    BY <2>2
  <2> QED
    BY <2>1, <2>2
<1>4. PICK options : options = [q.options EXCEPT !.def_ampmult = m]
  OBVIOUS
<1>5. options \in Options
  BY <1>2, <1>4 DEF Typed, Options
<1>6. PICK slots : slots = IF q.nested = 0 THEN q.slots
                           ELSE [q.slots EXCEPT ![q.nested].own_mult = v]
  OBVIOUS
<1>7. slots \in [1..MaxLevels -> Slot] /\ \A i \in 1..MaxLevels : SameSlot(slots[i], q.slots[i])
  <2>1. CASE q.nested = 0
    BY <1>2, <1>6, <2>1 DEF Typed, SameSlot
  <2>2. CASE q.nested # 0
    <3>1. q.slots \in [1..MaxLevels -> Slot]
      BY <1>2 DEF Typed
    <3>2. slots = [q.slots EXCEPT ![q.nested].own_mult = v]
      BY <1>6, <2>2
    <3> QED
      BY <3>1, <3>2, OwnMultPut
  <2> QED
    BY <2>1, <2>2
<1>8. /\ Shape(r) /\ r.levels = q.levels /\ r.slots = slots /\ r.nested = q.nested
      /\ r.nodes = q.nodes /\ r.objs = q.objs /\ r.evs = q.evs /\ r.options = options
      /\ r.labels = q.labels
  <2>1. r = [q EXCEPT !.options = options, !.slots = slots]
    BY <1>1, <1>3, <1>4, <1>6 DEF SetMultOf, Shape
  <2> QED
    BY <1>1, <2>1 DEF Shape
<1>9. Beside(q, r) /\ MoreEvents(q, r) /\ Pl(r) = Pl(q) /\ Top(r) = Top(q)
  <2>1. MoreEvents(q, r)
    BY <1>2, <1>8 DEF MoreEvents, Typed, IsSeq
  <2> QED
    BY <1>2, <1>5, <1>7, <1>8, <2>1 DEF Beside, SameLevel, Typed, Top, Pl
<1>10. EventsRefer(r, None) /\ LevelRefers(r, Pl(r)) /\ LabelsRefer(r)
  BY <1>2, <1>8, <1>9 DEF EventsRefer, LevelRefers, IsOp, LabelsRefer, IsNode
<1>11. Sound(r, 0, None, None)
  BY <1>1, <1>2, <1>8, <1>9, <1>10, SoundBeside
<1> QED
  BY <1>1, <1>8, <1>9, <1>11 DEF Good, Settled

LEMMA SetMultStep ==
    ASSUME NEW p, Good(p), NEW v \in Nat, NEW r,
           r = [SetPl(p, [Pl(p) EXCEPT !.sub = "settings"]) EXCEPT
                  !.options.def_ampmult =
                      IF Pl(p).use = "amod" THEN v * Tip(p).options.ampmult ELSE v,
                  !.slots = IF p.nested = 0 THEN @
                            ELSE [@ EXCEPT ![p.nested].own_mult = v]]
    PROVE  Step(p, r)
<1>1. PICK k \in Level : k = Pl(p)
  BY TopOfGood DEF Good
<1>2. PICK l : l = [k EXCEPT !.sub = "settings"]
  OBVIOUS
<1>3. Incidental(k, l) /\ l.sub = "settings" /\ l.wait = k.wait
  BY <1>2 DEF Incidental, Level, SameLevel
<1>4. PICK q : q = SetPl(p, l)
  OBVIOUS
<1>5. Step(p, q) /\ Top(q) = Top(p)
  <2>1. ~Stepping(l)
    BY <1>3 DEF Stepping
  <2> QED
    BY <1>1, <1>3, <1>4, <2>1, IncidentalStep
<1>6. Shape(q) /\ q.slots = p.slots /\ q.nested = p.nested
  <2>1. Shape(p)
    BY DEF Good, Sound
  <2>2. Is(q, [p.levels EXCEPT ![Top(p)] = l], p.slots, p.nested, p.nodes, p.objs, p.evs,
           p.labels, p.options)
    BY <1>4, <2>1, SetPlIs
  <2> QED
    BY <2>2 DEF Is
<1>7. PICK use : use = Pl(p).use
  OBVIOUS
<1>8. use = "amod" => q.nested > 0
  <2>1. /\ UsesNested(p) /\ Top(p) \in Nat \ {0} /\ Pl(p) = p.levels[Top(p)]
        /\ p.nested = Place(p.levels, Top(p))
    BY TopOfGood DEF Good, Sound, LevelsRefer
  <2> QED
    BY <1>6, <1>7, <2>1 DEF UsesNested
<1>9. r = SetMultOf(q, use, v)
  <2>1. r = [q EXCEPT
               !.options.def_ampmult = IF use = "amod" THEN v * Tip(p).options.ampmult ELSE v,
               !.slots = IF p.nested = 0 THEN @ ELSE [@ EXCEPT ![p.nested].own_mult = v]]
    BY <1>1, <1>2, <1>4, <1>7
  <2>2. Tip(p) = Tip(q)
    BY <1>6 DEF Tip
  <2> QED
    BY <1>6, <2>1, <2>2 DEF SetMultOf
<1>10. Good(r) /\ Top(r) = Top(q)
  BY <1>5, <1>8, <1>9, SetMultIs DEF Step
<1> QED
  BY <1>5, <1>10, StepUp

(* A parameter, of a step that there is or of a new object. *)
LEMMA ParListStep ==
    ASSUME NEW p, Good(p), Stepping(Pl(p)), Top(p) < MaxLevels,
           NEW use \in Uses \ {"carr"}, NEW list \in BOOLEAN, NEW r, r = ParList(p, use, list)
    PROVE  Good(r) /\ Top(r) \in {Top(p), Top(p) + 1}
<1>1. /\ Sound(r, 0, None, None) /\ Settled(r)
      /\ Top(p) \in Nat \ {0} /\ Top(r) \in {Top(p), Top(p) + 1}
  BY ParListSound DEF Good
<1> QED
  BY <1>1 DEF Good

LEMMA NewAmplitudeStep ==
    ASSUME NEW p, Good(p), Top(p) < MaxLevels, NEW list \in BOOLEAN, NEW r,
           r = ParList(BeginOperator(p, None, FALSE), "amod", list)
    PROVE  Step(p, r)
<1>1. PICK q : q = BeginOperator(p, None, FALSE)
  OBVIOUS
<1>2. Good(q) /\ Stepping(Pl(q)) /\ Top(q) = Top(p)
  <2>1. NewStep(p, q)
    BY <1>1, NewObjectStep
  <2> QED
    BY <2>1 DEF NewStep, InNewStep, Good
<1>3. "amod" \in Uses \ {"carr"}
  BY DEF Uses
<1>4. Good(r) /\ Top(r) \in {Top(q), Top(q) + 1}
  BY <1>1, <1>2, <1>3, ParListStep
<1> QED
  BY <1>2, <1>4, StepUp

(* '[', '{' *)
LEMMA OpenStep ==
    ASSUME NEW p, Good(p), Top(p) < MaxLevels, NEW r,
           \/ r = EnterList(PushNest(PrepareEvent(p, None, FALSE)), "carr")
           \/ r = EnterLevel(p, Pl(p).use, "group")
    PROVE  Step(p, r)
<1>1. CASE r = EnterList(PushNest(PrepareEvent(p, None, FALSE)), "carr")
  <2>1. ListEntered(p, r)
    BY <1>1, OpenCarriersSound DEF Good
  <2> QED
    BY <2>1, StepUp DEF ListEntered, Good
<1>2. CASE r = EnterLevel(p, Pl(p).use, "group")
  <2>1. Sound(r, 0, None, None) /\ Settled(r) /\ Top(r) = Top(p) + 1
    BY <1>2, EnterGroupSound DEF Good
  <2> QED
    BY <2>1, StepUp DEF Good
<1> QED
  BY <1>1, <1>2

(* '}' *)
LEMMA CloseGroupStep ==
    ASSUME NEW p, Good(p), Pl(p).scope = "group", Top(p) > 1, NEW r, r = LeaveLevel(p)
    PROVE  Step(p, r)
<1>1. Left(p, r)
  BY LeaveLevelSound DEF Good
<1> QED
  BY <1>1 DEF Left, Step, Good

(* ']' *)
LEMMA CloseListStep ==
    ASSUME NEW p, Good(p), Pl(p).scope = "nest", NEW again \in BOOLEAN,
           NEW q, q = LeaveLevel(p), again => Pl(q).param # "none",
           NEW r, r = Closing(q, again)
    PROVE  Step(p, r)
<1>1. Top(p) > 1
  <2>1. Top(p) \in Nat \ {0} /\ Pl(p) = p.levels[Top(p)]
    BY TopOfGood DEF Good
  <2>2. p.levels[1].scope # "nest"
    BY DEF Good, Sound, LevelsRefer
  <2> QED
    BY <2>1, <2>2
<1>2. Left(p, q)
  BY <1>1, LeaveLevelSound DEF Good
<1>3. Closed(p, q, r)
  BY <1>2, ClosingSound DEF Good
<1>4. Top(r) < Top(p) => r.options = Pl(p).outer_options
  BY <1>2, <1>3 DEF Closed, Left
<1> QED
  BY <1>3, <1>4 DEF Closed, Step, Good

(* '|' *)
LEMMA SeparatorStep ==
    ASSUME NEW p, Good(p), p.nested = 0, NEW carry \in BOOLEAN, NEW q, q = EndEvent(p),
           NEW r, r = FinishDurgroup(SetPl(q, [Pl(q) EXCEPT !.sub = "none"]), carry)
    PROVE  Step(p, r)
<1>1. /\ Sound(q, 0, None, None) /\ Top(q) = Top(p) /\ q.nested = 0
  BY EndEventSound DEF Good, Kept
<1>2. PICK k \in Level : k = Pl(q)
  BY <1>1, TopOfGood
<1>3. PICK l : l = [k EXCEPT !.sub = "none"]
  OBVIOUS
<1>4. Incidental(k, l) /\ l.sub = "none"
  BY <1>3 DEF Incidental, Level, SameLevel
<1>5. PICK q2 : q2 = SetPl(q, l)
  OBVIOUS
<1>6. /\ Sound(q2, 0, None, None) /\ SamePlace(q, q2) /\ Pl(q2) = l /\ q2.nested = 0
  <2>1. ~Stepping(l)
    BY <1>4 DEF Stepping
  <2>2. /\ Sound(q2, 0, None, None) /\ SamePlace(q, q2) /\ Pl(q2) = l
        /\ Is(q2, q2.levels, q.slots, q.nested, q.nodes, q.objs, q.evs, q.labels, q.options)
    BY <1>1, <1>2, <1>4, <1>5, <2>1, IncidentalSound
  <2> QED
    BY <1>1, <2>2 DEF Is
<1>7. r = FinishDurgroup(q2, carry)
  BY <1>2, <1>3, <1>5
<1>8. /\ Sound(r, 0, None, None) /\ SamePlace(q2, r) /\ Pl(r).sub = "none" /\ r.nested = 0
  BY <1>4, <1>6, <1>7, FinishDurgroupSound
<1>9. Settled(r)
  BY <1>8, TopOfGood DEF Stepping
<1>10. Top(r) = Top(p)
  BY <1>1, <1>6, <1>8 DEF SamePlace
<1> QED
  BY <1>8, <1>9, <1>10, StepUp DEF Good

(* The end of the script. *)
LEMMA EndOfScriptSound ==
    ASSUME NEW p, Good(p), NEW r, r = FinishDurgroup(EndEvent(EndOperator(p)), FALSE)
    PROVE  Sound(r, 0, None, None) /\ Top(r) = Top(p)
<1>1. PICK q : q = EndOperator(p)
  OBVIOUS
<1>2. Sound(q, 0, None, None) /\ Top(q) = Top(p)
  <2>1. Pl(p).param = "none"
    BY TopOfGood DEF Good
  <2>2. Ended(p, q)
    BY <1>1, EndOperatorEnds DEF Good
  <2> QED
    BY <1>1, <2>1, <2>2, EndOperatorSound DEF Good, Ended
<1>3. PICK q2 : q2 = EndEvent(q)
  OBVIOUS
<1>4. Sound(q2, 0, None, None) /\ Top(q2) = Top(p)
  BY <1>2, <1>3, EndEventSound DEF Kept
<1>5. r = FinishDurgroup(q2, FALSE) /\ FALSE \in BOOLEAN
  BY <1>1, <1>3
<1>6. Sound(r, 0, None, None) /\ SamePlace(q2, r)
  BY <1>4, <1>5, FinishDurgroupSound
<1> QED
  BY <1>4, <1>6 DEF SamePlace

-----------------------------------------------------------------------------
(* The invariant holds at first. *)

LEMMA InitSound ==
    ASSUME NEW p,
           p = [levels |-> <<TopLevel>>,
                slots |-> [i \in 1..MaxLevels |-> NewSlot], nested |-> 0,
                nodes |-> <<>>, objs |-> <<>>, root_op |-> None,
                evs |-> <<>>, last_event |-> None, group_event |-> None,
                labels |-> [n \in Names |-> None],
                options |-> DefOptions, owed |-> FALSE]
    PROVE  Good(p)
<1>1. MaxLevels \in Nat \ {0} /\ Gain \in Nat
  BY ParserAssumption
<1>2. DefOptions \in Options
  BY <1>1 DEF DefOptions, Options
<1>3. TopLevel \in Level
  BY <1>2 DEF TopLevel, Level, Uses, None, NoName
<1>4. NewSlot \in Slot
  BY <1>2 DEF NewSlot, Slot, None
<1>5. PICK l \in Level : l = TopLevel
  BY <1>3
<1>6. /\ l.scope = "group" /\ l.use = "carr" /\ l.sub = "none" /\ l.event = None
      /\ l.op = None /\ ~l.own_ev /\ ~l.own_op /\ l.param = "none" /\ ~l.wait
  BY <1>5 DEF TopLevel
<1>7. PICK s \in Slot : s = NewSlot
  BY <1>4
<1>8. s.list = None /\ s.last_item = None /\ s.last_mods = None
  BY <1>7 DEF NewSlot
<1>9. /\ Shape(p) /\ p.levels = <<l>> /\ p.slots = [i \in 1..MaxLevels |-> s]
      /\ p.nested = 0 /\ p.nodes = <<>> /\ p.objs = <<>> /\ p.evs = <<>>
      /\ p.labels = [n \in Names |-> None] /\ p.options = DefOptions
  BY <1>5, <1>7 DEF Shape
<1>10. p.levels \in Seq(Level) /\ Top(p) = 1 /\ Pl(p) = l /\ p.levels[1] = l
  BY <1>9 DEF Top, Pl
<1>11. DOMAIN p.nodes = {} /\ DOMAIN p.evs = {} /\ IsSeq(p.objs) /\ IsSeq(p.evs)
       /\ p.nodes \in Seq(Node)
  BY <1>9 DEF IsSeq
<1>12. Place(p.levels, 1) = 0
  <2>1. Place(p.levels, 1) \in 0..(1 - 1)
    BY <1>6, <1>10, PlaceBound
  <2> QED
    BY <2>1
<1>13. /\ \A k \in 1..Top(p) : k = 1 /\ p.levels[k] = l
       /\ \A k \in 1..(Top(p) - 1) : FALSE
  <2>1. /\ \A k \in 1..1 : k = 1
        /\ \A k \in 1..(1 - 1) : FALSE
    OBVIOUS
  <2>2. \A k \in 1..Top(p) : k = 1
    BY <1>10, <2>1, Zenon
  <2>3. \A k \in 1..(Top(p) - 1) : FALSE
    BY <1>10, <2>1, Zenon
  <2> QED
    BY <1>10, <2>2, <2>3, Zenon
<1>14. Typed(p)
  BY <1>1, <1>2, <1>9, <1>10, <1>11 DEF Typed, None
<1>15. NodesRefer(p) /\ EventsRefer(p, None) /\ LabelsRefer(p) /\ Once(p, None)
  BY <1>9, <1>11 DEF NodesRefer, EventsRefer, LabelsRefer, Once, IsNode
<1>16. LevelsRefer(p)
  <2>1. p.levels[1].scope = "group" /\ UsesNested(p)
    BY <1>6, <1>10, <1>13 DEF UsesNested
  <2>2. LevelRefers(p, l)
    BY <1>6 DEF LevelRefers, IsOp
  <2>3. \A k \in 1..Top(p) : LevelRefers(p, p.levels[k])
    BY <1>13, <2>2
  <2> QED
    BY <1>13, <2>1, <2>3 DEF LevelsRefer
<1>17. Nested(p, 0)
  <2>1. p.nested = Place(p.levels, Top(p)) + 0 /\ Pl(p).param = "none"
    BY <1>6, <1>9, <1>10, <1>12
  <2>2. \A k \in 1..Top(p) : p.levels[k].scope # "nest"
    BY <1>6, <1>13
  <2> QED
    BY <2>1, <2>2 DEF Nested
<1>18. \A i \in 1..MaxLevels : p.slots[i] = s
  BY <1>9
<1>19. SlotsRefer(p) /\ SlotsUsed(p, p.nested - 0) /\ Ends(p)
  BY <1>8, <1>9, <1>18 DEF SlotsRefer, SlotsUsed, Ends, IsEnd, IsNode
<1>20. Scaled(p) /\ ModsEnd(p)
  BY <1>6, <1>11, <1>13 DEF Scaled, ModsEnd, Stepping
<1>21. Settled(p)
  BY <1>6, <1>10, <1>12 DEF Settled, HasEvent, Stepping
<1> QED
  BY <1>9, <1>14, <1>15, <1>16, <1>17, <1>19, <1>20, <1>21 DEF Good, Sound

-----------------------------------------------------------------------------
(* ... and steps keep it. *)

(* What a step of the parser does, whichever it is. *)
Parses ==
    \/ pc = "read" /\ pc' = "read" /\ Step(o, o')
    \/ pc = "read" /\ pc' = "crashed" /\ o' = o
    \/ pc = "read" /\ pc' = "parsed" /\ Sound(o', 0, None, None) /\ Top(o') = Top(o)

LEMMA NextParses ==
    ASSUME IInv, Next
    PROVE  Parses
<1>1. PICK p, r : p = o /\ r = o'
  OBVIOUS
<1>2. pc = "read" => Good(p)
  BY <1>1 DEF IInv, Good
<1>3. Top(p) \in Nat \ {0} /\ Sound(p, 0, None, None) /\ LevelRefers(p, Pl(p))
  BY <1>1, TopOfGood DEF IInv
<1> DEFINE Kept0 == pc = "read" /\ pc' = "read" /\ Step(p, r)
<1>4. Kept0 => Parses
  BY <1>1 DEF Parses
<1>5. CASE NewObject
  BY <1>1, <1>2, <1>5, NewObjectStep, <1>4 DEF NewObject, ReadNext, ReadToken
<1>6. ASSUME NEW list \in BOOLEAN, NewAmplitude(list) PROVE Parses
  <2>1. /\ pc = "read" /\ pc' = "read" /\ Top(p) < MaxLevels
        /\ r = ParList(BeginOperator(p, None, FALSE), "amod", list)
    BY <1>1, <1>6 DEF NewAmplitude, ReadNext, ReadToken, RoomForLevel
  <2>2. Step(p, r)
    BY <1>2, <2>1, NewAmplitudeStep
  <2> QED
    BY <1>4, <2>1, <2>2
<1>7. ASSUME NEW again \in BOOLEAN, CloseList(again) PROVE Parses
  <2>1. PICK q : q = LeaveLevel(p)
    OBVIOUS
  <2>2. /\ pc = "read" /\ pc' = "read" /\ Pl(p).scope = "nest"
        /\ again => Pl(q).param # "none"
        /\ r = Closing(q, again)
    BY <1>1, <1>7, <2>1 DEF CloseList, Closing, ReadNext, ReadToken, L
  <2>3. Step(p, r)
    BY <1>2, <2>1, <2>2, CloseListStep
  <2> QED
    BY <1>4, <2>2, <2>3
<1>8. ASSUME NEW use \in Uses \ {"carr"}, NEW list \in BOOLEAN, Parameter(use, list)
      PROVE  Parses
  <2>1. /\ pc = "read" /\ pc' = "read" /\ Top(p) < MaxLevels /\ Stepping(Pl(p))
        /\ r = ParList(p, use, list)
    BY <1>1, <1>8 DEF Parameter, ReadNext, ReadToken, RoomForLevel, InStep, Stepping, L
  <2>2. Good(p) /\ Good(r) /\ Top(r) \in {Top(p), Top(p) + 1}
    BY <1>2, <2>1, ParListStep
  <2>3. Step(p, r)
    BY <2>2, StepUp
  <2> QED
    BY <1>4, <2>1, <2>3
<1>9. CASE RefusedRumble
  BY <1>9 DEF RefusedRumble, ReadNext, ReadToken, Parses
<1>10. ASSUME NEW name \in Names, Reference(name) PROVE Parses
  <2>1. PICK n : n = p.labels[name]
    OBVIOUS
  <2>2. PICK q : q = SetPl(p, [Pl(p) EXCEPT !.sub = "none"])
    OBVIOUS
  <2>3. /\ pc = "read" /\ pc' = "read"
        /\ \/ /\ n # None /\ p.nodes[n].kind = "op"
              /\ r = Referred(q, name, n)
           \/ r = q
    BY <1>1, <1>10, <2>1, <2>2 DEF Reference, Referred, ReadNext, ReadToken, IsOperator, L
  <2>4. Step(p, r)
    BY <1>2, <2>1, <2>2, <2>3, ReferenceStep
  <2> QED
    BY <1>4, <2>3, <2>4
<1>11. ASSUME NEW name \in Names, Label(name) PROVE Parses
  <2>1. /\ pc = "read" /\ pc' = "read"
        /\ r = SetPl(p, [Pl(p) EXCEPT !.set_label = name])
    BY <1>1, <1>11 DEF Label, ReadNext, ReadToken, L
  <2>2. Step(p, r)
    BY <1>2, <2>1, LabelStep
  <2> QED
    BY <1>4, <2>1, <2>2
<1>12. CASE Wait
  <2>1. PICK l : l = [Pl(p) EXCEPT !.wait = TRUE]
    OBVIOUS
  <2>2. /\ pc = "read" /\ pc' = "read"
        /\ \/ Stepping(Pl(p)) /\ r = BeginOperator(SetPl(p, l), Pl(p).op, FALSE)
           \/ ~Stepping(Pl(p)) /\ p.nested = 0 /\ r = SetPl(p, l)
    BY <1>1, <1>12, <2>1 DEF Wait, ReadNext, ReadToken, InStep, Stepping, L
  <2>3. Step(p, r)
    BY <1>2, <2>1, <2>2, WaitStep
  <2> QED
    BY <1>4, <2>2, <2>3
<1>13. ASSUME NEW shift \in BOOLEAN, SubStep(shift) PROVE Parses
  <2>1. /\ pc = "read" /\ pc' = "read" /\ Stepping(Pl(p))
        /\ r = BeginOperator(SetPl(p, [Pl(p) EXCEPT !.wait = @ \/ shift]), Pl(p).op, TRUE)
    BY <1>1, <1>13 DEF SubStep, ReadNext, ReadToken, InStep, Stepping, L
  <2>2. Step(p, r)
    BY <1>2, <2>1, SubStepStep
  <2> QED
    BY <1>4, <2>1, <2>2
<1>14. CASE OpenCarriers \/ OpenGroup
  <2>1. /\ pc = "read" /\ pc' = "read" /\ Top(p) < MaxLevels
        /\ \/ r = EnterList(PushNest(PrepareEvent(p, None, FALSE)), "carr")
           \/ r = EnterLevel(p, Pl(p).use, "group")
    BY <1>1, <1>14 DEF OpenCarriers, OpenGroup, ReadNext, ReadToken, RoomForLevel, L
  <2>2. Step(p, r)
    BY <1>2, <2>1, OpenStep
  <2> QED
    BY <1>4, <2>1, <2>2
<1>15. CASE CloseGroup
  <2>1. /\ pc = "read" /\ pc' = "read" /\ Pl(p).scope = "group" /\ Top(p) > 1
        /\ r = LeaveLevel(p)
    BY <1>1, <1>15 DEF CloseGroup, ReadNext, ReadToken, L
  <2>2. Step(p, r)
    BY <1>2, <2>1, CloseGroupStep
  <2> QED
    BY <1>4, <2>1, <2>2
<1>16. ASSUME NEW carry \in BOOLEAN, Separator(carry) PROVE Parses
  <2>1. PICK q : q = EndEvent(p)
    OBVIOUS
  <2>2. /\ pc = "read" /\ pc' = "read" /\ p.nested = 0
        /\ r = FinishDurgroup(SetPl(q, [Pl(q) EXCEPT !.sub = "none"]), carry)
    BY <1>1, <1>16, <2>1 DEF Separator, ReadNext, ReadToken
  <2>3. Step(p, r)
    BY <1>2, <2>1, <2>2, SeparatorStep
  <2> QED
    BY <1>4, <2>2, <2>3
<1>17. ASSUME NEW v \in Mults, SetMult(v) PROVE Parses
  <2>1. /\ pc = "read" /\ pc' = "read"
        /\ r = [SetPl(p, [Pl(p) EXCEPT !.sub = "settings"]) EXCEPT
                  !.options.def_ampmult =
                      IF Pl(p).use = "amod" THEN v * Tip(p).options.ampmult ELSE v,
                  !.slots = IF p.nested = 0 THEN @
                            ELSE [@ EXCEPT ![p.nested].own_mult = v]]
    BY <1>1, <1>17 DEF SetMult, ReadNext, ReadToken, L
  <2>2. v \in Nat
    BY ParserAssumption
  <2>3. Step(p, r)
    BY <1>2, <2>1, <2>2, SetMultStep
  <2> QED
    BY <1>4, <2>1, <2>3
<1>18. CASE EndOfScript
  <2>1. /\ pc = "read" /\ pc' = "parsed"
        /\ r = FinishDurgroup(EndEvent(EndOperator(p)), FALSE)
    BY <1>1, <1>18 DEF EndOfScript
  <2>2. Sound(r, 0, None, None) /\ Top(r) = Top(p)
    BY <1>2, <2>1, EndOfScriptSound
  <2> QED
    BY <1>1, <2>1, <2>2 DEF Parses
<1> QED
  BY <1>5, <1>6, <1>7, <1>8, <1>9, <1>10, <1>11, <1>12, <1>13, <1>14, <1>15, <1>16,
     <1>17, <1>18 DEF Next

LEMMA InitInv == Init => IInv
<1> SUFFICES ASSUME Init PROVE IInv
  OBVIOUS
<1>1. PICK p : p = o
  OBVIOUS
<1>2. Good(p)
  BY <1>1, InitSound DEF Init
<1> QED
  BY <1>1, <1>2 DEF Init, IInv, Good

LEMMA StepKeepsInv == IInv /\ [Next]_vars => IInv'
<1> SUFFICES ASSUME IInv, [Next]_vars PROVE IInv'
  OBVIOUS
<1>1. CASE Next
  <2>1. Parses
    BY <1>1, NextParses
  <2>2. CASE pc = "read" /\ pc' = "read" /\ Step(o, o')
    BY <2>2 DEF Step, Good, IInv
  <2>3. CASE pc = "read" /\ pc' = "crashed" /\ o' = o
    BY <2>3 DEF IInv
  <2>4. CASE pc = "read" /\ pc' = "parsed" /\ Sound(o', 0, None, None)
    BY <2>4 DEF IInv
  <2> QED
    BY <2>1, <2>2, <2>3, <2>4 DEF Parses
<1>2. CASE UNCHANGED vars
  BY <1>2 DEF vars, IInv
<1> QED
  BY <1>1, <1>2

(* Of N, those that come right after one in A are as many as A has.        *)
LEMMA PairsCounted ==
    ASSUME NEW T \in Nat, NEW A \in SUBSET (1..T), NEW N \in SUBSET (1..T),
           \A k \in A : k + 1 \in N
    PROVE  Cardinality(N) = Cardinality(A) + Cardinality({k \in N : k - 1 \notin A})
<1>1. PICK C : C = {k \in N : k - 1 \in A}
  OBVIOUS
<1>2. PICK B : B = {k \in N : k - 1 \notin A}
  OBVIOUS
<1>3. IsFiniteSet(1..T)
  BY FS_Interval
<1>4. IsFiniteSet(A) /\ IsFiniteSet(N) /\ IsFiniteSet(B) /\ IsFiniteSet(C)
  BY <1>1, <1>2, <1>3, FS_Subset
<1>5. Cardinality(C) = Cardinality(A)
  <2>1. PICK f : f = [k \in A |-> k + 1]
    OBVIOUS
  <2>2. f \in [A -> C]
    BY <1>1, <2>1
  <2>3. f \in Injection(A, C)
    BY <2>1, <2>2 DEF Injection, IsInjective
  <2>4. f \in Surjection(A, C)
    <3>1. ASSUME NEW k \in C PROVE \E x \in A : f[x] = k
      BY <1>1, <2>1
    <3> QED
      BY <2>2, <3>1 DEF Surjection
  <2> QED
    BY <1>4, <2>3, <2>4, FS_Surjection
<1>6. N = B \union C /\ B \intersect C = {}
  BY <1>1, <1>2
<1>7. Cardinality(B \union C) = Cardinality(B) + Cardinality(C) - Cardinality(B \intersect C)
  BY <1>4, FS_Union
<1>8. Cardinality(B \intersect C) = 0
  BY <1>6, FS_EmptySet
<1>9. Cardinality(B) \in Nat /\ Cardinality(A) \in Nat
  BY <1>4, FS_CardinalityType
<1>10. Cardinality(N) = Cardinality(A) + Cardinality(B)
  <2>1. Cardinality(N) = Cardinality(B \union C)
    BY <1>6
  <2> QED
    BY <1>5, <1>7, <1>8, <1>9, <2>1
<1> QED
  BY <1>2, <1>10, Zenon

(* The list of a parameter and the parameter have one place between them. *)
LEMMA TypesOf == IInv => TypeOK
<1> SUFFICES ASSUME IInv PROVE TypeOK
  OBVIOUS
<1>1. PICK p : p = o
  OBVIOUS
<1>2. /\ Sound(p, 0, None, None) /\ Typed(p) /\ Top(p) \in Nat \ {0} /\ Pl(p) = p.levels[Top(p)]
      /\ Pl(p).param = "none" /\ p.nested = Place(p.levels, Top(p))
  BY <1>1, TopOfGood DEF IInv
<1>3. DOMAIN p.levels = 1..Top(p)
  BY <1>2 DEF Typed, Top
<1>4. PICK T \in Nat \ {0} : T = Top(p)
  BY <1>2
<1>5. PICK A : A = {k \in 1..T : p.levels[k].param # "none"}
  OBVIOUS
<1>6. PICK N : N = Lists(p.levels, T)
  OBVIOUS
<1>7. A \in SUBSET (1..T) /\ N \in SUBSET (1..T)
  BY <1>5, <1>6 DEF Lists
<1>8. ASSUME NEW k \in A PROVE k + 1 \in N
  <2>1. k \in 1..(Top(p) - 1) /\ p.levels[k].param # "none"
    BY <1>2, <1>4, <1>5
  <2>2. p.levels[k + 1].scope = "nest"
    BY <1>2, <2>1 DEF Sound, LevelsRefer
  <2> QED
    BY <1>4, <1>6, <2>1, <2>2 DEF Lists
<1>9. Cardinality(N) = Cardinality(A) + Cardinality({k \in N : k - 1 \notin A})
  <2>1. T \in Nat
    OBVIOUS
  <2> QED
    BY <1>7, <1>8, <2>1, PairsCounted
<1>10. p.levels[1].scope # "nest"
  BY <1>2 DEF Sound, LevelsRefer
<1>11. {k \in N : k - 1 \notin A} = {k \in DOMAIN o.levels : ScopeNest(k) /\ ~ForParameter(k - 1)}
  <2>1. ASSUME NEW k \in 1..T, p.levels[k].scope = "nest"
        PROVE  k - 1 \in A <=> ForParameter(k - 1)
    <3>1. k - 1 \in 1..T
      BY <1>10, <2>1
    <3> QED
      BY <1>1, <1>5, <3>1 DEF ForParameter
  <2>2. ASSUME NEW k PROVE k \in N <=> k \in DOMAIN o.levels /\ ScopeNest(k)
    BY <1>1, <1>3, <1>4, <1>6 DEF Lists, ScopeNest
  <2>3. ASSUME NEW k \in N PROVE k \in 1..T /\ p.levels[k].scope = "nest"
    BY <1>6 DEF Lists
  <2> QED
    BY <2>1, <2>2, <2>3
<1>12. A = {k \in DOMAIN o.levels : ForParameter(k)}
  BY <1>1, <1>3, <1>4, <1>5 DEF ForParameter
<1>13. o.nested = Cardinality({k \in DOMAIN o.levels : ForParameter(k)})
                  + Cardinality({k \in DOMAIN o.levels : ScopeNest(k) /\ ~ForParameter(k - 1)})
  BY <1>1, <1>2, <1>4, <1>6, <1>9, <1>11, <1>12 DEF Place
<1>14. \A n \in DOMAIN o.nodes :
          /\ o.nodes[n].obj \in DOMAIN o.objs
          /\ o.nodes[n].next \in {None} \union DOMAIN o.nodes
          /\ o.nodes[n].kind = "op" => o.nodes[n].event \in DOMAIN o.evs
  BY <1>1, <1>2 DEF Sound, NodesRefer, IsNode
<1>15. \A e \in DOMAIN o.evs : o.evs[e].main_obj \in DOMAIN o.nodes
  <2>1. \A e \in DOMAIN p.evs : e # None
    BY <1>2 DEF Typed, IsSeq, None
  <2> QED
    BY <1>1, <1>2, <2>1 DEF Sound, EventsRefer
<1>16. \A k \in DOMAIN o.levels :
          /\ o.levels[k].own_op => o.levels[k].op \in DOMAIN o.nodes
          /\ o.levels[k].own_ev => o.levels[k].event \in DOMAIN o.evs
  <2>1. \A k \in 1..Top(p) : LevelRefers(p, p.levels[k])
    BY <1>2 DEF Sound, LevelsRefer
  <2> QED
    BY <1>1, <1>3, <2>1 DEF LevelRefers, IsOp
<1> QED
  BY <1>13, <1>14, <1>15, <1>16 DEF TypeOK, IInv

LEMMA ScaledOnceOf == IInv => AmpScaledOnce
<1> SUFFICES ASSUME IInv PROVE AmpScaledOnce
  OBVIOUS
<1>1. PICK p : p = o
  OBVIOUS
<1>2. /\ Sound(p, 0, None, None) /\ Typed(p) /\ DOMAIN p.levels = 1..Top(p)
  BY <1>1, TopOfGood DEF IInv, Typed, Top
<1>3. ASSUME NEW n \in DOMAIN o.nodes
      PROVE  LET owners == {k \in DOMAIN o.levels : o.levels[k].own_op /\ o.levels[k].op = n}
             IN  /\ Cardinality(owners) <= 1
                 /\ o.nodes[n].kind = "op" =>
                        o.nodes[n].amp = IF owners = {} THEN o.nodes[n].mult ELSE 1
  <2>1. PICK owners : owners = {k \in 1..Top(p) : p.levels[k].own_op /\ p.levels[k].op = n}
    OBVIOUS
  <2>2. owners = {k \in DOMAIN o.levels : o.levels[k].own_op /\ o.levels[k].op = n}
    BY <1>1, <1>2, <2>1
  <2>3. CASE owners = {}
    <3>1. Cardinality(owners) = 0
      BY <2>3, FS_EmptySet
    <3>2. p.nodes[n].kind = "op" => p.nodes[n].amp = p.nodes[n].mult
      BY <1>1, <1>2, <2>1, <2>3 DEF Sound, Scaled, Owns
    <3> QED
      BY <1>1, <2>2, <2>3, <3>1, <3>2
  <2>4. CASE owners # {}
    <3>1. PICK k : k \in owners
      BY <2>4
    <3>2. owners = {k}
      BY <1>2, <2>1, <3>1 DEF Sound, Scaled
    <3>3. Cardinality(owners) = 1
      BY <3>2, FS_Singleton
    <3>4. p.nodes[n].amp = 1
      BY <1>2, <2>1, <3>1 DEF Sound, Scaled
    <3> QED
      BY <1>1, <2>2, <2>4, <3>3, <3>4
  <2> QED
    BY <2>3, <2>4
<1> QED
  BY <1>3 DEF AmpScaledOnce

LEMMA LinkedOnceOf == IInv => LinkedOnce
<1> SUFFICES ASSUME IInv, NEW n \in DOMAIN o.nodes PROVE Cardinality(LinkedFrom(n)) = 1
  BY DEF LinkedOnce
<1>1. n # None
  BY DEF IInv, Sound, Typed, None
<1>2. PICK x : From(o, n) = {x}
  BY <1>1 DEF IInv, Sound, Once
<1>3. LinkedFrom(n) = From(o, n)
  BY DEF LinkedFrom, From
<1> QED
  BY <1>2, <1>3, FS_Singleton

LEMMA RestoresOptions ==
    IInv /\ [Next]_vars =>
        [Top(o') < Top(o) /\ L.scope = "nest" => o'.options = L.outer_options]_vars
<1> SUFFICES ASSUME IInv, Next, Top(o') < Top(o), L.scope = "nest"
             PROVE  o'.options = L.outer_options
  OBVIOUS
<1>1. PICK p : p = o
  OBVIOUS
<1>2. Top(p) \in Nat
  BY <1>1, TopOfGood DEF IInv
<1>3. Step(o, o')
  BY <1>1, <1>2, NextParses DEF Parses
<1> QED
  BY <1>3 DEF Step, L

-----------------------------------------------------------------------------
(* The theorems. *)

(* What the parser is like between one token and the next: references are  *)
(* to what there is, each list has its place in the NestArr with the       *)
(* options around it, and what is linked to next has nothing after it yet. *)
THEOREM ParserInvariant == Spec => []IInv
<1>1. Init => IInv
  BY InitInv
<1>2. IInv /\ [Next]_vars => IInv'
  BY StepKeepsInv
<1> QED
  BY <1>1, <1>2, PTL DEF Spec

(* Nodes, events and levels refer to what there is, and there is a place   *)
(* in the NestArr for each parameter that is read and for each other list. *)
THEOREM ParserTypes == Spec => []TypeOK
<1>1. Spec => []IInv
  BY ParserInvariant
<1>2. IInv => TypeOK
  BY TypesOf
<1> QED
  BY <1>1, <1>2, PTL

(* A level ends the operator it began, and no other: each step has the     *)
(* multiplier that was in effect when it began applied once.               *)
THEOREM ScaledWhenEnded == Spec => []AmpScaledOnce
<1>1. Spec => []IInv
  BY ParserInvariant
<1>2. IInv => AmpScaledOnce
  BY ScaledOnceOf
<1> QED
  BY <1>1, <1>2, PTL

(* Each node is linked from one place, and none from two. *)
THEOREM LinkedFromOne == Spec => []LinkedOnce
<1>1. Spec => []IInv
  BY ParserInvariant
<1>2. IInv => LinkedOnce
  BY LinkedOnceOf
<1> QED
  BY <1>1, <1>2, PTL

(* "Changes made inside a nested list scope don't apply outside of it":    *)
(* leaving a list, however deep, brings back the options from around it.   *)
THEOREM OptionsOfScope == Spec => OptionsRestored
<1>1. Spec => []IInv
  BY ParserInvariant
<1>2. IInv /\ [Next]_vars =>
          [Top(o') < Top(o) /\ L.scope = "nest" => o'.options = L.outer_options]_vars
  BY RestoresOptions
<1> QED
  BY <1>1, <1>2, PTL DEF Spec, OptionsRestored
=============================================================================
