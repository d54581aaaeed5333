-------------------------- MODULE ParserPlainProofs --------------------------
(***************************************************************************)
(* Theorems about scripts without "{...}", in which each parse level but   *)
(* the first is that of a list: no step is lost or converted twice, delays *)
(* hold for what follows them, and lists go to the operators they were     *)
(* written for.  They rest on IInv of ParserProofs, and add what it has    *)
(* nothing of: how the events of a group hang together, which of them the  *)
(* levels still add to, and whose lists an operator's lists are linked to. *)
(***************************************************************************)
EXTENDS ParserProofs

-----------------------------------------------------------------------------
(* The inductive invariant. *)

Event ==
    [main_obj : Nat, next : Nat, forks : Seq(Nat), wait : BOOLEAN, owed : BOOLEAN,
     converted : Nat]

(* The events that the group at hand has so far. *)
Group(p) == IF p.group_event = None THEN {} ELSE p.group_event..Len(p.evs)

(* x comes after e in the order of conversion, or forks from it.           *)
Leads(es, e, x) == es[e].next = x \/ \E i \in DOMAIN es[e].forks : es[e].forks[i] = x

(* From the first event of the group each other one is led to, by one that *)
(* was there before, and by one only.                                      *)
Tree(es, g) ==
    /\ \A e \in g..Len(es) :
          /\ es[e].next = None \/ es[e].next \in (e + 1)..Len(es)
          /\ \A i \in DOMAIN es[e].forks : es[e].forks[i] \in (e + 1)..Len(es)
    /\ \A x \in (g + 1)..Len(es) : \E e \in g..Len(es) : Leads(es, e, x)
    /\ \A e, f \in g..Len(es) :
          /\ es[e].next # None /\ es[e].next = es[f].next => e = f
          /\ \A i \in DOMAIN es[f].forks : es[e].next # es[f].forks[i]
          /\ \A i \in DOMAIN es[e].forks : \A j \in DOMAIN es[f].forks :
                es[e].forks[i] = es[f].forks[j] => e = f /\ i = j

Events(p) ==
    /\ p.evs \in Seq(Event)
    /\ p.group_event \in 0..Len(p.evs) /\ p.last_event \in 0..Len(p.evs)
    /\ \A e \in DOMAIN p.evs :
          /\ p.evs[e].converted = IF e \in Group(p) THEN 0 ELSE 1
          /\ p.evs[e].owed => p.evs[e].wait
    /\ p.group_event # None =>
          /\ Tree(p.evs, p.group_event)
          /\ p.last_event \in Group(p) /\ p.evs[p.last_event].next = None
    /\ p.owed \in BOOLEAN

(* The event that a further sub-step of level k is to follow. *)
StepEvent(p, k) == p.nodes[p.levels[k].op].event

(* A sub-step to come, if it follows on the one before, goes to its end.   *)
Follows(p, k) == Stepping(p.levels[k]) /\ ~p.levels[k].fork

LevelHolds(p, k) ==
    LET l == p.levels[k]
    IN  /\ k > 1 => l.scope = "nest"
        /\ k > 1 \/ Stepping(l) => l.event \in Group(p) /\ l.main_ev \in {None} \union Group(p)

(* Steps of levels up to t add to the group at hand, and no two to the     *)
(* same end.                                                               *)
StepsHold(p, t) ==
    /\ \A k \in 1..t :
          /\ Stepping(p.levels[k]) => StepEvent(p, k) \in Group(p)
          /\ Follows(p, k) => /\ p.evs[StepEvent(p, k)].next = None
                              /\ StepEvent(p, k) # p.last_event
    /\ \A j, k \in 1..t :
          Follows(p, j) /\ Follows(p, k) /\ StepEvent(p, j) = StepEvent(p, k) => j = k

(* A delay that is owed stays at the first level until an event has it.    *)
OwedHolds(p) == p.owed => Top(p) = 1 /\ p.levels[1].carry /\ p.levels[1].event = None

LevelsHold(p) ==
    /\ \A k \in 1..Top(p) : LevelHolds(p, k)
    /\ StepsHold(p, Top(p))
    /\ p.levels[1].event # None => p.levels[1].own_ev
    /\ OwedHolds(p)

(* The object whose operators have node m among their lists, if m is a list *)
(* of an operator's.                                                        *)
Parent(p, m) == p.objs[p.nodes[m].obj].parent
ListFor(p, m, obj) == p.nodes[m].kind = "list" /\ Parent(p, m) = obj

ListsHold(p) ==
    /\ \A n \in DOMAIN p.nodes :
          /\ p.nodes[n].mods # None => ListFor(p, p.nodes[n].mods, p.nodes[n].obj)
          /\ p.nodes[n].kind = "list" /\ Parent(p, n) # None /\ p.nodes[n].next # None
                => ListFor(p, p.nodes[n].next, Parent(p, n))
    /\ \A s \in 1..MaxLevels :
          LET i == p.slots[s].last_item
          IN  i # None => p.nodes[i].kind = "op" \/ Parent(p, i) = None

(* The last list of a step's operator is in the next place. *)
LastsHold(p) ==
    \A k \in 1..Top(p) :
        LET n == p.levels[k].op
        IN  Stepping(p.levels[k]) /\ p.nodes[n].mods # None
                => ListFor(p, p.slots[Place(p.levels, k) + 1].last_mods, p.nodes[n].obj)

Plain(p) == Events(p) /\ ListsHold(p)
Held(p) == LevelsHold(p) /\ LastsHold(p)

PlainInv ==
    ~grouped => /\ Plain(o)
                /\ pc = "parsed" => o.group_event = None
                /\ pc # "parsed" => Held(o)

-----------------------------------------------------------------------------
(* The tree of a group as events are added to it. *)

(* v is put after the events of es, of which only m may change. *)
Grows(es, fs, m, v) ==
    /\ fs \in Seq(Event) /\ Len(fs) = Len(es) + 1 /\ fs[Len(es) + 1] = v
    /\ v.next = None /\ v.forks = <<>>
    /\ \A x \in 1..Len(es) :
          /\ x # m => fs[x].next = es[x].next /\ fs[x].forks = es[x].forks
          /\ fs[x].wait = es[x].wait /\ fs[x].owed = es[x].owed
          /\ fs[x].converted = es[x].converted

LEMMA GroupStarts ==
    ASSUME NEW es \in Seq(Event), NEW fs, NEW m, NEW v, Grows(es, fs, m, v)
    PROVE  Tree(fs, Len(es) + 1)
<1>1. PICK e \in Nat : e = Len(es) + 1
  OBVIOUS
<1>2. /\ Len(fs) = e /\ e..Len(fs) = {e} /\ fs[e].next = None /\ DOMAIN fs[e].forks = {}
      /\ (e + 1)..Len(fs) = {}
  BY <1>1 DEF Grows
<1> QED
  BY <1>1, <1>2 DEF Tree

LEMMA GroupGrowsNext ==
    ASSUME NEW es \in Seq(Event), NEW g \in 1..Len(es), Tree(es, g),
           NEW m \in g..Len(es), es[m].next = None,
           NEW fs, NEW v, Grows(es, fs, m, v),
           fs[m].next = Len(es) + 1, fs[m].forks = es[m].forks
    PROVE  Tree(fs, g)
<1>1. PICK n \in Nat, e \in Nat : n = Len(es) /\ e = n + 1
  OBVIOUS
<1>2. /\ Len(fs) = e /\ fs[e].next = None /\ DOMAIN fs[e].forks = {}
      /\ \A x \in 1..n : /\ fs[x].forks = es[x].forks
                         /\ fs[x].next = IF x = m THEN e ELSE es[x].next
  BY <1>1 DEF Grows
<1>3. \A x \in g..e : x = e \/ x \in g..n
  BY <1>1
<1>4. ASSUME NEW x \in g..e
      PROVE  /\ fs[x].next = None \/ fs[x].next \in (x + 1)..e
             /\ \A i \in DOMAIN fs[x].forks : fs[x].forks[i] \in (x + 1)..e
  BY <1>1, <1>2, <1>3, <1>4 DEF Tree
<1>5. ASSUME NEW x \in (g + 1)..e PROVE \E y \in g..e : Leads(fs, y, x)
  <2>1. CASE x = e
    BY <1>1, <1>2, <2>1 DEF Leads
  <2>2. CASE x # e
    <3>1. PICK y \in g..n : Leads(es, y, x)
      BY <1>1, <1>5, <2>2 DEF Tree
    <3>2. x # None
      BY <1>5 DEF None
    <3> QED
      BY <1>1, <1>2, <3>1, <3>2 DEF Leads
  <2> QED
    BY <2>1, <2>2
<1>6. \A x \in g..n : /\ es[x].next # e
                      /\ \A i \in DOMAIN es[x].forks : es[x].forks[i] # e
  BY <1>1 DEF Tree, None
<1>7. ASSUME NEW x \in g..e, NEW y \in g..e
      PROVE  /\ fs[x].next # None /\ fs[x].next = fs[y].next => x = y
             /\ \A i \in DOMAIN fs[y].forks : fs[x].next # fs[y].forks[i]
             /\ \A i \in DOMAIN fs[x].forks : \A j \in DOMAIN fs[y].forks :
                   fs[x].forks[i] = fs[y].forks[j] => x = y /\ i = j
  <2>1. e # None
    BY <1>1 DEF None
  <2>2. \A z \in g..n : z \in 1..n
    BY <1>1
  <2>3. fs[x].next # None /\ fs[x].next = fs[y].next => x = y
    BY <1>1, <1>2, <1>3, <1>6, <2>1, <2>2 DEF Tree
  <2>4. ASSUME NEW i \in DOMAIN fs[y].forks PROVE fs[x].next # fs[y].forks[i]
    <3>1. y \in g..n /\ fs[y].forks = es[y].forks
      BY <1>2, <1>3, <2>2, <2>4
    <3>2. es[y].forks[i] \in (y + 1)..n
      BY <1>1, <2>4, <3>1 DEF Tree
    <3>3. es[y].forks[i] # None
      BY <1>1, <3>1, <3>2 DEF None
    <3> QED
      BY <1>2, <1>3, <1>6, <2>2, <2>4, <3>1, <3>3, <1>1 DEF Tree
  <2>5. ASSUME NEW i \in DOMAIN fs[x].forks, NEW j \in DOMAIN fs[y].forks,
               fs[x].forks[i] = fs[y].forks[j]
        PROVE  x = y /\ i = j
    <3>1. /\ y \in g..n /\ fs[y].forks = es[y].forks
          /\ x \in g..n /\ fs[x].forks = es[x].forks
      BY <1>2, <1>3, <2>2, <2>5
    <3> QED
      BY <1>1, <2>5, <3>1 DEF Tree
  <2> QED
    BY <2>3, <2>4, <2>5
<1> QED
  BY <1>2, <1>4, <1>5, <1>7 DEF Tree

LEMMA GroupGrowsFork ==
    ASSUME NEW es \in Seq(Event), NEW g \in 1..Len(es), Tree(es, g),
           NEW m \in g..Len(es),
           NEW fs, NEW v, Grows(es, fs, m, v),
           fs[m].next = es[m].next, fs[m].forks = <<Len(es) + 1>> \o es[m].forks
    PROVE  Tree(fs, g)
<1>1. PICK n \in Nat, e \in Nat : n = Len(es) /\ e = n + 1
  OBVIOUS
<1>2. PICK h : h = es[m].forks
  OBVIOUS
<1>3. /\ h \in Seq(Nat) /\ Len(h) \in Nat /\ DOMAIN h = 1..Len(h)
  <2>1. m \in 1..Len(es)
    BY <1>1
  <2>2. PICK w \in Event : w = es[m]
    BY <2>1
  <2>3. h \in Seq(Nat)
    BY <1>2, <2>2 DEF Event
  <2> QED
    BY <2>3
<1>4. /\ DOMAIN fs[m].forks = 1..(Len(h) + 1) /\ fs[m].forks[1] = e
      /\ \A i \in 2..(Len(h) + 1) : fs[m].forks[i] = h[i - 1]
  BY <1>1, <1>2, <1>3
<1>5. /\ Len(fs) = e /\ fs[e].next = None /\ DOMAIN fs[e].forks = {}
      /\ \A x \in 1..n : /\ fs[x].next = es[x].next
                         /\ x # m => fs[x].forks = es[x].forks
  BY <1>1 DEF Grows
<1>6. \A x \in g..e : x = e \/ x \in g..n
  BY <1>1
(* A fork is the new one or an old one, of the same event. *)
<1>7. ASSUME NEW x \in g..e, NEW i \in DOMAIN fs[x].forks
      PROVE  /\ x \in g..n
             /\ \/ x = m /\ i = 1 /\ fs[x].forks[i] = e
                \/ x = m /\ i - 1 \in DOMAIN es[x].forks /\ i \in Nat
                       /\ fs[x].forks[i] = es[x].forks[i - 1]
                \/ x # m /\ i \in DOMAIN es[x].forks /\ fs[x].forks[i] = es[x].forks[i]
  <2>1. x \in g..n /\ x \in 1..n
    BY <1>1, <1>5, <1>6, <1>7
  <2>2. CASE x # m
    BY <1>5, <1>7, <2>1, <2>2
  <2>3. CASE x = m
    <3>1. i \in 1..(Len(h) + 1)
      BY <1>4, <1>7, <2>3
    <3>2. CASE i = 1
      BY <1>4, <2>1, <2>3, <3>2
    <3>3. CASE i # 1
      <4>1. i \in 2..(Len(h) + 1) /\ i - 1 \in 1..Len(h) /\ i \in Nat
        BY <1>3, <3>1, <3>3
      <4> QED
        BY <1>2, <1>3, <1>4, <2>1, <2>3, <4>1
    <3> QED
      BY <3>2, <3>3
  <2> QED
    BY <2>2, <2>3
<1>8. \A x \in g..n : /\ es[x].next # e /\ (es[x].next = None \/ es[x].next \in (x + 1)..n)
                      /\ \A i \in DOMAIN es[x].forks : /\ es[x].forks[i] # e
                                                       /\ es[x].forks[i] \in (x + 1)..n
  <2>1. ASSUME NEW x \in g..n
        PROVE  /\ es[x].next = None \/ es[x].next \in (x + 1)..n
               /\ \A i \in DOMAIN es[x].forks : es[x].forks[i] \in (x + 1)..n
    BY <1>1, <2>1 DEF Tree
  <2>2. \A x \in g..n : e \notin (x + 1)..n /\ e # None
    BY <1>1 DEF None
  <2> QED
    BY <2>1, <2>2
<1>9. ASSUME NEW x \in g..e
      PROVE  /\ fs[x].next = None \/ fs[x].next \in (x + 1)..e
             /\ \A i \in DOMAIN fs[x].forks : fs[x].forks[i] \in (x + 1)..e
  <2>1. fs[x].next = None \/ fs[x].next \in (x + 1)..e
    BY <1>1, <1>5, <1>6, <1>8
  <2>2. ASSUME NEW i \in DOMAIN fs[x].forks PROVE fs[x].forks[i] \in (x + 1)..e
    <3>1. /\ x \in g..n
          /\ \/ fs[x].forks[i] = e
             \/ \E j \in DOMAIN es[x].forks : fs[x].forks[i] = es[x].forks[j]
      BY <1>7, <2>2
    <3> QED
      BY <1>1, <1>8, <3>1
  <2> QED
    BY <2>1, <2>2
<1>10. ASSUME NEW x \in (g + 1)..e PROVE \E y \in g..e : Leads(fs, y, x)
  <2>1. CASE x = e
    BY <1>1, <1>3, <1>4, <2>1 DEF Leads
  <2>2. CASE x # e
    <3>1. PICK y \in g..n : Leads(es, y, x)
      BY <1>1, <1>10, <2>2 DEF Tree
    <3>2. y \in g..e /\ y \in 1..n
      BY <1>1
    <3>3. CASE es[y].next = x
      BY <1>5, <3>2, <3>3 DEF Leads
    <3>4. CASE es[y].next # x
      <4>1. PICK i \in DOMAIN es[y].forks : es[y].forks[i] = x
        BY <3>1, <3>4 DEF Leads
      <4>2. CASE y # m
        BY <1>5, <3>2, <4>1, <4>2 DEF Leads
      <4>3. CASE y = m
        <5>1. i + 1 \in 2..(Len(h) + 1) /\ (i + 1) - 1 = i /\ i + 1 \in DOMAIN fs[y].forks
          <6>1. i \in 1..Len(h)
            BY <1>2, <1>3, <4>1, <4>3
          <6> QED
            BY <1>3, <1>4, <4>3, <6>1
        <5>2. fs[y].forks[i + 1] = x
          BY <1>2, <1>4, <4>1, <4>3, <5>1
        <5> QED
          BY <3>2, <5>1, <5>2 DEF Leads
      <4> QED
        BY <4>2, <4>3
    <3> QED
      BY <3>3, <3>4
  <2> QED
    BY <2>1, <2>2
<1>11. ASSUME NEW x \in g..e, NEW y \in g..e
       PROVE  /\ fs[x].next # None /\ fs[x].next = fs[y].next => x = y
              /\ \A i \in DOMAIN fs[y].forks : fs[x].next # fs[y].forks[i]
              /\ \A i \in DOMAIN fs[x].forks : \A j \in DOMAIN fs[y].forks :
                    fs[x].forks[i] = fs[y].forks[j] => x = y /\ i = j
  <2>1. e # None /\ \A z \in g..n : z \in 1..n
    BY <1>1 DEF None
  <2>2. fs[x].next # None /\ fs[x].next = fs[y].next => x = y
    BY <1>1, <1>5, <1>6, <2>1 DEF Tree
  <2>3. ASSUME NEW i \in DOMAIN fs[y].forks PROVE fs[x].next # fs[y].forks[i]
    <3>1. /\ y \in g..n
          /\ \/ fs[y].forks[i] = e
             \/ \E j \in DOMAIN es[y].forks : fs[y].forks[i] = es[y].forks[j]
      BY <1>7, <2>3
    <3>2. CASE x = e
      <4>1. fs[y].forks[i] # None
        BY <1>1, <1>8, <2>1, <3>1 DEF None
      <4> QED
        BY <1>5, <3>2, <4>1
    <3>3. CASE x # e
      <4>1. x \in g..n /\ fs[x].next = es[x].next
        BY <1>5, <1>6, <2>1, <3>3
      <4> QED
        BY <1>1, <1>8, <3>1, <4>1 DEF Tree
    <3> QED
      BY <3>2, <3>3
  <2>4. ASSUME NEW i \in DOMAIN fs[x].forks, NEW j \in DOMAIN fs[y].forks,
               fs[x].forks[i] = fs[y].forks[j]
        PROVE  x = y /\ i = j
    <3>1. /\ x \in g..n
          /\ \/ x = m /\ i = 1 /\ fs[x].forks[i] = e
             \/ x = m /\ i - 1 \in DOMAIN es[x].forks /\ i \in Nat
                    /\ fs[x].forks[i] = es[x].forks[i - 1]
             \/ x # m /\ i \in DOMAIN es[x].forks /\ fs[x].forks[i] = es[x].forks[i]
      BY <1>7, <2>4
    <3>2. /\ y \in g..n
          /\ \/ y = m /\ j = 1 /\ fs[y].forks[j] = e
             \/ y = m /\ j - 1 \in DOMAIN es[y].forks /\ j \in Nat
                    /\ fs[y].forks[j] = es[y].forks[j - 1]
             \/ y # m /\ j \in DOMAIN es[y].forks /\ fs[y].forks[j] = es[y].forks[j]
      BY <1>7, <2>4
    <3>3. \A a, b \in g..n : \A k \in DOMAIN es[a].forks : \A l \in DOMAIN es[b].forks :
             es[a].forks[k] = es[b].forks[l] => a = b /\ k = l
      BY <1>1 DEF Tree
    <3>4. ASSUME x = m, i = 1, fs[x].forks[i] = e PROVE x = y /\ i = j
      BY <1>8, <2>4, <3>2, <3>4
    <3>5. ASSUME y = m, j = 1, fs[y].forks[j] = e PROVE x = y /\ i = j
      BY <1>8, <2>4, <3>1, <3>5
    <3>6. ASSUME x = m, y = m, i - 1 \in DOMAIN es[x].forks, i \in Nat,
                 j - 1 \in DOMAIN es[y].forks, j \in Nat,
                 fs[x].forks[i] = es[x].forks[i - 1], fs[y].forks[j] = es[y].forks[j - 1]
          PROVE  x = y /\ i = j
      <4>1. i - 1 = j - 1
        BY <2>4, <3>1, <3>3, <3>6
      <4> QED
        BY <3>6, <4>1
    <3>7. CASE x = m /\ y # m
      BY <2>4, <3>1, <3>2, <3>3, <3>4, <3>7
    <3>8. CASE x # m /\ y = m
      BY <2>4, <3>1, <3>2, <3>3, <3>5, <3>8
    <3>9. CASE x # m /\ y # m
      BY <2>4, <3>1, <3>2, <3>3, <3>9
    <3> QED
      BY <3>1, <3>2, <3>4, <3>5, <3>6, <3>7, <3>8, <3>9
  <2> QED
    BY <2>2, <2>3, <2>4
<1> QED
  BY <1>5, <1>9, <1>10, <1>11 DEF Tree

LEMMA TreeSame ==
    ASSUME NEW es, NEW fs, NEW g \in 1..Len(es), Tree(es, g), Len(es) \in Nat,
           Len(fs) = Len(es),
           \A x \in 1..Len(es) : fs[x].next = es[x].next /\ fs[x].forks = es[x].forks
    PROVE  Tree(fs, g)
<1>1. \A x \in g..Len(es) : x \in 1..Len(es)
  OBVIOUS
<1>2. \A x \in g..Len(es) : fs[x].next = es[x].next /\ fs[x].forks = es[x].forks
  BY <1>1
<1>3. ASSUME NEW e \in g..Len(es)
      PROVE  /\ fs[e].next = None \/ fs[e].next \in (e + 1)..Len(es)
             /\ \A i \in DOMAIN fs[e].forks : fs[e].forks[i] \in (e + 1)..Len(es)
  BY <1>2, <1>3 DEF Tree
<1>4. ASSUME NEW x \in (g + 1)..Len(es) PROVE \E e \in g..Len(es) : Leads(fs, e, x)
  <2>1. PICK e \in g..Len(es) : Leads(es, e, x)
    BY <1>4 DEF Tree
  <2>2. Leads(fs, e, x)
    BY <1>2, <2>1 DEF Leads
  <2> QED
    BY <2>2
<1>5. ASSUME NEW e \in g..Len(es), NEW f \in g..Len(es)
      PROVE  /\ fs[e].next # None /\ fs[e].next = fs[f].next => e = f
             /\ \A i \in DOMAIN fs[f].forks : fs[e].next # fs[f].forks[i]
             /\ \A i \in DOMAIN fs[e].forks : \A j \in DOMAIN fs[f].forks :
                   fs[e].forks[i] = fs[f].forks[j] => e = f /\ i = j
  BY <1>2, <1>5 DEF Tree
<1> QED
  BY <1>3, <1>4, <1>5 DEF Tree

-----------------------------------------------------------------------------
(* Events that change in nothing but their objects. *)

SameLinks(es, fs) ==
    /\ fs \in Seq(Event) /\ Len(fs) = Len(es)
    /\ \A x \in 1..Len(es) :
          /\ fs[x].next = es[x].next /\ fs[x].forks = es[x].forks
          /\ fs[x].wait = es[x].wait /\ fs[x].owed = es[x].owed
          /\ fs[x].converted = es[x].converted

SameGroup(p, q) ==
    /\ q.group_event = p.group_event /\ q.last_event = p.last_event /\ q.owed = p.owed
    /\ SameLinks(p.evs, q.evs)

LEMMA GroupSame ==
    ASSUME NEW p, NEW q, Events(p), SameGroup(p, q)
    PROVE  Events(q) /\ Group(q) = Group(p)
<1>1. /\ p.evs \in Seq(Event) /\ Len(p.evs) \in Nat /\ DOMAIN p.evs = 1..Len(p.evs)
      /\ q.evs \in Seq(Event) /\ Len(q.evs) = Len(p.evs) /\ DOMAIN q.evs = 1..Len(p.evs)
  BY DEF Events, SameGroup, SameLinks
<1>2. Group(q) = Group(p)
  BY <1>1 DEF Group, SameGroup
<1>3. ASSUME q.group_event # None
      PROVE  /\ Tree(q.evs, q.group_event)
             /\ q.last_event \in Group(q) /\ q.evs[q.last_event].next = None
  <2>1. /\ q.group_event = p.group_event /\ q.last_event = p.last_event
        /\ Tree(p.evs, p.group_event) /\ p.group_event \in 1..Len(p.evs)
        /\ p.last_event \in Group(p) /\ p.last_event \in 1..Len(p.evs)
        /\ p.evs[p.last_event].next = None
    BY <1>1, <1>3 DEF Events, SameGroup, Group, None
  <2>2. Tree(q.evs, p.group_event)
    BY <1>1, <2>1, TreeSame DEF SameGroup, SameLinks
  <2> QED
    BY <1>2, <2>1, <2>2 DEF SameGroup, SameLinks
<1>4. /\ q.group_event \in 0..Len(q.evs) /\ q.last_event \in 0..Len(q.evs)
      /\ q.owed \in BOOLEAN
  BY <1>1 DEF Events, SameGroup
<1>5. \A e \in DOMAIN q.evs :
          /\ q.evs[e].converted = IF e \in Group(q) THEN 0 ELSE 1
          /\ q.evs[e].owed => q.evs[e].wait
  BY <1>1, <1>2 DEF Events, SameGroup, SameLinks
<1> QED
  BY <1>1, <1>2, <1>3, <1>4, <1>5 DEF Events

LEMMA MainObjPut ==
    ASSUME NEW es \in Seq(Event), NEW e, NEW n \in Nat,
           NEW fs, fs = [es EXCEPT ![e].main_obj = n]
    PROVE  SameLinks(es, fs)
<1>1. DOMAIN es = 1..Len(es)
  OBVIOUS
<1>2. CASE e \notin DOMAIN es
  <2>1. fs = es
    BY <1>2
  <2> QED
    BY <2>1 DEF SameLinks
<1>3. CASE e \in DOMAIN es
  <2>1. PICK w : w = es[e]
    OBVIOUS
  <2>2. PICK v : v = [w EXCEPT !.main_obj = n]
    OBVIOUS
  <2>3. w \in Event
    BY <1>3, <2>1
  <2>4. /\ v \in Event /\ v.next = w.next /\ v.forks = w.forks
        /\ v.wait = w.wait /\ v.owed = w.owed /\ v.converted = w.converted
    BY <2>2, <2>3 DEF Event
  <2>5. fs = [es EXCEPT ![e] = v]
    BY <2>1, <2>2
  <2>6. Put(Event, es, fs, e, v)
    BY <2>4, <2>5, PutIs
  <2> QED
    BY <1>1, <1>3, <2>1, <2>4, <2>6 DEF SameLinks, Put
<1> QED
  BY <1>2, <1>3

(* Of records with the fields of a parser. *)
LEMMA SetPlKeeps ==
    ASSUME NEW p, Shape(p), NEW l, NEW q, q = SetPl(p, l)
    PROVE  q.group_event = p.group_event /\ q.last_event = p.last_event /\ q.owed = p.owed
  BY DEF Shape, SetPl, Top

LEMMA EndOperatorKeeps ==
    ASSUME NEW p, Shape(p), NEW q, q = EndOperator(p)
    PROVE  /\ q.group_event = p.group_event /\ q.last_event = p.last_event
           /\ q.owed = p.owed
<1>1. CASE ~Pl(p).own_op
  BY <1>1 DEF EndOperator
<1>2. CASE Pl(p).own_op
  <2>1. PICK m, n, a : /\ m = [Pl(p) EXCEPT !.own_op = FALSE, !.op = None]
                       /\ n = Pl(p).op /\ a = Pl(p).used_ampmult
    OBVIOUS
  <2>2. PICK r : r = SetPl(p, m)
    OBVIOUS
  <2>3. PICK ns : ns = [r.nodes EXCEPT ![n].amp = @ * a]
    OBVIOUS
  <2>4. q = [r EXCEPT !.nodes = ns]
    BY <1>2, <2>1, <2>2, <2>3 DEF EndOperator
  <2>5. /\ Shape(r) /\ r.group_event = p.group_event /\ r.last_event = p.last_event
        /\ r.owed = p.owed
    <3>1. Shape(r)
      BY <2>2, SetPlIs DEF Is
    <3> QED
      BY <2>2, <3>1, SetPlKeeps
  <2> QED
    BY <2>4, <2>5 DEF Shape
<1> QED
  BY <1>1, <1>2

(* end_event() leaves the group as it is, and what its level is to do next. *)
LEMMA EndEventKeeps ==
    ASSUME NEW p, NEW e, NEW new, Sound(p, 0, e, new), NEW q, q = EndEvent(p)
    PROVE  /\ q.group_event = p.group_event /\ q.last_event = p.last_event
           /\ q.owed = p.owed
           /\ Pl(q).fork = Pl(p).fork /\ Pl(q).main_ev = Pl(p).main_ev
           /\ Pl(q).op \in {None, Pl(p).op}
           /\ Pl(q).event = IF Pl(p).own_ev THEN None ELSE Pl(p).event
<1>1. Shape(p) /\ Typed(p) /\ Pl(p).param = "none"
  BY DEF Sound, Nested
<1>2. /\ Top(p) \in Nat \ {0} /\ Pl(p) \in Level /\ Pl(p) = p.levels[Top(p)]
      /\ LevelRefers(p, Pl(p))
  BY <1>1, TopLevelOf DEF Sound, LevelsRefer
<1>3. CASE ~Pl(p).own_ev
  BY <1>3 DEF EndEvent
<1>4. CASE Pl(p).own_ev
  <2>1. PICK l, m : l = Pl(p) /\ m = [l EXCEPT !.own_ev = FALSE]
    OBVIOUS
  <2>2. PICK p1, p2 : p1 = SetPl(p, m) /\ p2 = EndOperator(p1)
    OBVIOUS
  <2>3. PICK m2 : m2 = [Pl(p2) EXCEPT !.event = None]
    OBVIOUS
  <2>4. q = SetPl(p2, m2)
    BY <1>4, <2>1, <2>2, <2>3 DEF EndEvent
  <2>5. /\ m \in Level /\ SameLevel(m, Pl(p)) /\ m.event = l.event
        /\ ~m.own_ev /\ m.param = "none" /\ m.fork = l.fork /\ m.main_ev = l.main_ev
        /\ m.op = l.op
    BY <1>1, <1>2, <2>1 DEF Level, SameLevel
  <2>6. LevelRefers(p, m) /\ (Stepping(m) => Stepping(Pl(p)))
    BY <1>2, <2>1, <2>5 DEF LevelRefers, SameLevel, Stepping
  <2>7. Sound(p1, 0, e, new) /\ Pl(p1) = m /\ Shape(p1)
    BY <2>2, <2>5, <2>6, SetPlSound DEF Sound
  <2>8. /\ p1.group_event = p.group_event /\ p1.last_event = p.last_event
        /\ p1.owed = p.owed
    BY <1>1, <2>2, SetPlKeeps
  <2>9. /\ p2.group_event = p.group_event /\ p2.last_event = p.last_event
        /\ p2.owed = p.owed
    BY <2>2, <2>7, <2>8, EndOperatorKeeps
  <2>10. Sound(p2, 0, e, new) /\ Ended(p1, p2)
    BY <2>2, <2>5, <2>7, EndOperatorSound, EndOperatorEnds
  <2>11. PICK l2 : l2 = Pl(p2)
    OBVIOUS
  <2>12. /\ l2 \in Level /\ LevelRefers(p2, l2) /\ l2.param = "none"
         /\ l2.fork = l.fork /\ l2.main_ev = l.main_ev /\ l2.op \in {None, l.op}
    <3>1. l2 = IF m.own_op THEN [m EXCEPT !.own_op = FALSE, !.op = None] ELSE m
      BY <2>7, <2>10, <2>11 DEF Ended
    <3>2. Typed(p2) /\ l2.param = "none"
      BY <2>10, <2>11 DEF Sound, Nested
    <3>3. l2 \in Level /\ l2 = p2.levels[Top(p2)] /\ Top(p2) \in Nat \ {0}
      BY <2>11, <3>2, TopLevelOf
    <3>4. LevelRefers(p2, l2)
      BY <2>10, <3>3 DEF Sound, LevelsRefer
    <3> QED
      BY <2>5, <3>1, <3>2, <3>3, <3>4 DEF Level
  <2>13. /\ m2 \in Level /\ m2.event = None /\ m2.fork = l.fork
         /\ m2.main_ev = l.main_ev /\ m2.op = l2.op
    BY <2>3, <2>11, <2>12 DEF Level, None
  <2>14. /\ q.group_event = p.group_event /\ q.last_event = p.last_event
         /\ q.owed = p.owed
    <3>1. Shape(p2)
      BY <2>10 DEF Sound
    <3> QED
      BY <2>4, <2>9, <3>1, SetPlKeeps
  <2>15. Pl(q) = m2
    <3>1. Typed(p2) /\ Is(q, [p2.levels EXCEPT ![Top(p2)] = m2], p2.slots, p2.nested,
             p2.nodes, p2.objs, p2.evs, p2.labels, p2.options)
      BY <2>4, <2>10, SetPlIs DEF Sound
    <3>2. Top(p2) \in Nat \ {0} /\ p2.levels \in Seq(Level) /\ Top(p2) = Len(p2.levels)
      BY <3>1, TopLevelOf
    <3> QED
      BY <2>13, <3>1, <3>2 DEF Is, Pl
  <2> QED
    BY <1>4, <2>1, <2>12, <2>13, <2>14, <2>15
<1> QED
  BY <1>3, <1>4

-----------------------------------------------------------------------------
(* What a new event is linked from. *)

NextLink(es, fs, m) == fs[m].next = Len(es) + 1 /\ fs[m].forks = es[m].forks
ForkLink(es, fs, m) == fs[m].next = es[m].next /\ fs[m].forks = <<Len(es) + 1>> \o es[m].forks

IsNew(v) == v \in Event /\ v.next = None /\ v.forks = <<>>

PutAndAdded(es, fs, m, w, v) == fs = Append([es EXCEPT ![m] = w], v)

OnlyLinked(w, x) ==
    w \in Event /\ w.wait = x.wait /\ w.owed = x.owed /\ w.converted = x.converted

LEMMA LinkedPut ==
    ASSUME NEW es \in Seq(Event), NEW m \in DOMAIN es, NEW w, OnlyLinked(w, es[m]),
           NEW v, IsNew(v), NEW fs, PutAndAdded(es, fs, m, w, v)
    PROVE  Grows(es, fs, m, v) /\ fs[m] = w
<1>1. PICK gs : gs = [es EXCEPT ![m] = w]
  OBVIOUS
<1>2. Put(Event, es, gs, m, w) /\ v \in Event
  BY <1>1, PutIs DEF IsNew, OnlyLinked
<1>3. PICK n \in Nat : n = Len(es) /\ DOMAIN es = 1..n
  OBVIOUS
<1>4. gs \in Seq(Event) /\ Len(gs) = n /\ (m \in 1..n => gs[m] = w)
      /\ \A x \in 1..n : x # m => gs[x] = es[x]
  BY <1>2, <1>3 DEF Put
<1>5. /\ fs \in Seq(Event) /\ Len(fs) = n + 1 /\ fs[n + 1] = v
      /\ \A x \in 1..n : fs[x] = gs[x]
  BY <1>1, <1>2, <1>4 DEF PutAndAdded
<1>6. ASSUME NEW x \in 1..n
      PROVE  /\ x # m => fs[x].next = es[x].next /\ fs[x].forks = es[x].forks
             /\ fs[x].wait = es[x].wait /\ fs[x].owed = es[x].owed
             /\ fs[x].converted = es[x].converted
  BY <1>3, <1>4, <1>5 DEF OnlyLinked
<1> QED
  BY <1>3, <1>4, <1>5, <1>6 DEF Grows, IsNew

NextIsPut(es, fs, m, e, v) == fs = Append([es EXCEPT ![m].next = e], v)
ForkIsPut(es, fs, m, e, v) == fs = Append([es EXCEPT ![m].forks = <<e>> \o @], v)

LEMMA NextPut ==
    ASSUME NEW es \in Seq(Event), NEW m \in DOMAIN es, NEW v, IsNew(v),
           NEW e \in Nat, e = Len(es) + 1, NEW fs, NextIsPut(es, fs, m, e, v)
    PROVE  Grows(es, fs, m, v) /\ NextLink(es, fs, m)
<1>1. PICK w : w = [es[m] EXCEPT !.next = e]
  OBVIOUS
<1>2. PICK x \in Event : x = es[m]
  OBVIOUS
<1>3. /\ w \in Event /\ w.next = e /\ w.forks = x.forks
      /\ w.wait = x.wait /\ w.owed = x.owed /\ w.converted = x.converted
  BY <1>1, <1>2 DEF Event
<1>4. PutAndAdded(es, fs, m, w, v) /\ OnlyLinked(w, es[m])
  BY <1>1, <1>2, <1>3 DEF NextIsPut, PutAndAdded, OnlyLinked
<1>5. Grows(es, fs, m, v) /\ fs[m] = w
  BY <1>4, LinkedPut
<1> QED
  BY <1>2, <1>3, <1>5 DEF NextLink

LEMMA ForkPut ==
    ASSUME NEW es \in Seq(Event), NEW m \in DOMAIN es, NEW v, IsNew(v),
           NEW e \in Nat, e = Len(es) + 1, NEW fs, ForkIsPut(es, fs, m, e, v)
    PROVE  Grows(es, fs, m, v) /\ ForkLink(es, fs, m)
<1>1. PICK x \in Event : x = es[m]
  OBVIOUS
<1>2. PICK h : h = <<e>> \o x.forks
  OBVIOUS
<1>3. h \in Seq(Nat)
  <2>1. x.forks \in Seq(Nat) /\ <<e>> \in Seq(Nat)
    BY DEF Event
  <2> QED
    BY <1>2, <2>1
<1>4. PICK w : w = [x EXCEPT !.forks = h]
  OBVIOUS
<1>5. /\ w \in Event /\ w.next = x.next /\ w.forks = h
      /\ w.wait = x.wait /\ w.owed = x.owed /\ w.converted = x.converted
  BY <1>3, <1>4 DEF Event
<1>6. PutAndAdded(es, fs, m, w, v) /\ OnlyLinked(w, es[m])
  BY <1>1, <1>2, <1>4, <1>5 DEF ForkIsPut, PutAndAdded, OnlyLinked
<1>7. Grows(es, fs, m, v) /\ fs[m] = w
  BY <1>6, LinkedPut
<1> QED
  BY <1>1, <1>2, <1>5, <1>7 DEF ForkLink

LEMMA OnlyAdded ==
    ASSUME NEW es \in Seq(Event), NEW v, IsNew(v), NEW fs, fs = Append(es, v)
    PROVE  Grows(es, fs, None, v)
  BY DEF Grows, IsNew

(* The event that a sub-step that forks does so from. *)
Main(l, pve) == IF l.main_ev = None THEN pve ELSE l.main_ev

(* The level of a new event, e, made for what comes after that of l.       *)
NewEventLevel(l, m, e, pve, compstep) ==
    /\ m.event = e /\ m.own_ev /\ m.op = l.op /\ m.sub = l.sub /\ m.scope = l.scope
    /\ m.fork <=> l.fork /\ ~compstep
    /\ m.main_ev = CASE ~compstep -> None
                     [] compstep /\ l.fork -> Main(l, pve)
                     [] OTHER -> l.main_ev

(* Of a new event v, which is linked from m. *)
NewLink(q, es, l, m, pve, compstep) ==
    /\ ~compstep => m = q.last_event /\ (m # None => NextLink(q.evs, es, m))
    /\ compstep /\ ~l.fork => m = pve /\ NextLink(q.evs, es, m)
    /\ compstep /\ l.fork => m = Main(l, pve) /\ ForkLink(q.evs, es, m)

NewGroup(q, r, e, compstep) ==
    /\ r.last_event = IF compstep THEN q.last_event ELSE e
    /\ q.group_event # None => r.group_event = q.group_event
    /\ q.group_event = None /\ ~compstep => r.group_event = e
    /\ r.owed = (q.owed /\ compstep)

NewValue(q, l, v, compstep) ==
    /\ IsNew(v) /\ v.converted = 0
    /\ v.wait <=> l.wait \/ l.carry
    /\ v.owed <=> q.owed /\ ~compstep

EventMade(q, r, pve, compstep, m, v) ==
    /\ Grows(q.evs, r.evs, m, v)
    /\ NewLink(q, r.evs, Pl(q), m, pve, compstep)
    /\ NewValue(q, Pl(q), v, compstep)
    /\ NewGroup(q, r, Len(q.evs) + 1, compstep)
    /\ NewEventLevel(Pl(q), Pl(r), Len(q.evs) + 1, pve, compstep)
    /\ Top(r) = Top(q) /\ \A k \in 1..(Top(q) - 1) : r.levels[k] = q.levels[k]
    /\ r.nodes = q.nodes /\ r.objs = q.objs /\ r.slots = q.slots /\ r.nested = q.nested

LinkedIs(q, l, pve, compstep, e, linked) ==
    /\ Forks(l, compstep) => linked = [q.evs EXCEPT ![Main(l, pve)].forks = <<e>> \o @]
    /\ compstep /\ ~Forks(l, compstep) => linked = [q.evs EXCEPT ![pve].next = e]
    /\ ~compstep /\ q.last_event # None => linked = [q.evs EXCEPT ![q.last_event].next = e]
    /\ ~compstep /\ q.last_event = None => linked = q.evs

LEMMA NewEventLinked ==
    ASSUME NEW q, Events(q), NEW compstep \in BOOLEAN, NEW l \in Level,
           NEW pve, compstep => pve \in DOMAIN q.evs,
           compstep => l.main_ev \in {None} \union DOMAIN q.evs,
           NEW e, e = Len(q.evs) + 1, NEW v, IsNew(v),
           NEW linked, LinkedIs(q, l, pve, compstep, e, linked),
           NEW es, es = Append(linked, v)
    PROVE  \E m : Grows(q.evs, es, m, v) /\ NewLink(q, es, l, m, pve, compstep)
<1>1. q.evs \in Seq(Event) /\ e \in Nat /\ DOMAIN q.evs = 1..Len(q.evs)
  BY DEF Events
<1>2. CASE Forks(l, compstep)
  <2>1. PICK m : m = Main(l, pve)
    OBVIOUS
  <2>2. m \in DOMAIN q.evs /\ compstep /\ l.fork
    BY <1>2, <2>1 DEF Forks, Main
  <2>3. ForkIsPut(q.evs, es, m, e, v)
    BY <1>2, <2>1 DEF ForkIsPut, LinkedIs
  <2>4. Grows(q.evs, es, m, v) /\ ForkLink(q.evs, es, m)
    BY <1>1, <2>2, <2>3, ForkPut
  <2> QED
    BY <2>1, <2>2, <2>4 DEF NewLink
<1>3. CASE compstep /\ ~Forks(l, compstep)
  <2>1. pve \in DOMAIN q.evs /\ ~l.fork
    BY <1>3 DEF Forks
  <2>2. NextIsPut(q.evs, es, pve, e, v)
    BY <1>3 DEF NextIsPut, LinkedIs
  <2>3. Grows(q.evs, es, pve, v) /\ NextLink(q.evs, es, pve)
    BY <1>1, <2>1, <2>2, NextPut
  <2> QED
    BY <1>3, <2>1, <2>3 DEF NewLink
<1>4. CASE ~compstep /\ q.last_event # None
  <2>1. PICK m : m = q.last_event
    OBVIOUS
  <2>2. m \in DOMAIN q.evs
    BY <1>1, <1>4, <2>1 DEF Events, None
  <2>3. NextIsPut(q.evs, es, m, e, v)
    BY <1>4, <2>1 DEF NextIsPut, LinkedIs
  <2>4. Grows(q.evs, es, m, v) /\ NextLink(q.evs, es, m)
    BY <1>1, <2>2, <2>3, NextPut
  <2> QED
    BY <1>4, <2>1, <2>4 DEF NewLink
<1>5. CASE ~compstep /\ q.last_event = None
  <2>1. es = Append(q.evs, v)
    BY <1>5 DEF LinkedIs
  <2>2. Grows(q.evs, es, None, v)
    BY <1>1, <2>1, OnlyAdded
  <2> QED
    BY <1>5, <2>2 DEF NewLink
<1> QED
  BY <1>2, <1>3, <1>4, <1>5

LEMMA NextEventMakes ==
    ASSUME NEW q, Shape(q), Typed(q), Events(q), NEW prev, NEW compstep \in BOOLEAN,
           NEW pve, pve = q.nodes[prev].event, compstep => pve \in DOMAIN q.evs,
           compstep => Pl(q).main_ev \in {None} \union DOMAIN q.evs,
           NEW r, r = NextEvent(q, prev, compstep)
    PROVE  \E m, v : EventMade(q, r, pve, compstep, m, v)
<1>1. /\ Top(q) \in Nat \ {0} /\ Pl(q) \in Level /\ Pl(q) = q.levels[Top(q)]
      /\ Top(q) = Len(q.levels) /\ q.levels \in Seq(Level)
  BY TopLevelOf
<1>2. PICK l, e : l = Pl(q) /\ e = Len(q.evs) + 1
  OBVIOUS
<1>3. /\ e \in Nat \ {0} /\ l \in Level /\ q.owed \in BOOLEAN
      /\ l.wait \in BOOLEAN /\ l.carry \in BOOLEAN /\ l.fork \in BOOLEAN
  <2>1. e \in Nat \ {0} /\ q.owed \in BOOLEAN
    BY <1>2 DEF Events
  <2>2. l \in Level
    BY <1>1, <1>2
  <2>3. l.wait \in BOOLEAN /\ l.carry \in BOOLEAN /\ l.fork \in BOOLEAN
    BY <2>2, Zenon DEF Level
  <2> QED
    BY <2>1, <2>2, <2>3
<1>4. PICK main : main = CASE ~compstep -> None
                           [] Forks(l, compstep) /\ l.main_ev = None -> pve
                           [] OTHER -> l.main_ev
  OBVIOUS
<1>5. /\ ~compstep => main = None
      /\ compstep => main = IF l.fork THEN Main(l, pve) ELSE l.main_ev
  BY <1>4 DEF Forks, Main
<1>6. PICK v : v = [main_obj |-> None, next |-> None, forks |-> <<>>,
                     wait |-> l.wait \/ l.carry,
                     owed |-> q.owed /\ ~compstep,
                     converted |-> 0]
  OBVIOUS
<1>7. NewValue(q, l, v, compstep)
  <2>1. (l.wait \/ l.carry) \in BOOLEAN /\ (q.owed /\ ~compstep) \in BOOLEAN
    BY <1>3, Zenon
  <2>2. PICK a, b : a = (l.wait \/ l.carry) /\ b = (q.owed /\ ~compstep)
    OBVIOUS
  <2>3. /\ v = [main_obj |-> None, next |-> None, forks |-> <<>>, wait |-> a, owed |-> b,
                converted |-> 0]
        /\ a \in BOOLEAN /\ b \in BOOLEAN
    BY <1>6, <2>1, <2>2
  <2>4. IsNew(v) /\ v.converted = 0 /\ v.wait = a /\ v.owed = b
    BY <2>3 DEF IsNew, Event, None
  <2> QED
    BY <2>2, <2>4 DEF NewValue
<1>8. PICK linked :
        linked = CASE Forks(l, compstep) -> [q.evs EXCEPT ![main].forks = <<e>> \o @]
                   [] compstep /\ ~Forks(l, compstep) -> [q.evs EXCEPT ![pve].next = e]
                   [] ~compstep /\ q.last_event # None ->
                          [q.evs EXCEPT ![q.last_event].next = e]
                   [] OTHER -> q.evs
  OBVIOUS
<1>9. LinkedIs(q, l, pve, compstep, e, linked)
  <2>1. CASE Forks(l, compstep)
    <3>1. PICK forked : forked = [q.evs EXCEPT ![main].forks = <<e>> \o @]
      OBVIOUS
    <3>2. linked = forked /\ main = Main(l, pve) /\ compstep
      BY <1>5, <1>8, <2>1, <3>1 DEF Forks
    <3>3. linked = [q.evs EXCEPT ![Main(l, pve)].forks = <<e>> \o @]
      BY <3>1, <3>2
    <3> QED
      BY <2>1, <3>2, <3>3 DEF LinkedIs
  <2>2. CASE ~Forks(l, compstep)
    BY <1>8, <2>2 DEF LinkedIs
  <2> QED
    BY <2>1, <2>2
<1>10. PICK es : es = Append(linked, v)
  OBVIOUS
<1>11. PICK m : Grows(q.evs, es, m, v) /\ NewLink(q, es, l, m, pve, compstep)
  BY <1>2, <1>3, <1>7, <1>9, <1>10, NewEventLinked DEF NewValue
<1>12. PICK k : k = [l EXCEPT !.event = e, !.own_ev = TRUE, !.main_ev = main,
                              !.fork = @ /\ ~compstep,
                              !.wait = FALSE, !.carry = FALSE]
  OBVIOUS
<1>13. NewEventLevel(l, k, e, pve, compstep)
  <2>1. /\ k.event = e /\ k.own_ev /\ k.op = l.op /\ k.sub = l.sub /\ k.scope = l.scope
        /\ k.main_ev = main /\ k.fork = (l.fork /\ ~compstep)
    BY <1>3, <1>12 DEF Level
  <2>2. main = CASE ~compstep -> None
                 [] compstep /\ l.fork -> Main(l, pve)
                 [] OTHER -> l.main_ev
    BY <1>5
  <2> QED
    BY <2>1, <2>2 DEF NewEventLevel
<1>14. PICK q1 : q1 = [q EXCEPT !.evs = es,
                 !.last_event = IF compstep THEN @ ELSE e,
                 !.group_event = CASE @ # None -> @
                                   [] @ = None /\ main # None -> main
                                   [] OTHER -> e,
                 !.owed = @ /\ compstep]
  OBVIOUS
<1>15. /\ Is(q1, q.levels, q.slots, q.nested, q.nodes, q.objs, es, q.labels, q.options)
       /\ q1.last_event = IF compstep THEN q.last_event ELSE e
       /\ q1.group_event = CASE q.group_event # None -> q.group_event
                             [] q.group_event = None /\ main # None -> main
                             [] OTHER -> e
       /\ q1.owed = (q.owed /\ compstep)
  BY <1>14, ZenonT(40) DEF Is, Shape
<1>16. NewGroup(q, q1, e, compstep)
  BY <1>5, <1>15 DEF NewGroup
<1>17. r = SetPl(q1, k)
  BY <1>2, <1>4, <1>6, <1>8, <1>10, <1>12, <1>14, ZenonT(40) DEF NextEvent
<1>18. Shape(q1) /\ Top(q1) = Top(q)
  BY <1>15 DEF Is, Top
<1>19. /\ Is(r, [q.levels EXCEPT ![Top(q)] = k], q.slots, q.nested,
                q.nodes, q.objs, es, q.labels, q.options)
       /\ r.group_event = q1.group_event /\ r.last_event = q1.last_event
       /\ r.owed = q1.owed
  <2>1. /\ r.group_event = q1.group_event /\ r.last_event = q1.last_event
        /\ r.owed = q1.owed
    BY <1>17, <1>18, SetPlKeeps
  <2>2. Is(r, [q1.levels EXCEPT ![Top(q1)] = k], q1.slots, q1.nested,
           q1.nodes, q1.objs, q1.evs, q1.labels, q1.options)
    BY <1>17, <1>18, SetPlIs
  <2> QED
    BY <1>15, <1>18, <2>1, <2>2 DEF Is
<1>20. /\ Top(r) = Top(q) /\ Pl(r) = k
       /\ \A j \in 1..(Top(q) - 1) : r.levels[j] = q.levels[j]
  BY <1>1, <1>19 DEF Is, Top, Pl
<1>21. NewGroup(q, r, e, compstep)
  BY <1>16, <1>19 DEF NewGroup
<1>22. /\ r.evs = es /\ r.nodes = q.nodes /\ r.objs = q.objs /\ r.slots = q.slots
       /\ r.nested = q.nested
  BY <1>19 DEF Is
<1> QED
  BY <1>2, <1>7, <1>11, <1>13, <1>20, <1>21, <1>22 DEF EventMade

(* A sub-step can be made after event pve, where its step goes on from, or *)
(* forks.                                                                  *)
SubStepReady(q, pve) ==
    /\ pve \in Group(q) /\ Pl(q).main_ev \in {None} \union Group(q) /\ ~q.owed
    /\ ~Pl(q).fork => /\ q.evs[pve].next = None /\ pve # q.last_event
                      /\ \A k \in 1..(Top(q) - 1) : Follows(q, k) => StepEvent(q, k) # pve

LEMMA GroupIs ==
    ASSUME NEW p, Events(p)
    PROVE  /\ Len(p.evs) \in Nat /\ DOMAIN p.evs = 1..Len(p.evs)
           /\ p.group_event \in Nat /\ p.group_event <= Len(p.evs)
           /\ Group(p) \subseteq 1..Len(p.evs)
           /\ (Group(p) = {} <=> p.group_event = None)
           /\ p.group_event # None => /\ p.group_event \in 1..Len(p.evs)
                                      /\ Group(p) = p.group_event..Len(p.evs)
  BY DEF Events, Group, None

LEMMA EventMadeGroup ==
    ASSUME NEW q, Events(q), NEW r, NEW pve, NEW compstep \in BOOLEAN, NEW m, NEW v,
           EventMade(q, r, pve, compstep, m, v),
           compstep => SubStepReady(q, pve), q.owed => Pl(q).carry
    PROVE  Events(r) /\ Group(r) = Group(q) \union {Len(q.evs) + 1} /\ ~r.owed
<1>1. PICK n \in Nat, e \in Nat : n = Len(q.evs) /\ e = n + 1
  BY DEF Events
<1>2. /\ Grows(q.evs, r.evs, m, v) /\ NewLink(q, r.evs, Pl(q), m, pve, compstep)
      /\ NewValue(q, Pl(q), v, compstep) /\ NewGroup(q, r, e, compstep)
  BY <1>1 DEF EventMade
<1>3. /\ Len(q.evs) \in Nat /\ DOMAIN q.evs = 1..n /\ q.evs \in Seq(Event)
      /\ q.group_event \in Nat /\ q.group_event <= n /\ Group(q) \subseteq 1..n
      /\ q.group_event # None => q.group_event \in 1..n /\ Group(q) = q.group_event..n
      /\ (Group(q) = {} <=> q.group_event = None)
  BY <1>1, GroupIs DEF Events
<1>4. /\ r.evs \in Seq(Event) /\ Len(r.evs) = e /\ DOMAIN r.evs = 1..e
      /\ r.evs[e] = v /\ v.next = None
  BY <1>1, <1>2 DEF Grows
<1>5. compstep => q.group_event # None
  BY <1>3 DEF SubStepReady
<1>6. r.group_event = IF q.group_event # None THEN q.group_event ELSE e
  BY <1>2, <1>5 DEF NewGroup
<1>7. Group(r) = Group(q) \union {e}
  <2>1. CASE q.group_event = None
    <3>1. Group(r) = e..e /\ Group(q) = {}
      BY <1>1, <1>3, <1>4, <1>6, <2>1 DEF Group, None
    <3> QED
      BY <1>1, <3>1
  <2>2. CASE q.group_event # None
    <3>1. Group(r) = q.group_event..e /\ Group(q) = q.group_event..n
      BY <1>3, <1>4, <1>6, <2>2 DEF Group
    <3> QED
      BY <1>1, <1>3, <3>1
  <2> QED
    BY <2>1, <2>2
<1>8. Tree(r.evs, r.group_event)
  <2>1. CASE q.group_event = None
    BY <1>1, <1>2, <1>3, <1>6, <2>1, GroupStarts
  <2>2. CASE q.group_event # None
    <3>1. PICK g : g = q.group_event
      OBVIOUS
    <3>2. g \in 1..Len(q.evs) /\ Tree(q.evs, g) /\ r.group_event = g /\ Group(q) = g..Len(q.evs)
      BY <1>1, <1>3, <1>6, <2>2, <3>1 DEF Events
    <3>3. CASE compstep /\ Pl(q).fork
      <4>1. m \in g..Len(q.evs) /\ ForkLink(q.evs, r.evs, m)
        BY <1>2, <3>2, <3>3 DEF NewLink, Main, SubStepReady
      <4> QED
        BY <1>2, <1>3, <3>2, <4>1, GroupGrowsFork DEF ForkLink
    <3>4. CASE ~compstep \/ ~Pl(q).fork
      <4>1. /\ m \in g..Len(q.evs) /\ q.evs[m].next = None /\ NextLink(q.evs, r.evs, m)
        <5>1. CASE compstep
          BY <1>2, <3>2, <3>4, <5>1 DEF NewLink, SubStepReady
        <5>2. CASE ~compstep
          <6>1. q.last_event \in g..Len(q.evs) /\ q.evs[q.last_event].next = None
            BY <2>2, <3>2 DEF Events
          <6>2. q.last_event # None
            BY <3>2, <6>1 DEF None
          <6> QED
            BY <1>2, <5>2, <6>1, <6>2 DEF NewLink
        <5> QED
          BY <5>1, <5>2
      <4> QED
        BY <1>2, <1>3, <3>2, <4>1, GroupGrowsNext DEF NextLink
    <3> QED
      BY <3>3, <3>4
  <2> QED
    BY <2>1, <2>2
<1>9. r.last_event \in Group(r) /\ r.evs[r.last_event].next = None /\ r.last_event \in 0..e
  <2>1. CASE ~compstep
    BY <1>1, <1>2, <1>4, <1>7, <2>1 DEF NewGroup
  <2>2. CASE compstep
    <3>1. PICK i : i = q.last_event
      OBVIOUS
    <3>2. i \in Group(q) /\ i \in 1..n /\ q.evs[i].next = None /\ r.last_event = i
      BY <1>2, <1>3, <1>5, <2>2, <3>1 DEF Events, NewGroup
    <3>3. r.evs[i].next = None
      <4>1. CASE i # m
        BY <1>1, <1>2, <3>2, <4>1 DEF Grows
      <4>2. CASE i = m
        <5>1. Pl(q).fork
          BY <1>2, <2>2, <3>1, <4>2 DEF NewLink, SubStepReady
        <5> QED
          BY <1>2, <2>2, <3>2, <4>2, <5>1 DEF NewLink, ForkLink
      <4> QED
        BY <4>1, <4>2
    <3> QED
      BY <1>1, <1>7, <3>2, <3>3
  <2> QED
    BY <2>1, <2>2
<1>10. ASSUME NEW x \in DOMAIN r.evs
       PROVE  /\ r.evs[x].converted = IF x \in Group(r) THEN 0 ELSE 1
              /\ r.evs[x].owed => r.evs[x].wait
  <2>1. CASE x = e
    BY <1>2, <1>4, <1>7, <2>1 DEF NewValue
  <2>2. CASE x # e
    <3>1. x \in 1..n
      BY <1>1, <1>4, <2>2
    <3>2. /\ r.evs[x].converted = q.evs[x].converted /\ r.evs[x].owed = q.evs[x].owed
          /\ r.evs[x].wait = q.evs[x].wait
      BY <1>1, <1>2, <3>1 DEF Grows
    <3> QED
      BY <1>3, <1>7, <2>2, <3>1, <3>2 DEF Events
  <2> QED
    BY <2>1, <2>2
<1>11. r.owed \in BOOLEAN /\ ~r.owed
  <2>1. r.owed = (q.owed /\ compstep)
    BY <1>2 DEF NewGroup
  <2>2. ~(q.owed /\ compstep)
    BY DEF SubStepReady
  <2> QED
    BY <2>1, <2>2, Zenon
<1>12. r.group_event \in 0..e
  BY <1>1, <1>3, <1>6
<1> QED
  BY <1>1, <1>4, <1>7, <1>8, <1>9, <1>10, <1>11, <1>12 DEF Events

LEMMA EventMadeLevels ==
    ASSUME NEW q, Typed(q), Events(q), NEW r, NEW pve, NEW compstep \in BOOLEAN, NEW m, NEW v,
           EventMade(q, r, pve, compstep, m, v),
           compstep => SubStepReady(q, pve),
           NEW t \in 0..Top(q), StepsHold(q, t), compstep => t = Top(q) - 1
    PROVE  /\ StepsHold(r, t)
           /\ \A k \in 1..t : Stepping(r.levels[k]) => StepEvent(r, k) # Len(q.evs) + 1
<1>1. PICK n \in Nat, e \in Nat : n = Len(q.evs) /\ e = n + 1
  BY DEF Events
<1>2. /\ Grows(q.evs, r.evs, m, v) /\ NewLink(q, r.evs, Pl(q), m, pve, compstep)
      /\ NewGroup(q, r, e, compstep) /\ NewEventLevel(Pl(q), Pl(r), e, pve, compstep)
      /\ Top(r) = Top(q) /\ \A k \in 1..(Top(q) - 1) : r.levels[k] = q.levels[k]
      /\ r.nodes = q.nodes
  BY <1>1 DEF EventMade
<1>3. /\ Top(q) \in Nat \ {0} /\ Pl(q) = q.levels[Top(q)] /\ Pl(r) = r.levels[Top(q)]
  BY <1>2, TopLevelOf DEF Pl, Top
<1>4. Group(q) \subseteq 1..n
  BY <1>1, GroupIs
<1>5. ASSUME NEW k \in 1..t
      PROVE  /\ Stepping(r.levels[k]) <=> Stepping(q.levels[k])
             /\ StepEvent(r, k) = StepEvent(q, k)
             /\ Follows(r, k) => Follows(q, k)
  <2>1. CASE k = Top(q)
    <3>1. /\ r.levels[k].op = q.levels[k].op /\ r.levels[k].sub = q.levels[k].sub
          /\ r.levels[k].fork <=> q.levels[k].fork
      BY <1>2, <1>3, <1>5, <2>1 DEF NewEventLevel
    <3> QED
      BY <1>2, <3>1 DEF Stepping, StepEvent, Follows
  <2>2. CASE k # Top(q)
    <3>1. r.levels[k] = q.levels[k]
      BY <1>2, <1>3, <2>2
    <3> QED
      BY <1>2, <3>1 DEF StepEvent, Follows
  <2> QED
    BY <2>1, <2>2
<1>6. ASSUME NEW k \in 1..t, Stepping(r.levels[k])
      PROVE  /\ StepEvent(r, k) \in Group(q) /\ StepEvent(r, k) \in 1..n
             /\ StepEvent(r, k) # e
  BY <1>1, <1>4, <1>5, <1>6 DEF StepsHold
<1>7. Group(q) \subseteq Group(r)
  <2>1. PICK d : d = q.group_event
    OBVIOUS
  <2>2. CASE d = None
    BY <2>1, <2>2 DEF Group
  <2>3. CASE d # None
    <3>1. r.group_event = d /\ Len(r.evs) = e /\ d \in Nat
      BY <1>1, <1>2, <2>1, <2>3, GroupIs DEF NewGroup, Grows
    <3> QED
      BY <1>1, <2>1, <2>3, <3>1 DEF Group
  <2> QED
    BY <2>2, <2>3
<1>8. ASSUME NEW k \in 1..t, Follows(r, k)
      PROVE  r.evs[StepEvent(r, k)].next = None /\ StepEvent(r, k) # r.last_event
  <2>1. PICK x : x = StepEvent(r, k)
    OBVIOUS
  <2>2. /\ Follows(q, k) /\ x = StepEvent(q, k) /\ x \in Group(q) /\ x \in 1..n /\ x # e
        /\ q.evs[x].next = None /\ x # q.last_event
    BY <1>5, <1>6, <1>8, <2>1 DEF StepsHold, Follows
  <2>3. x # r.last_event
    BY <1>2, <2>2 DEF NewGroup
  <2>4. r.evs[x].next = None
    <3>1. CASE x # m
      BY <1>1, <1>2, <2>2, <3>1 DEF Grows
    <3>2. CASE x = m
      <4>1. compstep
        BY <1>2, <2>2, <3>2 DEF NewLink
      <4>2. Pl(q).fork
        <5>1. k \in 1..(Top(q) - 1)
          BY <1>3, <4>1
        <5> QED
          BY <1>2, <2>2, <3>2, <4>1, <5>1 DEF NewLink, SubStepReady
      <4> QED
        BY <1>2, <2>2, <3>2, <4>1, <4>2 DEF NewLink, ForkLink
    <3> QED
      BY <3>1, <3>2
  <2> QED
    BY <2>1, <2>3, <2>4
<1>9. ASSUME NEW j \in 1..t, NEW k \in 1..t, Follows(r, j), Follows(r, k),
             StepEvent(r, j) = StepEvent(r, k)
      PROVE  j = k
  BY <1>5, <1>9 DEF StepsHold
<1> QED
  BY <1>1, <1>6, <1>7, <1>8, <1>9 DEF StepsHold

-----------------------------------------------------------------------------
(* prepare_event() *)

LEMMA StepsFewer ==
    ASSUME NEW p, NEW t \in Nat, StepsHold(p, t), NEW s \in Nat, s <= t
    PROVE  StepsHold(p, s)
<1>1. \A k \in 1..s : k \in 1..t
  OBVIOUS
<1> QED
  BY <1>1 DEF StepsHold

(* Levels of q are in steps only where those of p are in the same. *)
StepsAlike(p, q, t) ==
    \A k \in 1..t :
        Stepping(q.levels[k]) => /\ Stepping(p.levels[k])
                                 /\ StepEvent(q, k) = StepEvent(p, k)
                                 /\ q.levels[k].fork = p.levels[k].fork

LEMMA StepsStay ==
    ASSUME NEW p, NEW q, NEW t \in Nat, StepsHold(p, t), StepsAlike(p, q, t),
           Group(q) = Group(p), q.last_event = p.last_event,
           \A x \in Group(p) : q.evs[x].next = p.evs[x].next
    PROVE  StepsHold(q, t)
<1>1. ASSUME NEW k \in 1..t, Stepping(q.levels[k])
      PROVE  /\ StepEvent(q, k) \in Group(q)
             /\ Follows(q, k) => /\ q.evs[StepEvent(q, k)].next = None
                                 /\ StepEvent(q, k) # q.last_event
  BY <1>1 DEF StepsHold, StepsAlike, Follows
<1>2. ASSUME NEW j \in 1..t, NEW k \in 1..t, Follows(q, j), Follows(q, k),
             StepEvent(q, j) = StepEvent(q, k)
      PROVE  j = k
  BY <1>2 DEF StepsHold, StepsAlike, Follows
<1> QED
  BY <1>1, <1>2 DEF StepsHold, Follows

LevelsBelowHold(p) ==
    /\ \A k \in 1..(Top(p) - 1) : LevelHolds(p, k)
    /\ Top(p) > 1 => Pl(p).scope = "nest"
    /\ p.levels[1].event # None => p.levels[1].own_ev

(* There is an event for a new step, and only that step, if it is a        *)
(* sub-step, is to be gone on with from there.                             *)
StepPrepared(q, compstep) ==
    /\ ~q.owed
    /\ Pl(q).event \in Group(q) /\ Pl(q).main_ev \in {None} \union Group(q)
    /\ StepsHold(q, Top(q) - 1)
    /\ ~compstep => StepsHold(q, Top(q))
    /\ compstep => /\ ~Pl(q).fork /\ q.evs[Pl(q).event].next = None
                   /\ Pl(q).event # q.last_event
                   /\ \A k \in 1..(Top(q) - 1) :
                         Stepping(q.levels[k]) => StepEvent(q, k) # Pl(q).event

Prepared(q, compstep) == Events(q) /\ LevelsBelowHold(q) /\ StepPrepared(q, compstep)

(* A step is at hand that a sub-step can be made of. *)
OfStep(p, prev) == Stepping(Pl(p)) /\ prev = Pl(p).op /\ Pl(p).event # None

LEMMA EndedEventHolds ==
    ASSUME NEW p, Sound(p, 0, None, None), Events(p), LevelsHold(p), NEW prev,
           NEW compstep \in BOOLEAN, compstep => OfStep(p, prev),
           NEW q, q = EndEvent(p)
    PROVE  /\ Events(q) /\ (q.owed => Pl(q).carry)
           /\ Group(q) = Group(p) /\ q.evs = p.evs
           /\ StepsHold(q, IF compstep THEN Top(p) - 1 ELSE Top(p))
           /\ compstep => SubStepReady(q, q.nodes[prev].event)
<1>1. /\ Typed(p) /\ Top(p) \in Nat \ {0} /\ Pl(p) = p.levels[Top(p)]
      /\ \A k \in 1..Top(p) : IsOp(p, p.levels[k].op)
  <2>1. Typed(p)
    BY DEF Sound
  <2> QED
    BY <2>1, TopLevelOf DEF Sound, LevelsRefer, LevelRefers
<1>2. Sound(q, 0, None, None) /\ Kept(p, q) /\ q.evs = p.evs /\ Pl(q).carry = Pl(p).carry
  BY EndEventSound
<1>3. /\ q.group_event = p.group_event /\ q.last_event = p.last_event /\ q.owed = p.owed
      /\ Pl(q).fork = Pl(p).fork /\ Pl(q).main_ev = Pl(p).main_ev
      /\ Pl(q).op \in {None, Pl(p).op}
  BY EndEventKeeps
<1>4. Events(q) /\ Group(q) = Group(p)
  BY <1>2, <1>3 DEF Events, Group
<1>5. q.owed => Pl(q).carry
  BY <1>1, <1>2, <1>3 DEF LevelsHold, OwedHolds
<1>6. /\ Top(q) = Top(p) /\ \A k \in 1..(Top(p) - 1) : q.levels[k] = p.levels[k]
      /\ Pl(q).sub = Pl(p).sub /\ Pl(q) = q.levels[Top(p)]
      /\ \A n \in DOMAIN p.nodes : q.nodes[n].event = p.nodes[n].event
  BY <1>1, <1>2, TopLevelOf DEF Kept, SameNode, Sound
<1>7. StepsAlike(p, q, Top(p))
  <2>1. ASSUME NEW k \in 1..Top(p), Stepping(q.levels[k])
        PROVE  /\ Stepping(p.levels[k]) /\ q.levels[k].op = p.levels[k].op
               /\ q.levels[k].fork = p.levels[k].fork
    <3>1. CASE k = Top(p)
      BY <1>1, <1>3, <1>6, <2>1, <3>1 DEF Stepping
    <3>2. CASE k # Top(p)
      <4>1. q.levels[k] = p.levels[k]
        BY <1>1, <1>6, <3>2
      <4> QED
        BY <2>1, <4>1
    <3> QED
      BY <3>1, <3>2
  <2>2. ASSUME NEW k \in 1..Top(p), Stepping(q.levels[k])
        PROVE  StepEvent(q, k) = StepEvent(p, k)
    <3>1. p.levels[k].op \in DOMAIN p.nodes
      BY <1>1, <2>1, <2>2 DEF Stepping, IsOp
    <3> QED
      BY <1>6, <2>1, <2>2, <3>1 DEF StepEvent
  <2> QED
    BY <2>1, <2>2 DEF StepsAlike
<1>8. StepsHold(q, Top(p))
  BY <1>1, <1>2, <1>3, <1>4, <1>7, StepsStay DEF LevelsHold
<1>9. StepsHold(q, Top(p) - 1)
  BY <1>1, <1>8, StepsFewer
<1>10. ASSUME compstep PROVE SubStepReady(q, q.nodes[prev].event)
  <2>1. prev \in DOMAIN p.nodes /\ Stepping(p.levels[Top(p)]) /\ prev = p.levels[Top(p)].op
    BY <1>1, <1>10 DEF OfStep, Stepping, IsOp
  <2>2. q.nodes[prev].event = StepEvent(p, Top(p))
    BY <1>6, <2>1 DEF StepEvent
  <2>3. /\ StepEvent(p, Top(p)) \in Group(p) /\ Pl(p).main_ev \in {None} \union Group(p)
        /\ Follows(p, Top(p)) => /\ p.evs[StepEvent(p, Top(p))].next = None
                                 /\ StepEvent(p, Top(p)) # p.last_event
    BY <1>1, <2>1 DEF LevelsHold, StepsHold, LevelHolds
  <2>4. ~p.owed
    BY <1>1, <1>10 DEF LevelsHold, OwedHolds, OfStep
  <2>5. ASSUME ~Pl(q).fork, NEW k \in 1..(Top(p) - 1), Follows(q, k)
        PROVE  StepEvent(q, k) # StepEvent(p, Top(p))
    <3>1. k \in 1..Top(p) /\ k # Top(p)
      BY <1>1
    <3>2. Follows(p, Top(p)) /\ Follows(p, k) /\ StepEvent(q, k) = StepEvent(p, k)
      BY <1>1, <1>3, <1>7, <2>1, <2>5, <3>1 DEF Follows, StepsAlike
    <3> QED
      BY <1>1, <3>1, <3>2 DEF LevelsHold, StepsHold
  <2>6. ~Pl(q).fork => Follows(p, Top(p))
    BY <1>1, <1>3, <2>1 DEF Follows
  <2> QED
    BY <1>2, <1>3, <1>4, <1>6, <2>2, <2>3, <2>4, <2>5, <2>6 DEF SubStepReady
<1> QED
  BY <1>2, <1>4, <1>5, <1>8, <1>9, <1>10

LEMMA LevelHoldsStill ==
    ASSUME NEW p, NEW q, NEW k, LevelHolds(p, k), q.levels[k] = p.levels[k],
           Group(p) \subseteq Group(q)
    PROVE  LevelHolds(q, k)
  BY DEF LevelHolds

LEMMA BeginEventHolds ==
    ASSUME NEW p, Sound(p, 0, None, None), Events(p), LevelsHold(p),
           NEW prev, IsNode(p, prev), NEW compstep \in BOOLEAN,
           compstep => OfStep(p, prev), NEW q, q = BeginEvent(p, prev, compstep)
    PROVE  Prepared(q, compstep) /\ Pl(q).op \in {None, Pl(p).op}
<1>1. PICK r : r = EndEvent(p)
  OBVIOUS
<1>2. /\ Events(r) /\ (r.owed => Pl(r).carry) /\ Group(r) = Group(p) /\ r.evs = p.evs
      /\ StepsHold(r, IF compstep THEN Top(p) - 1 ELSE Top(p))
      /\ compstep => SubStepReady(r, r.nodes[prev].event)
  BY <1>1, EndedEventHolds
<1>3. Sound(r, 0, None, None) /\ Kept(p, r)
  BY <1>1, EndEventSound
<1>4. /\ Typed(p) /\ Typed(r) /\ Shape(r) /\ Top(p) \in Nat \ {0} /\ Top(r) = Top(p)
      /\ \A k \in 1..(Top(p) - 1) : r.levels[k] = p.levels[k]
      /\ Pl(r).scope = Pl(p).scope /\ Pl(p) = p.levels[Top(p)]
  BY <1>3, TopLevelOf DEF Sound, Kept
<1>5. PICK pve : pve = r.nodes[prev].event
  OBVIOUS
<1>6. PICK n \in Nat, e \in Nat : n = Len(r.evs) /\ e = n + 1
  BY <1>2 DEF Events
<1>7. Group(r) \subseteq 1..n /\ DOMAIN r.evs = 1..n
  BY <1>2, <1>6, GroupIs
<1>8. PICK m, v : EventMade(r, q, pve, compstep, m, v)
  <2>1. q = NextEvent(r, prev, compstep)
    BY <1>1 DEF BeginEvent
  <2>2. compstep => pve \in DOMAIN r.evs /\ Pl(r).main_ev \in {None} \union DOMAIN r.evs
    BY <1>2, <1>5, <1>7 DEF SubStepReady
  <2> QED
    BY <1>2, <1>4, <1>5, <2>1, <2>2, NextEventMakes
<1>9. Events(q) /\ Group(q) = Group(r) \union {e} /\ ~q.owed
  <2>1. (compstep => SubStepReady(r, pve)) /\ (r.owed => Pl(r).carry) /\ Events(r)
    BY <1>2, <1>5
  <2>2. Events(q) /\ Group(q) = Group(r) \union {Len(r.evs) + 1} /\ ~q.owed
    BY <1>8, <2>1, EventMadeGroup, Zenon
  <2> QED
    BY <1>6, <2>2
<1>10. PICK t \in 0..Top(r) : t = IF compstep THEN Top(p) - 1 ELSE Top(p)
  BY <1>4
<1>11. /\ StepsHold(q, t)
       /\ \A k \in 1..t : Stepping(q.levels[k]) => StepEvent(q, k) # e
  <2>1. /\ StepsHold(r, t) /\ (compstep => t = Top(r) - 1)
        /\ (compstep => SubStepReady(r, pve)) /\ Events(r) /\ Typed(r)
    BY <1>2, <1>4, <1>5, <1>10
  <2>2. /\ StepsHold(q, t)
        /\ \A k \in 1..t : Stepping(q.levels[k]) => StepEvent(q, k) # Len(r.evs) + 1
    BY <1>8, <2>1, EventMadeLevels, Zenon
  <2> QED
    BY <1>6, <2>2
<1>12. /\ NewEventLevel(Pl(r), Pl(q), e, pve, compstep) /\ NewGroup(r, q, e, compstep)
       /\ Top(q) = Top(p) /\ \A k \in 1..(Top(p) - 1) : q.levels[k] = p.levels[k]
       /\ Grows(r.evs, q.evs, m, v)
  BY <1>4, <1>6, <1>8 DEF EventMade
<1>13. LevelsBelowHold(q)
  <2>1. ASSUME NEW k \in 1..(Top(q) - 1) PROVE LevelHolds(q, k)
    BY <1>2, <1>4, <1>9, <1>12, LevelHoldsStill DEF LevelsHold
  <2>2. Top(q) > 1 => Pl(q).scope = "nest"
    BY <1>4, <1>12 DEF LevelsHold, LevelHolds, NewEventLevel
  <2>3. q.levels[1].event # None => q.levels[1].own_ev
    <3>1. CASE Top(q) = 1
      BY <1>12, <3>1 DEF NewEventLevel, Pl, Top
    <3>2. CASE Top(q) # 1
      BY <1>4, <1>12, <3>2 DEF LevelsHold
    <3> QED
      BY <3>1, <3>2
  <2> QED
    BY <2>1, <2>2, <2>3 DEF LevelsBelowHold
<1>14. StepsHold(q, Top(q) - 1)
  BY <1>4, <1>10, <1>11, <1>12, StepsFewer
<1>15. Pl(q).event \in Group(q) /\ Pl(q).main_ev \in {None} \union Group(q)
  BY <1>2, <1>5, <1>9, <1>12 DEF NewEventLevel, Main, SubStepReady
<1>16. ASSUME compstep
       PROVE  /\ ~Pl(q).fork /\ q.evs[Pl(q).event].next = None
              /\ Pl(q).event # q.last_event
              /\ \A k \in 1..(Top(q) - 1) :
                    Stepping(q.levels[k]) => StepEvent(q, k) # Pl(q).event
  <2>1. Pl(q).event = e /\ ~Pl(q).fork /\ q.last_event = r.last_event
    BY <1>12, <1>16 DEF NewEventLevel, NewGroup
  <2>2. q.evs[e] = v /\ v.next = None
    BY <1>6, <1>12 DEF Grows
  <2>3. r.last_event # e
    BY <1>2, <1>6 DEF Events
  <2> QED
    BY <1>10, <1>11, <1>12, <1>16, <2>1, <2>2, <2>3
<1>17. StepPrepared(q, compstep)
  BY <1>9, <1>10, <1>11, <1>12, <1>14, <1>15, <1>16 DEF StepPrepared
<1>18. Pl(q).op \in {None, Pl(p).op}
  BY <1>1, <1>12, EndEventKeeps DEF NewEventLevel
<1> QED
  BY <1>9, <1>13, <1>17, <1>18 DEF Prepared

LEMMA PrepareEventHolds ==
    ASSUME NEW p, Sound(p, 0, None, None), Events(p), LevelsHold(p),
           NEW prev, IsNode(p, prev), NEW compstep \in BOOLEAN,
           compstep => OfStep(p, prev) /\ prev # None, prev = None => Settled(p),
           NEW q, q = PrepareEvent(p, prev, compstep)
    PROVE  Prepared(q, compstep) /\ Kept(p, q) /\ Pl(q).op \in {None, Pl(p).op}
<1>1. /\ Typed(p) /\ p.nested = Place(p.levels, Top(p))
      /\ Top(p) \in Nat \ {0} /\ Pl(p) \in Level /\ Pl(p) = p.levels[Top(p)]
      /\ LevelRefers(p, Pl(p))
  <2>1. Typed(p) /\ Pl(p).param = "none" /\ p.nested = Place(p.levels, Top(p)) + 0
    BY DEF Sound, Nested
  <2>2. Top(p) \in Nat \ {0} /\ Pl(p) \in Level /\ Pl(p) = p.levels[Top(p)]
    BY <2>1, TopLevelOf
  <2>3. Place(p.levels, Top(p)) \in Nat
    BY <2>2, ListsFinite
  <2> QED
    BY <2>1, <2>2, <2>3 DEF Sound, LevelsRefer
<1>2. Kept(p, q)
  BY PrepareEventSound
<1>3. CASE q = p
  <2>1. CASE prev = None /\ p.nested # 0
    <3>1. Top(p) # 1
      <4>1. Place(p.levels, 1) = 0
        BY PlaceBound DEF Sound, LevelsRefer
      <4> QED
        BY <1>1, <2>1, <4>1
    <3>2. ~p.owed
      BY <3>1 DEF LevelsHold, OwedHolds
    <3>3. LevelHolds(p, Top(p)) /\ StepsHold(p, Top(p)) /\ StepsHold(p, Top(p) - 1)
      BY <1>1, StepsFewer DEF LevelsHold
    <3>4. LevelsBelowHold(p)
      BY <1>1, <3>1, <3>3 DEF LevelsHold, LevelsBelowHold, LevelHolds
    <3>5. ~compstep
      BY <2>1
    <3>6. StepPrepared(p, compstep)
      BY <1>1, <3>1, <3>2, <3>3, <3>5 DEF StepPrepared, LevelHolds
    <3> QED
      BY <1>2, <1>3, <3>4, <3>6 DEF Prepared
  <2>2. CASE prev # None \/ p.nested = 0
    <3>1. Pl(p).event # None => p.evs[Pl(p).event].main_obj # None
      <4>1. (\A n \in DOMAIN p.nodes : n # None) /\ (\A x \in DOMAIN p.evs : x # None)
        BY <1>1 DEF Typed, IsSeq, None
      <4> QED
        BY <1>1, <4>1 DEF LevelRefers, Sound, EventsRefer
    <3>2. q = BeginEvent(p, prev, compstep)
      BY <2>2, <3>1 DEF PrepareEvent
    <3> QED
      BY <1>2, <3>2, BeginEventHolds
  <2> QED
    BY <2>1, <2>2
<1>4. CASE q # p
  <2>1. q = BeginEvent(p, prev, compstep)
    BY <1>4 DEF PrepareEvent
  <2> QED
    BY <1>2, <2>1, BeginEventHolds
<1> QED
  BY <1>3, <1>4

-----------------------------------------------------------------------------
(* Changes that all of this says nothing of: to labels, settings, values,  *)
(* delays to come, the objects of events; or a step that ends.             *)

LevelAlike(l, m) ==
    /\ m.scope = l.scope /\ m.event = l.event /\ m.main_ev = l.main_ev
    /\ m.own_ev = l.own_ev /\ m.carry = l.carry /\ m.fork = l.fork
    /\ Stepping(m) => Stepping(l) /\ m.op = l.op

LevelsAlike(p, q) ==
    /\ SameGroup(p, q)
    /\ Top(q) = Top(p) /\ \A k \in 1..Top(p) : LevelAlike(p.levels[k], q.levels[k])
    /\ DOMAIN q.nodes = DOMAIN p.nodes
    /\ \A n \in DOMAIN p.nodes : q.nodes[n].event = p.nodes[n].event

NodeAlike(a, b) == a.kind = b.kind /\ a.obj = b.obj /\ a.mods = b.mods /\ a.next = b.next

SlotsAlike(s, t) ==
    \A i \in 1..MaxLevels : t[i].last_item = s[i].last_item /\ t[i].last_mods = s[i].last_mods

Alike(p, q) ==
    /\ LevelsAlike(p, q)
    /\ \A n \in DOMAIN p.nodes : NodeAlike(q.nodes[n], p.nodes[n])
    /\ q.objs = p.objs /\ SlotsAlike(p.slots, q.slots)

OpsRefer(p) ==
    /\ Top(p) \in Nat \ {0}
    /\ \A k \in 1..Top(p) : p.levels[k] \in Level /\ IsOp(p, p.levels[k].op)

LEMMA OpsOf ==
    ASSUME NEW p, NEW more, NEW e, NEW new, Sound(p, more, e, new)
    PROVE  OpsRefer(p) /\ Typed(p) /\ Shape(p) /\ Pl(p) = p.levels[Top(p)] /\ Pl(p) \in Level
<1>1. Typed(p) /\ Shape(p)
  BY DEF Sound
<1> QED
  BY <1>1, TopLevelOf DEF Sound, LevelsRefer, LevelRefers, OpsRefer

LEMMA AlikeSteps ==
    ASSUME NEW p, NEW q, OpsRefer(p), Events(p), LevelsAlike(p, q)
    PROVE  /\ Events(q) /\ Group(q) = Group(p)
           /\ \A t \in 0..Top(p) : StepsHold(p, t) => StepsHold(q, t)
           /\ \A k \in 1..Top(p) : LevelHolds(p, k) => LevelHolds(q, k)
           /\ \A k \in 1..Top(p) : Stepping(q.levels[k]) =>
                 Stepping(p.levels[k]) /\ StepEvent(q, k) = StepEvent(p, k)
<1>1. Events(q) /\ Group(q) = Group(p) /\ q.last_event = p.last_event
  BY GroupSame DEF LevelsAlike, SameGroup
<1>2. \A x \in Group(p) : q.evs[x].next = p.evs[x].next
  BY GroupIs DEF LevelsAlike, SameGroup, SameLinks
<1>3. ASSUME NEW k \in 1..Top(p), Stepping(q.levels[k])
      PROVE  /\ Stepping(p.levels[k]) /\ StepEvent(q, k) = StepEvent(p, k)
             /\ q.levels[k].fork = p.levels[k].fork
  <2>1. /\ Stepping(p.levels[k]) /\ q.levels[k].op = p.levels[k].op
        /\ q.levels[k].fork = p.levels[k].fork
    BY <1>3 DEF LevelsAlike, LevelAlike
  <2>2. p.levels[k].op \in DOMAIN p.nodes
    BY <2>1 DEF OpsRefer, Stepping, IsOp
  <2>3. q.nodes[p.levels[k].op].event = p.nodes[p.levels[k].op].event
    BY <2>2 DEF LevelsAlike
  <2> QED
    BY <2>1, <2>3 DEF StepEvent
<1>4. ASSUME NEW t \in 0..Top(p), StepsHold(p, t) PROVE StepsHold(q, t)
  <2>1. t \in Nat /\ \A k \in 1..t : k \in 1..Top(p)
    BY DEF OpsRefer
  <2>2. StepsAlike(p, q, t)
    BY <1>3, <2>1 DEF StepsAlike
  <2> QED
    BY <1>1, <1>2, <1>4, <2>1, <2>2, StepsStay
<1>5. ASSUME NEW k \in 1..Top(p), LevelHolds(p, k) PROVE LevelHolds(q, k)
  <2>1. LevelAlike(p.levels[k], q.levels[k])
    BY DEF LevelsAlike
  <2> QED
    BY <1>1, <1>5, <2>1 DEF LevelHolds, LevelAlike
<1> QED
  BY <1>1, <1>3, <1>4, <1>5

LEMMA AlikeLevels ==
    ASSUME NEW p, NEW q, OpsRefer(p), Events(p), LevelsAlike(p, q), LevelsHold(p)
    PROVE  LevelsHold(q)
<1>1. /\ Top(p) \in Nat \ {0} /\ Top(q) = Top(p) /\ LevelAlike(p.levels[1], q.levels[1])
      /\ q.owed = p.owed
  BY DEF OpsRefer, LevelsAlike, SameGroup
<1>2. \A k \in 1..Top(q) : LevelHolds(q, k)
  BY <1>1, AlikeSteps DEF LevelsHold
<1>3. StepsHold(q, Top(q))
  BY <1>1, AlikeSteps DEF LevelsHold
<1>4. q.levels[1].event # None => q.levels[1].own_ev
  BY <1>1 DEF LevelsHold, LevelAlike
<1>5. OwedHolds(q)
  BY <1>1 DEF LevelsHold, LevelAlike, OwedHolds
<1> QED
  BY <1>2, <1>3, <1>4, <1>5 DEF LevelsHold

LEMMA AlikePrepared ==
    ASSUME NEW p, NEW q, OpsRefer(p), LevelsAlike(p, q), NEW compstep \in BOOLEAN,
           Prepared(p, compstep), Pl(p) = p.levels[Top(p)], Pl(q) = q.levels[Top(q)]
    PROVE  Prepared(q, compstep)
<1>1. Events(p) /\ LevelsBelowHold(p) /\ StepPrepared(p, compstep)
  BY DEF Prepared
<1>2. /\ Top(p) \in Nat \ {0} /\ Top(q) = Top(p) /\ LevelAlike(p.levels[1], q.levels[1])
      /\ LevelAlike(Pl(p), Pl(q)) /\ q.owed = p.owed /\ q.last_event = p.last_event
  BY DEF OpsRefer, LevelsAlike, SameGroup
<1>3. Events(q) /\ Group(q) = Group(p) /\ Group(p) \subseteq 1..Len(p.evs)
  BY <1>1, AlikeSteps, GroupIs
<1>4. LevelsBelowHold(q)
  <2>1. \A k \in 1..(Top(q) - 1) : LevelHolds(q, k)
    <3>1. \A k \in 1..(Top(q) - 1) : k \in 1..Top(p)
      BY <1>2
    <3> QED
      BY <1>1, <1>2, <3>1, AlikeSteps DEF LevelsBelowHold
  <2> QED
    BY <1>1, <1>2, <2>1 DEF LevelsBelowHold, LevelAlike
<1>5. /\ StepsHold(q, Top(q) - 1)
      /\ ~compstep => StepsHold(q, Top(q))
  <2>1. Top(p) - 1 \in 0..Top(p) /\ Top(p) \in 0..Top(p)
    BY <1>2
  <2> QED
    BY <1>1, <1>2, <2>1, AlikeSteps DEF StepPrepared
<1>6. ASSUME compstep
      PROVE  /\ ~Pl(q).fork /\ q.evs[Pl(q).event].next = None
             /\ Pl(q).event # q.last_event
             /\ \A k \in 1..(Top(q) - 1) :
                   Stepping(q.levels[k]) => StepEvent(q, k) # Pl(q).event
  <2>1. Pl(q).event = Pl(p).event /\ Pl(q).fork = Pl(p).fork
    BY <1>2 DEF LevelAlike
  <2>2. q.evs[Pl(p).event].next = p.evs[Pl(p).event].next
    <3>1. Pl(p).event \in 1..Len(p.evs)
      BY <1>1, <1>3 DEF StepPrepared
    <3> QED
      BY <3>1 DEF LevelsAlike, SameGroup, SameLinks
  <2>3. \A k \in 1..(Top(p) - 1) : k \in 1..Top(p)
    BY <1>2
  <2>4. ASSUME NEW k \in 1..(Top(p) - 1), Stepping(q.levels[k])
        PROVE  StepEvent(q, k) # Pl(p).event
    BY <1>1, <1>6, <2>3, <2>4, AlikeSteps DEF StepPrepared
  <2> QED
    BY <1>1, <1>2, <1>6, <2>1, <2>2, <2>4 DEF StepPrepared
<1>7. ~q.owed /\ Pl(q).event \in Group(q) /\ Pl(q).main_ev \in {None} \union Group(q)
  BY <1>1, <1>2, <1>3 DEF StepPrepared, LevelAlike
<1>8. StepPrepared(q, compstep)
  BY <1>5, <1>6, <1>7 DEF StepPrepared
<1> QED
  BY <1>3, <1>4, <1>8 DEF Prepared

ListsAlike(p, q) ==
    /\ Top(q) = Top(p)
    /\ \A k \in 1..Top(p) :
          /\ q.levels[k].scope = p.levels[k].scope
          /\ Stepping(q.levels[k]) => /\ Stepping(p.levels[k])
                                      /\ q.levels[k].op = p.levels[k].op
    /\ DOMAIN q.nodes = DOMAIN p.nodes
    /\ \A n \in DOMAIN p.nodes :
          /\ q.nodes[n].kind = p.nodes[n].kind /\ q.nodes[n].obj = p.nodes[n].obj
          /\ q.nodes[n].mods = p.nodes[n].mods /\ q.nodes[n].next = p.nodes[n].next
    /\ q.objs = p.objs /\ SlotsAlike(p.slots, q.slots)

(* Lists refer to others, and places to ends of them. *)
NodesEnd(p) ==
    /\ None \notin DOMAIN p.nodes
    /\ \A n \in DOMAIN p.nodes : IsNode(p, p.nodes[n].next) /\ IsNode(p, p.nodes[n].mods)
    /\ \A s \in 1..MaxLevels : IsNode(p, p.slots[s].last_item) /\ IsNode(p, p.slots[s].last_mods)

LEMMA NodesEndOf ==
    ASSUME NEW p, NEW more, NEW e, NEW new, Sound(p, more, e, new)
    PROVE  NodesEnd(p)
<1>1. None \notin DOMAIN p.nodes
  BY DEF Sound, Typed, None
<1> QED
  BY <1>1 DEF Sound, NodesRefer, Ends, IsEnd, IsNode, NodesEnd

LEMMA AlikeToLists ==
    ASSUME NEW p, NEW q, Alike(p, q)
    PROVE  ListsAlike(p, q)
  BY DEF Alike, LevelsAlike, LevelAlike, NodeAlike, ListsAlike

LEMMA KeptToLists ==
    ASSUME NEW p, NEW q, OpsRefer(p), Kept(p, q), Pl(q).op \in {None, Pl(p).op},
           Pl(p) = p.levels[Top(p)], Pl(q) = q.levels[Top(q)]
    PROVE  ListsAlike(p, q)
<1>1. ASSUME NEW k \in 1..Top(p)
      PROVE  /\ q.levels[k].scope = p.levels[k].scope
             /\ Stepping(q.levels[k]) => /\ Stepping(p.levels[k])
                                         /\ q.levels[k].op = p.levels[k].op
  <2>1. CASE k = Top(p)
    BY <2>1 DEF Kept, Stepping
  <2>2. CASE k # Top(p)
    <3>1. q.levels[k] = p.levels[k]
      BY <2>2 DEF Kept, OpsRefer
    <3> QED
      BY <3>1
  <2> QED
    BY <2>1, <2>2
<1> QED
  BY <1>1 DEF Kept, SameNode, ListsAlike, SlotsAlike

LEMMA AlikeLists ==
    ASSUME NEW p, NEW q, OpsRefer(p), NodesEnd(p), ModsEnd(p), ListsAlike(p, q)
    PROVE  /\ ListsHold(p) => ListsHold(q)
           /\ LastsHold(p) => LastsHold(q)
<1>1. ASSUME NEW m \in {None} \union DOMAIN p.nodes, m # None, NEW obj, ListFor(p, m, obj)
      PROVE  ListFor(q, m, obj)
  BY <1>1 DEF ListFor, Parent, ListsAlike
<1>2. ASSUME ListsHold(p) PROVE ListsHold(q)
  <2>1. ASSUME NEW n \in DOMAIN q.nodes
        PROVE  /\ q.nodes[n].mods # None => ListFor(q, q.nodes[n].mods, q.nodes[n].obj)
               /\ q.nodes[n].kind = "list" /\ Parent(q, n) # None /\ q.nodes[n].next # None
                     => ListFor(q, q.nodes[n].next, Parent(q, n))
    <3>1. /\ n \in DOMAIN p.nodes
          /\ q.nodes[n].kind = p.nodes[n].kind /\ q.nodes[n].obj = p.nodes[n].obj
          /\ q.nodes[n].mods = p.nodes[n].mods /\ q.nodes[n].next = p.nodes[n].next
          /\ Parent(q, n) = Parent(p, n)
      BY DEF ListsAlike, Parent
    <3>2. /\ p.nodes[n].mods \in {None} \union DOMAIN p.nodes
          /\ p.nodes[n].next \in {None} \union DOMAIN p.nodes
      BY <3>1 DEF NodesEnd, IsNode
    <3> QED
      BY <1>1, <1>2, <3>1, <3>2 DEF ListsHold
  <2>2. ASSUME NEW s \in 1..MaxLevels, q.slots[s].last_item # None
        PROVE  \/ q.nodes[q.slots[s].last_item].kind = "op"
               \/ Parent(q, q.slots[s].last_item) = None
    <3>1. PICK i : i = p.slots[s].last_item
      OBVIOUS
    <3>2. q.slots[s].last_item = i /\ i \in DOMAIN p.nodes
      BY <2>2, <3>1 DEF ListsAlike, SlotsAlike, NodesEnd, IsNode
    <3>3. q.nodes[i].kind = p.nodes[i].kind /\ Parent(q, i) = Parent(p, i)
      BY <3>2 DEF ListsAlike, Parent
    <3> QED
      BY <1>2, <2>2, <3>1, <3>2, <3>3 DEF ListsHold
  <2> QED
    BY <2>1, <2>2 DEF ListsHold
<1>3. ASSUME LastsHold(p) PROVE LastsHold(q)
  <2>1. ASSUME NEW k \in 1..Top(q), Stepping(q.levels[k]),
               q.nodes[q.levels[k].op].mods # None
        PROVE  ListFor(q, q.slots[Place(q.levels, k) + 1].last_mods,
                       q.nodes[q.levels[k].op].obj)
    <3>1. PICK n : n = p.levels[k].op
      OBVIOUS
    <3>2. /\ k \in 1..Top(p) /\ q.levels[k].op = n /\ Stepping(p.levels[k])
          /\ n \in DOMAIN p.nodes
      BY <2>1, <3>1 DEF ListsAlike, OpsRefer, Stepping, IsOp
    <3>3. q.nodes[n].mods = p.nodes[n].mods /\ q.nodes[n].obj = p.nodes[n].obj
      BY <3>2 DEF ListsAlike
    <3>4. PICK s : s = Place(p.levels, k) + 1
      OBVIOUS
    <3>5. Place(q.levels, k) = Place(p.levels, k)
      <4>1. k \in Nat /\ \A i \in 1..k : q.levels[i].scope = p.levels[i].scope
        BY <3>2 DEF ListsAlike, OpsRefer
      <4> QED
        BY <4>1, PlaceSame
    <3>6. ListFor(p, p.slots[s].last_mods, p.nodes[n].obj)
      BY <1>3, <2>1, <3>1, <3>2, <3>3, <3>4 DEF LastsHold
    <3>7. PICK m : m = p.slots[s].last_mods
      OBVIOUS
    <3>8. s \in 1..MaxLevels /\ m # None
      BY <2>1, <3>1, <3>2, <3>3, <3>4, <3>7 DEF ModsEnd, ListsAlike
    <3>9. m \in {None} \union DOMAIN p.nodes /\ q.slots[s].last_mods = m
      BY <3>7, <3>8 DEF NodesEnd, IsNode, ListsAlike, SlotsAlike
    <3>10. ListFor(q, m, p.nodes[n].obj)
      BY <1>1, <3>6, <3>7, <3>8, <3>9
    <3> QED
      BY <3>2, <3>3, <3>4, <3>5, <3>9, <3>10
  <2> QED
    BY <2>1 DEF LastsHold
<1> QED
  BY <1>2, <1>3

-----------------------------------------------------------------------------
(* link_ev_obj(), when it is not a list of an operator that is linked. *)

NextGiven(s, t, i, n) ==
    /\ t \in Seq(Node) /\ DOMAIN t = DOMAIN s
    /\ \A x \in DOMAIN s :
          /\ t[x].kind = s[x].kind /\ t[x].obj = s[x].obj /\ t[x].event = s[x].event
          /\ t[x].mods = s[x].mods
          /\ t[x].next = IF x = i THEN n ELSE s[x].next

LEMMA NextIsGiven ==
    ASSUME NEW s \in Seq(Node), NEW i, NEW n \in Nat, NEW t, t = [s EXCEPT ![i].next = n]
    PROVE  NextGiven(s, t, i, n)
<1>1. CASE i \notin DOMAIN s
  <2>1. t = s
    BY <1>1
  <2> QED
    BY <1>1, <2>1 DEF NextGiven
<1>2. CASE i \in DOMAIN s
  <2>1. PICK w : w = s[i]
    OBVIOUS
  <2>2. PICK v : v = [w EXCEPT !.next = n]
    OBVIOUS
  <2>3. w \in Node
    BY <1>2, <2>1
  <2>4. /\ v \in Node /\ v.kind = w.kind /\ v.obj = w.obj /\ v.event = w.event
        /\ v.mods = w.mods /\ v.next = n
    BY <2>2, <2>3 DEF Node
  <2>5. t = [s EXCEPT ![i] = v]
    BY <2>1, <2>2
  <2>6. Put(Node, s, t, i, v)
    BY <2>4, <2>5, PutIs
  <2>7. /\ t \in Seq(Node) /\ DOMAIN t = DOMAIN s /\ t[i] = v
        /\ \A x \in DOMAIN s : x # i => t[x] = s[x]
    BY <1>2, <2>6 DEF Put
  <2>8. ASSUME NEW x \in DOMAIN s
        PROVE  /\ t[x].kind = s[x].kind /\ t[x].obj = s[x].obj /\ t[x].event = s[x].event
               /\ t[x].mods = s[x].mods
               /\ t[x].next = IF x = i THEN n ELSE s[x].next
    BY <2>1, <2>4, <2>7
  <2> QED
    BY <2>7, <2>8 DEF NextGiven
<1> QED
  BY <1>1, <1>2

LEMMA FirstIsGiven ==
    ASSUME NEW s \in Seq(Node), NEW i, NEW n \in Nat, NEW t, t = [s EXCEPT ![i].first = n]
    PROVE  NextGiven(s, t, None, n)
<1>1. \A x \in DOMAIN s : x # None
  BY DEF None
<1>2. CASE i \notin DOMAIN s
  <2>1. t = s
    BY <1>2
  <2> QED
    BY <1>1, <2>1 DEF NextGiven
<1>3. CASE i \in DOMAIN s
  <2>1. PICK w : w = s[i]
    OBVIOUS
  <2>2. PICK v : v = [w EXCEPT !.first = n]
    OBVIOUS
  <2>3. w \in Node
    BY <1>3, <2>1
  <2>4. /\ v \in Node /\ v.kind = w.kind /\ v.obj = w.obj /\ v.event = w.event
        /\ v.mods = w.mods /\ v.next = w.next
    BY <2>2, <2>3 DEF Node
  <2>5. t = [s EXCEPT ![i] = v]
    BY <2>1, <2>2
  <2>6. Put(Node, s, t, i, v)
    BY <2>4, <2>5, PutIs
  <2>7. /\ t \in Seq(Node) /\ DOMAIN t = DOMAIN s /\ t[i] = v
        /\ \A x \in DOMAIN s : x # i => t[x] = s[x]
    BY <1>3, <2>6 DEF Put
  <2>8. ASSUME NEW x \in DOMAIN s
        PROVE  /\ t[x].kind = s[x].kind /\ t[x].obj = s[x].obj /\ t[x].event = s[x].event
               /\ t[x].mods = s[x].mods
               /\ t[x].next = IF x = None THEN n ELSE s[x].next
    BY <1>1, <2>1, <2>4, <2>7
  <2> QED
    BY <2>7, <2>8 DEF NextGiven
<1> QED
  BY <1>2, <1>3

LastItemPut(slots, s, n, t) ==
    \A i \in 1..MaxLevels :
       /\ t[i].last_mods = slots[i].last_mods
       /\ t[i].last_item = IF i = s THEN n ELSE slots[i].last_item

LEMMA LastItemIsPut ==
    ASSUME NEW slots \in [1..MaxLevels -> Slot], NEW s, NEW n \in Nat,
           NEW t, t = [slots EXCEPT ![s].last_item = n]
    PROVE  LastItemPut(slots, s, n, t)
<1>1. ASSUME NEW i \in 1..MaxLevels
      PROVE  /\ t[i].last_mods = slots[i].last_mods
             /\ t[i].last_item = IF i = s THEN n ELSE slots[i].last_item
  <2>1. slots[i] \in Slot
    OBVIOUS
  <2>2. t[i] = IF i = s THEN [slots[i] EXCEPT !.last_item = n] ELSE slots[i]
    OBVIOUS
  <2> QED
    BY <2>1, <2>2 DEF Slot
<1> QED
  BY <1>1 DEF LastItemPut

(* q is p with its node n linked to: n may come after the last of a list.  *)
Joined(p, q, n) ==
    /\ LevelsAlike(p, q)
    /\ \A x \in DOMAIN p.nodes :
          /\ q.nodes[x].kind = p.nodes[x].kind /\ q.nodes[x].obj = p.nodes[x].obj
          /\ q.nodes[x].mods = p.nodes[x].mods
          /\ \/ q.nodes[x].next = p.nodes[x].next
             \/ /\ q.nodes[x].next = n
                /\ \E t \in 1..MaxLevels : x = p.slots[t].last_item
    /\ q.objs = p.objs
    /\ \A t \in 1..MaxLevels : /\ q.slots[t].last_mods = p.slots[t].last_mods
                               /\ q.slots[t].last_item \in {n, p.slots[t].last_item}

LevelsEqual(p, q) ==
    /\ Shape(q) /\ q.levels = p.levels /\ q.objs = p.objs /\ q.labels = p.labels
    /\ q.group_event = p.group_event /\ q.last_event = p.last_event /\ q.owed = p.owed

LEMMA LinkedJoins ==
    ASSUME NEW p, Shape(p), p.nodes \in Seq(Node), p.evs \in Seq(Event),
           p.slots \in [1..MaxLevels -> Slot], NEW n \in Nat, NEW k, NEW s, NEW prev,
           ~(prev # None \/ s = 0) => s \in 1..MaxLevels,
           NEW q, q = Linked(p, k, s, n, prev)
    PROVE  Joined(p, q, n) /\ LevelsEqual(p, q)
<1>1. \A j \in 1..Top(p) : LevelAlike(p.levels[j], p.levels[j])
  BY DEF LevelAlike
<1>2. SameLinks(p.evs, p.evs)
  BY DEF SameLinks
<1>3. CASE prev # None \/ s = 0
  <2>1. PICK e : e = p.levels[k].event
    OBVIOUS
  <2>2. PICK es : es = [p.evs EXCEPT ![e].main_obj = n]
    OBVIOUS
  <2>3. q = [p EXCEPT !.evs = es]
    <3>1. q = [p EXCEPT !.evs[e].main_obj = n]
      BY <1>3, <2>1 DEF Linked
    <3> QED
      BY <2>2, <3>1 DEF Shape
  <2>4. /\ LevelsEqual(p, q) /\ q.nodes = p.nodes /\ q.slots = p.slots /\ q.evs = es
    BY <2>3 DEF Shape, LevelsEqual
  <2>5. SameLinks(p.evs, es)
    BY <2>2, MainObjPut
  <2>6. LevelsAlike(p, q)
    BY <1>1, <2>4, <2>5 DEF LevelsAlike, SameGroup, LevelsEqual, Top
  <2> QED
    BY <2>4, <2>6 DEF Joined, LevelsEqual
<1>4. CASE ~(prev # None \/ s = 0)
  <2>1. PICK list, i : list = p.slots[s].list /\ i = p.slots[s].last_item
    OBVIOUS
  <2>2. PICK ss : ss = [p.slots EXCEPT ![s].last_item = n]
    OBVIOUS
  <2>3. LastItemPut(p.slots, s, n, ss)
    BY <2>2, LastItemIsPut
  <2>4. PICK ns : ns = IF p.nodes[list].first = None
                       THEN [p.nodes EXCEPT ![list].first = n]
                       ELSE [p.nodes EXCEPT ![i].next = n]
    OBVIOUS
  <2>5. NextGiven(p.nodes, ns, IF p.nodes[list].first = None THEN None ELSE i, n)
    <3>1. CASE p.nodes[list].first = None
      <4>1. ns = [p.nodes EXCEPT ![list].first = n]
        BY <2>4, <3>1
      <4>2. NextGiven(p.nodes, ns, None, n)
        BY <4>1, FirstIsGiven
      <4> QED
        BY <3>1, <4>2
    <3>2. CASE p.nodes[list].first # None
      <4>1. ns = [p.nodes EXCEPT ![i].next = n]
        BY <2>4, <3>2
      <4>2. NextGiven(p.nodes, ns, i, n)
        BY <4>1, NextIsGiven
      <4> QED
        BY <3>2, <4>2
    <3> QED
      BY <3>1, <3>2
  <2>6. q = [p EXCEPT !.nodes = ns, !.slots = ss]
    <3>1. q = [(IF p.nodes[list].first = None THEN [p EXCEPT !.nodes[list].first = n]
                ELSE [p EXCEPT !.nodes[i].next = n]) EXCEPT !.slots[s].last_item = n]
      BY <1>4, <2>1 DEF Linked
    <3>2. PICK p2 : p2 = IF p.nodes[list].first = None THEN [p EXCEPT !.nodes[list].first = n]
                         ELSE [p EXCEPT !.nodes[i].next = n]
      OBVIOUS
    <3>3. p2 = [p EXCEPT !.nodes = ns]
      BY <2>4, <3>2 DEF Shape
    <3>4. Shape(p2) /\ p2.slots = p.slots
      BY <3>3 DEF Shape
    <3>5. q = [p2 EXCEPT !.slots[s].last_item = n]
      BY <3>1, <3>2
    <3>6. q = [p2 EXCEPT !.slots = ss]
      BY <2>2, <3>4, <3>5 DEF Shape
    <3> QED
      BY <3>3, <3>6 DEF Shape
  <2>7. LevelsEqual(p, q) /\ q.nodes = ns /\ q.slots = ss /\ q.evs = p.evs
    BY <2>6 DEF Shape, LevelsEqual
  <2>8. LevelsAlike(p, q)
    BY <1>1, <1>2, <2>5, <2>7 DEF LevelsAlike, SameGroup, LevelsEqual, Top, NextGiven
  <2>9. ASSUME NEW x \in DOMAIN p.nodes
        PROVE  /\ q.nodes[x].kind = p.nodes[x].kind /\ q.nodes[x].obj = p.nodes[x].obj
               /\ q.nodes[x].mods = p.nodes[x].mods
               /\ \/ q.nodes[x].next = p.nodes[x].next
                  \/ /\ q.nodes[x].next = n
                     /\ \E t \in 1..MaxLevels : x = p.slots[t].last_item
    <3>1. x # None
      BY DEF None
    <3>2. /\ ns[x].kind = p.nodes[x].kind /\ ns[x].obj = p.nodes[x].obj
          /\ ns[x].mods = p.nodes[x].mods
          /\ ns[x].next = p.nodes[x].next \/ (x = i /\ ns[x].next = n)
      BY <2>5, <3>1 DEF NextGiven
    <3>3. q.nodes[x] = ns[x] /\ s \in 1..MaxLevels
      BY <1>4, <2>7
    <3>4. x = i => \E t \in 1..MaxLevels : x = p.slots[t].last_item
      BY <2>1, <3>3
    <3> QED
      BY <3>2, <3>3, <3>4
  <2>10. \A t \in 1..MaxLevels : /\ q.slots[t].last_mods = p.slots[t].last_mods
                                 /\ q.slots[t].last_item \in {n, p.slots[t].last_item}
    BY <2>3, <2>7 DEF LastItemPut
  <2> QED
    BY <2>7, <2>8, <2>9, <2>10 DEF Joined, LevelsEqual
<1> QED
  BY <1>3, <1>4

LEMMA LabelledJoins ==
    ASSUME NEW p, p.levels \in Seq(Level), NEW q, NEW n \in Nat, Joined(p, q, n),
           LevelsEqual(p, q), p.labels \in [Names -> Nat], NEW k \in 1..Top(p),
           NEW r, r = Labelled(q, k, n)
    PROVE  Joined(p, r, n)
<1>1. q.levels = p.levels /\ Shape(q) /\ q.levels \in Seq(Level) /\ Top(q) = Top(p)
  BY DEF LevelsEqual, Top
<1>2. PICK l, name : l = p.levels[k] /\ name = l.set_label
  OBVIOUS
<1>3. CASE name = NoName
  <2>1. r = q
    BY <1>1, <1>2, <1>3 DEF Labelled
  <2> QED
    BY <2>1
<1>4. CASE name # NoName
  <2>1. l \in Level /\ Top(p) \in Nat /\ Top(p) = Len(p.levels)
    BY <1>2 DEF Top
  <2>2. PICK m : m = [l EXCEPT !.set_label = NoName]
    OBVIOUS
  <2>3. m \in Level /\ LevelAlike(l, m)
    BY <2>1, <2>2 DEF Level, LevelAlike, Stepping
  <2>4. PICK ls : ls = [p.levels EXCEPT ![k] = m]
    OBVIOUS
  <2>5. PICK lb : lb = [p.labels EXCEPT ![name] = n]
    OBVIOUS
  <2>6. r = [q EXCEPT !.labels = lb, !.levels = ls]
    <3>1. r = [q EXCEPT !.labels[name] = n, !.levels[k].set_label = NoName]
      BY <1>1, <1>2, <1>4 DEF Labelled
    <3> QED
      BY <1>1, <1>2, <2>2, <2>4, <2>5, <3>1 DEF Shape, LevelsEqual
  <2>7. /\ r.levels = ls /\ r.nodes = q.nodes /\ r.slots = q.slots /\ r.objs = q.objs
        /\ r.evs = q.evs /\ r.group_event = q.group_event /\ r.last_event = q.last_event
        /\ r.owed = q.owed
    BY <1>1, <2>6 DEF Shape
  <2>8. Put(Level, p.levels, ls, k, m)
    BY <2>3, <2>4, PutIs
  <2>9. Len(ls) = Top(p) /\ \A j \in 1..Top(p) : LevelAlike(p.levels[j], ls[j])
    <3>1. ASSUME NEW j \in 1..Top(p) PROVE LevelAlike(p.levels[j], ls[j])
      <4>1. j \in DOMAIN p.levels /\ k \in DOMAIN p.levels
        BY <2>1
      <4>2. CASE j = k
        <5>1. ls[j] = m /\ p.levels[j] = l
          BY <1>2, <2>8, <4>1, <4>2 DEF Put
        <5> QED
          BY <2>3, <5>1
      <4>3. CASE j # k
        <5>1. ls[j] = p.levels[j]
          BY <2>8, <4>1, <4>3 DEF Put
        <5> QED
          BY <5>1 DEF LevelAlike
      <4> QED
        BY <4>2, <4>3
    <3> QED
      BY <2>1, <2>8, <3>1 DEF Put
  <2>10. LevelsAlike(p, r)
    BY <2>7, <2>9 DEF Joined, LevelsAlike, SameGroup, Top
  <2> QED
    BY <2>7, <2>10 DEF Joined
<1> QED
  BY <1>3, <1>4

(* p has its node n, with nothing after it, still to be linked to. *)
LEMMA LinkObjJoins ==
    ASSUME NEW p, Shape(p), Typed(p), Events(p), NEW n \in Nat, NEW k \in 1..Top(p),
           NEW s, NEW prev, ~(prev # None \/ s = 0) => s \in 1..MaxLevels,
           NEW p0, p = [p0 EXCEPT !.nodes[n].next = None],
           NEW r, r = LinkObj(p0, k, s, n, prev)
    PROVE  Joined(p, r, n)
<1>1. PICK q : q = Linked(p, k, s, n, prev)
  OBVIOUS
<1>2. Joined(p, q, n) /\ LevelsEqual(p, q)
  BY <1>1, LinkedJoins DEF Typed, Events
<1>3. r = Labelled(q, k, n)
  BY <1>1 DEF LinkObj
<1> QED
  BY <1>2, <1>3, LabelledJoins DEF Typed

LEMMA JoinedLists ==
    ASSUME NEW p, NEW q, OpsRefer(p), NodesEnd(p), ModsEnd(p), NEW n \in DOMAIN p.nodes,
           p.nodes[n].kind = "op" \/ Parent(p, n) = None, Joined(p, q, n)
    PROVE  /\ ListsHold(p) => ListsHold(q)
           /\ LastsHold(p) => LastsHold(q)
<1>1. ASSUME NEW m \in DOMAIN p.nodes
      PROVE  /\ q.nodes[m].kind = p.nodes[m].kind /\ Parent(q, m) = Parent(p, m)
             /\ \A obj : ListFor(p, m, obj) => ListFor(q, m, obj)
  BY DEF ListFor, Parent, Joined
<1>2. DOMAIN q.nodes = DOMAIN p.nodes
  BY DEF Joined, LevelsAlike
<1>3. ASSUME ListsHold(p) PROVE ListsHold(q)
  <2>1. ASSUME NEW x \in DOMAIN q.nodes
        PROVE  /\ q.nodes[x].mods # None => ListFor(q, q.nodes[x].mods, q.nodes[x].obj)
               /\ q.nodes[x].kind = "list" /\ Parent(q, x) # None /\ q.nodes[x].next # None
                     => ListFor(q, q.nodes[x].next, Parent(q, x))
    <3>1. /\ x \in DOMAIN p.nodes
          /\ q.nodes[x].kind = p.nodes[x].kind /\ q.nodes[x].obj = p.nodes[x].obj
          /\ q.nodes[x].mods = p.nodes[x].mods /\ Parent(q, x) = Parent(p, x)
          /\ \/ q.nodes[x].next = p.nodes[x].next
             \/ \E t \in 1..MaxLevels : x = p.slots[t].last_item
      BY <1>1, <1>2 DEF Joined
    <3>2. /\ p.nodes[x].mods \in {None} \union DOMAIN p.nodes
          /\ p.nodes[x].next \in {None} \union DOMAIN p.nodes
      BY <3>1 DEF NodesEnd, IsNode
    <3>3. q.nodes[x].mods # None => ListFor(q, q.nodes[x].mods, q.nodes[x].obj)
      BY <1>1, <1>3, <3>1, <3>2 DEF ListsHold
    <3>4. ASSUME q.nodes[x].kind = "list", Parent(q, x) # None, q.nodes[x].next # None
          PROVE  ListFor(q, q.nodes[x].next, Parent(q, x))
      <4>1. \A t \in 1..MaxLevels : x # p.slots[t].last_item
        <5>1. x # None
          BY <3>1 DEF NodesEnd
        <5> QED
          BY <1>3, <3>1, <3>4, <5>1 DEF ListsHold
      <4>2. q.nodes[x].next = p.nodes[x].next
        BY <3>1, <4>1
      <4> QED
        BY <1>1, <1>3, <3>1, <3>2, <3>4, <4>2 DEF ListsHold
    <3> QED
      BY <3>3, <3>4
  <2>2. ASSUME NEW s \in 1..MaxLevels, q.slots[s].last_item # None
        PROVE  \/ q.nodes[q.slots[s].last_item].kind = "op"
               \/ Parent(q, q.slots[s].last_item) = None
    <3>1. PICK i : i = q.slots[s].last_item
      OBVIOUS
    <3>2. i = n \/ i = p.slots[s].last_item
      BY <3>1 DEF Joined
    <3>3. i \in DOMAIN p.nodes /\ (p.nodes[i].kind = "op" \/ Parent(p, i) = None)
      BY <1>3, <2>2, <3>1, <3>2 DEF ListsHold, NodesEnd, IsNode
    <3> QED
      BY <1>1, <3>1, <3>3
  <2> QED
    BY <2>1, <2>2 DEF ListsHold
<1>4. ASSUME LastsHold(p) PROVE LastsHold(q)
  <2>1. ASSUME NEW k \in 1..Top(q), Stepping(q.levels[k]),
               q.nodes[q.levels[k].op].mods # None
        PROVE  ListFor(q, q.slots[Place(q.levels, k) + 1].last_mods,
                       q.nodes[q.levels[k].op].obj)
    <3>1. PICK x : x = p.levels[k].op
      OBVIOUS
    <3>2. /\ k \in 1..Top(p) /\ q.levels[k].op = x /\ Stepping(p.levels[k])
          /\ x \in DOMAIN p.nodes
      BY <2>1, <3>1 DEF Joined, LevelsAlike, LevelAlike, OpsRefer, Stepping, IsOp
    <3>3. q.nodes[x].mods = p.nodes[x].mods /\ q.nodes[x].obj = p.nodes[x].obj
      BY <3>2 DEF Joined
    <3>4. PICK s : s = Place(p.levels, k) + 1
      OBVIOUS
    <3>5. Place(q.levels, k) = Place(p.levels, k)
      <4>1. k \in Nat /\ \A i \in 1..k : q.levels[i].scope = p.levels[i].scope
        BY <3>2 DEF Joined, LevelsAlike, LevelAlike, OpsRefer
      <4> QED
        BY <4>1, PlaceSame
    <3>6. ListFor(p, p.slots[s].last_mods, p.nodes[x].obj)
      BY <1>4, <2>1, <3>1, <3>2, <3>3, <3>4 DEF LastsHold
    <3>7. PICK m : m = p.slots[s].last_mods
      OBVIOUS
    <3>8. s \in 1..MaxLevels /\ m # None
      BY <2>1, <3>1, <3>2, <3>3, <3>4, <3>7 DEF ModsEnd
    <3>9. m \in DOMAIN p.nodes /\ q.slots[s].last_mods = m
      BY <3>7, <3>8 DEF NodesEnd, IsNode, Joined
    <3>10. ListFor(q, m, p.nodes[x].obj)
      BY <1>1, <3>6, <3>7, <3>9
    <3> QED
      BY <3>2, <3>3, <3>4, <3>5, <3>9, <3>10
  <2> QED
    BY <2>1 DEF LastsHold
<1> QED
  BY <1>3, <1>4

-----------------------------------------------------------------------------
(* end_operator() and begin_operator() *)

LEMMA EndOperatorAlike ==
    ASSUME NEW p, NEW more, NEW e, NEW new, Sound(p, more, e, new), p.evs \in Seq(Event),
           NEW q, q = EndOperator(p)
    PROVE  Alike(p, q) /\ Shape(q) /\ Pl(q) = q.levels[Top(q)]
<1>1. Typed(p) /\ Shape(p)
  BY DEF Sound
<1>2. /\ Top(p) \in Nat \ {0} /\ Pl(p) \in Level /\ Pl(p) = p.levels[Top(p)]
  BY <1>1, TopLevelOf
<1>3. Shape(q) /\ Ended(p, q)
  BY EndOperatorEnds
<1>4. q.group_event = p.group_event /\ q.last_event = p.last_event /\ q.owed = p.owed
  BY <1>1, EndOperatorKeeps
<1>5. Top(q) = Top(p) /\ Pl(q) = q.levels[Top(p)]
  BY <1>3 DEF Ended, Pl, Top
<1>6. LevelAlike(Pl(p), Pl(q))
  <2>1. CASE Pl(p).own_op
    <3>1. Pl(q) = [Pl(p) EXCEPT !.own_op = FALSE, !.op = None]
      BY <1>3, <2>1 DEF Ended
    <3> QED
      BY <1>2, <3>1 DEF Level, LevelAlike, Stepping
  <2>2. CASE ~Pl(p).own_op
    BY <1>3, <2>2 DEF Ended, LevelAlike
  <2> QED
    BY <2>1, <2>2
<1>7. ASSUME NEW k \in 1..Top(p) PROVE LevelAlike(p.levels[k], q.levels[k])
  <2>1. CASE k = Top(p)
    BY <1>2, <1>5, <1>6, <2>1
  <2>2. CASE k # Top(p)
    <3>1. q.levels[k] = p.levels[k]
      BY <1>2, <1>3, <2>2 DEF Ended
    <3> QED
      BY <3>1 DEF LevelAlike
  <2> QED
    BY <2>1, <2>2
<1>8. SameLinks(p.evs, q.evs)
  BY <1>3 DEF Ended, SameLinks
<1>9. LevelsAlike(p, q)
  BY <1>3, <1>4, <1>5, <1>7, <1>8 DEF LevelsAlike, SameGroup, Ended, SameNode
<1> QED
  BY <1>3, <1>5, <1>9 DEF Alike, Ended, SameNode, NodeAlike, SlotsAlike

(* p is q with a node v for a new step, at the level m; not linked to yet. *)
StepAdded(q, p, n, m, v, compstep) ==
    /\ n = Len(q.nodes) + 1 /\ q.nodes \in Seq(Node) /\ p.nodes = Append(q.nodes, v)
    /\ v.kind = "op" /\ v.event = Pl(q).event /\ v.mods = None /\ v.next = None
    /\ Top(p) = Top(q) /\ p.levels[Top(q)] = m
    /\ \A k \in 1..(Top(q) - 1) : p.levels[k] = q.levels[k]
    /\ m.scope = Pl(q).scope /\ m.event = Pl(q).event /\ m.main_ev = Pl(q).main_ev
    /\ m.own_ev = Pl(q).own_ev /\ m.fork = (Pl(q).fork \/ ~compstep)
    /\ m.op = n /\ m.sub = "op_step"
    /\ p.evs = q.evs /\ p.group_event = q.group_event /\ p.last_event = q.last_event
    /\ p.owed = q.owed
    /\ p.slots = q.slots
    /\ \A i \in DOMAIN q.objs : p.objs[i] = q.objs[i]

LEMMA StepAddedNodes ==
    ASSUME NEW q, NEW p, NEW n, NEW m, NEW v, NEW compstep,
           StepAdded(q, p, n, m, v, compstep)
    PROVE  /\ DOMAIN p.nodes = DOMAIN q.nodes \union {n} /\ n \notin DOMAIN q.nodes
           /\ p.nodes[n] = v /\ \A x \in DOMAIN q.nodes : p.nodes[x] = q.nodes[x]
           /\ n \in Nat /\ n # None
<1>1. q.nodes \in Seq(Node) /\ p.nodes = Append(q.nodes, v) /\ n = Len(q.nodes) + 1
  BY DEF StepAdded
<1>2. IsSeq(q.nodes)
  BY <1>1 DEF IsSeq
<1>3. /\ DOMAIN p.nodes = 1..(Len(q.nodes) + 1) /\ DOMAIN q.nodes = 1..Len(q.nodes)
      /\ \A i \in 1..Len(q.nodes) : p.nodes[i] = q.nodes[i]
      /\ p.nodes[Len(q.nodes) + 1] = v /\ Len(q.nodes) \in Nat
  BY <1>1, <1>2, AppendIs
<1> QED
  BY <1>1, <1>3 DEF None

LEMMA StepAddedEvents ==
    ASSUME NEW q, NEW compstep \in BOOLEAN, Prepared(q, compstep), OpsRefer(q),
           Pl(q) = q.levels[Top(q)],
           NEW p, NEW n, NEW m, NEW v, StepAdded(q, p, n, m, v, compstep)
    PROVE  Events(p) /\ LevelsHold(p)
<1>1. /\ DOMAIN p.nodes = DOMAIN q.nodes \union {n} /\ n \notin DOMAIN q.nodes
      /\ p.nodes[n] = v /\ \A x \in DOMAIN q.nodes : p.nodes[x] = q.nodes[x]
      /\ n \in Nat /\ n # None
  BY StepAddedNodes
<1>2. Events(q) /\ LevelsBelowHold(q) /\ StepPrepared(q, compstep)
  BY DEF Prepared
<1>3. Events(p) /\ Group(p) = Group(q)
  <2>1. SameGroup(q, p)
    BY <1>2 DEF StepAdded, SameGroup, SameLinks, Events
  <2> QED
    BY <1>2, <2>1, GroupSame
<1>4. /\ Top(q) \in Nat \ {0} /\ Top(p) = Top(q) /\ p.levels[Top(q)] = m
      /\ \A k \in 1..(Top(q) - 1) : p.levels[k] = q.levels[k]
      /\ p.evs = q.evs /\ p.last_event = q.last_event /\ ~p.owed
  BY <1>2 DEF OpsRefer, StepAdded, StepPrepared
<1>5. /\ m.scope = Pl(q).scope /\ m.event = Pl(q).event /\ m.main_ev = Pl(q).main_ev
      /\ m.own_ev = Pl(q).own_ev /\ m.fork = (Pl(q).fork \/ ~compstep)
      /\ m.op = n /\ m.sub = "op_step" /\ v.event = Pl(q).event
  BY DEF StepAdded
<1>6. ASSUME NEW k \in 1..Top(p) PROVE LevelHolds(p, k)
  <2>1. CASE k = Top(q)
    BY <1>2, <1>3, <1>4, <1>5, <2>1 DEF LevelHolds, LevelsBelowHold, StepPrepared
  <2>2. CASE k # Top(q)
    <3>1. k \in 1..(Top(q) - 1)
      BY <1>4, <2>2
    <3> QED
      BY <1>2, <1>3, <1>4, <3>1, LevelHoldsStill DEF LevelsBelowHold
  <2> QED
    BY <2>1, <2>2
<1>7. ASSUME NEW k \in 1..(Top(q) - 1)
      PROVE  /\ Stepping(p.levels[k]) <=> Stepping(q.levels[k])
             /\ Follows(p, k) <=> Follows(q, k)
             /\ Stepping(q.levels[k]) => StepEvent(p, k) = StepEvent(q, k)
  <2>1. k \in 1..Top(q) /\ p.levels[k] = q.levels[k]
    BY <1>4
  <2>2. Stepping(q.levels[k]) => q.levels[k].op \in DOMAIN q.nodes
    BY <2>1 DEF OpsRefer, IsOp, Stepping
  <2> QED
    BY <1>1, <2>1, <2>2 DEF Follows, StepEvent
<1>8. StepEvent(p, Top(q)) = Pl(q).event
  BY <1>1, <1>4, <1>5 DEF StepEvent
<1>9. ASSUME Follows(p, Top(q)) PROVE compstep
  BY <1>4, <1>5, <1>9 DEF Follows
<1>10. ASSUME NEW k \in 1..Top(p)
       PROVE  /\ Stepping(p.levels[k]) => StepEvent(p, k) \in Group(p)
              /\ Follows(p, k) => /\ p.evs[StepEvent(p, k)].next = None
                                  /\ StepEvent(p, k) # p.last_event
  <2>1. CASE k = Top(q)
    BY <1>2, <1>3, <1>4, <1>8, <1>9, <2>1 DEF StepPrepared
  <2>2. CASE k # Top(q)
    <3>1. k \in 1..(Top(q) - 1)
      BY <1>4, <2>2
    <3>2. StepsHold(q, Top(q) - 1)
      BY <1>2 DEF StepPrepared
    <3>3. Follows(q, k) => Stepping(q.levels[k])
      BY DEF Follows
    <3> QED
      BY <1>3, <1>4, <1>7, <3>1, <3>2, <3>3 DEF StepsHold
  <2> QED
    BY <2>1, <2>2
<1>11. ASSUME NEW j \in 1..(Top(q) - 1), Follows(p, Top(q)), Follows(p, j)
       PROVE  StepEvent(p, j) # StepEvent(p, Top(q))
  <2>1. Stepping(q.levels[j])
    BY <1>7, <1>11 DEF Follows
  <2> QED
    BY <1>2, <1>7, <1>8, <1>9, <1>11, <2>1 DEF StepPrepared
<1>12. ASSUME NEW j \in 1..Top(p), NEW k \in 1..Top(p), Follows(p, j), Follows(p, k),
              StepEvent(p, j) = StepEvent(p, k)
       PROVE  j = k
  <2>1. CASE j = Top(q) \/ k = Top(q)
    BY <1>4, <1>11, <1>12, <2>1
  <2>2. CASE j # Top(q) /\ k # Top(q)
    <3>1. j \in 1..(Top(q) - 1) /\ k \in 1..(Top(q) - 1)
      BY <1>4, <2>2
    <3>2. StepsHold(q, Top(q) - 1)
      BY <1>2 DEF StepPrepared
    <3>3. /\ Follows(q, j) /\ Follows(q, k)
          /\ Stepping(q.levels[j]) /\ Stepping(q.levels[k])
      BY <1>7, <1>12, <3>1 DEF Follows
    <3> QED
      BY <1>7, <1>12, <3>1, <3>2, <3>3 DEF StepsHold
  <2> QED
    BY <2>1, <2>2
<1>13. StepsHold(p, Top(p))
  BY <1>10, <1>12 DEF StepsHold
<1>14. p.levels[1].event # None => p.levels[1].own_ev
  <2>1. CASE Top(q) = 1
    BY <1>2, <1>4, <1>5, <2>1 DEF LevelsBelowHold
  <2>2. CASE Top(q) # 1
    BY <1>2, <1>4, <2>2 DEF LevelsBelowHold
  <2> QED
    BY <2>1, <2>2
<1>15. OwedHolds(p)
  BY <1>4 DEF OwedHolds
<1> QED
  BY <1>3, <1>6, <1>13, <1>14, <1>15 DEF LevelsHold

LEMMA StepAddedLists ==
    ASSUME NEW q, NEW e, NEW new, Sound(q, 0, e, new), ListsHold(q), LastsHold(q),
           NEW p, NEW n, NEW m, NEW v, NEW compstep \in BOOLEAN,
           StepAdded(q, p, n, m, v, compstep)
    PROVE  ListsHold(p) /\ LastsHold(p)
<1>1. /\ DOMAIN p.nodes = DOMAIN q.nodes \union {n} /\ n \notin DOMAIN q.nodes
      /\ p.nodes[n] = v /\ \A x \in DOMAIN q.nodes : p.nodes[x] = q.nodes[x]
      /\ n \in Nat /\ n # None
  BY StepAddedNodes
<1>2. OpsRefer(q) /\ NodesEnd(q) /\ ModsEnd(q) /\ Pl(q) = q.levels[Top(q)] /\ NodesRefer(q)
  BY OpsOf, NodesEndOf DEF Sound
<1>3. ASSUME NEW x \in DOMAIN q.nodes
      PROVE  /\ p.nodes[x] = q.nodes[x] /\ Parent(p, x) = Parent(q, x)
             /\ \A obj : ListFor(q, x, obj) => ListFor(p, x, obj)
  <2>1. q.nodes[x].obj \in DOMAIN q.objs
    BY <1>2 DEF NodesRefer
  <2> QED
    BY <1>1, <2>1 DEF ListFor, Parent, StepAdded
<1>4. v.kind = "op" /\ v.mods = None /\ p.slots = q.slots
  BY DEF StepAdded
<1>5. ListsHold(p)
  <2>1. ASSUME NEW x \in DOMAIN p.nodes
        PROVE  /\ p.nodes[x].mods # None => ListFor(p, p.nodes[x].mods, p.nodes[x].obj)
               /\ p.nodes[x].kind = "list" /\ Parent(p, x) # None /\ p.nodes[x].next # None
                     => ListFor(p, p.nodes[x].next, Parent(p, x))
    <3>1. CASE x = n
      BY <1>1, <1>4, <3>1
    <3>2. CASE x # n
      <4>1. x \in DOMAIN q.nodes
        BY <1>1, <3>2
      <4>2. /\ q.nodes[x].mods \in {None} \union DOMAIN q.nodes
            /\ q.nodes[x].next \in {None} \union DOMAIN q.nodes
        BY <1>2, <4>1 DEF NodesEnd, IsNode
      <4> QED
        BY <1>3, <4>1, <4>2 DEF ListsHold
    <3> QED
      BY <3>1, <3>2
  <2>2. ASSUME NEW s \in 1..MaxLevels, p.slots[s].last_item # None
        PROVE  \/ p.nodes[p.slots[s].last_item].kind = "op"
               \/ Parent(p, p.slots[s].last_item) = None
    <3>1. p.slots[s].last_item \in DOMAIN q.nodes
      BY <1>2, <1>4, <2>2 DEF NodesEnd, IsNode
    <3> QED
      BY <1>3, <1>4, <2>2, <3>1 DEF ListsHold
  <2> QED
    BY <2>1, <2>2 DEF ListsHold
<1>6. Top(q) \in Nat \ {0} /\ Top(p) = Top(q)
  BY <1>2 DEF OpsRefer, StepAdded
<1>7. ASSUME NEW k \in 1..Top(p), Stepping(p.levels[k]), p.nodes[p.levels[k].op].mods # None
      PROVE  ListFor(p, p.slots[Place(p.levels, k) + 1].last_mods,
                     p.nodes[p.levels[k].op].obj)
  <2>1. k # Top(q)
    BY <1>1, <1>4, <1>7 DEF StepAdded
  <2>2. k \in 1..(Top(q) - 1) /\ k \in 1..Top(q)
    BY <1>6, <2>1
  <2>3. p.levels[k] = q.levels[k]
    BY <2>2 DEF StepAdded
  <2>4. PICK x : x = q.levels[k].op
    OBVIOUS
  <2>5. x \in DOMAIN q.nodes /\ Stepping(q.levels[k])
    BY <1>2, <1>7, <2>2, <2>3, <2>4 DEF OpsRefer, IsOp, Stepping
  <2>6. p.nodes[x] = q.nodes[x] /\ q.nodes[x].mods # None
    BY <1>3, <1>7, <2>3, <2>4, <2>5
  <2>7. Place(p.levels, k) = Place(q.levels, k)
    <3>1. k \in Nat /\ \A i \in 1..k : p.levels[i] = q.levels[i]
      BY <1>6, <2>2 DEF StepAdded
    <3> QED
      BY <3>1, PlaceSame
  <2>8. PICK s, i : s = Place(q.levels, k) + 1 /\ i = q.slots[s].last_mods
    OBVIOUS
  <2>9. s \in 1..MaxLevels /\ i # None
    BY <1>2, <2>2, <2>4, <2>5, <2>6, <2>8 DEF ModsEnd
  <2>10. i \in DOMAIN q.nodes
    BY <1>2, <2>8, <2>9 DEF NodesEnd, IsNode
  <2>11. ListFor(q, i, q.nodes[x].obj)
    BY <2>2, <2>4, <2>5, <2>6, <2>8 DEF LastsHold
  <2>12. ListFor(p, i, q.nodes[x].obj)
    BY <1>3, <2>10, <2>11
  <2> QED
    BY <1>4, <2>3, <2>4, <2>6, <2>7, <2>8, <2>12
<1> QED
  BY <1>5, <1>7 DEF LastsHold

LEMMA NextOperatorHolds ==
    ASSUME NEW q, NEW prev, IsOp(q, prev),
           NEW e, e = IF prev # None \/ q.nested = 0 THEN Pl(q).event ELSE None,
           Sound(q, 0, e, None), ~Pl(q).own_op, Pl(q).event # None, ~Pl(q).wait,
           NEW compstep \in BOOLEAN, Prepared(q, compstep), ListsHold(q), LastsHold(q),
           NEW r, r = NextOperator(q, prev, compstep)
    PROVE  Plain(r) /\ Held(r)
<1>1. /\ Shape(q) /\ Typed(q) /\ Pl(q).param = "none"
      /\ q.nodes \in Seq(Node) /\ IsSeq(q.objs) /\ q.slots \in [1..MaxLevels -> Slot]
      /\ q.nested \in 0..MaxLevels /\ q.options \in Options
  BY DEF Sound, Nested, Typed
<1>2. /\ Top(q) \in Nat \ {0} /\ Pl(q) \in Level /\ Pl(q) = q.levels[Top(q)]
      /\ Top(q) = Len(q.levels) /\ q.levels \in Seq(Level)
  BY <1>1, TopLevelOf
<1>3. PICK l, n, id : l = Pl(q) /\ n = Len(q.nodes) + 1 /\ id = Len(q.objs) + 1
  OBVIOUS
<1>4. PICK made : made = MadeNode(q, prev)
  OBVIOUS
<1>5. PICK v : v = [made EXCEPT !.next = None]
  OBVIOUS
<1>6. StepNode(q, prev, v) /\ made \in Node
  BY <1>4, <1>5, StepNodeMade
<1>7. PICK root : root = IF prev = None /\ ~(l.use # "carr") THEN id ELSE q.root_op
  OBVIOUS
<1>8. PICK obj : obj = [root |-> root,
                        parent |-> IF l.use # "carr" /\ q.nested > 0
                                   THEN q.objs[q.nodes[Tip(q).list].obj].parent ELSE id]
  OBVIOUS
<1>9. PICK objs : objs = IF prev = None THEN Append(q.objs, obj) ELSE q.objs
  OBVIOUS
<1>10. PICK r0 : r0 = [q EXCEPT !.nodes = Append(@, made), !.objs = objs, !.root_op = root]
  OBVIOUS
<1>11. PICK m : m = [l EXCEPT !.op = n, !.own_op = TRUE, !.fork = @ \/ ~compstep,
                              !.used_ampmult = q.options.def_ampmult, !.sub = "op_step"]
  OBVIOUS
<1>12. PICK p : p = SetPl(r0, m)
  OBVIOUS
<1>13. /\ Shape(r0) /\ r0.levels = q.levels /\ r0.slots = q.slots /\ r0.nested = q.nested
       /\ r0.nodes = Append(q.nodes, made) /\ r0.objs = objs /\ r0.evs = q.evs
       /\ r0.labels = q.labels /\ r0.options = q.options /\ SameGroups(q, r0)
  BY <1>1, <1>10 DEF Shape, SameGroups
<1>14. Is(p, [q.levels EXCEPT ![Top(q)] = m], q.slots, q.nested,
          Append(q.nodes, made), objs, q.evs, q.labels, q.options)
  <2>1. Is(p, [r0.levels EXCEPT ![Top(r0)] = m], r0.slots, r0.nested, r0.nodes,
           r0.objs, r0.evs, r0.labels, r0.options)
    BY <1>12, <1>13, SetPlIs
  <2> QED
    BY <1>13, <2>1 DEF Top
<1>15. r = LinkObj(p, Top(q), q.nested, n, prev)
  <2>1. r = LinkObj(p, Top(r0), r0.nested, n, prev)
    BY <1>3, <1>4, <1>7, <1>8, <1>9, <1>10, <1>11, <1>12, ZenonT(40) DEF NextOperator, MadeNode
  <2> QED
    BY <1>13, <2>1 DEF Top
<1>16. PICK p1 : p1 = [p EXCEPT !.nodes = Append(q.nodes, v)]
  OBVIOUS
<1>17. Is(p1, [q.levels EXCEPT ![Top(q)] = m], q.slots, q.nested,
          Append(q.nodes, v), objs, q.evs, q.labels, q.options)
  BY <1>14, <1>16 DEF Is, Shape
<1>18. SameGroups(q, p1)
  <2>1. SameGroups(r0, p)
    BY <1>12, <1>13, SetPlKeeps DEF SameGroups
  <2>2. SameGroups(p, p1)
    BY <1>14, <1>16 DEF Is, Shape, SameGroups
  <2> QED
    BY <1>13, <2>1, <2>2 DEF SameGroups
<1>19. n \in Nat /\ q.options.def_ampmult \in Nat
  BY <1>1, <1>3 DEF Options
<1>20. /\ m.scope = l.scope /\ m.use = l.use /\ m.outer_options = l.outer_options
       /\ m.event = l.event /\ m.own_ev = l.own_ev /\ m.wait = l.wait
       /\ m.param = l.param /\ m.op = n /\ m.own_op /\ m.main_ev = l.main_ev
       /\ m.used_ampmult = q.options.def_ampmult /\ m.sub = "op_step"
       /\ m.fork = (l.fork \/ ~compstep)
  BY <1>2, <1>3, <1>11 DEF Level
<1>21. /\ IsSeq(objs)
       /\ Len(objs) = IF prev = None THEN Len(q.objs) + 1 ELSE Len(q.objs)
       /\ \A i \in DOMAIN q.objs : objs[i] = q.objs[i]
  <2>1. DOMAIN q.objs = 1..Len(q.objs)
    BY <1>1 DEF IsSeq
  <2> QED
    BY <1>1, <1>9, <2>1, AppendIs
<1>22. StepBegun(q, p1, n, m, v, prev)
  <2>1. m \in Level
    BY <1>2, <1>3, <1>11, <1>19 DEF Level
  <2> QED
    BY <1>3, <1>17, <1>20, <1>21, <2>1 DEF StepBegun, Is
<1>23. StepSound(q, p1, e, n, m)
  BY <1>3, <1>6, <1>22, StepBegunSound
<1>24. StepAdded(q, p1, n, m, v, compstep)
  <2>1. Put(Level, q.levels, p1.levels, Top(q), m)
    <3>1. m \in Level
      BY <1>22 DEF StepBegun
    <3> QED
      BY <1>2, <1>17, <3>1, PutIs DEF Is
  <2>2. /\ p1.levels[Top(q)] = m
        /\ \A k \in 1..(Top(q) - 1) : p1.levels[k] = q.levels[k]
    BY <1>2, <2>1 DEF Put
  <2>3. Top(p1) = Top(q)
    BY <1>23 DEF StepSound
  <2>4. v.kind = "op" /\ v.event = Pl(q).event /\ v.mods = None /\ v.next = None
    BY <1>6 DEF StepNode
  <2> QED
    BY <1>1, <1>3, <1>17, <1>18, <1>20, <1>21, <2>2, <2>3, <2>4
       DEF StepAdded, Is, SameGroups
<1>25. p1 = [p EXCEPT !.nodes[n].next = None]
  <2>1. ResetLast(q.nodes, made, v)
    BY <1>1, <1>5, <1>6, NodeReset
  <2> QED
    BY <1>3, <1>14, <1>16, <2>1 DEF Is, ResetLast, Shape
<1>26. Events(p1) /\ LevelsHold(p1)
  BY <1>2, <1>24, OpsOf, StepAddedEvents
<1>27. ListsHold(p1) /\ LastsHold(p1)
  BY <1>24, StepAddedLists
<1>28. Sound(p1, 0, e, n) /\ n \in DOMAIN p1.nodes /\ Top(p1) = Top(q) /\ Shape(p1) /\ Typed(p1)
  BY <1>23 DEF StepSound, Sound
<1>29. Joined(p1, r, n)
  <2>1. ~(prev # None \/ q.nested = 0) => q.nested \in 1..MaxLevels
    BY <1>1, ParserAssumption
  <2>2. Top(q) \in 1..Top(p1)
    BY <1>2, <1>28
  <2> QED
    BY <1>15, <1>19, <1>25, <1>26, <1>28, <2>1, <2>2, LinkObjJoins
<1>30. OpsRefer(p1) /\ NodesEnd(p1) /\ ModsEnd(p1)
  BY <1>28, OpsOf, NodesEndOf DEF Sound
<1>31. p1.nodes[n].kind = "op"
  BY <1>24, StepAddedNodes DEF StepAdded
<1>32. ListsHold(r) /\ LastsHold(r)
  BY <1>27, <1>28, <1>29, <1>30, <1>31, JoinedLists
<1>33. Events(r) /\ LevelsHold(r)
  BY <1>26, <1>29, <1>30, AlikeLevels, AlikeSteps DEF Joined
<1> QED
  BY <1>32, <1>33 DEF Plain, Held

LEMMA BeginOperatorHolds ==
    ASSUME NEW p, Sound(p, 0, None, None), Plain(p), Held(p), NEW prev, IsOp(p, prev),
           NEW compstep \in BOOLEAN, compstep => OfStep(p, prev) /\ prev # None,
           prev = None => Settled(p), NEW r, r = BeginOperator(p, prev, compstep)
    PROVE  Plain(r) /\ Held(r)
<1>1. PICK q : q = PrepareEvent(p, prev, compstep)
  OBVIOUS
<1>2. PICK e : e = IF prev # None \/ q.nested = 0 THEN Pl(q).event ELSE None
  OBVIOUS
<1>3. IsNode(p, prev) /\ (compstep => prev # None)
  BY DEF IsNode, IsOp
<1>4. Kept(p, q) /\ Pl(q).event # None /\ ~Pl(q).wait /\ Sound(q, 0, e, None)
  <2>1. /\ Kept(p, q) /\ Pl(q).event # None /\ ~Pl(q).wait
        /\ IF prev # None \/ p.nested = 0 THEN Sound(q, 0, Pl(q).event, None)
           ELSE Sound(q, 0, None, None)
    BY <1>1, <1>3, PrepareEventSound
  <2>2. q.nested = p.nested
    BY <2>1 DEF Kept
  <2> QED
    BY <1>2, <2>1, <2>2
<1>5. Prepared(q, compstep) /\ Pl(q).op \in {None, Pl(p).op}
  BY <1>1, <1>3, PrepareEventHolds DEF Plain, Held
<1>6. ListsHold(q) /\ LastsHold(q)
  <2>1. OpsRefer(p) /\ NodesEnd(p) /\ ModsEnd(p) /\ Pl(p) = p.levels[Top(p)]
    BY OpsOf, NodesEndOf DEF Sound
  <2>2. Pl(q) = q.levels[Top(q)]
    BY <1>4, OpsOf
  <2> QED
    BY <1>4, <1>5, <2>1, <2>2, KeptToLists, AlikeLists DEF Plain, Held
<1>7. PICK q2 : q2 = EndOperator(q)
  OBVIOUS
<1>8. Sound(q2, 0, e, None)
  <2>1. Pl(q).param = "none"
    BY <1>4 DEF Sound, Nested
  <2> QED
    BY <1>4, <1>7, <2>1, EndOperatorSound
<1>9. Ended(q, q2)
  BY <1>4, <1>7, EndOperatorEnds
<1>10. Typed(q) /\ OpsRefer(q) /\ NodesEnd(q) /\ ModsEnd(q) /\ Pl(q) = q.levels[Top(q)]
  BY <1>4, OpsOf, NodesEndOf DEF Sound
<1>11. Alike(q, q2) /\ Pl(q2) = q2.levels[Top(q2)]
  <2>1. q.evs \in Seq(Event)
    BY <1>5 DEF Prepared, Events
  <2> QED
    BY <1>4, <1>7, <2>1, EndOperatorAlike
<1>12. Prepared(q2, compstep)
  BY <1>5, <1>10, <1>11, AlikePrepared DEF Alike
<1>13. ListsHold(q2) /\ LastsHold(q2)
  BY <1>6, <1>10, <1>11, AlikeToLists, AlikeLists
<1>14. /\ ~Pl(q2).own_op /\ Pl(q2).event = Pl(q).event /\ Pl(q2).wait = Pl(q).wait
  <2>1. /\ Top(q) \in Nat \ {0} /\ Top(q2) = Top(q)
    BY <1>9, <1>10 DEF Ended, OpsRefer
  <2>2. LET m == q2.levels[Top(q)]
            l == q.levels[Top(q)]
        IN  /\ m.scope = l.scope /\ m.use = l.use /\ m.event = l.event /\ m.wait = l.wait
            /\ IF Top(q) = Top(q) /\ l.own_op THEN ~m.own_op /\ m.op = None
               ELSE m.own_op = l.own_op /\ m.op = l.op
    BY <1>9, <1>10, <2>1, LevelsEnded
  <2> QED
    BY <1>10, <1>11, <2>1, <2>2
<1>15. q2.nested = q.nested /\ IsOp(q2, prev)
  <2>1. IsOp(q, prev)
    BY <1>4 DEF IsOp, Kept, SameNode
  <2> QED
    BY <1>9, <2>1 DEF IsOp, Ended, SameNode
<1>16. r = NextOperator(q2, prev, compstep)
  BY <1>1, <1>7 DEF BeginOperator
<1>17. e = IF prev # None \/ q2.nested = 0 THEN Pl(q2).event ELSE None
  BY <1>2, <1>14, <1>15
<1> QED
  BY <1>4, <1>8, <1>12, <1>13, <1>14, <1>15, <1>16, <1>17, NextOperatorHolds

-----------------------------------------------------------------------------
(* enter_level() and begin_list() *)

(* q is p with the level l and the node v of a list; not linked to yet. *)
ListAdded(p, q, n, l, v, obj) ==
    /\ n = Len(p.nodes) + 1 /\ p.nodes \in Seq(Node) /\ q.nodes = Append(p.nodes, v)
    /\ v.kind = "list" /\ v.mods = None /\ v.next = None /\ v.obj = Len(p.objs) + 1
    /\ IsSeq(p.objs) /\ q.objs = Append(p.objs, obj)
    /\ Top(q) = Top(p) + 1 /\ q.levels[Top(q)] = l
    /\ \A k \in 1..Top(p) : q.levels[k] = p.levels[k]
    /\ l.scope = "nest" /\ l.sub # "op_step" /\ l.event = Pl(p).event /\ l.main_ev = None
    /\ q.evs = p.evs /\ SameGroups(p, q) /\ SlotsAlike(p.slots, q.slots)

LEMMA ListAddedNodes ==
    ASSUME NEW p, NEW q, NEW n, NEW l, NEW v, NEW obj, ListAdded(p, q, n, l, v, obj)
    PROVE  /\ DOMAIN q.nodes = DOMAIN p.nodes \union {n} /\ n \notin DOMAIN p.nodes
           /\ q.nodes[n] = v /\ \A x \in DOMAIN p.nodes : q.nodes[x] = p.nodes[x]
           /\ n \in Nat /\ n # None
           /\ q.nodes[n].kind = "list" /\ Parent(q, n) = obj.parent
           /\ \A i \in DOMAIN p.objs : q.objs[i] = p.objs[i]
<1>1. q.nodes = Append(p.nodes, v) /\ n = Len(p.nodes) + 1 /\ p.nodes \in Seq(Node)
  BY DEF ListAdded
<1>2. IsSeq(p.nodes) /\ IsSeq(p.objs) /\ q.objs = Append(p.objs, obj)
  BY <1>1 DEF IsSeq, ListAdded
<1>3. /\ DOMAIN q.nodes = 1..(Len(p.nodes) + 1) /\ DOMAIN p.nodes = 1..Len(p.nodes)
      /\ \A i \in 1..Len(p.nodes) : q.nodes[i] = p.nodes[i]
      /\ q.nodes[Len(p.nodes) + 1] = v /\ Len(p.nodes) \in Nat
  BY <1>1, <1>2, AppendIs
<1>4. /\ \A i \in 1..Len(p.objs) : q.objs[i] = p.objs[i]
      /\ q.objs[Len(p.objs) + 1] = obj /\ DOMAIN p.objs = 1..Len(p.objs)
  <2>1. /\ \A i \in 1..Len(p.objs) : q.objs[i] = p.objs[i]
        /\ q.objs[Len(p.objs) + 1] = obj
    BY <1>2, AppendIs
  <2>2. DOMAIN p.objs = 1..Len(p.objs)
    BY <1>2 DEF IsSeq
  <2> QED
    BY <2>1, <2>2
<1>5. v.kind = "list" /\ v.obj = Len(p.objs) + 1
  BY DEF ListAdded
<1> QED
  BY <1>1, <1>3, <1>4, <1>5 DEF None, Parent

LEMMA ListAddedEvents ==
    ASSUME NEW p, OpsRefer(p), Events(p), LevelsHold(p), Pl(p).event \in Group(p),
           Pl(p) = p.levels[Top(p)],
           NEW q, NEW n, NEW l, NEW v, NEW obj, ListAdded(p, q, n, l, v, obj)
    PROVE  Events(q) /\ LevelsHold(q)
<1>1. Events(q) /\ Group(q) = Group(p)
  <2>1. SameGroup(p, q)
    BY DEF ListAdded, SameGroup, SameLinks, SameGroups, Events
  <2> QED
    BY <2>1, GroupSame
<1>2. /\ Top(p) \in Nat \ {0} /\ Top(q) = Top(p) + 1 /\ q.levels[Top(q)] = l
      /\ \A k \in 1..Top(p) : q.levels[k] = p.levels[k]
      /\ l.scope = "nest" /\ l.sub # "op_step" /\ l.event = Pl(p).event /\ l.main_ev = None
      /\ q.evs = p.evs /\ q.last_event = p.last_event /\ q.owed = p.owed
  BY DEF ListAdded, OpsRefer, SameGroups
<1>3. ~Stepping(q.levels[Top(q)])
  BY <1>2 DEF Stepping
<1>4. \A k \in 1..Top(q) : k \in 1..Top(p) \/ k = Top(q)
  BY <1>2
<1>5. ASSUME NEW k \in 1..Top(q) PROVE LevelHolds(q, k)
  <2>1. CASE k = Top(q)
    BY <1>1, <1>2, <2>1 DEF LevelHolds
  <2>2. CASE k # Top(q)
    <3>1. k \in 1..Top(p)
      BY <1>4, <2>2
    <3> QED
      BY <1>1, <1>2, <3>1, LevelHoldsStill DEF LevelsHold
  <2> QED
    BY <2>1, <2>2
<1>6. ASSUME NEW k \in 1..Top(q), Stepping(q.levels[k])
      PROVE  /\ k \in 1..Top(p) /\ q.levels[k] = p.levels[k]
             /\ StepEvent(q, k) = StepEvent(p, k)
  <2>1. k \in 1..Top(p) /\ q.levels[k] = p.levels[k]
    BY <1>2, <1>3, <1>4, <1>6
  <2>2. p.levels[k].op \in DOMAIN p.nodes
    BY <1>6, <2>1 DEF OpsRefer, Stepping, IsOp
  <2> QED
    BY <2>1, <2>2, ListAddedNodes DEF StepEvent
<1>7. StepsHold(p, Top(p))
  BY DEF LevelsHold
<1>8. ASSUME NEW k \in 1..Top(q), Follows(q, k)
      PROVE  k \in 1..Top(p) /\ Follows(p, k) /\ StepEvent(q, k) = StepEvent(p, k)
  BY <1>6, <1>8 DEF Follows
<1>9. StepsHold(q, Top(q))
  <2>1. ASSUME NEW k \in 1..Top(q)
        PROVE  /\ Stepping(q.levels[k]) => StepEvent(q, k) \in Group(q)
               /\ Follows(q, k) => /\ q.evs[StepEvent(q, k)].next = None
                                   /\ StepEvent(q, k) # q.last_event
    BY <1>1, <1>2, <1>6, <1>7, <1>8 DEF StepsHold
  <2>2. ASSUME NEW j \in 1..Top(q), NEW k \in 1..Top(q), Follows(q, j), Follows(q, k),
               StepEvent(q, j) = StepEvent(q, k)
        PROVE  j = k
    BY <1>7, <1>8, <2>2 DEF StepsHold
  <2> QED
    BY <2>1, <2>2 DEF StepsHold
<1>10. q.levels[1].event # None => q.levels[1].own_ev
  BY <1>2 DEF LevelsHold
<1>11. OwedHolds(q)
  <2>1. Pl(p).event # None
    BY GroupIs DEF None
  <2>2. ~p.owed
    BY <2>1 DEF LevelsHold, OwedHolds
  <2> QED
    BY <1>2, <2>2 DEF OwedHolds
<1> QED
  BY <1>1, <1>5, <1>9, <1>10, <1>11 DEF LevelsHold

LEMMA ListAddedLists ==
    ASSUME NEW p, NEW more, NEW e, NEW new, Sound(p, more, e, new), ListsHold(p), LastsHold(p),
           NEW q, NEW n, NEW l, NEW v, NEW obj, ListAdded(p, q, n, l, v, obj)
    PROVE  ListsHold(q) /\ LastsHold(q)
<1>1. /\ DOMAIN q.nodes = DOMAIN p.nodes \union {n} /\ n \notin DOMAIN p.nodes
      /\ q.nodes[n] = v /\ \A x \in DOMAIN p.nodes : q.nodes[x] = p.nodes[x]
      /\ \A i \in DOMAIN p.objs : q.objs[i] = p.objs[i]
  BY ListAddedNodes
<1>2. OpsRefer(p) /\ NodesEnd(p) /\ ModsEnd(p) /\ NodesRefer(p)
  BY OpsOf, NodesEndOf DEF Sound
<1>3. ASSUME NEW x \in DOMAIN p.nodes
      PROVE  /\ q.nodes[x] = p.nodes[x] /\ Parent(q, x) = Parent(p, x)
             /\ \A o1 : ListFor(p, x, o1) => ListFor(q, x, o1)
  <2>1. p.nodes[x].obj \in DOMAIN p.objs
    BY <1>2 DEF NodesRefer
  <2> QED
    BY <1>1, <2>1 DEF ListFor, Parent
<1>4. v.mods = None /\ v.next = None /\ SlotsAlike(p.slots, q.slots)
  BY DEF ListAdded
<1>5. ListsHold(q)
  <2>1. ASSUME NEW x \in DOMAIN q.nodes
        PROVE  /\ q.nodes[x].mods # None => ListFor(q, q.nodes[x].mods, q.nodes[x].obj)
               /\ q.nodes[x].kind = "list" /\ Parent(q, x) # None /\ q.nodes[x].next # None
                     => ListFor(q, q.nodes[x].next, Parent(q, x))
    <3>1. CASE x = n
      BY <1>1, <1>4, <3>1
    <3>2. CASE x # n
      <4>1. x \in DOMAIN p.nodes
        BY <1>1, <3>2
      <4>2. /\ p.nodes[x].mods \in {None} \union DOMAIN p.nodes
            /\ p.nodes[x].next \in {None} \union DOMAIN p.nodes
        BY <1>2, <4>1 DEF NodesEnd, IsNode
      <4> QED
        BY <1>3, <4>1, <4>2 DEF ListsHold
    <3> QED
      BY <3>1, <3>2
  <2>2. ASSUME NEW s \in 1..MaxLevels, q.slots[s].last_item # None
        PROVE  \/ q.nodes[q.slots[s].last_item].kind = "op"
               \/ Parent(q, q.slots[s].last_item) = None
    <3>1. PICK i : i = p.slots[s].last_item
      OBVIOUS
    <3>2. q.slots[s].last_item = i
      BY <1>4, <3>1 DEF SlotsAlike
    <3>3. i \in DOMAIN p.nodes
      BY <1>2, <2>2, <3>1, <3>2 DEF NodesEnd, IsNode
    <3> QED
      BY <1>3, <2>2, <3>1, <3>2, <3>3 DEF ListsHold
  <2> QED
    BY <2>1, <2>2 DEF ListsHold
<1>6. /\ Top(p) \in Nat \ {0} /\ Top(q) = Top(p) + 1 /\ q.levels[Top(q)] = l
      /\ \A k \in 1..Top(p) : q.levels[k] = p.levels[k]
      /\ l.sub # "op_step"
  BY <1>2 DEF OpsRefer, ListAdded
<1>7. ASSUME NEW k \in 1..Top(q), Stepping(q.levels[k]), q.nodes[q.levels[k].op].mods # None
      PROVE  ListFor(q, q.slots[Place(q.levels, k) + 1].last_mods,
                     q.nodes[q.levels[k].op].obj)
  <2>1. k # Top(q)
    BY <1>6, <1>7 DEF Stepping
  <2>2. k \in 1..Top(p)
    BY <1>6, <2>1
  <2>3. q.levels[k] = p.levels[k]
    BY <1>6, <2>2
  <2>4. PICK x : x = p.levels[k].op
    OBVIOUS
  <2>5. x \in DOMAIN p.nodes /\ Stepping(p.levels[k])
    BY <1>2, <1>7, <2>2, <2>3, <2>4 DEF OpsRefer, IsOp, Stepping
  <2>6. q.nodes[x] = p.nodes[x] /\ p.nodes[x].mods # None
    BY <1>3, <1>7, <2>3, <2>4, <2>5
  <2>7. Place(q.levels, k) = Place(p.levels, k)
    <3>1. k \in Nat /\ \A i \in 1..k : q.levels[i] = p.levels[i]
      BY <1>6, <2>2
    <3> QED
      BY <3>1, PlaceSame
  <2>8. PICK s, i : s = Place(p.levels, k) + 1 /\ i = p.slots[s].last_mods
    OBVIOUS
  <2>9. s \in 1..MaxLevels /\ i # None
    BY <1>2, <2>2, <2>4, <2>5, <2>6, <2>8 DEF ModsEnd
  <2>10. i \in DOMAIN p.nodes /\ q.slots[s].last_mods = i
    BY <1>2, <1>4, <2>8, <2>9 DEF NodesEnd, IsNode, SlotsAlike
  <2>11. ListFor(p, i, p.nodes[x].obj)
    BY <2>2, <2>4, <2>5, <2>6, <2>8 DEF LastsHold
  <2>12. ListFor(q, i, p.nodes[x].obj)
    BY <1>3, <2>10, <2>11
  <2> QED
    BY <2>3, <2>4, <2>6, <2>7, <2>8, <2>10, <2>12
<1> QED
  BY <1>5, <1>7 DEF LastsHold

(* p and q differ in settings and the like at most. *)
Likewise(p, q) ==
    /\ q.levels = p.levels /\ q.nodes = p.nodes /\ q.objs = p.objs /\ q.evs = p.evs
    /\ SameGroups(p, q) /\ SlotsAlike(p.slots, q.slots)

LEMMA LikewiseAlike ==
    ASSUME NEW p, NEW q, Likewise(p, q), p.evs \in Seq(Event)
    PROVE  Alike(p, q)
  BY DEF Likewise, Alike, LevelsAlike, SameGroup, SameLinks, SameGroups, LevelAlike,
         NodeAlike, Top

LEMMA JoinedLikewise ==
    ASSUME NEW q, NEW b, NEW n, Joined(q, b, n), NEW p, Likewise(q, p),
           NEW r, Likewise(b, r)
    PROVE  Joined(p, r, n)
<1>1. LevelsAlike(p, r)
  BY DEF Joined, Likewise, LevelsAlike, SameGroup, SameGroups, Top
<1>2. ASSUME NEW x \in DOMAIN p.nodes
      PROVE  /\ r.nodes[x].kind = p.nodes[x].kind /\ r.nodes[x].obj = p.nodes[x].obj
             /\ r.nodes[x].mods = p.nodes[x].mods
             /\ \/ r.nodes[x].next = p.nodes[x].next
                \/ /\ r.nodes[x].next = n
                   /\ \E t \in 1..MaxLevels : x = p.slots[t].last_item
  BY DEF Joined, Likewise, SlotsAlike
<1>3. \A t \in 1..MaxLevels : /\ r.slots[t].last_mods = p.slots[t].last_mods
                              /\ r.slots[t].last_item \in {n, p.slots[t].last_item}
  BY DEF Joined, Likewise, SlotsAlike
<1> QED
  BY <1>1, <1>2, <1>3 DEF Joined, Likewise

LEMMA SettingsLikewise ==
    ASSUME NEW b, Shape(b), NEW s \in 1..MaxLevels, b.nested = s,
           b.slots \in [1..MaxLevels -> Slot], b.options \in Options, NEW use,
           NEW r, r = SettingsOf(b, use)
    PROVE  Likewise(b, r)
<1>1. Entered(b, s, b.options, r)
  BY SettingsEntered
<1>2. SameGroups(b, r)
  BY DEF SettingsOf, Shape, SameGroups
<1> QED
  BY <1>1, <1>2 DEF Likewise, Entered, PutSettings, SlotsAlike

(* p1 is p with the level, node and object of a list and the settings made, *)
(* q is p1 without the settings, b has the list linked, and r is the end.   *)
ListMade(p, use, e, q, p1, b, r, n, s, obj) ==
    /\ \E l, v : ListAdded(p, p1, n, l, v, obj)
    /\ obj.parent = IF use = "carr" THEN None ELSE p.nodes[Pl(p).op].obj
    /\ Sound(p1, 0, e, n) /\ Top(p1) = Top(p) + 1
    /\ \A k \in 1..Top(p) : Place(p1.levels, k) = Place(p.levels, k)
    /\ Shape(q) /\ Typed(q) /\ Likewise(q, p1) /\ q.nested = s
    /\ ListBegun(p, use, q, obj, b)
    /\ n = Len(p.nodes) + 1 /\ n \in Nat
    /\ s = p.nested /\ s \in 1..MaxLevels /\ s = Place(p.levels, Top(p)) + 1
    /\ q = [q EXCEPT !.nodes[n].next = None]
    /\ r = SettingsOf(b, use)

LEMMA ListIsMade ==
    ASSUME NEW p, NEW use \in Uses,
           NEW e, Sound(p, 1, e, None), Top(p) < MaxLevels, Pl(p).event # None, ~Pl(p).wait,
           NEW r, r = EnterList(p, use)
    PROVE  \E q, p1, b, n, s, obj : ListMade(p, use, e, q, p1, b, r, n, s, obj)
<1>1. /\ Shape(p) /\ Typed(p) /\ p.options \in Options /\ IsSeq(p.objs)
      /\ p.slots \in [1..MaxLevels -> Slot] /\ p.nodes \in Seq(Node)
  BY DEF Sound, Typed
<1>2. /\ Top(p) \in Nat \ {0} /\ Pl(p) \in Level /\ Pl(p) = p.levels[Top(p)]
      /\ Top(p) <= MaxLevels /\ Top(p) = Len(p.levels)
  BY <1>1, TopLevelOf
<1>3. PICK l, v, n, s : /\ l = ListTop(p, use) /\ v = ListNode(p)
                        /\ n = Len(p.nodes) + 1 /\ s = p.nested
  OBVIOUS
<1>4. PICK b : b = BeginList(EnterLevel(p, use, "nest"), use)
  OBVIOUS
<1>5. PICK q, obj : ListBegun(p, use, q, obj, b)
  BY <1>1, <1>4, BeginListIs
<1>6. /\ Is(q, Append(p.levels, l), [p.slots EXCEPT ![s].list = n], s,
            Append(p.nodes, v), Append(p.objs, obj), p.evs, p.labels, p.options)
      /\ SameGroups(p, q)
      /\ obj.parent = IF use = "carr" THEN None ELSE p.nodes[Pl(p).op].obj
  BY <1>3, <1>5 DEF ListBegun
<1>7. s \in 1..MaxLevels /\ s = Place(p.levels, Top(p)) + 1
  <2>1. s = Place(p.levels, Top(p)) + 1
    BY <1>3 DEF Sound, Nested
  <2>2. Place(p.levels, Top(p)) \in 0..(Top(p) - 1)
    BY <1>2, PlaceBound DEF Sound, LevelsRefer
  <2> QED
    BY <1>2, <2>1, <2>2, ParserAssumption
<1>8. n \in Nat
  BY <1>1, <1>3
<1>9. /\ q.slots \in [1..MaxLevels -> Slot]
      /\ \A t \in 1..MaxLevels :
            /\ q.slots[t].last_item = p.slots[t].last_item
            /\ q.slots[t].last_mods = p.slots[t].last_mods
            /\ q.slots[t].options = p.slots[t].options
            /\ q.slots[t].list = IF t = s THEN n ELSE p.slots[t].list
  <2>1. PICK x : x = [p.slots[s] EXCEPT !.list = n]
    OBVIOUS
  <2>2. p.slots[s] \in Slot
    BY <1>1, <1>7
  <2>3. /\ x \in Slot /\ x.list = n /\ x.options = p.slots[s].options
        /\ x.last_item = p.slots[s].last_item /\ x.last_mods = p.slots[s].last_mods
    BY <1>8, <2>1, <2>2 DEF Slot
  <2>4. q.slots = [t \in 1..MaxLevels |-> IF t = s THEN x ELSE p.slots[t]]
    BY <1>1, <1>6, <2>1 DEF Is
  <2> QED
    BY <1>1, <2>3, <2>4
<1>10. PICK p1 : p1 = SettingsOf(q, use)
  OBVIOUS
<1>11. Shape(q) /\ q.nested = s /\ q.options = p.options
  BY <1>6 DEF Is
<1>12. Entered(q, s, p.options, p1) /\ Likewise(q, p1)
  BY <1>1, <1>7, <1>9, <1>10, <1>11, SettingsEntered, SettingsLikewise
<1>13. /\ Shape(p1) /\ p1.levels = Append(p.levels, l) /\ p1.nested = s
       /\ p1.nodes = Append(p.nodes, v) /\ p1.objs = Append(p.objs, obj)
       /\ p1.evs = p.evs /\ p1.labels = p.labels /\ p1.options \in Options
       /\ p1.slots \in [1..MaxLevels -> Slot]
       /\ \A t \in 1..MaxLevels :
             /\ p1.slots[t].last_item = p.slots[t].last_item
             /\ p1.slots[t].last_mods = p.slots[t].last_mods
             /\ p1.slots[t].options = IF t = s THEN p.options ELSE p.slots[t].options
             /\ p1.slots[t].list = IF t = s THEN n ELSE p.slots[t].list
  BY <1>6, <1>9, <1>12 DEF Is, Entered, PutSettings
<1>14. /\ v \in Node /\ v.kind = "list" /\ v.next = None /\ v.first = None
       /\ v.mods = None /\ v.obj = Len(p.objs) + 1 /\ v = [v EXCEPT !.next = None]
  BY <1>1, <1>3, ListNodeIs
<1>15. /\ l \in Level /\ l.scope = "nest" /\ l.sub # "op_step"
       /\ l.op = Pl(p).op /\ l.event = Pl(p).event /\ l.outer_options = p.options
       /\ ~l.own_op /\ ~l.own_ev /\ ~l.wait /\ l.param = "none" /\ l.main_ev = None
  <2>1. Pl(p).event \in Nat /\ Pl(p).op \in Nat
    BY <1>2 DEF Level
  <2>2. l.main_ev = None
    BY <1>3 DEF ListTop, TopLevel
  <2> QED
    BY <1>1, <1>3, <2>1, <2>2, ListTopIs
<1>16. ListLevel(p, p1, l, v)
  <2>1. Pushed(p, p1, l)
    BY <1>13, <1>15 DEF Pushed
  <2>2. IsSeq(p1.objs) /\ Len(p1.objs) = Len(p.objs) + 1 /\ Len(p.objs) \in Nat
    <3>1. IsSeq(Append(p.objs, obj)) /\ Len(Append(p.objs, obj)) = Len(p.objs) + 1
      BY <1>1, AppendIs
    <3> QED
      BY <1>1, <1>13, <3>1 DEF IsSeq
  <2>3. Adds(p, p1, v)
    BY <1>13, <1>14, <2>2 DEF Adds
  <2> QED
    BY <1>3, <1>13, <1>14, <1>15, <2>1, <2>3 DEF ListLevel
<1>17. ListSound(p, p1, e, n, l)
  BY <1>3, <1>16, ListLevelSound
<1>18. Sound(p1, 0, e, n) /\ AboveLevels(p, p1, l)
  BY <1>17 DEF ListSound
<1>19. /\ Top(p1) = Top(p) + 1 /\ p1.levels[Top(p1)] = l
       /\ \A k \in 1..Top(p) : /\ p1.levels[k] = p.levels[k]
                               /\ Place(p1.levels, k) = Place(p.levels, k)
  BY <1>2, <1>18 DEF AboveLevels
<1>20. ListAdded(p, p1, n, l, v, obj)
  <2>1. SameGroups(p, p1)
    BY <1>6, <1>12 DEF Likewise, SameGroups
  <2>2. SlotsAlike(p.slots, p1.slots)
    BY <1>13 DEF SlotsAlike
  <2> QED
    BY <1>1, <1>3, <1>13, <1>14, <1>15, <1>19, <2>1, <2>2 DEF ListAdded
<1>21. Typed(q)
  <2>1. Typed(p1)
    BY <1>18 DEF Sound
  <2>2. q.labels = p1.labels /\ q.nested = p1.nested
    BY <1>6, <1>13 DEF Is
  <2> QED
    BY <1>1, <1>9, <1>11, <1>12, <2>1, <2>2 DEF Typed, Likewise, Top
<1>22. q = [q EXCEPT !.nodes[n].next = None]
  <2>1. ResetLast(p.nodes, v, v)
    BY <1>1, <1>14, NodeReset
  <2>2. q.nodes = [q.nodes EXCEPT ![n].next = None]
    BY <1>3, <1>6, <2>1 DEF ResetLast, Is
  <2> QED
    BY <1>11, <2>2 DEF Shape
<1>23. r = SettingsOf(b, use)
  BY <1>4 DEF EnterList, SettingsOf
<1>24. ListMade(p, use, e, q, p1, b, r, n, s, obj)
  BY <1>3, <1>5, <1>6, <1>7, <1>8, <1>11, <1>12, <1>18, <1>19, <1>20, <1>21, <1>22,
     <1>23, Zenon DEF ListMade
<1> QED
  BY <1>24

(* A list goes to the operator of p's step, whose object is its parent:    *)
(* first among those, or after m.                                          *)
LinkedToStep(p, p1, r, n, s) ==
    LET on == Pl(p).op
        none == p.nodes[on].mods = None
        last == p.slots[s].last_mods
    IN  /\ on \in DOMAIN p.nodes /\ (~none => last \in DOMAIN p.nodes)
        /\ LevelsAlike(p1, r) /\ r.levels = p1.levels /\ r.objs = p1.objs
        /\ NodeLinked(p1, r, IF none THEN on ELSE last, IF none THEN "mods" ELSE "next", n)
        /\ \A t \in 1..MaxLevels :
              /\ r.slots[t].last_item = p1.slots[t].last_item
              /\ r.slots[t].last_mods = IF t = s THEN n ELSE p1.slots[t].last_mods

LEMMA ListIsLinked ==
    ASSUME NEW p, NEW e, Sound(p, 1, e, None), NEW use \in Uses \ {"carr"}, Stepping(Pl(p)),
           NEW q, NEW p1, NEW b, NEW r, NEW n, NEW s, NEW obj,
           ListMade(p, use, e, q, p1, b, r, n, s, obj), p1.evs \in Seq(Event)
    PROVE  LinkedToStep(p, p1, r, n, s)
<1> DEFINE on == Pl(p).op
           none == p.nodes[on].mods = None
           last == p.slots[s].last_mods
           m == IF none THEN on ELSE last
<1>1. /\ Sound(p1, 0, e, n) /\ Top(p1) = Top(p) + 1 /\ Shape(q) /\ Typed(q) /\ Likewise(q, p1)
      /\ q.nested = s /\ ListBegun(p, use, q, obj, b) /\ n = Len(p.nodes) + 1 /\ n \in Nat
      /\ s = p.nested /\ s \in 1..MaxLevels /\ s = Place(p.levels, Top(p)) + 1
      /\ r = SettingsOf(b, use)
  BY Zenon DEF ListMade
<1>2. \A x \in DOMAIN p.nodes : x \in DOMAIN p1.nodes /\ p1.nodes[x] = p.nodes[x]
  <2>1. PICK l, v : ListAdded(p, p1, n, l, v, obj)
    BY Zenon DEF ListMade
  <2> QED
    BY <2>1, ListAddedNodes
<1>3. Pl(p) = p.levels[Top(p)] /\ Top(p) \in Nat \ {0} /\ OpsRefer(p) /\ NodesEnd(p) /\ ModsEnd(p)
  BY OpsOf, NodesEndOf DEF Sound, OpsRefer
<1>4. on \in DOMAIN p.nodes
  BY <1>3 DEF OpsRefer, IsOp, Stepping
<1>5. ~none => last \in DOMAIN p.nodes
  BY <1>1, <1>3 DEF ModsEnd, NodesEnd, IsNode
<1>6. q.slots \in [1..MaxLevels -> Slot] /\ q.options \in Options
  BY <1>1 DEF Typed
<1>7. /\ Shape(b) /\ b.levels = q.levels /\ b.nested = s /\ b.objs = q.objs
      /\ b.evs = q.evs /\ b.options = q.options /\ SameGroups(q, b)
      /\ b.slots = [q.slots EXCEPT ![s].last_mods = n]
      /\ b.nodes = IF none THEN [q.nodes EXCEPT ![m].mods = n]
                   ELSE [q.nodes EXCEPT ![m].next = n]
  <2>1. CASE none
    <3>1. b = [q EXCEPT !.nodes[m].mods = n, !.slots[s].last_mods = n]
      BY <1>1, <2>1 DEF ListBegun
    <3> QED
      BY <1>1, <2>1, <3>1, ZenonT(40) DEF Shape, SameGroups
  <2>2. CASE ~none
    <3>1. b = [q EXCEPT !.nodes[m].next = n, !.slots[s].last_mods = n]
      BY <1>1, <2>2, SMTT(30) DEF ListBegun, Tip
    <3> QED
      BY <1>1, <2>2, <3>1, ZenonT(40) DEF Shape, SameGroups
  <2> QED
    BY <2>1, <2>2
<1>8. ModsPut(q.slots, s, n, b.slots)
  BY <1>1, <1>6, <1>7, LastModsPut, ZenonT(40)
<1>9. Likewise(b, r)
  <2>1. b.slots \in [1..MaxLevels -> Slot] /\ b.options \in Options
    BY <1>6, <1>7, <1>8 DEF ModsPut
  <2> QED
    BY <1>1, <1>7, <2>1, SettingsLikewise
<1>10. /\ r.levels = p1.levels /\ r.objs = p1.objs /\ r.evs = p1.evs /\ SameGroups(p1, r)
       /\ r.nodes = IF none THEN [p1.nodes EXCEPT ![m].mods = n]
                    ELSE [p1.nodes EXCEPT ![m].next = n]
  <2>1. /\ p1.nodes = q.nodes /\ r.nodes = b.nodes /\ p1.levels = q.levels
        /\ r.levels = b.levels /\ p1.objs = q.objs /\ r.objs = b.objs /\ p1.evs = q.evs
        /\ r.evs = b.evs
    BY <1>1, <1>9 DEF Likewise
  <2>2. SameGroups(p1, r)
    BY <1>1, <1>7, <1>9 DEF Likewise, SameGroups
  <2> QED
    BY <1>7, <2>1, <2>2, Zenon
<1>11. ASSUME NEW t \in 1..MaxLevels
       PROVE  /\ r.slots[t].last_item = p1.slots[t].last_item
              /\ r.slots[t].last_mods = IF t = s THEN n ELSE p1.slots[t].last_mods
  BY <1>1, <1>8, <1>9 DEF ModsPut, Likewise, SlotsAlike
<1>12. m \in DOMAIN p1.nodes /\ p1.nodes \in Seq(Node)
  <2>1. p1.nodes \in Seq(Node)
    BY <1>1 DEF Sound, Typed
  <2> QED
    BY <1>2, <1>4, <1>5, <2>1
<1>13. NodeLinked(p1, r, m, IF none THEN "mods" ELSE "next", n)
  <2>1. CASE none
    <3>1. r.nodes = [p1.nodes EXCEPT ![m].mods = n]
      BY <1>10, <2>1
    <3>2. NodeLinked(p1, r, m, "mods", n)
      BY <1>1, <1>12, <3>1, ModsLinked
    <3> QED
      BY <2>1, <3>2
  <2>2. CASE ~none
    <3>1. r.nodes = [p1.nodes EXCEPT ![m].next = n]
      BY <1>10, <2>2
    <3>2. NodeLinked(p1, r, m, "next", n)
      BY <1>1, <1>12, <3>1, NextLinked
    <3> QED
      BY <2>2, <3>2
  <2> QED
    BY <2>1, <2>2
<1>14. LevelsAlike(p1, r)
  <2>1. \A k \in 1..Top(p1) : LevelAlike(p1.levels[k], r.levels[k])
    BY <1>10 DEF LevelAlike
  <2>2. SameGroup(p1, r)
    BY <1>10 DEF SameGroup, SameLinks, SameGroups
  <2> QED
    BY <1>10, <1>13, <2>1, <2>2 DEF LevelsAlike, NodeLinked, Top
<1> QED
  BY <1>4, <1>5, <1>10, <1>11, <1>13, <1>14 DEF LinkedToStep

LEMMA ListOfStep ==
    ASSUME NEW p, NEW e, Sound(p, 1, e, None), NEW use \in Uses \ {"carr"}, Stepping(Pl(p)),
           LevelsHold(p), LastsHold(p),
           NEW q, NEW p1, NEW b, NEW r, NEW n, NEW s, NEW obj,
           ListMade(p, use, e, q, p1, b, r, n, s, obj), p1.evs \in Seq(Event),
           ListsHold(p1), LastsHold(p1)
    PROVE  ListsHold(r) /\ LastsHold(r) /\ LevelsAlike(p1, r)
<1> DEFINE on == Pl(p).op
           none == p.nodes[on].mods = None
           last == p.slots[s].last_mods
           m == IF none THEN on ELSE last
           f == IF none THEN "mods" ELSE "next"
<1>1. LinkedToStep(p, p1, r, n, s)
  BY ListIsLinked
<1>2. /\ on \in DOMAIN p.nodes /\ (~none => last \in DOMAIN p.nodes)
      /\ LevelsAlike(p1, r) /\ r.levels = p1.levels /\ r.objs = p1.objs
      /\ NodeLinked(p1, r, m, f, n)
      /\ \A t \in 1..MaxLevels :
            /\ r.slots[t].last_item = p1.slots[t].last_item
            /\ r.slots[t].last_mods = IF t = s THEN n ELSE p1.slots[t].last_mods
  BY <1>1, Zenon DEF LinkedToStep
<1>3. PICK l, v : ListAdded(p, p1, n, l, v, obj)
  BY Zenon DEF ListMade
<1>4. /\ Sound(p1, 0, e, n) /\ Top(p1) = Top(p) + 1
      /\ \A k \in 1..Top(p) : Place(p1.levels, k) = Place(p.levels, k)
      /\ s = Place(p.levels, Top(p)) + 1 /\ s \in 1..MaxLevels
      /\ obj.parent = p.nodes[on].obj
  BY Zenon DEF ListMade
<1>5. /\ DOMAIN p1.nodes = DOMAIN p.nodes \union {n} /\ n \notin DOMAIN p.nodes
      /\ \A x \in DOMAIN p.nodes : p1.nodes[x] = p.nodes[x]
      /\ n \in Nat /\ n # None
      /\ p1.nodes[n].kind = "list" /\ Parent(p1, n) = obj.parent
      /\ \A i \in DOMAIN p.objs : p1.objs[i] = p.objs[i]
  BY <1>3, ListAddedNodes
<1>6. /\ OpsRefer(p) /\ NodesEnd(p) /\ ModsEnd(p) /\ NodesRefer(p) /\ Pl(p) = p.levels[Top(p)]
      /\ OpsRefer(p1) /\ NodesEnd(p1) /\ ModsEnd(p1) /\ Top(p) \in Nat \ {0}
  BY <1>4, OpsOf, NodesEndOf DEF Sound, OpsRefer
<1>7. /\ DOMAIN r.nodes = DOMAIN p1.nodes
      /\ \A x \in DOMAIN p1.nodes :
            /\ r.nodes[x].kind = p1.nodes[x].kind /\ r.nodes[x].obj = p1.nodes[x].obj
            /\ r.nodes[x].next = IF f = "next" /\ x = m THEN n ELSE p1.nodes[x].next
            /\ r.nodes[x].mods = IF f = "mods" /\ x = m THEN n ELSE p1.nodes[x].mods
  BY <1>2 DEF NodeLinked
<1>8. ASSUME NEW x \in DOMAIN p1.nodes
      PROVE  /\ Parent(r, x) = Parent(p1, x)
             /\ \A o1 : ListFor(p1, x, o1) => ListFor(r, x, o1)
  BY <1>2, <1>7 DEF Parent, ListFor
<1>9. ListFor(r, n, p.nodes[on].obj)
  BY <1>4, <1>5, <1>7, <1>8 DEF ListFor
<1>10. ~none => Parent(p1, last) = p.nodes[on].obj
  <2>1. SUFFICES ASSUME ~none PROVE Parent(p1, last) = p.nodes[on].obj
    OBVIOUS
  <2>2. ListFor(p, last, p.nodes[on].obj)
    BY <1>4, <1>6, <2>1 DEF LastsHold
  <2>3. last \in DOMAIN p.nodes /\ p.nodes[last].obj \in DOMAIN p.objs
    BY <1>2, <1>6, <2>1 DEF NodesRefer
  <2> QED
    BY <1>5, <2>2, <2>3 DEF ListFor, Parent
<1>11. ListsHold(r)
  <2>1. ASSUME NEW x \in DOMAIN r.nodes, r.nodes[x].mods # None
        PROVE  ListFor(r, r.nodes[x].mods, r.nodes[x].obj)
    <3>1. CASE f = "mods" /\ x = m
      <4>1. x = on /\ r.nodes[x].mods = n /\ r.nodes[x].obj = p.nodes[on].obj
        BY <1>2, <1>5, <1>7, <3>1
      <4> QED
        BY <1>9, <4>1
    <3>2. CASE ~(f = "mods" /\ x = m)
      <4>1. r.nodes[x].mods = p1.nodes[x].mods /\ r.nodes[x].obj = p1.nodes[x].obj
        BY <1>7, <3>2
      <4>2. p1.nodes[x].mods \in DOMAIN p1.nodes
        BY <1>6, <1>7, <2>1, <4>1 DEF NodesEnd, IsNode
      <4> QED
        BY <1>7, <1>8, <2>1, <4>1, <4>2 DEF ListsHold
    <3> QED
      BY <3>1, <3>2
  <2>2. ASSUME NEW x \in DOMAIN r.nodes, r.nodes[x].kind = "list", Parent(r, x) # None,
               r.nodes[x].next # None
        PROVE  ListFor(r, r.nodes[x].next, Parent(r, x))
    <3>1. CASE f = "next" /\ x = m
      <4>1. ~none /\ x = last /\ r.nodes[x].next = n
        BY <1>7, <3>1
      <4>2. Parent(r, x) = p.nodes[on].obj
        BY <1>7, <1>8, <1>10, <4>1
      <4> QED
        BY <1>9, <4>1, <4>2
    <3>2. CASE ~(f = "next" /\ x = m)
      <4>1. /\ r.nodes[x].next = p1.nodes[x].next /\ r.nodes[x].kind = p1.nodes[x].kind
            /\ Parent(r, x) = Parent(p1, x)
        BY <1>7, <1>8, <3>2
      <4>2. p1.nodes[x].next \in DOMAIN p1.nodes
        BY <1>6, <1>7, <2>2, <4>1 DEF NodesEnd, IsNode
      <4> QED
        BY <1>7, <1>8, <2>2, <4>1, <4>2 DEF ListsHold
    <3> QED
      BY <3>1, <3>2
  <2>3. ASSUME NEW t \in 1..MaxLevels, r.slots[t].last_item # None
        PROVE  \/ r.nodes[r.slots[t].last_item].kind = "op"
               \/ Parent(r, r.slots[t].last_item) = None
    <3>1. PICK i : i = p1.slots[t].last_item
      OBVIOUS
    <3>2. r.slots[t].last_item = i
      BY <1>2, <3>1
    <3>3. i \in DOMAIN p1.nodes
      BY <1>6, <2>3, <3>1, <3>2 DEF NodesEnd, IsNode
    <3> QED
      BY <1>7, <1>8, <2>3, <3>1, <3>2, <3>3 DEF ListsHold
  <2> QED
    BY <2>1, <2>2, <2>3 DEF ListsHold
<1>12. \A k \in 1..Top(p) : Place(p.levels, k) = Place(p.levels, Top(p)) => k = Top(p)
  <2>1. ASSUME NEW k \in 1..Top(p), k # Top(p)
        PROVE  Place(p.levels, k) # Place(p.levels, Top(p))
    <3>1. k \in Nat /\ k < Top(p) /\ Top(p) > 1 /\ Top(p) \in 1..Top(p)
      BY <1>6, <2>1
    <3>2. p.levels[Top(p)].scope = "nest"
      BY <3>1 DEF LevelsHold, LevelHolds
    <3>3. Place(p.levels, k) < Place(p.levels, Top(p))
      BY <1>6, <3>1, <3>2, PlaceGrows
    <3>4. Place(p.levels, k) \in Nat /\ Place(p.levels, Top(p)) \in Nat
      BY <1>6, <3>1, ListsFinite
    <3> QED
      BY <3>3, <3>4
  <2> QED
    BY <2>1
<1>13. ASSUME NEW k \in 1..Top(r), Stepping(r.levels[k]), r.nodes[r.levels[k].op].mods # None
       PROVE  ListFor(r, r.slots[Place(r.levels, k) + 1].last_mods,
                      r.nodes[r.levels[k].op].obj)
  <2>1. /\ Top(r) = Top(p) + 1 /\ p1.levels[Top(p) + 1] = l /\ l.sub # "op_step"
        /\ \A i \in 1..Top(p) : p1.levels[i] = p.levels[i]
    BY <1>2, <1>3, <1>4 DEF ListAdded, LevelsAlike
  <2>2. k \in 1..Top(p)
    BY <1>2, <1>6, <1>13, <2>1 DEF Stepping
  <2>3. /\ r.levels[k] = p.levels[k] /\ p1.levels[k] = p.levels[k] /\ Stepping(p.levels[k])
        /\ Place(r.levels, k) = Place(p.levels, k)
    BY <1>2, <1>4, <1>13, <2>1, <2>2
  <2>4. PICK x : x = p.levels[k].op
    OBVIOUS
  <2>5. x \in DOMAIN p.nodes /\ x \in DOMAIN p1.nodes /\ p1.nodes[x] = p.nodes[x]
    BY <1>5, <1>6, <2>2, <2>3, <2>4 DEF OpsRefer, Stepping, IsOp
  <2>6. r.nodes[x].obj = p.nodes[x].obj
    BY <1>7, <2>5
  <2>7. CASE k = Top(p)
    <3>1. x = on /\ r.slots[Place(r.levels, k) + 1].last_mods = n
      BY <1>2, <1>4, <1>6, <2>3, <2>4, <2>7
    <3> QED
      BY <1>9, <2>3, <2>4, <2>6, <3>1
  <2>8. CASE k # Top(p)
    <3>1. Place(p.levels, k) # Place(p.levels, Top(p))
      BY <1>12, <2>2, <2>8
    <3>2. x # on
      BY <1>6, <2>2, <2>3, <2>4, <3>1 DEF ModsEnd
    <3>3. p1.nodes[x].mods # None
      BY <1>7, <1>13, <2>3, <2>4, <2>5, <3>2
    <3>4. PICK t, i : t = Place(p.levels, k) + 1 /\ i = p1.slots[t].last_mods
      OBVIOUS
    <3>5. k \in 1..Top(p1)
      BY <1>4, <1>6, <2>2
    <3>6. t \in 1..MaxLevels /\ i # None
      BY <1>4, <1>6, <2>2, <2>3, <2>4, <3>3, <3>4, <3>5 DEF ModsEnd
    <3>7. t # s
      <4>1. Place(p.levels, k) \in Nat /\ Place(p.levels, Top(p)) \in Nat
        BY <1>6, <2>2, ListsFinite
      <4> QED
        BY <1>4, <3>1, <3>4, <4>1
    <3>8. i \in DOMAIN p1.nodes /\ r.slots[t].last_mods = i
      BY <1>2, <1>6, <3>4, <3>6, <3>7 DEF NodesEnd, IsNode
    <3>9. ListFor(p1, i, p1.nodes[x].obj)
      BY <1>4, <2>2, <2>3, <2>4, <3>3, <3>4, <3>5 DEF LastsHold
    <3> QED
      BY <1>8, <2>3, <2>4, <2>5, <2>6, <3>4, <3>8, <3>9
  <2> QED
    BY <2>7, <2>8
<1> QED
  BY <1>2, <1>11, <1>13 DEF LastsHold

(* Carriers are objects by themselves, linked to what the level around     *)
(* them is in.                                                             *)
LEMMA ListOfCarriers ==
    ASSUME NEW p, NEW e, Sound(p, 1, e, None),
           NEW q, NEW p1, NEW b, NEW r, NEW n, NEW s, NEW obj,
           ListMade(p, "carr", e, q, p1, b, r, n, s, obj), Events(p1),
           ListsHold(p1), LastsHold(p1)
    PROVE  ListsHold(r) /\ LastsHold(r) /\ LevelsAlike(p1, r)
<1>1. /\ Sound(p1, 0, e, n) /\ Top(p1) = Top(p) + 1
      /\ Shape(q) /\ Typed(q) /\ Likewise(q, p1) /\ q.nested = s
      /\ ListBegun(p, "carr", q, obj, b)
      /\ n = Len(p.nodes) + 1 /\ n \in Nat
      /\ s = p.nested /\ s \in 1..MaxLevels
      /\ q = [q EXCEPT !.nodes[n].next = None]
      /\ r = SettingsOf(b, "carr") /\ obj.parent = None
  BY Zenon DEF ListMade
<1>2. PICK l, v : ListAdded(p, p1, n, l, v, obj)
  BY Zenon DEF ListMade
<1>3. n \in DOMAIN p1.nodes /\ Parent(p1, n) = None
  BY <1>1, <1>2, ListAddedNodes
<1>4. /\ OpsRefer(p1) /\ NodesEnd(p1) /\ ModsEnd(p1) /\ OpsRefer(p)
  BY <1>1, OpsOf, NodesEndOf DEF Sound
<1>5. Events(q)
  <2>1. p1.evs = q.evs /\ SameGroups(q, p1)
    BY <1>1 DEF Likewise
  <2>2. SameGroup(p1, q)
    BY <2>1 DEF SameGroup, SameLinks, SameGroups, Events
  <2> QED
    BY <2>2, GroupSame
<1>6. b = LinkObj(q, Top(p), s - 1, n, None)
  BY <1>1, Zenon DEF ListBegun
<1>7. Joined(q, b, n)
  <2>1. Top(p) \in 1..Top(q)
    <3>1. q.levels = p1.levels /\ Top(p) \in Nat \ {0}
      BY <1>1, <1>4 DEF Likewise, OpsRefer
    <3> QED
      BY <1>1, <3>1 DEF Top
  <2>2. ~(None # None \/ s - 1 = 0) => s - 1 \in 1..MaxLevels
    BY <1>1, ParserAssumption
  <2> QED
    BY <1>1, <1>5, <1>6, <2>1, <2>2, LinkObjJoins
<1>8. Likewise(b, r)
  <2>1. LinkKept(q, b)
    BY <1>1, <1>6, LinkObjKeeps DEF Typed
  <2>2. Shape(b) /\ b.nested = s /\ b.slots \in [1..MaxLevels -> Slot] /\ b.options \in Options
    BY <1>1, <2>1 DEF LinkKept, Typed
  <2> QED
    BY <1>1, <2>2, SettingsLikewise
<1>9. Joined(p1, r, n)
  BY <1>1, <1>7, <1>8, JoinedLikewise
<1>10. LevelsAlike(p1, r)
  BY <1>9 DEF Joined
<1> QED
  BY <1>3, <1>4, <1>9, <1>10, JoinedLists

(* A list is entered, in the event that there is for it. *)
LEMMA EnterListHolds ==
    ASSUME NEW p, NEW use \in Uses,
           NEW e, Sound(p, 1, e, None), Top(p) < MaxLevels, Pl(p).event \in Group(p),
           ~Pl(p).wait, use # "carr" => Stepping(Pl(p)), Plain(p), Held(p),
           NEW r, r = EnterList(p, use)
    PROVE  Plain(r) /\ Held(r)
<1>1. Events(p) /\ ListsHold(p) /\ LevelsHold(p) /\ LastsHold(p)
  BY DEF Plain, Held
<1>2. /\ OpsRefer(p) /\ Pl(p) = p.levels[Top(p)]
  BY OpsOf
<1>3. Pl(p).event # None
  <2>1. Group(p) \subseteq 1..Len(p.evs)
    BY <1>1, GroupIs
  <2> QED
    BY <2>1 DEF None
<1>4. PICK q, p1, b, n, s, obj : ListMade(p, use, e, q, p1, b, r, n, s, obj)
  BY <1>3, ListIsMade
<1>5. PICK l, v : ListAdded(p, p1, n, l, v, obj)
  BY <1>4, Zenon DEF ListMade
<1>6. Events(p1) /\ LevelsHold(p1)
  BY <1>1, <1>2, <1>5, ListAddedEvents
<1>7. ListsHold(p1) /\ LastsHold(p1)
  BY <1>1, <1>5, ListAddedLists
<1>8. p1.evs \in Seq(Event)
  BY <1>6 DEF Events
<1>9. ListsHold(r) /\ LastsHold(r) /\ LevelsAlike(p1, r)
  <2>1. CASE use = "carr"
    <3>1. ListMade(p, "carr", e, q, p1, b, r, n, s, obj)
      BY <1>4, <2>1
    <3> QED
      BY <1>6, <1>7, <3>1, ListOfCarriers
  <2>2. CASE use # "carr"
    BY <1>1, <1>4, <1>7, <1>8, <2>2, ListOfStep
  <2> QED
    BY <2>1, <2>2
<1>10. OpsRefer(p1)
  <2>1. Sound(p1, 0, e, n)
    BY <1>4, Zenon DEF ListMade
  <2> QED
    BY <2>1, OpsOf
<1>11. Events(r) /\ LevelsHold(r)
  BY <1>6, <1>9, <1>10, AlikeSteps, AlikeLevels
<1> QED
  BY <1>9, <1>11 DEF Plain, Held

-----------------------------------------------------------------------------
(* Changes to places, labels and settings, and to a level beside its step. *)

LEMMA AlikeHolds ==
    ASSUME NEW p, NEW more, NEW e, NEW new, Sound(p, more, e, new), Plain(p), Held(p),
           NEW q, Alike(p, q)
    PROVE  Plain(q) /\ Held(q)
<1>1. Events(p) /\ ListsHold(p) /\ LevelsHold(p) /\ LastsHold(p)
  BY DEF Plain, Held
<1>2. OpsRefer(p) /\ NodesEnd(p) /\ ModsEnd(p)
  BY OpsOf, NodesEndOf DEF Sound
<1>3. LevelsAlike(p, q) /\ ListsAlike(p, q)
  BY AlikeToLists DEF Alike
<1> QED
  BY <1>1, <1>2, <1>3, AlikeSteps, AlikeLevels, AlikeLists DEF Plain, Held

LEMMA LikewiseHolds ==
    ASSUME NEW p, NEW more, NEW e, NEW new, Sound(p, more, e, new), Plain(p), Held(p),
           NEW q, Likewise(p, q)
    PROVE  Plain(q) /\ Held(q)
<1>1. p.evs \in Seq(Event)
  BY DEF Plain, Events
<1> QED
  BY <1>1, LikewiseAlike, AlikeHolds

LEMMA NestLikewise ==
    ASSUME NEW p, Shape(p), NEW x, NEW q, q = [p EXCEPT !.nested = x]
    PROVE  Likewise(p, q)
BY DEF Shape, Likewise, SameGroups, SlotsAlike

LEMMA LabelLikewise ==
    ASSUME NEW p, Shape(p), NEW name, NEW n, NEW q, q = [p EXCEPT !.labels[name] = n]
    PROVE  Likewise(p, q)
BY DEF Shape, Likewise, SameGroups, SlotsAlike

SettingPut(slots, s, v, t) ==
    \/ t = [slots EXCEPT ![s].sweep = v]
    \/ t = [slots EXCEPT ![s].own_mult = v]

LEMMA SlotSettingLikewise ==
    ASSUME NEW slots \in [1..MaxLevels -> Slot], NEW s, NEW v, NEW t, SettingPut(slots, s, v, t)
    PROVE  SlotsAlike(slots, t)
<1>1. ASSUME NEW i \in 1..MaxLevels
      PROVE  t[i].last_item = slots[i].last_item /\ t[i].last_mods = slots[i].last_mods
  <2>1. slots[i] \in Slot
    OBVIOUS
  <2> QED
    BY <2>1 DEF Slot, SettingPut
<1> QED
  BY <1>1 DEF SlotsAlike

LEMMA SweepLikewise ==
    ASSUME NEW p, Shape(p), p.slots \in [1..MaxLevels -> Slot], NEW s, NEW v,
           NEW q, q = [p EXCEPT !.slots[s].sweep = v]
    PROVE  Likewise(p, q)
<1>1. /\ q.levels = p.levels /\ q.nodes = p.nodes /\ q.objs = p.objs /\ q.evs = p.evs
      /\ SameGroups(p, q) /\ q.slots = [p.slots EXCEPT ![s].sweep = v]
  BY DEF Shape, SameGroups
<1>2. SettingPut(p.slots, s, v, q.slots)
  BY <1>1 DEF SettingPut
<1>3. SlotsAlike(p.slots, q.slots)
  BY <1>2, SlotSettingLikewise
<1> QED
  BY <1>1, <1>3 DEF Likewise

LEMMA SetMultLikewise ==
    ASSUME NEW p, Shape(p), p.slots \in [1..MaxLevels -> Slot], NEW use, NEW v,
           NEW q, q = SetMultOf(p, use, v)
    PROVE  Likewise(p, q)
<1>1. /\ q.levels = p.levels /\ q.nodes = p.nodes /\ q.objs = p.objs /\ q.evs = p.evs
      /\ SameGroups(p, q)
      /\ q.slots = IF p.nested = 0 THEN p.slots
                   ELSE [p.slots EXCEPT ![p.nested].own_mult = v]
  BY DEF Shape, SameGroups, SetMultOf
<1>2. p.nested # 0 => SettingPut(p.slots, p.nested, v, q.slots)
  BY <1>1 DEF SettingPut
<1>3. SlotsAlike(p.slots, q.slots)
  BY <1>1, <1>2, SlotSettingLikewise DEF SlotsAlike
<1> QED
  BY <1>1, <1>3 DEF Likewise

LEMMA SetPlAlike ==
    ASSUME NEW p, NEW more, NEW e, NEW new, Sound(p, more, e, new), p.evs \in Seq(Event),
           NEW l \in Level, LevelAlike(Pl(p), l), NEW q, q = SetPl(p, l)
    PROVE  Alike(p, q)
<1>1. Shape(p) /\ Typed(p) /\ Pl(p) = p.levels[Top(p)] /\ Top(p) \in Nat \ {0}
  BY OpsOf DEF OpsRefer
<1>2. /\ q.levels = [p.levels EXCEPT ![Top(p)] = l] /\ q.slots = p.slots
      /\ q.nodes = p.nodes /\ q.objs = p.objs /\ q.evs = p.evs
  BY <1>1, SetPlIs DEF Is
<1>3. SameGroup(p, q)
  BY <1>1, <1>2, SetPlKeeps DEF SameGroup, SameLinks
<1>4. /\ Top(q) = Top(p) /\ q.levels[Top(p)] = l
      /\ \A k \in 1..Top(p) : k # Top(p) => q.levels[k] = p.levels[k]
  BY <1>1, <1>2 DEF Typed, Top
<1>5. \A k \in 1..Top(p) : LevelAlike(p.levels[k], q.levels[k])
  BY <1>1, <1>4 DEF LevelAlike
<1> QED
  BY <1>2, <1>3, <1>4, <1>5 DEF Alike, LevelsAlike, NodeAlike, SlotsAlike

LEMMA LikewiseGroup ==
    ASSUME NEW p, NEW q, Likewise(p, q)
    PROVE  Group(q) = Group(p) /\ Pl(q) = Pl(p) /\ Top(q) = Top(p)
BY DEF Likewise, SameGroups, Group, Pl, Top

LEMMA PreparedHolds ==
    ASSUME NEW q, Prepared(q, FALSE), Top(q) \in Nat \ {0}, Pl(q) = q.levels[Top(q)]
    PROVE  Events(q) /\ LevelsHold(q) /\ Pl(q).event \in Group(q)
<1>1. /\ Events(q) /\ LevelsBelowHold(q) /\ ~q.owed
      /\ Pl(q).event \in Group(q) /\ Pl(q).main_ev \in {None} \union Group(q)
      /\ StepsHold(q, Top(q))
  BY DEF Prepared, StepPrepared
<1>2. LevelHolds(q, Top(q))
  BY <1>1 DEF LevelHolds, LevelsBelowHold
<1>3. \A k \in 1..Top(q) : LevelHolds(q, k)
  <2>1. \A k \in 1..Top(q) : k = Top(q) \/ k \in 1..(Top(q) - 1)
    OBVIOUS
  <2> QED
    BY <1>1, <1>2, <2>1 DEF LevelsBelowHold
<1> QED
  BY <1>1, <1>3 DEF LevelsHold, LevelsBelowHold, OwedHolds

(* '[' of itself. *)
LEMMA OpenCarriersHolds ==
    ASSUME NEW p, Good(p), Plain(p), Held(p), Top(p) < MaxLevels,
           NEW r, r = EnterList(PushNest(PrepareEvent(p, None, FALSE)), "carr")
    PROVE  Plain(r) /\ Held(r)
<1> DEFINE q == PrepareEvent(p, None, FALSE)
           s == PushNest(q)
<1>1. /\ Sound(p, 0, None, None) /\ Settled(p) /\ Events(p) /\ ListsHold(p)
      /\ LevelsHold(p) /\ LastsHold(p)
  BY DEF Good, Plain, Held
<1>2. IsNode(p, None)
  BY DEF IsNode
<1>3. Prepared(q, FALSE) /\ Kept(p, q) /\ Pl(q).op \in {None, Pl(p).op}
  BY <1>1, <1>2, PrepareEventHolds
<1>4. PICK e : Sound(q, 0, e, None) /\ ~Pl(q).wait
  <2>1. /\ ~Pl(q).wait
        /\ IF None # None \/ p.nested = 0 THEN Sound(q, 0, Pl(q).event, None)
           ELSE Sound(q, 0, None, None)
    BY <1>1, <1>2, PrepareEventSound
  <2> QED
    BY <2>1
<1> HIDE DEF q
<1>5. OpsRefer(p) /\ NodesEnd(p) /\ ModsEnd(p) /\ Pl(p) = p.levels[Top(p)]
  BY <1>1, OpsOf, NodesEndOf DEF Sound
<1>6. OpsRefer(q) /\ Pl(q) = q.levels[Top(q)] /\ Shape(q)
  BY <1>4, OpsOf
<1>7. Events(q) /\ LevelsHold(q) /\ Pl(q).event \in Group(q)
  BY <1>3, <1>6, PreparedHolds DEF OpsRefer
<1>8. ListsHold(q) /\ LastsHold(q)
  BY <1>1, <1>3, <1>5, <1>6, KeptToLists, AlikeLists
<1>9. Likewise(q, s)
  <2>1. s = [q EXCEPT !.nested = q.nested + 1]
    BY DEF PushNest
  <2> QED
    BY <1>6, <2>1, NestLikewise
<1>10. Plain(s) /\ Held(s)
  BY <1>4, <1>7, <1>8, <1>9, LikewiseHolds DEF Plain, Held
<1>11. Sound(s, 1, e, None)
  BY <1>3, <1>4, PushNestSound DEF Kept
<1>12. Pl(s).event \in Group(s) /\ ~Pl(s).wait /\ Top(s) < MaxLevels
  BY <1>3, <1>4, <1>7, <1>9, LikewiseGroup DEF Kept
<1>13. r = EnterList(s, "carr")
  BY DEF q
<1> QED
  BY <1>10, <1>11, <1>12, <1>13, EnterListHolds DEF Uses

(* A parameter of a step: what follows is in its list, or after it. *)
LEMMA ParListHolds ==
    ASSUME NEW p, Good(p), Plain(p), Held(p), Stepping(Pl(p)), Top(p) < MaxLevels,
           NEW use \in Uses \ {"carr"}, NEW list \in BOOLEAN,
           NEW r, r = ParList(p, use, list)
    PROVE  Plain(r) /\ Held(r)
<1>1. PICK p1 : p1 = PushNest(p)
  OBVIOUS
<1>2. Sound(p, 0, None, None) /\ Settled(p) /\ Shape(p)
  BY DEF Good, Sound
<1>3. Sound(p1, 1, None, None) /\ p1.nested \in 1..MaxLevels /\ Shape(p1) /\ Typed(p1)
  BY <1>1, <1>2, PushNestSound DEF Sound
<1>4. Plain(p1) /\ Held(p1) /\ Likewise(p, p1)
  <2>1. p1 = [p EXCEPT !.nested = p.nested + 1]
    BY <1>1 DEF PushNest
  <2> QED
    BY <1>2, <2>1, NestLikewise, LikewiseHolds
<1>5. PICK b \in BOOLEAN : b <=> Sweeps(use)
  BY Zenon
<1>6. b = Sweeps(use)
  BY <1>5 DEF Sweeps
<1>7. PICK p2 : p2 = [p1 EXCEPT !.slots[p1.nested].sweep = b]
  OBVIOUS
<1>8. Sound(p2, 1, None, None) /\ Shape(p2)
  <2>1. Swept(p1, 1, None, p2)
    BY <1>3, <1>7, SweepSound
  <2> QED
    BY <2>1 DEF Swept, Sound
<1>9. Plain(p2) /\ Held(p2) /\ Likewise(p1, p2)
  <2>1. Likewise(p1, p2)
    BY <1>3, <1>7, SweepLikewise DEF Typed
  <2> QED
    BY <1>3, <1>4, <2>1, LikewiseHolds
<1>10. Pl(p2) = Pl(p) /\ Top(p2) = Top(p) /\ Group(p2) = Group(p)
  BY <1>4, <1>9, LikewiseGroup
<1>11. r = IF list THEN EnterList(SetPl(p2, [Pl(p2) EXCEPT !.param = use]), use)
           ELSE PopNest(p2)
  BY <1>1, <1>6, <1>7 DEF ParList
<1>12. /\ Top(p) \in Nat \ {0} /\ Pl(p) \in Level
       /\ Pl(p) = p.levels[Top(p)] /\ LevelRefers(p, Pl(p))
  BY <1>2, TopLevelOf DEF Sound, Nested, LevelsRefer
<1>13. Pl(p).event \in Group(p) /\ ~Pl(p).wait
  <2>1. LevelHolds(p, Top(p))
    BY <1>12 DEF Held, LevelsHold
  <2> QED
    BY <1>2, <1>12, <2>1 DEF LevelHolds, Settled, HasEvent
<1>14. CASE list
  <2>1. PICK m : m = [Pl(p2) EXCEPT !.param = use]
    OBVIOUS
  <2>2. /\ m \in Level /\ SameLevel(m, Pl(p2)) /\ Stepping(m) /\ m.param = use
        /\ m.event = Pl(p).event /\ ~m.wait /\ LevelAlike(Pl(p2), m)
    BY <1>10, <1>12, <1>13, <2>1 DEF Level, SameLevel, LevelAlike, Stepping, Uses
  <2>3. LevelRefers(p2, m)
    <3>1. LevelRefers(p2, Pl(p2))
      BY <1>8, <1>10, <1>12 DEF Sound, LevelsRefer, Pl, Top
    <3> QED
      BY <1>10, <1>12, <2>1, <3>1 DEF LevelRefers, Level
  <2>4. PICK p3 : p3 = SetPl(p2, m)
    OBVIOUS
  <2>5. Sound(p3, 1, None, None) /\ Top(p3) = Top(p2) /\ Pl(p3) = m
    BY <1>8, <1>10, <1>12, <2>2, <2>3, <2>4, SetPlSound
  <2>6. r = EnterList(p3, use)
    BY <1>11, <1>14, <2>1, <2>4
  <2>7. Alike(p2, p3)
    <3>1. p2.evs \in Seq(Event)
      BY <1>9 DEF Plain, Events
    <3> QED
      BY <1>8, <2>2, <2>4, <3>1, SetPlAlike
  <2>8. Plain(p3) /\ Held(p3)
    BY <1>8, <1>9, <2>7, AlikeHolds
  <2>9. Group(p3) = Group(p2)
    <3>1. OpsRefer(p2)
      BY <1>8, OpsOf
    <3> QED
      BY <1>9, <2>7, <3>1, AlikeSteps DEF Alike, Plain
  <2> QED
    BY <1>10, <1>13, <2>2, <2>5, <2>6, <2>8, <2>9, EnterListHolds
<1>15. CASE ~list
  <2>1. r = [p2 EXCEPT !.nested = p2.nested - 1]
    BY <1>11, <1>15 DEF PopNest
  <2> QED
    BY <1>8, <1>9, <2>1, NestLikewise, LikewiseHolds
<1> QED
  BY <1>14, <1>15

-----------------------------------------------------------------------------
(* leave_level() *)

LEMMA LowerHolds ==
    ASSUME NEW q, NEW more, NEW e, NEW new, Sound(q, more, e, new), Plain(q), Held(q),
           Top(q) > 1, NEW r, Lower(q, r), SameGroups(q, r)
    PROVE  Plain(r) /\ Held(r)
<1>1. /\ Events(q) /\ ListsHold(q) /\ LevelsHold(q) /\ LastsHold(q)
      /\ q.levels \in Seq(Level) /\ Top(q) \in Nat
  BY OpsOf DEF Plain, Held, Typed, OpsRefer
<1>2. PICK t \in Nat \ {0} : Top(q) = t + 1
  <2>1. Top(q) - 1 \in Nat \ {0} /\ Top(q) = (Top(q) - 1) + 1
    BY <1>1
  <2> QED
    BY <2>1
<1>3. Top(r) = t /\ \A k \in 1..t : r.levels[k] = q.levels[k]
  <2>1. IsFront(Level, q.levels, Front(q.levels), t)
    BY <1>1, <1>2, FrontIs DEF Top
  <2> QED
    BY <2>1 DEF IsFront, Lower, Top
<1>4. r.nodes = q.nodes /\ r.objs = q.objs /\ r.evs = q.evs
  BY DEF Lower
<1>5. Events(r) /\ Group(r) = Group(q)
  <2>1. SameGroup(q, r)
    BY <1>1, <1>4 DEF SameGroup, SameLinks, SameGroups, Events
  <2> QED
    BY <1>1, <2>1, GroupSame
<1>6. LevelsHold(r)
  <2>1. \A k \in 1..t : LevelHolds(r, k)
    BY <1>1, <1>2, <1>3, <1>5 DEF LevelsHold, LevelHolds
  <2>2. StepsHold(r, t)
    <3>1. StepsHold(q, t)
      BY <1>1, <1>2, StepsFewer DEF LevelsHold
    <3>2. r.last_event = q.last_event
      BY DEF SameGroups
    <3> QED
      BY <1>3, <1>4, <1>5, <3>1, <3>2 DEF StepsHold, Follows, StepEvent
  <2>3. r.levels[1].event # None => r.levels[1].own_ev
    BY <1>1, <1>3 DEF LevelsHold
  <2>4. ~r.owed
    BY <1>1, <1>2 DEF LevelsHold, OwedHolds, SameGroups
  <2> QED
    BY <1>3, <2>1, <2>2, <2>3, <2>4 DEF LevelsHold, OwedHolds
<1>7. \A s \in 1..MaxLevels : SameSlot(r.slots[s], q.slots[s])
  BY DEF Lower
<1>8. ListsHold(r)
  BY <1>1, <1>4, <1>7 DEF ListsHold, ListFor, Parent, SameSlot
<1>9. LastsHold(r)
  <2>1. ASSUME NEW k \in 1..t, Stepping(r.levels[k]), r.nodes[r.levels[k].op].mods # None
        PROVE  ListFor(r, r.slots[Place(r.levels, k) + 1].last_mods,
                       r.nodes[r.levels[k].op].obj)
    <3>1. k \in 1..Top(q) /\ Stepping(q.levels[k]) /\ r.levels[k] = q.levels[k]
      BY <1>2, <1>3, <2>1
    <3>2. Place(r.levels, k) = Place(q.levels, k)
      <4>1. \A i \in 1..k : i \in 1..t
        OBVIOUS
      <4> QED
        BY <1>3, <4>1, PlaceSame
    <3>3. q.nodes[q.levels[k].op].mods # None
      BY <1>4, <2>1, <3>1
    <3>4. Place(q.levels, k) + 1 \in 1..MaxLevels
      BY <3>1, <3>3 DEF Sound, ModsEnd
    <3>5. ListFor(q, q.slots[Place(q.levels, k) + 1].last_mods, q.nodes[q.levels[k].op].obj)
      BY <1>1, <3>1, <3>3 DEF LastsHold
    <3> QED
      BY <1>4, <1>7, <3>1, <3>2, <3>4, <3>5 DEF ListFor, Parent, SameSlot
  <2> QED
    BY <1>3, <2>1 DEF LastsHold
<1> QED
  BY <1>5, <1>6, <1>8, <1>9 DEF Plain, Held

LEMMA LeftSettingsKeeps ==
    ASSUME NEW q, Shape(q), NEW r, r = LeftLevel(LeftSettings(q))
    PROVE  SameGroups(q, r)
BY DEF Shape, LeftLevel, LeftSettings, SameGroups

LEMMA LeaveListHolds ==
    ASSUME NEW p, Sound(p, 0, None, None), Plain(p), Held(p), Top(p) > 1,
           Pl(p).scope = "nest", NEW r, r = LeaveLevel(p)
    PROVE  Plain(r) /\ Held(r)
<1>1. PICK q : q = EndOperator(p)
  OBVIOUS
<1>2. Pl(p).param = "none" /\ Typed(p)
  BY DEF Sound, Nested
<1>3. Sound(q, 0, None, None)
  BY <1>1, <1>2, EndOperatorSound
<1>4. Plain(q) /\ Held(q)
  <2>1. p.evs \in Seq(Event)
    BY DEF Plain, Events
  <2>2. Alike(p, q)
    BY <1>1, <2>1, EndOperatorAlike
  <2> QED
    BY <2>2, AlikeHolds
<1>5. Ended(p, q)
  BY <1>1, EndOperatorEnds
<1>6. /\ Top(q) = Top(p) /\ Typed(q) /\ Top(q) \in Nat \ {0} /\ Pl(q) = q.levels[Top(q)]
      /\ Pl(q).scope = "nest"
  <2>1. Top(q) = Top(p) /\ Typed(q) /\ Top(p) \in 1..Top(p)
        /\ Pl(q) = q.levels[Top(p)] /\ Pl(p) = p.levels[Top(p)]
    BY <1>2, <1>5, LevelsEnded, TopLevelOf
  <2>2. Pl(q).scope = Pl(p).scope
    BY <1>2, <1>5, <2>1, LevelsEnded
  <2> QED
    BY <2>1, <2>2, TopLevelOf
<1>7. r = LeftLevel(LeftSettings(q))
  BY <1>1 DEF LeaveLevel, LeftLevel, LeftSettings
<1>8. PICK s \in 1..MaxLevels : q.nested = s
  <2>1. Place(q.levels, Top(q)) \in 1..MaxLevels
    BY <1>6, NestPlace
  <2> QED
    BY <1>3, <2>1 DEF Sound, Nested
<1>9. Lower(q, r) /\ SameGroups(q, r)
  <2>1. Shape(q) /\ q.slots \in [1..MaxLevels -> Slot]
    BY <1>3, <1>6 DEF Sound, Typed
  <2> QED
    BY <1>7, <1>8, <2>1, LeftSettingsIs, LeftSettingsKeeps
<1> QED
  BY <1>3, <1>4, <1>6, <1>9, LowerHolds

(* ']' *)
LEMMA ClosingHolds ==
    ASSUME NEW p, Sound(p, 0, None, None), NEW q, Left(p, q), Pl(p).scope = "nest",
           Plain(q), Held(q), NEW again \in BOOLEAN, again => Pl(q).param # "none",
           NEW r, r = Closing(q, again)
    PROVE  Plain(r) /\ Held(r)
<1>1. /\ Sound(q, 1, None, None) /\ Settled(q) /\ Typed(q) /\ Shape(q)
      /\ Top(q) \in Nat \ {0} /\ Top(p) = Top(q) + 1
      /\ Pl(q).param # "none" => Stepping(Pl(q))
  BY DEF Left, Sound
<1>2. Top(p) <= MaxLevels /\ MaxLevels \in Nat /\ Pl(q) \in Level /\ Pl(q) = q.levels[Top(q)]
  <2>1. Typed(p)
    BY DEF Sound
  <2> QED
    BY <1>1, <2>1, TopLevelOf, ParserAssumption
<1>3. q.evs \in Seq(Event)
  BY DEF Plain, Events
<1>4. CASE again
  <2>1. PICK use \in Uses : use = Pl(q).param /\ use # "carr"
    BY <1>2, <1>4 DEF Level, Uses
  <2>2. Stepping(Pl(q)) /\ ~Pl(q).wait
    BY <1>1, <1>2, <1>4 DEF Settled, HasEvent
  <2>3. r = EnterList(q, use)
    BY <1>4, <2>1 DEF Closing
  <2>4. Pl(q).event \in Group(q)
    <3>1. LevelHolds(q, Top(q))
      BY <1>1 DEF Held, LevelsHold
    <3> QED
      BY <1>2, <2>2, <3>1 DEF LevelHolds
  <2>5. Top(q) < MaxLevels
    BY <1>1, <1>2
  <2> QED
    BY <1>1, <2>2, <2>3, <2>4, <2>5, EnterListHolds
<1>5. CASE ~again /\ Pl(q).param # "none"
  <2>1. PICK l : l = [Pl(q) EXCEPT !.param = "none"]
    OBVIOUS
  <2>2. PICK q1 : q1 = SetPl(q, l)
    OBVIOUS
  <2>3. l \in Level /\ SameLevel(l, Pl(q)) /\ LevelAlike(Pl(q), l) /\ l.param = "none"
    BY <1>2, <2>1 DEF Level, SameLevel, LevelAlike, Stepping
  <2>4. Alike(q, q1)
    BY <1>1, <1>3, <2>2, <2>3, SetPlAlike
  <2>5. Plain(q1) /\ Held(q1)
    BY <1>1, <2>4, AlikeHolds
  <2>6. Sound(q1, 1, None, None) /\ Shape(q1)
    <3>1. LevelRefers(q, l)
      <4>1. LevelRefers(q, Pl(q))
        BY <1>1, <1>2 DEF Sound, LevelsRefer
      <4> QED
        BY <1>2, <2>1, <4>1 DEF LevelRefers, Level
    <3>2. Stepping(l) => Stepping(Pl(q))
      BY <2>3 DEF LevelAlike
    <3>3. 1 \in {0, 1}
      OBVIOUS
    <3> QED
      BY <1>1, <2>2, <2>3, <3>1, <3>2, <3>3, SetPlSound DEF Sound
  <2>7. r = [q1 EXCEPT !.nested = q1.nested - 1]
    BY <1>5, <2>1, <2>2 DEF Closing, PopNest
  <2> QED
    BY <2>5, <2>6, <2>7, NestLikewise, LikewiseHolds
<1>6. CASE ~again /\ Pl(q).param = "none"
  <2>1. PICK q1 : q1 = PopNest(q)
    OBVIOUS
  <2>2. Sound(q1, 0, None, None)
    BY <1>1, <1>6, <2>1, PopNestSound
  <2>3. Plain(q1) /\ Held(q1)
    <3>1. q1 = [q EXCEPT !.nested = q.nested - 1]
      BY <2>1 DEF PopNest
    <3> QED
      BY <1>1, <3>1, NestLikewise, LikewiseHolds
  <2>4. r = EndOperator(q1)
    BY <1>6, <2>1 DEF Closing
  <2>5. Alike(q1, r)
    <3>1. q1.evs \in Seq(Event)
      BY <2>3 DEF Plain, Events
    <3> QED
      BY <2>2, <2>4, <3>1, EndOperatorAlike
  <2> QED
    BY <2>2, <2>3, <2>5, AlikeHolds
<1> QED
  BY <1>4, <1>5, <1>6

-----------------------------------------------------------------------------
(* Sequences that have nothing twice. *)

Elems(s) == {s[i] : i \in 1..Len(s)}
Distinct(s) == \A i, j \in 1..Len(s) : s[i] = s[j] => i = j

LEMMA ConcatDistinct ==
    ASSUME NEW S, NEW s \in Seq(S), NEW t \in Seq(S)
    PROVE  /\ s \o t \in Seq(S) /\ Elems(s \o t) = Elems(s) \union Elems(t)
           /\ Distinct(s) /\ Distinct(t) /\ Elems(s) \cap Elems(t) = {} => Distinct(s \o t)
<1>1. PICK u, m, n : u = s \o t /\ m = Len(s) /\ n = Len(t)
  OBVIOUS
<1>2. /\ u \in Seq(S) /\ Len(u) = m + n /\ m \in Nat /\ n \in Nat
      /\ \A i \in 1..m : u[i] = s[i]
      /\ \A i \in 1..(m + n) : ~(i <= m) => i - m \in 1..n /\ u[i] = t[i - m]
  BY <1>1, ConcatProperties
<1>3. \A i \in 1..n : m + i \in 1..(m + n) /\ u[m + i] = t[i]
  <2>1. ASSUME NEW i \in 1..n PROVE m + i \in 1..(m + n) /\ u[m + i] = t[i]
    <3>1. m + i \in 1..(m + n) /\ ~(m + i <= m) /\ (m + i) - m = i
      BY <1>2
    <3> QED
      BY <1>2, <3>1
  <2> QED
    BY <2>1
<1>4. Elems(u) = Elems(s) \union Elems(t)
  <2>1. ASSUME NEW x \in Elems(u) PROVE x \in Elems(s) \union Elems(t)
    <3>1. PICK i \in 1..(m + n) : x = u[i]
      BY <1>2 DEF Elems
    <3>2. CASE i <= m
      BY <1>1, <1>2, <3>1, <3>2 DEF Elems
    <3>3. CASE ~(i <= m)
      BY <1>1, <1>2, <3>1, <3>3 DEF Elems
    <3> QED
      BY <3>2, <3>3
  <2>2. ASSUME NEW x \in Elems(s) PROVE x \in Elems(u)
    BY <1>1, <1>2 DEF Elems
  <2>3. ASSUME NEW x \in Elems(t) PROVE x \in Elems(u)
    <3>1. PICK i \in 1..n : x = t[i]
      BY <1>1 DEF Elems
    <3> QED
      BY <1>2, <1>3, <3>1 DEF Elems
  <2> QED
    BY <2>1, <2>2, <2>3
<1>5. ASSUME Distinct(s), Distinct(t), Elems(s) \cap Elems(t) = {} PROVE Distinct(u)
  <2>1. ASSUME NEW i \in 1..(m + n), NEW j \in 1..(m + n), u[i] = u[j]
        PROVE  i = j
    <3>1. CASE i <= m /\ j <= m
      BY <1>1, <1>2, <1>5, <2>1, <3>1 DEF Distinct
    <3>2. CASE ~(i <= m) /\ ~(j <= m)
      <4>1. i - m \in 1..n /\ j - m \in 1..n /\ t[i - m] = t[j - m]
        BY <1>2, <2>1, <3>2
      <4>2. i - m = j - m
        BY <1>1, <1>5, <4>1 DEF Distinct
      <4> QED
        BY <1>2, <4>2
    <3>3. CASE i <= m /\ ~(j <= m)
      <4>1. s[i] = t[j - m] /\ i \in 1..m /\ j - m \in 1..n
        BY <1>2, <2>1, <3>3
      <4> QED
        BY <1>1, <1>5, <4>1 DEF Elems
    <3>4. CASE ~(i <= m) /\ j <= m
      <4>1. t[i - m] = s[j] /\ j \in 1..m /\ i - m \in 1..n
        BY <1>2, <2>1, <3>4
      <4> QED
        BY <1>1, <1>5, <4>1 DEF Elems
    <3> QED
      BY <3>1, <3>2, <3>3, <3>4
  <2> QED
    BY <1>2, <2>1 DEF Distinct
<1> QED
  BY <1>1, <1>2, <1>4, <1>5

LEMMA OneDistinct ==
    ASSUME NEW S, NEW x \in S
    PROVE  <<x>> \in Seq(S) /\ Elems(<<x>>) = {x} /\ Distinct(<<x>>)
<1>1. <<x>> \in Seq(S) /\ Len(<<x>>) = 1 /\ <<x>>[1] = x
  OBVIOUS
<1>2. 1..1 = {1}
  OBVIOUS
<1> QED
  BY <1>1, <1>2 DEF Elems, Distinct

LEMMA NoneDistinct ==
    ASSUME NEW S
    PROVE  <<>> \in Seq(S) /\ Elems(<<>>) = {} /\ Distinct(<<>>)
BY DEF Elems, Distinct

LEMMA AppendDistinct ==
    ASSUME NEW S, NEW s \in Seq(S), NEW x \in S
    PROVE  /\ Append(s, x) \in Seq(S) /\ Len(Append(s, x)) = Len(s) + 1
           /\ Elems(Append(s, x)) = Elems(s) \union {x}
           /\ Distinct(s) /\ x \notin Elems(s) => Distinct(Append(s, x))
<1>1. Append(s, x) = s \o <<x>> /\ Len(Append(s, x)) = Len(s) + 1
  OBVIOUS
<1>2. <<x>> \in Seq(S) /\ Elems(<<x>>) = {x} /\ Distinct(<<x>>)
  BY OneDistinct
<1>3. /\ s \o <<x>> \in Seq(S) /\ Elems(s \o <<x>>) = Elems(s) \union Elems(<<x>>)
      /\ Distinct(s) /\ Distinct(<<x>>) /\ Elems(s) \cap Elems(<<x>>) = {}
            => Distinct(s \o <<x>>)
  BY <1>2, ConcatDistinct
<1> QED
  BY <1>1, <1>2, <1>3, Zenon

LEMMA TailDistinct ==
    ASSUME NEW S, NEW s \in Seq(S), s # <<>>
    PROVE  /\ Head(s) \in S /\ Tail(s) \in Seq(S)
           /\ Elems(s) = {Head(s)} \union Elems(Tail(s))
           /\ Distinct(s) => Distinct(Tail(s)) /\ Head(s) \notin Elems(Tail(s))
<1>1. PICK t, n, h : t = Tail(s) /\ n = Len(s) /\ h = Head(s)
  OBVIOUS
<1>2. /\ h \in S /\ t \in Seq(S) /\ n \in Nat \ {0} /\ Len(t) = n - 1 /\ h = s[1]
      /\ \A i \in 1..(n - 1) : t[i] = s[i + 1] /\ i + 1 \in 1..n
  BY <1>1, HeadTailProperties
<1>3. \A i \in 1..n : i = 1 \/ (i - 1 \in 1..(n - 1) /\ t[i - 1] = s[i])
  <2>1. ASSUME NEW i \in 1..n, i # 1 PROVE i - 1 \in 1..(n - 1) /\ t[i - 1] = s[i]
    <3>1. i - 1 \in 1..(n - 1) /\ (i - 1) + 1 = i
      BY <1>2, <2>1
    <3> QED
      BY <1>2, <3>1
  <2> QED
    BY <2>1
<1>4. Elems(s) = {h} \union Elems(t)
  <2>1. ASSUME NEW x \in Elems(s) PROVE x \in {h} \union Elems(t)
    BY <1>1, <1>2, <1>3 DEF Elems
  <2>2. h \in Elems(s)
    BY <1>1, <1>2 DEF Elems
  <2>3. ASSUME NEW x \in Elems(t) PROVE x \in Elems(s)
    BY <1>1, <1>2 DEF Elems
  <2> QED
    BY <2>1, <2>2, <2>3
<1>5. ASSUME Distinct(s) PROVE Distinct(t) /\ h \notin Elems(t)
  <2>1. ASSUME NEW i \in 1..(n - 1), NEW j \in 1..(n - 1), t[i] = t[j] PROVE i = j
    <3>1. i + 1 = j + 1
      BY <1>1, <1>2, <1>5, <2>1 DEF Distinct
    <3> QED
      BY <1>2, <3>1
  <2>2. ASSUME NEW i \in 1..(n - 1), t[i] = h PROVE FALSE
    <3>1. i + 1 = 1
      BY <1>1, <1>2, <1>5, <2>2 DEF Distinct
    <3> QED
      BY <1>2, <3>1
  <2> QED
    BY <1>2, <2>1, <2>2 DEF Distinct, Elems
<1> QED
  BY <1>1, <1>2, <1>4, <1>5

LEMMA ReverseDistinct ==
    ASSUME NEW S, NEW s \in Seq(S)
    PROVE  /\ Reverse(s) \in Seq(S) /\ Elems(Reverse(s)) = Elems(s)
           /\ Distinct(s) => Distinct(Reverse(s))
<1>1. PICK t, n : t = Reverse(s) /\ n = Len(s)
  OBVIOUS
<1>2. /\ n \in Nat /\ Len(t) = n /\ t \in Seq(S)
      /\ \A i \in 1..n : t[i] = s[(n - i) + 1] /\ (n - i) + 1 \in 1..n
  BY <1>1 DEF Reverse
<1>3. \A i \in 1..n : s[i] = t[(n - i) + 1]
  <2>1. ASSUME NEW i \in 1..n PROVE s[i] = t[(n - i) + 1]
    <3>1. (n - i) + 1 \in 1..n /\ (n - ((n - i) + 1)) + 1 = i
      BY <1>2
    <3> QED
      BY <1>2, <3>1
  <2> QED
    BY <2>1
<1>4. Elems(t) = Elems(s)
  <2>1. ASSUME NEW x \in Elems(t) PROVE x \in Elems(s)
    BY <1>1, <1>2 DEF Elems
  <2>2. ASSUME NEW x \in Elems(s) PROVE x \in Elems(t)
    <3>1. PICK i \in 1..n : x = s[i]
      BY <1>1 DEF Elems
    <3> QED
      BY <1>2, <1>3, <3>1 DEF Elems
  <2> QED
    BY <2>1, <2>2
<1>5. ASSUME Distinct(s) PROVE Distinct(t)
  <2>1. ASSUME NEW i \in 1..n, NEW j \in 1..n, t[i] = t[j] PROVE i = j
    <3>1. PICK k \in 1..n, m \in 1..n : k = (n - i) + 1 /\ m = (n - j) + 1
      BY <1>2
    <3>2. s[k] = s[m]
      BY <1>2, <2>1, <3>1
    <3>3. k = m
      BY <1>1, <1>5, <3>2 DEF Distinct
    <3> QED
      BY <1>2, <3>1, <3>3
  <2> QED
    BY <1>2, <2>1 DEF Distinct
<1> QED
  BY <1>1, <1>2, <1>4, <1>5

LEMMA DistinctBound ==
    ASSUME NEW n \in Nat, NEW s \in Seq(1..n), Distinct(s)
    PROVE  Len(s) <= n
<1>1. Len(s) \in Nat /\ s \in [1..Len(s) -> 1..n]
  OBVIOUS
<1>2. s \in Injection(1..Len(s), 1..n)
  BY <1>1 DEF Distinct, Injection, IsInjective
<1>3. \A k \in Nat : IsFiniteSet(1..k) /\ Cardinality(1..k) = k
  <2>1. ASSUME NEW k \in Nat PROVE IsFiniteSet(1..k) /\ Cardinality(1..k) = k
    <3>1. 1 \in Int /\ k \in Int /\ (IF 1 > k THEN 0 ELSE k - 1 + 1) = k
      OBVIOUS
    <3> QED
      BY <3>1, FS_Interval
  <2> QED
    BY <2>1
<1> QED
  BY <1>2, <1>3, FS_Injection

-----------------------------------------------------------------------------
(* time_durgroup(): how the events of a group are gone through. *)

(* What comes next after event e. *)
Kids(es, e) ==
    Reverse(es[e].forks) \o (IF es[e].next = None THEN <<>> ELSE <<es[e].next>>)

WalkStep(es, s) ==
    IF s.todo = <<>> THEN s
    ELSE [done |-> Append(s.done, Head(s.todo)), todo |-> Kids(es, Head(s.todo)) \o Tail(s.todo)]

WalkFrom(es, g, w, i) ==
    IF i = 0 THEN [done |-> <<>>, todo |-> <<g>>] ELSE WalkStep(es, w[i - 1])

LEMMA KidsAre ==
    ASSUME NEW es \in Seq(Event), NEW g \in 1..Len(es), Tree(es, g), NEW e \in g..Len(es)
    PROVE  /\ Kids(es, e) \in Seq(g..Len(es)) /\ Distinct(Kids(es, e))
           /\ \A x \in Elems(Kids(es, e)) : Leads(es, e, x) /\ x \in g..Len(es) /\ x > e
           /\ \A x \in g..Len(es) : Leads(es, e, x) => x \in Elems(Kids(es, e))
<1>1. PICK n \in Nat \ {0}, w \in Event : n = Len(es) /\ w = es[e]
  OBVIOUS
<1>2. PICK fs, nx : fs = w.forks /\ nx = w.next
  OBVIOUS
<1>3. /\ fs \in Seq(Nat) /\ nx \in Nat
      /\ nx = None \/ nx \in (e + 1)..n
      /\ \A i \in DOMAIN fs : fs[i] \in (e + 1)..n /\ fs[i] # nx
      /\ \A i, j \in DOMAIN fs : fs[i] = fs[j] => i = j
  <2>1. /\ es[e].next = None \/ es[e].next \in (e + 1)..Len(es)
        /\ \A i \in DOMAIN es[e].forks : es[e].forks[i] \in (e + 1)..Len(es)
        /\ \A i \in DOMAIN es[e].forks : es[e].next # es[e].forks[i]
        /\ \A i, j \in DOMAIN es[e].forks : es[e].forks[i] = es[e].forks[j] => i = j
    BY DEF Tree
  <2>2. w.forks \in Seq(Nat) /\ w.next \in Nat
    BY DEF Event
  <2> QED
    BY <1>1, <1>2, <2>1, <2>2
<1>4. DOMAIN fs = 1..Len(fs) /\ Len(fs) \in Nat
  BY <1>3
<1>5. fs \in Seq(g..n) /\ Distinct(fs)
  <2>1. \A i \in 1..Len(fs) : fs[i] \in g..n
    BY <1>1, <1>3, <1>4
  <2>2. fs \in [1..Len(fs) -> g..n]
    BY <1>3, <1>4, <2>1
  <2>3. fs \in Seq(g..n)
    BY <1>4, <2>2
  <2> QED
    BY <1>3, <1>4, <2>3 DEF Distinct
<1>6. \A x : x \in Elems(fs) <=> \E i \in DOMAIN fs : fs[i] = x
  BY <1>4 DEF Elems
<1>7. PICK rs : rs = Reverse(fs)
  OBVIOUS
<1>8. rs \in Seq(g..n) /\ Distinct(rs) /\ Elems(rs) = Elems(fs)
  BY <1>5, <1>7, ReverseDistinct
<1>9. PICK ns : ns = IF nx = None THEN <<>> ELSE <<nx>>
  OBVIOUS
<1>10. ns \in Seq(g..n) /\ Distinct(ns) /\ Elems(ns) = IF nx = None THEN {} ELSE {nx}
  <2>1. CASE nx = None
    BY <1>9, <2>1, NoneDistinct
  <2>2. CASE nx # None
    <3>1. nx \in g..n
      BY <1>1, <1>3, <2>2
    <3> QED
      BY <1>9, <2>2, <3>1, OneDistinct
  <2> QED
    BY <2>1, <2>2
<1>11. Elems(rs) \cap Elems(ns) = {}
  BY <1>3, <1>6, <1>8, <1>10
<1>12. PICK ks : ks = rs \o ns
  OBVIOUS
<1>13. ks \in Seq(g..n) /\ Distinct(ks) /\ Elems(ks) = Elems(fs) \union Elems(ns)
  BY <1>8, <1>10, <1>11, <1>12, ConcatDistinct
<1>14. Kids(es, e) = ks
  BY <1>1, <1>2, <1>7, <1>9, <1>12 DEF Kids
<1>15. \A x : Leads(es, e, x) <=> x = nx \/ x \in Elems(fs)
  BY <1>1, <1>2, <1>6 DEF Leads
<1>16. ASSUME NEW x \in Elems(ks)
       PROVE  Leads(es, e, x) /\ x \in g..n /\ x > e
  <2>1. (x = nx /\ nx # None) \/ x \in Elems(fs)
    BY <1>10, <1>13
  <2>2. x \in (e + 1)..n
    BY <1>3, <1>6, <2>1
  <2> QED
    BY <1>1, <1>15, <2>1, <2>2
<1>17. ASSUME NEW x \in g..n, Leads(es, e, x) PROVE x \in Elems(ks)
  BY <1>1, <1>10, <1>13, <1>15, <1>17 DEF None
<1> QED
  BY <1>1, <1>13, <1>14, <1>16, <1>17

(* What has been gone through, and what it leads to, of the group. *)
Walked(es, g, s, i) ==
    /\ s.done \in Seq(g..Len(es)) /\ s.todo \in Seq(g..Len(es))
    /\ Distinct(s.done) /\ Distinct(s.todo) /\ Elems(s.done) \cap Elems(s.todo) = {}
    /\ g \in Elems(s.done) \union Elems(s.todo)
    /\ \A x \in Elems(s.done) \union Elems(s.todo) :
          x = g \/ \E e \in Elems(s.done) : Leads(es, e, x)
    /\ \A e \in Elems(s.done) : \A x \in g..Len(es) :
          Leads(es, e, x) => x \in Elems(s.done) \union Elems(s.todo)
    /\ s.todo # <<>> => Len(s.done) = i

LEMMA WalkStarts ==
    ASSUME NEW es \in Seq(Event), NEW g \in 1..Len(es),
           NEW s, s = [done |-> <<>>, todo |-> <<g>>]
    PROVE  Walked(es, g, s, 0)
<1>1. g \in g..Len(es) /\ s.done = <<>> /\ s.todo = <<g>> /\ Len(s.done) = 0
  OBVIOUS
<1>2. /\ s.done \in Seq(g..Len(es)) /\ s.todo \in Seq(g..Len(es))
      /\ Distinct(s.done) /\ Distinct(s.todo) /\ Elems(s.done) = {} /\ Elems(s.todo) = {g}
  BY <1>1, NoneDistinct, OneDistinct
<1> QED
  BY <1>1, <1>2 DEF Walked

(* Two events of a group do not lead to the same. *)
LEMMA LedToOnce ==
    ASSUME NEW es \in Seq(Event), NEW g \in 1..Len(es), Tree(es, g),
           NEW e \in g..Len(es), NEW f \in g..Len(es), NEW x \in g..Len(es),
           Leads(es, e, x), Leads(es, f, x)
    PROVE  e = f
<1>1. x # None
  BY DEF None
<1>2. /\ es[e].next # None /\ es[e].next = es[f].next => e = f
      /\ \A i \in DOMAIN es[f].forks : es[e].next # es[f].forks[i]
      /\ \A i \in DOMAIN es[e].forks : es[f].next # es[e].forks[i]
      /\ \A i \in DOMAIN es[e].forks : \A j \in DOMAIN es[f].forks :
            es[e].forks[i] = es[f].forks[j] => e = f
  BY Zenon DEF Tree
<1>3. es[e].next = x \/ \E i \in DOMAIN es[e].forks : es[e].forks[i] = x
  BY DEF Leads
<1>4. es[f].next = x \/ \E i \in DOMAIN es[f].forks : es[f].forks[i] = x
  BY DEF Leads
<1> QED
  BY <1>1, <1>2, <1>3, <1>4, Zenon

LEMMA WalkGoesOn ==
    ASSUME NEW es \in Seq(Event), NEW g \in 1..Len(es), Tree(es, g),
           NEW i \in Nat, NEW s, Walked(es, g, s, i), NEW t, t = WalkStep(es, s)
    PROVE  Walked(es, g, t, i + 1)
<1>1. CASE s.todo = <<>>
  BY <1>1 DEF Walked, WalkStep
<1>2. CASE s.todo # <<>>
  <2>1. PICK S, D, T : S = g..Len(es) /\ D = Elems(s.done) /\ T = Elems(s.todo)
    OBVIOUS
  <2>2. PICK e, tail, ks : e = Head(s.todo) /\ tail = Tail(s.todo) /\ ks = Kids(es, e)
    OBVIOUS
  <2>3. /\ s.done \in Seq(S) /\ s.todo \in Seq(S) /\ Distinct(s.done) /\ Distinct(s.todo)
        /\ D \cap T = {} /\ g \in D \union T
        /\ \A x \in D \union T : x = g \/ \E f \in D : Leads(es, f, x)
        /\ \A f \in D : \A x \in S : Leads(es, f, x) => x \in D \union T
        /\ Len(s.done) = i
    BY <1>2, <2>1 DEF Walked
  <2>4. /\ e \in S /\ tail \in Seq(S) /\ T = {e} \union Elems(tail)
        /\ Distinct(tail) /\ e \notin Elems(tail)
    BY <1>2, <2>1, <2>2, <2>3, TailDistinct
  <2>5. /\ ks \in Seq(S) /\ Distinct(ks)
        /\ \A x \in Elems(ks) : Leads(es, e, x) /\ x \in S /\ x > e
        /\ \A x \in S : Leads(es, e, x) => x \in Elems(ks)
    BY <2>1, <2>2, <2>4, KidsAre
  <2>6. t.done = Append(s.done, e) /\ t.todo = ks \o tail
    BY <1>2, <2>2 DEF WalkStep
  <2>7. D \subseteq S /\ T \subseteq S
    BY <2>1, <2>3 DEF Elems
  <2>8. \A x \in Elems(ks) : x \notin D \union T
    <3>1. ASSUME NEW x \in Elems(ks), x \in D \union T PROVE FALSE
      <4>1. Leads(es, e, x) /\ x \in S /\ x > e
        BY <2>5
      <4>2. x # g
        BY <2>1, <2>4, <4>1
      <4>3. PICK f \in D : Leads(es, f, x)
        BY <2>3, <3>1, <4>2
      <4>4. e = f
        BY <2>1, <2>4, <2>7, <4>1, <4>3, LedToOnce
      <4> QED
        BY <2>3, <2>4, <4>3, <4>4
    <3> QED
      BY <3>1
  <2>9. /\ t.done \in Seq(S) /\ Distinct(t.done) /\ Elems(t.done) = D \union {e}
        /\ Len(t.done) = i + 1
    <3>1. e \notin Elems(s.done)
      BY <2>1, <2>3, <2>4
    <3> QED
      BY <2>1, <2>3, <2>4, <2>6, <3>1, AppendDistinct
  <2>10. /\ t.todo \in Seq(S) /\ Distinct(t.todo)
         /\ Elems(t.todo) = Elems(ks) \union Elems(tail)
    <3>1. Elems(ks) \cap Elems(tail) = {}
      BY <2>4, <2>8
    <3> QED
      BY <2>4, <2>5, <2>6, <3>1, ConcatDistinct
  <2>11. Elems(t.done) \cap Elems(t.todo) = {}
    BY <2>3, <2>4, <2>8, <2>9, <2>10
  <2>12. g \in Elems(t.done) \union Elems(t.todo)
    BY <2>3, <2>4, <2>9, <2>10
  <2>13. ASSUME NEW x \in Elems(t.done) \union Elems(t.todo)
         PROVE  x = g \/ \E f \in Elems(t.done) : Leads(es, f, x)
    BY <2>3, <2>4, <2>5, <2>9, <2>10
  <2>14. ASSUME NEW f \in Elems(t.done), NEW x \in S, Leads(es, f, x)
         PROVE  x \in Elems(t.done) \union Elems(t.todo)
    BY <2>3, <2>4, <2>5, <2>9, <2>10, <2>14
  <2> QED
    BY <2>1, <2>9, <2>10, <2>11, <2>12, <2>13, <2>14 DEF Walked
<1> QED
  BY <1>1, <1>2

(* Such walks there are, for no length is it the first that has none. *)
WalksTo(es, g, m, w) ==
    w = [i \in 0..m |-> WalkFrom(es, g, w, i)]

LEMMA WalkExtends ==
    ASSUME NEW es, NEW g, NEW m \in Nat, m = 0 \/ \E v : WalksTo(es, g, m - 1, v)
    PROVE  \E w : WalksTo(es, g, m, w)
<1>1. PICK v : m = 0 \/ WalksTo(es, g, m - 1, v)
  OBVIOUS
<1>2. PICK last : last = WalkFrom(es, g, v, m)
  OBVIOUS
<1>3. PICK w : w = [i \in 0..m |-> IF i = m THEN last ELSE v[i]]
  OBVIOUS
<1>4. ASSUME NEW i \in 0..m
      PROVE  w[i] = WalkFrom(es, g, w, i)
  <2>1. i = 0 \/ (i - 1 \in 0..m /\ i - 1 # m /\ w[i - 1] = v[i - 1])
    <3>1. i # 0 => i - 1 \in 0..m /\ i - 1 # m
      OBVIOUS
    <3> QED
      BY <1>3, <3>1
  <2>2. WalkFrom(es, g, w, i) = WalkFrom(es, g, v, i)
    BY <2>1 DEF WalkFrom
  <2>3. CASE i = m
    BY <1>2, <1>3, <2>2, <2>3
  <2>4. CASE i # m
    <3>1. i \in 0..(m - 1) /\ m # 0
      BY <2>4
    <3>2. v[i] = WalkFrom(es, g, v, i)
      BY <1>1, <3>1, Zenon DEF WalksTo
    <3> QED
      BY <1>3, <2>2, <2>4, <3>2
  <2> QED
    BY <2>3, <2>4
<1>5. w = [i \in 0..m |-> WalkFrom(es, g, w, i)]
  <2>1. w = [i \in 0..m |-> w[i]]
    BY <1>3
  <2> QED
    BY <1>4, <2>1, Zenon
<1> QED
  BY <1>5 DEF WalksTo

LEMMA WalkExists ==
    ASSUME NEW es, NEW g, NEW n \in Nat
    PROVE  \E w : WalksTo(es, g, n, w)
<1> DEFINE Without == {k \in Nat : ~\E w : WalksTo(es, g, k, w)}
<1>1. ASSUME Without # {} PROVE FALSE
  <2>1. PICK k \in Without : \A j \in Without : k <= j
    BY <1>1, LeastNatural
  <2>2. k \in Nat /\ ~\E w : WalksTo(es, g, k, w)
    BY <2>1
  <2>3. k = 0 \/ \E w : WalksTo(es, g, k - 1, w)
    <3>1. CASE k # 0
      <4>1. k - 1 \in Nat /\ ~(k <= k - 1)
        BY <2>2, <3>1
      <4>2. k - 1 \notin Without
        BY <2>1, <4>1
      <4> QED
        BY <4>1, <4>2
    <3> QED
      BY <3>1
  <2> QED
    BY <2>2, <2>3, WalkExtends
<1> QED
  BY <1>1

LEMMA WalkKeeps ==
    ASSUME NEW es \in Seq(Event), NEW g \in 1..Len(es), Tree(es, g),
           NEW n \in Nat, NEW w, WalksTo(es, g, n, w), NEW m \in 0..n
    PROVE  Walked(es, g, w[m], m)
<1> DEFINE Other == {k \in 0..n : ~Walked(es, g, w[k], k)}
<1>1. \A i \in 0..n : w[i] = WalkFrom(es, g, w, i)
  BY Zenon DEF WalksTo
<1>2. ASSUME Other # {} PROVE FALSE
  <2>1. Other \subseteq Nat
    OBVIOUS
  <2>2. PICK k \in Other : \A j \in Other : k <= j
    BY <1>2, <2>1, LeastNatural
  <2>3. k \in 0..n /\ ~Walked(es, g, w[k], k)
    BY <2>2
  <2>4. CASE k = 0
    <3>1. w[k] = [done |-> <<>>, todo |-> <<g>>]
      BY <1>1, <2>3, <2>4 DEF WalkFrom
    <3> QED
      BY <2>3, <2>4, <3>1, WalkStarts
  <2>5. CASE k # 0
    <3>1. PICK j \in Nat : k = j + 1
      <4>1. k - 1 \in Nat /\ k = (k - 1) + 1
        BY <2>3, <2>5
      <4> QED
        BY <4>1
    <3>2. j \in 0..n /\ ~(k <= j) /\ k - 1 = j
      BY <2>3, <3>1
    <3>3. Walked(es, g, w[j], j)
      BY <2>2, <3>2
    <3>4. w[k] = WalkStep(es, w[j])
      BY <1>1, <2>3, <2>5, <3>2 DEF WalkFrom
    <3> QED
      BY <2>3, <3>1, <3>3, <3>4, WalkGoesOn
  <2> QED
    BY <2>4, <2>5
<1> QED
  BY <1>2

(* All of the group, and nothing twice. *)
Whole(es, g, flat) ==
    /\ flat \in Seq(g..Len(es)) /\ Distinct(flat) /\ Elems(flat) = g..Len(es)

LEMMA WalkWhole ==
    ASSUME NEW es \in Seq(Event), NEW g \in 1..Len(es), Tree(es, g),
           NEW s, Walked(es, g, s, Len(es))
    PROVE  Whole(es, g, s.done)
<1>1. PICK n \in Nat : n = Len(es)
  OBVIOUS
<1>2. /\ s.done \in Seq(g..n) /\ s.todo \in Seq(g..n)
      /\ Distinct(s.done) /\ Elems(s.done) \cap Elems(s.todo) = {}
      /\ g \in Elems(s.done) \union Elems(s.todo)
      /\ \A e \in Elems(s.done) : \A x \in g..n :
            Leads(es, e, x) => x \in Elems(s.done) \union Elems(s.todo)
      /\ s.todo # <<>> => Len(s.done) = n
  BY <1>1 DEF Walked
<1>3. ASSUME s.todo # <<>> PROVE FALSE
  <2>1. PICK x : x = Head(s.todo)
    OBVIOUS
  <2>2. x \in g..n /\ x \in Elems(s.todo)
    BY <1>2, <1>3, <2>1, TailDistinct
  <2>3. PICK t : t = Append(s.done, x)
    OBVIOUS
  <2>4. t \in Seq(g..n) /\ Len(t) = n + 1 /\ Distinct(t)
    <3>1. x \notin Elems(s.done)
      BY <1>2, <2>2
    <3>2. PICK S, d : S = g..n /\ d = s.done
      OBVIOUS
    <3>3. d \in Seq(S) /\ x \in S /\ Distinct(d) /\ x \notin Elems(d) /\ Len(d) = n
      BY <1>2, <1>3, <2>2, <3>1, <3>2
    <3>4. t \in Seq(S) /\ Len(t) = Len(d) + 1 /\ Distinct(t)
      BY <2>3, <3>2, <3>3, AppendDistinct
    <3> QED
      BY <3>2, <3>3, <3>4
  <2>5. t \in Seq(1..n)
    <3>1. g..n \subseteq 1..n
      BY <1>1
    <3> QED
      BY <2>4, <3>1
  <2>6. Len(t) <= n
    BY <2>4, <2>5, DistinctBound
  <2> QED
    BY <2>4, <2>6
<1>4. Elems(s.todo) = {}
  BY <1>3 DEF Elems
<1> DEFINE Missing == {x \in g..n : x \notin Elems(s.done)}
<1>5. ASSUME Missing # {} PROVE FALSE
  <2>1. Missing \subseteq Nat
    BY <1>1
  <2>2. PICK x \in Missing : \A y \in Missing : x <= y
    BY <1>5, <2>1, LeastNatural
  <2>3. x \in (g + 1)..n
    BY <1>1, <1>2, <1>4, <2>2
  <2>4. PICK e \in g..n : Leads(es, e, x)
    BY <1>1, <2>3 DEF Tree
  <2>5. e < x
    <3>1. x \in Elems(Kids(es, e))
      BY <1>1, <2>3, <2>4, KidsAre
    <3>2. x > e
      BY <1>1, <3>1, KidsAre
    <3> QED
      BY <1>1, <2>3, <3>2
  <2>6. e \in Elems(s.done)
    BY <1>1, <2>2, <2>3, <2>5
  <2>7. x \in g..n /\ x \notin Elems(s.done)
    BY <2>2
  <2> QED
    BY <1>2, <1>4, <2>4, <2>6, <2>7
<1>6. Elems(s.done) \subseteq g..n
  BY <1>2 DEF Elems
<1> QED
  BY <1>1, <1>2, <1>5, <1>6 DEF Whole

LEMMA FlattenedWhole ==
    ASSUME NEW es \in Seq(Event), NEW g \in 1..Len(es), Tree(es, g)
    PROVE  Whole(es, g, Flattened(es, g))
<1>1. PICK n \in Nat : n = Len(es)
  OBVIOUS
<1>2. PICK f : f = CHOOSE w : w = [i \in 0..n |-> WalkFrom(es, g, w, i)]
  OBVIOUS
<1>3. Flattened(es, g) = f[n].done
  BY <1>1, <1>2, Zenon DEF Flattened, WalkFrom, WalkStep, Kids
<1>4. WalksTo(es, g, n, f)
  <2>1. PICK v : v = [i \in 0..n |-> WalkFrom(es, g, v, i)]
    BY WalkExists DEF WalksTo
  <2>2. f = [i \in 0..n |-> WalkFrom(es, g, f, i)]
    BY <1>2, <2>1, Zenon
  <2> QED
    BY <2>2 DEF WalksTo
<1>5. Walked(es, g, f[n], n)
  <2>1. n \in 0..n
    OBVIOUS
  <2> QED
    BY <1>4, <2>1, WalkKeeps
<1> QED
  BY <1>1, <1>3, <1>5, WalkWhole

ConvertedFrom(w, v) ==
    /\ v \in Event /\ v.wait = w.wait /\ v.owed = w.owed
    /\ v.converted = IF w.converted < 2 THEN w.converted + 1 ELSE w.converted

LEMMA EventConverts ==
    ASSUME NEW w \in Event, NEW nx \in Nat,
           NEW v, v = [w EXCEPT !.forks = <<>>, !.next = nx,
                                !.converted = IF @ < 2 THEN @ + 1 ELSE @]
    PROVE  ConvertedFrom(w, v)
<1>1. PICK c \in Nat : c = IF w.converted < 2 THEN w.converted + 1 ELSE w.converted
  BY DEF Event
<1>2. <<>> \in Seq(Nat)
  OBVIOUS
<1>3. v = [w EXCEPT !.forks = <<>>, !.next = nx, !.converted = c]
  BY <1>1
<1>4. v \in Event /\ v.wait = w.wait /\ v.owed = w.owed /\ v.converted = c
  BY <1>2, <1>3 DEF Event
<1> QED
  BY <1>1, <1>4 DEF ConvertedFrom

LEMMA GroupConverts ==
    ASSUME NEW es \in Seq(Event), NEW g \in 1..Len(es), NEW flat, Whole(es, g, flat),
           NEW t, t = Converted(es, flat)
    PROVE  /\ t \in Seq(Event) /\ Len(t) = Len(es) /\ Last(flat) \in 1..Len(es)
           /\ \A e \in 1..Len(es) :
                 IF e \in g..Len(es) THEN ConvertedFrom(es[e], t[e]) ELSE t[e] = es[e]
<1>1. PICK n \in Nat : n = Len(es)
  OBVIOUS
<1>2. PICK m : m = Len(flat)
  OBVIOUS
<1>3. /\ flat \in Seq(g..n) /\ m \in Nat /\ \A i \in 1..m : flat[i] \in g..n
      /\ DOMAIN flat = 1..m /\ DOMAIN es = 1..n
  BY <1>1, <1>2 DEF Whole
<1>4. \A e : Contains(flat, e) <=> e \in g..n
  BY <1>1, <1>2 DEF Whole, Contains, Elems
<1>5. Last(flat) \in 1..n
  <2>1. g \in Elems(flat)
    BY DEF Whole
  <2>2. m \in 1..m
    BY <1>1, <1>2, <1>3, <2>1 DEF Elems
  <2>3. flat[m] \in g..n
    BY <1>3, <2>2
  <2> QED
    BY <1>1, <1>2, <2>3 DEF Last
<1>6. t = [e \in DOMAIN es |-> IF ~Contains(flat, e) THEN es[e] ELSE ConvertedEvent(es, flat, e)]
  BY Zenon DEF Converted, ConvertedEvent
<1>7. ASSUME NEW e \in 1..n, e \in g..n
      PROVE  ConvertedFrom(es[e], t[e])
  <2>1. PICK w \in Event : w = es[e]
    BY <1>1
  <2>2. PICK i : i = CHOOSE j \in DOMAIN flat : flat[j] = e
    OBVIOUS
  <2>3. i \in 1..m
    <3>1. \E j \in DOMAIN flat : flat[j] = e
      BY <1>3, <1>4, <1>1, <1>2, <1>7 DEF Contains
    <3> QED
      BY <1>3, <2>2, <3>1
  <2>4. PICK nx : nx = IF i < m THEN flat[i + 1] ELSE None
    OBVIOUS
  <2>5. nx \in Nat
    <3>1. i < m => flat[i + 1] \in g..n
      BY <1>3, <2>3
    <3> QED
      BY <1>1, <1>2, <2>4, <3>1 DEF None
  <2>6. t[e] = ConvertedEvent(es, flat, e)
    BY <1>3, <1>4, <1>6, <1>7
  <2>7. t[e] = [w EXCEPT !.forks = <<>>, !.next = nx,
                         !.converted = IF @ < 2 THEN @ + 1 ELSE @]
    BY <1>1, <1>2, <2>1, <2>2, <2>4, <2>6 DEF ConvertedEvent
  <2> QED
    BY <2>1, <2>5, <2>7, EventConverts
<1>8. ASSUME NEW e \in 1..n, e \notin g..n
      PROVE  t[e] = es[e]
  BY <1>3, <1>4, <1>6, <1>8
<1>9. t \in Seq(Event) /\ Len(t) = n
  <2>1. ASSUME NEW e \in 1..n PROVE t[e] \in Event
    <3>1. CASE e \in g..n
      BY <1>7, <3>1 DEF ConvertedFrom
    <3>2. CASE e \notin g..n
      BY <1>1, <1>2, <1>8, <3>2
    <3> QED
      BY <3>1, <3>2
  <2>2. DOMAIN t = 1..n /\ t = [e \in 1..n |-> t[e]]
    BY <1>3, <1>6
  <2>3. t \in [1..n -> Event]
    BY <2>1, <2>2
  <2> QED
    BY <2>3
<1> QED
  BY <1>1, <1>2, <1>5, <1>7, <1>8, <1>9

Finished(p, carry, r) ==
    LET due == p.group_event # None /\ carry
    IN  /\ Events(r) /\ r.group_event = None
        /\ r.owed = (p.owed \/ due) /\ Pl(r).carry = (Pl(p).carry \/ due)
        /\ Top(r) = Top(p) /\ Pl(r) = r.levels[Top(r)]
        /\ Pl(r).sub = Pl(p).sub /\ Pl(r).event = Pl(p).event /\ Pl(r).scope = Pl(p).scope
        /\ r.nodes = p.nodes /\ r.objs = p.objs /\ r.slots = p.slots

(* What time_durgroup() makes of the group, without a delay for what       *)
(* follows: q has had the wait taken away.                                 *)
LEMMA GroupFinishes ==
    ASSUME NEW p, Events(p), p.group_event # None, NEW q, q.evs = p.evs, SameGroups(p, q),
           NEW carry \in BOOLEAN, NEW flat, flat = Flattened(p.evs, p.group_event),
           NEW r, r.evs = Converted(q.evs, flat), r.last_event = Last(flat),
           r.group_event = None, r.owed = (q.owed \/ carry)
    PROVE  Events(r)
<1>1. PICK es, g : es = p.evs /\ g = p.group_event
  OBVIOUS
<1>2. /\ es \in Seq(Event) /\ g \in 1..Len(es) /\ Tree(es, g) /\ Group(p) = g..Len(es)
      /\ Len(es) \in Nat /\ DOMAIN es = 1..Len(es)
  BY <1>1, GroupIs DEF Events
<1>3. Whole(es, g, flat)
  BY <1>1, <1>2, FlattenedWhole
<1>4. PICK t : t = Converted(es, flat)
  OBVIOUS
<1>5. /\ t \in Seq(Event) /\ Len(t) = Len(es) /\ Last(flat) \in 1..Len(es)
      /\ \A e \in 1..Len(es) :
            IF e \in g..Len(es) THEN ConvertedFrom(es[e], t[e]) ELSE t[e] = es[e]
  BY <1>2, <1>3, <1>4, GroupConverts
<1>6. r.evs = t
  BY <1>1, <1>4
<1>7. ASSUME NEW e \in DOMAIN t
      PROVE  t[e].converted = 1 /\ (t[e].owed => t[e].wait)
  <2>1. e \in 1..Len(es)
    BY <1>2, <1>5
  <2>2. es[e].converted = (IF e \in g..Len(es) THEN 0 ELSE 1) /\ (es[e].owed => es[e].wait)
    BY <1>1, <1>2, <2>1 DEF Events
  <2>3. CASE e \in g..Len(es)
    BY <1>5, <2>1, <2>2, <2>3 DEF ConvertedFrom
  <2>4. CASE e \notin g..Len(es)
    BY <1>5, <2>1, <2>2, <2>4
  <2> QED
    BY <2>3, <2>4
<1>8. Group(r) = {}
  BY DEF Group
<1>9. r.owed \in BOOLEAN
  OBVIOUS
<1> QED
  BY <1>2, <1>5, <1>6, <1>7, <1>8, <1>9 DEF Events, None

LEMMA FinishDurgroupHolds ==
    ASSUME NEW p, Sound(p, 0, None, None), Events(p), NEW carry \in BOOLEAN,
           NEW r, r = FinishDurgroup(p, carry)
    PROVE  Finished(p, carry, r)
<1>1. PICK l \in Level : l = Pl(p)
  BY TopLevelOf DEF Sound
<1>2. PICK m : m = [l EXCEPT !.wait = FALSE]
  OBVIOUS
<1>3. /\ Incidental(l, m) /\ m.sub = l.sub /\ m.op = l.op /\ m.carry = l.carry
      /\ m.event = l.event /\ m.scope = l.scope /\ m \in Level
  BY <1>1, <1>2 DEF Incidental, Level, SameLevel
<1>4. PICK q : q = SetPl(p, m)
  OBVIOUS
<1>5. /\ Sound(q, 0, None, None) /\ Pl(q) = m /\ Shape(q) /\ Top(q) = Top(p)
      /\ q.evs = p.evs /\ q.nodes = p.nodes /\ q.objs = p.objs /\ q.slots = p.slots
  <2>1. Stepping(m) => Stepping(Pl(p))
    BY <1>1, <1>3 DEF Stepping
  <2>2. /\ Sound(q, 0, None, None) /\ SamePlace(p, q) /\ Pl(q) = m
        /\ Is(q, q.levels, p.slots, p.nested, p.nodes, p.objs, p.evs, p.labels, p.options)
    BY <1>1, <1>3, <1>4, <2>1, IncidentalSound
  <2> QED
    BY <2>2 DEF Is, SamePlace
<1>6. SameGroups(p, q)
  BY <1>4, SetPlKeeps DEF Sound, SameGroups
<1>7. Pl(q) = q.levels[Top(q)]
  BY <1>5, OpsOf
<1>8. CASE p.group_event = None
  <2>1. r = q
    BY <1>1, <1>2, <1>4, <1>8 DEF FinishDurgroup
  <2>2. Events(q)
    <3>1. SameGroup(p, q)
      BY <1>5, <1>6 DEF SameGroup, SameLinks, SameGroups, Events
    <3> QED
      BY <3>1, GroupSame
  <2>3. p.owed \in BOOLEAN /\ l.carry \in BOOLEAN
    BY <1>1 DEF Events, Level
  <2> QED
    BY <1>1, <1>3, <1>5, <1>6, <1>7, <1>8, <2>1, <2>2, <2>3 DEF Finished, SameGroups
<1>9. CASE p.group_event # None
  <2>1. PICK flat : flat = Flattened(p.evs, p.group_event)
    OBVIOUS
  <2>2. PICK q1 : q1 = [q EXCEPT !.evs = Converted(@, flat), !.last_event = Last(flat),
                                 !.group_event = None, !.owed = @ \/ carry]
    OBVIOUS
  <2>3. /\ Shape(q1) /\ q1.levels = q.levels /\ q1.nodes = q.nodes /\ q1.objs = q.objs
        /\ q1.slots = q.slots /\ q1.evs = Converted(q.evs, flat)
        /\ q1.last_event = Last(flat) /\ q1.group_event = None /\ q1.owed = (q.owed \/ carry)
    BY <1>5, <2>2 DEF Shape
  <2>4. Events(q1)
    BY <1>5, <1>6, <1>9, <2>1, <2>3, GroupFinishes
  <2>5. PICK b \in BOOLEAN : b = (m.carry \/ carry)
    BY Zenon
  <2>6. PICK k : k = [m EXCEPT !.carry = b]
    OBVIOUS
  <2>7. k.sub = m.sub /\ k.event = m.event /\ k.scope = m.scope /\ k.carry = b /\ k \in Level
    BY <1>3, <2>6 DEF Level
  <2>8. r = SetPl(q1, k)
    <3>1. k = [m EXCEPT !.carry = @ \/ carry]
      BY <2>5, <2>6
    <3>2. r = SetPl([q EXCEPT !.evs = Converted(@, flat), !.last_event = Last(flat),
                              !.group_event = None, !.owed = @ \/ carry],
                    [Pl(q) EXCEPT !.carry = @ \/ carry])
      BY <1>1, <1>2, <1>4, <1>9, <2>1 DEF FinishDurgroup
    <3> QED
      BY <1>5, <2>2, <3>1, <3>2
  <2>9. /\ r.levels = [q.levels EXCEPT ![Top(q1)] = k] /\ r.nodes = q.nodes
        /\ r.objs = q.objs /\ r.slots = q.slots /\ r.evs = q1.evs /\ SameGroups(q1, r)
    <3>1. Is(r, [q1.levels EXCEPT ![Top(q1)] = k], q1.slots, q1.nested,
             q1.nodes, q1.objs, q1.evs, q1.labels, q1.options)
      BY <2>3, <2>8, SetPlIs
    <3> QED
      BY <2>3, <2>8, <3>1, SetPlKeeps DEF Is, SameGroups
  <2>10. /\ Top(r) = Top(q) /\ Pl(r) = k /\ r.levels[Top(r)] = k
    <3>1. q.levels \in Seq(Level) /\ Top(q) \in 1..Top(q) /\ Top(q1) = Top(q)
      BY <1>5, <2>3, TopLevelOf DEF Sound, Top
    <3> QED
      BY <2>9, <3>1 DEF Top, Pl
  <2>11. Events(r) /\ r.group_event = None /\ r.owed = (p.owed \/ carry)
    <3>1. SameGroup(q1, r)
      BY <2>4, <2>9 DEF SameGroup, SameLinks, SameGroups, Events
    <3>2. Events(r)
      BY <2>4, <3>1, GroupSame
    <3> QED
      BY <1>6, <2>3, <2>9, <3>2 DEF SameGroups
  <2> QED
    BY <1>1, <1>3, <1>5, <1>9, <2>5, <2>7, <2>9, <2>10, <2>11 DEF Finished
<1> QED
  BY <1>8, <1>9

(* end_event() leaves the group and the lists as they are. *)
LEMMA EndedEventPlain ==
    ASSUME NEW p, Sound(p, 0, None, None), Plain(p), NEW q, q = EndEvent(p)
    PROVE  /\ Plain(q) /\ Sound(q, 0, None, None) /\ SameGroups(p, q)
           /\ Top(q) = Top(p) /\ Pl(q).carry = Pl(p).carry /\ Pl(q).scope = Pl(p).scope
           /\ Pl(q).event = IF Pl(p).own_ev THEN None ELSE Pl(p).event
<1>1. /\ Sound(q, 0, None, None) /\ Kept(p, q) /\ q.evs = p.evs
      /\ Pl(q).carry = Pl(p).carry
  BY EndEventSound
<1>2. /\ q.group_event = p.group_event /\ q.last_event = p.last_event
      /\ q.owed = p.owed /\ Pl(q).op \in {None, Pl(p).op}
      /\ Pl(q).event = IF Pl(p).own_ev THEN None ELSE Pl(p).event
  BY EndEventKeeps
<1>3. Events(q)
  <2>1. SameGroup(p, q)
    BY <1>1, <1>2 DEF SameGroup, SameLinks, Plain, Events
  <2> QED
    BY <2>1, GroupSame DEF Plain
<1>4. ListsHold(q)
  <2>1. /\ OpsRefer(p) /\ NodesEnd(p) /\ ModsEnd(p) /\ Pl(p) = p.levels[Top(p)]
        /\ Pl(q) = q.levels[Top(q)]
    BY <1>1, OpsOf, NodesEndOf DEF Sound
  <2>2. ListsAlike(p, q)
    BY <1>1, <1>2, <2>1, KeptToLists
  <2> QED
    BY <2>1, <2>2, AlikeLists DEF Plain
<1> QED
  BY <1>1, <1>2, <1>3, <1>4 DEF Plain, SameGroups, Kept

LEMMA FinishedLists ==
    ASSUME NEW p, ListsHold(p), NEW carry, NEW r, Finished(p, carry, r)
    PROVE  ListsHold(r)
<1>1. r.nodes = p.nodes /\ r.objs = p.objs /\ r.slots = p.slots
  BY DEF Finished
<1> QED
  BY <1>1 DEF ListsHold, ListFor, Parent

(* '|': it is at the first level, where the steps have come to their end.  *)
LEMMA SeparatorHolds ==
    ASSUME NEW p, Good(p), Plain(p), Held(p), p.nested = 0, NEW carry \in BOOLEAN,
           NEW q, q = EndEvent(p),
           NEW r, r = FinishDurgroup(SetPl(q, [Pl(q) EXCEPT !.sub = "none"]), carry)
    PROVE  Plain(r) /\ Held(r)
<1>1. Sound(p, 0, None, None) /\ Typed(p) /\ Top(p) \in Nat \ {0} /\ Pl(p) = p.levels[Top(p)]
  BY TopOfGood DEF Good
<1>2. Top(p) = 1
  <2>1. ASSUME Top(p) > 1 PROVE FALSE
    <3>1. Top(p) \in 1..Top(p)
      BY <1>1
    <3>2. p.levels[Top(p)].scope = "nest"
      BY <2>1, <3>1 DEF Held, LevelsHold, LevelHolds
    <3>3. Place(p.levels, Top(p)) \in 1..MaxLevels
      BY <1>1, <3>1, <3>2, NestPlace
    <3> QED
      BY <1>1, <3>3 DEF Sound, Nested
  <2> QED
    BY <1>1, <2>1
<1>3. /\ Plain(q) /\ Sound(q, 0, None, None) /\ SameGroups(p, q)
      /\ Top(q) = 1 /\ Pl(q).carry = Pl(p).carry /\ Pl(q).scope = Pl(p).scope
      /\ Pl(q).event = IF Pl(p).own_ev THEN None ELSE Pl(p).event
  BY <1>1, <1>2, EndedEventPlain
<1>4. Pl(q).event = None
  BY <1>1, <1>2, <1>3 DEF Held, LevelsHold
<1>5. PICK k \in Level : k = Pl(q)
  BY <1>3, TopOfGood
<1>6. PICK l : l = [k EXCEPT !.sub = "none"]
  OBVIOUS
<1>7. /\ Incidental(k, l) /\ l.sub = "none" /\ l.event = k.event /\ l.carry = k.carry
      /\ ~Stepping(l) /\ l \in Level /\ LevelAlike(k, l)
  BY <1>6 DEF Incidental, Level, SameLevel, Stepping, LevelAlike
<1>8. PICK q2 : q2 = SetPl(q, l)
  OBVIOUS
<1>9. Sound(q2, 0, None, None) /\ Pl(q2) = l /\ Top(q2) = 1
  BY <1>3, <1>5, <1>7, <1>8, IncidentalSound DEF SamePlace
<1>10. Plain(q2) /\ SameGroups(q, q2)
  <2>1. q.evs \in Seq(Event)
    BY <1>3 DEF Plain, Events
  <2>2. Alike(q, q2)
    BY <1>3, <1>5, <1>7, <1>8, <2>1, SetPlAlike
  <2>3. OpsRefer(q) /\ NodesEnd(q) /\ ModsEnd(q)
    BY <1>3, OpsOf, NodesEndOf DEF Sound
  <2>4. Events(q2)
    BY <1>3, <2>2, <2>3, AlikeSteps DEF Alike, Plain
  <2>5. ListsHold(q2)
    BY <1>3, <2>2, <2>3, AlikeToLists, AlikeLists DEF Plain
  <2> QED
    BY <2>2, <2>4, <2>5 DEF Plain, Alike, LevelsAlike, SameGroup, SameGroups
<1>11. r = FinishDurgroup(q2, carry)
  BY <1>5, <1>6, <1>8
<1>12. Finished(q2, carry, r)
  BY <1>9, <1>10, <1>11, FinishDurgroupHolds DEF Plain
<1>13. Events(r) /\ ListsHold(r)
  BY <1>10, <1>12, FinishedLists DEF Finished, Plain
<1>14. /\ Top(r) = 1 /\ ~Stepping(r.levels[1]) /\ r.levels[1].event = None
       /\ r.levels[1].carry = Pl(r).carry
  BY <1>3, <1>4, <1>5, <1>7, <1>9, <1>12 DEF Finished, Stepping
<1>15. r.owed => r.levels[1].carry
  <2>1. p.owed => Pl(p).carry
    BY <1>1, <1>2 DEF Held, LevelsHold, OwedHolds
  <2>2. p.owed = q2.owed /\ Pl(q2).carry = Pl(p).carry
    BY <1>3, <1>5, <1>7, <1>9, <1>10 DEF SameGroups
  <2> QED
    BY <1>12, <1>14, <2>1, <2>2 DEF Finished
<1>16. \A i \in 1..Top(r) : i = 1
  BY <1>14
<1>17. LevelsHold(r)
  <2>1. \A i \in 1..Top(r) : LevelHolds(r, i)
    BY <1>14, <1>16 DEF LevelHolds
  <2>2. StepsHold(r, Top(r))
    BY <1>14, <1>16 DEF StepsHold, Follows
  <2> QED
    BY <1>14, <1>15, <2>1, <2>2 DEF LevelsHold, OwedHolds
<1>18. LastsHold(r)
  BY <1>14, <1>16 DEF LastsHold
<1> QED
  BY <1>13, <1>17, <1>18 DEF Plain, Held

(* The end of the script: no group is left. *)
LEMMA EndOfScriptHolds ==
    ASSUME NEW p, Good(p), Plain(p), Held(p),
           NEW r, r = FinishDurgroup(EndEvent(EndOperator(p)), FALSE)
    PROVE  Plain(r) /\ r.group_event = None
<1>1. Sound(p, 0, None, None) /\ Pl(p).param = "none"
  BY TopOfGood DEF Good
<1>2. PICK q : q = EndOperator(p)
  OBVIOUS
<1>3. Sound(q, 0, None, None)
  BY <1>1, <1>2, EndOperatorSound
<1>4. Plain(q)
  <2>1. p.evs \in Seq(Event)
    BY DEF Plain, Events
  <2>2. Alike(p, q)
    BY <1>1, <1>2, <2>1, EndOperatorAlike
  <2> QED
    BY <1>1, <2>2, AlikeHolds
<1>5. PICK q2 : q2 = EndEvent(q)
  OBVIOUS
<1>6. Plain(q2) /\ Sound(q2, 0, None, None)
  BY <1>3, <1>4, <1>5, EndedEventPlain
<1>7. Finished(q2, FALSE, r)
  BY <1>2, <1>5, <1>6, FinishDurgroupHolds DEF Plain
<1> QED
  BY <1>6, <1>7, FinishedLists DEF Plain, Finished

-----------------------------------------------------------------------------
(* The tokens that are left: each is from p to r, as in ParserProofs. *)

LEMMA BesideStepHolds ==
    ASSUME NEW p, Good(p), Plain(p), Held(p), NEW l, Incidental(Pl(p), l),
           LevelAlike(Pl(p), l), NEW q, q = SetPl(p, l)
    PROVE  /\ Plain(q) /\ Held(q) /\ Sound(q, 0, None, None) /\ Pl(q) = l
           /\ q.nodes = p.nodes /\ q.slots = p.slots /\ q.nested = p.nested
           /\ q.evs = p.evs /\ q.labels = p.labels
<1>1. Sound(p, 0, None, None) /\ p.evs \in Seq(Event) /\ l \in Level
  BY DEF Good, Plain, Events, Incidental
<1>2. Alike(p, q)
  BY <1>1, SetPlAlike
<1>3. Plain(q) /\ Held(q)
  BY <1>1, <1>2, AlikeHolds
<1>4. Stepping(l) => Stepping(Pl(p))
  BY DEF LevelAlike
<1>5. /\ Sound(q, 0, None, None) /\ SamePlace(p, q) /\ Pl(q) = l
      /\ Is(q, q.levels, p.slots, p.nested, p.nodes, p.objs, p.evs, p.labels, p.options)
  BY <1>1, <1>4, IncidentalSound
<1> QED
  BY <1>3, <1>5 DEF Is

(* "'name" *)
LEMMA LabelHolds ==
    ASSUME NEW p, Good(p), Plain(p), Held(p), NEW name \in Names,
           NEW r, r = SetPl(p, [Pl(p) EXCEPT !.set_label = name])
    PROVE  Plain(r) /\ Held(r)
<1>1. PICK k \in Level : k = Pl(p)
  BY TopOfGood DEF Good
<1>2. PICK l : l = [k EXCEPT !.set_label = name]
  OBVIOUS
<1>3. Incidental(k, l) /\ LevelAlike(k, l)
  BY <1>2 DEF Incidental, Level, SameLevel, LevelAlike, Stepping
<1>4. r = SetPl(p, l)
  BY <1>1, <1>2
<1> QED
  BY <1>1, <1>3, <1>4, BesideStepHolds

LEMMA NewObjectHolds ==
    ASSUME NEW p, Good(p), Plain(p), Held(p), NEW r, r = BeginOperator(p, None, FALSE)
    PROVE  Plain(r) /\ Held(r)
<1>1. IsOp(p, None) /\ FALSE \in BOOLEAN /\ Sound(p, 0, None, None) /\ Settled(p)
  BY DEF IsOp, Good
<1> QED
  BY <1>1, BeginOperatorHolds

LEMMA NewAmplitudeHolds ==
    ASSUME NEW p, Good(p), Plain(p), Held(p), Top(p) < MaxLevels, NEW list \in BOOLEAN,
           NEW r, r = ParList(BeginOperator(p, None, FALSE), "amod", list)
    PROVE  Plain(r) /\ Held(r)
<1>1. PICK q : q = BeginOperator(p, None, FALSE)
  OBVIOUS
<1>2. Good(q) /\ Stepping(Pl(q)) /\ Top(q) = Top(p)
  <2>1. NewStep(p, q)
    BY <1>1, NewObjectStep
  <2> QED
    BY <2>1 DEF NewStep, InNewStep, Good
<1>3. Plain(q) /\ Held(q)
  BY <1>1, NewObjectHolds
<1>4. "amod" \in Uses \ {"carr"}
  BY DEF Uses
<1> QED
  BY <1>1, <1>2, <1>3, <1>4, ParListHolds

(* '/' *)
LEMMA WaitHolds ==
    ASSUME NEW p, Good(p), Plain(p), Held(p), NEW r, NEW l, l = [Pl(p) EXCEPT !.wait = TRUE],
           \/ Stepping(Pl(p)) /\ r = BeginOperator(SetPl(p, l), Pl(p).op, FALSE)
           \/ r = SetPl(p, l)
    PROVE  Plain(r) /\ Held(r)
<1>1. PICK k \in Level : k = Pl(p)
  BY TopOfGood DEF Good
<1>2. Incidental(k, l) /\ LevelAlike(k, l)
  <2>1. l = [k EXCEPT !.wait = TRUE]
    BY <1>1
  <2> QED
    BY <2>1 DEF Incidental, Level, SameLevel, LevelAlike, Stepping
<1>3. PICK q : q = SetPl(p, l)
  OBVIOUS
<1>4. Plain(q) /\ Held(q) /\ Sound(q, 0, None, None) /\ q.nodes = p.nodes
  BY <1>1, <1>2, <1>3, BesideStepHolds
<1>5. CASE r = SetPl(p, l)
  BY <1>3, <1>4, <1>5
<1>6. CASE Stepping(Pl(p)) /\ r = BeginOperator(SetPl(p, l), Pl(p).op, FALSE)
  <2>1. PICK op : op = Pl(p).op
    OBVIOUS
  <2>2. IsOp(q, op) /\ op # None /\ FALSE \in BOOLEAN
    <3>1. IsOp(p, op) /\ op # None
      BY <1>6, <2>1, TopOfGood DEF Good, LevelRefers, Stepping
    <3> QED
      BY <1>4, <3>1 DEF IsOp
  <2>3. r = BeginOperator(q, op, FALSE)
    BY <1>3, <1>6, <2>1
  <2> QED
    BY <1>4, <2>2, <2>3, BeginOperatorHolds
<1> QED
  BY <1>5, <1>6

(* ';' *)
LEMMA SubStepHolds ==
    ASSUME NEW p, Good(p), Plain(p), Held(p), Stepping(Pl(p)), NEW shift \in BOOLEAN, NEW r,
           r = BeginOperator(SetPl(p, [Pl(p) EXCEPT !.wait = @ \/ shift]), Pl(p).op, TRUE)
    PROVE  Plain(r) /\ Held(r)
<1>1. PICK k \in Level : k = Pl(p)
  BY TopOfGood DEF Good
<1>2. (k.wait \/ shift) \in BOOLEAN
  BY Zenon
<1>3. PICK b \in BOOLEAN : b = (k.wait \/ shift)
  BY <1>2
<1>4. PICK l : l = [k EXCEPT !.wait = b]
  OBVIOUS
<1>5. Incidental(k, l) /\ LevelAlike(k, l) /\ l.sub = k.sub /\ l.op = k.op /\ l.event = k.event
  BY <1>4 DEF Incidental, Level, SameLevel, LevelAlike, Stepping
<1>6. PICK q : q = SetPl(p, l)
  OBVIOUS
<1>7. /\ Plain(q) /\ Held(q) /\ Sound(q, 0, None, None) /\ q.nodes = p.nodes
      /\ Pl(q) = l
  BY <1>1, <1>5, <1>6, BesideStepHolds
<1>8. PICK op : op = Pl(p).op
  OBVIOUS
<1>9. IsOp(q, op) /\ op # None /\ TRUE \in BOOLEAN
  <2>1. IsOp(p, op) /\ op # None
    BY <1>8, TopOfGood DEF Good, LevelRefers, Stepping
  <2> QED
    BY <1>7, <2>1 DEF IsOp
<1>10. OfStep(q, op)
  <2>1. Pl(p).event # None
    BY TopOfGood DEF Good
  <2> QED
    BY <1>1, <1>5, <1>7, <1>8, <2>1 DEF OfStep, Stepping
<1>11. r = BeginOperator(q, op, TRUE)
  <2>1. [k EXCEPT !.wait = @ \/ shift] = l
    BY <1>3, <1>4
  <2> QED
    BY <1>1, <1>6, <1>8, <2>1
<1> QED
  BY <1>7, <1>9, <1>10, <1>11, BeginOperatorHolds

(* '@' *)
LEMMA ReferenceHolds ==
    ASSUME NEW p, Good(p), Plain(p), Held(p), NEW name \in Names, NEW r, NEW q,
           q = SetPl(p, [Pl(p) EXCEPT !.sub = "none"]), NEW n, n = p.labels[name],
           \/ n # None /\ p.nodes[n].kind = "op" /\ r = Referred(q, name, n)
           \/ r = q
    PROVE  Plain(r) /\ Held(r)
<1>1. PICK k \in Level : k = Pl(p)
  BY TopOfGood DEF Good
<1>2. PICK l : l = [k EXCEPT !.sub = "none"]
  OBVIOUS
<1>3. Incidental(k, l) /\ LevelAlike(k, l)
  BY <1>2 DEF Incidental, Level, SameLevel, LevelAlike, Stepping
<1>4. q = SetPl(p, l)
  BY <1>1, <1>2
<1>5. Plain(q) /\ Held(q) /\ Sound(q, 0, None, None) /\ q.nodes = p.nodes
  BY <1>1, <1>3, <1>4, BesideStepHolds
<1>6. CASE r = q
  BY <1>5, <1>6
<1>7. CASE n # None /\ p.nodes[n].kind = "op" /\ r = Referred(q, name, n)
  <2>1. PICK s : s = BeginOperator(q, n, FALSE)
    OBVIOUS
  <2>2. IsOp(q, n) /\ FALSE \in BOOLEAN
    <3>1. IsNode(p, n)
      BY DEF Good, Sound, LabelsRefer
    <3> QED
      BY <1>5, <1>7, <3>1 DEF IsOp, IsNode
  <2>3. Plain(s) /\ Held(s)
    BY <1>5, <1>7, <2>1, <2>2, BeginOperatorHolds
  <2>4. Sound(s, 0, None, None) /\ Shape(s)
    <3>1. NewStep(q, s)
      BY <1>5, <1>7, <2>1, <2>2, BeginOperatorSound
    <3> QED
      BY <3>1 DEF NewStep, Sound
  <2>5. PICK m : m = Pl(s).op
    OBVIOUS
  <2>6. r = [s EXCEPT !.labels[name] = m]
    BY <1>7, <2>1, <2>5 DEF Referred
  <2>7. Likewise(s, r)
    BY <2>4, <2>6, LabelLikewise
  <2> QED
    BY <2>3, <2>4, <2>7, LikewiseHolds
<1> QED
  BY <1>6, <1>7

(* 'S' with 'a' *)
MultGiven(p, v) ==
    [SetPl(p, [Pl(p) EXCEPT !.sub = "settings"]) EXCEPT
       !.options.def_ampmult = IF Pl(p).use = "amod" THEN v * Tip(p).options.ampmult ELSE v,
       !.slots = IF p.nested = 0 THEN @ ELSE [@ EXCEPT ![p.nested].own_mult = v]]

LEMMA SetMultHolds ==
    ASSUME NEW p, Good(p), Plain(p), Held(p), NEW v \in Nat, NEW r,
           r = MultGiven(p, v)
    PROVE  Plain(r) /\ Held(r)
<1>1. PICK k \in Level : k = Pl(p)
  BY TopOfGood DEF Good
<1>2. PICK l : l = [k EXCEPT !.sub = "settings"]
  OBVIOUS
<1>3. Incidental(k, l) /\ LevelAlike(k, l)
  BY <1>2 DEF Incidental, Level, SameLevel, LevelAlike, Stepping
<1>4. PICK q : q = SetPl(p, l)
  OBVIOUS
<1>5. /\ Plain(q) /\ Held(q) /\ Sound(q, 0, None, None) /\ q.slots = p.slots
      /\ q.nested = p.nested
  BY <1>1, <1>3, <1>4, BesideStepHolds
<1>6. Shape(q) /\ q.slots \in [1..MaxLevels -> Slot]
  BY <1>5 DEF Sound, Typed
<1>7. PICK use : use = Pl(p).use
  OBVIOUS
<1>8. r = SetMultOf(q, use, v)
  <2>1. r = [q EXCEPT
               !.options.def_ampmult = IF use = "amod" THEN v * Tip(p).options.ampmult ELSE v,
               !.slots = IF p.nested = 0 THEN @ ELSE [@ EXCEPT ![p.nested].own_mult = v]]
    BY <1>1, <1>2, <1>4, <1>7 DEF MultGiven
  <2>2. Tip(p) = Tip(q)
    BY <1>5 DEF Tip
  <2> QED
    BY <1>5, <2>1, <2>2 DEF SetMultOf
<1>9. Likewise(q, r)
  BY <1>6, <1>8, SetMultLikewise
<1> QED
  BY <1>5, <1>9, LikewiseHolds

(* ']' *)
LEMMA CloseListHolds ==
    ASSUME NEW p, Good(p), Plain(p), Held(p), Pl(p).scope = "nest", NEW again \in BOOLEAN,
           NEW q, q = LeaveLevel(p), again => Pl(q).param # "none",
           NEW r, r = Closing(q, again)
    PROVE  Plain(r) /\ Held(r)
<1>1. Sound(p, 0, None, None)
  BY DEF Good
<1>2. Top(p) > 1
  <2>1. Top(p) \in Nat \ {0} /\ Pl(p) = p.levels[Top(p)]
    BY <1>1, TopOfGood
  <2>2. p.levels[1].scope # "nest"
    BY <1>1 DEF Sound, LevelsRefer
  <2> QED
    BY <2>1, <2>2
<1>3. Left(p, q)
  BY <1>1, <1>2, LeaveLevelSound
<1>4. Plain(q) /\ Held(q)
  BY <1>1, <1>2, LeaveListHolds
<1> QED
  BY <1>1, <1>3, <1>4, ClosingHolds

-----------------------------------------------------------------------------
(* The invariant holds at first, and steps keep it. *)

LEMMA InitHolds ==
    ASSUME NEW p,
           p = [levels |-> <<TopLevel>>,
                slots |-> [i \in 1..MaxLevels |-> NewSlot], nested |-> 0,
                nodes |-> <<>>, objs |-> <<>>, root_op |-> None,
                evs |-> <<>>, last_event |-> None, group_event |-> None,
                labels |-> [n \in Names |-> None],
                options |-> DefOptions, owed |-> FALSE]
    PROVE  Plain(p) /\ Held(p)
<1>1. PICK l : l = TopLevel
  OBVIOUS
<1>2. l.event = None /\ ~Stepping(l)
  BY <1>1 DEF TopLevel, Stepping
<1>3. PICK s : s = NewSlot
  OBVIOUS
<1>4. s.last_item = None
  BY <1>3 DEF NewSlot
<1>5. /\ p.levels = <<l>> /\ p.slots = [i \in 1..MaxLevels |-> s] /\ p.nodes = <<>>
      /\ p.evs = <<>> /\ p.last_event = None /\ p.group_event = None /\ p.owed = FALSE
  BY <1>1, <1>3
<1>6. /\ Top(p) = 1 /\ p.levels[1] = l /\ DOMAIN p.nodes = {} /\ DOMAIN p.evs = {}
      /\ p.evs \in Seq(Event) /\ Len(p.evs) = 0
  BY <1>5 DEF Top
<1>7. Events(p)
  BY <1>5, <1>6 DEF Events, None
<1>8. ListsHold(p)
  <2>1. \A i \in 1..MaxLevels : p.slots[i] = s
    BY <1>5
  <2> QED
    BY <1>4, <1>6, <2>1 DEF ListsHold
<1>9. \A k \in 1..Top(p) : ~Stepping(p.levels[k]) /\ k = 1 /\ ~(k > 1)
  <2>1. \A k \in 1..1 : k = 1 /\ ~(k > 1)
    OBVIOUS
  <2> QED
    BY <1>2, <1>6, <2>1, Zenon
<1>10. LevelsHold(p)
  <2>1. \A k \in 1..Top(p) : LevelHolds(p, k)
    BY <1>9 DEF LevelHolds
  <2>2. StepsHold(p, Top(p))
    BY <1>9 DEF StepsHold, Follows
  <2> QED
    BY <1>2, <1>5, <1>6, <2>1, <2>2 DEF LevelsHold, OwedHolds
<1>11. LastsHold(p)
  BY <1>9 DEF LastsHold
<1> QED
  BY <1>7, <1>8, <1>10, <1>11 DEF Plain, Held

(* What a step of the parser does to a script that goes on without "{". *)
Holds(p, r) == Plain(r) /\ (IF pc' = "parsed" THEN r.group_event = None ELSE Held(r))

LEMMA NextHolds ==
    ASSUME NEW p, p = o, NEW r, r = o', pc = "read" => Good(p) /\ Plain(p) /\ Held(p),
           Next, ~grouped'
    PROVE  Holds(p, r)
<1>1. pc = "read" => Good(p) /\ Plain(p) /\ Held(p)
  OBVIOUS
<1>2. p = o /\ r = o'
  OBVIOUS
<1>3. pc' = "read" /\ Plain(r) /\ Held(r) => Holds(p, r)
  BY DEF Holds
<1>4. CASE NewObject
  <2>1. pc = "read" /\ pc' = "read" /\ r = BeginOperator(p, None, FALSE)
    BY <1>2, <1>4 DEF NewObject, ReadNext, ReadToken
  <2> QED
    BY <1>1, <1>3, <2>1, NewObjectHolds
<1>5. ASSUME NEW list \in BOOLEAN, NewAmplitude(list) PROVE Holds(p, r)
  <2>1. /\ pc = "read" /\ pc' = "read" /\ Top(p) < MaxLevels
        /\ r = ParList(BeginOperator(p, None, FALSE), "amod", list)
    BY <1>2, <1>5 DEF NewAmplitude, ReadNext, ReadToken, RoomForLevel
  <2>2. Plain(r) /\ Held(r)
    BY <1>1, <2>1, NewAmplitudeHolds
  <2> QED
    BY <1>3, <2>1, <2>2
<1>6. ASSUME NEW again \in BOOLEAN, CloseList(again) PROVE Holds(p, r)
  <2>1. PICK q : q = LeaveLevel(p)
    OBVIOUS
  <2>2. /\ pc = "read" /\ pc' = "read" /\ Pl(p).scope = "nest"
        /\ again => Pl(q).param # "none"
        /\ r = Closing(q, again)
    BY <1>2, <1>6, <2>1 DEF CloseList, Closing, ReadNext, ReadToken, L
  <2>3. Plain(r) /\ Held(r)
    BY <1>1, <2>1, <2>2, CloseListHolds
  <2> QED
    BY <1>3, <2>2, <2>3
<1>7. ASSUME NEW use \in Uses \ {"carr"}, NEW list \in BOOLEAN, Parameter(use, list)
      PROVE  Holds(p, r)
  <2>1. /\ pc = "read" /\ pc' = "read" /\ Top(p) < MaxLevels /\ Stepping(Pl(p))
        /\ r = ParList(p, use, list)
    BY <1>2, <1>7 DEF Parameter, ReadNext, ReadToken, RoomForLevel, InStep, Stepping, L
  <2>2. Plain(r) /\ Held(r)
    BY <1>1, <2>1, ParListHolds
  <2> QED
    BY <1>3, <2>1, <2>2
<1>8. CASE RefusedRumble
  <2>1. pc = "read" /\ pc' = "crashed" /\ r = p
    BY <1>2, <1>8 DEF RefusedRumble, ReadNext, ReadToken
  <2> QED
    BY <1>1, <2>1 DEF Holds
<1>9. ASSUME NEW name \in Names, Reference(name) PROVE Holds(p, r)
  <2>1. PICK n : n = p.labels[name]
    OBVIOUS
  <2>2. PICK q : q = SetPl(p, [Pl(p) EXCEPT !.sub = "none"])
    OBVIOUS
  <2>3. /\ pc = "read" /\ pc' = "read"
        /\ \/ n # None /\ p.nodes[n].kind = "op" /\ r = Referred(q, name, n)
           \/ r = q
    BY <1>2, <1>9, <2>1, <2>2 DEF Reference, Referred, ReadNext, ReadToken, IsOperator, L
  <2>4. Plain(r) /\ Held(r)
    BY <1>1, <2>1, <2>2, <2>3, ReferenceHolds
  <2> QED
    BY <1>3, <2>3, <2>4
<1>10. ASSUME NEW name \in Names, Label(name) PROVE Holds(p, r)
  <2>1. /\ pc = "read" /\ pc' = "read"
        /\ r = SetPl(p, [Pl(p) EXCEPT !.set_label = name])
    BY <1>2, <1>10 DEF Label, ReadNext, ReadToken, L
  <2>2. Plain(r) /\ Held(r)
    BY <1>1, <2>1, LabelHolds
  <2> QED
    BY <1>3, <2>1, <2>2
<1>11. CASE Wait
  <2>1. PICK l : l = [Pl(p) EXCEPT !.wait = TRUE]
    OBVIOUS
  <2>2. /\ pc = "read" /\ pc' = "read"
        /\ \/ Stepping(Pl(p)) /\ r = BeginOperator(SetPl(p, l), Pl(p).op, FALSE)
           \/ r = SetPl(p, l)
    BY <1>2, <1>11, <2>1 DEF Wait, ReadNext, ReadToken, InStep, Stepping, L
  <2>3. Plain(r) /\ Held(r)
    BY <1>1, <2>1, <2>2, WaitHolds
  <2> QED
    BY <1>3, <2>2, <2>3
<1>12. ASSUME NEW shift \in BOOLEAN, SubStep(shift) PROVE Holds(p, r)
  <2>1. /\ pc = "read" /\ pc' = "read" /\ Stepping(Pl(p))
        /\ r = BeginOperator(SetPl(p, [Pl(p) EXCEPT !.wait = @ \/ shift]), Pl(p).op, TRUE)
    BY <1>2, <1>12 DEF SubStep, ReadNext, ReadToken, InStep, Stepping, L
  <2>2. Plain(r) /\ Held(r)
    BY <1>1, <2>1, SubStepHolds
  <2> QED
    BY <1>3, <2>1, <2>2
<1>13. CASE OpenCarriers
  <2>1. /\ pc = "read" /\ pc' = "read" /\ Top(p) < MaxLevels
        /\ r = EnterList(PushNest(PrepareEvent(p, None, FALSE)), "carr")
    BY <1>2, <1>13 DEF OpenCarriers, ReadNext, ReadToken, RoomForLevel
  <2>2. Plain(r) /\ Held(r)
    BY <1>1, <2>1, OpenCarriersHolds
  <2> QED
    BY <1>3, <2>1, <2>2
(* With "{" it is another script, and where there is none there is no "}". *)
<1>14. CASE OpenGroup
  BY <1>14 DEF OpenGroup, ReadToken
<1>15. CASE CloseGroup
  <2>1. pc = "read" /\ Pl(p).scope = "group" /\ Top(p) > 1
    BY <1>2, <1>15 DEF CloseGroup, ReadNext, ReadToken, L
  <2>2. Top(p) \in Nat \ {0} /\ Pl(p) = p.levels[Top(p)]
    BY <1>1, <2>1, TopOfGood DEF Good
  <2>3. LevelHolds(p, Top(p))
    BY <1>1, <2>1, <2>2 DEF Held, LevelsHold
  <2> QED
    BY <2>1, <2>2, <2>3 DEF LevelHolds
<1>16. ASSUME NEW carry \in BOOLEAN, Separator(carry) PROVE Holds(p, r)
  <2>1. PICK q : q = EndEvent(p)
    OBVIOUS
  <2>2. /\ pc = "read" /\ pc' = "read" /\ p.nested = 0
        /\ r = FinishDurgroup(SetPl(q, [Pl(q) EXCEPT !.sub = "none"]), carry)
    BY <1>2, <1>16, <2>1 DEF Separator, ReadNext, ReadToken
  <2>3. Plain(r) /\ Held(r)
    BY <1>1, <2>1, <2>2, SeparatorHolds
  <2> QED
    BY <1>3, <2>2, <2>3
<1>17. ASSUME NEW v \in Mults, SetMult(v) PROVE Holds(p, r)
  <2>1. pc = "read" /\ pc' = "read" /\ r = MultGiven(p, v)
    BY <1>2, <1>17 DEF SetMult, ReadNext, ReadToken, L, MultGiven
  <2>2. v \in Nat
    BY ParserAssumption
  <2>3. Plain(r) /\ Held(r)
    BY <1>1, <2>1, <2>2, SetMultHolds
  <2> QED
    BY <1>3, <2>1, <2>3
<1>18. CASE EndOfScript
  <2>1. /\ pc = "read" /\ pc' = "parsed"
        /\ r = FinishDurgroup(EndEvent(EndOperator(p)), FALSE)
    BY <1>2, <1>18 DEF EndOfScript
  <2>2. Plain(r) /\ r.group_event = None
    BY <1>1, <2>1, EndOfScriptHolds
  <2> QED
    BY <2>1, <2>2 DEF Holds
<1> QED
  BY <1>4, <1>5, <1>6, <1>7, <1>8, <1>9, <1>10, <1>11, <1>12, <1>13, <1>14, <1>15,
     <1>16, <1>17, <1>18 DEF Next

LEMMA InitPlain == Init => PlainInv
<1> SUFFICES ASSUME Init PROVE PlainInv
  OBVIOUS
<1>1. PICK p : p = o
  OBVIOUS
<1>2. Plain(p) /\ Held(p)
  BY <1>1, InitHolds DEF Init
<1> QED
  BY <1>1, <1>2 DEF Init, PlainInv

(* A script with "{" has it from then on. *)
LEMMA GroupedStays == ASSUME Next, ~grouped' PROVE ~grouped
<1>1. \A c : ReadToken(c) => ~grouped
  BY DEF ReadToken
<1>2. NewObject \/ RefusedRumble \/ Wait \/ OpenCarriers \/ OpenGroup \/ CloseGroup
      => \E c : ReadToken(c)
  BY Zenon DEF NewObject, RefusedRumble, Wait, OpenCarriers, OpenGroup, CloseGroup, ReadNext
<1>3. \A list : NewAmplitude(list) \/ CloseList(list) => \E c : ReadToken(c)
  BY Zenon DEF NewAmplitude, CloseList, ReadNext
<1>4. \A use, list : Parameter(use, list) => \E c : ReadToken(c)
  BY Zenon DEF Parameter, ReadNext
<1>5. \A x : Reference(x) \/ Label(x) \/ SubStep(x) \/ Separator(x) \/ SetMult(x)
               => \E c : ReadToken(c)
  BY Zenon DEF Reference, Label, SubStep, Separator, SetMult, ReadNext
<1>6. EndOfScript => ~grouped
  BY DEF EndOfScript
<1> QED
  BY <1>1, <1>2, <1>3, <1>4, <1>5, <1>6, Zenon DEF Next

LEMMA StepKeepsPlain == IInv /\ PlainInv /\ [Next]_vars => PlainInv'
<1> SUFFICES ASSUME IInv, PlainInv, [Next]_vars, ~grouped'
             PROVE  /\ Plain(o)' /\ (pc = "parsed" => o.group_event = None)'
                    /\ (pc # "parsed" => Held(o))'
  BY DEF PlainInv
<1>1. CASE Next
  <2>1. ~grouped
    BY <1>1, GroupedStays
  <2>2. PICK p, r : p = o /\ r = o'
    OBVIOUS
  <2>3. pc = "read" => Good(p) /\ Plain(p) /\ Held(p)
    BY <2>1, <2>2 DEF IInv, PlainInv, Good
  <2>4. Holds(p, r)
    BY <1>1, <2>2, <2>3, NextHolds
  <2>5. Plain(r) /\ (pc' = "parsed" => r.group_event = None) /\ (pc' # "parsed" => Held(r))
    BY <2>4 DEF Holds
  <2> QED
    BY <2>2, <2>5
<1>2. CASE UNCHANGED vars
  <2>1. o' = o /\ pc' = pc /\ ~grouped
    BY <1>2 DEF vars
  <2> QED
    BY <2>1 DEF PlainInv
<1> QED
  BY <1>1, <1>2

-----------------------------------------------------------------------------
(* The lists that an operator's lists go on to, and the properties. *)

(* What is linked to from node x on, with what f has for later nodes. *)
Reached(ns, f, x) == {x} \union IF ns[x].next <= x THEN {} ELSE f[ns[x].next]
Reaches(ns, m, f) == f = [x \in m..Len(ns) |-> Reached(ns, f, x)]

(* Links are to nodes that there are. *)
Links(ns) == /\ Len(ns) \in Nat
             /\ \A x \in 1..Len(ns) : ns[x].next = None \/ ns[x].next \in 1..Len(ns)

LEMMA ReachExtends ==
    ASSUME NEW ns, Links(ns), NEW m \in 1..Len(ns), \E v : Reaches(ns, m + 1, v)
    PROVE  \E f : Reaches(ns, m, f)
<1>1. PICK v : Reaches(ns, m + 1, v)
  OBVIOUS
<1>2. PICK first : first = Reached(ns, v, m)
  OBVIOUS
<1>3. PICK f : f = [x \in m..Len(ns) |-> IF x = m THEN first ELSE v[x]]
  OBVIOUS
<1>4. ASSUME NEW x \in m..Len(ns) PROVE f[x] = Reached(ns, f, x)
  <2>1. ns[x].next <= x \/ f[ns[x].next] = v[ns[x].next]
    <3>1. ns[x].next \in Nat /\ ns[x].next <= Len(ns)
      BY DEF Links, None
    <3>2. ~(ns[x].next <= x) => ns[x].next \in m..Len(ns) /\ ns[x].next # m
      BY <3>1 DEF Links
    <3> QED
      BY <1>3, <3>2
  <2>2. Reached(ns, f, x) = Reached(ns, v, x)
    BY <2>1 DEF Reached
  <2>3. CASE x = m
    BY <1>2, <1>3, <2>2, <2>3
  <2>4. CASE x # m
    <3>1. x \in (m + 1)..Len(ns)
      BY <2>4 DEF Links
    <3>2. v[x] = Reached(ns, v, x)
      BY <1>1, <3>1, Zenon DEF Reaches
    <3> QED
      BY <1>3, <2>2, <2>4, <3>2
  <2> QED
    BY <2>3, <2>4
<1>5. f = [x \in m..Len(ns) |-> Reached(ns, f, x)]
  <2>1. f = [x \in m..Len(ns) |-> f[x]]
    BY <1>3
  <2> QED
    BY <1>4, <2>1, Zenon
<1> QED
  BY <1>5 DEF Reaches

LEMMA ReachExists ==
    ASSUME NEW ns, Links(ns)
    PROVE  \E f : Reaches(ns, 1, f)
<1>1. PICK n \in Nat : n = Len(ns)
  BY DEF Links
<1> DEFINE Without == {k \in 1..(n + 1) : ~\E f : Reaches(ns, k, f)}
<1>2. ASSUME Without # {} PROVE FALSE
  <2>1. Without \subseteq 0..(n + 1)
    OBVIOUS
  <2>2. PICK k \in Without : \A j \in Without : j <= k
    <3>1. n + 1 \in Nat
      OBVIOUS
    <3> QED
      BY <1>2, <2>1, <3>1, GreatestNatural
  <2>3. k \in 1..(n + 1) /\ ~\E f : Reaches(ns, k, f)
    BY <2>2
  <2>4. CASE k = n + 1
    <3>1. k..Len(ns) = {}
      BY <1>1, <2>4
    <3>2. PICK f : f = [x \in {} |-> None]
      OBVIOUS
    <3>3. Reaches(ns, k, f)
      BY <3>1, <3>2 DEF Reaches
    <3> QED
      BY <2>3, <3>3
  <2>5. CASE k # n + 1
    <3>1. k \in 1..Len(ns) /\ k + 1 \in 1..(n + 1) /\ ~(k + 1 <= k)
      BY <1>1, <2>3, <2>5
    <3>2. k + 1 \notin Without
      BY <2>2, <3>1
    <3>3. \E v : Reaches(ns, k + 1, v)
      BY <3>1, <3>2
    <3> QED
      BY <2>3, <3>1, <3>3, ReachExtends
  <2> QED
    BY <2>4, <2>5
<1>3. 1 \in 1..(n + 1) /\ Without = {}
  BY <1>2
<1> QED
  BY <1>3

(* Lists are linked to lists of the same operators. *)
LEMMA ReachedFor ==
    ASSUME NEW p, ListsHold(p), Links(p.nodes), DOMAIN p.nodes = 1..Len(p.nodes),
           NEW f, Reaches(p.nodes, 1, f), NEW obj, obj # None,
           NEW m \in DOMAIN p.nodes, ListFor(p, m, obj)
    PROVE  \A x \in f[m] : ListFor(p, x, obj)
<1>1. PICK n \in Nat : n = Len(p.nodes)
  BY DEF Links
<1> DEFINE Fails(k) == ~\A x \in f[k] : ListFor(p, x, obj)
           Other == {k \in 1..n : ListFor(p, k, obj) /\ Fails(k)}
<1>2. ASSUME Other # {} PROVE FALSE
  <2>1. Other \subseteq 0..n
    OBVIOUS
  <2>2. PICK k \in Other : \A j \in Other : j <= k
    BY <1>2, <2>1, GreatestNatural
  <2>3. k \in 1..n /\ ListFor(p, k, obj) /\ Fails(k)
    BY <2>2
  <2>4. PICK next : next = p.nodes[k].next
    OBVIOUS
  <2>5. f[k] = {k} \union IF next <= k THEN {} ELSE f[next]
    <3>1. k \in 1..Len(p.nodes)
      BY <1>1, <2>3
    <3>2. f[k] = Reached(p.nodes, f, k)
      BY <3>1, Zenon DEF Reaches
    <3> QED
      BY <2>4, <3>2 DEF Reached
  <2>6. CASE next <= k
    BY <2>3, <2>5, <2>6
  <2>7. CASE ~(next <= k)
    <3>1. next \in 1..n /\ next # None
      BY <1>1, <2>3, <2>4, <2>7 DEF Links, None
    <3>2. ListFor(p, next, obj)
      BY <1>1, <2>3, <2>4, <3>1 DEF ListsHold, ListFor
    <3>3. ~Fails(next)
      <4>1. next \notin Other
        BY <2>2, <2>7
      <4> QED
        BY <3>1, <3>2, <4>1
    <3> QED
      BY <2>3, <2>5, <2>7, <3>3
  <2> QED
    BY <2>6, <2>7
<1>3. m \in 1..n /\ m \notin Other
  BY <1>1, <1>2
<1> QED
  BY <1>3

LEMMA ListsOfOperators ==
    ASSUME IInv, ListsHold(o)
    PROVE  ListOfItsOperator
<1>1. /\ DOMAIN o.nodes = 1..Len(o.nodes) /\ DOMAIN o.objs = 1..Len(o.objs)
      /\ NodesRefer(o) /\ Links(o.nodes)
  <2>1. Typed(o) /\ NodesRefer(o)
    BY DEF IInv, Sound
  <2>2. /\ DOMAIN o.nodes = 1..Len(o.nodes) /\ DOMAIN o.objs = 1..Len(o.objs)
        /\ Len(o.nodes) \in Nat
    BY <2>1 DEF Typed, IsSeq
  <2> QED
    BY <2>1, <2>2 DEF NodesRefer, IsNode, Links
<1>2. PICK f : f = CHOOSE g : g = [x \in DOMAIN o.nodes |-> Reached(o.nodes, g, x)]
  OBVIOUS
<1>3. Reaches(o.nodes, 1, f)
  <2>1. PICK v : v = [x \in DOMAIN o.nodes |-> Reached(o.nodes, v, x)]
    BY <1>1, ReachExists DEF Reaches
  <2>2. f = [x \in DOMAIN o.nodes |-> Reached(o.nodes, f, x)]
    BY <1>2, <2>1, Zenon
  <2> QED
    BY <1>1, <2>2, Zenon DEF Reaches
<1>4. ASSUME NEW n, NEW m \in ListsOf(n) PROVE o.nodes[n].mods # None /\ m \in f[o.nodes[n].mods]
  <2>1. ListsOf(n) = IF o.nodes[n].mods = None THEN {}
                     ELSE (CHOOSE g : g = [x \in DOMAIN o.nodes |-> Reached(o.nodes, g, x)])
                              [o.nodes[n].mods]
    BY Zenon DEF ListsOf, Reached
  <2> QED
    BY <1>2, <1>4, <2>1
<1>5. ASSUME NEW n \in DOMAIN o.nodes, NEW m \in ListsOf(n)
      PROVE  o.objs[o.nodes[m].obj].parent = o.nodes[n].obj
  <2>1. PICK mods : mods = o.nodes[n].mods
    OBVIOUS
  <2>2. mods # None /\ m \in f[mods]
    BY <1>4, <1>5, <2>1
  <2>3. PICK obj : obj = o.nodes[n].obj
    OBVIOUS
  <2>4. mods \in DOMAIN o.nodes /\ obj # None
    BY <1>1, <1>5, <2>1, <2>2, <2>3 DEF NodesRefer, IsNode, None
  <2>5. ListFor(o, mods, obj)
    BY <1>5, <2>1, <2>2, <2>3 DEF ListsHold
  <2>6. ListFor(o, m, obj)
    BY <1>1, <1>3, <2>2, <2>4, <2>5, ReachedFor
  <2> QED
    BY <2>3, <2>6 DEF ListFor, Parent
<1> QED
  BY <1>5 DEF ListOfItsOperator

LEMMA HoldWithoutGroupsOf == IInv /\ PlainInv => HoldWithoutGroups
<1> SUFFICES ASSUME IInv, PlainInv, ~grouped
             PROVE  EventsKept /\ ConvertedOnce /\ DelaysWhatFollows /\ ListOfItsOperator
  BY DEF HoldWithoutGroups
<1>1. Events(o) /\ ListsHold(o) /\ (pc = "parsed" => o.group_event = None)
  BY DEF PlainInv, Plain
<1>2. ListOfItsOperator
  BY <1>1, ListsOfOperators
<1>3. EventsKept
  BY <1>1 DEF EventsKept, Events, Group
<1>4. ConvertedOnce /\ DelaysWhatFollows
  BY <1>1 DEF ConvertedOnce, DelaysWhatFollows, Events
<1> QED
  BY <1>2, <1>3, <1>4

-----------------------------------------------------------------------------
(* The theorems. *)

(* What the parser is like between tokens of a script without "{...}": the *)
(* events of the group at hand are a tree from its first one and are not   *)
(* converted, all others are, once; each sub-step to come has an end of    *)
(* its own there to go on from; and lists go with what they are lists of.  *)
THEOREM PlainInvariant == Spec => []PlainInv
<1>1. Spec => []IInv
  BY ParserInvariant
<1>2. Init => PlainInv
  BY InitPlain
<1>3. IInv /\ PlainInv /\ [Next]_vars => PlainInv'
  BY StepKeepsPlain
<1> QED
  BY <1>1, <1>2, <1>3, PTL DEF Spec

(* Scripts without "{...}" have each step they write converted, and once;  *)
(* delays hold for what follows; and lists are among those of the operator *)
(* they were written for.                                                  *)
THEOREM HoldsWithoutGroups == Spec => []HoldWithoutGroups
<1>1. Spec => []IInv
  BY ParserInvariant
<1>2. Spec => []PlainInv
  BY PlainInvariant
<1>3. IInv /\ PlainInv => HoldWithoutGroups
  BY HoldWithoutGroupsOf
<1> QED
  BY <1>1, <1>2, <1>3, PTL
=============================================================================
