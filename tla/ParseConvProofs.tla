-------------------------- MODULE ParseConvProofs ---------------------------
(***************************************************************************)
(* Proofs about parse conversion, by induction on ConvInv: voices are held *)
(* by one object each, the programs made are valid ones, and, for scripts  *)
(* without sub-events that set times, no voice is taken from a carrier     *)
(* with time left and the duration reported covers what plays.             *)
(***************************************************************************)
EXTENDS ParseConv, Numbers, SequenceTheorems

-----------------------------------------------------------------------------
(* Programs: what the events before the kth tell. *)

(* Programs with the same events before the kth agree on who owns a voice  *)
(* and on what has been timed.                                             *)
LEMMA SameBefore ==
    ASSUME NEW p, NEW q, NEW k \in Nat,
           \A j \in 1..(k - 1) : p.events[j] = q.events[j]
    PROVE  /\ \A v : OnVoiceBefore(p, k, v) = OnVoiceBefore(q, k, v)
           /\ \A op : TimedBefore(p, k, op) = TimedBefore(q, k, op)
           /\ \A v, op : Owns(p, k, v, op) <=> Owns(q, k, v, op)
           /\ \A op, t : EndsBy(p, k, op, t) <=> EndsBy(q, k, op, t)
<1>1. ASSUME NEW v
      PROVE  OnVoiceBefore(p, k, v) = OnVoiceBefore(q, k, v)
  BY DEF OnVoiceBefore
<1>2. ASSUME NEW op
      PROVE  TimedBefore(p, k, op) = TimedBefore(q, k, op)
  BY DEF TimedBefore
<1>3. ASSUME NEW v, NEW op
      PROVE  Owns(p, k, v, op) <=> Owns(q, k, v, op)
  <2>1. \A j \in OnVoiceBefore(p, k, v) : p.events[j] = q.events[j]
    BY DEF OnVoiceBefore
  <2> QED
    BY <1>1, <2>1 DEF Owns
<1>4. ASSUME NEW op, NEW t
      PROVE  EndsBy(p, k, op, t) <=> EndsBy(q, k, op, t)
  <2>1. \A j \in TimedBefore(p, k, op) : p.events[j] = q.events[j]
    BY DEF TimedBefore
  <2> QED
    BY <1>2, <2>1 DEF EndsBy
<1> QED
  BY <1>1, <1>2, <1>3, <1>4

(* What has ended by a time has ended by a later one. *)
LEMMA EndsLater ==
    ASSUME NEW p, p.events \in Seq(Event), NEW k \in 1..(Len(p.events) + 1),
           NEW op, NEW t \in Nat, NEW u \in Nat, t <= u, EndsBy(p, k, op, t)
    PROVE  EndsBy(p, k, op, u)
<1>1. PICK j \in TimedBefore(p, k, op) :
          /\ \A i \in TimedBefore(p, k, op) : i <= j
          /\ p.events[j].at_ms + p.events[j].time_ms <= t
  BY DEF EndsBy
<1>2. j \in 1..Len(p.events)
  BY DEF TimedBefore
<1>3. p.events[j] \in Event
  BY <1>2
<1>4. p.events[j].at_ms \in Nat /\ p.events[j].time_ms \in Nat
  BY <1>3 DEF Event
<1>5. p.events[j].at_ms + p.events[j].time_ms <= u
  BY <1>1, <1>4
<1> QED
  BY <1>1, <1>5 DEF EndsBy

(* What one more event adds. *)
LEMMA OneMore ==
    ASSUME NEW p, NEW k \in Nat \ {0}
    PROVE  /\ OnVoiceBefore(p, k + 1, p.events[k].vo_id) =
                OnVoiceBefore(p, k, p.events[k].vo_id) \union {k}
           /\ \A v : v # p.events[k].vo_id =>
                OnVoiceBefore(p, k + 1, v) = OnVoiceBefore(p, k, v)
           /\ Owns(p, k + 1, p.events[k].vo_id, p.events[k].carr_op_id)
           /\ \A v, op : v # p.events[k].vo_id =>
                (Owns(p, k + 1, v, op) <=> Owns(p, k, v, op))
           /\ \A op : TimedBefore(p, k + 1, op) =
                TimedBefore(p, k, op) \union
                    {j \in {k} : p.events[k].carr_op_id = op /\ p.events[k].sets_time}
<1>1. 1..((k + 1) - 1) = (1..(k - 1)) \union {k}
  OBVIOUS
<1>2. OnVoiceBefore(p, k + 1, p.events[k].vo_id) =
        OnVoiceBefore(p, k, p.events[k].vo_id) \union {k}
  BY <1>1 DEF OnVoiceBefore
<1>3. \A v : v # p.events[k].vo_id =>
        OnVoiceBefore(p, k + 1, v) = OnVoiceBefore(p, k, v)
  BY <1>1 DEF OnVoiceBefore
<1>4. Owns(p, k + 1, p.events[k].vo_id, p.events[k].carr_op_id)
  <2>1. \A i \in OnVoiceBefore(p, k + 1, p.events[k].vo_id) : i <= k
    BY DEF OnVoiceBefore
  <2> QED
    BY <1>2, <2>1 DEF Owns
<1>5. ASSUME NEW v, NEW op, v # p.events[k].vo_id
      PROVE  Owns(p, k + 1, v, op) <=> Owns(p, k, v, op)
  BY <1>3, <1>5 DEF Owns
<1>6. ASSUME NEW op
      PROVE  TimedBefore(p, k + 1, op) =
                TimedBefore(p, k, op) \union
                    {j \in {k} : p.events[k].carr_op_id = op /\ p.events[k].sets_time}
  BY <1>1 DEF TimedBefore
<1> QED
  BY <1>2, <1>3, <1>4, <1>5, <1>6

(* A voice belongs to one operator. *)
LEMMA OwnerUnique ==
    ASSUME NEW p, NEW k \in Nat, NEW v, NEW a, NEW b,
           Owns(p, k, v, a), Owns(p, k, v, b)
    PROVE  a = b
<1>1. PICK i \in OnVoiceBefore(p, k, v) :
          /\ p.events[i].carr_op_id = a
          /\ \A h \in OnVoiceBefore(p, k, v) : h <= i
  BY DEF Owns
<1>2. PICK j \in OnVoiceBefore(p, k, v) :
          /\ p.events[j].carr_op_id = b
          /\ \A h \in OnVoiceBefore(p, k, v) : h <= j
  BY DEF Owns
<1>3. i \in Int /\ j \in Int /\ i <= j /\ j <= i
  BY <1>1, <1>2 DEF OnVoiceBefore
<1> QED
  BY <1>1, <1>2, <1>3

-----------------------------------------------------------------------------
(* What the steps do, in terms of the invariant. *)

LEMMA ScriptTypes ==
    /\ MaxEvents \in Nat /\ MaxChain \in Nat /\ SubSteps \in BOOLEAN
    /\ MaxInLists \in Nat /\ MaxInLists <= MaxEvents
    /\ Waits \subseteq Nat /\ Times \subseteq Nat /\ Longer \subseteq Nat
  BY ScriptAssumption

(* The nested operators that an event brings. *)
LEMMA NestedSeq ==
    ASSUME NEW root \in Nat, NEW n \in Nat, NEW first \in Nat
    PROVE  /\ Nested(root, n) \in Seq(ObjectType) /\ Len(Nested(root, n)) = n
           /\ \A i \in 1..n : Nested(root, n)[i] = NewObject(root, TRUE)
           /\ ChainOf(first, n) \in Seq(Nat) /\ Len(ChainOf(first, n)) = n
           /\ \A i \in 1..n : ChainOf(first, n)[i] = first + i - 1
<1>1. NewObject(root, TRUE) \in ObjectType
  BY DEF NewObject, ObjectType, NoVoice, NoOp
<1>2. Nested(root, n) \in [1..n -> ObjectType]
  BY <1>1 DEF Nested
<1>3. ChainOf(first, n) \in [1..n -> Nat]
  BY DEF ChainOf
<1>4. Nested(root, n) \in Seq(ObjectType) /\ Len(Nested(root, n)) = n
  BY <1>2
<1>5. ChainOf(first, n) \in Seq(Nat) /\ Len(ChainOf(first, n)) = n
  BY <1>3
<1> QED
  BY <1>4, <1>5 DEF Nested, ChainOf

(* What a script event adds: n operators, with the ids that come next. *)
Brings(n) ==
    /\ objects' \in Seq(ObjectType)
    /\ Len(objects') = Len(objects) + n
    /\ \A id \in 1..Len(objects) : objects'[id] = objects[id]
    /\ \A id \in (Len(objects) + 1)..(Len(objects) + n) :
          objects'[id] = NewObject(root_op', ~(ev'.is_new /\ id = Len(objects) + 1))
    /\ root_op' = IF ev'.is_new THEN Len(objects) + 1 ELSE root_op
    /\ NewIds' \in Seq(Nat) /\ Len(NewIds') = n
    /\ \A i \in 1..n : NewIds'[i] = Len(objects) + i
    /\ ev'.is_new => n >= 1 /\ ev'.obj = Len(objects) + 1
    /\ ~ev'.is_new => ev'.obj \in DOMAIN objects

EventGiven ==
    /\ ev' \in EvType
    /\ ev'.vo_id = NoVoice /\ ev'.assign_voice = FALSE
    /\ ev'.is_new => ev'.sets_time /\ ev'.set_dur
    /\ ev'.set_dur => ev'.sets_time /\ ev'.time_ms <= ev'.dur_ms
    /\ ev'.sets_time /\ ~SubSteps => ev'.set_dur
    /\ ~ev'.sets_time => ev'.time_ms = 0

(* One new element and then others, after a sequence and by themselves. *)
LEMMA OneAndOthers ==
    ASSUME NEW S, NEW e \in S, NEW t \in Seq(S), NEW n, n = Len(t)
    PROVE  /\ <<e>> \o t \in Seq(S)
           /\ Len(<<e>> \o t) = 1 + n
           /\ (<<e>> \o t)[1] = e
           /\ \A k \in 2..(1 + n) : (<<e>> \o t)[k] = t[k - 1]
<1>1. PICK one : one = <<e>>
  OBVIOUS
<1>2. one \in Seq(S) /\ Len(one) = 1 /\ one[1] = e
  BY <1>1
<1>3. n \in Nat
  OBVIOUS
<1>4. /\ one \o t \in Seq(S)
      /\ Len(one \o t) = 1 + n
      /\ \A i \in 1..(1 + n) : (one \o t)[i] = IF i <= 1 THEN one[i] ELSE t[i - 1]
  BY <1>2, ConcatProperties
<1> QED
  BY <1>1, <1>2, <1>3, <1>4

LEMMA ThenOneAndOthers ==
    ASSUME NEW S, NEW s \in Seq(S), NEW e \in S, NEW t \in Seq(S),
           NEW m, m = Len(s), NEW n, n = Len(t)
    PROVE  /\ s \o <<e>> \o t \in Seq(S)
           /\ Len(s \o <<e>> \o t) = m + (1 + n)
           /\ \A k \in 1..m : (s \o <<e>> \o t)[k] = s[k]
           /\ (s \o <<e>> \o t)[m + 1] = e
           /\ \A k \in (m + 2)..(m + (1 + n)) :
                 (s \o <<e>> \o t)[k] = t[k - (m + 1)]
<1>1. PICK one : one = s \o <<e>>
  OBVIOUS
<1>2. one = Append(s, e)
  BY <1>1, AppendIsConcat
<1>3. /\ one \in Seq(S) /\ Len(one) = m + 1 /\ one[m + 1] = e
      /\ \A k \in 1..m : one[k] = s[k]
  BY <1>2, AppendProperties
<1>4. m \in Nat /\ n \in Nat
  OBVIOUS
<1>5. /\ one \o t \in Seq(S)
      /\ Len(one \o t) = (m + 1) + n
      /\ \A i \in 1..((m + 1) + n) :
            (one \o t)[i] = IF i <= m + 1 THEN one[i] ELSE t[i - (m + 1)]
  <2>1. /\ one \o t \in Seq(S)
        /\ Len(one \o t) = Len(one) + Len(t)
        /\ \A i \in 1..(Len(one) + Len(t)) :
              (one \o t)[i] = IF i <= Len(one) THEN one[i] ELSE t[i - Len(one)]
    BY <1>3, ConcatProperties, Zenon
  <2>2. Len(one) = m + 1 /\ Len(t) = n
    BY <1>3
  <2> QED
    BY <2>1, <2>2, Zenon
<1>6. \A k \in 1..m : (one \o t)[k] = s[k]
  BY <1>3, <1>4, <1>5
<1>7. (one \o t)[m + 1] = e
  BY <1>3, <1>4, <1>5
<1>8. \A k \in (m + 2)..(m + (1 + n)) : (one \o t)[k] = t[k - (m + 1)]
  BY <1>4, <1>5
<1>9. Len(one \o t) = m + (1 + n)
  BY <1>4, <1>5
<1> QED
  BY <1>1, <1>5, <1>6, <1>7, <1>8, <1>9

LEMMA NewCarrierFacts ==
    ASSUME Types,
           NEW w \in Waits, NEW t \in Times, NEW more \in Longer,
           NEW choice \in ListChoice, NewCarrier(w, t, more, choice)
    PROVE  Brings(1 + choice[2]) /\ EventGiven
<1>1. PICK n, m, id : n = choice[2] /\ m = Len(objects) /\ id = m + 1
  OBVIOUS
<1>2. n \in Nat /\ choice[1] \in Lists /\ m \in Nat /\ id \in Nat
  BY <1>1, ScriptTypes DEF ListChoice, Types
<1>3. w \in Nat /\ t \in Nat /\ more \in Nat /\ t <= t + more /\ t + more \in Nat
  BY ScriptTypes
<1>4. PICK others, ids : others = Nested(id, n) /\ ids = ChainOf(id + 1, n)
  OBVIOUS
<1>5. id + 1 \in Nat
  BY <1>2
<1>6. /\ others \in Seq(ObjectType) /\ Len(others) = n
      /\ \A i \in 1..n : others[i] = NewObject(id, TRUE)
      /\ ids \in Seq(Nat) /\ Len(ids) = n
      /\ \A i \in 1..n : ids[i] = id + 1 + i - 1
  BY <1>2, <1>4, <1>5, NestedSeq
<1>7. NewObject(id, FALSE) \in ObjectType
  BY <1>2 DEF NewObject, ObjectType, NoVoice, NoOp
<1>8. /\ root_op' = id
      /\ objects' = objects \o <<NewObject(id, FALSE)>> \o others
      /\ ev' = [wait_ms |-> w, obj |-> id, is_new |-> TRUE, sets_time |-> TRUE,
                time_ms |-> t, set_dur |-> TRUE, dur_ms |-> t + more,
                list |-> choice[1], chain |-> ids,
                vo_id |-> NoVoice, assign_voice |-> FALSE]
  BY <1>1, <1>4 DEF NewCarrier, NoEvent
<1>9. EventGiven
  <2>1. ev' \in EvType
    BY <1>2, <1>3, <1>6, <1>8 DEF EvType, NoVoice
  <2> QED
    BY <1>3, <1>8, <2>1 DEF EventGiven
<1>10. NewIds' = <<id>> \o ids
  BY <1>8 DEF NewIds
<1>11. /\ NewIds' \in Seq(Nat) /\ Len(NewIds') = 1 + n
       /\ \A i \in 1..(1 + n) : NewIds'[i] = m + i
  <2>1. /\ <<id>> \o ids \in Seq(Nat)
        /\ Len(<<id>> \o ids) = 1 + n
        /\ (<<id>> \o ids)[1] = id
        /\ \A k \in 2..(1 + n) : (<<id>> \o ids)[k] = ids[k - 1]
    BY <1>2, <1>6, OneAndOthers
  <2>2. \A i \in 1..(1 + n) : (<<id>> \o ids)[i] = m + i
    BY <1>1, <1>2, <1>6, <2>1
  <2> QED
    BY <1>10, <2>1, <2>2
<1>12. /\ objects' \in Seq(ObjectType)
       /\ Len(objects') = m + (1 + n)
       /\ \A k \in 1..m : objects'[k] = objects[k]
       /\ objects'[m + 1] = NewObject(id, FALSE)
       /\ \A k \in (m + 2)..(m + (1 + n)) : objects'[k] = others[k - (m + 1)]
  <2>1. objects \in Seq(ObjectType) /\ m = Len(objects) /\ n = Len(others)
    BY <1>1, <1>6 DEF Types
  <2>2. PICK carrier : carrier = NewObject(id, FALSE)
    OBVIOUS
  <2>3. carrier \in ObjectType /\ objects' = objects \o <<carrier>> \o others
    BY <1>7, <1>8, <2>2
  <2>4. PICK all, old : all = objects \o <<carrier>> \o others /\ old = objects
    OBVIOUS
  <2>5. /\ all \in Seq(ObjectType)
        /\ Len(all) = m + (1 + n)
        /\ \A k \in 1..m : all[k] = old[k]
        /\ all[m + 1] = carrier
        /\ \A k \in (m + 2)..(m + (1 + n)) : all[k] = others[k - (m + 1)]
    <3>1. all = old \o <<carrier>> \o others /\ old \in Seq(ObjectType) /\ m = Len(old)
      BY <2>1, <2>4
    <3> QED
      BY <1>6, <2>1, <2>3, <3>1, ThenOneAndOthers
  <2> QED
    BY <2>2, <2>3, <2>4, <2>5
<1>13. ASSUME NEW k \in (m + 2)..(m + (1 + n))
       PROVE  objects'[k] = NewObject(id, TRUE)
  <2>1. k - (m + 1) \in 1..n
    BY <1>2
  <2> QED
    BY <1>6, <1>12, <2>1, Zenon
<1>14. ev'.is_new = TRUE /\ ev'.obj = id
  BY <1>8
<1>15. ASSUME NEW k \in (m + 1)..(m + (1 + n))
       PROVE  objects'[k] = NewObject(root_op', ~(ev'.is_new /\ k = m + 1))
  <2>1. CASE k = m + 1
    <3>1. (~(ev'.is_new /\ k = m + 1)) = FALSE
      BY <1>14, <2>1
    <3> QED
      BY <1>8, <1>12, <2>1, <3>1
  <2>2. CASE k # m + 1
    <3>1. (~(ev'.is_new /\ k = m + 1)) = TRUE
      BY <2>2
    <3>2. k \in (m + 2)..(m + (1 + n))
      BY <1>2, <2>2
    <3> QED
      BY <1>8, <1>13, <3>1, <3>2
  <2> QED
    BY <2>1, <2>2
<1>16. 1 + n >= 1
  BY <1>2
<1> QED
  BY <1>1, <1>8, <1>9, <1>11, <1>12, <1>14, <1>15, <1>16, Zenon DEF Brings

LEMMA UpdateFacts ==
    ASSUME Types, root_op \in Nat,
           NEW id \in DOMAIN objects, NEW timing \in {"timed", "untimed", "sub"},
           NEW w \in Waits, NEW t \in Times, NEW more \in Longer,
           NEW choice \in ListChoice, Update(id, w, t, more, timing, choice)
    PROVE  Brings(choice[2]) /\ EventGiven
<1>1. PICK n, m : n = choice[2] /\ m = Len(objects)
  OBVIOUS
<1>2. n \in Nat /\ choice[1] \in Lists /\ m \in Nat /\ m + 1 \in Nat /\ id \in Nat
  BY <1>1, ScriptTypes DEF ListChoice, Types
<1>3. /\ w \in Nat /\ t \in Nat /\ more \in Nat /\ t <= t + more /\ t + more \in Nat
      /\ SubSteps \in BOOLEAN
  BY ScriptTypes
<1>4. PICK others, ids : others = Nested(root_op, n) /\ ids = ChainOf(m + 1, n)
  OBVIOUS
<1>5. /\ others \in Seq(ObjectType) /\ Len(others) = n
      /\ \A i \in 1..n : others[i] = NewObject(root_op, TRUE)
      /\ ids \in Seq(Nat) /\ Len(ids) = n
      /\ \A i \in 1..n : ids[i] = m + 1 + i - 1
  BY <1>2, <1>4, NestedSeq
<1>6. /\ root_op' = root_op
      /\ objects' = objects \o others
      /\ timing = "sub" => SubSteps
      /\ ev' = [wait_ms |-> w, obj |-> id, is_new |-> FALSE,
                sets_time |-> timing # "untimed",
                time_ms |-> IF timing # "untimed" THEN t ELSE 0,
                set_dur |-> timing = "timed", dur_ms |-> t + more,
                list |-> choice[1], chain |-> ids,
                vo_id |-> NoVoice, assign_voice |-> FALSE]
  BY <1>1, <1>4 DEF Update, NoEvent
<1>7. EventGiven
  <2>1. ev' \in EvType
    BY <1>2, <1>3, <1>5, <1>6 DEF EvType, NoVoice
  <2>2. /\ ev'.vo_id = NoVoice /\ ev'.assign_voice = FALSE
        /\ ev'.is_new = FALSE
        /\ ev'.set_dur = (timing = "timed")
        /\ ev'.sets_time = (timing # "untimed")
        /\ ev'.time_ms = IF timing # "untimed" THEN t ELSE 0
        /\ ev'.dur_ms = t + more
    BY <1>6
  <2> QED
    BY <1>3, <1>6, <2>1, <2>2 DEF EventGiven
<1>8. NewIds' = ids
  <2>1. NewIds' = <<>> \o ids
    BY <1>6 DEF NewIds
  <2> QED
    BY <1>5, <2>1, ConcatEmptySeq
<1>9. NewIds' \in Seq(Nat) /\ Len(NewIds') = n /\ \A i \in 1..n : NewIds'[i] = m + i
  BY <1>2, <1>5, <1>8
<1>10. /\ objects' \in Seq(ObjectType)
       /\ Len(objects') = m + n
       /\ \A k \in 1..(m + n) : objects'[k] =
             IF k <= m THEN objects[k] ELSE others[k - m]
  <2>1. objects \in Seq(ObjectType)
    BY DEF Types
  <2>2. /\ objects \o others \in Seq(ObjectType)
        /\ Len(objects \o others) = Len(objects) + Len(others)
        /\ \A k \in 1..(Len(objects) + Len(others)) : (objects \o others)[k] =
              IF k <= Len(objects) THEN objects[k] ELSE others[k - Len(objects)]
    BY <1>5, <2>1, ConcatProperties, Zenon
  <2> QED
    BY <1>1, <1>5, <1>6, <2>2, Zenon
<1>11. ASSUME NEW k \in 1..m
       PROVE  objects'[k] = objects[k]
  <2>1. k \in 1..(m + n) /\ k <= m
    BY <1>2
  <2> QED
    BY <1>10, <2>1, Zenon
<1>12. ASSUME NEW k \in (m + 1)..(m + n)
       PROVE  objects'[k] = NewObject(root_op, TRUE)
  <2>1. k \in 1..(m + n) /\ ~(k <= m) /\ k - m \in 1..n
    BY <1>2
  <2> QED
    BY <1>5, <1>10, <2>1, Zenon
<1>13. ev'.is_new = FALSE /\ ev'.obj = id
  BY <1>6
<1>14. ASSUME NEW k \in (m + 1)..(m + n)
       PROVE  objects'[k] = NewObject(root_op', ~(ev'.is_new /\ k = m + 1))
  <2>1. (~(ev'.is_new /\ k = m + 1)) = TRUE
    BY <1>13
  <2> QED
    BY <1>6, <1>12, <2>1
<1> QED
  BY <1>1, <1>6, <1>7, <1>9, <1>10, <1>11, <1>13, <1>14, Zenon DEF Brings

LEMMA ScriptFacts ==
    ASSUME Types, ScriptEvent
    PROVE  /\ pc = "script" /\ pc' = "voice"
           /\ UNCHANGED <<va, mods, nest_max, tot_dur_ms, events>>
           /\ Len(events) < MaxEvents
           /\ EventGiven
           /\ \E n \in 0..(1 + MaxChain) : Brings(n)
<1>1. PICK w \in Waits, t \in Times, more \in Longer, choice \in ListChoice :
          \/ NewCarrier(w, t, more, choice)
          \/ \E id \in DOMAIN objects, timing \in {"timed", "untimed", "sub"} :
                Update(id, w, t, more, timing, choice)
  BY DEF ScriptEvent
<1>2. choice[2] \in 0..MaxChain /\ MaxChain \in Nat
  BY ScriptTypes DEF ListChoice
<1>3. 1 + choice[2] \in 0..(1 + MaxChain) /\ choice[2] \in 0..(1 + MaxChain)
  BY <1>2
<1>4. root_op \in Nat
  BY DEF Types
<1>5. EventGiven /\ \E n \in 0..(1 + MaxChain) : Brings(n)
  <2>1. CASE NewCarrier(w, t, more, choice)
    BY <1>3, <2>1, NewCarrierFacts
  <2>2. CASE \E id \in DOMAIN objects, timing \in {"timed", "untimed", "sub"} :
                Update(id, w, t, more, timing, choice)
    BY <1>3, <1>4, <2>2, UpdateFacts
  <2> QED
    BY <1>1, <2>1, <2>2
<1>6. Len(events) < MaxEvents
  BY ScriptTypes DEF ScriptEvent, Types
<1> QED
  BY <1>5, <1>6 DEF ScriptEvent

-----------------------------------------------------------------------------
(* The voice steps, in terms of the invariant. *)

SameEvent ==
    /\ ev'.wait_ms = ev.wait_ms /\ ev'.obj = ev.obj /\ ev'.is_new = ev.is_new
    /\ ev'.sets_time = ev.sets_time /\ ev'.time_ms = ev.time_ms
    /\ ev'.set_dur = ev.set_dur /\ ev'.dur_ms = ev.dur_ms
    /\ ev'.list = ev.list /\ ev'.chain = ev.chain

SameOperators ==
    /\ objects' \in Seq(ObjectType) /\ Len(objects') = Len(objects)
    /\ \A id \in DOMAIN objects :
          /\ objects'[id].root_op_obj = objects[id].root_op_obj
          /\ objects'[id].nested = objects[id].nested
          /\ objects'[id].last_op_id = objects[id].last_op_id

CountedVoice(v) ==
    /\ v \in DOMAIN va
    /\ va'[v].obj_id = va[v].obj_id
    /\ va'[v].carr_op_id = va[v].carr_op_id
    /\ va'[v].duration_ms = CountedDown(v)

(* The voice u is the one it had, one taken from another, or a new one.    *)
Kept(u) ==
    /\ ~ev.is_new
    /\ Len(va') = Len(va)
    /\ ev'.assign_voice = FALSE
    /\ objects' = objects
    /\ objects[Holder].last_vo_id = u - 1
    /\ va'[u].carr_op_id = va[u].carr_op_id
    /\ ~ev.set_dur => va'[u].duration_ms = CountedDown(u)

Gained(u) ==
    /\ objects[Holder].last_vo_id = NoVoice
    /\ ev'.assign_voice = TRUE
    /\ va'[u].carr_op_id = NoOp

Taken(u) ==
    /\ Gained(u)
    /\ Len(va') = Len(va)
    /\ CountedDown(u) = 0
    /\ va[u].obj_id # Holder
    /\ objects'[va[u].obj_id].last_vo_id = NoVoice
    /\ \A id \in DOMAIN objects \ {Holder, va[u].obj_id} :
          objects'[id].last_vo_id = objects[id].last_vo_id

Added(u) ==
    /\ Gained(u)
    /\ u = Len(va) + 1 /\ Len(va') = u
    /\ \A id \in DOMAIN objects \ {Holder} :
          objects'[id].last_vo_id = objects[id].last_vo_id

GivesVoice(u) ==
    /\ u \in DOMAIN va'
    /\ ev'.vo_id = u - 1
    /\ va'[u].obj_id = Holder
    /\ ev.set_dur => va'[u].duration_ms = ev.dur_ms
    /\ objects'[Holder].last_vo_id = u - 1
    /\ \A v \in DOMAIN va' : v # u => CountedVoice(v)
    /\ Kept(u) \/ Taken(u) \/ Added(u)

VoiceGiven ==
    /\ pc = "voice" /\ pc' = "operators"
    /\ UNCHANGED <<root_op, mods, nest_max, tot_dur_ms, events>>
    /\ SameEvent /\ SameOperators
    /\ ev' \in EvType /\ va' \in Seq(VoiceType)
    /\ \E u : GivesVoice(u)

(* The holder of the voice is the carrier at the root. *)
LEMMA HolderRoot ==
    ASSUME ConvInv, InEvent
    PROVE  /\ Holder = objects[ev.obj].root_op_obj
           /\ Holder \in DOMAIN objects /\ Holder \in Nat \ {0}
           /\ IsRoot(Holder)
           /\ ev.is_new => Holder = ev.obj
           /\ ~ev.is_new => Known(Holder)
<1>1. Types /\ EventSound /\ Roots /\ IdsInOrder
  BY DEF ConvInv
<1>2. ev.obj \in DOMAIN objects /\ objects \in Seq(ObjectType)
      /\ mods \in Seq(SUBSET Nat) /\ ev \in EvType
  BY <1>1 DEF EventSound, Types
<1>3. PICK root : root = objects[ev.obj].root_op_obj
  OBVIOUS
<1>4. IsRoot(root) /\ root <= ev.obj /\ (IsRoot(ev.obj) => root = ev.obj)
  BY <1>1, <1>2, <1>3 DEF Roots
<1>5. ev.is_new => IsRoot(ev.obj)
  BY <1>1 DEF EventSound
<1>6. Holder = root
  BY <1>3, <1>4, <1>5 DEF Holder
<1>7. root \in DOMAIN objects /\ root \in Nat \ {0} /\ ev.obj \in Nat
  BY <1>2, <1>4 DEF IsRoot
<1>8. ~ev.is_new => Known(root)
  <2>1. ~ev.is_new => ev.obj <= Len(mods)
    BY <1>1 DEF EventSound, Known
  <2> QED
    BY <1>2, <1>4, <1>7, <2>1 DEF Known
<1> QED
  BY <1>3, <1>4, <1>5, <1>6, <1>7, <1>8

(* The countdown never gains time, nor loses more than the wait. *)
LEMMA CountsDown ==
    ASSUME Types, NEW v \in DOMAIN va
    PROVE  /\ CountedDown(v) \in Nat
           /\ va[v].duration_ms <= CountedDown(v) + ev.wait_ms
           /\ va[v] \in VoiceType
           /\ v \in Nat \ {0} /\ v - 1 \in 0..(Len(va) - 1)
<1>1. va[v] \in VoiceType /\ ev \in EvType
  BY DEF Types
<1>2. va[v].duration_ms \in Nat /\ ev.wait_ms \in Nat
  BY <1>1 DEF VoiceType, EvType
<1>3. v \in Nat \ {0} /\ v - 1 \in 0..(Len(va) - 1)
  BY DEF Types
<1> QED
  BY <1>1, <1>2, <1>3 DEF CountedDown

(* What counting down makes of all voices. *)
LEMMA CountedVoices ==
    ASSUME Types
    PROVE  /\ Counted \in Seq(VoiceType) /\ Len(Counted) = Len(va)
           /\ \A v \in DOMAIN va :
                 /\ Counted[v].obj_id = va[v].obj_id
                 /\ Counted[v].duration_ms = CountedDown(v)
                 /\ Counted[v].carr_op_id = va[v].carr_op_id
<1>1. ASSUME NEW v \in DOMAIN va
      PROVE  /\ Counted[v].obj_id = va[v].obj_id
             /\ Counted[v].duration_ms = CountedDown(v)
             /\ Counted[v].carr_op_id = va[v].carr_op_id
             /\ Counted[v] \in VoiceType
  <2>1. va[v] \in VoiceType /\ CountedDown(v) \in Nat
    BY CountsDown
  <2>2. Counted[v] = [va[v] EXCEPT !.duration_ms = CountedDown(v)]
    BY DEF Counted
  <2> QED
    BY <2>1, <2>2 DEF VoiceType
<1>2. va \in Seq(VoiceType) /\ DOMAIN va = 1..Len(va) /\ Len(va) \in Nat
  BY DEF Types
<1>3. Counted \in [1..Len(va) -> VoiceType]
  BY <1>1, <1>2 DEF Counted
<1>4. Counted \in Seq(VoiceType) /\ Len(Counted) = Len(va)
  BY <1>2, <1>3
<1> QED
  BY <1>1, <1>4

(* A voice with its duration set, if the event sets it. *)
LEMMA DuratedVoice ==
    ASSUME ev \in EvType, NEW vas \in VoiceType
    PROVE  /\ Durated(vas) \in VoiceType
           /\ Durated(vas).obj_id = vas.obj_id
           /\ Durated(vas).carr_op_id = vas.carr_op_id
           /\ Durated(vas).duration_ms =
                IF ev.set_dur THEN ev.dur_ms ELSE vas.duration_ms
<1>1. ev.dur_ms \in Nat /\ ev.set_dur \in BOOLEAN
  BY DEF EvType
<1>2. [vas EXCEPT !.duration_ms = ev.dur_ms] =
        [obj_id |-> vas.obj_id, duration_ms |-> ev.dur_ms,
         carr_op_id |-> vas.carr_op_id]
  BY DEF VoiceType
<1>3. vas.obj_id \in Nat /\ vas.carr_op_id \in {NoOp} \union Ops
  BY DEF VoiceType
<1> QED
  BY <1>1, <1>2, <1>3 DEF Durated, VoiceType

LEMMA NewVoice ==
    ASSUME NEW id \in Nat
    PROVE  FreshVoice(id) \in VoiceType
  BY DEF FreshVoice, VoiceType

LEMMA VoiceIdOfObject ==
    ASSUME ConvInv, NEW id \in DOMAIN objects, objects[id].last_vo_id # NoVoice
    PROVE  /\ objects[id].last_vo_id + 1 \in DOMAIN va
           /\ objects[id].last_vo_id \in Nat
           /\ va[objects[id].last_vo_id + 1].obj_id = id
<1>1. objects[id].last_vo_id \in {NoVoice} \union 0..(Len(va) - 1)
  BY DEF ConvInv, VoicesHeld
<1>2. va \in Seq(VoiceType)
  BY DEF ConvInv, Types
<1>3. va[objects[id].last_vo_id + 1].obj_id = id
  BY DEF ConvInv, VoiceHeldByOne
<1> QED
  BY <1>1, <1>2, <1>3

LEMMA PreserveFacts ==
    ASSUME ConvInv, PreserveVoice
    PROVE  VoiceGiven
<1> DEFINE u == objects[Holder].last_vo_id + 1
<1>1. Types /\ pc = "voice" /\ InEvent
  BY DEF ConvInv, PreserveVoice, InEvent
<1>2. /\ pc' = "operators"
      /\ ~ev.is_new /\ objects[Holder].last_vo_id # NoVoice
      /\ va' = [Counted EXCEPT ![u] = Durated(@)]
      /\ ev' = [ev EXCEPT !.vo_id = u - 1]
      /\ UNCHANGED <<objects, root_op, mods, nest_max, tot_dur_ms, events>>
  BY DEF PreserveVoice
<1>3. Holder \in DOMAIN objects
  BY <1>1, HolderRoot
<1>4. /\ u \in DOMAIN va /\ u - 1 \in Nat
      /\ objects[Holder].last_vo_id = u - 1
      /\ va[u].obj_id = Holder
  BY <1>2, <1>3, VoiceIdOfObject
<1>5. ev \in EvType /\ va \in Seq(VoiceType) /\ objects \in Seq(ObjectType)
  BY <1>1 DEF Types
<1>6. /\ Counted \in Seq(VoiceType) /\ Len(Counted) = Len(va)
      /\ \A v \in DOMAIN va :
            /\ Counted[v].obj_id = va[v].obj_id
            /\ Counted[v].duration_ms = CountedDown(v)
            /\ Counted[v].carr_op_id = va[v].carr_op_id
  BY <1>1, CountedVoices
<1> HIDE DEF u
<1>7. PICK cnt, k : cnt = Counted /\ k = u
  OBVIOUS
<1>8. PICK d : d = Durated(cnt[k])
  OBVIOUS
<1>9. k \in 1..Len(cnt) /\ cnt[k] \in VoiceType /\ DOMAIN va = 1..Len(va)
  BY <1>4, <1>5, <1>6, <1>7
<1>10. /\ d \in VoiceType /\ d.obj_id = cnt[k].obj_id
       /\ d.carr_op_id = cnt[k].carr_op_id
       /\ d.duration_ms = IF ev.set_dur THEN ev.dur_ms ELSE cnt[k].duration_ms
  BY <1>5, <1>8, <1>9, DuratedVoice
<1>11. va' = [cnt EXCEPT ![k] = d]
  BY <1>2, <1>7, <1>8
<1>12. /\ va' \in Seq(VoiceType) /\ Len(va') = Len(va) /\ DOMAIN va' = DOMAIN va
       /\ va'[k] = d /\ \A v \in DOMAIN va : v # k => va'[v] = cnt[v]
  BY <1>6, <1>7, <1>9, <1>10, <1>11
<1>13. /\ SameEvent /\ ev' \in EvType /\ ev'.vo_id = u - 1
       /\ ev'.assign_voice = ev.assign_voice
  BY <1>2, <1>4, <1>5 DEF SameEvent, EvType
<1>14. SameOperators
  BY <1>2, <1>5 DEF SameOperators
<1>15. /\ va'[u].obj_id = Holder
       /\ ev.set_dur => va'[u].duration_ms = ev.dur_ms
       /\ ~ev.set_dur => va'[u].duration_ms = CountedDown(u)
       /\ va'[u].carr_op_id = va[u].carr_op_id
  BY <1>4, <1>6, <1>7, <1>9, <1>10, <1>12
<1>16. ASSUME NEW v \in DOMAIN va', v # u PROVE CountedVoice(v)
  <2>1. v \in DOMAIN va /\ va'[v] = Counted[v]
    BY <1>7, <1>12, <1>16
  <2> QED
    BY <1>6, <2>1 DEF CountedVoice
<1>17. ev'.assign_voice = FALSE
  BY <1>1, <1>5, <1>13 DEF ConvInv, EventSound, EvType
<1>18. Kept(u)
  BY <1>2, <1>4, <1>12, <1>15, <1>17 DEF Kept
<1>19. GivesVoice(u)
  BY <1>2, <1>4, <1>12, <1>13, <1>15, <1>16, <1>18 DEF GivesVoice
<1> QED
  BY <1>1, <1>2, <1>12, <1>13, <1>14, <1>19 DEF VoiceGiven

(* The lowest of a set of naturals is one of it. *)
LEMMA LowestIn ==
    ASSUME NEW S, S \subseteq Nat, S # {}
    PROVE  Lowest(S) \in S /\ \A u \in S : Lowest(S) <= u
<1>1. \E x \in S : \A y \in S : x <= y
  BY LeastNatural
<1> QED
  BY <1>1, Zenon DEF Lowest

(* A carrier that needs a voice has none. *)
LEMMA HolderHasNone ==
    ASSUME ConvInv, pc = "voice", NeedsVoice
    PROVE  /\ Holder \in DOMAIN objects
           /\ objects[Holder].last_vo_id = NoVoice
           /\ \A v \in DOMAIN va : va[v].obj_id # Holder
<1>1. InEvent
  BY DEF InEvent
<1>2. Holder \in DOMAIN objects /\ (ev.is_new => Holder = ev.obj)
  BY <1>1, HolderRoot
<1>3. ev.is_new => objects[ev.obj].last_vo_id = NoVoice
  BY DEF ConvInv, EventSound
<1>4. objects[Holder].last_vo_id = NoVoice
  BY <1>2, <1>3 DEF NeedsVoice
<1>5. ASSUME NEW v \in DOMAIN va, va[v].obj_id = Holder PROVE FALSE
  <2>1. objects[va[v].obj_id].last_vo_id = v - 1
    BY DEF ConvInv, VoiceHeldByOne
  <2>2. v - 1 \in Nat
    BY CountsDown DEF ConvInv
  <2> QED
    BY <1>4, <1>5, <2>1, <2>2 DEF NoVoice
<1> QED
  BY <1>2, <1>4, <1>5

(* An object with its voice changed stays what it is otherwise. *)
WithVoice(os, id, n) == [os EXCEPT ![id].last_vo_id = n]

LEMMA WithVoiceFacts ==
    ASSUME NEW os \in Seq(ObjectType), NEW id \in 1..Len(os),
           NEW n \in {NoVoice} \union Nat, NEW new, new = WithVoice(os, id, n)
    PROVE  /\ new \in Seq(ObjectType) /\ Len(new) = Len(os)
           /\ new[id].last_vo_id = n
           /\ \A i \in 1..Len(os) :
                 /\ new[i].root_op_obj = os[i].root_op_obj
                 /\ new[i].nested = os[i].nested
                 /\ new[i].last_op_id = os[i].last_op_id
                 /\ i # id => new[i] = os[i]
<1>1. PICK o : o = [os[id] EXCEPT !.last_vo_id = n]
  OBVIOUS
<1>2. os[id] \in ObjectType
  OBVIOUS
<1>3. /\ o \in ObjectType /\ o.last_vo_id = n
      /\ o.root_op_obj = os[id].root_op_obj
      /\ o.nested = os[id].nested
      /\ o.last_op_id = os[id].last_op_id
  BY <1>1, <1>2 DEF ObjectType
<1>4. new = [os EXCEPT ![id] = o]
  BY <1>1 DEF WithVoice
<1>5. /\ new \in Seq(ObjectType) /\ Len(new) = Len(os)
      /\ \A i \in 1..Len(os) : new[i] = IF i = id THEN o ELSE os[i]
  BY <1>3, <1>4
<1> QED
  BY <1>3, <1>5

LEMMA RecycleFacts ==
    ASSUME ConvInv, RecycleVoice
    PROVE  VoiceGiven
<1>1. Types /\ pc = "voice" /\ InEvent /\ NeedsVoice /\ Free # {}
  BY DEF ConvInv, RecycleVoice, InEvent
<1>2. PICK u, old, h : u = Lowest(Free) /\ old = va[u].obj_id /\ h = Holder
  OBVIOUS
<1>3. /\ pc' = "operators"
      /\ objects' = [objects EXCEPT ![old].last_vo_id = NoVoice,
                                    ![h].last_vo_id = u - 1]
      /\ va' = [Counted EXCEPT ![u] = Durated(FreshVoice(h))]
      /\ ev' = [ev EXCEPT !.vo_id = u - 1, !.assign_voice = TRUE]
      /\ UNCHANGED <<root_op, mods, nest_max, tot_dur_ms, events>>
  BY <1>2 DEF RecycleVoice, Renumbered
<1>4. u \in DOMAIN va /\ CountedDown(u) = 0
  <2>1. Free \subseteq Nat
    BY <1>1, CountsDown DEF Free
  <2> QED
    BY <1>1, <1>2, <2>1, LowestIn DEF Free
<1>5. /\ h \in DOMAIN objects /\ objects[h].last_vo_id = NoVoice
      /\ old # h
  BY <1>1, <1>2, <1>4, HolderHasNone
<1>6. /\ ev \in EvType /\ va \in Seq(VoiceType) /\ objects \in Seq(ObjectType)
      /\ u - 1 \in Nat /\ h \in Nat
  BY <1>1, <1>4, <1>5, CountsDown DEF Types
<1>7. old \in DOMAIN objects
  BY <1>2, <1>4 DEF ConvInv, VoicesHeld, IsRoot
<1>8. /\ Counted \in Seq(VoiceType) /\ Len(Counted) = Len(va)
      /\ \A v \in DOMAIN va :
            /\ Counted[v].obj_id = va[v].obj_id
            /\ Counted[v].duration_ms = CountedDown(v)
            /\ Counted[v].carr_op_id = va[v].carr_op_id
  BY <1>1, CountedVoices
<1>9. PICK cnt, d, fresh :
          cnt = Counted /\ d = Durated(FreshVoice(h)) /\ fresh = FreshVoice(h)
  OBVIOUS
<1>10. /\ fresh \in VoiceType /\ fresh.obj_id = h /\ fresh.carr_op_id = NoOp
  BY <1>6, <1>9, NewVoice DEF FreshVoice
<1>11. /\ d \in VoiceType /\ d.obj_id = h /\ d.carr_op_id = NoOp
       /\ ev.set_dur => d.duration_ms = ev.dur_ms
  BY <1>6, <1>9, <1>10, DuratedVoice
<1>12. va' = [cnt EXCEPT ![u] = d]
  BY <1>3, <1>9
<1>13. /\ va' \in Seq(VoiceType) /\ Len(va') = Len(va) /\ DOMAIN va' = DOMAIN va
       /\ va'[u] = d /\ \A v \in DOMAIN va : v # u => va'[v] = cnt[v]
  BY <1>4, <1>6, <1>8, <1>9, <1>11, <1>12
<1>14. /\ SameEvent /\ ev' \in EvType /\ ev'.vo_id = u - 1
       /\ ev'.assign_voice = TRUE
  BY <1>3, <1>6 DEF SameEvent, EvType
<1>15. PICK os, new, n :
          /\ os = WithVoice(objects, old, NoVoice)
          /\ new = WithVoice(os, h, n)
          /\ n = u - 1
  OBVIOUS
<1>16. objects' = new
  BY <1>3, <1>15 DEF WithVoice
<1>17. /\ os \in Seq(ObjectType) /\ Len(os) = Len(objects)
       /\ os[old].last_vo_id = NoVoice
       /\ \A i \in 1..Len(objects) :
             /\ os[i].root_op_obj = objects[i].root_op_obj
             /\ os[i].nested = objects[i].nested
             /\ os[i].last_op_id = objects[i].last_op_id
             /\ i # old => os[i] = objects[i]
  <2>1. old \in 1..Len(objects) /\ NoVoice \in {NoVoice} \union Nat
    BY <1>6, <1>7
  <2> QED
    BY <1>6, <1>15, <2>1, WithVoiceFacts
<1>18. /\ new \in Seq(ObjectType) /\ Len(new) = Len(os)
       /\ new[h].last_vo_id = u - 1
       /\ \A i \in 1..Len(os) :
             /\ new[i].root_op_obj = os[i].root_op_obj
             /\ new[i].nested = os[i].nested
             /\ new[i].last_op_id = os[i].last_op_id
             /\ i # h => new[i] = os[i]
  <2>1. h \in 1..Len(os) /\ n \in Nat
    BY <1>5, <1>6, <1>15, <1>17
  <2> QED
    BY <1>15, <1>17, <2>1, WithVoiceFacts
<1>19. SameOperators
  BY <1>6, <1>16, <1>17, <1>18 DEF SameOperators
<1>20. /\ objects'[h].last_vo_id = u - 1
       /\ objects'[old].last_vo_id = NoVoice
       /\ \A i \in DOMAIN objects \ {h, old} :
             objects'[i].last_vo_id = objects[i].last_vo_id
  BY <1>5, <1>6, <1>7, <1>16, <1>17, <1>18
<1>21. ASSUME NEW v \in DOMAIN va', v # u PROVE CountedVoice(v)
  <2>1. v \in DOMAIN va /\ va'[v] = Counted[v]
    BY <1>9, <1>13, <1>21
  <2> QED
    BY <1>8, <2>1 DEF CountedVoice
<1>22. Taken(u)
  BY <1>2, <1>4, <1>5, <1>11, <1>13, <1>14, <1>20 DEF Taken, Gained
<1>23. GivesVoice(u)
  BY <1>2, <1>4, <1>11, <1>13, <1>14, <1>20, <1>21, <1>22 DEF GivesVoice
<1> QED
  BY <1>1, <1>3, <1>13, <1>14, <1>19, <1>23 DEF VoiceGiven

LEMMA AddFacts ==
    ASSUME ConvInv, AddVoice
    PROVE  VoiceGiven
<1>1. Types /\ pc = "voice" /\ InEvent /\ NeedsVoice
  BY DEF ConvInv, AddVoice, InEvent
<1>2. PICK n, u, h : n = Len(va) /\ u = n + 1 /\ h = Holder
  OBVIOUS
<1>3. /\ pc' = "operators"
      /\ objects' = [objects EXCEPT ![h].last_vo_id = n]
      /\ va' = Append(Counted, Durated(FreshVoice(h)))
      /\ ev' = [ev EXCEPT !.vo_id = n, !.assign_voice = TRUE]
      /\ UNCHANGED <<root_op, mods, nest_max, tot_dur_ms, events>>
  BY <1>2 DEF AddVoice
<1>4. /\ h \in DOMAIN objects /\ objects[h].last_vo_id = NoVoice
  BY <1>1, <1>2, HolderHasNone
<1>5. /\ ev \in EvType /\ va \in Seq(VoiceType) /\ objects \in Seq(ObjectType)
      /\ n \in Nat /\ h \in Nat /\ u - 1 = n
  BY <1>1, <1>2, <1>4 DEF Types
<1>6. /\ Counted \in Seq(VoiceType) /\ Len(Counted) = Len(va)
      /\ \A v \in DOMAIN va :
            /\ Counted[v].obj_id = va[v].obj_id
            /\ Counted[v].duration_ms = CountedDown(v)
            /\ Counted[v].carr_op_id = va[v].carr_op_id
  BY <1>1, CountedVoices
<1>7. PICK cnt, d, fresh, new :
          /\ cnt = Counted /\ d = Durated(FreshVoice(h)) /\ fresh = FreshVoice(h)
          /\ new = WithVoice(objects, h, n)
  OBVIOUS
<1>8. /\ fresh \in VoiceType /\ fresh.obj_id = h /\ fresh.carr_op_id = NoOp
  BY <1>5, <1>7, NewVoice DEF FreshVoice
<1>9. /\ d \in VoiceType /\ d.obj_id = h /\ d.carr_op_id = NoOp
      /\ ev.set_dur => d.duration_ms = ev.dur_ms
  BY <1>5, <1>7, <1>8, DuratedVoice
<1>10. va' = Append(cnt, d) /\ objects' = new
  BY <1>3, <1>7 DEF WithVoice
<1>11. /\ va' \in Seq(VoiceType) /\ Len(va') = u
       /\ va'[u] = d /\ u \in DOMAIN va'
       /\ \A v \in DOMAIN va' : v # u => v \in DOMAIN va /\ va'[v] = cnt[v]
  <2>1. cnt \in Seq(VoiceType) /\ Len(cnt) = n
    BY <1>2, <1>6, <1>7
  <2>2. /\ va' \in Seq(VoiceType) /\ Len(va') = n + 1 /\ va'[n + 1] = d
        /\ \A i \in 1..n : va'[i] = cnt[i]
    BY <1>9, <1>10, <2>1, AppendProperties
  <2>3. DOMAIN va' = 1..(n + 1) /\ DOMAIN va = 1..n
    BY <1>2, <1>5, <2>2
  <2> QED
    BY <1>2, <1>5, <2>2, <2>3
<1>12. /\ SameEvent /\ ev' \in EvType /\ ev'.vo_id = u - 1
       /\ ev'.assign_voice = TRUE
  BY <1>3, <1>5 DEF SameEvent, EvType
<1>13. /\ new \in Seq(ObjectType) /\ Len(new) = Len(objects)
       /\ new[h].last_vo_id = n
       /\ \A i \in 1..Len(objects) :
             /\ new[i].root_op_obj = objects[i].root_op_obj
             /\ new[i].nested = objects[i].nested
             /\ new[i].last_op_id = objects[i].last_op_id
             /\ i # h => new[i] = objects[i]
  <2>1. h \in 1..Len(objects)
    BY <1>4, <1>5
  <2> QED
    BY <1>5, <1>7, <2>1, WithVoiceFacts
<1>14. SameOperators
  BY <1>5, <1>10, <1>13 DEF SameOperators
<1>15. /\ objects'[h].last_vo_id = u - 1
       /\ \A i \in DOMAIN objects \ {h} :
             objects'[i].last_vo_id = objects[i].last_vo_id
  BY <1>5, <1>10, <1>13
<1>16. ASSUME NEW v \in DOMAIN va', v # u PROVE CountedVoice(v)
  <2>1. v \in DOMAIN va /\ va'[v] = Counted[v]
    BY <1>7, <1>11, <1>16
  <2> QED
    BY <1>6, <2>1 DEF CountedVoice
<1>17. Added(u)
  BY <1>2, <1>4, <1>9, <1>11, <1>12, <1>15 DEF Added, Gained
<1>18. GivesVoice(u)
  BY <1>2, <1>9, <1>11, <1>12, <1>15, <1>16, <1>17 DEF GivesVoice
<1> QED
  BY <1>1, <1>3, <1>11, <1>12, <1>14, <1>18 DEF VoiceGiven

-----------------------------------------------------------------------------
(* The voice steps keep the invariant. *)

LEMMA PreserveSteps ==
    ASSUME ConvInv, PreserveVoice \/ RecycleVoice \/ AddVoice
    PROVE  VoiceGiven
  BY PreserveFacts, RecycleFacts, AddFacts

(* Programs with the same events agree on everything but the voice count. *)
LEMMA SameProgram ==
    ASSUME events' = events, events \in Seq(Event)
    PROVE  /\ Upcoming' = Upcoming
           /\ \A k \in Nat : \A v : OnVoiceBefore(Built', k, v) = OnVoiceBefore(Built, k, v)
           /\ \A k \in Nat : \A v, op : Owns(Built', k, v, op) <=> Owns(Built, k, v, op)
           /\ \A k \in Nat : \A op : TimedBefore(Built', k, op) = TimedBefore(Built, k, op)
           /\ \A k \in Nat : \A op, t :
                 EndsBy(Built', k, op, t) <=> EndsBy(Built, k, op, t)
<1>1. PICK p, q : p = Built /\ q = Built'
  OBVIOUS
<1>2. p.events = q.events
  BY <1>1 DEF Built
<1>3. ASSUME NEW k \in Nat
      PROVE  /\ \A v : OnVoiceBefore(q, k, v) = OnVoiceBefore(p, k, v)
             /\ \A op : TimedBefore(q, k, op) = TimedBefore(p, k, op)
             /\ \A v, op : Owns(q, k, v, op) <=> Owns(p, k, v, op)
             /\ \A op, t : EndsBy(q, k, op, t) <=> EndsBy(p, k, op, t)
  <2>1. \A j \in 1..(k - 1) : p.events[j] = q.events[j]
    BY <1>2
  <2> QED
    BY <2>1, SameBefore, Zenon
<1>4. Upcoming' = Upcoming
  BY DEF Upcoming
<1> QED
  BY <1>1, <1>3, <1>4, Zenon

LEMMA VoiceFrame ==
    ASSUME ConvInv, VoiceGiven
    PROVE  /\ InEvent /\ InEvent' /\ Types
           /\ Holder' = Holder /\ Holder \in DOMAIN objects
           /\ NewIds' = NewIds
           /\ DOMAIN objects' = DOMAIN objects
           /\ \A id : IsRoot(id)' <=> IsRoot(id)
           /\ \A id : Known(id)' <=> Known(id)
           /\ Clock = tot_dur_ms /\ Clock' = Clock + ev.wait_ms
           /\ Clock \in Nat /\ ev.wait_ms \in Nat
<1>1. Types /\ InEvent /\ InEvent' /\ SameEvent /\ SameOperators
  BY DEF ConvInv, VoiceGiven, InEvent
<1>2. objects \in Seq(ObjectType) /\ ev \in EvType /\ tot_dur_ms \in Nat
  BY <1>1 DEF Types
<1>3. DOMAIN objects' = DOMAIN objects
  BY <1>1, <1>2 DEF SameOperators
<1>4. ev.obj \in DOMAIN objects
  BY <1>1 DEF ConvInv, EventSound
<1>5. Holder' = Holder
  BY <1>1, <1>4 DEF Holder, SameEvent, SameOperators
<1>6. Holder \in DOMAIN objects
  BY <1>1, HolderRoot
<1>7. NewIds' = NewIds
  BY <1>1 DEF NewIds, SameEvent
<1>8. ASSUME NEW id PROVE IsRoot(id)' <=> IsRoot(id)
  BY <1>1, <1>3 DEF IsRoot, SameOperators
<1>9. ASSUME NEW id PROVE Known(id)' <=> Known(id)
  BY DEF Known, VoiceGiven
<1>10. /\ Clock = tot_dur_ms /\ Clock' = Clock + ev.wait_ms
       /\ Clock \in Nat /\ ev.wait_ms \in Nat
  BY <1>1, <1>2 DEF Clock, VoiceGiven, SameEvent, EvType
<1> QED
  BY <1>1, <1>3, <1>5, <1>6, <1>7, <1>8, <1>9, <1>10

LEMMA VoiceTypes ==
    ASSUME ConvInv, VoiceGiven
    PROVE  Types' /\ Sizes'
<1>1. Types /\ Sizes /\ InEvent /\ InEvent'
  BY VoiceFrame DEF ConvInv
<1>2. Types'
  BY <1>1 DEF Types, VoiceGiven, SameOperators
<1>3. Sizes'
  BY <1>1 DEF Sizes, VoiceGiven, SameOperators
<1> QED
  BY <1>2, <1>3

LEMMA VoiceIds ==
    ASSUME ConvInv, VoiceGiven
    PROVE  IdsInOrder' /\ Roots'
<1>1. IdsInOrder /\ Roots /\ SameOperators
  BY DEF ConvInv, VoiceGiven
<1>2. /\ InEvent /\ InEvent' /\ NewIds' = NewIds
      /\ DOMAIN objects' = DOMAIN objects
      /\ \A id : IsRoot(id)' <=> IsRoot(id)
      /\ \A id : Known(id)' <=> Known(id)
      /\ mods' = mods /\ root_op' = root_op
      /\ Len(objects') = Len(objects)
  BY VoiceFrame DEF VoiceGiven, SameOperators
<1>3. IdsInOrder'
  BY <1>1, <1>2 DEF IdsInOrder, SameOperators
<1>4. ASSUME NEW id \in DOMAIN objects, NEW root, root = objects[id].root_op_obj
      PROVE  /\ objects'[id].root_op_obj = root
             /\ IsRoot(root)' /\ root <= id
             /\ IsRoot(id)' => root = id
  BY <1>1, <1>2, <1>4 DEF Roots, SameOperators
<1>5. objects' # <<>> => IsRoot(root_op)'
  <2>1. ASSUME objects = <<>> PROVE objects' = <<>>
    <3>1. Len(objects') = 0 /\ objects' \in Seq(ObjectType)
      BY <1>2, <2>1 DEF VoiceGiven, SameOperators
    <3> QED
      BY <3>1
  <2>2. objects # <<>> => IsRoot(root_op)
    BY <1>1 DEF Roots
  <2> QED
    BY <1>1, <1>2, <2>1, <2>2 DEF IsRoot, SameOperators
<1>6. \A id \in DOMAIN objects' :
          LET root == objects'[id].root_op_obj
          IN  /\ root \in DOMAIN objects' /\ ~objects'[root].nested /\ root <= id
              /\ id \in DOMAIN objects' /\ ~objects'[id].nested => root = id
  BY <1>2, <1>4 DEF IsRoot
<1>7. root_op' \in 0..Len(objects')
  BY <1>1, <1>2 DEF Roots
<1>8. Roots'
  BY <1>5, <1>6, <1>7 DEF Roots, IsRoot
<1> QED
  BY <1>3, <1>8

LEMMA VoiceEvent ==
    ASSUME ConvInv, VoiceGiven
    PROVE  EventSound'
<1>1. EventSound /\ SameEvent /\ ev \in EvType
  BY DEF ConvInv, VoiceGiven, Types
<1>2. /\ InEvent /\ InEvent' /\ Holder' = Holder
      /\ DOMAIN objects' = DOMAIN objects
      /\ \A id : IsRoot(id)' <=> IsRoot(id)
      /\ \A id : Known(id)' <=> Known(id)
      /\ pc' = "operators"
  BY VoiceFrame DEF VoiceGiven
<1>3. PICK u : GivesVoice(u)
  BY DEF VoiceGiven
<1>4. /\ ev'.vo_id + 1 = u /\ u \in DOMAIN va'
      /\ va'[u].obj_id = Holder
      /\ ev.set_dur => va'[u].duration_ms = ev.dur_ms
  <2>1. va' \in Seq(VoiceType)
    BY DEF VoiceGiven
  <2> QED
    BY <1>3, <2>1 DEF GivesVoice
<1>5. ev.is_new => ev'.assign_voice
  BY <1>3 DEF GivesVoice, Kept, Taken, Added, Gained
<1>6. /\ ev'.set_dur => ev'.sets_time /\ ev'.time_ms <= ev'.dur_ms
      /\ ev'.sets_time /\ ~SubSteps => ev'.set_dur
      /\ ~ev'.sets_time => ev'.time_ms = 0
  BY <1>1 DEF EventSound, SameEvent
<1>7. /\ ev'.obj \in DOMAIN objects'
      /\ ev'.is_new => ~objects'[ev'.obj].nested /\ ev'.sets_time
      /\ ~ev'.is_new => ev'.obj <= Len(mods')
      /\ \A id \in DOMAIN objects' :
            ~objects'[id].nested /\ ~(id <= Len(mods')) => ev'.is_new /\ id = ev'.obj
  <2>1. /\ ev.obj \in DOMAIN objects
        /\ ev.is_new => ~objects[ev.obj].nested /\ ev.sets_time
        /\ ~ev.is_new => ev.obj <= Len(mods)
        /\ \A id \in DOMAIN objects :
              ~objects[id].nested /\ ~(id <= Len(mods)) => ev.is_new /\ id = ev.obj
    BY <1>1, <1>2 DEF EventSound, IsRoot, Known
  <2>2. mods' = mods /\ \A id \in DOMAIN objects : objects'[id].nested = objects[id].nested
    BY DEF VoiceGiven, SameOperators
  <2> QED
    BY <1>1, <1>2, <2>1, <2>2 DEF SameEvent
<1>8. /\ ev'.vo_id + 1 \in DOMAIN va'
      /\ va'[ev'.vo_id + 1].obj_id = Holder'
      /\ ev'.is_new => ev'.assign_voice
      /\ ev'.set_dur => va'[ev'.vo_id + 1].duration_ms = ev'.dur_ms
  BY <1>1, <1>2, <1>4, <1>5 DEF SameEvent
<1> QED
  BY <1>2, <1>6, <1>7, <1>8 DEF EventSound, IsRoot, Known

(* What becomes of the other voices and their holders. *)
LEMMA VoiceOthers ==
    ASSUME ConvInv, VoiceGiven, NEW u, GivesVoice(u)
    PROVE  /\ Kept(u) => u \in DOMAIN va /\ va[u].obj_id = Holder
           /\ Taken(u) => u \in DOMAIN va /\ objects[va[u].obj_id].last_vo_id = u - 1
           /\ u \in Nat \ {0}
           /\ \A id \in DOMAIN objects : id # Holder =>
                 \/ objects'[id].last_vo_id = objects[id].last_vo_id
                 \/ /\ Taken(u) /\ id = va[u].obj_id
                    /\ objects'[id].last_vo_id = NoVoice
           /\ \A v \in DOMAIN va' : v # u =>
                 /\ CountedVoice(v)
                 /\ va[v].obj_id \in DOMAIN objects
                 /\ va[v].obj_id # Holder
                 /\ objects'[va[v].obj_id].last_vo_id = v - 1
<1>1. /\ Types /\ Holder \in DOMAIN objects
      /\ va \in Seq(VoiceType) /\ va' \in Seq(VoiceType)
  BY VoiceFrame DEF Types, VoiceGiven
<1>2. u \in Nat \ {0} /\ u \in DOMAIN va'
  BY <1>1 DEF GivesVoice
<1>3. Kept(u) => u \in DOMAIN va /\ va[u].obj_id = Holder
  <2>1. ASSUME Kept(u) PROVE u \in DOMAIN va /\ va[u].obj_id = Holder
    <3>1. objects[Holder].last_vo_id = u - 1 /\ u - 1 # NoVoice /\ u - 1 + 1 = u
      BY <1>2, <2>1 DEF Kept, NoVoice
    <3> QED
      BY <1>1, <3>1, VoiceIdOfObject
  <2> QED
    BY <2>1
<1>4. \A v \in DOMAIN va : /\ va[v].obj_id \in DOMAIN objects
                           /\ objects[va[v].obj_id].last_vo_id = v - 1
                           /\ v \in Nat \ {0}
  BY <1>1 DEF ConvInv, VoicesHeld, VoiceHeldByOne, IsRoot
<1>5. Taken(u) => u \in DOMAIN va /\ objects[va[u].obj_id].last_vo_id = u - 1
  <2>1. ASSUME Taken(u) PROVE u \in DOMAIN va
    <3>1. Len(va') = Len(va)
      BY <2>1 DEF Taken
    <3> QED
      BY <1>1, <1>2, <3>1
  <2> QED
    BY <1>4, <2>1
<1>6. Kept(u) \/ Taken(u) \/ Added(u)
  BY DEF GivesVoice
<1>7. ASSUME NEW id \in DOMAIN objects, id # Holder
      PROVE  \/ objects'[id].last_vo_id = objects[id].last_vo_id
             \/ /\ Taken(u) /\ id = va[u].obj_id
                /\ objects'[id].last_vo_id = NoVoice
  <2>1. CASE Kept(u)
    BY <2>1 DEF Kept
  <2>2. CASE Taken(u)
    BY <1>7, <2>2 DEF Taken
  <2>3. CASE Added(u)
    BY <1>7, <2>3 DEF Added
  <2> QED
    BY <1>6, <2>1, <2>2, <2>3
<1>8. ASSUME NEW v \in DOMAIN va', v # u
      PROVE  /\ CountedVoice(v)
             /\ va[v].obj_id \in DOMAIN objects
             /\ va[v].obj_id # Holder
             /\ objects'[va[v].obj_id].last_vo_id = v - 1
  <2>1. CountedVoice(v) /\ v \in DOMAIN va
    BY <1>8 DEF GivesVoice, CountedVoice
  <2>2. PICK id : id = va[v].obj_id
    OBVIOUS
  <2>3. id \in DOMAIN objects /\ objects[id].last_vo_id = v - 1 /\ v \in Nat \ {0}
    BY <1>4, <2>1, <2>2
  <2>4. id # Holder
    <3>1. CASE Kept(u)
      BY <1>2, <1>8, <2>3, <3>1 DEF Kept
    <3>2. CASE Gained(u)
      BY <2>3, <3>2 DEF Gained, NoVoice
    <3> QED
      BY <1>6, <3>1, <3>2 DEF Taken, Added
  <2>5. ~(Taken(u) /\ id = va[u].obj_id)
    <3>1. v - 1 # u - 1
      BY <1>2, <1>8, <2>3
    <3> QED
      BY <1>5, <2>3, <3>1
  <2> QED
    BY <1>7, <2>1, <2>2, <2>3, <2>4, <2>5
<1> QED
  BY <1>2, <1>3, <1>5, <1>7, <1>8

LEMMA VoiceHolders ==
    ASSUME ConvInv, VoiceGiven
    PROVE  VoicesHeld' /\ VoiceHeldByOne'
<1>1. /\ Types /\ Holder \in DOMAIN objects
      /\ va \in Seq(VoiceType) /\ va' \in Seq(VoiceType)
      /\ InEvent /\ InEvent'
      /\ DOMAIN objects' = DOMAIN objects
      /\ \A id : IsRoot(id)' <=> IsRoot(id)
      /\ \A id : Known(id)' <=> Known(id)
  BY VoiceFrame DEF Types, VoiceGiven
<1>2. PICK u : GivesVoice(u)
  BY DEF VoiceGiven
<1>3. /\ Kept(u) => u \in DOMAIN va /\ va[u].obj_id = Holder
      /\ Taken(u) => u \in DOMAIN va
      /\ u \in Nat \ {0}
  BY <1>2, VoiceOthers
<1>4. \A id \in DOMAIN objects : id # Holder =>
         \/ objects'[id].last_vo_id = objects[id].last_vo_id
         \/ /\ Taken(u) /\ id = va[u].obj_id
            /\ objects'[id].last_vo_id = NoVoice
  BY <1>2, VoiceOthers
<1>5. \A v \in DOMAIN va' : v # u =>
         /\ CountedVoice(v)
         /\ va[v].obj_id \in DOMAIN objects
         /\ va[v].obj_id # Holder
         /\ objects'[va[v].obj_id].last_vo_id = v - 1
  BY <1>2, VoiceOthers
<1>6. /\ u \in DOMAIN va' /\ ev'.vo_id = u - 1 /\ va'[u].obj_id = Holder
      /\ objects'[Holder].last_vo_id = u - 1
      /\ Kept(u) \/ Taken(u) \/ Added(u)
  BY <1>2 DEF GivesVoice
<1>7. Len(va) <= Len(va') /\ Len(va) \in Nat /\ Len(va') \in Nat
  BY <1>1, <1>6 DEF Kept, Taken, Added
<1>8. ASSUME NEW id \in DOMAIN objects
      PROVE  objects'[id].last_vo_id \in {NoVoice} \union 0..(Len(va') - 1)
  <2>1. objects[id].last_vo_id \in {NoVoice} \union 0..(Len(va) - 1)
    BY DEF ConvInv, VoicesHeld
  <2>2. objects[id].last_vo_id \in {NoVoice} \union 0..(Len(va') - 1)
    BY <1>7, <2>1
  <2>3. u - 1 \in 0..(Len(va') - 1)
    BY <1>1, <1>3, <1>6
  <2> QED
    BY <1>4, <1>6, <2>2, <2>3
<1>9. ~\E v : Pending(v)
  BY DEF Pending, VoiceGiven
<1>10. \A v \in Nat : Pending(v)' <=> v = u /\ ev'.assign_voice
  BY <1>3, <1>6 DEF Pending, VoiceGiven
<1>11. IsRoot(Holder) /\ (~ev.is_new => Known(Holder)) /\ Holder \in Nat
  BY <1>1, HolderRoot
<1>12. ASSUME NEW v \in DOMAIN va, NEW id, id = va[v].obj_id
       PROVE  IsRoot(id) /\ Known(id) /\ va[v].carr_op_id = id - 1
  BY <1>9, <1>12 DEF ConvInv, VoicesHeld
<1>13. ASSUME NEW v \in DOMAIN va', NEW id, id = va'[v].obj_id
       PROVE  /\ IsRoot(id)
              /\ Pending(v)' \/ Known(id)
              /\ va'[v].carr_op_id = IF Pending(v)' THEN NoOp ELSE id - 1
  <2>1. v \in Nat
    BY <1>1
  <2>2. CASE v # u
    <3>1. ~Pending(v)'
      BY <1>10, <2>1, <2>2
    <3>2. v \in DOMAIN va /\ id = va[v].obj_id /\ va'[v].carr_op_id = va[v].carr_op_id
      BY <1>5, <1>13, <2>2 DEF CountedVoice
    <3> QED
      BY <1>12, <3>1, <3>2
  <2>3. CASE v = u /\ Kept(u)
    <3>1. ~Pending(v)' /\ ~ev.is_new /\ va'[u].carr_op_id = va[u].carr_op_id
      BY <1>10, <2>1, <2>3 DEF Kept
    <3>2. id = Holder
      BY <1>6, <1>13, <2>3
    <3>3. va[u].carr_op_id = id - 1
      BY <1>3, <1>12, <2>3, <3>2
    <3> QED
      BY <1>11, <2>3, <3>1, <3>2, <3>3
  <2>4. CASE v = u /\ Gained(u)
    <3>1. Pending(v)' /\ va'[u].carr_op_id = NoOp
      BY <1>10, <2>1, <2>4 DEF Gained
    <3>2. id = Holder
      BY <1>6, <1>13, <2>4
    <3> QED
      BY <1>11, <2>4, <3>1, <3>2
  <2> QED
    BY <1>6, <2>2, <2>3, <2>4 DEF Taken, Added
<1>14. VoicesHeld'
  <2>1. \A v \in DOMAIN va' :
           /\ va'[v].obj_id \in DOMAIN objects' /\ ~objects'[va'[v].obj_id].nested
           /\ Pending(v)' \/ va'[v].obj_id <= Len(mods')
           /\ va'[v].carr_op_id = IF Pending(v)' THEN NoOp ELSE va'[v].obj_id - 1
    BY <1>1, <1>13 DEF IsRoot, Known
  <2> QED
    BY <1>1, <1>8, <2>1 DEF VoicesHeld, IsRoot, Known
<1>15. ASSUME NEW id \in DOMAIN objects', objects'[id].last_vo_id # NoVoice
       PROVE  va'[objects'[id].last_vo_id + 1].obj_id = id
  <2>1. CASE id = Holder
    BY <1>3, <1>6, <2>1
  <2>2. CASE id # Holder
    <3>1. objects'[id].last_vo_id = objects[id].last_vo_id
          /\ ~(Taken(u) /\ id = va[u].obj_id) /\ id \in DOMAIN objects
      <4>1. ~(Taken(u) /\ id = va[u].obj_id)
        BY <1>15, <2>2 DEF Taken
      <4> QED
        BY <1>1, <1>4, <1>15, <2>2, <4>1
    <3>2. PICK w : w = objects[id].last_vo_id + 1
      OBVIOUS
    <3>3. w \in DOMAIN va /\ va[w].obj_id = id
      BY <1>15, <3>1, <3>2, VoiceIdOfObject
    <3>4. w # u
      <4>1. CASE Kept(u)
        BY <1>3, <2>2, <3>3, <4>1
      <4>2. CASE Taken(u)
        BY <3>1, <3>3, <4>2
      <4>3. CASE Added(u)
        BY <1>1, <3>3, <4>3 DEF Added
      <4> QED
        BY <1>6, <4>1, <4>2, <4>3
    <3>5. w \in DOMAIN va'
      BY <1>1, <1>7, <3>3
    <3>6. va'[w].obj_id = id
      BY <1>5, <3>3, <3>4, <3>5 DEF CountedVoice
    <3> QED
      BY <3>1, <3>2, <3>6
  <2> QED
    BY <2>1, <2>2
<1>16. ASSUME NEW v \in DOMAIN va'
       PROVE  objects'[va'[v].obj_id].last_vo_id = v - 1
  <2>1. CASE v = u
    BY <1>6, <2>1
  <2>2. CASE v # u
    BY <1>5, <2>2 DEF CountedVoice
  <2> QED
    BY <2>1, <2>2
<1>17. VoiceHeldByOne'
  BY <1>15, <1>16 DEF VoiceHeldByOne
<1> QED
  BY <1>14, <1>17

(* What is left is a number. *)
LEMMA LeftNat ==
    ASSUME ConvInv, NEW id \in DOMAIN objects
    PROVE  Left(id) \in Nat
<1>1. CASE objects[id].last_vo_id = NoVoice \/ pc = "built"
  BY <1>1 DEF Left
<1>2. CASE ~(objects[id].last_vo_id = NoVoice \/ pc = "built")
  <2>1. objects[id].last_vo_id + 1 \in DOMAIN va
    BY <1>2, VoiceIdOfObject
  <2>2. va \in Seq(VoiceType)
    BY DEF ConvInv, Types
  <2>3. va[objects[id].last_vo_id + 1] \in VoiceType
    BY <2>1, <2>2
  <2> QED
    BY <1>2, <2>3 DEF Left, VoiceType
<1> QED
  BY <1>1, <1>2

(* Nothing is lost but what the wait takes. *)
LEMMA LeftOver ==
    ASSUME ConvInv, VoiceGiven, NEW id \in DOMAIN objects,
           ~(id = Holder /\ ev.sets_time)
    PROVE  /\ Left(id) \in Nat /\ Left(id)' \in Nat
           /\ Left(id) <= ev.wait_ms + Left(id)'
<1>1. /\ Types /\ va \in Seq(VoiceType) /\ va' \in Seq(VoiceType)
      /\ ev.wait_ms \in Nat
      /\ pc = "voice" /\ pc' = "operators" /\ id \in DOMAIN objects'
  BY VoiceFrame DEF Types, VoiceGiven
<1>2. PICK u : GivesVoice(u)
  BY DEF VoiceGiven
<1>3. /\ u \in DOMAIN va' /\ va'[u].obj_id = Holder
      /\ objects'[Holder].last_vo_id = u - 1
      /\ Kept(u) \/ Taken(u) \/ Added(u)
  BY <1>2 DEF GivesVoice
<1>4. Left(id) \in Nat
  BY LeftNat
<1>5. va'[u] \in VoiceType /\ va'[u].duration_ms \in Nat /\ u \in Nat \ {0}
  <2>1. va'[u] \in VoiceType /\ u \in Nat \ {0}
    BY <1>1, <1>3
  <2> QED
    BY <2>1 DEF VoiceType
<1>6. CASE id = Holder
  <2>1. Left(id)' = va'[u].duration_ms
    BY <1>1, <1>3, <1>5, <1>6 DEF Left, NoVoice
  <2>2. ~ev.set_dur
    BY <1>6 DEF ConvInv, EventSound
  <2>3. CASE Kept(u)
    <3>1. u \in DOMAIN va /\ objects[id].last_vo_id = u - 1 /\ u - 1 # NoVoice
      <4>1. u \in DOMAIN va
        BY <1>2, <2>3, VoiceOthers
      <4> QED
        BY <1>5, <1>6, <2>3, <4>1 DEF Kept, NoVoice
    <3>2. Left(id) = va[u].duration_ms
      BY <1>1, <1>5, <3>1 DEF Left
    <3>3. va'[u].duration_ms = CountedDown(u)
      BY <2>2, <2>3 DEF Kept
    <3> QED
      BY <1>1, <1>4, <2>1, <3>1, <3>2, <3>3, CountsDown
  <2>4. CASE Gained(u)
    <3>1. Left(id) = 0
      BY <1>6, <2>4 DEF Gained, Left
    <3> QED
      BY <1>1, <1>5, <2>1, <3>1
  <2> QED
    BY <1>3, <2>3, <2>4 DEF Taken, Added
<1>7. CASE id # Holder
  <2>1. CASE objects[id].last_vo_id = NoVoice
    <3>1. Left(id) = 0 /\ Left(id)' = 0
      <4>1. objects'[id].last_vo_id = NoVoice
        BY <1>2, <1>7, <2>1, VoiceOthers
      <4> QED
        BY <2>1, <4>1 DEF Left
    <3> QED
      BY <1>1, <3>1
  <2>2. CASE objects[id].last_vo_id # NoVoice
    <3>1. PICK w : w = objects[id].last_vo_id + 1
      OBVIOUS
    <3>2. /\ w \in DOMAIN va /\ va[w].obj_id = id /\ w - 1 = objects[id].last_vo_id
          /\ Left(id) = va[w].duration_ms
      BY <1>1, <2>2, <3>1, VoiceIdOfObject DEF Left
    <3>3. /\ CountedDown(w) \in Nat
          /\ va[w].duration_ms <= CountedDown(w) + ev.wait_ms
      BY <1>1, <3>2, CountsDown
    <3>4. CASE Taken(u) /\ id = va[u].obj_id
      <4>1. Left(id)' = 0
        BY <3>4 DEF Left, Taken
      <4>2. objects[id].last_vo_id = u - 1
        BY <1>2, <3>4, VoiceOthers
      <4>3. w = u /\ CountedDown(u) = 0
        BY <1>5, <3>1, <3>4, <4>2 DEF Taken
      <4> QED
        BY <1>1, <1>4, <3>2, <3>3, <4>1, <4>3
    <3>5. CASE ~(Taken(u) /\ id = va[u].obj_id)
      <4>1. objects'[id].last_vo_id = objects[id].last_vo_id
        BY <1>2, <1>7, <3>5, VoiceOthers
      <4>2. w \in DOMAIN va' /\ w # u
        <5>1. CASE Kept(u)
          <6>1. u \in DOMAIN va /\ va[u].obj_id = Holder
            BY <1>2, <5>1, VoiceOthers
          <6> QED
            BY <1>1, <1>7, <3>2, <5>1, <6>1 DEF Kept
        <5>2. CASE Taken(u)
          BY <1>1, <3>2, <3>5, <5>2 DEF Taken
        <5>3. CASE Added(u)
          BY <1>1, <3>2, <5>3 DEF Added
        <5> QED
          BY <1>3, <5>1, <5>2, <5>3
      <4>3. va'[w].duration_ms = CountedDown(w)
        BY <1>2, <4>2, VoiceOthers DEF CountedVoice
      <4>4. Left(id)' = CountedDown(w)
        BY <1>1, <2>2, <3>1, <4>1, <4>3 DEF Left
      <4> QED
        BY <1>1, <1>4, <3>2, <3>3, <4>4
    <3> QED
      BY <3>4, <3>5
  <2> QED
    BY <2>1, <2>2
<1> QED
  BY <1>6, <1>7

LEMMA ProgramTypes ==
    ASSUME ConvInv
    PROVE  /\ events \in Seq(Event) /\ Built.events = events
           /\ Upcoming \in Nat \ {0} /\ Upcoming \in 1..(Len(Built.events) + 1)
           /\ Len(events) \in Nat /\ Upcoming - 1 = Len(events)
           /\ DOMAIN events = 1..Len(events)
           /\ Clock \in Nat
<1>1. events \in Seq(Event) /\ tot_dur_ms \in Nat /\ ev \in EvType
  BY DEF ConvInv, Types
<1>2. Clock \in Nat
  BY <1>1 DEF Clock, EvType
<1> QED
  BY <1>1, <1>2 DEF Built, Upcoming

LEMMA VoiceTimes ==
    ASSUME ConvInv, VoiceGiven
    PROVE  TimesCounted' /\ RootsTimed' /\ EventsKnown'
<1>1. /\ Types /\ Holder' = Holder
      /\ DOMAIN objects' = DOMAIN objects
      /\ \A id : IsRoot(id)' <=> IsRoot(id)
      /\ \A id : Known(id)' <=> Known(id)
      /\ Clock = tot_dur_ms /\ Clock' = Clock + ev.wait_ms
      /\ Clock \in Nat /\ ev.wait_ms \in Nat
      /\ pc' = "operators" /\ pc = "voice"
      /\ SameEvent /\ events' = events /\ tot_dur_ms' = tot_dur_ms
  BY VoiceFrame DEF VoiceGiven
<1>2. /\ events \in Seq(Event) /\ Built.events = events
      /\ Upcoming \in Nat /\ Upcoming \in 1..(Len(Built.events) + 1)
  BY ProgramTypes
<1>3. /\ Upcoming' = Upcoming
      /\ \A k \in Nat : \A op : TimedBefore(Built', k, op) = TimedBefore(Built, k, op)
      /\ \A k \in Nat : \A op, t :
            EndsBy(Built', k, op, t) <=> EndsBy(Built, k, op, t)
  BY <1>1, <1>2, SameProgram
<1>4. ASSUME ~SubSteps, NEW id \in DOMAIN objects,
             IsRoot(id), Known(id), ~(id = Holder /\ ev.sets_time)
      PROVE  EndsBy(Built, Upcoming, id - 1, Clock' + Left(id)')
  <2>1. EndsBy(Built, Upcoming, id - 1, Clock + Left(id))
    BY <1>1, <1>4 DEF ConvInv, TimesCounted
  <2>2. /\ Left(id) \in Nat /\ Left(id)' \in Nat
        /\ Left(id) <= ev.wait_ms + Left(id)'
    BY <1>4, LeftOver
  <2>3. PICK p, k, t, s : /\ p = Built /\ k = Upcoming
                          /\ t = Clock + Left(id) /\ s = Clock' + Left(id)'
    OBVIOUS
  <2>4. t \in Nat /\ s \in Nat /\ t <= s
    BY <1>1, <2>2, <2>3
  <2>5. /\ p.events \in Seq(Event) /\ k \in 1..(Len(p.events) + 1)
        /\ EndsBy(p, k, id - 1, t)
    BY <1>2, <2>1, <2>3
  <2>6. EndsBy(p, k, id - 1, s)
    BY <2>4, <2>5, EndsLater
  <2> QED
    BY <2>3, <2>6
<1>5. TimesCounted'
  <2>1. ASSUME ~SubSteps, NEW id \in DOMAIN objects',
               IsRoot(id)' /\ Known(id)'
                   /\ ~(pc' = "operators" /\ id = Holder' /\ ev'.sets_time)
        PROVE  EndsBy(Built', Upcoming', id - 1, Clock' + Left(id)')
    <3>1. EndsBy(Built, Upcoming, id - 1, Clock' + Left(id)')
      BY <1>1, <1>4, <2>1 DEF SameEvent
    <3> QED
      BY <1>2, <1>3, <3>1
  <2> QED
    BY <2>1 DEF TimesCounted
<1>6. RootsTimed'
  <2>1. ASSUME NEW id \in DOMAIN objects', IsRoot(id)' /\ Known(id)'
        PROVE  TimedBefore(Built', Upcoming', id - 1) # {}
    <3>1. TimedBefore(Built, Upcoming, id - 1) # {}
      BY <1>1, <2>1 DEF ConvInv, RootsTimed
    <3> QED
      BY <1>2, <1>3, <3>1
  <2> QED
    BY <2>1 DEF RootsTimed
<1>7. EventsKnown'
  <2>1. Len(va) <= Len(va') /\ Len(va) \in Nat /\ Len(va') \in Nat
    <3>1. PICK u : Kept(u) \/ Taken(u) \/ Added(u)
      BY DEF VoiceGiven, GivesVoice
    <3>2. va \in Seq(VoiceType) /\ va' \in Seq(VoiceType)
      BY <1>1 DEF Types, VoiceGiven
    <3> QED
      BY <3>1, <3>2 DEF Kept, Taken, Added
  <2>2. ASSUME NEW k \in DOMAIN events
        PROVE  /\ events[k].vo_id < Len(va')
               /\ events[k].at_ms <= tot_dur_ms
               /\ ~events[k].sets_time => events[k].time_ms = 0
               /\ events[k].carr_op_id \in Nat
               /\ IsRoot(events[k].carr_op_id + 1)
               /\ Known(events[k].carr_op_id + 1)
    <3>1. events[k].vo_id < Len(va)
      BY DEF ConvInv, EventsKnown
    <3>2. events[k] \in Event
      BY <1>2
    <3> QED
      BY <2>1, <3>1, <3>2 DEF ConvInv, EventsKnown, Event
  <2>3. \A id : id \in DOMAIN objects /\ ~objects[id].nested =>
                id \in DOMAIN objects' /\ ~objects'[id].nested
    BY <1>1 DEF IsRoot
  <2>4. mods' = mods
    BY DEF VoiceGiven
  <2> QED
    BY <1>1, <2>2, <2>3, <2>4 DEF EventsKnown, IsRoot, Known
<1> QED
  BY <1>5, <1>6, <1>7

(* A voice there is not yet belongs to no operator. *)
LEMMA NoOwnerYet ==
    ASSUME ConvInv, NEW k \in 1..Upcoming, NEW v \in Int, v >= Len(va), NEW op
    PROVE  ~Owns(Built, k, v, op) /\ OnVoiceBefore(Built, k, v) = {}
<1>1. /\ events \in Seq(Event) /\ Built.events = events
      /\ Upcoming - 1 = Len(events) /\ Upcoming \in Nat
      /\ Len(events) \in Nat /\ DOMAIN events = 1..Len(events)
  BY ProgramTypes
<1>2. Len(va) \in Nat
  BY DEF ConvInv, Types
<1>3. ASSUME NEW j \in 1..(k - 1) PROVE events[j].vo_id # v
  <2>1. j \in DOMAIN events
    BY <1>1
  <2>2. events[j] \in Event /\ events[j].vo_id < Len(va)
    BY <1>1, <2>1 DEF ConvInv, EventsKnown
  <2>3. events[j].vo_id \in Nat
    BY <2>2 DEF Event
  <2> QED
    BY <1>2, <2>2, <2>3
<1>4. OnVoiceBefore(Built, k, v) = {}
  BY <1>1, <1>3 DEF OnVoiceBefore
<1> QED
  BY <1>4 DEF Owns

LEMMA VoiceOwners ==
    ASSUME ConvInv, VoiceGiven
    PROVE  VoicesOwned'
<1>1. /\ Types /\ Holder \in DOMAIN objects
      /\ va \in Seq(VoiceType) /\ va' \in Seq(VoiceType)
      /\ objects \in Seq(ObjectType)
      /\ Clock = tot_dur_ms /\ Clock' = Clock + ev.wait_ms
      /\ Clock \in Nat /\ ev.wait_ms \in Nat
      /\ pc' = "operators" /\ pc = "voice" /\ events' = events
  BY VoiceFrame DEF VoiceGiven, Types
<1>2. /\ events \in Seq(Event) /\ Built.events = events
      /\ Upcoming \in Nat /\ Upcoming \in 1..(Len(Built.events) + 1)
  BY ProgramTypes
<1>3. /\ Upcoming' = Upcoming
      /\ \A k \in Nat : \A v, op : Owns(Built', k, v, op) <=> Owns(Built, k, v, op)
      /\ \A k \in Nat : \A op, t :
            EndsBy(Built', k, op, t) <=> EndsBy(Built, k, op, t)
  BY <1>1, <1>2, SameProgram
<1>4. PICK u : GivesVoice(u)
  BY DEF VoiceGiven
<1>5. /\ u \in DOMAIN va' /\ ev'.vo_id = u - 1 /\ va'[u].obj_id = Holder
      /\ (Kept(u) \/ Taken(u) \/ Added(u)) /\ u \in Nat \ {0}
  BY <1>4, VoiceOthers DEF GivesVoice
<1>6. /\ Kept(u) => u \in DOMAIN va /\ va[u].obj_id = Holder
      /\ Taken(u) => u \in DOMAIN va /\ objects[va[u].obj_id].last_vo_id = u - 1
      /\ \A v \in DOMAIN va' : v # u => v \in DOMAIN va /\ va'[v].obj_id = va[v].obj_id
  BY <1>4, VoiceOthers DEF CountedVoice
<1>7. ASSUME NEW v \in DOMAIN va
      PROVE  Owns(Built, Upcoming, v - 1, va[v].obj_id - 1)
  BY <1>1 DEF ConvInv, VoicesOwned, Pending
<1>8. \A v \in Nat : Pending(v)' <=> v = u /\ ev'.assign_voice
  BY <1>5 DEF Pending, VoiceGiven
<1>9. ASSUME Taken(u), NEW op, Owns(Built, Upcoming, u - 1, op)
      PROVE  /\ op # Holder - 1
             /\ ~SubSteps => EndsBy(Built, Upcoming, op, Clock')
  <2>1. PICK old : old = va[u].obj_id
    OBVIOUS
  <2>2. u \in DOMAIN va /\ objects[old].last_vo_id = u - 1 /\ old # Holder
    BY <1>6, <1>9, <2>1 DEF Taken
  <2>3. op = old - 1
    <3>1. PICK p, k, w : p = Built /\ k = Upcoming /\ w = u - 1
      OBVIOUS
    <3>2. Owns(p, k, w, op) /\ Owns(p, k, w, old - 1) /\ k \in Nat
      BY <1>2, <1>7, <1>9, <2>1, <2>2, <3>1
    <3> QED
      BY <3>2, OwnerUnique
  <2>4. IsRoot(old) /\ Known(old)
    BY <1>1, <2>1, <2>2 DEF ConvInv, VoicesHeld, Pending
  <2>5. old \in DOMAIN objects /\ old \in Nat /\ Holder \in Nat
    BY <1>1, <2>4 DEF IsRoot
  <2>6. ASSUME ~SubSteps PROVE EndsBy(Built, Upcoming, op, Clock')
    <3>1. EndsBy(Built, Upcoming, old - 1, Clock + Left(old))
      BY <1>1, <2>4, <2>5, <2>6 DEF ConvInv, TimesCounted
    <3>2. Left(old) = va[u].duration_ms
      BY <1>1, <1>5, <2>2 DEF Left, NoVoice
    <3>3. /\ CountedDown(u) \in Nat
          /\ va[u].duration_ms <= CountedDown(u) + ev.wait_ms
          /\ CountedDown(u) = 0
      BY <1>1, <1>9, <2>2, CountsDown DEF Taken
    <3>4. Left(old) \in Nat /\ Left(old) <= ev.wait_ms
      BY <1>1, <2>5, <3>2, <3>3, LeftNat
    <3>5. PICK p, k, t, s : /\ p = Built /\ k = Upcoming
                            /\ t = Clock + Left(old) /\ s = Clock'
      OBVIOUS
    <3>6. t \in Nat /\ s \in Nat /\ t <= s
      BY <1>1, <3>4, <3>5
    <3>7. /\ p.events \in Seq(Event) /\ k \in 1..(Len(p.events) + 1)
          /\ EndsBy(p, k, op, t)
      BY <1>2, <2>3, <3>1, <3>5
    <3>8. EndsBy(p, k, op, s)
      BY <3>6, <3>7, EndsLater
    <3> QED
      BY <3>5, <3>8
  <2> QED
    BY <2>2, <2>3, <2>5, <2>6
<1>10. ASSUME Added(u), NEW op PROVE ~Owns(Built, Upcoming, u - 1, op)
  <2>1. PICK n : n = u - 1
    OBVIOUS
  <2>2. n \in Int /\ n >= Len(va) /\ Upcoming \in 1..Upcoming
    BY <1>1, <1>2, <1>5, <1>10, <2>1 DEF Added
  <2>3. PICK k : k = Upcoming
    OBVIOUS
  <2>4. ~Owns(Built, k, n, op)
    BY <2>2, <2>3, NoOwnerYet
  <2> QED
    BY <2>1, <2>3, <2>4
<1>11. ASSUME NEW v \in DOMAIN va'
       PROVE  /\ ~Pending(v)' => Owns(Built, Upcoming, v - 1, va'[v].obj_id - 1)
              /\ Pending(v)' =>
                    \A op \in Ops : Owns(Built, Upcoming, v - 1, op) =>
                        /\ op # va'[v].obj_id - 1
                        /\ ~SubSteps => EndsBy(Built, Upcoming, op, Clock')
  <2>1. v \in Nat
    BY <1>1
  <2>2. CASE v # u
    <3>1. ~Pending(v)'
      BY <1>8, <2>1, <2>2
    <3>2. v \in DOMAIN va /\ va'[v].obj_id = va[v].obj_id
      BY <1>6, <2>2
    <3>3. Owns(Built, Upcoming, v - 1, va[v].obj_id - 1)
      BY <1>7, <3>2
    <3> QED
      BY <3>1, <3>2, <3>3
  <2>3. CASE v = u /\ Kept(u)
    <3>1. ~Pending(v)'
      BY <1>8, <2>1, <2>3 DEF Kept
    <3>2. Owns(Built, Upcoming, v - 1, va[v].obj_id - 1) /\ va[v].obj_id = va'[v].obj_id
      BY <1>5, <1>6, <1>7, <2>3
    <3> QED
      BY <3>1, <3>2
  <2>4. CASE v = u /\ Gained(u)
    <3>1. Pending(v)'
      BY <1>8, <2>1, <2>4 DEF Gained
    <3>2. Taken(u) \/ Added(u)
      BY <1>5, <1>4, <2>4, VoiceIdOfObject DEF Kept, Gained, NoVoice
    <3>3. ASSUME NEW op \in Ops, Owns(Built, Upcoming, v - 1, op)
          PROVE  /\ op # va'[v].obj_id - 1
                 /\ ~SubSteps => EndsBy(Built, Upcoming, op, Clock')
      BY <1>5, <1>9, <1>10, <2>4, <3>2, <3>3
    <3> QED
      BY <3>1, <3>3
  <2> QED
    BY <1>5, <2>2, <2>3, <2>4 DEF Taken, Added
<1>12. ASSUME NEW v \in DOMAIN va'
       PROVE  /\ ~Pending(v)' => Owns(Built', Upcoming', v - 1, va'[v].obj_id - 1)
              /\ Pending(v)' =>
                    \A op \in Ops : Owns(Built', Upcoming', v - 1, op) =>
                        /\ op # va'[v].obj_id - 1
                        /\ ~SubSteps => EndsBy(Built', Upcoming', op, Clock')
  BY <1>2, <1>3, <1>11
<1> QED
  BY <1>12 DEF VoicesOwned

(* The events before keep their meaning when a voice is added. *)
LEMMA VoicePrograms ==
    ASSUME ConvInv, VoiceGiven
    PROVE  EventsValid'
<1>1. /\ va \in Seq(VoiceType) /\ va' \in Seq(VoiceType) /\ events' = events
      /\ Len(va) \in Nat /\ Len(va') \in Nat
  BY VoiceFrame DEF VoiceGiven, Types
<1>2. /\ events \in Seq(Event) /\ Built.events = events
      /\ Upcoming \in Nat /\ Upcoming - 1 = Len(events) /\ Len(events) \in Nat
      /\ DOMAIN events = 1..Len(events)
  BY ProgramTypes
<1>3. /\ \A k \in Nat : \A v : OnVoiceBefore(Built', k, v) = OnVoiceBefore(Built, k, v)
      /\ \A k \in Nat : \A v, op : Owns(Built', k, v, op) <=> Owns(Built, k, v, op)
      /\ \A k \in Nat : \A op : TimedBefore(Built', k, op) = TimedBefore(Built, k, op)
  BY <1>1, <1>2, SameProgram
<1>4. Built'.events = events /\ Built'.vo_count = Len(va') /\ Built.vo_count = Len(va)
  BY <1>1 DEF Built
<1>5. Len(va) <= Len(va')
  <2>1. PICK u : Kept(u) \/ Taken(u) \/ Added(u)
    BY DEF VoiceGiven, GivesVoice
  <2> QED
    BY <1>1, <2>1 DEF Kept, Taken, Added
<1>6. ASSUME NEW k \in 1..Len(events)
      PROVE  ValidEvent(Built', k)
  <2>1. ValidEvent(Built, k) /\ k \in Nat /\ k \in 1..Upcoming
    BY <1>2 DEF ConvInv, EventsValid
  <2>2. PICK e : e = events[k]
    OBVIOUS
  <2>3. e.vo_id \in Nat
    <3>1. e \in Event
      BY <1>2, <2>2
    <3> QED
      BY <3>1 DEF Event
  <2>4. /\ AtMs(Built, k - 1) <= e.at_ms
        /\ e.vo_id < Len(va)
        /\ e.sets_time \/ TimedBefore(Built, k, e.carr_op_id) # {}
        /\ \/ Owns(Built, k, e.vo_id, e.carr_op_id)
           \/ /\ \A v \in 0..(Len(va) - 1) : ~Owns(Built, k, v, e.carr_op_id)
              /\ \A v \in 0..(e.vo_id - 1) : OnVoiceBefore(Built, k, v) # {}
    BY <1>2, <1>4, <2>1, <2>2 DEF ValidEvent
  <2>5. AtMs(Built', k - 1) = AtMs(Built, k - 1)
    BY <1>2, <1>4 DEF AtMs
  <2>6. e.vo_id < Len(va')
    BY <1>1, <1>5, <2>3, <2>4
  <2>7. ASSUME \A v \in 0..(Len(va) - 1) : ~Owns(Built, k, v, e.carr_op_id),
               NEW v \in 0..(Len(va') - 1)
        PROVE  ~Owns(Built', k, v, e.carr_op_id)
    <3>1. CASE v \in 0..(Len(va) - 1)
      BY <1>3, <2>1, <2>7, <3>1
    <3>2. CASE ~(v \in 0..(Len(va) - 1))
      <4>1. v \in Int /\ v >= Len(va)
        BY <1>1, <3>2
      <4> QED
        BY <1>3, <2>1, <4>1, NoOwnerYet
    <3> QED
      BY <3>1, <3>2
  <2>8. /\ e.sets_time \/ TimedBefore(Built', k, e.carr_op_id) # {}
        /\ \/ Owns(Built', k, e.vo_id, e.carr_op_id)
           \/ /\ \A v \in 0..(Len(va') - 1) : ~Owns(Built', k, v, e.carr_op_id)
              /\ \A v \in 0..(e.vo_id - 1) : OnVoiceBefore(Built', k, v) # {}
    BY <1>3, <2>1, <2>4, <2>7
  <2> QED
    BY <1>4, <2>2, <2>4, <2>5, <2>6, <2>8 DEF ValidEvent
<1>7. ASSUME ~SubSteps PROVE ReusesOnlyExpired(Built')
  <2>1. ASSUME NEW k \in 1..Len(events) PROVE TakesExpired(Built', k)
    <3>1. TakesExpired(Built, k) /\ k \in Nat
      BY <1>2, <1>7, <2>1 DEF ConvInv, EventsValid, ReusesOnlyExpired, EvCount
    <3> QED
      BY <1>2, <1>3, <1>4, <3>1 DEF TakesExpired, ExpiredMs
  <2> QED
    BY <1>4, <2>1 DEF ReusesOnlyExpired, EvCount
<1> QED
  BY <1>1, <1>6, <1>7 DEF EventsValid

LEMMA VoiceStep ==
    ASSUME ConvInv, PreserveVoice \/ RecycleVoice \/ AddVoice
    PROVE  ConvInv'
<1>1. VoiceGiven
  BY PreserveSteps
<1> QED
  BY <1>1, VoiceTypes, VoiceIds, VoiceEvent, VoiceHolders, VoiceTimes,
     VoiceOwners, VoicePrograms DEF ConvInv

-----------------------------------------------------------------------------
(* A script event keeps the invariant. *)

LEMMA ScriptFrame ==
    ASSUME ConvInv, ScriptEvent, NEW n \in Nat, Brings(n)
    PROVE  /\ Types /\ pc = "script" /\ pc' = "voice" /\ ~InEvent /\ InEvent'
           /\ UNCHANGED <<va, mods, nest_max, tot_dur_ms, events>>
           /\ EventGiven
           /\ Len(objects) \in Nat /\ Len(mods) = Len(objects)
           /\ DOMAIN objects = 1..Len(objects)
           /\ objects' \in Seq(ObjectType) /\ Len(objects') = Len(objects) + n
           /\ DOMAIN objects' = 1..(Len(objects) + n)
           /\ \A id \in DOMAIN objects : id \in DOMAIN objects' /\ objects'[id] = objects[id]
           /\ \A id \in DOMAIN objects' : ~(id \in DOMAIN objects) =>
                 /\ id > Len(objects) /\ id \in Nat
                 /\ objects'[id] = NewObject(root_op', ~(ev'.is_new /\ id = Len(objects) + 1))
<1>1. /\ Types /\ pc = "script" /\ pc' = "voice"
      /\ UNCHANGED <<va, mods, nest_max, tot_dur_ms, events>>
      /\ EventGiven
  BY ScriptFacts DEF ConvInv
<1>2. ~InEvent /\ InEvent'
  BY <1>1 DEF InEvent
<1>3. /\ Len(objects) \in Nat /\ DOMAIN objects = 1..Len(objects)
  BY <1>1 DEF Types
<1>4. Len(mods) = Len(objects)
  BY <1>2 DEF ConvInv, IdsInOrder
<1>5. /\ objects' \in Seq(ObjectType) /\ Len(objects') = Len(objects) + n
      /\ DOMAIN objects' = 1..(Len(objects) + n)
      /\ \A id \in 1..Len(objects) : objects'[id] = objects[id]
      /\ \A id \in (Len(objects) + 1)..(Len(objects) + n) :
            objects'[id] = NewObject(root_op', ~(ev'.is_new /\ id = Len(objects) + 1))
  BY DEF Brings
<1>6. ASSUME NEW id \in DOMAIN objects', ~(id \in DOMAIN objects)
      PROVE  /\ id > Len(objects) /\ id \in Nat
             /\ objects'[id] = NewObject(root_op', ~(ev'.is_new /\ id = Len(objects) + 1))
  <2>1. id > Len(objects) /\ id \in Nat /\ id \in (Len(objects) + 1)..(Len(objects) + n)
    BY <1>3, <1>5, <1>6
  <2> QED
    BY <1>5, <2>1
<1>7. \A id \in DOMAIN objects : id \in DOMAIN objects'
  BY <1>3, <1>5
<1> QED
  BY <1>1, <1>2, <1>3, <1>4, <1>5, <1>6, <1>7

LEMMA ScriptTyping ==
    ASSUME ConvInv, ScriptEvent, NEW n \in 0..(1 + MaxChain), Brings(n)
    PROVE  Types' /\ Sizes'
<1>1. /\ Types /\ pc = "script" /\ pc' = "voice" /\ ~InEvent /\ InEvent'
      /\ UNCHANGED <<va, mods, nest_max, tot_dur_ms, events>>
      /\ EventGiven /\ n \in Nat /\ MaxChain \in Nat
      /\ Len(objects) \in Nat
      /\ objects' \in Seq(ObjectType) /\ Len(objects') = Len(objects) + n
  BY ScriptFrame, ScriptTypes
<1>2. Types'
  <2>1. root_op' \in Nat
    BY <1>1 DEF Brings, Types
  <2> QED
    BY <1>1, <2>1 DEF Types, EventGiven
<1>3. PICK c, k, l : c = 1 + MaxChain /\ k = Len(events) /\ l = Len(objects)
  OBVIOUS
<1>4. l <= c * k /\ c \in Nat /\ k \in Nat /\ n <= c /\ l \in Nat
  <2>1. k \in Nat
    BY <1>1, <1>3 DEF Types
  <2>2. l <= (1 + MaxChain) * (k + 0)
    BY <1>1, <1>3 DEF ConvInv, Sizes
  <2> QED
    BY <1>1, <1>3, <2>1, <2>2
<1>5. l + n <= c * (k + 1)
  <2>1. c * (k + 1) = c * k + c /\ c * k \in Nat
    BY <1>4
  <2> QED
    BY <1>1, <1>4, <2>1
<1>6. Len(events) < MaxEvents
  BY ScriptFacts DEF ConvInv
<1>7. Sizes'
  BY <1>1, <1>3, <1>5, <1>6 DEF Sizes, ConvInv
<1> QED
  BY <1>2, <1>7

LEMMA ScriptIds ==
    ASSUME ConvInv, ScriptEvent, NEW n \in Nat, Brings(n)
    PROVE  IdsInOrder' /\ Roots'
<1>1. /\ Types /\ ~InEvent /\ InEvent' /\ mods' = mods
      /\ EventGiven
      /\ Len(objects) \in Nat /\ Len(mods) = Len(objects)
      /\ DOMAIN objects = 1..Len(objects)
      /\ objects' \in Seq(ObjectType) /\ Len(objects') = Len(objects) + n
      /\ DOMAIN objects' = 1..(Len(objects) + n)
  BY ScriptFrame
<1>2. /\ \A id \in DOMAIN objects : id \in DOMAIN objects' /\ objects'[id] = objects[id]
      /\ \A id \in DOMAIN objects' : ~(id \in DOMAIN objects) =>
            /\ id > Len(objects) /\ id \in Nat
            /\ objects'[id] = NewObject(root_op', ~(ev'.is_new /\ id = Len(objects) + 1))
  BY ScriptFrame
<1>3. IdsInOrder
  BY DEF ConvInv
<1>4. ASSUME NEW id \in DOMAIN objects'
      PROVE  objects'[id].last_op_id = IF id <= Len(mods) THEN id - 1 ELSE NoOp
  <2>1. CASE id \in DOMAIN objects
    BY <1>1, <1>2, <1>3, <2>1 DEF IdsInOrder, Known
  <2>2. CASE ~(id \in DOMAIN objects)
    <3>1. objects'[id].last_op_id = NoOp
      BY <1>2, <2>2 DEF NewObject
    <3> QED
      BY <1>1, <1>2, <2>2, <3>1
  <2> QED
    BY <2>1, <2>2
<1>5. Len(NewIds') = n /\ \A i \in DOMAIN NewIds' : NewIds'[i] = Len(mods) + i
  <2>1. DOMAIN NewIds' = 1..n /\ Len(NewIds') = n
    BY DEF Brings
  <2> QED
    BY <1>1, <2>1 DEF Brings
<1>6. IdsInOrder'
  BY <1>1, <1>3, <1>4, <1>5 DEF IdsInOrder, Known
<1>7. PICK root, m : root = root_op' /\ m = Len(objects)
  OBVIOUS
<1>8. /\ root = IF ev'.is_new THEN m + 1 ELSE root_op
      /\ ev'.is_new => n >= 1
      /\ ~ev'.is_new => ev'.obj \in DOMAIN objects
  BY <1>7 DEF Brings
<1>9. root_op \in 0..m /\ (objects # <<>> => root_op \in DOMAIN objects /\ ~objects[root_op].nested)
  BY <1>7 DEF ConvInv, Roots, IsRoot
<1>10. /\ root \in 0..(m + n)
       /\ objects' # <<>> => root \in DOMAIN objects' /\ ~objects'[root].nested
       /\ \A id \in DOMAIN objects' : ~(id \in DOMAIN objects) => root <= id
  <2>1. CASE ev'.is_new
    <3>1. root = m + 1 /\ n >= 1 /\ m + 1 \in DOMAIN objects' /\ ~(m + 1 \in DOMAIN objects)
      BY <1>1, <1>7, <1>8, <2>1
    <3>2. ~objects'[m + 1].nested
      <4>1. (~(ev'.is_new /\ m + 1 = Len(objects) + 1)) = FALSE
        BY <1>7, <2>1
      <4>2. objects'[m + 1] = NewObject(root_op', FALSE)
        BY <1>2, <3>1, <4>1
      <4> QED
        BY <4>2 DEF NewObject
    <3>3. \A id \in DOMAIN objects' : ~(id \in DOMAIN objects) => root <= id
      BY <1>1, <1>2, <1>7, <3>1
    <3> QED
      BY <1>1, <1>7, <3>1, <3>2, <3>3
  <2>2. CASE ~ev'.is_new
    <3>1. objects # <<>>
      BY <1>1, <1>8, <2>2
    <3>2. root \in DOMAIN objects /\ ~objects[root].nested
      BY <1>8, <1>9, <2>2, <3>1
    <3>3. root \in DOMAIN objects' /\ ~objects'[root].nested
      BY <1>2, <3>2
    <3> QED
      BY <1>1, <1>2, <1>7, <3>2, <3>3
  <2> QED
    BY <2>1, <2>2
<1>11. ASSUME NEW id \in DOMAIN objects', NEW r, r = objects'[id].root_op_obj
       PROVE  /\ r \in DOMAIN objects' /\ ~objects'[r].nested /\ r <= id
              /\ ~objects'[id].nested => r = id
  <2>1. CASE id \in DOMAIN objects
    <3>1. r = objects[id].root_op_obj
      BY <1>2, <1>11, <2>1
    <3>2. /\ r \in DOMAIN objects /\ ~objects[r].nested /\ r <= id
          /\ ~objects[id].nested => r = id
      BY <2>1, <3>1 DEF ConvInv, Roots, IsRoot
    <3> QED
      BY <1>2, <2>1, <3>2
  <2>2. CASE ~(id \in DOMAIN objects)
    <3>1. r = root /\ objects'[id].nested = ~(ev'.is_new /\ id = m + 1)
      BY <1>2, <1>7, <1>11, <2>2 DEF NewObject
    <3>2. ~objects'[id].nested => r = id
      BY <1>8, <3>1
    <3>3. objects' # <<>>
      BY <1>1, <1>11
    <3> QED
      BY <1>10, <2>2, <3>1, <3>2, <3>3
  <2> QED
    BY <2>1, <2>2
<1>12. Roots'
  <2>1. root_op' \in 0..Len(objects')
    BY <1>1, <1>7, <1>10
  <2>2. objects' # <<>> => root_op' \in DOMAIN objects' /\ ~objects'[root_op'].nested
    BY <1>7, <1>10
  <2>3. \A id \in DOMAIN objects' :
           LET r == objects'[id].root_op_obj
           IN  /\ r \in DOMAIN objects' /\ ~objects'[r].nested /\ r <= id
               /\ id \in DOMAIN objects' /\ ~objects'[id].nested => r = id
    BY <1>11
  <2> QED
    BY <2>1, <2>2, <2>3 DEF Roots, IsRoot
<1> QED
  BY <1>6, <1>12

LEMMA ScriptGiven ==
    ASSUME ConvInv, ScriptEvent, NEW n \in Nat, Brings(n)
    PROVE  EventSound'
<1>1. /\ Types /\ pc' = "voice" /\ mods' = mods /\ EventGiven
      /\ Len(objects) \in Nat /\ Len(mods) = Len(objects)
      /\ DOMAIN objects = 1..Len(objects)
      /\ DOMAIN objects' = 1..(Len(objects) + n)
  BY ScriptFrame
<1>2. \A id \in DOMAIN objects' : ~(id \in DOMAIN objects) =>
          /\ id > Len(objects) /\ id \in Nat
          /\ objects'[id] = NewObject(root_op', ~(ev'.is_new /\ id = Len(objects) + 1))
  BY ScriptFrame
<1>3. PICK m : m = Len(objects)
  OBVIOUS
<1>4. ASSUME NEW id \in DOMAIN objects', ~(id \in DOMAIN objects)
      PROVE  /\ objects'[id].last_vo_id = NoVoice
             /\ ~objects'[id].nested <=> ev'.is_new /\ id = m + 1
  <2>1. PICK nested : nested = ~(ev'.is_new /\ id = m + 1)
    OBVIOUS
  <2>2. objects'[id] = NewObject(root_op', nested)
    BY <1>2, <1>3, <1>4, <2>1, Zenon
  <2>3. objects'[id].last_vo_id = NoVoice /\ objects'[id].nested = nested
    BY <2>2 DEF NewObject
  <2> QED
    BY <2>1, <2>3, Zenon
<1>5. CASE ev'.is_new
  <2>1. /\ ev'.obj = m + 1 /\ m + 1 \in DOMAIN objects' /\ ~(m + 1 \in DOMAIN objects)
        /\ ev'.sets_time
    BY <1>1, <1>3, <1>5 DEF Brings, EventGiven
  <2>2. ~objects'[m + 1].nested /\ objects'[m + 1].last_vo_id = NoVoice
    BY <1>4, <1>5, <2>1
  <2>3. \A id \in DOMAIN objects' :
           ~objects'[id].nested /\ ~(id <= Len(mods)) => ev'.is_new /\ id = ev'.obj
    BY <1>1, <1>4, <2>1
  <2> QED
    BY <1>1, <1>5, <2>1, <2>2, <2>3 DEF EventSound, EventGiven, IsRoot, Known
<1>6. CASE ~ev'.is_new
  <2>1. ev'.obj \in DOMAIN objects
    BY <1>6 DEF Brings
  <2>2. ev'.obj \in DOMAIN objects' /\ ev'.obj <= Len(mods')
    BY <1>1, <2>1
  <2>3. \A id \in DOMAIN objects' :
           ~objects'[id].nested /\ ~(id <= Len(mods)) => ev'.is_new /\ id = ev'.obj
    BY <1>1, <1>4, <1>6
  <2> QED
    BY <1>1, <1>6, <2>2, <2>3 DEF EventSound, EventGiven, IsRoot, Known
<1> QED
  BY <1>5, <1>6

LEMMA ScriptHolders ==
    ASSUME ConvInv, ScriptEvent, NEW n \in Nat, Brings(n)
    PROVE  VoicesHeld' /\ VoiceHeldByOne' /\ VoicesOwned'
<1>1. /\ Types /\ pc' = "voice" /\ pc = "script"
      /\ UNCHANGED <<va, mods, nest_max, tot_dur_ms, events>>
      /\ \A id \in DOMAIN objects : id \in DOMAIN objects' /\ objects'[id] = objects[id]
  BY ScriptFrame
<1>2. ASSUME NEW id \in DOMAIN objects', ~(id \in DOMAIN objects)
      PROVE  objects'[id].last_vo_id = NoVoice
  <2>1. objects'[id] = NewObject(root_op', ~(ev'.is_new /\ id = Len(objects) + 1))
    BY <1>2, ScriptFrame
  <2> QED
    BY <2>1 DEF NewObject
<1>3. \A v : ~Pending(v) /\ ~Pending(v)'
  BY <1>1 DEF Pending
<1>4. \A id \in DOMAIN objects' :
          objects'[id].last_vo_id \in {NoVoice} \union 0..(Len(va') - 1)
  BY <1>1, <1>2 DEF ConvInv, VoicesHeld
<1>5. \A v \in DOMAIN va :
          /\ va[v].obj_id \in DOMAIN objects /\ ~objects[va[v].obj_id].nested
          /\ va[v].obj_id <= Len(mods)
          /\ va[v].carr_op_id = va[v].obj_id - 1
  BY <1>3 DEF ConvInv, VoicesHeld, IsRoot, Known
<1>6. VoicesHeld'
  BY <1>1, <1>3, <1>4, <1>5 DEF VoicesHeld, IsRoot, Known
<1>7. VoiceHeldByOne'
  <2>1. ASSUME NEW id \in DOMAIN objects', objects'[id].last_vo_id # NoVoice
        PROVE  va[objects'[id].last_vo_id + 1].obj_id = id
    BY <1>1, <1>2, <2>1 DEF ConvInv, VoiceHeldByOne
  <2>2. \A v \in DOMAIN va : objects'[va[v].obj_id].last_vo_id = v - 1
    BY <1>1, <1>5 DEF ConvInv, VoiceHeldByOne
  <2> QED
    BY <1>1, <2>1, <2>2 DEF VoiceHeldByOne
<1>8. VoicesOwned'
  <2>1. Built' = Built /\ Upcoming' = Upcoming
    BY <1>1 DEF Built, Upcoming
  <2>2. \A v \in DOMAIN va : Owns(Built, Upcoming, v - 1, va[v].obj_id - 1)
    BY <1>3 DEF ConvInv, VoicesOwned
  <2> QED
    BY <1>1, <1>3, <2>1, <2>2 DEF VoicesOwned
<1> QED
  BY <1>6, <1>7, <1>8

LEMMA ScriptTimes ==
    ASSUME ConvInv, ScriptEvent, NEW n \in Nat, Brings(n)
    PROVE  TimesCounted' /\ RootsTimed' /\ EventsKnown' /\ EventsValid'
<1>1. /\ Types /\ pc' = "voice" /\ pc = "script"
      /\ UNCHANGED <<va, mods, nest_max, tot_dur_ms, events>>
      /\ Len(objects) \in Nat /\ Len(mods) = Len(objects)
      /\ DOMAIN objects = 1..Len(objects)
      /\ \A id \in DOMAIN objects : id \in DOMAIN objects' /\ objects'[id] = objects[id]
  BY ScriptFrame
<1>2. \A id \in DOMAIN objects' : ~(id \in DOMAIN objects) => id > Len(objects) /\ id \in Nat
  BY ScriptFrame
<1>3. Built' = Built /\ Upcoming' = Upcoming /\ Clock' = Clock
  BY <1>1 DEF Built, Upcoming, Clock
<1>4. ASSUME NEW id \in DOMAIN objects', IsRoot(id)', Known(id)'
      PROVE  id \in DOMAIN objects /\ IsRoot(id) /\ Known(id) /\ Left(id)' = Left(id)
  <2>1. id <= Len(mods)
    BY <1>1, <1>4 DEF Known
  <2>2. id \in DOMAIN objects
    BY <1>1, <1>2, <2>1
  <2>3. objects'[id] = objects[id]
    BY <1>1, <2>2
  <2>4. Left(id)' = Left(id)
    BY <1>1, <2>3 DEF Left
  <2> QED
    BY <1>4, <2>1, <2>2, <2>3, <2>4 DEF IsRoot, Known
<1>5. TimesCounted'
  <2>1. ASSUME ~SubSteps, NEW id \in DOMAIN objects', IsRoot(id)', Known(id)'
        PROVE  EndsBy(Built', Upcoming', id - 1, Clock' + Left(id)')
    <3>1. EndsBy(Built, Upcoming, id - 1, Clock + Left(id))
      BY <1>1, <1>4, <2>1 DEF ConvInv, TimesCounted
    <3> QED
      BY <1>3, <1>4, <2>1, <3>1
  <2> QED
    BY <2>1 DEF TimesCounted
<1>6. RootsTimed'
  <2>1. ASSUME NEW id \in DOMAIN objects', IsRoot(id)', Known(id)'
        PROVE  TimedBefore(Built', Upcoming', id - 1) # {}
    BY <1>3, <1>4, <2>1 DEF ConvInv, RootsTimed
  <2> QED
    BY <2>1 DEF RootsTimed
<1>7. EventsKnown'
  <2>1. \A id : id \in DOMAIN objects /\ ~objects[id].nested =>
                id \in DOMAIN objects' /\ ~objects'[id].nested
    BY <1>1
  <2> QED
    BY <1>1, <2>1 DEF ConvInv, EventsKnown, IsRoot, Known
<1>8. EventsValid'
  BY <1>1, <1>3 DEF ConvInv, EventsValid
<1> QED
  BY <1>5, <1>6, <1>7, <1>8

LEMMA ScriptStep ==
    ASSUME ConvInv, ScriptEvent
    PROVE  ConvInv'
<1>1. PICK n \in 0..(1 + MaxChain) : Brings(n)
  BY ScriptFacts DEF ConvInv
<1>2. n \in Nat
  BY ScriptTypes
<1>3. Types' /\ Sizes'
  BY <1>1, ScriptTyping
<1> QED
  BY <1>1, <1>2, <1>3, ScriptIds, ScriptGiven, ScriptHolders, ScriptTimes DEF ConvInv

-----------------------------------------------------------------------------
(* Nesting is finite: modulators have higher ids than what they are for.   *)

ModsInOrder(ms) ==
    /\ ms \in Seq(SUBSET Nat)
    /\ \A k \in DOMAIN ms : ms[k] \subseteq k..(Len(ms) - 1)

(* The nesting at distance d from the last operator, from that of those    *)
(* nearer to it.                                                           *)
HeightFrom(ms, g, d) ==
    LET n == Len(ms)
        subs == ms[n - d]
    IN  IF d = n \/ subs = {} THEN 0
        ELSE 1 + Lowest({h \in 0..n : \A s \in subs : g[n - (s + 1)] <= h})

LEMMA HeightBound ==
    ASSUME NEW ms, ModsInOrder(ms), NEW d \in 0..Len(ms),
           NEW g, \A c \in 0..(d - 1) : g[c] \in 0..c
    PROVE  HeightFrom(ms, g, d) \in 0..d
<1>1. PICK n : n = Len(ms)
  OBVIOUS
<1>2. n \in Nat /\ ms \in Seq(SUBSET Nat) /\ DOMAIN ms = 1..n
  BY <1>1 DEF ModsInOrder
<1>3. CASE d = n \/ ms[n - d] = {}
  BY <1>1, <1>3 DEF HeightFrom
<1>4. CASE ~(d = n \/ ms[n - d] = {})
  <2>1. PICK H : H = {h \in 0..n : \A s \in ms[n - d] : g[n - (s + 1)] <= h}
    OBVIOUS
  <2>2. n - d \in 1..n /\ d <= n
    BY <1>1, <1>2, <1>4
  <2>3. ms[n - d] \subseteq (n - d)..(n - 1)
    BY <1>1, <1>2, <2>2 DEF ModsInOrder
  <2>4. d - 1 \in 0..n
    <3>1. d # 0
      BY <1>2, <1>4, <2>3
    <3> QED
      BY <1>2, <2>2, <3>1
  <2>5. ASSUME NEW s \in ms[n - d] PROVE g[n - (s + 1)] <= d - 1
    <3>1. PICK c : c = n - (s + 1)
      OBVIOUS
    <3>2. c \in 0..(d - 1)
      BY <1>2, <2>2, <2>3, <3>1
    <3>3. g[c] \in 0..c
      BY <3>2
    <3> QED
      BY <2>4, <3>1, <3>2, <3>3
  <2>6. d - 1 \in H
    BY <2>1, <2>4, <2>5
  <2>7. H \subseteq Nat /\ H # {}
    BY <2>1, <2>6
  <2>8. Lowest(H) \in H /\ Lowest(H) <= d - 1
    BY <2>6, <2>7, LowestIn
  <2>9. HeightFrom(ms, g, d) = 1 + Lowest(H)
    BY <1>1, <1>4, <2>1 DEF HeightFrom
  <2>10. d \in Nat
    BY <1>1, <1>2, <2>2
  <2>11. PICK l : l = Lowest(H)
    OBVIOUS
  <2>12. l \in Nat /\ l <= d - 1
    BY <2>7, <2>8, <2>11
  <2>13. 1 + l \in 0..d
    BY <2>10, <2>12
  <2> QED
    BY <2>9, <2>11, <2>13
<1> QED
  BY <1>3, <1>4

(* It depends on those nearer to the last alone. *)
LEMMA HeightLocal ==
    ASSUME NEW ms, ModsInOrder(ms), NEW d \in 0..Len(ms),
           NEW g, NEW f, \A c \in 0..(d - 1) : g[c] = f[c]
    PROVE  HeightFrom(ms, g, d) = HeightFrom(ms, f, d)
<1>1. PICK n : n = Len(ms)
  OBVIOUS
<1>2. n \in Nat /\ ms \in Seq(SUBSET Nat) /\ DOMAIN ms = 1..n
  BY <1>1 DEF ModsInOrder
<1>3. CASE d = n \/ ms[n - d] = {}
  BY <1>1, <1>3 DEF HeightFrom
<1>4. CASE ~(d = n \/ ms[n - d] = {})
  <2>1. ms[n - d] \subseteq (n - d)..(n - 1) /\ n - d \in 1..n
    BY <1>1, <1>2, <1>4 DEF ModsInOrder
  <2>2. ASSUME NEW s \in ms[n - d] PROVE g[n - (s + 1)] = f[n - (s + 1)]
    <3>1. n - (s + 1) \in 0..(d - 1)
      BY <1>1, <1>2, <2>1
    <3> QED
      BY <3>1
  <2>3. {h \in 0..n : \A s \in ms[n - d] : g[n - (s + 1)] <= h} =
        {h \in 0..n : \A s \in ms[n - d] : f[n - (s + 1)] <= h}
    BY <2>2
  <2> QED
    BY <1>1, <1>4, <2>3, Zenon DEF HeightFrom
<1> QED
  BY <1>3, <1>4

HeightsTo(ms, m, g) ==
    /\ g = [d \in 0..m |-> g[d]]
    /\ \A d \in 0..m : g[d] = HeightFrom(ms, g, d) /\ g[d] \in 0..d

LEMMA HeightsExtend ==
    ASSUME NEW ms, ModsInOrder(ms), NEW m \in 0..Len(ms),
           NEW g, \A d \in 0..(m - 1) : g[d] = HeightFrom(ms, g, d) /\ g[d] \in 0..d
    PROVE  \E f : HeightsTo(ms, m, f)
<1>1. PICK top : top = HeightFrom(ms, g, m)
  OBVIOUS
<1>2. PICK f : f = [d \in 0..m |-> IF d = m THEN top ELSE g[d]]
  OBVIOUS
<1>3. m \in Nat /\ Len(ms) \in Nat
  BY DEF ModsInOrder
<1>4. \A d \in 0..(m - 1) : f[d] = g[d]
  BY <1>2, <1>3
<1>5. ASSUME NEW d \in 0..m
      PROVE  f[d] = HeightFrom(ms, f, d) /\ f[d] \in 0..d
  <2>1. d \in 0..Len(ms) /\ \A c \in 0..(d - 1) : c \in 0..(m - 1)
    BY <1>3
  <2>2. \A c \in 0..(d - 1) : f[c] = g[c]
    BY <1>4, <2>1
  <2>3. HeightFrom(ms, f, d) = HeightFrom(ms, g, d)
    BY <2>1, <2>2, HeightLocal
  <2>4. CASE d = m
    <3>1. f[d] = HeightFrom(ms, g, d)
      BY <1>1, <1>2, <2>4
    <3>2. \A c \in 0..(d - 1) : g[c] \in 0..c
      BY <2>1
    <3> QED
      BY <2>1, <2>3, <3>1, <3>2, HeightBound
  <2>5. CASE d # m
    <3>1. d \in 0..(m - 1)
      BY <1>3, <2>5
    <3> QED
      BY <1>4, <2>3, <3>1
  <2> QED
    BY <2>4, <2>5
<1>6. f = [d \in 0..m |-> f[d]]
  BY <1>2
<1> QED
  BY <1>5, <1>6 DEF HeightsTo

(* So there is such a function: for no length is it the first not to be.   *)
LEMMA HeightsExist ==
    ASSUME NEW ms, ModsInOrder(ms), NEW m \in 0..Len(ms)
    PROVE  \E g : HeightsTo(ms, m, g)
<1> DEFINE Without == {k \in 0..Len(ms) : ~\E g : HeightsTo(ms, k, g)}
<1>1. Len(ms) \in Nat
  BY DEF ModsInOrder
<1>2. ASSUME Without # {} PROVE FALSE
  <2>1. Without \subseteq Nat
    BY <1>1
  <2>2. PICK k \in Without : \A j \in Without : k <= j
    BY <1>2, <2>1, LeastNatural
  <2>3. \E g : \A d \in 0..(k - 1) : g[d] = HeightFrom(ms, g, d) /\ g[d] \in 0..d
    <3>1. CASE k = 0
      <4>1. 0..(k - 1) = {}
        BY <3>1
      <4> QED
        BY <4>1
    <3>2. CASE k # 0
      <4>1. k - 1 \in 0..Len(ms) /\ ~(k <= k - 1)
        BY <1>1, <2>1, <2>2, <3>2
      <4>2. ~(k - 1 \in Without)
        BY <2>2, <4>1
      <4>3. PICK g : HeightsTo(ms, k - 1, g)
        BY <4>1, <4>2
      <4> QED
        BY <4>3 DEF HeightsTo
    <3> QED
      BY <3>1, <3>2
  <2>4. k \in 0..Len(ms) /\ ~\E g : HeightsTo(ms, k, g)
    BY <2>2
  <2> QED
    BY <2>3, <2>4, HeightsExtend
<1> QED
  BY <1>2

LEMMA HeightNat ==
    ASSUME NEW ms, ModsInOrder(ms), NEW op \in 0..(Len(ms) - 1)
    PROVE  Height(ms, op) \in Nat
<1>1. PICK n, f : n = Len(ms) /\ f = Heights(ms)
  OBVIOUS
<1>2. n \in Nat /\ n \in 0..Len(ms)
  BY <1>1 DEF ModsInOrder
<1>3. PICK g : HeightsTo(ms, n, g)
  BY <1>2, HeightsExist
<1>4. g = [d \in 0..n |-> HeightFrom(ms, g, d)]
  BY <1>3 DEF HeightsTo
<1>5. f = CHOOSE h : h = [d \in 0..n |-> HeightFrom(ms, h, d)]
  BY <1>1, Zenon DEF Heights, HeightFrom
<1>6. f = [d \in 0..n |-> HeightFrom(ms, f, d)]
  BY <1>4, <1>5, Zenon
<1>7. \A d \in 0..n : f[d] = HeightFrom(ms, f, d)
  BY <1>6
<1> DEFINE Other == {d \in 0..n : f[d] \notin 0..d}
<1>8. ASSUME Other # {} PROVE FALSE
  <2>1. Other \subseteq Nat
    BY <1>2
  <2>2. PICK d \in Other : \A c \in Other : d <= c
    BY <1>8, <2>1, LeastNatural
  <2>3. ASSUME NEW c \in 0..(d - 1) PROVE f[c] \in 0..c
    <3>1. c \in 0..n /\ ~(d <= c)
      BY <1>2, <2>1, <2>2
    <3> QED
      BY <2>2, <3>1
  <2>4. d \in 0..Len(ms) /\ d \in 0..n /\ f[d] \notin 0..d
    BY <1>1, <2>2
  <2>5. HeightFrom(ms, f, d) \in 0..d
    BY <2>3, <2>4, HeightBound
  <2> QED
    BY <1>7, <2>4, <2>5
<1>9. n - (op + 1) \in 0..n
  BY <1>1, <1>2
<1>10. f[n - (op + 1)] \in 0..(n - (op + 1))
  BY <1>8, <1>9
<1> QED
  BY <1>1, <1>2, <1>10 DEF Height

-----------------------------------------------------------------------------
(* The conversion of an event, in terms of the invariant. *)

LEMMA NewIdsSeq ==
    ASSUME ConvInv, InEvent
    PROVE  /\ NewIds \in Seq(Nat) /\ Len(NewIds) \in Nat
           /\ DOMAIN NewIds = 1..Len(NewIds)
           /\ mods \in Seq(SUBSET Nat) /\ objects \in Seq(ObjectType)
           /\ Len(mods) \in Nat /\ Len(objects) = Len(mods) + Len(NewIds)
           /\ DOMAIN objects = 1..Len(objects)
           /\ \A i \in DOMAIN NewIds : NewIds[i] = Len(mods) + i
<1>1. ev \in EvType /\ mods \in Seq(SUBSET Nat) /\ objects \in Seq(ObjectType)
  BY DEF ConvInv, Types
<1>2. ev.chain \in Seq(Nat) /\ ev.obj \in Nat
  BY <1>1 DEF EvType
<1>3. NewIds \in Seq(Nat)
  <2>1. PICK main : main = IF ev.is_new THEN <<ev.obj>> ELSE <<>>
    OBVIOUS
  <2>2. main \in Seq(Nat)
    BY <1>2, <2>1
  <2>3. main \o ev.chain \in Seq(Nat)
    BY <1>2, <2>2, ConcatProperties
  <2> QED
    BY <2>1, <2>3 DEF NewIds
<1>4. Len(NewIds) \in Nat /\ DOMAIN NewIds = 1..Len(NewIds)
  BY <1>3
<1> QED
  BY <1>1, <1>3, <1>4 DEF ConvInv, IdsInOrder

(* Every operator gets the id before that of its object. *)
LEMMA IdsGiven ==
    ASSUME ConvInv, InEvent, NEW id \in DOMAIN objects
    PROVE  OpIdAfter(id) = id - 1
<1>1. /\ Len(NewIds) \in Nat /\ DOMAIN NewIds = 1..Len(NewIds)
      /\ Len(mods) \in Nat /\ Len(objects) = Len(mods) + Len(NewIds)
      /\ DOMAIN objects = 1..Len(objects)
      /\ \A i \in DOMAIN NewIds : NewIds[i] = Len(mods) + i
  BY NewIdsSeq
<1>2. CASE id <= Len(mods)
  <2>1. ~\E i \in DOMAIN NewIds : NewIds[i] = id
    BY <1>1, <1>2
  <2>2. objects[id].last_op_id = id - 1
    BY <1>2 DEF ConvInv, IdsInOrder, Known
  <2> QED
    BY <2>1, <2>2 DEF OpIdAfter
<1>3. CASE ~(id <= Len(mods))
  <2>1. PICK i : i = id - Len(mods)
    OBVIOUS
  <2>2. i \in DOMAIN NewIds /\ NewIds[i] = id
    BY <1>1, <1>3, <2>1
  <2>3. \A j \in DOMAIN NewIds : NewIds[j] = id => j = i
    BY <1>1, <2>1
  <2>4. (CHOOSE j \in DOMAIN NewIds : NewIds[j] = id) = i
    BY <2>2, <2>3
  <2>5. OpIdAfter(id) = Len(mods) - 1 + i
    BY <2>2, <2>4 DEF OpIdAfter
  <2> QED
    BY <1>1, <2>1, <2>5
<1> QED
  BY <1>2, <1>3

(* The new operators of a list come after the main one, one by one. *)
LEMMA ChainIds ==
    ASSUME ConvInv, InEvent, NEW i \in DOMAIN ev.chain
    PROVE  /\ i \in Nat \ {0} /\ ev.obj \in Nat
           /\ ev.chain[i] \in DOMAIN objects
           /\ ev.chain[i] > ev.obj
           /\ i # 1 => ev.chain[i - 1] < ev.chain[i]
<1>1. /\ Len(NewIds) \in Nat /\ DOMAIN NewIds = 1..Len(NewIds)
      /\ Len(mods) \in Nat /\ Len(objects) = Len(mods) + Len(NewIds)
      /\ DOMAIN objects = 1..Len(objects)
      /\ \A j \in DOMAIN NewIds : NewIds[j] = Len(mods) + j
  BY NewIdsSeq
<1>2. ev \in EvType /\ (~ev.is_new => Known(ev.obj)) /\ ev.obj \in DOMAIN objects
  BY DEF ConvInv, Types, EventSound
<1>3. ev.chain \in Seq(Nat) /\ ev.obj \in Nat
  BY <1>2 DEF EvType
<1>4. PICK m, n, ids : m = Len(mods) /\ n = Len(ev.chain) /\ ids = ev.chain
  OBVIOUS
<1>5. n \in Nat /\ DOMAIN ids = 1..n /\ i \in 1..n /\ ids \in Seq(Nat)
  BY <1>3, <1>4
<1>6. CASE ev.is_new
  <2>1. NewIds = <<ev.obj>> \o ids
    BY <1>4, <1>6 DEF NewIds
  <2>2. /\ Len(<<ev.obj>> \o ids) = 1 + n
        /\ (<<ev.obj>> \o ids)[1] = ev.obj
        /\ \A k \in 2..(1 + n) : (<<ev.obj>> \o ids)[k] = ids[k - 1]
    <3>1. PICK o : o = ev.obj
      OBVIOUS
    <3>2. o \in Nat /\ n = Len(ids)
      BY <1>3, <1>4, <3>1
    <3>3. /\ Len(<<o>> \o ids) = 1 + n
          /\ (<<o>> \o ids)[1] = o
          /\ \A k \in 2..(1 + n) : (<<o>> \o ids)[k] = ids[k - 1]
      BY <1>5, <3>2, OneAndOthers
    <3> QED
      BY <3>1, <3>3
  <2>3. ev.obj = m + 1 /\ Len(NewIds) = 1 + n
    <3>1. 1 \in DOMAIN NewIds
      BY <1>1, <1>5, <2>1, <2>2
    <3> QED
      BY <1>1, <1>4, <2>1, <2>2, <3>1
  <2>4. ASSUME NEW j \in 1..n PROVE ids[j] = m + 1 + j
    <3>1. PICK k : k = j + 1
      OBVIOUS
    <3>2. k \in 2..(1 + n) /\ k \in DOMAIN NewIds /\ k - 1 = j
      BY <1>1, <1>5, <2>3, <3>1
    <3>3. NewIds[k] = ids[j] /\ NewIds[k] = m + k
      BY <1>1, <1>4, <2>1, <2>2, <3>2
    <3> QED
      BY <1>1, <1>4, <1>5, <3>1, <3>3
  <2>5. ids[i] = m + 1 + i /\ (i # 1 => ids[i - 1] = m + 1 + (i - 1))
    BY <1>5, <2>4
  <2> QED
    BY <1>1, <1>3, <1>4, <1>5, <2>3, <2>5
<1>7. CASE ~ev.is_new
  <2>1. NewIds = ids
    BY <1>4, <1>5, <1>7, ConcatEmptySeq DEF NewIds
  <2>2. ids[i] = m + i /\ (i # 1 => ids[i - 1] = m + (i - 1)) /\ Len(NewIds) = n
    <3>1. Len(NewIds) = n
      BY <1>4, <2>1
    <3>2. \A j \in 1..n : ids[j] = m + j
      BY <1>1, <1>4, <2>1, <3>1
    <3>3. i # 1 => i - 1 \in 1..n
      BY <1>5
    <3> QED
      BY <1>5, <3>1, <3>2, <3>3
  <2>3. ev.obj <= m
    BY <1>2, <1>4, <1>7 DEF Known
  <2> QED
    BY <1>1, <1>3, <1>4, <1>5, <2>2, <2>3
<1> QED
  BY <1>6, <1>7

(* A list has operators that come after the one it is for. *)
LEMMA ListAfter ==
    ASSUME ConvInv, InEvent, NEW id \in DOMAIN objects
    PROVE  ListOf(id) \subseteq id..(Len(objects) - 1)
<1>1. objects \in Seq(ObjectType)
  BY NewIdsSeq
<1>2. ASSUME NEW i \in DOMAIN ev.chain, id = IF i = 1 THEN ev.obj ELSE ev.chain[i - 1]
      PROVE  OpIdAfter(ev.chain[i]) \in id..(Len(objects) - 1)
  <2>1. PICK c : c = ev.chain[i]
    OBVIOUS
  <2>2. c \in DOMAIN objects /\ c > id
    BY <1>2, <2>1, ChainIds
  <2>3. OpIdAfter(c) = c - 1
    BY <2>2, IdsGiven
  <2> QED
    BY <1>1, <2>1, <2>2, <2>3
<1> QED
  BY <1>2 DEF ListOf

LEMMA ModsOrdered ==
    ASSUME ConvInv, InEvent
    PROVE  ModsInOrder(ModsAfter) /\ Len(ModsAfter) = Len(objects)
<1> DEFINE empty == [i \in DOMAIN NewIds |-> {}]
<1>1. /\ Len(NewIds) \in Nat /\ DOMAIN NewIds = 1..Len(NewIds)
      /\ mods \in Seq(SUBSET Nat) /\ Len(mods) \in Nat
      /\ Len(objects) = Len(mods) + Len(NewIds) /\ DOMAIN objects = 1..Len(objects)
  BY NewIdsSeq
<1>2. PICK grown, m, n, l : /\ grown = mods \o empty /\ m = Len(mods)
                            /\ n = Len(NewIds) /\ l = Len(objects)
  OBVIOUS
<1>3. empty \in Seq(SUBSET Nat) /\ Len(empty) = n /\ \A i \in 1..n : empty[i] = {}
  <2>1. empty \in [1..n -> SUBSET Nat] /\ n \in Nat
    BY <1>1, <1>2
  <2> QED
    BY <1>1, <1>2, <2>1
<1> HIDE DEF empty
<1>4. /\ Len(grown) = l /\ DOMAIN grown = 1..l /\ l \in Nat
      /\ \A k \in 1..l : grown[k] = IF k <= m THEN mods[k] ELSE {}
  <2>1. PICK none, old : none = empty /\ old = mods
    OBVIOUS
  <2>2. none \in Seq(SUBSET Nat) /\ Len(none) = n /\ \A i \in 1..n : none[i] = {}
    BY <1>3, <2>1, Zenon
  <2>3. old \in Seq(SUBSET Nat) /\ Len(old) = m
    BY <1>1, <1>2, <2>1
  <2>4. /\ old \o none \in Seq(SUBSET Nat)
        /\ Len(old \o none) = Len(old) + Len(none)
        /\ \A i \in 1..(Len(old) + Len(none)) :
              (old \o none)[i] = IF i <= Len(old) THEN old[i] ELSE none[i - Len(old)]
    BY <2>2, <2>3, ConcatProperties, Zenon
  <2>5. grown = old \o none /\ l = m + n /\ l \in Nat /\ m \in Nat /\ n \in Nat
    BY <1>1, <1>2, <2>1
  <2>6. ASSUME NEW k \in 1..l PROVE grown[k] = IF k <= m THEN mods[k] ELSE {}
    <3>1. grown[k] = IF k <= m THEN old[k] ELSE none[k - m]
      BY <2>2, <2>3, <2>4, <2>5
    <3>2. ~(k <= m) => k - m \in 1..n
      BY <2>5
    <3> QED
      BY <2>1, <2>2, <3>1, <3>2
  <2>7. Len(grown) = l /\ grown \in Seq(SUBSET Nat)
    BY <2>2, <2>3, <2>4, <2>5
  <2>8. DOMAIN grown = 1..l
    BY <2>7
  <2> QED
    BY <2>5, <2>6, <2>7, <2>8
<1>5. ASSUME NEW k \in 1..l PROVE grown[k] \subseteq k..(l - 1)
  <2>1. CASE k <= m
    <3>1. grown[k] = mods[k] /\ k \in DOMAIN mods
      BY <1>1, <1>2, <1>4, <2>1
    <3>2. mods[k] \subseteq k..(m - 1)
      BY <1>2, <3>1 DEF ConvInv, IdsInOrder
    <3>3. k..(m - 1) \subseteq k..(l - 1)
      BY <1>1, <1>2
    <3> QED
      BY <3>1, <3>2, <3>3
  <2>2. CASE ~(k <= m)
    BY <1>4, <2>2
  <2> QED
    BY <2>1, <2>2
<1>6. PICK listed :
          listed = [k \in DOMAIN grown |->
                      UNION {ListOf(ev.chain[i]) :
                          i \in {j \in DOMAIN ev.chain : OpIdAfter(ev.chain[j]) = k - 1}}]
  OBVIOUS
<1>7. ASSUME NEW k \in 1..l PROVE listed[k] \subseteq k..(l - 1)
  <2>1. ASSUME NEW i \in DOMAIN ev.chain, OpIdAfter(ev.chain[i]) = k - 1
        PROVE  ListOf(ev.chain[i]) \subseteq k..(l - 1)
    <3>1. PICK c : c = ev.chain[i]
      OBVIOUS
    <3>2. c \in DOMAIN objects
      BY <3>1, ChainIds
    <3>3. OpIdAfter(c) = c - 1 /\ ListOf(c) \subseteq c..(Len(objects) - 1)
      BY <3>2, IdsGiven, ListAfter
    <3>4. c = k
      BY <1>1, <2>1, <3>1, <3>2, <3>3
    <3> QED
      BY <1>2, <3>1, <3>3, <3>4
  <2>2. listed[k] = UNION {ListOf(ev.chain[i]) :
                       i \in {j \in DOMAIN ev.chain : OpIdAfter(ev.chain[j]) = k - 1}}
    BY <1>4, <1>6
  <2> QED
    BY <2>1, <2>2
<1>8. ev.obj \in DOMAIN objects
  BY DEF ConvInv, EventSound
<1>9. PICK main, own : main = OpIdAfter(ev.obj) + 1 /\ own = ListOf(ev.obj)
  OBVIOUS
<1>10. main \in 1..l /\ own \subseteq main..(l - 1)
  <2>1. OpIdAfter(ev.obj) = ev.obj - 1 /\ ListOf(ev.obj) \subseteq ev.obj..(l - 1)
    BY <1>2, <1>8, IdsGiven, ListAfter
  <2>2. main = ev.obj
    BY <1>1, <1>8, <1>9, <2>1
  <2> QED
    BY <1>1, <1>2, <1>8, <1>9, <2>1, <2>2
<1>11. ModsAfter = [k \in DOMAIN grown |->
                      CASE k = main /\ ev.list = "replace" -> own
                        [] k = main /\ ev.list = "append"  -> grown[k] \union own
                        [] OTHER -> grown[k] \union listed[k]]
  BY <1>2, <1>6, <1>9, Zenon DEF ModsAfter, empty
<1>12. ASSUME NEW k \in 1..l PROVE ModsAfter[k] \subseteq k..(l - 1)
  <2>1. ModsAfter[k] = CASE k = main /\ ev.list = "replace" -> own
                         [] k = main /\ ev.list = "append"  -> grown[k] \union own
                         [] OTHER -> grown[k] \union listed[k]
    BY <1>4, <1>11
  <2> QED
    BY <1>5, <1>7, <1>10, <2>1
<1>13. ModsAfter \in Seq(SUBSET Nat) /\ Len(ModsAfter) = l /\ DOMAIN ModsAfter = 1..l
  <2>1. DOMAIN ModsAfter = 1..l
    BY <1>4, <1>11
  <2>2. \A k \in 1..l : ModsAfter[k] \in SUBSET Nat
    BY <1>12
  <2>3. ModsAfter = [k \in 1..l |-> ModsAfter[k]]
    BY <1>4, <1>11
  <2>4. ModsAfter \in [1..l -> SUBSET Nat]
    BY <2>2, <2>3
  <2> QED
    BY <1>4, <2>1, <2>4
<1> QED
  BY <1>2, <1>12, <1>13 DEF ModsInOrder

(* The event made belongs to the carrier at the root. *)
LEMMA CarrierGiven ==
    ASSUME ConvInv, pc = "operators"
    PROVE  /\ CarrierAfter = Holder - 1 /\ CarrierAfter \in Ops
           /\ CarrierAfter \in 0..(Len(objects) - 1)
           /\ ev.vo_id + 1 \in DOMAIN va /\ ev.vo_id \in Nat
           /\ va[ev.vo_id + 1].obj_id = Holder
           /\ objects[Holder].last_vo_id = ev.vo_id
<1>1. InEvent /\ EventSound /\ va \in Seq(VoiceType) /\ ev \in EvType
      /\ objects \in Seq(ObjectType) /\ MaxChain \in Nat /\ MaxEvents \in Nat
      /\ Len(events) \in Nat
  BY ScriptTypes DEF ConvInv, InEvent, Types
<1>2. Holder = objects[ev.obj].root_op_obj /\ Holder \in DOMAIN objects
  BY <1>1, HolderRoot
<1>3. PICK u : u = ev.vo_id + 1
  OBVIOUS
<1>4. /\ u \in DOMAIN va /\ va[u].obj_id = Holder /\ u \in Nat \ {0}
      /\ ev.vo_id = u - 1
  <2>1. u \in DOMAIN va /\ va[u].obj_id = Holder
    BY <1>1, <1>3 DEF EventSound
  <2>2. ev.vo_id \in Int
    BY <1>1 DEF EvType, NoVoice
  <2> QED
    BY <1>1, <1>3, <2>1, <2>2
<1>5. CarrierAfter = Holder - 1
  <2>1. CASE ev.assign_voice
    BY <1>1, <1>2, <2>1, IdsGiven DEF CarrierAfter
  <2>2. CASE ~ev.assign_voice
    <3>1. ~Pending(u)
      BY <2>2 DEF Pending
    <3> QED
      BY <1>3, <1>4, <2>2, <3>1 DEF CarrierAfter, ConvInv, VoicesHeld
  <2> QED
    BY <2>1, <2>2
<1>6. Holder - 1 \in 0..(Len(objects) - 1)
  BY <1>1, <1>2
<1>7. Holder - 1 \in Ops
  <2>1. PICK c, k, l : c = 1 + MaxChain /\ k = Len(events) + 1 /\ l = Len(objects)
    OBVIOUS
  <2>2. l <= c * k /\ k <= MaxEvents /\ c \in Nat /\ k \in Nat /\ l \in Nat
    BY <1>1, <2>1 DEF ConvInv, Sizes
  <2>3. c * k <= c * MaxEvents /\ c * k \in Nat /\ c * MaxEvents \in Nat
    <3>1. k * c <= MaxEvents * c /\ k * c \in Nat /\ MaxEvents * c \in Nat
      BY <1>1, <2>2, Products
    <3> QED
      BY <1>1, <2>2, <3>1
  <2>4. MaxOps = c * MaxEvents
    BY <2>1 DEF MaxOps
  <2>5. Holder - 1 \in 0..(MaxOps - 1)
    BY <1>6, <2>1, <2>2, <2>3, <2>4
  <2> QED
    BY <2>5, IdAssumption
<1>8. objects[Holder].last_vo_id = u - 1
  BY <1>4 DEF ConvInv, VoiceHeldByOne
<1> QED
  BY <1>3, <1>4, <1>5, <1>6, <1>7, <1>8

(* What converting an event does. *)
Numbered ==
    /\ objects' \in Seq(ObjectType) /\ DOMAIN objects' = DOMAIN objects
    /\ Len(objects') = Len(objects)
    /\ \A id \in DOMAIN objects :
          /\ objects'[id].root_op_obj = objects[id].root_op_obj
          /\ objects'[id].nested = objects[id].nested
          /\ objects'[id].last_vo_id = objects[id].last_vo_id
          /\ objects'[id].last_op_id = id - 1

Carried ==
    /\ va' \in Seq(VoiceType) /\ DOMAIN va' = DOMAIN va /\ Len(va') = Len(va)
    /\ \A v \in DOMAIN va :
          /\ va'[v].obj_id = va[v].obj_id
          /\ va'[v].duration_ms = va[v].duration_ms
          /\ v # ev.vo_id + 1 => va'[v].carr_op_id = va[v].carr_op_id
    /\ va'[ev.vo_id + 1].carr_op_id = Holder - 1

MakesEvent(e) ==
    /\ e \in Event
    /\ events' = Append(events, e)
    /\ e.at_ms = Clock /\ e.vo_id = ev.vo_id /\ e.carr_op_id = Holder - 1
    /\ e.sets_time = ev.sets_time /\ e.time_ms = ev.time_ms

LEMMA ConvertFacts ==
    ASSUME ConvInv, ConvertEvent
    PROVE  /\ Types /\ InEvent /\ ~InEvent' /\ pc = "operators" /\ pc' = "script"
           /\ ev' = NoEvent /\ root_op' = root_op
           /\ ModsInOrder(mods') /\ Len(mods') = Len(objects)
           /\ nest_max' \in Nat
           /\ tot_dur_ms' = Clock /\ Clock' = Clock
           /\ Numbered /\ Carried
           /\ \E e : MakesEvent(e)
<1>1. /\ Types /\ InEvent /\ ~InEvent' /\ pc = "operators" /\ pc' = "script"
      /\ ev' = NoEvent /\ root_op' = root_op /\ mods' = ModsAfter
      /\ tot_dur_ms' = tot_dur_ms + ev.wait_ms
  BY DEF ConvertEvent, InEvent, ConvInv
<1>2. /\ CarrierAfter = Holder - 1 /\ CarrierAfter \in Ops
      /\ CarrierAfter \in 0..(Len(objects) - 1)
      /\ ev.vo_id + 1 \in DOMAIN va /\ ev.vo_id \in Nat
  BY <1>1, CarrierGiven
<1>3. ModsInOrder(ModsAfter) /\ Len(ModsAfter) = Len(objects)
  BY <1>1, ModsOrdered
<1>4. nest_max' \in Nat
  <2>1. nest_max' = NestMaxAfter(ModsAfter, CarrierAfter)
    BY DEF ConvertEvent
  <2>2. PICK ms, op : ms = ModsAfter /\ op = CarrierAfter
    OBVIOUS
  <2>3. Height(ms, op) \in Nat
    BY <1>2, <1>3, <2>2, HeightNat
  <2> QED
    BY <1>1, <2>1, <2>2, <2>3 DEF NestMaxAfter, Types
<1>5. tot_dur_ms' = Clock /\ Clock' = Clock
  BY <1>1 DEF Clock
<1>6. Numbered
  <2>1. objects' = [id \in DOMAIN objects |->
                       [objects[id] EXCEPT !.last_op_id = OpIdAfter(id)]]
    BY DEF ConvertEvent
  <2>2. objects \in Seq(ObjectType) /\ DOMAIN objects = 1..Len(objects)
        /\ Len(objects) \in Nat
    BY <1>1 DEF Types
  <2>3. ASSUME NEW id \in DOMAIN objects
        PROVE  /\ objects'[id] \in ObjectType
               /\ objects'[id].root_op_obj = objects[id].root_op_obj
               /\ objects'[id].nested = objects[id].nested
               /\ objects'[id].last_vo_id = objects[id].last_vo_id
               /\ objects'[id].last_op_id = id - 1
    <3>1. PICK o, n : o = objects[id] /\ n = OpIdAfter(id)
      OBVIOUS
    <3>2. o \in ObjectType /\ n = id - 1 /\ n \in Nat
      BY <1>1, <2>2, <3>1, IdsGiven
    <3>3. objects'[id] = [o EXCEPT !.last_op_id = n]
      BY <2>1, <3>1
    <3> QED
      BY <3>1, <3>2, <3>3 DEF ObjectType
  <2>4. objects' \in [1..Len(objects) -> ObjectType]
    BY <2>1, <2>2, <2>3
  <2>5. objects' \in Seq(ObjectType) /\ DOMAIN objects' = DOMAIN objects
        /\ Len(objects') = Len(objects)
    BY <2>2, <2>4
  <2> QED
    BY <2>3, <2>5 DEF Numbered
<1>7. Carried
  <2>1. PICK u, c : u = ev.vo_id + 1 /\ c = CarrierAfter
    OBVIOUS
  <2>2. va' = [va EXCEPT ![u].carr_op_id = c]
    BY <2>1 DEF ConvertEvent
  <2>3. u \in DOMAIN va /\ c \in Ops /\ va \in Seq(VoiceType)
    BY <1>1, <1>2, <2>1 DEF Types
  <2>4. PICK w : w = [va[u] EXCEPT !.carr_op_id = c]
    OBVIOUS
  <2>5. va[u] \in VoiceType
    BY <2>3
  <2>6. /\ w \in VoiceType /\ w.obj_id = va[u].obj_id
        /\ w.duration_ms = va[u].duration_ms /\ w.carr_op_id = c
    BY <2>3, <2>4, <2>5 DEF VoiceType
  <2>7. va' = [va EXCEPT ![u] = w]
    BY <2>2, <2>4
  <2>8. /\ va' \in Seq(VoiceType) /\ DOMAIN va' = DOMAIN va /\ Len(va') = Len(va)
        /\ \A v \in DOMAIN va : va'[v] = IF v = u THEN w ELSE va[v]
    BY <2>3, <2>6, <2>7
  <2> QED
    BY <1>2, <2>1, <2>3, <2>6, <2>8 DEF Carried
<1>8. \E e : MakesEvent(e)
  <2>1. PICK e : e = [at_ms |-> tot_dur_ms + ev.wait_ms,
                      vo_id |-> ev.vo_id,
                      carr_op_id |-> CarrierAfter,
                      sets_time |-> ev.sets_time,
                      time_ms |-> ev.time_ms]
    OBVIOUS
  <2>2. events' = Append(events, e)
    BY <2>1 DEF ConvertEvent
  <2>3. ev \in EvType /\ tot_dur_ms \in Nat
    BY <1>1 DEF Types
  <2>4. e \in Event
    BY <1>2, <2>1, <2>3 DEF Event, EvType
  <2>5. e.at_ms = Clock
    BY <1>1, <2>1 DEF Clock
  <2> QED
    BY <1>2, <2>1, <2>2, <2>4, <2>5 DEF MakesEvent
<1> QED
  BY <1>1, <1>3, <1>4, <1>5, <1>6, <1>7, <1>8

LEMMA ConvertTyping ==
    ASSUME ConvInv, ConvertEvent
    PROVE  Types' /\ Sizes'
<1>1. /\ Types /\ InEvent /\ ~InEvent' /\ pc' = "script"
      /\ ev' = NoEvent /\ root_op' = root_op
      /\ ModsInOrder(mods') /\ nest_max' \in Nat
      /\ tot_dur_ms' = Clock /\ Numbered /\ Carried
  BY ConvertFacts
<1>2. PICK e : MakesEvent(e)
  BY ConvertFacts
<1>3. events \in Seq(Event) /\ Clock \in Nat /\ Len(events) \in Nat
  BY ProgramTypes
<1>4. events' \in Seq(Event) /\ Len(events') = Len(events) + 1
  BY <1>2, <1>3, AppendProperties DEF MakesEvent
<1>5. NoEvent \in EvType
  BY DEF NoEvent, EvType, Lists, NoVoice
<1>6. Types'
  BY <1>1, <1>3, <1>4, <1>5 DEF Types, Numbered, Carried, ModsInOrder
<1>7. Sizes'
  <2>1. /\ Len(objects) <= (1 + MaxChain) * (Len(events) + 1)
        /\ Len(events) < MaxEvents /\ Len(objects') = Len(objects)
    BY <1>1 DEF ConvInv, Sizes, Numbered
  <2>2. Len(objects') <= (1 + MaxChain) * (Len(events') + 0)
    <3>1. Len(events') + 0 = Len(events) + 1
      BY <1>3, <1>4
    <3> QED
      BY <2>1, <3>1
  <2>3. Len(events') <= MaxEvents
    BY <1>3, <1>4, <2>1, ScriptTypes
  <2> QED
    BY <1>1, <2>2, <2>3 DEF Sizes
<1> QED
  BY <1>6, <1>7

LEMMA ConvertIds ==
    ASSUME ConvInv, ConvertEvent
    PROVE  IdsInOrder' /\ Roots' /\ EventSound'
<1>1. /\ Types /\ InEvent /\ ~InEvent' /\ pc' = "script"
      /\ ev' = NoEvent /\ root_op' = root_op
      /\ ModsInOrder(mods') /\ Len(mods') = Len(objects) /\ Numbered
  BY ConvertFacts
<1>2. objects \in Seq(ObjectType) /\ DOMAIN objects = 1..Len(objects)
  BY <1>1 DEF Types
<1>3. IdsInOrder'
  <2>1. \A id \in DOMAIN objects' :
           objects'[id].last_op_id = IF id <= Len(mods') THEN id - 1 ELSE NoOp
    BY <1>1, <1>2 DEF Numbered
  <2> QED
    BY <1>1, <2>1 DEF IdsInOrder, Known, Numbered, ModsInOrder
<1>4. \A id \in DOMAIN objects :
          /\ objects'[id].root_op_obj = objects[id].root_op_obj
          /\ objects'[id].nested = objects[id].nested
  BY <1>1 DEF Numbered
<1>5. \A id \in DOMAIN objects :
          LET r == objects[id].root_op_obj
          IN  /\ r \in DOMAIN objects /\ ~objects[r].nested /\ r <= id
              /\ id \in DOMAIN objects /\ ~objects[id].nested => r = id
  BY DEF ConvInv, Roots, IsRoot
<1>6. \A id \in DOMAIN objects' :
          LET r == objects'[id].root_op_obj
          IN  /\ r \in DOMAIN objects' /\ ~objects'[r].nested /\ r <= id
              /\ id \in DOMAIN objects' /\ ~objects'[id].nested => r = id
  BY <1>1, <1>4, <1>5 DEF Numbered
<1>7. root_op \in 0..Len(objects)
      /\ (objects # <<>> => root_op \in DOMAIN objects /\ ~objects[root_op].nested)
  BY DEF ConvInv, Roots, IsRoot
<1>8. objects # <<>>
  BY <1>1, <1>2 DEF ConvInv, EventSound
<1>9. Roots'
  BY <1>1, <1>4, <1>6, <1>7, <1>8 DEF Roots, IsRoot, Numbered
<1>10. EventSound'
  BY <1>1 DEF EventSound, NoEvent
<1> QED
  BY <1>3, <1>9, <1>10

(* The program with the new event. *)
LEMMA NextProgram ==
    ASSUME ConvInv, ConvertEvent, NEW e, MakesEvent(e)
    PROVE  /\ Upcoming' = Upcoming + 1 /\ Len(events') = Upcoming
           /\ events' \in Seq(Event) /\ DOMAIN events' = 1..Upcoming
           /\ events'[Upcoming] = e
           /\ \A j \in 1..(Upcoming - 1) : events'[j] = events[j]
           /\ Built'.events = events' /\ Built'.vo_count = Len(va)
           /\ Built.vo_count = Len(va)
<1>1. events \in Seq(Event) /\ Upcoming - 1 = Len(events) /\ Upcoming \in Nat
  BY ProgramTypes
<1>2. e \in Event /\ events' = Append(events, e)
  BY DEF MakesEvent
<1>3. /\ events' \in Seq(Event) /\ Len(events') = Len(events) + 1
      /\ events'[Len(events) + 1] = e
      /\ \A j \in 1..Len(events) : events'[j] = events[j]
  BY <1>1, <1>2, AppendProperties
<1>4. Len(va') = Len(va)
  BY ConvertFacts DEF Carried
<1> QED
  BY <1>1, <1>3, <1>4 DEF Upcoming, Built

LEMMA NextOwners ==
    ASSUME ConvInv, ConvertEvent, NEW e, MakesEvent(e)
    PROVE  /\ Owns(Built', Upcoming', e.vo_id, Holder - 1)
           /\ \A v, op : v # e.vo_id =>
                (Owns(Built', Upcoming', v, op) <=> Owns(Built, Upcoming, v, op))
           /\ \A op : op # Holder - 1 \/ ~e.sets_time =>
                 /\ TimedBefore(Built', Upcoming', op) = TimedBefore(Built, Upcoming, op)
                 /\ \A t : EndsBy(Built', Upcoming', op, t) <=> EndsBy(Built, Upcoming, op, t)
           /\ e.sets_time =>
                TimedBefore(Built', Upcoming', Holder - 1) =
                    TimedBefore(Built, Upcoming, Holder - 1) \union {Upcoming}
           /\ TimedBefore(Built, Upcoming, Holder - 1) \subseteq
                TimedBefore(Built', Upcoming', Holder - 1)
<1>1. PICK p, q, k, c : p = Built /\ q = Built' /\ k = Upcoming /\ c = Holder - 1
  OBVIOUS
<1>2. /\ Upcoming' = k + 1 /\ q.events[k] = e
      /\ \A j \in 1..(k - 1) : q.events[j] = p.events[j]
  BY <1>1, NextProgram, ProgramTypes
<1>3. k \in Nat /\ k \in Nat \ {0}
  BY <1>1, ProgramTypes
<1>4. e.carr_op_id = c
  BY <1>1 DEF MakesEvent
<1>5. /\ \A op : TimedBefore(q, k, op) = TimedBefore(p, k, op)
      /\ \A v, op : Owns(q, k, v, op) <=> Owns(p, k, v, op)
  BY <1>2, <1>3, SameBefore
<1>6. /\ Owns(q, k + 1, e.vo_id, c)
      /\ \A v, op : v # e.vo_id => (Owns(q, k + 1, v, op) <=> Owns(q, k, v, op))
      /\ \A op : TimedBefore(q, k + 1, op) =
                   TimedBefore(q, k, op) \union {j \in {k} : c = op /\ e.sets_time}
  <2>1. /\ Owns(q, k + 1, q.events[k].vo_id, q.events[k].carr_op_id)
        /\ \A v, op : v # q.events[k].vo_id =>
             (Owns(q, k + 1, v, op) <=> Owns(q, k, v, op))
        /\ \A op : TimedBefore(q, k + 1, op) =
             TimedBefore(q, k, op) \union
                 {j \in {k} : q.events[k].carr_op_id = op /\ q.events[k].sets_time}
    BY <1>3, OneMore
  <2> QED
    BY <1>2, <1>4, <2>1, Zenon
<1>7. ASSUME NEW op, op # c \/ ~e.sets_time
      PROVE  /\ TimedBefore(q, k + 1, op) = TimedBefore(p, k, op)
             /\ \A t : EndsBy(q, k + 1, op, t) <=> EndsBy(p, k, op, t)
  <2>1. TimedBefore(q, k + 1, op) = TimedBefore(p, k, op)
    BY <1>5, <1>6, <1>7
  <2>2. \A j \in TimedBefore(p, k, op) : q.events[j] = p.events[j]
    BY <1>2 DEF TimedBefore
  <2> QED
    BY <2>1, <2>2 DEF EndsBy
<1>8. e.sets_time => TimedBefore(q, k + 1, c) = TimedBefore(p, k, c) \union {k}
  BY <1>5, <1>6
<1>9. TimedBefore(p, k, c) \subseteq TimedBefore(q, k + 1, c)
  BY <1>5, <1>6
<1>10. \A v, op : v # e.vo_id => (Owns(q, k + 1, v, op) <=> Owns(p, k, v, op))
  BY <1>5, <1>6
<1> QED
  BY <1>1, <1>2, <1>6, <1>7, <1>8, <1>9, <1>10, Zenon

LEMMA ConvertHolders ==
    ASSUME ConvInv, ConvertEvent
    PROVE  VoicesHeld' /\ VoiceHeldByOne' /\ VoicesOwned'
<1>1. /\ Types /\ pc' = "script" /\ pc = "operators"
      /\ Len(mods') = Len(objects) /\ Numbered /\ Carried
  BY ConvertFacts
<1>2. PICK u : u = ev.vo_id + 1
  OBVIOUS
<1>3. /\ u \in DOMAIN va /\ va[u].obj_id = Holder /\ u - 1 = ev.vo_id
  BY <1>1, <1>2, CarrierGiven
<1>4. \A v : ~Pending(v)'
  BY <1>1 DEF Pending
<1>5. \A v : v # u => ~Pending(v)
  BY <1>2 DEF Pending
<1>6. objects \in Seq(ObjectType) /\ DOMAIN objects = 1..Len(objects)
      /\ va \in Seq(VoiceType)
  BY <1>1 DEF Types
<1>7. ASSUME NEW v \in DOMAIN va, NEW id, id = va[v].obj_id
      PROVE  /\ id \in DOMAIN objects /\ ~objects[id].nested
             /\ id <= Len(objects)
             /\ va'[v].carr_op_id = id - 1
  <2>1. id \in DOMAIN objects /\ ~objects[id].nested
    BY <1>7 DEF ConvInv, VoicesHeld, IsRoot
  <2>2. CASE v = u
    BY <1>1, <1>2, <1>3, <1>6, <1>7, <2>1, <2>2 DEF Carried
  <2>3. CASE v # u
    <3>1. va'[v].carr_op_id = va[v].carr_op_id
      BY <1>1, <1>2, <2>3 DEF Carried
    <3>2. va[v].carr_op_id = id - 1
      BY <1>5, <1>7, <2>3 DEF ConvInv, VoicesHeld
    <3> QED
      BY <1>6, <2>1, <3>1, <3>2
  <2> QED
    BY <2>2, <2>3
<1>8. VoicesHeld'
  <2>1. \A id \in DOMAIN objects' :
           objects'[id].last_vo_id \in {NoVoice} \union 0..(Len(va') - 1)
    BY <1>1 DEF Numbered, Carried, ConvInv, VoicesHeld
  <2>2. \A v \in DOMAIN va' :
           /\ va'[v].obj_id \in DOMAIN objects' /\ ~objects'[va'[v].obj_id].nested
           /\ va'[v].obj_id <= Len(mods')
           /\ va'[v].carr_op_id = va'[v].obj_id - 1
    BY <1>1, <1>7 DEF Numbered, Carried
  <2> QED
    BY <1>4, <2>1, <2>2 DEF VoicesHeld, IsRoot, Known
<1>9. VoiceHeldByOne'
  <2>1. ASSUME NEW id \in DOMAIN objects', objects'[id].last_vo_id # NoVoice
        PROVE  va'[objects'[id].last_vo_id + 1].obj_id = id
    <3>1. id \in DOMAIN objects /\ objects'[id].last_vo_id = objects[id].last_vo_id
      BY <1>1 DEF Numbered
    <3>2. PICK w : w = objects[id].last_vo_id + 1
      OBVIOUS
    <3>3. w \in DOMAIN va /\ va[w].obj_id = id
      BY <2>1, <3>1, <3>2, VoiceIdOfObject
    <3> QED
      BY <1>1, <3>1, <3>2, <3>3 DEF Carried
  <2>2. \A v \in DOMAIN va' : objects'[va'[v].obj_id].last_vo_id = v - 1
    <3>1. \A v \in DOMAIN va : objects[va[v].obj_id].last_vo_id = v - 1
      BY DEF ConvInv, VoiceHeldByOne
    <3> QED
      BY <1>1, <1>7, <3>1 DEF Numbered, Carried
  <2> QED
    BY <2>1, <2>2 DEF VoiceHeldByOne
<1>10. VoicesOwned'
  <2>1. PICK e : MakesEvent(e)
    BY ConvertFacts
  <2>2. e.vo_id = u - 1 /\ u \in Nat
    BY <1>3, <1>6, <2>1 DEF MakesEvent
  <2>3. ASSUME NEW v \in DOMAIN va
        PROVE  Owns(Built', Upcoming', v - 1, va[v].obj_id - 1)
    <3>1. CASE v = u
      BY <1>3, <2>1, <2>2, <3>1, NextOwners
    <3>2. CASE v # u
      <4>1. Owns(Built, Upcoming, v - 1, va[v].obj_id - 1)
        BY <1>5, <3>2 DEF ConvInv, VoicesOwned
      <4>2. v - 1 # e.vo_id
        BY <1>6, <2>2, <3>2
      <4> QED
        BY <2>1, <4>1, <4>2, NextOwners
    <3> QED
      BY <3>1, <3>2
  <2>4. \A v \in DOMAIN va' : Owns(Built', Upcoming', v - 1, va'[v].obj_id - 1)
    BY <1>1, <2>3 DEF Carried
  <2> QED
    BY <1>4, <2>4 DEF VoicesOwned
<1> QED
  BY <1>8, <1>9, <1>10

(* A carrier that has no id yet is the new one the event is for.           *)
LEMMA NewRoot ==
    ASSUME ConvInv, pc = "operators", NEW id \in DOMAIN objects,
           ~objects[id].nested, ~(id <= Len(mods))
    PROVE  id = Holder /\ ev.sets_time
<1>1. InEvent
  BY DEF InEvent
<1>2. ev.is_new /\ id = ev.obj
  BY <1>1 DEF ConvInv, EventSound, IsRoot, Known
<1>3. Holder = ev.obj /\ ev.sets_time
  BY <1>1, <1>2, HolderRoot DEF ConvInv, EventSound
<1> QED
  BY <1>2, <1>3

LEMMA ConvertTimes ==
    ASSUME ConvInv, ConvertEvent
    PROVE  TimesCounted' /\ RootsTimed' /\ EventsKnown'
<1>1. /\ Types /\ InEvent /\ pc' = "script" /\ pc = "operators"
      /\ Len(mods') = Len(objects) /\ Numbered /\ Carried
      /\ tot_dur_ms' = Clock /\ Clock' = Clock
  BY ConvertFacts
<1>2. PICK e : MakesEvent(e)
  BY ConvertFacts
<1>3. /\ Upcoming' = Upcoming + 1 /\ Len(events') = Upcoming
      /\ events' \in Seq(Event) /\ DOMAIN events' = 1..Upcoming
      /\ events'[Upcoming] = e
      /\ \A j \in 1..(Upcoming - 1) : events'[j] = events[j]
      /\ Built'.events = events'
  BY <1>2, NextProgram
<1>4. /\ events \in Seq(Event) /\ Upcoming - 1 = Len(events) /\ Upcoming \in Nat \ {0}
      /\ DOMAIN events = 1..Len(events) /\ Clock \in Nat /\ Len(events) \in Nat
  BY ProgramTypes
<1>5. /\ e \in Event /\ e.at_ms = Clock /\ e.vo_id = ev.vo_id
      /\ e.carr_op_id = Holder - 1
      /\ e.sets_time = ev.sets_time /\ e.time_ms = ev.time_ms
  BY <1>2 DEF MakesEvent
<1>6. /\ objects \in Seq(ObjectType) /\ DOMAIN objects = 1..Len(objects)
      /\ va \in Seq(VoiceType) /\ ev \in EvType /\ tot_dur_ms \in Nat
      /\ mods \in Seq(SUBSET Nat)
  BY <1>1 DEF Types
<1>7. /\ Holder \in DOMAIN objects /\ ~objects[Holder].nested
      /\ Holder \in Nat \ {0}
  BY <1>1, HolderRoot DEF IsRoot
<1>8. /\ ev.vo_id + 1 \in DOMAIN va /\ ev.vo_id \in Nat
      /\ objects[Holder].last_vo_id = ev.vo_id
  BY <1>1, CarrierGiven
<1>9. Len(mods) <= Len(objects) /\ Len(mods) \in Nat
  <2>1. Len(objects) = Len(mods) + Len(NewIds) /\ Len(NewIds) \in Nat
    BY <1>1, NewIdsSeq DEF ConvInv, IdsInOrder
  <2> QED
    BY <1>6, <2>1
<1>10. EventsKnown'
  <2>1. ASSUME NEW k \in 1..Upcoming
        PROVE  /\ events'[k].vo_id < Len(va)
               /\ events'[k].at_ms <= Clock
               /\ ~events'[k].sets_time => events'[k].time_ms = 0
               /\ events'[k].carr_op_id \in Nat
               /\ events'[k].carr_op_id + 1 \in DOMAIN objects
               /\ ~objects[events'[k].carr_op_id + 1].nested
    <3>1. CASE k = Upcoming
      <4>1. Holder - 1 + 1 = Holder /\ Holder - 1 \in Nat
        BY <1>7
      <4>2. ev.vo_id < Len(va)
        BY <1>6, <1>8
      <4>3. ~ev.sets_time => ev.time_ms = 0
        BY DEF ConvInv, EventSound
      <4> QED
        BY <1>3, <1>4, <1>5, <1>7, <3>1, <4>1, <4>2, <4>3
    <3>2. CASE k # Upcoming
      <4>1. k \in DOMAIN events /\ events'[k] = events[k]
        BY <1>3, <1>4, <3>2
      <4>2. PICK f : f = events[k]
        OBVIOUS
      <4>3. /\ f.vo_id < Len(va) /\ f.at_ms <= tot_dur_ms
            /\ ~f.sets_time => f.time_ms = 0
            /\ f.carr_op_id \in Nat
            /\ f.carr_op_id + 1 \in DOMAIN objects
            /\ ~objects[f.carr_op_id + 1].nested
        BY <4>1, <4>2 DEF ConvInv, EventsKnown, IsRoot
      <4>4. f.at_ms \in Nat
        <5>1. f \in Event
          BY <1>4, <4>1, <4>2
        <5> QED
          BY <5>1 DEF Event
      <4>5. tot_dur_ms <= Clock
        BY <1>1, <1>6 DEF Clock, EvType
      <4>6. f.at_ms <= Clock
        BY <1>4, <1>6, <4>3, <4>4, <4>5
      <4> QED
        BY <4>1, <4>2, <4>3, <4>6
    <3> QED
      BY <3>1, <3>2
  <2>2. \A id \in DOMAIN objects :
           /\ id \in DOMAIN objects' /\ objects'[id].nested = objects[id].nested
           /\ id <= Len(mods')
    BY <1>1, <1>6 DEF Numbered
  <2>3. Len(va') = Len(va)
    BY <1>1 DEF Carried
  <2> QED
    BY <1>1, <1>3, <2>1, <2>2, <2>3 DEF EventsKnown, IsRoot, Known
<1>11. RootsTimed'
  <2>1. ASSUME NEW id \in DOMAIN objects, ~objects[id].nested
        PROVE  TimedBefore(Built', Upcoming', id - 1) # {}
    <3>1. CASE id = Holder /\ ev.sets_time
      BY <1>2, <1>5, <3>1, NextOwners
    <3>2. CASE ~(id = Holder /\ ev.sets_time)
      <4>1. id <= Len(mods)
        BY <1>1, <2>1, <3>2, NewRoot
      <4>2. TimedBefore(Built, Upcoming, id - 1) # {}
        BY <2>1, <4>1 DEF ConvInv, RootsTimed, IsRoot, Known
      <4>3. id - 1 # Holder - 1 \/ ~e.sets_time
        BY <1>5, <1>6, <1>7, <3>2
      <4> QED
        BY <1>2, <4>2, <4>3, NextOwners
    <3> QED
      BY <3>1, <3>2
  <2>2. \A id \in DOMAIN objects' :
           id \in DOMAIN objects /\ objects'[id].nested = objects[id].nested
    BY <1>1 DEF Numbered
  <2> QED
    BY <2>1, <2>2 DEF RootsTimed, IsRoot
<1>12. ASSUME NEW id \in DOMAIN objects
       PROVE  /\ Left(id)' = Left(id)
              /\ id \in DOMAIN objects' /\ objects'[id].nested = objects[id].nested
  <2>1. /\ id \in DOMAIN objects' /\ objects'[id].nested = objects[id].nested
        /\ objects'[id].last_vo_id = objects[id].last_vo_id
    BY <1>1 DEF Numbered
  <2>2. CASE objects[id].last_vo_id = NoVoice
    BY <1>1, <2>1, <2>2 DEF Left
  <2>3. CASE objects[id].last_vo_id # NoVoice
    <3>1. PICK w : w = objects[id].last_vo_id + 1
      OBVIOUS
    <3>2. w \in DOMAIN va
      BY <2>3, <3>1, VoiceIdOfObject
    <3>3. va'[w].duration_ms = va[w].duration_ms
      BY <1>1, <3>2 DEF Carried
    <3> QED
      BY <1>1, <2>1, <2>3, <3>1, <3>3 DEF Left
  <2> QED
    BY <2>1, <2>2, <2>3
<1>13. ASSUME ~SubSteps, NEW id \in DOMAIN objects, ~objects[id].nested
       PROVE  EndsBy(Built', Upcoming', id - 1, Clock + Left(id))
  <2>1. CASE id = Holder /\ ev.sets_time
    <3>1. PICK q, n, t : q = Built' /\ n = Upcoming' /\ t = Clock + Left(id)
      OBVIOUS
    <3>2. Left(id) = va[ev.vo_id + 1].duration_ms
      BY <1>1, <1>8, <2>1 DEF Left, NoVoice
    <3>3. ev.set_dur /\ ev.time_ms <= ev.dur_ms /\ va[ev.vo_id + 1].duration_ms = ev.dur_ms
      BY <1>1, <1>13, <2>1 DEF ConvInv, EventSound
    <3>4. ev.time_ms \in Nat /\ ev.dur_ms \in Nat
      BY <1>6 DEF EvType
    <3>5. e.at_ms + e.time_ms <= t
      BY <1>4, <1>5, <3>1, <3>2, <3>3, <3>4
    <3>6. TimedBefore(q, n, id - 1) =
            TimedBefore(Built, Upcoming, id - 1) \union {Upcoming}
      BY <1>2, <1>5, <2>1, <3>1, NextOwners
    <3>7. \A i \in TimedBefore(Built, Upcoming, id - 1) : i <= Upcoming
      BY <1>4 DEF TimedBefore
    <3>8. q.events[Upcoming] = e
      BY <1>3, <3>1
    <3>9. EndsBy(q, n, id - 1, t)
      BY <1>4, <3>5, <3>6, <3>7, <3>8 DEF EndsBy
    <3> QED
      BY <3>1, <3>9
  <2>2. CASE ~(id = Holder /\ ev.sets_time)
    <3>1. id <= Len(mods)
      BY <1>1, <1>13, <2>2, NewRoot
    <3>2. EndsBy(Built, Upcoming, id - 1, Clock + Left(id))
      BY <1>13, <2>2, <3>1 DEF ConvInv, TimesCounted, IsRoot, Known
    <3>3. id - 1 # Holder - 1 \/ ~e.sets_time
      BY <1>5, <1>6, <1>7, <2>2
    <3> QED
      BY <1>2, <3>2, <3>3, NextOwners
  <2> QED
    BY <2>1, <2>2
<1>14. TimesCounted'
  <2>1. \A id \in DOMAIN objects' :
           id \in DOMAIN objects /\ objects'[id].nested = objects[id].nested
    BY <1>1 DEF Numbered
  <2>2. ASSUME ~SubSteps, NEW id \in DOMAIN objects', ~objects'[id].nested
        PROVE  EndsBy(Built', Upcoming', id - 1, Clock' + Left(id)')
    BY <1>1, <1>12, <1>13, <2>1, <2>2
  <2> QED
    BY <2>2 DEF TimesCounted, IsRoot
<1> QED
  BY <1>10, <1>11, <1>14

(* What the events before tell of the voice of the event being converted.  *)
LEMMA VoiceBefore ==
    ASSUME ConvInv, pc = "operators", NEW u, u = ev.vo_id + 1
    PROVE  /\ ~Pending(u) => Owns(Built, Upcoming, u - 1, Holder - 1)
           /\ Pending(u) =>
                /\ \A v \in 0..(Len(va) - 1) : ~Owns(Built, Upcoming, v, Holder - 1)
                /\ \A v \in 0..(u - 2) : OnVoiceBefore(Built, Upcoming, v) # {}
                /\ ~SubSteps => \A op \in Ops :
                     Owns(Built, Upcoming, u - 1, op) =>
                         EndsBy(Built, Upcoming, op, Clock)
<1>1. /\ u \in DOMAIN va /\ va[u].obj_id = Holder /\ CarrierAfter = Holder - 1
      /\ CarrierAfter \in Ops
  BY CarrierGiven
<1>2. va \in Seq(VoiceType) /\ DOMAIN va = 1..Len(va) /\ Len(va) \in Nat
      /\ objects \in Seq(ObjectType)
  BY DEF ConvInv, Types
<1>3. ASSUME NEW w \in DOMAIN va, w # u
      PROVE  /\ Owns(Built, Upcoming, w - 1, va[w].obj_id - 1)
             /\ va[w].obj_id # Holder
             /\ OnVoiceBefore(Built, Upcoming, w - 1) # {}
  <2>1. ~Pending(w)
    BY <1>3 DEF Pending
  <2>2. Owns(Built, Upcoming, w - 1, va[w].obj_id - 1)
    BY <2>1 DEF ConvInv, VoicesOwned
  <2>3. OnVoiceBefore(Built, Upcoming, w - 1) # {}
    BY <2>2 DEF Owns
  <2>4. ASSUME va[w].obj_id = Holder PROVE FALSE
    <3>1. objects[Holder].last_vo_id = w - 1 /\ objects[Holder].last_vo_id = u - 1
      BY <1>1, <2>4 DEF ConvInv, VoiceHeldByOne
    <3> QED
      BY <1>1, <1>2, <1>3, <3>1
  <2> QED
    BY <2>2, <2>3, <2>4
<1>4. ASSUME ~Pending(u) PROVE Owns(Built, Upcoming, u - 1, Holder - 1)
  BY <1>1, <1>4 DEF ConvInv, VoicesOwned
<1>5. ASSUME Pending(u)
      PROVE  /\ \A v \in 0..(Len(va) - 1) : ~Owns(Built, Upcoming, v, Holder - 1)
             /\ \A v \in 0..(u - 2) : OnVoiceBefore(Built, Upcoming, v) # {}
             /\ ~SubSteps => \A op \in Ops :
                  Owns(Built, Upcoming, u - 1, op) =>
                      EndsBy(Built, Upcoming, op, Clock)
  <2>1. \A op \in Ops : Owns(Built, Upcoming, u - 1, op) =>
            /\ op # Holder - 1
            /\ ~SubSteps => EndsBy(Built, Upcoming, op, Clock)
    BY <1>1, <1>5 DEF ConvInv, VoicesOwned
  <2>2. ASSUME NEW v \in 0..(Len(va) - 1), Owns(Built, Upcoming, v, Holder - 1)
        PROVE  FALSE
    <3>1. PICK w : w = v + 1
      OBVIOUS
    <3>2. w \in DOMAIN va /\ w - 1 = v
      BY <1>2, <3>1
    <3>3. w # u
      BY <1>1, <2>1, <2>2, <3>2
    <3>4. Owns(Built, Upcoming, v, va[w].obj_id - 1) /\ va[w].obj_id # Holder
      BY <1>3, <3>2, <3>3
    <3>5. PICK p, k, a, b : /\ p = Built /\ k = Upcoming /\ a = Holder - 1
                            /\ b = va[w].obj_id - 1
      OBVIOUS
    <3>6. a = b
      <4>1. k \in Nat
        BY <3>5, ProgramTypes
      <4> QED
        BY <2>2, <3>4, <3>5, <4>1, OwnerUnique
    <3>7. va[w].obj_id \in Nat /\ Holder \in Nat
      <4>1. va[w] \in VoiceType /\ va[u] \in VoiceType
        BY <1>1, <1>2, <3>2
      <4> QED
        BY <1>1, <4>1 DEF VoiceType
    <3> QED
      BY <3>4, <3>5, <3>6, <3>7
  <2>3. ASSUME NEW v \in 0..(u - 2)
        PROVE  OnVoiceBefore(Built, Upcoming, v) # {}
    <3>1. PICK w : w = v + 1
      OBVIOUS
    <3>2. w \in DOMAIN va /\ w - 1 = v /\ w # u
      BY <1>1, <1>2, <3>1
    <3> QED
      BY <1>3, <3>2
  <2> QED
    BY <2>1, <2>2, <2>3
<1> QED
  BY <1>4, <1>5

LEMMA ConvertPrograms ==
    ASSUME ConvInv, ConvertEvent
    PROVE  EventsValid'
<1>1. /\ Types /\ InEvent /\ pc = "operators"
  BY ConvertFacts
<1>2. PICK e : MakesEvent(e)
  BY ConvertFacts
<1>3. PICK p, q, k, c, u : /\ p = Built /\ q = Built' /\ k = Upcoming
                           /\ c = Holder - 1 /\ u = ev.vo_id + 1
  OBVIOUS
<1>4. /\ Len(events') = k /\ q.events = events' /\ q.events[k] = e
      /\ q.events \in Seq(Event)
      /\ \A j \in 1..(k - 1) : q.events[j] = p.events[j]
      /\ q.vo_count = Len(va) /\ p.vo_count = Len(va)
  BY <1>2, <1>3, NextProgram, ProgramTypes
<1>5. /\ p.events = events /\ events \in Seq(Event) /\ k - 1 = Len(events)
      /\ DOMAIN events = 1..Len(events)
      /\ k \in Nat \ {0} /\ k \in Nat /\ Clock \in Nat /\ Len(events) \in Nat
  BY <1>3, ProgramTypes
<1>6. /\ e.at_ms = Clock /\ e.vo_id = u - 1 /\ e.carr_op_id = c
      /\ e.sets_time = ev.sets_time
      /\ u \in DOMAIN va /\ u \in Nat /\ Len(va) \in Nat
  BY <1>1, <1>2, <1>3, CarrierGiven DEF MakesEvent, Types
<1>7. ASSUME NEW i \in 1..k
      PROVE  /\ \A v : OnVoiceBefore(q, i, v) = OnVoiceBefore(p, i, v)
             /\ \A op : TimedBefore(q, i, op) = TimedBefore(p, i, op)
             /\ \A v, op : Owns(q, i, v, op) <=> Owns(p, i, v, op)
             /\ \A op, t : EndsBy(q, i, op, t) <=> EndsBy(p, i, op, t)
  <2>1. i \in Nat /\ \A j \in 1..(i - 1) : q.events[j] = p.events[j]
    BY <1>4, <1>5
  <2> QED
    BY <2>1, SameBefore
<1>8. ASSUME NEW i \in 1..(k - 1)
      PROVE  /\ ValidEvent(q, i)
             /\ TakesExpired(p, i) => TakesExpired(q, i)
  <2>1. ValidEvent(p, i) /\ i \in 1..k /\ q.events[i] = p.events[i]
    BY <1>3, <1>4, <1>5 DEF ConvInv, EventsValid
  <2>2. AtMs(q, i - 1) = AtMs(p, i - 1)
    BY <1>4 DEF AtMs
  <2>3. ValidEvent(q, i)
    BY <1>4, <1>7, <2>1, <2>2 DEF ValidEvent
  <2>4. ASSUME NEW op PROVE ExpiredMs(p, i, op) => ExpiredMs(q, i, op)
    <3>1. \A j \in TimedBefore(p, i, op) : q.events[j] = p.events[j]
      BY <1>4 DEF TimedBefore
    <3> QED
      BY <1>7, <2>1, <3>1 DEF ExpiredMs
  <2> QED
    BY <1>7, <2>1, <2>3, <2>4 DEF TakesExpired
<1>9. /\ ~Pending(u) => Owns(p, k, u - 1, c)
      /\ Pending(u) =>
           /\ \A v \in 0..(Len(va) - 1) : ~Owns(p, k, v, c)
           /\ \A v \in 0..(u - 2) : OnVoiceBefore(p, k, v) # {}
           /\ ~SubSteps => \A op \in Ops : Owns(p, k, u - 1, op) => EndsBy(p, k, op, Clock)
  BY <1>1, <1>3, VoiceBefore
<1>10. ValidEvent(q, k)
  <2>1. AtMs(q, k - 1) <= e.at_ms
    <3>1. CASE k = 1
      BY <1>5, <1>6, <3>1 DEF AtMs
    <3>2. CASE k # 1
      <4>1. k - 1 \in 1..Len(events) /\ k - 1 # 0
        BY <1>5, <3>2
      <4>2. AtMs(q, k - 1) = events[k - 1].at_ms
        BY <1>4, <1>5, <4>1 DEF AtMs
      <4>3. events[k - 1].at_ms <= tot_dur_ms
        BY <1>5, <4>1 DEF ConvInv, EventsKnown
      <4>4. events[k - 1].at_ms \in Nat
        <5>1. events[k - 1] \in Event
          BY <1>5, <4>1
        <5> QED
          BY <5>1 DEF Event
      <4>5. tot_dur_ms \in Nat /\ tot_dur_ms <= Clock
        BY <1>1 DEF Types, Clock, EvType
      <4> QED
        BY <1>5, <1>6, <4>2, <4>3, <4>4, <4>5
    <3> QED
      BY <3>1, <3>2
  <2>2. e.vo_id < q.vo_count
    BY <1>1, <1>4, <1>6 DEF Types
  <2>3. e.sets_time \/ TimedBefore(q, k, c) # {}
    <3>1. CASE ev.sets_time
      BY <1>6, <3>1
    <3>2. CASE ~ev.sets_time
      <4>1. ~ev.is_new
        BY <1>1, <3>2 DEF ConvInv, EventSound
      <4>2. IsRoot(Holder) /\ Known(Holder) /\ Holder \in DOMAIN objects
        BY <1>1, <4>1, HolderRoot
      <4>3. TimedBefore(p, k, c) # {}
        BY <1>3, <4>2 DEF ConvInv, RootsTimed
      <4>4. k \in 1..k
        BY <1>5
      <4> QED
        BY <1>7, <4>3, <4>4
    <3> QED
      BY <3>1, <3>2
  <2>4. \/ Owns(q, k, u - 1, c)
        \/ /\ \A v \in 0..(Len(va) - 1) : ~Owns(q, k, v, c)
           /\ \A v \in 0..(u - 2) : OnVoiceBefore(q, k, v) # {}
    <3>1. k \in 1..k
      BY <1>5
    <3> QED
      BY <1>7, <1>9, <3>1
  <2>5. (u - 1) - 1 = u - 2
    BY <1>6
  <2> QED
    BY <1>4, <1>6, <2>1, <2>2, <2>3, <2>4, <2>5 DEF ValidEvent
<1>11. ASSUME ~SubSteps PROVE TakesExpired(q, k)
  <2>1. k \in 1..k
    BY <1>5
  <2>2. ASSUME NEW op \in Ops \ {c}, Owns(q, k, u - 1, op)
        PROVE  ExpiredMs(q, k, op)
    <3>1. Owns(p, k, u - 1, op)
      BY <1>7, <2>1, <2>2
    <3>2. Pending(u)
      <4>1. ASSUME Owns(p, k, u - 1, c) PROVE FALSE
        BY <1>5, <2>2, <3>1, <4>1, OwnerUnique
      <4> QED
        BY <1>9, <4>1
    <3>3. EndsBy(q, k, op, Clock)
      BY <1>7, <1>9, <1>11, <2>1, <3>1, <3>2
    <3> QED
      BY <1>4, <1>6, <3>3 DEF EndsBy, ExpiredMs
  <2> QED
    BY <1>4, <1>6, <2>2 DEF TakesExpired
<1>12. \A i \in 1..k : ValidEvent(q, i)
  <2>1. \A i \in 1..k : i = k \/ i \in 1..(k - 1)
    BY <1>5
  <2> QED
    BY <1>8, <1>10, <2>1
<1>13. ASSUME ~SubSteps PROVE ReusesOnlyExpired(q)
  <2>1. \A i \in 1..(k - 1) : TakesExpired(p, i)
    BY <1>3, <1>5, <1>13 DEF ConvInv, EventsValid, ReusesOnlyExpired, EvCount
  <2>2. \A i \in 1..k : i = k \/ i \in 1..(k - 1)
    BY <1>5
  <2>3. \A i \in 1..k : TakesExpired(q, i)
    BY <1>8, <1>11, <1>13, <2>1, <2>2
  <2> QED
    BY <1>4, <2>3 DEF ReusesOnlyExpired, EvCount
<1> QED
  BY <1>3, <1>4, <1>12, <1>13 DEF EventsValid

LEMMA ConvertStep ==
    ASSUME ConvInv, ConvertEvent
    PROVE  ConvInv'
  BY ConvertTyping, ConvertIds, ConvertHolders, ConvertTimes, ConvertPrograms
     DEF ConvInv

-----------------------------------------------------------------------------
(* The end of the script: what is left of the voices is counted.           *)

(* Finitely many durations have a bound: there is no least number of       *)
(* voices without one.                                                     *)
LEMMA DurationsBounded ==
    ASSUME NEW s \in Seq(VoiceType)
    PROVE  \E n \in Nat : \A v \in DOMAIN s : s[v].duration_ms <= n
<1> DEFINE Bounded(m) == \E n \in Nat : \A v \in 1..m : s[v].duration_ms <= n
           T == {m \in 0..Len(s) : ~Bounded(m)}
<1>1. DOMAIN s = 1..Len(s) /\ Len(s) \in Nat
  OBVIOUS
<1>2. ASSUME NEW v \in 1..Len(s) PROVE s[v].duration_ms \in Nat
  <2>1. s[v] \in VoiceType
    BY <1>1
  <2> QED
    BY <2>1 DEF VoiceType
<1>3. ASSUME T # {} PROVE FALSE
  <2>1. T \subseteq Nat
    BY <1>1
  <2>2. PICK m \in T : \A y \in T : m <= y
    BY <1>3, <2>1, LeastNatural
  <2>3. m \in 0..Len(s) /\ ~Bounded(m)
    BY <2>2
  <2>4. m # 0
    <3>1. \A v \in 1..0 : s[v].duration_ms <= 0
      OBVIOUS
    <3>2. Bounded(0)
      BY <3>1
    <3> QED
      BY <2>3, <3>2
  <2>5. m - 1 \in 0..Len(s) /\ ~(m <= m - 1)
    BY <1>1, <2>3, <2>4
  <2>6. Bounded(m - 1)
    BY <2>2, <2>5
  <2>7. PICK n \in Nat : \A v \in 1..(m - 1) : s[v].duration_ms <= n
    BY <2>6
  <2>8. PICK d : d = s[m].duration_ms
    OBVIOUS
  <2>9. m \in 1..Len(s) /\ d \in Nat
    BY <1>1, <1>2, <2>3, <2>4, <2>8
  <2> HIDE DEF T
  <2>10. ASSUME NEW v \in 1..m PROVE s[v].duration_ms <= n + d
    <3>1. CASE v = m
      BY <2>8, <2>9, <3>1
    <3>2. CASE v # m
      <4>1. v \in 1..(m - 1) /\ v \in 1..Len(s)
        BY <2>9, <3>2
      <4>2. s[v].duration_ms <= n /\ s[v].duration_ms \in Nat
        BY <1>2, <2>7, <4>1
      <4> QED
        BY <2>9, <4>2
    <3> QED
      BY <3>1, <3>2
  <2>11. n + d \in Nat
    BY <2>9
  <2>12. Bounded(m)
    BY <2>10, <2>11
  <2> QED
    BY <2>3, <2>12
<1>4. Bounded(Len(s))
  <2>1. Len(s) \in 0..Len(s)
    BY <1>1
  <2> QED
    BY <1>3, <2>1
<1> QED
  BY <1>1, <1>4

LEMMA EndFacts ==
    ASSUME ConvInv, EndScript
    PROVE  /\ Types /\ pc = "script" /\ pc' = "built" /\ ~InEvent /\ ~InEvent'
           /\ UNCHANGED <<objects, root_op, ev, va, mods, nest_max, events>>
           /\ Clock = tot_dur_ms /\ Clock' = tot_dur_ms' /\ Clock \in Nat
           /\ Clock' \in Nat /\ Clock <= Clock'
           /\ \A id \in DOMAIN objects : Clock + Left(id) <= Clock' /\ Left(id) \in Nat
<1>1. /\ Types /\ pc = "script" /\ pc' = "built"
      /\ UNCHANGED <<objects, root_op, ev, va, mods, nest_max, events>>
      /\ tot_dur_ms' = tot_dur_ms + (CHOOSE r \in Remaining :
                                       \A q \in Remaining : q <= r)
  BY DEF EndScript, ConvInv
<1>2. va \in Seq(VoiceType) /\ tot_dur_ms \in Nat
  BY <1>1 DEF Types
<1>3. PICK n \in Nat : \A v \in DOMAIN va : va[v].duration_ms <= n
  BY <1>2, DurationsBounded
<1>4. ASSUME NEW v \in DOMAIN va PROVE va[v].duration_ms \in Nat
  <2>1. va[v] \in VoiceType
    BY <1>2
  <2> QED
    BY <2>1 DEF VoiceType
<1>5. Remaining \subseteq 0..n /\ Remaining # {}
  BY <1>3, <1>4 DEF Remaining
<1>6. PICK m : m = CHOOSE r \in Remaining : \A q \in Remaining : q <= r
  OBVIOUS
<1>7. m \in Remaining /\ \A q \in Remaining : q <= m
  BY <1>5, <1>6, GreatestNatural
<1>8. m \in Nat /\ \A v \in DOMAIN va : va[v].duration_ms <= m
  BY <1>5, <1>7 DEF Remaining
<1>9. Clock = tot_dur_ms /\ Clock' = tot_dur_ms' /\ tot_dur_ms' = tot_dur_ms + m
  BY <1>1, <1>6 DEF Clock
<1>10. ASSUME NEW id \in DOMAIN objects
       PROVE  Left(id) \in Nat /\ Left(id) <= m
  <2>1. CASE objects[id].last_vo_id = NoVoice
    BY <1>8, <2>1 DEF Left
  <2>2. CASE objects[id].last_vo_id # NoVoice
    <3>1. objects[id].last_vo_id + 1 \in DOMAIN va
      BY <2>2, VoiceIdOfObject
    <3>2. Left(id) = va[objects[id].last_vo_id + 1].duration_ms
      BY <1>1, <2>2 DEF Left
    <3> QED
      BY <1>4, <1>8, <3>1, <3>2
  <2> QED
    BY <2>1, <2>2
<1>11. \A id \in DOMAIN objects : Clock + Left(id) <= Clock' /\ Left(id) \in Nat
  BY <1>2, <1>8, <1>9, <1>10
<1>12. ~InEvent /\ ~InEvent'
  BY <1>1 DEF InEvent
<1> QED
  BY <1>1, <1>2, <1>8, <1>9, <1>11, <1>12

LEMMA EndTimes ==
    ASSUME ConvInv, EndScript
    PROVE  TimesCounted' /\ RootsTimed' /\ EventsKnown'
<1>1. /\ Types /\ pc = "script" /\ pc' = "built"
      /\ UNCHANGED <<objects, root_op, ev, va, mods, nest_max, events>>
      /\ Clock = tot_dur_ms /\ Clock' = tot_dur_ms' /\ Clock \in Nat
      /\ Clock' \in Nat /\ Clock <= Clock'
      /\ \A id \in DOMAIN objects : Clock + Left(id) <= Clock' /\ Left(id) \in Nat
  BY EndFacts
<1>2. Built' = Built /\ Upcoming' = Upcoming
  BY <1>1 DEF Built, Upcoming
<1>3. \A id : (IsRoot(id)' <=> IsRoot(id)) /\ (Known(id)' <=> Known(id))
  BY <1>1 DEF IsRoot, Known
<1>4. TimesCounted'
  <2>1. ASSUME ~SubSteps, NEW id \in DOMAIN objects, IsRoot(id), Known(id)
        PROVE  EndsBy(Built, Upcoming, id - 1, Clock')
    <3>1. EndsBy(Built, Upcoming, id - 1, Clock + Left(id))
      BY <1>1, <2>1 DEF ConvInv, TimesCounted
    <3>2. PICK p, k, t, s : /\ p = Built /\ k = Upcoming
                            /\ t = Clock + Left(id) /\ s = Clock'
      OBVIOUS
    <3>3. t \in Nat /\ s \in Nat /\ t <= s
      BY <1>1, <3>2
    <3>4. p.events \in Seq(Event) /\ k \in 1..(Len(p.events) + 1)
      BY <3>2, ProgramTypes
    <3>5. EndsBy(p, k, id - 1, t)
      BY <3>1, <3>2
    <3>6. EndsBy(p, k, id - 1, s)
      BY <3>3, <3>4, <3>5, EndsLater
    <3> QED
      BY <3>2, <3>6
  <2>2. \A id \in DOMAIN objects : Clock' + Left(id)' = Clock'
    <3>1. \A id : Left(id)' = 0
      BY <1>1 DEF Left
    <3> QED
      BY <1>1, <3>1
  <2> QED
    BY <1>1, <1>2, <1>3, <2>1, <2>2 DEF TimesCounted
<1>5. RootsTimed'
  BY <1>1, <1>2, <1>3 DEF ConvInv, RootsTimed
<1>6. EventsKnown'
  <2>1. ASSUME NEW k \in DOMAIN events
        PROVE  events[k].at_ms <= tot_dur_ms'
    <3>1. events[k].at_ms <= tot_dur_ms
      BY DEF ConvInv, EventsKnown
    <3>2. events[k] \in Event
      BY ProgramTypes
    <3> QED
      BY <1>1, <3>1, <3>2 DEF Event
  <2> QED
    BY <1>1, <2>1 DEF ConvInv, EventsKnown, IsRoot, Known
<1> QED
  BY <1>4, <1>5, <1>6

LEMMA EndStep ==
    ASSUME ConvInv, EndScript
    PROVE  ConvInv'
<1>1. /\ Types /\ pc = "script" /\ pc' = "built" /\ ~InEvent /\ ~InEvent'
      /\ UNCHANGED <<objects, root_op, ev, va, mods, nest_max, events>>
      /\ tot_dur_ms' \in Nat
  BY EndFacts
<1>2. /\ Types' /\ Sizes' /\ IdsInOrder' /\ Roots' /\ EventSound'
  <2>1. Types' /\ Sizes'
    BY <1>1 DEF ConvInv, Types, Sizes
  <2>2. IdsInOrder' /\ Roots'
    BY <1>1 DEF ConvInv, IdsInOrder, Roots, IsRoot, Known
  <2>3. EventSound'
    BY <1>1 DEF ConvInv, EventSound
  <2> QED
    BY <2>1, <2>2, <2>3
<1>3. \A v : ~Pending(v) /\ ~Pending(v)'
  BY <1>1 DEF Pending
<1>4. Built' = Built /\ Upcoming' = Upcoming
  BY <1>1 DEF Built, Upcoming
<1>5. VoicesHeld' /\ VoiceHeldByOne'
  BY <1>1, <1>3 DEF ConvInv, VoicesHeld, VoiceHeldByOne, IsRoot, Known
<1>6. VoicesOwned'
  BY <1>1, <1>3, <1>4 DEF ConvInv, VoicesOwned
<1>7. EventsValid'
  BY <1>1, <1>4 DEF ConvInv, EventsValid
<1> QED
  BY <1>2, <1>5, <1>6, <1>7, EndTimes DEF ConvInv

-----------------------------------------------------------------------------
(* The invariant. *)

LEMMA InitInv ==
    ASSUME Init
    PROVE  ConvInv
<1>1. /\ pc = "script" /\ objects = <<>> /\ root_op = 0 /\ ev = NoEvent
      /\ va = <<>> /\ mods = <<>> /\ nest_max = 0 /\ tot_dur_ms = 0
      /\ events = <<>>
  BY DEF Init
<1>2. ~InEvent /\ Len(objects) = 0 /\ Len(mods) = 0 /\ Len(events) = 0
      /\ DOMAIN objects = {} /\ DOMAIN va = {} /\ DOMAIN mods = {}
      /\ DOMAIN events = {}
  BY <1>1 DEF InEvent
<1>3. NoEvent \in EvType
  BY DEF NoEvent, EvType, Lists, NoVoice
<1>4. Types
  BY <1>1, <1>3 DEF Types
<1>5. Sizes
  <2>1. 0 <= (1 + MaxChain) * 0
    BY ScriptTypes
  <2> QED
    BY <1>2, <2>1, ScriptTypes DEF Sizes
<1>6. IdsInOrder /\ Roots /\ EventSound
  BY <1>1, <1>2 DEF IdsInOrder, Roots, EventSound, NoEvent
<1>7. VoicesHeld /\ VoiceHeldByOne /\ VoicesOwned /\ EventsKnown /\ RootsTimed
      /\ TimesCounted
  BY <1>2 DEF VoicesHeld, VoiceHeldByOne, VoicesOwned, EventsKnown, RootsTimed,
              TimesCounted
<1>8. EventsValid
  <2>1. Len(Built.events) = 0
    BY <1>2 DEF Built
  <2>2. 1..Len(events) = {} /\ 1..Len(Built.events) = {}
    BY <1>2, <2>1
  <2> QED
    BY <2>2 DEF EventsValid, ReusesOnlyExpired, EvCount
<1> QED
  BY <1>4, <1>5, <1>6, <1>7, <1>8 DEF ConvInv

LEMMA NextInv ==
    ASSUME ConvInv, [Next]_vars
    PROVE  ConvInv'
<1>1. CASE ScriptEvent
  BY <1>1, ScriptStep
<1>2. CASE PreserveVoice \/ RecycleVoice \/ AddVoice
  BY <1>2, VoiceStep
<1>3. CASE ConvertEvent
  BY <1>3, ConvertStep
<1>4. CASE EndScript
  BY <1>4, EndStep
<1>5. CASE UNCHANGED vars
  <2>1. /\ pc' = pc /\ objects' = objects /\ root_op' = root_op /\ ev' = ev
        /\ va' = va /\ mods' = mods /\ tot_dur_ms' = tot_dur_ms
        /\ events' = events /\ nest_max' = nest_max
    BY <1>5 DEF vars
  <2>2. /\ Built' = Built /\ Upcoming' = Upcoming /\ Clock' = Clock
        /\ Holder' = Holder /\ (InEvent' <=> InEvent) /\ NewIds' = NewIds
    BY <2>1 DEF Built, Upcoming, Clock, Holder, InEvent, NewIds
  <2>3. \A id : /\ IsRoot(id)' <=> IsRoot(id)
                /\ Known(id)' <=> Known(id)
                /\ Left(id)' = Left(id)
                /\ Pending(id)' <=> Pending(id)
    BY <2>1 DEF IsRoot, Known, Left, Pending
  <2>4. Types' /\ Sizes' /\ IdsInOrder'
    BY <2>1, <2>2, <2>3 DEF ConvInv, Types, Sizes, IdsInOrder, Known
  <2>5. Roots'
    BY <2>1, <2>2, <2>3 DEF ConvInv, Roots, IsRoot
  <2>6. EventSound'
    BY <2>1, <2>2, <2>3 DEF ConvInv, EventSound, IsRoot, Known
  <2>7. VoicesHeld' /\ VoiceHeldByOne'
    BY <2>1, <2>2, <2>3 DEF ConvInv, VoicesHeld, VoiceHeldByOne, IsRoot, Known, Pending
  <2>8. VoicesOwned'
    BY <2>1, <2>2, <2>3 DEF ConvInv, VoicesOwned, Pending
  <2>9. EventsKnown' /\ RootsTimed'
    BY <2>1, <2>2, <2>3 DEF ConvInv, EventsKnown, RootsTimed, IsRoot, Known
  <2>10. TimesCounted'
    BY <2>1, <2>2, <2>3 DEF ConvInv, TimesCounted, IsRoot, Known, Left
  <2>11. EventsValid'
    BY <2>1, <2>2 DEF ConvInv, EventsValid
  <2> QED
    BY <2>4, <2>5, <2>6, <2>7, <2>8, <2>9, <2>10, <2>11 DEF ConvInv
<1> QED
  BY <1>1, <1>2, <1>3, <1>4, <1>5 DEF Next

(* What holds in every state of parse conversion, for every script: which  *)
(* operators have ids, who holds each voice, as voices, objects and events *)
(* tell it, and how much of a carrier's time its voice still counts down.  *)
THEOREM ConvInvariant == Spec => []ConvInv
<1>1. Init => ConvInv
  BY InitInv
<1>2. ConvInv /\ [Next]_vars => ConvInv'
  BY NextInv
<1> QED
  BY <1>1, <1>2, PTL DEF Spec

(* Every reference between the tables of parse conversion is to an entry   *)
(* there is.                                                               *)
THEOREM Typing == Spec => []TypeOK
<1>1. ASSUME ConvInv PROVE TypeOK
  <2>1. /\ Types /\ Roots /\ IdsInOrder /\ VoicesHeld
    BY <1>1 DEF ConvInv
  <2>2. /\ objects \in Seq(ObjectType) /\ va \in Seq(VoiceType)
        /\ DOMAIN objects = 1..Len(objects) /\ Len(mods) \in Nat
    BY <2>1 DEF Types
  <2>3. /\ pc \in {"script", "voice", "operators", "built"}
        /\ events \in Seq(Event)
        /\ tot_dur_ms \in Nat /\ nest_max \in Nat
        /\ root_op \in 0..Len(objects)
        /\ \A k \in DOMAIN mods : mods[k] \subseteq k..(Len(mods) - 1)
    BY <2>1 DEF Types, Roots, IdsInOrder
  <2>4. ASSUME NEW id \in DOMAIN objects
        PROVE  /\ objects[id].root_op_obj \in DOMAIN objects
               /\ objects[id].last_vo_id \in {NoVoice} \union 0..(Len(va) - 1)
               /\ objects[id].last_op_id \in {NoOp} \union 0..(Len(mods) - 1)
    <3>1. objects[id].root_op_obj \in DOMAIN objects
      BY <2>1 DEF Roots, IsRoot
    <3>2. objects[id].last_vo_id \in {NoVoice} \union 0..(Len(va) - 1)
      BY <2>1 DEF VoicesHeld
    <3>3. objects[id].last_op_id = IF id <= Len(mods) THEN id - 1 ELSE NoOp
      BY <2>1 DEF IdsInOrder, Known
    <3>4. id \in Nat \ {0}
      BY <2>2
    <3> QED
      BY <2>2, <3>1, <3>2, <3>3, <3>4
  <2>5. ASSUME NEW v \in DOMAIN va
        PROVE  va[v].obj_id \in DOMAIN objects /\ va[v].duration_ms \in Nat
    <3>1. va[v] \in VoiceType
      BY <2>2
    <3> QED
      BY <2>1, <3>1 DEF VoicesHeld, IsRoot, VoiceType
  <2> QED
    BY <2>3, <2>4, <2>5 DEF TypeOK
<1> QED
  BY <1>1, ConvInvariant, PTL

(* A voice is held by one object, and an object that lost its voice to     *)
(* another does not still refer to it: obj_id and last_vo_id agree.        *)
THEOREM HeldByOne == Spec => []VoiceHeldByOne
<1>1. ConvInv => VoiceHeldByOne
  BY DEF ConvInv
<1> QED
  BY <1>1, ConvInvariant, PTL

(* Whatever the script, the program converted is one the generator is made *)
(* for: events in order, each for a voice there is, which its carrier owns *)
(* or takes while owning no other, and timed when the carrier first plays. *)
THEOREM ProgramsValid == Spec => []MakesValidPrograms
<1>1. ASSUME ConvInv PROVE MakesValidPrograms
  <2>1. SUFFICES ASSUME Converted PROVE ValidProgram(Built)
    BY DEF MakesValidPrograms
  <2>2. \A v : ~Pending(v)
    BY <2>1 DEF Converted, Pending
  <2>3. Built.events = events /\ Upcoming - 1 = Len(events) /\ Len(events) \in Nat
    BY <1>1, ProgramTypes
  <2>4. EvCount(Built) = Len(events) /\ EvCount(Built) + 1 = Upcoming
        /\ Built.vo_count = Len(va)
    BY <2>3 DEF EvCount, Built, Upcoming
  <2>5. va \in Seq(VoiceType)
    BY <1>1 DEF ConvInv, Types
  <2>6. ASSUME NEW v \in 0..(Len(va) - 1)
        PROVE  OnVoiceBefore(Built, Upcoming, v) # {}
    <3>1. PICK w : w = v + 1
      OBVIOUS
    <3>2. w \in DOMAIN va /\ w - 1 = v
      BY <2>5, <3>1
    <3>3. Owns(Built, Upcoming, v, va[w].obj_id - 1)
      BY <1>1, <2>2, <3>2 DEF ConvInv, VoicesOwned
    <3> QED
      BY <3>3 DEF Owns
  <2>7. \A k \in 1..EvCount(Built) : ValidEvent(Built, k)
    BY <1>1, <2>4 DEF ConvInv, EventsValid
  <2> QED
    BY <2>4, <2>6, <2>7 DEF ValidProgram
<1> QED
  BY <1>1, ConvInvariant, PTL

(* "Reuse first lowest free voice (duration expired)": without sub-events  *)
(* that set times, no voice is taken from a carrier with time left.  That  *)
(* is what the generator's theorems take as their hypothesis.              *)
THEOREM ReusedWhenExpired ==
    ASSUME ~SubSteps
    PROVE  Spec => []VoiceReuseAfterExpiry
<1>1. ConvInv => VoiceReuseAfterExpiry
  BY DEF ConvInv, EventsValid, VoiceReuseAfterExpiry
<1> QED
  BY <1>1, ConvInvariant, PTL

(* The duration reported for the program is never shorter than what plays: *)
(* each event has ended by then or been superseded by a later one.         *)
THEOREM DurationCovers ==
    ASSUME ~SubSteps
    PROVE  Spec => []DurationCoversSound
<1>1. ASSUME ConvInv PROVE DurationCoversSound
  <2>1. SUFFICES ASSUME pc = "built", NEW k \in DOMAIN events
                 PROVE  \/ events[k].at_ms + events[k].time_ms <= tot_dur_ms
                        \/ \E j \in (k + 1)..Len(events) :
                              /\ events[j].sets_time
                              /\ events[j].carr_op_id = events[k].carr_op_id
    BY DEF DurationCoversSound
  <2>2. /\ events \in Seq(Event) /\ Built.events = events
        /\ Upcoming - 1 = Len(events) /\ Len(events) \in Nat
        /\ DOMAIN events = 1..Len(events) /\ tot_dur_ms \in Nat
    BY <1>1, ProgramTypes DEF ConvInv, Types
  <2>3. PICK op : op = events[k].carr_op_id
    OBVIOUS
  <2>4. /\ events[k].at_ms <= tot_dur_ms
        /\ ~events[k].sets_time => events[k].time_ms = 0
        /\ op \in Nat /\ IsRoot(op + 1) /\ Known(op + 1)
    BY <1>1, <2>3 DEF ConvInv, EventsKnown
  <2>5. events[k].at_ms \in Nat
    <3>1. events[k] \in Event
      BY <2>2
    <3> QED
      BY <3>1 DEF Event
  <2>6. CASE ~events[k].sets_time
    BY <2>2, <2>4, <2>5, <2>6
  <2>7. CASE events[k].sets_time
    <3>1. Clock + Left(op + 1) = tot_dur_ms /\ (op + 1) - 1 = op
      BY <2>1, <2>2, <2>4 DEF Clock, Left
    <3>2. EndsBy(Built, Upcoming, op, tot_dur_ms)
      <4>1. EndsBy(Built, Upcoming, (op + 1) - 1, Clock + Left(op + 1))
        <5>1. op + 1 \in DOMAIN objects
          BY <2>4 DEF IsRoot
        <5> QED
          BY <1>1, <2>1, <2>4, <5>1 DEF ConvInv, TimesCounted
      <4> QED
        BY <3>1, <4>1
    <3>3. PICK p, n : p = Built /\ n = Upcoming
      OBVIOUS
    <3>4. PICK j \in TimedBefore(p, n, op) :
             /\ \A i \in TimedBefore(p, n, op) : i <= j
             /\ p.events[j].at_ms + p.events[j].time_ms <= tot_dur_ms
      BY <3>2, <3>3 DEF EndsBy
    <3>5. k \in TimedBefore(p, n, op)
      BY <2>2, <2>3, <2>7, <3>3 DEF TimedBefore
    <3>6. /\ j \in 1..Len(events) /\ k <= j /\ events[j].sets_time
          /\ events[j].carr_op_id = op
          /\ events[j].at_ms + events[j].time_ms <= tot_dur_ms
      BY <2>2, <3>3, <3>4, <3>5 DEF TimedBefore
    <3>7. CASE j = k
      BY <3>6, <3>7
    <3>8. CASE j # k
      <4>1. j \in (k + 1)..Len(events)
        BY <2>2, <3>6, <3>8
      <4> QED
        BY <2>3, <3>6, <4>1
    <3> QED
      BY <3>7, <3>8
  <2> QED
    BY <2>6, <2>7
<1> QED
  BY <1>1, ConvInvariant, PTL
=============================================================================
