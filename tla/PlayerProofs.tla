---------------------------- MODULE PlayerProofs ----------------------------
(***************************************************************************)
(* Proofs about the player, for any scripts, rates, buffer time, options   *)
(* and failures: what every output gets is the sound of the programs, in   *)
(* order and whole, whatever happens to the others, and a failed write     *)
(* shows in the exit status.                                               *)
(***************************************************************************)
EXTENDS Player, Numbers, SequenceTheorems

-----------------------------------------------------------------------------
(* The signal of a program at some rate: what SauProgram defines, with the *)
(* rate as a parameter, to be proved about once for all rates.             *)

Samples(ms, rate) == (ms * rate) \div MsPerSec
Begins(p, rate, k) == Samples(p.events[k].at_ms, rate)
Stops(p, rate, k) == Begins(p, rate, k) + Samples(p.events[k].time_ms, rate)

Heard(p, rate, k, t) ==
    /\ p.events[k].sets_time
    /\ Begins(p, rate, k) <= t /\ t < Stops(p, rate, k)
    /\ \A j \in (k + 1)..Len(p.events) :
          ~ /\ p.events[j].sets_time
            /\ p.events[j].carr_op_id = p.events[k].carr_op_id
            /\ Begins(p, rate, j) <= t

Mixed(p, rate, t) ==
    {<<p.events[k].carr_op_id, Stops(p, rate, k) - t>> :
        k \in {j \in 1..Len(p.events) : Heard(p, rate, j, t)}}

Past(p, rate, t) == \A k \in 1..Len(p.events) : Begins(p, rate, k) <= t
Silent(p, rate, t) ==
    /\ Past(p, rate, t)
    /\ \A k \in 1..Len(p.events) : ~Heard(p, rate, k, t)

TurnsAt(p, rate) ==
    {0} \union {Begins(p, rate, k) : k \in 1..Len(p.events)}
        \union {Stops(p, rate, k) : k \in 1..Len(p.events)}
LengthAt(p, rate) ==
    CHOOSE n \in TurnsAt(p, rate) :
        /\ Silent(p, rate, n)
        /\ \A m \in TurnsAt(p, rate) : Silent(p, rate, m) => n <= m

Rates == {Rate, DevRate}

LEMMA RatesPositive == Rates \subseteq Nat \ {0} /\ MsPerSec \in Nat \ {0}
  BY PlayerAssumption DEF Rates

(* It is what the streams of the player have. *)
LEMMA SignalOf ==
    ASSUME NEW p
    PROVE  /\ Gen!SignalLength(p) = LengthAt(p, Rate)
           /\ DevGen!SignalLength(p) = LengthAt(p, DevRate)
  BY DEF Gen!SignalLength, Gen!Turns, Gen!SilentFrom, Gen!AllReached, Gen!Sounding,
         Gen!At, Gen!EndAt, Gen!MsInSamples, Gen!EvCount,
         DevGen!SignalLength, DevGen!Turns, DevGen!SilentFrom, DevGen!AllReached,
         DevGen!Sounding, DevGen!At, DevGen!EndAt, DevGen!MsInSamples, DevGen!EvCount,
         LengthAt, TurnsAt, Silent, Past, Heard, Begins, Stops, Samples

LEMMA SoundIs ==
    ASSUME NEW p, NEW rate \in Rates
    PROVE  SoundAt(p, rate) =
              [x \in 1..LengthAt(p, rate) |-> Native(Mixed(p, rate, x - 1))]
  BY SignalOf
     DEF SoundAt, Rates, Gen!Signal, DevGen!Signal, Gen!IdealSample, DevGen!IdealSample,
         Gen!Sounding, Gen!At, Gen!EndAt, Gen!MsInSamples, Gen!EvCount,
         DevGen!Sounding, DevGen!At, DevGen!EndAt, DevGen!MsInSamples, DevGen!EvCount,
         Mixed, Heard, Begins, Stops, Samples

-----------------------------------------------------------------------------
(* Where the signal ends. *)

(* Times are whole samples, and no event stops before it begins. *)
LEMMA EventTimes ==
    ASSUME NEW p \in Gen!Program, NEW rate \in Rates, NEW k \in 1..Len(p.events)
    PROVE  /\ Begins(p, rate, k) \in Nat
           /\ Stops(p, rate, k) \in Nat
           /\ Begins(p, rate, k) <= Stops(p, rate, k)
           /\ p.events[k].carr_op_id \in Ops
<1>1. p.events \in Seq(Gen!Event)
  BY DEF Gen!Program
<1>2. p.events[k] \in Gen!Event
  BY <1>1
<1>3. p.events[k].at_ms \in Nat /\ p.events[k].time_ms \in Nat /\ p.events[k].carr_op_id \in Ops
  BY <1>2 DEF Gen!Event
<1>4. rate \in Nat /\ MsPerSec \in Nat \ {0}
  BY RatesPositive
<1>5. \A ms \in Nat : Samples(ms, rate) \in Nat
  BY <1>4, Products, DivMod DEF Samples
<1>6. /\ Begins(p, rate, k) \in Nat
      /\ Stops(p, rate, k) = Begins(p, rate, k) + Samples(p.events[k].time_ms, rate)
      /\ Samples(p.events[k].time_ms, rate) \in Nat
  BY <1>3, <1>5 DEF Begins, Stops
<1>7. Stops(p, rate, k) \in Nat /\ Begins(p, rate, k) <= Stops(p, rate, k)
  BY <1>6
<1> QED
  BY <1>3, <1>6, <1>7

LEMMA CountIsNat ==
    ASSUME NEW p \in Gen!Program
    PROVE  Len(p.events) \in Nat
<1>1. p.events \in Seq(Gen!Event)
  BY DEF Gen!Program
<1> QED
  BY <1>1

(* Once silent, it stays so. *)
LEMMA SilentStays ==
    ASSUME NEW p \in Gen!Program, NEW rate \in Rates,
           NEW n \in Nat, NEW m \in Nat, n <= m, Silent(p, rate, n)
    PROVE  Silent(p, rate, m)
<1>1. \A k \in 1..Len(p.events) : Begins(p, rate, k) \in Nat /\ Stops(p, rate, k) \in Nat
  BY EventTimes
<1>2. \A k \in 1..Len(p.events) : Begins(p, rate, k) <= n
  BY DEF Silent, Past
<1>3. Past(p, rate, m)
  BY <1>1, <1>2 DEF Past
<1>4. ASSUME NEW k \in 1..Len(p.events), Heard(p, rate, k, m) PROVE FALSE
  <2>1. Begins(p, rate, k) <= n /\ n < Stops(p, rate, k)
    BY <1>1, <1>2, <1>4 DEF Heard
  <2>2. \A j \in (k + 1)..Len(p.events) : Begins(p, rate, j) <= m
    BY <1>3, CountIsNat DEF Past
  <2>3. Heard(p, rate, k, n)
    BY <1>4, <2>1, <2>2 DEF Heard
  <2> QED
    BY <2>3 DEF Silent
<1> QED
  BY <1>3, <1>4 DEF Silent

(* It becomes silent where an event comes or a time is up. *)
LEMMA SilentTurn ==
    ASSUME NEW p \in Gen!Program, NEW rate \in Rates,
           NEW n \in Nat, Silent(p, rate, n), n = 0 \/ ~Silent(p, rate, n - 1)
    PROVE  n \in TurnsAt(p, rate)
<1>1. \A k \in 1..Len(p.events) : Begins(p, rate, k) \in Nat /\ Stops(p, rate, k) \in Nat
  BY EventTimes
<1>2. CASE n = 0
  BY <1>2 DEF TurnsAt
<1>3. CASE n # 0 /\ ~Past(p, rate, n - 1)
  <2>1. PICK k \in 1..Len(p.events) : ~(Begins(p, rate, k) <= n - 1)
    BY <1>3 DEF Past
  <2>2. Begins(p, rate, k) <= n
    BY DEF Silent, Past
  <2>3. Begins(p, rate, k) = n
    BY <1>1, <2>1, <2>2
  <2> QED
    BY <2>3 DEF TurnsAt
<1>4. CASE n # 0 /\ Past(p, rate, n - 1)
  <2>1. PICK k \in 1..Len(p.events) : Heard(p, rate, k, n - 1)
    BY <1>4 DEF Silent
  <2>2. ~Heard(p, rate, k, n)
    BY DEF Silent
  <2>3. \A j \in (k + 1)..Len(p.events) : Begins(p, rate, j) <= n - 1
    BY <1>4, CountIsNat DEF Past
  <2>4. \A j \in (k + 1)..Len(p.events) :
           ~(p.events[j].sets_time /\ p.events[j].carr_op_id = p.events[k].carr_op_id)
    BY <2>1, <2>3 DEF Heard
  <2>5. p.events[k].sets_time /\ Begins(p, rate, k) <= n - 1 /\ n - 1 < Stops(p, rate, k)
    BY <2>1 DEF Heard
  <2>6. ~(n < Stops(p, rate, k))
    <3>1. Begins(p, rate, k) <= n
      BY <1>1, <2>5
    <3> QED
      BY <2>2, <2>4, <2>5, <3>1 DEF Heard
  <2>7. Stops(p, rate, k) = n
    BY <1>1, <2>5, <2>6
  <2> QED
    BY <2>7 DEF TurnsAt
<1> QED
  BY <1>2, <1>3, <1>4

(* The times of the first k events have a bound. *)
Bounded(p, rate, k) == \E b \in Nat : \A j \in 1..k : Stops(p, rate, j) <= b

LEMMA TimesBounded ==
    ASSUME NEW p \in Gen!Program, NEW rate \in Rates
    PROVE  Bounded(p, rate, Len(p.events))
<1> DEFINE N == Len(p.events)
           Without == {k \in 0..N : ~Bounded(p, rate, k)}
<1>1. N \in Nat
  BY CountIsNat
<1>2. SUFFICES ASSUME Without # {} PROVE FALSE
  BY <1>1
<1>3. PICK k \in Without : \A l \in Without : k <= l
  <2>1. Without \subseteq Nat
    BY <1>1
  <2> HIDE DEF Without
  <2> QED
    BY <1>2, <2>1, LeastNatural
<1>4. k # 0
  BY <1>3 DEF Bounded
<1>5. k - 1 \in 0..N /\ k - 1 \notin Without /\ k \in 1..N
  BY <1>1, <1>3, <1>4
<1>6. PICK b \in Nat : \A j \in 1..(k - 1) : Stops(p, rate, j) <= b
  BY <1>5 DEF Bounded
<1>7. PICK c \in Nat : c >= b /\ c >= Stops(p, rate, k)
  <2>1. Stops(p, rate, k) \in Nat
    BY <1>5, EventTimes
  <2>2. b >= Stops(p, rate, k) \/ Stops(p, rate, k) >= b
    BY <2>1
  <2> QED
    BY <2>1, <2>2
<1>8. ASSUME NEW j \in 1..k PROVE Stops(p, rate, j) <= c
  <2>1. Stops(p, rate, j) \in Nat
    BY <1>1, <1>5, EventTimes
  <2>2. j = k \/ j \in 1..(k - 1)
    BY <1>5
  <2> QED
    BY <1>6, <1>7, <2>1, <2>2
<1>9. Bounded(p, rate, k)
  BY <1>8 DEF Bounded
<1> QED
  BY <1>3, <1>9

LEMMA SilentAtLast ==
    ASSUME NEW p \in Gen!Program, NEW rate \in Rates
    PROVE  \E n \in Nat : Silent(p, rate, n)
<1>1. PICK b \in Nat : \A j \in 1..Len(p.events) : Stops(p, rate, j) <= b
  BY TimesBounded DEF Bounded
<1>2. \A k \in 1..Len(p.events) : /\ Begins(p, rate, k) \in Nat
                                  /\ Stops(p, rate, k) \in Nat
                                  /\ Begins(p, rate, k) <= Stops(p, rate, k)
  BY EventTimes
<1>3. \A k \in 1..Len(p.events) : Begins(p, rate, k) <= b /\ ~(b < Stops(p, rate, k))
  BY <1>1, <1>2
<1> QED
  BY <1>3 DEF Silent, Past, Heard

(* Its length is where it becomes silent, for good. *)
LEMMA LengthFacts ==
    ASSUME NEW p \in Gen!Program, NEW rate \in Rates
    PROVE  /\ LengthAt(p, rate) \in Nat
           /\ \A n \in Nat : Silent(p, rate, n) <=> LengthAt(p, rate) <= n
<1> DEFINE S == {n \in Nat : Silent(p, rate, n)}
<1>1. PICK least \in S : \A n \in S : least <= n
  <2>1. S \subseteq Nat /\ S # {}
    BY SilentAtLast
  <2> HIDE DEF S
  <2> QED
    BY <2>1, LeastNatural
<1>2. least \in Nat /\ Silent(p, rate, least)
  BY <1>1
<1>3. least = 0 \/ ~Silent(p, rate, least - 1)
  <2>1. CASE least # 0 /\ Silent(p, rate, least - 1)
    <3>1. least - 1 \in S
      BY <1>2, <2>1
    <3>2. least <= least - 1
      BY <1>1, <3>1
    <3> QED
      BY <1>2, <3>2
  <2> QED
    BY <2>1
<1>4. least \in TurnsAt(p, rate)
  BY <1>2, <1>3, SilentTurn
<1>5. TurnsAt(p, rate) \subseteq Nat
  BY EventTimes DEF TurnsAt
<1>6. \A m \in TurnsAt(p, rate) : Silent(p, rate, m) => least <= m
  BY <1>1, <1>5
<1>7. \E n \in TurnsAt(p, rate) :
         Silent(p, rate, n) /\ \A m \in TurnsAt(p, rate) : Silent(p, rate, m) => n <= m
  BY <1>2, <1>4, <1>6
<1>8. /\ LengthAt(p, rate) \in TurnsAt(p, rate)
      /\ Silent(p, rate, LengthAt(p, rate))
      /\ \A m \in TurnsAt(p, rate) : Silent(p, rate, m) => LengthAt(p, rate) <= m
  BY <1>7 DEF LengthAt
<1>9. LengthAt(p, rate) \in Nat /\ LengthAt(p, rate) <= least /\ least <= LengthAt(p, rate)
  BY <1>2, <1>4, <1>5, <1>6, <1>8
<1>10. LengthAt(p, rate) = least
  BY <1>2, <1>9
<1>11. ASSUME NEW n \in Nat PROVE Silent(p, rate, n) <=> least <= n
  <2>1. Silent(p, rate, n) => least <= n
    BY <1>1
  <2>2. least <= n => Silent(p, rate, n)
    BY <1>2, SilentStays
  <2> QED
    BY <2>1, <2>2
<1> QED
  BY <1>2, <1>10, <1>11

-----------------------------------------------------------------------------
(* What a generator delivers. *)

Ends(p, rate, from) ==
    /\ Past(p, rate, from + LenAt(rate) - 1)
    /\ Silent(p, rate, from + LenAt(rate))

Given(p, rate, from) ==
    IF Ends(p, rate, from)
    THEN CHOOSE n \in 0..LenAt(rate) :
            /\ Silent(p, rate, from + n)
            /\ \A m \in 0..(n - 1) : ~Silent(p, rate, from + m)
    ELSE LenAt(rate)

DeliveryOf(p, rate, from) ==
    [chunk |-> [x \in 0..(LenAt(rate) - 1) |-> Mixed(p, rate, from + x)],
     len |-> Given(p, rate, from),
     more |-> ~Ends(p, rate, from)]

(* The stream at position pos gives d, and then is at the position after.  *)
Moves(p, rate, from, d, to) ==
    /\ d = DeliveryOf(p, rate, from)
    /\ to = from + Given(p, rate, from)

LEMMA GenDelivers ==
    ASSUME Gen!Deliver
    PROVE  Moves(prog, Rate, gen_pos, gen_out', gen_pos') /\ prog' = prog
  BY DEF Gen!Deliver, Gen!LengthOf, Gen!EndsWithin, Gen!SilentFrom, Gen!AllReached,
         Gen!IdealSample, Gen!Sounding, Gen!At, Gen!EndAt, Gen!MsInSamples, Gen!EvCount,
         Moves, DeliveryOf, Given, Ends, Mixed, Silent, Past, Heard, Begins, Stops, Samples

LEMMA DevGenDelivers ==
    ASSUME DevGen!Deliver
    PROVE  Moves(prog, DevRate, gen_pos, gen_out', gen_pos') /\ prog' = prog
  BY DEF DevGen!Deliver, DevGen!LengthOf, DevGen!EndsWithin, DevGen!SilentFrom,
         DevGen!AllReached, DevGen!IdealSample, DevGen!Sounding, DevGen!At, DevGen!EndAt,
         DevGen!MsInSamples, DevGen!EvCount,
         Moves, DeliveryOf, Given, Ends, Mixed, Silent, Past, Heard, Begins, Stops, Samples

LEMMA AdGenDelivers ==
    ASSUME AdGen!Deliver
    PROVE  Moves(prog, DevRate, ad_pos, ad_out', ad_pos') /\ prog' = prog
  BY DEF AdGen!Deliver, AdGen!LengthOf, AdGen!EndsWithin, AdGen!SilentFrom,
         AdGen!AllReached, AdGen!IdealSample, AdGen!Sounding, AdGen!At, AdGen!EndAt,
         AdGen!MsInSamples, AdGen!EvCount,
         Moves, DeliveryOf, Given, Ends, Mixed, Silent, Past, Heard, Begins, Stops, Samples

LEMMA BufferLength ==
    ASSUME NEW rate \in Rates
    PROVE  LenAt(rate) \in Nat \ {0}
<1>1. rate \in Nat /\ MsPerSec \in Nat \ {0} /\ BufTimeMs \in Nat
  BY RatesPositive, PlayerAssumption
<1>2. (BufTimeMs * rate) \div MsPerSec \in Nat
  BY <1>1, Products, DivMod
<1> QED
  BY <1>2 DEF LenAt

LEMMA SampleTypes ==
    ASSUME NEW p \in Gen!Program, NEW rate \in Rates, NEW t \in Nat
    PROVE  Native(Mixed(p, rate, t)) \in Sampled
<1>1. ASSUME NEW k \in 1..Len(p.events), Heard(p, rate, k, t)
      PROVE  <<p.events[k].carr_op_id, Stops(p, rate, k) - t>> \in Ops \X Nat
  <2>1. Stops(p, rate, k) \in Nat /\ p.events[k].carr_op_id \in Ops
    BY EventTimes
  <2>2. t < Stops(p, rate, k)
    BY <1>1 DEF Heard
  <2> QED
    BY <2>1, <2>2
<1>2. Mixed(p, rate, t) \in SUBSET (Ops \X Nat)
  BY <1>1 DEF Mixed
<1> QED
  BY <1>2 DEF Native, Sampled, Gen!Sample

LEMMA SoundTypes ==
    ASSUME NEW p \in Gen!Program, NEW rate \in Rates
    PROVE  /\ SoundAt(p, rate) \in Seq(Sampled)
           /\ Len(SoundAt(p, rate)) = LengthAt(p, rate)
           /\ \A x \in 1..LengthAt(p, rate) :
                 SoundAt(p, rate)[x] = Native(Mixed(p, rate, x - 1))
<1>1. LengthAt(p, rate) \in Nat
  BY LengthFacts
<1>2. \A x \in 1..LengthAt(p, rate) : Native(Mixed(p, rate, x - 1)) \in Sampled
  BY <1>1, SampleTypes
<1>3. SoundAt(p, rate) \in [1..LengthAt(p, rate) -> Sampled]
  BY <1>2, SoundIs
<1> QED
  BY <1>1, <1>3, SoundIs

(* Samples are given up to the end of the signal, all of them and no more. *)
LEMMA GivenFacts ==
    ASSUME NEW p \in Gen!Program, NEW rate \in Rates, NEW from \in Nat
    PROVE  /\ Given(p, rate, from) \in 0..LenAt(rate)
           /\ from <= LengthAt(p, rate) =>
                 /\ from + Given(p, rate, from) <= LengthAt(p, rate)
                 /\ Ends(p, rate, from) => from + Given(p, rate, from) = LengthAt(p, rate)
<1> DEFINE N == LenAt(rate)
           L == LengthAt(p, rate)
<1>1. N \in Nat \ {0} /\ L \in Nat
  BY BufferLength, LengthFacts
<1>2. \A n \in Nat : Silent(p, rate, n) <=> L <= n
  BY LengthFacts
<1>3. CASE Ends(p, rate, from)
  <2>1. L <= from + N
    BY <1>1, <1>2, <1>3 DEF Ends
  <2>2. PICK w \in 0..N : w = (IF from <= L THEN L - from ELSE 0)
    BY <1>1, <2>1
  <2>3. \A n \in 0..N : Silent(p, rate, from + n) <=> L <= from + n
    BY <1>1, <1>2
  <2>4. L <= from + w /\ \A m \in 0..(w - 1) : ~(L <= from + m)
    BY <1>1, <2>2
  <2>5. Silent(p, rate, from + w) /\ \A m \in 0..(w - 1) : ~Silent(p, rate, from + m)
    BY <1>1, <2>2, <2>3, <2>4
  <2>6. PICK g \in 0..N : /\ g = Given(p, rate, from)
                          /\ Silent(p, rate, from + g)
                          /\ \A m \in 0..(g - 1) : ~Silent(p, rate, from + m)
    BY <1>3, <2>5 DEF Given
  <2>7. ~(g < w)
    BY <1>1, <2>3, <2>4, <2>6
  <2>8. ~(w < g)
    <3>1. w < g => w \in 0..(g - 1)
      BY <2>6
    <3> QED
      BY <2>5, <2>6, <3>1
  <2>9. g = w
    BY <1>1, <2>7, <2>8
  <2> QED
    BY <1>1, <2>2, <2>6, <2>9
<1>4. CASE ~Ends(p, rate, from)
  <2>1. Given(p, rate, from) = N
    BY <1>4 DEF Given
  <2>2. ASSUME L < from + N PROVE FALSE
    <3>1. from + N - 1 \in Nat /\ L <= from + N - 1 /\ L <= from + N
      BY <1>1, <2>2
    <3>2. Silent(p, rate, from + N - 1) /\ Silent(p, rate, from + N)
      BY <1>1, <1>2, <3>1
    <3> QED
      BY <1>4, <3>2 DEF Ends, Silent
  <2> QED
    BY <1>1, <1>4, <2>1, <2>2
<1> QED
  BY <1>3, <1>4

(* A delivery is the next part of the sound. *)
NextPart(sound, from, d, to) ==
    /\ to <= Len(sound)
    /\ ~d.more => to = Len(sound)
    /\ Delivered(d) = SubSeq(sound, from + 1, to)

LEMMA DeliveryFacts ==
    ASSUME NEW p \in Gen!Program, NEW rate \in Rates, NEW from \in Nat,
           NEW d, NEW to, Moves(p, rate, from, d, to)
    PROVE  /\ d.len \in 0..LenAt(rate) /\ d.len = to - from
           /\ d.more \in BOOLEAN
           /\ to \in Nat
           /\ Delivered(d) \in Seq(Sampled)
           /\ Len(Delivered(d)) = d.len
           /\ from <= Len(SoundAt(p, rate)) => NextPart(SoundAt(p, rate), from, d, to)
<1> DEFINE N == LenAt(rate)
           L == LengthAt(p, rate)
<1>1. PICK n : n = Given(p, rate, from)
  OBVIOUS
<1>2. N \in Nat \ {0} /\ L \in Nat
  BY BufferLength, LengthFacts
<1>3. /\ n \in 0..N
      /\ from <= L => /\ from + n <= L
                      /\ Ends(p, rate, from) => from + n = L
  BY <1>1, GivenFacts
<1>4. /\ d.len = n /\ to = from + n /\ d.more = ~Ends(p, rate, from)
      /\ d.chunk = [x \in 0..(N - 1) |-> Mixed(p, rate, from + x)]
  BY <1>1 DEF Moves, DeliveryOf
<1>5. Delivered(d) = [x \in 1..n |-> Native(Mixed(p, rate, from + x - 1))]
  <2>1. Delivered(d) = [x \in 1..n |-> Native(d.chunk[x - 1])]
    BY <1>4 DEF Delivered
  <2>2. ASSUME NEW x \in 1..n PROVE d.chunk[x - 1] = Mixed(p, rate, from + x - 1)
    <3>1. x - 1 \in 0..(N - 1) /\ from + (x - 1) = from + x - 1
      BY <1>2, <1>3
    <3> QED
      BY <1>4, <3>1
  <2> QED
    BY <2>1, <2>2
<1>6. \A x \in 1..n : Native(Mixed(p, rate, from + x - 1)) \in Sampled
  BY <1>3, SampleTypes
<1>7. Delivered(d) \in [1..n -> Sampled]
  BY <1>5, <1>6
<1>8. Delivered(d) \in Seq(Sampled) /\ Len(Delivered(d)) = n
  BY <1>3, <1>7
<1>9. ASSUME from <= Len(SoundAt(p, rate))
      PROVE  NextPart(SoundAt(p, rate), from, d, to)
  <2>1. PICK s : s = SoundAt(p, rate)
    OBVIOUS
  <2>2. s \in Seq(Sampled) /\ Len(s) = L
        /\ \A x \in 1..L : s[x] = Native(Mixed(p, rate, x - 1))
    BY <2>1, SoundTypes
  <2>3. to <= L /\ to \in Nat /\ from \in 0..to /\ (Ends(p, rate, from) => to = L)
    BY <1>2, <1>3, <1>4, <1>9, <2>1, <2>2
  <2>4. /\ SubSeq(s, from + 1, to) \in Seq(Sampled)
        /\ Len(SubSeq(s, from + 1, to)) = n
        /\ \A x \in 1..n : SubSeq(s, from + 1, to)[x] = s[from + x]
    BY <1>2, <1>3, <1>4, <2>2, <2>3
  <2>5. ASSUME NEW x \in 1..n PROVE Delivered(d)[x] = SubSeq(s, from + 1, to)[x]
    <3>1. from + x \in 1..L
      BY <1>2, <1>3, <1>4, <2>3
    <3> QED
      BY <1>5, <2>2, <2>4, <3>1
  <2>6. Delivered(d) = SubSeq(s, from + 1, to)
    BY <1>8, <2>4, <2>5, SeqEqual
  <2> QED
    BY <1>4, <2>1, <2>2, <2>3, <2>6 DEF NextPart
<1> QED
  BY <1>2, <1>3, <1>4, <1>8, <1>9

-----------------------------------------------------------------------------
(* Sequences of samples. *)

LEMMA SwapFacts ==
    ASSUME NEW s \in Seq(Sampled)
    PROVE  /\ SwapAll(s) \in Seq(Sampled)
           /\ Len(SwapAll(s)) = Len(s)
           /\ \A x \in 1..Len(s) : SwapAll(s)[x] = Swapped(s[x])
<1>1. \A x \in 1..Len(s) : s[x] \in Sampled
  OBVIOUS
<1>2. ASSUME NEW x \in Sampled PROVE Swapped(x) \in Sampled
  BY DEF Swapped, Sampled
<1>3. DOMAIN s = 1..Len(s) /\ Len(s) \in Nat
  OBVIOUS
<1>4. SwapAll(s) = [x \in 1..Len(s) |-> Swapped(s[x])]
  BY <1>3 DEF SwapAll
<1>5. \A x \in 1..Len(s) : Swapped(s[x]) \in Sampled
  BY <1>1, <1>2
<1>6. SwapAll(s) \in [1..Len(s) -> Sampled]
  BY <1>4, <1>5
<1> QED
  BY <1>3, <1>4, <1>6

LEMMA SwapPart ==
    ASSUME NEW s \in Seq(Sampled), NEW m \in Nat \ {0}, NEW n \in 0..Len(s), m <= n + 1
    PROVE  SwapAll(SubSeq(s, m, n)) = SubSeq(SwapAll(s), m, n)
<1>1. PICK t : t = SubSeq(s, m, n)
  OBVIOUS
<1>2. PICK u : u = SwapAll(s)
  OBVIOUS
<1>3. /\ t \in Seq(Sampled) /\ Len(t) = n - m + 1
      /\ \A x \in 1..(n - m + 1) : t[x] = s[m + x - 1]
  BY <1>1
<1>4. /\ u \in Seq(Sampled) /\ Len(u) = Len(s)
      /\ \A x \in 1..Len(s) : u[x] = Swapped(s[x])
  BY <1>2, SwapFacts
<1>5. /\ SubSeq(u, m, n) \in Seq(Sampled) /\ Len(SubSeq(u, m, n)) = n - m + 1
      /\ \A x \in 1..(n - m + 1) : SubSeq(u, m, n)[x] = u[m + x - 1]
  BY <1>4
<1>6. /\ SwapAll(t) \in Seq(Sampled) /\ Len(SwapAll(t)) = n - m + 1
      /\ \A x \in 1..(n - m + 1) : SwapAll(t)[x] = Swapped(t[x])
  BY <1>3, SwapFacts
<1>7. \A x \in 1..(n - m + 1) : m + x - 1 \in 1..Len(s)
  OBVIOUS
<1>8. \A x \in 1..(n - m + 1) : SwapAll(t)[x] = SubSeq(u, m, n)[x]
  BY <1>3, <1>4, <1>5, <1>6, <1>7
<1>9. SwapAll(t) = SubSeq(u, m, n)
  BY <1>5, <1>6, <1>8, SeqEqual
<1> QED
  BY <1>1, <1>2, <1>9

(* The next part goes on from the parts before it. *)
LEMMA PartsJoin ==
    ASSUME NEW before \in Seq(Sampled), NEW sound \in Seq(Sampled),
           NEW a \in Nat, NEW b \in Nat, a <= b, b <= Len(sound)
    PROVE  (before \o SubSeq(sound, 1, a)) \o SubSeq(sound, a + 1, b)
              = before \o SubSeq(sound, 1, b)
<1>1. SubSeq(sound, 1, a) \in Seq(Sampled) /\ SubSeq(sound, a + 1, b) \in Seq(Sampled)
  OBVIOUS
<1>2. SubSeq(sound, 1, a) \o SubSeq(sound, a + 1, b) = SubSeq(sound, 1, b)
  <2>1. 1 \in 1..(Len(sound) + 1) /\ a \in (1 - 1)..Len(sound) /\ b \in a..Len(sound)
    OBVIOUS
  <2> QED
    BY <2>1, ConcatAdjacentSubSeq
<1>3. \A t, u \in Seq(Sampled) : (before \o t) \o u = before \o (t \o u)
  BY ConcatAssociative
<1>4. (before \o SubSeq(sound, 1, a)) \o SubSeq(sound, a + 1, b)
         = before \o (SubSeq(sound, 1, a) \o SubSeq(sound, a + 1, b))
  BY <1>1, <1>3, Zenon
<1> QED
  BY <1>2, <1>4

LEMMA PrefixFacts ==
    ASSUME NEW s \in Seq(Sampled), NEW t \in Seq(Sampled)
    PROVE  /\ IsPrefix(s, s)
           /\ \A n \in 0..Len(t) : IsPrefix(s \o SubSeq(t, 1, n), s \o t)
           /\ IsPrefix(s, t) => \A n \in 0..Len(s) : IsPrefix(SubSeq(s, 1, n), t)
<1>1. IsPrefix(s, s)
  BY DEF IsPrefix
<1>2. ASSUME NEW n \in 0..Len(t)
      PROVE  IsPrefix(s \o SubSeq(t, 1, n), s \o t)
  <2>1. PICK q : q = s \o SubSeq(t, 1, n)
    OBVIOUS
  <2>2. SubSeq(t, 1, n) \in Seq(Sampled) /\ Len(SubSeq(t, 1, n)) = n
        /\ \A x \in 1..n : SubSeq(t, 1, n)[x] = t[x]
    OBVIOUS
  <2>3. PICK r : r = s \o t
    OBVIOUS
  <2>4. /\ q \in Seq(Sampled) /\ Len(q) = Len(s) + n
        /\ \A x \in 1..(Len(s) + n) :
              q[x] = IF x <= Len(s) THEN s[x] ELSE SubSeq(t, 1, n)[x - Len(s)]
    BY <2>1, <2>2, ConcatProperties
  <2>5. /\ r \in Seq(Sampled) /\ Len(r) = Len(s) + Len(t)
        /\ \A x \in 1..(Len(s) + Len(t)) :
              r[x] = IF x <= Len(s) THEN s[x] ELSE t[x - Len(s)]
    BY <2>3, ConcatProperties
  <2>6. Len(q) <= Len(r) /\ \A x \in 1..Len(q) : q[x] = r[x]
    <3>1. PICK m, l : m = Len(s) /\ l = Len(t)
      OBVIOUS
    <3>2. m \in Nat /\ l \in Nat /\ n \in Nat /\ n <= l
      BY <3>1
    <3>3. ASSUME NEW x \in 1..(m + n) PROVE q[x] = r[x]
      <4>1. q[x] = IF x <= m THEN s[x] ELSE SubSeq(t, 1, n)[x - m]
        BY <2>4, <3>1
      <4>2. r[x] = IF x <= m THEN s[x] ELSE t[x - m]
        <5>1. x \in 1..(m + l)
          BY <3>2
        <5>2. \A y \in 1..(m + l) : r[y] = IF y <= m THEN s[y] ELSE t[y - m]
          BY <2>5, <3>1
        <5> QED
          BY <5>1, <5>2, Zenon
      <4>3. ~(x <= m) => x - m \in 1..n
        BY <3>2
      <4>4. ~(x <= m) => SubSeq(t, 1, n)[x - m] = t[x - m]
        BY <2>2, <4>3
      <4>5. CASE x <= m
        BY <4>1, <4>2, <4>5
      <4>6. CASE ~(x <= m)
        BY <4>1, <4>2, <4>4, <4>6
      <4> QED
        BY <4>5, <4>6
    <3> QED
      BY <2>4, <2>5, <3>1, <3>2, <3>3
  <2>7. /\ SubSeq(q, 1, Len(q)) = q
        /\ SubSeq(r, 1, Len(q)) \in Seq(Sampled)
        /\ Len(SubSeq(r, 1, Len(q))) = Len(q)
        /\ \A x \in 1..Len(q) : SubSeq(r, 1, Len(q))[x] = r[x]
    BY <2>4, <2>5, <2>6
  <2>8. q = SubSeq(r, 1, Len(q))
    BY <2>4, <2>6, <2>7, SeqEqual
  <2> QED
    BY <2>1, <2>3, <2>6, <2>7, <2>8 DEF IsPrefix
<1>3. ASSUME IsPrefix(s, t), NEW n \in 0..Len(s)
      PROVE  IsPrefix(SubSeq(s, 1, n), t)
  <2>1. Len(s) <= Len(t) /\ SubSeq(s, 1, Len(s)) = SubSeq(t, 1, Len(s))
    BY <1>3 DEF IsPrefix
  <2>2. \A x \in 1..Len(s) : s[x] = t[x]
    <3>1. \A x \in 1..Len(s) : SubSeq(s, 1, Len(s))[x] = s[x] /\ SubSeq(t, 1, Len(s))[x] = t[x]
      BY <2>1
    <3> QED
      BY <2>1, <3>1
  <2>3. PICK q : q = SubSeq(s, 1, n)
    OBVIOUS
  <2>4. q \in Seq(Sampled) /\ Len(q) = n /\ \A x \in 1..n : q[x] = s[x]
    BY <2>3
  <2>5. /\ SubSeq(t, 1, n) \in Seq(Sampled) /\ Len(SubSeq(t, 1, n)) = n
        /\ \A x \in 1..n : SubSeq(t, 1, n)[x] = t[x]
    BY <2>1
  <2>6. \A x \in 1..n : q[x] = SubSeq(t, 1, n)[x]
    BY <2>2, <2>4, <2>5
  <2>7. q = SubSeq(t, 1, n) /\ SubSeq(q, 1, n) = q
    BY <2>4, <2>5, <2>6, SeqEqual
  <2> QED
    BY <2>1, <2>3, <2>4, <2>7 DEF IsPrefix
<1> QED
  BY <1>1, <1>2, <1>3

-----------------------------------------------------------------------------
(* What is due for the program stays as it is while the player does.       *)
LEMMA DueKept ==
    ASSUME NEW s \in Outputs, UNCHANGED <<player, flags, wav_path, prog>>
    PROVE  DueFor(s, prog)' = DueFor(s, prog)
  BY DEF DueFor, IsAU, HasFile

LEMMA DueNext ==
    ASSUME NEW s \in Outputs, NEW p, UNCHANGED <<player, flags, wav_path>>, prog' = p
    PROVE  DueFor(s, prog)' = DueFor(s, p)
  BY DEF DueFor, IsAU, HasFile

LEMMA DueTypes ==
    ASSUME player \in PlayerType, NEW s \in Outputs, NEW p \in Gen!Program
    PROVE  /\ DueFor(s, p) \in Seq(Sampled)
           /\ ~player[s] => DueFor(s, p) = <<>>
<1>1. player.dev_rate \in Rates /\ Rate \in Rates
  BY DEF PlayerType, Rates
<1>2. SoundAt(p, player.dev_rate) \in Seq(Sampled) /\ SoundAt(p, Rate) \in Seq(Sampled)
  BY <1>1, SoundTypes
<1>3. SwapAll(SoundAt(p, Rate)) \in Seq(Sampled)
  BY <1>2, SwapFacts
<1>4. <<>> \in Seq(Sampled)
  OBVIOUS
<1> QED
  BY <1>2, <1>3, <1>4 DEF DueFor

-----------------------------------------------------------------------------
(* The options. *)
LEMMA OptionsKept ==
    ASSUME Options, UNCHANGED argVars
    PROVE  Options'
  BY DEF Options, argVars

LEMMA ProgressIdle ==
    ASSUME Progress, ~InRun, ~InRun', AtEnd => AtEnd', UNCHANGED <<sinks, due>>
    PROVE  Progress'
  BY DEF Progress

LEMMA OptionKeeps ==
    ASSUME PlayerInv, NEW arg \in DOMAIN Sets, Option(arg)
    PROVE  PlayerInv'
<1> USE DEF PlayerInv
<1>1. Types'
  BY DEF Types, Option, genVars, outVars, InRun, Following, DevSamples, Delivered
<1>2. Options'
  <2>1. CASE Refused(arg)
    BY <2>1, PlayerAssumption DEF Options, Option
  <2>2. CASE ~Refused(arg)
    <3>1. flags' = flags \union Sets[arg] /\ flags \intersect Excludes[arg] = {}
      BY <2>2 DEF Option, Refused
    <3>2. wav_path' \in {"none", "path", "-"} /\ nargs' \in 0..MaxArgs
      BY <2>2, PlayerAssumption DEF Option, Options, Sets
    <3>3. flags' \subseteq UNION {Sets[a] : a \in DOMAIN Sets}
      BY <3>1 DEF Options
    <3>4. \A pair \in Conflicting : ~pair \subseteq flags'
      BY <3>1 DEF Options, Conflicting, Sets, Excludes
    <3> QED
      BY <3>2, <3>3, <3>4 DEF Options
  <2> QED
    BY <2>1, <2>2
<1>3. Setup'
  BY DEF Setup, Option, genVars, outVars, Closed, Outputs
<1>4. Progress'
  BY ProgressIdle DEF Option, outVars, InRun, AtEnd, Following
<1>5. Told'
  BY DEF Told, Setup, Option, outVars
<1>6. Counted'
  BY PlayerAssumption DEF Counted, Setup, Option, outVars, AtEnd, Closed, AudioBytes
<1> QED
  BY <1>1, <1>2, <1>3, <1>4, <1>5, <1>6

-----------------------------------------------------------------------------
(* The steps in which no sound is due and none is written. *)
LEMMA ReadScriptsKeeps ==
    ASSUME PlayerInv, ReadScripts
    PROVE  PlayerInv'
<1> USE DEF PlayerInv
<1>1. Types'
  <2>1. todo' \in Seq(Gen!Program \union {NoProgram}) /\ status' \in BOOLEAN
    BY ScriptsAssumption DEF ReadScripts
  <2> QED
    BY <2>1 DEF Types, ReadScripts, genVars, outVars, InRun, Following
<1>2. Options'
  BY OptionsKept DEF ReadScripts
<1>3. Setup'
  BY DEF Setup, ReadScripts, argVars, genVars, outVars, Closed, Outputs
<1>4. Progress'
  BY ProgressIdle DEF ReadScripts, outVars, InRun, AtEnd, Following
<1>5. Told'
  BY DEF Told, Setup, ReadScripts, outVars
<1>6. Counted'
  BY PlayerAssumption
     DEF Counted, Setup, ReadScripts, argVars, outVars, AtEnd, Closed, AudioBytes
<1> QED
  BY <1>1, <1>2, <1>3, <1>4, <1>5, <1>6

LEMMA UseIsBoolean == UseAudiodev \in BOOLEAN
<1>1. PICK a \in BOOLEAN : a <=> "enable" \in flags
  BY Zenon
<1>2. PICK b \in BOOLEAN : b <=> "disable" \notin flags
  BY Zenon
<1>3. CASE HasFile
  BY <1>1, <1>3 DEF UseAudiodev
<1>4. CASE ~HasFile
  BY <1>2, <1>4 DEF UseAudiodev
<1> QED
  BY <1>3, <1>4

LEMMA OpenedFacts ==
    ASSUME NEW dev_rate \in DevRates, Options
    PROVE  /\ Opened(dev_rate) \in PlayerType
           /\ Opened(dev_rate).split_gen =>
                 Opened(dev_rate).srate = Rate /\ Opened(dev_rate).dev_rate = DevRate
           /\ ~Opened(dev_rate).split_gen =>
                 Opened(dev_rate).dev_rate = Opened(dev_rate).srate
           /\ Opened(dev_rate).raw \/ Opened(dev_rate).file =>
                 Opened(dev_rate).srate = Rate
<1>1. dev_rate \in {Rate, DevRate}
  BY DEF DevRates
<1>2. PICK kept \in BOOLEAN : kept = ("stdout" \in flags \/ HasFile)
  OBVIOUS
<1>3. PICK split \in BOOLEAN : split = (kept /\ dev_rate # Rate)
  OBVIOUS
<1>4. PICK dev, raw, file1 \in BOOLEAN :
         dev = UseAudiodev /\ (raw <=> "stdout" \in flags) /\ file1 = HasFile
  <2>1. HasFile \in BOOLEAN
    BY DEF HasFile
  <2>2. PICK raw \in BOOLEAN : raw <=> "stdout" \in flags
    BY Zenon
  <2> QED
    BY UseIsBoolean, <2>1, <2>2
<1>5. Opened(dev_rate) =
         [dev |-> dev, raw |-> raw, file |-> file1,
          srate |-> IF kept THEN Rate ELSE dev_rate,
          dev_rate |-> dev_rate,
          split_gen |-> split,
          ch_count |-> IF "mono" \in flags THEN 1 ELSE 2]
  BY <1>2, <1>3, <1>4 DEF Opened
<1>6. Opened(dev_rate) \in PlayerType
  BY <1>1, <1>5 DEF PlayerType
<1>7. /\ Opened(dev_rate).split_gen = split
      /\ Opened(dev_rate).srate = IF kept THEN Rate ELSE dev_rate
      /\ Opened(dev_rate).dev_rate = dev_rate
      /\ Opened(dev_rate).raw = raw /\ Opened(dev_rate).file = file1
  BY <1>5
<1>8. raw \/ file1 => kept
  BY <1>2, <1>4
<1> QED
  BY <1>1, <1>3, <1>6, <1>7, <1>8

LEMMA ClosedFacts ==
    /\ Closed \in PlayerType
    /\ \A s \in Outputs : ~Closed[s]
    /\ ~Closed.split_gen /\ Closed.dev_rate = Closed.srate
  BY DEF Closed, PlayerType, Outputs

LEMMA InitPlayerKeeps ==
    ASSUME PlayerInv, InitPlayer
    PROVE  PlayerInv'
<1> USE DEF PlayerInv
<1>1. /\ player' \in PlayerType
      /\ player'.split_gen => player'.srate = Rate /\ player'.dev_rate = DevRate
      /\ ~player'.split_gen => player'.dev_rate = player'.srate
      /\ player'.raw \/ player'.file => player'.srate = Rate
  BY OpenedFacts, ClosedFacts DEF InitPlayer, Outputs
<1>2. Types'
  <2>1. player'.srate \in Rates
    BY <1>1 DEF PlayerType, Rates
  <2>2. buf' = <<>> /\ 0 <= LenAt(player.srate)'
    BY <2>1, BufferLength DEF InitPlayer, Setup
  <2> QED
    BY <1>1, <2>2 DEF Types, InitPlayer, genVars, outVars, InRun, Following
<1>3. Options'
  BY OptionsKept DEF InitPlayer
<1>4. Setup'
  <2>1. "check" \in flags => \A s \in Outputs : ~player'[s]
    BY ClosedFacts DEF InitPlayer
  <2> QED
    BY <1>1, <2>1 DEF Setup, InitPlayer, argVars
<1>5. Progress'
  BY ProgressIdle DEF InitPlayer, outVars, InRun, AtEnd, Following
<1>6. Told'
  BY DEF Told, Setup, InitPlayer, outVars
<1>7. Counted'
  BY DEF Counted, Setup, InitPlayer, outVars, AtEnd, Closed
<1> QED
  BY <1>2, <1>3, <1>4, <1>5, <1>6, <1>7

LEMMA InitFailsKeeps ==
    ASSUME PlayerInv, InitFails
    PROVE  PlayerInv'
<1> USE DEF PlayerInv
<1>1. /\ player' \in PlayerType
      /\ player'.split_gen => player'.srate = Rate /\ player'.dev_rate = DevRate
      /\ ~player'.split_gen => player'.dev_rate = player'.srate
      /\ player'.raw \/ player'.file => player'.srate = Rate
  <2>1. CASE player' = Closed
    BY <2>1, ClosedFacts DEF Outputs
  <2>2. CASE player' = [Closed EXCEPT !.dev = UseAudiodev]
    <3>1. PICK dev \in BOOLEAN : dev = UseAudiodev
      BY UseIsBoolean
    <3>2. player' = [Closed EXCEPT !.dev = dev]
      BY <2>2, <3>1
    <3> QED
      BY <3>1, <3>2 DEF Closed, PlayerType
  <2>3. CASE \E dev_rate \in DevRates : player' = Opened(dev_rate)
    BY <2>3, OpenedFacts
  <2> QED
    BY <2>1, <2>2, <2>3 DEF InitFails
<1>2. Types'
  <2>1. player'.srate \in Rates
    BY <1>1 DEF PlayerType, Rates
  <2>2. buf' = <<>> /\ 0 <= LenAt(player.srate)'
    BY <2>1, BufferLength DEF InitFails, Setup
  <2>3. fails' \in 0..MaxFails
    BY PlayerAssumption DEF InitFails, MayFail, Types
  <2> QED
    BY <1>1, <2>2, <2>3 DEF Types, InitFails, genVars, outVars, InRun, Following
<1>3. Options'
  BY OptionsKept DEF InitFails
<1>4. Setup'
  BY <1>1 DEF Setup, InitFails, argVars
<1>5. Progress'
  BY ProgressIdle DEF InitFails, outVars, InRun, AtEnd, Following
<1>6. Told'
  BY DEF Told, Setup, InitFails, outVars
<1>7. Counted'
  BY DEF Counted, Setup, InitFails, outVars, AtEnd, Closed
<1> QED
  BY <1>2, <1>3, <1>4, <1>5, <1>6, <1>7

LEMMA SkipProgramKeeps ==
    ASSUME PlayerInv, SkipProgram
    PROVE  PlayerInv'
<1> USE DEF PlayerInv
<1>1. Types'
  <2>1. todo' \in Seq(Gen!Program \union {NoProgram})
    BY DEF Types, SkipProgram
  <2> QED
    BY <2>1 DEF Types, SkipProgram, genVars, outVars, InRun, Following
<1>2. Options'
  BY OptionsKept DEF SkipProgram
<1>3. Setup'
  BY DEF Setup, SkipProgram, argVars, outVars
<1>4. Progress'
  BY ProgressIdle DEF SkipProgram, outVars, InRun, AtEnd, Following
<1>5. Told'
  BY DEF Told, SkipProgram, outVars, InRun
<1>6. Counted'
  BY DEF Counted, SkipProgram, outVars, AtEnd
<1> QED
  BY <1>1, <1>2, <1>3, <1>4, <1>5, <1>6

LEMMA EndPlayKeeps ==
    ASSUME PlayerInv, EndPlay
    PROVE  PlayerInv'
<1> USE DEF PlayerInv
<1>1. Types'
  BY DEF Types, EndPlay, genVars, outVars, InRun, Following
<1>2. Options'
  BY OptionsKept DEF EndPlay
<1>3. Setup'
  BY DEF Setup, EndPlay, argVars, outVars
<1>4. Progress'
  BY ProgressIdle DEF EndPlay, outVars, InRun, AtEnd, Following
<1>5. Told'
  BY DEF Told, EndPlay, outVars, InRun, Following
<1>6. Counted'
  BY DEF Counted, EndPlay, outVars, AtEnd
<1> QED
  BY <1>1, <1>2, <1>3, <1>4, <1>5, <1>6

-----------------------------------------------------------------------------
(* An output that a step does not write to stays where it is; and it knows *)
(* no less of its stream when its turn has passed.                         *)
LEMMA ReachKept ==
    ASSUME NEW s \in Outputs, UNCHANGED <<player, flags, wav_path, genVars, due>>,
           player[s] => Waiting(s)' = Waiting(s),
           sinks'[s].got = sinks[s].got, HasReached(s)
    PROVE  HasReached(s)'
<1>1. DueFor(s, prog)' = DueFor(s, prog)
  BY DueKept DEF genVars
<1>2. Stream(s)' = Stream(s)
  BY DEF Stream, genVars
<1>3. Written(s)' = Written(s)
  BY <1>2 DEF Written
<1> QED
  BY <1>1, <1>3 DEF HasReached

LEMMA StreamKept ==
    ASSUME NEW s \in Outputs, UNCHANGED <<player, flags, wav_path, genVars, run>>,
           Waiting(s)' => Waiting(s) /\ ToWrite(s)' = ToWrite(s),
           StreamSound(s)
    PROVE  StreamSound(s)'
<1>1. DueFor(s, prog)' = DueFor(s, prog)
  BY DueKept DEF genVars
<1>2. Stream(s)' = Stream(s)
  BY DEF Stream, genVars
<1> QED
  BY <1>1, <1>2 DEF StreamSound

(* Writing all of the buffer takes an output up to where its stream is. *)
LEMMA Writes ==
    ASSUME NEW s \in Outputs, player \in PlayerType, prog \in Gen!Program,
           due[s] \in Seq(Sampled), gen_pos \in Nat, ad_pos \in Nat,
           UNCHANGED <<player, flags, wav_path, genVars, due>>,
           player[s], Waiting(s), ~Waiting(s)',
           sinks'[s].got = sinks[s].got \o ToWrite(s),
           HasReached(s), StreamSound(s)
    PROVE  HasReached(s)'
<1>1. PICK sound : sound = DueFor(s, prog)
  OBVIOUS
<1>2. sound \in Seq(Sampled)
  BY <1>1, DueTypes
<1>3. DueFor(s, prog)' = sound
  BY <1>1, DueKept DEF genVars
<1>4. PICK n \in 0..Len(due[s]) :
         /\ due[s] = SubSeq(due[s], 1, n) \o sound
         /\ sinks[s].got = SubSeq(due[s], 1, n) \o SubSeq(sound, 1, Written(s))
  BY <1>1 DEF HasReached
<1>5. PICK before : before = SubSeq(due[s], 1, n)
  OBVIOUS
<1>6. before \in Seq(Sampled)
  BY <1>5
<1>7. PICK to, len : to = Stream(s).pos /\ len = Stream(s).out.len
  OBVIOUS
<1>8. /\ to \in Nat /\ to <= Len(sound)
      /\ len \in 0..to
      /\ ToWrite(s) = SubSeq(sound, to - len + 1, to)
  <2>1. Stream(s).pos \in Nat
    BY DEF Stream
  <2> QED
    BY <1>1, <1>7, <2>1 DEF StreamSound
<1>9. Written(s) = to - len /\ Written(s)' = to
  <2>1. Stream(s)' = Stream(s)
    BY DEF Stream, genVars
  <2> QED
    BY <1>7, <1>8, <2>1 DEF Written
<1>10. (before \o SubSeq(sound, 1, to - len)) \o SubSeq(sound, to - len + 1, to)
          = before \o SubSeq(sound, 1, to)
  <2>1. PICK from \in Nat : from = to - len
    BY <1>8
  <2>2. from <= to
    BY <1>8, <2>1
  <2>3. (before \o SubSeq(sound, 1, from)) \o SubSeq(sound, from + 1, to)
           = before \o SubSeq(sound, 1, to)
    BY <1>2, <1>6, <1>8, <2>2, PartsJoin
  <2> QED
    BY <2>1, <2>3
<1>11. sinks'[s].got = before \o SubSeq(sound, 1, to)
  BY <1>4, <1>5, <1>8, <1>9, <1>10
<1> QED
  BY <1>3, <1>4, <1>5, <1>9, <1>11 DEF HasReached

(* A stream that has ended has given an output all that is due. *)
LEMMA AllGiven ==
    ASSUME NEW s \in Outputs, player \in PlayerType, prog \in Gen!Program,
           due[s] \in Seq(Sampled),
           HasReached(s), player[s] => StreamSound(s), pc = "loop", ~run
    PROVE  sinks[s].got = due[s]
<1>1. PICK sound : sound = DueFor(s, prog)
  OBVIOUS
<1>2. sound \in Seq(Sampled) /\ (~player[s] => sound = <<>>)
  BY <1>1, DueTypes
<1>3. PICK n \in 0..Len(due[s]) :
         /\ due[s] = SubSeq(due[s], 1, n) \o sound
         /\ sinks[s].got = SubSeq(due[s], 1, n) \o SubSeq(sound, 1, Written(s))
  BY <1>1 DEF HasReached
<1>4. ~Waiting(s)
  BY DEF Waiting
<1>5. Written(s) = Len(sound)
  <2>1. CASE player[s]
    BY <1>1, <1>4, <2>1 DEF Written, StreamSound
  <2>2. CASE ~player[s]
    BY <1>2, <2>2 DEF Written
  <2> QED
    BY <2>1, <2>2
<1>6. SubSeq(sound, 1, Len(sound)) = sound
  BY <1>2, SubSeqFull
<1> QED
  BY <1>3, <1>5, <1>6

(* An output in the midst of a program has a prefix of what it is due. *)
LEMMA ReachIsPrefix ==
    ASSUME NEW s \in Outputs, player \in PlayerType, prog \in Gen!Program,
           due[s] \in Seq(Sampled), gen_pos \in Nat, ad_pos \in Nat,
           HasReached(s), player[s] => StreamSound(s)
    PROVE  IsPrefix(sinks[s].got, due[s])
<1>1. PICK sound : sound = DueFor(s, prog)
  OBVIOUS
<1>2. sound \in Seq(Sampled)
  BY <1>1, DueTypes
<1>3. PICK n \in 0..Len(due[s]) :
         /\ due[s] = SubSeq(due[s], 1, n) \o sound
         /\ sinks[s].got = SubSeq(due[s], 1, n) \o SubSeq(sound, 1, Written(s))
  BY <1>1 DEF HasReached
<1>4. SubSeq(due[s], 1, n) \in Seq(Sampled)
  OBVIOUS
<1>5. Written(s) \in 0..Len(sound)
  <2>1. CASE player[s]
    <3>1. Stream(s).pos \in Nat
      BY DEF Stream
    <3>2. Stream(s).pos <= Len(sound) /\ (Waiting(s) => Stream(s).out.len \in 0..Stream(s).pos)
      BY <1>1, <2>1 DEF StreamSound
    <3> QED
      BY <1>2, <2>1, <3>1, <3>2 DEF Written
  <2>2. CASE ~player[s]
    BY <1>2, <2>2 DEF Written
  <2> QED
    BY <2>1, <2>2
<1> QED
  BY <1>2, <1>3, <1>4, <1>5, PrefixFacts

-----------------------------------------------------------------------------
(* The writes. *)

(* What a write step to output o does to the outputs: nothing to another   *)
(* one; and o has all of the buffer, or has failed; or it is not open.     *)
WriteTo(o) ==
    /\ UNCHANGED <<argVars, todo, player, genVars, run, status, due>>
    /\ \A s \in Outputs \ {o} : sinks'[s] = sinks[s]
    /\ sinks' \in [Outputs -> SinkType]
    /\ sinks'[o].lost = sinks[o].lost
    /\ IF player[o]
       THEN \/ sinks'[o].failed /\ error'
            \/ /\ sinks'[o].got = sinks[o].got \o ToWrite(o)
               /\ sinks'[o].failed = sinks[o].failed
       ELSE sinks' = sinks
    /\ error => error'
    /\ pc' = Following[pc]
    /\ \A s \in Outputs : Waiting(s)' => /\ Waiting(s) /\ s # o
                                         /\ ToWrite(s)' = ToWrite(s)
    /\ \A s \in Outputs \ {o} : Waiting(s)' = Waiting(s)
    /\ Waiting(o) /\ ~Waiting(o)'

LEMMA WriteProgress ==
    ASSUME PlayerInv, InRun, InRun', NEW o \in Outputs, WriteTo(o)
    PROVE  Progress' /\ Told'
<1>1. player \in PlayerType /\ prog \in Gen!Program /\ gen_pos \in Nat /\ ad_pos \in Nat
      /\ due \in [Outputs -> Seq(Sampled)] /\ sinks \in [Outputs -> SinkType]
  BY DEF PlayerInv, Types
<1>2. UNCHANGED <<player, flags, wav_path, genVars, run, due, status>>
  BY DEF WriteTo, argVars
<1>3. ASSUME NEW s \in Outputs, ~sinks'[s].failed
      PROVE  HasReached(s)' /\ (player'[s] => StreamSound(s)')
  <2>1. ~sinks[s].failed
    BY <1>3 DEF WriteTo
  <2>2. HasReached(s) /\ (player[s] => StreamSound(s))
    BY <2>1 DEF PlayerInv, Progress
  <2>3. player[s] => StreamSound(s)'
    <3>1. Waiting(s)' => Waiting(s) /\ ToWrite(s)' = ToWrite(s)
      BY DEF WriteTo
    <3> QED
      BY <1>2, <2>2, <3>1, StreamKept
  <2>4. CASE s = o /\ player[s]
    <3>1. sinks'[s].got = sinks[s].got \o ToWrite(s)
      BY <1>3, <2>4 DEF WriteTo
    <3>2. Waiting(s) /\ ~Waiting(s)'
      BY <2>4 DEF WriteTo
    <3>3. HasReached(s)'
      BY <1>1, <1>2, <2>2, <2>4, <3>1, <3>2, Writes
    <3> QED
      BY <1>2, <2>3, <3>3
  <2>5. CASE ~(s = o /\ player[s])
    <3>1. sinks'[s].got = sinks[s].got
      BY <2>5 DEF WriteTo
    <3>2. player[s] => Waiting(s)' = Waiting(s)
      BY <2>5 DEF WriteTo
    <3>3. HasReached(s)'
      BY <1>2, <2>2, <3>1, <3>2, ReachKept
    <3> QED
      BY <1>2, <2>3, <3>3
  <2> QED
    BY <2>4, <2>5
<1>4. ASSUME NEW s \in Outputs, sinks'[s].failed
      PROVE  ~status' \/ error'
  <2>1. CASE sinks[s].failed
    BY <1>2, <2>1 DEF PlayerInv, Told, WriteTo
  <2>2. CASE ~sinks[s].failed
    BY <1>4, <2>2 DEF WriteTo
  <2> QED
    BY <2>1, <2>2
<1> QED
  BY <1>3, <1>4 DEF Progress, Told

(* The samples that arrive. *)
LEMMA Arrives ==
    ASSUME sinks \in [Outputs -> SinkType], error \in BOOLEAN, fails \in 0..MaxFails,
           NEW o \in Outputs, NEW samples \in Seq(Sampled),
           NEW n \in -1..Len(samples), Arrive(o, samples, n)
    PROVE  /\ sinks' \in [Outputs -> SinkType]
           /\ \A s \in Outputs \ {o} : sinks'[s] = sinks[s]
           /\ sinks'[o].lost = sinks[o].lost
           /\ \/ sinks'[o].failed /\ error'
              \/ /\ sinks'[o].got = sinks[o].got \o samples
                 /\ sinks'[o].failed = sinks[o].failed
           /\ n \in Nat => Len(sinks'[o].got) = Len(sinks[o].got) + n
           /\ error => error'
           /\ error' \in BOOLEAN
           /\ fails' \in 0..MaxFails
<1>1. PICK ok \in BOOLEAN : ok = (n = Len(samples))
  OBVIOUS
<1>2. PICK part : part = SubSeq(samples, 1, n)
  OBVIOUS
<1>3. part \in Seq(Sampled) /\ (n \in Nat => Len(part) = n) /\ (ok => part = samples)
  <2>1. part \in Seq(Sampled)
    BY <1>2
  <2>2. n \in Nat => Len(part) = n
    BY <1>2
  <2>3. SubSeq(samples, 1, Len(samples)) = samples
    BY SubSeqFull
  <2>4. ok => part = samples
    BY <1>1, <1>2, <2>3, Zenon
  <2> QED
    BY <2>1, <2>2, <2>4
<1>4. PICK sink \in SinkType : sink = sinks[o]
  OBVIOUS
<1>5. sinks' = [sinks EXCEPT ![o] = [sink EXCEPT !.got = sink.got \o part,
                                                !.failed = sink.failed \/ ~ok]]
  BY <1>1, <1>2, <1>4 DEF Arrive
<1>6. sink.got \o part \in Seq(Sampled)
      /\ (n \in Nat => Len(sink.got \o part) = Len(sink.got) + n)
  <2>1. sink.got \in Seq(Sampled)
    BY <1>4 DEF SinkType
  <2>2. sink.got \o part \in Seq(Sampled) /\ Len(sink.got \o part) = Len(sink.got) + Len(part)
    BY <1>3, <2>1, ConcatProperties
  <2> QED
    BY <1>3, <2>2
<1>7. PICK new : new = [sink EXCEPT !.got = sink.got \o part, !.failed = sink.failed \/ ~ok]
  OBVIOUS
<1>8. /\ new \in SinkType
      /\ new.got = sink.got \o part /\ new.lost = sink.lost
      /\ new.failed = (sink.failed \/ ~ok)
  BY <1>4, <1>6, <1>7 DEF SinkType
<1>9. sinks' = [sinks EXCEPT ![o] = new]
  BY <1>5, <1>7
<1>10. /\ sinks' \in [Outputs -> SinkType]
       /\ sinks'[o] = new
       /\ \A s \in Outputs \ {o} : sinks'[s] = sinks[s]
  BY <1>8, <1>9
<1>11. error' = (error \/ ~ok) /\ fails' \in 0..MaxFails
  <2>1. error' = (error \/ ~ok) /\ (IF ok THEN UNCHANGED fails ELSE MayFail)
    BY <1>1, Zenon DEF Arrive
  <2>2. fails' \in 0..MaxFails
    BY <2>1, PlayerAssumption DEF MayFail
  <2> QED
    BY <2>1, <2>2
<1>12. CASE ok
  BY <1>3, <1>4, <1>6, <1>8, <1>10, <1>11, <1>12 DEF SinkType
<1>13. CASE ~ok
  BY <1>4, <1>6, <1>8, <1>10, <1>11, <1>13 DEF SinkType
<1> QED
  BY <1>12, <1>13

LEMMA WriteDevKeeps ==
    ASSUME PlayerInv, WriteDev
    PROVE  PlayerInv'
<1>1. Types /\ pc = "write_dev" /\ pc' = "write_raw"
      /\ InRun /\ InRun' /\ ~AtEnd /\ ~AtEnd'
  BY DEF PlayerInv, WriteDev, Following, InRun, AtEnd
<1>2. DevSamples \in Seq(Sampled)
  BY <1>1 DEF Types
<1>3. PICK written \in -1..Len(DevSamples) : Arrive("dev", DevSamples, written)
  BY DEF WriteDev
<1>4. /\ sinks' \in [Outputs -> SinkType]
      /\ \A s \in Outputs \ {"dev"} : sinks'[s] = sinks[s]
      /\ sinks'["dev"].lost = sinks["dev"].lost
      /\ \/ sinks'["dev"].failed /\ error'
         \/ /\ sinks'["dev"].got = sinks["dev"].got \o DevSamples
            /\ sinks'["dev"].failed = sinks["dev"].failed
      /\ error => error'
      /\ error' \in BOOLEAN
      /\ fails' \in 0..MaxFails
  BY <1>1, <1>2, <1>3, Arrives DEF Types, Outputs
<1>5. UNCHANGED <<argVars, todo, player, genVars, buf, run, status, file, due>>
  BY DEF WriteDev
<1>6. WriteTo("dev")
  <2>1. \A s \in Outputs : Waiting(s) /\ (Waiting(s)' <=> s # "dev")
    BY <1>1 DEF Waiting, Outputs
  <2>2. \A s \in Outputs : s # "dev" => ToWrite(s)' = ToWrite(s)
    BY <1>5 DEF ToWrite, IsAU, HasFile, SwapAll, argVars
  <2>3. player["dev"] /\ pc' = Following[pc] /\ "dev" \in Outputs
    BY DEF WriteDev, Following, Outputs
  <2>4. ToWrite("dev") = DevSamples
    BY DEF ToWrite
  <2>5. \A s \in Outputs \ {"dev"} : Waiting(s)' = Waiting(s)
    BY <1>1 DEF Waiting, Outputs
  <2> QED
    BY <1>4, <1>5, <2>1, <2>2, <2>3, <2>4, <2>5 DEF WriteTo
<1>7. Progress' /\ Told'
  BY <1>1, <1>6, WriteProgress DEF Outputs
<1>8. Types'
  BY <1>1, <1>4, <1>5 DEF Types, InRun, Following, genVars
<1>9. Options' /\ Setup'
  BY <1>1, <1>5, OptionsKept DEF PlayerInv, Setup, argVars
<1>10. Counted'
  BY <1>1, <1>4, <1>5 DEF PlayerInv, Counted, Outputs
<1> QED
  BY <1>7, <1>8, <1>9, <1>10 DEF PlayerInv

LEMMA WriteRawKeeps ==
    ASSUME PlayerInv, WriteRaw
    PROVE  PlayerInv'
<1>1. Types /\ pc = "write_raw" /\ pc' = "write_file"
      /\ InRun /\ InRun' /\ ~AtEnd /\ ~AtEnd'
  BY DEF PlayerInv, WriteRaw, Following, InRun, AtEnd
<1>2. buf \in Seq(Sampled)
  BY <1>1 DEF Types
<1>3. PICK written \in 0..Len(buf) : Arrive("raw", buf, written)
  BY DEF WriteRaw
<1>4. /\ sinks' \in [Outputs -> SinkType]
      /\ \A s \in Outputs \ {"raw"} : sinks'[s] = sinks[s]
      /\ sinks'["raw"].lost = sinks["raw"].lost
      /\ \/ sinks'["raw"].failed /\ error'
         \/ /\ sinks'["raw"].got = sinks["raw"].got \o buf
            /\ sinks'["raw"].failed = sinks["raw"].failed
      /\ error => error'
      /\ error' \in BOOLEAN
      /\ fails' \in 0..MaxFails
  <2>1. written \in -1..Len(buf)
    BY <1>2
  <2> QED
    BY <1>1, <1>2, <1>3, <2>1, Arrives DEF Types, Outputs
<1>5. UNCHANGED <<argVars, todo, player, genVars, buf, run, status, file, due>>
  BY DEF WriteRaw
<1>6. WriteTo("raw")
  <2>1. \A s \in Outputs : /\ Waiting(s) <=> s # "dev"
                           /\ Waiting(s)' <=> s = "file"
    BY <1>1 DEF Waiting, Outputs
  <2>2. \A s \in Outputs : s # "dev" => ToWrite(s)' = ToWrite(s)
    BY <1>5 DEF ToWrite, IsAU, HasFile, SwapAll, argVars
  <2>3. player["raw"] /\ pc' = Following[pc] /\ "raw" \in Outputs
    BY DEF WriteRaw, Following, Outputs
  <2>4. ToWrite("raw") = buf
    BY DEF ToWrite
  <2>5. \A s \in Outputs \ {"raw"} : Waiting(s)' = Waiting(s)
    BY <1>1 DEF Waiting, Outputs
  <2> QED
    BY <1>4, <1>5, <2>1, <2>2, <2>3, <2>4, <2>5 DEF WriteTo
<1>7. Progress' /\ Told'
  BY <1>1, <1>6, WriteProgress DEF Outputs
<1>8. Types'
  BY <1>1, <1>4, <1>5 DEF Types, InRun, Following, genVars
<1>9. Options' /\ Setup'
  BY <1>1, <1>5, OptionsKept DEF PlayerInv, Setup, argVars
<1>10. Counted'
  BY <1>1, <1>4, <1>5 DEF PlayerInv, Counted, Outputs
<1> QED
  BY <1>7, <1>8, <1>9, <1>10 DEF PlayerInv

LEMMA WriteFileKeeps ==
    ASSUME PlayerInv, WriteFile
    PROVE  PlayerInv'
<1>1. Types /\ pc = "write_file" /\ pc' = "loop"
      /\ InRun /\ InRun' /\ ~AtEnd /\ ~AtEnd'
  BY DEF PlayerInv, WriteFile, Following, InRun, AtEnd
<1>2. /\ buf' = ToWrite("file")
      /\ buf' \in Seq(Sampled) /\ Len(buf') = Len(buf) /\ Len(buf) \in Nat
  <2>1. buf \in Seq(Sampled)
    BY <1>1 DEF Types
  <2>2. SwapAll(buf) \in Seq(Sampled) /\ Len(SwapAll(buf)) = Len(buf)
    BY <2>1, SwapFacts
  <2>3. buf' = IF IsAU THEN SwapAll(buf) ELSE buf
    BY DEF WriteFile
  <2> QED
    BY <2>1, <2>2, <2>3 DEF ToWrite
<1>3. PICK written \in 0..Len(buf) :
         /\ Arrive("file", buf', written)
         /\ file' = [file EXCEPT !.samples = @ + written]
  BY DEF WriteFile
<1>4. /\ sinks' \in [Outputs -> SinkType]
      /\ \A s \in Outputs \ {"file"} : sinks'[s] = sinks[s]
      /\ sinks'["file"].lost = sinks["file"].lost
      /\ \/ sinks'["file"].failed /\ error'
         \/ /\ sinks'["file"].got = sinks["file"].got \o buf'
            /\ sinks'["file"].failed = sinks["file"].failed
      /\ Len(sinks'["file"].got) = Len(sinks["file"].got) + written
      /\ error => error'
      /\ error' \in BOOLEAN
      /\ fails' \in 0..MaxFails
  <2>1. PICK samples \in Seq(Sampled) : samples = buf'
    BY <1>2
  <2>2. written \in -1..Len(samples) /\ written \in Nat /\ Arrive("file", samples, written)
    BY <1>2, <1>3, <2>1
  <2> QED
    BY <1>1, <2>1, <2>2, Arrives DEF Types, Outputs
<1>5. UNCHANGED <<argVars, todo, player, genVars, run, status, due>>
  BY DEF WriteFile
<1>6. WriteTo("file")
  <2>1. \A s \in Outputs : Waiting(s) <=> s = "file"
    BY <1>1 DEF Waiting, Outputs
  <2>2. \A s \in Outputs : ~Waiting(s)'
    BY <1>1 DEF Waiting
  <2>3. player["file"] /\ pc' = Following[pc] /\ "file" \in Outputs
    BY DEF WriteFile, Following, Outputs
  <2>4. \A s \in Outputs \ {"file"} : Waiting(s)' = Waiting(s)
    BY <1>1 DEF Waiting, Outputs
  <2> QED
    BY <1>2, <1>4, <1>5, <2>1, <2>2, <2>3, <2>4 DEF WriteTo
<1>7. Progress' /\ Told'
  BY <1>1, <1>6, WriteProgress DEF Outputs
<1>8. file' \in [samples : Nat, size : 0..(SizeWrap - 1)]
      /\ file'.size = file.size /\ file'.samples = file.samples + written
  <2>1. PICK f \in [samples : Nat, size : 0..(SizeWrap - 1)] : f = file
    BY <1>1 DEF Types
  <2>2. PICK n \in Nat : n = f.samples + written
    BY <1>2, <2>1
  <2>3. file' = [f EXCEPT !.samples = n]
    BY <1>3, <2>1, <2>2
  <2> QED
    BY <2>1, <2>2, <2>3
<1>9. Types'
  BY <1>1, <1>2, <1>4, <1>5, <1>8 DEF Types, InRun, Following, genVars
<1>10. Options' /\ Setup'
  BY <1>1, <1>5, OptionsKept DEF PlayerInv, Setup, argVars
<1>11. Counted'
  <2>1. player.file
    BY DEF WriteFile
  <2> QED
    BY <1>1, <1>4, <1>5, <1>8, <2>1 DEF PlayerInv, Counted
<1> QED
  BY <1>7, <1>9, <1>10, <1>11 DEF PlayerInv

LEMMA NoWriteKeeps ==
    ASSUME PlayerInv, NoWrite
    PROVE  PlayerInv'
<1>1. UNCHANGED <<argVars, todo, player, genVars, buf, run, error, status, outVars, fails>>
  BY DEF NoWrite
<1>2. PICK o \in Outputs : /\ ~player[o] /\ Waiting(o) /\ ~Waiting(o)'
                           /\ \A s \in Outputs \ {o} : Waiting(s)' = Waiting(s)
  <2>1. CASE pc = "write_dev" /\ ~player.dev
    <3>1. pc' = "write_raw"
      BY <2>1 DEF NoWrite, Following
    <3> QED
      BY <2>1, <3>1 DEF Waiting, Outputs
  <2>2. CASE pc = "write_raw" /\ ~player.raw
    <3>1. pc' = "write_file"
      BY <2>2 DEF NoWrite, Following
    <3> QED
      BY <2>2, <3>1 DEF Waiting, Outputs
  <2>3. CASE pc = "write_file" /\ ~player.file
    <3>1. pc' = "loop"
      BY <2>3 DEF NoWrite, Following
    <3> QED
      BY <2>3, <3>1 DEF Waiting, Outputs
  <2> QED
    BY <2>1, <2>2, <2>3 DEF NoWrite
<1>3. Types /\ InRun /\ InRun' /\ ~AtEnd /\ ~AtEnd' /\ pc' = Following[pc]
      /\ pc' # "write_dev"
  BY DEF PlayerInv, NoWrite, Following, InRun, AtEnd
<1>4. WriteTo(o)
  <2>1. \A s \in Outputs : ToWrite(s)' = ToWrite(s)
    BY <1>1 DEF ToWrite, DevSamples, IsAU, HasFile, SwapAll, Delivered, argVars, genVars
  <2> QED
    BY <1>1, <1>2, <1>3, <2>1 DEF WriteTo, Types, outVars
<1>5. Progress' /\ Told'
  BY <1>3, <1>4, WriteProgress
<1>6. Types'
  BY <1>1, <1>3 DEF Types, InRun, Following, genVars, outVars
<1>7. Options' /\ Setup'
  BY <1>1, <1>3, OptionsKept DEF PlayerInv, Setup, argVars, outVars, InRun, Following
<1>8. Counted'
  BY <1>1, <1>3 DEF PlayerInv, Counted, outVars
<1> QED
  BY <1>5, <1>6, <1>7, <1>8 DEF PlayerInv

LEMMA UnderrunKeeps ==
    ASSUME PlayerInv, Underrun
    PROVE  PlayerInv'
<1>1. /\ UNCHANGED <<pc, argVars, todo, player, genVars, buf, run, error, status, outVars>>
      /\ InRun /\ InRun' /\ ~AtEnd /\ ~AtEnd'
      /\ fails' \in 0..MaxFails
  BY PlayerAssumption
     DEF Underrun, MayFail, InRun, AtEnd, Following, PlayerInv, Types
<1>2. \A s \in Outputs : Waiting(s)' = Waiting(s) /\ ToWrite(s)' = ToWrite(s)
  BY <1>1 DEF Waiting, ToWrite, DevSamples, IsAU, HasFile, SwapAll, Delivered,
              argVars, genVars
<1>3. Progress'
  <2>1. ASSUME NEW s \in Outputs, ~sinks'[s].failed
        PROVE  HasReached(s)' /\ (player'[s] => StreamSound(s)')
    <3>1. HasReached(s) /\ (player[s] => StreamSound(s))
      BY <1>1, <2>1 DEF PlayerInv, Progress, outVars
    <3>2. HasReached(s)'
      BY <1>1, <1>2, <3>1, ReachKept DEF argVars, outVars
    <3>3. player[s] => StreamSound(s)'
      BY <1>1, <1>2, <3>1, StreamKept DEF argVars
    <3> QED
      BY <1>1, <3>2, <3>3
  <2> QED
    BY <1>1, <2>1 DEF Progress
<1>4. Types'
  BY <1>1 DEF PlayerInv, Types, InRun, DevSamples, Delivered, genVars, outVars
<1>5. Options' /\ Setup' /\ Told' /\ Counted'
  BY <1>1, OptionsKept DEF PlayerInv, Setup, Told, Counted, argVars, outVars
<1> QED
  BY <1>3, <1>4, <1>5 DEF PlayerInv

-----------------------------------------------------------------------------
(* The start and the end of a program. *)

(* Before its program an output has all that was due to it; now it is due  *)
(* the sound of the program, and has none of that.                         *)
LEMMA Begun ==
    ASSUME NEW s \in Outputs, NEW p \in Gen!Program, player' \in PlayerType,
           due[s] \in Seq(Sampled), sinks[s].got = due[s],
           due'[s] = due[s] \o DueFor(s, p), sinks'[s].got = sinks[s].got,
           DueFor(s, prog)' = DueFor(s, p), DueFor(s, p) \in Seq(Sampled),
           Written(s)' = 0
    PROVE  HasReached(s)'
<1>1. PICK before, sound \in Seq(Sampled) : before = due[s] /\ sound = DueFor(s, p)
  OBVIOUS
<1>2. PICK after : after = before \o sound
  OBVIOUS
<1>3. /\ after \in Seq(Sampled) /\ Len(after) = Len(before) + Len(sound)
      /\ SubSeq(after, 1, Len(before)) = before
  <2>1. after \in Seq(Sampled) /\ Len(after) = Len(before) + Len(sound)
        /\ \A x \in 1..Len(before) : after[x] = before[x]
    <3>1. Len(before) \in Nat /\ Len(sound) \in Nat
      OBVIOUS
    <3>2. /\ after \in Seq(Sampled) /\ Len(after) = Len(before) + Len(sound)
          /\ \A x \in 1..Len(before) + Len(sound) :
                after[x] = IF x <= Len(before) THEN before[x] ELSE sound[x - Len(before)]
      BY <1>2, ConcatProperties
    <3> QED
      BY <3>1, <3>2
  <2>2. /\ SubSeq(after, 1, Len(before)) \in Seq(Sampled)
        /\ Len(SubSeq(after, 1, Len(before))) = Len(before)
        /\ \A x \in 1..Len(before) : SubSeq(after, 1, Len(before))[x] = after[x]
    BY <2>1
  <2> QED
    BY <2>1, <2>2, SeqEqual
<1>4. SubSeq(sound, 1, 0) = <<>> /\ before \o <<>> = before
  BY SubSeqEmpty, ConcatEmptySeq
<1>5. Len(before) \in 0..Len(after)
  BY <1>3
<1>6. due'[s] = after /\ sinks'[s].got = before /\ DueFor(s, prog)' = sound
  BY <1>1, <1>2
<1>7. /\ due'[s] = SubSeq(due'[s], 1, Len(before)) \o sound
      /\ sinks'[s].got = SubSeq(due'[s], 1, Len(before)) \o SubSeq(sound, 1, 0)
  BY <1>2, <1>3, <1>4, <1>6
<1> QED
  BY <1>5, <1>6, <1>7 DEF HasReached

(* What CreateGenerators and CreateFails have in common. *)
LEMMA BeginFacts ==
    ASSUME PlayerInv, CreateGenerators \/ CreateFails
    PROVE  /\ prog' \in Gen!Program /\ todo # <<>>
           /\ due' \in [Outputs -> Seq(Sampled)]
           /\ \A s \in Outputs :
                 ~sinks'[s].failed /\ Written(s)' = 0 => HasReached(s)'
           /\ \A s \in Outputs : ~Waiting(s)'
<1>1. Types /\ pc = "play" /\ pc' = "loop" /\ todo # <<>> /\ ~InRun /\ ~AtEnd
      /\ UNCHANGED <<player, flags, wav_path>>
  BY DEF PlayerInv, CreateGenerators, CreateFails, InRun, AtEnd, Following, argVars
<1>2. PICK p : p = prog'
  OBVIOUS
<1>3. p \in Gen!Program
  <2>1. Head(todo) \in Gen!Program \union {NoProgram}
    BY <1>1 DEF Types
  <2> QED
    BY <1>2, <2>1 DEF CreateGenerators, CreateFails
<1>4. due' = [s \in Outputs |-> due[s] \o DueFor(s, p)]
  BY <1>2 DEF CreateGenerators, CreateFails, DueAfter
<1>5. player \in PlayerType /\ due \in [Outputs -> Seq(Sampled)]
  BY <1>1 DEF Types
<1>6. \A s \in Outputs : DueFor(s, p) \in Seq(Sampled)
  BY <1>3, <1>5, DueTypes
<1>7. due' \in [Outputs -> Seq(Sampled)]
  BY <1>4, <1>5, <1>6
<1>8. ASSUME NEW s \in Outputs, ~sinks'[s].failed, Written(s)' = 0
      PROVE  HasReached(s)'
  <2>1. ~sinks[s].failed /\ sinks'[s].got = sinks[s].got
    BY <1>1, <1>8 DEF CreateGenerators, CreateFails, Types, SinkType
  <2>2. sinks[s].got = due[s]
    BY <1>1, <2>1 DEF PlayerInv, Progress
  <2>3. DueFor(s, prog)' = DueFor(s, p)
    BY <1>1, <1>2, DueNext
  <2>4. player' \in PlayerType /\ due[s] \in Seq(Sampled)
        /\ due'[s] = due[s] \o DueFor(s, p)
    BY <1>1, <1>4, <1>5
  <2> QED
    BY <1>3, <1>6, <1>8, <2>1, <2>2, <2>3, <2>4, Begun
<1>9. \A s \in Outputs : ~Waiting(s)'
  BY <1>1 DEF Waiting
<1> QED
  BY <1>1, <1>2, <1>3, <1>7, <1>8, <1>9

LEMMA CreateGeneratorsKeeps ==
    ASSUME PlayerInv, CreateGenerators
    PROVE  PlayerInv'
<1>1. /\ prog' \in Gen!Program /\ todo # <<>>
      /\ due' \in [Outputs -> Seq(Sampled)]
      /\ \A s \in Outputs : ~sinks'[s].failed /\ Written(s)' = 0 => HasReached(s)'
      /\ \A s \in Outputs : ~Waiting(s)'
  BY BeginFacts
<1>2. Types /\ pc = "play" /\ pc' = "loop" /\ ~InRun /\ InRun' /\ ~AtEnd /\ ~AtEnd'
      /\ UNCHANGED <<argVars, todo, player, buf, status, sinks, file, fails>>
  BY DEF PlayerInv, CreateGenerators, InRun, AtEnd, Following
<1>3. gen_pos' = 0 /\ gen_out' = Gen!NoDelivery /\ ad_pos' = 0 /\ ad_out' = Gen!NoDelivery
      /\ run' = ("check" \notin flags) /\ error' = FALSE
  BY DEF CreateGenerators
<1>4. Types'
  BY <1>1, <1>2, <1>3 DEF Types, InRun
<1>5. Options' /\ Setup'
  BY <1>2, OptionsKept DEF PlayerInv, Setup, argVars
<1>6. Told' /\ Counted'
  BY <1>2 DEF PlayerInv, Told, Counted
<1>7. ASSUME NEW s \in Outputs, ~sinks'[s].failed
      PROVE  HasReached(s)' /\ (player'[s] => StreamSound(s)')
  <2>1. Stream(s)'.pos = 0 /\ Stream(s)'.out.more
    BY <1>3 DEF Stream, Gen!NoDelivery
  <2>2. Written(s)' = 0
    BY <1>1, <2>1 DEF Written
  <2>3. player'[s] => run'
    BY <1>2, <1>3 DEF PlayerInv, Setup
  <2>4. DueFor(s, prog)' \in Seq(Sampled)
    <3>1. PICK p \in Gen!Program : p = prog'
      BY <1>1
    <3>2. DueFor(s, prog)' = DueFor(s, p)
      BY <1>2, <3>1, DueNext DEF argVars
    <3>3. player \in PlayerType
      BY <1>2 DEF Types
    <3> QED
      BY <3>2, <3>3, DueTypes
  <2>5. 0 <= Len(DueFor(s, prog)')
    BY <2>4
  <2> QED
    BY <1>1, <1>7, <2>1, <2>2, <2>3, <2>5 DEF StreamSound
<1>8. Progress'
  BY <1>2, <1>7 DEF Progress
<1> QED
  BY <1>4, <1>5, <1>6, <1>8 DEF PlayerInv

LEMMA CreateFailsKeeps ==
    ASSUME PlayerInv, CreateFails
    PROVE  PlayerInv'
<1>1. /\ prog' \in Gen!Program /\ todo # <<>>
      /\ due' \in [Outputs -> Seq(Sampled)]
      /\ \A s \in Outputs : ~sinks'[s].failed /\ Written(s)' = 0 => HasReached(s)'
      /\ \A s \in Outputs : ~Waiting(s)'
  BY BeginFacts
<1>2. Types /\ pc = "play" /\ pc' = "loop" /\ ~InRun /\ InRun' /\ ~AtEnd /\ ~AtEnd'
      /\ UNCHANGED <<argVars, todo, player, gen_pos, gen_out, ad_pos, ad_out, buf,
                     status, file>>
  BY DEF PlayerInv, CreateFails, InRun, AtEnd, Following
<1>3. sinks' = [s \in Outputs |-> [sinks[s] EXCEPT !.failed = sinks[s].failed \/ player[s]]]
      /\ run' = FALSE /\ error' = TRUE
  BY DEF CreateFails
<1>4. ASSUME NEW s \in Outputs
      PROVE  /\ sinks'[s] \in SinkType
             /\ sinks'[s].failed = (sinks[s].failed \/ player[s])
             /\ sinks'[s].got = sinks[s].got /\ sinks'[s].lost = sinks[s].lost
  <2>1. PICK sink \in SinkType : sink = sinks[s]
    BY <1>2 DEF Types
  <2>2. sink.failed \in BOOLEAN /\ player[s] \in BOOLEAN
    BY <1>2, <2>1 DEF Types, SinkType, PlayerType, Outputs
  <2>3. sinks'[s] = [sink EXCEPT !.failed = sink.failed \/ player[s]]
    BY <1>3, <2>1
  <2> QED
    BY <2>1, <2>2, <2>3 DEF SinkType
<1>5. sinks' \in [Outputs -> SinkType]
  BY <1>3, <1>4
<1>6. fails' \in 0..MaxFails
  BY <1>2, PlayerAssumption DEF CreateFails, MayFail, Types
<1>7. Types'
  BY <1>1, <1>2, <1>3, <1>5, <1>6 DEF Types, InRun, Following
<1>8. Options' /\ Setup'
  BY <1>2, OptionsKept DEF PlayerInv, Setup, argVars
<1>9. Told' /\ Counted'
  BY <1>2, <1>3, <1>4 DEF PlayerInv, Told, Counted, Outputs
<1>10. ASSUME NEW s \in Outputs, ~sinks'[s].failed
       PROVE  HasReached(s)' /\ ~player'[s]
  <2>1. ~player'[s]
    BY <1>2, <1>4, <1>10
  <2>2. Written(s)' = 0
    BY <2>1 DEF Written
  <2> QED
    BY <1>1, <1>10, <2>1, <2>2
<1>11. Progress'
  BY <1>2, <1>10 DEF Progress
<1> QED
  BY <1>7, <1>8, <1>9, <1>11 DEF PlayerInv

LEMMA EndRunKeeps ==
    ASSUME PlayerInv, EndRun
    PROVE  PlayerInv'
<1>1. Types /\ pc = "loop" /\ ~run /\ pc' = "play" /\ InRun /\ ~InRun' /\ ~AtEnd /\ ~AtEnd'
      /\ UNCHANGED <<argVars, player, genVars, buf, run, error, outVars, fails>>
      /\ status' = (status /\ ~error)
  BY DEF PlayerInv, EndRun, StatusWith, InRun, AtEnd, Following
<1>2. Progress'
  <2>1. ASSUME NEW s \in Outputs, ~sinks[s].failed PROVE sinks[s].got = due[s]
    BY <1>1, <2>1, AllGiven DEF PlayerInv, Progress, Types
  <2> QED
    BY <1>1, <2>1 DEF Progress, outVars
<1>3. Types'
  <2>1. todo' \in Seq(Gen!Program \union {NoProgram})
    BY <1>1 DEF EndRun, Types, InRun
  <2>2. status' \in BOOLEAN
    BY <1>1 DEF Types
  <2> QED
    BY <1>1, <2>1, <2>2 DEF Types, genVars, outVars
<1>4. Options' /\ Setup' /\ Told' /\ Counted'
  BY <1>1, OptionsKept DEF PlayerInv, Setup, Told, Counted, argVars, outVars
<1> QED
  BY <1>2, <1>3, <1>4 DEF PlayerInv

-----------------------------------------------------------------------------
(* A round of the generators. *)

(* Sound as output s has it, in its byte order. *)
AsFor(s, sound) == IF s = "file" /\ IsAU THEN SwapAll(sound) ELSE sound

(* Each open output has a stream at some rate, which its sound is the      *)
(* sound at; the stream moves on, and what it delivers is to be written.   *)
StreamMoves(s, p) ==
    \E rate \in Rates :
        /\ DueFor(s, p) = AsFor(s, SoundAt(p, rate))
        /\ Moves(p, rate, Stream(s).pos, Stream(s)'.out, Stream(s)'.pos)
        /\ ToWrite(s)' = AsFor(s, Delivered(Stream(s)'.out))

LEMMA EachMoves ==
    ASSUME PlayerInv, Generate, NEW p, p = prog
    PROVE  /\ UNCHANGED <<argVars, todo, player, prog, error, status, outVars, fails>>
           /\ Moves(p, player.srate, gen_pos, gen_out', gen_pos')
           /\ player.split_gen => Moves(p, DevRate, ad_pos, ad_out', ad_pos')
           /\ ~player.split_gen => UNCHANGED <<ad_pos, ad_out>>
           /\ buf' = Delivered(gen_out)'
           /\ \A s \in Outputs : player[s] => StreamMoves(s, p)
<1>1. /\ UNCHANGED <<argVars, todo, player, error, status, outVars, fails>>
      /\ pc = "loop" /\ pc' = "write_dev"
      /\ buf' = Delivered(gen_out)'
  BY DEF Generate, Following, Delivered
<1>2. Types /\ Setup
  BY DEF PlayerInv
<1>3. player.srate \in {Rate, DevRate} /\ player.dev_rate \in {Rate, DevRate}
  BY <1>2 DEF Types, PlayerType
<1>4. Moves(p, player.srate, gen_pos, gen_out', gen_pos') /\ prog' = prog
  <2>1. CASE player.srate = Rate
    <3>1. Gen!Deliver
      BY <2>1 DEF Generate
    <3> QED
      BY <2>1, <3>1, GenDelivers
  <2>2. CASE player.srate # Rate
    <3>1. DevGen!Deliver
      BY <2>2 DEF Generate
    <3> QED
      BY <1>3, <2>2, <3>1, DevGenDelivers
  <2> QED
    BY <2>1, <2>2
<1>5. player.split_gen => Moves(p, DevRate, ad_pos, ad_out', ad_pos')
  <2>1. player.split_gen => AdGen!Deliver
    BY DEF Generate
  <2> QED
    BY <2>1, AdGenDelivers
<1>6. ~player.split_gen => UNCHANGED <<ad_pos, ad_out>>
  BY DEF Generate
<1>7. ASSUME NEW s \in Outputs, player[s] PROVE StreamMoves(s, p)
  <2>1. CASE s = "dev" /\ player.split_gen
    <3>1. DueFor(s, p) = AsFor(s, SoundAt(p, DevRate))
      BY <1>2, <1>7, <2>1 DEF DueFor, AsFor, Setup
    <3>2. Stream(s).pos = ad_pos /\ Stream(s)'.pos = ad_pos' /\ Stream(s)'.out = ad_out'
      BY <1>1, <2>1 DEF Stream
    <3>3. ToWrite(s)' = AsFor(s, Delivered(Stream(s)'.out))
      BY <1>1, <2>1, <3>2 DEF ToWrite, DevSamples, AsFor, Delivered
    <3> QED
      BY <1>5, <2>1, <3>1, <3>2, <3>3 DEF StreamMoves, Rates
  <2>2. CASE ~(s = "dev" /\ player.split_gen)
    <3>1. DueFor(s, p) = AsFor(s, SoundAt(p, player.srate))
      BY <1>2, <1>7, <2>2 DEF DueFor, AsFor, Setup, Outputs
    <3>2. Stream(s).pos = gen_pos /\ Stream(s)'.pos = gen_pos' /\ Stream(s)'.out = gen_out'
      BY <1>1, <2>2 DEF Stream
    <3>3. ToWrite(s)' = AsFor(s, Delivered(Stream(s)'.out))
      BY <1>1, <2>2, <3>2
         DEF ToWrite, DevSamples, AsFor, Delivered, IsAU, HasFile, SwapAll, argVars
    <3> QED
      BY <1>3, <1>4, <3>1, <3>2, <3>3 DEF StreamMoves, Rates
  <2> QED
    BY <2>1, <2>2
<1> QED
  BY <1>1, <1>4, <1>5, <1>6, <1>7

LEMMA AsForFacts ==
    ASSUME NEW s, NEW sound \in Seq(Sampled), NEW m \in Nat \ {0}, NEW n \in 0..Len(sound),
           m <= n + 1
    PROVE  /\ Len(AsFor(s, sound)) = Len(sound)
           /\ AsFor(s, SubSeq(sound, m, n)) = SubSeq(AsFor(s, sound), m, n)
  BY SwapFacts, SwapPart DEF AsFor

(* The samples to write are the next part of the sound. *)
LEMMA NextToWrite ==
    ASSUME NEW s \in Outputs, NEW p \in Gen!Program, StreamMoves(s, p),
           Stream(s).pos \in Nat, Stream(s).pos <= Len(DueFor(s, p))
    PROVE  LET to == Stream(s)'.pos
               d == Stream(s)'.out
           IN  /\ to \in Nat /\ to <= Len(DueFor(s, p))
               /\ d.len \in 0..to /\ to - d.len = Stream(s).pos
               /\ ~d.more => to = Len(DueFor(s, p))
               /\ ToWrite(s)' = SubSeq(DueFor(s, p), to - d.len + 1, to)
<1>1. PICK rate \in Rates :
         /\ DueFor(s, p) = AsFor(s, SoundAt(p, rate))
         /\ Moves(p, rate, Stream(s).pos, Stream(s)'.out, Stream(s)'.pos)
         /\ ToWrite(s)' = AsFor(s, Delivered(Stream(s)'.out))
  BY DEF StreamMoves
<1>2. PICK from \in Nat : from = Stream(s).pos
  OBVIOUS
<1>3. PICK d, to : d = Stream(s)'.out /\ to = Stream(s)'.pos
  OBVIOUS
<1>4. PICK sound : sound = SoundAt(p, rate)
  OBVIOUS
<1>5. sound \in Seq(Sampled)
  BY <1>4, SoundTypes
<1>6. Moves(p, rate, from, d, to)
  BY <1>1, <1>2, <1>3
<1>7. Len(DueFor(s, p)) = Len(sound)
  <2>1. 0 \in 0..Len(sound) /\ 1 \in Nat \ {0} /\ 1 <= 0 + 1
    BY <1>5
  <2> QED
    BY <1>1, <1>4, <1>5, <2>1, AsForFacts
<1>8. /\ d.len = to - from /\ to \in Nat /\ d.len \in 0..LenAt(rate)
      /\ NextPart(sound, from, d, to)
  <2>1. from <= Len(SoundAt(p, rate))
    BY <1>2, <1>4, <1>7
  <2> QED
    BY <1>4, <1>6, <2>1, DeliveryFacts
<1>9. to <= Len(sound) /\ from <= to /\ (~d.more => to = Len(sound))
      /\ Delivered(d) = SubSeq(sound, from + 1, to)
  <2>1. LenAt(rate) \in Nat
    BY BufferLength
  <2> QED
    BY <1>8, <2>1 DEF NextPart
<1>10. AsFor(s, SubSeq(sound, from + 1, to)) = SubSeq(AsFor(s, sound), from + 1, to)
  <2>1. from + 1 \in Nat \ {0} /\ to \in 0..Len(sound) /\ from + 1 <= to + 1
    BY <1>5, <1>8, <1>9
  <2> QED
    BY <1>5, <2>1, AsForFacts
<1>11. ToWrite(s)' = SubSeq(DueFor(s, p), from + 1, to)
  BY <1>1, <1>3, <1>4, <1>9, <1>10
<1>12. d.len \in 0..to /\ to - d.len = from
  BY <1>8, <1>9
<1> QED
  BY <1>2, <1>3, <1>7, <1>8, <1>9, <1>11, <1>12

LEMMA GenerateKeeps ==
    ASSUME PlayerInv, Generate
    PROVE  PlayerInv'
<1>1. PICK p : p = prog
  OBVIOUS
<1>2. /\ UNCHANGED <<argVars, todo, player, prog, error, status, outVars, fails>>
      /\ Moves(p, player.srate, gen_pos, gen_out', gen_pos')
      /\ player.split_gen => Moves(p, DevRate, ad_pos, ad_out', ad_pos')
      /\ ~player.split_gen => UNCHANGED <<ad_pos, ad_out>>
      /\ buf' = Delivered(gen_out)'
      /\ \A s \in Outputs : player[s] => StreamMoves(s, p)
  BY <1>1, EachMoves
<1>3. /\ Types /\ pc = "loop" /\ pc' = "write_dev" /\ run /\ run' = GoesOn
      /\ InRun /\ InRun' /\ ~AtEnd /\ ~AtEnd'
  BY DEF PlayerInv, Generate, Following, InRun, AtEnd
<1>4. p \in Gen!Program /\ player.srate \in Rates /\ DevRate \in Rates
      /\ gen_pos \in Nat /\ ad_pos \in Nat
  BY <1>1, <1>3 DEF Types, PlayerType, Rates
<1>5. PICK g, ga : g = gen_out' /\ ga = ad_out'
  OBVIOUS
<1>6. PICK rate \in Rates, from \in Nat, ad_from \in Nat :
         rate = player.srate /\ from = gen_pos /\ ad_from = ad_pos
  BY <1>4
<1>7. PICK to, ad_to : to = gen_pos' /\ ad_to = ad_pos'
  OBVIOUS
<1>8. /\ g.len \in 0..LenAt(rate) /\ g.more \in BOOLEAN /\ to \in Nat
      /\ Delivered(g) \in Seq(Sampled) /\ Len(Delivered(g)) = g.len
  BY <1>2, <1>4, <1>5, <1>6, <1>7, DeliveryFacts
<1>9. player.split_gen =>
         ga.more \in BOOLEAN /\ ad_to \in Nat /\ Delivered(ga) \in Seq(Sampled)
  BY <1>2, <1>4, <1>5, <1>6, <1>7, DeliveryFacts
<1>10. buf' = Delivered(g)
  BY <1>2, <1>5 DEF Delivered
<1>11. Types'
  <2>1. ad_pos' \in Nat
    BY <1>2, <1>4, <1>7, <1>9
  <2>2. DevSamples' \in Seq(Sampled)
    BY <1>2, <1>5, <1>8, <1>9, <1>10 DEF DevSamples, Delivered
  <2>3. buf' \in Seq(Sampled) /\ Len(buf') <= LenAt(player.srate)'
    <3>1. Len(buf') <= LenAt(rate)
      BY <1>8, <1>10, BufferLength
    <3>2. LenAt(player.srate)' = LenAt(rate)
      BY <1>2, <1>6 DEF LenAt
    <3> QED
      BY <1>8, <1>10, <3>1, <3>2
  <2>4. run' \in BOOLEAN
    <3>1. player.split_gen \in BOOLEAN
      BY <1>3 DEF Types, PlayerType
    <3> QED
      BY <1>3, <1>5, <1>8, <1>9, <3>1 DEF GoesOn
  <2> QED
    BY <1>2, <1>3, <1>7, <1>8, <2>1, <2>2, <2>3, <2>4 DEF Types, InRun, outVars
<1>12. Options' /\ Setup' /\ Told' /\ Counted'
  BY <1>2, <1>3, OptionsKept DEF PlayerInv, Setup, Told, Counted, argVars, outVars
<1>13. ASSUME NEW s \in Outputs, ~sinks[s].failed
       PROVE  HasReached(s)' /\ (player[s] => StreamSound(s)')
  <2>1. HasReached(s) /\ (player[s] => StreamSound(s))
    BY <1>3, <1>13 DEF PlayerInv, Progress
  <2>2. DueFor(s, prog)' = DueFor(s, p)
    BY <1>1, <1>2, DueNext DEF argVars
  <2>3. ~Waiting(s) /\ Waiting(s)'
    BY <1>3 DEF Waiting
  <2>4. CASE ~player[s]
    <3>1. Written(s) = 0 /\ Written(s)' = 0
      BY <1>2, <2>4 DEF Written
    <3> QED
      BY <1>1, <1>2, <2>1, <2>2, <2>4, <3>1 DEF HasReached, outVars
  <2>5. CASE player[s]
    <3>1. Stream(s).pos \in Nat /\ Stream(s).pos <= Len(DueFor(s, p))
      BY <1>1, <1>4, <2>1, <2>5 DEF Stream, StreamSound
    <3>2. PICK st : st = Stream(s)'
      OBVIOUS
    <3>3. /\ st.pos \in Nat /\ st.pos <= Len(DueFor(s, p))
          /\ st.out.len \in 0..st.pos /\ st.pos - st.out.len = Stream(s).pos
          /\ ~st.out.more => st.pos = Len(DueFor(s, p))
          /\ ToWrite(s)' = SubSeq(DueFor(s, p), st.pos - st.out.len + 1, st.pos)
      BY <1>2, <1>4, <2>5, <3>1, <3>2, NextToWrite
    <3>4. Written(s)' = Written(s)
      BY <1>2, <2>3, <2>5, <3>2, <3>3 DEF Written
    <3>5. ~run' => ~st.out.more
      BY <1>2, <1>3, <3>2 DEF GoesOn, Stream
    <3>6. StreamSound(s)'
      BY <2>2, <3>2, <3>3, <3>5 DEF StreamSound
    <3>7. HasReached(s)'
      BY <1>1, <1>2, <2>1, <2>2, <3>4 DEF HasReached, outVars
    <3> QED
      BY <3>6, <3>7
  <2> QED
    BY <2>4, <2>5
<1>14. Progress'
  BY <1>2, <1>3, <1>13 DEF Progress, outVars
<1> QED
  BY <1>11, <1>12, <1>14 DEF PlayerInv

-----------------------------------------------------------------------------
(* The end. *)

(* The flushes leave an output what it has, or lose some of the last of it *)
(* and say so in its lost.                                                 *)
Flushed(old, new) ==
    \/ new = old
    \/ /\ new.lost
       /\ \/ new.got = old.got
          \/ \E n \in 0..Len(old.got) : new.got = SubSeq(old.got, 1, n)

LEMMA FlushedFacts ==
    ASSUME NEW old \in SinkType, NEW new, Flushed(old, new), NEW d \in Seq(Sampled),
           \/ old.got = d
           \/ old.lost /\ IsPrefix(old.got, d)
    PROVE  \/ new.got = d
           \/ new.lost /\ IsPrefix(new.got, d)
<1>1. old.got \in Seq(Sampled)
  BY DEF SinkType
<1>2. IsPrefix(old.got, d)
  BY <1>1, PrefixFacts
<1>3. ASSUME NEW n \in 0..Len(old.got), new.got = SubSeq(old.got, 1, n)
      PROVE  IsPrefix(new.got, d)
  BY <1>1, <1>2, <1>3, PrefixFacts
<1> QED
  BY <1>2, <1>3 DEF Flushed

(* The last n samples are lost. *)
LEMMA LastLost ==
    ASSUME sinks \in [Outputs -> SinkType], NEW o \in Outputs, NEW n \in LastSizes(o)
    PROVE  /\ WithoutLast(o, n) \in [Outputs -> SinkType]
           /\ \A s \in Outputs : Flushed(sinks[s], WithoutLast(o, n)[s])
           /\ WithoutLast(o, n)[o].lost
           /\ \A s \in Outputs \ {o} : WithoutLast(o, n)[s] = sinks[s]
           /\ \A s \in Outputs : WithoutLast(o, n)[s].failed = sinks[s].failed
<1>1. PICK sink \in SinkType : sink = sinks[o]
  OBVIOUS
<1>2. sink.got \in Seq(Sampled) /\ n \in 1..Len(sink.got)
  BY <1>1, PlayerAssumption DEF SinkType, LastSizes
<1>3. PICK k \in 0..Len(sink.got) : k = Len(sink.got) - n
  <2>1. PICK m \in Nat : m = Len(sink.got)
    BY <1>2
  <2>2. m - n \in 0..m
    BY <1>2, <2>1
  <2> QED
    BY <2>1, <2>2
<1>4. PICK got : got = SubSeq(sink.got, 1, k)
  OBVIOUS
<1>5. got \in Seq(Sampled)
  BY <1>2, <1>3, <1>4
<1>6. PICK new : new = [sink EXCEPT !.got = got, !.lost = TRUE]
  OBVIOUS
<1>7. /\ new \in SinkType /\ new.got = got /\ new.lost /\ new.failed = sink.failed
  BY <1>5, <1>6 DEF SinkType
<1>8. WithoutLast(o, n) = [sinks EXCEPT ![o] = new]
  BY <1>1, <1>3, <1>4, <1>6 DEF WithoutLast
<1>9. /\ WithoutLast(o, n) \in [Outputs -> SinkType]
      /\ WithoutLast(o, n)[o] = new
      /\ \A s \in Outputs \ {o} : WithoutLast(o, n)[s] = sinks[s]
  BY <1>7, <1>8
<1>10. Flushed(sinks[o], new)
  BY <1>1, <1>3, <1>4, <1>7 DEF Flushed
<1> QED
  BY <1>1, <1>7, <1>9, <1>10 DEF Flushed

LEMMA ExitKeeps ==
    ASSUME PlayerInv, Exit
    PROVE  PlayerInv'
<1>1. Types /\ pc = "flush" /\ pc' = "exit" /\ ~InRun /\ ~InRun' /\ AtEnd /\ AtEnd'
      /\ UNCHANGED <<argVars, todo, player, genVars, buf, run, error, status, file, due>>
  BY DEF PlayerInv, Exit, InRun, AtEnd, Following
<1>2. sinks \in [Outputs -> SinkType] /\ due \in [Outputs -> Seq(Sampled)]
  BY <1>1 DEF Types
<1>3. /\ sinks' \in [Outputs -> SinkType]
      /\ \A s \in Outputs : Flushed(sinks[s], sinks'[s])
      /\ \A s \in Outputs : sinks'[s].failed = sinks[s].failed
      /\ ~IsAU => sinks'["file"] = sinks["file"]
      /\ fails' \in 0..MaxFails
  <2>1. CASE UNCHANGED <<sinks, fails>>
    BY <1>1, <1>2, <2>1 DEF Flushed, Types
  <2>2. CASE ~UNCHANGED <<sinks, fails>>
    <3>1. PICK o \in OnStdout : \E n \in LastSizes(o) : sinks' = WithoutLast(o, n)
      BY <2>2 DEF Exit
    <3>2. PICK n \in LastSizes(o) : sinks' = WithoutLast(o, n)
      BY <3>1
    <3>3. o \in Outputs /\ (~IsAU => o # "file") /\ "file" \in Outputs
      BY <3>1 DEF OnStdout, Outputs
    <3>4. fails' \in 0..MaxFails
      BY <1>1, <2>2, PlayerAssumption DEF Exit, MayFail, Types
    <3> QED
      BY <1>2, <3>2, <3>3, <3>4, LastLost
  <2> QED
    BY <2>1, <2>2
<1>4. Types'
  BY <1>1, <1>3 DEF Types, InRun, genVars
<1>5. Progress'
  <2>1. ASSUME NEW s \in Outputs, ~sinks'[s].failed
        PROVE  \/ sinks'[s].got = due[s]
               \/ sinks'[s].lost /\ IsPrefix(sinks'[s].got, due[s])
    <3>1. \/ sinks[s].got = due[s]
          \/ sinks[s].lost /\ IsPrefix(sinks[s].got, due[s])
      BY <1>1, <1>3, <2>1 DEF PlayerInv, Progress
    <3>2. PICK new : new = sinks'[s]
      OBVIOUS
    <3>3. PICK old \in SinkType, d \in Seq(Sampled) : old = sinks[s] /\ d = due[s]
      BY <1>2
    <3>4. Flushed(old, new)
      BY <1>3, <3>2, <3>3
    <3> QED
      BY <3>1, <3>2, <3>3, <3>4, FlushedFacts
  <2> QED
    BY <1>1, <2>1 DEF Progress
<1>6. Counted'
  <2>1. IsAU' = IsAU
    BY <1>1 DEF IsAU, HasFile, argVars
  <2> QED
    BY <1>1, <1>3, <2>1 DEF PlayerInv, Counted, AudioBytes
<1>7. Options' /\ Setup' /\ Told'
  BY <1>1, <1>3, OptionsKept DEF PlayerInv, Setup, Told, argVars
<1> QED
  BY <1>4, <1>5, <1>6, <1>7 DEF PlayerInv

(* The size in a header is that of all the samples. *)
LEMMA SizeIsNat ==
    ASSUME player \in PlayerType, file.samples \in Nat
    PROVE  /\ AudioBytes \in Nat
           /\ AudioBytes % SizeWrap \in 0..(SizeWrap - 1)
           /\ file.samples = 0 => AudioBytes % SizeWrap = 0
<1>1. PICK n \in Nat, c \in {1, 2} : n = file.samples /\ c = player.ch_count
  BY DEF PlayerType
<1>2. AudioBytes = c * n * 2
  BY <1>1 DEF AudioBytes
<1>3. c * n * 2 \in Nat /\ (n = 0 => c * n * 2 = 0)
  <2>1. CASE c = 1
    BY <2>1
  <2>2. CASE c = 2
    BY <2>2
  <2> QED
    BY <2>1, <2>2
<1>4. SizeWrap \in Nat \ {0}
  BY PlayerAssumption
<1>5. AudioBytes % SizeWrap \in 0..(SizeWrap - 1)
  BY <1>2, <1>3, <1>4, DivMod
<1>6. 0 % SizeWrap = 0
  BY <1>4
<1> QED
  BY <1>1, <1>2, <1>3, <1>5, <1>6

(* What closing the file does: it is as it was and the header is written,  *)
(* or something of it is lost.                                             *)
LEMMA FiniFacts ==
    ASSUME PlayerInv, Fini
    PROVE  /\ sinks' \in [Outputs -> SinkType]
           /\ file' \in [samples : Nat, size : 0..(SizeWrap - 1)]
           /\ fails' \in 0..MaxFails
           /\ file'.samples = file.samples
           /\ \A s \in Outputs : ~sinks'[s].failed =>
                 ~sinks[s].failed /\ Flushed(sinks[s], sinks'[s])
           /\ \A s \in Outputs : sinks'[s].failed =>
                 sinks[s].failed \/ (s = "file" /\ player.file)
           /\ ~IsAU /\ ~sinks'["file"].lost =>
                 /\ sinks'["file"].got = sinks["file"].got
                 /\ file'.size = AudioBytes % SizeWrap
<1>1. /\ sinks \in [Outputs -> SinkType] /\ player \in PlayerType
      /\ fails \in 0..MaxFails /\ file \in [samples : Nat, size : 0..(SizeWrap - 1)]
      /\ ~player.file => file.samples = 0
      /\ file.size = 0 /\ "file" \in Outputs
  BY DEF PlayerInv, Types, Counted, Fini, AtEnd, Outputs
<1>2. /\ AudioBytes % SizeWrap \in 0..(SizeWrap - 1)
      /\ file.samples = 0 => AudioBytes % SizeWrap = 0
  BY <1>1, SizeIsNat
<1>3. CASE ~(player.file /\ ~IsAU)
  BY <1>1, <1>2, <1>3 DEF Fini, Flushed
<1>4. CASE player.file /\ ~IsAU /\ HeaderUpdated
  <2>1. PICK size \in 0..(SizeWrap - 1) : size = AudioBytes % SizeWrap
    BY <1>2
  <2>2. file' = [file EXCEPT !.size = size] /\ UNCHANGED <<sinks, fails>>
    BY <1>4, <2>1 DEF HeaderUpdated
  <2> QED
    BY <1>1, <2>1, <2>2 DEF Flushed
<1>5. CASE player.file /\ ~IsAU /\ SeekFails
  <2>1. PICK n \in LastSizes("file") :
           sinks' = [WithoutLast("file", n) EXCEPT !.file.failed = TRUE]
    BY <1>5 DEF SeekFails
  <2>2. PICK w \in [Outputs -> SinkType] : w = WithoutLast("file", n)
    BY <1>1, LastLost
  <2>3. /\ w["file"].lost
        /\ \A s \in Outputs \ {"file"} : w[s] = sinks[s]
    BY <1>1, <2>2, LastLost
  <2>4. PICK sink \in SinkType : sink = w["file"]
    BY <1>1, <2>2
  <2>5. PICK new \in SinkType : /\ new = [sink EXCEPT !.failed = TRUE]
                                /\ new.failed /\ new.lost = sink.lost
    <3>1. PICK x : x = [sink EXCEPT !.failed = TRUE]
      OBVIOUS
    <3>2. x \in SinkType /\ x.failed /\ x.lost = sink.lost
      BY <2>4, <3>1 DEF SinkType
    <3> QED
      BY <3>1, <3>2
  <2>6. sinks' = [w EXCEPT !["file"] = new]
    BY <2>1, <2>2, <2>4, <2>5
  <2>7. /\ sinks' \in [Outputs -> SinkType]
        /\ sinks'["file"] = new
        /\ \A s \in Outputs \ {"file"} : sinks'[s] = sinks[s]
    BY <1>1, <2>2, <2>3, <2>5, <2>6
  <2>8. UNCHANGED file /\ fails' \in 0..MaxFails
    BY <1>1, <1>5, PlayerAssumption DEF SeekFails, MayFail
  <2> QED
    BY <1>1, <1>5, <2>3, <2>4, <2>5, <2>7, <2>8 DEF Flushed
<1>6. CASE player.file /\ ~IsAU /\ CloseFails
  <2>1. PICK sink \in SinkType : sink = sinks["file"]
    BY <1>1
  <2>2. PICK new \in SinkType : /\ new = [sink EXCEPT !.lost = TRUE]
                                /\ new.lost /\ new.failed = sink.failed
                                /\ new.got = sink.got
    <3>1. PICK x : x = [sink EXCEPT !.lost = TRUE]
      OBVIOUS
    <3>2. x \in SinkType /\ x.lost /\ x.failed = sink.failed /\ x.got = sink.got
      BY <2>1, <3>1 DEF SinkType
    <3> QED
      BY <3>1, <3>2
  <2>3. sinks' = [sinks EXCEPT !["file"] = new]
    BY <1>6, <2>1, <2>2 DEF CloseFails
  <2>4. /\ sinks' \in [Outputs -> SinkType]
        /\ sinks'["file"] = new
        /\ \A s \in Outputs \ {"file"} : sinks'[s] = sinks[s]
    BY <1>1, <2>2, <2>3
  <2>5. UNCHANGED file /\ fails' \in 0..MaxFails
    BY <1>1, <1>6, PlayerAssumption DEF CloseFails, MayFail
  <2> QED
    BY <1>1, <2>1, <2>2, <2>4, <2>5 DEF Flushed
<1> QED
  BY <1>3, <1>4, <1>5, <1>6 DEF Fini

LEMMA FiniKeeps ==
    ASSUME PlayerInv, Fini
    PROVE  PlayerInv'
<1>1. Types /\ pc = "fini" /\ pc' = "flush" /\ ~InRun /\ ~InRun' /\ ~AtEnd /\ AtEnd'
      /\ player' = [player EXCEPT !.dev = FALSE, !.file = FALSE]
      /\ UNCHANGED <<argVars, todo, genVars, buf, run, error, due>>
      /\ status' = (status /\ ~(player.file /\ sinks'.file.failed))
  BY DEF PlayerInv, Fini, InRun, AtEnd, Following
<1>2. sinks \in [Outputs -> SinkType] /\ due \in [Outputs -> Seq(Sampled)]
      /\ player \in PlayerType
  BY <1>1 DEF Types
<1>3. /\ sinks' \in [Outputs -> SinkType]
      /\ file' \in [samples : Nat, size : 0..(SizeWrap - 1)]
      /\ fails' \in 0..MaxFails
      /\ file'.samples = file.samples
      /\ \A s \in Outputs : ~sinks'[s].failed =>
            ~sinks[s].failed /\ Flushed(sinks[s], sinks'[s])
      /\ \A s \in Outputs : sinks'[s].failed =>
            sinks[s].failed \/ (s = "file" /\ player.file)
      /\ ~IsAU /\ ~sinks'["file"].lost =>
            /\ sinks'["file"].got = sinks["file"].got
            /\ file'.size = AudioBytes % SizeWrap
  BY FiniFacts
<1>4. /\ player' \in PlayerType /\ ~player'.dev /\ ~player'.file
      /\ player'.raw = player.raw /\ player'.srate = player.srate
      /\ player'.dev_rate = player.dev_rate /\ player'.split_gen = player.split_gen
      /\ player'.ch_count = player.ch_count
  BY <1>1, <1>2 DEF PlayerType
<1>5. Types'
  <2>1. LenAt(player.srate)' = LenAt(player.srate)
    BY <1>4 DEF LenAt
  <2>2. status' \in BOOLEAN
    BY <1>1 DEF Types
  <2> QED
    BY <1>1, <1>3, <1>4, <2>1, <2>2 DEF Types, InRun, genVars
<1>6. Options'
  BY <1>1, OptionsKept DEF PlayerInv
<1>7. Setup'
  BY <1>1, <1>4 DEF PlayerInv, Setup, Outputs, argVars
<1>8. Progress'
  <2>1. ASSUME NEW s \in Outputs, ~sinks'[s].failed
        PROVE  \/ sinks'[s].got = due[s]
               \/ sinks'[s].lost /\ IsPrefix(sinks'[s].got, due[s])
    <3>1. sinks[s].got = due[s]
      BY <1>1, <1>3, <2>1 DEF PlayerInv, Progress
    <3>2. PICK new : new = sinks'[s]
      OBVIOUS
    <3>3. PICK old \in SinkType, d \in Seq(Sampled) : old = sinks[s] /\ d = due[s]
      BY <1>2
    <3>4. Flushed(old, new)
      BY <1>3, <2>1, <3>2, <3>3
    <3> QED
      BY <3>1, <3>2, <3>3, <3>4, FlushedFacts
  <2> QED
    BY <1>1, <2>1 DEF Progress
<1>9. Told'
  <2>1. ASSUME NEW s \in Outputs, sinks'[s].failed PROVE ~status'
    <3>1. CASE sinks[s].failed
      BY <1>1, <3>1 DEF PlayerInv, Told
    <3>2. CASE ~sinks[s].failed
      BY <1>1, <1>3, <2>1, <3>2
    <3> QED
      BY <3>1, <3>2
  <2> QED
    BY <2>1 DEF Told
<1>10. Counted'
  <2>1. IsAU' = IsAU
    BY <1>1 DEF IsAU, HasFile, argVars
  <2>2. AudioBytes' = AudioBytes
    BY <1>3, <1>4 DEF AudioBytes
  <2> QED
    BY <1>1, <1>3, <2>1, <2>2 DEF PlayerInv, Counted
<1> QED
  BY <1>5, <1>6, <1>7, <1>8, <1>9, <1>10 DEF PlayerInv

-----------------------------------------------------------------------------
(* The theorems. *)

LEMMA PlayerInitial == Init => PlayerInv
<1> SUFFICES ASSUME Init PROVE PlayerInv
  OBVIOUS
<1>1. sinks = [s \in Outputs |-> [got |-> <<>>, failed |-> FALSE, lost |-> FALSE]]
      /\ due = [s \in Outputs |-> <<>>] /\ pc = "args" /\ player = Closed
      /\ file = [samples |-> 0, size |-> 0] /\ buf = <<>>
  BY DEF Init
<1>2. <<>> \in Seq(Sampled) /\ Len(<<>>) = 0
  OBVIOUS
<1>3. sinks \in [Outputs -> SinkType] /\ due \in [Outputs -> Seq(Sampled)]
  BY <1>1, <1>2 DEF SinkType
<1>4. LenAt(player.srate) \in Nat
  <2>1. player.srate \in Rates
    BY <1>1 DEF Closed, Rates
  <2> QED
    BY <2>1, BufferLength
<1>5. ~InRun /\ ~AtEnd
  BY <1>1 DEF InRun, AtEnd, Following
<1>6. file \in [samples : Nat, size : 0..(SizeWrap - 1)]
  BY <1>1, PlayerAssumption
<1>7. Types
  <2>1. todo \in Seq(Gen!Program \union {NoProgram}) /\ gen_pos \in Nat /\ ad_pos \in Nat
        /\ fails \in 0..MaxFails
    BY PlayerAssumption DEF Init
  <2>2. run \in BOOLEAN /\ error \in BOOLEAN /\ status \in BOOLEAN
    BY DEF Init
  <2>3. player \in PlayerType
    BY <1>1, ClosedFacts
  <2>4. buf \in Seq(Sampled) /\ Len(buf) <= LenAt(player.srate)
    BY <1>1, <1>2, <1>4
  <2> QED
    BY <1>1, <1>3, <1>5, <1>6, <2>1, <2>2, <2>3, <2>4 DEF Types
<1>8. Options
  BY PlayerAssumption DEF Init, Options, Conflicting
<1>9. Setup
  BY <1>1 DEF Init, Setup, Closed, Outputs
<1>10. Progress /\ Told
  BY <1>1, <1>5 DEF Progress, Told
<1>11. Counted
  BY <1>1, <1>2, <1>5 DEF Counted, Outputs
<1> QED
  BY <1>7, <1>8, <1>9, <1>10, <1>11 DEF PlayerInv

LEMMA PlayerStep == PlayerInv /\ [Next]_vars => PlayerInv'
<1> SUFFICES ASSUME PlayerInv, [Next]_vars PROVE PlayerInv'
  OBVIOUS
<1>1. CASE \E arg \in DOMAIN Sets : Option(arg)
  BY <1>1, OptionKeeps
<1>2. CASE ReadScripts
  BY <1>2, ReadScriptsKeeps
<1>3. CASE InitPlayer
  BY <1>3, InitPlayerKeeps
<1>4. CASE InitFails
  BY <1>4, InitFailsKeeps
<1>5. CASE SkipProgram
  BY <1>5, SkipProgramKeeps
<1>6. CASE CreateGenerators
  BY <1>6, CreateGeneratorsKeeps
<1>7. CASE CreateFails
  BY <1>7, CreateFailsKeeps
<1>8. CASE Generate
  BY <1>8, GenerateKeeps
<1>9. CASE WriteDev
  BY <1>9, WriteDevKeeps
<1>10. CASE Underrun
  BY <1>10, UnderrunKeeps
<1>11. CASE WriteRaw
  BY <1>11, WriteRawKeeps
<1>12. CASE WriteFile
  BY <1>12, WriteFileKeeps
<1>13. CASE NoWrite
  BY <1>13, NoWriteKeeps
<1>14. CASE EndRun
  BY <1>14, EndRunKeeps
<1>15. CASE EndPlay
  BY <1>15, EndPlayKeeps
<1>16. CASE Fini
  BY <1>16, FiniKeeps
<1>17. CASE Exit
  BY <1>17, ExitKeeps
<1>18. CASE Exited \/ UNCHANGED vars
  <2>1. UNCHANGED vars
    BY <1>18 DEF Exited
  <2>2. UNCHANGED <<pc, flags, wav_path, nargs, todo, player, prog, gen_pos, gen_out,
                    ad_pos, ad_out, buf, run, error, status, sinks, file, due, fails>>
    BY <2>1 DEF vars, argVars, genVars, outVars
  <2>3. \A s \in Outputs : Waiting(s)' = Waiting(s) /\ ToWrite(s)' = ToWrite(s)
    BY <2>2 DEF Waiting, ToWrite, DevSamples, IsAU, HasFile, SwapAll, Delivered
  <2>4. InRun' = InRun /\ AtEnd' = AtEnd
    BY <2>2 DEF InRun, AtEnd
  <2>5. Progress'
    <3>1. ASSUME NEW s \in Outputs, HasReached(s) PROVE HasReached(s)'
      BY <2>2, <2>3, <3>1, ReachKept DEF genVars
    <3>2. ASSUME NEW s \in Outputs, StreamSound(s) PROVE StreamSound(s)'
      BY <2>2, <2>3, <3>2, StreamKept DEF genVars
    <3> QED
      BY <2>2, <2>4, <3>1, <3>2 DEF PlayerInv, Progress
  <2>6. Types'
    BY <2>2, <2>4 DEF PlayerInv, Types, DevSamples, Delivered
  <2>7. Options' /\ Setup' /\ Told' /\ Counted'
    BY <2>2, <2>4 DEF PlayerInv, Options, Setup, Told, Counted, AudioBytes, IsAU, HasFile
  <2> QED
    BY <2>5, <2>6, <2>7 DEF PlayerInv
<1> QED
  BY <1>1, <1>2, <1>3, <1>4, <1>5, <1>6, <1>7, <1>8, <1>9, <1>10, <1>11, <1>12, <1>13,
     <1>14, <1>15, <1>16, <1>17, <1>18 DEF Next

(* What is true of the options, the outputs and the generators throughout: *)
(* the invariant that the others follow from.                              *)
THEOREM PlayerInvariant == Spec => []PlayerInv
<1> QED
  BY PlayerInitial, PlayerStep, PTL DEF Spec

(* The fields of the player and the outputs keep to their types, whatever  *)
(* the options and their order, and these never conflict (parse_args).     *)
THEOREM PlayerTypes == Spec => []TypeOK
<1>1. PlayerInv => TypeOK
  <2> SUFFICES ASSUME PlayerInv PROVE TypeOK
    OBVIOUS
  <2>1. Types /\ Options /\ Setup
    BY DEF PlayerInv
  <2>2. /\ player.srate \in {Rate, DevRate} /\ player.ch_count \in {1, 2}
        /\ \A s \in Outputs : player[s] \in BOOLEAN
    BY <2>1 DEF Types, PlayerType, Outputs
  <2>3. \A s \in Outputs : sinks[s].got \in Seq(Sampled) /\ due[s] \in Seq(Sampled)
    BY <2>1 DEF Types, SinkType
  <2> QED
    BY <2>1, <2>2, <2>3 DEF Types, Options, Setup, TypeOK
<1> QED
  BY <1>1, PlayerInvariant, PTL

(* Each output gets the programs' sound in order, at its own rate and in   *)
(* its own byte order, as long as no write to it fails (Player_run).       *)
THEOREM OutputsInOrder == Spec => []InOrder
<1>1. PlayerInv => InOrder
  <2> SUFFICES ASSUME PlayerInv, NEW s \in Outputs, ~sinks[s].failed
               PROVE  IsPrefix(sinks[s].got, due[s])
    BY DEF InOrder
  <2>1. Types
    BY DEF PlayerInv
  <2>2. CASE InRun
    BY <2>1, <2>2, ReachIsPrefix DEF PlayerInv, Progress, Types
  <2>3. CASE ~InRun
    <3>1. due[s] \in Seq(Sampled)
      BY <2>1 DEF Types
    <3>2. IsPrefix(due[s], due[s])
      BY <3>1, PrefixFacts
    <3> QED
      BY <2>3, <3>2 DEF PlayerInv, Progress
  <2> QED
    BY <2>2, <2>3
<1> QED
  BY <1>1, PlayerInvariant, PTL

(* When a program is done, each output without a failed write has all of   *)
(* it, whichever other output failed or generator ended first.             *)
THEOREM OutputsGoOn == Spec => []OthersGoOn
<1>1. PlayerInv => OthersGoOn
  <2> SUFFICES ASSUME PlayerInv, pc = "loop", ~run,
                      NEW s \in Outputs, ~sinks[s].failed
               PROVE  sinks[s].got = due[s]
    BY DEF OthersGoOn
  <2>1. Types /\ InRun
    BY DEF PlayerInv, InRun, Following
  <2> QED
    BY <2>1, AllGiven DEF PlayerInv, Progress, Types
<1> QED
  BY <1>1, PlayerInvariant, PTL

(* Exit status 0 means that the outputs have it all but for what the last  *)
(* flushes lose, and the WAV header the size of it, if that size fits into *)
(* the header's field (fini_Player, update_wav_header).                    *)
THEOREM OkStatus == Spec => []((~IsAU => AudioBytes < SizeWrap) => OkMeansAll)
<1>1. PlayerInv /\ (~IsAU => AudioBytes < SizeWrap) => OkMeansAll
  <2> SUFFICES ASSUME PlayerInv, ~IsAU => AudioBytes < SizeWrap, pc = "exit", status
               PROVE  /\ \A s \in Outputs :
                            ~sinks[s].failed /\ (sinks[s].got = due[s] \/ sinks[s].lost)
                      /\ ~IsAU /\ ~sinks.file.lost =>
                            file.size = player.ch_count * 2 * Len(sinks.file.got)
    BY DEF OkMeansAll
  <2>1. Types /\ ~InRun /\ AtEnd
    BY DEF PlayerInv, InRun, AtEnd, Following
  <2>2. \A s \in Outputs : ~sinks[s].failed
    BY <2>1 DEF PlayerInv, Told
  <2>3. \A s \in Outputs : sinks[s].got = due[s] \/ sinks[s].lost
    BY <2>1, <2>2 DEF PlayerInv, Progress
  <2>4. ASSUME ~IsAU, ~sinks.file.lost
        PROVE  file.size = player.ch_count * 2 * Len(sinks.file.got)
    <3>1. file.samples = Len(sinks.file.got) /\ file.size = AudioBytes % SizeWrap
      BY <2>1, <2>4 DEF PlayerInv, Counted
    <3>2. player \in PlayerType /\ file.samples \in Nat
      BY <2>1 DEF Types
    <3>3. PICK bytes \in Nat : bytes = AudioBytes
      BY <3>2, SizeIsNat
    <3>4. bytes % SizeWrap = bytes
      <4>1. SizeWrap \in Nat \ {0} /\ bytes \in 0..(SizeWrap - 1)
        BY <2>4, <3>3, PlayerAssumption
      <4>2. bytes = SizeWrap * 0 + bytes
        BY <4>1
      <4> QED
        BY <4>1, <4>2, DivUnique
    <3>5. AudioBytes = player.ch_count * 2 * file.samples
      <4>1. PICK n \in Nat, c \in {1, 2} : n = file.samples /\ c = player.ch_count
        BY <3>2 DEF PlayerType
      <4>2. c * n * 2 = c * 2 * n
        BY <4>1
      <4> QED
        BY <4>1, <4>2 DEF AudioBytes
    <3> QED
      BY <3>1, <3>3, <3>4, <3>5
  <2> QED
    BY <2>2, <2>3, <2>4
<1> QED
  BY <1>1, PlayerInvariant, PTL
=============================================================================
