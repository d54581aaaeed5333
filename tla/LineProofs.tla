----------------------------- MODULE LineProofs ------------------------------
(***************************************************************************)
(* Proofs about lines: a parameter keeps its type, and sweeps as promised, *)
(* for all values and times, in whatever pieces it is run or skipped, and  *)
(* whatever is set of it on the way; where updates do not come in the      *)
(* states in which the code loses track, and, for the sweep, where ratios  *)
(* make no difference to the arithmetic, which is of integers here.        *)
(***************************************************************************)
EXTENDS Line, TLAPS

-----------------------------------------------------------------------------
(* What the parser makes of what is given. *)

LEMMA LineConstants ==
    /\ Values \subseteq Int /\ Ratios \subseteq Int /\ Garbage \subseteq Int
    /\ Wrap \in Nat \ {0} /\ Times \subseteq 0..(Wrap - 1) /\ Times \subseteq Nat
    /\ Mul \in Nat \ {0} /\ MaxLen \in Nat /\ MaxUpdates \in Nat
  BY LineAssumption

(* A number given is one of the two kinds. *)
LEMMA Given ==
    ASSUME NEW m \in Maybe(Numbers)
    PROVE  /\ Number(m) \in Int
           /\ IsRatio(m) \in BOOLEAN
           /\ IsRatio(m) => m # {} /\ Ratios # {}
           /\ m = {} \/ \E x : m = {x} /\ Number(m) = x.n /\ IsRatio(m) = x.ratio
<1>1. CASE m = {}
  BY <1>1 DEF Number, IsRatio
<1>2. CASE m # {}
  <2>1. PICK x \in Numbers : m = {x}
    BY <1>2 DEF Maybe
  <2>2. x.n \in Int /\ x.ratio \in BOOLEAN /\ (x.ratio => Ratios # {})
    BY <2>1, LineConstants DEF Numbers
  <2>3. Number(m) = x.n
    BY <2>1 DEF Number
  <2>4. IsRatio(m) = x.ratio
    BY <2>1, <2>2 DEF IsRatio
  <2> QED
    BY <1>2, <2>1, <2>2, <2>3, <2>4
<1> QED
  BY <1>1, <1>2

SourceOf(src, v, g, t, dur) ==
    /\ src.v0 = Number(v) /\ src.v0 \in Int
    /\ src.vt = Number(g) /\ src.vt \in Int
    /\ src.time = (IF t = {} THEN dur ELSE CHOOSE x \in t : TRUE)
    /\ src.time \in Times /\ src.time \in 0..(Wrap - 1)
    /\ "TIME" \in src.flags
    /\ "STATE" \in src.flags <=> v # {}
    /\ "STATE_RATIO" \in src.flags <=> IsRatio(v)
    /\ "GOAL" \in src.flags <=> g # {}
    /\ "GOAL_RATIO" \in src.flags <=> IsRatio(g)
    /\ "TIME_IF_NEW" \in src.flags <=> t = {}
    /\ "GOAL_RATIO" \in src.flags => "GOAL" \in src.flags
    /\ "STATE_RATIO" \in src.flags => "STATE" \in src.flags
    /\ "STATE_RATIO" \in src.flags \/ "GOAL_RATIO" \in src.flags => Ratios # {}

LEMMA SourceFacts ==
    ASSUME NEW v \in Maybe(Numbers), NEW g \in Maybe(Numbers),
           NEW t \in Maybe(Times), NEW dur \in Times,
           NEW src, src = Source(v, g, t, dur)
    PROVE  SourceOf(src, v, g, t, dur)
<1>1. PICK a, b : a = IsRatio(v) /\ b = IsRatio(g)
  OBVIOUS
<1>2. /\ a \in BOOLEAN /\ b \in BOOLEAN /\ (a => v # {} /\ Ratios # {})
      /\ (b => g # {} /\ Ratios # {}) /\ Number(v) \in Int /\ Number(g) \in Int
  BY <1>1, Given
<1>3. PICK time : time = IF t = {} THEN dur ELSE CHOOSE x \in t : TRUE
  OBVIOUS
<1>4. time \in Times /\ time \in 0..(Wrap - 1)
  <2>1. t = {} \/ \E x \in Times : t = {x}
    BY DEF Maybe
  <2>2. time \in Times
    BY <1>3, <2>1
  <2> QED
    BY <2>2, LineConstants
<1>5. PICK flags : flags = {"TIME"}
        \union (IF v # {} THEN {"STATE"} ELSE {})
        \union (IF a THEN {"STATE_RATIO"} ELSE {})
        \union (IF g # {} THEN {"GOAL"} ELSE {})
        \union (IF b THEN {"GOAL_RATIO"} ELSE {})
        \union (IF t = {} THEN {"TIME_IF_NEW"} ELSE {})
  OBVIOUS
<1>6. /\ "TIME" \in flags /\ ("STATE" \in flags <=> v # {})
      /\ ("STATE_RATIO" \in flags <=> a) /\ ("GOAL" \in flags <=> g # {})
      /\ ("GOAL_RATIO" \in flags <=> b) /\ ("TIME_IF_NEW" \in flags <=> t = {})
  BY <1>2, <1>5
<1>7. src = [v0 |-> Number(v), vt |-> Number(g), time |-> time, flags |-> flags]
  BY <1>1, <1>3, <1>5 DEF Source
<1>8. /\ src.v0 = Number(v) /\ src.vt = Number(g) /\ src.time = time
      /\ src.flags = flags
  BY <1>7
<1> QED
  BY <1>1, <1>2, <1>3, <1>4, <1>6, <1>8 DEF SourceOf

-----------------------------------------------------------------------------
(* What getting values does to a line. *)

LEMMA AdjustedFacts ==
    ASSUME NEW o \in LineType, NEW mul \in Nat \ {0}, NEW a, a = Adjusted(o, mul)
    PROVE  /\ a \in LineType /\ a.vt = o.vt /\ a.pos = o.pos /\ a.end = o.end
           /\ \A f : f # "STATE_RATIO" => (f \in a.flags <=> f \in o.flags)
           /\ "STATE_RATIO" \in a.flags <=> "GOAL_RATIO" \in o.flags
           /\ mul = 1 \/ ("STATE_RATIO" \in o.flags <=> "GOAL_RATIO" \in o.flags)
                => a.v0 = o.v0
<1>1. /\ o.v0 \in Int /\ o.vt \in Int /\ o.pos \in Nat /\ o.end \in Nat
      /\ o.flags \in SUBSET {"STATE_RATIO", "GOAL", "GOAL_RATIO", "TIME"}
  BY DEF LineType
<1>2. o.v0 \div mul \in Int /\ o.v0 * mul \in Int
      /\ (mul = 1 => o.v0 \div mul = o.v0 /\ o.v0 * mul = o.v0)
  BY <1>1
<1>3. PICK p, d : p = o.v0 * mul /\ d = o.v0 \div mul
  OBVIOUS
<1>4. CASE "GOAL_RATIO" \in o.flags /\ "STATE_RATIO" \notin o.flags
  <2>1. a = [o EXCEPT !.v0 = d, !.flags = @ \union {"STATE_RATIO"}]
    BY <1>3, <1>4 DEF Adjusted
  <2>2. a.v0 = d /\ a.flags = o.flags \union {"STATE_RATIO"} /\ a \in LineType
        /\ a.vt = o.vt /\ a.pos = o.pos /\ a.end = o.end
    BY <1>1, <1>2, <1>3, <2>1 DEF LineType
  <2> QED
    BY <1>2, <1>3, <1>4, <2>2
<1>5. CASE "GOAL_RATIO" \notin o.flags /\ "STATE_RATIO" \in o.flags
  <2>1. a = [o EXCEPT !.v0 = p, !.flags = @ \ {"STATE_RATIO"}]
    BY <1>3, <1>5 DEF Adjusted
  <2>2. a.v0 = p /\ a.flags = o.flags \ {"STATE_RATIO"} /\ a \in LineType
        /\ a.vt = o.vt /\ a.pos = o.pos /\ a.end = o.end
    BY <1>1, <1>2, <1>3, <2>1 DEF LineType
  <2> QED
    BY <1>2, <1>3, <1>5, <2>2
<1>6. CASE "GOAL_RATIO" \in o.flags <=> "STATE_RATIO" \in o.flags
  <2>1. a = o
    BY <1>6 DEF Adjusted
  <2> QED
    BY <1>6, <2>1
<1> QED
  BY <1>4, <1>5, <1>6

(* The position moves on, and the time ends when it gets to the end. *)
LEMMA AdvancedFacts ==
    ASSUME NEW o \in LineType, NEW n \in Nat \ {0}, NEW r, r = Advanced(o, n)
    PROVE  /\ r \in LineType /\ r.v0 = o.v0 /\ r.vt = o.vt /\ r.end = o.end
           /\ \A f : f # "TIME" => (f \in r.flags <=> f \in o.flags)
           /\ o.pos + n < o.end => /\ r.pos = o.pos + n
                                   /\ "TIME" \in r.flags <=> "TIME" \in o.flags
           /\ ~(o.pos + n < o.end) => r.pos = 0 /\ "TIME" \notin r.flags
<1>1. /\ o.v0 \in Int /\ o.vt \in Int /\ o.pos \in Nat /\ o.end \in Nat
      /\ o.flags \in SUBSET {"STATE_RATIO", "GOAL", "GOAL_RATIO", "TIME"}
  BY DEF LineType
<1>2. CASE o.pos + n < o.end
  <2>1. r = [o EXCEPT !.pos = @ + n]
    BY <1>1, <1>2 DEF Advanced
  <2>2. r \in LineType /\ r.v0 = o.v0 /\ r.vt = o.vt /\ r.end = o.end
        /\ r.pos = o.pos + n /\ r.flags = o.flags
    BY <1>1, <2>1 DEF LineType
  <2> QED
    BY <1>2, <2>2
<1>3. CASE ~(o.pos + n < o.end)
  <2>1. PICK flags : flags = o.flags \ {"TIME"}
    OBVIOUS
  <2>2. flags \in SUBSET {"STATE_RATIO", "GOAL", "GOAL_RATIO", "TIME"}
    BY <1>1, <2>1
  <2>3. r = [o EXCEPT !.pos = 0, !.flags = flags]
    BY <1>1, <1>3, <2>1 DEF Advanced
  <2>4. r.v0 = o.v0 /\ r.vt = o.vt /\ r.end = o.end
        /\ r.pos = 0 /\ r.flags = flags
    BY <2>3 DEF LineType
  <2>5. r \in LineType
    <3>1. PICK z : z = [o EXCEPT !.pos = 0]
      OBVIOUS
    <3>2. z \in LineType
      BY <3>1 DEF LineType
    <3>3. r = [z EXCEPT !.flags = flags]
      BY <2>3, <3>1
    <3> QED
      BY <2>2, <3>2, <3>3 DEF LineType
  <2> QED
    BY <1>3, <2>1, <2>4, <2>5
<1> QED
  BY <1>2, <1>3

LEMMA CountFacts ==
    ASSUME NEW o \in LineType, NEW n \in Nat \ {0}, "GOAL" \in o.flags,
           NEW c, c = Count(o, n)
    PROVE  /\ c \in 0..n
           /\ o.pos + c < o.end <=> o.pos + n < o.end
           /\ o.pos + n < o.end => c = n
           /\ \A i \in 1..n : i <= c <=> (o.pos + i) - 1 < o.end
           /\ c = 0 <=> ~(o.pos < o.end)
<1>1. o.pos \in Nat /\ o.end \in Nat
  BY DEF LineType
<1>2. CASE ~(o.pos < o.end)
  BY <1>1, <1>2 DEF Count
<1>3. CASE o.pos < o.end /\ o.end - o.pos < n
  <2>1. c = o.end - o.pos
    BY <1>1, <1>3 DEF Count
  <2>2. c \in 0..n /\ c # 0 /\ o.pos + c = o.end /\ ~(o.pos + n < o.end)
    BY <1>1, <1>3, <2>1
  <2>3. \A i \in 1..n : i <= c <=> (o.pos + i) - 1 < o.end
    BY <1>1, <2>1
  <2> QED
    BY <1>1, <1>3, <2>2, <2>3
<1>4. CASE o.pos < o.end /\ ~(o.end - o.pos < n)
  <2>1. c = n
    BY <1>1, <1>4 DEF Count
  <2> QED
    BY <1>1, <1>4, <2>1
<1> QED
  BY <1>2, <1>3, <1>4

(* Ratios make no difference to the arithmetic: there is nothing that they *)
(* are multiplied with, or there are none.                                 *)
Exact == Mul = 1 \/ Ratios = {}

(* What running or skipping n samples makes of a line. *)
Passes(o, n, r) ==
    /\ r \in LineType /\ r.end = o.end
    /\ "GOAL_RATIO" \in r.flags => "GOAL" \in r.flags
    /\ "STATE_RATIO" \in r.flags =>
          "STATE_RATIO" \in o.flags \/ "GOAL_RATIO" \in o.flags
    /\ "GOAL_RATIO" \in r.flags => "GOAL_RATIO" \in o.flags
    /\ o.pos + n < o.end => r.pos = o.pos + n /\ ("TIME" \in r.flags <=> "TIME" \in o.flags)
    /\ ~(o.pos + n < o.end) => r.pos = 0 /\ "TIME" \notin r.flags /\ "GOAL" \notin r.flags
    /\ "GOAL" \in r.flags <=> "GOAL" \in o.flags /\ o.pos + n < o.end
    /\ "GOAL" \in r.flags => r.vt = o.vt /\ ("GOAL_RATIO" \in r.flags <=> "GOAL_RATIO" \in o.flags)
    /\ "GOAL" \notin o.flags => r.v0 = o.v0
                                /\ ("STATE_RATIO" \in r.flags <=> "STATE_RATIO" \in o.flags)
    /\ "GOAL" \in o.flags /\ ~(o.pos + n < o.end) =>
          r.v0 = o.vt /\ ("STATE_RATIO" \in r.flags <=> "GOAL_RATIO" \in o.flags)
    /\ "GOAL" \in r.flags /\ Exact => r.v0 = o.v0

LEMMA ExactAdjusted ==
    ASSUME Exact, NEW o \in LineType,
           Ratios = {} => o.flags \intersect {"STATE_RATIO", "GOAL_RATIO"} = {}
    PROVE  Adjusted(o, Mul).v0 = o.v0
<1>1. CASE Mul = 1
  BY <1>1, AdjustedFacts
<1>2. CASE Ratios = {}
  BY <1>2, LineConstants, AdjustedFacts
<1> QED
  BY <1>1, <1>2 DEF Exact

LEMMA RunPasses ==
    ASSUME NEW o, Sound(o), NEW n \in Nat \ {0}
    PROVE  Passes(o, n, LineRun(o, n))
<1>1. PICK r, a, c : r = LineRun(o, n) /\ a = Adjusted(o, Mul) /\ c = Count(o, n)
  OBVIOUS
<1>2. o \in LineType /\ o.pos \in Nat /\ o.end \in Nat
      /\ ("GOAL" \in o.flags => "TIME" \in o.flags)
      /\ ("GOAL_RATIO" \in o.flags => "GOAL" \in o.flags)
  BY DEF Sound, LineType
<1>3. CASE "GOAL" \notin o.flags
  <2>1. r = Advanced(o, n)
    BY <1>1, <1>3 DEF LineRun
  <2>2. /\ r \in LineType /\ r.v0 = o.v0 /\ r.vt = o.vt /\ r.end = o.end
        /\ \A f : f # "TIME" => (f \in r.flags <=> f \in o.flags)
        /\ o.pos + n < o.end => /\ r.pos = o.pos + n
                                /\ "TIME" \in r.flags <=> "TIME" \in o.flags
        /\ ~(o.pos + n < o.end) => r.pos = 0 /\ "TIME" \notin r.flags
    BY <1>2, <2>1, AdvancedFacts
  <2> QED
    BY <1>1, <1>2, <1>3, <2>2 DEF Passes
<1>4. CASE "GOAL" \in o.flags
  <2>1. /\ o.pos + c < o.end <=> o.pos + n < o.end
        /\ o.pos + n < o.end => c = n
        /\ c \in 0..n
    BY <1>1, <1>2, <1>4, CountFacts
  <2>2. /\ a \in LineType /\ a.vt = o.vt /\ a.pos = o.pos /\ a.end = o.end
        /\ \A f : f # "STATE_RATIO" => (f \in a.flags <=> f \in o.flags)
        /\ "STATE_RATIO" \in a.flags <=> "GOAL_RATIO" \in o.flags
    BY <1>1, <1>2, LineConstants, AdjustedFacts
  <2>3. Exact => a.v0 = o.v0
    BY <1>1, <1>2, ExactAdjusted DEF Sound
  <2>4. CASE o.pos + n < o.end
    <3>1. r = [a EXCEPT !.pos = o.pos + n]
      BY <1>1, <1>4, <2>1, <2>4 DEF LineRun
    <3>2. r \in LineType /\ r.v0 = a.v0 /\ r.vt = a.vt /\ r.end = a.end
          /\ r.pos = o.pos + n /\ r.flags = a.flags
      BY <1>2, <2>2, <3>1 DEF LineType
    <3> QED
      BY <1>1, <1>2, <1>4, <2>2, <2>3, <2>4, <3>2 DEF Passes
  <2>5. CASE ~(o.pos + n < o.end)
    <3>1. r = [a EXCEPT !.v0 = a.vt, !.pos = 0,
                        !.flags = @ \ {"GOAL", "GOAL_RATIO", "TIME"}]
      BY <1>1, <1>4, <2>1, <2>5 DEF LineRun
    <3>2. r \in LineType /\ r.v0 = a.vt /\ r.vt = a.vt /\ r.end = a.end
          /\ r.pos = 0 /\ r.flags = a.flags \ {"GOAL", "GOAL_RATIO", "TIME"}
      BY <2>2, <3>1 DEF LineType
    <3>3. "TIME" \notin r.flags /\ "GOAL" \notin r.flags
          /\ "GOAL_RATIO" \notin r.flags
          /\ ("STATE_RATIO" \in r.flags <=> "GOAL_RATIO" \in o.flags)
      BY <2>2, <3>2
    <3> QED
      BY <1>1, <1>2, <1>4, <2>2, <2>5, <3>2, <3>3 DEF Passes
  <2> QED
    BY <2>4, <2>5
<1> QED
  BY <1>3, <1>4

LEMMA SkipPasses ==
    ASSUME NEW o, Sound(o), NEW n \in Nat \ {0}
    PROVE  Passes(o, n, LineSkip(o, n))
<1>1. PICK r, a : r = LineSkip(o, n) /\ a = Advanced(o, n)
  OBVIOUS
<1>2. o \in LineType /\ o.pos \in Nat /\ o.end \in Nat
      /\ ("GOAL" \in o.flags => "TIME" \in o.flags)
      /\ ("GOAL_RATIO" \in o.flags => "GOAL" \in o.flags)
  BY DEF Sound, LineType
<1>3. /\ a \in LineType /\ a.v0 = o.v0 /\ a.vt = o.vt /\ a.end = o.end
      /\ \A f : f # "TIME" => (f \in a.flags <=> f \in o.flags)
      /\ o.pos + n < o.end => /\ a.pos = o.pos + n
                              /\ "TIME" \in a.flags <=> "TIME" \in o.flags
      /\ ~(o.pos + n < o.end) => a.pos = 0 /\ "TIME" \notin a.flags
  BY <1>1, <1>2, AdvancedFacts
<1>4. CASE "GOAL" \notin o.flags \/ o.pos + n < o.end
  <2>1. r = a
    BY <1>1, <1>4 DEF LineSkip
  <2> QED
    BY <1>1, <1>2, <1>3, <1>4, <2>1 DEF Passes
<1>5. CASE "GOAL" \in o.flags /\ ~(o.pos + n < o.end)
  <2>1. PICK kind : kind = IF "GOAL_RATIO" \in o.flags THEN {"STATE_RATIO"} ELSE {}
    OBVIOUS
  <2>2. PICK flags :
          flags = (a.flags \ {"GOAL", "GOAL_RATIO", "STATE_RATIO"}) \union kind
    OBVIOUS
  <2>3. r = [a EXCEPT !.v0 = o.vt, !.flags = flags]
    BY <1>1, <1>5, <2>1, <2>2 DEF LineSkip
  <2>4. o.vt \in Int /\ flags \in SUBSET {"STATE_RATIO", "GOAL", "GOAL_RATIO", "TIME"}
    BY <1>2, <1>3, <2>1, <2>2 DEF LineType
  <2>5. r \in LineType /\ r.v0 = o.vt /\ r.vt = a.vt /\ r.end = a.end
        /\ r.pos = a.pos /\ r.flags = flags
    BY <1>3, <2>3, <2>4 DEF LineType
  <2>6. "TIME" \notin r.flags /\ "GOAL" \notin r.flags
        /\ "GOAL_RATIO" \notin r.flags
        /\ ("STATE_RATIO" \in r.flags <=> "GOAL_RATIO" \in o.flags)
    BY <1>3, <1>5, <2>1, <2>2, <2>5
  <2> QED
    BY <1>1, <1>2, <1>3, <1>5, <2>5, <2>6 DEF Passes
<1> QED
  BY <1>4, <1>5

LEMMA PassesSound ==
    ASSUME NEW o, Sound(o), NEW n \in Nat \ {0}, NEW r, Passes(o, n, r)
    PROVE  Sound(r)
<1>1. /\ o \in LineType /\ o.pos \in Nat /\ o.end \in Nat
      /\ r \in LineType /\ r.end = o.end
  BY DEF Sound, Passes, LineType
<1>2. "GOAL" \in r.flags \/ r.pos = 0 \/ r.pos < r.end
  BY <1>1 DEF Passes
<1>3. "GOAL" \in r.flags => "TIME" \in r.flags
  BY DEF Sound, Passes
<1>4. Ratios = {} => r.flags \intersect {"STATE_RATIO", "GOAL_RATIO"} = {}
  BY DEF Sound, Passes
<1> QED
  BY <1>1, <1>2, <1>3, <1>4 DEF Sound, Passes

-----------------------------------------------------------------------------
(* What setting something of a line does to it. *)

LEMMA PointInt ==
    ASSUME NEW a \in Int, NEW b \in Int, NEW p \in Nat, NEW n \in Nat, p < n
    PROVE  Point(a, b, p, n) \in Int
<1>1. PICK x : x = (b - a) * p
  OBVIOUS
<1>2. x \in Int
  BY <1>1
<1>3. x \div n \in Int
  BY <1>2
<1> QED
  BY <1>1, <1>3 DEF Point

(* The state: given, or where the line is on its way, or as it was. *)
StateSet(o, src, u, s) ==
    /\ s \in LineType /\ s.vt = o.vt /\ s.pos = o.pos /\ s.end = o.end
    /\ \A f : f # "STATE_RATIO" => (f \in s.flags <=> f \in o.flags)
    /\ "STATE" \in src.flags =>
          s.v0 = src.v0 /\ ("STATE_RATIO" \in s.flags <=> "STATE_RATIO" \in src.flags)
    /\ "STATE" \notin src.flags /\ "GOAL" \in o.flags /\ "GOAL" \in src.flags =>
          /\ s.v0 = IF o.pos < o.end THEN Point(o.v0, o.vt, o.pos, o.end) ELSE u
          /\ "STATE_RATIO" \in s.flags <=> "GOAL_RATIO" \in o.flags
    /\ "STATE" \notin src.flags /\ ~("GOAL" \in o.flags /\ "GOAL" \in src.flags) =>
          s.v0 = o.v0 /\ ("STATE_RATIO" \in s.flags <=> "STATE_RATIO" \in o.flags)

LEMMA StateCopied ==
    ASSUME NEW o \in LineType, NEW src, src.v0 \in Int, NEW u \in Int
    PROVE  StateSet(o, src, u, CopiedState(o, src, u))
<1>1. PICK s, a : s = CopiedState(o, src, u) /\ a = Adjusted(o, 1)
  OBVIOUS
<1>2. /\ o.v0 \in Int /\ o.vt \in Int /\ o.pos \in Nat /\ o.end \in Nat
      /\ o.flags \in SUBSET {"STATE_RATIO", "GOAL", "GOAL_RATIO", "TIME"}
  BY DEF LineType
<1>3. CASE "STATE" \in src.flags
  <2>1. PICK flags : flags = (o.flags \ {"STATE_RATIO"})
                             \union (src.flags \intersect {"STATE_RATIO"})
    OBVIOUS
  <2>2. flags \in SUBSET {"STATE_RATIO", "GOAL", "GOAL_RATIO", "TIME"}
    BY <1>2, <2>1
  <2>3. s = [o EXCEPT !.v0 = src.v0, !.flags = flags]
    BY <1>1, <1>3, <2>1 DEF CopiedState
  <2>4. PICK z : z = [o EXCEPT !.v0 = src.v0]
    OBVIOUS
  <2>5. z \in LineType /\ z.v0 = src.v0 /\ z.vt = o.vt /\ z.pos = o.pos /\ z.end = o.end
    BY <2>4 DEF LineType
  <2>6. s = [z EXCEPT !.flags = flags]
    BY <2>3, <2>4
  <2>7. /\ s \in LineType /\ s.v0 = z.v0 /\ s.vt = z.vt /\ s.pos = z.pos
        /\ s.end = z.end /\ s.flags = flags
    BY <2>2, <2>5, <2>6 DEF LineType
  <2> QED
    BY <1>1, <1>3, <2>1, <2>5, <2>7 DEF StateSet
<1>4. CASE "STATE" \notin src.flags /\ "GOAL" \in o.flags /\ "GOAL" \in src.flags
  <2>1. /\ a \in LineType /\ a.vt = o.vt /\ a.pos = o.pos /\ a.end = o.end
        /\ \A f : f # "STATE_RATIO" => (f \in a.flags <=> f \in o.flags)
        /\ "STATE_RATIO" \in a.flags <=> "GOAL_RATIO" \in o.flags
        /\ a.v0 = o.v0
    BY <1>1, AdjustedFacts
  <2>2. PICK x : x = IF Count(o, 1) = 0 THEN u
                     ELSE Point(o.v0, o.vt, o.pos, o.end)
    OBVIOUS
  <2>3. Count(o, 1) = 0 <=> ~(o.pos < o.end)
    BY <1>4, CountFacts
  <2>4. x \in Int /\ x = IF o.pos < o.end THEN Point(o.v0, o.vt, o.pos, o.end) ELSE u
    BY <1>2, <2>2, <2>3, PointInt
  <2>5. s = [a EXCEPT !.v0 = x]
    BY <1>1, <1>4, <2>1, <2>2 DEF CopiedState
  <2>6. /\ s \in LineType /\ s.v0 = x /\ s.vt = a.vt /\ s.pos = a.pos
        /\ s.end = a.end /\ s.flags = a.flags
    BY <2>1, <2>4, <2>5 DEF LineType
  <2> QED
    BY <1>1, <1>4, <2>1, <2>4, <2>6 DEF StateSet
<1>5. CASE "STATE" \notin src.flags /\ ~("GOAL" \in o.flags /\ "GOAL" \in src.flags)
  <2>1. s = o
    BY <1>1, <1>5 DEF CopiedState
  <2> QED
    BY <1>1, <1>5, <2>1 DEF StateSet
<1> QED
  BY <1>3, <1>4, <1>5

(* The goal, and with it the position. *)
LEMMA GoalCopied ==
    ASSUME NEW s \in LineType, NEW src, src.vt \in Int, "GOAL" \in src.flags,
           NEW g, g = CopiedGoal(s, src)
    PROVE  /\ g \in LineType /\ g.v0 = s.v0 /\ g.vt = src.vt /\ g.pos = 0
           /\ g.end = IF "TIME_IF_NEW" \in src.flags THEN (s.end - s.pos) % Wrap
                      ELSE s.end
           /\ "GOAL" \in g.flags
           /\ "GOAL_RATIO" \in g.flags <=> "GOAL_RATIO" \in src.flags
           /\ "STATE_RATIO" \in g.flags <=> "STATE_RATIO" \in s.flags
           /\ "TIME" \in g.flags <=> "TIME" \in s.flags
<1>1. /\ s.v0 \in Int /\ s.vt \in Int /\ s.pos \in Nat /\ s.end \in Nat
      /\ s.flags \in SUBSET {"STATE_RATIO", "GOAL", "GOAL_RATIO", "TIME"}
  BY DEF LineType
<1>2. PICK flags : flags = (s.flags \ {"GOAL_RATIO"})
                           \union (src.flags \intersect {"GOAL", "GOAL_RATIO"})
  OBVIOUS
<1>3. PICK e : e = IF "TIME_IF_NEW" \in src.flags THEN (s.end - s.pos) % Wrap
                   ELSE s.end
  OBVIOUS
<1>4. flags \in SUBSET {"STATE_RATIO", "GOAL", "GOAL_RATIO", "TIME"}
  BY <1>1, <1>2
<1>5. e \in Nat
  <2>1. Wrap \in Nat \ {0} /\ s.end - s.pos \in Int
    BY <1>1, LineConstants
  <2>2. (s.end - s.pos) % Wrap \in Nat
    BY <2>1
  <2> QED
    BY <1>1, <1>3, <2>2
<1>6. g = [s EXCEPT !.vt = src.vt, !.pos = 0, !.end = e, !.flags = flags]
  BY <1>2, <1>3 DEF CopiedGoal
<1>7. PICK y : y = [s EXCEPT !.vt = src.vt, !.pos = 0]
  OBVIOUS
<1>8. PICK x : x = [s EXCEPT !.vt = src.vt]
  OBVIOUS
<1>9. x \in LineType /\ x.v0 = s.v0 /\ x.vt = src.vt /\ y = [x EXCEPT !.pos = 0]
  BY <1>7, <1>8 DEF LineType
<1>10. y \in LineType /\ y.v0 = s.v0 /\ y.vt = src.vt /\ y.pos = 0
  BY <1>9 DEF LineType
<1>11. g = [y EXCEPT !.end = e, !.flags = flags]
  BY <1>6, <1>7
<1>12. /\ g \in LineType /\ g.v0 = s.v0 /\ g.vt = src.vt /\ g.pos = 0
       /\ g.end = e /\ g.flags = flags
  BY <1>4, <1>5, <1>10, <1>11 DEF LineType
<1>13. /\ "GOAL" \in flags
       /\ "GOAL_RATIO" \in flags <=> "GOAL_RATIO" \in src.flags
       /\ "STATE_RATIO" \in flags <=> "STATE_RATIO" \in s.flags
       /\ "TIME" \in flags <=> "TIME" \in s.flags
  BY <1>2
<1> QED
  BY <1>3, <1>12, <1>13

LEMMA TimeCopied ==
    ASSUME NEW g \in LineType, NEW src, src.time \in Nat,
           NEW r, r = CopiedTime(g, src)
    PROVE  /\ r \in LineType /\ r.v0 = g.v0 /\ r.vt = g.vt /\ r.pos = g.pos
           /\ r.end = IF TimeKept(g, src) THEN g.end ELSE src.time
           /\ "TIME" \in r.flags
           /\ \A f : f # "TIME" => (f \in r.flags <=> f \in g.flags)
<1>1. g.flags \in SUBSET {"STATE_RATIO", "GOAL", "GOAL_RATIO", "TIME"}
  BY DEF LineType
<1>2. CASE TimeKept(g, src)
  BY <1>2 DEF CopiedTime, TimeKept
<1>3. CASE ~TimeKept(g, src)
  <2>1. PICK flags : flags = g.flags \union {"TIME"}
    OBVIOUS
  <2>2. flags \in SUBSET {"STATE_RATIO", "GOAL", "GOAL_RATIO", "TIME"}
    BY <1>1, <2>1
  <2>3. r = [g EXCEPT !.end = src.time, !.flags = flags]
    BY <1>3, <2>1 DEF CopiedTime
  <2>4. PICK z : z = [g EXCEPT !.end = src.time]
    OBVIOUS
  <2>5. z \in LineType /\ z.v0 = g.v0 /\ z.vt = g.vt /\ z.pos = g.pos
        /\ z.end = src.time
    BY <2>4 DEF LineType
  <2>6. r = [z EXCEPT !.flags = flags]
    BY <2>3, <2>4
  <2>7. /\ r \in LineType /\ r.v0 = g.v0 /\ r.vt = g.vt /\ r.pos = g.pos
        /\ r.end = src.time /\ r.flags = flags
    BY <2>2, <2>5, <2>6 DEF LineType
  <2> QED
    BY <1>3, <2>1, <2>7
<1> QED
  BY <1>2, <1>3

(* All that is set of a line, in terms of what was given. *)
KeepsTime(o, t) == "TIME" \in o.flags /\ t = {}

Sets(o, src, v, g, t, u, r) ==
    /\ r \in LineType /\ "TIME" \in r.flags
    /\ v # {} => r.v0 = Number(v) /\ ("STATE_RATIO" \in r.flags <=> IsRatio(v))
    /\ v = {} /\ "GOAL" \in o.flags /\ g # {} =>
          /\ r.v0 = IF o.pos < o.end THEN Point(o.v0, o.vt, o.pos, o.end) ELSE u
          /\ "STATE_RATIO" \in r.flags <=> "GOAL_RATIO" \in o.flags
    /\ v = {} /\ ~("GOAL" \in o.flags /\ g # {}) =>
          r.v0 = o.v0 /\ ("STATE_RATIO" \in r.flags <=> "STATE_RATIO" \in o.flags)
    /\ g # {} => /\ r.vt = Number(g) /\ r.pos = 0 /\ "GOAL" \in r.flags
                 /\ "GOAL_RATIO" \in r.flags <=> IsRatio(g)
    /\ g = {} => /\ r.vt = o.vt /\ r.pos = o.pos
                 /\ "GOAL" \in r.flags <=> "GOAL" \in o.flags
                 /\ "GOAL_RATIO" \in r.flags <=> "GOAL_RATIO" \in o.flags
    /\ ~KeepsTime(o, t) => r.end = src.time
    /\ KeepsTime(o, t) => r.end = IF g # {} THEN (o.end - o.pos) % Wrap ELSE o.end

LEMMA CopiedSets ==
    ASSUME NEW o \in LineType, NEW src, NEW v, NEW g, NEW t, NEW dur,
           SourceOf(src, v, g, t, dur), NEW u \in Int
    PROVE  Sets(o, src, v, g, t, u, Copied(o, src, u))
<1>1. PICK s, h, r : /\ s = CopiedState(o, src, u) /\ h = CopiedGoal(s, src)
                     /\ r = CopiedTime(h, src)
  OBVIOUS
<1>2. r = Copied(o, src, u)
  BY <1>1 DEF Copied
<1>3. /\ src.v0 = Number(v) /\ src.v0 \in Int /\ src.vt = Number(g) /\ src.vt \in Int
      /\ src.time \in Nat
      /\ ("STATE" \in src.flags <=> v # {})
      /\ ("STATE_RATIO" \in src.flags <=> IsRatio(v))
      /\ ("GOAL" \in src.flags <=> g # {})
      /\ ("GOAL_RATIO" \in src.flags <=> IsRatio(g))
      /\ ("TIME_IF_NEW" \in src.flags <=> t = {})
  BY LineConstants DEF SourceOf
<1>4. StateSet(o, src, u, s)
  BY <1>1, <1>3, StateCopied
<1>5. /\ s \in LineType /\ s.vt = o.vt /\ s.pos = o.pos /\ s.end = o.end
      /\ "GOAL" \in s.flags <=> "GOAL" \in o.flags
      /\ "GOAL_RATIO" \in s.flags <=> "GOAL_RATIO" \in o.flags
      /\ "TIME" \in s.flags <=> "TIME" \in o.flags
  BY <1>4 DEF StateSet
<1>6. /\ h \in LineType /\ h.v0 = s.v0
      /\ "STATE_RATIO" \in h.flags <=> "STATE_RATIO" \in s.flags
      /\ "TIME" \in h.flags <=> "TIME" \in o.flags
      /\ g # {} => /\ h.vt = Number(g) /\ h.pos = 0 /\ "GOAL" \in h.flags
                   /\ "GOAL_RATIO" \in h.flags <=> IsRatio(g)
                   /\ t = {} => h.end = (o.end - o.pos) % Wrap
      /\ g = {} => /\ h.vt = o.vt /\ h.pos = o.pos /\ h.end = o.end
                   /\ "GOAL" \in h.flags <=> "GOAL" \in o.flags
                   /\ "GOAL_RATIO" \in h.flags <=> "GOAL_RATIO" \in o.flags
  <2>1. CASE g # {}
    <3>1. /\ h \in LineType /\ h.v0 = s.v0 /\ h.vt = src.vt /\ h.pos = 0
          /\ h.end = IF "TIME_IF_NEW" \in src.flags THEN (s.end - s.pos) % Wrap
                     ELSE s.end
          /\ "GOAL" \in h.flags
          /\ "GOAL_RATIO" \in h.flags <=> "GOAL_RATIO" \in src.flags
          /\ "STATE_RATIO" \in h.flags <=> "STATE_RATIO" \in s.flags
          /\ "TIME" \in h.flags <=> "TIME" \in s.flags
      BY <1>1, <1>3, <1>5, <2>1, GoalCopied
    <3> QED
      BY <1>3, <1>5, <2>1, <3>1
  <2>2. CASE g = {}
    <3>1. h = s
      BY <1>1, <1>3, <2>2 DEF CopiedGoal
    <3> QED
      BY <1>5, <2>2, <3>1
  <2> QED
    BY <2>1, <2>2
<1>7. /\ r \in LineType /\ r.v0 = h.v0 /\ r.vt = h.vt /\ r.pos = h.pos
      /\ r.end = IF TimeKept(h, src) THEN h.end ELSE src.time
      /\ "TIME" \in r.flags
      /\ \A f : f # "TIME" => (f \in r.flags <=> f \in h.flags)
  BY <1>1, <1>3, <1>6, TimeCopied
<1>8. TimeKept(h, src) <=> KeepsTime(o, t)
  BY <1>3, <1>6 DEF TimeKept, KeepsTime
<1>9. /\ v # {} => s.v0 = Number(v) /\ ("STATE_RATIO" \in s.flags <=> IsRatio(v))
      /\ v = {} /\ "GOAL" \in o.flags /\ g # {} =>
            /\ s.v0 = IF o.pos < o.end THEN Point(o.v0, o.vt, o.pos, o.end) ELSE u
            /\ "STATE_RATIO" \in s.flags <=> "GOAL_RATIO" \in o.flags
      /\ v = {} /\ ~("GOAL" \in o.flags /\ g # {}) =>
            s.v0 = o.v0 /\ ("STATE_RATIO" \in s.flags <=> "STATE_RATIO" \in o.flags)
  BY <1>3, <1>4 DEF StateSet
<1>10. /\ "STATE_RATIO" \in r.flags <=> "STATE_RATIO" \in s.flags
       /\ r.v0 = s.v0
       /\ "GOAL" \in r.flags <=> "GOAL" \in h.flags
       /\ "GOAL_RATIO" \in r.flags <=> "GOAL_RATIO" \in h.flags
  BY <1>6, <1>7
<1>11. /\ ~KeepsTime(o, t) => r.end = src.time
       /\ KeepsTime(o, t) => r.end = IF g # {} THEN (o.end - o.pos) % Wrap ELSE o.end
  <2>1. KeepsTime(o, t) => t = {}
    BY DEF KeepsTime
  <2> QED
    BY <1>6, <1>7, <1>8, <2>1
<1>12. /\ v # {} => r.v0 = Number(v) /\ ("STATE_RATIO" \in r.flags <=> IsRatio(v))
       /\ v = {} /\ "GOAL" \in o.flags /\ g # {} =>
             /\ r.v0 = IF o.pos < o.end THEN Point(o.v0, o.vt, o.pos, o.end) ELSE u
             /\ "STATE_RATIO" \in r.flags <=> "GOAL_RATIO" \in o.flags
       /\ v = {} /\ ~("GOAL" \in o.flags /\ g # {}) =>
             r.v0 = o.v0 /\ ("STATE_RATIO" \in r.flags <=> "STATE_RATIO" \in o.flags)
  BY <1>9, <1>10
<1>13. /\ g # {} => /\ r.vt = Number(g) /\ r.pos = 0 /\ "GOAL" \in r.flags
                    /\ "GOAL_RATIO" \in r.flags <=> IsRatio(g)
       /\ g = {} => /\ r.vt = o.vt /\ r.pos = o.pos
                    /\ "GOAL" \in r.flags <=> "GOAL" \in o.flags
                    /\ "GOAL_RATIO" \in r.flags <=> "GOAL_RATIO" \in o.flags
  BY <1>6, <1>7, <1>10
<1> QED
  BY <1>2, <1>7, <1>11, <1>12, <1>13, Zenon DEF Sets

(* Where updates do not come in the states in which the code loses track:  *)
(* a time that is set anew is from now on, and a goal from where the line  *)
(* is on its way to the one before.                                        *)
OnTrack(o, v, g, t) ==
    /\ "GOAL" \in o.flags \/ g # {} \/ KeepsTime(o, t) \/ o.pos = 0
    /\ "GOAL" \in o.flags /\ g # {} =>
          /\ o.pos < o.end
          /\ v # {} \/ ("STATE_RATIO" \in o.flags <=> "GOAL_RATIO" \in o.flags)

(* What remains of the time does not wrap around. *)
LEMMA RestOfTime ==
    ASSUME NEW o, Sound(o), NEW v, NEW g, g # {}, NEW t, OnTrack(o, v, g, t)
    PROVE  /\ (o.end - o.pos) % Wrap =
                 IF o.pos < o.end THEN o.end - o.pos ELSE 0
           /\ (o.end - o.pos) % Wrap <= o.end
<1>1. o.pos \in Nat /\ o.end \in Nat /\ Wrap \in Nat \ {0}
  BY LineConstants DEF Sound, LineType
<1>2. o.end < Wrap
  <2>1. CASE o.end = 0
    BY <1>1, <2>1
  <2>2. CASE \E t2 \in Times : o.end <= t2
    <3>1. PICK t2 \in Times : o.end <= t2
      BY <2>2
    <3>2. t2 \in 0..(Wrap - 1)
      BY LineConstants
    <3> QED
      BY <1>1, <3>1, <3>2
  <2> QED
    BY <2>1, <2>2 DEF Sound
<1>3. o.pos = 0 \/ o.pos < o.end
  BY DEF Sound, OnTrack
<1>4. o.end - o.pos \in 0..(Wrap - 1)
  BY <1>1, <1>2, <1>3
<1>5. (o.end - o.pos) % Wrap = o.end - o.pos
  BY <1>1, <1>4
<1> QED
  BY <1>1, <1>3, <1>5

LEMMA SetsSound ==
    ASSUME NEW o, Sound(o), NEW src, NEW v, NEW g, NEW t, NEW dur,
           SourceOf(src, v, g, t, dur), NEW u \in Int,
           OnTrack(o, v, g, t), NEW r, Sets(o, src, v, g, t, u, r)
    PROVE  Sound(r)
<1>1. /\ o \in LineType /\ o.pos \in Nat /\ o.end \in Nat
      /\ r \in LineType /\ r.end \in Nat /\ r.pos \in Nat
  BY DEF Sound, Sets, LineType
<1>2. r.end = 0 \/ \E x \in Times : r.end <= x
  <2>1. CASE ~KeepsTime(o, t)
    <3>1. r.end = src.time /\ src.time \in Times
      BY <2>1 DEF Sets, SourceOf
    <3> QED
      BY <1>1, <3>1
  <2>2. CASE KeepsTime(o, t) /\ g = {}
    <3>1. r.end = o.end
      BY <2>2 DEF Sets
    <3> QED
      BY <3>1 DEF Sound
  <2>3. CASE KeepsTime(o, t) /\ g # {}
    <3>1. r.end = (o.end - o.pos) % Wrap
      BY <2>3 DEF Sets
    <3>2. r.end <= o.end
      BY <2>3, <3>1, RestOfTime
    <3>3. o.end = 0 \/ \E x \in Times : o.end <= x
      BY DEF Sound
    <3> QED
      BY <1>1, <3>2, <3>3, LineConstants
  <2> QED
    BY <2>1, <2>2, <2>3
<1>3. "GOAL" \in r.flags \/ r.pos = 0 \/ r.pos < r.end
  <2>1. CASE g # {}
    BY <2>1 DEF Sets
  <2>2. CASE g = {}
    BY <1>1, <2>2 DEF Sets, Sound, OnTrack
  <2> QED
    BY <2>1, <2>2
<1>4. /\ "GOAL" \in r.flags => "TIME" \in r.flags
      /\ "GOAL_RATIO" \in r.flags => "GOAL" \in r.flags
  BY DEF Sets, Sound, SourceOf
<1>5. Ratios = {} => r.flags \intersect {"STATE_RATIO", "GOAL_RATIO"} = {}
  BY DEF Sets, Sound, SourceOf
<1> QED
  BY <1>1, <1>2, <1>3, <1>4, <1>5 DEF Sound

-----------------------------------------------------------------------------
(* The invariant. *)

LEMMA UpdateSets ==
    ASSUME LineInv, ~Loose, NEW v \in Maybe(Numbers), NEW g \in Maybe(Numbers),
           NEW t \in Maybe(Times), NEW dur \in Times, Update(v, g, t, dur)
    PROVE  \E src, u : /\ SourceOf(src, v, g, t, dur) /\ u \in Int
                       /\ Sets(line, src, v, g, t, u, line')
                       /\ OnTrack(line, v, g, t)
<1>1. PICK src : src = Source(v, g, t, dur)
  OBVIOUS
<1>2. SourceOf(src, v, g, t, dur)
  BY <1>1, SourceFacts
<1>3. PICK u \in Garbage : line' = Copied(line, src, u)
  BY <1>1 DEF Update
<1>4. u \in Int /\ line \in LineType
  BY LineConstants DEF LineInv, Sound
<1>5. Sets(line, src, v, g, t, u, line')
  <2>1. PICK o : o = line
    OBVIOUS
  <2>2. Sets(o, src, v, g, t, u, Copied(o, src, u))
    BY <1>2, <1>4, <2>1, CopiedSets
  <2> QED
    BY <1>3, <2>1, <2>2
<1>6. ~StalePosition(src) /\ ~GoalNotRun(src) /\ ~KindUnsettled(src)
  BY <1>1 DEF Update
<1>7. OnTrack(line, v, g, t)
  <2>1. TimeKept(line, src) <=> KeepsTime(line, t)
    BY <1>2 DEF TimeKept, KeepsTime, SourceOf
  <2>2. line.pos \in Nat /\ line.end \in Nat
    BY <1>4 DEF LineType
  <2>3. "GOAL" \in line.flags \/ g # {} \/ KeepsTime(line, t) \/ line.pos = 0
    BY <1>2, <1>6, <2>1 DEF StalePosition, SourceOf
  <2>4. "GOAL" \in line.flags /\ g # {} => line.pos < line.end
    BY <1>2, <1>6, <2>2 DEF GoalNotRun, SourceOf
  <2>5. "GOAL" \in line.flags /\ g # {} /\ v = {} =>
            ("STATE_RATIO" \in line.flags <=> "GOAL_RATIO" \in line.flags)
    BY <1>2, <1>6 DEF KindUnsettled, SourceOf
  <2> QED
    BY <2>3, <2>4, <2>5 DEF OnTrack
<1> QED
  BY <1>2, <1>4, <1>5, <1>7

LEMMA LineStep ==
    ASSUME LineInv, ~Loose, [Next]_vars
    PROVE  LineInv'
<1>1. ASSUME NEW v \in Maybe(Numbers), NEW g \in Maybe(Numbers),
             NEW t \in Maybe(Times), NEW dur \in Times, Update(v, g, t, dur)
      PROVE  LineInv'
  <2>1. PICK src, u : /\ SourceOf(src, v, g, t, dur) /\ u \in Int
                      /\ Sets(line, src, v, g, t, u, line')
                      /\ OnTrack(line, v, g, t)
    BY <1>1, UpdateSets
  <2>2. PICK o, r : o = line /\ r = line'
    OBVIOUS
  <2>3. Sound(r)
    BY <2>1, <2>2, SetsSound DEF LineInv
  <2> QED
    BY <2>2, <2>3 DEF LineInv
<1>2. ASSUME NEW n \in 1..MaxLen, Run(n) \/ Skip(n)
      PROVE  LineInv'
  <2>1. PICK o, r : o = line /\ r = line'
    OBVIOUS
  <2>2. n \in Nat \ {0} /\ Sound(o)
    BY <2>1, LineConstants DEF LineInv
  <2>3. r = LineRun(o, n) \/ r = LineSkip(o, n)
    BY <1>2, <2>1 DEF Run, Skip
  <2>4. Passes(o, n, r)
    BY <2>2, <2>3, RunPasses, SkipPasses
  <2>5. Sound(r)
    BY <2>2, <2>4, PassesSound
  <2> QED
    BY <2>1, <2>5 DEF LineInv
<1>3. ASSUME UNCHANGED vars PROVE LineInv'
  BY <1>3 DEF vars, LineInv
<1> QED
  BY <1>1, <1>2, <1>3 DEF Next

LEMMA LineInit ==
    ASSUME Init
    PROVE  LineInv
<1>1. line = [v0 |-> 0, vt |-> 0, pos |-> 0, end |-> 0, flags |-> {}]
  BY DEF Init, Fresh
<1>2. line \in LineType
  BY <1>1 DEF LineType
<1> QED
  BY <1>1, <1>2 DEF LineInv, Sound

(* A line stays sound, for all values and times: a position without a goal *)
(* is within its time, and a goal has a time it is to be reached in.       *)
THEOREM LineInvariant ==
    ASSUME ~Loose
    PROVE  Spec => []LineInv
<1>1. Init => LineInv
  BY LineInit
<1>2. LineInv /\ [Next]_vars => LineInv'
  BY LineStep
<1> QED
  BY <1>1, <1>2, PTL DEF Spec

(* A line keeps its type, and never has an end past the times set of it:   *)
(* what remains of a time is not taken below zero (sauLine_copy()).        *)
THEOREM LineTyping ==
    ASSUME ~Loose
    PROVE  Spec => []TypeOK
<1>1. LineInv => TypeOK
  BY DEF LineInv, Sound, LineType, TypeOK
<1> QED
  BY <1>1, LineInvariant, PTL

-----------------------------------------------------------------------------
(* The line as a sweep. *)

StartOf(o) == Multiplied(o.v0, "STATE_RATIO" \in o.flags)
GoalOf(o) == IF "GOAL" \in o.flags
             THEN Multiplied(o.vt, "GOAL_RATIO" \in o.flags) ELSE 0
PassedOf(o) == IF "GOAL" \in o.flags THEN o.pos ELSE 0
TotalOf(o) == IF "GOAL" \in o.flags THEN o.end ELSE 0
LeftOf(o) == CASE ~("TIME" \in o.flags) -> NoTime
               [] "TIME" \in o.flags /\ o.pos < o.end -> o.end - o.pos
               [] OTHER -> 0

LEMMA ExactMultiplied ==
    ASSUME Exact, NEW n \in Int, NEW b \in BOOLEAN, b => Ratios # {}
    PROVE  Multiplied(n, b) = n
<1>1. CASE Mul = 1
  <2>1. n * Mul = n
    BY <1>1
  <2> QED
    BY <2>1 DEF Multiplied
<1>2. CASE Ratios = {}
  BY <1>2 DEF Multiplied
<1> QED
  BY <1>1, <1>2 DEF Exact

LEMMA ExactEnds ==
    ASSUME Exact, NEW o, Sound(o)
    PROVE  /\ StartOf(o) = o.v0 /\ o.v0 \in Int
           /\ GoalOf(o) = IF "GOAL" \in o.flags THEN o.vt ELSE 0
           /\ o.vt \in Int
<1>1. /\ o.v0 \in Int /\ o.vt \in Int
      /\ "STATE_RATIO" \in o.flags \/ "GOAL_RATIO" \in o.flags => Ratios # {}
  BY DEF Sound, LineType
<1>2. PICK a \in BOOLEAN, b \in BOOLEAN :
          (a <=> "STATE_RATIO" \in o.flags) /\ (b <=> "GOAL_RATIO" \in o.flags)
  OBVIOUS
<1>3. Multiplied(o.v0, a) = o.v0 /\ Multiplied(o.vt, b) = o.vt
  BY <1>1, <1>2, ExactMultiplied
<1> QED
  BY <1>1, <1>2, <1>3 DEF StartOf, GoalOf, Multiplied

(* Sweep's operators and steps, for a line o and the line r made of it. *)
SweepValue(o, n) ==
    CASE ~("GOAL" \in o.flags) -> StartOf(o)
      [] "GOAL" \in o.flags /\ PassedOf(o) + n < TotalOf(o) ->
            Point(StartOf(o), GoalOf(o), PassedOf(o) + n, TotalOf(o))
      [] OTHER -> GoalOf(o)

SweepPass(o, n, r) ==
    /\ LeftOf(r) = IF LeftOf(o) > n THEN LeftOf(o) - n ELSE NoTime
    /\ IF "GOAL" \in o.flags /\ PassedOf(o) + n >= TotalOf(o)
       THEN /\ StartOf(r) = GoalOf(o) /\ GoalOf(r) = 0
            /\ ("GOAL" \in r.flags) = FALSE /\ PassedOf(r) = 0 /\ TotalOf(r) = 0
       ELSE /\ PassedOf(r) = IF "GOAL" \in o.flags THEN PassedOf(o) + n ELSE 0
            /\ StartOf(r) = StartOf(o)
            /\ ("GOAL" \in r.flags) = ("GOAL" \in o.flags)
            /\ GoalOf(r) = GoalOf(o) /\ TotalOf(r) = TotalOf(o)

LEMMA PassSweeps ==
    ASSUME Exact, NEW o, Sound(o), NEW n \in Nat \ {0}, NEW r, Passes(o, n, r)
    PROVE  SweepPass(o, n, r)
<1>1. Sound(r)
  BY PassesSound
<1>2. /\ StartOf(o) = o.v0 /\ GoalOf(o) = IF "GOAL" \in o.flags THEN o.vt ELSE 0
      /\ StartOf(r) = r.v0 /\ GoalOf(r) = IF "GOAL" \in r.flags THEN r.vt ELSE 0
  BY <1>1, ExactEnds
<1>3. /\ o.pos \in Nat /\ o.end \in Nat /\ r.pos \in Nat /\ r.end = o.end
      /\ ("GOAL" \in o.flags => "TIME" \in o.flags)
      /\ ("GOAL" \in o.flags \/ o.pos = 0 \/ o.pos < o.end)
  BY <1>1 DEF Sound, LineType, Passes
<1>4. LeftOf(r) = IF LeftOf(o) > n THEN LeftOf(o) - n ELSE NoTime
  <2>1. CASE o.pos + n < o.end
    <3>1. r.pos = o.pos + n /\ ("TIME" \in r.flags <=> "TIME" \in o.flags)
      BY <2>1 DEF Passes
    <3>2. CASE "TIME" \in o.flags
      <4>1. LeftOf(o) = o.end - o.pos /\ LeftOf(r) = o.end - (o.pos + n)
        BY <1>3, <2>1, <3>1, <3>2 DEF LeftOf
      <4> QED
        BY <1>3, <2>1, <4>1
    <3>3. CASE "TIME" \notin o.flags
      <4>1. LeftOf(o) = NoTime /\ LeftOf(r) = NoTime
        BY <3>1, <3>3 DEF LeftOf
      <4> QED
        BY <4>1 DEF NoTime
    <3> QED
      BY <3>2, <3>3
  <2>2. CASE ~(o.pos + n < o.end)
    <3>1. LeftOf(r) = NoTime
      BY <2>2 DEF Passes, LeftOf
    <3>2. LeftOf(o) \in Int /\ ~(LeftOf(o) > n)
      BY <1>3, <2>2 DEF LeftOf, NoTime
    <3> QED
      BY <3>1, <3>2
  <2> QED
    BY <2>1, <2>2
<1>5. CASE "GOAL" \notin o.flags
  <2>1. r.v0 = o.v0 /\ "GOAL" \notin r.flags
    BY <1>5 DEF Passes
  <2> QED
    BY <1>2, <1>4, <1>5, <2>1 DEF SweepPass, PassedOf, TotalOf
<1>6. CASE "GOAL" \in o.flags /\ o.pos + n < o.end
  <2>1. /\ r.v0 = o.v0 /\ "GOAL" \in r.flags /\ r.vt = o.vt /\ r.pos = o.pos + n
    BY <1>6 DEF Passes
  <2>2. ~(o.pos + n >= o.end)
    BY <1>3, <1>6
  <2> QED
    BY <1>2, <1>3, <1>4, <1>6, <2>1, <2>2 DEF SweepPass, PassedOf, TotalOf
<1>7. CASE "GOAL" \in o.flags /\ ~(o.pos + n < o.end)
  <2>1. r.v0 = o.vt /\ "GOAL" \notin r.flags
    BY <1>7 DEF Passes
  <2>2. o.pos + n >= o.end
    BY <1>3, <1>7
  <2> QED
    BY <1>2, <1>4, <1>7, <2>1, <2>2 DEF SweepPass, PassedOf, TotalOf
<1> QED
  BY <1>5, <1>6, <1>7

(* The values got are those of the sweep. *)
LEMMA FilledSweeps ==
    ASSUME Exact, NEW o, Sound(o), NEW n \in Nat \ {0}
    PROVE  Filled(o, n) = [i \in 1..n |-> SweepValue(o, i - 1)]
<1>1. PICK a, c : a = Adjusted(o, Mul) /\ c = Count(o, n)
  OBVIOUS
<1>2. o \in LineType /\ o.pos \in Nat /\ o.end \in Nat /\ o.v0 \in Int /\ o.vt \in Int
      /\ ("STATE_RATIO" \in o.flags \/ "GOAL_RATIO" \in o.flags => Ratios # {})
  BY DEF Sound, LineType
<1>3. /\ a.v0 = o.v0 /\ a.vt = o.vt /\ a.pos = o.pos /\ a.end = o.end
      /\ "STATE_RATIO" \in a.flags <=> "GOAL_RATIO" \in o.flags
      /\ "GOAL_RATIO" \in a.flags <=> "GOAL_RATIO" \in o.flags
  BY <1>1, <1>2, LineConstants, AdjustedFacts, ExactAdjusted DEF Sound
<1>4. /\ StartOf(o) = o.v0 /\ GoalOf(o) = IF "GOAL" \in o.flags THEN o.vt ELSE 0
  BY ExactEnds
<1>5. PICK x, y, z : /\ x \in BOOLEAN /\ y \in BOOLEAN /\ z \in BOOLEAN
                     /\ x <=> "GOAL_RATIO" \in a.flags
                     /\ y <=> "STATE_RATIO" \in a.flags
                     /\ z <=> "STATE_RATIO" \in o.flags
  OBVIOUS
<1>6. \A k \in Int, b \in {x, y, z} : Multiplied(k, b) = k
  BY <1>2, <1>3, <1>5, ExactMultiplied
<1>7. \A k \in Int : /\ Multiplied(k, "GOAL_RATIO" \in a.flags) = k
                     /\ Multiplied(k, "STATE_RATIO" \in a.flags) = k
                     /\ Multiplied(k, "STATE_RATIO" \in o.flags) = k
  <2>1. TAKE k \in Int
  <2>2. Multiplied(k, x) = k /\ Multiplied(k, y) = k /\ Multiplied(k, z) = k
    BY <1>6
  <2> QED
    BY <1>5, <2>2 DEF Multiplied
<1>8. Filled(o, n) = [i \in 1..n |->
            CASE i <= c -> Multiplied(Point(a.v0, a.vt, a.pos + i - 1, a.end),
                                      "GOAL_RATIO" \in a.flags)
              [] i > c /\ "GOAL" \in o.flags ->
                           Multiplied(a.vt, "STATE_RATIO" \in a.flags)
              [] OTHER -> Multiplied(o.v0, "STATE_RATIO" \in o.flags)]
  BY <1>1 DEF Filled
<1>9. ASSUME NEW i \in 1..n
      PROVE  (CASE i <= c -> Multiplied(Point(a.v0, a.vt, a.pos + i - 1, a.end),
                                      "GOAL_RATIO" \in a.flags)
              [] i > c /\ "GOAL" \in o.flags ->
                           Multiplied(a.vt, "STATE_RATIO" \in a.flags)
              [] OTHER -> Multiplied(o.v0, "STATE_RATIO" \in o.flags))
              = SweepValue(o, i - 1)
  <2>1. CASE "GOAL" \notin o.flags
    <3>1. c = 0 /\ ~(i <= c)
      <4>1. c = 0
        BY <1>1, <1>2, <2>1 DEF Count
      <4> QED
        BY <4>1
    <3>2. SweepValue(o, i - 1) = o.v0
      BY <1>4, <2>1 DEF SweepValue
    <3> QED
      BY <1>2, <1>7, <2>1, <3>1, <3>2
  <2>2. CASE "GOAL" \in o.flags
    <3>1. c \in 0..n /\ (i <= c <=> (o.pos + i) - 1 < o.end)
      BY <1>1, <1>2, <2>2, CountFacts
    <3>2. PICK p : p = (o.pos + i) - 1
      OBVIOUS
    <3>3. p \in Nat /\ p = o.pos + (i - 1)
      BY <1>2, <3>2
    <3>4. PassedOf(o) + (i - 1) = p /\ TotalOf(o) = o.end
      BY <2>2, <3>3 DEF PassedOf, TotalOf
    <3>5. CASE i <= c
      <4>1. SweepValue(o, i - 1) = Point(o.v0, o.vt, p, o.end)
        BY <1>4, <2>2, <3>1, <3>2, <3>4, <3>5 DEF SweepValue
      <4>2. Point(o.v0, o.vt, p, o.end) \in Int
        BY <1>2, <3>1, <3>2, <3>3, <3>5, PointInt
      <4>3. Multiplied(Point(o.v0, o.vt, p, o.end), "GOAL_RATIO" \in a.flags)
              = Point(o.v0, o.vt, p, o.end)
        BY <1>7, <4>2
      <4>4. Point(a.v0, a.vt, a.pos + i - 1, a.end) = Point(o.v0, o.vt, p, o.end)
        BY <1>2, <1>3, <3>2
      <4> QED
        BY <3>1, <3>5, <4>1, <4>3, <4>4
    <3>6. CASE ~(i <= c)
      <4>1. SweepValue(o, i - 1) = o.vt
        BY <1>4, <2>2, <3>1, <3>2, <3>4, <3>6 DEF SweepValue
      <4>2. i > c
        BY <3>1, <3>6
      <4> QED
        BY <1>2, <1>3, <1>7, <2>2, <3>6, <4>1, <4>2
    <3> QED
      BY <3>5, <3>6
  <2> QED
    BY <2>1, <2>2
<1> QED
  BY <1>8, <1>9

SweepUpdate(o, v, g, t, dur, r) ==
    LET kept == t = {} /\ LeftOf(o) # NoTime
        time == IF t = {} THEN dur ELSE CHOOSE x \in t : TRUE
        rest == IF time > PassedOf(o) THEN time - PassedOf(o) ELSE 0
    IN  /\ StartOf(r) \in CASE Absolute(v) # {} -> Absolute(v)
                            [] Absolute(v) = {} /\ Absolute(g) # {} -> {SweepValue(o, 0)}
                            [] OTHER -> {StartOf(o)}
        /\ GoalOf(r) \in IF Absolute(g) # {} THEN Absolute(g) ELSE {GoalOf(o)}
        /\ ("GOAL" \in r.flags) = ("GOAL" \in o.flags \/ Absolute(g) # {})
        /\ PassedOf(r) = IF Absolute(g) # {} THEN 0 ELSE PassedOf(o)
        /\ LeftOf(r) = CASE kept -> LeftOf(o)
                         [] ~kept /\ "GOAL" \in o.flags /\ Absolute(g) = {} -> rest
                         [] OTHER -> time
        /\ TotalOf(r) = CASE Absolute(g) # {} -> LeftOf(r)
                          [] Absolute(g) = {} /\ "GOAL" \in o.flags /\ ~kept -> time
                          [] OTHER -> TotalOf(o)

LEMMA AbsoluteGiven ==
    ASSUME Exact, NEW m \in Maybe(Numbers)
    PROVE  /\ Absolute(m) = {} <=> m = {}
           /\ m # {} => Number(m) \in Absolute(m)
<1>1. CASE m = {}
  BY <1>1 DEF Absolute
<1>2. CASE m # {}
  <2>1. PICK x : m = {x} /\ Number(m) = x.n /\ IsRatio(m) = x.ratio
    BY <1>2, Given
  <2>2. PICK n \in Int, b \in BOOLEAN : n = x.n /\ b = x.ratio
    BY <2>1, Given
  <2>3. b => Ratios # {}
    BY <2>1, <2>2, Given
  <2>4. Multiplied(n, b) = n
    BY <2>2, <2>3, ExactMultiplied
  <2>5. Absolute(m) = {Multiplied(n, b)}
    BY <2>1, <2>2 DEF Absolute
  <2> QED
    BY <1>2, <2>1, <2>2, <2>4, <2>5
<1> QED
  BY <1>1, <1>2

LEMMA UpdateSweeps ==
    ASSUME Exact, NEW o, Sound(o), NEW src, NEW v \in Maybe(Numbers),
           NEW g \in Maybe(Numbers), NEW t, NEW dur,
           SourceOf(src, v, g, t, dur), NEW u \in Int,
           OnTrack(o, v, g, t), NEW r, Sets(o, src, v, g, t, u, r)
    PROVE  SweepUpdate(o, v, g, t, dur, r)
<1>1. Sound(r)
  BY SetsSound
<1>2. /\ StartOf(o) = o.v0 /\ GoalOf(o) = IF "GOAL" \in o.flags THEN o.vt ELSE 0
      /\ StartOf(r) = r.v0 /\ GoalOf(r) = IF "GOAL" \in r.flags THEN r.vt ELSE 0
  BY <1>1, ExactEnds
<1>3. /\ o.pos \in Nat /\ o.end \in Nat /\ r.pos \in Nat /\ r.end \in Nat
      /\ ("GOAL" \in o.flags => "TIME" \in o.flags)
      /\ ("GOAL" \in o.flags \/ o.pos = 0 \/ o.pos < o.end)
  BY <1>1 DEF Sound, LineType
<1>4. /\ Absolute(v) = {} <=> v = {}
      /\ v # {} => Number(v) \in Absolute(v)
      /\ Absolute(g) = {} <=> g = {}
      /\ g # {} => Number(g) \in Absolute(g)
  BY AbsoluteGiven
<1>5. PICK time : time = IF t = {} THEN dur ELSE CHOOSE x \in t : TRUE
  OBVIOUS
<1>6. src.time = time /\ time \in Nat
  BY <1>5, LineConstants DEF SourceOf
<1>7. PICK kept \in BOOLEAN : kept <=> KeepsTime(o, t)
  OBVIOUS
<1>8. kept <=> (t = {} /\ LeftOf(o) # NoTime)
  <2>1. "TIME" \in o.flags <=> LeftOf(o) # NoTime
    BY <1>3 DEF LeftOf, NoTime
  <2> QED
    BY <1>7, <2>1 DEF KeepsTime
<1>9. StartOf(r) \in CASE Absolute(v) # {} -> Absolute(v)
                       [] Absolute(v) = {} /\ Absolute(g) # {} -> {SweepValue(o, 0)}
                       [] OTHER -> {StartOf(o)}
  <2>1. CASE v # {}
    <3>1. r.v0 = Number(v)
      BY <2>1 DEF Sets
    <3> QED
      BY <1>2, <1>4, <2>1, <3>1
  <2>2. CASE v = {} /\ g # {} /\ "GOAL" \in o.flags
    <3>1. o.pos < o.end
      BY <2>2 DEF OnTrack
    <3>2. r.v0 = Point(o.v0, o.vt, o.pos, o.end)
      BY <2>2, <3>1 DEF Sets
    <3>3. SweepValue(o, 0) = Point(o.v0, o.vt, o.pos, o.end)
      BY <1>2, <1>3, <2>2, <3>1 DEF SweepValue, PassedOf, TotalOf
    <3> QED
      BY <1>2, <1>4, <2>2, <3>2, <3>3
  <2>3. CASE v = {} /\ g # {} /\ "GOAL" \notin o.flags
    <3>1. r.v0 = o.v0
      BY <2>3 DEF Sets
    <3>2. SweepValue(o, 0) = o.v0
      BY <1>2, <2>3 DEF SweepValue
    <3> QED
      BY <1>2, <1>4, <2>3, <3>1, <3>2
  <2>4. CASE v = {} /\ g = {}
    <3>1. r.v0 = o.v0
      BY <2>4 DEF Sets
    <3> QED
      BY <1>2, <1>4, <2>4, <3>1
  <2> QED
    BY <2>1, <2>2, <2>3, <2>4
<1>10. /\ GoalOf(r) \in IF Absolute(g) # {} THEN Absolute(g) ELSE {GoalOf(o)}
       /\ ("GOAL" \in r.flags) = ("GOAL" \in o.flags \/ Absolute(g) # {})
       /\ PassedOf(r) = IF Absolute(g) # {} THEN 0 ELSE PassedOf(o)
  <2>1. CASE g # {}
    <3>1. r.vt = Number(g) /\ r.pos = 0 /\ "GOAL" \in r.flags
      BY <2>1 DEF Sets
    <3> QED
      BY <1>2, <1>4, <2>1, <3>1 DEF PassedOf
  <2>2. CASE g = {}
    <3>1. r.vt = o.vt /\ r.pos = o.pos /\ ("GOAL" \in r.flags <=> "GOAL" \in o.flags)
      BY <2>2 DEF Sets
    <3> QED
      BY <1>2, <1>4, <2>2, <3>1 DEF PassedOf
  <2> QED
    BY <2>1, <2>2
<1>11. PICK rest : rest = IF time > PassedOf(o) THEN time - PassedOf(o) ELSE 0
  OBVIOUS
<1>12. "TIME" \in r.flags /\ LeftOf(r) = IF r.pos < r.end THEN r.end - r.pos ELSE 0
  BY DEF Sets, LeftOf
<1>13. LeftOf(r) = CASE kept -> LeftOf(o)
                     [] ~kept /\ "GOAL" \in o.flags /\ Absolute(g) = {} -> rest
                     [] OTHER -> time
  <2>1. CASE kept /\ g # {}
    <3>1. r.pos = 0 /\ r.end = (o.end - o.pos) % Wrap /\ "TIME" \in o.flags
      BY <1>7, <2>1 DEF Sets, KeepsTime
    <3>2. r.end = IF o.pos < o.end THEN o.end - o.pos ELSE 0
      BY <2>1, <3>1, RestOfTime
    <3>3. LeftOf(o) = IF o.pos < o.end THEN o.end - o.pos ELSE 0
      BY <3>1 DEF LeftOf
    <3>4. LeftOf(r) = LeftOf(o)
      BY <1>3, <1>12, <3>1, <3>2, <3>3
    <3> QED
      BY <2>1, <3>4
  <2>2. CASE kept /\ g = {}
    <3>1. r.pos = o.pos /\ r.end = o.end /\ "TIME" \in o.flags
      BY <1>7, <2>2 DEF Sets, KeepsTime
    <3>2. LeftOf(r) = LeftOf(o)
      BY <1>12, <3>1 DEF LeftOf
    <3> QED
      BY <2>2, <3>2
  <2>3. CASE ~kept /\ g # {}
    <3>1. r.pos = 0 /\ r.end = time
      BY <1>6, <1>7, <2>3 DEF Sets
    <3>2. LeftOf(r) = time
      BY <1>6, <1>12, <3>1
    <3> QED
      BY <1>4, <2>3, <3>2
  <2>4. CASE ~kept /\ g = {} /\ "GOAL" \in o.flags
    <3>1. r.pos = o.pos /\ r.end = time
      BY <1>6, <1>7, <2>4 DEF Sets
    <3>2. LeftOf(r) = rest
      BY <1>3, <1>6, <1>11, <1>12, <2>4, <3>1 DEF PassedOf
    <3> QED
      BY <1>4, <2>4, <3>2
  <2>5. CASE ~kept /\ g = {} /\ "GOAL" \notin o.flags
    <3>1. r.pos = o.pos /\ r.end = time /\ o.pos = 0
      BY <1>6, <1>7, <2>5 DEF Sets, OnTrack
    <3>2. LeftOf(r) = time
      BY <1>6, <1>12, <3>1
    <3> QED
      BY <2>5, <3>2
  <2> QED
    BY <2>1, <2>2, <2>3, <2>4, <2>5
<1>14. TotalOf(r) = CASE Absolute(g) # {} -> LeftOf(r)
                      [] Absolute(g) = {} /\ "GOAL" \in o.flags /\ ~kept -> time
                      [] OTHER -> TotalOf(o)
  <2>1. CASE g # {}
    <3>1. r.pos = 0 /\ "GOAL" \in r.flags
      BY <2>1 DEF Sets
    <3>2. TotalOf(r) = r.end /\ LeftOf(r) = r.end
      BY <1>3, <1>12, <3>1 DEF TotalOf
    <3> QED
      BY <1>4, <2>1, <3>2
  <2>2. CASE g = {}
    <3>1. /\ "GOAL" \in r.flags <=> "GOAL" \in o.flags
          /\ ~kept => r.end = time
          /\ kept => r.end = o.end
      BY <1>6, <1>7, <2>2 DEF Sets
    <3> QED
      BY <1>4, <2>2, <3>1 DEF TotalOf
  <2> QED
    BY <2>1, <2>2
<1> QED
  BY <1>5, <1>8, <1>9, <1>10, <1>11, <1>13, <1>14 DEF SweepUpdate

LEMMA SweepInit ==
    ASSUME Init
    PROVE  Promise!Init
<1>1. /\ line = [v0 |-> 0, vt |-> 0, pos |-> 0, end |-> 0, flags |-> {}]
      /\ out = <<>> /\ given = NoChange
  BY DEF Init, Fresh
<1>2. /\ line.v0 = 0 /\ line.flags = {}
  BY <1>1
<1> QED
  BY <1>1, <1>2 DEF Promise!Init, Promise!NoTime, Promise!NoChange, NoTime,
                    NoChange, Going, Timed, Multiplied

LEMMA UpdateStep ==
    ASSUME Exact, LineInv, ~Loose, NEW v \in Maybe(Numbers), NEW g \in Maybe(Numbers),
           NEW t \in Maybe(Times), NEW dur \in Times, Update(v, g, t, dur)
    PROVE  Promise!Next(Changes, 1..MaxLen)
<1>1. PICK src, u : /\ SourceOf(src, v, g, t, dur) /\ u \in Int
                    /\ Sets(line, src, v, g, t, u, line')
                    /\ OnTrack(line, v, g, t)
  BY UpdateSets
<1>2. PICK o, r : o = line /\ r = line'
  OBVIOUS
<1>3. SweepUpdate(o, v, g, t, dur, r)
  BY <1>1, <1>2, UpdateSweeps DEF LineInv
<1>4. PICK c : c = [value |-> Absolute(v), goal |-> Absolute(g), time |-> t,
                    external |-> dur]
  OBVIOUS
<1>5. c \in Changes /\ c.value = Absolute(v) /\ c.goal = Absolute(g)
      /\ c.time = t /\ c.external = dur
  BY <1>4 DEF Changes
<1>6. out' = <<>> /\ given' = c
  BY <1>4 DEF Update
<1>7. Promise!Update(c)
  BY <1>2, <1>3, <1>5, <1>6
     DEF SweepUpdate, StartOf, GoalOf, PassedOf, TotalOf, LeftOf, SweepValue,
         Promise!Update, Promise!ValueAfter, Promise!NoTime, NoTime, Going, Timed
<1> QED
  BY <1>5, <1>7 DEF Promise!Next

LEMMA PassStep ==
    ASSUME Exact, LineInv, NEW n \in 1..MaxLen, Run(n) \/ Skip(n)
    PROVE  Promise!Next(Changes, 1..MaxLen)
<1>1. PICK o, r : o = line /\ r = line'
  OBVIOUS
<1>2. n \in Nat \ {0} /\ Sound(o)
  BY <1>1, LineConstants DEF LineInv
<1>3. r = LineRun(o, n) \/ r = LineSkip(o, n)
  BY <1>1 DEF Run, Skip
<1>4. SweepPass(o, n, r)
  BY <1>2, <1>3, RunPasses, SkipPasses, PassSweeps
<1>5. given' = NoChange
  BY DEF Run, Skip
<1>6. Promise!Pass(n)
  BY <1>1, <1>4, <1>5
     DEF SweepPass, StartOf, GoalOf, PassedOf, TotalOf, LeftOf,
         Promise!Pass, Promise!NoTime, Promise!NoChange, NoTime, NoChange, Going, Timed
<1>7. CASE Run(n)
  <2>1. out' = [i \in 1..n |-> SweepValue(o, i - 1)]
    BY <1>1, <1>2, <1>7, FilledSweeps DEF Run
  <2>2. \A i \in 1..n : SweepValue(o, i - 1) = Promise!ValueAfter(i - 1)
    BY <1>1 DEF SweepValue, StartOf, GoalOf, PassedOf, TotalOf,
                Promise!ValueAfter, Going
  <2>3. out' = [i \in 1..n |-> Promise!ValueAfter(i - 1)]
    BY <2>1, <2>2
  <2>4. Promise!Get(n)
    BY <1>6, <2>3 DEF Promise!Get
  <2> QED
    BY <2>4 DEF Promise!Next
<1>8. CASE Skip(n)
  <2>1. Promise!Skip(n)
    BY <1>6, <1>8 DEF Promise!Skip, Skip
  <2> QED
    BY <2>1 DEF Promise!Next
<1> QED
  BY <1>7, <1>8

(* A parameter sweeps as promised, for all values, times and lengths: what *)
(* runs and skips give does not depend on how they are cut up, a goal is   *)
(* reached when its time is over, and a new one is set off for from where  *)
(* the line is, in the time that remains (sauLine_run(), sauLine_skip(),   *)
(* sauLine_copy()).                                                        *)
THEOREM SweepsAsPromised ==
    ASSUME ~Loose, Exact
    PROVE  Spec => FollowsSweep
<1>1. Init => Promise!Init
  BY SweepInit
<1>2. ASSUME LineInv, [Next]_vars
      PROVE  [Promise!Next(Changes, 1..MaxLen)]_(Promise!vars)
  <2>1. ASSUME NEW v \in Maybe(Numbers), NEW g \in Maybe(Numbers),
               NEW t \in Maybe(Times), NEW dur \in Times, Update(v, g, t, dur)
        PROVE  Promise!Next(Changes, 1..MaxLen)
    BY <1>2, <2>1, UpdateStep
  <2>2. ASSUME NEW n \in 1..MaxLen, Run(n) \/ Skip(n)
        PROVE  Promise!Next(Changes, 1..MaxLen)
    BY <1>2, <2>2, PassStep
  <2>3. CASE UNCHANGED vars
    BY <2>3 DEF vars, Promise!vars, Going, Timed
  <2> QED
    BY <1>2, <2>1, <2>2, <2>3 DEF Next
<1> QED
  BY <1>1, <1>2, LineInvariant, PTL DEF Spec, FollowsSweep
=============================================================================
