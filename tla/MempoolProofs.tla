---------------------------- MODULE MempoolProofs ----------------------------
(***************************************************************************)
(* Proofs about the memory pool, for any sizes and any number of           *)
(* allocations: the binary search finds the first block that will do where *)
(* the blocks are in order, the block taken from is moved back to where    *)
(* its free space belongs, and so what is given out is never shared.       *)
(***************************************************************************)
EXTENDS Mempool, Numbers, FiniteSetTheorems, SequenceTheorems

-----------------------------------------------------------------------------
(* The binary search. *)

(* Entries of an array, with the memory blocks in M. *)
Entries(M) == [free : Nat, mem : M]

(* In order from first on. *)
Ordered(a, n, first) ==
    \A k, l \in first..(n - 1) : k < l => a[k].free <= a[l].free

LEMMA CountOf ==
    ASSUME NEW n \in Nat, NEW S, NEW a \in [0..(n - 1) -> S]
    PROVE  Count(a) = n /\ DOMAIN a = 0..(n - 1)
<1>1. DOMAIN a = 0..(n - 1)
  OBVIOUS
<1>2. Cardinality(0..(n - 1)) = IF 0 > n - 1 THEN 0 ELSE (n - 1) - 0 + 1
  BY FS_Interval
<1> QED
  BY <1>1, <1>2 DEF Count

Bounds(n, first) == [min : first..n, max : first..n]

(* A round keeps what it looks for between min and max. *)
Narrowing(a, n, first, size, k, r) ==
    /\ r \in Bounds(n, first)
    /\ r.min <= r.max
    /\ r.max - r.min <= (n - first) - k \/ r.min = r.max
    /\ Ordered(a, n, first) =>
          /\ \A l \in first..(r.min - 1) : a[l].free < size
          /\ \A l \in r.max..(n - 1) : size <= a[l].free

LEMMA RoundNarrows ==
    ASSUME NEW n \in Nat, NEW M, NEW a \in [0..(n - 1) -> Entries(M)],
           NEW first \in 0..n, NEW size \in Nat,
           NEW k \in Nat, NEW r, Narrowing(a, n, first, size, k, r)
    PROVE  Narrowing(a, n, first, size, k + 1, Narrowed(a, size, r))
<1>1. PICK x, y : x = r.min /\ y = r.max
  OBVIOUS
<1>2. x \in first..n /\ y \in first..n /\ x <= y /\ r = [min |-> x, max |-> y]
  BY <1>1 DEF Narrowing, Bounds
<1>3. y - x <= (n - first) - k \/ x = y
  BY <1>1 DEF Narrowing
<1>4. CASE x >= y
  <2>1. x = y /\ Narrowed(a, size, r) = r
    BY <1>1, <1>2, <1>4 DEF Narrowed
  <2> QED
    BY <1>1, <2>1 DEF Narrowing
<1>5. CASE ~(x >= y)
  <2>1. PICK m : m = x + (y - x) \div 2
    OBVIOUS
  <2>2. m \in x..(y - 1) /\ m \in 0..(n - 1)
    BY <1>2, <1>5, <2>1
  <2>3. \A l \in 0..(n - 1) : a[l].free \in Nat
    BY DEF Entries
  <2>4. Ordered(a, n, first) =>
          /\ \A l \in first..(x - 1) : a[l].free < size
          /\ \A l \in y..(n - 1) : size <= a[l].free
    BY <1>1 DEF Narrowing
  <2>5. CASE a[m].free < size
    <3>1. PICK q : q = Narrowed(a, size, r)
      OBVIOUS
    <3>2. q = [min |-> m + 1, max |-> y]
      BY <1>1, <1>5, <2>1, <2>5, <3>1 DEF Narrowed
    <3>3. m + 1 \in first..n /\ m + 1 <= y
      BY <1>2, <2>2
    <3>4. y - (m + 1) <= (n - first) - (k + 1)
      BY <1>2, <1>3, <1>5, <2>2
    <3>5. ASSUME Ordered(a, n, first), NEW l \in first..((m + 1) - 1)
          PROVE  a[l].free < size
      <4>1. l \in first..(n - 1) /\ m \in first..(n - 1) /\ (l = m \/ l < m)
        BY <1>2, <2>2, <3>5
      <4>2. l < m => a[l].free <= a[m].free
        BY <3>5, <4>1 DEF Ordered
      <4>3. a[l].free \in Nat /\ a[m].free \in Nat
        BY <1>2, <2>3, <4>1, <2>2
      <4> QED
        BY <2>5, <4>1, <4>2, <4>3
    <3>6. q \in Bounds(n, first) /\ q.min = m + 1 /\ q.max = y
      BY <1>2, <3>2, <3>3 DEF Bounds
    <3> QED
      BY <2>4, <3>1, <3>3, <3>4, <3>5, <3>6 DEF Narrowing
  <2>6. CASE ~(a[m].free < size)
    <3>1. PICK q : q = Narrowed(a, size, r)
      OBVIOUS
    <3>2. q = [min |-> x, max |-> m]
      BY <1>1, <1>5, <2>1, <2>6, <3>1 DEF Narrowed
    <3>3. m \in first..n /\ x <= m
      BY <1>2, <2>2
    <3>4. m - x <= (n - first) - (k + 1)
      BY <1>2, <1>3, <1>5, <2>2
    <3>5. ASSUME Ordered(a, n, first), NEW l \in m..(n - 1)
          PROVE  size <= a[l].free
      <4>1. l \in first..(n - 1) /\ m \in first..(n - 1) /\ (l = m \/ m < l)
        BY <1>2, <2>2, <3>5
      <4>2. m < l => a[m].free <= a[l].free
        BY <3>5, <4>1 DEF Ordered
      <4>3. a[l].free \in Nat /\ a[m].free \in Nat
        BY <1>2, <2>3, <4>1, <2>2
      <4> QED
        BY <2>6, <4>1, <4>2, <4>3
    <3>6. q \in Bounds(n, first) /\ q.min = x /\ q.max = m
      BY <1>2, <3>2, <3>3 DEF Bounds
    <3> QED
      BY <2>4, <3>1, <3>3, <3>4, <3>5, <3>6 DEF Narrowing
  <2> QED
    BY <2>5, <2>6
<1> QED
  BY <1>4, <1>5

(* The search up to round m. *)
SearchTo(a, n, first, size, m, g) ==
    /\ g = [k \in 0..m |-> g[k]]
    /\ \A k \in 0..m : g[k] = Round(a, first, size, g, k)
    /\ \A k \in 0..m : Narrowing(a, n, first, size, k, g[k])

LEMMA RoundsSound ==
    ASSUME NEW n \in Nat, NEW M, NEW a \in [0..(n - 1) -> Entries(M)],
           NEW first \in 0..n, NEW size \in Nat,
           NEW k \in Nat, NEW g,
           k > 0 => Narrowing(a, n, first, size, k - 1, g[k - 1])
    PROVE  Narrowing(a, n, first, size, k, Round(a, first, size, g, k))
<1>1. Count(a) = n
  BY CountOf
<1>2. CASE k = 0
  <2>1. PICK r : r = Round(a, first, size, g, k)
    OBVIOUS
  <2>2. r = [min |-> first, max |-> n]
    BY <1>1, <1>2, <2>1 DEF Round
  <2>3. first \in first..n /\ n \in first..n
    OBVIOUS
  <2>4. r \in Bounds(n, first) /\ r.min = first /\ r.max = n
    BY <2>2, <2>3 DEF Bounds
  <2> QED
    BY <1>2, <2>1, <2>4 DEF Narrowing
<1>3. CASE k # 0
  <2>1. PICK j : j = k - 1
    OBVIOUS
  <2>2. j \in Nat /\ j + 1 = k /\ Narrowing(a, n, first, size, j, g[j])
    BY <1>3, <2>1
  <2>3. Round(a, first, size, g, k) = Narrowed(a, size, g[j])
    BY <1>3, <2>1 DEF Round
  <2>4. Narrowing(a, n, first, size, j + 1, Narrowed(a, size, g[j]))
    BY <2>2, RoundNarrows
  <2> QED
    BY <2>2, <2>3, <2>4
<1> QED
  BY <1>2, <1>3

LEMMA SearchExtends ==
    ASSUME NEW n \in Nat, NEW M, NEW a \in [0..(n - 1) -> Entries(M)],
           NEW first \in 0..n, NEW size \in Nat,
           NEW m \in Nat, NEW g, m > 0 => SearchTo(a, n, first, size, m - 1, g)
    PROVE  \E f : SearchTo(a, n, first, size, m, f)
<1>1. PICK last : last = Round(a, first, size, g, m)
  OBVIOUS
<1>2. PICK f : f = [k \in 0..m |-> IF k = m THEN last ELSE g[k]]
  OBVIOUS
<1>3. \A k \in 0..(m - 1) : f[k] = g[k]
  BY <1>2
<1>4. \A k \in 0..(m - 1) : /\ g[k] = Round(a, first, size, g, k)
                            /\ Narrowing(a, n, first, size, k, g[k])
  BY DEF SearchTo
<1>5. ASSUME NEW k \in 0..m
      PROVE  /\ f[k] = Round(a, first, size, f, k)
             /\ Narrowing(a, n, first, size, k, f[k])
  <2>1. k > 0 => f[k - 1] = g[k - 1] /\ k - 1 \in 0..(m - 1)
    BY <1>3
  <2>2. Round(a, first, size, f, k) = Round(a, first, size, g, k)
    BY <2>1 DEF Round
  <2>3. CASE k = m
    <3>1. f[k] = Round(a, first, size, g, m)
      BY <1>1, <1>2, <2>3
    <3>2. m > 0 => Narrowing(a, n, first, size, m - 1, g[m - 1])
      BY <1>4
    <3>3. Narrowing(a, n, first, size, m, Round(a, first, size, g, m))
      BY <3>2, RoundsSound
    <3> QED
      BY <2>2, <2>3, <3>1, <3>3
  <2>4. CASE k # m
    <3>1. k \in 0..(m - 1)
      BY <2>4
    <3> QED
      BY <1>3, <1>4, <2>2, <3>1
  <2> QED
    BY <2>3, <2>4
<1>6. f = [k \in 0..m |-> f[k]]
  BY <1>2
<1> QED
  BY <1>5, <1>6 DEF SearchTo

LEMMA SearchExists ==
    ASSUME NEW n \in Nat, NEW M, NEW a \in [0..(n - 1) -> Entries(M)],
           NEW first \in 0..n, NEW size \in Nat, NEW m \in Nat
    PROVE  \E g : SearchTo(a, n, first, size, m, g)
<1> DEFINE Without == {k \in Nat : ~\E g : SearchTo(a, n, first, size, k, g)}
<1>1. ASSUME Without # {} PROVE FALSE
  <2>1. PICK k \in Without : \A j \in Without : k <= j
    BY <1>1, LeastNatural
  <2>2. k \in Nat /\ ~\E g : SearchTo(a, n, first, size, k, g)
    OBVIOUS
  <2>3. \E g : k > 0 => SearchTo(a, n, first, size, k - 1, g)
    <3>1. CASE k > 0
      <4>1. k - 1 \in Nat /\ ~(k <= k - 1)
        BY <2>2, <3>1
      <4>2. ~(k - 1 \in Without)
        BY <2>1, <4>1
      <4> QED
        BY <4>1, <4>2
    <3> QED
      BY <3>1
  <2> QED
    BY <2>2, <2>3, SearchExtends
<1> QED
  BY <1>1

(* Where the binary search ends up. *)
LEMMA SearchEnd ==
    ASSUME NEW n \in Nat, NEW M, NEW a \in [0..(n - 1) -> Entries(M)],
           NEW first \in 0..n, NEW size \in Nat
    PROVE  LET i == Search(a, first, size)[n].min
           IN  /\ i \in first..n
               /\ Ordered(a, n, first) =>
                     /\ \A l \in first..(i - 1) : a[l].free < size
                     /\ \A l \in i..(n - 1) : size <= a[l].free
<1>1. PICK f : f = Search(a, first, size)
  OBVIOUS
<1>2. Count(a) = n
  BY CountOf
<1>3. PICK g : SearchTo(a, n, first, size, n, g)
  BY SearchExists
<1>4. g = [k \in 0..n |-> Round(a, first, size, g, k)]
  BY <1>3 DEF SearchTo
<1>5. f = CHOOSE h : h = [k \in 0..n |-> Round(a, first, size, h, k)]
  BY <1>1, <1>2, Zenon DEF Search
<1>6. f = [k \in 0..n |-> Round(a, first, size, f, k)]
  BY <1>4, <1>5, Zenon
<1>7. \A k \in 0..n : f[k] = Round(a, first, size, f, k)
  BY <1>6
<1> DEFINE Other == {k \in 0..n : ~Narrowing(a, n, first, size, k, f[k])}
<1>8. ASSUME Other # {} PROVE FALSE
  <2>1. Other \subseteq Nat
    OBVIOUS
  <2>2. PICK k \in Other : \A c \in Other : k <= c
    BY <1>8, <2>1, LeastNatural
  <2>3. k \in 0..n /\ ~Narrowing(a, n, first, size, k, f[k])
    BY <2>2
  <2>4. k > 0 => Narrowing(a, n, first, size, k - 1, f[k - 1])
    <3>1. ASSUME k > 0 PROVE Narrowing(a, n, first, size, k - 1, f[k - 1])
      <4>1. k - 1 \in 0..n /\ ~(k <= k - 1)
        BY <2>3, <3>1
      <4>2. ~(k - 1 \in Other)
        BY <2>2, <4>1
      <4> QED
        BY <4>1, <4>2
    <3> QED
      BY <3>1
  <2>5. Narrowing(a, n, first, size, k, Round(a, first, size, f, k))
    BY <2>3, <2>4, RoundsSound
  <2> QED
    BY <1>7, <2>3, <2>5
<1>9. Narrowing(a, n, first, size, n, f[n])
  BY <1>8
<1>10. PICK x, y : x = f[n].min /\ y = f[n].max
  OBVIOUS
<1>11. x \in first..n /\ y \in first..n /\ x = y
  BY <1>9, <1>10 DEF Narrowing, Bounds
<1>12. Ordered(a, n, first) =>
          /\ \A l \in first..(x - 1) : a[l].free < size
          /\ \A l \in y..(n - 1) : size <= a[l].free
  BY <1>9, <1>10 DEF Narrowing
<1> QED
  BY <1>1, <1>10, <1>11, <1>12

(* What first_smallest() finds: an entry with room, at or after first      *)
(* unless there is nothing to search; and if the entries are in order, the *)
(* first that has room, or none if none has.                               *)
SmallestAt(a, n, first, size, i) ==
    /\ i \in (0..(n - 1)) \union {NotFound}
    /\ i # NotFound => size <= a[i].free
    /\ i # NotFound /\ first < n => i >= first
    /\ i # NotFound /\ first = n => i = 0
    /\ Ordered(a, n, first) =>
          IF i = NotFound THEN \A l \in first..(n - 1) : a[l].free < size
          ELSE \A l \in first..(i - 1) : a[l].free < size

LEMMA SmallestFound ==
    ASSUME NEW n \in Nat, NEW M, NEW a \in [0..(n - 1) -> Entries(M)],
           NEW first \in 0..n, NEW size \in Nat
    PROVE  SmallestAt(a, n, first, size, FirstSmallest(a, first, size))
<1>1. PICK s : s = Search(a, first, size)[n].min
  OBVIOUS
<1>2. /\ s \in first..n
      /\ Ordered(a, n, first) =>
            /\ \A l \in first..(s - 1) : a[l].free < size
            /\ \A l \in s..(n - 1) : size <= a[l].free
  BY <1>1, SearchEnd
<1>3. PICK i : i = IF first < n THEN s ELSE 0
  OBVIOUS
<1>4. FirstSmallest(a, first, size) = IF i < n /\ a[i].free >= size THEN i ELSE NotFound
  BY <1>1, <1>3, CountOf DEF FirstSmallest
<1>5. \A l \in 0..(n - 1) : a[l].free \in Nat
  BY DEF Entries
<1>6. CASE i < n /\ a[i].free >= size
  <2>1. FirstSmallest(a, first, size) = i
    BY <1>4, <1>6
  <2>2. i \in 0..(n - 1) /\ a[i].free \in Nat /\ i # NotFound
    BY <1>2, <1>3, <1>5, <1>6 DEF NotFound
  <2>3. Ordered(a, n, first) => \A l \in first..(i - 1) : a[l].free < size
    BY <1>2, <1>3, <1>6, <2>2
  <2> QED
    BY <1>2, <1>3, <1>6, <2>1, <2>2, <2>3 DEF SmallestAt
<1>7. CASE ~(i < n /\ a[i].free >= size)
  <2>1. FirstSmallest(a, first, size) = NotFound
    BY <1>4, <1>7
  <2>2. ASSUME Ordered(a, n, first), NEW l \in first..(n - 1) PROVE a[l].free < size
    <3>1. first < n /\ i = s
      BY <1>3, <2>2
    <3>2. i < n => i \in 0..(n - 1) /\ a[i].free \in Nat /\ size <= a[i].free
      BY <1>2, <1>5, <2>2, <3>1
    <3>3. i = n
      BY <1>2, <1>7, <3>1, <3>2
    <3> QED
      BY <1>2, <2>2, <3>1, <3>3
  <2> QED
    BY <2>1, <2>2 DEF SmallestAt
<1> QED
  BY <1>6, <1>7

GreaterAt(a, n, first, size, i) ==
    /\ i \in (0..(n - 1)) \union {NotFound}
    /\ i # NotFound => size < a[i].free
    /\ i # NotFound /\ first < n => i >= first
    /\ i # NotFound /\ first = n => i = 0
    /\ Ordered(a, n, first) =>
          IF i = NotFound THEN \A l \in first..(n - 1) : a[l].free <= size
          ELSE \A l \in first..(i - 1) : a[l].free <= size

LEMMA GreaterFound ==
    ASSUME NEW n \in Nat, NEW M, NEW a \in [0..(n - 1) -> Entries(M)],
           NEW first \in 0..n, NEW size \in Nat
    PROVE  GreaterAt(a, n, first, size, FirstGreater(a, first, size))
<1>1. PICK i : i = FirstGreater(a, first, size)
  OBVIOUS
<1>2. PICK s : s = size + 1 /\ s \in Nat
  OBVIOUS
<1>3. SmallestAt(a, n, first, s, FirstSmallest(a, first, s))
  BY <1>2, SmallestFound
<1>4. i = FirstSmallest(a, first, s)
  BY <1>1, <1>2 DEF FirstGreater
<1>5. /\ i \in (0..(n - 1)) \union {NotFound}
      /\ i # NotFound => s <= a[i].free
      /\ i # NotFound /\ first < n => i >= first
      /\ i # NotFound /\ first = n => i = 0
      /\ Ordered(a, n, first) =>
            IF i = NotFound THEN \A l \in first..(n - 1) : a[l].free < s
            ELSE \A l \in first..(i - 1) : a[l].free < s
  BY <1>3, <1>4, Zenon DEF SmallestAt
<1>6. \A l \in 0..(n - 1) : a[l].free \in Nat
  BY DEF Entries
<1>7. i # NotFound => i \in 0..(n - 1) /\ a[i].free \in Nat
  BY <1>5, <1>6
<1>8. i # NotFound => size < a[i].free
  BY <1>2, <1>5, <1>7
<1>9. ASSUME Ordered(a, n, first)
      PROVE  IF i = NotFound THEN \A l \in first..(n - 1) : a[l].free <= size
             ELSE \A l \in first..(i - 1) : a[l].free <= size
  <2>1. CASE i = NotFound
    <3>1. ASSUME NEW l \in first..(n - 1) PROVE a[l].free <= size
      <4>1. l \in 0..(n - 1) /\ a[l].free < s
        BY <1>5, <1>9, <2>1
      <4>2. a[l].free \in Nat
        BY <1>6, <4>1
      <4> QED
        BY <1>2, <4>1, <4>2
    <3> QED
      BY <2>1, <3>1
  <2>2. CASE i # NotFound
    <3>1. ASSUME NEW l \in first..(i - 1) PROVE a[l].free <= size
      <4>1. l \in 0..(n - 1) /\ a[l].free < s
        BY <1>5, <1>7, <1>9, <2>2
      <4>2. a[l].free \in Nat
        BY <1>6, <4>1
      <4> QED
        BY <1>2, <4>1, <4>2
    <3> QED
      BY <2>2, <3>1
  <2> QED
    BY <2>1, <2>2
<1> QED
  BY <1>1, <1>5, <1>8, <1>9, Zenon DEF GreaterAt

-----------------------------------------------------------------------------
(* Copying the blocks upwards.  Each call goes on with one of more free    *)
(* space, and so there is an end to it, whatever the order they are in.    *)

CopiedTo(a, first, to, c, g) ==
    /\ g = [k \in DOMAIN a |-> g[k]]
    /\ \A k \in DOMAIN a : c <= a[k].free => g[k] = CopiedFrom(a, first, to, g, k)

LEMMA CopyExtends ==
    ASSUME NEW n \in Nat, NEW M, NEW a \in [0..(n - 1) -> Entries(M)],
           NEW first \in 0..n, NEW to, NEW c \in Nat,
           NEW g, CopiedTo(a, first, to, c + 1, g)
    PROVE  \E f : CopiedTo(a, first, to, c, f)
<1>1. DOMAIN a = 0..(n - 1) /\ \A k \in 0..(n - 1) : a[k].free \in Nat
  BY DEF Entries
<1>2. PICK f : f = [k \in DOMAIN a |-> IF c + 1 <= a[k].free THEN g[k]
                                       ELSE CopiedFrom(a, first, to, g, k)]
  OBVIOUS
<1>3. ASSUME NEW k \in DOMAIN a, c <= a[k].free
      PROVE  f[k] = CopiedFrom(a, first, to, f, k)
  <2>1. a[k].free \in Nat
    BY <1>1
  <2>2. PICK h : h = FirstGreater(a, first, a[k].free)
    OBVIOUS
  <2>3. h # NotFound => h \in DOMAIN a /\ a[k].free < a[h].free
    BY <1>1, <2>1, <2>2, GreaterFound DEF GreaterAt
  <2>4. h # NotFound => f[h] = g[h]
    <3>1. ASSUME h # NotFound PROVE f[h] = g[h]
      <4>1. h \in DOMAIN a /\ a[h].free \in Nat /\ c + 1 <= a[h].free
        BY <1>1, <1>3, <2>1, <2>3, <3>1
      <4> QED
        BY <1>2, <4>1
    <3> QED
      BY <3>1
  <2>5. CopiedFrom(a, first, to, f, k) = CopiedFrom(a, first, to, g, k)
    BY <2>2, <2>4 DEF CopiedFrom
  <2>6. CASE c + 1 <= a[k].free
    <3>1. g[k] = CopiedFrom(a, first, to, g, k)
      BY <2>6 DEF CopiedTo
    <3> QED
      BY <1>2, <2>5, <2>6, <3>1
  <2>7. CASE ~(c + 1 <= a[k].free)
    BY <1>2, <2>5, <2>7
  <2> QED
    BY <2>6, <2>7
<1>4. f = [k \in DOMAIN a |-> f[k]]
  BY <1>2
<1> QED
  BY <1>3, <1>4 DEF CopiedTo

LEMMA FreeBounded ==
    ASSUME NEW n \in Nat, NEW M, NEW a \in [0..(n - 1) -> Entries(M)]
    PROVE  \E c \in Nat : \A k \in DOMAIN a : a[k].free < c
<1> DEFINE Bound(m) == \E c \in Nat : \A k \in 0..(m - 1) : a[k].free < c
           Without == {m \in 0..n : ~Bound(m)}
<1>1. DOMAIN a = 0..(n - 1) /\ \A k \in 0..(n - 1) : a[k].free \in Nat
  BY DEF Entries
<1>2. ASSUME Without # {} PROVE FALSE
  <2>1. Without \subseteq Nat
    OBVIOUS
  <2>2. PICK m \in Without : \A j \in Without : m <= j
    BY <1>2, <2>1, LeastNatural
  <2>3. CASE m = 0
    <3>1. 0 \in Nat /\ \A k \in 0..(m - 1) : a[k].free < 0
      BY <2>3
    <3>2. Bound(m)
      BY <3>1
    <3> QED
      BY <2>2, <3>2
  <2>4. CASE m # 0
    <3>1. m - 1 \in 0..n /\ m \in 0..n /\ ~(m <= m - 1) /\ m - 1 \in 0..(n - 1)
      BY <2>2, <2>4
    <3>2. Bound(m - 1)
      BY <2>2, <3>1
    <3>3. PICK c \in Nat : \A k \in 0..((m - 1) - 1) : a[k].free < c
      BY <3>2
    <3>4. PICK l : l = a[m - 1].free
      OBVIOUS
    <3>5. l \in Nat
      BY <1>1, <3>1, <3>4
    <3>6. ASSUME NEW k \in 0..(m - 1) PROVE a[k].free < c + l + 1
      <4>1. k = m - 1 \/ k \in 0..((m - 1) - 1)
        BY <3>1
      <4>2. k \in 0..(n - 1)
        BY <3>1
      <4>3. a[k].free \in Nat /\ (a[k].free = l \/ a[k].free < c)
        BY <1>1, <3>3, <3>4, <4>1, <4>2
      <4> QED
        BY <3>5, <4>3
    <3>7. c + l + 1 \in Nat
      BY <3>5
    <3>8. Bound(m)
      BY <3>6, <3>7
    <3> QED
      BY <2>2, <3>8
  <2> QED
    BY <2>3, <2>4
<1>3. n \in 0..n
  OBVIOUS
<1>4. Bound(n)
  BY <1>2, <1>3
<1> QED
  BY <1>1, <1>4

LEMMA CopyExists ==
    ASSUME NEW n \in Nat, NEW M, NEW a \in [0..(n - 1) -> Entries(M)],
           NEW first \in 0..n, NEW to
    PROVE  \E g : CopiedTo(a, first, to, 0, g)
<1>1. DOMAIN a = 0..(n - 1) /\ \A k \in 0..(n - 1) : a[k].free \in Nat
  BY DEF Entries
<1>2. PICK top \in Nat : \A k \in DOMAIN a : a[k].free < top
  BY FreeBounded
<1> DEFINE With == {c \in Nat : \E g : CopiedTo(a, first, to, c, g)}
<1>3. top \in With
  <2>1. PICK g : g = [k \in DOMAIN a |-> a]
    OBVIOUS
  <2>2. g = [k \in DOMAIN a |-> g[k]]
    BY <2>1
  <2>3. \A k \in DOMAIN a : ~(top <= a[k].free)
    BY <1>1, <1>2
  <2>4. CopiedTo(a, first, to, top, g)
    BY <2>2, <2>3 DEF CopiedTo
  <2> QED
    BY <2>4
<1>4. PICK c \in With : \A d \in With : c <= d
  <2>1. With \subseteq Nat /\ With # {}
    BY <1>3
  <2> QED
    BY <2>1, LeastNatural
<1>5. c \in Nat /\ \E g : CopiedTo(a, first, to, c, g)
  OBVIOUS
<1>6. CASE c = 0
  BY <1>5, <1>6
<1>7. CASE c # 0
  <2>1. PICK d : d = c - 1
    OBVIOUS
  <2>2. d \in Nat /\ d + 1 = c /\ ~(c <= d)
    BY <1>5, <1>7, <2>1
  <2>3. PICK g : CopiedTo(a, first, to, d + 1, g)
    BY <1>5, <2>2
  <2>4. \E f : CopiedTo(a, first, to, d, f)
    BY <2>2, <2>3, CopyExtends
  <2> QED
    BY <1>4, <2>2, <2>4
<1> QED
  BY <1>6, <1>7

LEMMA CopyUpIs ==
    ASSUME NEW n \in Nat, NEW M, NEW a \in [0..(n - 1) -> Entries(M)],
           NEW first \in 0..n, NEW to, NEW k \in 0..(n - 1)
    PROVE  CopyUp(a, first, to)[k] = CopiedFrom(a, first, to, CopyUp(a, first, to), k)
<1>1. PICK f : f = CopyUp(a, first, to)
  OBVIOUS
<1>2. DOMAIN a = 0..(n - 1) /\ \A l \in 0..(n - 1) : a[l].free \in Nat
  BY DEF Entries
<1>3. PICK g : CopiedTo(a, first, to, 0, g)
  BY CopyExists
<1>4. \A l \in DOMAIN a : 0 <= a[l].free
  BY <1>2
<1>5. g = [l \in DOMAIN a |-> CopiedFrom(a, first, to, g, l)]
  BY <1>3, <1>4 DEF CopiedTo
<1>6. f = CHOOSE h : h = [l \in DOMAIN a |-> CopiedFrom(a, first, to, h, l)]
  BY <1>1, Zenon DEF CopyUp
<1>7. f = [l \in DOMAIN a |-> CopiedFrom(a, first, to, f, l)]
  BY <1>5, <1>6, Zenon
<1>8. f[k] = CopiedFrom(a, first, to, f, k)
  BY <1>2, <1>7
<1> QED
  BY <1>1, <1>8

(* No two entries from first to last are of the same memory block. *)
Distinct(a, first, last) ==
    \A k, l \in first..last : a[k].mem = a[l].mem => k = l

(* b is a with the blocks from "from" to before "to" one step up, but for  *)
(* the place of blocks of equal size among themselves.                     *)
Shifted(a, b, n, M, from, to) ==
    /\ b \in [0..(n - 1) -> Entries(M)]
    /\ \A k \in 0..(n - 1) : k <= from \/ k > to => b[k] = a[k]
    /\ \A k \in (from + 1)..to : b[k].free = a[k - 1].free
    /\ \A k \in (from + 1)..to : \E l \in from..(to - 1) : b[k] = a[l]
    /\ Distinct(b, from + 1, to)

(* The last step: all blocks between are of one size. *)
LEMMA CopyLast ==
    ASSUME NEW n \in Nat, NEW M, NEW a \in [0..(n - 1) -> Entries(M)],
           NEW first \in 0..n, NEW to \in 1..(n - 1),
           Ordered(a, n, first), Distinct(a, first, to - 1),
           NEW k \in first..(to - 1), a[k].free = a[to - 1].free
    PROVE  Shifted(a, [a EXCEPT ![to] = a[k]], n, M, k, to)
<1>1. PICK b : b = [a EXCEPT ![to] = a[k]]
  OBVIOUS
<1>2. \A l \in 0..(n - 1) : a[l] \in Entries(M)
  OBVIOUS
<1>3. k \in 0..(n - 1) /\ to \in 0..(n - 1) /\ k < to
  OBVIOUS
<1>4. /\ b \in [0..(n - 1) -> Entries(M)]
      /\ b[to] = a[k]
      /\ \A l \in 0..(n - 1) : l # to => b[l] = a[l]
  BY <1>1, <1>2, <1>3
<1>5. ASSUME NEW l \in k..(to - 1) PROVE a[l].free = a[k].free
  <2>1. l \in first..(n - 1) /\ k \in first..(n - 1) /\ to - 1 \in first..(n - 1)
    OBVIOUS
  <2>2. a[l].free \in Nat /\ a[k].free \in Nat /\ a[to - 1].free \in Nat
    BY <1>2, <1>3, <2>1 DEF Entries
  <2>3. (k < l => a[k].free <= a[l].free) /\ (l < to - 1 => a[l].free <= a[to - 1].free)
    BY <2>1 DEF Ordered
  <2>4. k = l \/ k < l
    OBVIOUS
  <2>5. l = to - 1 \/ l < to - 1
    OBVIOUS
  <2> QED
    BY <2>2, <2>3, <2>4, <2>5
<1>6. ASSUME NEW l \in (k + 1)..to PROVE b[l].free = a[l - 1].free
  <2>1. l - 1 \in k..(to - 1)
    OBVIOUS
  <2>2. CASE l = to
    BY <1>4, <1>5, <2>1, <2>2
  <2>3. CASE l # to
    <3>1. l \in k..(to - 1) /\ l \in 0..(n - 1)
      BY <2>3
    <3> QED
      BY <1>4, <1>5, <2>1, <2>3, <3>1
  <2> QED
    BY <2>2, <2>3
<1>7. ASSUME NEW l \in (k + 1)..to
      PROVE  IF l = to THEN b[l] = a[k] ELSE b[l] = a[l] /\ l \in (k + 1)..(to - 1)
  BY <1>4
<1>8. \A l \in (k + 1)..to : \E m \in k..(to - 1) : b[l] = a[m]
  BY <1>7
<1>9. ASSUME NEW l \in (k + 1)..to, NEW m \in (k + 1)..to, b[l].mem = b[m].mem
      PROVE  l = m
  <2>1. PICK p : p = IF l = to THEN k ELSE l
    OBVIOUS
  <2>2. PICK q : q = IF m = to THEN k ELSE m
    OBVIOUS
  <2>3. p \in first..(to - 1) /\ q \in first..(to - 1)
    BY <2>1, <2>2
  <2>4. b[l] = a[p] /\ b[m] = a[q]
    BY <1>7, <2>1, <2>2
  <2>5. p = q
    BY <1>9, <2>3, <2>4 DEF Distinct
  <2> QED
    BY <2>1, <2>2, <2>5
<1>10. \A l \in 0..(n - 1) : l <= k \/ l > to => b[l] = a[l]
  BY <1>3, <1>4
<1>11. Distinct(b, k + 1, to)
  BY <1>9, Zenon DEF Distinct
<1> QED
  BY <1>1, <1>4, <1>6, <1>8, <1>10, <1>11, Zenon DEF Shifted

(* A step before it: the blocks of one size, with those above moved. *)
LEMMA CopyBefore ==
    ASSUME NEW n \in Nat, NEW M, NEW a \in [0..(n - 1) -> Entries(M)],
           NEW first \in 0..n, NEW to \in 1..(n - 1),
           Ordered(a, n, first), Distinct(a, first, to - 1),
           NEW k \in first..(to - 1), NEW h \in (k + 1)..(to - 1),
           \A l \in first..(h - 1) : a[l].free <= a[k].free,
           NEW above, Shifted(a, above, n, M, h, to)
    PROVE  Shifted(a, [above EXCEPT ![h] = a[k]], n, M, k, to)
<1>1. PICK b : b = [above EXCEPT ![h] = a[k]]
  OBVIOUS
<1>2. \A l \in 0..(n - 1) : a[l] \in Entries(M)
  OBVIOUS
<1>3. k \in 0..(n - 1) /\ h \in 0..(n - 1) /\ k < h /\ h < to
  OBVIOUS
<1>4. /\ above \in [0..(n - 1) -> Entries(M)]
      /\ \A l \in 0..(n - 1) : l <= h \/ l > to => above[l] = a[l]
      /\ \A l \in (h + 1)..to : above[l].free = a[l - 1].free
      /\ \A l \in (h + 1)..to : \E m \in h..(to - 1) : above[l] = a[m]
      /\ \A l, m \in (h + 1)..to : above[l].mem = above[m].mem => l = m
  BY Zenon DEF Shifted, Distinct
<1>5. /\ b \in [0..(n - 1) -> Entries(M)]
      /\ b[h] = a[k]
      /\ \A l \in 0..(n - 1) : l # h => b[l] = above[l]
  BY <1>1, <1>2, <1>3, <1>4
<1>6. ASSUME NEW l \in k..(h - 1) PROVE a[l].free = a[k].free
  <2>1. l \in first..(n - 1) /\ k \in first..(n - 1) /\ l \in first..(h - 1)
    OBVIOUS
  <2>2. a[l].free \in Nat /\ a[k].free \in Nat
    BY <1>2, <1>3, <2>1 DEF Entries
  <2>3. (k < l => a[k].free <= a[l].free) /\ a[l].free <= a[k].free
    BY <2>1 DEF Ordered
  <2>4. k = l \/ k < l
    OBVIOUS
  <2> QED
    BY <2>2, <2>3, <2>4
(* What is where. *)
<1>7. ASSUME NEW l \in (k + 1)..to
      PROVE  \/ l < h /\ b[l] = a[l]
             \/ l = h /\ b[l] = a[k]
             \/ l \in (h + 1)..to /\ b[l] = above[l]
  <2>1. l \in 0..(n - 1)
    OBVIOUS
  <2>2. CASE l < h
    BY <1>4, <1>5, <2>1, <2>2
  <2>3. CASE l = h
    BY <1>5, <2>3
  <2>4. CASE l > h
    BY <1>5, <2>1, <2>4
  <2> QED
    BY <2>2, <2>3, <2>4
<1>8. ASSUME NEW l \in (k + 1)..to PROVE b[l].free = a[l - 1].free
  <2>1. CASE l < h /\ b[l] = a[l]
    <3>1. l \in k..(h - 1) /\ l - 1 \in k..(h - 1)
      BY <2>1
    <3> QED
      BY <1>6, <2>1, <3>1
  <2>2. CASE l = h /\ b[l] = a[k]
    <3>1. l - 1 \in k..(h - 1)
      BY <2>2
    <3> QED
      BY <1>6, <2>2, <3>1
  <2>3. CASE l \in (h + 1)..to /\ b[l] = above[l]
    BY <1>4, <2>3
  <2> QED
    BY <1>7, <2>1, <2>2, <2>3
<1>9. ASSUME NEW l \in (k + 1)..to
      PROVE  \E m \in k..(to - 1) :
                /\ b[l] = a[m]
                /\ l < h => m = l
                /\ l = h => m = k
                /\ l > h => m >= h
  <2>1. CASE l < h /\ b[l] = a[l]
    <3>1. l \in k..(to - 1)
      BY <2>1
    <3> QED
      BY <2>1, <3>1
  <2>2. CASE l = h /\ b[l] = a[k]
    BY <2>2
  <2>3. CASE l \in (h + 1)..to /\ b[l] = above[l]
    <3>1. PICK m \in h..(to - 1) : above[l] = a[m]
      BY <1>4, <2>3
    <3>2. m \in k..(to - 1) /\ m >= h /\ l > h
      BY <2>3
    <3> QED
      BY <2>3, <3>1, <3>2
  <2> QED
    BY <1>7, <2>1, <2>2, <2>3
<1>10. ASSUME NEW l \in (k + 1)..to, NEW m \in (k + 1)..to, b[l].mem = b[m].mem
       PROVE  l = m
  <2>1. PICK p \in k..(to - 1) : /\ b[l] = a[p]
                                 /\ l < h => p = l
                                 /\ l = h => p = k
                                 /\ l > h => p >= h
    BY <1>9
  <2>2. PICK q \in k..(to - 1) : /\ b[m] = a[q]
                                 /\ m < h => q = m
                                 /\ m = h => q = k
                                 /\ m > h => q >= h
    BY <1>9
  <2>3. p \in first..(to - 1) /\ q \in first..(to - 1)
    OBVIOUS
  <2>4. p = q
    BY <1>10, <2>1, <2>2, <2>3 DEF Distinct
  <2>5. CASE l > h /\ m > h
    <3>1. l \in (h + 1)..to /\ m \in (h + 1)..to /\ l \in 0..(n - 1) /\ m \in 0..(n - 1)
      BY <2>5
    <3>2. b[l] = above[l] /\ b[m] = above[m]
      BY <1>5, <2>5, <3>1
    <3> QED
      BY <1>4, <1>10, <3>1, <3>2
  <2>6. CASE ~(l > h /\ m > h)
    BY <2>1, <2>2, <2>4, <2>6
  <2> QED
    BY <2>5, <2>6
<1>11. \A l \in 0..(n - 1) : l <= k \/ l > to => b[l] = a[l]
  <2>1. ASSUME NEW l \in 0..(n - 1), l <= k \/ l > to PROVE b[l] = a[l]
    <3>1. l # h /\ (l <= h \/ l > to)
      BY <2>1
    <3> QED
      BY <1>4, <1>5, <3>1
  <2> QED
    BY <2>1
<1>12. Distinct(b, k + 1, to)
  BY <1>10, Zenon DEF Distinct
<1>13. \A l \in (k + 1)..to : \E m \in k..(to - 1) : b[l] = a[m]
  BY <1>9
<1> QED
  BY <1>1, <1>5, <1>8, <1>11, <1>12, <1>13, Zenon DEF Shifted

(* copy_up_one() on blocks that are in order, where there is something to  *)
(* search and the block to overwrite passes for as large as the one before. *)
LEMMA CopyShifts ==
    ASSUME NEW n \in Nat, NEW M, NEW a \in [0..(n - 1) -> Entries(M)],
           NEW first \in 0..(n - 1), NEW to \in 1..(n - 1),
           Ordered(a, n, first), Distinct(a, first, to - 1),
           NEW k \in first..(to - 1)
    PROVE  Shifted(a, CopyUpOne(a, first, to, k), n, M, k, to)
<1>1. PICK f : f = CopyUp(a, first, to)
  OBVIOUS
<1>2. first \in 0..n /\ first < n
  OBVIOUS
<1>3. \A l \in 0..(n - 1) : f[l] = CopiedFrom(a, first, to, f, l)
  BY <1>1, <1>2, CopyUpIs
<1> DEFINE Bad == {l \in first..(to - 1) : ~Shifted(a, f[l], n, M, l, to)}
<1>4. ASSUME Bad # {} PROVE FALSE
  <2>1. to - 1 \in Nat /\ Bad \subseteq 0..(to - 1)
    OBVIOUS
  <2>2. PICK l \in Bad : \A m \in Bad : m <= l
    BY <1>4, <2>1, GreatestNatural
  <2>3. l \in first..(to - 1) /\ l \in 0..(n - 1) /\ ~Shifted(a, f[l], n, M, l, to)
    BY <2>2
  <2>4. a[l].free \in Nat /\ a[to - 1].free \in Nat
    BY <2>3 DEF Entries
  <2>5. CASE l = to - 1 \/ a[l].free = a[to - 1].free
    <3>1. f[l] = [a EXCEPT ![to] = a[l]]
      BY <1>3, <2>3, <2>5 DEF CopiedFrom
    <3>2. a[l].free = a[to - 1].free
      BY <2>5
    <3>3. Shifted(a, [a EXCEPT ![to] = a[l]], n, M, l, to)
      BY <1>2, <2>3, <3>2, CopyLast
    <3> QED
      BY <2>3, <3>1, <3>3
  <2>6. CASE ~(l = to - 1 \/ a[l].free = a[to - 1].free)
    <3>1. PICK h : h = FirstGreater(a, first, a[l].free)
      OBVIOUS
    <3>2. GreaterAt(a, n, first, a[l].free, h)
      BY <1>2, <2>4, <3>1, GreaterFound
    <3>3. l < to - 1 /\ l \in first..(n - 1) /\ to - 1 \in first..(n - 1)
      BY <2>3, <2>6
    <3>4. a[l].free < a[to - 1].free
      BY <2>4, <2>6, <3>3 DEF Ordered
    <3>5. h # NotFound
      <4>1. ASSUME h = NotFound PROVE a[to - 1].free <= a[l].free
        BY <3>2, <3>3, <4>1 DEF GreaterAt
      <4> QED
        BY <2>4, <3>4, <4>1
    <3>6. /\ h \in first..(n - 1)
          /\ a[l].free < a[h].free
          /\ \A m \in first..(h - 1) : a[m].free <= a[l].free
      BY <1>2, <3>2, <3>5 DEF GreaterAt
    <3>7. a[h].free \in Nat
      BY <3>6 DEF Entries
    <3>8. h > l
      <4>1. ASSUME h <= l PROVE FALSE
        <5>1. h = l \/ a[h].free <= a[l].free
          BY <3>3, <3>6, <4>1 DEF Ordered
        <5> QED
          BY <2>4, <3>6, <3>7, <5>1
      <4> QED
        BY <3>3, <3>6, <4>1
    <3>9. h <= to - 1
      <4>1. ASSUME h > to - 1 PROVE FALSE
        <5>1. to - 1 \in first..(h - 1)
          BY <3>3, <3>6, <4>1
        <5>2. a[to - 1].free <= a[l].free
          BY <3>6, <5>1
        <5> QED
          BY <2>4, <3>4, <5>2
      <4> QED
        BY <3>6, <4>1
    <3>10. h \in (l + 1)..(to - 1) /\ h \in first..(to - 1)
      BY <2>3, <3>6, <3>8, <3>9
    <3>11. Shifted(a, f[h], n, M, h, to)
      BY <2>2, <2>3, <3>8, <3>10
    <3>12. f[l] = [f[h] EXCEPT ![h] = a[l]]
      BY <1>3, <2>3, <2>6, <3>1, <3>5 DEF CopiedFrom
    <3>13. Shifted(a, [f[h] EXCEPT ![h] = a[l]], n, M, l, to)
      BY <1>2, <2>3, <3>6, <3>10, <3>11, CopyBefore
    <3> QED
      BY <2>3, <3>12, <3>13
  <2> QED
    BY <2>5, <2>6
<1>5. Shifted(a, f[k], n, M, k, to)
  BY <1>4
<1> QED
  BY <1>1, <1>5 DEF CopyUpOne

-----------------------------------------------------------------------------
(* Moving the block that was taken from to where it belongs. *)

(* All in order but for i, which has no more than those after it.          *)
OrderedBut(a, n, first, i) ==
    \A k, l \in first..(n - 1) : k < l /\ l # i => a[k].free <= a[l].free

LEMMA FudgedOrder ==
    ASSUME NEW n \in Nat, NEW M, NEW a \in [0..(n - 1) -> Entries(M)],
           NEW first \in 0..(n - 1), NEW i \in (first + 1)..(n - 1),
           OrderedBut(a, n, first, i)
    PROVE  LET b == [a EXCEPT ![i].free = a[i - 1].free]
           IN  /\ b \in [0..(n - 1) -> Entries(M)]
               /\ Ordered(b, n, first)
               /\ \A k \in 0..(n - 1) : k # i => b[k] = a[k]
               /\ b[i].free = a[i - 1].free /\ b[i].mem = a[i].mem
<1>1. PICK b : b = [a EXCEPT ![i].free = a[i - 1].free]
  OBVIOUS
<1>2. i \in 0..(n - 1) /\ i - 1 \in 0..(n - 1) /\ i - 1 \in first..(n - 1)
  OBVIOUS
<1>3. \A k \in 0..(n - 1) : a[k] \in Entries(M)
  OBVIOUS
<1>4. \A k \in 0..(n - 1) : a[k].free \in Nat /\ a[k].mem \in M
  BY DEF Entries
<1>5. [a[i] EXCEPT !.free = a[i - 1].free] \in Entries(M)
  BY <1>2, <1>3, <1>4 DEF Entries
<1>6. /\ b \in [0..(n - 1) -> Entries(M)]
      /\ b[i] = [a[i] EXCEPT !.free = a[i - 1].free]
      /\ \A k \in 0..(n - 1) : k # i => b[k] = a[k]
  BY <1>1, <1>2, <1>5
<1>7. b[i].free = a[i - 1].free /\ b[i].mem = a[i].mem
  BY <1>2, <1>3, <1>6 DEF Entries
<1>8. ASSUME NEW k \in first..(n - 1), NEW l \in first..(n - 1), k < l
      PROVE  b[k].free <= b[l].free
  <2>1. k \in 0..(n - 1) /\ l \in 0..(n - 1)
    OBVIOUS
  <2>2. CASE l = i
    <3>1. b[k] = a[k]
      BY <1>6, <1>8, <2>1, <2>2
    <3>2. k = i - 1 \/ (k < i - 1 /\ i - 1 # i)
      BY <1>8, <2>2
    <3>3. a[k].free <= a[i - 1].free
      BY <1>2, <1>4, <2>1, <3>2 DEF OrderedBut
    <3> QED
      BY <1>7, <2>2, <3>1, <3>3
  <2>3. CASE l # i /\ k = i
    <3>1. b[l] = a[l] /\ i - 1 < l
      BY <1>6, <1>8, <2>1, <2>3
    <3>2. a[i - 1].free <= a[l].free
      BY <1>2, <2>3, <3>1 DEF OrderedBut
    <3> QED
      BY <1>7, <2>3, <3>1, <3>2
  <2>4. CASE l # i /\ k # i
    <3>1. b[l] = a[l] /\ b[k] = a[k]
      BY <1>6, <2>1, <2>4
    <3> QED
      BY <1>8, <2>4, <3>1 DEF OrderedBut
  <2> QED
    BY <2>2, <2>3, <2>4
<1>9. Ordered(b, n, first)
  BY <1>8 DEF Ordered
<1> QED
  BY <1>1, <1>6, <1>7, <1>9

(* What sorting is for: the same entries, in order, and those before first *)
(* as they were.                                                           *)
Resorted(a, c, n, M, first) ==
    /\ c \in [0..(n - 1) -> Entries(M)]
    /\ Ordered(c, n, first)
    /\ \A k \in 0..(first - 1) : c[k] = a[k]
    /\ \A k \in first..(n - 1) : \E l \in first..(n - 1) : c[k] = a[l]
    /\ Distinct(c, first, n - 1)

LEMMA InPlace ==
    ASSUME NEW n \in Nat, NEW M, NEW a \in [0..(n - 1) -> Entries(M)],
           NEW first \in 0..(n - 1), Ordered(a, n, first), Distinct(a, first, n - 1)
    PROVE  Resorted(a, a, n, M, first)
  BY DEF Resorted

LEMMA MovedDown ==
    ASSUME NEW n \in Nat, NEW M, NEW a \in [0..(n - 1) -> Entries(M)],
           NEW first \in 0..(n - 1), NEW i \in (first + 1)..(n - 1),
           OrderedBut(a, n, first, i), Distinct(a, first, n - 1),
           NEW b, b = [a EXCEPT ![i].free = a[i - 1].free],
           NEW j \in first..(i - 1), GreaterAt(b, n, first, a[i].free, j),
           NEW up, Shifted(b, up, n, M, j, i)
    PROVE  Resorted(a, [up EXCEPT ![j] = a[i]], n, M, first)
<1>1. /\ Ordered(b, n, first)
      /\ \A k \in 0..(n - 1) : k # i => b[k] = a[k]
  BY FudgedOrder
<1>2. /\ i \in 0..(n - 1) /\ j \in 0..(n - 1) /\ j < i
      /\ i \in first..(n - 1) /\ j \in first..(n - 1)
  OBVIOUS
<1>3. \A k \in 0..(n - 1) : a[k] \in Entries(M) /\ a[k].free \in Nat
  BY DEF Entries
<1>4. /\ up \in [0..(n - 1) -> Entries(M)]
      /\ \A k \in 0..(n - 1) : k <= j \/ k > i => up[k] = b[k]
      /\ \A k \in (j + 1)..i : up[k].free = b[k - 1].free
      /\ \A k \in (j + 1)..i : \E l \in j..(i - 1) : up[k] = b[l]
      /\ \A k, l \in (j + 1)..i : up[k].mem = up[l].mem => k = l
  BY Zenon DEF Shifted, Distinct
<1>5. PICK c : c = [up EXCEPT ![j] = a[i]]
  OBVIOUS
<1>6. /\ c \in [0..(n - 1) -> Entries(M)]
      /\ c[j] = a[i]
      /\ \A k \in 0..(n - 1) : k # j => c[k] = up[k]
  BY <1>2, <1>3, <1>4, <1>5
<1>7. /\ a[i].free < b[j].free
      /\ \A l \in first..(j - 1) : b[l].free <= a[i].free
  <2>1. j # NotFound
    BY <1>2 DEF NotFound
  <2> QED
    BY <1>1, <2>1, Zenon DEF GreaterAt
(* Where each comes from. *)
<1>8. ASSUME NEW k \in 0..(n - 1)
      PROVE  /\ k < j \/ k > i => c[k] = a[k]
             /\ j < k /\ k <= i => /\ c[k].free = a[k - 1].free
                                   /\ \E l \in j..(i - 1) : c[k] = a[l]
  <2>1. CASE k < j \/ k > i
    <3>1. k # j /\ k # i /\ ~(j < k /\ k <= i)
      BY <1>2, <2>1
    <3>2. c[k] = up[k] /\ up[k] = b[k] /\ b[k] = a[k]
      BY <1>1, <1>4, <1>6, <2>1, <3>1
    <3> QED
      BY <3>1, <3>2
  <2>2. CASE j < k /\ k <= i
    <3>1. k \in (j + 1)..i /\ k # j /\ k - 1 # i /\ k - 1 \in 0..(n - 1)
      BY <1>2, <2>2
    <3>2. c[k] = up[k] /\ up[k].free = b[k - 1].free /\ b[k - 1] = a[k - 1]
      BY <1>1, <1>4, <1>6, <3>1
    <3>3. PICK l \in j..(i - 1) : up[k] = b[l]
      BY <1>4, <3>1
    <3>4. b[l] = a[l]
      BY <1>1, <1>2
    <3> QED
      BY <2>2, <3>2, <3>3, <3>4
  <2> QED
    BY <2>1, <2>2
<1>9. ASSUME NEW k \in j..(i - 1) PROVE a[i].free <= a[k].free
  <2>1. k \in first..(n - 1) /\ k \in 0..(n - 1) /\ k # i /\ (j = k \/ j < k)
    BY <1>2
  <2>2. b[k] = a[k] /\ b[j] = a[j]
    BY <1>1, <1>2, <2>1
  <2>3. j = k \/ a[j].free <= a[k].free
    BY <1>1, <1>2, <2>1, <2>2 DEF Ordered
  <2> QED
    BY <1>2, <1>3, <1>7, <2>1, <2>2, <2>3
<1>10. \A k, l \in first..(n - 1) : k < l /\ l # i => a[k].free <= a[l].free
  BY DEF OrderedBut
<1>11. ASSUME NEW k \in first..(n - 1), NEW l \in first..(n - 1), k < l
       PROVE  c[k].free <= c[l].free
  <2>1. k \in 0..(n - 1) /\ l \in 0..(n - 1)
    OBVIOUS
  <2>2. CASE k < j
    <3>1. c[k] = a[k]
      BY <1>8, <2>1, <2>2
    <3>2. CASE l < j \/ l > i
      <4>1. c[l] = a[l] /\ l # i
        BY <1>2, <1>8, <2>1, <3>2
      <4> QED
        BY <1>10, <1>11, <3>1, <4>1
    <3>3. CASE l = j
      <4>1. b[k] = a[k] /\ k \in first..(j - 1)
        BY <1>1, <1>2, <2>1, <2>2
      <4> QED
        BY <1>6, <1>7, <3>1, <3>3, <4>1
    <3>4. CASE j < l /\ l <= i
      <4>1. l - 1 \in first..(n - 1) /\ k < l - 1 /\ l - 1 # i
        BY <1>2, <2>2, <3>4
      <4>2. c[l].free = a[l - 1].free
        BY <1>8, <2>1, <3>4
      <4> QED
        BY <1>10, <3>1, <4>1, <4>2
    <3> QED
      BY <3>2, <3>3, <3>4
  <2>3. CASE k = j
    <3>1. CASE l > i
      <4>1. c[l] = a[l] /\ c[k] = a[i] /\ i < l /\ l # i
        BY <1>6, <1>8, <2>1, <2>3, <3>1
      <4> QED
        BY <1>2, <1>10, <4>1
    <3>2. CASE l <= i
      <4>1. l - 1 \in j..(i - 1) /\ j < l
        BY <1>11, <2>3, <3>2
      <4>2. c[l].free = a[l - 1].free /\ c[k] = a[i]
        BY <1>6, <1>8, <2>1, <2>3, <3>2, <4>1
      <4> QED
        BY <1>9, <4>1, <4>2
    <3> QED
      BY <3>1, <3>2
  <2>4. CASE j < k /\ k <= i
    <3>1. c[k].free = a[k - 1].free /\ k - 1 \in first..(n - 1)
      BY <1>2, <1>8, <2>1, <2>4
    <3>2. CASE l > i
      <4>1. c[l] = a[l] /\ k - 1 < l /\ l # i
        BY <1>8, <1>11, <2>1, <3>2
      <4> QED
        BY <1>10, <3>1, <4>1
    <3>3. CASE l <= i
      <4>1. c[l].free = a[l - 1].free
        BY <1>8, <1>11, <2>1, <2>4, <3>3
      <4>2. l - 1 \in first..(n - 1) /\ k - 1 < l - 1 /\ l - 1 # i
        BY <1>2, <1>11, <2>4, <3>3
      <4> QED
        BY <1>10, <3>1, <4>1, <4>2
    <3> QED
      BY <3>2, <3>3
  <2>5. CASE k > i
    <3>1. c[k] = a[k] /\ c[l] = a[l] /\ l # i
      BY <1>8, <1>11, <2>1, <2>5
    <3> QED
      BY <1>10, <1>11, <3>1
  <2> QED
    BY <1>2, <2>2, <2>3, <2>4, <2>5
<1>12. ASSUME NEW k \in first..(n - 1)
       PROVE  \E l \in first..(n - 1) :
                 /\ c[k] = a[l]
                 /\ k < j \/ k > i => l = k
                 /\ k = j => l = i
                 /\ j < k /\ k <= i => l \in j..(i - 1)
  <2>1. k \in 0..(n - 1)
    OBVIOUS
  <2>2. CASE k < j \/ k > i
    <3>1. ~(k = j) /\ ~(j < k /\ k <= i)
      BY <1>2, <2>2
    <3> QED
      BY <1>8, <2>1, <2>2, <3>1
  <2>3. CASE k = j
    BY <1>2, <1>6, <2>3
  <2>4. CASE j < k /\ k <= i
    <3>1. PICK l \in j..(i - 1) : c[k] = a[l]
      BY <1>8, <2>1, <2>4
    <3>2. l \in first..(n - 1) /\ ~(k < j \/ k > i) /\ k # j
      BY <1>2, <2>4
    <3> QED
      BY <3>1, <3>2
  <2> QED
    BY <1>2, <2>2, <2>3, <2>4
<1>13. ASSUME NEW k \in first..(n - 1), NEW l \in first..(n - 1), c[k].mem = c[l].mem
       PROVE  k = l
  <2>1. PICK p \in first..(n - 1) :
                 /\ c[k] = a[p]
                 /\ k < j \/ k > i => p = k
                 /\ k = j => p = i
                 /\ j < k /\ k <= i => p \in j..(i - 1)
    BY <1>12
  <2>2. PICK q \in first..(n - 1) :
                 /\ c[l] = a[q]
                 /\ l < j \/ l > i => q = l
                 /\ l = j => q = i
                 /\ j < l /\ l <= i => q \in j..(i - 1)
    BY <1>12
  <2>3. p = q
    BY <1>13, <2>1, <2>2 DEF Distinct
  <2>4. CASE (j < k /\ k <= i) /\ (j < l /\ l <= i)
    <3>1. k \in (j + 1)..i /\ l \in (j + 1)..i /\ k # j /\ l # j
      BY <2>4
    <3>2. c[k] = up[k] /\ c[l] = up[l]
      BY <1>6, <3>1
    <3> QED
      BY <1>4, <1>13, <3>1, <3>2
  <2>5. CASE ~((j < k /\ k <= i) /\ (j < l /\ l <= i))
    BY <1>2, <2>1, <2>2, <2>3, <2>5
  <2> QED
    BY <2>4, <2>5
<1>14. \A k \in 0..(first - 1) : c[k] = a[k]
  <2>1. ASSUME NEW k \in 0..(first - 1) PROVE c[k] = a[k]
    <3>1. k \in 0..(n - 1) /\ k < j
      BY <1>2
    <3> QED
      BY <1>8, <3>1
  <2> QED
    BY <2>1
<1>15. Ordered(c, n, first)
  BY <1>11 DEF Ordered
<1>16. Distinct(c, first, n - 1)
  BY <1>13 DEF Distinct
<1>17. \A k \in first..(n - 1) : \E l \in first..(n - 1) : c[k] = a[l]
  BY <1>12
<1> QED
  BY <1>5, <1>6, <1>14, <1>15, <1>16, <1>17, Zenon DEF Resorted

LEMMA FudgedTypes ==
    ASSUME NEW n \in Nat, NEW M, NEW a \in [0..(n - 1) -> Entries(M)],
           NEW i \in 1..(n - 1)
    PROVE  LET b == [a EXCEPT ![i].free = a[i - 1].free]
           IN  /\ b \in [0..(n - 1) -> Entries(M)]
               /\ \A k \in 0..(n - 1) : k # i => b[k] = a[k]
               /\ b[i].free = a[i - 1].free /\ b[i].mem = a[i].mem
<1>1. PICK b : b = [a EXCEPT ![i].free = a[i - 1].free]
  OBVIOUS
<1>2. i \in 0..(n - 1) /\ i - 1 \in 0..(n - 1)
  OBVIOUS
<1>3. \A k \in 0..(n - 1) : a[k] \in Entries(M)
  OBVIOUS
<1>4. \A k \in 0..(n - 1) : a[k].free \in Nat /\ a[k].mem \in M
  BY DEF Entries
<1>5. [a[i] EXCEPT !.free = a[i - 1].free] \in Entries(M)
  BY <1>2, <1>3, <1>4 DEF Entries
<1>6. /\ b \in [0..(n - 1) -> Entries(M)]
      /\ b[i] = [a[i] EXCEPT !.free = a[i - 1].free]
      /\ \A k \in 0..(n - 1) : k # i => b[k] = a[k]
  BY <1>1, <1>2, <1>5
<1>7. b[i].free = a[i - 1].free /\ b[i].mem = a[i].mem
  BY <1>2, <1>3, <1>6 DEF Entries
<1> QED
  BY <1>1, <1>6, <1>7

(* With blocks to search, the block taken from among them, the blocks are  *)
(* in order again afterwards.                                              *)
LEMMA SortedSound ==
    ASSUME NEW n \in Nat, NEW M, NEW a \in [0..(n - 1) -> Entries(M)],
           NEW first \in 0..(n - 1), NEW i \in first..(n - 1), i > 0,
           OrderedBut(a, n, first, i), Distinct(a, first, n - 1)
    PROVE  Resorted(a, Sorted(a, first, i), n, M, first)
<1>1. PICK b : b = [a EXCEPT ![i].free = a[i - 1].free]
  OBVIOUS
<1>2. PICK j : j = FirstGreater(b, first, a[i].free)
  OBVIOUS
<1>3. Sorted(a, first, i) =
        IF j # NotFound /\ j < i THEN [CopyUpOne(b, first, i, j) EXCEPT ![j] = a[i]] ELSE a
  BY <1>1, <1>2, Zenon DEF Sorted
<1>4. i \in 1..(n - 1) /\ i \in 0..(n - 1) /\ first \in 0..n /\ first < n
  OBVIOUS
<1>5. \A k \in 0..(n - 1) : a[k].free \in Nat
  BY DEF Entries
<1>6. /\ b \in [0..(n - 1) -> Entries(M)]
      /\ \A k \in 0..(n - 1) : k # i => b[k] = a[k]
      /\ b[i].free = a[i - 1].free
  BY <1>1, <1>4, FudgedTypes
<1>7. GreaterAt(b, n, first, a[i].free, j)
  BY <1>2, <1>4, <1>5, <1>6, GreaterFound
<1>8. CASE i = first
  <2>1. Ordered(a, n, first)
    BY <1>8 DEF OrderedBut, Ordered
  <2>2. ~(j # NotFound /\ j < i)
    BY <1>4, <1>7, <1>8 DEF GreaterAt
  <2> QED
    BY <1>3, <2>1, <2>2, InPlace
<1>9. CASE i # first
  <2>1. i \in (first + 1)..(n - 1)
    BY <1>9
  <2>2. Ordered(b, n, first)
    BY <1>1, <2>1, FudgedOrder
  <2>3. CASE j # NotFound /\ j < i
    <3>1. j \in first..(i - 1)
      BY <1>4, <1>7, <2>3 DEF GreaterAt
    <3>2. Distinct(b, first, i - 1)
      <4>1. ASSUME NEW k \in first..(i - 1), NEW l \in first..(i - 1), b[k].mem = b[l].mem
            PROVE  k = l
        <5>1. b[k] = a[k] /\ b[l] = a[l] /\ k \in first..(n - 1) /\ l \in first..(n - 1)
          BY <1>4, <1>6
        <5> QED
          BY <4>1, <5>1 DEF Distinct
      <4> QED
        BY <4>1 DEF Distinct
    <3>3. Shifted(b, CopyUpOne(b, first, i, j), n, M, j, i)
      BY <1>4, <1>6, <2>2, <3>1, <3>2, CopyShifts
    <3>4. Resorted(a, [CopyUpOne(b, first, i, j) EXCEPT ![j] = a[i]], n, M, first)
      BY <1>1, <1>7, <2>1, <3>1, <3>3, MovedDown
    <3> QED
      BY <1>3, <2>3, <3>4
  <2>4. CASE ~(j # NotFound /\ j < i)
    <3>1. ASSUME NEW k \in first..(i - 1) PROVE a[k].free <= a[i].free
      <4>1. k \in first..(n - 1) /\ k \in 0..(n - 1) /\ k # i
        OBVIOUS
      <4>2. j # NotFound => k \in first..(j - 1)
        BY <1>7, <2>4 DEF GreaterAt
      <4>3. b[k].free <= a[i].free
        BY <1>7, <2>2, <4>1, <4>2 DEF GreaterAt
      <4> QED
        BY <1>6, <4>1, <4>3
    <3>2. ASSUME NEW k \in first..(n - 1), NEW l \in first..(n - 1), k < l
          PROVE  a[k].free <= a[l].free
      <4>1. CASE l = i
        <5>1. k \in first..(i - 1)
          BY <3>2, <4>1
        <5> QED
          BY <3>1, <4>1, <5>1
      <4>2. CASE l # i
        BY <3>2, <4>2 DEF OrderedBut
      <4> QED
        BY <4>1, <4>2
    <3>3. Ordered(a, n, first)
      BY <3>2 DEF Ordered
    <3> QED
      BY <1>3, <2>4, <3>3, InPlace
  <2> QED
    BY <2>3, <2>4
<1> QED
  BY <1>8, <1>9

(* With nothing to search the first and the newest entry may change places, *)
(* or the newest replace the first; what free space there is, there was.    *)
Exchanged(a, c, n, M, i) ==
    /\ c \in [0..(n - 1) -> Entries(M)]
    /\ c[0] = a[0] \/ c[0] = a[i]
    /\ \A k \in 0..(n - 1) : \E l \in 0..(n - 1) : c[k].free = a[l].free

LEMMA NothingSearched ==
    ASSUME NEW n \in Nat, NEW M, NEW a \in [0..(n - 1) -> Entries(M)],
           NEW i \in 1..(n - 1)
    PROVE  Exchanged(a, Sorted(a, n, i), n, M, i)
<1>1. PICK b : b = [a EXCEPT ![i].free = a[i - 1].free]
  OBVIOUS
<1>2. PICK j : j = FirstGreater(b, n, a[i].free)
  OBVIOUS
<1>3. PICK c : c = Sorted(a, n, i)
  OBVIOUS
<1>4. c = IF j # NotFound /\ j < i THEN [CopyUpOne(b, n, i, j) EXCEPT ![j] = a[i]] ELSE a
  BY <1>1, <1>2, <1>3, Zenon DEF Sorted
<1>5. i \in 0..(n - 1) /\ i - 1 \in 0..(n - 1) /\ n \in 0..n /\ 0 \in 0..(n - 1)
  OBVIOUS
<1>6. \A k \in 0..(n - 1) : a[k] \in Entries(M) /\ a[k].free \in Nat
  BY DEF Entries
<1>7. /\ b \in [0..(n - 1) -> Entries(M)]
      /\ \A k \in 0..(n - 1) : k # i => b[k] = a[k]
      /\ b[i].free = a[i - 1].free
  BY <1>1, FudgedTypes
<1>8. GreaterAt(b, n, n, a[i].free, j)
  BY <1>2, <1>5, <1>6, <1>7, GreaterFound
<1>9. CASE ~(j # NotFound /\ j < i)
  <2>1. c = a
    BY <1>4, <1>9
  <2> QED
    BY <1>3, <1>5, <2>1 DEF Exchanged
<1>10. CASE j # NotFound /\ j < i
  <2>1. j = 0
    BY <1>8, <1>10 DEF GreaterAt
  <2>2. PICK up : up = CopyUpOne(b, n, i, 0)
    OBVIOUS
  <2>3. up = CopiedFrom(b, n, i, CopyUp(b, n, i), 0)
    BY <1>5, <1>7, <2>2, CopyUpIs DEF CopyUpOne
  <2>4. FirstGreater(b, n, b[0].free) = NotFound
    <3>1. b[0].free \in Nat
      BY <1>5, <1>7 DEF Entries
    <3>2. GreaterAt(b, n, n, b[0].free, FirstGreater(b, n, b[0].free))
      BY <1>5, <1>7, <3>1, GreaterFound
    <3> QED
      BY <3>1, <3>2 DEF GreaterAt
  <2>5. up = b \/ up = [b EXCEPT ![i] = b[0]]
    BY <2>3, <2>4 DEF CopiedFrom
  <2>6. c = [up EXCEPT ![0] = a[i]]
    BY <1>4, <1>10, <2>1, <2>2
  <2>7. b[0] = a[0] /\ b[0] \in Entries(M)
    BY <1>5, <1>7
  <2>8. /\ up \in [0..(n - 1) -> Entries(M)]
        /\ \A k \in 0..(n - 1) : k # i => up[k] = a[k]
        /\ up[i].free = a[i - 1].free \/ up[i] = a[0]
    BY <1>5, <1>7, <2>5, <2>7
  <2>9. /\ c \in [0..(n - 1) -> Entries(M)]
        /\ c[0] = a[i]
        /\ \A k \in 0..(n - 1) : k # 0 => c[k] = up[k]
    BY <1>5, <1>6, <2>6, <2>8
  <2>10. ASSUME NEW k \in 0..(n - 1) PROVE \E l \in 0..(n - 1) : c[k].free = a[l].free
    <3>1. CASE k = 0
      BY <1>5, <2>9, <3>1
    <3>2. CASE k # 0 /\ k = i
      BY <1>5, <2>8, <2>9, <3>2
    <3>3. CASE k # 0 /\ k # i
      BY <2>8, <2>9, <3>3
    <3> QED
      BY <3>1, <3>2, <3>3
  <2> QED
    BY <1>3, <2>9, <2>10 DEF Exchanged
<1> QED
  BY <1>9, <1>10

-----------------------------------------------------------------------------
(* The steps of the pool. *)

(* In order pairwise is in order. *)
LEMMA OrderedPairs ==
    ASSUME NEW n \in Nat, NEW M, NEW a \in [0..(n - 1) -> Entries(M)],
           NEW first \in 0..n,
           \A k \in first..(n - 1) : k + 1 < n => a[k].free <= a[k + 1].free
    PROVE  Ordered(a, n, first)
<1>1. \A k \in 0..(n - 1) : a[k].free \in Nat
  BY DEF Entries
<1>2. ASSUME NEW k \in first..(n - 1) 
      PROVE  \A l \in k..(n - 1) : a[k].free <= a[l].free
  <2> DEFINE Less == {l \in k..(n - 1) : ~(a[k].free <= a[l].free)}
  <2>1. ASSUME Less # {} PROVE FALSE
    <3>1. Less \subseteq Nat
      OBVIOUS
    <3>2. PICK l \in Less : \A m \in Less : l <= m
      BY <2>1, <3>1, LeastNatural
    <3>3. l \in k..(n - 1) /\ ~(a[k].free <= a[l].free)
      BY <3>2
    <3>4. l # k
      BY <1>1, <3>3
    <3>5. PICK m : m = l - 1
      OBVIOUS
    <3>6. m \in k..(n - 1) /\ m \in first..(n - 1) /\ m + 1 = l /\ m + 1 < n /\ ~(l <= m)
      BY <3>3, <3>4, <3>5
    <3>7. a[k].free <= a[m].free
      BY <3>2, <3>6
    <3>8. a[m].free <= a[l].free
      BY <3>6
    <3>9. a[k].free \in Nat /\ a[l].free \in Nat /\ a[m].free \in Nat
      BY <1>1, <3>3, <3>6
    <3> QED
      BY <3>3, <3>7, <3>8, <3>9
  <2> QED
    BY <2>1
<1>3. ASSUME NEW k \in first..(n - 1), NEW l \in first..(n - 1), k < l
      PROVE  a[k].free <= a[l].free
  <2>1. l \in k..(n - 1)
    BY <1>3
  <2> QED
    BY <1>2, <2>1
<1> QED
  BY <1>3 DEF Ordered

LEMMA SizesPositive ==
    ASSUME NEW size \in Sizes \union {DtorSize}
    PROVE  size \in Nat \ {0}
  BY SizeAssumption

(* The pool's state, spelt out. *)
LEMMA PoolFacts ==
    ASSUME PoolInv
    PROVE  /\ Len(made) \in Nat /\ Len(given) \in Nat
           /\ pool.a \in [0..(Len(made) - 1) -> Entries(1..Len(made))]
           /\ DOMAIN pool.a = 0..(Len(made) - 1)
           /\ Count(pool.a) = Len(made)
           /\ pool.first_i \in 0..Len(made)
           /\ \A k \in 0..(Len(made) - 1) :
                 pool.a[k].free \in Nat /\ pool.a[k].mem \in 1..Len(made)
           /\ pool.a_len \in Nat /\ pool.block_size \in Nat /\ pool.skip_size \in Nat
           /\ pool = [a |-> pool.a, first_i |-> pool.first_i, a_len |-> pool.a_len,
                      block_size |-> pool.block_size, skip_size |-> pool.skip_size]
           /\ DOMAIN made = 1..Len(made) /\ \A m \in 1..Len(made) : made[m] \in Nat
           /\ DOMAIN given = 1..Len(given)
           /\ \A g \in 1..Len(given) :
                 /\ given[g].mem \in 1..Len(made)
                 /\ given[g].from \in Nat /\ given[g].to \in Nat
                 /\ given[g].from <= given[g].to
                 /\ given[g].to < made[given[g].mem]
           /\ Searched = pool.first_i..(Len(made) - 1)
           /\ Open = {k \in 0..(Len(made) - 1) : k = 0 \/ k >= pool.first_i}
<1>1. Len(made) \in Nat /\ Len(given) \in Nat
  BY DEF PoolInv
<1>2. pool \in PoolType
  BY DEF PoolInv
<1>3. /\ pool.a \in [0..(Len(made) - 1) -> MemBlock]
      /\ pool.first_i \in 0..Len(made)
      /\ pool.a_len \in Nat /\ pool.block_size \in Nat /\ pool.skip_size \in Nat
      /\ pool = [a |-> pool.a, first_i |-> pool.first_i, a_len |-> pool.a_len,
                 block_size |-> pool.block_size, skip_size |-> pool.skip_size]
  BY <1>2 DEF PoolType
<1>4. /\ pool.a \in [0..(Len(made) - 1) -> Entries(1..Len(made))]
      /\ DOMAIN pool.a = 0..(Len(made) - 1)
  BY <1>3 DEF MemBlock, Entries
<1>5. \A k \in 0..(Len(made) - 1) :
         pool.a[k].free \in Nat /\ pool.a[k].mem \in 1..Len(made)
  BY <1>4 DEF Entries
<1>6. Count(pool.a) = Len(made)
  BY <1>1, <1>4, CountOf
<1>7. made \in Seq(Nat) /\ given \in Seq(GivenType)
  BY DEF PoolInv
<1>8. /\ DOMAIN made = 1..Len(made) /\ \A m \in 1..Len(made) : made[m] \in Nat
      /\ DOMAIN given = 1..Len(given) /\ \A g \in 1..Len(given) : given[g] \in GivenType
  BY <1>7
<1>9. \A g \in 1..Len(given) :
         /\ given[g].mem \in 1..Len(made)
         /\ given[g].from \in Nat /\ given[g].to \in Nat
  BY <1>8 DEF GivenType
<1>10. \A g \in 1..Len(given) :
         given[g].from <= given[g].to /\ given[g].to < made[given[g].mem]
  BY <1>8 DEF PoolInv, GivenSound, MemoryNotShared
<1>11. Searched = pool.first_i..(Len(made) - 1)
  BY <1>1, <1>3, <1>4 DEF Searched
<1>12. Open = {k \in 0..(Len(made) - 1) : k = 0 \/ k >= pool.first_i}
  BY <1>1, <1>3, <1>4 DEF Searched, Open
<1> QED
  BY <1>1, <1>3, <1>4, <1>5, <1>6, <1>8, <1>9, <1>10, <1>11, <1>12

(* The invariant's parts about what is given out, together. *)
(* A live pool is in order where it is searched. *)
LEMMA LiveOrdered ==
    ASSUME PoolInv, pc = "live"
    PROVE  Ordered(pool.a, Len(made), pool.first_i)
<1>1. PICK n, a, first : n = Len(made) /\ a = pool.a /\ first = pool.first_i
  OBVIOUS
<1>2. n \in Nat /\ a \in [0..(n - 1) -> Entries(1..n)] /\ first \in 0..n /\ DOMAIN a = 0..(n - 1)
  BY <1>1, PoolFacts
<1>3. ASSUME NEW k \in first..(n - 1), k + 1 < n PROVE a[k].free <= a[k + 1].free
  <2>1. k \in DOMAIN a /\ k >= first
    BY <1>2
  <2> QED
    BY <1>1, <1>3, <2>1 DEF PoolInv, SortedWhereSearched
<1>4. Ordered(a, n, first)
  BY <1>2, <1>3, OrderedPairs
<1> QED
  BY <1>1, <1>4

(* The memory handed out: above what is free of the block, below what was  *)
(* free of it.                                                             *)
LEMMA HandedFacts ==
    ASSUME PoolInv, NEW mem \in 1..(Len(made')), NEW from \in Nat, NEW size \in Nat \ {0},
           Handed(mem, from, size), Len(made') \in Nat, Len(made) <= Len(made')
    PROVE  LET to == from + size - 1
           IN  /\ given' \in Seq([mem : 1..Len(made'), from : Nat, to : Nat])
               /\ Len(given') = Len(given) + 1
               /\ DOMAIN given' = 1..(Len(given) + 1)
               /\ \A g \in 1..Len(given) : given'[g] = given[g]
               /\ given'[Len(given) + 1] = [mem |-> mem, from |-> from, to |-> to]
               /\ from <= to
               /\ pc' = "sort"
<1>1. PICK n, m, to : n = Len(made) /\ m = Len(made') /\ to = from + size - 1
  OBVIOUS
<1>2. n \in Nat /\ m \in Nat /\ n <= m /\ to \in Nat /\ from <= to
  BY <1>1, PoolFacts
<1> DEFINE T == [mem : 1..m, from : Nat, to : Nat]
<1>3. 1..n \subseteq 1..m
  BY <1>2
<1>4. given \in Seq(T)
  <2>1. GivenType \subseteq T
    BY <1>1, <1>3 DEF GivenType
  <2>2. given \in Seq(GivenType)
    BY DEF PoolInv
  <2> HIDE DEF T
  <2> QED
    BY <2>1, <2>2
<1>5. PICK r : r = [mem |-> mem, from |-> from, to |-> to]
  OBVIOUS
<1>6. r \in T
  BY <1>1, <1>2, <1>5
<1>7. given' = Append(given, r) /\ pc' = "sort"
  BY <1>1, <1>5 DEF Handed
<1> HIDE DEF T
<1>8. /\ given' \in Seq(T)
      /\ Len(given') = Len(given) + 1
      /\ \A g \in 1..Len(given) : given'[g] = given[g]
      /\ given'[Len(given) + 1] = r
  BY <1>4, <1>6, <1>7, AppendProperties
<1>9. DOMAIN given' = 1..(Len(given) + 1)
  BY <1>8
<1> QED
  BY <1>1, <1>2, <1>5, <1>7, <1>8, <1>9 DEF T

(* No more is given of a block than what was free of it. *)
LEMMA HandedSound ==
    ASSUME PoolInv, NEW mem \in 1..(Len(made')), NEW from \in Nat, NEW size \in Nat \ {0},
           Handed(mem, from, size), Len(made') \in Nat, Len(made) <= Len(made'),
           \A m \in 1..Len(made) : made'[m] = made[m],
           from + size <= made'[mem], made'[mem] \in Nat,
           \A g \in 1..Len(given) : given[g].mem = mem => from + size <= given[g].from
    PROVE  /\ given' \in Seq(GivenType')
           /\ GivenSound'
           /\ MemoryNotShared'
<1>1. PICK to : to = from + size - 1
  OBVIOUS
<1>2. to \in Nat /\ from <= to /\ to < from + size
  BY <1>1
<1>3. PICK last : last = Len(given) + 1
  OBVIOUS
<1>4. Len(given) \in Nat /\ last \in Nat
  BY <1>3, PoolFacts
<1>5. /\ given' \in Seq([mem : 1..Len(made'), from : Nat, to : Nat])
      /\ DOMAIN given' = 1..last
      /\ \A g \in 1..Len(given) : given'[g] = given[g]
      /\ given'[last] = [mem |-> mem, from |-> from, to |-> to]
  BY <1>1, <1>3, HandedFacts
<1>6. given'[last].mem = mem /\ given'[last].from = from /\ given'[last].to = to
  BY <1>5
<1>7. \A g \in 1..last : g = last \/ (g \in 1..Len(given) /\ given'[g] = given[g])
  <2>1. \A g \in 1..last : g = last \/ g \in 1..Len(given)
    BY <1>3, <1>4
  <2> QED
    BY <1>5, <2>1
<1>8. \A g \in 1..Len(given) :
         /\ given[g].mem \in 1..Len(made)
         /\ given[g].from \in Nat /\ given[g].to \in Nat
         /\ given[g].from <= given[g].to
         /\ given[g].to < made[given[g].mem]
  BY PoolFacts
<1>9. \A g \in 1..last : /\ given'[g].from <= given'[g].to
                         /\ 0 <= given'[g].from
                         /\ given'[g].to < made'[given'[g].mem]
  <2>1. ASSUME NEW g \in 1..last
        PROVE  /\ given'[g].from <= given'[g].to
               /\ 0 <= given'[g].from
               /\ given'[g].to < made'[given'[g].mem]
    <3>1. CASE g = last
      BY <1>2, <1>6, <3>1
    <3>2. CASE g \in 1..Len(given) /\ given'[g] = given[g]
      BY <1>8, <3>2
    <3> QED
      BY <1>7, <3>1, <3>2
  <2> QED
    BY <2>1
<1>10. ASSUME NEW g \in 1..last, NEW h \in 1..last, given'[g].mem = given'[h].mem
       PROVE  g = h \/ given'[g].to < given'[h].from \/ given'[h].to < given'[g].from
  <2>1. CASE g = last /\ h = last
    BY <2>1
  <2>2. CASE g = last /\ h \in 1..Len(given) /\ given'[h] = given[h]
    <3>1. from + size <= given[h].from /\ given[h].from \in Nat
      BY <1>6, <1>8, <1>10, <2>2
    <3> QED
      BY <1>2, <1>6, <2>2, <3>1
  <2>3. CASE h = last /\ g \in 1..Len(given) /\ given'[g] = given[g]
    <3>1. from + size <= given[g].from /\ given[g].from \in Nat
      BY <1>6, <1>8, <1>10, <2>3
    <3> QED
      BY <1>2, <1>6, <2>3, <3>1
  <2>4. CASE /\ g \in 1..Len(given) /\ given'[g] = given[g]
             /\ h \in 1..Len(given) /\ given'[h] = given[h]
    <3>1. DOMAIN given = 1..Len(given)
      BY PoolFacts
    <3> QED
      BY <1>10, <2>4, <3>1 DEF PoolInv, MemoryNotShared
  <2> QED
    BY <1>7, <2>1, <2>2, <2>3, <2>4
<1>11. given' \in Seq(GivenType')
  BY <1>5 DEF GivenType
<1>12. GivenSound'
  BY <1>5, <1>9 DEF GivenSound
<1>13. MemoryNotShared'
  BY <1>5, <1>9, <1>10, Zenon DEF MemoryNotShared
<1> QED
  BY <1>11, <1>12, <1>13

LEMMA UseBlockStep ==
    ASSUME PoolInv, NEW size \in Sizes \union {DtorSize}, NEW dtor \in BOOLEAN,
           UseBlock(size, dtor)
    PROVE  PoolInv'
<1>1. PICK n, a, first : n = Len(made) /\ a = pool.a /\ first = pool.first_i
  OBVIOUS
<1>2. PICK i : i = Fit(size)
  OBVIOUS
<1>3. PICK left : left = a[i].free - size
  OBVIOUS
<1>4. /\ pc = "live" /\ i # NotFound
      /\ pool' = [pool EXCEPT !.a[i].free = left]
      /\ call' = [i |-> i, dtor |-> dtor]
      /\ Handed(a[i].mem, left, size)
      /\ UNCHANGED <<dtors, made, freed>>
  BY <1>1, <1>2, <1>3, Zenon DEF UseBlock, Asked
<1>5. size \in Nat \ {0}
  BY SizesPositive
<1>6. /\ n \in Nat /\ first \in 0..n
      /\ a \in [0..(n - 1) -> Entries(1..n)] /\ DOMAIN a = 0..(n - 1)
      /\ \A k \in 0..(n - 1) : a[k].free \in Nat /\ a[k].mem \in 1..n
      /\ Open = {k \in 0..(n - 1) : k = 0 \/ k >= first}
      /\ Searched = first..(n - 1)
      /\ pool = [a |-> a, first_i |-> first, a_len |-> pool.a_len,
                 block_size |-> pool.block_size, skip_size |-> pool.skip_size]
      /\ pool.a_len \in Nat /\ pool.block_size \in Nat /\ pool.skip_size \in Nat
      /\ \A m \in 1..n : made[m] \in Nat
  BY <1>1, PoolFacts
<1>7. SmallestAt(a, n, first, size, i)
  BY <1>1, <1>2, <1>5, <1>6, SmallestFound DEF Fit
<1>8. i \in 0..(n - 1) /\ size <= a[i].free /\ i \in Open /\ (first <= i \/ first = n)
  BY <1>4, <1>6, <1>7 DEF SmallestAt
<1>9. left \in Nat /\ left + size = a[i].free /\ left <= a[i].free
  BY <1>3, <1>5, <1>6, <1>8
<1>10. PICK b : b = [a EXCEPT ![i].free = left]
  OBVIOUS
<1>11. /\ pool' = [a |-> b, first_i |-> first, a_len |-> pool.a_len,
                   block_size |-> pool.block_size, skip_size |-> pool.skip_size]
  <2>1. pool' = [pool EXCEPT !.a = b]
    BY <1>1, <1>4, <1>10, Zenon
  <2>2. PICK l, s, z : l = pool.a_len /\ s = pool.block_size /\ z = pool.skip_size
    OBVIOUS
  <2>3. pool = [a |-> a, first_i |-> first, a_len |-> l, block_size |-> s, skip_size |-> z]
    BY <1>6, <2>2
  <2>4. pool' = [a |-> b, first_i |-> first, a_len |-> l, block_size |-> s, skip_size |-> z]
    BY <2>1, <2>3
  <2> QED
    BY <2>2, <2>4
<1>12. /\ b \in [0..(n - 1) -> Entries(1..n)] /\ DOMAIN b = 0..(n - 1)
       /\ \A k \in 0..(n - 1) : k # i => b[k] = a[k]
       /\ b[i].free = left /\ b[i].mem = a[i].mem
  <2>1. a[i] \in Entries(1..n)
    BY <1>6, <1>8
  <2>2. [a[i] EXCEPT !.free = left] \in Entries(1..n)
    BY <1>9, <2>1 DEF Entries
  <2>3. /\ b \in [0..(n - 1) -> Entries(1..n)]
        /\ \A k \in 0..(n - 1) : k # i => b[k] = a[k]
        /\ b[i] = [a[i] EXCEPT !.free = left]
    BY <1>6, <1>8, <1>10, <2>2
  <2>4. b[i].free = left /\ b[i].mem = a[i].mem
    BY <2>1, <2>3 DEF Entries
  <2> QED
    BY <2>3, <2>4
<1>13. /\ pool'.a = b /\ pool'.first_i = first /\ pool'.a_len = pool.a_len
       /\ pool'.skip_size = pool.skip_size /\ made' = made
  BY <1>4, <1>11
<1>14. pool' \in PoolType'
  <2>1. b \in [0..(n - 1) -> MemBlock']
    BY <1>1, <1>12, <1>13 DEF MemBlock, Entries
  <2> QED
    BY <1>1, <1>6, <1>11, <1>13, <2>1 DEF PoolType
<1>15. Searched' = Searched /\ Open' = Open
  <2>1. DOMAIN b = DOMAIN a
    BY <1>6, <1>12
  <2> QED
    BY <1>1, <1>13, <2>1 DEF Searched, Open
(* What the block is handed out of. *)
<1>16. /\ a[i].free <= made[a[i].mem]
       /\ \A g \in 1..Len(given) : given[g].mem = a[i].mem => a[i].free <= given[g].from
  <2>1. FreeIsFree(i) /\ DOMAIN given = 1..Len(given)
    BY <1>8, PoolFacts DEF PoolInv
  <2> QED
    BY <1>1, <2>1 DEF FreeIsFree
<1>17. a[i].mem \in 1..n
  BY <1>6, <1>8
<1>18. /\ given' \in Seq(GivenType') /\ GivenSound' /\ MemoryNotShared'
  <2>1. PICK mem : mem = a[i].mem
    OBVIOUS
  <2>2. Len(made') \in Nat /\ Len(made) <= Len(made') /\ mem \in 1..Len(made')
    BY <1>1, <1>6, <1>13, <1>17, <2>1
  <2>3. Handed(mem, left, size)
    BY <1>4, <2>1
  <2>4. left + size <= made'[mem] /\ made'[mem] \in Nat
    BY <1>6, <1>9, <1>13, <1>16, <1>17, <2>1
  <2>5. \A g \in 1..Len(given) : given[g].mem = mem => left + size <= given[g].from
    BY <1>9, <1>16, <2>1
  <2>6. \A m \in 1..Len(made) : made'[m] = made[m]
    BY <1>13
  <2> QED
    BY <1>5, <1>9, <2>2, <2>3, <2>4, <2>5, <2>6, HandedSound
<1>19. /\ DOMAIN given' = 1..(Len(given) + 1)
       /\ Len(given) \in Nat
       /\ \A g \in 1..Len(given) : given'[g] = given[g]
       /\ given'[Len(given) + 1].mem = a[i].mem
       /\ given'[Len(given) + 1].from = left
       /\ pc' = "sort"
       /\ given' # <<>>
  <2>1. PICK to : to = left + size - 1
    OBVIOUS
  <2>2. /\ Len(given') = Len(given) + 1
        /\ DOMAIN given' = 1..(Len(given) + 1)
        /\ \A g \in 1..Len(given) : given'[g] = given[g]
        /\ given'[Len(given) + 1] = [mem |-> a[i].mem, from |-> left, to |-> to]
        /\ pc' = "sort"
    BY <1>1, <1>4, <1>5, <1>6, <1>9, <1>13, <1>17, <2>1, HandedFacts
  <2>3. Len(given) \in Nat
    BY PoolFacts
  <2>4. given' # <<>>
    BY <2>2, <2>3
  <2> QED
    BY <2>2, <2>3, <2>4
<1>20. \A g \in 1..(Len(given) + 1) :
          \/ g \in 1..Len(given) /\ given'[g] = given[g]
          \/ g = Len(given) + 1
  <2>1. \A g \in 1..(Len(given) + 1) : g \in 1..Len(given) \/ g = Len(given) + 1
    BY <1>19
  <2> QED
    BY <1>19, <2>1
<1>21. \A k \in Open : a[k].mem = a[i].mem => k = i
  BY <1>1, <1>8 DEF PoolInv
<1>22. ASSUME NEW k \in Open' PROVE FreeIsFree(k)'
  <2>1. k \in Open /\ k \in 0..(n - 1)
    BY <1>6, <1>15
  <2>2. /\ a[k].free <= made[a[k].mem]
        /\ \A g \in 1..Len(given) : given[g].mem = a[k].mem => a[k].free <= given[g].from
    <3>1. FreeIsFree(k) /\ DOMAIN given = 1..Len(given)
      BY <2>1, PoolFacts DEF PoolInv
    <3> QED
      BY <1>1, <3>1 DEF FreeIsFree
  <2>3. b[k].mem = a[k].mem /\ a[k].free \in Nat /\ b[k].free <= a[k].free /\ b[k].free \in Nat
    BY <1>6, <1>9, <1>12, <2>1
  <2>4. a[k].mem \in 1..n /\ made[a[k].mem] \in Nat
    BY <1>6, <2>1
  <2>5. b[k].free <= made[b[k].mem]
    BY <2>2, <2>3, <2>4
  <2>6. ASSUME NEW g \in 1..(Len(given) + 1), given'[g].mem = b[k].mem
        PROVE  b[k].free <= given'[g].from
    <3>1. CASE g \in 1..Len(given) /\ given'[g] = given[g]
      <4>1. a[k].free <= given[g].from /\ given[g].from \in Nat
        BY <2>2, <2>3, <2>6, <3>1, PoolFacts
      <4> QED
        BY <2>3, <3>1, <4>1
    <3>2. CASE g = Len(given) + 1
      <4>1. k = i
        BY <1>19, <1>21, <2>1, <2>3, <2>6, <3>2
      <4> QED
        BY <1>9, <1>12, <1>19, <3>2, <4>1
    <3> QED
      BY <1>20, <3>1, <3>2
  <2> QED
    BY <1>13, <1>19, <2>5, <2>6 DEF FreeIsFree
<1>23. \A k, l \in Open' : pool'.a[k].mem = pool'.a[l].mem => k = l
  <2>1. \A k \in Open : b[k].mem = a[k].mem
    BY <1>6, <1>12
  <2> QED
    BY <1>1, <1>13, <1>15, <2>1 DEF PoolInv
<1>24. \A k \in DOMAIN pool'.a : k < pool'.first_i => pool'.a[k].free <= pool'.skip_size
  <2>1. ASSUME NEW k \in 0..(n - 1), k < first PROVE b[k].free <= pool.skip_size
    <3>1. a[k].free <= pool.skip_size
      BY <1>1, <1>6, <2>1 DEF PoolInv
    <3>2. b[k].free <= a[k].free /\ a[k].free \in Nat /\ b[k].free \in Nat
      BY <1>6, <1>9, <1>12
    <3> QED
      BY <1>6, <3>1, <3>2
  <2> QED
    BY <1>12, <1>13, <2>1
<1>25. OthersSorted'
  <2>1. call'.i = i /\ i \in DOMAIN pool'.a /\ i \in Open'
    BY <1>4, <1>8, <1>12, <1>13, <1>15
  <2>2. FreeIsFree(i)'
    BY <1>22, <2>1
  <2>3. FreeIsFree(call.i)'
    BY <2>1, <2>2 DEF FreeIsFree
  <2>4. ASSUME NEW k \in first..(n - 1), NEW l \in first..(n - 1), k < l, l # i
        PROVE  b[k].free <= b[l].free
    <3>1. a[k].free <= a[l].free
      BY <1>1, <1>4, <2>4, LiveOrdered DEF Ordered
    <3>2. k \in 0..(n - 1) /\ l \in 0..(n - 1)
      BY <1>6
    <3>3. b[l] = a[l] /\ b[k].free <= a[k].free /\ b[k].free \in Nat
      BY <1>6, <1>9, <1>12, <2>4, <3>2
    <3> QED
      BY <1>6, <3>1, <3>2, <3>3
  <2>5. pool'.first_i <= call'.i \/ pool'.first_i = Len(made')
    BY <1>1, <1>8, <1>13, <2>1
  <2>6. \A k, l \in Searched' : k < l /\ l # call'.i => pool'.a[k].free <= pool'.a[l].free
    BY <1>6, <1>13, <1>15, <2>1, <2>4
  <2> QED
    BY <1>19, <2>1, <2>3, <2>5, <2>6, Zenon DEF OthersSorted
<1>26. SortedWhereSearched'
  BY <1>19 DEF SortedWhereSearched
<1>27. /\ call' \in [i : Nat, dtor : BOOLEAN] /\ call'.i <= Len(made')
       /\ Len(made') <= pool'.a_len
  BY <1>1, <1>4, <1>6, <1>8, <1>13 DEF PoolInv
<1>28. made' \in Seq(Nat) /\ freed' \in Seq(1..Len(made'))
  BY <1>4 DEF PoolInv
<1>29. dtors' \in Seq(DOMAIN given')
  <2>1. dtors \in Seq(DOMAIN given) /\ DOMAIN given \subseteq DOMAIN given'
    BY <1>19, PoolFacts DEF PoolInv
  <2>2. dtors' = dtors
    BY <1>4
  <2> QED
    BY <2>1, <2>2
<1> QED
  BY <1>14, <1>18, <1>19, <1>22, <1>23, <1>24, <1>25, <1>26, <1>27, <1>28, <1>29, Zenon
     DEF PoolInv

(* first_i stops at an entry with more than skip_size free, or at the end. *)
LEMMA StopsPastFull ==
    ASSUME NEW n \in Nat, NEW M, NEW a \in [0..(n - 1) -> Entries(M)],
           NEW from \in 0..n, NEW skip \in Nat
    PROVE  /\ FirstSearched(a, from, skip) \in from..n
           /\ \A k \in from..(FirstSearched(a, from, skip) - 1) : a[k].free <= skip
<1>1. PICK f : f = FirstSearched(a, from, skip)
  OBVIOUS
<1>2. Count(a) = n
  BY CountOf
<1> DEFINE Stops == {k \in from..n : k < n => a[k].free > skip}
<1>3. Stops \subseteq Nat /\ n \in Stops
  OBVIOUS
<1>4. PICK k \in Stops : \A l \in Stops : k <= l
  BY <1>3, LeastNatural
<1>5. k \in from..n /\ (k < n => a[k].free > skip)
  BY <1>4
<1>6. ASSUME NEW m \in from..(k - 1) PROVE a[m].free <= skip
  <2>1. m \in from..n /\ m < n /\ ~(k <= m) /\ m \in 0..(n - 1)
    BY <1>5
  <2>2. ~(a[m].free > skip)
    BY <1>4, <2>1
  <2>3. a[m].free \in Nat
    BY <2>1 DEF Entries
  <2> QED
    BY <2>2, <2>3
<1>7. \E x \in from..n : /\ \A m \in from..(x - 1) : a[m].free <= skip
                         /\ x < n => a[x].free > skip
  BY <1>5, <1>6
<1>8. f = CHOOSE x \in from..n : /\ \A m \in from..(x - 1) : a[m].free <= skip
                                 /\ x < n => a[x].free > skip
  BY <1>1, <1>2, Zenon DEF FirstSearched
<1>9. f \in from..n /\ \A m \in from..(f - 1) : a[m].free <= skip
  BY <1>7, <1>8, Zenon
<1> QED
  BY <1>1, <1>9

LEMMA UpsizedFacts ==
    ASSUME PoolInv
    PROVE  \E l, s, z \in Nat :
              /\ Upsized = [a |-> pool.a, first_i |-> pool.first_i, a_len |-> l,
                            block_size |-> s, skip_size |-> z]
              /\ pool.a_len < l
              /\ pool.skip_size <= z
<1>1. PICK p : p = pool
  OBVIOUS
<1>2. /\ p.a_len \in Nat /\ p.block_size \in Nat /\ p.skip_size \in Nat
      /\ p = [a |-> p.a, first_i |-> p.first_i, a_len |-> p.a_len,
              block_size |-> p.block_size, skip_size |-> p.skip_size]
  BY <1>1, PoolFacts
<1>3. PICK l : l = IF p.a_len > 0 THEN 2 * p.a_len ELSE 1
  OBVIOUS
<1>4. PICK s : s = 2 * p.block_size
  OBVIOUS
<1>5. PICK z : z = IF p.first_i >= (p.a_len * 2) \div 3 THEN p.skip_size
                   ELSE IF p.skip_size > 0 THEN 2 * p.skip_size ELSE 1
  OBVIOUS
<1>6. Upsized = [p EXCEPT !.a_len = l, !.block_size = s, !.skip_size = z]
  BY <1>1, <1>3, <1>4, <1>5 DEF Upsized
<1>7. Upsized = [a |-> p.a, first_i |-> p.first_i, a_len |-> l,
                 block_size |-> s, skip_size |-> z]
  <2>1. PICK q : q = [p EXCEPT !.a_len = l]
    OBVIOUS
  <2>2. q = [a |-> p.a, first_i |-> p.first_i, a_len |-> l,
             block_size |-> p.block_size, skip_size |-> p.skip_size]
    BY <1>2, <2>1
  <2>3. PICK r : r = [q EXCEPT !.block_size = s]
    OBVIOUS
  <2>4. r = [a |-> p.a, first_i |-> p.first_i, a_len |-> l,
             block_size |-> s, skip_size |-> p.skip_size]
    BY <2>2, <2>3
  <2>5. Upsized = [r EXCEPT !.skip_size = z]
    BY <1>6, <2>1, <2>3
  <2> QED
    BY <2>4, <2>5
<1>8. l \in Nat /\ s \in Nat /\ z \in Nat /\ p.a_len < l /\ p.skip_size <= z
  BY <1>2, <1>3, <1>4, <1>5
<1> QED
  BY <1>1, <1>7, <1>8

LEMMA GrownFacts ==
    ASSUME PoolInv
    PROVE  \E l, s, z \in Nat :
              /\ Grown = [a |-> pool.a, first_i |-> pool.first_i, a_len |-> l,
                          block_size |-> s, skip_size |-> z]
              /\ Len(made) < l
              /\ pool.skip_size <= z
<1>1. PICK n, len : n = Len(made) /\ len = pool.a_len
  OBVIOUS
<1>2. n \in Nat /\ len \in Nat /\ n <= len /\ Count(pool.a) = n
  BY <1>1, PoolFacts DEF PoolInv
<1>3. CASE n = len
  <2>1. Grown = Upsized
    BY <1>1, <1>2, <1>3 DEF Grown
  <2> QED
    BY <1>1, <1>2, <1>3, <2>1, UpsizedFacts
<1>4. CASE n # len
  <2>1. Grown = pool /\ n < len
    BY <1>1, <1>2, <1>4 DEF Grown
  <2> QED
    BY <1>1, <1>2, <2>1, PoolFacts
<1> QED
  BY <1>3, <1>4

LEMMA AddFailsStep ==
    ASSUME PoolInv, NEW size \in Sizes \union {DtorSize}, NEW dtor \in BOOLEAN,
           AddFails(size, dtor)
    PROVE  PoolInv'
<1>1. PICK l \in Nat, s \in Nat, z \in Nat :
         /\ Upsized = [a |-> pool.a, first_i |-> pool.first_i, a_len |-> l,
                       block_size |-> s, skip_size |-> z]
         /\ pool.a_len < l
         /\ pool.skip_size <= z
  BY UpsizedFacts
<1>2. /\ pool' = Upsized /\ pc = "live"
      /\ UNCHANGED <<pc, call, dtors, made, given, freed>>
  BY DEF AddFails, Asked
<1>3. /\ pool' = [a |-> pool.a, first_i |-> pool.first_i, a_len |-> l,
                  block_size |-> s, skip_size |-> z]
      /\ pool'.a = pool.a /\ pool'.first_i = pool.first_i
      /\ pool'.a_len = l /\ pool'.skip_size = z
  BY <1>1, <1>2
<1>4. /\ pool.a \in [0..(Len(made) - 1) -> MemBlock] /\ pool.first_i \in 0..Len(made)
      /\ pool.a_len \in Nat /\ pool.skip_size \in Nat /\ Len(made) \in Nat
      /\ DOMAIN pool.a = 0..(Len(made) - 1)
      /\ \A k \in 0..(Len(made) - 1) : pool.a[k].free \in Nat
  BY PoolFacts DEF PoolInv, PoolType
<1>5. pool' \in PoolType'
  <2>1. MemBlock' = MemBlock /\ made' = made
    BY <1>2 DEF MemBlock
  <2> QED
    BY <1>3, <1>4, <2>1 DEF PoolType
<1>6. Len(made') <= pool'.a_len
  BY <1>1, <1>2, <1>3, <1>4 DEF PoolInv
<1>7. Searched' = Searched /\ Open' = Open
  BY <1>3 DEF Searched, Open
<1>8. \A k : FreeIsFree(k)' <=> FreeIsFree(k)
  BY <1>2, <1>3 DEF FreeIsFree
<1>9. \A k \in Open' : FreeIsFree(k)'
  BY <1>7, <1>8 DEF PoolInv
<1>10. \A k, m \in Open' : pool'.a[k].mem = pool'.a[m].mem => k = m
  BY <1>3, <1>7 DEF PoolInv
<1>11. \A k \in DOMAIN pool'.a : k < pool'.first_i => pool'.a[k].free <= pool'.skip_size
  <2>1. ASSUME NEW k \in 0..(Len(made) - 1), k < pool.first_i PROVE pool.a[k].free <= z
    <3>1. pool.a[k].free <= pool.skip_size
      BY <1>4, <2>1 DEF PoolInv
    <3> QED
      BY <1>1, <1>4, <3>1
  <2> QED
    BY <1>3, <1>4, <2>1
<1>12. SortedWhereSearched'
  <2>1. \A k \in DOMAIN pool.a :
           k >= pool.first_i /\ k + 1 < Len(made) => pool.a[k].free <= pool.a[k + 1].free
    BY <1>2 DEF PoolInv, SortedWhereSearched
  <2> QED
    BY <1>2, <1>3, <1>11, <2>1 DEF SortedWhereSearched
<1>13. OthersSorted'
  BY <1>2 DEF OthersSorted
<1>14. /\ GivenSound' /\ MemoryNotShared'
       /\ given' \in Seq(GivenType') /\ dtors' \in Seq(DOMAIN given')
       /\ made' \in Seq(Nat) /\ freed' \in Seq(1..Len(made'))
       /\ call' \in [i : Nat, dtor : BOOLEAN] /\ call'.i <= Len(made')
       /\ pc' \in {"live", "sort", "destroy"}
  <2>1. GivenType' = GivenType
    BY <1>2 DEF GivenType
  <2> QED
    BY <1>2, <2>1 DEF PoolInv, GivenSound, MemoryNotShared
<1> QED
  BY <1>5, <1>6, <1>9, <1>10, <1>11, <1>12, <1>13, <1>14, Zenon DEF PoolInv

LEMMA AddBlockStep ==
    ASSUME PoolInv, NEW size \in Sizes \union {DtorSize}, NEW dtor \in BOOLEAN,
           AddBlock(size, dtor)
    PROVE  PoolInv'
<1>1. PICK n, a, first : n = Len(made) /\ a = pool.a /\ first = pool.first_i
  OBVIOUS
<1>2. size \in Nat \ {0}
  BY SizesPositive
<1>3. /\ n \in Nat /\ first \in 0..n
      /\ a \in [0..(n - 1) -> Entries(1..n)] /\ DOMAIN a = 0..(n - 1)
      /\ \A k \in 0..(n - 1) : a[k].free \in Nat /\ a[k].mem \in 1..n
      /\ Open = {k \in 0..(n - 1) : k = 0 \/ k >= first}
      /\ Searched = first..(n - 1)
      /\ pool.skip_size \in Nat
      /\ \A m \in 1..n : made[m] \in Nat
      /\ DOMAIN made = 1..n
      /\ Count(a) = n
  BY <1>1, PoolFacts
<1>4. PICK l \in Nat, s \in Nat, z \in Nat :
         /\ Grown = [a |-> a, first_i |-> first, a_len |-> l, block_size |-> s, skip_size |-> z]
         /\ n < l
         /\ pool.skip_size <= z
  BY <1>1, GrownFacts
<1>5. PICK bs : bs = BlockFor(size)
  OBVIOUS
<1>6. bs \in Nat /\ size <= bs /\ bs - size \in Nat
  <2>1. Grown.block_size = s
    BY <1>4
  <2> QED
    BY <1>2, <1>5, <2>1 DEF BlockFor
<1>7. PICK new : new = [free |-> bs - size, mem |-> n + 1]
  OBVIOUS
<1>8. PICK b : b = [k \in 0..n |-> IF k = n THEN new ELSE a[k]]
  OBVIOUS
<1>9. PICK f : f = FirstSearched(b, first, z)
  OBVIOUS
<1>10. /\ pc = "live"
       /\ pool' = [Grown EXCEPT !.a = b, !.first_i = FirstSearched(b, @, Grown.skip_size)]
       /\ made' = Append(made, bs)
       /\ call' = [i |-> n, dtor |-> dtor]
       /\ Handed(n + 1, bs - size, size)
       /\ UNCHANGED <<dtors, freed>>
  <2>1. new = [free |-> BlockFor(size) - size, mem |-> Len(made) + 1]
    BY <1>1, <1>5, <1>7
  <2>2. b = [k \in 0..Count(pool.a) |-> IF k = Count(pool.a) THEN new ELSE pool.a[k]]
    BY <1>1, <1>3, <1>8
  <2>3. new.mem = n + 1 /\ new.free = bs - size
    BY <1>7
  <2> QED
    BY <1>1, <1>3, <1>5, <2>1, <2>2, <2>3 DEF AddBlock, Asked
<1>11. pool' = [a |-> b, first_i |-> f, a_len |-> l, block_size |-> s, skip_size |-> z]
  <2>1. Grown.first_i = first /\ Grown.skip_size = z
    BY <1>4
  <2>2. pool' = [Grown EXCEPT !.a = b, !.first_i = f]
    BY <1>9, <1>10, <2>1
  <2>3. PICK q : q = [Grown EXCEPT !.a = b]
    OBVIOUS
  <2>4. q = [a |-> b, first_i |-> first, a_len |-> l, block_size |-> s, skip_size |-> z]
    BY <1>4, <2>3
  <2>5. pool' = [q EXCEPT !.first_i = f]
    BY <2>2, <2>3
  <2> QED
    BY <2>4, <2>5
<1>12. /\ made' \in Seq(Nat) /\ Len(made') = n + 1
       /\ \A m \in 1..n : made'[m] = made[m]
       /\ made'[n + 1] = bs
       /\ DOMAIN made' = 1..(n + 1)
  <2>1. made \in Seq(Nat)
    BY DEF PoolInv
  <2> QED
    BY <1>1, <1>6, <1>10, <2>1, AppendProperties
<1>13. /\ b \in [0..n -> Entries(1..(n + 1))] /\ DOMAIN b = 0..n
       /\ \A k \in 0..(n - 1) : b[k] = a[k]
       /\ b[n].free = bs - size /\ b[n].mem = n + 1
       /\ \A k \in 0..n : k = n \/ k \in 0..(n - 1)
  <2>1. \A k \in 0..n : k = n \/ k \in 0..(n - 1)
    BY <1>3
  <2>2. 1..n \subseteq 1..(n + 1) /\ n + 1 \in 1..(n + 1)
    BY <1>3
  <2>3. new \in Entries(1..(n + 1))
    BY <1>6, <1>7, <2>2 DEF Entries
  <2>4. \A k \in 0..(n - 1) : a[k] \in Entries(1..(n + 1))
    BY <1>3, <2>2 DEF Entries
  <2>5. \A k \in 0..(n - 1) : k \in 0..n /\ k # n
    BY <1>3
  <2>6. n \in 0..n
    BY <1>3
  <2>7. new.free = bs - size /\ new.mem = n + 1
    BY <1>7
  <2>8. b[n] = new
    BY <1>8, <2>6
  <2>9. \A k \in 0..(n - 1) : b[k] = a[k]
    BY <1>8, <2>5
  <2>10. b \in [0..n -> Entries(1..(n + 1))] /\ DOMAIN b = 0..n
    BY <1>8, <2>1, <2>3, <2>4
  <2> QED
    BY <2>1, <2>7, <2>8, <2>9, <2>10
<1>14. f \in first..(n + 1) /\ \A k \in first..(f - 1) : b[k].free <= z
  <2>1. PICK m : m = n + 1
    OBVIOUS
  <2>2. m \in Nat /\ first \in 0..m /\ 0..(m - 1) = 0..n
    BY <1>3, <2>1
  <2>3. b \in [0..(m - 1) -> Entries(1..m)]
    BY <1>13, <2>1, <2>2
  <2> QED
    BY <1>9, <2>1, <2>2, <2>3, StopsPastFull
<1>15. /\ pool'.a = b /\ pool'.first_i = f /\ pool'.a_len = l /\ pool'.skip_size = z
       /\ call'.i = n
  <2>1. call'.i = n
    BY <1>10
  <2> QED
    BY <1>11, <2>1
<1>16. pool' \in PoolType'
  <2>1. b \in [0..(Len(made') - 1) -> MemBlock']
    BY <1>3, <1>12, <1>13 DEF MemBlock, Entries
  <2>2. f \in 0..Len(made')
    BY <1>3, <1>12, <1>14
  <2> QED
    BY <1>11, <2>1, <2>2 DEF PoolType
<1>17. Searched' = {k \in 0..n : k >= f} /\ Open' = {k \in 0..n : k >= f \/ k = 0}
  BY <1>3, <1>13, <1>15 DEF Searched, Open
<1>18. \A k \in Open' : k = n \/ (k \in 0..(n - 1) /\ k \in Open)
  BY <1>3, <1>13, <1>14, <1>17
<1>19. \A g \in 1..Len(given) : given[g].mem \in 1..n /\ given[g].mem # n + 1
  <2>1. \A g \in 1..Len(given) : given[g].mem \in 1..n
    BY <1>1, PoolFacts
  <2> QED
    BY <1>3, <2>1
<1>20. /\ Len(made') \in Nat /\ Len(made) <= Len(made') /\ n + 1 \in 1..Len(made')
  BY <1>1, <1>3, <1>12
<1>21. /\ given' \in Seq(GivenType') /\ GivenSound' /\ MemoryNotShared'
  <2>1. PICK mem, from : mem = n + 1 /\ from = bs - size
    OBVIOUS
  <2>2. mem \in 1..Len(made') /\ from \in Nat /\ Handed(mem, from, size)
    BY <1>6, <1>10, <1>20, <2>1
  <2>3. \A m \in 1..Len(made) : made'[m] = made[m]
    BY <1>1, <1>12
  <2>4. from + size <= made'[mem] /\ made'[mem] \in Nat
    BY <1>2, <1>6, <1>12, <2>1
  <2>5. \A g \in 1..Len(given) : given[g].mem = mem => from + size <= given[g].from
    BY <1>19, <2>1
  <2> QED
    BY <1>2, <1>20, <2>2, <2>3, <2>4, <2>5, HandedSound
<1>22. /\ DOMAIN given' = 1..(Len(given) + 1)
       /\ Len(given) \in Nat
       /\ \A g \in 1..Len(given) : given'[g] = given[g]
       /\ given'[Len(given) + 1].mem = n + 1
       /\ given'[Len(given) + 1].from = bs - size
       /\ pc' = "sort"
       /\ given' # <<>>
  <2>1. PICK mem, from, to : mem = n + 1 /\ from = bs - size /\ to = from + size - 1
    OBVIOUS
  <2>2. mem \in 1..Len(made') /\ from \in Nat /\ Handed(mem, from, size)
    BY <1>6, <1>10, <1>20, <2>1
  <2>3. /\ Len(given') = Len(given) + 1
        /\ DOMAIN given' = 1..(Len(given) + 1)
        /\ \A g \in 1..Len(given) : given'[g] = given[g]
        /\ given'[Len(given) + 1] = [mem |-> mem, from |-> from, to |-> to]
        /\ pc' = "sort"
    BY <1>2, <1>20, <2>1, <2>2, HandedFacts
  <2>4. Len(given) \in Nat
    BY PoolFacts
  <2>5. given' # <<>>
    BY <2>3, <2>4
  <2> QED
    BY <2>1, <2>3, <2>4, <2>5
<1>23. \A g \in 1..(Len(given) + 1) :
          \/ g \in 1..Len(given) /\ given'[g] = given[g]
          \/ g = Len(given) + 1
  <2>1. \A g \in 1..(Len(given) + 1) : g \in 1..Len(given) \/ g = Len(given) + 1
    BY <1>22
  <2> QED
    BY <1>22, <2>1
<1>24. b[n].free <= made'[b[n].mem]
  BY <1>2, <1>6, <1>12, <1>13
<1>25. ASSUME NEW g \in 1..(Len(given) + 1), given'[g].mem = n + 1
       PROVE  bs - size <= given'[g].from
  BY <1>6, <1>19, <1>22, <1>23, <1>25
<1>26. /\ pool'.a[n].free <= made'[pool'.a[n].mem]
       /\ \A g \in DOMAIN given' : given'[g].mem = pool'.a[n].mem => pool'.a[n].free <= given'[g].from
  BY <1>13, <1>15, <1>22, <1>24, <1>25
<1>27. ASSUME NEW k \in Open' PROVE FreeIsFree(k)'
  <2>1. CASE k = n
    BY <1>26, <2>1 DEF FreeIsFree
  <2>2. CASE k \in 0..(n - 1) /\ k \in Open
    <3>1. /\ a[k].free <= made[a[k].mem]
          /\ \A g \in 1..Len(given) : given[g].mem = a[k].mem => a[k].free <= given[g].from
      <4>1. FreeIsFree(k) /\ DOMAIN given = 1..Len(given)
        BY <2>2, PoolFacts DEF PoolInv
      <4> QED
        BY <1>1, <4>1 DEF FreeIsFree
    <3>2. b[k] = a[k] /\ a[k].mem \in 1..n
      BY <1>3, <1>13, <2>2
    <3>3. a[k].mem # n + 1
      BY <1>3, <3>2
    <3>4. b[k].free <= made'[b[k].mem]
      BY <1>12, <3>1, <3>2
    <3>5. \A g \in 1..(Len(given) + 1) : given'[g].mem = b[k].mem => b[k].free <= given'[g].from
      BY <1>22, <1>23, <3>1, <3>2, <3>3
    <3> QED
      BY <1>15, <1>22, <3>4, <3>5 DEF FreeIsFree
  <2> QED
    BY <1>18, <2>1, <2>2
<1>28. ASSUME NEW k \in Open', NEW m \in Open', b[k].mem = b[m].mem PROVE k = m
  <2>1. \A j \in 0..(n - 1) : b[j].mem = a[j].mem /\ a[j].mem # n + 1
    BY <1>3, <1>13
  <2>2. CASE k \in 0..(n - 1) /\ k \in Open /\ m \in 0..(n - 1) /\ m \in Open
    BY <1>1, <1>28, <2>1, <2>2 DEF PoolInv
  <2>3. CASE k = n \/ m = n
    BY <1>13, <1>18, <1>28, <2>1, <2>3
  <2> QED
    BY <1>18, <2>2, <2>3
<1>29. \A k, m \in Open' : pool'.a[k].mem = pool'.a[m].mem => k = m
  BY <1>15, <1>28
<1>30. \A k \in DOMAIN pool'.a : k < pool'.first_i => pool'.a[k].free <= pool'.skip_size
  <2>1. ASSUME NEW k \in 0..n, k < f PROVE b[k].free <= z
    <3>1. CASE k >= first
      <4>1. k \in first..(f - 1)
        BY <1>3, <1>14, <2>1, <3>1
      <4> QED
        BY <1>14, <4>1
    <3>2. CASE k < first
      <4>1. k \in 0..(n - 1)
        BY <1>3, <3>2
      <4>2. a[k].free <= pool.skip_size /\ b[k] = a[k] /\ a[k].free \in Nat
        BY <1>1, <1>3, <1>13, <3>2, <4>1 DEF PoolInv
      <4> QED
        BY <1>3, <1>4, <4>2
    <3> QED
      BY <1>3, <3>1, <3>2
  <2> QED
    BY <1>13, <1>15, <2>1
<1>31. OthersSorted'
  <2>1. n \in DOMAIN pool'.a
    BY <1>3, <1>13, <1>15
  <2>2. FreeIsFree(call.i)'
    BY <1>15, <1>26 DEF FreeIsFree
  <2>3. pool'.first_i <= call'.i \/ pool'.first_i = Len(made')
    BY <1>3, <1>12, <1>14, <1>15
  <2>4. ASSUME NEW k \in Searched', NEW m \in Searched', k < m, m # n
        PROVE  b[k].free <= b[m].free
    <3>1. k \in first..(n - 1) /\ m \in first..(n - 1) /\ k \in 0..(n - 1) /\ m \in 0..(n - 1)
      BY <1>3, <1>14, <1>17, <2>4
    <3>2. a[k].free <= a[m].free
      BY <1>1, <1>10, <2>4, <3>1, LiveOrdered DEF Ordered
    <3> QED
      BY <1>13, <3>1, <3>2
  <2>5. \A k, m \in Searched' : k < m /\ m # call'.i => pool'.a[k].free <= pool'.a[m].free
    BY <1>15, <2>4
  <2>6. call'.i \in DOMAIN pool'.a
    BY <1>15, <2>1
  <2> QED
    BY <1>22, <2>2, <2>3, <2>5, <2>6, Zenon DEF OthersSorted
<1>32. SortedWhereSearched'
  BY <1>22 DEF SortedWhereSearched
<1>33. /\ call' \in [i : Nat, dtor : BOOLEAN] /\ call'.i <= Len(made')
       /\ Len(made') <= pool'.a_len
  BY <1>3, <1>4, <1>10, <1>12, <1>15
<1>34. freed' \in Seq(1..Len(made'))
  <2>1. freed \in Seq(1..n) /\ 1..n \subseteq 1..(n + 1)
    BY <1>1, <1>3 DEF PoolInv
  <2>2. freed' = freed
    BY <1>10
  <2>3. freed \in Seq(1..(n + 1))
    <3>1. PICK S, T : S = 1..n /\ T = 1..(n + 1)
      OBVIOUS
    <3>2. freed \in Seq(S) /\ S \subseteq T
      BY <2>1, <3>1, Zenon
    <3>3. freed \in Seq(T)
      BY <3>2
    <3> QED
      BY <3>1, <3>3
  <2> QED
    BY <1>12, <2>2, <2>3
<1>35. dtors' \in Seq(DOMAIN given')
  <2>1. dtors \in Seq(DOMAIN given) /\ DOMAIN given \subseteq DOMAIN given'
    BY <1>22, PoolFacts DEF PoolInv
  <2>2. dtors' = dtors
    BY <1>10
  <2> QED
    BY <2>1, <2>2
<1> QED
  BY <1>12, <1>16, <1>21, <1>22, <1>27, <1>29, <1>30, <1>31, <1>32, <1>33, <1>34, <1>35, Zenon
     DEF PoolInv

(* What a step of sorting leaves to show, once it is known where the       *)
(* entries of the new array come from.                                     *)
LEMMA SortKeeps ==
    ASSUME PoolInv, SortBlocks,
           NEW c, c \in [0..(Len(made) - 1) -> Entries(1..Len(made))],
           pool'.a = c, pool' = [pool EXCEPT !.a = c],
           \A k \in Open : \/ \E l \in Open : c[k] = pool.a[l]
                           \/ c[k] = pool.a[call.i],
           \A k, l \in Open : c[k].mem = c[l].mem => k = l,
           \A k \in 0..(Len(made) - 1) : k < pool.first_i => c[k].free <= pool.skip_size,
           Ordered(c, Len(made), pool.first_i)
    PROVE  PoolInv'
<1>1. PICK n, first : n = Len(made) /\ first = pool.first_i
  OBVIOUS
<1>2. /\ n \in Nat /\ first \in 0..n /\ DOMAIN pool.a = 0..(n - 1)
      /\ Open = {k \in 0..(n - 1) : k = 0 \/ k >= first}
      /\ Searched = first..(n - 1)
      /\ pool.skip_size \in Nat /\ pool.a_len \in Nat /\ pool.block_size \in Nat
      /\ pool = [a |-> pool.a, first_i |-> first, a_len |-> pool.a_len,
                 block_size |-> pool.block_size, skip_size |-> pool.skip_size]
      /\ DOMAIN given = 1..Len(given) /\ Len(given) \in Nat
  BY <1>1, PoolFacts
<1>3. /\ pc = "sort" /\ pc' = "live" /\ call' = NoCall
      /\ UNCHANGED <<made, given, freed>>
      /\ dtors' = IF call.dtor THEN <<Len(given)>> \o dtors ELSE dtors
  BY DEF SortBlocks
<1>4. pool' = [a |-> c, first_i |-> first, a_len |-> pool.a_len,
               block_size |-> pool.block_size, skip_size |-> pool.skip_size]
  <2>1. PICK l, s, z : l = pool.a_len /\ s = pool.block_size /\ z = pool.skip_size
    OBVIOUS
  <2>2. PICK a : a = pool.a
    OBVIOUS
  <2>3. pool = [a |-> a, first_i |-> first, a_len |-> l, block_size |-> s, skip_size |-> z]
    BY <1>2, <2>1, <2>2
  <2>4. pool' = [a |-> c, first_i |-> first, a_len |-> l, block_size |-> s, skip_size |-> z]
    BY <2>3
  <2> QED
    BY <2>1, <2>4
<1>5. /\ pool'.first_i = first /\ pool'.a_len = pool.a_len /\ pool'.skip_size = pool.skip_size
      /\ DOMAIN c = 0..(n - 1)
  BY <1>1, <1>4
<1>6. pool' \in PoolType'
  <2>1. c \in [0..(Len(made') - 1) -> MemBlock']
    BY <1>3 DEF MemBlock, Entries
  <2> QED
    BY <1>1, <1>2, <1>3, <1>4, <2>1 DEF PoolType
<1>7. Searched' = Searched /\ Open' = Open
  BY <1>1, <1>2, <1>5 DEF Searched, Open
<1>8. ASSUME NEW k \in Open' PROVE FreeIsFree(k)'
  <2>1. \/ \E l \in Open : c[k] = pool.a[l]
        \/ c[k] = pool.a[call.i]
    BY <1>7
  <2>2. \E l : c[k] = pool.a[l] /\ FreeIsFree(l)
    <3>1. \A l \in Open : FreeIsFree(l)
      BY DEF PoolInv
    <3>2. FreeIsFree(call.i)
      BY <1>3 DEF PoolInv, OthersSorted
    <3> QED
      BY <2>1, <3>1, <3>2
  <2> QED
    BY <1>3, <2>2 DEF FreeIsFree
<1>9. \A k, l \in Open' : pool'.a[k].mem = pool'.a[l].mem => k = l
  BY <1>7
<1>10. \A k \in DOMAIN pool'.a : k < pool'.first_i => pool'.a[k].free <= pool'.skip_size
  BY <1>1, <1>5
<1>11. SortedWhereSearched'
  <2>1. ASSUME NEW k \in 0..(n - 1), k >= first, k + 1 < n PROVE c[k].free <= c[k + 1].free
    <3>1. k \in first..(n - 1) /\ k + 1 \in first..(n - 1) /\ k < k + 1
      BY <1>2, <2>1
    <3> QED
      BY <1>1, <3>1 DEF Ordered
  <2> QED
    BY <1>1, <1>3, <1>5, <1>10, <2>1 DEF SortedWhereSearched
<1>12. OthersSorted'
  BY <1>3 DEF OthersSorted
<1>13. dtors' \in Seq(DOMAIN given')
  <2>1. dtors \in Seq(DOMAIN given)
    BY DEF PoolInv
  <2>2. Len(given) \in DOMAIN given
    <3>1. given # <<>> /\ given \in Seq(GivenType)
      BY <1>3 DEF PoolInv, OthersSorted
    <3>2. Len(given) > 0
      BY <1>2, <3>1
    <3> QED
      BY <1>2, <3>2
  <2>3. PICK D : D = DOMAIN given
    OBVIOUS
  <2>4. <<Len(given)>> \in Seq(D) /\ dtors \in Seq(D)
    BY <2>1, <2>2, <2>3
  <2>5. <<Len(given)>> \o dtors \in Seq(D)
    BY <2>4
  <2>6. dtors' \in Seq(D)
    BY <1>3, <2>4, <2>5
  <2> QED
    BY <1>3, <2>3, <2>6
<1>14. /\ GivenSound' /\ MemoryNotShared'
       /\ given' \in Seq(GivenType')
       /\ made' \in Seq(Nat) /\ freed' \in Seq(1..Len(made'))
       /\ pc' \in {"live", "sort", "destroy"}
  <2>1. GivenType' = GivenType
    BY <1>3 DEF GivenType
  <2> QED
    BY <1>3, <2>1 DEF PoolInv, GivenSound, MemoryNotShared
<1>15. call' \in [i : Nat, dtor : BOOLEAN] /\ call'.i <= Len(made')
  BY <1>1, <1>2, <1>3 DEF NoCall
<1>16. Len(made') <= pool'.a_len
  BY <1>3, <1>5 DEF PoolInv
<1> QED
  BY <1>6, <1>8, <1>9, <1>10, <1>11, <1>12, <1>13, <1>14, <1>15, <1>16, Zenon DEF PoolInv

LEMMA SortBlocksStep ==
    ASSUME PoolInv, SortBlocks
    PROVE  PoolInv'
<1>1. PICK n, a, first, i : n = Len(made) /\ a = pool.a /\ first = pool.first_i /\ i = call.i
  OBVIOUS
<1>2. /\ n \in Nat /\ first \in 0..n
      /\ a \in [0..(n - 1) -> Entries(1..n)] /\ DOMAIN a = 0..(n - 1)
      /\ \A k \in 0..(n - 1) : a[k].free \in Nat /\ a[k].mem \in 1..n
      /\ Open = {k \in 0..(n - 1) : k = 0 \/ k >= first}
      /\ Searched = first..(n - 1)
  BY <1>1, PoolFacts
<1>3. PICK c : c = IF i > 0 THEN Sorted(a, first, i) ELSE a
  OBVIOUS
<1>4. pc = "sort" /\ pool' = [pool EXCEPT !.a = c]
  BY <1>1, <1>3 DEF SortBlocks
<1>5. pool'.a = c
  <2>1. pool = [a |-> pool.a, first_i |-> pool.first_i, a_len |-> pool.a_len,
                block_size |-> pool.block_size, skip_size |-> pool.skip_size]
    BY PoolFacts
  <2> QED
    BY <1>4, <2>1
<1>6. /\ i \in 0..(n - 1)
      /\ first <= i \/ first = n
      /\ OrderedBut(a, n, first, i)
  BY <1>1, <1>2, <1>4 DEF PoolInv, OthersSorted, OrderedBut
<1>7. \A k, l \in Open : a[k].mem = a[l].mem => k = l
  BY <1>1 DEF PoolInv
<1>8. \A k \in 0..(n - 1) : k < first => a[k].free <= pool.skip_size
  BY <1>1, <1>2 DEF PoolInv
<1>9. CASE i = 0
  <2>1. c = a
    BY <1>3, <1>9
  <2>2. Ordered(a, n, first)
    BY <1>2, <1>6, <1>9 DEF Ordered, OrderedBut
  <2> QED
    BY <1>1, <1>2, <1>4, <1>5, <1>7, <1>8, <2>1, <2>2, SortKeeps
<1>10. CASE i > 0 /\ first < n
  <2>1. first \in 0..(n - 1) /\ i \in first..(n - 1)
    BY <1>2, <1>6, <1>10
  <2>2. Distinct(a, first, n - 1)
    <3>1. \A k \in first..(n - 1) : k \in Open
      BY <1>2
    <3> QED
      BY <1>7, <3>1 DEF Distinct
  <2>3. Resorted(a, c, n, 1..n, first)
    BY <1>2, <1>3, <1>6, <1>10, <2>1, <2>2, SortedSound
  <2>4. /\ c \in [0..(n - 1) -> Entries(1..n)]
        /\ Ordered(c, n, first)
        /\ \A k \in 0..(first - 1) : c[k] = a[k]
        /\ \A k \in first..(n - 1) : \E l \in first..(n - 1) : c[k] = a[l]
        /\ \A k, l \in first..(n - 1) : c[k].mem = c[l].mem => k = l
    BY <2>3, Zenon DEF Resorted, Distinct
  <2>5. ASSUME NEW k \in Open
        PROVE  \E l \in Open : /\ c[k] = a[l]
                               /\ k < first => l = k
                               /\ k >= first => l >= first
    <3>1. CASE k < first
      <4>1. k \in 0..(first - 1) /\ ~(k >= first)
        BY <1>2, <3>1
      <4> QED
        BY <2>4, <4>1
    <3>2. CASE k >= first
      <4>1. k \in first..(n - 1) /\ ~(k < first)
        BY <1>2, <3>2
      <4>2. PICK l \in first..(n - 1) : c[k] = a[l]
        BY <2>4, <4>1
      <4>3. l \in Open /\ l >= first
        BY <1>2
      <4> QED
        BY <4>1, <4>2, <4>3
    <3> QED
      BY <1>2, <3>1, <3>2
  <2>6. ASSUME NEW k \in Open, NEW l \in Open, c[k].mem = c[l].mem PROVE k = l
    <3>1. PICK p \in Open : /\ c[k] = a[p]
                            /\ k < first => p = k
                            /\ k >= first => p >= first
      BY <2>5
    <3>2. PICK q \in Open : /\ c[l] = a[q]
                            /\ l < first => q = l
                            /\ l >= first => q >= first
      BY <2>5
    <3>3. p = q
      BY <1>7, <2>6, <3>1, <3>2
    <3>4. CASE k >= first /\ l >= first
      <4>1. k \in first..(n - 1) /\ l \in first..(n - 1)
        BY <1>2, <3>4
      <4> QED
        BY <2>4, <2>6, <4>1
    <3>5. CASE ~(k >= first /\ l >= first)
      BY <1>2, <3>1, <3>2, <3>3, <3>5
    <3> QED
      BY <3>4, <3>5
  <2>7. \A k \in 0..(n - 1) : k < first => c[k].free <= pool.skip_size
    <3>1. \A k \in 0..(n - 1) : k < first => k \in 0..(first - 1)
      BY <1>2
    <3> QED
      BY <1>8, <2>4, <3>1
  <2>8. \A k \in Open : \/ \E l \in Open : c[k] = pool.a[l]
                        \/ c[k] = pool.a[call.i]
    BY <1>1, <2>5
  <2>9. \A k, l \in Open : c[k].mem = c[l].mem => k = l
    BY <2>6
  <2>10. /\ c \in [0..(Len(made) - 1) -> Entries(1..Len(made))]
         /\ \A k \in 0..(Len(made) - 1) : k < pool.first_i => c[k].free <= pool.skip_size
         /\ Ordered(c, Len(made), pool.first_i)
    BY <1>1, <2>4, <2>7
  <2> QED
    BY <1>4, <1>5, <2>8, <2>9, <2>10, SortKeeps
<1>11. CASE i > 0 /\ first = n
  <2>1. i \in 1..(n - 1)
    BY <1>2, <1>6, <1>11
  <2>2. /\ c \in [0..(n - 1) -> Entries(1..n)]
        /\ c[0] = a[0] \/ c[0] = a[i]
        /\ \A k \in 0..(n - 1) : \E l \in 0..(n - 1) : c[k].free = a[l].free
    <3>1. PICK M : M = 1..n
      OBVIOUS
    <3>2. a \in [0..(n - 1) -> Entries(M)]
      BY <1>2, <3>1
    <3>3. c = Sorted(a, n, i)
      BY <1>3, <1>11
    <3>4. Exchanged(a, Sorted(a, n, i), n, M, i)
      BY <1>2, <2>1, <3>2, NothingSearched
    <3> QED
      BY <3>1, <3>3, <3>4 DEF Exchanged
  <2>3. Open = {0}
    BY <1>2, <1>11, <2>1
  <2>4. Ordered(c, n, first)
    BY <1>2, <1>11 DEF Ordered
  <2>5. \A k \in 0..(n - 1) : k < first => c[k].free <= pool.skip_size
    <3>1. \A k \in 0..(n - 1) : k < first
      BY <1>2, <1>11
    <3>2. \A k \in 0..(n - 1) : a[k].free <= pool.skip_size
      BY <1>8, <3>1
    <3> QED
      BY <2>2, <3>2
  <2>6. \A k \in Open : \/ \E l \in Open : c[k] = a[l]
                        \/ c[k] = a[i]
    BY <2>2, <2>3
  <2>7. \A k, l \in Open : c[k].mem = c[l].mem => k = l
    BY <2>3
  <2> QED
    BY <1>1, <1>4, <1>5, <2>2, <2>4, <2>5, <2>6, <2>7, SortKeeps
<1> QED
  BY <1>2, <1>6, <1>9, <1>10, <1>11

LEMMA DestroySteps ==
    ASSUME PoolInv, Destroy \/ RunDtor \/ FreeBlock \/ UNCHANGED vars
    PROVE  PoolInv'
<1>1. UNCHANGED <<pool, call, made, given>>
  BY DEF Destroy, RunDtor, FreeBlock, vars
<1>2. \A k : FreeIsFree(k)' <=> FreeIsFree(k)
  BY <1>1 DEF FreeIsFree
<1>3. Searched' = Searched /\ Open' = Open
  BY <1>1 DEF Searched, Open
<1>4. /\ GivenSound' /\ MemoryNotShared'
      /\ given' \in Seq(GivenType') /\ made' \in Seq(Nat)
      /\ call' \in [i : Nat, dtor : BOOLEAN] /\ call'.i <= Len(made')
      /\ Len(made') <= pool'.a_len
  <2>1. GivenType' = GivenType
    BY <1>1 DEF GivenType
  <2> QED
    BY <1>1, <2>1 DEF PoolInv, GivenSound, MemoryNotShared
<1>5. pool' \in PoolType'
  BY <1>1 DEF PoolInv, PoolType, MemBlock
<1>6. /\ \A k \in Open' : FreeIsFree(k)'
      /\ \A k, l \in Open' : pool'.a[k].mem = pool'.a[l].mem => k = l
      /\ \A k \in DOMAIN pool'.a : k < pool'.first_i => pool'.a[k].free <= pool'.skip_size
  BY <1>1, <1>2, <1>3 DEF PoolInv
<1>7. pc' \in {"live", "sort", "destroy"} /\ (pc' = "live" => pc = "live")
      /\ (pc' = "sort" => pc = "sort")
  BY DEF Destroy, RunDtor, FreeBlock, vars, PoolInv
<1>8. SortedWhereSearched'
  BY <1>1, <1>7 DEF PoolInv, SortedWhereSearched
<1>9. OthersSorted'
  <2>1. ASSUME pc' = "sort" PROVE OthersSorted'
    <3>1. OthersSorted /\ pc = "sort"
      BY <1>7, <2>1 DEF PoolInv
    <3> QED
      BY <1>1, <1>3, <3>1 DEF OthersSorted, FreeIsFree
  <2> QED
    BY <2>1 DEF OthersSorted
<1>10. dtors' \in Seq(DOMAIN given')
  <2>1. dtors \in Seq(DOMAIN given)
    BY DEF PoolInv
  <2>2. CASE dtors' = dtors
    BY <1>1, <2>1, <2>2
  <2>3. CASE dtors # <<>> /\ dtors' = Tail(dtors)
    <3>1. Tail(dtors) \in Seq(DOMAIN given)
      BY <2>1, <2>3, HeadTailProperties
    <3> QED
      BY <1>1, <2>3, <3>1
  <2> QED
    BY <2>2, <2>3 DEF Destroy, RunDtor, FreeBlock, vars
<1>11. freed' \in Seq(1..Len(made'))
  <2>1. freed \in Seq(1..Len(made))
    BY DEF PoolInv
  <2>2. CASE freed' = freed
    BY <1>1, <2>1, <2>2
  <2>3. CASE FreeBlock
    <3>1. PICK f : f = Len(freed)
      OBVIOUS
    <3>2. f \in Nat /\ f < Count(pool.a) /\ freed' = Append(freed, pool.a[f].mem)
      BY <2>1, <2>3, <3>1 DEF FreeBlock
    <3>3. f \in 0..(Len(made) - 1)
      BY <3>2, PoolFacts
    <3>4. pool.a[f].mem \in 1..Len(made)
      BY <3>3, PoolFacts
    <3>5. freed' \in Seq(1..Len(made))
      BY <2>1, <3>2, <3>4, AppendProperties
    <3> QED
      BY <1>1, <3>5
  <2> QED
    BY <2>2, <2>3 DEF Destroy, RunDtor, FreeBlock, vars
<1> QED
  BY <1>4, <1>5, <1>6, <1>7, <1>8, <1>9, <1>10, <1>11, Zenon DEF PoolInv

LEMMA PoolInit ==
    ASSUME Init
    PROVE  PoolInv
<1>1. /\ pc = "live" /\ call = NoCall
      /\ pool = [a |-> <<>>, first_i |-> 0, a_len |-> 0,
                 block_size |-> StartSize \div 2, skip_size |-> 0]
      /\ dtors = <<>> /\ made = <<>> /\ given = <<>> /\ freed = <<>>
  BY DEF Init
<1>2. Len(made) = 0 /\ 0..(Len(made) - 1) = {} /\ DOMAIN given = {} /\ DOMAIN pool.a = {}
  BY <1>1
<1>3. pool \in PoolType
  <2>1. pool.a \in [0..(Len(made) - 1) -> MemBlock]
    <3>1. pool.a = <<>> /\ DOMAIN pool.a = {}
      BY <1>1, <1>2
    <3>2. pool.a = [k \in {} |-> pool.a[k]]
      BY <3>1
    <3> QED
      BY <1>2, <3>2
  <2>2. StartSize \div 2 \in Nat
    BY SizeAssumption
  <2>3. 0 \in 0..Len(made)
    BY <1>2
  <2>4. pool = [a |-> pool.a, first_i |-> 0, a_len |-> 0,
                block_size |-> StartSize \div 2, skip_size |-> 0]
    BY <1>1
  <2> QED
    BY <2>1, <2>2, <2>3, <2>4 DEF PoolType
<1>4. pool.a_len = 0 /\ call.i = 0 /\ call \in [i : Nat, dtor : BOOLEAN]
  BY <1>1 DEF NoCall
<1>5. Open = {}
  BY <1>2 DEF Open, Searched
<1>6. GivenSound /\ MemoryNotShared /\ SortedWhereSearched /\ OthersSorted
  BY <1>1, <1>2 DEF GivenSound, MemoryNotShared, SortedWhereSearched, OthersSorted
<1>7. /\ made \in Seq(Nat) /\ given \in Seq(GivenType)
      /\ dtors \in Seq(DOMAIN given) /\ freed \in Seq(1..Len(made))
  BY <1>1
<1> QED
  BY <1>1, <1>2, <1>3, <1>4, <1>5, <1>6, <1>7 DEF PoolInv

LEMMA PoolNext ==
    ASSUME PoolInv, [Next]_vars
    PROVE  PoolInv'
<1>1. CASE \E size \in Sizes \union {DtorSize}, dtor \in BOOLEAN :
              \/ UseBlock(size, dtor)
              \/ AddBlock(size, dtor)
              \/ AddFails(size, dtor)
  <2>1. PICK size \in Sizes \union {DtorSize}, dtor \in BOOLEAN :
              \/ UseBlock(size, dtor)
              \/ AddBlock(size, dtor)
              \/ AddFails(size, dtor)
    BY <1>1
  <2> QED
    BY <2>1, UseBlockStep, AddBlockStep, AddFailsStep
<1>2. CASE SortBlocks
  BY <1>2, SortBlocksStep
<1>3. CASE Destroy \/ RunDtor \/ FreeBlock \/ UNCHANGED vars
  BY <1>3, DestroySteps
<1> QED
  BY <1>1, <1>2, <1>3, Zenon DEF Next

-----------------------------------------------------------------------------
(* The inductive invariant of the memory pool: what is free of a block     *)
(* that may be taken from was never given out, no two such entries have    *)
(* the same memory, and the blocks are in order wherever they are searched *)
(* (sau_mpalloc(), add() and copy_up_one(), with the failures of add()).   *)
THEOREM PoolInvariant == Spec => []PoolInv
<1>1. Init => PoolInv
  BY PoolInit
<1>2. PoolInv /\ [Next]_vars => PoolInv'
  BY PoolNext
<1> QED
  BY <1>1, <1>2, PTL DEF Spec

(* Every entry is of a block made, and every index is within its array.    *)
THEOREM PoolTyping == Spec => []TypeOK
<1>1. PoolInv => TypeOK
  <2> SUFFICES ASSUME PoolInv PROVE TypeOK
    OBVIOUS
  <2>1. /\ pc \in {"live", "sort", "destroy"}
        /\ pool.a \in [0..(Len(made) - 1) -> MemBlock]
        /\ pool.first_i \in 0..Len(made)
        /\ pool.block_size \in Nat /\ pool.skip_size \in Nat
        /\ Len(made) <= pool.a_len
    BY DEF PoolInv, PoolType
  <2>2. Count(pool.a) = Len(made)
    BY PoolFacts
  <2>3. call.i \in 0..Len(made)
    <3>1. call.i \in Nat /\ call.i <= Len(made)
      BY DEF PoolInv
    <3>2. Len(made) \in Nat
      BY PoolFacts
    <3> QED
      BY <3>1, <3>2
  <2>4. DOMAIN made = 1..Len(made) /\ DOMAIN given = 1..Len(given)
    BY PoolFacts
  <2>5. \A d \in DOMAIN dtors : dtors[d] \in DOMAIN given
    BY DEF PoolInv
  <2>6. \A g \in DOMAIN given : given[g].mem \in DOMAIN made
    BY <2>4, PoolFacts
  <2>7. \A f \in DOMAIN freed : freed[f] \in DOMAIN made
    BY <2>4 DEF PoolInv
  <2> QED
    BY <2>1, <2>2, <2>3, <2>5, <2>6, <2>7 DEF TypeOK
<1> QED
  BY <1>1, PoolInvariant, PTL

(* No two allocations overlap, and each lies within its block: also when   *)
(* blocks are taken from the searched ones, passed over, exchanged with no *)
(* search, or made too large, and whatever fails.                          *)
THEOREM NotShared == Spec => []MemoryNotShared
<1>1. PoolInv => MemoryNotShared
  BY DEF PoolInv
<1> QED
  BY <1>1, PoolInvariant, PTL

(* After every allocation the blocks searched are in order again, and      *)
(* those no longer searched have no more than skip_size left.              *)
THEOREM SortedAgain == Spec => []SortedWhereSearched
<1>1. PoolInv => SortedWhereSearched
  BY DEF PoolInv
<1> QED
  BY <1>1, PoolInvariant, PTL

(* first_smallest() gives the least block that will do, and add() is only  *)
(* called when there is none.                                              *)
THEOREM FitsBest == Spec => BestFit
<1> DEFINE Best(size) == \A k \in Searched : pool.a[k].free >= size =>
                            made' = made /\ pool.a[call'.i].free <= pool.a[k].free
<1>1. ASSUME PoolInv, NEW size \in Sizes \union {DtorSize}, NEW dtor \in BOOLEAN,
             UseBlock(size, dtor) \/ AddBlock(size, dtor)
      PROVE  Best(size)
  <2>1. PICK n, a, first, i : /\ n = Len(made) /\ a = pool.a /\ first = pool.first_i
                              /\ i = Fit(size)
    OBVIOUS
  <2>2. /\ n \in Nat /\ first \in 0..n
        /\ a \in [0..(n - 1) -> Entries(1..n)]
        /\ \A k \in 0..(n - 1) : a[k].free \in Nat
        /\ Searched = first..(n - 1)
    BY <1>1, <2>1, PoolFacts
  <2>3. size \in Nat
    BY SizesPositive
  <2>4. SmallestAt(a, n, first, size, i)
    BY <2>1, <2>2, <2>3, SmallestFound DEF Fit
  <2>5. pc = "live"
    BY <1>1 DEF UseBlock, AddBlock, Asked
  <2>6. Ordered(a, n, first)
    BY <1>1, <2>1, <2>5, LiveOrdered
  <2>7. ASSUME NEW k \in first..(n - 1), a[k].free >= size
        PROVE  made' = made /\ a[call'.i].free <= a[k].free
    <3>1. k \in 0..(n - 1) /\ a[k].free \in Nat
      BY <2>2
    <3>2. ~(a[k].free < size)
      BY <2>3, <2>7, <3>1
    <3>3. i # NotFound
      BY <2>4, <2>6, <3>2 DEF SmallestAt
    <3>4. made' = made /\ call'.i = i
      BY <1>1, <2>1, <3>3 DEF UseBlock, AddBlock
    <3>5. i \in first..(n - 1) /\ ~(k \in first..(i - 1))
      BY <2>2, <2>4, <2>6, <3>2, <3>3 DEF SmallestAt
    <3>6. i = k \/ i < k
      BY <2>2, <3>5
    <3>7. a[i].free <= a[k].free
      BY <2>6, <3>1, <3>5, <3>6 DEF Ordered
    <3> QED
      BY <3>4, <3>7
  <2> QED
    BY <2>1, <2>2, <2>7
<1>2. PoolInv => [\A size \in Sizes \union {DtorSize} :
                     (\E dtor \in BOOLEAN : UseBlock(size, dtor) \/ AddBlock(size, dtor)) =>
                        \A k \in Searched : pool.a[k].free >= size =>
                           made' = made /\ pool.a[call'.i].free <= pool.a[k].free]_vars
  BY <1>1
<1> QED
  BY <1>2, PoolInvariant, PTL DEF BestFit
=============================================================================
