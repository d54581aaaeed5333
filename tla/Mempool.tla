------------------------------ MODULE Mempool -------------------------------
(***************************************************************************)
(* The memory pool, src/sau/mempool.c: blocks kept sorted by the space     *)
(* left in them, from which each allocation takes the tail end of the one  *)
(* that fits best; all are freed together.  Blocks that are all but full   *)
(* stay in front, below first_i, and are not searched any more.            *)
(*                                                                         *)
(* Sizes count in units of ALIGN_BYTES, which sau_mpalloc() rounds them up *)
(* to.  made and given are history: what was asked of the system, and what *)
(* was given to callers.                                                   *)
(***************************************************************************)
EXTENDS Integers, Sequences, FiniteSets

CONSTANTS
    StartSize,  \* start_size
    Sizes,      \* sizes asked for by callers
    DtorSize,   \* sizeof(DtorItem)
    MaxAllocs   \* bound: allocations made

ASSUME SizeAssumption ==
    /\ StartSize \div 2 \in Nat \ {0}
    /\ Sizes \subseteq Nat \ {0}
    /\ DtorSize \in Nat \ {0}
    /\ MaxAllocs \in Nat

VARIABLES
    pc,
    pool,       \* the sauMempool: its block array and sizes
    call,       \* the block chosen by the allocation, and whether for a dtor
    dtors,      \* last_dtor, the latest first
    made,       \* the size of each memory block, in order of making
    given,      \* the memory given out: where in which block
    freed       \* the memory blocks freed, in order

vars == <<pc, pool, call, dtors, made, given, freed>>

-----------------------------------------------------------------------------

NotFound == -1
NoCall == [i |-> 0, dtor |-> FALSE]

(* sau_create_Mempool() *)
Init ==
    /\ pc = "live"
    /\ pool = [a |-> <<>>, first_i |-> 0, a_len |-> 0,
               block_size |-> StartSize \div 2, skip_size |-> 0]
    /\ call = NoCall
    /\ dtors = <<>>
    /\ made = <<>>
    /\ given = <<>>
    /\ freed = <<>>

(* Entries count from 0 in the code; an array is a function on 0..n-1.     *)
Count(a) == Cardinality(DOMAIN a)

(* The binary search, round by round: of n blocks, n rounds are enough.    *)
(* When there is nothing to search it looks at the very first block.       *)
Narrowed(a, size, r) ==
    LET mid == r.min + (r.max - r.min) \div 2
    IN  IF r.min >= r.max THEN r
        ELSE IF a[mid].free < size THEN [min |-> mid + 1, max |-> r.max]
        ELSE [min |-> r.min, max |-> mid]

Round(a, first, size, before, k) ==
    IF k = 0 THEN [min |-> first, max |-> Count(a)]
    ELSE Narrowed(a, size, before[k - 1])

Search(a, first, size) ==
    LET n == Count(a)
        range[k \in 0..n] == Round(a, first, size, range, k)
    IN  range

FirstSmallest(a, first, size) ==
    LET n == Count(a)
        i == IF first < n THEN Search(a, first, size)[n].min ELSE 0
    IN  IF i < n /\ a[i].free >= size THEN i ELSE NotFound

FirstGreater(a, first, size) == FirstSmallest(a, first, size + 1)

(* upsize(): the sizes double with the length of the array.                *)
Upsized ==
    [pool EXCEPT
        !.a_len = IF @ > 0 THEN 2 * @ ELSE 1,
        !.block_size = 2 * @,
        !.skip_size = IF pool.first_i >= (pool.a_len * 2) \div 3 THEN @
                      ELSE IF @ > 0 THEN 2 * @ ELSE 1]

Grown == IF Count(pool.a) = pool.a_len THEN Upsized ELSE pool

(* Where searches start from now on: past blocks in front that are full.   *)
FirstSearched_OneMore(a, from, skip) ==
    IF from < Count(a) THEN from + 1 ELSE from
FirstSearched(a, from, skip) ==
    CHOOSE k \in from..Count(a) :
        /\ \A m \in from..(k - 1) : a[m].free <= skip
        /\ k < Count(a) => a[k].free > skip

-----------------------------------------------------------------------------
(* sau_mpalloc() *)

Fit(size) == FirstSmallest(pool.a, pool.first_i, size)

Asked(size, dtor) ==
    /\ pc = "live"
    /\ Len(given) < MaxAllocs
    /\ IF dtor THEN size = DtorSize ELSE size \in Sizes

Handed(mem, from, size) ==
    /\ given' = Append(given, [mem |-> mem, from |-> from, to |-> from + size - 1])
    /\ pc' = "sort"

(* The block that fits best has room. *)
UseBlock(size, dtor) ==
    LET i == Fit(size)
        left == pool.a[i].free - size
    IN  /\ Asked(size, dtor)
        /\ i # NotFound
        /\ pool' = [pool EXCEPT !.a[i].free = left]
        /\ call' = [i |-> i, dtor |-> dtor]
        /\ Handed(pool.a[i].mem, left, size)
        /\ UNCHANGED <<dtors, made, freed>>

(* add() *)
BlockFor_Normal(size) == Grown.block_size
BlockFor(size) == IF Grown.block_size < size THEN size ELSE Grown.block_size

AddBlock(size, dtor) ==
    LET n == Count(pool.a)
        new == [free |-> BlockFor(size) - size, mem |-> Len(made) + 1]
        a == [k \in 0..n |-> IF k = n THEN new ELSE pool.a[k]]
    IN  /\ Asked(size, dtor)
        /\ Fit(size) = NotFound
        /\ pool' = [Grown EXCEPT
                      !.a = a,
                      !.first_i = FirstSearched(a, @, Grown.skip_size)]
        /\ made' = Append(made, BlockFor(size))
        /\ call' = [i |-> n, dtor |-> dtor]
        /\ Handed(new.mem, new.free, size)
        /\ UNCHANGED <<dtors, freed>>

(* add(), when the array has grown but there is no memory for the block:   *)
(* NULL is returned, the larger sizes stay.                                *)
AddFails(size, dtor) ==
    /\ Asked(size, dtor)
    /\ Fit(size) = NotFound
    /\ Count(pool.a) = pool.a_len
    /\ pool' = Upsized
    /\ UNCHANGED <<pc, call, dtors, made, given, freed>>

(* copy_up_one(): the first block of each size between moves to where the  *)
(* first of the next size was.                                             *)
CopiedFrom(a, first, to, above, k) ==
    LET higher == FirstGreater(a, first, a[k].free)
    IN  IF k = to - 1 \/ a[k].free = a[to - 1].free THEN [a EXCEPT ![to] = a[k]]
        ELSE IF higher # NotFound THEN [above[higher] EXCEPT ![higher] = a[k]]
        ELSE a

CopyUp(a, first, to) ==
    LET copied[k \in DOMAIN a] == CopiedFrom(a, first, to, copied, k)
    IN  copied

CopyUpOne(a, first, to, from) == CopyUp(a, first, to)[from]

(* The block that was taken from goes to where its free space now belongs. *)
(* While it is looked for it passes for as large as the one before.        *)
Sorted_Fudged(a, first, i) ==
    LET fudged == [a EXCEPT ![i].free = a[i - 1].free]
        j == FirstGreater(fudged, first, a[i].free)
    IN  IF j # NotFound /\ j < i
        THEN [CopyUpOne(fudged, first, i, j) EXCEPT ![j] = fudged[i]]
        ELSE a
Sorted_InPlace(a, first, i) ==
    LET j == FirstGreater(a, first, a[i].free)
    IN  IF j # NotFound /\ j < i
        THEN [CopyUpOne(a, first, i, j) EXCEPT ![j] = a[i]]
        ELSE a
Sorted(a, first, i) ==
    LET fudged == [a EXCEPT ![i].free = a[i - 1].free]
        j == FirstGreater(fudged, first, a[i].free)
    IN  IF j # NotFound /\ j < i
        THEN [CopyUpOne(fudged, first, i, j) EXCEPT ![j] = a[i]]
        ELSE a

(* The end of sau_mpalloc(), and of sau_mpregdtor() if called from there.  *)
SortBlocks ==
    /\ pc = "sort"
    /\ pc' = "live"
    /\ pool' = [pool EXCEPT !.a = IF call.i > 0 THEN Sorted(@, pool.first_i, call.i)
                                  ELSE @]
    /\ dtors' = IF call.dtor THEN <<Len(given)>> \o dtors ELSE dtors
    /\ call' = NoCall
    /\ UNCHANGED <<made, given, freed>>

(* sau_destroy_Mempool(): destructors, then every entry's memory. *)
Destroy ==
    /\ pc = "live"
    /\ pc' = "destroy"
    /\ UNCHANGED <<pool, call, dtors, made, given, freed>>

RunDtor ==
    /\ pc = "destroy"
    /\ dtors # <<>>
    /\ dtors' = Tail(dtors)
    /\ UNCHANGED <<pc, pool, call, made, given, freed>>

FreeBlock ==
    /\ pc = "destroy"
    /\ dtors = <<>>
    /\ Len(freed) < Count(pool.a)
    /\ freed' = Append(freed, pool.a[Len(freed)].mem)
    /\ UNCHANGED <<pc, pool, call, dtors, made, given>>

Next ==
    \/ \E size \in Sizes \union {DtorSize}, dtor \in BOOLEAN :
          \/ UseBlock(size, dtor)
          \/ AddBlock(size, dtor)
          \/ AddFails(size, dtor)
    \/ SortBlocks
    \/ Destroy \/ RunDtor \/ FreeBlock

Spec == Init /\ [][Next]_vars

-----------------------------------------------------------------------------
(* Properties. *)

MemBlock == [free : Nat, mem : 1..Len(made)]

TypeOK ==
    /\ pc \in {"live", "sort", "destroy"}
    /\ pool.a \in [0..(Count(pool.a) - 1) -> MemBlock]
    /\ Count(pool.a) = Len(made) /\ Len(made) <= pool.a_len
    /\ pool.first_i \in 0..Len(made)
    /\ {pool.block_size, pool.skip_size} \subseteq Nat
    /\ call.i \in 0..Len(made)
    /\ \A d \in DOMAIN dtors : dtors[d] \in DOMAIN given
    /\ \A g \in DOMAIN given : given[g].mem \in DOMAIN made
    /\ \A f \in DOMAIN freed : freed[f] \in DOMAIN made

(* What callers are given lies within a block, and no two get the same     *)
(* memory; and so it is also "initialized to zero bytes" still.            *)
MemoryNotShared ==
    /\ \A g \in DOMAIN given : 0 <= given[g].from /\ given[g].to < made[given[g].mem]
    /\ \A g, h \in DOMAIN given :
          given[g].mem = given[h].mem =>
              g = h \/ given[g].to < given[h].from \/ given[h].to < given[g].from

(* "Sort blocks after allocation so that binary search will work": the     *)
(* blocks searched are in order, and those skipped are full.               *)
SortedWhereSearched ==
    pc = "live" =>
        \A k \in DOMAIN pool.a :
            /\ k < pool.first_i => pool.a[k].free <= pool.skip_size
            /\ k >= pool.first_i /\ k + 1 < Len(made) =>
                  pool.a[k].free <= pool.a[k + 1].free

(* "pick least-free-space best fit": of the blocks searched none that      *)
(* would do has less space, and a new one is only made if none would do.   *)
Searched == {k \in DOMAIN pool.a : k >= pool.first_i}
BestFit ==
    [][\A size \in Sizes \union {DtorSize} : (\E dtor \in BOOLEAN : UseBlock(size, dtor) \/ AddBlock(size, dtor)) =>
          \A k \in Searched : pool.a[k].free >= size =>
              made' = made /\ pool.a[call'.i].free <= pool.a[k].free]_vars

(* "Frees all memory blocks." (mempool.c:200)                              *)
FreesAll ==
    pc = "destroy" /\ Len(freed) = Len(made) =>
        \A m \in DOMAIN made : \E f \in DOMAIN freed : freed[f] = m

-----------------------------------------------------------------------------
(* The inductive invariant.                                                *)

(* The entries an allocation may still take from: those searched, and the  *)
(* very first, which is looked at when there is nothing to search.         *)
Open == Searched \union ({0} \intersect DOMAIN pool.a)

(* Below the free space of an entry nothing of its memory is given out.    *)
FreeIsFree(k) ==
    /\ pool.a[k].free <= made[pool.a[k].mem]
    /\ \A g \in DOMAIN given :
          given[g].mem = pool.a[k].mem => pool.a[k].free <= given[g].from

GivenSound ==
    \A g \in DOMAIN given : given[g].from <= given[g].to

(* While the block that was taken from is out of its place, the others     *)
(* searched are in order, and those that come after it have more.          *)
OthersSorted ==
    pc = "sort" =>
        /\ given # <<>>
        /\ call.i \in DOMAIN pool.a
        /\ FreeIsFree(call.i)
        /\ pool.first_i <= call.i \/ pool.first_i = Len(made)
        /\ \A k, l \in Searched : k < l /\ l # call.i => pool.a[k].free <= pool.a[l].free

PoolType ==
    [a : [0..(Len(made) - 1) -> MemBlock], first_i : 0..Len(made), a_len : Nat,
     block_size : Nat, skip_size : Nat]
GivenType == [mem : 1..Len(made), from : Nat, to : Nat]

PoolInv ==
    /\ pool \in PoolType
    /\ Len(made) <= pool.a_len
    /\ call \in [i : Nat, dtor : BOOLEAN]
    /\ call.i <= Len(made)
    /\ made \in Seq(Nat)
    /\ given \in Seq(GivenType)
    /\ dtors \in Seq(DOMAIN given)
    /\ freed \in Seq(1..Len(made))
    /\ pc \in {"live", "sort", "destroy"}
    /\ GivenSound
    /\ MemoryNotShared
    /\ \A k \in Open : FreeIsFree(k)
    /\ \A k, l \in Open : pool.a[k].mem = pool.a[l].mem => k = l
    /\ \A k \in DOMAIN pool.a : k < pool.first_i => pool.a[k].free <= pool.skip_size
    /\ SortedWhereSearched
    /\ OthersSorted
=============================================================================
