----------------------------- MODULE DarrayProofs -----------------------------
(***************************************************************************)
(* The memory safety of Darray for every heap, every width of size_t and   *)
(* all values; and that Darray implements VectorSpec.                      *)
(***************************************************************************)
EXTENDS Darray, SequenceLemmas

(* Spoiled or not, a block that was not freed has the slots that the       *)
(* capacity asks for modulo SlotMod, and holds the elements.               *)
BlockInv ==
  /\ exists /\ slots # 0 => slots = SlotsOf(capacity) /\ size <= slots
  /\ exists /\ ~spoiled  => slots # 0 /\ slots = capacity
  /\ ~exists => slots = 0 /\ size = 0 /\ ~spoiled /\ ~fault

(* The inductive invariant: both properties need the length of the block,  *)
(* which the handle does not record.                                       *)
IInv == TypeOK /\ BlockInv /\ MemorySafe

-------------------------------------------------------------------------------
(* A count below the modulus does not wrap. *)
LEMMA ModSmall ==
  ASSUME NEW m \in Nat, NEW x \in Nat, x < m
  PROVE  x % m = x
OBVIOUS

(* A wrapped count is a natural number below the modulus. *)
LEMMA ModRange ==
  ASSUME NEW m \in Nat, m > 0, NEW x \in Int
  PROVE  x % m \in 0..m - 1
OBVIOUS
(* A call that only reads, or fails, changes nothing the invariant is about. *)
LEMMA KeepInv ==
  ASSUME IInv, NEW op, NEW r, Keep, Returns(op, r)
  PROVE  IInv'
BY DEF IInv, TypeOK, BlockInv, MemorySafe, Keep, Returns

(* An undefined call is excused only by a spoiled array. *)
LEMMA CrashInv ==
  ASSUME IInv, exists, Crash, spoiled' \in BOOLEAN, spoiled', spoiled => spoiled'
  PROVE  IInv'
BY DEF IInv, TypeOK, BlockInv, MemorySafe, Crash

(* The store of push and insert, into a block d of n slots for which the   *)
(* handle now says capacity c.                                             *)
LEMMA StoreInv ==
  ASSUME IInv, Live, NEW op, NEW i \in Nat, i <= size, NEW v \in Elem,
         NEW n \in 0..HeapSlots, NEW d \in [0..n - 1 -> Elem], NEW c \in Nat,
         NEW s \in BOOLEAN, spoiled => s, n # 0 => n = SlotsOf(c) /\ size <= n,
         ~s => n = c /\ size < n,
         StoreAt(op, i, v, d, n, c, s)
  PROVE  IInv'
<1>1. CASE size >= n
  <2>1. Crash /\ spoiled' = s /\ s
    BY <1>1 DEF StoreAt, IInv, TypeOK
  <2>2. QED
    BY <2>1, CrashInv DEF Live
<1>2. CASE size < n
  <2>1. size \in Nat /\ i \in 0..size /\ n \in Nat /\ ~(size >= n)
    BY <1>2 DEF IInv, TypeOK
  <2>2. data' = [k \in 0..n - 1 |-> IF k < i \/ k > size THEN d[k]
                                    ELSE IF k = i THEN v ELSE d[k - 1]]
    BY <2>1 DEF StoreAt
  <2>3. data' \in [0..n - 1 -> Elem]
    <3>1. ASSUME NEW k \in 0..n - 1, ~(k < i \/ k > size), k # i
          PROVE  k - 1 \in 0..n - 1
      BY <3>1, <2>1
    <3>2. QED
      BY <2>2, <3>1
  <2>4. slots' = n /\ size' = size + 1 /\ capacity' = c /\ spoiled' = s
        /\ Returns(op, TRUE)
    BY <2>1 DEF StoreAt
  <2>5. QED
    BY <1>2, <2>1, <2>3, <2>4
    DEF IInv, TypeOK, BlockInv, MemorySafe, Live, Returns, SlotsOf
<1>3. QED
  BY <1>1, <1>2 DEF IInv, TypeOK

(* A failed realloc: the block is as before, or gone and the array spoiled. *)
LEMMA ReallocNullInv ==
  ASSUME IInv, Live, NEW op, NEW r, NEW n \in Nat, ReallocNull(n), Returns(op, r)
  PROVE  IInv'
<1>1. CASE SlotsOf(n) = 0
  BY <1>1, SizeAssumption
  DEF IInv, TypeOK, BlockInv, MemorySafe, Live, ReallocNull, Returns, NoBlock
<1>2. CASE SlotsOf(n) # 0
  BY <1>2 DEF IInv, TypeOK, BlockInv, MemorySafe, Live, ReallocNull, Returns
<1>3. QED
  BY <1>1, <1>2

(* What a resize that touches nothing outside the new block leaves behind. *)
LEMMA ResizedBlock ==
  ASSUME IInv, Live, NEW n \in Nat, n >= capacity, CanResize(n), ~ResizeFaults(n)
  PROVE  /\ SlotsOf(n) \in 1..HeapSlots
         /\ Resized(n) \in [0..SlotsOf(n) - 1 -> Elem]
         /\ size <= SlotsOf(n)
         /\ n < SlotMod => SlotsOf(n) = n
<1>1. /\ n - capacity \in Nat /\ SlotsOf(n - capacity) \in Nat
      /\ SlotsOf(n) \in 1..HeapSlots /\ capacity \in Nat /\ size \in Nat
      /\ slots \in 1..HeapSlots
  BY ModRange, SizeAssumption DEF IInv, TypeOK, CanResize, SlotsOf, ResizeFaults
<1>2. capacity <= SlotsOf(n)
  BY <1>1 DEF ResizeFaults
<1>3. capacity < SlotMod
  BY <1>1, <1>2, SizeAssumption
<1>4. slots = capacity /\ size <= slots
  BY <1>1, <1>3, ModSmall, SizeAssumption
  DEF IInv, TypeOK, BlockInv, Live, SlotsOf
<1>5. Resized(n) \in [0..SlotsOf(n) - 1 -> Elem]
  <2>1. NULL \in Elem
    BY DEF Elem
  <2>2. \A k \in 0..SlotsOf(n) - 1 : k < capacity => data[k] \in Elem
    BY <1>1, <1>4 DEF IInv, TypeOK
  <2>3. QED
    BY <2>1, <2>2 DEF Resized
<1>6. n < SlotMod => SlotsOf(n) = n
  BY ModSmall, SizeAssumption DEF SlotsOf
<1>7. QED
  BY <1>1, <1>2, <1>4, <1>5, <1>6
(* push and insert, whether or not the array must grow first. *)
LEMMA InsertInv ==
  ASSUME IInv, Live, NEW op, NEW i \in Nat, i <= size, NEW v \in Elem,
         Insert(op, i, v)
  PROVE  IInv'
<1> DEFINE n == Wrap(2 * capacity)
<1>1. /\ n \in Nat /\ capacity \in Nat /\ size \in Nat /\ slots \in 0..HeapSlots
      /\ data \in [0..slots - 1 -> Elem] /\ spoiled \in BOOLEAN /\ exists
  BY ModRange, SizeAssumption DEF IInv, TypeOK, Wrap, Live
<1>2. ~spoiled => slots = capacity /\ slots \in 1..HeapSlots /\ size <= capacity
  BY <1>1 DEF IInv, BlockInv
<1>3. slots # 0 => slots = SlotsOf(capacity) /\ size <= slots
  BY <1>1 DEF IInv, BlockInv
<1>4. CASE size < capacity
           /\ StoreAt(op, i, v, data, slots, capacity, spoiled)
  BY <1>1, <1>2, <1>3, <1>4, StoreInv
<1>5. CASE Keep /\ Returns(op, FALSE)
  BY <1>5, KeepInv
<1>6. ASSUME size >= capacity, n >= capacity, slots = 0, Crash, UNCHANGED spoiled
      PROVE  IInv'
  BY <1>1, <1>2, <1>6, CrashInv
<1>7. ASSUME ReallocNull(n), Returns(op, FALSE)
      PROVE  IInv'
  BY <1>1, <1>7, ReallocNullInv
<1>8. ASSUME n >= capacity, CanResize(n), ResizeFaults(n), Crash, spoiled' = TRUE
      PROVE  IInv'
  BY <1>1, <1>8, CrashInv
<1>9. ASSUME size >= capacity, n >= capacity, CanResize(n), ~ResizeFaults(n),
             StoreAt(op, i, v, Resized(n), SlotsOf(n), n, spoiled \/ n >= SlotMod)
      PROVE  IInv'
  <2>1. /\ SlotsOf(n) \in 1..HeapSlots
        /\ Resized(n) \in [0..SlotsOf(n) - 1 -> Elem]
        /\ size <= SlotsOf(n)
        /\ n < SlotMod => SlotsOf(n) = n
    BY <1>1, <1>9, ResizedBlock
  <2>2. ASSUME ~(spoiled \/ n >= SlotMod)
        PROVE  n = SlotsOf(n) /\ size < SlotsOf(n)
    <3>1. n = SlotsOf(n)
      BY <1>1, <2>1, <2>2, SizeAssumption
    <3>2. 2 * capacity < SizeMod /\ capacity > 0 /\ size <= capacity
      BY <1>1, <1>2, <2>2, SizeAssumption
    <3>3. n = 2 * capacity
      BY <1>1, <3>2, ModSmall, SizeAssumption DEF Wrap
    <3>4. QED
      BY <1>1, <3>1, <3>2, <3>3
  <2>3. SlotsOf(n) \in 0..HeapSlots /\ (spoiled \/ n >= SlotMod) \in BOOLEAN
    BY <2>1, SizeAssumption
  <2> HIDE DEF n
  <2>4. QED
    BY <1>1, <1>9, <2>1, <2>2, <2>3, StoreInv
<1>10. QED
  <2> HIDE DEF n
  <2>1. \/ size < capacity /\ StoreAt(op, i, v, data, slots, capacity, spoiled)
        \/ Keep /\ Returns(op, FALSE)
        \/ /\ ~(size < capacity) /\ ~(n < capacity)
           /\ \/ slots = 0 /\ Crash /\ UNCHANGED spoiled
              \/ ReallocNull(n) /\ Returns(op, FALSE)
              \/ CanResize(n) /\ ResizeFaults(n) /\ Crash /\ spoiled' = TRUE
              \/ CanResize(n) /\ ~ResizeFaults(n)
                 /\ StoreAt(op, i, v, Resized(n), SlotsOf(n), n, spoiled \/ n >= SlotMod)
    BY Zenon DEF Insert, n
  <2>2. ~(size < capacity) => size >= capacity
    BY <1>1
  <2>3. ~(n < capacity) => n >= capacity
    BY <1>1
  <2>4. QED
    BY <2>1, <2>2, <2>3, <1>4, <1>5, <1>6, <1>7, <1>8, <1>9, Zenon

LEMMA NoBlockType == NoBlock \in [0..0 - 1 -> Elem]
<1>1. 0 - 1 = -1
  OBVIOUS
<1>2. \A k \in 0..-1 : FALSE
  OBVIOUS
<1>3. NoBlock \in [0..-1 -> Elem]
  BY <1>2 DEF NoBlock
<1>4. QED
  BY <1>1, <1>3

LEMMA InitInv == Init => IInv
<1> SUFFICES ASSUME Init PROVE IInv
  OBVIOUS
<1>1. TypeOK
  <2>1. slots = 0 /\ data = NoBlock
    BY DEF Init
  <2>2. data \in [0..slots - 1 -> Elem]
    BY <2>1, NoBlockType
  <2>3. slots \in 0..HeapSlots
    BY <2>1, SizeAssumption
  <2>4. QED
    BY <2>2, <2>3 DEF Init, TypeOK
<1>2. BlockInv /\ MemorySafe
  BY DEF Init, BlockInv, MemorySafe
<1>3. QED
  BY <1>1, <1>2 DEF IInv

LEMMA CreateInv ==
  ASSUME IInv, NEW c \in Sizes, Create(c)
  PROVE  IInv'
<1> DEFINE n == IF c = 0 THEN Default ELSE c
<1>1. n \in Nat /\ n > 0
  BY SizeAssumption
<1>2. CASE Keep /\ Returns(<<"create">>, FALSE)
  BY <1>2, KeepInv
<1>3. CASE /\ n <= HeapSlots
           /\ exists' = TRUE /\ data' = [k \in 0..n - 1 |-> NULL]
           /\ slots' = n /\ size' = 0 /\ capacity' = n
           /\ UNCHANGED <<fault, spoiled>>
  <2> HIDE DEF n
  <2>1. SlotsOf(n) = n
    BY <1>1, <1>3, ModSmall, SizeAssumption DEF SlotsOf
  <2>2. QED
    BY <1>1, <1>3, <2>1, SizeAssumption
    DEF Create, IInv, TypeOK, BlockInv, MemorySafe, Elem
<1>4. QED
  BY <1>2, <1>3 DEF Create
(* A call that rearranges or drops elements within the block. *)
LEMMA ElementsInv ==
  ASSUME IInv, Live, NEW op, NEW r, Returns(op, r),
         data' \in [0..slots - 1 -> Elem], UNCHANGED <<slots, capacity>>,
         size' \in Nat, size' <= size, spoiled' \in BOOLEAN, spoiled => spoiled'
  PROVE  IInv'
BY DEF IInv, TypeOK, BlockInv, MemorySafe, Live, Returns, SlotsOf

(* Reading or writing n elements from lo on faults in spoiled arrays only. *)
LEMMA OutsideInv ==
  ASSUME IInv, Live, NEW lo \in Nat, NEW n \in Nat, lo + n <= size,
         ~InBlock(lo, n), Crash, UNCHANGED spoiled
  PROVE  IInv'
<1>1. spoiled
  BY DEF IInv, TypeOK, BlockInv, Live, InBlock
<1>2. QED
  BY <1>1, CrashInv DEF Live, IInv, TypeOK

(* free and realloc of a block that is gone, likewise. *)
LEMMA FreedInv ==
  ASSUME IInv, Live, slots = 0, Crash, UNCHANGED spoiled
  PROVE  IInv'
<1>1. spoiled
  BY DEF IInv, BlockInv, Live
<1>2. QED
  BY <1>1, CrashInv DEF Live, IInv, TypeOK

LEMMA GoneInv ==
  ASSUME IInv, Live, NEW op, NEW r, Gone(op, r)
  PROVE  IInv'
<1>1. CASE slots = 0
  BY <1>1, FreedInv DEF Gone
<1>2. CASE slots # 0
  <2>1. /\ exists' = FALSE /\ data' = NoBlock /\ slots' = 0 /\ size' = 0
        /\ capacity' = 0 /\ spoiled' = FALSE /\ fault' = fault /\ ~fault
    BY <1>2 DEF Gone, Live
  <2>2. data' \in [0..slots' - 1 -> Elem]
    BY <2>1, NoBlockType
  <2>3. TypeOK'
    <3>1. fault \in BOOLEAN /\ 0 \in 0..HeapSlots
      BY SizeAssumption DEF IInv, TypeOK
    <3>2. QED
      BY <2>1, <2>2, <3>1 DEF TypeOK
  <2>4. BlockInv' /\ MemorySafe'
    BY <2>1 DEF BlockInv, MemorySafe
  <2>5. QED
    BY <2>3, <2>4 DEF IInv
<1>3. QED
  BY <1>1, <1>2

LEMMA DestroyWithInv ==
  ASSUME IInv, DestroyWith
  PROVE  IInv'
<1>1. CASE InBlock(0, size)
  BY <1>1, GoneInv DEF DestroyWith
<1>2. CASE ~InBlock(0, size)
  <2>1. size \in Nat /\ 0 + size <= size
    BY DEF IInv, TypeOK
  <2>2. Live /\ Crash /\ UNCHANGED spoiled
    BY <1>2 DEF DestroyWith
  <2>3. QED
    BY <1>2, <2>1, <2>2, OutsideInv
<1>3. QED
  BY <1>1, <1>2

LEMMA ClearInv ==
  ASSUME IInv, Clear
  PROVE  IInv'
<1>1. size \in Nat /\ 0 + size <= size /\ Live
  BY DEF IInv, TypeOK, Clear
<1>2. CASE ~InBlock(0, size)
  BY <1>1, <1>2, OutsideInv DEF Clear
<1>3. ASSUME NEW op, NEW r, Emptied(op, r)
      PROVE  IInv'
  <2>1. Zeroed(0, size) \in [0..slots - 1 -> Elem]
    BY DEF IInv, TypeOK, Zeroed, Elem
  <2>2. size' \in Nat /\ size' <= size
    BY <1>1, <1>3 DEF Emptied
  <2>3. spoiled' = spoiled /\ spoiled \in BOOLEAN
    BY <1>3 DEF Emptied, IInv, TypeOK
  <2>4. QED
    BY <1>1, <1>3, <2>1, <2>2, <2>3, ElementsInv DEF Emptied
<1>4. QED
  BY <1>2, <1>3 DEF Clear

LEMMA PopInv ==
  ASSUME IInv, Pop
  PROVE  IInv'
<1>1. /\ size \in Nat /\ data \in [0..slots - 1 -> Elem] /\ spoiled \in BOOLEAN
      /\ Live
  BY DEF IInv, TypeOK, Pop
<1>2. CASE size = 0
  BY <1>2, KeepInv DEF Pop
<1>3. CASE size # 0 /\ ~InBlock(size - 1, 1)
  <2>1. size - 1 \in Nat /\ (size - 1) + 1 <= size
    BY <1>1, <1>3
  <2>2. Crash /\ UNCHANGED spoiled
    BY <1>3 DEF Pop
  <2>3. QED
    BY <1>1, <1>3, <2>1, <2>2, OutsideInv
<1>4. CASE size # 0 /\ InBlock(size - 1, 1)
  <2>1. /\ size' = size - 1 /\ UNCHANGED <<data, slots, capacity, spoiled>>
        /\ Returns(<<"pop">>, data[size - 1])
    BY <1>4 DEF Pop
  <2>2. size' \in Nat /\ size' <= size
    BY <1>1, <1>4, <2>1
  <2>3. QED
    BY <1>1, <2>1, <2>2, ElementsInv
<1>5. QED
  BY <1>2, <1>3, <1>4

LEMMA ReadInv ==
  ASSUME IInv, Live, NEW op, NEW i \in Int, Read(op, i)
  PROVE  IInv'
<1>1. CASE i \notin 0..size - 1
  BY <1>1, KeepInv DEF Read
<1>2. CASE i \in 0..size - 1 /\ ~InBlock(i, 1)
  <2>1. i \in Nat /\ i + 1 <= size
    BY <1>2 DEF IInv, TypeOK
  <2>2. QED
    BY <1>2, <2>1, OutsideInv DEF Read
<1>3. CASE i \in 0..size - 1 /\ InBlock(i, 1)
  BY <1>3, KeepInv DEF Read
<1>4. QED
  BY <1>1, <1>2, <1>3

LEMMA WriteInv ==
  ASSUME IInv, Live, NEW op, NEW i \in Nat, NEW v \in Elem, NEW r, NEW none,
         Write(op, i, v, r, none)
  PROVE  IInv'
<1>1. /\ size \in Nat /\ data \in [0..slots - 1 -> Elem] /\ spoiled \in BOOLEAN
  BY DEF IInv, TypeOK
<1>2. CASE i >= size
  BY <1>2, KeepInv DEF Write
<1>3. CASE ~(i >= size) /\ ~InBlock(i, 1)
  <2>1. i + 1 <= size
    BY <1>1, <1>3
  <2>2. QED
    BY <1>3, <2>1, OutsideInv DEF Write
<1>4. CASE ~(i >= size) /\ InBlock(i, 1)
  <2>1. /\ data' = [data EXCEPT ![i] = v]
        /\ UNCHANGED <<slots, size, capacity, spoiled>> /\ Returns(op, r)
    BY <1>4 DEF Write
  <2>2. data' \in [0..slots - 1 -> Elem]
    BY <1>1, <2>1
  <2>3. QED
    BY <1>1, <2>1, <2>2, ElementsInv
<1>5. QED
  BY <1>2, <1>3, <1>4
LEMMA RemoveInv ==
  ASSUME IInv, NEW i \in Nat, RemoveIndex(i)
  PROVE  IInv'
<1>1. /\ size \in Nat /\ slots \in Nat /\ data \in [0..slots - 1 -> Elem]
      /\ spoiled \in BOOLEAN /\ NULL \in Elem /\ Live
  BY SizeAssumption DEF IInv, TypeOK, RemoveIndex, Elem
<1>2. CASE i >= size
  BY <1>2, KeepInv DEF RemoveIndex
<1>3. CASE ~(i >= size) /\ ~InBlock(i, size - i)
  <2>1. size - i \in Nat /\ i + (size - i) <= size
    BY <1>1, <1>3
  <2>2. Crash /\ UNCHANGED spoiled
    BY <1>3 DEF RemoveIndex
  <2>3. QED
    BY <1>1, <1>3, <2>1, <2>2, OutsideInv
<1>4. CASE ~(i >= size) /\ InBlock(i, size - i)
  <2>1. /\ data' = [k \in 0..slots - 1 |->
                      IF k < i \/ k >= size THEN data[k]
                      ELSE IF k = size - 1 THEN NULL ELSE data[k + 1]]
        /\ size' = size - 1 /\ UNCHANGED <<slots, capacity, spoiled>>
        /\ Returns(<<"remove", i>>, data[i])
    BY <1>4 DEF RemoveIndex
  <2>2. size <= slots
    BY <1>1, <1>4 DEF InBlock
  <2>3. \A k \in 0..slots - 1 : ~(k >= size) /\ k # size - 1 => data[k + 1] \in Elem
    BY <1>1, <2>2
  <2>4. data' \in [0..slots - 1 -> Elem]
    BY <1>1, <2>1, <2>3
  <2>5. size' \in Nat /\ size' <= size
    BY <1>1, <1>4, <2>1
  <2>6. QED
    BY <1>1, <2>1, <2>4, <2>5, ElementsInv
<1>5. QED
  BY <1>2, <1>3, <1>4

(* erase: only a wrapped index + count reaches outside the elements. *)
LEMMA EraseInv ==
  ASSUME IInv, NEW i \in Sizes, NEW count \in Sizes, Erase(i, count)
  PROVE  IInv'
<1> DEFINE n    == IF Wrap(i + count) > size THEN size - i ELSE count
           end  == Wrap(i + n)
           tail == IF end < size THEN size - end ELSE 0
           s    == spoiled \/ i + count >= SizeMod
<1>1. /\ size \in Nat /\ slots \in Nat /\ data \in [0..slots - 1 -> Elem]
      /\ spoiled \in BOOLEAN /\ NULL \in Elem /\ Live
      /\ i \in Nat /\ count \in Nat /\ i < SizeMod /\ SizeMod \in Nat
  BY SizeAssumption DEF IInv, TypeOK, Erase, Elem
<1>2. CASE i >= size
  BY <1>2, KeepInv DEF Erase
<1>3. CASE ~(i >= size)
  <2>1. n \in Nat /\ end \in Nat /\ tail \in Nat /\ s \in BOOLEAN
    BY <1>1, <1>3, ModRange, SizeAssumption DEF Wrap
  <2> DEFINE out == ~InBlock(end, tail) \/ ~InBlock(i, tail) \/ n > size
  <2>2. CASE out
    <3>1. Crash /\ spoiled' = s
      BY <1>3, <2>2 DEF Erase
    <3>2. ~s => ~out
      <4> SUFFICES ASSUME ~spoiled, i + count < SizeMod PROVE ~out
        BY <1>1
      <4>1. size <= slots /\ slots < SizeMod
        BY <1>1, SizeAssumption DEF IInv, TypeOK, BlockInv, Live
      <4>2. Wrap(i + count) = i + count
        <5>1. PICK x : x = i + count
          OBVIOUS
        <5>2. x \in Nat /\ x < SizeMod
          BY <1>1, <5>1
        <5>3. x % SizeMod = x
          BY <1>1, <5>2, ModSmall, Zenon
        <5>4. QED
          BY <5>1, <5>3, Zenon DEF Wrap
      <4>3. i + n <= size /\ end = i + n
        <5>1. i + n <= size /\ n \in Nat
          BY <1>1, <1>3, <4>2
        <5>2. i + n \in Nat /\ i + n < SizeMod
          BY <1>1, <4>1, <5>1
        <5>3. QED
          BY <1>1, <5>1, <5>2, ModSmall DEF Wrap
      <4> HIDE DEF n, end
      <4>4. QED
        BY <1>1, <2>1, <4>1, <4>3 DEF InBlock
    <3>3. QED
      BY <1>1, <2>1, <2>2, <3>1, <3>2, CrashInv DEF Live
  <2>3. CASE ~out
    <3>1. /\ data' = [k \in 0..slots - 1 |->
                       IF size - n <= k /\ k < size THEN NULL
                       ELSE IF i <= k /\ k < i + tail THEN data[k + end - i]
                       ELSE data[k]]
          /\ size' = size - n /\ spoiled' = s /\ UNCHANGED <<slots, capacity>>
          /\ Returns(<<"erase", i, count>>, TRUE)
      BY <1>3, <2>3 DEF Erase
    <3> HIDE DEF n, end, tail, s
    <3>2. end + tail <= slots \/ tail = 0
      BY <2>1, <2>3 DEF InBlock
    <3>3. \A k \in 0..slots - 1 : i <= k /\ k < i + tail => data[k + end - i] \in Elem
      BY <1>1, <2>1, <3>2
    <3>4. data' \in [0..slots - 1 -> Elem]
      BY <1>1, <3>1, <3>3
    <3>5. size' \in Nat /\ size' <= size
      BY <1>1, <2>1, <2>3, <3>1
    <3>6. spoiled' \in BOOLEAN /\ (spoiled => spoiled')
      BY <2>1, <3>1 DEF s
    <3>7. QED
      BY <1>1, <3>1, <3>4, <3>5, <3>6, ElementsInv
  <2>4. QED
    BY <2>2, <2>3
<1>4. QED
  BY <1>2, <1>3

LEMMA ReserveInv ==
  ASSUME IInv, NEW c \in Sizes, Reserve(c)
  PROVE  IInv'
<1>1. /\ c \in Nat /\ capacity \in Nat /\ size \in Nat /\ spoiled \in BOOLEAN
      /\ exists /\ Live
  BY SizeAssumption DEF IInv, TypeOK, Reserve, Live
<1>2. CASE c <= capacity
  BY <1>2, KeepInv DEF Reserve
<1>3. CASE ~(c <= capacity) /\ slots = 0
  BY <1>1, <1>3, FreedInv DEF Reserve
<1>4. CASE ~(c <= capacity) /\ slots # 0
  <2>1. \/ ReallocNull(c) /\ Returns(<<"reserve">>, FALSE)
        \/ CanResize(c) /\ ResizeFaults(c) /\ Crash /\ spoiled' = TRUE
        \/ /\ CanResize(c) /\ ~ResizeFaults(c)
           /\ data' = Resized(c) /\ slots' = SlotsOf(c) /\ capacity' = c
           /\ UNCHANGED size /\ spoiled' = (spoiled \/ c >= SlotMod)
           /\ Returns(<<"reserve">>, TRUE)
    BY <1>4, Zenon DEF Reserve
  <2>2. CASE ReallocNull(c) /\ Returns(<<"reserve">>, FALSE)
    BY <1>1, <2>2, ReallocNullInv
  <2>3. CASE Crash /\ spoiled' = TRUE
    BY <1>1, <2>3, CrashInv
  <2>4. CASE /\ CanResize(c) /\ ~ResizeFaults(c)
             /\ data' = Resized(c) /\ slots' = SlotsOf(c) /\ capacity' = c
             /\ UNCHANGED size /\ spoiled' = (spoiled \/ c >= SlotMod)
             /\ Returns(<<"reserve">>, TRUE)
    <3>1. /\ SlotsOf(c) \in 1..HeapSlots
          /\ Resized(c) \in [0..SlotsOf(c) - 1 -> Elem]
          /\ size <= SlotsOf(c)
          /\ c < SlotMod => SlotsOf(c) = c
      BY <1>1, <1>4, <2>4, ResizedBlock
    <3>2. ~spoiled' => SlotsOf(c) = c
      <4>1. ~spoiled' => ~(c >= SlotMod)
        BY <2>4, Zenon
      <4>2. ~(c >= SlotMod) => c < SlotMod
        BY <1>1, SizeAssumption
      <4>3. QED
        BY <3>1, <4>1, <4>2
    <3>3. QED
      BY <1>1, <2>4, <3>1, <3>2, SizeAssumption
      DEF IInv, TypeOK, BlockInv, MemorySafe, Returns, Live
  <2>5. QED
    BY <2>1, <2>2, <2>3, <2>4
<1>5. QED
  BY <1>2, <1>3, <1>4

LEMMA ShrinkInv ==
  ASSUME IInv, ShrinkToFit
  PROVE  IInv'
<1>1. size \in Nat /\ slots \in 0..HeapSlots /\ spoiled \in BOOLEAN /\ exists /\ Live
  BY DEF IInv, TypeOK, ShrinkToFit, Live
<1>2. CASE size = capacity
  BY <1>2, KeepInv DEF ShrinkToFit
<1>3. CASE size # capacity /\ slots = 0
  BY <1>1, <1>3, FreedInv DEF ShrinkToFit
<1>4. CASE size # capacity /\ slots # 0
  <2>1. \/ ReallocNull(size) /\ Returns(<<"shrink_to_fit">>, TRUE)
        \/ /\ CanResize(size)
           /\ data' = [k \in 0..SlotsOf(size) - 1 |-> data[k]]
           /\ slots' = SlotsOf(size) /\ capacity' = size
           /\ UNCHANGED <<size, spoiled>> /\ Returns(<<"shrink_to_fit">>, TRUE)
    BY <1>4, Zenon DEF ShrinkToFit
  <2>2. CASE ReallocNull(size) /\ Returns(<<"shrink_to_fit">>, TRUE)
    BY <1>1, <2>2, ReallocNullInv
  <2>3. CASE /\ CanResize(size)
             /\ data' = [k \in 0..SlotsOf(size) - 1 |-> data[k]]
             /\ slots' = SlotsOf(size) /\ capacity' = size
             /\ UNCHANGED <<size, spoiled>> /\ Returns(<<"shrink_to_fit">>, TRUE)
    <3>1. size <= slots /\ size < SlotMod
      BY <1>1, <1>4, SizeAssumption DEF IInv, BlockInv
    <3>2. SlotsOf(size) = size
      BY <1>1, <3>1, ModSmall, SizeAssumption DEF SlotsOf
    <3>3. size \in 1..HeapSlots
      BY <2>3, <3>2 DEF CanResize
    <3>4. data' \in [0..size - 1 -> Elem]
      BY <1>1, <2>3, <3>1, <3>2 DEF IInv, TypeOK
    <3>5. QED
      BY <1>1, <2>3, <3>2, <3>3, <3>4, SizeAssumption
      DEF IInv, TypeOK, BlockInv, MemorySafe, Returns, Live
  <2>4. QED
    BY <2>1, <2>2, <2>3
<1>5. QED
  BY <1>2, <1>3, <1>4

LEMMA SortInv ==
  ASSUME IInv, Sort
  PROVE  IInv'
<1>1. /\ size \in Nat /\ slots \in Nat /\ data \in [0..slots - 1 -> Elem]
      /\ spoiled \in BOOLEAN /\ Live
  BY SizeAssumption DEF IInv, TypeOK, Sort
<1>2. CASE size <= 1
  BY <1>2, KeepInv DEF Sort
<1>3. CASE ~(size <= 1) /\ ~InBlock(0, size)
  <2>1. 0 + size <= size /\ Crash /\ UNCHANGED spoiled
    BY <1>1, <1>3 DEF Sort
  <2>2. QED
    BY <1>1, <1>3, <2>1, OutsideInv
<1>4. CASE ~(size <= 1) /\ InBlock(0, size)
  <2>1. PICK p \in Arrangements :
          data' = [k \in 0..slots - 1 |-> IF k < size THEN data[p[k]] ELSE data[k]]
    BY <1>4 DEF Sort
  <2>2. UNCHANGED <<slots, size, capacity, spoiled>> /\ Returns(<<"sort">>, TRUE)
    BY <1>4 DEF Sort
  <2>3. p \in [0..size - 1 -> 0..size - 1] /\ size <= slots
    BY <1>1, <1>4 DEF Arrangements, InBlock
  <2>4. \A k \in 0..slots - 1 : k < size => data[p[k]] \in Elem
    <3> SUFFICES ASSUME NEW k \in 0..slots - 1, k < size PROVE data[p[k]] \in Elem
      OBVIOUS
    <3>1. k \in 0..size - 1
      BY <1>1
    <3>2. p[k] \in 0..slots - 1
      BY <1>1, <2>3, <3>1
    <3>3. QED
      BY <1>1, <3>2
  <2>5. data' \in [0..slots - 1 -> Elem]
    BY <1>1, <2>1, <2>4
  <2>6. /\ size' \in Nat /\ size' <= size /\ UNCHANGED <<slots, capacity>>
        /\ spoiled' \in BOOLEAN /\ (spoiled => spoiled')
    BY <1>1, <2>2
  <2>7. QED
    BY <1>1, <2>2, <2>5, <2>6, ElementsInv
<1>5. QED
  BY <1>2, <1>3, <1>4

-------------------------------------------------------------------------------
(* Every operation preserves the inductive invariant. *)
LEMMA NextInv == IInv /\ [Next]_vars => IInv'
<1> SUFFICES ASSUME IInv, [Next]_vars PROVE IInv'
  OBVIOUS
<1>0. Sizes \subseteq Nat /\ size \in Nat
  BY SizeAssumption DEF IInv, TypeOK
<1>1. CASE Destroy
  BY <1>1, GoneInv DEF Destroy
<1>2. CASE DestroyWith
  BY <1>2, DestroyWithInv
<1>3. CASE Clear
  BY <1>3, ClearInv
<1>4. CASE Pop
  BY <1>4, PopInv
<1>5. CASE Peek
  <2>1. size - 1 \in Int
    BY <1>0
  <2>2. QED
    BY <1>5, <2>1, ReadInv DEF Peek
<1>6. CASE ShrinkToFit
  BY <1>6, ShrinkInv
<1>7. CASE Sort
  BY <1>7, SortInv
<1>8. ASSUME NEW c \in Sizes, Create(c) \/ Reserve(c)
      PROVE  IInv'
  BY <1>8, CreateInv, ReserveInv
<1>9. ASSUME NEW v \in Elem, Push(v)
      PROVE  IInv'
  <2>1. size <= size
    BY <1>0
  <2>2. QED
    BY <1>0, <1>9, <2>1, InsertInv DEF Push
<1>10. ASSUME NEW i \in Sizes, Get(i) \/ Take(i) \/ RemoveIndex(i)
       PROVE  IInv'
  <2>1. i \in Nat /\ i \in Int /\ NULL \in Elem
    BY <1>0 DEF Elem
  <2>2. CASE Get(i)
    BY <2>1, <2>2, ReadInv DEF Get
  <2>3. CASE Take(i)
    BY <2>1, <2>3, WriteInv DEF Take
  <2>4. CASE RemoveIndex(i)
    BY <2>1, <2>4, RemoveInv
  <2>5. QED
    BY <1>10, <2>2, <2>3, <2>4
<1>11. ASSUME NEW i \in Sizes, NEW v \in Elem, InsertAtIndex(i, v) \/ Put(i, v)
       PROVE  IInv'
  <2>1. i \in Nat
    BY <1>0
  <2>2. CASE Put(i, v)
    BY <2>1, <2>2, WriteInv DEF Put
  <2>3. CASE InsertAtIndex(i, v) /\ i > size
    BY <2>3, KeepInv DEF InsertAtIndex
  <2>4. CASE InsertAtIndex(i, v) /\ ~(i > size)
    <3>1. i <= size
      BY <1>0, <2>1, <2>4
    <3>2. Live /\ Insert(<<"insert", i, v>>, i, v)
      BY <2>4 DEF InsertAtIndex
    <3>3. QED
      BY <2>1, <3>1, <3>2, InsertInv
  <2>5. QED
    BY <1>11, <2>2, <2>3, <2>4
<1>12. ASSUME NEW i \in Sizes, NEW n \in Sizes, Erase(i, n)
       PROVE  IInv'
  BY <1>12, EraseInv
<1>13. CASE UNCHANGED vars
  BY <1>13 DEF vars, IInv, TypeOK, BlockInv, MemorySafe
<1>14. QED
  BY <1>1, <1>2, <1>3, <1>4, <1>5, <1>6, <1>7, <1>8, <1>9, <1>10, <1>11, <1>12, <1>13
  DEF Next

(* Every variable keeps its type whatever the callers of darray.c do. *)
THEOREM TypeCorrect == Spec => []TypeOK
<1>1. IInv => TypeOK
  BY DEF IInv
<1>2. QED
  BY InitInv, NextInv, <1>1, PTL DEF Spec

(* No call of darray.c leaves its block before a byte count wraps, erase   *)
(* is given a count that wraps, or an empty array is shrunk.               *)
THEOREM MemorySafety == Spec => []MemorySafe
<1>1. IInv => MemorySafe
  BY DEF IInv
<1>2. QED
  BY InitInv, NextInv, <1>1, PTL DEF Spec

(* Until then the block has exactly the capacity that the handle records.  *)
THEOREM CapacityTruthful == Spec => []BlockMatchesCapacity
<1>1. IInv => BlockMatchesCapacity
  BY DEF IInv, BlockInv, TypeOK, BlockMatchesCapacity
<1>2. QED
  BY InitInv, NextInv, <1>1, PTL DEF Spec

-------------------------------------------------------------------------------
(* Darray implements VectorSpec: every step is one of the abstract        *)
(* sequence, or leaves it alone, or spoils the array.                      *)

(* The elements of a block d that holds n of them. *)
View(d, n) == [k \in 1..n |-> d[k - 1]]

-------------------------------------------------------------------------------
(* The elements are a sequence. *)
LEMMA ViewIs ==
  ASSUME NEW n \in Nat, NEW m \in Nat, n <= m, NEW d \in [0..m - 1 -> Elem]
  PROVE  /\ View(d, n) \in Seq(Elem) /\ Len(View(d, n)) = n
         /\ \A k \in 1..n : View(d, n)[k] = d[k - 1]
<1>1. \A k \in 1..n : k - 1 \in 0..m - 1
  OBVIOUS
<1>2. View(d, n) \in [1..n -> Elem]
  BY <1>1 DEF View
<1>3. View(d, n) \in Seq(Elem)
  BY <1>2, SeqDef
<1>4. Len(View(d, n)) = n
  BY <1>2, <1>3
<1>5. QED
  BY <1>3, <1>4 DEF View

(* What the invariant says of an array that is live and not spoiled. *)
LEMMA SoundIs ==
  ASSUME IInv, exists, ~spoiled
  PROVE  /\ size \in Nat /\ slots \in Nat /\ size <= slots /\ slots = capacity
         /\ data \in [0..slots - 1 -> Elem]
         /\ View(data, size) \in Seq(Elem) /\ Len(View(data, size)) = size
         /\ \A k \in 1..size : View(data, size)[k] = data[k - 1]
<1>1. /\ size \in Nat /\ slots \in Nat /\ size <= slots /\ slots = capacity
      /\ data \in [0..slots - 1 -> Elem]
  BY SizeAssumption DEF IInv, TypeOK, BlockInv
<1>2. QED
  BY <1>1, ViewIs

(* A step that crashes leaves a spoiled array. *)
LEMMA NoCrash ==
  ASSUME IInv', ~spoiled'
  PROVE  ~Crash
BY DEF IInv, MemorySafe, Crash

(* Two sequences of the same elements are one. *)
LEMMA SameView ==
  ASSUME NEW n \in Nat, NEW m \in Nat, n <= m, NEW d \in [0..m - 1 -> Elem],
         NEW s \in Seq(Elem), Len(s) = n, \A k \in 1..n : s[k] = d[k - 1]
  PROVE  View(d, n) = s
<1>1. /\ View(d, n) \in Seq(Elem) /\ Len(View(d, n)) = n
      /\ \A k \in 1..n : View(d, n)[k] = d[k - 1]
  BY ViewIs
<1>2. \A k \in 1..n : View(d, n)[k] = s[k]
  BY <1>1
<1>3. QED
  BY <1>1, <1>2, SeqEqual

-------------------------------------------------------------------------------
(* The operations, one by one. *)

(* push and insert, once there is room: the element is in its place and    *)
(* those behind it moved up.                                               *)
LEMMA StoreRefines ==
  ASSUME IInv, IInv', exists, ~spoiled, ~spoiled', NEW op, NEW i \in Nat, i <= size,
         NEW v \in Elem, NEW n \in Nat, NEW d \in [0..n - 1 -> Elem], NEW c, NEW s,
         \A k \in 0..size - 1 : d[k] = data[k],
         StoreAt(op, i, v, d, n, c, s)
  PROVE  /\ View(data, size)' = InsertAt(View(data, size), i + 1, v)
         /\ Returns(op, TRUE)
<1> DEFINE w == View(data, size)
           a == i + 1
<1>1. /\ size \in Nat /\ w \in Seq(Elem) /\ Len(w) = size
      /\ \A k \in 1..size : w[k] = data[k - 1]
  BY SoundIs
<1>2. ~(size >= n)
  BY NoCrash DEF StoreAt
<1>3. /\ data' = [k \in 0..n - 1 |-> IF k < i \/ k > size THEN d[k]
                                     ELSE IF k = i THEN v ELSE d[k - 1]]
      /\ slots' = n /\ size' = size + 1 /\ Returns(op, TRUE)
  BY <1>2 DEF StoreAt
<1> DEFINE t == InsertAt(w, a, v)
<1> HIDE DEF w
<1>4. a \in Nat /\ 1 <= a /\ a <= Len(w) + 1
  BY <1>1
<1> HIDE DEF a
<1>5. /\ t \in Seq(Elem) /\ Len(t) = Len(w) + 1
      /\ \A k \in 1..Len(w) + 1 :
           t[k] = IF k < a THEN w[k] ELSE IF k = a THEN v ELSE w[k - 1]
  <2>1. IsInsertion(Elem, t, w, a, v)
    BY <1>1, <1>4, InsertAtIs
  <2>2. QED
    BY <2>1 DEF IsInsertion
<1> HIDE DEF t
<1>6. Len(t) = size + 1
  BY <1>1, <1>5
<1>7. \A k \in 1..size + 1 : t[k] = data'[k - 1]
  <2> SUFFICES ASSUME NEW k \in 1..size + 1 PROVE t[k] = data'[k - 1]
    OBVIOUS
  <2>1. k - 1 \in 0..n - 1
    BY <1>1, <1>2
  <2>2. data'[k - 1] = IF k - 1 < i \/ k - 1 > size THEN d[k - 1]
                       ELSE IF k - 1 = i THEN v ELSE d[k - 1 - 1]
    BY <1>3, <2>1
  <2>3. t[k] = IF k < a THEN w[k] ELSE IF k = a THEN v ELSE w[k - 1]
    BY <1>1, <1>5
  <2>4. CASE k < a
    <3>1. w[k] = data[k - 1] /\ k - 1 \in 0..size - 1 /\ k - 1 < i
      BY <1>1, <2>4 DEF a
    <3>2. QED
      BY <2>2, <2>3, <2>4, <3>1
  <2>5. CASE k = a
    BY <1>1, <2>2, <2>3, <2>5 DEF a
  <2>6. CASE ~(k < a) /\ k # a
    <3>1. /\ k - 1 \in 1..size /\ k - 1 - 1 \in 0..size - 1
          /\ ~(k - 1 < i \/ k - 1 > size) /\ k - 1 # i
      BY <1>1, <2>6 DEF a
    <3>2. w[k - 1] = data[k - 1 - 1] /\ d[k - 1 - 1] = data[k - 1 - 1]
      BY <1>1, <3>1
    <3>3. QED
      BY <2>2, <2>3, <2>6, <3>1, <3>2
  <2>7. QED
    BY <2>4, <2>5, <2>6
<1>8. View(data', size') = t
  <2>1. size' \in Nat /\ slots' \in Nat /\ size' <= slots'
    BY <1>1, <1>2, <1>3
  <2>2. data' \in [0..slots' - 1 -> Elem]
    BY DEF IInv, TypeOK
  <2>3. QED
    BY <1>3, <1>5, <1>6, <1>7, <2>1, <2>2, SameView
<1>9. QED
  BY <1>3, <1>8 DEF View, t, w, a

(* push and insert, with the growth they may need. *)
LEMMA InsertRefines ==
  ASSUME IInv, IInv', Live, ~spoiled', NEW op, NEW i \in Nat, i <= size, NEW v \in Elem,
         Insert(op, i, v)
  PROVE  Vector!InsertBefore(op, i, v)
<1> DEFINE n == Wrap(2 * capacity)
<1>1. exists /\ n \in Nat /\ capacity \in Nat /\ ~Crash
  <2>1. exists /\ capacity \in Nat /\ 2 * capacity \in Int
    BY DEF IInv, TypeOK, Live
  <2>2. n \in Nat
    BY <2>1, ModRange, SizeAssumption DEF Wrap
  <2>3. QED
    BY <2>1, <2>2, NoCrash
<1>2. \/ size < capacity /\ StoreAt(op, i, v, data, slots, capacity, spoiled)
      \/ Keep /\ Returns(op, FALSE)
      \/ ~(n < capacity) /\ ReallocNull(n) /\ Returns(op, FALSE)
      \/ ~(n < capacity) /\ CanResize(n) /\ ~ResizeFaults(n)
         /\ StoreAt(op, i, v, Resized(n), SlotsOf(n), n, spoiled \/ n >= SlotMod)
  BY <1>1, Zenon DEF Insert
<1> HIDE DEF n
<1>3. ~spoiled
  BY <1>1, <1>2 DEF StoreAt, Keep, ReallocNull, IInv, TypeOK
<1>4. /\ size \in Nat /\ slots \in Nat /\ size <= slots /\ slots = capacity
      /\ data \in [0..slots - 1 -> Elem] /\ Len(View(data, size)) = size
  BY <1>1, <1>3, SoundIs
<1>5. ASSUME View(data', size') = InsertAt(View(data, size), i + 1, v), Returns(op, TRUE)
      PROVE  Vector!InsertBefore(op, i, v)
  BY <1>1, <1>4, <1>5, Zenon
  DEF View, Returns, Vector!InsertBefore, Vector!Calls, Vector!Returns, Vector!InsertAt,
      InsertAt
<1>6. ASSUME data' = data, size' = size, Returns(op, FALSE)
      PROVE  Vector!InsertBefore(op, i, v)
  BY <1>1, <1>6, Zenon
  DEF Returns, Vector!InsertBefore, Vector!Calls, Vector!Returns
<1>7. CASE StoreAt(op, i, v, data, slots, capacity, spoiled)
  BY <1>1, <1>3, <1>4, <1>5, <1>7, StoreRefines DEF View
<1>8. CASE Keep /\ Returns(op, FALSE)
  BY <1>6, <1>8 DEF Keep
<1>9. CASE ReallocNull(n) /\ Returns(op, FALSE)
  BY <1>6, <1>9 DEF ReallocNull
<1>10. CASE /\ ~(n < capacity) /\ CanResize(n) /\ ~ResizeFaults(n)
            /\ StoreAt(op, i, v, Resized(n), SlotsOf(n), n, spoiled \/ n >= SlotMod)
  <2>1. /\ SlotsOf(n) \in 1..HeapSlots /\ SlotsOf(n) \in Nat
        /\ Resized(n) \in [0..SlotsOf(n) - 1 -> Elem] /\ size <= SlotsOf(n)
    <3>1. n >= capacity
      BY <1>1, <1>10
    <3>2. QED
      BY <1>1, <1>10, <3>1, ResizedBlock, SizeAssumption
  <2>2. \A k \in 0..size - 1 : Resized(n)[k] = data[k]
    BY <1>4, <2>1 DEF Resized
  <2>3. View(data, size)' = InsertAt(View(data, size), i + 1, v) /\ Returns(op, TRUE)
    <3> DEFINE d == Resized(n)
               m == SlotsOf(n)
               c == spoiled \/ n >= SlotMod
    <3>1. m \in Nat /\ d \in [0..m - 1 -> Elem] /\ \A k \in 0..size - 1 : d[k] = data[k]
      BY <2>1, <2>2
    <3>2. StoreAt(op, i, v, d, m, n, c)
      BY <1>10
    <3> HIDE DEF d, m, c
    <3>3. QED
      BY <1>1, <1>3, <3>1, <3>2, StoreRefines
  <2>4. QED
    BY <1>5, <2>3 DEF View
<1>11. QED
  BY <1>2, <1>7, <1>8, <1>9, <1>10

(* create: an array without elements, or none. *)
LEMMA CreateRefines ==
  ASSUME IInv, IInv', NEW c \in Sizes, Create(c)
  PROVE  Vector!Create
<1>1. ~exists /\ size = 0 /\ exists \in BOOLEAN
  BY DEF Create, IInv, TypeOK, BlockInv
<1>2. \A d : View(d, 0) = <<>>
  <2>1. 1..0 = {}
    OBVIOUS
  <2>2. QED
    BY <2>1 DEF View
<1>3. size' = 0 /\ exists' \in BOOLEAN /\ ret' = << <<"create">>, exists'>>
  BY <1>1 DEF Create, Keep, Returns
<1>4. View(data', size') = View(data, size)
  BY <1>1, <1>2, <1>3
<1>5. QED
  BY <1>1, <1>3, <1>4 DEF View, Vector!Create, Vector!Returns, Vector!Calls

(* destroy: the caller gets the elements that are not NULL, if at all. *)
LEMMA GoneRefines ==
  ASSUME IInv', Live, ~spoiled', NEW op, NEW r, Gone(op, r)
  PROVE  exists /\ Vector!Gone(op, r)
<1>1. /\ exists /\ exists' = FALSE /\ size' = 0 /\ ret' = <<op, r>>
  BY NoCrash DEF Gone, Live
<1>2. View(data', 0) = <<>>
  <2>1. 1..0 = {}
    OBVIOUS
  <2>2. QED
    BY <2>1 DEF View
<1>3. View(data', size') = <<>>
  BY <1>1, <1>2
<1>4. QED
  BY <1>1, <1>3 DEF View, Vector!Gone, Vector!Returns, Vector!Calls

LEMMA DestroyRefines ==
  ASSUME IInv', ~spoiled', Destroy \/ DestroyWith
  PROVE  Vector!Destroy
<1>1. NonNull(data, size) = Vector!NonNull(View(data, size))
  BY Zenon DEF View, NonNull, Vector!NonNull
<1>2. CASE Destroy
  BY <1>2, GoneRefines, Zenon DEF Destroy, Vector!Destroy
<1>3. CASE DestroyWith
  <2>0. PICK r : r = NonNull(data, size)
    OBVIOUS
  <2>1. Live /\ Gone(<<"destroy_with">>, r)
    BY <1>3, <2>0, NoCrash DEF DestroyWith, Gone
  <2>2. r = Vector!NonNull([k \in 1..size |-> data[k - 1]])
    BY <1>1, <2>0 DEF View
  <2>3. exists /\ Vector!Gone(<<"destroy_with">>, r)
    BY <2>1, GoneRefines, Zenon
  <2>4. exists /\ ret' = << <<"destroy_with">>, r>> /\ exists' = FALSE
        /\ View(data', size') = <<>>
    BY <2>3 DEF View, Vector!Gone, Vector!Returns
  <2>5. Vector!Returns(<<"destroy_with">>, Vector!NonNull([k \in 1..size |-> data[k - 1]]))
    BY <2>2, <2>4 DEF Vector!Returns, Vector!Calls
  <2>6. QED
    BY <2>4, <2>5, Zenon DEF View, Vector!Destroy, Vector!Gone
<1>4. QED
  BY <1>2, <1>3

LEMMA ClearRefines ==
  ASSUME IInv', ~spoiled', Clear
  PROVE  Vector!Clear
<1>1. NonNull(data, size) = Vector!NonNull(View(data, size))
  BY Zenon DEF View, NonNull, Vector!NonNull
<1>2. /\ size' = 0 /\ exists /\ exists' = exists
      /\ \/ ret' = << <<"clear">>, <<>> >>
         \/ ret' = << <<"clear_with">>, NonNull(data, size)>>
  BY NoCrash DEF Clear, Live, Emptied, Returns
<1>3. View(data', size') = <<>>
  <2>1. 1..0 = {}
    OBVIOUS
  <2>2. QED
    BY <1>2, <2>1 DEF View
<1>4. CASE ret' = << <<"clear">>, <<>> >>
  BY <1>2, <1>3, <1>4 DEF View, Vector!Clear, Vector!Returns, Vector!Calls
<1>5. CASE ret' = << <<"clear_with">>, NonNull(data, size)>>
  <2>1. Vector!Returns(<<"clear_with">>, NonNull(data, size))
    BY <1>5 DEF Vector!Returns, Vector!Calls
  <2>2. QED
    BY <1>1, <1>2, <1>3, <2>1, Zenon DEF View, Vector!Clear
<1>6. QED
  BY <1>2, <1>4, <1>5

(* pop: the last element goes, the slot that keeps it does not count. *)
LEMMA PopRefines ==
  ASSUME IInv, IInv', ~spoiled', Pop
  PROVE  Vector!Pop
<1> DEFINE w == View(data, size)
<1>1. ~spoiled /\ ~Crash /\ exists /\ exists' = exists
  BY NoCrash DEF Pop, Live, Keep, Returns
<1>2. /\ size \in Nat /\ slots \in Nat /\ size <= slots
      /\ data \in [0..slots - 1 -> Elem] /\ w \in Seq(Elem) /\ Len(w) = size
      /\ \A k \in 1..size : w[k] = data[k - 1]
  BY <1>1, SoundIs
<1> SUFFICES /\ ret' = << <<"pop">>, IF w = <<>> THEN NULL ELSE Vector!Last(w)>>
             /\ View(data', size') = IF w = <<>> THEN w ELSE Vector!Front(w)
  BY <1>1, Zenon DEF View, Vector!Pop, Vector!Returns, Vector!Calls
<1> HIDE DEF w
<1>3. CASE size = 0
  <2>1. w = <<>>
    BY <1>2, <1>3, EmptySeq
  <2>2. data' = data /\ size' = size /\ ret' = << <<"pop">>, NULL>>
    BY <1>3 DEF Pop, Keep, Returns
  <2>3. QED
    BY <2>1, <2>2 DEF w
<1>4. CASE size # 0
  <2>1. w # <<>>
    BY <1>2, <1>4, EmptySeq
  <2>2. data' = data /\ size' = size - 1 /\ ret' = << <<"pop">>, data[size - 1]>>
    BY <1>1, <1>4 DEF Pop, Returns
  <2>3. /\ Front(w) \in Seq(Elem) /\ Len(Front(w)) = Len(w) - 1
        /\ \A i \in 1..Len(w) - 1 : Front(w)[i] = w[i]
        /\ Last(w) = w[Len(w)]
    BY <1>2, <2>1, FrontIs
  <2>4. size - 1 \in Nat /\ size - 1 <= slots
    BY <1>2, <1>4
  <2>5. Len(Front(w)) = size - 1 /\ \A k \in 1..size - 1 : Front(w)[k] = data[k - 1]
    BY <1>2, <1>4, <2>3
  <2>6. View(data, size - 1) = Front(w)
    BY <1>2, <2>3, <2>4, <2>5, SameView
  <2>7. Last(w) = data[size - 1]
    BY <1>2, <1>4, <2>3
  <2>8. QED
    BY <2>1, <2>2, <2>6, <2>7 DEF Last, Front, Vector!Last, Vector!Front
<1>5. QED
  BY <1>3, <1>4

(* peek and get answer with the element of the sequence, or NULL. *)
LEMMA ReadRefines ==
  ASSUME IInv, IInv', Live, ~spoiled', NEW op, NEW i \in Int, Read(op, i)
  PROVE  /\ exists /\ UNCHANGED <<exists, data, size>>
         /\ ret' = <<op, IF i \in 0..size - 1 THEN View(data, size)[i + 1] ELSE NULL>>
         /\ size \in Nat /\ Len(View(data, size)) = size /\ View(data, size) \in Seq(Elem)
<1> DEFINE w == View(data, size)
<1>1. ~spoiled /\ ~Crash /\ exists
  BY NoCrash DEF Read, Live, Keep
<1>2. /\ size \in Nat /\ slots \in Nat /\ size <= slots /\ w \in Seq(Elem)
      /\ Len(w) = size /\ \A k \in 1..size : w[k] = data[k - 1]
  BY <1>1, SoundIs
<1> HIDE DEF w
<1>3. CASE i \notin 0..size - 1
  BY <1>1, <1>2, <1>3 DEF Read, Keep, Returns, w
<1>4. CASE i \in 0..size - 1
  <2>1. i + 1 \in 1..size /\ i + 1 - 1 = i
    BY <1>2, <1>4
  <2>2. w[i + 1] = data[i]
    BY <1>2, <2>1
  <2>3. Keep /\ Returns(op, data[i])
    BY <1>1, <1>4 DEF Read
  <2>4. QED
    BY <1>1, <1>2, <1>4, <2>2, <2>3 DEF Keep, Returns, w
<1>5. QED
  BY <1>3, <1>4

LEMMA PeekRefines ==
  ASSUME IInv, IInv', ~spoiled', Peek
  PROVE  Vector!Peek
<1> DEFINE w == View(data, size)
<1>1. Live /\ Read(<<"peek">>, size - 1) /\ size - 1 \in Int
  BY DEF Peek, IInv, TypeOK
<1>2. PICK i \in Int : i = size - 1
  BY <1>1
<1>3. Read(<<"peek">>, i)
  BY <1>1, <1>2 DEF Read, Returns
<1>4. /\ exists /\ UNCHANGED <<exists, data, size>>
      /\ ret' = << <<"peek">>, IF i \in 0..size - 1 THEN w[i + 1] ELSE NULL>>
      /\ size \in Nat /\ Len(w) = size /\ w \in Seq(Elem)
  BY <1>1, <1>3, ReadRefines
<1> HIDE DEF w
<1>5. (IF i \in 0..size - 1 THEN w[i + 1] ELSE NULL) = IF w = <<>> THEN NULL ELSE w[Len(w)]
  <2>1. CASE w = <<>>
    <3>1. size = 0
      BY <1>4, <2>1, EmptySeq
    <3>2. QED
      BY <1>2, <2>1, <3>1
  <2>2. CASE w # <<>>
    <3>1. size # 0
      BY <1>4, <2>2, EmptySeq
    <3>2. i \in 0..size - 1 /\ i + 1 = Len(w)
      BY <1>2, <1>4, <3>1
    <3>3. QED
      BY <2>2, <3>2
  <2>3. QED
    BY <2>1, <2>2
<1>6. /\ ret' = << <<"peek">>, IF w = <<>> THEN NULL ELSE Vector!Last(w)>>
      /\ View(data', size') = w
  BY <1>4, <1>5 DEF Vector!Last, w
<1>7. ret'[1] = <<"peek">>
  BY <1>6
<1>8. QED
  BY <1>4, <1>6, <1>7, Zenon
  DEF w, View, Vector!Peek, Vector!Keep, Vector!Returns, Vector!Calls

LEMMA GetRefines ==
  ASSUME IInv, IInv', ~spoiled', NEW i \in Sizes, Get(i)
  PROVE  Vector!Get(i)
<1> DEFINE w == View(data, size)
<1>1. i \in Nat /\ i \in Int
  BY SizeAssumption
<1>2. /\ exists /\ UNCHANGED <<exists, data, size>>
      /\ ret' = << <<"get", i>>, IF i \in 0..size - 1 THEN w[i + 1] ELSE NULL>>
      /\ size \in Nat /\ Len(w) = size
  BY <1>1, ReadRefines DEF Get
<1> HIDE DEF w
<1>3. i \in 0..size - 1 <=> i < Len(w)
  BY <1>1, <1>2
<1>4. /\ ret' = << <<"get", i>>, IF i < Len(w) THEN w[i + 1] ELSE NULL>>
      /\ View(data', size') = w
  BY <1>2, <1>3 DEF w
<1>5. ret'[1] = <<"get", i>>
  BY <1>4
<1>6. QED
  BY <1>2, <1>4, <1>5, Zenon
  DEF w, View, Vector!Get, Vector!Keep, Vector!Returns, Vector!Calls

(* set and take replace one element, or none when there is no such one. *)
LEMMA WriteRefines ==
  ASSUME IInv, IInv', Live, ~spoiled', NEW op, NEW i \in Nat, NEW v \in Elem,
         NEW r, NEW none, Write(op, i, v, r, none)
  PROVE  LET w == View(data, size)
         IN  /\ exists /\ UNCHANGED exists
             /\ size \in Nat /\ Len(w) = size /\ w \in Seq(Elem)
             /\ View(data', size') = IF i < Len(w) THEN [w EXCEPT ![i + 1] = v] ELSE w
             /\ ret' = <<op, IF i < Len(w) THEN r ELSE none>>
             /\ i < Len(w) => w[i + 1] = data[i]
<1> DEFINE w == View(data, size)
<1>1. ~spoiled /\ ~Crash /\ exists /\ exists' = exists
  BY NoCrash DEF Write, Live, Keep, Returns
<1>2. /\ size \in Nat /\ slots \in Nat /\ size <= slots /\ w \in Seq(Elem)
      /\ Len(w) = size /\ \A k \in 1..size : w[k] = data[k - 1]
      /\ data \in [0..slots - 1 -> Elem]
  BY <1>1, SoundIs
<1> HIDE DEF w
<1>3. CASE ~(i < Len(w))
  <2>1. Keep /\ Returns(op, none)
    BY <1>2, <1>3 DEF Write
  <2>2. QED
    BY <1>1, <1>2, <1>3, <2>1 DEF Keep, Returns, w
<1>4. CASE i < Len(w)
  <2>1. /\ data' = [data EXCEPT ![i] = v] /\ size' = size /\ ret' = <<op, r>>
        /\ i + 1 \in 1..Len(w) /\ i + 1 - 1 = i
    BY <1>1, <1>2, <1>4 DEF Write, Returns
  <2>2. w[i + 1] = data[i]
    BY <1>2, <2>1
  <2> DEFINE j == i + 1
             t == [w EXCEPT ![j] = v]
  <2>3. j \in 1..Len(w) /\ \A k \in 1..size : k = j <=> k - 1 = i
    BY <1>2, <2>1
  <2> HIDE DEF j
  <2>4. /\ t \in Seq(Elem) /\ Len(t) = Len(w)
        /\ \A k \in 1..Len(w) : t[k] = IF k = j THEN v ELSE w[k]
    BY <1>2, <2>3, ExceptSeq
  <2> HIDE DEF t
  <2>5. data' \in [0..slots - 1 -> Elem]
    BY <1>2, <2>1
  <2>6. \A k \in 1..size : k - 1 \in 0..slots - 1
    BY <1>2
  <2>7. \A k \in 1..size : t[k] = data'[k - 1]
    BY <1>2, <2>1, <2>3, <2>4, <2>6
  <2>8. View(data', size) = t
    BY <1>2, <2>4, <2>5, <2>7, SameView
  <2>9. QED
    BY <1>1, <1>2, <1>4, <2>1, <2>2, <2>8 DEF t, j, w
<1>5. QED
  BY <1>3, <1>4

LEMMA PutRefines ==
  ASSUME IInv, IInv', ~spoiled', NEW i \in Sizes, NEW v \in Elem, Put(i, v)
  PROVE  Vector!Put(i, v)
<1> DEFINE w == View(data, size)
<1>1. i \in Nat /\ Live /\ Write(<<"set", i, v>>, i, v, TRUE, FALSE)
  <2>1. i \in Nat
    BY SizeAssumption
  <2>2. QED
    BY <2>1, Zenon DEF Put
<1>2. /\ exists /\ UNCHANGED exists
      /\ View(data', size') = IF i < Len(w) THEN [w EXCEPT ![i + 1] = v] ELSE w
      /\ ret' = << <<"set", i, v>>, IF i < Len(w) THEN TRUE ELSE FALSE>>
  BY <1>1, WriteRefines
<1>3. ret' = << <<"set", i, v>>, i < Len(w)>>
  <2>1. (i < Len(w)) \in BOOLEAN
    BY <1>1
  <2>2. (IF i < Len(w) THEN TRUE ELSE FALSE) = (i < Len(w))
    BY <2>1, Zenon
  <2>3. QED
    BY <1>2, <2>2, Zenon
<1>4. ret'[1] = <<"set", i, v>>
  BY <1>2
<1>5. QED
  BY <1>2, <1>3, <1>4, Zenon DEF View, Vector!Put, Vector!Returns, Vector!Calls

LEMMA TakeRefines ==
  ASSUME IInv, IInv', ~spoiled', NEW i \in Sizes, Take(i)
  PROVE  Vector!Take(i)
<1> DEFINE w == View(data, size)
<1>1. i \in Nat /\ NULL \in Elem /\ Live
  BY SizeAssumption DEF Take, Elem
<1>2. PICK r : r = data[i]
  OBVIOUS
<1>3. Write(<<"take", i>>, i, NULL, r, NULL)
  BY <1>2 DEF Take, Write, Returns
<1>4. /\ exists /\ UNCHANGED exists
      /\ View(data', size') = IF i < Len(w) THEN [w EXCEPT ![i + 1] = NULL] ELSE w
      /\ ret' = << <<"take", i>>, IF i < Len(w) THEN r ELSE NULL>>
      /\ i < Len(w) => w[i + 1] = data[i]
  BY <1>1, <1>3, WriteRefines
<1>5. ret' = << <<"take", i>>, IF i < Len(w) THEN w[i + 1] ELSE NULL>>
  BY <1>2, <1>4
<1>6. ret'[1] = <<"take", i>>
  BY <1>4
<1>7. QED
  BY <1>4, <1>5, <1>6, Zenon DEF View, Vector!Take, Vector!Returns, Vector!Calls

(* Removal of one element is a cut. *)
LEMMA RemoveIsCut ==
  ASSUME NEW s, NEW i \in Nat
  PROVE  CutOut(s, i, i + 1) = Vector!RemoveAt(s, i + 1)
<1>1. (i + 1) - 1 = i
  OBVIOUS
<1>2. SubSeq(s, 1, (i + 1) - 1) = SubSeq(s, 1, i)
  BY <1>1
<1>3. QED
  BY <1>2 DEF CutOut, Vector!RemoveAt

(* remove closes the gap and answers with the element that went. *)
LEMMA RemoveRefines ==
  ASSUME IInv, IInv', ~spoiled', NEW i \in Sizes, RemoveIndex(i)
  PROVE  Vector!RemoveIndex(i)
<1> DEFINE w == View(data, size)
           b == i + 1
           t == CutOut(w, i, b)
<1>1. ~spoiled /\ ~Crash /\ exists /\ exists' = exists
  BY NoCrash DEF RemoveIndex, Live, Keep, Returns
<1>2. /\ size \in Nat /\ slots \in Nat /\ size <= slots /\ w \in Seq(Elem)
      /\ Len(w) = size /\ \A k \in 1..size : w[k] = data[k - 1]
      /\ data \in [0..slots - 1 -> Elem]
  BY <1>1, SoundIs
<1>3. i \in Nat /\ b \in Nat /\ i <= b
  BY SizeAssumption
<1>4. t = Vector!RemoveAt(w, i + 1)
  BY <1>3, RemoveIsCut
<1> SUFFICES /\ ret'[1] = <<"remove", i>>
             /\ ret' = << <<"remove", i>>, IF i < Len(w) THEN w[i + 1] ELSE NULL>>
             /\ View(data', size') = IF i < Len(w) THEN t ELSE w
  BY <1>1, <1>4, Zenon DEF View, Vector!RemoveIndex, Vector!Returns, Vector!Calls
<1> HIDE DEF w
<1>5. CASE ~(i < Len(w))
  <2>1. Keep /\ Returns(<<"remove", i>>, NULL)
    BY <1>2, <1>3, <1>5 DEF RemoveIndex
  <2>2. QED
    BY <1>5, <2>1 DEF Keep, Returns, w
<1>6. CASE i < Len(w)
  <2>1. /\ data' = [k \in 0..slots - 1 |->
                      IF k < i \/ k >= size THEN data[k]
                      ELSE IF k = size - 1 THEN NULL ELSE data[k + 1]]
        /\ size' = size - 1 /\ slots' = slots
        /\ ret' = << <<"remove", i>>, data[i]>>
    BY <1>1, <1>2, <1>3, <1>6 DEF RemoveIndex, Returns
  <2>2. i <= Len(w)
    BY <1>2, <1>3, <1>6
  <2> HIDE DEF b
  <2>3. IsCut(Elem, t, w, i, b)
    BY <1>2, <1>3, <2>2, CutOutIs
  <2> HIDE DEF t
  <2>4. t \in Seq(Elem) /\ Len(t) = size - 1
    BY <1>2, <1>3, <1>6, <2>3 DEF IsCut, b
  <2>5. \A k \in 1..size - 1 : t[k] = IF k <= i THEN w[k] ELSE w[k + 1]
    <3>1. \A k \in 1..size - 1 : t[k] = IF k <= i THEN w[k] ELSE w[k + (b - i)]
      BY <2>3, <2>4 DEF IsCut
    <3>2. b - i = 1
      BY <1>3 DEF b
    <3>3. QED
      BY <3>1, <3>2
  <2>6. \A k \in 1..size - 1 : t[k] = data'[k - 1]
    <3> SUFFICES ASSUME NEW k \in 1..size - 1 PROVE t[k] = data'[k - 1]
      OBVIOUS
    <3>1. /\ k - 1 \in 0..slots - 1 /\ k \in 1..size /\ k + 1 \in 1..size
          /\ ~(k - 1 >= size) /\ k - 1 # size - 1 /\ k - 1 + 1 = k /\ k + 1 - 1 = k
          /\ (k - 1 < i <=> k <= i)
      BY <1>2, <1>3
    <3>2. data'[k - 1] = IF k - 1 < i THEN data[k - 1] ELSE data[k - 1 + 1]
      BY <2>1, <3>1
    <3>3. w[k] = data[k - 1] /\ w[k + 1] = data[k + 1 - 1]
      BY <1>2, <3>1
    <3>4. QED
      BY <2>5, <3>1, <3>2, <3>3
  <2>7. View(data', size') = t
    <3>1. size' \in Nat /\ slots \in Nat /\ size' <= slots /\ size' = size - 1
      BY <1>2, <1>3, <1>6, <2>1
    <3>2. data' \in [0..slots - 1 -> Elem]
      BY <2>1 DEF IInv, TypeOK
    <3>3. QED
      BY <2>4, <2>6, <3>1, <3>2, SameView
  <2>8. w[i + 1] = data[i]
    <3>1. i + 1 \in 1..size /\ i + 1 - 1 = i
      BY <1>2, <1>3, <1>6
    <3>2. QED
      BY <1>2, <1>3, <3>1
  <2>9. QED
    BY <1>6, <2>1, <2>7, <2>8
<1>7. QED
  BY <1>5, <1>6

(* erase: as long as index + count does not wrap the elements from index   *)
(* on, at most count of them, are gone and the tail has closed up.         *)
LEMMA EraseRefines ==
  ASSUME IInv, IInv', ~spoiled', NEW i \in Sizes, NEW count \in Sizes, Erase(i, count)
  PROVE  Vector!Erase(i, count)
<1> DEFINE w == View(data, size)
           b == i + count
           t == CutOut(w, i, b)
           n == IF Wrap(i + count) > size THEN size - i ELSE count
           end == Wrap(i + n)
           tail == IF end < size THEN size - end ELSE 0
<1>1. ~Crash /\ exists /\ exists' = exists
  BY NoCrash DEF Erase, Live, Keep, Returns
<1>2. ~spoiled
  BY <1>1 DEF Erase, Keep, IInv, TypeOK
<1>3. /\ size \in Nat /\ slots \in Nat /\ size <= slots /\ w \in Seq(Elem)
      /\ Len(w) = size /\ \A k \in 1..size : w[k] = data[k - 1]
      /\ data \in [0..slots - 1 -> Elem]
  BY <1>1, <1>2, SoundIs
<1>4. /\ i \in Nat /\ count \in Nat /\ b \in Nat /\ i <= b /\ SizeMod \in Nat
      /\ slots < SizeMod
  BY SizeAssumption DEF IInv, TypeOK
<1>5. t = SubSeq(w, 1, i) \o SubSeq(w, i + count + 1, Len(w))
  BY DEF CutOut
<1> SUFFICES /\ ret'[1] = <<"erase", i, count>>
             /\ ret' = << <<"erase", i, count>>, i < Len(w)>>
             /\ View(data', size') = IF i < Len(w) THEN t ELSE w
  BY <1>1, <1>5, Zenon DEF View, Vector!Erase, Vector!Returns, Vector!Calls
<1> HIDE DEF w
<1>6. CASE ~(i < Len(w))
  <2>1. Keep /\ Returns(<<"erase", i, count>>, FALSE)
    <3>1. i >= size
      BY <1>3, <1>4, <1>6
    <3>2. QED
      BY <3>1, Zenon DEF Erase
  <2>2. (i < Len(w)) = FALSE
    BY <1>3, <1>4, <1>6
  <2>3. QED
    BY <1>6, <2>1, <2>2 DEF Keep, Returns, w
<1>7. CASE i < Len(w)
  <2>1. /\ data' = [k \in 0..slots - 1 |->
                      IF size - n <= k /\ k < size THEN NULL
                      ELSE IF i <= k /\ k < i + tail THEN data[k + end - i]
                      ELSE data[k]]
        /\ size' = size - n /\ slots' = slots
        /\ spoiled' = (spoiled \/ i + count >= SizeMod)
        /\ ret' = << <<"erase", i, count>>, TRUE>>
    <3>1. ~(i >= size)
      BY <1>3, <1>4, <1>7
    <3>2. QED
      BY <1>1, <3>1, Zenon DEF Erase, Returns
  <2>2. b < SizeMod
    <3>1. ~(i + count >= SizeMod)
      BY <2>1, Zenon
    <3>2. QED
      BY <1>4, <3>1
  <2>3. Wrap(i + count) = b
    BY <1>4, <2>2, ModSmall DEF Wrap
  <2>4. n \in Nat /\ i + n <= size /\ (b > size => n = size - i) /\ (b <= size => n = count)
    BY <1>3, <1>4, <1>7, <2>3
  <2>5. end = i + n
    <3> HIDE DEF n
    <3>1. i + n \in Nat /\ i + n < SizeMod
      BY <1>3, <1>4, <2>4
    <3>2. QED
      BY <1>4, <3>1, ModSmall DEF Wrap
  <2> HIDE DEF n, end
  <2>6. tail = size - (i + n)
    BY <1>3, <1>4, <2>4, <2>5
  <2> HIDE DEF tail, b
  <2>7. i <= Len(w)
    BY <1>3, <1>4, <1>7
  <2>8. IsCut(Elem, t, w, i, b)
    BY <1>3, <1>4, <2>7, CutOutIs
  <2> HIDE DEF t
  <2>9. t \in Seq(Elem) /\ Len(t) = size - n
    <3>1. t \in Seq(Elem) /\ Len(t) = IF b <= size THEN size - (b - i) ELSE i
      BY <1>3, <2>8 DEF IsCut
    <3>2. QED
      BY <1>3, <1>4, <2>4, <3>1 DEF b
  <2>10. \A k \in 1..size - n : t[k] = data'[k - 1]
    <3> SUFFICES ASSUME NEW k \in 1..size - n PROVE t[k] = data'[k - 1]
      OBVIOUS
    <3>1. /\ k - 1 \in 0..slots - 1 /\ k \in 1..size /\ ~(size - n <= k - 1)
          /\ (i <= k - 1 /\ k - 1 < i + tail <=> ~(k <= i))
      BY <1>3, <1>4, <2>4, <2>6
    <3>2. data'[k - 1] = IF ~(k <= i) THEN data[k - 1 + end - i] ELSE data[k - 1]
      BY <2>1, <3>1
    <3>3. t[k] = IF k <= i THEN w[k] ELSE w[k + (b - i)]
      BY <2>8, <2>9 DEF IsCut
    <3>4. CASE k <= i
      BY <1>3, <3>1, <3>2, <3>3, <3>4
    <3>5. CASE ~(k <= i)
      <4>1. b <= size
        BY <1>3, <1>4, <2>4, <3>5
      <4>2. /\ k + (b - i) \in 1..size /\ k - 1 + end - i = k + (b - i) - 1
        BY <1>3, <1>4, <2>4, <2>5, <4>1 DEF b
      <4>3. w[k + (b - i)] = data[k + (b - i) - 1]
        BY <1>3, <1>4, <4>2
      <4>4. QED
        BY <3>2, <3>3, <3>5, <4>2, <4>3
    <3>6. QED
      BY <3>4, <3>5
  <2>11. View(data', size') = t
    <3>1. size' \in Nat /\ size' <= slots /\ size' = size - n
      BY <1>3, <1>4, <2>1, <2>4
    <3>2. data' \in [0..slots - 1 -> Elem]
      BY <2>1 DEF IInv, TypeOK
    <3>3. QED
      BY <1>3, <2>9, <2>10, <3>1, <3>2, SameView
  <2>12. (i < Len(w)) = TRUE
    BY <1>3, <1>4, <1>7
  <2>13. QED
    BY <1>7, <2>1, <2>11, <2>12
<1>8. QED
  BY <1>6, <1>7

(* reserve and shrink_to_fit change the block and not what it holds. *)
LEMMA ReserveRefines ==
  ASSUME IInv, IInv', ~spoiled', NEW c \in Sizes, Reserve(c)
  PROVE  Vector!Resize
<1>1. c \in Nat /\ ~Crash /\ exists /\ capacity \in Nat /\ Live
  <2>1. c \in Nat
    BY SizeAssumption
  <2>2. exists /\ capacity \in Nat /\ Live
    BY Zenon DEF Reserve, Live, IInv, TypeOK
  <2>3. QED
    BY <2>1, <2>2, NoCrash
<1>2. \/ Keep /\ Returns(<<"reserve">>, TRUE)
      \/ ReallocNull(c) /\ Returns(<<"reserve">>, FALSE)
      \/ /\ ~(c <= capacity) /\ CanResize(c) /\ ~ResizeFaults(c)
         /\ data' = Resized(c) /\ UNCHANGED size
         /\ spoiled' = (spoiled \/ c >= SlotMod)
         /\ Returns(<<"reserve">>, TRUE)
  BY <1>1, Zenon DEF Reserve
<1>3. ~spoiled
  BY <1>2 DEF Keep, ReallocNull, IInv, TypeOK
<1>4. /\ size \in Nat /\ slots \in Nat /\ size <= slots /\ slots = capacity
      /\ data \in [0..slots - 1 -> Elem]
  BY <1>1, <1>3, SoundIs
<1>5. View(data', size') = View(data, size)
  <2>1. CASE data' = data /\ size' = size
    BY <2>1
  <2>2. CASE /\ ~(c <= capacity) /\ CanResize(c) /\ ~ResizeFaults(c)
             /\ data' = Resized(c) /\ UNCHANGED size
    <3>1. SlotsOf(c) \in 1..HeapSlots /\ size <= SlotsOf(c) /\ SlotsOf(c) \in Nat
      <4>1. c >= capacity
        BY <1>1, <2>2
      <4>2. QED
        BY <1>1, <2>2, <4>1, ResizedBlock, SizeAssumption
    <3>2. \A k \in 1..size : data'[k - 1] = data[k - 1]
      <4> SUFFICES ASSUME NEW k \in 1..size PROVE data'[k - 1] = data[k - 1]
        OBVIOUS
      <4>1. k - 1 \in 0..SlotsOf(c) - 1 /\ k - 1 < capacity
        BY <1>4, <3>1
      <4>2. QED
        BY <2>2, <4>1 DEF Resized
    <3>3. QED
      BY <2>2, <3>2 DEF View
  <2>3. QED
    BY <1>2, <1>3, <2>1, <2>2 DEF Keep, ReallocNull
<1>6. exists' = exists /\ \E ok \in BOOLEAN : ret' = << <<"reserve">>, ok>>
  BY <1>2 DEF Returns
<1>7. PICK ok \in BOOLEAN : ret' = << <<"reserve">>, ok>>
  BY <1>6
<1>8. Vector!Returns(<<"reserve">>, ok)
  BY <1>7 DEF Vector!Returns, Vector!Calls
<1>9. QED
  BY <1>1, <1>5, <1>6, <1>8, Zenon DEF View, Vector!Resize, Vector!Keep

LEMMA ShrinkRefines ==
  ASSUME IInv, IInv', ~spoiled', ShrinkToFit
  PROVE  Vector!Resize
<1>1. ~Crash /\ exists /\ capacity \in Nat /\ Live
  BY NoCrash DEF ShrinkToFit, Live, IInv, TypeOK
<1>2. /\ Returns(<<"shrink_to_fit">>, TRUE)
      /\ \/ Keep
         \/ ReallocNull(size)
         \/ /\ CanResize(size)
            /\ data' = [k \in 0..SlotsOf(size) - 1 |-> data[k]]
            /\ UNCHANGED <<size, spoiled>>
  BY <1>1, Zenon DEF ShrinkToFit
<1>3. ~spoiled
  BY <1>2 DEF Keep, ReallocNull, IInv, TypeOK
<1>4. /\ size \in Nat /\ slots \in Nat /\ size <= slots /\ slots = capacity
      /\ data \in [0..slots - 1 -> Elem]
  BY <1>1, <1>3, SoundIs
<1>5. View(data', size') = View(data, size)
  <2>1. CASE data' = data /\ size' = size
    BY <2>1
  <2>2. CASE /\ data' = [k \in 0..SlotsOf(size) - 1 |-> data[k]]
             /\ UNCHANGED <<size, spoiled>>
    <3>1. SlotsOf(size) = size
      <4>1. slots < SlotMod
        BY <1>4, SizeAssumption DEF IInv, TypeOK
      <4>2. QED
        BY <1>4, <4>1, ModSmall, SizeAssumption DEF SlotsOf
    <3>2. \A k \in 1..size : data'[k - 1] = data[k - 1]
      BY <1>4, <2>2, <3>1
    <3>3. QED
      BY <2>2, <3>2 DEF View
  <2>3. QED
    BY <1>2, <1>3, <2>1, <2>2 DEF Keep, ReallocNull
<1>6. exists' = exists /\ Vector!Returns(<<"shrink_to_fit">>, TRUE)
  BY <1>2 DEF Returns, Vector!Returns, Vector!Calls
<1>7. QED
  BY <1>1, <1>5, <1>6, Zenon DEF View, Vector!Resize, Vector!Keep

(* VectorSpec's bags are the library's. *)
LEMMA SameBag ==
  ASSUME NEW s
  PROVE  Vector!ToBag(s) = ToBag(s)
BY DEF ToBag, Vector!ToBag, Range, Vector!Range, Cardinality, Vector!Cardinality

(* sort: the same elements, each as often, in the order of the comparator. *)
LEMMA SortRefines ==
  ASSUME IInv, IInv', ~spoiled', Sort
  PROVE  Vector!Sort
<1> DEFINE w == View(data, size)
           u == View(data', size')
<1>1. ~Crash /\ exists /\ Live
  BY NoCrash DEF Sort, Live
<1>2. /\ spoiled' = spoiled /\ size' = size /\ slots' = slots /\ exists' = exists
      /\ ret' = << <<"sort">>, TRUE>>
  BY <1>1 DEF Sort, Keep, Returns
<1>3. /\ size \in Nat /\ slots \in Nat /\ size <= slots
      /\ data \in [0..slots - 1 -> Elem] /\ w \in Seq(Elem) /\ Len(w) = size
      /\ \A k \in 1..size : w[k] = data[k - 1]
  BY <1>1, <1>2, SoundIs
<1>4. /\ u \in Seq(Elem) /\ Len(u) = size /\ \A k \in 1..size : u[k] = data'[k - 1]
  <2>1. data' \in [0..slots - 1 -> Elem]
    BY <1>2 DEF IInv, TypeOK
  <2>2. QED
    BY <1>2, <1>3, <2>1, ViewIs
<1> SUFFICES /\ ToBag(u) = ToBag(w)
             /\ \A i, j \in 1..Len(u) : i < j => Rank[u[i]] <= Rank[u[j]]
  <2>1. ret'[1] = <<"sort">>
    BY <1>2
  <2>2. Vector!ToBag(u) = Vector!ToBag(w)
    BY SameBag
  <2>3. QED
    BY <1>1, <1>2, <2>1, <2>2, Zenon
    DEF View, Vector!Sort, Vector!Returns, Vector!Calls, Vector!IsSorted
<1> HIDE DEF w, u
<1>5. CASE size <= 1
  <2>1. u = w
    BY <1>2, <1>5 DEF Sort, Keep, u, w
  <2>2. \A i, j \in 1..Len(u) : ~(i < j)
    BY <1>3, <1>4, <1>5
  <2>3. QED
    BY <2>1, <2>2
<1>6. CASE ~(size <= 1)
  <2>1. PICK p \in Arrangements :
          data' = [k \in 0..slots - 1 |-> IF k < size THEN data[p[k]] ELSE data[k]]
    BY <1>1, <1>6 DEF Sort
  <2>2. /\ p \in [0..size - 1 -> 0..size - 1]
        /\ \A i, j \in 0..size - 1 : i # j => p[i] # p[j]
        /\ \A i, j \in 0..size - 1 : i < j => Rank[data[p[i]]] <= Rank[data[p[j]]]
    BY DEF Arrangements
  <2>3. \A k \in 1..size : k - 1 \in 0..size - 1 /\ k - 1 \in 0..slots - 1 /\ k - 1 < size
    BY <1>3
  <2>4. \A k \in 1..size : u[k] = data[p[k - 1]]
    BY <1>4, <2>1, <2>3
  <2>5. ToBag(u) = ToBag(w)
    <3> DEFINE q == [k \in 1..size |-> p[k - 1] + 1]
    <3>1. \A k \in 1..size : p[k - 1] \in 0..size - 1
      BY <2>2, <2>3
    <3>2. \A k \in 1..size : p[k - 1] + 1 \in 1..size /\ (p[k - 1] + 1) - 1 = p[k - 1]
      BY <1>3, <3>1
    <3>3. q \in [1..Len(w) -> 1..Len(w)]
      BY <1>3, <3>2
    <3>4. \A i, j \in 1..Len(w) : i # j => q[i] # q[j]
      <4> SUFFICES ASSUME NEW i \in 1..size, NEW j \in 1..size, i # j
                   PROVE  q[i] # q[j]
        BY <1>3
      <4>1. i - 1 # j - 1
        BY <1>3
      <4>2. p[i - 1] # p[j - 1]
        BY <2>2, <2>3, <4>1
      <4>3. QED
        BY <3>1, <4>2
    <3>5. \A k \in 1..Len(w) : u[k] = w[q[k]]
      <4> SUFFICES ASSUME NEW k \in 1..size PROVE u[k] = w[q[k]]
        BY <1>3
      <4>1. q[k] \in 1..size /\ q[k] - 1 = p[k - 1]
        BY <3>2
      <4>2. w[q[k]] = data[q[k] - 1]
        BY <1>3, <4>1
      <4>3. QED
        BY <2>4, <4>1, <4>2
    <3> HIDE DEF q
    <3>6. Len(u) = Len(w)
      BY <1>3, <1>4
    <3>7. QED
      BY <1>3, <1>4, <3>3, <3>4, <3>5, <3>6, RearrangedBag, Zenon
  <2>6. \A i, j \in 1..Len(u) : i < j => Rank[u[i]] <= Rank[u[j]]
    <3> SUFFICES ASSUME NEW i \in 1..size, NEW j \in 1..size, i < j
                 PROVE  Rank[u[i]] <= Rank[u[j]]
      BY <1>4
    <3>1. i - 1 < j - 1
      BY <1>3
    <3>2. QED
      BY <2>2, <2>3, <2>4, <3>1
  <2>7. QED
    BY <2>5, <2>6
<1>7. QED
  BY <1>5, <1>6

-------------------------------------------------------------------------------
(* A step of the array that does not spoil it is one of the sequence, or   *)
(* changes nothing that is seen of it.                                     *)
LEMMA StepRefines ==
  ASSUME IInv, IInv', [Next]_vars
  PROVE  spoiled' \/ Vector!Next \/ UNCHANGED <<exists, data, slots, size, ret>>
<1> SUFFICES ASSUME ~spoiled', Next PROVE Vector!Next
  BY DEF vars
<1>0. Sizes \subseteq Nat /\ Vector!Elem = Elem
  BY SizeAssumption DEF Elem, Vector!Elem
<1>1. CASE Destroy \/ DestroyWith
  BY <1>1, DestroyRefines, Zenon DEF Vector!Next
<1>2. CASE Clear
  BY <1>2, ClearRefines, Zenon DEF Vector!Next
<1>3. CASE Pop
  BY <1>3, PopRefines, Zenon DEF Vector!Next
<1>4. CASE Peek
  BY <1>4, PeekRefines, Zenon DEF Vector!Next
<1>5. CASE ShrinkToFit
  BY <1>5, ShrinkRefines, Zenon DEF Vector!Next
<1>6. CASE Sort
  BY <1>6, SortRefines, Zenon DEF Vector!Next
<1>7. ASSUME NEW c \in Sizes, Create(c) \/ Reserve(c)
      PROVE  Vector!Next
  BY <1>7, CreateRefines, ReserveRefines, Zenon DEF Vector!Next
<1>8. ASSUME NEW v \in Elem, Push(v)
      PROVE  Vector!Next
  <2>1. PICK i \in Nat : i = size
    BY DEF IInv, TypeOK
  <2>2. Live /\ Insert(<<"push", v>>, i, v) /\ i <= size
    <3>1. i <= size
      BY <2>1
    <3>2. QED
      BY <1>8, <2>1, <3>1, Zenon DEF Push, Insert, StoreAt
  <2>3. Vector!InsertBefore(<<"push", v>>, i, v)
    BY <2>2, InsertRefines
  <2>4. Live /\ exists /\ ~spoiled
    <3>1. spoiled => spoiled'
      BY <1>8, SizeAssumption DEF Push, Insert, StoreAt, Keep, ReallocNull, IInv, TypeOK
    <3>2. QED
      BY <2>2, <3>1 DEF Live
  <2>5. i = Len([k \in 1..size |-> data[k - 1]])
    BY <2>1, <2>4, SoundIs DEF View
  <2>6. Vector!InsertBefore(<<"push", v>>, Len([k \in 1..size |-> data[k - 1]]), v)
    BY <2>3, <2>5, Zenon DEF Vector!InsertBefore
  <2>7. QED
    BY <1>0, <2>6, Zenon DEF Vector!Next
<1>9. ASSUME NEW i \in Sizes, Get(i) \/ Take(i) \/ RemoveIndex(i)
      PROVE  Vector!Next
  BY <1>9, GetRefines, TakeRefines, RemoveRefines, Zenon DEF Vector!Next
<1>10. ASSUME NEW i \in Sizes, NEW v \in Elem, Put(i, v)
       PROVE  Vector!Next
  BY <1>0, <1>10, PutRefines, Zenon DEF Vector!Next
<1>11. ASSUME NEW i \in Sizes, NEW v \in Elem, InsertAtIndex(i, v)
       PROVE  Vector!Next
  <2>1. Vector!InsertBefore(<<"insert", i, v>>, i, v)
    <3>1. CASE i > size
      <4>1. /\ exists /\ exists' = exists /\ data' = data /\ size' = size
            /\ ret' = << <<"insert", i, v>>, FALSE>>
        BY <1>11, <3>1 DEF InsertAtIndex, Keep, Returns, Live
      <4>2. ret'[1] = <<"insert", i, v>>
        BY <4>1
      <4>3. QED
        BY <4>1, <4>2, Zenon DEF Vector!InsertBefore, Vector!Returns, Vector!Calls
    <3>2. CASE ~(i > size)
      <4>1. i \in Nat /\ i <= size /\ Live /\ Insert(<<"insert", i, v>>, i, v)
        BY <1>0, <1>11, <3>2 DEF InsertAtIndex, IInv, TypeOK
      <4>2. QED
        BY <4>1, InsertRefines
    <3>3. QED
      BY <3>1, <3>2
  <2>2. QED
    BY <1>0, <2>1, Zenon DEF Vector!Next
<1>12. ASSUME NEW i \in Sizes, NEW n \in Sizes, Erase(i, n)
       PROVE  Vector!Next
  BY <1>12, EraseRefines, Zenon DEF Vector!Next
<1>13. QED
  BY <1>1, <1>2, <1>3, <1>4, <1>5, <1>6, <1>7, <1>8, <1>9, <1>10, <1>11, <1>12, Zenon
  DEF Next

(* darray.c keeps the promise of darray.h, that the array is a sequence,   *)
(* until a count wraps or an empty array is shrunk: for every heap, width  *)
(* of size_t and comparator, with realloc failing whenever it likes.       *)
THEOREM ImplementsVector == Spec => RefinesVector
<1>1. Init => Vector!Init
  <2>1. 1..0 = {}
    OBVIOUS
  <2>2. QED
    BY <2>1 DEF Init, Vector!Init
<1>2. IInv /\ IInv' /\ [Next]_vars
        => [spoiled' \/ Vector!Next]_<<exists, data, slots, size, ret>>
  BY StepRefines
<1>3. QED
  BY InitInv, NextInv, <1>1, <1>2, PTL DEF Spec, RefinesVector
===============================================================================
