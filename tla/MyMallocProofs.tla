----------------------------- MODULE MyMallocProofs -----------------------------
(***************************************************************************)
(* The heap of MyMalloc for any number of threads, any size of the header  *)
(* and of size_t, whatever other code does with the program break.         *)
(***************************************************************************)
EXTENDS MyMalloc, SequenceLemmas

(* The byte behind the header, which callers know the block by. *)
BlockOf(h) == h.addr + H

(* A header that is not free has a caller or a thread that frees it, these *)
(* are never two, and the caller uses no more bytes than the block has.    *)
HeadersOwned ==
  /\ \A b \in live : \E i \in DOMAIN list :
       BlockOf(list[i]) = b.addr /\ ~list[i].free /\ b.size <= Payload(list[i])
  /\ \A t \in Threads : freeing[t] # NULL =>
       \E i \in DOMAIN list : BlockOf(list[i]) = freeing[t] /\ ~list[i].free
  /\ \A i \in DOMAIN list : ~list[i].free =>
       \/ \E b \in live : b.addr = BlockOf(list[i])
       \/ \E t \in Threads : freeing[t] = BlockOf(list[i])
  /\ \A b, c \in live : b.addr = c.addr => b = c
  /\ \A t, u \in Threads : freeing[t] # NULL /\ freeing[t] = freeing[u] => t = u
  /\ \A b \in live, t \in Threads : freeing[t] # b.addr

(* my_free takes a block for the last one when the break it read is a      *)
(* header behind the block's end.  From then on nothing is put in between, *)
(* and the break does not move below what it read.                         *)
NothingBetween ==
  \A t \in Threads, i \in DOMAIN list :
    freeing[t] = BlockOf(list[i]) /\ freeing[t] + list[i].size = seen[t] =>
      /\ seen[t] <= brk
      /\ \A j \in DOMAIN list : i < j => seen[t] <= list[j].addr

(* The inductive invariant. *)
IInv ==
  /\ TypeOK /\ HeapLaidOut
  /\ undefined = "no" => HeadersOwned /\ NothingBetween

-------------------------------------------------------------------------------
(* Every header, one by one. *)
LEMMA HeaderType ==
  ASSUME TypeOK
  PROVE  /\ H \in Nat /\ H > 0 /\ brk \in Nat
         /\ \A i \in DOMAIN list :
              /\ i \in Nat /\ list[i] \in Header
              /\ list[i].addr \in Nat /\ list[i].size \in Nat /\ list[i].free \in BOOLEAN
<1>1. list \in Seq(Header) /\ H \in Nat /\ H > 0 /\ brk \in Nat
  BY MallocAssumption DEF TypeOK
<1>2. DOMAIN list = 1..Len(list) /\ Len(list) \in Nat
  BY <1>1, LenProperties
<1>3. ASSUME NEW i \in DOMAIN list
      PROVE  i \in Nat /\ list[i] \in Header
  BY <1>1, <1>2, ElementOfSeq
<1>4. \A h \in Header : h.addr \in Nat /\ h.size \in Nat /\ h.free \in BOOLEAN
  BY DEF Header
<1>5. QED
  BY <1>1, <1>3, <1>4

(* The two searches along the list. *)
LEMMA IndexOfIs ==
  ASSUME TypeOK, NEW a \in Nat
  PROVE  /\ IndexOf(a) = 0 => \A i \in DOMAIN list : BlockOf(list[i]) # a
         /\ IndexOf(a) # 0 => IndexOf(a) \in DOMAIN list /\ BlockOf(list[IndexOf(a)]) = a
<1> DEFINE I == {i \in 1..Len(list) : list[i].addr = a - H}
<1>1. IndexOf(a) = IF I # {} THEN Min(I) ELSE 0
  BY Zenon DEF IndexOf, SelectInSeq
<1>2. I \in SUBSET Nat /\ list \in Seq(Header) /\ H \in Nat
  BY MallocAssumption DEF TypeOK
<1> HIDE DEF I
<1>3. I # {} => Min(I) \in I
  BY <1>2, MinIsLeast
<1>4. \A i \in I : i \in DOMAIN list /\ i # 0 /\ list[i].addr = a - H
  BY <1>2 DEF I
<1>5. \A i \in DOMAIN list : list[i].addr \in Nat
  BY HeaderType
<1>6. \A i \in DOMAIN list : BlockOf(list[i]) = a => i \in I
  BY <1>2, <1>5 DEF I, BlockOf
<1>7. \A i \in I : BlockOf(list[i]) = a
  BY <1>2, <1>4, <1>5 DEF BlockOf
<1>8. QED
  BY <1>1, <1>3, <1>4, <1>6, <1>7

LEMMA FreeBlockIs ==
  ASSUME TypeOK, NEW n \in Nat
  PROVE  FreeBlock(n) > 0 =>
           FreeBlock(n) \in DOMAIN list /\ list[FreeBlock(n)].free /\ list[FreeBlock(n)].size >= n
<1> DEFINE I == {i \in 1..Len(list) : list[i].free /\ list[i].size >= n}
<1>1. FreeBlock(n) = IF I # {} THEN Min(I) ELSE 0
  BY Zenon DEF FreeBlock, SelectInSeq
<1>2. I \in SUBSET Nat /\ list \in Seq(Header)
  BY DEF TypeOK
<1> HIDE DEF I
<1>3. I # {} => Min(I) \in I
  BY <1>2, MinIsLeast
<1>4. \A i \in I : i \in DOMAIN list /\ i # 0 /\ list[i].free /\ list[i].size >= n
  BY <1>2 DEF I
<1>5. QED
  BY <1>1, <1>3, <1>4

(* Headers at different places do not share a block. *)
LEMMA BlocksDiffer ==
  ASSUME TypeOK, HeapLaidOut, undefined = "no",
         NEW i \in DOMAIN list, NEW j \in DOMAIN list, BlockOf(list[i]) = BlockOf(list[j])
  PROVE  i = j
BY HeaderType DEF HeapLaidOut, BlockOf, End

LEMMA InitInv == Init => IInv
<1> SUFFICES ASSUME Init PROVE IInv
  OBVIOUS
<1>1. DOMAIN list = {} /\ list \in Seq(Header)
  BY DEF Init
<1>2. TypeOK
  BY <1>1, MallocAssumption DEF Init, TypeOK
<1>3. QED
  BY <1>1, <1>2 DEF Init, IInv, HeapLaidOut, HeadersOwned, NothingBetween
-------------------------------------------------------------------------------
(* The three ways in which the list changes. *)
LEMMA FlagIs ==
  ASSUME TypeOK, NEW i \in DOMAIN list, NEW f \in BOOLEAN,
         list' = [list EXCEPT ![i].free = f]
  PROVE  /\ list' \in Seq(Header) /\ DOMAIN list' = DOMAIN list
         /\ \A j \in DOMAIN list :
              /\ list'[j].addr = list[j].addr /\ list'[j].size = list[j].size
              /\ list'[j].free = IF j = i THEN f ELSE list[j].free
<1>1. list \in Seq(Header) /\ i \in 1..Len(list) /\ DOMAIN list = 1..Len(list)
      /\ list[i] \in Header
  BY HeaderType, LenProperties DEF TypeOK
<1> DEFINE h == [list[i] EXCEPT !.free = f]
<1>2. h \in Header /\ h.addr = list[i].addr /\ h.size = list[i].size /\ h.free = f
  BY <1>1 DEF Header
<1>3. list' = [list EXCEPT ![i] = h]
  OBVIOUS
<1> HIDE DEF h
<1>4. /\ list' \in Seq(Header) /\ Len(list') = Len(list)
      /\ \A j \in 1..Len(list) : list'[j] = IF j = i THEN h ELSE list[j]
  BY <1>1, <1>2, <1>3, ExceptSeq
<1>5. DOMAIN list' = 1..Len(list')
  BY <1>4, LenProperties
<1>6. QED
  BY <1>1, <1>2, <1>4, <1>5

LEMMA AppendIs ==
  ASSUME TypeOK, NEW h \in Header, list' = Append(list, h)
  PROVE  \E n \in Nat :
           /\ list' \in Seq(Header)
           /\ DOMAIN list = 1..n /\ DOMAIN list' = 1..n + 1
           /\ \A i \in 1..n : list'[i] = list[i]
           /\ list'[n + 1] = h
<1>1. list \in Seq(Header) /\ Len(list) \in Nat /\ DOMAIN list = 1..Len(list)
  BY LenProperties DEF TypeOK
<1>2. /\ list' \in Seq(Header) /\ Len(list') = Len(list) + 1
      /\ \A i \in 1..Len(list) : list'[i] = list[i]
      /\ list'[Len(list) + 1] = h
  BY <1>1, AppendProperties
<1>3. DOMAIN list' = 1..Len(list) + 1
  BY <1>2, LenProperties
<1>4. QED
  BY <1>1, <1>2, <1>3

LEMMA CutIs ==
  ASSUME TypeOK, DOMAIN list # {}, list' = Front(list)
  PROVE  \E n \in Nat \ {0} :
           /\ list' \in Seq(Header)
           /\ DOMAIN list = 1..n /\ DOMAIN list' = 1..n - 1
           /\ \A i \in 1..n - 1 : list'[i] = list[i]
           /\ Last(list) = list[n]
<1>1. list \in Seq(Header) /\ DOMAIN list = 1..Len(list)
  BY LenProperties DEF TypeOK
<1>2. list # <<>>
  BY <1>1
<1>3. /\ list' \in Seq(Header) /\ Len(list) \in Nat \ {0} /\ Len(list') = Len(list) - 1
      /\ \A i \in 1..Len(list) - 1 : list'[i] = list[i]
      /\ Last(list) = list[Len(list)]
  BY <1>1, <1>2, FrontIs
<1>4. DOMAIN list' = 1..Len(list) - 1
  BY <1>3, LenProperties
<1>5. QED
  BY <1>1, <1>3, <1>4

-------------------------------------------------------------------------------
(* my_malloc that takes a free block.  Its header had no owner. *)
LEMMA ReuseInv ==
  ASSUME IInv, undefined = "no", NEW n \in Sizes, NEW i \in DOMAIN list, list[i].free,
         Reuse(i, n), UNCHANGED <<freeing, seen, libc>>
  PROVE  IInv'
<1> DEFINE b == [addr |-> list[i].addr + H, size |-> n]
<1>1. /\ TypeOK /\ HeapLaidOut /\ HeadersOwned /\ NothingBetween
      /\ n \in Nat
  BY MallocAssumption DEF IInv
<1>2. /\ H \in Nat /\ brk \in Nat
      /\ \A j \in DOMAIN list : list[j].addr \in Nat /\ list[j].size \in Nat
  BY <1>1, HeaderType
<1>3. /\ list' = [list EXCEPT ![i].free = FALSE] /\ live' = live \cup {b} /\ brk' = brk
      /\ undefined' = IF n > Payload(list[i]) THEN "overlap" ELSE "no"
      /\ freeing' = freeing /\ seen' = seen /\ libc' = libc
  BY DEF Reuse
<1>4. /\ list' \in Seq(Header) /\ DOMAIN list' = DOMAIN list
      /\ \A j \in DOMAIN list :
           /\ list'[j].addr = list[j].addr /\ list'[j].size = list[j].size
           /\ list'[j].free = IF j = i THEN FALSE ELSE list[j].free
  BY <1>1, <1>3, FlagIs
<1>5. b \in Block /\ b.addr = BlockOf(list[i]) /\ b.size = n
  BY <1>1, <1>2 DEF Block, BlockOf
<1> HIDE DEF b
<1>6. TypeOK'
  BY <1>1, <1>3, <1>4, <1>5 DEF TypeOK
<1>7. HeapLaidOut'
  BY <1>1, <1>3, <1>4 DEF HeapLaidOut, End
<1>8. NothingBetween'
  BY <1>1, <1>3, <1>4 DEF NothingBetween, BlockOf
<1>9. ASSUME undefined' = "no" PROVE HeadersOwned'
  <2>1. b.size <= Payload(list[i])
    BY <1>1, <1>2, <1>3, <1>5, <1>9 DEF Payload
  <2>2. \A j \in DOMAIN list : BlockOf(list[j]) = b.addr => j = i
    BY <1>1, <1>5, BlocksDiffer
  <2>3. (\A c \in live : c.addr # b.addr) /\ (\A t \in Threads : freeing[t] # b.addr)
    <3>1. b.addr # NULL
      BY <1>5, MallocAssumption DEF Block
    <3>2. QED
      BY <1>1, <2>2, <3>1 DEF HeadersOwned
  <2>4. \A c \in live' : \E j \in DOMAIN list' :
          BlockOf(list'[j]) = c.addr /\ ~list'[j].free /\ c.size <= Payload(list'[j])
    <3>1. ASSUME NEW c \in live
          PROVE  \E j \in DOMAIN list' :
                   BlockOf(list'[j]) = c.addr /\ ~list'[j].free /\ c.size <= Payload(list'[j])
      BY <1>1, <1>4 DEF HeadersOwned, BlockOf, Payload
    <3>2. BlockOf(list'[i]) = b.addr /\ ~list'[i].free /\ b.size <= Payload(list'[i])
      BY <1>4, <1>5, <2>1 DEF BlockOf, Payload
    <3>3. \E j \in DOMAIN list' :
            BlockOf(list'[j]) = b.addr /\ ~list'[j].free /\ b.size <= Payload(list'[j])
      BY <1>4, <3>2
    <3>4. live' = live \cup {b}
      BY <1>3
    <3>5. QED
      BY <3>1, <3>3, <3>4
  <2>5. \A t \in Threads : freeing'[t] # NULL =>
          \E j \in DOMAIN list' : BlockOf(list'[j]) = freeing'[t] /\ ~list'[j].free
    BY <1>1, <1>3, <1>4 DEF HeadersOwned, BlockOf
  <2>6. \A j \in DOMAIN list' : ~list'[j].free =>
          \/ \E c \in live' : c.addr = BlockOf(list'[j])
          \/ \E t \in Threads : freeing'[t] = BlockOf(list'[j])
    BY <1>1, <1>3, <1>4, <1>5 DEF HeadersOwned, BlockOf
  <2>7. \A c, d \in live' : c.addr = d.addr => c = d
    BY <1>1, <1>3, <2>3 DEF HeadersOwned
  <2>8. QED
    BY <1>1, <1>3, <2>3, <2>4, <2>5, <2>6, <2>7 DEF HeadersOwned, BlockOf, Payload
<1>10. QED
  BY <1>6, <1>7, <1>8, <1>9 DEF IInv

(* When a call makes the program undefined and leaves the heap alone. *)
LEMMA UndefinedInv ==
  ASSUME IInv, undefined = "no", UNCHANGED <<list, brk, freeing, seen, libc>>,
         live' \subseteq Block, undefined' \in {"overlap", "wrapped", "libc"}
  PROVE  IInv'
BY DEF IInv, TypeOK, HeapLaidOut, End

(* What the size_t sum is when it did not wrap. *)
LEMMA TotalIs ==
  ASSUME NEW n \in Sizes, ~(Wrap(H + n) < n)
  PROVE  Wrap(H + n) = H + n
<1>1. /\ n \in Nat /\ n < SizeMod /\ H \in Nat /\ H < SizeMod /\ SizeMod \in Nat
  BY MallocAssumption
<1>2. CASE H + n < SizeMod
  BY <1>1, <1>2 DEF Wrap
<1>3. CASE ~(H + n < SizeMod)
  <2>1. (H + n) % SizeMod = H + n - SizeMod
    BY <1>1, <1>3
  <2>2. QED
    BY <1>1, <2>1 DEF Wrap
<1>4. QED
  BY <1>2, <1>3

(* my_malloc that moves the break.  Nothing owns what lies above it. *)
LEMMA ExtendInv ==
  ASSUME IInv, undefined = "no", NEW n \in Sizes, Extend(n), UNCHANGED <<freeing, seen, libc>>
  PROVE  IInv'
<1> DEFINE total == Wrap(H + n)
           h == [addr |-> brk, size |-> total, free |-> FALSE]
           b == [addr |-> brk + H, size |-> n]
<1>1. /\ TypeOK /\ HeapLaidOut /\ HeadersOwned /\ NothingBetween
      /\ n \in Nat /\ n > 0
  BY MallocAssumption DEF IInv
<1>2. /\ H \in Nat /\ H > 0 /\ brk \in Nat
      /\ \A j \in DOMAIN list : list[j].addr \in Nat /\ list[j].size \in Nat
  BY <1>1, HeaderType
<1>3. CASE total < n \/ 2 * total >= SizeMod
  BY <1>1, <1>3, UndefinedInv DEF Extend, TypeOK
<1>4. CASE ~(total < n \/ 2 * total >= SizeMod)
  <2>1. /\ list' = Append(list, h) /\ live' = live \cup {b} /\ brk' = brk + total
        /\ undefined' = "no" /\ freeing' = freeing /\ seen' = seen /\ libc' = libc
    BY <1>4 DEF Extend
  <2>2. total = H + n
    BY <1>4, TotalIs
  <2>3. /\ h \in Header /\ h.addr = brk /\ h.size = H + n /\ h.free = FALSE
        /\ b \in Block /\ b.addr = BlockOf(h) /\ b.addr = brk + H /\ b.size = n
    BY <1>1, <1>2, <2>2 DEF Header, Block, BlockOf
  <2> HIDE DEF total, h, b
  <2>4. PICK m \in Nat :
          /\ list' \in Seq(Header)
          /\ DOMAIN list = 1..m /\ DOMAIN list' = 1..m + 1
          /\ \A i \in 1..m : list'[i] = list[i]
          /\ list'[m + 1] = h
    BY <1>1, <2>1, <2>3, AppendIs
  <2>5. TypeOK'
    BY <1>1, <1>2, <2>1, <2>2, <2>3, <2>4 DEF TypeOK
  <2>6. HeapLaidOut'
    <3>1. \A i \in 1..m : list[i].size > H /\ End(list[i]) <= brk
                          /\ \A j \in 1..m : i < j => End(list[i]) <= list[j].addr
      BY <1>1, <2>4 DEF HeapLaidOut
    <3>2. \A i \in 1..m : End(list[i]) \in Nat
      BY <1>2, <2>4 DEF End
    <3>3. h.size > H /\ End(h) = brk'
      BY <1>1, <1>2, <2>1, <2>2, <2>3 DEF End
    <3>4. ASSUME NEW i \in 1..m + 1
          PROVE  list'[i].size > H /\ End(list'[i]) <= brk'
      <4>1. CASE i = m + 1
        BY <1>2, <2>2, <2>1, <2>4, <3>3, <4>1
      <4>2. CASE i \in 1..m
        BY <1>1, <1>2, <2>1, <2>2, <2>4, <3>1, <3>2, <4>2
      <4>3. QED
        BY <2>4, <4>1, <4>2
    <3>5. ASSUME NEW i \in 1..m + 1, NEW j \in 1..m + 1, i < j
          PROVE  End(list'[i]) <= list'[j].addr
      <4>1. i \in 1..m
        BY <2>4, <3>5
      <4>2. CASE j = m + 1
        BY <2>3, <2>4, <3>1, <4>1, <4>2
      <4>3. CASE j \in 1..m
        BY <2>4, <3>1, <3>5, <4>1, <4>3
      <4>4. QED
        BY <2>4, <4>2, <4>3
    <3>6. QED
      BY <2>4, <3>4, <3>5 DEF HeapLaidOut
  <2>7. \A i \in 1..m : BlockOf(list[i]) < b.addr /\ BlockOf(list[i]) \in Nat
    <3> SUFFICES ASSUME NEW i \in 1..m
                 PROVE  BlockOf(list[i]) < b.addr /\ BlockOf(list[i]) \in Nat
      OBVIOUS
    <3>1. list[i].size > H /\ list[i].addr + list[i].size <= brk
      BY <1>1, <2>4 DEF HeapLaidOut, End
    <3>2. list[i].addr \in Nat /\ list[i].size \in Nat /\ b.addr = brk + H
      BY <1>2, <2>3, <2>4
    <3>3. QED
      BY <1>2, <3>1, <3>2 DEF BlockOf
  <2>8. b.addr \in Nat /\ b.addr # NULL
    BY <1>2, <2>3, MallocAssumption
  <2>9. (\A c \in live : c.addr # b.addr) /\ (\A t \in Threads : freeing[t] # b.addr)
    BY <1>1, <2>4, <2>7, <2>8 DEF HeadersOwned
  <2>10. NothingBetween'
    <3> SUFFICES ASSUME NEW t \in Threads, NEW i \in DOMAIN list',
                        freeing'[t] = BlockOf(list'[i]),
                        freeing'[t] + list'[i].size = seen'[t]
                 PROVE  /\ seen'[t] <= brk'
                        /\ \A j \in DOMAIN list' : i < j => seen'[t] <= list'[j].addr
      BY DEF NothingBetween, BlockOf
    <3>1. i \in 1..m
      <4>1. i = m + 1 => freeing[t] = b.addr
        BY <2>1, <2>3, <2>4
      <4>2. i # m + 1
        BY <2>9, <4>1
      <4>3. QED
        BY <2>4, <4>2
    <3>2. seen[t] <= brk /\ \A j \in 1..m : i < j => seen[t] <= list[j].addr
      BY <1>1, <2>1, <2>4, <3>1 DEF NothingBetween
    <3>3. seen[t] \in Nat
      BY <1>1 DEF TypeOK
    <3>4. \A j \in 1..m + 1 : j \in 1..m \/ j = m + 1
      BY <2>4
    <3>5. QED
      BY <1>1, <1>2, <2>1, <2>2, <2>3, <2>4, <3>2, <3>3, <3>4
  <2>11. HeadersOwned'
    <3>1. \A c \in live' : \E j \in DOMAIN list' :
            BlockOf(list'[j]) = c.addr /\ ~list'[j].free /\ c.size <= Payload(list'[j])
      <4>1. \A c \in live : \E j \in DOMAIN list' :
              BlockOf(list'[j]) = c.addr /\ ~list'[j].free /\ c.size <= Payload(list'[j])
        <5>1. \A j \in DOMAIN list : j \in DOMAIN list' /\ list'[j] = list[j]
          BY <2>4
        <5>2. QED
          BY <1>1, <5>1 DEF HeadersOwned
      <4>2. m + 1 \in DOMAIN list' /\ list'[m + 1] = h /\ b.size <= Payload(h)
        BY <1>1, <1>2, <2>3, <2>4 DEF Payload
      <4>3. QED
        BY <2>1, <2>3, <4>1, <4>2
    <3>2. \A t \in Threads : freeing'[t] # NULL =>
            \E j \in DOMAIN list' : BlockOf(list'[j]) = freeing'[t] /\ ~list'[j].free
      <4>1. \A j \in DOMAIN list : j \in DOMAIN list' /\ list'[j] = list[j]
        BY <2>4
      <4>2. QED
        BY <1>1, <2>1, <4>1 DEF HeadersOwned
    <3>3. \A j \in DOMAIN list' : ~list'[j].free =>
            \/ \E c \in live' : c.addr = BlockOf(list'[j])
            \/ \E t \in Threads : freeing'[t] = BlockOf(list'[j])
      <4>1. \A j \in DOMAIN list' : j = m + 1 \/ (j \in DOMAIN list /\ list'[j] = list[j])
        BY <2>4
      <4>2. b \in live' /\ live \subseteq live' /\ freeing' = freeing
        BY <2>1
      <4>3. ASSUME NEW j \in DOMAIN list, ~list[j].free
            PROVE  \/ \E c \in live' : c.addr = BlockOf(list[j])
                   \/ \E t \in Threads : freeing'[t] = BlockOf(list[j])
        BY <1>1, <4>2, <4>3 DEF HeadersOwned
      <4>4. \E c \in live' : c.addr = BlockOf(list'[m + 1])
        BY <2>3, <2>4, <4>2
      <4>5. QED
        BY <4>1, <4>3, <4>4
    <3>4. \A c, d \in live' : c.addr = d.addr => c = d
      BY <1>1, <2>1, <2>9 DEF HeadersOwned
    <3>5. /\ \A t, u \in Threads : freeing'[t] # NULL /\ freeing'[t] = freeing'[u] => t = u
          /\ \A c \in live', t \in Threads : freeing'[t] # c.addr
      BY <1>1, <2>1, <2>9 DEF HeadersOwned
    <3>6. QED
      BY <3>1, <3>2, <3>3, <3>4, <3>5, Zenon DEF HeadersOwned, BlockOf, Payload
  <2>12. QED
    BY <2>5, <2>6, <2>10, <2>11 DEF IInv
<1>5. QED
  BY <1>3, <1>4

(* A thread gives up its claim on the block of header i, which goes: the   *)
(* other owners keep the headers they had, those for which kept holds.     *)
LEMMA DisownInv ==
  ASSUME TypeOK, HeapLaidOut, undefined = "no", HeadersOwned,
         NEW t \in Threads, NEW i \in DOMAIN list, freeing[t] = BlockOf(list[i]),
         freeing' = [freeing EXCEPT ![t] = NULL], live' = live,
         NEW kept, kept \subseteq DOMAIN list, DOMAIN list \ {i} \subseteq kept,
         DOMAIN list' = kept,
         \A j \in kept : list'[j].addr = list[j].addr /\ list'[j].size = list[j].size,
         \A j \in kept \ {i} : list'[j].free = list[j].free,
         i \in kept => list'[i].free
  PROVE  HeadersOwned'
<1>1. \A j \in DOMAIN list : BlockOf(list[j]) = freeing[t] => j = i
  BY BlocksDiffer
<1>2. freeing \in [Threads -> Nat \cup {NULL}] /\ NULL \notin Nat
  BY MallocAssumption DEF TypeOK
<1>3. freeing'[t] = NULL /\ \A u \in Threads \ {t} : freeing'[u] = freeing[u]
  BY <1>2
<1>4. freeing[t] # NULL
  BY <1>2, HeaderType DEF BlockOf
<1>5. \A j \in kept : BlockOf(list'[j]) = BlockOf(list[j]) /\ Payload(list'[j]) = Payload(list[j])
  BY DEF BlockOf, Payload
<1>6. \A b \in live : \E j \in kept :
        BlockOf(list'[j]) = b.addr /\ ~list'[j].free /\ b.size <= Payload(list'[j])
  <2> SUFFICES ASSUME NEW b \in live
               PROVE  \E j \in kept :
                        BlockOf(list'[j]) = b.addr /\ ~list'[j].free /\ b.size <= Payload(list'[j])
    OBVIOUS
  <2>1. PICK j \in DOMAIN list :
          BlockOf(list[j]) = b.addr /\ ~list[j].free /\ b.size <= Payload(list[j])
    BY DEF HeadersOwned
  <2>2. j # i
    BY <2>1 DEF HeadersOwned
  <2>3. QED
    BY <1>5, <2>1, <2>2
<1>7. \A u \in Threads : freeing'[u] # NULL =>
        \E j \in kept : BlockOf(list'[j]) = freeing'[u] /\ ~list'[j].free
  <2> SUFFICES ASSUME NEW u \in Threads, freeing'[u] # NULL
               PROVE  \E j \in kept : BlockOf(list'[j]) = freeing'[u] /\ ~list'[j].free
    OBVIOUS
  <2>1. u # t /\ freeing'[u] = freeing[u]
    BY <1>3
  <2>2. PICK j \in DOMAIN list : BlockOf(list[j]) = freeing[u] /\ ~list[j].free
    BY <2>1 DEF HeadersOwned
  <2>3. j # i
    BY <1>4, <2>1, <2>2 DEF HeadersOwned
  <2>4. QED
    BY <1>5, <2>1, <2>2, <2>3
<1>8. \A j \in kept : ~list'[j].free =>
        \/ \E b \in live : b.addr = BlockOf(list'[j])
        \/ \E u \in Threads : freeing'[u] = BlockOf(list'[j])
  <2> SUFFICES ASSUME NEW j \in kept, ~list'[j].free
               PROVE  \/ \E b \in live : b.addr = BlockOf(list'[j])
                      \/ \E u \in Threads : freeing'[u] = BlockOf(list'[j])
    OBVIOUS
  <2>1. j \in DOMAIN list /\ j # i /\ ~list[j].free /\ BlockOf(list'[j]) = BlockOf(list[j])
    BY <1>5
  <2>2. \A u \in Threads : freeing[u] = BlockOf(list[j]) => u # t
    BY <1>1, <2>1
  <2>3. QED
    BY <1>3, <2>1, <2>2 DEF HeadersOwned
<1>9. /\ \A b, c \in live : b.addr = c.addr => b = c
      /\ \A u, v \in Threads : freeing'[u] # NULL /\ freeing'[u] = freeing'[v] => u = v
  BY <1>3 DEF HeadersOwned
<1>10. \A b \in live, u \in Threads : freeing'[u] # b.addr
  <2>1. \A b \in live : b.addr # NULL
    BY <1>2 DEF TypeOK, Block
  <2>2. QED
    BY <1>3, <2>1 DEF HeadersOwned
<1>11. QED
  BY <1>6, <1>7, <1>8, <1>9, <1>10, Zenon DEF HeadersOwned, BlockOf, Payload

(* my_free takes the block for the last one and cuts off the tail. *)
LEMMA ReleaseInv ==
  ASSUME IInv, undefined = "no", NEW t \in Threads, NEW i \in DOMAIN list,
         freeing[t] = BlockOf(list[i]), freeing[t] + list[i].size = seen[t],
         Release(t, list[i]), freeing' = [freeing EXCEPT ![t] = NULL],
         seen' = [seen EXCEPT ![t] = 0], UNCHANGED <<live, libc>>
  PROVE  /\ IInv'
         /\ undefined' = "stale" => seen[t] # brk
<1>1. /\ TypeOK /\ HeapLaidOut /\ HeadersOwned /\ NothingBetween
  BY DEF IInv
<1>2. /\ H \in Nat /\ H > 0 /\ brk \in Nat
      /\ \A j \in DOMAIN list :
           list[j].addr \in Nat /\ list[j].size \in Nat /\ list[j].free \in BOOLEAN
  BY <1>1, HeaderType
<1>3. PICK m \in Nat \ {0} :
        /\ list' \in Seq(Header)
        /\ DOMAIN list = 1..m /\ DOMAIN list' = 1..m - 1
        /\ \A j \in 1..m - 1 : list'[j] = list[j]
        /\ Last(list) = list[m]
  BY <1>1, CutIs DEF Release
<1>4. /\ brk' = brk - H - list[i].size
      /\ undefined' = IF list[i] = Last(list) /\ brk = seen[t] THEN "no" ELSE "stale"
  BY DEF Release
<1>5. /\ seen[t] \in Nat /\ seen[t] <= brk
      /\ \A j \in 1..m : i < j => seen[t] <= list[j].addr
      /\ seen[t] = list[i].addr + H + list[i].size
  BY <1>1, <1>2, <1>3 DEF NothingBetween, TypeOK, BlockOf
<1>6. brk' \in Nat /\ (brk = seen[t] => brk' = list[i].addr)
  BY <1>2, <1>4, <1>5
<1>7. brk = seen[t] => i = m
  <2> SUFFICES ASSUME brk = seen[t], i # m PROVE FALSE
    OBVIOUS
  <2>1. m \in 1..m /\ i < m
    BY <1>3
  <2>2. End(list[m]) <= brk /\ list[m].size > H
    BY <1>1, <1>3, <2>1 DEF HeapLaidOut
  <2>3. brk <= list[m].addr
    BY <1>5, <2>1
  <2>4. list[m].addr \in Nat /\ list[m].size \in Nat /\ End(list[m]) = list[m].addr + list[m].size
    <3>1. m \in DOMAIN list
      BY <1>3, <2>1
    <3>2. QED
      BY <1>2, <3>1 DEF End
  <2>5. QED
    BY <1>2, <2>2, <2>3, <2>4
<1>8. TypeOK'
  <2>1. freeing' \in [Threads -> Nat \cup {NULL}] /\ seen' \in [Threads -> Nat]
    BY <1>1 DEF TypeOK
  <2>2. undefined' \in {"no", "stale"}
    BY <1>4
  <2>3. QED
    BY <1>1, <1>3, <1>6, <2>1, <2>2 DEF TypeOK
<1>9. ASSUME undefined' = "no" PROVE HeapLaidOut' /\ HeadersOwned' /\ NothingBetween'
  <2>1. brk = seen[t] /\ i = m /\ brk' = list[m].addr
    BY <1>4, <1>6, <1>7, <1>9
  <2>2. \A j \in 1..m - 1 : j \in 1..m /\ m \in 1..m /\ j < m /\ j # m
    BY <1>3
  <2>3. HeapLaidOut'
    <3>1. ASSUME NEW j \in 1..m - 1
          PROVE  /\ list[j].size > H /\ End(list[j]) <= brk'
                 /\ \A k \in 1..m - 1 : j < k => End(list[j]) <= list[k].addr
      BY <1>1, <1>3, <2>1, <2>2 DEF HeapLaidOut
    <3>2. QED
      BY <1>3, <3>1 DEF HeapLaidOut, End
  <2>4. HeadersOwned'
    <3>1. 1..m - 1 \subseteq DOMAIN list /\ DOMAIN list \ {i} \subseteq 1..m - 1 /\ i \notin 1..m - 1
      BY <1>3, <2>1
    <3>2. QED
      BY <1>1, <1>3, <3>1, DisownInv
  <2>5. NothingBetween'
    <3> SUFFICES ASSUME NEW u \in Threads, NEW j \in 1..m - 1,
                        freeing'[u] = BlockOf(list[j]),
                        freeing'[u] + list[j].size = seen'[u]
                 PROVE  /\ seen'[u] <= brk'
                        /\ \A k \in 1..m - 1 : j < k => seen'[u] <= list[k].addr
      BY <1>3 DEF NothingBetween, BlockOf
    <3>1. BlockOf(list[j]) # NULL
      BY <1>2, <1>3, <2>2, MallocAssumption DEF BlockOf
    <3>2. u # t /\ freeing'[u] = freeing[u] /\ seen'[u] = seen[u]
      BY <1>1, <3>1 DEF TypeOK
    <3>3. \A k \in 1..m : j < k => seen[u] <= list[k].addr
      BY <1>1, <1>3, <2>2, <3>2 DEF NothingBetween
    <3>4. QED
      BY <2>1, <2>2, <3>2, <3>3
  <2>6. QED
    BY <2>3, <2>4, <2>5
<1>10. undefined' = "stale" => HeapLaidOut'
  BY DEF HeapLaidOut
<1>11. undefined' = "stale" => seen[t] # brk
  BY <1>3, <1>4, <1>7
<1>12. QED
  BY <1>4, <1>8, <1>9, <1>10, <1>11 DEF IInv

(* my_free marks the header free. *)
LEMMA MarkInv ==
  ASSUME IInv, undefined = "no", NEW t \in Threads, NEW i \in DOMAIN list,
         freeing[t] = BlockOf(list[i]), list' = [list EXCEPT ![i].free = TRUE],
         freeing' = [freeing EXCEPT ![t] = NULL], seen' = [seen EXCEPT ![t] = 0],
         UNCHANGED <<brk, undefined, live, libc>>
  PROVE  IInv'
<1>1. /\ TypeOK /\ HeapLaidOut /\ HeadersOwned /\ NothingBetween
  BY DEF IInv
<1>2. /\ list' \in Seq(Header) /\ DOMAIN list' = DOMAIN list
      /\ \A j \in DOMAIN list :
           /\ list'[j].addr = list[j].addr /\ list'[j].size = list[j].size
           /\ list'[j].free = IF j = i THEN TRUE ELSE list[j].free
  BY <1>1, FlagIs
<1>3. freeing' \in [Threads -> Nat \cup {NULL}] /\ seen' \in [Threads -> Nat]
  BY <1>1 DEF TypeOK
<1>4. TypeOK'
  BY <1>1, <1>2, <1>3 DEF TypeOK
<1>5. HeapLaidOut'
  BY <1>1, <1>2 DEF HeapLaidOut, End
<1>6. HeadersOwned'
  <2> DEFINE kept == DOMAIN list
  <2>1. /\ kept \subseteq DOMAIN list /\ DOMAIN list \ {i} \subseteq kept /\ DOMAIN list' = kept
        /\ \A j \in kept : list'[j].addr = list[j].addr /\ list'[j].size = list[j].size
        /\ \A j \in kept \ {i} : list'[j].free = list[j].free
        /\ i \in kept => list'[i].free
    BY <1>2
  <2> HIDE DEF kept
  <2>2. QED
    BY <1>1, <2>1, DisownInv
<1>7. NothingBetween'
  <2> SUFFICES ASSUME NEW u \in Threads, NEW j \in DOMAIN list,
                      freeing'[u] = BlockOf(list'[j]), freeing'[u] + list'[j].size = seen'[u]
               PROVE  /\ seen'[u] <= brk'
                      /\ \A k \in DOMAIN list : j < k => seen'[u] <= list'[k].addr
    BY <1>2 DEF NothingBetween, BlockOf
  <2>1. BlockOf(list'[j]) = BlockOf(list[j]) /\ BlockOf(list[j]) # NULL
    <3>1. list'[j].addr = list[j].addr /\ list[j].addr \in Nat /\ H \in Nat
      BY <1>1, <1>2, HeaderType, Zenon
    <3>2. list[j].addr + H \in Nat
      BY <3>1
    <3>3. QED
      BY <3>1, <3>2, MallocAssumption DEF BlockOf
  <2>2. u # t /\ freeing'[u] = freeing[u] /\ seen'[u] = seen[u]
    BY <1>1, <2>1 DEF TypeOK
  <2>3. QED
    BY <1>1, <1>2, <2>1, <2>2 DEF NothingBetween
<1>8. QED
  BY <1>4, <1>5, <1>6, <1>7 DEF IInv

LEMMA FreeEndInv ==
  ASSUME IInv, NEW t \in Threads, FreeEnd(t)
  PROVE  /\ IInv'
         /\ undefined' = "stale" =>
              freeing[t] # NULL /\ freeing'[t] = NULL /\ seen[t] # brk
<1> DEFINE i == IndexOf(freeing[t])
<1>1. undefined = "no" /\ freeing[t] # NULL
  BY DEF FreeEnd
<1>2. TypeOK /\ HeadersOwned /\ freeing[t] \in Nat
  BY <1>1 DEF IInv, TypeOK
<1>3. i \in DOMAIN list /\ BlockOf(list[i]) = freeing[t]
  BY <1>1, <1>2, IndexOfIs DEF HeadersOwned
<1>4. /\ IF freeing[t] + list[i].size = seen[t]
         THEN Release(t, list[i])
         ELSE list' = [list EXCEPT ![i].free = TRUE] /\ UNCHANGED <<brk, undefined>>
      /\ freeing' = [freeing EXCEPT ![t] = NULL]
      /\ seen' = [seen EXCEPT ![t] = 0]
      /\ UNCHANGED <<live, libc>>
  BY Zenon DEF FreeEnd
<1>5. freeing'[t] = NULL
  BY <1>2, <1>4 DEF TypeOK
<1> HIDE DEF i
<1>6. CASE freeing[t] + list[i].size = seen[t]
  BY <1>1, <1>3, <1>4, <1>5, <1>6, ReleaseInv
<1>7. CASE freeing[t] + list[i].size # seen[t]
  BY <1>1, <1>3, <1>4, <1>7, MarkInv
<1>8. QED
  BY <1>6, <1>7

(* my_free before the lock: the claim passes from the caller to the thread. *)
LEMMA FreeBeginInv ==
  ASSUME IInv, NEW t \in Threads, NEW b \in live, FreeBegin(t, b)
  PROVE  IInv'
<1>1. /\ undefined = "no" /\ freeing[t] = NULL /\ live' = live \ {b}
      /\ freeing' = [freeing EXCEPT ![t] = b.addr] /\ seen' = [seen EXCEPT ![t] = brk]
      /\ UNCHANGED <<list, brk, libc, undefined>>
  BY DEF FreeBegin, Ready
<1>2. /\ TypeOK /\ HeapLaidOut /\ HeadersOwned /\ NothingBetween
  BY <1>1 DEF IInv
<1>3. b \in Block /\ b.addr \in Nat /\ b.addr # NULL
  BY <1>2, MallocAssumption DEF TypeOK, Block
<1>4. /\ freeing'[t] = b.addr /\ seen'[t] = brk
      /\ \A u \in Threads \ {t} : freeing'[u] = freeing[u] /\ seen'[u] = seen[u]
  BY <1>1, <1>2 DEF TypeOK
<1>5. TypeOK'
  <2>1. freeing' \in [Threads -> Nat \cup {NULL}] /\ seen' \in [Threads -> Nat]
    BY <1>1, <1>2, <1>3 DEF TypeOK
  <2>2. QED
    BY <1>1, <1>2, <2>1 DEF TypeOK
<1>6. HeapLaidOut'
  BY <1>1, <1>2 DEF HeapLaidOut, End
<1>7. HeadersOwned'
  <2>1. \A c \in live' : c \in live /\ c.addr # b.addr
    BY <1>1, <1>2 DEF HeadersOwned
  <2>2. \A c \in live' : \E i \in DOMAIN list :
          BlockOf(list[i]) = c.addr /\ ~list[i].free /\ c.size <= Payload(list[i])
    BY <1>2, <2>1 DEF HeadersOwned
  <2>3. \A u \in Threads : freeing'[u] # NULL =>
          \E i \in DOMAIN list : BlockOf(list[i]) = freeing'[u] /\ ~list[i].free
    BY <1>2, <1>4 DEF HeadersOwned
  <2>4. \A i \in DOMAIN list : ~list[i].free =>
          \/ \E c \in live' : c.addr = BlockOf(list[i])
          \/ \E u \in Threads : freeing'[u] = BlockOf(list[i])
    <3> SUFFICES ASSUME NEW i \in DOMAIN list, ~list[i].free
                 PROVE  \/ \E c \in live' : c.addr = BlockOf(list[i])
                        \/ \E u \in Threads : freeing'[u] = BlockOf(list[i])
      OBVIOUS
    <3>1. CASE \E c \in live : c.addr = BlockOf(list[i])
      BY <1>1, <1>4, <3>1
    <3>2. CASE \E u \in Threads : freeing[u] = BlockOf(list[i])
      <4>1. BlockOf(list[i]) # NULL
        BY <1>2, HeaderType, MallocAssumption DEF BlockOf
      <4>2. QED
        BY <1>1, <1>4, <3>2, <4>1
    <3>3. QED
      BY <1>2, <3>1, <3>2 DEF HeadersOwned
  <2>5. /\ \A c, d \in live' : c.addr = d.addr => c = d
        /\ \A u, v \in Threads : freeing'[u] # NULL /\ freeing'[u] = freeing'[v] => u = v
        /\ \A c \in live', u \in Threads : freeing'[u] # c.addr
    BY <1>2, <1>4, <2>1 DEF HeadersOwned
  <2>6. list' = list
    BY <1>1
  <2>7. QED
    BY <2>2, <2>3, <2>4, <2>5, <2>6, Zenon DEF HeadersOwned, BlockOf, Payload
<1>8. NothingBetween'
  <2> SUFFICES ASSUME NEW u \in Threads, NEW i \in DOMAIN list,
                      freeing'[u] = BlockOf(list[i]), freeing'[u] + list[i].size = seen'[u]
               PROVE  /\ seen'[u] <= brk
                      /\ \A j \in DOMAIN list : i < j => seen'[u] <= list[j].addr
    BY <1>1 DEF NothingBetween, BlockOf
  <2>1. CASE u # t
    BY <1>2, <1>4, <2>1 DEF NothingBetween
  <2>2. CASE u = t
    <3> SUFFICES ASSUME NEW j \in DOMAIN list, i < j PROVE FALSE
      BY <1>2, <1>4, <2>2, HeaderType
    <3>1. list[i].addr + H + list[i].size = brk
      BY <1>4, <2>2 DEF BlockOf
    <3>2. list[i].addr + list[i].size <= list[j].addr /\ list[j].size > H
          /\ list[j].addr + list[j].size <= brk
      BY <1>1, <1>2 DEF HeapLaidOut, End
    <3>3. QED
      BY <1>2, <3>1, <3>2, HeaderType
  <2>3. QED
    BY <2>1, <2>2
<1>9. QED
  BY <1>1, <1>5, <1>6, <1>7, <1>8 DEF IInv

(* my_realloc that stays in the block: its owner is the same. *)
LEMMA ReallocInv ==
  ASSUME IInv, NEW t \in Threads, NEW b \in live, NEW n \in Sizes \cup {0}, Realloc(t, b, n)
  PROVE  IInv' /\ undefined' # "stale"
<1> DEFINE i == IndexOf(b.addr)
           c == [b EXCEPT !.size = n]
<1>1. /\ undefined = "no"
      /\ \/ /\ live' = (live \ {b}) \cup {c}
            /\ undefined' = IF n > Payload(list[i]) THEN "overlap" ELSE "no"
         \/ undefined' \in {"no", "libc"} /\ UNCHANGED live
      /\ UNCHANGED <<list, brk, freeing, seen, libc>>
  BY Zenon DEF Realloc, Ready
<1>2. TypeOK /\ HeapLaidOut /\ HeadersOwned /\ NothingBetween /\ n \in Nat
  BY <1>1, MallocAssumption DEF IInv
<1>3. b \in Block /\ c \in Block /\ c.addr = b.addr /\ c.size = n
  BY <1>2 DEF TypeOK, Block
<1> HIDE DEF c
<1>4. live' \subseteq Block
  BY <1>1, <1>2, <1>3 DEF TypeOK
<1>5. CASE undefined' \in {"overlap", "libc"}
  BY <1>1, <1>4, <1>5, UndefinedInv
<1>6. CASE undefined' = "no" /\ UNCHANGED live
  BY <1>1, <1>2, <1>6
  DEF IInv, TypeOK, HeapLaidOut, HeadersOwned, NothingBetween, End, BlockOf, Payload
<1>7. CASE undefined' = "no" /\ live' = (live \ {b}) \cup {c} /\ ~(n > Payload(list[i]))
  <2>1. i \in DOMAIN list /\ BlockOf(list[i]) = b.addr
    BY <1>2, <1>3, IndexOfIs DEF HeadersOwned, Block
  <2>2. \A j \in DOMAIN list : BlockOf(list[j]) = b.addr => j = i
    BY <1>1, <1>2, <2>1, BlocksDiffer
  <2>3. ~list[i].free
    BY <1>2, <2>2 DEF HeadersOwned
  <2>4. c.size <= Payload(list[i])
    <3>1. H \in Nat /\ list[i].size \in Nat
      BY <1>2, <2>1, HeaderType
    <3>2. QED
      BY <1>2, <1>3, <1>7, <3>1 DEF Payload
  <2> HIDE DEF i
  <2>5. \A d \in live' : \E j \in DOMAIN list :
          BlockOf(list[j]) = d.addr /\ ~list[j].free /\ d.size <= Payload(list[j])
    BY <1>2, <1>3, <1>7, <2>1, <2>3, <2>4 DEF HeadersOwned
  <2>6. \A j \in DOMAIN list : ~list[j].free =>
          \/ \E d \in live' : d.addr = BlockOf(list[j])
          \/ \E u \in Threads : freeing[u] = BlockOf(list[j])
    BY <1>2, <1>3, <1>7 DEF HeadersOwned
  <2>7. /\ \A d, e \in live' : d.addr = e.addr => d = e
        /\ \A d \in live', u \in Threads : freeing[u] # d.addr
    BY <1>2, <1>3, <1>7 DEF HeadersOwned
  <2>8. HeadersOwned'
    <3>1. list' = list /\ freeing' = freeing
      BY <1>1
    <3>2. /\ \A u \in Threads : freeing[u] # NULL =>
               \E j \in DOMAIN list : BlockOf(list[j]) = freeing[u] /\ ~list[j].free
          /\ \A u, v \in Threads : freeing[u] # NULL /\ freeing[u] = freeing[v] => u = v
      BY <1>2 DEF HeadersOwned
    <3>3. QED
      BY <2>5, <2>6, <2>7, <3>1, <3>2, Zenon DEF HeadersOwned, BlockOf, Payload
  <2>9. QED
    BY <1>1, <1>2, <1>4, <1>7, <2>8
    DEF IInv, TypeOK, HeapLaidOut, NothingBetween, End, BlockOf
<1>8. QED
  BY <1>1, <1>5, <1>6, <1>7

(* Other code moves the break up. *)
LEMMA SbrkInv ==
  ASSUME IInv, NEW d \in Foreign, Sbrk(d)
  PROVE  IInv'
<1>1. /\ undefined = "no" /\ brk' = brk + d
      /\ UNCHANGED <<list, live, freeing, seen, libc, undefined>>
  BY DEF Sbrk
<1>2. TypeOK /\ HeapLaidOut /\ HeadersOwned /\ NothingBetween /\ d \in Nat
  BY <1>1, MallocAssumption DEF IInv
<1>3. brk \in Nat /\ \A i \in DOMAIN list : End(list[i]) \in Nat
  BY <1>2, HeaderType DEF End
<1>4. TypeOK'
  BY <1>1, <1>2, <1>3 DEF TypeOK
<1>5. HeapLaidOut'
  <2>1. \A i \in DOMAIN list : End(list[i]) <= brk'
    BY <1>1, <1>2, <1>3 DEF HeapLaidOut
  <2>2. QED
    BY <1>1, <1>2, <2>1 DEF HeapLaidOut, End
<1>6. HeadersOwned'
  BY <1>1, <1>2 DEF HeadersOwned, BlockOf, Payload
<1>7. NothingBetween'
  <2>1. \A t \in Threads : seen[t] \in Nat
    BY <1>2 DEF TypeOK
  <2>2. \A t \in Threads : seen[t] <= brk => seen[t] <= brk'
    BY <1>1, <1>2, <1>3, <2>1
  <2>3. QED
    BY <1>1, <1>2, <2>2 DEF NothingBetween, BlockOf
<1>8. QED
  BY <1>1, <1>4, <1>5, <1>6, <1>7 DEF IInv

-------------------------------------------------------------------------------
(* Every step preserves the inductive invariant, and only a my_free that   *)
(* saw another break cuts off a block that is not its own.                 *)
LEMMA NextInv ==
  IInv /\ [Next]_vars =>
    /\ IInv'
    /\ undefined # "stale" /\ undefined' = "stale" =>
         \E t \in Threads : freeing[t] # NULL /\ freeing'[t] = NULL /\ seen[t] # brk
<1> SUFFICES ASSUME IInv, [Next]_vars
             PROVE  /\ IInv'
                    /\ undefined # "stale" /\ undefined' = "stale" =>
                         \E t \in Threads :
                           freeing[t] # NULL /\ freeing'[t] = NULL /\ seen[t] # brk
  OBVIOUS
<1>1. ASSUME NEW t \in Threads, NEW n \in Sizes, Malloc(t, n)
      PROVE  IInv' /\ undefined' # "stale"
  <2>1. undefined = "no" /\ UNCHANGED <<freeing, seen, libc>> /\ n \in Nat
    BY <1>1, MallocAssumption DEF Malloc, Ready
  <2>2. CASE FreeBlock(n) > 0
    <3>1. FreeBlock(n) \in DOMAIN list /\ list[FreeBlock(n)].free
      BY <2>1, <2>2, FreeBlockIs DEF IInv
    <3>2. Reuse(FreeBlock(n), n)
      BY <1>1, <2>2 DEF Malloc
    <3>3. undefined' # "stale"
      BY <3>2 DEF Reuse
    <3>4. QED
      BY <2>1, <3>1, <3>2, <3>3, ReuseInv
  <2>3. CASE Extend(n)
    <3>1. undefined' # "stale"
      BY <2>1, <2>3 DEF Extend
    <3>2. QED
      BY <2>1, <2>3, <3>1, ExtendInv
  <2>4. CASE UNCHANGED <<list, brk, live, undefined>>
    BY <2>1, <2>4
    DEF IInv, TypeOK, HeapLaidOut, HeadersOwned, NothingBetween, End, BlockOf, Payload
  <2>5. QED
    BY <1>1, <2>2, <2>3, <2>4 DEF Malloc
<1>2. ASSUME NEW t \in Threads, NEW b \in live, FreeBegin(t, b)
      PROVE  IInv' /\ undefined' # "stale"
  BY <1>2, FreeBeginInv DEF FreeBegin, Ready
<1>3. ASSUME NEW t \in Threads, NEW b \in live, NEW n \in Sizes \cup {0}, Realloc(t, b, n)
      PROVE  IInv' /\ undefined' # "stale"
  BY <1>3, ReallocInv
<1>4. ASSUME NEW t \in Threads, FreeEnd(t)
      PROVE  IInv' /\ (undefined' = "stale" =>
                         freeing[t] # NULL /\ freeing'[t] = NULL /\ seen[t] # brk)
  BY <1>4, FreeEndInv
<1>5. ASSUME NEW t \in Threads, Calloc(t)
      PROVE  IInv' /\ undefined' # "stale"
  BY <1>5
  DEF Calloc, Ready, IInv, TypeOK, HeapLaidOut, HeadersOwned, NothingBetween, End, BlockOf,
      Payload
<1>6. ASSUME NEW t \in Threads, PassBack(t)
      PROVE  IInv' /\ undefined' # "stale"
  BY <1>6, UndefinedInv DEF PassBack, Ready, IInv, TypeOK
<1>7. ASSUME NEW d \in Foreign, Sbrk(d)
      PROVE  IInv' /\ undefined' # "stale"
  BY <1>7, SbrkInv DEF Sbrk
<1>8. CASE UNCHANGED vars
  BY <1>8
  DEF vars, IInv, TypeOK, HeapLaidOut, HeadersOwned, NothingBetween, End, BlockOf, Payload
<1>9. QED
  BY <1>1, <1>2, <1>3, <1>4, <1>5, <1>6, <1>7, <1>8 DEF Next

LEMMA Invariance == Spec => []IInv
BY InitInv, NextInv, PTL DEF Spec

(* Every variable keeps its type; in particular the break never moves      *)
(* below the start of the heap, not even when my_free saw another break.   *)
THEOREM TypeCorrect == Spec => []TypeOK
<1>1. IInv => TypeOK
  BY DEF IInv
<1>2. QED
  BY Invariance, <1>1, PTL

(* The headers stay in order, apart, and below the break. *)
THEOREM HeapInOrder == Spec => []HeapLaidOut
<1>1. IInv => HeapLaidOut
  BY DEF IInv
<1>2. QED
  BY Invariance, <1>1, PTL

(* However many threads allocate and free, no block has two owners and     *)
(* none is forgotten.                                                      *)
THEOREM EveryBlockOwned == Spec => []OneOwner
<1>1. IInv => OneOwner
  <2> SUFFICES ASSUME IInv, undefined = "no" PROVE OneOwner
    BY DEF OneOwner
  <2>1. TypeOK /\ HeapLaidOut /\ HeadersOwned
    BY DEF IInv
  <2>2. ASSUME NEW i \in DOMAIN list
        PROVE  IF list[i].free THEN Owners(list[i]) = {}
               ELSE \E o \in Owners(list[i]) : Owners(list[i]) = {o}
    <3>1. BlockOf(list[i]) # NULL
      BY <2>1, HeaderType, MallocAssumption DEF BlockOf
    <3>2. CASE list[i].free
      <4>1. \A j \in DOMAIN list : BlockOf(list[j]) = BlockOf(list[i]) => j = i
        BY <2>1, BlocksDiffer
      <4>2. \A b \in live : b.addr # BlockOf(list[i])
        BY <2>1, <3>2, <4>1 DEF HeadersOwned
      <4>3. \A t \in Threads : freeing[t] # BlockOf(list[i])
        BY <2>1, <3>1, <3>2, <4>1 DEF HeadersOwned
      <4>4. QED
        BY <3>2, <4>2, <4>3 DEF Owners, BlockOf
    <3>3. CASE ~list[i].free /\ \E b \in live : b.addr = BlockOf(list[i])
      <4>1. PICK b \in live : b.addr = BlockOf(list[i])
        BY <3>3
      <4>2. {c \in live : c.addr = BlockOf(list[i])} = {b}
        BY <2>1, <4>1 DEF HeadersOwned
      <4>3. {t \in Threads : freeing[t] = BlockOf(list[i])} = {}
        BY <2>1, <4>1 DEF HeadersOwned
      <4>4. QED
        BY <3>3, <4>2, <4>3 DEF Owners, BlockOf
    <3>4. CASE ~list[i].free /\ \E t \in Threads : freeing[t] = BlockOf(list[i])
      <4>1. PICK t \in Threads : freeing[t] = BlockOf(list[i])
        BY <3>4
      <4>2. {u \in Threads : freeing[u] = BlockOf(list[i])} = {t}
        BY <2>1, <3>1, <4>1 DEF HeadersOwned
      <4>3. {c \in live : c.addr = BlockOf(list[i])} = {}
        BY <2>1, <4>1 DEF HeadersOwned
      <4>4. QED
        BY <3>4, <4>2, <4>3 DEF Owners, BlockOf
    <3>5. QED
      BY <2>1, <3>2, <3>3, <3>4 DEF HeadersOwned
  <2>3. \A b \in live : b.addr \in Nat
    BY <2>1 DEF TypeOK, Block
  <2>4. \A t \in Threads : freeing[t] # NULL => freeing[t] \in Nat
    BY <2>1 DEF TypeOK
  <2>5. \A a \in Nat : (\E i \in DOMAIN list : BlockOf(list[i]) = a) => IndexOf(a) > 0
    <3>1. \A j \in DOMAIN list : j \in Nat /\ j # 0
      BY <2>1, LenProperties DEF TypeOK
    <3>2. \A a \in Nat : (\E i \in DOMAIN list : BlockOf(list[i]) = a) => IndexOf(a) \in DOMAIN list
      BY <2>1, IndexOfIs
    <3>3. QED
      BY <3>1, <3>2
  <2>6. QED
    BY <2>1, <2>2, <2>3, <2>4, <2>5 DEF OneOwner, HeadersOwned
<1>2. QED
  BY Invariance, <1>1, PTL

(* Until the program is undefined the bytes of two callers do not meet,    *)
(* nor those of a caller and a header, and none lie above the break.       *)
THEOREM CallersApart == Spec => []LiveApart
<1>1. IInv => LiveApart
  <2> SUFFICES ASSUME IInv, undefined = "no", NEW b \in live
               PROVE  /\ b.addr + b.size <= brk
                      /\ \A c \in live : b # c => Apart(c.addr, c.addr + c.size, b)
                      /\ \A i \in DOMAIN list : Apart(list[i].addr, list[i].addr + H, b)
    BY DEF LiveApart, BytesApart
  <2>1. TypeOK /\ HeapLaidOut /\ HeadersOwned
    BY DEF IInv
  <2>2. /\ H \in Nat /\ brk \in Nat
        /\ \A i \in DOMAIN list : i \in Nat /\ list[i].addr \in Nat /\ list[i].size \in Nat
    BY <2>1, HeaderType
  <2>3. \A c \in live : c.addr \in Nat /\ c.size \in Nat
    BY <2>1 DEF TypeOK, Block
  <2>4. \A c \in live : \E i \in DOMAIN list :
          c.addr = list[i].addr + H /\ c.addr + c.size <= list[i].addr + list[i].size
    <3>1. \A c \in live : \E i \in DOMAIN list :
            list[i].addr + H = c.addr /\ c.size <= list[i].size - H
      BY <2>1 DEF HeadersOwned, BlockOf, Payload
    <3>2. QED
      BY <2>2, <2>3, <3>1
  <2>5. \A i, j \in DOMAIN list :
          /\ list[i].addr + list[i].size <= brk /\ list[i].size > H
          /\ i < j => list[i].addr + list[i].size <= list[j].addr
    BY <2>1 DEF HeapLaidOut, End
  <2>6. PICK i \in DOMAIN list :
          b.addr = list[i].addr + H /\ b.addr + b.size <= list[i].addr + list[i].size
    BY <2>4
  <2>7. b.addr + b.size <= brk
    BY <2>2, <2>3, <2>5, <2>6
  <2>8. ASSUME NEW j \in DOMAIN list
        PROVE  Apart(list[j].addr, list[j].addr + H, b)
    <3>1. i = j \/ i < j \/ j < i
      BY <2>2
    <3>2. QED
      BY <2>2, <2>3, <2>5, <2>6, <3>1 DEF Apart
  <2>9. ASSUME NEW c \in live, b # c
        PROVE  Apart(c.addr, c.addr + c.size, b)
    <3>1. PICK j \in DOMAIN list :
            c.addr = list[j].addr + H /\ c.addr + c.size <= list[j].addr + list[j].size
      BY <2>4
    <3>2. i # j
      BY <2>1, <2>6, <2>9, <3>1 DEF HeadersOwned
    <3>3. i < j \/ j < i
      BY <2>2, <3>2
    <3>4. QED
      BY <2>2, <2>3, <2>5, <2>6, <3>1, <3>3 DEF Apart
  <2>10. QED
    BY <2>7, <2>8, <2>9
<1>2. QED
  BY Invariance, <1>1, PTL

(* my_free cuts off a block other than its own only when the break moved   *)
(* between its reading it and its taking the lock.                         *)
THEOREM StaleBreak == Spec => StaleBreakOnly
<1>1. IInv /\ [Next]_vars =>
        [undefined' = "stale" =>
           \E t \in Threads : freeing[t] # NULL /\ freeing'[t] = NULL /\ seen[t] # brk]_vars
  <2>1. Next => undefined = "no"
    BY DEF Next, Malloc, FreeBegin, FreeEnd, Realloc, Calloc, PassBack, Sbrk, Ready
  <2>2. QED
    BY <2>1, NextInv
<1>2. QED
  BY Invariance, <1>1, PTL DEF Spec, StaleBreakOnly
===============================================================================
