-------------------------------- MODULE MyMalloc -------------------------------
(***************************************************************************)
(* The allocator of src/src/my_malloc.c under several threads.  Blocks lie *)
(* one behind the other up to the program break, each a header_t of H      *)
(* bytes and the caller's bytes; header->size counts both.  What a thread  *)
(* does under global_malloc_lock is one step; my_free reads the program    *)
(* break before it takes the lock, which is a step of its own.             *)
(*                                                                         *)
(* my_calloc and my_realloc get their memory from the C library's malloc   *)
(* (external here: it hands out memory of its own), and my_realloc gives   *)
(* blocks of my_malloc to its free.                                        *)
(*                                                                         *)
(* undefined names what made the program undefined; it then stops.         *)
(***************************************************************************)
EXTENDS Pointers, Integers, Sequences, SequencesExt

CONSTANTS
  Threads,
  H,        (* sizeof(struct header_t)                               *)
  Sizes,    (* bound: the sizes callers ask for                      *)
  SizeMod,  (* number of values of a size_t                          *)
  HeapEnd,  (* bound: how far sbrk moves the program break           *)
  Foreign   (* how far other code of the program moves the break     *)

ASSUME MallocAssumption ==
  /\ SizeMod \in Nat /\ H \in 1..SizeMod - 1 /\ HeapEnd \in 0..SizeMod - 1
  /\ Sizes \subseteq 1..SizeMod - 1
  /\ Foreign \subseteq Nat \ {0}
  /\ NULL \notin Nat

VARIABLES
  list,     (* the headers from head to tail                         *)
  brk,      (* the program break                                     *)
  live,     (* the blocks callers hold, with the bytes they may use  *)
  freeing,  (* the block each thread is freeing, or NULL             *)
  seen,     (* programebreak, as my_free read it                     *)
  libc,     (* how many blocks of the C library callers hold         *)
  undefined

vars == <<list, brk, live, freeing, seen, libc, undefined>>

Header == [addr : Nat, size : Nat, free : BOOLEAN]
Block == [addr : Nat, size : Nat]

Wrap(n) == n % SizeMod

Init ==
  /\ list = <<>> /\ brk = 0 /\ live = {} /\ libc = 0 /\ undefined = "no"
  /\ freeing = [t \in Threads |-> NULL] /\ seen = [t \in Threads |-> 0]

-------------------------------------------------------------------------------
Ready(t) == undefined = "no" /\ freeing[t] = NULL

(* The end of the memory that header h describes, and of what its block    *)
(* really has for the caller.                                              *)
End(h) == h.addr + h.size
Payload(h) == h.size - H

(* get_free_block: the first free header of at least n bytes, 0 if none.   *)
(* Mutant first: any header is taken for free.                             *)
FreeBlockAny(n) == SelectInSeq(list, LAMBDA h : h.size >= n)

FreeBlock(n) == SelectInSeq(list, LAMBDA h : h.free /\ h.size >= n)

Reuse(i, n) ==
  /\ list' = [list EXCEPT ![i].free = FALSE]
  /\ live' = live \cup {[addr |-> list[i].addr + H, size |-> n]}
  /\ undefined' = IF n > Payload(list[i]) THEN "overlap" ELSE "no"
  /\ UNCHANGED brk

(* Mutant: the break moves by the caller's bytes only. *)
ExtendShort(n) ==
  /\ brk + n <= HeapEnd
  /\ list' = Append(list, [addr |-> brk, size |-> n + H, free |-> FALSE])
  /\ live' = live \cup {[addr |-> brk + H, size |-> n]}
  /\ brk' = brk + n
  /\ UNCHANGED undefined

(* A new block at the break.  A size that wraps leaves no room for the     *)
(* header; sbrk takes one in the upper half of size_t for negative.        *)
Extend(n) ==
  LET total == Wrap(H + n) IN
  IF total < n \/ 2 * total >= SizeMod
  THEN undefined' = "wrapped" /\ UNCHANGED <<list, brk, live>>
  ELSE /\ brk + total <= HeapEnd
       /\ list' = Append(list, [addr |-> brk, size |-> total, free |-> FALSE])
       /\ live' = live \cup {[addr |-> brk + H, size |-> n]}
       /\ brk' = brk + total
       /\ UNCHANGED undefined

Malloc(t, n) ==
  /\ Ready(t)
  /\ IF FreeBlock(n) > 0
     THEN Reuse(FreeBlock(n), n)
     ELSE Extend(n) \/ UNCHANGED <<list, brk, live, undefined>>
  /\ UNCHANGED <<freeing, seen, libc>>

(* my_free up to the lock.  The caller gives the block up. *)
FreeBegin(t, b) ==
  /\ Ready(t)
  /\ live' = live \ {b}
  /\ freeing' = [freeing EXCEPT ![t] = b.addr]
  /\ seen' = [seen EXCEPT ![t] = brk]
  /\ UNCHANGED <<list, brk, libc, undefined>>

IndexOf(addr) == SelectInSeq(list, LAMBDA h : h.addr = addr - H)

(* Mutant: the header counts twice more. *)
ReleaseTooMuch(t, h) ==
  /\ list' = Front(list)
  /\ brk' = brk - 2 * H - h.size
  /\ UNCHANGED undefined

(* The tail leaves the list, whichever block it is, and the break moves    *)
(* down by a header and header->size.                                      *)
Release(t, h) ==
  /\ list' = Front(list)
  /\ brk' = brk - H - h.size
  /\ undefined' = IF h = Last(list) /\ brk = seen[t] THEN "no" ELSE "stale"

(* Mutants: a block close to the break is taken for the last one; every    *)
(* block is.                                                               *)
FreeEndLoose(t) ==
  LET i == IndexOf(freeing[t]) IN
  /\ undefined = "no" /\ freeing[t] # NULL
  /\ IF freeing[t] + list[i].size >= seen[t]
     THEN Release(t, list[i])
     ELSE list' = [list EXCEPT ![i].free = TRUE] /\ UNCHANGED <<brk, undefined>>
  /\ freeing' = [freeing EXCEPT ![t] = NULL]
  /\ UNCHANGED <<live, seen, libc>>

FreeEndAlways(t) ==
  /\ undefined = "no" /\ freeing[t] # NULL
  /\ Release(t, list[IndexOf(freeing[t])])
  /\ freeing' = [freeing EXCEPT ![t] = NULL]
  /\ UNCHANGED <<live, seen, libc>>

(* my_free under the lock: is this block the last one before the break?    *)
FreeEnd(t) ==
  LET i == IndexOf(freeing[t]) IN
  /\ undefined = "no" /\ freeing[t] # NULL
  /\ IF freeing[t] + list[i].size = seen[t]
     THEN Release(t, list[i])
     ELSE /\ list' = [list EXCEPT ![i].free = TRUE]
          /\ UNCHANGED <<brk, undefined>>
  /\ freeing' = [freeing EXCEPT ![t] = NULL]
  /\ seen' = [seen EXCEPT ![t] = 0]
  /\ UNCHANGED <<live, libc>>

(* my_realloc of a block of my_malloc, without the lock: it stays when     *)
(* header->size is enough; otherwise the C library gets it to free.  So it *)
(* does when the size is 0.                                                *)
Realloc(t, b, n) ==
  LET h == list[IndexOf(b.addr)] IN
  /\ Ready(t)
  /\ IF n > 0 /\ h.size >= n
     THEN /\ live' = (live \ {b}) \cup {[b EXCEPT !.size = n]}
          /\ undefined' = IF n > Payload(h) THEN "overlap" ELSE "no"
     ELSE /\ undefined' \in {"no", "libc"}  \* "no": malloc failed
          /\ n = 0 => undefined' = "libc"
          /\ UNCHANGED live
  /\ UNCHANGED <<list, brk, freeing, seen, libc>>

(* my_calloc, and my_realloc of NULL. *)
Calloc(t) ==
  /\ Ready(t) /\ libc = 0
  /\ libc' \in {0, 1}
  /\ UNCHANGED <<list, brk, live, freeing, seen, undefined>>

(* my_free and my_realloc take the bytes before a block of the C library   *)
(* for a header.                                                           *)
PassBack(t) ==
  /\ Ready(t) /\ libc > 0
  /\ undefined' = "libc"
  /\ UNCHANGED <<list, brk, live, freeing, seen, libc>>

(* Other code calls sbrk. *)
Sbrk(d) ==
  /\ undefined = "no" /\ brk + d <= HeapEnd
  /\ brk' = brk + d
  /\ UNCHANGED <<list, live, freeing, seen, libc, undefined>>

Next ==
  \/ \E t \in Threads :
       \/ \E n \in Sizes : Malloc(t, n)
       \/ \E b \in live : FreeBegin(t, b) \/ \E n \in Sizes \cup {0} : Realloc(t, b, n)
       \/ FreeEnd(t) \/ Calloc(t) \/ PassBack(t)
  \/ \E d \in Foreign : Sbrk(d)

Spec == Init /\ [][Next]_vars

-------------------------------------------------------------------------------
(* Properties. *)

(* Every variable has its type. *)
TypeOK ==
  /\ list \in Seq(Header) /\ brk \in Nat /\ live \subseteq Block
  /\ freeing \in [Threads -> Nat \cup {NULL}] /\ seen \in [Threads -> Nat]
  /\ libc \in {0, 1}
  /\ undefined \in {"no", "overlap", "wrapped", "stale", "libc"}

(* The headers lie in order without overlap and below the program break,   *)
(* unless a stale break cut some off.                                      *)
HeapLaidOut ==
  undefined # "stale" =>
    \A i \in DOMAIN list :
      /\ list[i].size > H /\ End(list[i]) <= brk
      /\ \A j \in DOMAIN list : i < j => End(list[i]) <= list[j].addr

(* A block belongs to one caller, to one thread that frees it, or is free: *)
(* never to two, however allocations and frees interleave, and none is     *)
(* forgotten.                                                              *)
Owners(h) ==
  {b \in live : b.addr = h.addr + H} \cup {t \in Threads : freeing[t] = h.addr + H}

OneOwner ==
  undefined = "no" =>
    /\ \A i \in DOMAIN list :
         IF list[i].free THEN Owners(list[i]) = {} ELSE \E o \in Owners(list[i]) : Owners(list[i]) = {o}
    /\ \A b \in live : IndexOf(b.addr) > 0
    /\ \A t \in Threads : freeing[t] # NULL => IndexOf(freeing[t]) > 0

(* The bytes that callers may use are apart from each other, from every    *)
(* header and from what lies above the break.                              *)
Apart(lo, hi, b) == hi <= b.addr \/ b.addr + b.size <= lo

BytesApart ==
  \A b \in live :
    /\ b.addr + b.size <= brk
    /\ \A c \in live : b # c => Apart(c.addr, c.addr + c.size, b)
    /\ \A i \in DOMAIN list : Apart(list[i].addr, list[i].addr + H, b)

(* test_malloc.c:11-15: a block has the bytes asked for, to itself.         *)
BlocksApart == BytesApart

(* So it is unless a request was met with a block of which it needs also   *)
(* the header's share, or another step made the program undefined.         *)
LiveApart == undefined = "no" => BytesApart

(* Only a break that moved between my_free's reading it and its taking the *)
(* lock makes my_free cut off a block that is not the one it was given.    *)
StaleBreakOnly ==
  [][undefined' = "stale" =>
       \E t \in Threads : freeing[t] # NULL /\ freeing'[t] = NULL /\ seen[t] # brk]_vars
===============================================================================
