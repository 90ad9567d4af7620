-------------------------------- MODULE Heap --------------------------------
(***************************************************************************)
(* std::lib's allocator (libspectre/std/lib-impl/{malloc,calloc,realloc,   *)
(* free}.sp) over std::syscall's program break (syscall-impl/{curr_brk,    *)
(* direct_brk,direct_sbrk}.sp).                                            *)
(*                                                                         *)
(* A block is a header followed by its payload.  Blocks are linked in the  *)
(* order they were created, are never split, merged or returned to the     *)
(* kernel, and are reused first-fit.  The payload of a block is one value. *)
(* The library runs in one thread, so one call is one action.              *)
(*                                                                         *)
(* A refused break can leave a block that reaches past the break, and a    *)
(* later one is then placed inside it.  Stores through either change the   *)
(* other's payload or header, which payloads of one value do not show: the *)
(* model ends where that happens, with status "overlapped".                *)
(***************************************************************************)
EXTENDS Integers, Sequences

CONSTANTS
  Slots,          (* the pointers the program holds                        *)
  Sizes,          (* request sizes                                         *)
  Increments,     (* the program's own direct_sbrk() increments            *)
  Values, Zero, Junk,
  HeaderSize,     (* sizeof{type mem_block_t}                              *)
  Alignment,      (* MALLOC_ALIGNMENT                                      *)
  StartBrk,       (* the break the kernel starts the process with          *)
  MaxBrk,         (* the kernel refuses a break above it                   *)
  Cautious        (* TRUE: the program never asks for more than is left    *)

NULL == 0

ASSUME SizesAssumption == Sizes \subseteq Nat /\ Increments \subseteq Nat
ASSUME LayoutAssumption ==
  /\ HeaderSize \in Nat \ {0}
  /\ Alignment \in Nat \ {0}
  /\ HeaderSize % Alignment = 0
ASSUME BreakAssumption == StartBrk \in Nat \ {0} /\ MaxBrk \in Nat /\ Cautious \in BOOLEAN

VARIABLES
  current_brk,    (* the library's copy of the break; 0 until first asked  *)
  kernel_brk,     (* the break itself                                      *)
  chain,          (* the block list from head, as a sequence of addresses  *)
  block,          (* the header and payload stored at each such address    *)
  held,           (* the payload pointer and requested size of each slot   *)
  status          (* "run", "aborted" by an assertion, "killed" by a fault, *)
                  (* "overlapped" once a block was placed inside another   *)

vars == <<current_brk, kernel_brk, chain, block, held, status>>

Contents == Values \cup {Zero, Junk}
Headers  == [size : Nat, free : BOOLEAN, data : Contents]
NoObject == [ptr |-> NULL, size |-> 0]

Payload(a) == a + HeaderSize        (* the address of block[1]           *)
HeaderOf(p) == p - HeaderSize       (* the header one element below data *)

Set(f, a, h) == [x \in DOMAIN f \cup {a} |-> IF x = a THEN h ELSE f[x]]

-----------------------------------------------------------------------------
(* The break *)

(* The brk system call: the new break, or the old one when it refuses.     *)
KernelBrk(want) ==
  IF StartBrk <= want /\ want <= MaxBrk THEN want ELSE kernel_brk

(* direct_sbrk(inc): the break it leaves behind.                           *)
BrkAfter(from, inc) ==
  IF inc = 0 THEN from
  ELSE IF from + inc <= MaxBrk THEN from + inc ELSE from

(* curr_brk(): asks the kernel the first time.                             *)
CurrBrk == IF current_brk = 0 THEN KernelBrk(0) ELSE current_brk

(* aligned_brk(): what has to be added to the break to align it.           *)
Padding_None(b) == 0

Padding(b) == (Alignment - (b % Alignment)) % Alignment

-----------------------------------------------------------------------------
(* malloc *)

Fits(i, n) == block[chain[i]].free /\ block[chain[i]].size >= n

(* avail_block(): the first free block of the list that is large enough.   *)
Available(n) == {i \in DOMAIN chain : Fits(i, n)}
FirstFit(n) == {i \in Available(n) : \A j \in Available(n) : i <= j}

(* last->next = block; block->next = NULL.  The new block is at the address *)
(* of a block already listed when the break could not be moved past it.    *)
Link(a) ==
  IF \E i \in DOMAIN chain : chain[i] = a
  THEN SubSeq(chain, 1, CHOOSE i \in DOMAIN chain : chain[i] = a)
  ELSE Append(chain, a)

(* What a call of malloc(n) can return and leave behind.                   *)
Outcome(p, b, ch, bl, st) ==
  [ptr |-> p, brk |-> b, chain |-> ch, block |-> bl, status |-> st]

Reuse_StillFree(a) == Outcome(Payload(a), current_brk, chain, block, status)

Reuse_Shrinks(a) ==
  Outcome(Payload(a), current_brk, chain,
          [block EXCEPT ![a].free = FALSE, ![a].size = 0], status)

Reuse(a) ==
  Outcome(Payload(a), current_brk, chain, [block EXCEPT ![a].free = FALSE], status)

(* Touching n bytes from p on, with the break at b, comes to: a fault      *)
(* through NULL; a fault or nothing beyond the break, depending on where   *)
(* the break is in its page; nothing elsewhere.                            *)
Touched(st, b, p, n) ==
  IF st # "run" \/ n = 0 THEN {st}
  ELSE IF p = NULL THEN {"killed"}
  ELSE IF p + n <= b THEN {st}
  ELSE {st, "killed"}

(* The address lies inside a block, or inside an object the program was    *)
(* given there, that starts below it.                                      *)
Inside(a) ==
  \/ \E x \in DOMAIN block : x < a /\ a < Payload(x) + block[x].size
  \/ \E c \in Slots : /\ held[c].ptr # NULL
                      /\ HeaderOf(held[c].ptr) < a /\ a < held[c].ptr + held[c].size

(* alloc_block(): the result of the second direct_sbrk() is not looked at, *)
(* so a refused break leaves a header at, and beyond, the break; what is   *)
(* in memory at the address of an earlier block stays in the payload.      *)
Grow_NoHeader(n) ==
  LET a == BrkAfter(CurrBrk, Padding(CurrBrk)) IN
  {Outcome(Payload(a), BrkAfter(a, n), Link(a),
           Set(block, a, [size |-> n, free |-> FALSE, data |-> Junk]), status)}

Grow(n) ==
  LET a == BrkAfter(CurrBrk, Padding(CurrBrk))
      top == BrkAfter(a, n + HeaderSize)
      data == IF a \in DOMAIN block THEN block[a].data ELSE Junk
      placed == Outcome(Payload(a), top, Link(a),
                        Set(block, a, [size |-> n, free |-> FALSE, data |-> data]), status)
  IN  IF a < CurrBrk + Padding(CurrBrk)
      THEN {Outcome(NULL, a, chain, block, status)}
      ELSE IF Inside(a)
           THEN {Outcome(NULL, top, chain, block, "overlapped")}
           ELSE {IF st = "killed" THEN Outcome(NULL, top, chain, block, st) ELSE placed :
                   st \in Touched(status, top, a, HeaderSize)}

MallocOutcomes(n) ==
  IF n = 0 THEN {Outcome(NULL, current_brk, chain, block, status)}
  ELSE IF Available(n) # {} THEN {Reuse(chain[i]) : i \in FirstFit(n)}
  ELSE Grow(n)

(* The program's own restraint: a request that needs more heap is made     *)
(* only while the break can still be moved far enough.                     *)
Affordable(n) ==
  Cautious /\ n # 0 /\ Available(n) = {} =>
    CurrBrk + Padding(CurrBrk) + HeaderSize + n <= MaxBrk

Adopt(o) ==
  /\ current_brk' = o.brk
  /\ kernel_brk' = IF o.brk = 0 THEN kernel_brk ELSE o.brk
  /\ chain' = o.chain
  /\ status' = o.status

Hold(c, p, n) ==
  held' = [held EXCEPT ![c] = IF p = NULL THEN NoObject ELSE [ptr |-> p, size |-> n]]

Malloc(c, n) ==
  /\ status = "run"
  /\ held[c].ptr = NULL
  /\ Affordable(n)
  /\ \E o \in MallocOutcomes(n) :
       /\ Adopt(o)
       /\ block' = o.block
       /\ Hold(c, o.ptr, n)

(* calloc(): memset through the pointer malloc returned, also through NULL.*)
Calloc(c, n) ==
  /\ status = "run"
  /\ held[c].ptr = NULL
  /\ Affordable(n)
  /\ \E o \in MallocOutcomes(n) :
       /\ \E st \in Touched(o.status, o.brk, o.ptr, n) : Adopt([o EXCEPT !.status = st])
       /\ block' = IF o.ptr = NULL THEN o.block
                   ELSE [o.block EXCEPT ![HeaderOf(o.ptr)].data = Zero]
       /\ Hold(c, o.ptr, n)

-----------------------------------------------------------------------------
(* free and realloc *)

(* free(): the assertion on the flag, then the flag.                       *)
Freed_Inverted(bl, a, st) ==
  IF bl[a].free THEN [block |-> bl, status |-> st]
  ELSE [block |-> [bl EXCEPT ![a].free = TRUE], status |-> "aborted"]

Freed(bl, a, st) ==
  IF bl[a].free THEN [block |-> bl, status |-> "aborted"]
  ELSE [block |-> [bl EXCEPT ![a].free = TRUE], status |-> st]

Free(c) ==
  LET f == Freed(block, HeaderOf(held[c].ptr), status) IN
  /\ status = "run"
  /\ held[c].ptr # NULL
  /\ block' = f.block
  /\ status' = f.status
  /\ held' = [held EXCEPT ![c] = NoObject]
  /\ UNCHANGED <<current_brk, kernel_brk, chain>>

(* The request is satisfied in place.                                      *)
ReallocInPlace(c, n) ==
  /\ status = "run"
  /\ held[c].ptr # NULL
  /\ n # 0
  /\ block[HeaderOf(held[c].ptr)].size >= n
  /\ held' = [held EXCEPT ![c].size = n]
  /\ UNCHANGED <<current_brk, kernel_brk, chain, block, status>>

(* memcpy(new_space, data, block->size)                                    *)
Copied_Nothing(bl, new, old) == bl

Copied(bl, new, old) == [bl EXCEPT ![new].data = bl[old].data]

(* A larger block is allocated, the payload copied, the old block freed;   *)
(* when malloc fails NULL is returned and the program keeps the old block. *)
(* The copy is as long as the old header says once malloc has returned.    *)
ReallocMove(c, n) ==
  LET old == HeaderOf(held[c].ptr) IN
  /\ status = "run"
  /\ held[c].ptr # NULL
  /\ block[old].size < n
  /\ Affordable(n)
  /\ \E o \in MallocOutcomes(n) :
       IF o.ptr = NULL
       THEN /\ Adopt(o)
            /\ block' = o.block
            /\ UNCHANGED held
       ELSE LET len == o.block[old].size
                f == Freed(Copied(o.block, HeaderOf(o.ptr), old), old, o.status) IN
            /\ \E st \in Touched(o.status, o.brk, o.ptr, len) \cup
                        Touched(o.status, o.brk, held[c].ptr, len) :
                 Adopt([o EXCEPT !.status = IF st = "run" THEN f.status ELSE st])
            /\ block' = f.block
            /\ Hold(c, o.ptr, n)

-----------------------------------------------------------------------------
(* The program *)

(* The whole object is written, as far as the program asked for it.        *)
Store(c, v) ==
  /\ status = "run"
  /\ held[c].ptr # NULL
  /\ status' \in Touched(status, current_brk, held[c].ptr, held[c].size)
  /\ block' = [block EXCEPT ![HeaderOf(held[c].ptr)].data = v]
  /\ UNCHANGED <<current_brk, kernel_brk, chain, held>>

(* The program may move the break itself, between two calls of malloc; it  *)
(* keeps no objects of the model in the memory it gets that way.           *)
Sbrk(inc) ==
  /\ status = "run"
  /\ Cautious => CurrBrk + inc <= MaxBrk
  /\ current_brk' = BrkAfter(CurrBrk, inc)
  /\ kernel_brk' = current_brk'
  /\ UNCHANGED <<chain, block, held, status>>

Init ==
  /\ current_brk = 0
  /\ kernel_brk = StartBrk
  /\ chain = <<>>
  /\ block = [a \in {} |-> [size |-> 0, free |-> FALSE, data |-> Junk]]
  /\ held = [c \in Slots |-> NoObject]
  /\ status = "run"

Next ==
  \/ \E c \in Slots :
       \/ \E n \in Sizes :
            Malloc(c, n) \/ Calloc(c, n) \/ ReallocInPlace(c, n) \/ ReallocMove(c, n)
       \/ Free(c)
       \/ \E v \in Values : Store(c, v)
  \/ \E inc \in Increments : Sbrk(inc)

Spec == Init /\ [][Next]_vars

-----------------------------------------------------------------------------
(* Properties *)

TypeOK ==
  /\ current_brk \in Nat
  /\ kernel_brk \in Nat
  /\ chain \in Seq(Nat)
  /\ \A i \in DOMAIN chain : chain[i] \in DOMAIN block
  /\ \A a \in DOMAIN block : a \in Nat /\ block[a] \in Headers
  /\ held \in [Slots -> [ptr : Nat, size : Nat]]
  /\ status \in {"run", "aborted", "killed", "overlapped"}

(* Header and payload of a block end before the next block of the list     *)
(* begins, and the last one ends below the break (malloc.sp, alloc_block).  *)
Disjoint ==
  \A i \in DOMAIN chain :
    LET end == chain[i] + HeaderSize + block[chain[i]].size IN
    /\ end <= current_brk
    /\ \A j \in DOMAIN chain : i < j => end <= chain[j]

(* A block starts on a MALLOC_ALIGNMENT boundary whatever the program did  *)
(* to the break itself (malloc.sp, aligned_brk).                           *)
Aligned == \A i \in DOMAIN chain : chain[i] % Alignment = 0

(* The blocks in use are exactly those the program holds, each in one      *)
(* slot and large enough for what was asked: nothing is handed out twice,  *)
(* lost, or taken from its owner by the free in realloc (realloc.sp).      *)
Ownership ==
  LET InUse == {i \in DOMAIN chain : ~block[chain[i]].free} IN
  /\ \A c \in Slots : held[c].ptr # NULL =>
       \E i \in InUse : /\ held[c].ptr = Payload(chain[i])
                        /\ held[c].size <= block[chain[i]].size
  /\ \A c, d \in Slots : c # d /\ held[c].ptr # NULL => held[c].ptr # held[d].ptr
  /\ \A i \in InUse : \E c \in Slots : held[c].ptr = Payload(chain[i])

(* No assertion of the allocator fails and no store of it faults in a      *)
(* program that only frees what it holds (free.sp's two assertions).       *)
NeverStops == status = "run"

(* As documented by its assertion, free() finds the block it is given in   *)
(* use, in every program that frees what it holds once (free.sp).          *)
FreeFindsBlockInUse == status # "aborted"

(* A block keeps its place and its size for ever: reuse neither splits nor *)
(* moves a block, which realloc's in-place answer relies on.               *)
BlocksStay ==
  [][/\ Len(chain) <= Len(chain')
     /\ \A i \in DOMAIN chain : /\ chain'[i] = chain[i]
                               /\ block'[chain[i]].size = block[chain[i]].size]_vars

(* The objects the program sees, and the promise they are kept to.         *)
objs == [c \in Slots |-> IF held[c].ptr = NULL THEN <<>>
                         ELSE <<held[c].size, block[HeaderOf(held[c].ptr)].data>>]
Abstract == INSTANCE HeapSpec

(* Every run of the allocator is a run of independent objects (HeapSpec).  *)
Refines == Abstract!Spec
=============================================================================
