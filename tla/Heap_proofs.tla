----------------------------- MODULE Heap_proofs -----------------------------
(***************************************************************************)
(* Proofs about Heap, for any number of pointers, any request sizes and    *)
(* any place of the break.                                                 *)
(***************************************************************************)
EXTENDS Heap, TLAPS

(* The part of the state malloc reads and writes, taken as arguments so    *)
(* that a step can be followed through the outcome of a call.              *)
WellFormed(brk, ch, bl) ==
  /\ brk \in Nat
  /\ ch \in Seq(Nat)
  /\ DOMAIN bl = {ch[i] : i \in DOMAIN ch}
  /\ \A a \in DOMAIN bl : bl[a] \in Headers
  /\ brk = 0 => ch = <<>>
  /\ \A i \in DOMAIN ch : ch[i] <= brk
  /\ \A i, j \in DOMAIN ch : i < j => ch[i] < ch[j]

(* The program's pointers are NULL or point behind a header.               *)
Pointers(h, bl) ==
  /\ h \in [Slots -> [ptr : Nat, size : Nat]]
  /\ \A c \in Slots : h[c].ptr # NULL => HeaderOf(h[c].ptr) \in DOMAIN bl

(* The list names every header once and in ascending order, because a      *)
(* block is linked at the break, which never moves down.                   *)
IInv ==
  /\ WellFormed(current_brk, chain, block)
  /\ Pointers(held, block)
  /\ kernel_brk \in Nat /\ StartBrk <= kernel_brk
  /\ current_brk \in {0, kernel_brk}
  /\ status \in {"run", "aborted", "killed", "overlapped"}

-----------------------------------------------------------------------------
(* The break *)

LEMMA PaddingType ==
  ASSUME NEW b \in Nat
  PROVE  Padding(b) \in Nat
<1>1. Alignment \in Nat \ {0}
  BY LayoutAssumption
<1>2. (Alignment - (b % Alignment)) \in Int
  BY <1>1
<1>3. QED
  BY <1>1, <1>2 DEF Padding

LEMMA BrkAfterType ==
  ASSUME NEW from \in Nat, NEW inc \in Nat
  PROVE  /\ BrkAfter(from, inc) \in Nat
         /\ BrkAfter(from, inc) >= from
         /\ BrkAfter(from, inc) <= from + inc
         /\ from + inc <= MaxBrk => BrkAfter(from, inc) = from + inc
BY BreakAssumption DEF BrkAfter

LEMMA CurrBrkType ==
  ASSUME IInv
  PROVE  /\ CurrBrk = kernel_brk
         /\ CurrBrk \in Nat
         /\ CurrBrk >= current_brk
         /\ CurrBrk > 0
BY BreakAssumption DEF IInv, WellFormed, CurrBrk, KernelBrk

(* What touching memory comes to, and that it comes to nothing below the   *)
(* break.                                                                  *)
LEMMA TouchedStatus ==
  ASSUME NEW st, NEW b, NEW p, NEW n, NEW t \in Touched(st, b, p, n)
  PROVE  t \in {st, "killed"}
BY DEF Touched

LEMMA TouchedBelow ==
  ASSUME NEW b \in Nat, NEW p \in Nat, NEW n \in Nat, p # NULL, p + n <= b
  PROVE  Touched("run", b, p, n) = {"run"}
BY DEF Touched

-----------------------------------------------------------------------------
(* The block list *)

LEMMA LinkWellFormed ==
  ASSUME NEW brk \in Nat, NEW a \in Nat, NEW top \in Nat, NEW h \in Headers,
         WellFormed(brk, chain, block), brk <= a, a <= top, a > 0
  PROVE  /\ WellFormed(top, Link(a), Set(block, a, h))
         /\ DOMAIN block \subseteq DOMAIN Set(block, a, h)
         /\ a \in DOMAIN Set(block, a, h)
<1>1. CASE \E i \in DOMAIN chain : chain[i] = a
  <2>1. PICK k \in DOMAIN chain : /\ chain[k] = a
                                  /\ k = CHOOSE i \in DOMAIN chain : chain[i] = a
    BY <1>1
  <2>2. chain \in Seq(Nat) /\ k \in 1..Len(chain)
    BY <2>1 DEF WellFormed
  <2>3. k = Len(chain)
    <3> SUFFICES ASSUME k < Len(chain) PROVE FALSE
      BY <2>2
    <3>1. Len(chain) \in DOMAIN chain
      BY <2>2
    <3>2. chain[k] < chain[Len(chain)]
      BY <2>1, <2>2, <3>1 DEF WellFormed
    <3>3. chain[Len(chain)] <= brk
      BY <3>1 DEF WellFormed
    <3>4. chain[Len(chain)] \in Nat
      BY <2>2, <3>1
    <3> QED
      BY <2>1, <2>2, <3>2, <3>3, <3>4
  <2>4. Link(a) = chain
    <3>1. Link(a) = SubSeq(chain, 1, k)
      BY <1>1, <2>1 DEF Link
    <3>2. SubSeq(chain, 1, Len(chain)) = chain
      BY <2>2
    <3> QED
      BY <3>1, <3>2, <2>3
  <2>5. a \in DOMAIN block
    BY <2>1 DEF WellFormed
  <2>6. DOMAIN Set(block, a, h) = DOMAIN block
    BY <2>5 DEF Set
  <2>7. \A x \in DOMAIN block : Set(block, a, h)[x] \in Headers
    BY <2>6 DEF Set, WellFormed
  <2> QED
    BY <2>2, <2>4, <2>5, <2>6, <2>7 DEF WellFormed
<1>2. CASE ~ \E i \in DOMAIN chain : chain[i] = a
  <2>1. Link(a) = Append(chain, a)
    BY <1>2 DEF Link
  <2>2. /\ chain \in Seq(Nat)
        /\ Append(chain, a) \in Seq(Nat)
        /\ Len(Append(chain, a)) = Len(chain) + 1
        /\ DOMAIN Append(chain, a) = 1..Len(chain) + 1
        /\ \A i \in 1..Len(chain) : Append(chain, a)[i] = chain[i]
        /\ Append(chain, a)[Len(chain) + 1] = a
    BY DEF WellFormed
  <2>3. \A i \in 1..Len(chain) : chain[i] \in Nat /\ chain[i] <= brk /\ chain[i] # a
    BY <1>2, <2>2 DEF WellFormed
  <2>4. \A i \in DOMAIN Append(chain, a) : Append(chain, a)[i] <= top
    BY <2>2, <2>3
  <2>5. \A i, j \in DOMAIN Append(chain, a) :
           i < j => Append(chain, a)[i] < Append(chain, a)[j]
    <3> SUFFICES ASSUME NEW i \in DOMAIN Append(chain, a), NEW j \in DOMAIN Append(chain, a),
                        i < j
                 PROVE  Append(chain, a)[i] < Append(chain, a)[j]
      OBVIOUS
    <3>1. CASE j = Len(chain) + 1
      BY <3>1, <2>2, <2>3
    <3>2. CASE j \in 1..Len(chain)
      BY <3>2, <2>2 DEF WellFormed
    <3> QED
      BY <3>1, <3>2, <2>2
  <2>6. DOMAIN Set(block, a, h) = {Append(chain, a)[i] : i \in DOMAIN Append(chain, a)}
    <3>1. DOMAIN Set(block, a, h) = {chain[i] : i \in 1..Len(chain)} \cup {a}
      BY <2>2 DEF Set, WellFormed
    <3> DEFINE l == Append(chain, a)
               k == Len(chain)
    <3>2. /\ k \in Nat /\ DOMAIN l = 1..k + 1 /\ l[k + 1] = a
          /\ \A i \in 1..k : l[i] = chain[i]
      BY <2>2
    <3>3. {l[i] : i \in DOMAIN l} = {chain[i] : i \in 1..k} \cup {a}
      <4> HIDE DEF l, k
      <4>1. 1..k + 1 = 1..k \cup {k + 1}
        BY ONLY <3>2
      <4> QED
        BY ONLY <3>2, <4>1
    <3> QED
      BY ONLY <3>1, <3>3 DEF l, k
  <2>7. \A x \in DOMAIN Set(block, a, h) : Set(block, a, h)[x] \in Headers
    BY DEF Set, WellFormed
  <2>8. DOMAIN block \subseteq DOMAIN Set(block, a, h) /\ a \in DOMAIN Set(block, a, h)
    BY DEF Set
  <2>9. top # 0
    OBVIOUS
  <2>10. WellFormed(top, Append(chain, a), Set(block, a, h))
    BY <2>2, <2>4, <2>5, <2>6, <2>7, <2>9 DEF WellFormed
  <2> QED
    BY <2>1, <2>8, <2>10
<1> QED
  BY <1>1, <1>2

(* Changing the flag or the payload of a block keeps the list well formed. *)
LEMMA HeaderChange ==
  ASSUME NEW brk, NEW ch, NEW bl, NEW new, WellFormed(brk, ch, bl),
         DOMAIN new = DOMAIN bl, \A a \in DOMAIN new : new[a] \in Headers
  PROVE  WellFormed(brk, ch, new)
BY DEF WellFormed

LEMMA FreeFlag ==
  ASSUME NEW bl, NEW a \in DOMAIN bl, NEW b \in BOOLEAN, bl[a] \in Headers
  PROVE  [bl EXCEPT ![a].free = b][a] \in Headers
BY DEF Headers

LEMMA NewData ==
  ASSUME NEW bl, NEW a \in DOMAIN bl, NEW d \in Contents, bl[a] \in Headers
  PROVE  [bl EXCEPT ![a].data = d][a] \in Headers
BY DEF Headers

-----------------------------------------------------------------------------
(* malloc *)

LEMMA MallocOutcome ==
  ASSUME IInv, NEW n \in Nat, NEW o \in MallocOutcomes(n)
  PROVE  /\ WellFormed(o.brk, o.chain, o.block)
         /\ o.brk \in {0, kernel_brk} \/ o.brk >= kernel_brk
         /\ DOMAIN block \subseteq DOMAIN o.block
         /\ o.ptr \in Nat
         /\ o.ptr # NULL => HeaderOf(o.ptr) \in DOMAIN o.block
         /\ o.status \in {status, "killed", "overlapped"}
<1>0. /\ WellFormed(current_brk, chain, block)
      /\ HeaderSize \in Nat \ {0}
      /\ current_brk \in Nat /\ chain \in Seq(Nat)
      /\ \A i \in DOMAIN chain : chain[i] \in Nat /\ chain[i] \in DOMAIN block
  BY LayoutAssumption DEF IInv, WellFormed
<1>1. CASE n = 0
  BY <1>0, <1>1 DEF MallocOutcomes, Outcome, IInv, NULL
<1>2. CASE n # 0 /\ Available(n) # {}
  <2>1. PICK i \in FirstFit(n) : o = Reuse(chain[i])
    BY <1>2 DEF MallocOutcomes
  <2>2. i \in DOMAIN chain
    BY DEF FirstFit, Available
  <2> DEFINE a == chain[i]
             new == [block EXCEPT ![a].free = FALSE]
  <2>3. a \in Nat /\ a \in DOMAIN block
    BY <1>0, <2>2
  <2>4. /\ o.ptr = a + HeaderSize /\ o.brk = current_brk
        /\ o.chain = chain /\ o.block = new /\ o.status = status
    BY <2>1 DEF Reuse, Outcome, Payload
  <2>5. DOMAIN new = DOMAIN block
    OBVIOUS
  <2>6. \A x \in DOMAIN block : block[x] \in Headers
    BY <1>0 DEF WellFormed
  <2>7. \A x \in DOMAIN new : new[x] \in Headers
    <3> TAKE x \in DOMAIN new
    <3>1. CASE x = a
      BY <3>1, <2>3, <2>6, FreeFlag
    <3>2. CASE x # a
      BY <3>2, <2>5, <2>6
    <3> QED
      BY <3>1, <3>2
  <2>8. WellFormed(current_brk, chain, new)
    BY <1>0, <2>5, <2>7, HeaderChange
  <2>9. HeaderOf(o.ptr) = a
    BY <1>0, <2>3, <2>4 DEF HeaderOf
  <2> HIDE DEF new, a
  <2> QED
    BY <1>0, <2>3, <2>4, <2>5, <2>8, <2>9 DEF IInv
<1>3. CASE n # 0 /\ Available(n) = {}
  <2> DEFINE a == BrkAfter(CurrBrk, Padding(CurrBrk))
             top == BrkAfter(a, n + HeaderSize)
             data == IF a \in DOMAIN block THEN block[a].data ELSE Junk
             h == [size |-> n, free |-> FALSE, data |-> data]
             placed == Outcome(Payload(a), top, Link(a), Set(block, a, h), status)
  <2>1. o \in Grow(n)
    BY <1>3 DEF MallocOutcomes
  <2>2. CurrBrk \in Nat /\ CurrBrk = kernel_brk /\ CurrBrk >= current_brk /\ CurrBrk > 0
    BY CurrBrkType
  <2>3. Padding(CurrBrk) \in Nat
    BY <2>2, PaddingType
  <2>4. a \in Nat /\ a >= CurrBrk
    BY <2>2, <2>3, BrkAfterType
  <2> HIDE DEF a
  <2>5. top \in Nat /\ top >= a
    <3>1. n + HeaderSize \in Nat
      BY <1>0
    <3> QED
      BY <2>4, <3>1, BrkAfterType
  <2>6. h \in Headers
    <3>1. data \in Contents
      BY <1>0 DEF Headers, Contents, WellFormed
    <3> HIDE DEF data
    <3> QED
      BY <3>1 DEF Headers
  <2>7. o \in {placed, Outcome(NULL, a, chain, block, status),
                Outcome(NULL, top, chain, block, "overlapped"),
                Outcome(NULL, top, chain, block, "killed")}
    <3>1. o \in {Outcome(NULL, a, chain, block, status),
                 Outcome(NULL, top, chain, block, "overlapped")}
          \/ \E st \in Touched(status, top, a, HeaderSize) :
               o = IF st = "killed" THEN Outcome(NULL, top, chain, block, st) ELSE placed
      BY <2>1 DEF Grow, a
    <3> HIDE DEF top, placed
    <3> QED
      BY <3>1
  <2> HIDE DEF top, h, data
  <2>8. CASE o = placed
    <3>1. /\ WellFormed(top, Link(a), Set(block, a, h))
          /\ DOMAIN block \subseteq DOMAIN Set(block, a, h)
          /\ a \in DOMAIN Set(block, a, h)
      BY <1>0, <2>2, <2>4, <2>5, <2>6, LinkWellFormed
    <3>2. /\ o.ptr = a + HeaderSize /\ o.brk = top /\ o.chain = Link(a)
          /\ o.block = Set(block, a, h) /\ o.status = status
      BY <2>8 DEF Outcome, Payload
    <3>3. HeaderOf(o.ptr) = a /\ o.ptr \in Nat
      BY <1>0, <2>4, <3>2 DEF HeaderOf
    <3>4. top >= kernel_brk
      BY <2>2, <2>4, <2>5
    <3> QED
      BY <3>1, <3>2, <3>3, <3>4
  <2>9. ASSUME NEW b \in {a, top}, NEW st \in {status, "killed", "overlapped"},
               o = Outcome(NULL, b, chain, block, st)
        PROVE  /\ WellFormed(o.brk, o.chain, o.block)
               /\ o.brk >= kernel_brk
               /\ DOMAIN block \subseteq DOMAIN o.block
               /\ o.ptr \in Nat /\ o.ptr = NULL
               /\ o.status \in {status, "killed", "overlapped"}
    <3>1. b \in Nat /\ b >= current_brk /\ b > 0 /\ b >= kernel_brk
      BY <1>0, <2>2, <2>4, <2>5
    <3>2. WellFormed(b, chain, block)
      BY <1>0, <3>1 DEF WellFormed
    <3> QED
      BY <2>9, <3>1, <3>2 DEF Outcome, NULL
  <2> QED
    BY <2>7, <2>8, <2>9
<1> QED
  BY <1>1, <1>2, <1>3

(* Adopting an outcome with another status.                                *)
LEMMA OutcomeStatus ==
  ASSUME NEW n, NEW o \in MallocOutcomes(n), NEW st, Adopt([o EXCEPT !.status = st])
  PROVE  /\ current_brk' = o.brk /\ chain' = o.chain /\ status' = st
         /\ kernel_brk' = IF o.brk = 0 THEN kernel_brk ELSE o.brk
<1>1. \E p, b, ch, bl, s : o = Outcome(p, b, ch, bl, s)
  BY DEF MallocOutcomes, Reuse, Grow
<1> QED
  BY <1>1 DEF Adopt, Outcome

-----------------------------------------------------------------------------
(* The steps *)

LEMMA InitIInv == Init => IInv
BY BreakAssumption DEF Init, IInv, WellFormed, Pointers, NoObject, NULL

(* Adopting the break and the list of an outcome of malloc, with blocks at *)
(* the same addresses.                                                     *)
LEMMA AdoptIInv ==
  ASSUME IInv, NEW n \in Nat, NEW o \in MallocOutcomes(n),
         current_brk' = o.brk, chain' = o.chain,
         kernel_brk' = IF o.brk = 0 THEN kernel_brk ELSE o.brk,
         status' \in {"run", "aborted", "killed", "overlapped"},
         DOMAIN block' = DOMAIN o.block,
         \A a \in DOMAIN block' : block'[a] \in Headers,
         Pointers(held', block')
  PROVE  IInv'
<1>1. /\ WellFormed(o.brk, o.chain, o.block)
      /\ o.brk \in {0, kernel_brk} \/ o.brk >= kernel_brk
  BY MallocOutcome
<1>2. WellFormed(current_brk', chain', block')
  BY <1>1, HeaderChange
<1>3. o.brk \in Nat
  BY <1>1 DEF WellFormed
<1>4. /\ kernel_brk' \in Nat /\ StartBrk <= kernel_brk'
      /\ current_brk' \in {0, kernel_brk'}
  BY <1>1, <1>3, BreakAssumption DEF IInv
<1> QED
  BY <1>2, <1>4 DEF IInv

(* Giving slot c a pointer to a block, or NULL, when no block disappears.  *)
LEMMA HoldPointers ==
  ASSUME NEW c \in Slots, NEW p \in Nat, NEW n \in Nat, NEW bl,
         Pointers(held, block), DOMAIN block \subseteq DOMAIN bl,
         p # NULL => HeaderOf(p) \in DOMAIN bl, Hold(c, p, n)
  PROVE  Pointers(held', bl)
BY DEF Pointers, Hold, NoObject, NULL

(* What is in a block is a header whatever is stored in it.                *)
LEMMA StoreHeaders ==
  ASSUME NEW bl, NEW a \in DOMAIN bl, NEW d \in Contents,
         \A x \in DOMAIN bl : bl[x] \in Headers
  PROVE  LET new == [bl EXCEPT ![a].data = d]
         IN  DOMAIN new = DOMAIN bl /\ \A x \in DOMAIN new : new[x] \in Headers
<1> DEFINE new == [bl EXCEPT ![a].data = d]
<1>1. DOMAIN new = DOMAIN bl
  OBVIOUS
<1>2. new[a] \in Headers
  BY NewData
<1>3. \A x \in DOMAIN bl : x # a => new[x] = bl[x]
  OBVIOUS
<1> HIDE DEF new
<1>4. \A x \in DOMAIN new : new[x] \in Headers
  BY <1>1, <1>2, <1>3
<1> QED
  BY <1>1, <1>4 DEF new

LEMMA FreedHeaders ==
  ASSUME NEW bl, NEW a \in DOMAIN bl, NEW st,
         \A x \in DOMAIN bl : bl[x] \in Headers
  PROVE  LET f == Freed(bl, a, st)
         IN  /\ DOMAIN f.block = DOMAIN bl
             /\ \A x \in DOMAIN f.block : f.block[x] \in Headers
             /\ f.status \in {st, "aborted"}
<1> DEFINE new == [bl EXCEPT ![a].free = TRUE]
<1>1. DOMAIN new = DOMAIN bl
  OBVIOUS
<1>2. new[a] \in Headers
  BY FreeFlag
<1>3. \A x \in DOMAIN bl : x # a => new[x] = bl[x]
  OBVIOUS
<1> HIDE DEF new
<1>4. \A x \in DOMAIN new : new[x] \in Headers
  BY <1>1, <1>2, <1>3
<1>5. CASE bl[a].free
  BY <1>5 DEF Freed
<1>6. CASE ~bl[a].free
  <2>1. Freed(bl, a, st).block = new /\ Freed(bl, a, st).status = st
    BY <1>6 DEF Freed, new
  <2> QED
    BY <2>1, <1>1, <1>4
<1> QED
  BY <1>5, <1>6

LEMMA MallocIInv ==
  ASSUME IInv, NEW c \in Slots, NEW n \in Nat, Malloc(c, n)
  PROVE  IInv'
<1>1. PICK o \in MallocOutcomes(n) : Adopt(o) /\ block' = o.block /\ Hold(c, o.ptr, n)
  BY DEF Malloc
<1>2. /\ WellFormed(o.brk, o.chain, o.block)
      /\ DOMAIN block \subseteq DOMAIN o.block
      /\ o.ptr \in Nat
      /\ o.ptr # NULL => HeaderOf(o.ptr) \in DOMAIN o.block
      /\ o.status \in {status, "killed", "overlapped"}
  BY MallocOutcome
<1>3. Pointers(held', block')
  BY <1>1, <1>2, HoldPointers DEF IInv
<1>4. /\ current_brk' = o.brk /\ chain' = o.chain /\ status' \in {"run", "aborted", "killed", "overlapped"}
      /\ kernel_brk' = IF o.brk = 0 THEN kernel_brk ELSE o.brk
  BY <1>1, <1>2 DEF Adopt, IInv
<1>5. \A a \in DOMAIN block' : block'[a] \in Headers
  BY <1>1, <1>2 DEF WellFormed
<1> QED
  BY <1>1, <1>3, <1>4, <1>5, AdoptIInv

LEMMA CallocIInv ==
  ASSUME IInv, NEW c \in Slots, NEW n \in Nat, Calloc(c, n)
  PROVE  IInv'
<1>1. PICK o \in MallocOutcomes(n) :
        /\ \E st \in Touched(o.status, o.brk, o.ptr, n) : Adopt([o EXCEPT !.status = st])
        /\ block' = IF o.ptr = NULL THEN o.block
                    ELSE [o.block EXCEPT ![HeaderOf(o.ptr)].data = Zero]
        /\ Hold(c, o.ptr, n)
  BY DEF Calloc
<1>2. /\ WellFormed(o.brk, o.chain, o.block)
      /\ DOMAIN block \subseteq DOMAIN o.block
      /\ o.ptr \in Nat
      /\ o.ptr # NULL => HeaderOf(o.ptr) \in DOMAIN o.block
      /\ o.status \in {status, "killed", "overlapped"}
  BY MallocOutcome
<1>3. /\ DOMAIN block' = DOMAIN o.block
      /\ \A a \in DOMAIN block' : block'[a] \in Headers
  <2>1. \A a \in DOMAIN o.block : o.block[a] \in Headers
    BY <1>2 DEF WellFormed
  <2>2. CASE o.ptr = NULL
    BY <1>1, <2>1, <2>2
  <2>3. CASE o.ptr # NULL
    <3>1. HeaderOf(o.ptr) \in DOMAIN o.block /\ Zero \in Contents
      BY <1>2, <2>3 DEF Contents
    <3>2. block' = [o.block EXCEPT ![HeaderOf(o.ptr)].data = Zero]
      BY <1>1, <2>3
    <3> QED
      BY <2>1, <3>1, <3>2, StoreHeaders
  <2> QED
    BY <2>2, <2>3
<1>4. Pointers(held', block')
  BY <1>1, <1>2, <1>3, HoldPointers DEF IInv
<1>5. /\ current_brk' = o.brk /\ chain' = o.chain /\ status' \in {"run", "aborted", "killed", "overlapped"}
      /\ kernel_brk' = IF o.brk = 0 THEN kernel_brk ELSE o.brk
  <2>1. PICK st \in Touched(o.status, o.brk, o.ptr, n) : Adopt([o EXCEPT !.status = st])
    BY <1>1
  <2>2. st \in {o.status, "killed"}
    BY TouchedStatus
  <2>3. /\ current_brk' = o.brk /\ chain' = o.chain /\ status' = st
        /\ kernel_brk' = IF o.brk = 0 THEN kernel_brk ELSE o.brk
    BY <2>1, OutcomeStatus
  <2> QED
    BY <1>2, <2>2, <2>3 DEF IInv
<1> QED
  BY <1>3, <1>4, <1>5, AdoptIInv

LEMMA ReallocMoveIInv ==
  ASSUME IInv, NEW c \in Slots, NEW n \in Nat, ReallocMove(c, n)
  PROVE  IInv'
<1> DEFINE old == HeaderOf(held[c].ptr)
<1>1. PICK o \in MallocOutcomes(n) :
        IF o.ptr = NULL
        THEN Adopt(o) /\ block' = o.block /\ UNCHANGED held
        ELSE LET len == o.block[old].size
                 f == Freed(Copied(o.block, HeaderOf(o.ptr), old), old, o.status) IN
             /\ \E st \in Touched(o.status, o.brk, o.ptr, len) \cup
                         Touched(o.status, o.brk, held[c].ptr, len) :
                  Adopt([o EXCEPT !.status = IF st = "run" THEN f.status ELSE st])
             /\ block' = f.block
             /\ Hold(c, o.ptr, n)
  BY DEF ReallocMove
<1>2. /\ WellFormed(o.brk, o.chain, o.block)
      /\ DOMAIN block \subseteq DOMAIN o.block
      /\ o.ptr \in Nat
      /\ o.ptr # NULL => HeaderOf(o.ptr) \in DOMAIN o.block
      /\ o.status \in {status, "killed", "overlapped"}
  BY MallocOutcome
<1>3. \A a \in DOMAIN o.block : o.block[a] \in Headers
  BY <1>2 DEF WellFormed
<1>4. CASE o.ptr = NULL
  <2>1. Adopt(o) /\ block' = o.block /\ held' = held
    BY <1>1, <1>4
  <2>2. Pointers(held', block')
    BY <1>2, <2>1 DEF IInv, Pointers
  <2>3. /\ current_brk' = o.brk /\ chain' = o.chain /\ status' \in {"run", "aborted", "killed", "overlapped"}
        /\ kernel_brk' = IF o.brk = 0 THEN kernel_brk ELSE o.brk
    BY <1>2, <2>1 DEF Adopt, IInv
  <2> QED
    BY <1>3, <2>1, <2>2, <2>3, AdoptIInv
<1>5. CASE o.ptr # NULL
  <2> DEFINE copy == Copied(o.block, HeaderOf(o.ptr), old)
             f == Freed(copy, old, o.status)
             len == o.block[old].size
  <2>1. /\ \E st \in Touched(o.status, o.brk, o.ptr, len) \cup
                     Touched(o.status, o.brk, held[c].ptr, len) :
              Adopt([o EXCEPT !.status = IF st = "run" THEN f.status ELSE st])
        /\ block' = f.block /\ Hold(c, o.ptr, n)
    BY <1>1, <1>5
  <2>2. old \in DOMAIN o.block
    BY <1>2 DEF ReallocMove, IInv, Pointers
  <2>3. o.block[old].data \in Contents
    BY <1>3, <2>2 DEF Headers
  <2>4. DOMAIN copy = DOMAIN o.block /\ \A a \in DOMAIN copy : copy[a] \in Headers
    BY <1>2, <1>3, <1>5, <2>3, StoreHeaders DEF Copied
  <2> HIDE DEF copy
  <2>5. /\ DOMAIN f.block = DOMAIN o.block
        /\ \A a \in DOMAIN f.block : f.block[a] \in Headers
        /\ f.status \in {o.status, "aborted"}
    BY <2>2, <2>4, FreedHeaders
  <2> HIDE DEF f
  <2>6. Pointers(held', block')
    BY <1>2, <2>1, <2>5, HoldPointers DEF IInv
  <2>7. /\ current_brk' = o.brk /\ chain' = o.chain
        /\ status' \in {f.status, o.status, "killed"}
        /\ kernel_brk' = IF o.brk = 0 THEN kernel_brk ELSE o.brk
    <3>1. PICK st \in Touched(o.status, o.brk, o.ptr, len) \cup
                     Touched(o.status, o.brk, held[c].ptr, len) :
                 Adopt([o EXCEPT !.status = IF st = "run" THEN f.status ELSE st])
      BY <2>1
    <3>2. st \in {o.status, "killed"}
      BY TouchedStatus
    <3> DEFINE t == IF st = "run" THEN f.status ELSE st
    <3>3. t \in {f.status, o.status, "killed"}
      BY <3>2
    <3> HIDE DEF t
    <3>4. /\ current_brk' = o.brk /\ chain' = o.chain /\ status' = t
          /\ kernel_brk' = IF o.brk = 0 THEN kernel_brk ELSE o.brk
      BY <3>1, OutcomeStatus DEF t
    <3> QED
      BY <3>3, <3>4
  <2>8. status' \in {"run", "aborted", "killed", "overlapped"}
    BY <1>2, <2>5, <2>7 DEF IInv
  <2> QED
    BY <2>1, <2>5, <2>6, <2>7, <2>8, AdoptIInv
<1> QED
  BY <1>4, <1>5

LEMMA OtherStepsIInv ==
  ASSUME IInv, NEW c \in Slots
  PROVE  /\ \A n \in Nat : ReallocInPlace(c, n) => IInv'
         /\ Free(c) => IInv'
         /\ \A v \in Values : Store(c, v) => IInv'
<1>0. \A a \in DOMAIN block : block[a] \in Headers
  BY DEF IInv, WellFormed
<1>1. ASSUME NEW n \in Nat, ReallocInPlace(c, n) PROVE IInv'
  <2>1. Pointers(held', block')
    BY <1>1 DEF ReallocInPlace, IInv, Pointers
  <2> QED
    BY <1>1, <2>1 DEF ReallocInPlace, IInv
<1>2. ASSUME Free(c) PROVE IInv'
  <2> DEFINE a == HeaderOf(held[c].ptr)
             f == Freed(block, a, status)
  <2>1. a \in DOMAIN block
    BY <1>2 DEF Free, IInv, Pointers
  <2>2. /\ DOMAIN f.block = DOMAIN block
        /\ \A x \in DOMAIN f.block : f.block[x] \in Headers
        /\ f.status \in {status, "aborted"}
    BY <1>0, <2>1, FreedHeaders
  <2>3. /\ block' = f.block /\ status' = f.status
        /\ held' = [held EXCEPT ![c] = NoObject]
        /\ UNCHANGED <<current_brk, kernel_brk, chain>>
    BY <1>2 DEF Free
  <2> HIDE DEF a, f
  <2>4. WellFormed(current_brk, chain, f.block)
    BY <2>2, HeaderChange DEF IInv
  <2>5. Pointers(held', block')
    BY <2>2, <2>3 DEF IInv, Pointers, NoObject, NULL
  <2> QED
    BY <2>2, <2>3, <2>4, <2>5 DEF IInv
<1>3. ASSUME NEW v \in Values, Store(c, v) PROVE IInv'
  <2> DEFINE a == HeaderOf(held[c].ptr)
             new == [block EXCEPT ![a].data = v]
  <2>1. a \in DOMAIN block /\ v \in Contents
    BY <1>3 DEF Store, IInv, Pointers, Contents
  <2>2. DOMAIN new = DOMAIN block /\ \A x \in DOMAIN new : new[x] \in Headers
    BY <1>0, <2>1, StoreHeaders
  <2>3. block' = new /\ UNCHANGED <<current_brk, kernel_brk, chain, held>>
    BY <1>3 DEF Store
  <2>4. status' \in {status, "killed"}
    BY <1>3, TouchedStatus DEF Store
  <2> HIDE DEF a, new
  <2>5. WellFormed(current_brk, chain, new)
    BY <2>2, HeaderChange DEF IInv
  <2> QED
    BY <2>2, <2>3, <2>4, <2>5 DEF IInv, Pointers
<1> QED
  BY <1>1, <1>2, <1>3

LEMMA SbrkIInv ==
  ASSUME IInv, NEW inc \in Nat, Sbrk(inc)
  PROVE  IInv'
<1> DEFINE b == BrkAfter(CurrBrk, inc)
<1>1. /\ CurrBrk \in Nat /\ CurrBrk = kernel_brk /\ CurrBrk >= current_brk /\ CurrBrk > 0
      /\ current_brk \in Nat
  BY CurrBrkType DEF IInv, WellFormed
<1>2. b \in Nat /\ b >= CurrBrk
  BY <1>1, BrkAfterType
<1>3. /\ current_brk' = b /\ kernel_brk' = b
      /\ UNCHANGED <<chain, block, held, status>>
  BY DEF Sbrk
<1> HIDE DEF b
<1>4. WellFormed(b, chain, block)
  BY <1>1, <1>2 DEF IInv, WellFormed
<1>5. StartBrk <= b
  BY <1>1, <1>2, BreakAssumption DEF IInv
<1> QED
  BY <1>2, <1>3, <1>4, <1>5 DEF IInv

LEMMA NextIInv == IInv /\ [Next]_vars => IInv'
<1> SUFFICES ASSUME IInv, [Next]_vars PROVE IInv'
  OBVIOUS
<1>1. ASSUME NEW c \in Slots, NEW n \in Sizes,
             Malloc(c, n) \/ Calloc(c, n) \/ ReallocInPlace(c, n) \/ ReallocMove(c, n)
      PROVE  IInv'
  <2>1. n \in Nat
    BY SizesAssumption
  <2> QED
    BY <1>1, <2>1, MallocIInv, CallocIInv, ReallocMoveIInv, OtherStepsIInv
<1>2. ASSUME NEW c \in Slots, Free(c) \/ \E v \in Values : Store(c, v)
      PROVE  IInv'
  BY <1>2, OtherStepsIInv
<1>3. ASSUME NEW inc \in Increments, Sbrk(inc)
      PROVE  IInv'
  BY <1>3, SizesAssumption, SbrkIInv
<1>4. CASE UNCHANGED vars
  BY <1>4 DEF vars, IInv, Pointers
<1> QED
  BY <1>1, <1>2, <1>3, <1>4 DEF Next

-----------------------------------------------------------------------------
(* Alignment, of every program: a block is only linked where the padding   *)
(* was granted.                                                            *)

LEMMA Remainder ==
  ASSUME NEW b \in Nat
  PROVE  b = Alignment * (b \div Alignment) + (b % Alignment)
         /\ b % Alignment \in 0..(Alignment - 1) /\ b \div Alignment \in Nat
BY LayoutAssumption

LEMMA MultipleAligned ==
  ASSUME NEW q \in Nat
  PROVE  (Alignment * q) % Alignment = 0
BY LayoutAssumption

LEMMA PaddingAligns ==
  ASSUME NEW b \in Nat
  PROVE  (b + Padding(b)) % Alignment = 0
<1> DEFINE q == b \div Alignment
           r == b % Alignment
<1>1. b = Alignment * q + r /\ r \in 0..(Alignment - 1) /\ q \in Nat
  BY Remainder
<1>2. Padding(b) = (Alignment - r) % Alignment
  BY DEF Padding
<1> HIDE DEF q, r
<1>3. CASE r = 0
  <2>1. (Alignment - r) % Alignment = 0
    BY <1>3, LayoutAssumption
  <2>2. b + Padding(b) = Alignment * q
    BY <1>1, <1>2, <1>3, <2>1, LayoutAssumption
  <2> QED
    BY <1>1, <2>2, MultipleAligned
<1>4. CASE r # 0
  <2>1. (Alignment - r) % Alignment = Alignment - r
    BY <1>1, <1>4, LayoutAssumption
  <2>2. b + Padding(b) = Alignment * (q + 1)
    BY <1>1, <1>2, <1>4, <2>1, LayoutAssumption
  <2> QED
    BY <1>1, <2>2, MultipleAligned
<1> QED
  BY <1>3, <1>4

(* Linking an aligned address keeps the list aligned.                      *)
LEMMA LinkAligned ==
  ASSUME Aligned, chain \in Seq(Nat), NEW a \in Nat, a % Alignment = 0
  PROVE  \A i \in DOMAIN Link(a) : Link(a)[i] % Alignment = 0
<1>1. CASE \E i \in DOMAIN chain : chain[i] = a
  <2> DEFINE k == CHOOSE i \in DOMAIN chain : chain[i] = a
  <2>1. k \in 1..Len(chain) /\ Link(a) = SubSeq(chain, 1, k)
    BY <1>1 DEF Link
  <2> HIDE DEF k
  <2>2. /\ DOMAIN SubSeq(chain, 1, k) = 1..k
        /\ \A i \in 1..k : SubSeq(chain, 1, k)[i] = chain[i] /\ i \in DOMAIN chain
    BY <2>1
  <2> QED
    BY <2>1, <2>2 DEF Aligned
<1>2. CASE ~ \E i \in DOMAIN chain : chain[i] = a
  <2>1. Link(a) = Append(chain, a)
    BY <1>2 DEF Link
  <2>2. /\ DOMAIN Append(chain, a) = 1..Len(chain) + 1
        /\ \A i \in 1..Len(chain) : Append(chain, a)[i] = chain[i]
        /\ Append(chain, a)[Len(chain) + 1] = a
        /\ DOMAIN chain = 1..Len(chain) /\ Len(chain) \in Nat
    OBVIOUS
  <2> QED
    BY <2>1, <2>2 DEF Aligned
<1> QED
  BY <1>1, <1>2

LEMMA OutcomeAligned ==
  ASSUME IInv, Aligned, NEW n \in Nat, NEW o \in MallocOutcomes(n)
  PROVE  \A i \in DOMAIN o.chain : o.chain[i] % Alignment = 0
<1>1. CASE n = 0 \/ Available(n) # {}
  <2>1. CASE n = 0
    BY <2>1 DEF MallocOutcomes, Outcome, Aligned
  <2>2. CASE n # 0 /\ Available(n) # {}
    <3>1. PICK i \in FirstFit(n) : o = Reuse(chain[i])
      BY <2>2 DEF MallocOutcomes
    <3> QED
      BY <3>1 DEF Outcome, Reuse, Aligned
  <2> QED
    BY <1>1, <2>1, <2>2
<1>2. CASE n # 0 /\ Available(n) = {}
  <2> DEFINE b == CurrBrk
             a == BrkAfter(b, Padding(b))
  <2>1. o \in Grow(n)
    BY <1>2 DEF MallocOutcomes
  <2>2. b \in Nat /\ Padding(b) \in Nat /\ a \in Nat /\ a <= b + Padding(b)
    BY CurrBrkType, PaddingType, BrkAfterType
  <2>3. CASE a < b + Padding(b)
    BY <2>1, <2>3 DEF Grow, Outcome, Aligned
  <2>4. CASE ~(a < b + Padding(b))
    <3>1. a % Alignment = 0
      BY <2>2, <2>4, PaddingAligns
    <3>2. o.chain \in {chain, Link(a)}
      <4> DEFINE top == BrkAfter(a, n + HeaderSize)
                 data == IF a \in DOMAIN block THEN block[a].data ELSE Junk
                 new == Set(block, a, [size |-> n, free |-> FALSE, data |-> data])
      <4>1. \/ o = Outcome(NULL, top, chain, block, "overlapped")
            \/ \E st \in Touched(status, top, a, HeaderSize) :
                 o = IF st = "killed" THEN Outcome(NULL, top, chain, block, st)
                     ELSE Outcome(Payload(a), top, Link(a), new, status)
        BY <2>1, <2>4 DEF Grow
      <4> HIDE DEF a, top, new
      <4> QED
        BY <4>1 DEF Outcome
    <3>3. \A i \in DOMAIN Link(a) : Link(a)[i] % Alignment = 0
      BY <2>2, <3>1, LinkAligned DEF IInv, WellFormed
    <3> QED
      BY <3>2, <3>3 DEF Aligned
  <2> QED
    BY <2>3, <2>4
<1> QED
  BY <1>1, <1>2

LEMMA NextAligned == IInv /\ Aligned /\ [Next]_vars => Aligned'
<1> SUFFICES ASSUME IInv, Aligned, [Next]_vars PROVE Aligned'
  OBVIOUS
<1>1. ASSUME NEW n \in Sizes, NEW o \in MallocOutcomes(n), chain' = o.chain PROVE Aligned'
  BY <1>1, SizesAssumption, OutcomeAligned DEF Aligned
<1>2. ASSUME chain' = chain PROVE Aligned'
  BY <1>2 DEF Aligned
<1>3. ASSUME NEW c \in Slots, NEW n \in Sizes, Malloc(c, n) \/ Calloc(c, n) \/ ReallocMove(c, n)
      PROVE  \E o \in MallocOutcomes(n) : chain' = o.chain
  <2>1. CASE Malloc(c, n)
    BY <2>1 DEF Malloc, Adopt
  <2>2. CASE Calloc(c, n)
    BY <2>2, OutcomeStatus DEF Calloc
  <2>3. CASE ReallocMove(c, n)
    <3> DEFINE old == HeaderOf(held[c].ptr)
    <3>1. PICK o \in MallocOutcomes(n) :
            IF o.ptr = NULL
            THEN Adopt(o)
            ELSE LET len == o.block[old].size
                     f == Freed(Copied(o.block, HeaderOf(o.ptr), old), old, o.status) IN
                 \E st \in Touched(o.status, o.brk, o.ptr, len) \cup
                          Touched(o.status, o.brk, held[c].ptr, len) :
                   Adopt([o EXCEPT !.status = IF st = "run" THEN f.status ELSE st])
      BY <2>3 DEF ReallocMove
    <3>2. Adopt(o) \/ \E t : Adopt([o EXCEPT !.status = t])
      BY <3>1
    <3>3. ASSUME NEW t, Adopt([o EXCEPT !.status = t]) PROVE chain' = o.chain
      BY <3>3, OutcomeStatus
    <3> QED
      BY <3>2, <3>3 DEF Adopt
  <2> QED
    BY <1>3, <2>1, <2>2, <2>3
<1>4. ASSUME NEW c \in Slots, NEW n \in Sizes, ReallocInPlace(c, n) PROVE chain' = chain
  BY <1>4 DEF ReallocInPlace
<1>5. ASSUME NEW c \in Slots, Free(c) \/ \E v \in Values : Store(c, v) PROVE chain' = chain
  BY <1>5 DEF Free, Store
<1>6. ASSUME NEW inc \in Increments, Sbrk(inc) PROVE chain' = chain
  BY <1>6 DEF Sbrk
<1>7. CASE UNCHANGED vars
  BY <1>2, <1>7 DEF vars
<1> QED
  BY <1>1, <1>2, <1>3, <1>4, <1>5, <1>6, <1>7 DEF Next

-----------------------------------------------------------------------------
(* The cautious program: no request moves the break past where the kernel  *)
(* refuses it.                                                             *)

(* Disjoint, of a break, a list and its blocks.                            *)
Apart(brk, ch, bl) ==
  \A i \in DOMAIN ch :
    /\ ch[i] + HeaderSize + bl[ch[i]].size <= brk
    /\ \A j \in DOMAIN ch : i < j => ch[i] + HeaderSize + bl[ch[i]].size <= ch[j]

(* Ownership, in addresses of blocks.                                      *)
Owned(h, bl) ==
  /\ \A c \in Slots : h[c].ptr # NULL => /\ ~bl[HeaderOf(h[c].ptr)].free
                                        /\ h[c].size <= bl[HeaderOf(h[c].ptr)].size
  /\ \A c, d \in Slots : c # d /\ h[c].ptr # NULL => h[c].ptr # h[d].ptr
  /\ \A a \in DOMAIN bl : ~bl[a].free => \E c \in Slots : h[c].ptr = Payload(a)

(* A step keeps every block where it is and as large as it is.             *)
Kept(ch, bl) ==
  /\ Len(chain) <= Len(ch)
  /\ \A i \in DOMAIN chain : ch[i] = chain[i] /\ bl[chain[i]].size = block[chain[i]].size

CInv ==
  /\ IInv
  /\ Apart(current_brk, chain, block)
  /\ Owned(held, block)
  /\ status = "run"

(* What malloc(n) hands out: the block at a, new or free until then.       *)
Gives(o, n, a) ==
  /\ a \in Nat
  /\ o.ptr = Payload(a)
  /\ o.status = "run"
  /\ DOMAIN o.block = DOMAIN block \cup {a}
  /\ a \in DOMAIN block => block[a].free
  /\ o.block[a] \in Headers /\ ~o.block[a].free /\ o.block[a].size >= n
  /\ \A x \in DOMAIN block : x # a => o.block[x] = block[x]
  /\ Apart(o.brk, o.chain, o.block)
  /\ Kept(o.chain, o.block)

LEMMA Typed ==
  ASSUME IInv
  PROVE  /\ current_brk \in Nat /\ chain \in Seq(Nat) /\ HeaderSize \in Nat \ {0}
         /\ DOMAIN chain = 1..Len(chain) /\ Len(chain) \in Nat
         /\ DOMAIN block = {chain[i] : i \in DOMAIN chain}
         /\ \A i \in DOMAIN chain : chain[i] \in Nat /\ chain[i] \in DOMAIN block
         /\ \A x \in DOMAIN block : x \in Nat /\ block[x] \in Headers
         /\ \A x \in DOMAIN block : /\ block[x].size \in Nat
                                    /\ block[x].free \in BOOLEAN
                                    /\ block[x].data \in Contents
         /\ held \in [Slots -> [ptr : Nat, size : Nat]]
         /\ \A c \in Slots : held[c].ptr \in Nat
         /\ \A c \in Slots : held[c].ptr # NULL =>
              /\ HeaderOf(held[c].ptr) \in DOMAIN block
              /\ Payload(HeaderOf(held[c].ptr)) = held[c].ptr
<1>1. /\ current_brk \in Nat /\ chain \in Seq(Nat)
      /\ DOMAIN block = {chain[i] : i \in DOMAIN chain}
      /\ \A x \in DOMAIN block : block[x] \in Headers
      /\ held \in [Slots -> [ptr : Nat, size : Nat]]
      /\ \A c \in Slots : held[c].ptr # NULL => HeaderOf(held[c].ptr) \in DOMAIN block
  BY DEF IInv, WellFormed, Pointers
<1>2. /\ DOMAIN chain = 1..Len(chain) /\ Len(chain) \in Nat
      /\ \A i \in DOMAIN chain : chain[i] \in Nat /\ chain[i] \in DOMAIN block
  BY <1>1
<1>3. \A x \in DOMAIN block : x \in Nat
  BY <1>1, <1>2
<1>4. \A h \in Headers : h.size \in Nat /\ h.free \in BOOLEAN /\ h.data \in Contents
  BY DEF Headers
<1>5. HeaderSize \in Nat \ {0}
  BY LayoutAssumption
<1>6. \A p \in Nat : Payload(HeaderOf(p)) = p
  BY <1>5 DEF Payload, HeaderOf
<1>7. \A c \in Slots : held[c].ptr \in Nat
  BY <1>1
<1> QED
  BY <1>1, <1>2, <1>3, <1>4, <1>5, <1>6, <1>7

LEMMA PayloadHeader ==
  ASSUME NEW a \in Nat
  PROVE  HeaderOf(Payload(a)) = a /\ Payload(a) # NULL /\ Payload(a) \in Nat
BY LayoutAssumption DEF Payload, HeaderOf, NULL

(* Apart and below the break: a block, and what a slot holds of it.        *)
LEMMA EndsBelow ==
  ASSUME NEW brk, NEW ch, NEW bl, WellFormed(brk, ch, bl), Apart(brk, ch, bl),
         NEW a \in DOMAIN bl
  PROVE  Payload(a) + bl[a].size <= brk
<1>1. PICK i \in DOMAIN ch : a = ch[i]
  BY DEF WellFormed
<1> QED
  BY <1>1 DEF Apart, Payload

LEMMA HeldBelow ==
  ASSUME CInv, NEW c \in Slots, held[c].ptr # NULL
  PROVE  held[c].ptr + held[c].size <= current_brk
<1> DEFINE a == HeaderOf(held[c].ptr)
           p == held[c].ptr
           s == block[a].size
           m == held[c].size
<1>1. /\ IInv /\ a \in DOMAIN block /\ Payload(a) = p /\ p \in Nat /\ s \in Nat
      /\ m \in Nat /\ current_brk \in Nat
  BY Typed DEF CInv
<1>2. m <= s
  BY DEF CInv, Owned
<1>3. p + s <= current_brk
  BY <1>1, EndsBelow DEF CInv, IInv
<1> HIDE DEF a, p, s, m
<1>4. p + m <= current_brk
  BY ONLY <1>1, <1>2, <1>3
<1> QED
  BY <1>4 DEF p, m

LEMMA NothingInside ==
  ASSUME CInv, NEW a \in Nat, a >= current_brk
  PROVE  ~Inside(a)
<1>0. IInv /\ current_brk \in Nat
  BY Typed DEF CInv
<1>1. ASSUME NEW x \in DOMAIN block, a < Payload(x) + block[x].size PROVE FALSE
  <2> DEFINE e == Payload(x) + block[x].size
  <2>1. e <= current_brk
    BY EndsBelow DEF CInv, IInv
  <2>2. e \in Nat
    <3>1. x \in Nat /\ block[x].size \in Nat
      BY <1>0, Typed
    <3> QED
      BY <3>1, PayloadHeader
  <2>3. a < e
    BY <1>1
  <2> HIDE DEF e
  <2> QED
    BY ONLY <1>0, <2>1, <2>2, <2>3, a \in Nat, a >= current_brk
<1>2. ASSUME NEW c \in Slots, held[c].ptr # NULL, a < held[c].ptr + held[c].size PROVE FALSE
  <2> DEFINE e == held[c].ptr + held[c].size
  <2>1. e <= current_brk
    BY <1>2, HeldBelow
  <2>2. e \in Nat
    BY <1>0, Typed
  <2>3. a < e
    BY <1>2
  <2> HIDE DEF e
  <2> QED
    BY ONLY <1>0, <2>1, <2>2, <2>3, a \in Nat, a >= current_brk
<1> QED
  BY <1>1, <1>2 DEF Inside

(* First fit: the flag of the first block that is free and large enough.   *)
LEMMA ReuseGives ==
  ASSUME CInv, NEW n \in Nat, n # 0, Available(n) # {}, NEW o \in MallocOutcomes(n)
  PROVE  \E a \in DOMAIN block : Gives(o, n, a)
<1>1. PICK i \in FirstFit(n) : o = Reuse(chain[i])
  BY DEF MallocOutcomes
<1>2. i \in DOMAIN chain /\ block[chain[i]].free /\ block[chain[i]].size >= n
  BY DEF FirstFit, Available, Fits
<1> DEFINE a == chain[i]
           new == [block EXCEPT ![a].free = FALSE]
<1>3. /\ IInv /\ a \in DOMAIN block /\ a \in Nat /\ block[a] \in Headers
      /\ \A j \in DOMAIN chain : chain[j] \in DOMAIN block
  BY <1>2, Typed DEF CInv
<1>4. /\ o.ptr = Payload(a) /\ o.brk = current_brk
      /\ o.chain = chain /\ o.block = new /\ o.status = "run"
  BY <1>1 DEF Reuse, Outcome, CInv
<1>5. new[a].free = FALSE /\ new[a].size = block[a].size
  BY <1>3 DEF Headers
<1>6. new[a] \in Headers
  BY <1>3, FreeFlag
<1>7. DOMAIN new = DOMAIN block /\ \A x \in DOMAIN block : x # a => new[x] = block[x]
  OBVIOUS
<1> HIDE DEF new, a
<1>8. \A j \in DOMAIN chain : new[chain[j]].size = block[chain[j]].size
  BY <1>3, <1>5, <1>7
<1>9. Apart(current_brk, chain, new)
  BY <1>8 DEF CInv, Apart
<1>10. Kept(chain, new)
  <2>1. Len(chain) \in Nat
    BY <1>3, Typed
  <2> QED
    BY <1>8, <2>1 DEF Kept
<1>11. block[a].free /\ block[a].size >= n
  BY <1>2 DEF a
<1>12. DOMAIN new = DOMAIN block \cup {a}
  BY <1>3, <1>7
<1> QED
  BY <1>3, <1>4, <1>5, <1>6, <1>7, <1>9, <1>10, <1>11, <1>12 DEF Gives

(* A new block lies above every other one and below the break: both moves  *)
(* of the break were granted.                                              *)
LEMMA GrowGives ==
  ASSUME Cautious, CInv, NEW n \in Nat, n # 0, Available(n) = {}, Affordable(n),
         NEW o \in MallocOutcomes(n)
  PROVE  \E a \in Nat : Gives(o, n, a)
<1> DEFINE a == BrkAfter(CurrBrk, Padding(CurrBrk))
           top == BrkAfter(a, n + HeaderSize)
           data == IF a \in DOMAIN block THEN block[a].data ELSE Junk
           h == [size |-> n, free |-> FALSE, data |-> data]
           new == Set(block, a, h)
<1>0. IInv /\ HeaderSize \in Nat \ {0} /\ current_brk \in Nat
  BY Typed DEF CInv
<1>1. CurrBrk \in Nat /\ CurrBrk >= current_brk /\ Padding(CurrBrk) \in Nat
  BY <1>0, CurrBrkType, PaddingType
<1>2. CurrBrk + Padding(CurrBrk) + HeaderSize + n <= MaxBrk
  BY DEF Affordable
<1>3. a = CurrBrk + Padding(CurrBrk) /\ a \in Nat /\ a >= current_brk
  <2>1. CurrBrk + Padding(CurrBrk) <= MaxBrk
    BY <1>0, <1>1, <1>2, BreakAssumption
  <2> QED
    BY <1>0, <1>1, <2>1, BrkAfterType
<1>4. top = a + (n + HeaderSize) /\ top \in Nat
  <2>1. n + HeaderSize \in Nat /\ a + (n + HeaderSize) <= MaxBrk
    BY <1>0, <1>1, <1>2, <1>3
  <2> HIDE DEF a
  <2> QED
    BY <1>3, <2>1, BrkAfterType
<1>5. o = Outcome(Payload(a), top, Link(a), new, status)
  <2>1. o \in Grow(n)
    BY DEF MallocOutcomes
  <2>2. ~(a < CurrBrk + Padding(CurrBrk))
    BY <1>1, <1>3
  <2>3. ~Inside(a)
    <3>1. a \in Nat /\ a >= current_brk
      BY <1>3
    <3> HIDE DEF a
    <3> QED
      BY <3>1, NothingInside
  <2>4. Touched(status, top, a, HeaderSize) = {"run"}
    <3>1. /\ a \in Nat /\ a # NULL /\ top \in Nat /\ a + HeaderSize <= top
          /\ HeaderSize \in Nat /\ status = "run"
      BY <1>0, <1>1, <1>3, <1>4, CurrBrkType DEF CInv, NULL
    <3> HIDE DEF a, top
    <3> QED
      BY <3>1, TouchedBelow
  <2>5. o \in {IF st = "killed" THEN Outcome(NULL, top, chain, block, st)
               ELSE Outcome(Payload(a), top, Link(a), new, status) :
                 st \in Touched(status, top, a, HeaderSize)}
    BY <2>1, <2>2, <2>3 DEF Grow
  <2> HIDE DEF a, top, new
  <2> QED
    BY <2>4, <2>5
<1> HIDE DEF a, top
<1>6. /\ DOMAIN chain = 1..Len(chain) /\ Len(chain) \in Nat /\ chain \in Seq(Nat)
      /\ DOMAIN block = {chain[i] : i \in DOMAIN chain}
      /\ \A i \in DOMAIN chain : chain[i] \in Nat /\ block[chain[i]].size \in Nat
  BY <1>0, Typed
<1>7. \A i \in DOMAIN chain : chain[i] + HeaderSize + block[chain[i]].size <= current_brk
  BY DEF CInv, Apart
<1>8. a \notin DOMAIN block
  <2> SUFFICES ASSUME NEW i \in DOMAIN chain PROVE a # chain[i]
    BY <1>6
  <2>1. chain[i] \in Nat /\ block[chain[i]].size \in Nat
    BY <1>6
  <2>2. chain[i] + HeaderSize + block[chain[i]].size <= current_brk
    BY <1>7
  <2> DEFINE x == chain[i]
             s == block[x].size
  <2> HIDE DEF x, s
  <2>3. a \in Nat /\ a >= current_brk /\ HeaderSize \in Nat \ {0} /\ current_brk \in Nat
    BY <1>0, <1>3
  <2>4. x \in Nat /\ s \in Nat /\ x + HeaderSize + s <= current_brk
    BY ONLY <2>1, <2>2 DEF x, s
  <2>5. a # x
    BY ONLY <2>3, <2>4
  <2> QED
    BY ONLY <2>5 DEF x
<1>9. Link(a) = Append(chain, a)
  BY <1>6, <1>8 DEF Link
<1> DEFINE ch == Append(chain, a)
<1>10. /\ DOMAIN ch = 1..Len(chain) + 1
       /\ Len(ch) = Len(chain) + 1
       /\ \A i \in DOMAIN chain : ch[i] = chain[i]
       /\ ch[Len(chain) + 1] = a
  BY <1>3, <1>6
<1>11. DOMAIN new = DOMAIN block \cup {a} /\ new[a] = h
       /\ \A x \in DOMAIN block : x # a => new[x] = block[x]
  BY DEF Set
<1> HIDE DEF ch, new
<1>12. \A i \in DOMAIN chain : new[chain[i]] = block[chain[i]]
  BY <1>6, <1>8, <1>11
<1>13. Apart(top, ch, new)
  <2>1. ASSUME NEW i \in DOMAIN ch
        PROVE  /\ ch[i] + HeaderSize + new[ch[i]].size <= top
               /\ \A j \in DOMAIN ch : i < j => ch[i] + HeaderSize + new[ch[i]].size <= ch[j]
    <3>1. CASE i \in DOMAIN chain
      <4>1. /\ ch[i] = chain[i] /\ new[ch[i]].size = block[chain[i]].size
            /\ chain[i] + HeaderSize + block[chain[i]].size <= current_brk
            /\ chain[i] + HeaderSize + block[chain[i]].size \in Nat
        <5>1. ch[i] = chain[i] /\ new[chain[i]] = block[chain[i]]
          BY <1>10, <1>12, <3>1
        <5>2. /\ chain[i] \in Nat /\ block[chain[i]].size \in Nat
              /\ chain[i] + HeaderSize + block[chain[i]].size <= current_brk
          BY <1>6, <1>7, <3>1
        <5> QED
          BY <1>0, <5>1, <5>2
      <4>2. current_brk <= a /\ a <= top
        BY <1>0, <1>3, <1>4
      <4>3. \A j \in DOMAIN chain : i < j => chain[i] + HeaderSize + block[chain[i]].size <= chain[j]
        BY <3>1 DEF CInv, Apart
      <4>4. ASSUME NEW j \in DOMAIN ch, i < j
            PROVE  chain[i] + HeaderSize + block[chain[i]].size <= ch[j]
        <5>1. CASE j \in DOMAIN chain
          BY <1>10, <4>3, <4>4, <5>1
        <5>2. CASE j = Len(chain) + 1
          BY <1>0, <1>3, <1>10, <4>1, <4>2, <5>2
        <5> QED
          BY <1>6, <1>10, <5>1, <5>2
      <4>5. chain[i] + HeaderSize + block[chain[i]].size <= top
        BY <1>0, <1>3, <1>4, <4>1, <4>2
      <4> QED
        BY <4>1, <4>4, <4>5
    <3>2. CASE i = Len(chain) + 1
      <4>1. ch[i] = a /\ new[ch[i]].size = n
        BY <1>10, <1>11, <3>2
      <4>2. \A j \in DOMAIN ch : ~(i < j)
        BY <1>6, <1>10, <3>2
      <4> QED
        BY <1>0, <1>3, <1>4, <4>1, <4>2
    <3> QED
      BY <1>6, <1>10, <3>1, <3>2
  <2> QED
    BY <2>1 DEF Apart
<1>14. Kept(ch, new)
  BY <1>6, <1>10, <1>12 DEF Kept
<1>15. new[a] \in Headers /\ ~new[a].free /\ new[a].size >= n
  BY <1>8, <1>11 DEF Headers, Contents
<1>16. /\ o.ptr = Payload(a) /\ o.brk = top /\ o.chain = ch /\ o.block = new
       /\ o.status = "run"
  BY <1>5, <1>9 DEF Outcome, CInv, ch
<1> QED
  BY <1>3, <1>8, <1>11, <1>13, <1>14, <1>15, <1>16 DEF Gives

LEMMA MallocGives ==
  ASSUME Cautious, CInv, NEW n \in Nat, n # 0, Affordable(n), NEW o \in MallocOutcomes(n)
  PROVE  \E a \in Nat : Gives(o, n, a)
<1>1. CASE Available(n) # {}
  <2>1. \A x \in DOMAIN block : x \in Nat
    BY Typed DEF CInv
  <2> QED
    BY <1>1, <2>1, ReuseGives
<1>2. CASE Available(n) = {}
  BY <1>2, GrowGives
<1> QED
  BY <1>1, <1>2

(* Nothing faults in the block handed out.                                 *)
LEMMA GivenUntouched ==
  ASSUME CInv, NEW n \in Nat, NEW o \in MallocOutcomes(n), NEW a \in Nat, Gives(o, n, a),
         NEW len \in Nat, len <= o.block[a].size
  PROVE  Touched("run", o.brk, o.ptr, len) = {"run"}
<1> DEFINE s == o.block[a].size
           p == o.ptr
           b == o.brk
<1>1. /\ a \in DOMAIN o.block /\ p = Payload(a) /\ s \in Nat /\ Apart(b, o.chain, o.block)
  BY DEF Gives, Headers
<1>2. WellFormed(b, o.chain, o.block) /\ b \in Nat
  BY MallocOutcome DEF CInv, WellFormed
<1>3. p + s <= b
  BY <1>1, <1>2, EndsBelow
<1>4. p \in Nat /\ p # NULL
  BY <1>1, PayloadHeader
<1> HIDE DEF s, p, b
<1>5. p + len <= b
  <2>1. len <= s
    BY DEF s
  <2> QED
    BY ONLY <1>1, <1>2, <1>3, <1>4, <2>1, len \in Nat
<1>6. Touched("run", b, p, len) = {"run"}
  BY <1>2, <1>4, <1>5, TouchedBelow
<1> QED
  BY <1>6 DEF p, b

(* The step in which slot c receives the block at a, of n bytes, holding d; *)
(* the block the slot held before, if any, becomes free.                   *)
Hands(c, n, a, d) ==
  /\ a \in Nat
  /\ a \in DOMAIN block => block[a].free
  /\ DOMAIN block' = DOMAIN block \cup {a}
  /\ ~block'[a].free /\ block'[a].size >= n /\ block'[a].data = d
  /\ \A x \in DOMAIN block : x # a =>
       /\ block'[x].data = block[x].data
       /\ block'[x].free <=> block[x].free \/ held[c].ptr = Payload(x)
  /\ held' = [held EXCEPT ![c] = [ptr |-> Payload(a), size |-> n]]
  /\ Apart(current_brk', chain', block')
  /\ Kept(chain', block')
  /\ status' = "run"

LEMMA ApartSizes ==
  ASSUME NEW brk, NEW ch, NEW bl, NEW new, Apart(brk, ch, bl),
         \A i \in DOMAIN ch : new[ch[i]].size = bl[ch[i]].size
  PROVE  Apart(brk, ch, new)
BY DEF Apart

LEMMA KeptSizes ==
  ASSUME IInv, NEW ch, NEW bl, Kept(ch, bl)
  PROVE  \A x \in DOMAIN block : bl[x].size = block[x].size
<1> TAKE x \in DOMAIN block
<1>1. PICK i \in DOMAIN chain : x = chain[i]
  BY Typed
<1> QED
  BY <1>1 DEF Kept

LEMMA HandsOwned ==
  ASSUME CInv, NEW c \in Slots, NEW n \in Nat, NEW a, NEW d, Hands(c, n, a, d)
  PROVE  Owned(held', block')
<1> DEFINE P == Payload(a)
<1>0. /\ IInv /\ a \in Nat
      /\ held' = [held EXCEPT ![c] = [ptr |-> P, size |-> n]]
      /\ a \in DOMAIN block => block[a].free
      /\ DOMAIN block' = DOMAIN block \cup {a}
      /\ ~block'[a].free /\ block'[a].size >= n
      /\ \A x \in DOMAIN block : x # a =>
           (block'[x].free <=> block[x].free \/ held[c].ptr = Payload(x))
  BY DEF Hands, CInv
<1>1. HeaderOf(P) = a /\ P # NULL /\ P \in Nat
  BY <1>0, PayloadHeader
<1>2. held'[c].ptr = P /\ held'[c].size = n /\ \A e \in Slots : e # c => held'[e] = held[e]
  BY <1>0, Typed
<1>3. \A e \in Slots : e # c /\ held[e].ptr # NULL =>
        /\ HeaderOf(held[e].ptr) \in DOMAIN block
        /\ HeaderOf(held[e].ptr) # a
        /\ held[e].ptr # P
        /\ held[c].ptr # held[e].ptr
        /\ ~block[HeaderOf(held[e].ptr)].free
        /\ held[e].size <= block[HeaderOf(held[e].ptr)].size
        /\ Payload(HeaderOf(held[e].ptr)) = held[e].ptr
  <2> SUFFICES ASSUME NEW e \in Slots, e # c, held[e].ptr # NULL
               PROVE  /\ HeaderOf(held[e].ptr) \in DOMAIN block
                      /\ HeaderOf(held[e].ptr) # a
                      /\ held[e].ptr # P
                      /\ held[c].ptr # held[e].ptr
                      /\ ~block[HeaderOf(held[e].ptr)].free
                      /\ held[e].size <= block[HeaderOf(held[e].ptr)].size
                      /\ Payload(HeaderOf(held[e].ptr)) = held[e].ptr
    OBVIOUS
  <2>1. /\ HeaderOf(held[e].ptr) \in DOMAIN block
        /\ Payload(HeaderOf(held[e].ptr)) = held[e].ptr
    BY <1>0, Typed
  <2>2. /\ ~block[HeaderOf(held[e].ptr)].free
        /\ held[e].size <= block[HeaderOf(held[e].ptr)].size
        /\ held[e].ptr # held[c].ptr
    BY DEF CInv, Owned
  <2>3. HeaderOf(held[e].ptr) # a
    BY <1>0, <2>1, <2>2
  <2>4. held[e].ptr # P
    BY <1>1, <2>3
  <2> QED
    BY <2>1, <2>2, <2>3, <2>4
<1> HIDE DEF P
<1>4. \A x \in DOMAIN block : block'[x].size = block[x].size
  BY <1>0, KeptSizes DEF Hands
<1>5. ASSUME NEW e \in Slots, held'[e].ptr # NULL
      PROVE  /\ ~block'[HeaderOf(held'[e].ptr)].free
             /\ held'[e].size <= block'[HeaderOf(held'[e].ptr)].size
  <2>1. CASE e = c
    BY <1>0, <1>1, <1>2, <2>1
  <2>2. CASE e # c
    BY <1>0, <1>2, <1>3, <1>4, <1>5, <2>2
  <2> QED
    BY <2>1, <2>2
<1>6. \A e, f \in Slots : e # f /\ held'[e].ptr # NULL => held'[e].ptr # held'[f].ptr
  <2> SUFFICES ASSUME NEW e \in Slots, NEW f \in Slots, e # f, held'[e].ptr # NULL
               PROVE  held'[e].ptr # held'[f].ptr
    OBVIOUS
  <2>1. CASE e = c
    <3>1. f # c
      BY <2>1
    <3> QED
      BY <1>1, <1>2, <1>3, <2>1, <3>1
  <2>2. CASE f = c
    BY <1>1, <1>2, <1>3, <2>2
  <2>3. CASE e # c /\ f # c
    BY <1>2, <2>3 DEF CInv, Owned
  <2> QED
    BY <2>1, <2>2, <2>3
<1>7. ASSUME NEW x \in DOMAIN block', ~block'[x].free
      PROVE  \E e \in Slots : held'[e].ptr = Payload(x)
  <2>1. CASE x = a
    BY <1>2, <2>1 DEF P
  <2>2. CASE x # a
    <3>1. x \in DOMAIN block /\ ~block[x].free /\ held[c].ptr # Payload(x)
      BY <1>0, <1>7, <2>2
    <3>2. PICK e \in Slots : held[e].ptr = Payload(x)
      BY <3>1 DEF CInv, Owned
    <3> QED
      BY <1>2, <3>1, <3>2
  <2> QED
    BY <2>1, <2>2
<1> QED
  BY <1>5, <1>6, <1>7 DEF Owned

LEMMA HandsObjs ==
  ASSUME CInv, NEW c \in Slots, NEW n \in Nat, NEW a, NEW d, Hands(c, n, a, d)
  PROVE  objs' = [objs EXCEPT ![c] = <<n, d>>]
<1>0. /\ IInv /\ a \in Nat
      /\ held' = [held EXCEPT ![c] = [ptr |-> Payload(a), size |-> n]]
      /\ block'[a].data = d
      /\ a \in DOMAIN block => block[a].free
      /\ \A x \in DOMAIN block : x # a => block'[x].data = block[x].data
  BY DEF Hands, CInv
<1>1. HeaderOf(Payload(a)) = a /\ Payload(a) # NULL
  BY <1>0, PayloadHeader
<1>2. held'[c] = [ptr |-> Payload(a), size |-> n] /\ \A e \in Slots : e # c => held'[e] = held[e]
  BY <1>0, Typed
<1>3. \A e \in Slots : e # c /\ held[e].ptr # NULL =>
        block'[HeaderOf(held[e].ptr)].data = block[HeaderOf(held[e].ptr)].data
  <2>1. \A e \in Slots : held[e].ptr # NULL =>
          HeaderOf(held[e].ptr) \in DOMAIN block /\ ~block[HeaderOf(held[e].ptr)].free
    BY <1>0, Typed DEF CInv, Owned
  <2> QED
    BY <1>0, <2>1
<1>4. \A e \in Slots : objs'[e] = [objs EXCEPT ![c] = <<n, d>>][e]
  <2> TAKE e \in Slots
  <2>1. CASE e = c
    BY <1>0, <1>1, <1>2, <2>1 DEF objs
  <2>2. CASE e # c
    BY <1>2, <1>3, <2>2 DEF objs
  <2> QED
    BY <2>1, <2>2
<1> QED
  BY <1>4 DEF objs

LEMMA MallocHands ==
  ASSUME Cautious, CInv, NEW c \in Slots, NEW n \in Nat, n # 0, Malloc(c, n)
  PROVE  \E a \in Nat, d \in Contents : Hands(c, n, a, d)
<1>1. PICK o \in MallocOutcomes(n) : Adopt(o) /\ block' = o.block /\ Hold(c, o.ptr, n)
  BY DEF Malloc
<1>2. PICK a \in Nat : Gives(o, n, a)
  BY MallocGives DEF Malloc
<1>3. held' = [held EXCEPT ![c] = [ptr |-> Payload(a), size |-> n]]
  BY <1>1, <1>2, PayloadHeader DEF Gives, Hold
<1>4. \A x \in DOMAIN block : held[c].ptr # Payload(x)
  BY Typed, PayloadHeader DEF Malloc, CInv
<1>5. /\ current_brk' = o.brk /\ chain' = o.chain /\ status' = "run"
  BY <1>1, <1>2 DEF Adopt, Gives
<1>6. o.block[a].data \in Contents
  BY <1>2 DEF Gives, Headers
<1>7. Hands(c, n, a, o.block[a].data)
  BY <1>1, <1>2, <1>3, <1>4, <1>5 DEF Gives, Hands
<1> QED
  BY <1>6, <1>7

LEMMA CallocHands ==
  ASSUME Cautious, CInv, NEW c \in Slots, NEW n \in Nat, n # 0, Calloc(c, n)
  PROVE  \E a \in Nat : Hands(c, n, a, Zero)
<1>1. PICK o \in MallocOutcomes(n) :
        /\ \E st \in Touched(o.status, o.brk, o.ptr, n) : Adopt([o EXCEPT !.status = st])
        /\ block' = IF o.ptr = NULL THEN o.block
                    ELSE [o.block EXCEPT ![HeaderOf(o.ptr)].data = Zero]
        /\ Hold(c, o.ptr, n)
  BY DEF Calloc
<1>2. PICK a \in Nat : Gives(o, n, a)
  BY MallocGives DEF Calloc
<1>3. o.ptr = Payload(a) /\ o.ptr # NULL /\ HeaderOf(o.ptr) = a
  BY <1>2, PayloadHeader DEF Gives
<1>4. /\ block' = [o.block EXCEPT ![a].data = Zero]
      /\ held' = [held EXCEPT ![c] = [ptr |-> Payload(a), size |-> n]]
  BY <1>1, <1>3 DEF Hold
<1>5. \A x \in DOMAIN block : held[c].ptr # Payload(x)
  BY Typed, PayloadHeader DEF Calloc, CInv
<1>6. /\ current_brk' = o.brk /\ chain' = o.chain /\ status' = "run"
  <2>1. Touched(o.status, o.brk, o.ptr, n) = {"run"}
    <3>1. o.status = "run" /\ o.ptr = Payload(a) /\ o.block[a].size >= n
      BY <1>2 DEF Gives
    <3> QED
      BY <1>2, <1>3, <3>1, GivenUntouched
  <2>2. Adopt([o EXCEPT !.status = "run"])
    BY <1>1, <2>1
  <2> QED
    BY <2>2, OutcomeStatus
<1>7. a \in DOMAIN o.block /\ o.block[a] \in Headers
  BY <1>2 DEF Gives
<1>8. /\ DOMAIN block' = DOMAIN o.block
      /\ block'[a].data = Zero /\ block'[a].free = o.block[a].free
      /\ block'[a].size = o.block[a].size
      /\ \A x \in DOMAIN o.block : x # a => block'[x] = o.block[x]
  BY <1>4, <1>7 DEF Headers
<1>9. \A x \in DOMAIN o.block : block'[x].size = o.block[x].size
  BY <1>8
<1>10. Apart(o.brk, o.chain, block')
  <2>1. \A i \in DOMAIN o.chain : o.chain[i] \in DOMAIN o.block
    BY MallocOutcome DEF CInv, WellFormed
  <2> QED
    BY <1>2, <1>9, <2>1, ApartSizes DEF Gives
<1>11. Kept(o.chain, block')
  BY <1>2, <1>9, Typed DEF Gives, Kept, CInv
<1>12. Hands(c, n, a, Zero)
  <2>1. \A x \in DOMAIN block : x # a =>
          /\ block'[x].data = block[x].data
          /\ block'[x].free <=> block[x].free \/ held[c].ptr = Payload(x)
    BY <1>2, <1>5, <1>8 DEF Gives
  <2> QED
    BY <1>2, <1>4, <1>6, <1>8, <1>10, <1>11, <2>1 DEF Gives, Hands
<1> QED
  BY <1>12

LEMMA ReallocHands ==
  ASSUME Cautious, CInv, NEW c \in Slots, NEW n \in Nat, ReallocMove(c, n)
  PROVE  \E a \in Nat : Hands(c, n, a, block[HeaderOf(held[c].ptr)].data)
<1> DEFINE old == HeaderOf(held[c].ptr)
<1>1. PICK o \in MallocOutcomes(n) :
        IF o.ptr = NULL
        THEN Adopt(o) /\ block' = o.block /\ UNCHANGED held
        ELSE LET len == o.block[old].size
                 f == Freed(Copied(o.block, HeaderOf(o.ptr), old), old, o.status) IN
             /\ \E st \in Touched(o.status, o.brk, o.ptr, len) \cup
                         Touched(o.status, o.brk, held[c].ptr, len) :
                  Adopt([o EXCEPT !.status = IF st = "run" THEN f.status ELSE st])
             /\ block' = f.block
             /\ Hold(c, o.ptr, n)
  BY DEF ReallocMove
<1>2. /\ old \in DOMAIN block /\ ~block[old].free /\ held[c].ptr = Payload(old)
      /\ block[old] \in Headers /\ n # 0 /\ Affordable(n) /\ old \in Nat
      /\ block[old].size < n /\ block[old].size \in Nat
  <2>1. held[c].ptr # NULL /\ block[old].size < n /\ Affordable(n)
    BY DEF ReallocMove
  <2>2. old \in DOMAIN block /\ ~block[old].free /\ held[c].ptr = Payload(old)
    BY <2>1, Typed DEF CInv, Owned
  <2>3. block[old] \in Headers /\ block[old].size \in Nat /\ old \in Nat
    BY <2>2, Typed DEF CInv
  <2> HIDE DEF old
  <2>4. n # 0
    BY <2>1, <2>3 DEF old
  <2> QED
    BY <2>1, <2>2, <2>3, <2>4
<1> HIDE DEF old
<1>3. PICK a \in Nat : Gives(o, n, a)
  BY <1>2, MallocGives
<1>4. o.ptr = Payload(a) /\ o.ptr # NULL /\ HeaderOf(o.ptr) = a
  BY <1>3, PayloadHeader DEF Gives
<1> DEFINE copy == [o.block EXCEPT ![a].data = o.block[old].data]
           new == [copy EXCEPT ![old].free = TRUE]
<1>5. /\ a # old /\ a \in DOMAIN o.block /\ o.block[a] \in Headers
      /\ old \in DOMAIN o.block /\ o.block[old] = block[old]
  BY <1>2, <1>3 DEF Gives
<1>6. /\ DOMAIN copy = DOMAIN o.block
      /\ copy[a].data = block[old].data /\ copy[a].free = o.block[a].free
      /\ copy[a].size = o.block[a].size
      /\ \A x \in DOMAIN o.block : x # a => copy[x] = o.block[x]
  BY <1>5 DEF Headers
<1>7. Freed(copy, old, o.status) = [block |-> new, status |-> "run"]
  BY <1>2, <1>3, <1>5, <1>6 DEF Freed, Gives
<1>8. Copied(o.block, a, old) = copy
  BY DEF Copied
<1> HIDE DEF copy
<1>9. /\ DOMAIN new = DOMAIN o.block
      /\ new[old].free = TRUE /\ new[old].size = copy[old].size /\ new[old].data = copy[old].data
      /\ \A x \in DOMAIN o.block : x # old => new[x] = copy[x]
  BY <1>2, <1>5, <1>6 DEF Headers
<1> HIDE DEF new
<1>10. /\ block' = new
       /\ held' = [held EXCEPT ![c] = [ptr |-> Payload(a), size |-> n]]
  BY <1>1, <1>4, <1>7, <1>8 DEF Hold
<1>11. /\ current_brk' = o.brk /\ chain' = o.chain /\ status' = "run"
  <2> DEFINE len == o.block[old].size
             f == Freed(Copied(o.block, HeaderOf(o.ptr), old), old, o.status)
  <2>1. len = block[old].size /\ len \in Nat /\ len <= o.block[a].size
    <3>1. o.block[a].size >= n /\ o.block[a].size \in Nat
      BY <1>3 DEF Gives, Headers
    <3> QED
      BY <1>2, <1>5, <3>1
  <2>2. o.status = "run" /\ f.status = "run"
    BY <1>3, <1>4, <1>7, <1>8 DEF Gives
  <2>3. PICK st \in Touched(o.status, o.brk, o.ptr, len) \cup
                   Touched(o.status, o.brk, held[c].ptr, len) :
          Adopt([o EXCEPT !.status = IF st = "run" THEN f.status ELSE st])
    BY <1>1, <1>4
  <2> HIDE DEF f
  <2>4. Touched(o.status, o.brk, o.ptr, len) = {"run"}
    BY <1>3, <2>1, <2>2, GivenUntouched
  <2>5. Touched(o.status, o.brk, held[c].ptr, len) = {"run"}
    <3> DEFINE p == held[c].ptr
               b == o.brk
    <3>1. WellFormed(b, o.chain, o.block) /\ b \in Nat
      BY MallocOutcome DEF CInv, WellFormed
    <3>2. p = Payload(old) /\ p \in Nat /\ p # NULL
      BY <1>2, PayloadHeader
    <3>3. p + len <= b
      BY <1>3, <1>5, <3>1, <3>2, EndsBelow DEF Gives
    <3> HIDE DEF p, b, len
    <3>4. Touched("run", b, p, len) = {"run"}
      BY <2>1, <3>1, <3>2, <3>3, TouchedBelow
    <3> QED
      BY <2>2, <3>4 DEF p, b
  <2>6. Adopt([o EXCEPT !.status = "run"])
    BY <2>2, <2>3, <2>4, <2>5
  <2> QED
    BY <2>6, OutcomeStatus
<1>12. \A x \in DOMAIN o.block : new[x].size = o.block[x].size
  BY <1>5, <1>6, <1>9
<1>13. Apart(o.brk, o.chain, new)
  <2>1. \A i \in DOMAIN o.chain : o.chain[i] \in DOMAIN o.block
    BY MallocOutcome DEF CInv, WellFormed
  <2> QED
    BY <1>3, <1>12, <2>1, ApartSizes DEF Gives
<1>14. Kept(o.chain, new)
  BY <1>3, <1>12, Typed DEF Gives, Kept, CInv
<1>15. \A x \in DOMAIN block : x # a =>
          /\ new[x].data = block[x].data
          /\ new[x].free <=> block[x].free \/ held[c].ptr = Payload(x)
  <2> SUFFICES ASSUME NEW x \in DOMAIN block, x # a
               PROVE  /\ new[x].data = block[x].data
                      /\ new[x].free <=> block[x].free \/ held[c].ptr = Payload(x)
    OBVIOUS
  <2>1. x \in Nat /\ x \in DOMAIN o.block /\ o.block[x] = block[x]
    BY <1>3, Typed DEF Gives, CInv
  <2>2. CASE x = old
    BY <1>2, <1>5, <1>6, <1>9, <2>2
  <2>3. CASE x # old
    <3>1. Payload(x) # Payload(old)
      BY <1>2, <2>1, <2>3, PayloadHeader
    <3> QED
      BY <1>2, <1>6, <1>9, <2>1, <2>3, <3>1
  <2> QED
    BY <2>2, <2>3
<1>16. ~new[a].free /\ new[a].size >= n /\ new[a].data = block[old].data
  BY <1>3, <1>5, <1>6, <1>9 DEF Gives
<1>17. Hands(c, n, a, block[old].data)
  BY <1>3, <1>9, <1>10, <1>11, <1>13, <1>14, <1>15, <1>16 DEF Gives, Hands
<1> QED
  BY <1>17 DEF old

(* What every step of a cautious program does.                             *)
Promise ==
  /\ Apart(current_brk', chain', block')
  /\ Owned(held', block')
  /\ status' = "run"
  /\ Kept(chain', block')
  /\ Abstract!Next \/ UNCHANGED objs

LEMMA StaysApart ==
  ASSUME CInv, chain' = chain, current_brk' \in Nat, current_brk' >= current_brk,
         \A x \in DOMAIN block : block'[x].size = block[x].size
  PROVE  Apart(current_brk', chain', block') /\ Kept(chain', block')
<1>1. /\ Len(chain) \in Nat /\ current_brk \in Nat /\ HeaderSize \in Nat
      /\ \A i \in DOMAIN chain :
           /\ chain[i] \in Nat /\ block[chain[i]].size \in Nat
           /\ block'[chain[i]].size = block[chain[i]].size
  BY Typed DEF CInv
<1>2. Apart(current_brk, chain, block)
  BY DEF CInv
<1>3. Apart(current_brk', chain', block')
  <2>1. Apart(current_brk, chain, block')
    BY <1>1, <1>2, ApartSizes
  <2>2. Apart(current_brk', chain, block')
    <3>1. ASSUME NEW i \in DOMAIN chain
          PROVE  chain[i] + HeaderSize + block'[chain[i]].size <= current_brk'
      <4>1. chain[i] + HeaderSize + block'[chain[i]].size <= current_brk
        BY <2>1 DEF Apart
      <4>2. chain[i] + HeaderSize + block'[chain[i]].size \in Nat
        BY <1>1
      <4> QED
        BY <1>1, <4>1, <4>2
    <3> QED
      BY <2>1, <3>1 DEF Apart
  <2> QED
    BY <2>2
<1>4. Kept(chain', block')
  BY <1>1 DEF Kept
<1> QED
  BY <1>3, <1>4

LEMMA MallocPromise ==
  ASSUME Cautious, CInv, NEW c \in Slots, NEW n \in Sizes,
         Malloc(c, n) \/ Calloc(c, n)
  PROVE  Promise
<1>0. n \in Nat /\ status = "run"
  BY SizesAssumption DEF CInv
<1>1. held[c].ptr = NULL /\ objs[c] = <<>>
  BY DEF Malloc, Calloc, objs
<1>2. CASE n # 0
  <2>1. PICK a \in Nat, d \in Contents :
          Hands(c, n, a, d) /\ (Malloc(c, n) \/ d = Zero)
    <3>1. CASE Malloc(c, n)
      BY <1>0, <1>2, <3>1, MallocHands
    <3>2. CASE Calloc(c, n)
      BY <1>0, <1>2, <3>2, CallocHands DEF Contents
    <3> QED
      BY <3>1, <3>2
  <2>2. Owned(held', block')
    BY <1>0, <2>1, HandsOwned
  <2>3. objs' = [objs EXCEPT ![c] = <<n, d>>]
    BY <1>0, <2>1, HandsObjs
  <2>4. Abstract!Next
    <3>1. Abstract!Malloc(c, n)
      BY <1>1, <1>2, <2>1, <2>3 DEF Abstract!Malloc, Abstract!Absent, Abstract!Contents, Contents
    <3> QED
      BY <3>1 DEF Abstract!Next
  <2> QED
    BY <2>1, <2>2, <2>4 DEF Promise, Hands
<1>3. CASE n = 0
  <2> DEFINE o == Outcome(NULL, current_brk, chain, block, status)
  <2>1. MallocOutcomes(n) = {o}
    BY <1>3 DEF MallocOutcomes
  <2>2. o.ptr = NULL /\ o.brk = current_brk /\ o.chain = chain /\ o.block = block /\ o.status = status
    BY DEF Outcome
  <2> HIDE DEF o
  <2>3. Adopt(o) /\ block' = block /\ held' = [held EXCEPT ![c] = NoObject]
    <3>1. CASE Malloc(c, n)
      BY <2>1, <2>2, <3>1 DEF Malloc, Hold
    <3>2. CASE Calloc(c, n)
      <4>1. /\ \E st \in Touched(o.status, o.brk, o.ptr, n) : Adopt([o EXCEPT !.status = st])
            /\ block' = block /\ held' = [held EXCEPT ![c] = NoObject]
        BY <2>1, <2>2, <3>2 DEF Calloc, Hold
      <4>2. Touched(o.status, o.brk, o.ptr, n) = {o.status}
        BY <1>3 DEF Touched
      <4>3. Adopt([o EXCEPT !.status = o.status])
        BY <4>1, <4>2
      <4>4. o \in MallocOutcomes(n)
        BY <2>1
      <4>5. /\ current_brk' = o.brk /\ chain' = o.chain /\ status' = o.status
            /\ kernel_brk' = IF o.brk = 0 THEN kernel_brk ELSE o.brk
        BY <4>3, <4>4, OutcomeStatus
      <4> QED
        BY <4>1, <4>5 DEF Adopt
    <3> QED
      BY <3>1, <3>2
  <2>4. chain' = chain /\ current_brk' = current_brk /\ status' = "run"
    BY <1>0, <2>2, <2>3 DEF Adopt
  <2>5. Apart(current_brk', chain', block') /\ Kept(chain', block')
    BY <2>3, <2>4, StaysApart, Typed DEF CInv
  <2>6. held'[c].ptr = NULL /\ \A e \in Slots : e # c => held'[e] = held[e]
    BY <2>3, Typed DEF CInv, NoObject
  <2>7. Owned(held', block')
    <3>1. /\ \A d \in Slots : held[d].ptr # NULL => /\ ~block[HeaderOf(held[d].ptr)].free
                                                   /\ held[d].size <= block[HeaderOf(held[d].ptr)].size
          /\ \A d, e \in Slots : d # e /\ held[d].ptr # NULL => held[d].ptr # held[e].ptr
          /\ \A a \in DOMAIN block : ~block[a].free => \E d \in Slots : held[d].ptr = Payload(a)
      BY DEF CInv, Owned
    <3>2. \A a \in DOMAIN block : a \in Nat /\ Payload(a) # NULL
      BY Typed, PayloadHeader DEF CInv
    <3>3. ASSUME NEW d \in Slots, held'[d].ptr # NULL
          PROVE  /\ held'[d] = held[d] /\ held[d].ptr # NULL
                 /\ ~block'[HeaderOf(held'[d].ptr)].free
                 /\ held'[d].size <= block'[HeaderOf(held'[d].ptr)].size
      BY <2>3, <2>6, <3>1, <3>3
    <3>4. ASSUME NEW d \in Slots, NEW e \in Slots, d # e, held'[d].ptr # NULL
          PROVE  held'[d].ptr # held'[e].ptr
      BY <2>6, <3>1, <3>3, <3>4
    <3>5. ASSUME NEW a \in DOMAIN block', ~block'[a].free
          PROVE  \E d \in Slots : held'[d].ptr = Payload(a)
      <4>1. PICK d \in Slots : held[d].ptr = Payload(a)
        BY <2>3, <3>1, <3>5
      <4>2. held[d].ptr # NULL
        BY <2>3, <3>2, <3>5, <4>1
      <4> QED
        BY <1>1, <2>6, <4>1, <4>2
    <3> QED
      BY <3>3, <3>4, <3>5 DEF Owned
  <2>8. UNCHANGED objs
    BY <1>1, <2>3, <2>6 DEF objs
  <2> QED
    BY <2>4, <2>5, <2>7, <2>8 DEF Promise
<1> QED
  BY <1>2, <1>3

LEMMA ReallocPromise ==
  ASSUME Cautious, CInv, NEW c \in Slots, NEW n \in Sizes,
         ReallocInPlace(c, n) \/ ReallocMove(c, n)
  PROVE  Promise
<1> DEFINE data == block[HeaderOf(held[c].ptr)].data
<1>0. n \in Nat /\ status = "run" /\ IInv
  BY SizesAssumption DEF CInv
<1>1. held[c].ptr # NULL
  BY DEF ReallocInPlace, ReallocMove
<1>2. objs[c] = <<held[c].size, data>>
  BY <1>1 DEF objs
<1>3. n # 0
  <2>1. block[HeaderOf(held[c].ptr)].size \in Nat
    BY <1>0, <1>1, Typed
  <2>2. n # 0 \/ block[HeaderOf(held[c].ptr)].size < n
    BY DEF ReallocInPlace, ReallocMove
  <2> DEFINE m == block[HeaderOf(held[c].ptr)].size
  <2> HIDE DEF m
  <2>3. m \in Nat /\ (n # 0 \/ m < n)
    BY ONLY <2>1, <2>2 DEF m
  <2> QED
    BY ONLY <1>0, <2>3
<1>4. ASSUME objs' = [objs EXCEPT ![c] = <<n, data>>] PROVE Abstract!Next
  <2>1. objs[c] # <<>> /\ objs[c][2] = data
    BY <1>2
  <2>2. Abstract!Realloc(c, n)
    BY <1>3, <1>4, <2>1 DEF Abstract!Realloc, Abstract!Absent
  <2> QED
    BY <2>2 DEF Abstract!Next
<1>5. CASE ReallocInPlace(c, n)
  <2>1. /\ held' = [held EXCEPT ![c].size = n]
        /\ block[HeaderOf(held[c].ptr)].size >= n
        /\ UNCHANGED <<current_brk, kernel_brk, chain, block, status>>
    BY <1>5 DEF ReallocInPlace
  <2>2. /\ held'[c].ptr = held[c].ptr /\ held'[c].size = n
        /\ \A e \in Slots : e # c => held'[e] = held[e]
    BY <1>0, <2>1, Typed
  <2>3. \A e \in Slots : held'[e].ptr = held[e].ptr
    BY <2>2
  <2>4. Apart(current_brk', chain', block') /\ Kept(chain', block')
    BY <1>0, <2>1, StaysApart, Typed
  <2>5. Owned(held', block')
    BY <1>0, <2>1, <2>2, <2>3 DEF CInv, Owned
  <2>6. \A e \in Slots : objs'[e] = [objs EXCEPT ![c] = <<n, data>>][e]
    BY <1>1, <2>1, <2>2, <2>3 DEF objs
  <2>7. objs' = [objs EXCEPT ![c] = <<n, data>>]
    BY <2>6 DEF objs
  <2> QED
    BY <1>0, <1>4, <2>1, <2>4, <2>5, <2>7 DEF Promise
<1>6. CASE ReallocMove(c, n)
  <2>1. PICK a \in Nat : Hands(c, n, a, data)
    BY <1>0, <1>6, ReallocHands
  <2>2. Owned(held', block') /\ objs' = [objs EXCEPT ![c] = <<n, data>>]
    BY <1>0, <2>1, HandsOwned, HandsObjs
  <2> QED
    BY <1>4, <2>1, <2>2 DEF Promise, Hands
<1> QED
  BY <1>5, <1>6

LEMMA FreePromise ==
  ASSUME CInv, NEW c \in Slots, Free(c)
  PROVE  Promise
<1> DEFINE a == HeaderOf(held[c].ptr)
           new == [block EXCEPT ![a].free = TRUE]
<1>0. IInv /\ status = "run" /\ held[c].ptr # NULL
  BY DEF CInv, Free
<1>1. /\ a \in DOMAIN block /\ ~block[a].free /\ held[c].ptr = Payload(a)
      /\ block[a] \in Headers
  BY <1>0, Typed DEF CInv, Owned
<1>2. /\ block' = new /\ status' = "run" /\ held' = [held EXCEPT ![c] = NoObject]
      /\ chain' = chain /\ current_brk' = current_brk
  BY <1>0, <1>1 DEF Free, Freed
<1>3. /\ DOMAIN new = DOMAIN block /\ new[a].free = TRUE
      /\ new[a].size = block[a].size
      /\ \A x \in DOMAIN block : x # a => new[x] = block[x]
  BY <1>1 DEF Headers
<1> HIDE DEF a, new
<1>4. Apart(current_brk', chain', block') /\ Kept(chain', block')
  <2>1. \A x \in DOMAIN block : block'[x].size = block[x].size
    BY <1>2, <1>3
  <2>2. current_brk' \in Nat /\ current_brk' >= current_brk
    BY <1>0, <1>2, Typed
  <2> QED
    BY <1>2, <2>1, <2>2, StaysApart
<1>5. held'[c].ptr = NULL /\ \A e \in Slots : e # c => held'[e] = held[e]
  BY <1>0, <1>2, Typed DEF NoObject
<1>6. \A e \in Slots : e # c /\ held[e].ptr # NULL =>
        HeaderOf(held[e].ptr) # a /\ HeaderOf(held[e].ptr) \in DOMAIN block
  <2> SUFFICES ASSUME NEW e \in Slots, e # c, held[e].ptr # NULL
               PROVE  HeaderOf(held[e].ptr) # a /\ HeaderOf(held[e].ptr) \in DOMAIN block
    OBVIOUS
  <2>1. /\ HeaderOf(held[e].ptr) \in DOMAIN block
        /\ Payload(HeaderOf(held[e].ptr)) = held[e].ptr
    BY <1>0, Typed
  <2>2. held[e].ptr # held[c].ptr
    BY <1>0 DEF CInv, Owned
  <2> QED
    BY <1>1, <2>1, <2>2
<1>7. Owned(held', block')
  <2>1. \A e \in Slots : held'[e].ptr # NULL =>
          /\ ~block'[HeaderOf(held'[e].ptr)].free
          /\ held'[e].size <= block'[HeaderOf(held'[e].ptr)].size
    BY <1>2, <1>3, <1>5, <1>6 DEF CInv, Owned
  <2>2. \A e, f \in Slots : e # f /\ held'[e].ptr # NULL => held'[e].ptr # held'[f].ptr
    BY <1>5 DEF CInv, Owned
  <2>3. ASSUME NEW x \in DOMAIN block', ~block'[x].free
        PROVE  \E e \in Slots : held'[e].ptr = Payload(x)
    <3>1. x \in DOMAIN block /\ x # a /\ ~block[x].free
      BY <1>2, <1>3, <2>3
    <3>2. PICK e \in Slots : held[e].ptr = Payload(x)
      BY <3>1 DEF CInv, Owned
    <3>3. x \in Nat /\ a \in Nat
      BY <1>0, <1>1, <3>1, Typed
    <3>4. e # c
      BY <1>1, <3>1, <3>2, <3>3, PayloadHeader
    <3> QED
      BY <1>5, <3>2, <3>4
  <2> QED
    BY <2>1, <2>2, <2>3 DEF Owned
<1>8. \A e \in Slots : objs'[e] = [objs EXCEPT ![c] = <<>>][e]
  BY <1>2, <1>3, <1>5, <1>6 DEF objs
<1>9. objs' = [objs EXCEPT ![c] = <<>>] /\ objs[c] # <<>>
  BY <1>0, <1>8 DEF objs
<1>10. Abstract!Next
  <2>1. Abstract!Free(c)
    BY <1>9 DEF Abstract!Free, Abstract!Absent
  <2> QED
    BY <2>1 DEF Abstract!Next
<1> QED
  BY <1>2, <1>4, <1>7, <1>10 DEF Promise

LEMMA StorePromise ==
  ASSUME CInv, NEW c \in Slots, NEW v \in Values, Store(c, v)
  PROVE  Promise
<1> DEFINE a == HeaderOf(held[c].ptr)
           new == [block EXCEPT ![a].data = v]
<1>0. IInv /\ status = "run" /\ held[c].ptr # NULL
  BY DEF CInv, Store
<1>1. /\ a \in DOMAIN block /\ block[a] \in Headers /\ held[c].ptr = Payload(a)
  BY <1>0, Typed
<1>2. /\ block' = new /\ status' = "run" /\ held' = held
      /\ chain' = chain /\ current_brk' = current_brk
  <2>1. status' \in Touched(status, current_brk, held[c].ptr, held[c].size)
    BY DEF Store
  <2>2. Touched("run", current_brk, held[c].ptr, held[c].size) = {"run"}
    <3>1. /\ held[c].ptr \in Nat /\ held[c].size \in Nat /\ current_brk \in Nat
      BY <1>0, Typed
    <3> QED
      BY <1>0, <3>1, HeldBelow, TouchedBelow
  <2>3. status' = "run"
    BY <1>0, <2>1, <2>2
  <2> QED
    BY <1>0, <2>3 DEF Store
<1>3. /\ DOMAIN new = DOMAIN block /\ new[a].data = v
      /\ new[a].size = block[a].size /\ new[a].free = block[a].free
      /\ \A x \in DOMAIN block : x # a => new[x] = block[x]
  BY <1>1 DEF Headers
<1> HIDE DEF new
<1>4. \A x \in DOMAIN block : new[x].size = block[x].size /\ new[x].free = block[x].free
  BY <1>3
<1>5. Apart(current_brk', chain', block') /\ Kept(chain', block')
  <2>1. \A x \in DOMAIN block : block'[x].size = block[x].size
    BY <1>2, <1>4
  <2>2. current_brk' \in Nat /\ current_brk' >= current_brk
    BY <1>0, <1>2, Typed
  <2> QED
    BY <1>2, <2>1, <2>2, StaysApart
<1>6. Owned(held', block')
  BY <1>0, <1>2, <1>3, <1>4, Typed DEF CInv, Owned
<1>7. \A e \in Slots : e # c /\ held[e].ptr # NULL =>
        HeaderOf(held[e].ptr) # a /\ HeaderOf(held[e].ptr) \in DOMAIN block
  <2> SUFFICES ASSUME NEW e \in Slots, e # c, held[e].ptr # NULL
               PROVE  HeaderOf(held[e].ptr) # a /\ HeaderOf(held[e].ptr) \in DOMAIN block
    OBVIOUS
  <2>1. /\ HeaderOf(held[e].ptr) \in DOMAIN block
        /\ Payload(HeaderOf(held[e].ptr)) = held[e].ptr
    BY <1>0, Typed
  <2>2. held[e].ptr # held[c].ptr
    BY <1>0 DEF CInv, Owned
  <2> QED
    BY <1>1, <2>1, <2>2
<1>8. \A e \in Slots : objs'[e] = [objs EXCEPT ![c] = <<objs[c][1], v>>][e]
  <2> TAKE e \in Slots
  <2>1. CASE e = c
    BY <1>0, <1>2, <1>3, <2>1 DEF objs
  <2>2. CASE e # c
    BY <1>2, <1>3, <1>7, <2>2 DEF objs
  <2> QED
    BY <2>1, <2>2
<1>9. objs' = [objs EXCEPT ![c] = <<objs[c][1], v>>] /\ objs[c] # <<>>
  BY <1>0, <1>8 DEF objs
<1>10. Abstract!Next
  <2>1. Abstract!Store(c, v)
    BY <1>9 DEF Abstract!Store, Abstract!Absent
  <2> QED
    BY <2>1 DEF Abstract!Next
<1> QED
  BY <1>2, <1>5, <1>6, <1>10 DEF Promise

LEMMA SbrkPromise ==
  ASSUME CInv, NEW inc \in Increments, Sbrk(inc)
  PROVE  Promise
<1>1. inc \in Nat /\ IInv
  BY SizesAssumption DEF CInv
<1>2. CurrBrk \in Nat /\ CurrBrk >= current_brk /\ current_brk \in Nat
  BY <1>1, CurrBrkType, Typed
<1>3. current_brk' \in Nat /\ current_brk' >= current_brk
  BY <1>1, <1>2, BrkAfterType DEF Sbrk
<1>4. UNCHANGED <<chain, block, held, status>>
  BY DEF Sbrk
<1>5. Apart(current_brk', chain', block') /\ Kept(chain', block')
  BY <1>3, <1>4, StaysApart
<1>6. Owned(held', block') /\ UNCHANGED objs /\ status' = "run"
  BY <1>4 DEF CInv, Owned, objs
<1> QED
  BY <1>5, <1>6 DEF Promise

LEMMA NextPromise ==
  ASSUME Cautious, CInv, [Next]_vars
  PROVE  Promise
<1>1. ASSUME NEW c \in Slots, NEW n \in Sizes,
             Malloc(c, n) \/ Calloc(c, n) \/ ReallocInPlace(c, n) \/ ReallocMove(c, n)
      PROVE  Promise
  BY <1>1, MallocPromise, ReallocPromise
<1>2. ASSUME NEW c \in Slots, Free(c) \/ \E v \in Values : Store(c, v)
      PROVE  Promise
  BY <1>2, FreePromise, StorePromise
<1>3. ASSUME NEW inc \in Increments, Sbrk(inc)
      PROVE  Promise
  BY <1>3, SbrkPromise
<1>4. CASE UNCHANGED vars
  <2>1. /\ chain' = chain /\ current_brk' = current_brk /\ block' = block
        /\ held' = held /\ status' = status
    BY <1>4 DEF vars
  <2>2. Apart(current_brk', chain', block') /\ Kept(chain', block')
    BY <2>1, StaysApart, Typed DEF CInv
  <2>3. Owned(held', block') /\ UNCHANGED objs /\ status' = "run"
    BY <2>1 DEF CInv, Owned, objs
  <2> QED
    BY <2>2, <2>3 DEF Promise
<1> QED
  BY <1>1, <1>2, <1>3, <1>4 DEF Next

-----------------------------------------------------------------------------
(* The theorems *)

LEMMA Invariance == Spec => []IInv
BY InitIInv, NextIInv, PTL DEF Spec

(* Every variable keeps its type; in particular the list only names blocks *)
(* with a header.                                                          *)
THEOREM TypeCorrect == Spec => []TypeOK
<1>1. IInv => TypeOK
  <2> SUFFICES ASSUME IInv PROVE TypeOK
    OBVIOUS
  <2>1. /\ current_brk \in Nat /\ chain \in Seq(Nat)
        /\ \A i \in DOMAIN chain : chain[i] \in Nat /\ chain[i] \in DOMAIN block
        /\ DOMAIN block = {chain[i] : i \in DOMAIN chain}
        /\ \A a \in DOMAIN block : block[a] \in Headers
    BY DEF IInv, WellFormed
  <2>2. \A a \in DOMAIN block : a \in Nat
    BY <2>1
  <2> QED
    BY <2>1, <2>2 DEF IInv, Pointers, TypeOK
<1> QED
  BY <1>1, Invariance, PTL

(* Every block starts on an alignment boundary, whatever the program does  *)
(* to the break and however often the kernel refuses to move it.           *)
THEOREM BlocksAligned == Spec => []Aligned
<1>1. Init => Aligned
  BY DEF Init, Aligned
<1> QED
  BY <1>1, NextAligned, Invariance, PTL DEF Spec

LEMMA CautiousInvariance ==
  ASSUME Cautious
  PROVE  Spec => []CInv
<1>1. Init => CInv
  <2>1. Init => Apart(current_brk, chain, block) /\ Owned(held, block)
    BY DEF Init, Apart, Owned, NoObject, NULL
  <2> QED
    BY <2>1, InitIInv DEF Init, CInv
<1>2. CInv /\ [Next]_vars => CInv'
  <2> SUFFICES ASSUME CInv, [Next]_vars PROVE CInv'
    OBVIOUS
  <2>1. IInv'
    BY NextIInv DEF CInv
  <2>2. Promise
    BY NextPromise
  <2> QED
    BY <2>1, <2>2 DEF Promise, CInv
<1> QED
  BY <1>1, <1>2, PTL DEF Spec

(* No block of a cautious program reaches into the next one or past the    *)
(* break.                                                                  *)
THEOREM BlocksDisjoint ==
  ASSUME Cautious
  PROVE  Spec => []Disjoint
<1>1. CInv => Disjoint
  <2> SUFFICES ASSUME CInv PROVE Disjoint
    OBVIOUS
  <2>1. Apart(current_brk, chain, block)
    BY DEF CInv
  <2> QED
    BY <2>1 DEF Apart, Disjoint
<1> QED
  BY <1>1, CautiousInvariance, PTL

(* The blocks in use are those the program holds, each by one pointer and  *)
(* as large as was asked.                                                  *)
THEOREM HeldBlocksInUse ==
  ASSUME Cautious
  PROVE  Spec => []Ownership
<1>1. CInv => Ownership
  <2> SUFFICES ASSUME CInv PROVE Ownership
    OBVIOUS
  <2>1. IInv /\ Owned(held, block)
    BY DEF CInv
  <2>2. \A c \in Slots : held[c].ptr # NULL =>
          \E i \in {i \in DOMAIN chain : ~block[chain[i]].free} :
             held[c].ptr = Payload(chain[i]) /\ held[c].size <= block[chain[i]].size
    <3> SUFFICES ASSUME NEW c \in Slots, held[c].ptr # NULL
                 PROVE  \E i \in {i \in DOMAIN chain : ~block[chain[i]].free} :
                           /\ held[c].ptr = Payload(chain[i])
                           /\ held[c].size <= block[chain[i]].size
      OBVIOUS
    <3>1. /\ HeaderOf(held[c].ptr) \in DOMAIN block
          /\ Payload(HeaderOf(held[c].ptr)) = held[c].ptr
      BY <2>1, Typed
    <3>2. PICK i \in DOMAIN chain : HeaderOf(held[c].ptr) = chain[i]
      BY <2>1, <3>1, Typed
    <3> QED
      BY <2>1, <3>1, <3>2 DEF Owned
  <2>3. \A i \in {i \in DOMAIN chain : ~block[chain[i]].free} :
          \E c \in Slots : held[c].ptr = Payload(chain[i])
    BY <2>1, Typed DEF Owned
  <2>4. \A c, d \in Slots : c # d /\ held[c].ptr # NULL => held[c].ptr # held[d].ptr
    BY <2>1 DEF Owned
  <2> QED
    BY <2>2, <2>3, <2>4 DEF Ownership
<1> QED
  BY <1>1, CautiousInvariance, PTL

(* No assertion of free fails and no store faults in a cautious program.   *)
THEOREM CautiousNeverStops ==
  ASSUME Cautious
  PROVE  Spec => []NeverStops
<1>1. CInv => NeverStops
  BY DEF CInv, NeverStops
<1> QED
  BY <1>1, CautiousInvariance, PTL

(* No step of a cautious program moves, shrinks, splits or drops a block.  *)
THEOREM BlocksAreKept ==
  ASSUME Cautious
  PROVE  Spec => BlocksStay
<1>1. CInv /\ [Next]_vars =>
        [/\ Len(chain) <= Len(chain')
         /\ \A i \in DOMAIN chain : /\ chain'[i] = chain[i]
                                   /\ block'[chain[i]].size = block[chain[i]].size]_vars
  BY NextPromise DEF Promise, Kept
<1> QED
  BY <1>1, CautiousInvariance, PTL DEF Spec, BlocksStay

(* Every behaviour of a cautious program is one of objects that do not     *)
(* know of each other, seen through the pointers it holds.                 *)
THEOREM ObjectsIndependent ==
  ASSUME Cautious
  PROVE  Spec => Refines
<1>1. Init => Abstract!Init
  BY DEF Init, Abstract!Init, objs, NoObject, NULL
<1>2. CInv /\ [Next]_vars => [Abstract!Next]_objs
  BY NextPromise DEF Promise
<1> QED
  BY <1>1, <1>2, CautiousInvariance, PTL DEF Spec, Refines, Abstract!Spec
=============================================================================
