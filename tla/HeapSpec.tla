------------------------------ MODULE HeapSpec ------------------------------
(***************************************************************************)
(* What std::lib promises a program that calls malloc, calloc, realloc and *)
(* free: every live object is independent of every other one, keeps what   *)
(* its owner last stored in it until it is freed, and keeps it across      *)
(* realloc.  Nothing is said of addresses, of headers or of the break.     *)
(***************************************************************************)
CONSTANTS
  Slots,      (* the pointers the program holds, one object each           *)
  Sizes,      (* the request sizes it uses                                 *)
  Values,     (* what it can store in an object                            *)
  Zero,       (* the contents calloc promises                              *)
  Junk        (* the contents nobody promises                              *)

VARIABLE objs (* objs[c] = <<>>, or <<requested size, contents>>           *)

Contents == Values \cup {Zero, Junk}
Objects  == (Sizes \ {0}) \X Contents

Absent(c) == objs[c] = <<>>

Init == objs = [c \in Slots |-> <<>>]

(* malloc hands out an object of unspecified contents, or NULL.            *)
Malloc(c, n) ==
  /\ Absent(c)
  /\ n # 0
  /\ \E d \in Contents : objs' = [objs EXCEPT ![c] = <<n, d>>]

(* calloc hands out a zeroed object, or NULL.                              *)
Calloc(c, n) ==
  /\ Absent(c)
  /\ n # 0
  /\ objs' = [objs EXCEPT ![c] = <<n, Zero>>]

(* realloc resizes and keeps the contents.                                 *)
Realloc(c, n) ==
  /\ ~Absent(c)
  /\ n # 0
  /\ objs' = [objs EXCEPT ![c] = <<n, objs[c][2]>>]

Free(c) ==
  /\ ~Absent(c)
  /\ objs' = [objs EXCEPT ![c] = <<>>]

Store(c, v) ==
  /\ ~Absent(c)
  /\ objs' = [objs EXCEPT ![c] = <<objs[c][1], v>>]

Next ==
  \E c \in Slots :
    \/ \E n \in Sizes : Malloc(c, n) \/ Calloc(c, n) \/ Realloc(c, n)
    \/ Free(c)
    \/ \E v \in Values : Store(c, v)

Spec == Init /\ [][Next]_objs
=============================================================================
