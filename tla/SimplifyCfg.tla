----------------------------- MODULE SimplifyCfg -----------------------------
(***************************************************************************)
(* opt/simplify_cfg.cpp: branches to the next block, labels nobody uses    *)
(* and blocks that are only a label go away.                               *)
(*                                                                         *)
(* p is the work in progress: the blocks, the branch at the end of each    *)
(* (bb_to_j and bb_to_cond), the label at its start (bb_to_label), where   *)
(* labels are (label_to_bb), branch_count, and the numbers of the blocks   *)
(* that go away.                                                           *)
(***************************************************************************)
EXTENDS Cfg

BranchesTo(blocks, l) ==
  FlattenSeq([b \in DOMAIN blocks |->
    SelectSeq(blocks[b], LAMBDA n : Branches(n) /\ n.l = l)])

Tables(blocks) ==
  LET full == {b \in DOMAIN blocks : blocks[b] # <<>>}
      labelled == {b \in full : Head(blocks[b]).i = "label"}
      label == [b \in labelled |-> Head(blocks[b]).l]
      labels == {label[b] : b \in labelled}
  IN  [blocks |-> blocks,
       branch |-> [b \in {x \in full : Branches(Last(blocks[x]))} |-> Last(blocks[b]).l],
       label |-> label,
       at |-> [l \in labels |-> LabelAt(blocks, l)],
       count |-> [l \in labels |-> Len(BranchesTo(blocks, l))],
       removed |-> <<>>]

Forget(f, x) == [y \in DOMAIN f \ {x} |-> f[y]]
Removing(p, b) == [p EXCEPT !.removed = Append(@, b)]

(* A branch to the block after it, the only way on.                        *)
DropBranch(p, edges, b) ==
  LET l == p.branch[b]
      left == Front(p.blocks[b])
      q == [p EXCEPT !.blocks[b] = left, !.branch = Forget(@, b), !.count[l] = @ - 1]
  IN  IF \/ p.blocks[b] = <<>> \/ b \notin DOMAIN p.branch
         \/ Cardinality(Successors(edges, b)) # 1
         \/ l \notin DOMAIN p.at \/ p.at[l] # b + 1
      THEN p
      ELSE IF left = <<>> THEN Removing(q, b)
      ELSE IF ~Labelled(p.blocks[b + 1]) THEN Removing(q, b + 1)
      ELSE q

(* A label no branch uses, with one predecessor: the block joins the one   *)
(* before it.                                                              *)
DropLabel(p, edges, named, b) ==
  LET l == p.label[b]
      left == Tail(p.blocks[b])
      before == p.blocks[b - 1]
      q == [p EXCEPT !.blocks[b] = left, !.label = Forget(@, b), !.at = Forget(@, l)]
      joins == b # 1 /\ (before = <<>> \/ ~Ends(Last(before)))
  IN  IF \/ p.blocks[b] = <<>> \/ Cardinality(Predecessors(edges, b)) # 1
         \/ b \notin DOMAIN p.label \/ p.count[l] > 0 \/ b \in named
      THEN p
      ELSE IF left = <<>> \/ joins THEN Removing(q, b) ELSE q

(* A block that is only a label, before another label.                     *)
Redirected(blocks, old, new) ==
  [b \in DOMAIN blocks |-> [k \in DOMAIN blocks[b] |->
     LET n == blocks[b][k]
     IN  IF Branches(n) /\ n.l = old THEN [n EXCEPT !.l = new] ELSE n]]
DropBlock(p, edges, named, headers, b) ==
  LET next == p.blocks[b + 1]
      q == [p EXCEPT !.blocks = [Redirected(@, Head(@[b]).l, Head(next).l)
                                   EXCEPT ![b] = <<>>]]
  IN  IF \/ Len(p.blocks[b]) # 1 \/ b = Len(p.blocks) \/ b \in named \cup headers
         \/ Successors(edges, b) # {b + 1}
         \/ Head(p.blocks[b]).i # "label"
         \/ next = <<>> \/ Head(next).i # "label"
      THEN p
      ELSE Removing(q, b)

RECURSIVE Simplified(_, _, _, _)
Simplified(p, edges, named, headers) ==
  LET numbers == [b \in DOMAIN p.blocks |-> b]
      branches == InOrder(LAMBDA q, b : DropBranch(q, edges, b), p, numbers)
      labels == InOrder(LAMBDA q, b : DropLabel(q, edges, named, b), branches, numbers)
      last == InOrder(LAMBDA q, b : DropBlock(q, edges, named, headers, b), labels, numbers)
  IN  IF last = p THEN p ELSE Simplified(last, edges, named, headers)

SimplifyPass(code) ==
  LET blocks == Blocks(code)
      edges == CfgOf(blocks)
      named == {a.bb : a \in PhiArgs(blocks)}
      p == Simplified(Tables(blocks), edges, named, Headers(blocks, edges))
  IN  StraightLine(WithoutBlocks(p.blocks, p.removed))
=============================================================================
