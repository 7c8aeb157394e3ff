------------------------------- MODULE RBTree --------------------------------
(***************************************************************************)
(* The red-black tree of kernel/rbtree.c: nodes linked by left, right and  *)
(* parent pointers, no keys.  A client says where a node goes in.          *)
(*                                                                         *)
(* `left' and `right' are the two entries of tree.kid, so that code that   *)
(* the source writes twice, mirrored, is written once.  The two repair     *)
(* loops run one round per step, with their locals in `rb'.                *)
(***************************************************************************)
EXTENDS Integers, Sequences, FiniteSets

CONSTANTS Nodes, NULL

ASSUME TreeAssumption == IsFiniteSet(Nodes) /\ NULL \notin Nodes

VARIABLES
  tree,   \* [root, kid, parent, red]
  rb,     \* the loop under way
  fault   \* why the kernel stopped, or "none"

Sides == {"left", "right"}

Other(d) == IF d = "left" THEN "right" ELSE "left"

EmptyTree ==
  [root   |-> NULL,
   kid    |-> [d \in Sides |-> [n \in Nodes |-> NULL]],
   parent |-> [n \in Nodes |-> NULL],
   red    |-> [n \in Nodes |-> FALSE]]

Quiet == [pc |-> "quiet"]

rb_chk_red(t, x) == x # NULL /\ t.red[x]

\* Where the pointer to a node is kept: the root, or a side of a node.
Link(t, n) ==
  IF n = t.root THEN [at |-> NULL, side |-> "left"]
  ELSE [at |-> t.parent[n], side |-> IF n = t.kid["left"][t.parent[n]] THEN "left" ELSE "right"]

Store(t, link, n) ==
  IF link.at = NULL THEN [t EXCEPT !.root = n] ELSE [t EXCEPT !.kid[link.side][link.at] = n]

\* Variant: the subtree that changes hands keeps its parent pointer.
Rotate_StaleParent(t, x, d) ==
  LET y == t.kid[Other(d)][x]
      z == t.kid[d][y]
      p == t.parent[x]
      up == IF p = NULL THEN [at |-> NULL, side |-> d]
            ELSE [at |-> p, side |-> IF x = t.kid[d][p] THEN d ELSE Other(d)]
  IN  [Store(t, up, y) EXCEPT
         !.kid[Other(d)][x] = z, !.kid[d][y] = x, !.parent[y] = p, !.parent[x] = y]

\* rb_lrotate() for d = "left", rb_rrotate() for d = "right".
Rotate(t, x, d) ==
  LET y == t.kid[Other(d)][x]
      z == t.kid[d][y]
      p == t.parent[x]
      up == IF p = NULL THEN [at |-> NULL, side |-> d]
            ELSE [at |-> p, side |-> IF x = t.kid[d][p] THEN d ELSE Other(d)]
  IN  [Store(t, up, y) EXCEPT
         !.kid[Other(d)][x] = z,
         !.kid[d][y] = x,
         !.parent = [n \in Nodes |-> IF n = x THEN y ELSE IF n = y THEN p
                                     ELSE IF n = z THEN x ELSE t.parent[n]]]

-----------------------------------------------------------------------------
(***************************************************************************)
(* Insertion.                                                              *)
(***************************************************************************)
rb_insert(n, p, link) ==
  /\ tree' = [Store(tree, link, n) EXCEPT
                !.kid["left"][n] = NULL, !.kid["right"][n] = NULL,
                !.parent[n] = p, !.red[n] = TRUE]
  /\ rb' = [pc |-> "fixins", x |-> n]

\* One round of rb_fixins() on x, whose parent is red.
RedUncle(t, p, g, u) == [t EXCEPT !.red[p] = FALSE, !.red[u] = FALSE, !.red[g] = TRUE]

\* Variant: an inner node is not moved to the outside first.
Restructure_NoInner(t, x, d) ==
  LET p == t.parent[x]
      g == t.parent[p]
  IN  Rotate([t EXCEPT !.red[p] = FALSE, !.red[g] = TRUE], g, Other(d))

\* Variant: only an inner node is dealt with.
Restructure_InnerOnly(t, x, d) ==
  IF x = t.kid[Other(d)][t.parent[x]] THEN Rotate(t, t.parent[x], d) ELSE t

Restructure(t, x, d) ==
  LET inner == x = t.kid[Other(d)][t.parent[x]]
      y  == IF inner THEN t.parent[x] ELSE x
      t1 == IF inner THEN Rotate(t, y, d) ELSE t
      p  == t1.parent[y]
      g  == t1.parent[p]
  IN  Rotate([t1 EXCEPT !.red[p] = FALSE, !.red[g] = TRUE], g, Other(d))

FixInsert ==
  /\ rb.pc = "fixins"
  /\ fault = "none"
  /\ LET x == rb.x
     IN  IF x # tree.root /\ rb_chk_red(tree, tree.parent[x])
         THEN LET p == tree.parent[x]
                  g == tree.parent[p]
                  d == IF p = tree.kid["left"][g] THEN "left" ELSE "right"
                  u == tree.kid[Other(d)][g]
                  inner == x = tree.kid[Other(d)][p]
              IN  IF rb_chk_red(tree, u)
                  THEN tree' = RedUncle(tree, p, g, u) /\ rb' = [rb EXCEPT !.x = g]
                  ELSE /\ tree' = Restructure(tree, x, d)
                       /\ rb' = [rb EXCEPT !.x = IF inner THEN p ELSE x]
         ELSE tree' = [tree EXCEPT !.red[tree.root] = FALSE] /\ rb' = Quiet
  /\ fault' = fault

-----------------------------------------------------------------------------
(***************************************************************************)
(* Removal.                                                                *)
(***************************************************************************)
\* Down the links of one side from n.
Outermost(t, n, d) ==
  LET f[m \in Nodes] == IF t.kid[d][m] = NULL THEN m ELSE f[t.kid[d][m]]
  IN  f[n]

rb_first(t) == IF t.root = NULL THEN NULL ELSE Outermost(t, t.root, "left")
rb_last(t)  == IF t.root = NULL THEN NULL ELSE Outermost(t, t.root, "right")

\* The climb of rb_next() from n, which has no right child.
Climb(t, n) ==
  LET f[m \in Nodes] ==
        LET p == t.parent[m]
        IN  IF p = NULL \/ m # t.kid["right"][p] THEN p ELSE f[p]
  IN  f[n]

rb_next(t, n) ==
  IF t.kid["right"][n] # NULL THEN Outermost(t, t.kid["right"][n], "left") ELSE Climb(t, n)

Kids(t, n) == {t.kid[d][n] : d \in Sides} \ {NULL}

\* A node with at most one child leaves the tree.
Unlink(t, n) ==
  LET x == IF t.kid["left"][n] # NULL THEN t.kid["left"][n] ELSE t.kid["right"][n]
      t1 == Store(t, Link(t, n), x)
  IN  IF x = NULL THEN t1 ELSE [t1 EXCEPT !.parent[x] = t.parent[n], !.red[x] = FALSE]

NeedsRepair(t, n) == Kids(t, n) = {} /\ ~t.red[n]

\* Variant: x does not take over the right child of n.
Substitute_LosesRight(t, link, n, x) ==
  [Store(t, link, x) EXCEPT
     !.kid["left"][x] = t.kid["left"][n],
     !.parent = [m \in Nodes |-> IF m = x THEN t.parent[n]
                                 ELSE IF m \in Kids(t, n) THEN x ELSE t.parent[m]],
     !.red[x] = t.red[n]]

\* Node x takes the place of n, at the link found before the removal of x.
Substitute(t, link, n, x) ==
  [Store(t, link, x) EXCEPT
     !.kid["left"][x] = t.kid["left"][n],
     !.kid["right"][x] = t.kid["right"][n],
     !.parent = [m \in Nodes |-> IF m = x THEN t.parent[n]
                                 ELSE IF m \in Kids(t, n) THEN x ELSE t.parent[m]],
     !.red[x] = t.red[n]]

\* What is left to do after the repair: nothing, or the substitution.
NoSwap == [n |-> NULL]

\* A node that has left is wiped here; the code wipes it when it is next used.
Wipe(t, n) ==
  [t EXCEPT !.kid["left"][n] = NULL, !.kid["right"][n] = NULL, !.parent[n] = NULL,
            !.red[n] = FALSE]

Complete(t, swap, x) ==
  IF swap.n = NULL THEN Wipe(t, x)
  ELSE Wipe(Substitute(t, swap.link, swap.n, x), swap.n)

\* The node that is unlinked for n: n or its successor.
Removed(t, n) ==
  IF Cardinality(Kids(t, n)) = 2 THEN Outermost(t, t.kid["right"][n], "left") ELSE n

rb_remove(n) ==
  LET gone == Removed(tree, n)
      swap == IF gone # n THEN [n |-> n, link |-> Link(tree, n)] ELSE NoSwap
      cut  == Unlink(tree, gone)
  IN  IF NeedsRepair(tree, gone)
      THEN /\ tree' = cut
           /\ rb' = [pc |-> "fixdel", x |-> gone, gone |-> gone, swap |-> swap]
      ELSE tree' = Complete(cut, swap, gone) /\ rb' = Quiet

\* One round of rb_fixdel().  sib, inner and outer are the locals of the loop;
\* a NULL sibling is dereferenced.
Sibling(t, x, d) == t.kid[Other(d)][t.parent[x]]

DelRotate(t, x, s, d, outer) ==
  LET p  == t.parent[x]
      t1 == IF rb_chk_red(t, outer) THEN t ELSE Rotate(t, s, Other(d))
      s1 == IF rb_chk_red(t, outer) THEN s ELSE Sibling(t1, x, d)
      o1 == IF rb_chk_red(t, outer) THEN outer ELSE t1.kid[d][s1]
      t2 == [t1 EXCEPT !.red = [n \in Nodes |-> IF n = o1 THEN FALSE
                                                ELSE IF n = p THEN FALSE
                                                ELSE IF n = s1 THEN t1.red[p] ELSE t1.red[n]]]
  IN  Rotate(t2, p, d)

FixDelete ==
  /\ rb.pc = "fixdel"
  /\ fault = "none"
  /\ LET x  == rb.x
         p  == tree.parent[x]
         d  == IF tree.kid["left"][p] = x THEN "left" ELSE "right"
         s0 == Sibling(tree, x, d)
         redS == rb_chk_red(tree, s0)
         t  == IF redS THEN Rotate([tree EXCEPT !.red[s0] = FALSE, !.red[p] = TRUE], p, d)
                       ELSE tree
         s     == Sibling(t, x, d)
         inner == IF redS THEN s ELSE t.kid[Other(d)][s]
         outer == IF redS THEN t.kid[d][t.parent[x]] ELSE t.kid[d][s]
         calm  == ~rb_chk_red(t, inner) /\ ~rb_chk_red(t, outer)
         stuck == \/ p = NULL
                  \/ s0 = NULL
                  \/ s = NULL
                  \/ ~calm /\ ~rb_chk_red(t, outer) /\ t.kid[d][s] = NULL
         short == x # tree.root /\ ~tree.red[x]
     IN  \/ /\ ~short
            /\ tree' = Complete([tree EXCEPT !.red[x] = FALSE], rb.swap, rb.gone)
            /\ rb' = Quiet
            /\ fault' = fault
         \/ /\ short
            /\ IF stuck
               THEN fault' = "null pointer" /\ UNCHANGED <<tree, rb>>
               ELSE /\ fault' = fault
                    /\ IF calm
                       THEN tree' = [t EXCEPT !.red[s] = TRUE] /\ rb' = [rb EXCEPT !.x = t.parent[x]]
                       ELSE LET t2 == DelRotate(t, x, s, d, outer)
                            IN  tree' = t2 /\ rb' = [rb EXCEPT !.x = t2.root]

-----------------------------------------------------------------------------
(***************************************************************************)
(* What makes it a red-black tree.                                         *)
(***************************************************************************)

\* The nodes of the tree below each node, with itself.
Subtree(t) ==
  LET f[n \in Nodes \cup {NULL}] ==
        IF n = NULL THEN {} ELSE {n} \cup f[t.kid["left"][n]] \cup f[t.kid["right"][n]]
  IN  f

\* The numbers of black nodes on the ways from n to the end of the tree.
BlackHeights(t, n) ==
  LET f[m \in Nodes \cup {NULL}] ==
        IF m = NULL THEN {1}
        ELSE {h + (IF t.red[m] THEN 0 ELSE 1) :
                h \in f[t.kid["left"][m]] \cup f[t.kid["right"][m]]}
  IN  f[n]

Balanced(t) ==
  /\ ~rb_chk_red(t, t.root)
  /\ Cardinality(BlackHeights(t, t.root)) = 1
  /\ \A n \in Subtree(t)[t.root] : t.red[n] => \A k \in Kids(t, n) : ~t.red[k]

=============================================================================
