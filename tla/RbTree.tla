-------------------------------- MODULE RbTree --------------------------------
(***************************************************************************)
(* The red-black tree of kernel/lib/rbtree.c, as operators on a tree.      *)
(*                                                                         *)
(* A tree is a record of what the pointers hold: its root, the two         *)
(* children and the parent of every node, and the set of red nodes.  A     *)
(* NULL pointer is RbNull.  The C code writes each case twice, once for    *)
(* each side; here the side is a parameter.  A node that is not linked has *)
(* NULL pointers (the code leaves stale ones in memory it is about to free *)
(* or to link again).                                                      *)
(***************************************************************************)
EXTENDS Integers, FiniteSets

CONSTANTS RbNodes, RbNull

ASSUME RbAssumption == RbNull \notin RbNodes

Sides == {"left", "right"}

Other(side) == IF side = "left" THEN "right" ELSE "left"

\* rb_init.
RbEmpty == [root |-> RbNull,
            kid |-> [s \in Sides |-> [n \in RbNodes |-> RbNull]],
            parent |-> [n \in RbNodes |-> RbNull],
            red |-> {}]

\* The child of node n on a side.
Kid(t, s, n) == t.kid[s][n]

\* The side on which n hangs from its parent; the code tests for one and takes the other
\* for granted.
SideOf(t, n) == IF Kid(t, "left", t.parent[n]) = n THEN "left" ELSE "right"

\* Where u hung, v hangs: the pointer to u of its parent, or the root.
Repoint(t, u, v) ==
  IF t.parent[u] = RbNull THEN [t EXCEPT !.root = v]
                          ELSE [t EXCEPT !.kid[SideOf(t, u)][t.parent[u]] = v]

\* v's parent pointer, unless v is NULL.
SetParent(t, v, p) == IF v = RbNull THEN t ELSE [t EXCEPT !.parent[v] = p]

Paint(t, n, red) ==
  IF n = RbNull THEN t
  ELSE IF red THEN [t EXCEPT !.red = @ \cup {n}]
  ELSE [t EXCEPT !.red = @ \ {n}]

\* rotate_left for side "left", rotate_right for side "right".
Rotate(t, side, x) ==
  LET y == Kid(t, Other(side), x)
      inner == Kid(t, side, y)
      t1 == SetParent([t EXCEPT !.kid[Other(side)][x] = inner], inner, x)
      t2 == Repoint([t1 EXCEPT !.parent[y] = t.parent[x]], x, y)
  IN  [t2 EXCEPT !.kid[side][y] = x, !.parent[x] = y]

\* rb_link_node under parent p on a side; as the root if p is NULL.
LinkNode(t, n, p, side) ==
  LET t1 == IF p = RbNull THEN [t EXCEPT !.root = n] ELSE [t EXCEPT !.kid[side][p] = n]
  IN  [t1 EXCEPT !.parent[n] = p, !.red = @ \cup {n}]

\* z is an inner grandchild: it is turned into an outer one, and its parent is the new z.
Straighten(t, z, s) == IF z = Kid(t, Other(s), t.parent[z])
                         THEN [t |-> Rotate(t, s, t.parent[z]), z |-> t.parent[z]]
                         ELSE [t |-> t, z |-> z]

\* The parent takes the grandparent's place and colour.
TurnOver(t, z, s, gp) ==
  Rotate(Paint(Paint(t, t.parent[z], FALSE), gp, TRUE), Other(s), gp)

\* The loop of rb_insert_color from node z up, and the black root after it.
RECURSIVE InsertColor(_, _)
InsertColor(t, z) ==
  LET p == t.parent[z]
      Up(gp, s, u) ==
        IF u \in t.red
          THEN InsertColor(Paint(Paint(Paint(t, p, FALSE), u, FALSE), gp, TRUE), gp)
          ELSE LET Over(r) == InsertColor(TurnOver(r.t, r.z, s, gp), r.z)
               IN  Over(Straighten(t, z, s))
      Grand(gp, s) == Up(gp, s, Kid(t, Other(s), gp))
  IN  IF p = RbNull \/ p \notin t.red \/ t.parent[p] = RbNull THEN Paint(t, t.root, FALSE)
      ELSE Grand(t.parent[p], SideOf(t, p))

\* rb_min.
RECURSIVE RbMin(_, _)
RbMin(t, n) == IF n = RbNull \/ Kid(t, "left", n) = RbNull THEN n ELSE RbMin(t, Kid(t, "left", n))

\* rb_first.
RbFirst(t) == RbMin(t, t.root)

RECURSIVE ClimbFromRight(_, _)
ClimbFromRight(t, n) ==
  IF t.parent[n] # RbNull /\ n = Kid(t, "right", t.parent[n])
    THEN ClimbFromRight(t, t.parent[n]) ELSE t.parent[n]

\* rb_next.
RbNext(t, n) == IF Kid(t, "right", n) # RbNull THEN RbMin(t, Kid(t, "right", n))
                                               ELSE ClimbFromRight(t, n)

\* transplant.
Transplant(t, u, v) == SetParent(Repoint(t, u, v), v, t.parent[u])

IsBlack(t, n) == n = RbNull \/ n \notin t.red

\* Mutant: the missing black node is made up for only where x is red.
EraseFixupRedOnly(t, x, xp) == Paint(t, x, FALSE)

\* A red sibling of the place on side s below p is rotated up.
SiblingUp(t, s, p) ==
  LET w == Kid(t, Other(s), p)
  IN  IF w \in t.red THEN Rotate(Paint(Paint(t, w, FALSE), p, TRUE), s, p) ELSE t

\* The red child of the sibling w is moved to the far side.
RedToFar(t, s, w) ==
  IF IsBlack(t, Kid(t, Other(s), w))
    THEN Rotate(Paint(Paint(t, Kid(t, s, w), FALSE), w, TRUE), Other(s), w) ELSE t

\* The sibling takes the colour and the place of p.
SiblingOver(t, s, p) ==
  LET w == Kid(t, Other(s), p)
  IN  Rotate(Paint(Paint(Paint(t, w, p \in t.red), p, FALSE), Kid(t, Other(s), w), FALSE), s, p)

\* erase_fixup: x (or, if x is NULL, the place below xp) lacks one black node.
RECURSIVE EraseFixup(_, _, _)
EraseFixup(t, x, xp) ==
  LET AtRoot(u) == EraseFixup(u, u.root, RbNull)
      Sibling(u, p, s, w) ==
        IF w = RbNull \/ \A c \in Sides : IsBlack(u, Kid(u, c, w))
          THEN EraseFixup(Paint(u, w, TRUE), p, u.parent[p])
          ELSE AtRoot(SiblingOver(RedToFar(u, s, w), s, p))
      BlackSibling(u, p, s) == Sibling(u, p, s, Kid(u, Other(s), p))
      Place(p, s) == BlackSibling(SiblingUp(t, s, p), p, s)
      Parent(p) == IF x = t.root \/ ~IsBlack(t, x) \/ p = RbNull THEN Paint(t, x, FALSE)
                   ELSE Place(p, IF x = Kid(t, "left", p) THEN "left" ELSE "right")
  IN  Parent(IF x # RbNull THEN t.parent[x] ELSE xp)

\* Node n as it is before it is linked.
Unlinked(t, n) == [t EXCEPT !.kid = [s \in Sides |-> [@[s] EXCEPT ![n] = RbNull]],
                            !.parent[n] = RbNull, !.red = @ \ {n}]

\* rb_erase of a node with two children: its successor y leaves its own place ...
LiftSuccessor(t, z, y) ==
  IF t.parent[y] = z THEN t
  ELSE SetParent([Transplant(t, y, Kid(t, "right", y)) EXCEPT !.kid["right"][y] = Kid(t, "right", z)],
                 Kid(t, "right", z), y)

\* ... and takes that of z, and its colour.
TakePlace(t, z, y) ==
  Paint(SetParent([Transplant(t, z, y) EXCEPT !.kid["left"][y] = Kid(t, "left", z)],
                  Kid(t, "left", z), y), y, z \in t.red)

EraseInner(t, z) ==
  LET Successor(y) ==
        IF y \in t.red THEN TakePlace(LiftSuccessor(t, z, y), z, y)
        ELSE EraseFixup(TakePlace(LiftSuccessor(t, z, y), z, y), Kid(t, "right", y),
                        IF t.parent[y] = z THEN y ELSE t.parent[y])
  IN  Successor(RbMin(t, Kid(t, "right", z)))

\* rb_erase.
RbErase(t, z) ==
  LET Outer(x) == IF z \in t.red THEN Transplant(t, z, x)
                  ELSE EraseFixup(Transplant(t, z, x), x, t.parent[z])
      Gone == IF Kid(t, "left", z) = RbNull THEN Outer(Kid(t, "right", z))
              ELSE IF Kid(t, "right", z) = RbNull THEN Outer(Kid(t, "left", z))
              ELSE EraseInner(t, z)
  IN  Unlinked(Gone, z)
-------------------------------------------------------------------------------
\* The nodes below n, in order.
RECURSIVE Below(_, _)
Below(t, n) == IF n = RbNull THEN {} ELSE {n} \cup Below(t, Kid(t, "left", n)) \cup Below(t, Kid(t, "right", n))

\* The black nodes on the way down from n; -1 where two ways differ.
RECURSIVE BlackHeight(_, _)
BlackHeight(t, n) ==
  IF n = RbNull THEN 0
  ELSE LET l == BlackHeight(t, Kid(t, "left", n))
           r == BlackHeight(t, Kid(t, "right", n))
       IN  IF l = -1 \/ l # r THEN -1 ELSE l + IF n \in t.red THEN 0 ELSE 1

\* What makes it a red-black tree: pointers agree both ways, the root is black, a red node
\* has black children, and every way down meets as many black nodes.
RbValid(t) ==
  /\ t.root # RbNull => t.parent[t.root] = RbNull /\ t.root \notin t.red
  /\ \A n \in Below(t, t.root), s \in Sides :
       Kid(t, s, n) # RbNull =>
         /\ t.parent[Kid(t, s, n)] = n
         /\ n \in t.red => Kid(t, s, n) \notin t.red
  /\ BlackHeight(t, t.root) # -1
===============================================================================
