-------------------------------- MODULE Ptree --------------------------------
(***************************************************************************)
(* The binary search tree of utils/ptree.c.  A node is named by its value; *)
(* a tree is its root and the three pointers of every node.  The pointers  *)
(* of a node that is not in the tree are Nil: it is freed (free) or not    *)
(* yet allocated (malloc and memset).                                      *)
(***************************************************************************)
EXTENDS Naturals, Sequences

CONSTANT
    Values \* what a tree may hold, numbered in the order of cmp

ASSUME ValuesAssumption == Values \subseteq Nat \ {0}

Nil == 0

EmptyTree ==
    LET none == [n \in Values |-> Nil]
    IN [root |-> Nil, left |-> none, right |-> none, up |-> none]

IsTree(t) ==
    LET Pointers == [Values -> Values \cup {Nil}]
    IN t \in [root : Values \cup {Nil}, left : Pointers, right : Pointers, up : Pointers]

\* The last node from n on, when next leads from one to the other until there
\* is none: the loops over pn_left, pn_right and pn_parent.
Follow(next, n) ==
    LET last[m \in Values] == IF next[m] = Nil THEN m ELSE last[next[m]]
    IN last[n]

\* The node of v, or the last one on the way to where v would hang.
WalkTo(t, v) ==
    LET way == [n \in Values |-> CASE v < n -> t.left[n]
                                   [] v > n -> t.right[n]
                                   [] OTHER -> Nil]
    IN IF t.root = Nil THEN Nil ELSE Follow(way, t.root)

Holds(t, v) == WalkTo(t, v) = v

-----------------------------------------------------------------------------
(* Walking in order. *)

Leftmost(t, n) == Follow(t.left, n)

Rightmost(t, n) == Follow(t.right, n)

\* The node after n, which it finds through the parents when n has nothing
\* on its right.
Successor(t, n) ==
    LET above == [m \in Values |-> LET p == t.up[m]
                                   IN IF p /= Nil /\ t.right[p] = m THEN p ELSE Nil]
    IN IF t.right[n] /= Nil THEN Leftmost(t, t.right[n]) ELSE t.up[Follow(above, n)]

\* The nodes in the order of a walk; one that comes to a node that is not
\* greater than the last ends there.
InOrder(t) ==
    LET next == [n \in Values |-> Successor(t, n)]
        walk[n \in Values] ==
            IF next[n] = Nil THEN <<n>>
            ELSE IF next[n] > n THEN <<n>> \o walk[next[n]] ELSE <<n, next[n]>>
    IN IF t.root = Nil THEN <<>> ELSE walk[Leftmost(t, t.root)]

-----------------------------------------------------------------------------
(* Changing a tree. *)

\* *pp = m, where pp is the place that holds n.
Hang(t, n, m) ==
    LET p == t.up[n]
    IN IF p = Nil THEN [t EXCEPT !.root = m]
       ELSE IF t.left[p] = n THEN [t EXCEPT !.left[p] = m]
       ELSE [t EXCEPT !.right[p] = m]

\* Mutant: the child keeps its old parent.
AdoptNobody(t, m, p) == t

\* The parent of m is p, if there is an m.
Adopt(t, m, p) == IF m = Nil THEN t ELSE [t EXCEPT !.up[m] = p]

Free(t, n) == [t EXCEPT !.left[n] = Nil, !.right[n] = Nil, !.up[n] = Nil]

\* The last node left of n, unlinked from there, takes the place of n.
Replaced(t, n) ==
    LET pred == Rightmost(t, t.left[n])
        unlinked == Adopt(Hang(t, pred, t.left[pred]), t.left[pred], t.up[pred])
        hung == Hang(unlinked, n, pred)
        moved == [hung EXCEPT !.left[pred] = hung.left[n], !.right[pred] = hung.right[n],
                              !.up[pred] = hung.up[n]]
    IN Adopt(Adopt(moved, moved.left[n], pred), moved.right[n], pred)

RemoveNode(t, n) ==
    LET child == IF t.left[n] = Nil THEN t.right[n] ELSE t.left[n]
        both == t.left[n] /= Nil /\ t.right[n] /= Nil
    IN Free(IF both THEN Replaced(t, n) ELSE Adopt(Hang(t, n, child), child, t.up[n]), n)

\* ptree_remove.
Without(t, v) == IF Holds(t, v) THEN RemoveNode(t, v) ELSE t

\* ptree_replace.
With(t, v) ==
    LET p == WalkTo(t, v)
    IN IF p = v THEN t
       ELSE IF p = Nil THEN [t EXCEPT !.root = v]
       ELSE IF v < p THEN [t EXCEPT !.left[p] = v, !.up[v] = p]
       ELSE [t EXCEPT !.right[p] = v, !.up[v] = p]

-----------------------------------------------------------------------------
(* The checks of VERIFY_TREE, for a tree that holds the values S: the walk   *)
(* counts them all, in strictly growing order, and children point back.      *)
Verified(t, S) ==
    LET walk == InOrder(t)
    IN /\ walk \in Seq(S) /\ S \subseteq {walk[i] : i \in DOMAIN walk}
       /\ \A i \in 1..Len(walk) - 1 : walk[i] < walk[i + 1]
       /\ \A n \in S : /\ t.left[n] /= Nil => t.up[t.left[n]] = n
                       /\ t.right[n] /= Nil => t.up[t.right[n]] = n
=============================================================================
