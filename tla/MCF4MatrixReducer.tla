------------------------- MODULE MCF4MatrixReducer -------------------------
(* Instances of F4MatrixReducer for TLC: two rows on top, out of order, and
   three below. *)
EXTENDS F4MatrixReducer

Row(a) == [c \in 0..Len(a) - 1 |-> a[c + 1]]

TopLeft == <<Row(<<0, 1>>), Row(<<1, 3>>)>>
TopRight == <<Row(<<2, 0, 1, 0>>), Row(<<0, 1, 4, 0>>)>>

(* Left and right parts of a bottom row *)
BottomRows ==
  <<<<Row(<<1, 2>>), Row(<<0, 3, 1, 0>>)>>, <<Row(<<0, 4>>), Row(<<3, 0, 2, 1>>)>>,
    <<Row(<<2, 0>>), Row(<<0, 2, 0, 1>>)>>, <<Row(<<0, 0>>), Row(<<0, 0, 3, 2>>)>>,
    <<Row(<<3, 4>>), Row(<<1, 1, 1, 3>>)>>>>

(* Three of them, some equal, or none: in which order does not matter, since
   the threads take them in any. *)
MCQuadMatrices ==
  {[topLeft |-> TopLeft, topRight |-> TopRight,
    bottomLeft |-> [i \in DOMAIN b |-> BottomRows[b[i]][1]],
    bottomRight |-> [i \in DOMAIN b |-> BottomRows[b[i]][2]]] :
     b \in {<<>>} \cup {c \in [1..3 -> 1..5] : c[1] <= c[2] /\ c[2] <= c[3]}}
=============================================================================
