----------------------------- MODULE BoardGame -----------------------------
(***************************************************************************)
(* One game by the rules of BoardRules: the abstract specification that    *)
(* DotsAndBoxes implements.                                                *)
(***************************************************************************)
EXTENDS BoardRules

VARIABLE board

Init == board = NewBoard

Next == \E e \in BoardEdges \ board.taken : board' \in AfterLine(board, e)

Spec == Init /\ [][Next]_board
=============================================================================
