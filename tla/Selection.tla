------------------------------ MODULE Selection ------------------------------
(***************************************************************************)
(* Filtering of lists.  SelectIn is SelectSeq of the standard module        *)
(* Sequences with a set in place of a test, which is what proofs can speak  *)
(* about (see SelectionProofs).                                             *)
(***************************************************************************)
EXTENDS Naturals, Sequences

\* The elements of q that are in S, in their order.
SelectIn(q, S) ==
    LET sel[n \in 0..Len(q)] ==
          IF n = 0 THEN <<>>
          ELSE IF q[n] \in S THEN Append(sel[n - 1], q[n])
          ELSE sel[n - 1]
    IN sel[Len(q)]
=============================================================================
