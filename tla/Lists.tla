--------------------------------- MODULE Lists ---------------------------------
(***************************************************************************)
(* What the models do with lists and can be reasoned about: SelectSeq and   *)
(* the folds of the libraries take an operator, for which the prover has no *)
(* induction.  Here a selection is a set of positions, and a step of a fold *)
(* is a function.                                                           *)
(***************************************************************************)
EXTENDS SequencesExt

\* The elements of s at the positions in P, in their order.
At(s, P) == FlattenSeq([n \in DOMAIN s |-> IF n \in P THEN <<s[n]>> ELSE <<>>])

\* The functions in the sequence steps, applied in turn.
Folded(base, steps) ==
    LET done[n \in 0..Len(steps)] == IF n = 0 THEN base ELSE steps[n][done[n - 1]]
    IN  done[Len(steps)]
===============================================================================
