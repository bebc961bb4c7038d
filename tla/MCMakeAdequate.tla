----------------------------- MODULE MCMakeAdequate -----------------------------
(* An instance of MakeAdequate for TLC: the orders of two integers l and m. *)
EXTENDS MakeAdequate

Order == {"less", "equal", "greater"}

Value(b) == IF b THEN vtt ELSE vff

(* equiv: <<l < m, m < l, l = m>>.  That the first two exclude each other  *)
(* is a core that prunes.                                                  *)
OrderEquiv ==
    [w \in Order |-> [i \in 0 .. 2 |-> Value(w = <<"less", "greater", "equal">>[i + 1])]]

(* vocab: <<l <= m, m < l>> does not tell less from equal.                 *)
CoarseVocab ==
    [w \in Order |-> [i \in 0 .. 1 |-> Value((w = "greater") = (i = 1))]]

(* Action constraint: of the equivalence evaluations, the solver gives up  *)
(* only on the first two that the user judges.                             *)
GivesUpEarly ==
    eqvSides' # eqvSides =>
        Len(eqvSides) <= 1 \/ EquivOf[eqvSides'[Len(eqvSides')].model] = choice
===============================================================================
