------------------------------ MODULE Vocabulary ------------------------------
(***************************************************************************)
(* The data every part of SpecConstruct works on (scma.h, scvocval.h): a   *)
(* vocabulary of formulae, partial evaluations of it, and the eliminated   *)
(* patterns ("unsat cores") that prune the enumeration of evaluations.     *)
(* A vocabulary formula is its index; its text is left out.                *)
(***************************************************************************)
EXTENDS Integers

CONSTANT VocabSize        \* vocab.size()

ASSUME VocabSizeAssumption == VocabSize \in Nat

Idx == 0 .. VocabSize - 1

(* vocab_value_t: unknown, false and true.                                 *)
vuu == -1
vff == 0
vtt == 1

(* The evaluations the traversal enumerates, and the partial ones choice   *)
(* holds on the way there.                                                 *)
Evaluation == [Idx -> {vff, vtt}]
PartialEvaluation == [Idx -> {vuu, vff, vtt}]

NoChoice == [i \in Idx |-> vuu]

(* An answer literal of the solver: vocabulary formula i asserted (vtt) or *)
(* its negation (vff).  unsat_core_t is a sequence of such pairs; neither  *)
(* their order nor a repeated pair changes what the core matches, so it is *)
(* the set of them.                                                        *)
Literal == Idx \X {vff, vtt}
Pattern == SUBSET Literal

(* The inner loop of matchesUnsatCore: no pair disagrees with the choice.  *)
Matches(ch, core) == \A p \in core : ch[p[1]] = p[2]

matchesUnsatCore(ch, cores) == \E core \in cores : Matches(ch, core)

(* Mutant: the values are not looked up.                                   *)
AlwaysTruePattern(ch, D) == {<<i, vtt>> : i \in D}

(* The pattern made of the formulae D with their current values.           *)
SubPattern(ch, D) == {<<i, ch[i]>> : i \in D}
===============================================================================
