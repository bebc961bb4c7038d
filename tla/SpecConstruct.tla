----------------------------- MODULE SpecConstruct -----------------------------
(***************************************************************************)
(* What specification construction promises, whatever the enumeration      *)
(* order and the data structures: every evaluation of the vocabulary that  *)
(* has a model is accepted by the user, rejected by the user, or covered   *)
(* by an eliminated pattern, an evaluation that is already settled is not  *)
(* put to the user again, and patterns come from nowhere but unsatisfiable *)
(* parts of the vocabulary and rejected evaluations.                       *)
(***************************************************************************)
EXTENDS Vocabulary

CONSTANT Satisfiable      \* the evaluations of the vocabulary that have a model

VARIABLES
    accepted,     \* the disjuncts of the specification
    rejected,     \* the evaluations the user rejected
    eliminated,   \* the patterns whose evaluations need not be asked
    finished      \* the enumeration has returned

avars == <<accepted, rejected, eliminated, finished>>

AInit ==
    /\ accepted = {}
    /\ rejected = {}
    /\ eliminated = {}
    /\ finished = FALSE

IsSettled(e) == e \in accepted \cup rejected \/ matchesUnsatCore(e, eliminated)

Accept(e) ==
    /\ ~ finished
    /\ ~ IsSettled(e)
    /\ accepted' = accepted \cup {e}
    /\ UNCHANGED <<rejected, eliminated, finished>>

Reject(e) ==
    /\ ~ finished
    /\ ~ IsSettled(e)
    /\ rejected' = rejected \cup {e}
    /\ UNCHANGED <<accepted, eliminated, finished>>

(* The solver has shown that the pattern has no model.                     *)
EliminateUnsat(p) ==
    /\ ~ finished
    /\ \A e \in Satisfiable : ~ Matches(e, p)
    /\ eliminated' = eliminated \cup {p}
    /\ UNCHANGED <<accepted, rejected, finished>>

(* The user has named the pattern as the reason of a rejection.            *)
EliminateRejected(p) ==
    /\ ~ finished
    /\ p # {}
    /\ \E e \in rejected : Matches(e, p)
    /\ eliminated' = eliminated \cup {p}
    /\ UNCHANGED <<accepted, rejected, finished>>

Conclude ==
    /\ ~ finished
    /\ \A e \in Satisfiable : IsSettled(e)
    /\ finished' = TRUE
    /\ UNCHANGED <<accepted, rejected, eliminated>>

ANext ==
    \/ \E e \in Satisfiable : Accept(e) \/ Reject(e)
    \/ \E p \in Pattern : EliminateUnsat(p) \/ EliminateRejected(p)
    \/ Conclude

ASpec == AInit /\ [][ANext]_avars
===============================================================================
