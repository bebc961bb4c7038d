-------------------------------- MODULE Espresso --------------------------------
(***************************************************************************)
(* The part of the vendored Espresso that SpecConstruct runs (espresso     *)
(* -Dsimplify with the outputs eqntott and kiss): read_cube, simplify and  *)
(* the covers it cuts and joins (compl.c, cofactor.c, contain.c), and the  *)
(* two printers (cvrout.c).                                                *)
(*                                                                         *)
(* A cube gives each vocabulary formula the set of values, the parts, it   *)
(* admits; the single output has one part, which every cube has, and is    *)
(* left out.  A cover is a sequence of cubes: its order is that of the     *)
(* printed terms.                                                          *)
(***************************************************************************)
EXTENDS Vocabulary, Sequences, SequencesExt

(* The members of a sequence that are in S, in their order.                *)
Only(s, S) ==
    LET kept[i \in 0 .. Len(s)] ==
            IF i = 0 THEN <<>>
            ELSE IF s[i] \in S THEN Append(kept[i - 1], s[i]) ELSE kept[i - 1]
    IN  kept[Len(s)]

(* The members of S in an order: each behind those that are before it.     *)
Arranged(S, Before(_, _)) ==
    [k \in 1 .. Cardinality(S) |-> CHOOSE a \in S : Cardinality({b \in S : Before(b, a)}) = k - 1]

Parts == {vff, vtt}
Cube == [Idx -> SUBSET Parts]

fullset == [v \in Idx |-> Parts]

set_or(a, b) == [v \in Idx |-> a[v] \cup b[v]]
set_and(a, b) == [v \in Idx |-> a[v] \cap b[v]]
setp_implies(a, b) == \A v \in Idx : a[v] \subseteq b[v]

(* A row of the table is a cube; "-" admits both values.                   *)
read_cube(row) == [v \in Idx |-> IF row[v] = vuu THEN Parts ELSE {row[v]}]

(* parse_pla reads a row per line of the table after its header lines.     *)
parse_pla(rows) == [i \in DOMAIN rows |-> read_cube(rows[i])]

(* A list of cubes, and the parts that have been cofactored against.       *)
cube1list(F) == [cof |-> [v \in Idx |-> {}], cubes |-> F]

cubeunlist(T) == [i \in DOMAIN T.cubes |-> set_or(T.cubes[i], T.cof)]

-------------------------------------------------------------------------------
(* Choosing a variable and cutting the list                                *)

(* massive_count, for one part and for one variable.                       *)
part_zeros(T, v, x) ==
    Cardinality({i \in DOMAIN T.cubes : x \notin T.cubes[i][v] \cup T.cof[v]})

parts_active(T, v) == Cardinality({x \in Parts : part_zeros(T, v, x) > 0})

var_zeros(T, v) == part_zeros(T, v, vff) + part_zeros(T, v, vtt)

maxactive(T, v) ==
    IF part_zeros(T, v, vff) > part_zeros(T, v, vtt) THEN part_zeros(T, v, vff) ELSE part_zeros(T, v, vtt)

(* The variable to split on: the most active parts, the most zeros, the    *)
(* most balanced, the first.                                               *)
Better(T, v, w) ==
    \/ parts_active(T, v) > parts_active(T, w)
    \/ /\ parts_active(T, v) = parts_active(T, w)
       /\ \/ var_zeros(T, v) > var_zeros(T, w)
          \/ /\ var_zeros(T, v) = var_zeros(T, w)
             /\ \/ maxactive(T, v) < maxactive(T, w)
                \/ maxactive(T, v) = maxactive(T, w) /\ v < w

best(T) == CHOOSE v \in Idx : \A w \in Idx \ {v} : Better(T, v, w)

(* binate_split_select cuts the variable into its two values; scofactor    *)
(* keeps the cubes that meet v = x.                                        *)
scofactor(T, v, x) ==
    [cof |-> [T.cof EXCEPT ![v] = @ \cup (Parts \ {x})],
     cubes |-> Only(T.cubes, {c \in Cube : x \in c[v]})]

-------------------------------------------------------------------------------
(* Unate lists: only the largest cubes stay                                *)

Elements(c) == {p \in Idx \X Parts : p[2] \in c[p[1]]}

(* The bit of an element, and the words of the bit sets compared: the      *)
(* highest bit that is in one of the sets only is in a.                    *)
Bit(p) == 2 * p[1] + p[2]

Higher(a, b) ==
    \E p \in Elements(a) \ Elements(b) : \A q \in Elements(b) \ Elements(a) : Bit(p) > Bit(q)

(* descend: by size, then by the words.                                    *)
descend(a, b) ==
    \/ Cardinality(Elements(a)) > Cardinality(Elements(b))
    \/ Cardinality(Elements(a)) = Cardinality(Elements(b)) /\ Higher(a, b)

(* rm_equal and rm_contain on the sorted cover.                            *)
sf_contain(A) ==
    Arranged({a \in ToSet(A) : \A b \in ToSet(A) \ {a} : ~ setp_implies(a, b)}, descend)

-------------------------------------------------------------------------------
(* Joining the two halves                                                  *)

(* Mutant: the merged right cubes stay active.                             *)
KeepMerged(L, R, v) == R

(* Mutant: a cube is raised when it meets one of the other half.           *)
LiftIfMeets(a, B, v, x) ==
    IF \E b \in ToSet(B) : \A w \in Idx \ {v} : a[w] \cap b[w] # {}
    THEN [a EXCEPT ![v] = Parts] ELSE a

(* compl_lift: cube a of one half, cut to one value of v, is raised to     *)
(* both when a cube of the other half, cut to x, contains it beside v.     *)
compl_lift(a, B, v, x) ==
    IF \E b \in ToSet(B) : setp_implies([a EXCEPT ![v] = {x}], b)
    THEN [a EXCEPT ![v] = Parts] ELSE a

(* compl_d1merge: a right cube that equals a left one beside v becomes     *)
(* inactive, and the left one stands for both.                             *)
compl_d1merge(L, R, v) ==
    Only(R, {r \in Cube : \A l \in ToSet(L) : [l EXCEPT ![v] = {vtt}] # r})

(* The left cubes are lifted against the right ones, and then the active   *)
(* right ones against the lifted left ones.  (The merge itself also raises *)
(* left cubes: those equal to a right one, which the lift raises anyway.)  *)
compl_merge(L, R, v) ==
    LET Lv == [i \in DOMAIN L |-> set_and(L[i], [fullset EXCEPT ![v] = {vff}])]
        Rv == [i \in DOMAIN R |-> set_and(R[i], [fullset EXCEPT ![v] = {vtt}])]
        left == [i \in DOMAIN Lv |-> compl_lift(Lv[i], Rv, v, vtt)]
        active == compl_d1merge(Lv, Rv, v)
    IN  left \o [i \in DOMAIN active |-> compl_lift(active[i], left, v, vff)]

-------------------------------------------------------------------------------
(* simplify                                                                *)

List == [cof : Cube, cubes : Seq(Cube)]

(* The parts some cube has, and the list with the others factored out.     *)
ceil(T) == [v \in Idx |-> T.cof[v] \cup UNION {T.cubes[i][v] : i \in DOMAIN T.cubes}]

factored(T) ==
    [cof |-> set_or(T.cof, [v \in Idx |-> Parts \ ceil(T)[v]]), cubes |-> T.cubes]

active(T) == {v \in Idx : parts_active(T, v) > 0}

(* The special cases (simplify_special_cases) come first.  Every call of   *)
(* itself is for a list with a larger cof.                                 *)
simplify[T \in List] ==
    IF Len(T.cubes) <= 1 THEN cubeunlist(T)
    ELSE IF fullset \in ToSet(cubeunlist(T)) THEN <<fullset>>
    ELSE IF ceil(T) # fullset THEN
        LET A == simplify[factored(T)] IN [i \in DOMAIN A |-> set_and(A[i], ceil(T))]
    ELSE IF Cardinality(active(T)) = 1 THEN <<fullset>>
    ELSE IF \A v \in active(T) : parts_active(T, v) = 1 THEN sf_contain(cubeunlist(T))
    ELSE LET v == best(T)
             merged == compl_merge(simplify[scofactor(T, v, vff)], simplify[scofactor(T, v, vtt)], v)
         IN  IF Len(merged) > Len(T.cubes) THEN cubeunlist(T) ELSE merged

-------------------------------------------------------------------------------
(* The printers                                                            *)

(* kiss_output: a row of values per cube.                                  *)
kiss_output(F) ==
    [i \in DOMAIN F |->
        [v \in Idx |-> IF F[i][v] = Parts THEN vuu ELSE CHOOSE x \in F[i][v] : TRUE]]

(* The equation is a sequence of product terms, each a sequence of         *)
(* literals; eol tells that the line ends right after the literal.         *)
LineLength == 72

strlen(v) == IF v < 10 THEN 2 ELSE 3        \* INLABEL(v) is "v<v>"

(* One literal: the line is broken before its "&", "!" or name.            *)
PrintLiteral(st, v, c) ==
    LET breaks == st.col + strlen(v) > LineLength
        first == st.term = <<>>
        neg == c[v] = {vff}
        before == IF breaks /\ ~ first THEN [st.term EXCEPT ![Len(st.term)].eol = TRUE]
                  ELSE st.term
    IN  [col |-> (IF breaks THEN 4 ELSE st.col) + (IF first THEN 0 ELSE 1)
                   + (IF neg THEN 1 ELSE 0) + strlen(v),
         term |-> Append(before, [v |-> v, neg |-> neg, eol |-> FALSE])]

(* Mutant: only formulae that must hold are printed.                       *)
OnesOnly(c) == Only([k \in 1 .. VocabSize |-> k - 1], {v \in Idx : c[v] = {vtt}})

(* The formulae the cube restricts, in order.                              *)
Literals(c) == Only([k \in 1 .. VocabSize |-> k - 1], {v \in Idx : c[v] # Parts})

(* One product term in its parentheses.                                    *)
PrintTerm(st, c) ==
    LET opened == [col |-> st.col + (IF st.terms = <<>> THEN 1 ELSE 4), term |-> <<>>]
        literals == Literals(c)
        printed[k \in 0 .. Len(literals)] ==
            IF k = 0 THEN opened ELSE PrintLiteral(printed[k - 1], literals[k], c)
        closed == printed[Len(literals)]
    IN  [col |-> closed.col + 1, terms |-> Append(st.terms, closed.term)]

(* "Spec = " and the terms.                                                *)
eqn_output(F) ==
    LET printed[k \in 0 .. Len(F)] ==
            IF k = 0 THEN [col |-> 7, terms |-> <<>>] ELSE PrintTerm(printed[k - 1], F[k])
    IN  printed[Len(F)].terms
===============================================================================
