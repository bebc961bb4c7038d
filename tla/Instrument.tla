----------------------------- MODULE Instrument -----------------------------
(***************************************************************************)
(* Rewriting a source file, instrument of                                  *)
(* src/InstrumentationFunctions.cpp: line by line, the declarations and    *)
(* the returns that begin on the line are replaced.  A line is its length, *)
(* the columns of its ; , and ) and those of its blanks; columns count     *)
(* from 0 here, from 1 in declCol.  What is written for a line is a        *)
(* sequence of pieces: <<"text", c>> for its character c, <<"var", k>> and *)
(* <<"return", k>> for the k-th declaration and return, <<"type", 0>> for  *)
(* the return type of the function.                                        *)
(***************************************************************************)
EXTENDS Integers, Sequences, FiniteSets

CONSTANTS
    Sources,    \* records [lines, vars, returns, function]
    MaxCount    \* what a negative count becomes as an unsigned one: all there is

(* Where Clang saw a declaration or a return, which may be nowhere.        *)
Place == [line : Int, col : Int]

TextLine ==
    {l \in [length : Nat, stops : SUBSET Nat, blanks : SUBSET Nat] :
        l.stops \cup l.blanks \subseteq 0 .. l.length - 1}

(* The function was found in the text, so it has a column.                 *)
Source == [lines : Seq(TextLine), vars : Seq(Place), returns : Seq(Place),
           function : [line : Int, col : Nat \ {0}, type : STRING]]

ASSUME SourcesAssumption == Sources \subseteq Source
ASSUME CountAssumption == MaxCount \in Nat

VARIABLES
    source,         \* what instrument was called with; vars and returns sorted or not
    currentLine, currentVar, currentReturn,
    prevDeclEnd,    \* the column up to which the line is written
    instrumented_line,
    output,         \* the lines written
    progress        \* "declarations" or "returns" of the line, "done", "undefined":
                    \* a line is read past its end, "crashed": out_of_range is thrown

instrumentVars ==
    <<source, currentLine, currentVar, currentReturn, prevDeclEnd, instrumented_line, output, progress>>

Earlier(v, w) == v.line < w.line \/ (v.line = w.line /\ v.col < w.col)

(* sort(vars): some sequence of the same members in order.                 *)
Sorted(vars) ==
    CHOOSE s \in {[k \in DOMAIN vars |-> vars[p[k]]] :
                    p \in {q \in [DOMAIN vars -> DOMAIN vars] : \A i, j \in DOMAIN vars : q[i] = q[j] => i = j}} :
        \A i, j \in DOMAIN s : i < j => ~Earlier(s[j], s[i])

InstrumentInit ==
    /\ source \in {[s EXCEPT !.vars = Sorted(s.vars)] : s \in Sources}
    /\ currentLine = 1 /\ currentVar = 1 /\ currentReturn = 1
    /\ prevDeclEnd = -1
    /\ instrumented_line = <<>>
    /\ output = <<>>
    /\ progress = "declarations"

line == source.lines[currentLine]

(* One column more, as if the count were the last column.                  *)
SubstrLonger(from, count) ==
    LET last == IF from + count + 1 > line.length THEN line.length ELSE from + count + 1
    IN  [k \in 1 .. last - from |-> <<"text", from + k - 1>>]

(* line.substr(from, count).                                               *)
Substr(from, count) ==
    LET n == IF count < 0 THEN MaxCount ELSE count
        last == IF from + n > line.length THEN line.length ELSE from + n
    IN  [k \in 1 .. last - from |-> <<"text", from + k - 1>>]

(* The declaration goes to the first ; , or ) from its column on; when     *)
(* there is none its end stays where it begins.                            *)
DeclarationEnd(beg) ==
    LET stops == {c \in line.stops : c >= beg}
    IN  IF stops = {} THEN beg ELSE CHOOSE c \in stops : \A d \in stops : c <= d

(* declarationLength: as far as the line goes when there is none.          *)
DeclarationLength(beg) ==
    IF \E c \in line.stops : c >= beg THEN DeclarationEnd(beg) - beg + 1 ELSE line.length - beg

(* Where substr throws out_of_range, a negative position being a large one.*)
Outside(pos) == pos < 0 \/ pos > line.length

Misplaced(at) == Outside(at.col - 1) \/ Outside(prevDeclEnd + 1)

(* Unless the function is void instrumentReturn takes what is behind the   *)
(* first seven characters of the return.                                   *)
ReturnPrefix == 7
TooShort(at) == source.function.type # "void" /\ DeclarationLength(at.col - 1) < ReturnPrefix

(* Text up to the declaration, and what stands for it.                     *)
Rewrite(at, piece) ==
    LET beg == at.col - 1
    IN  /\ instrumented_line' = instrumented_line
                \o Substr(prevDeclEnd + 1, beg - prevDeclEnd - 1) \o <<piece>>
        /\ prevDeclEnd' = DeclarationEnd(beg)

Due(cursor, places) == cursor <= Len(places) /\ places[cursor].line = currentLine

instrument_declaration ==
    /\ progress = "declarations" /\ currentLine <= Len(source.lines)
    /\ Due(currentVar, source.vars)
    /\ ~Misplaced(source.vars[currentVar])
    /\ Rewrite(source.vars[currentVar], <<"var", currentVar>>)
    /\ currentVar' = currentVar + 1
    /\ UNCHANGED <<source, currentLine, currentReturn, output, progress>>

no_more_declarations ==
    /\ progress = "declarations" /\ currentLine <= Len(source.lines)
    /\ ~Due(currentVar, source.vars)
    /\ progress' = "returns"
    /\ UNCHANGED <<source, currentLine, currentVar, currentReturn, prevDeclEnd, instrumented_line, output>>

instrument_return ==
    /\ progress = "returns"
    /\ Due(currentReturn, source.returns)
    /\ ~Misplaced(source.returns[currentReturn]) /\ ~TooShort(source.returns[currentReturn])
    /\ Rewrite(source.returns[currentReturn], <<"return", currentReturn>>)
    /\ currentReturn' = currentReturn + 1
    /\ UNCHANGED <<source, currentLine, currentVar, output, progress>>

(* The return type of the function is the word from its column to a blank, *)
(* looked for in the line as rewritten so far, one behind the column.      *)
ReplaceType(pieces) ==
    LET col == source.function.col
        Blank(k) == pieces[k][1] = "text" /\ pieces[k][2] \in line.blanks
        blanks == {k \in DOMAIN pieces : k > col /\ Blank(k)}
        first == CHOOSE k \in blanks : \A m \in blanks : k <= m
    IN  IF blanks = {} THEN <<>>
        ELSE SubSeq(pieces, 1, col - 1) \o <<<<"type", 0>>>> \o SubSeq(pieces, first + 1, Len(pieces))

write_line ==
    /\ progress = "returns"
    /\ ~Due(currentReturn, source.returns)
    /\ ~Outside(prevDeclEnd + 1)
    /\ LET pieces == instrumented_line
                        \o Substr(prevDeclEnd + 1, line.length - 1 - prevDeclEnd)
           typed == currentLine = source.function.line /\ source.function.type # "void"
       IN  IF typed /\ ReplaceType(pieces) = <<>>
           THEN progress' = "undefined" /\ UNCHANGED output
           ELSE /\ output' = Append(output, IF typed THEN ReplaceType(pieces) ELSE pieces)
                /\ progress' = "declarations"
    /\ currentLine' = currentLine + 1
    /\ prevDeclEnd' = -1
    /\ instrumented_line' = <<>>
    /\ UNCHANGED <<source, currentVar, currentReturn>>

end_of_file ==
    /\ progress = "declarations" /\ currentLine > Len(source.lines)
    /\ progress' = "done"
    /\ UNCHANGED <<source, currentLine, currentVar, currentReturn, prevDeclEnd, instrumented_line, output>>

(* Nothing catches what a substr throws.                                   *)
out_of_range ==
    /\ \/ /\ progress = "declarations" /\ currentLine <= Len(source.lines)
          /\ Due(currentVar, source.vars)
          /\ Misplaced(source.vars[currentVar])
       \/ /\ progress = "returns"
          /\ Due(currentReturn, source.returns)
          /\ Misplaced(source.returns[currentReturn]) \/ TooShort(source.returns[currentReturn])
       \/ /\ progress = "returns"
          /\ ~Due(currentReturn, source.returns)
          /\ Outside(prevDeclEnd + 1)
    /\ progress' = "crashed"
    /\ UNCHANGED <<source, currentLine, currentVar, currentReturn, prevDeclEnd, instrumented_line, output>>

InstrumentNext ==
    \/ instrument_declaration \/ no_more_declarations
    \/ instrument_return \/ write_line \/ end_of_file \/ out_of_range

InstrumentSpec == InstrumentInit /\ [][InstrumentNext]_instrumentVars

-----------------------------------------------------------------------------
(* What instrument needs and does not ask for: every place is in the text, *)
(* behind the function's type and with a stop behind it, a return has room *)
(* for the word, no declaration begins before an earlier one ends          *)
(* (int a, b; gives both one column) or behind a return of the line, and   *)
(* the returns come in order.                                              *)
End(at) ==
    LET stops == {c \in source.lines[at.line].stops : c >= at.col - 1}
    IN  CHOOSE c \in stops : \A d \in stops : c <= d

Clear(v, w) == v.line = w.line => End(v) < w.col - 1

WellPlaced ==
    LET vars == source.vars
        returns == source.returns
        places == {vars[k] : k \in DOMAIN vars} \cup {returns[k] : k \in DOMAIN returns}
    IN  /\ \A at \in places :
              /\ at.line \in DOMAIN source.lines
              /\ at.col \in 1 .. source.lines[at.line].length
              /\ \E c \in source.lines[at.line].stops : c >= at.col - 1
              /\ at.line = source.function.line =>
                    \E b \in source.lines[at.line].blanks : b \in source.function.col .. at.col - 2
        /\ source.function.type # "void" =>
              \A k \in DOMAIN returns : End(returns[k]) - (returns[k].col - 1) + 1 >= ReturnPrefix
        /\ \A i, j \in DOMAIN vars : i < j => Clear(vars[i], vars[j])
        /\ \A i, j \in DOMAIN returns : i < j => Clear(returns[i], returns[j]) /\ ~Earlier(returns[j], returns[i])
        /\ \A i \in DOMAIN vars, j \in DOMAIN returns : Clear(vars[i], returns[j])

(* The columns a piece stands for.                                         *)
Columns(piece, n) ==
    CASE piece[1] = "text" -> {piece[2]}
      [] piece[1] = "var" -> source.vars[piece[2]].col - 1 .. End(source.vars[piece[2]])
      [] piece[1] = "return" -> source.returns[piece[2]].col - 1 .. End(source.returns[piece[2]])
      [] piece[1] = "type" ->
            LET blanks == {b \in source.lines[n].blanks : b >= source.function.col}
            IN  source.function.col - 1 .. (CHOOSE b \in blanks : \A c \in blanks : b <= c)

(* Under that condition no position is outside of its line, and every      *)
(* character of every line is written exactly once and in its place, as    *)
(* itself or in what replaces it, and everything that was to be replaced   *)
(* is.  One place out of order stops all the replacements after it.        *)
LinesKept ==
    WellPlaced =>
        /\ progress # "crashed"
        /\ progress = "done" =>
              /\ currentVar = Len(source.vars) + 1 /\ currentReturn = Len(source.returns) + 1
              /\ \A n \in DOMAIN source.lines :
                    LET pieces == output[n]
                    IN  /\ UNION {Columns(pieces[k], n) : k \in DOMAIN pieces} = 0 .. source.lines[n].length - 1
                        /\ \A i, j \in DOMAIN pieces : i < j =>
                              \A c \in Columns(pieces[i], n), d \in Columns(pieces[j], n) : c < d
=============================================================================
