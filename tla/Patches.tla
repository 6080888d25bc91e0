-------------------------------- MODULE Patches --------------------------------
(***************************************************************************)
(* A changed file's diff as the agents read it (agent-kit patch.ts), and a *)
(* hunk made a source file of its own for the formatter and cut out of its *)
(* output again (style-agent fragments.ts, findings.ts).  A row is [kind,  *)
(* start]; the code of a line is its tokens, of which "{" and "}" matter.  *)
(***************************************************************************)
EXTENDS Integers, Sequences, SequencesExt, FiniteSetsExt

CONSTANT Context   \* unchanged lines git shows around a change

ASSUME ContextAssumption == Context \in Nat

Edits == {"keep", "add", "remove"}

(* The line of the new file that edit i makes, or comes before.            *)
NewLine(edits, i) == 1 + Cardinality({n \in 1..(i - 1) : edits[n] # "remove"})

(* git diff of the edits that turn a file into the new one, as GitHub      *)
(* sends it: `preamble` and `trailer` for the rows around the hunks, and   *)
(* `stripped` when blank context lines lost their space.                   *)
Diff(edits, form) ==
  LET Shown(i) == \E n \in DOMAIN edits : edits[n] # "keep" /\ i - n \in -Context..Context
      Row(kind) == [kind |-> kind, start |-> 0]
      Kind(i) == IF edits[i] = "keep" /\ form.stripped THEN "blank" ELSE edits[i]
      Rows(i) == IF ~Shown(i) THEN <<>>
                 ELSE IF i > 1 /\ Shown(i - 1) THEN <<Row(Kind(i))>>
                 ELSE <<[kind |-> "header", start |-> NewLine(edits, i)], Row(Kind(i))>>
  IN  form.preamble \o FlattenSeq([i \in DOMAIN edits |-> Rows(i)]) \o form.trailer

(* Mutant: a blank row is no line.                                         *)
MReadRow(patch, row) ==
  CASE row.kind = "header" -> [next |-> row.start, hunks |-> Append(patch.hunks, <<>>)]
    [] patch.hunks # <<>> /\ row.kind \in {"add", "keep"} ->
         [next |-> patch.next + 1,
          hunks |-> [patch.hunks EXCEPT ![Len(patch.hunks)] =
                       Append(@, [line |-> patch.next, added |-> row.kind = "add"])]]
    [] OTHER -> patch

(* Rows before the first header, removed lines and markers are no lines.   *)
ReadRow(patch, row) ==
  CASE row.kind = "header" -> [next |-> row.start, hunks |-> Append(patch.hunks, <<>>)]
    [] patch.hunks # <<>> /\ row.kind \in {"add", "keep", "blank"} ->
         [next |-> patch.next + 1,
          hunks |-> [patch.hunks EXCEPT ![Len(patch.hunks)] =
                       Append(@, [line |-> patch.next, added |-> row.kind = "add"])]]
    [] OTHER -> patch

(* A blank last row is the patch's own newline.                            *)
ParsePatch(rows) ==
  LET read == IF rows # <<>> /\ Last(rows).kind = "blank" THEN Front(rows) ELSE rows
  IN  FoldLeft(ReadRow, [next |-> 0, hunks |-> <<>>], read).hunks
---------------------------------------------------------------------------------
WrapperOpen == "function __cs_wrap__() {"

Braces(balance, token) ==
  LET depth == CASE token = "{" -> balance.depth + 1
                 [] token = "}" -> balance.depth - 1
                 [] OTHER       -> balance.depth
  IN  [depth |-> depth, lowest |-> Min({balance.lowest, depth})]

(* braceBalance, of code whose strings and comments are other tokens.      *)
BraceBalance(code) ==
  LET end == FoldLeft(Braces, [depth |-> 0, lowest |-> 0], code)
  IN  [unmatchedClose |-> -end.lowest, unclosed |-> end.depth - end.lowest]

(* buildFragments: Python is never wrapped.                                *)
Wrapper(code, python) ==
  IF python THEN [unmatchedClose |-> 0, unclosed |-> 0] ELSE BraceBalance(code)

Fragment(code, wrapper) ==
  [i \in 1..wrapper.unmatchedClose |-> WrapperOpen] \o code \o [i \in 1..wrapper.unclosed |-> "}"]

(* Mutant: the wrapper's lines are cut off without a look at them.         *)
MStripWrapper(lines, wrapper) ==
  {SubSeq(lines, wrapper.unmatchedClose + 1, Len(lines) - wrapper.unclosed)}

(* The formatter's lines without the wrapper's, or nothing when they are   *)
(* not lines of their own any more.                                        *)
StripWrapper(lines, wrapper) ==
  LET last == Len(lines) - wrapper.unclosed
      head == 1..Min({wrapper.unmatchedClose, Len(lines)})
      tail == Max({1, last + 1})..Len(lines)
  IN  IF /\ \A i \in head : lines[i].code = <<WrapperOpen>>
         /\ \A i \in tail : lines[i].code = <<"}">>
      THEN {SubSeq(lines, wrapper.unmatchedClose + 1, last)}
      ELSE {}
=================================================================================
