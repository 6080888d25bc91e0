------------------------------- MODULE StyleFixes -------------------------------
(***************************************************************************)
(* From a formatter's output to the fixes posted on the pull request       *)
(* (services/style-agent/src/findings.ts).  A line is [code, layout]: its  *)
(* tokens, and everything lineKey ignores.  Positions count from 1, and a  *)
(* block replaces lines aStart..aEnd-1 of the hunk by bStart..bEnd-1 of    *)
(* the formatted text.                                                     *)
(***************************************************************************)
EXTENDS Arrays, SequencesExt, FiniteSetsExt

CONSTANT MaxDiffLines   \* MAX_DIFF_LINES

Block(aStart, aEnd, bStart, bEnd) ==
  [aStart |-> aStart, aEnd |-> aEnd, bStart |-> bStart, bEnd |-> bEnd]

SameKey(a, i, b, j) == i <= Len(a) /\ j <= Len(b) /\ a[i].code = b[j].code

(* lcs[i, j]: the longest common subsequence of a[i..] and b[j..].         *)
Lcs(a, b) ==
  LET lcs[i \in 1..(Len(a) + 1), j \in 1..(Len(b) + 1)] ==
        IF i > Len(a) \/ j > Len(b) THEN 0
        ELSE IF SameKey(a, i, b, j) THEN lcs[i + 1, j + 1] + 1
        ELSE Max({lcs[i + 1, j], lcs[i, j + 1]})
  IN  lcs

(* `close`: an open block of as many lines on both sides goes line by      *)
(* line.                                                                   *)
Close(w) ==
  IF w.open = {} THEN w.blocks
  ELSE LET o == CHOOSE x \in w.open : TRUE
           lines == o.aEnd - o.aStart
           pair(k) == Block(o.aStart + k - 1, o.aStart + k, o.bStart + k - 1, o.bStart + k)
       IN  w.blocks \o IF lines = o.bEnd - o.bStart THEN [k \in 1..lines |-> pair(k)] ELSE <<o>>

(* Mutant: a line that was only laid out anew is no difference.            *)
MPairQuietly(a, b, w) == [i |-> w.i + 1, j |-> w.j + 1, open |-> {}, blocks |-> Close(w)]

Pair(a, b, w) ==
  LET changed == IF a[w.i] = b[w.j] THEN <<>> ELSE <<Block(w.i, w.i + 1, w.j, w.j + 1)>>
  IN  [i |-> w.i + 1, j |-> w.j + 1, open |-> {}, blocks |-> Close(w) \o changed]

(* The open block, or one that begins here.                                *)
Opened(w) == IF w.open = {} THEN Block(w.i, w.i, w.j, w.j) ELSE CHOOSE x \in w.open : TRUE

Insert(w) ==
  LET o == Opened(w)
  IN  [i |-> w.i, j |-> w.j + 1, open |-> {Block(o.aStart, o.aEnd, o.bStart, w.j + 1)},
       blocks |-> w.blocks]
Delete(w) ==
  LET o == Opened(w)
  IN  [i |-> w.i + 1, j |-> w.j, open |-> {Block(o.aStart, w.i + 1, o.bStart, o.bEnd)},
       blocks |-> w.blocks]

(* A turn of the walk through both texts.                                  *)
Walk(a, b, lcs, w) ==
  IF w.i > Len(a) /\ w.j > Len(b) THEN w
  ELSE IF SameKey(a, w.i, b, w.j) THEN Pair(a, b, w)
  ELSE IF /\ w.j <= Len(b)
          /\ w.i > Len(a) \/ lcs[w.i, w.j + 1] >= lcs[w.i + 1, w.j]
  THEN Insert(w) ELSE Delete(w)

(* Mutant: an insertion takes the line before it, but not its new text.    *)
MWiden(result, block) ==
  IF block.aEnd > block.aStart THEN Append(result, block)
  ELSE IF block.aStart > 1 THEN Append(result, [block EXCEPT !.aStart = @ - 1])
  ELSE Append(result, Block(1, 2, block.bStart, block.bEnd + 1))

(* A pure insertion extends the block before it, or takes in the line      *)
(* before it, or the first line.                                           *)
Widen(result, block) ==
  LET n == Len(result)
  IN  IF block.aEnd > block.aStart THEN Append(result, block)
      ELSE IF n > 0 /\ result[n].aEnd = block.aStart /\ result[n].bEnd = block.bStart
      THEN [result EXCEPT ![n] = Block(@.aStart, @.aEnd, @.bStart, block.bEnd)]
      ELSE IF block.aStart > 1
      THEN Append(result, Block(block.aStart - 1, block.aEnd, block.bStart - 1, block.bEnd))
      ELSE Append(result, Block(1, 2, block.bStart, block.bEnd + 1))

ChangedBlocks(a, b) ==
  IF Len(a) > MaxDiffLines \/ Len(b) > MaxDiffLines
  THEN <<Block(1, Len(a) + 1, 1, Len(b) + 1)>>
  ELSE LET start == [i |-> 1, j |-> 1, open |-> {}, blocks |-> <<>>]
           turns == [t \in 1..(Len(a) + Len(b)) |-> t]
           lcs == Lcs(a, b)
           end == FoldLeft(LAMBDA w, t : Walk(a, b, lcs, w), start, turns)
       IN  FoldLeft(Widen, <<>>, Close(end))
---------------------------------------------------------------------------------
(* Mutant: a diagnostic's line is taken for the hunk's.                    *)
MHunkLine(wrapper, n) == n

(* The hunk's line that is line n of its fragment.                         *)
HunkLine(wrapper, n) == n - wrapper.unmatchedClose

(* lintFindings: a linter's [line, rule] becomes a finding when it is on   *)
(* an added line, the first of its rule there; the wrapper's lines are no  *)
(* lines of the hunk.                                                      *)
LintFinding(hunk, wrapper, findings, diagnostic) ==
  LET found == [line |-> HunkLine(wrapper, diagnostic.line), rule |-> diagnostic.rule]
  IN  IF found.line \in DOMAIN hunk /\ hunk[found.line].added /\ found \notin Range(findings)
      THEN Append(findings, found) ELSE findings

LintFindings(hunk, wrapper, diagnostics) ==
  FoldLeft(LAMBDA findings, d : LintFinding(hunk, wrapper, findings, d), <<>>, diagnostics)
---------------------------------------------------------------------------------
Lines(block) == block.aStart..(block.aEnd - 1)

(* Mutant: one added line makes a block the pull request's own.            *)
MFixable(hunk, block) == \E i \in Lines(block) : hunk[i].added

Fixable(hunk, block) == \A i \in Lines(block) : hunk[i].added

Text(hunk) == [i \in DOMAIN hunk |-> [code |-> hunk[i].code, layout |-> hunk[i].layout]]

(* Neighbouring blocks become one fix.                                     *)
JoinFix(fixes, block) ==
  LET n == Len(fixes)
  IN  IF n > 0 /\ fixes[n].aEnd = block.aStart /\ fixes[n].bEnd = block.bStart
      THEN [fixes EXCEPT ![n] = Block(@.aStart, block.aEnd, @.bStart, block.bEnd)]
      ELSE Append(fixes, block)

Fixes(hunk, formatted) ==
  IF Text(hunk) = formatted THEN <<>>
  ELSE FoldLeft(JoinFix, <<>>,
         Filter(ChangedBlocks(Text(hunk), formatted), LAMBDA x : Fixable(hunk, x)))

(* Added lines split or joined with old ones: reported without a fix.      *)
TouchesContext(hunk, formatted) ==
  IF Text(hunk) = formatted THEN {}
  ELSE UNION {{i \in Lines(x) : hunk[i].added} :
                x \in {y \in Range(ChangedBlocks(Text(hunk), formatted)) :
                         Cardinality(Lines(y)) > 1 /\ ~Fixable(hunk, y)}}
=================================================================================
