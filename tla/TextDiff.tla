------------------------------- MODULE TextDiff -------------------------------
(***************************************************************************)
(* The text diff behind every diff output (internal/diff/diff.go): Myers'  *)
(* edit script, the greedy script for very large inputs, and the grouping  *)
(* of the script into hunks with context.  A text is a sequence of lines;  *)
(* an operation is [op, line], op one of "e" (equal), "d", "i".            *)
(***************************************************************************)
EXTENDS SequencesExt, FiniteSetsExt, Integers

CONSTANT MaxMyersInputSize   (* 50000 lines in the code                    *)

Op(op, line)   == [op |-> op, line |-> line]
Ops(op, lines) == [i \in DOMAIN lines |-> Op(op, lines[i])]

(* The equal lines from position x of a and y of b on, up to a limit.      *)
Snake(a, b, x, y) ==
  Max({l \in 0..Min({Len(a) - x, Len(b) - y}) : \A i \in 1..l : a[x + i] = b[y + i]})

-----------------------------------------------------------------------------
(* Myers.  v[k] is the furthest x reached on diagonal k = x - y; round d   *)
(* moves to the diagonals -d, -d + 2, ..., d.                              *)
FromAbove_OnTies(v, k, d) == k = -d \/ (k # d /\ v[k - 1] <= v[k + 1])
FromAbove(v, k, d) == k = -d \/ (k # d /\ v[k - 1] < v[k + 1])

(* myersAdvanceDiagonal.                                                   *)
Advance(a, b, v, k, d) ==
  LET x == IF FromAbove(v, k, d) THEN v[k + 1] ELSE v[k - 1] + 1
      y == x - k
  IN  IF x > Len(a) \/ y > Len(b) THEN x ELSE x + Snake(a, b, x, y)

Consumed(a, b, v, k) == v[k] >= Len(a) /\ v[k] - k >= Len(b)

(* A round stops at the first diagonal that consumes both texts.           *)
Round(a, b, v, d) ==
  FoldLeft(LAMBDA r, i :
             LET k == 2 * i - d
                 w == [r.v EXCEPT ![k] = Advance(a, b, r.v, k, d)]
             IN  IF r.found THEN r ELSE [v |-> w, found |-> Consumed(a, b, w, k)],
           [v |-> v, found |-> FALSE], [i \in 1..(d + 1) |-> i - 1])

(* myersForward: the snapshots of v before each round, trace[d + 1] before *)
(* round d; the last of them is that of the round that found the end.      *)
Forward(a, b) ==
  LET most == Len(a) + Len(b)
      step(f, d) == IF f.found THEN f
                    ELSE LET r == Round(a, b, f.v, d)
                         IN  [trace |-> Append(f.trace, f.v), v |-> r.v, found |-> r.found]
  IN  FoldLeft(step, [trace |-> <<>>, v |-> [k \in (-most)..most |-> 0], found |-> FALSE],
               [i \in 1..(most + 1) |-> i - 1]).trace

(* myersBacktrack, with the reversal: from the ends of both texts, each    *)
(* round puts its snake and the edit that led to it in front of the script.*)
Back(a, b, v, d, p) ==
  LET k     == p.x - p.y
      above == FromAbove(v, k, d)
      prevX == IF above THEN v[k + 1] ELSE v[k - 1]
      prevY == prevX - (IF above THEN k + 1 ELSE k - 1)
      l     == Max({0, Min({p.x - prevX, p.y - prevY})})
      x     == p.x - l
      y     == p.y - l
      snake == Ops("e", SubSeq(a, x + 1, p.x))
  IN  IF x = prevX THEN [x |-> x, y |-> y - 1, ops |-> <<Op("i", b[y])>> \o snake \o p.ops]
                   ELSE [x |-> x - 1, y |-> y, ops |-> <<Op("d", a[x])>> \o snake \o p.ops]

Myers(a, b) ==
  LET trace == Forward(a, b)
      rounds == [i \in 1..(Len(trace) - 1) |-> Len(trace) - i]
      end   == FoldLeft(LAMBDA p, d : Back(a, b, trace[d + 1], d, p),
                        [x |-> Len(a), y |-> Len(b), ops |-> <<>>], rounds)
      l     == Min({end.x, end.y})
  IN  Ops("e", SubSeq(a, end.x - l + 1, end.x)) \o end.ops

(* greedyDiff: the common prefix, the middles, the common suffix.          *)
CommonSuffix(a, b, prefix) ==
  Max({l \in 0..(Min({Len(a), Len(b)}) - prefix) :
         \A i \in 0..(l - 1) : a[Len(a) - i] = b[Len(b) - i]})

Greedy(a, b) ==
  LET prefix == Snake(a, b, 0, 0)
      suffix == CommonSuffix(a, b, prefix)
  IN  Ops("e", SubSeq(a, 1, prefix))
        \o Ops("d", SubSeq(a, prefix + 1, Len(a) - suffix))
        \o Ops("i", SubSeq(b, prefix + 1, Len(b) - suffix))
        \o Ops("e", SubSeq(a, Len(a) - suffix + 1, Len(a)))

(* computeEditScript.                                                      *)
EditScript(a, b) ==
  IF Len(a) + Len(b) > MaxMyersInputSize THEN Greedy(a, b)
  ELSE IF a = <<>> THEN Ops("i", b)
  ELSE IF b = <<>> THEN Ops("d", a)
  ELSE Myers(a, b)

-----------------------------------------------------------------------------
(* Hunks.                                                                  *)
(* groupIntoHunks: does a change belong to the group that ends before it?  *)
Close_Strictly(end, i, ctxLines) == i - end < 2 * ctxLines
Close(end, i, ctxLines) == i - end <= 2 * ctxLines

(* A group is <<its first change, its last one>>.                          *)
Grouped(ops, ctxLines) ==
  FoldLeft(LAMBDA groups, i :
             IF ops[i].op = "e" THEN groups
             ELSE IF groups # <<>> /\ Close(Last(groups)[2], i, ctxLines)
             THEN [groups EXCEPT ![Len(groups)] = <<Last(groups)[1], i>>]
             ELSE Append(groups, <<i, i>>),
           <<>>, [i \in DOMAIN ops |-> i])

(* buildHunk: the positions of the operations a hunk shows.                *)
Hunk(ops, first, last, ctxLines) ==
  LET start == Max({1, first - ctxLines})
      end   == Min({Len(ops), last + ctxLines})
  IN  [i \in 1..(end - start + 1) |-> start + i - 1]

Hunks(ops, ctxLines) ==
  LET groups == Grouped(ops, ctxLines)
  IN  [g \in DOMAIN groups |-> Hunk(ops, groups[g][1], groups[g][2], ctxLines)]
=============================================================================
