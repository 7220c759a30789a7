--------------------------- MODULE MCSpanPlanning ---------------------------
(***************************************************************************)
(* Span planning for TLC: a prompt of ten tokens in blocks of two, and two *)
(* donors. The first holds the prompt's tokens at their own positions, the *)
(* second one position later.                                              *)
(***************************************************************************)
EXTENDS SpanPlanning

CONSTANTS d1, d2

Shift(d) == IF d = d2 THEN 1 ELSE 0

Window(d, a, e) ==
  [donor |-> d, dstart |-> a + Shift(d), tstart |-> a, count |-> e - a]

\* Windows on and off the block edges, short, long, nested and overlapping.
Windows ==
  {Window(d1, a, e) : a \in {0, 2, 3}, e \in {4, 5, 8}}
    \cup {Window(d2, a, e) : a \in {1, 4}, e \in {6, 9, 10}}

MCGiven ==
  {{s, q, w} : s, q, w \in Windows}

At(d, t) == [donor |-> d, d |-> t + Shift(d), t |-> t, same |-> TRUE]
Other(p) == [p EXCEPT !.same = FALSE]

Lists(S, n) == UNION {[1 .. k -> S] : k \in 0 .. n}

\* Composite maps out of order, with a repeated position, a jump on one side
\* only, a change of donor and a pair whose tokens differ; plain maps of one
\* donor, which are used when the composite map keeps nothing.
CompositePairs ==
  {At(d1, 2), At(d1, 3), At(d2, 4), At(d2, 5),
   [At(d1, 4) EXCEPT !.d = 6], Other(At(d1, 5))}
PlainPairs == {At(d1, 2), At(d1, 3), Other(At(d1, 4)), [At(d1, 4) EXCEPT !.d = 6]}

MCLookups ==
  {[composite |-> c, plain |-> << >>] : c \in Lists(CompositePairs, 4)}
    \cup {[composite |-> c, plain |-> p] :
            c \in Lists({Other(At(d1, 2))}, 1), p \in Lists(PlainPairs, 4)}

Setting(multi, minSpan, minMid, maxTokens) ==
  [multi |-> multi, minSpan |-> minSpan, minMid |-> minMid, maxTokens |-> maxTokens]

\* A floor off the block size, a limit off the block size, floors of zero.
MCConfigs == {Setting(TRUE, 2, 2, 7), Setting(TRUE, 0, 3, 8),
              Setting(FALSE, 4, 0, 5)}

\* Everything stored, and one donor captured short of its runs.
MCStoredCounts == {[d \in Donors |-> 11], [d \in Donors |-> IF d = d1 THEN 5 ELSE 9]}
=============================================================================
