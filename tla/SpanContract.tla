---------------------------- MODULE SpanContract ----------------------------
(***************************************************************************)
(* What a served span is, shared by the planner (SpanPlanning) and by the  *)
(* path that loads its plans (LoadPath). A segment says that a donor holds *)
(* the prompt's own tokens over a range of positions; a piece is the part  *)
(* of a segment that a plan loads. Both are a donor, the donor position    *)
(* and the prompt position they start at, and a number of tokens.          *)
(***************************************************************************)
EXTENDS Integers, FiniteSetsExt

CONSTANTS
  Donors,        \* donor ids
  BlockSize,     \* tokens of a KV block
  PromptTokens   \* len(token_ids) of the request

ASSUME SizeAssumption == BlockSize \in Nat \ {0} /\ PromptTokens \in Nat

\* SemanticSegment, LoadPiece and BlockSpan.
Segment == [donor : Donors, dstart : Nat, tstart : Nat, count : Nat]

End(s) == s.tstart + s.count

Lesser(m, n) == IF m < n THEN m ELSE n
Greater(m, n) == IF m < n THEN n ELSE m

Aligned(n) == n % BlockSize = 0
AlignDown(n) == (n \div BlockSize) * BlockSize
AlignUp(n) == ((n + BlockSize - 1) \div BlockSize) * BlockSize

\* _cacheable_prefix_tokens: the prefix of n tokens that vLLM may treat as
\* computed. It holds back more than the one token that vLLM needs.
Cacheable(n) == IF n <= 1 THEN 0 ELSE ((n - 2) \div BlockSize) * BlockSize

CacheablePrefixTokens == Cacheable(PromptTokens)

Headroom(boundary) == Greater(0, CacheablePrefixTokens - boundary)

\* trim_pieces: the pieces cut off at a position, the empty ones dropped.
TrimPieces(pieces, end) ==
  {[p EXCEPT !.count = Lesser(p.count, end - p.tstart)] :
     p \in {q \in pieces : Lesser(q.count, end - q.tstart) > 0}}

\* The sum of the pieces' lengths, as the number of their tokens.
Tokens(pieces) == Cardinality(UNION {{p} \X (1 .. p.count) : p \in pieces})

\* The pieces cover the positions from start to end, each exactly once.
Tiles(pieces, start, end) ==
  /\ \A p \in pieces : p.count > 0 /\ start <= p.tstart /\ End(p) <= end
  /\ \A x \in start .. end - 1 : \E p \in pieces : x \in p.tstart .. End(p) - 1
  /\ \A p, q \in pieces : p = q \/ End(p) <= q.tstart \/ End(q) <= p.tstart
=============================================================================
