--------------------------- MODULE LoadPathProofs ---------------------------
(***************************************************************************)
(* The way of a load, for every prompt, block size, number of layers,      *)
(* requests and donors: what is counted as computed is there, a load fills *)
(* the gap it was planned for and writes over nothing else.                *)
(***************************************************************************)
EXTENDS LoadPath, SpanContractProofs, TLAPS

-----------------------------------------------------------------------------
(* The inductive invariant. *)

\* The loads that are planned and not begun: pending, or shipped.
Due == {j \in [req : Requests, piece : Segment] : j.piece \in pending[j.req]}
         \cup loads

\* The slots that load j is for.
Slots(j) == SlotMapping(j.piece)

\* The pieces of the plans and of the loads.
Planned ==
  {p \in Segment : \/ \E r \in Requests : p \in plan[r]
                   \/ \E j \in Due \cup job : p = j.piece}

\* The donor holds the prompt's own tokens over the piece.
Matched(p) ==
  /\ p.count > 0
  /\ align[p.donor].tstart <= p.tstart /\ End(p) <= End(align[p.donor])
  /\ p.dstart = align[p.donor].dstart + p.tstart - align[p.donor].tstart

\* The request between match and allocation: a credit has a plan that covers
\* it, and leaves something to compute.
Offer(r) ==
  /\ seen[r] = "no"
  /\ status[r] # "done"
  /\ status[r] = "running" => base = ncomp[r] /\ mode = "semantic_span"
  /\ base + ext <= PromptTokens
  /\ ext > 0 => /\ Tiles(plan[r], base, base + ext)
                /\ base + ext < PromptTokens

\* Where a step is, and what can be outstanding there.
PhaseOK ==
  /\ phase = "alloc" => \A r \in trying : Offer(r)
  /\ phase # "alloc" => trying = {}
  /\ phase # "load" => loads = {} /\ job = {}
  /\ phase \in {"schedule", "alloc"} => errors = {}
  /\ phase \in {"load", "dead"} => \A r \in Requests : pending[r] = {}
  /\ \A r \in Requests : seen[r] \in {"run", "load"} => status[r] = "running"

\* A request that does not run has no blocks. A span is planned again for a
\* running request, whose slots are empty from the computed tokens on.
EmptyBeyond ==
  \A r \in Requests :
    /\ status[r] # "running" => ncomp[r] = 0
    /\ mode = "semantic_span" \/ status[r] # "running" =>
         \A l \in Layers, x \in Positions : x >= ncomp[r] => kv[r][l][x] = Nothing

\* Every load is for slots below the computed tokens of a request that was
\* scheduled for it, and no two are for the same slots.
LoadsOK ==
  /\ \A p \in Planned : Matched(p)
  /\ \A j \in Due \cup job :
       /\ seen[j.req] = "load"
       /\ End(j.piece) <= ncomp[j.req] /\ ncomp[j.req] < PromptTokens
  /\ \A j, k \in Due \cup job :
       j.req = k.req /\ j # k => Slots(j) \cap Slots(k) = {}
  /\ job \cap Due = {} /\ \A j, k \in job : j = k

\* A load that is not begun finds its slots empty.
DueOK ==
  \A j \in Due : \A l \in Layers, x \in Slots(j) : kv[j.req][l][x] = Nothing

\* The load at hand has gone through the layers before layerNo.
JobOK ==
  \A j \in job :
    /\ layerNo > 0 /\ landed < layerNo
    /\ mode # "semantic_span" => landed = layerNo - 1
    /\ \A x \in Slots(j) :
         /\ \A l \in Layers : kv[j.req][l][x] # Own
         /\ landed > 0 => \E l \in Layers : kv[j.req][l][x] # Nothing
         /\ \A l \in Layers : l >= layerNo => kv[j.req][l][x] = Nothing

\* Blocks are handed back for loads other than spans, and lie below what is
\* counted as computed.
ErrorsOK ==
  \A e \in errors :
    /\ mode # "semantic_span" /\ seen[e.req] = "load"
    /\ e.block * BlockSize <= ncomp[e.req]

\* Position x of r was handed back.
HandedBack(r, x) == \E e \in errors : e.req = r /\ e.block * BlockSize <= x

\* A position that is counted as computed holds something, or is to be filled,
\* or was handed back.
Filled ==
  phase # "dead" => \A r \in Requests, x \in Positions : x < ncomp[r] =>
    \/ \E l \in Layers : kv[r][l][x] # Nothing
    \/ \E j \in Due \cup job : j.req = r /\ x \in Slots(j)
    \/ HandedBack(r, x)

LInv ==
  /\ TypeOK /\ PhaseOK /\ EmptyBeyond /\ LoadsOK /\ DueOK /\ JobOK /\ ErrorsOK
  /\ Filled

\* No donor's id has been used again.
FirstUses == \A d \in Donors : use[d] = 1

\* A tensor of a donor's first use that can be read holds what a span piece
\* of it needs.
Holds(b, p) == b.len > 0 /\ mode = "semantic_span" => p.dstart + p.count <= b.len

\* What the store has of first uses.
StoreFresh ==
  /\ \A d \in Donors, l \in Layers : layer[d][l].len > 0 =>
       layer[d][l].use = 1 /\ record[d].len <= layer[d][l].len
  /\ \A p \in Planned, l \in Layers : Holds(layer[p.donor][l], p)
  /\ held = "kept" => \A l \in Layers :
       /\ kept[l].len > 0 => kept[l].use = 1
       /\ \A j \in job : Holds(kept[l], j.piece)

\* Layer by layer, what is counted as computed is genuine, or is to be filled,
\* or was handed back.
CreditFresh ==
  phase # "dead" =>
  \A r \in Requests, l \in Layers, x \in Positions : x < ncomp[r] =>
    \/ Genuine(kv[r][l][x], x)
    \/ \E j \in Due : j.req = r /\ x \in Slots(j)
    \/ \E j \in job : j.req = r /\ x \in Slots(j) /\ l >= layerNo
    \/ HandedBack(r, x)

Fresh == FirstUses => StoreFresh /\ CreditFresh

-----------------------------------------------------------------------------
(* Plans. *)

\* An alignment of donor and prompt lies within the prompt.
LEMMA AlignFacts ==
  ASSUME TypeOK, NEW d \in Donors
  PROVE  /\ align[d] \in Segment /\ End(align[d]) <= PromptTokens
         /\ align[d].tstart \in Nat /\ align[d].dstart \in Nat
         /\ align[d].count \in Nat /\ End(align[d]) \in Nat
         /\ End(align[d]) = align[d].tstart + align[d].count
<1>1. align[d] \in Segment /\ End(align[d]) <= PromptTokens
  BY LoadAssumption DEF TypeOK
<1> QED
  BY <1>1, SegmentFields

\* A prompt has something left to compute after its cacheable prefix.
LEMMA CacheableBound ==
  ASSUME NEW n \in Nat
  PROVE  /\ Cacheable(n) \in Nat /\ Cacheable(n) <= n
         /\ Cacheable(n) > 0 => Cacheable(n) < n
<1>1. CASE n <= 1
  BY <1>1 DEF Cacheable
<1>2. CASE ~(n <= 1)
  <2>1. n - 2 \in Nat /\ Cacheable(n) = AlignDown(n - 2)
    BY <1>2 DEF Cacheable, AlignDown
  <2>2. AlignDown(n - 2) \in Nat /\ AlignDown(n - 2) <= n - 2
    BY <2>1, AlignDownEdge
  <2> QED
    BY <2>1, <2>2
<1> QED
  BY <1>1, <1>2

\* What the hooks promise of a plan at boundary b.
GoodPlan(pl, b) ==
  /\ pl.pieces \subseteq Segment /\ pl.tokens \in Nat
  /\ Tiles(pl.pieces, b, b + pl.tokens) /\ b + pl.tokens < PromptTokens
  /\ \A p \in pl.pieces : Matched(p)
  /\ mode = "semantic_span" =>
       \A p \in pl.pieces : p.dstart + p.count <= record[p.donor].len

\* A plan of one piece covers the positions of that piece, each once.
LEMMA OnePieceTiles ==
  ASSUME NEW p \in Segment, p.count > 0
  PROVE  /\ Tiles({p}, p.tstart, p.tstart + p.count)
         /\ OnePiece(p).pieces = {p} /\ OnePiece(p).tokens = p.count
<1>1. p.tstart \in Nat /\ p.count \in Nat /\ End(p) = p.tstart + p.count
  BY SegmentFields
<1> QED
  BY <1>1 DEF Tiles, OnePiece

\* A piece over a range that the donor shares.
LEMMA PieceAtFacts ==
  ASSUME TypeOK, NEW d \in Donors, NEW a \in Nat, NEW e \in Nat, a < e,
         Fits(PieceAt(d, a, e))
  PROVE  /\ PieceAt(d, a, e) \in Segment /\ Matched(PieceAt(d, a, e))
         /\ PieceAt(d, a, e).tstart = a /\ PieceAt(d, a, e).count = e - a
         /\ PieceAt(d, a, e).count > 0
<1> DEFINE p == PieceAt(d, a, e)
<1>1. /\ p.donor = d /\ p.tstart = a /\ p.count = e - a /\ End(p) = e
      /\ p.dstart = align[d].dstart + a - align[d].tstart
  BY DEF PieceAt, End
<1>2. align[d].tstart <= a /\ e <= End(align[d])
  BY <1>1 DEF Fits
<1>3. p.dstart \in Nat /\ p.count \in Nat /\ p.count > 0
  BY <1>1, <1>2, AlignFacts
<1>4. p \in Segment
  BY <1>1, <1>3 DEF PieceAt, Segment
<1> HIDE DEF p
<1>5. Matched(p)
  BY <1>1, <1>2, <1>3 DEF Matched
<1> QED
  BY <1>1, <1>3, <1>4, <1>5 DEF p

\* Every plan of the semantic planner fills the positions from the boundary on from
\* stored tokens.
LEMMA SpanPlanFacts ==
  ASSUME TypeOK, NEW D \in SUBSET Donors, NEW b \in Nat, NEW pl \in SpanPlans(D, b)
  PROVE  GoodPlan(pl, b)
<1>1. PICK e \in {y \in b + 1 .. CacheablePrefixTokens : Aligned(b) /\ Aligned(y)} :
        \E Q \in SUBSET PiecesIn(D, b, e) :
          Tiles(Q, b, e) /\ pl = [pieces |-> Q, tokens |-> e - b]
  BY DEF SpanPlans
<1>2. PICK P \in SUBSET PiecesIn(D, b, e) :
        Tiles(P, b, e) /\ pl = [pieces |-> P, tokens |-> e - b]
  BY <1>1
<1>3. e \in Nat /\ b < e /\ e < PromptTokens
  <2>1. /\ CacheablePrefixTokens \in Nat
        /\ CacheablePrefixTokens > 0 => CacheablePrefixTokens < PromptTokens
    BY CacheableBound, SizeAssumption DEF CacheablePrefixTokens
  <2> QED
    BY <2>1, SizeAssumption
<1>4. ASSUME NEW p \in P
      PROVE  p \in Segment /\ Matched(p) /\ p.dstart + p.count <= record[p.donor].len
  <2>1. PICK d \in D, x \in b .. e - 1, y \in b + 1 .. e :
           p = PieceAt(d, x, y) /\ p.count > 0 /\ Fits(p)
    BY <1>2 DEF PiecesIn
  <2>2. x \in Nat /\ y \in Nat /\ x < y
    BY <1>3, <2>1 DEF PieceAt
  <2>3. p \in Segment /\ Matched(p)
    BY <2>1, <2>2, PieceAtFacts
  <2> QED
    BY <2>1, <2>3 DEF Fits
<1>5. pl.pieces = P /\ pl.tokens = e - b /\ b + (e - b) = e /\ e - b \in Nat
  BY <1>2, <1>3
<1> QED
  BY <1>2, <1>3, <1>4, <1>5 DEF GoodPlan

\* The same of a load of one donor's prefix, as long as it stays below the common
\* prefix and below the prompt's last token.
LEMMA LoadFacts ==
  ASSUME TypeOK, NEW d \in Donors, NEW b \in Nat, NEW n \in Int,
         align[d].tstart = 0, align[d].dstart = 0, mode # "semantic_span",
         n > 0 => b + n <= align[d].count /\ b + n < PromptTokens,
         NEW pl \in Load(d, b, n)
  PROVE  GoodPlan(pl, b)
<1> DEFINE p == [donor |-> d, dstart |-> b, tstart |-> b, count |-> n]
<1>1. n > 0 /\ pl = OnePiece(p)
  BY DEF Load
<1>2. /\ p \in Segment /\ p.count = n /\ p.tstart = b /\ p.dstart = b
      /\ p.donor = d /\ End(p) = b + n
  BY <1>1 DEF Segment, End
<1> HIDE DEF p
<1>3. Matched(p)
  BY <1>1, <1>2, AlignFacts DEF Matched
<1>4. pl.pieces = {p} /\ pl.tokens = n /\ Tiles({p}, b, b + n)
  BY <1>1, <1>2, OnePieceTiles
<1> QED
  BY <1>1, <1>2, <1>3, <1>4 DEF GoodPlan

\* Without a common prefix nothing is loaded.
LEMMA NoPrefixNoLoad ==
  ASSUME NEW d \in Donors, NEW b \in Nat, NEW n \in Int, n <= 0
  PROVE  Load(d, b, n) = {}
  BY DEF Load

\* The same of the plans of request-only mode.
LEMMA RequestOnlyFacts ==
  ASSUME TypeOK, mode # "semantic_span", NEW d \in Donors, NEW b \in Nat,
         NEW pl \in RequestOnlyPlans(d, b)
  PROVE  GoodPlan(pl, b)
<1> DEFINE m == Lesser(Lesser(CommonPrefix(d), record[d].len), MaxTokens)
           n == Cacheable(m)
<1>1. b = 0 /\ pl \in Load(d, b, n)
  BY DEF RequestOnlyPlans
<1>2. CommonPrefix(d) \in Nat /\ record[d].len \in Nat /\ MaxTokens \in Nat
  BY AlignFacts, LoadAssumption DEF CommonPrefix, TypeOK, Bytes
<1>3. m \in Nat /\ m <= CommonPrefix(d)
  <2> DEFINE k == Lesser(CommonPrefix(d), record[d].len)
  <2>1. k \in Nat /\ k <= CommonPrefix(d)
    BY <1>2 DEF Lesser
  <2>2. Lesser(k, MaxTokens) \in Nat /\ Lesser(k, MaxTokens) <= k
    BY <2>1, <1>2 DEF Lesser
  <2> QED
    BY <2>1, <2>2, <1>2
<1> HIDE DEF m
<1>4. n \in Nat /\ n <= m /\ (n > 0 => n < m)
  BY <1>3, CacheableBound
<1> HIDE DEF n
<1>5. CASE align[d].tstart = 0 /\ align[d].dstart = 0
  <2>1. CommonPrefix(d) = align[d].count /\ align[d].count <= PromptTokens
    BY <1>5, AlignFacts DEF CommonPrefix
  <2>2. n > 0 => b + n <= align[d].count /\ b + n < PromptTokens
    BY <2>1, <1>1, <1>3, <1>4, AlignFacts, SizeAssumption
  <2> QED
    BY <2>2, <1>1, <1>4, <1>5, LoadFacts
<1>6. CASE ~(align[d].tstart = 0 /\ align[d].dstart = 0)
  <2>1. n <= 0
    BY <1>3, <1>4, <1>6 DEF CommonPrefix
  <2> QED
    BY <2>1, <1>1, <1>4, NoPrefixNoLoad
<1> QED
  BY <1>5, <1>6

\* The same of the plans of exact-prefix mode.
LEMMA ExactPrefixFacts ==
  ASSUME TypeOK, mode # "semantic_span", NEW d \in Donors, NEW b \in Nat,
         NEW pl \in ExactPrefixPlans(d, b)
  PROVE  GoodPlan(pl, b)
<1> DEFINE k == AlignDown(Lesser(CommonPrefix(d), PromptTokens))
           reach == Lesser(k, CacheablePrefixTokens) - b
           n == IF reach <= 0 THEN 0 ELSE AlignDown(Lesser(reach, MaxTokens))
<1>1. pl \in Load(d, b, n)
  BY DEF ExactPrefixPlans
<1>2. CommonPrefix(d) \in Nat /\ MaxTokens \in Nat /\ PromptTokens \in Nat
  BY AlignFacts, LoadAssumption, SizeAssumption DEF CommonPrefix
<1>3. k \in Nat /\ k <= CommonPrefix(d)
  <2>1. /\ Lesser(CommonPrefix(d), PromptTokens) \in Nat
        /\ Lesser(CommonPrefix(d), PromptTokens) <= CommonPrefix(d)
    BY <1>2 DEF Lesser
  <2>2. k \in Nat /\ k <= Lesser(CommonPrefix(d), PromptTokens)
    BY <2>1, AlignDownEdge
  <2> QED
    BY <2>1, <2>2, <1>2
<1>4. /\ CacheablePrefixTokens \in Nat
      /\ CacheablePrefixTokens > 0 => CacheablePrefixTokens < PromptTokens
  BY CacheableBound, SizeAssumption DEF CacheablePrefixTokens
<1> HIDE DEF k
<1>5. reach \in Int /\ b + reach <= k /\ b + reach <= CacheablePrefixTokens
  BY <1>3, <1>4 DEF Lesser
<1> HIDE DEF reach
<1>6. n \in Nat /\ (n > 0 => n <= reach)
  <2>1. CASE reach <= 0
    BY <2>1
  <2>2. CASE ~(reach <= 0)
    <3>1. Lesser(reach, MaxTokens) \in Nat /\ Lesser(reach, MaxTokens) <= reach
      BY <2>2, <1>2, <1>5 DEF Lesser
    <3>2. /\ AlignDown(Lesser(reach, MaxTokens)) \in Nat
          /\ AlignDown(Lesser(reach, MaxTokens)) <= Lesser(reach, MaxTokens)
      BY <3>1, AlignDownEdge
    <3> QED
      BY <3>1, <3>2, <2>2, <1>5
  <2> QED
    BY <2>1, <2>2
<1> HIDE DEF n
<1>7. CASE align[d].tstart = 0 /\ align[d].dstart = 0
  <2>1. CommonPrefix(d) = align[d].count
    BY <1>7 DEF CommonPrefix
  <2>2. n > 0 => b + n <= align[d].count /\ b + n < PromptTokens
    BY <2>1, <1>2, <1>3, <1>4, <1>5, <1>6
  <2> QED
    BY <2>2, <1>1, <1>6, <1>7, LoadFacts
<1>8. CASE ~(align[d].tstart = 0 /\ align[d].dstart = 0)
  <2>1. CommonPrefix(d) = 0
    BY <1>8 DEF CommonPrefix
  <2>2. n <= 0
    BY <2>1, <1>3, <1>5, <1>6
  <2> QED
    BY <2>2, <1>1, <1>6, NoPrefixNoLoad
<1> QED
  BY <1>7, <1>8

\* Every plan of every mode, at any boundary.
LEMMA PlanFacts ==
  ASSUME TypeOK, NEW D \in SUBSET Donors, NEW b \in Nat, NEW pl \in Plans(D, b)
  PROVE  GoodPlan(pl, b)
<1>1. CASE mode = "semantic_span"
  BY <1>1, SpanPlanFacts DEF Plans
<1>2. CASE mode # "semantic_span"
  <2>1. PICK d \in D : pl \in RequestOnlyPlans(d, b) \/ pl \in ExactPrefixPlans(d, b)
    BY <1>2 DEF Plans
  <2> QED
    BY <2>1, <1>2, RequestOnlyFacts, ExactPrefixFacts
<1> QED
  BY <1>1, <1>2

-----------------------------------------------------------------------------
(* The initial state, and the steps that leave the KV cache alone. *)

\* The values the actions write to the KV positions have their type.
LEMMA ValueFacts ==
  /\ Nothing \in Slot /\ Own \in Slot /\ Own # Nothing /\ NoBytes \in Bytes
  /\ NoBytes.len = 0
  /\ Blank \in [Layers -> [Positions -> Slot]]
  /\ \A l \in Layers, x \in Positions : Blank[l][x] = Nothing
<1>1. Nothing \in Slot /\ Own \in Slot /\ NoBytes \in Bytes /\ NoBytes.len = 0
  BY DEF Nothing, Own, Slot, NoBytes, Bytes
<1>2. Own.use = 1 /\ Nothing.use = 0
  BY DEF Own, Nothing
<1> QED
  BY <1>1, <1>2 DEF Blank

\* The initial states have their type.
LEMMA InitTypeOK == Init => TypeOK
<1> SUFFICES ASSUME Init PROVE TypeOK
  OBVIOUS
<1>1. record \in [Donors -> Bytes]
  <2>1. record \in [Donors -> [use : {1}, len : Lengths]]
    BY DEF Init
  <2>2. \A d \in Donors : record[d] \in Bytes
    <3> SUFFICES ASSUME NEW d \in Donors PROVE record[d] \in Bytes
      OBVIOUS
    <3>1. record[d] \in [use : {1}, len : Lengths]
      BY <2>1
    <3> QED
      <4>1. /\ record[d] = [use |-> record[d].use, len |-> record[d].len]
            /\ record[d].use = 1 /\ record[d].len \in Lengths
        BY <3>1
      <4>2. record[d].len \in Nat
        BY <4>1, LoadAssumption
      <4> QED
        BY <4>1, <4>2 DEF Bytes
  <2> QED
    BY <2>1, <2>2
<1>2. layer \in [Donors -> [Layers -> Bytes]]
  BY <1>1 DEF Init
<1>3. kept \in [Layers -> Bytes] /\ kv \in [Requests -> [Layers -> [Positions -> Slot]]]
  BY ValueFacts DEF Init
<1>4. use \in [Donors -> Nat] /\ \A d \in Donors : use[d] \in 1 .. Uses[d]
  BY LoadAssumption DEF Init
<1>5. ncomp \in [Requests -> 0 .. PromptTokens]
  BY SizeAssumption DEF Init
<1>6. /\ preempts \in 0 .. MaxPreempts /\ giveups \in 0 .. MaxGiveUps
      /\ layerNo \in 0 .. NumLayers + 1 /\ landed \in 0 .. NumLayers
  BY LoadAssumption DEF Init
<1>7. /\ plan \in [Requests -> SUBSET Segment] /\ memo \in [Requests -> SUBSET Donors]
      /\ pending \in [Requests -> SUBSET Segment]
  BY DEF Init
<1> QED
  BY <1>1, <1>2, <1>3, <1>4, <1>5, <1>6, <1>7 DEF Init, TypeOK

\* Whatever a load or a request holds is a piece of some plan.
LEMMA PlannedTyped ==
  ASSUME TypeOK
  PROVE  /\ \A j \in Due \cup job :
              j.req \in Requests /\ j.piece \in Segment /\ j.piece \in Planned
         /\ \A r \in Requests : \A p \in plan[r] : p \in Segment /\ p \in Planned
         /\ \A p \in Planned : p \in Segment
<1>1. \A j \in Due \cup job : j.req \in Requests /\ j.piece \in Segment
  BY DEF Due, TypeOK
<1>2. \A r \in Requests : \A p \in plan[r] : p \in Segment
  BY DEF TypeOK
<1> QED
  BY <1>1, <1>2 DEF Planned

\* Without loads and without pending plans no load is due.
LEMMA NothingDue ==
  ASSUME loads = {}, \A r \in Requests : pending[r] = {}
  PROVE  Due = {}
  BY DEF Due

\* The initial states satisfy the inductive invariant.
LEMMA InitLInv == Init => LInv /\ Fresh
<1> SUFFICES ASSUME Init PROVE LInv /\ Fresh
  OBVIOUS
<1>1. TypeOK
  BY InitTypeOK
<1>2. /\ Due = {} /\ job = {} /\ loads = {} /\ errors = {} /\ trying = {}
      /\ phase = "schedule" /\ held = "none"
      /\ \A r \in Requests : /\ ncomp[r] = 0 /\ seen[r] = "no" /\ plan[r] = {}
                             /\ pending[r] = {} /\ kv[r] = Blank
  BY NothingDue DEF Init
<1>3. Planned = {}
  BY <1>2 DEF Planned
<1>4. PhaseOK
  BY <1>2 DEF PhaseOK
<1>5. EmptyBeyond
  BY <1>2, ValueFacts DEF EmptyBeyond
<1>6. LoadsOK /\ DueOK /\ JobOK /\ ErrorsOK
  BY <1>2, <1>3 DEF LoadsOK, DueOK, JobOK, ErrorsOK
<1>7. \A x \in Positions : ~(x < 0)
  BY DEF Positions
<1>8. Filled /\ CreditFresh
  BY <1>2, <1>7 DEF Filled, CreditFresh
<1>9. \A d \in Donors, l \in Layers :
        layer[d][l] = record[d] /\ record[d].use = 1 /\ record[d].len \in Nat
  BY LoadAssumption DEF Init
<1>10. StoreFresh
  BY <1>2, <1>3, <1>9 DEF StoreFresh
<1> QED
  BY <1>1, <1>4, <1>5, <1>6, <1>8, <1>10 DEF LInv, Fresh

\* A step that keeps the slots, the loads and the computed tokens.
LEMMA QuietStep ==
  ASSUME LInv, TypeOK', PhaseOK',
         UNCHANGED <<mode, align, ncomp, kv, job, layerNo, landed, errors>>,
         Due' = Due,
         \A p \in Planned' : Matched(p),
         \A r \in Requests : seen[r] = "load" => seen'[r] = "load",
         \A r \in Requests : status'[r] # "running" => status[r] # "running",
         phase = "dead" => phase' = "dead"
  PROVE  LInv' /\ (CreditFresh => CreditFresh')
<1> USE DEF LInv
<1>1. \A j \in Due \cup job : j.req \in Requests
  BY DEF Due, TypeOK
<1>2. EmptyBeyond'
  BY DEF EmptyBeyond
<1>3. \A j : Slots(j)' = Slots(j)
  BY DEF Slots, SlotMapping, End
<1>4. \A p : Matched(p)' = Matched(p)
  BY DEF Matched, End
<1>5. LoadsOK'
  <2>1. \A p \in Planned' : Matched(p)'
    BY <1>4
  <2>2. \A j \in (Due \cup job)' :
          /\ seen'[j.req] = "load"
          /\ End(j.piece) <= ncomp'[j.req] /\ ncomp'[j.req] < PromptTokens
    BY <1>1 DEF LoadsOK
  <2>3. \A j, k \in (Due \cup job)' :
          j.req = k.req /\ j # k => Slots(j)' \cap Slots(k)' = {}
    BY <1>3 DEF LoadsOK
  <2>4. (job \cap Due)' = {} /\ \A j, k \in job' : j = k
    BY DEF LoadsOK
  <2> QED
    BY <2>1, <2>2, <2>3, <2>4 DEF LoadsOK, End
<1>6. DueOK'
  BY <1>3 DEF DueOK
<1>7. JobOK'
  BY <1>3 DEF JobOK
<1>8. ErrorsOK'
  BY DEF ErrorsOK, TypeOK
<1>9. Filled'
  BY <1>3 DEF Filled, HandedBack
<1>10. ASSUME CreditFresh PROVE CreditFresh'
  <2>1. \A v, x : Genuine(v, x)' = Genuine(v, x)
    BY DEF Genuine, End
  <2> QED
    BY <1>3, <1>10, <2>1 DEF CreditFresh, HandedBack
<1> QED
  BY <1>2, <1>5, <1>6, <1>7, <1>8, <1>9, <1>10

\* A step that leaves the store alone and plans nothing new.
LEMMA StoreStep ==
  ASSUME StoreFresh, UNCHANGED <<mode, layer, record>>, Planned' \subseteq Planned,
         held' = "kept" => held = "kept" /\ kept' = kept /\ job' = job
  PROVE  StoreFresh'
<1>1. \A b, p : Holds(b, p)' = Holds(b, p)
  BY DEF Holds
<1>2. \A p \in Planned', l \in Layers : Holds(layer[p.donor][l], p)'
  BY <1>1 DEF StoreFresh, Holds
<1> QED
  BY <1>1, <1>2 DEF StoreFresh

\* A piece that a hook may add to the plans.
Added(p) ==
  /\ Matched(p)
  /\ mode = "semantic_span" => p.dstart + p.count <= record[p.donor].len

\* A hook returns n tokens at boundary b.
LEMMA ReturnStep ==
  ASSUME LInv, NEW r \in Requests, NEW b \in Nat, NEW n \in Nat, Return(r, b, n),
         phase = "schedule", seen[r] = "no", status[r] # "done",
         status[r] = "running" => b = ncomp[r] /\ mode = "semantic_span",
         b + n <= PromptTokens,
         looked' \subseteq Requests, memo' \in [Requests -> SUBSET Donors],
         plan' \in [Requests -> SUBSET Segment],
         \A q \in Requests : \A p \in plan'[q] : p \in plan[q] \/ Added(p),
         n > 0 => Tiles(plan'[r], b, b + n) /\ b + n < PromptTokens
  PROVE  LInv' /\ (Fresh => Fresh')
<1>1. /\ UNCHANGED <<mode, backend, align, status, ncomp, seen, preempts, giveups,
                     pending, loads, job, layerNo, landed, held, kept, errors, kv,
                     layer, record, use>>
      /\ phase' = "alloc" /\ trying' = {r} /\ base' = b /\ ext' = n
  BY DEF Return, input, worker, store
<1>2. TypeOK'
  BY <1>1 DEF LInv, TypeOK
<1>3. Offer(r)'
  BY <1>1 DEF Offer, Tiles, End
<1>4. PhaseOK'
  BY <1>1, <1>3 DEF LInv, PhaseOK
<1>5. Due' = Due
  BY <1>1 DEF Due
<1>6. \A p \in Planned' : p \in Planned \/ (Added(p) /\ p \in Segment)
  <2>1. \A q \in Requests : \A p \in plan'[q] :
          p \in Planned \/ (Added(p) /\ p \in Segment)
    BY DEF Planned
  <2> QED
    BY <2>1, <1>1, <1>5 DEF Planned
<1>7. \A p \in Planned' : Matched(p)
  BY <1>6 DEF LInv, LoadsOK, Added
<1>8. LInv' /\ (CreditFresh => CreditFresh')
  BY <1>1, <1>2, <1>4, <1>5, <1>7, QuietStep
<1>9. ASSUME StoreFresh PROVE StoreFresh'
  <2>1. \A c, p : Holds(c, p)' = Holds(c, p)
    BY <1>1 DEF Holds
  <2>2. ASSUME NEW p \in Planned', NEW l \in Layers
        PROVE  Holds(layer[p.donor][l], p)
    <3>1. CASE p \in Planned
      BY <3>1, <1>9 DEF StoreFresh
    <3>2. CASE Added(p) /\ p \in Segment
      <4>1. /\ p.donor \in Donors /\ p.dstart \in Nat /\ p.count \in Nat
        BY <3>2, SegmentFields
      <4>2. record[p.donor].len \in Nat /\ layer[p.donor][l].len \in Nat
        BY <4>1 DEF LInv, TypeOK, Bytes
      <4>3. layer[p.donor][l].len > 0 => record[p.donor].len <= layer[p.donor][l].len
        BY <4>1, <1>9 DEF StoreFresh
      <4> QED
        BY <3>2, <4>1, <4>2, <4>3 DEF Added, Holds
    <3> QED
      BY <3>1, <3>2, <1>6
  <2>3. \A p \in Planned', l \in Layers : Holds(layer[p.donor][l], p)'
    BY <2>1, <2>2, <1>1 DEF Holds
  <2> QED
    BY <2>1, <2>3, <1>1, <1>9 DEF StoreFresh
<1> QED
  BY <1>1, <1>8, <1>9 DEF Fresh, FirstUses

\* The hooks, each with its plan.
LEMMA HookStep ==
  ASSUME LInv, NEW r \in Requests, NEW b \in Hits,
         HookGated(r, b) \/ HookNoAnswer(r, b) \/ HookMiss(r, b) \/ HookHit(r, b)
  PROVE  LInv' /\ (Fresh => Fresh')
<1> USE DEF LInv
<1>1. /\ b \in Nat /\ b < PromptTokens /\ PromptTokens \in Nat
      /\ phase = "schedule" /\ status[r] = "waiting" /\ seen[r] = "no"
  BY LoadAssumption, SizeAssumption
     DEF HookGated, HookNoAnswer, HookMiss, HookHit, Asked
<1>2. /\ looked' \subseteq Requests /\ memo' \in [Requests -> SUBSET Donors]
      /\ plan \in [Requests -> SUBSET Segment]
  <2>1. \/ looked' = looked /\ memo' = memo
        \/ looked' = looked \cup {r} /\ memo' = memo
        \/ \E D \in SUBSET Donors : looked' = looked \cup {r}
                                   /\ memo' = [memo EXCEPT ![r] = D]
    BY DEF HookGated, HookNoAnswer, HookMiss, HookHit
  <2> QED
    BY <2>1 DEF TypeOK
<1>3. CASE Return(r, b, 0) /\ plan' = plan
  BY <1>1, <1>2, <1>3, ReturnStep
<1>4. ASSUME NEW D \in SUBSET Donors, NEW pl \in Plans(D, b),
             Return(r, b, pl.tokens), RecordLoadPlan(r, pl.pieces)
      PROVE  LInv' /\ (Fresh => Fresh')
  <2>1. GoodPlan(pl, b)
    BY <1>1, PlanFacts
  <2>2. plan' = [plan EXCEPT ![r] = pl.pieces]
    BY <1>4 DEF RecordLoadPlan
  <2>3. /\ plan' \in [Requests -> SUBSET Segment]
        /\ \A q \in Requests : \A p \in plan'[q] : p \in plan[q] \/ Added(p)
        /\ plan'[r] = pl.pieces
    BY <1>2, <2>1, <2>2 DEF GoodPlan, Added
  <2>4. /\ pl.tokens \in Nat /\ b + pl.tokens <= PromptTokens
        /\ Tiles(plan'[r], b, b + pl.tokens) /\ b + pl.tokens < PromptTokens
    BY <1>1, <2>1, <2>3 DEF GoodPlan
  <2> QED
    BY <1>1, <1>2, <1>4, <2>3, <2>4, ReturnStep
<1>5. CASE HookHit(r, b)
  <2>1. PICK D \in (SUBSET Donors) \ {{}} :
          \/ Return(r, b, 0) /\ UNCHANGED plan
          \/ \E pl \in Plans(D, b) :
               Return(r, b, pl.tokens) /\ RecordLoadPlan(r, pl.pieces)
    BY <1>5 DEF HookHit
  <2> QED
    BY <2>1, <1>3, <1>4
<1>6. CASE ~HookHit(r, b)
  BY <1>3, <1>6 DEF HookGated, HookNoAnswer, HookMiss
<1> QED
  BY <1>5, <1>6

\* A mid-prefill hook that plans a load keeps the invariant: the load begins where the
\* computed tokens end.
LEMMA MidPrefillStep ==
  ASSUME LInv, NEW r \in Requests, MidPrefillHook(r)
  PROVE  LInv' /\ (Fresh => Fresh')
<1> USE DEF LInv
<1>1. PICK pl \in SpanPlans(memo[r], ncomp[r]) :
        Return(r, ncomp[r], pl.tokens) /\ RecordLoadPlan(r, pl.pieces)
  BY DEF MidPrefillHook
<1>2. /\ phase = "schedule" /\ status[r] = "running" /\ seen[r] = "no"
      /\ mode = "semantic_span" /\ looked' = looked /\ memo' = memo
  BY DEF MidPrefillHook
<1>3. /\ ncomp[r] \in Nat /\ memo[r] \in SUBSET Donors /\ PromptTokens \in Nat
      /\ looked' \subseteq Requests /\ memo' \in [Requests -> SUBSET Donors]
      /\ plan \in [Requests -> SUBSET Segment]
  BY <1>2, SizeAssumption DEF TypeOK
<1>4. GoodPlan(pl, ncomp[r])
  BY <1>3, SpanPlanFacts
<1>5. plan' = [plan EXCEPT ![r] = pl.pieces]
  BY <1>1 DEF RecordLoadPlan
<1>6. /\ plan' \in [Requests -> SUBSET Segment]
      /\ \A q \in Requests : \A p \in plan'[q] : p \in plan[q] \/ Added(p)
      /\ plan'[r] = pl.pieces
  BY <1>3, <1>4, <1>5 DEF GoodPlan, Added
<1>7. /\ pl.tokens \in Nat /\ ncomp[r] + pl.tokens <= PromptTokens
      /\ Tiles(plan'[r], ncomp[r], ncomp[r] + pl.tokens)
      /\ ncomp[r] + pl.tokens < PromptTokens
  BY <1>3, <1>4, <1>6 DEF GoodPlan
<1>8. status[r] # "done" /\ (status[r] = "running" =>
        ncomp[r] = ncomp[r] /\ mode = "semantic_span")
  BY <1>2
<1> QED
  BY <1>1, <1>2, <1>3, <1>6, <1>7, <1>8, ReturnStep

\* A request is passed over, or scheduled without a load.
LEMMA PassStep ==
  ASSUME LInv, NEW r \in Requests, GiveUp(r) \/ ComputeOn(r)
  PROVE  LInv' /\ (Fresh => Fresh')
<1> USE DEF LInv
<1>1. /\ UNCHANGED <<mode, backend, align, status, ncomp, preempts, looked, memo,
                     plan, pending, loads, job, layerNo, landed, held, kept,
                     errors, kv, layer, record, use>>
      /\ phase' = "schedule" /\ phase \in {"schedule", "alloc"}
      /\ trying' \in {{}, trying}
      /\ \A q \in Requests \ {r} : seen'[q] = seen[q]
      /\ seen'[r] \in {"passed", "run"} /\ seen[r] = "no"
      /\ seen' \in [Requests -> {"no", "passed", "run", "load"}]
      /\ seen'[r] = "run" => status[r] = "running"
  <2>1. CASE GiveUp(r)
    <3>1. seen[r] = "no"
      BY <2>1 DEF GiveUp, PhaseOK, Offer
    <3> QED
      BY <2>1, <3>1 DEF GiveUp, TypeOK, input, scheduler, worker, store
  <2>2. CASE ComputeOn(r)
    BY <2>2 DEF ComputeOn, TypeOK, input, scheduler, worker, store
  <2> QED
    BY <2>1, <2>2
<1>2. trying' = {}
  BY <1>1 DEF GiveUp, ComputeOn, PhaseOK
<1>3. giveups' \in 0 .. MaxGiveUps /\ base' \in Nat /\ ext' \in Nat
  BY LoadAssumption DEF GiveUp, ComputeOn, TypeOK
<1>4. TypeOK'
  BY <1>1, <1>2, <1>3 DEF TypeOK
<1>5. PhaseOK'
  BY <1>1, <1>2 DEF PhaseOK, TypeOK
<1>6. Due' = Due /\ Planned' = Planned
  BY <1>1 DEF Due, Planned
<1>7. LInv' /\ (CreditFresh => CreditFresh')
  BY <1>1, <1>4, <1>5, <1>6, QuietStep DEF LoadsOK
<1>8. StoreFresh => StoreFresh'
  BY <1>1, <1>6, StoreStep
<1> QED
  BY <1>1, <1>7, <1>8 DEF Fresh, FirstUses

\* A nonempty set of natural numbers has a least element, and Min is it.
LEMMA MinFacts ==
  ASSUME NEW T, T \subseteq Nat, T # {}
  PROVE  Min(T) \in T /\ Min(T) \in Nat /\ \A y \in T : Min(T) <= y
<1>1. \E x \in T : \A y \in T : x <= y
  BY LeastNumber
<1> QED
  BY <1>1 DEF Min

\* The store changes under the writer thread.
LEMMA StoreActions ==
  ASSUME LInv, NEW d \in Donors,
         \/ Evict(d) \/ ReuseId(d) \/ Republish(d)
         \/ \E l \in Layers : Tear(d, l) \/ Overwrite(d, l)
  PROVE  LInv' /\ (Fresh => Fresh')
<1> USE DEF LInv
<1>1. UNCHANGED <<mode, backend, align, phase, status, ncomp, seen, trying, base,
                  ext, preempts, giveups, looked, memo, plan, pending, loads, job,
                  layerNo, landed, errors, kv>>
  BY DEF Evict, ReuseId, Republish, Tear, Overwrite, input, engine, scheduler, worker
<1>2. Due' = Due /\ Planned' = Planned
  BY <1>1 DEF Due, Planned
<1>3. PhaseOK'
  BY <1>1 DEF PhaseOK, Offer, Tiles, End
<1>4. \A e \in Donors : use'[e] \in Nat /\ use'[e] \in 1 .. Uses[e]
  <2>1. CASE ReuseId(d)
    <3>1. use[d] < Uses[d] /\ use' = [use EXCEPT ![d] = use[d] + 1]
      BY <2>1 DEF ReuseId
    <3>2. use[d] + 1 \in Nat /\ use[d] + 1 \in 1 .. Uses[d]
      <4>1. Uses[d] \in Nat
        BY LoadAssumption
      <4>2. use[d] \in Nat /\ use[d] \in 1 .. Uses[d]
        BY DEF TypeOK
      <4> QED
        BY <3>1, <4>1, <4>2
    <3> QED
      BY <3>1, <3>2 DEF TypeOK
  <2>2. CASE ~ReuseId(d)
    BY <2>2 DEF Evict, Republish, Tear, Overwrite, TypeOK
  <2> QED
    BY <2>1, <2>2
<1>5. use' \in [Donors -> Nat]
  BY <1>4 DEF Evict, ReuseId, Republish, Tear, Overwrite, TypeOK
<1>6. /\ layer' \in [Donors -> [Layers -> Bytes]] /\ record' \in [Donors -> Bytes]
      /\ held' \in {"none", "live", "kept"} /\ kept' \in [Layers -> Bytes]
  <2>1. CASE Evict(d)
    <3>1. /\ layer' = [layer EXCEPT ![d] = [l \in Layers |-> NoBytes]]
          /\ record' = [record EXCEPT ![d] = NoBytes] \/ record' = record
          /\ held' = held \/ held' = "kept"
          /\ kept' = kept \/ kept' = layer[d]
      BY <2>1 DEF Evict
    <3>2. /\ layer \in [Donors -> [Layers -> Bytes]] /\ record \in [Donors -> Bytes]
          /\ held \in {"none", "live", "kept"} /\ kept \in [Layers -> Bytes]
      BY DEF TypeOK
    <3>3. layer' \in [Donors -> [Layers -> Bytes]] /\ record' \in [Donors -> Bytes]
      BY <3>1, <3>2, ValueFacts
    <3> QED
      BY <3>1, <3>2, <3>3
  <2>2. ASSUME NEW l \in Layers, Tear(d, l)
        PROVE  layer' \in [Donors -> [Layers -> Bytes]] /\ UNCHANGED <<record, held, kept>>
    BY <2>2, ValueFacts DEF Tear, TypeOK, worker
  <2>3. ASSUME NEW l \in Layers, Overwrite(d, l)
        PROVE  layer' \in [Donors -> [Layers -> Bytes]] /\ UNCHANGED <<record, held, kept>>
    <3>1. PICK n \in Lengths :
            layer' = [layer EXCEPT ![d][l] = [use |-> use[d], len |-> n]]
      BY <2>3 DEF Overwrite
    <3>2. [use |-> use[d], len |-> n] \in Bytes
      BY LoadAssumption DEF TypeOK, Bytes
    <3> QED
      BY <2>3, <3>1, <3>2 DEF Overwrite, TypeOK, worker
  <2>4. CASE ReuseId(d)
    <3>1. PICK n \in Lengths :
            layer' = [layer EXCEPT ![d][1] = [use |-> use[d] + 1, len |-> n]]
      BY <2>4 DEF ReuseId
    <3>2. 1 \in Layers /\ Lengths \subseteq Nat
      BY LoadAssumption DEF Layers
    <3>3. use[d] \in Nat /\ layer \in [Donors -> [Layers -> Bytes]]
      BY DEF TypeOK
    <3>4. [use |-> use[d] + 1, len |-> n] \in Bytes
      BY <3>2, <3>3 DEF Bytes
    <3>5. layer' \in [Donors -> [Layers -> Bytes]]
      BY <3>1, <3>2, <3>3, <3>4
    <3> QED
      BY <2>4, <3>5 DEF ReuseId, TypeOK, worker
  <2>5. CASE Republish(d)
    <3> DEFINE S == {layer[d][l].len : l \in Layers}
               n == Min(S)
    <3>1. record' = [record EXCEPT ![d] = [use |-> use[d], len |-> n]]
      BY <2>5 DEF Republish
    <3>2. S \subseteq Nat /\ S # {}
      <4>1. 1 \in Layers
        BY LoadAssumption DEF Layers
      <4> QED
        BY <4>1 DEF TypeOK, Bytes
    <3>3. n \in Nat
      BY <3>2, MinFacts
    <3> HIDE DEF n
    <3>4. [use |-> use[d], len |-> n] \in Bytes
      BY <3>3 DEF TypeOK, Bytes
    <3> QED
      BY <2>5, <3>1, <3>4 DEF Republish, TypeOK, worker
  <2> QED
    BY <2>1, <2>2, <2>3, <2>4, <2>5 DEF TypeOK
<1>7. TypeOK'
  BY <1>1, <1>4, <1>5, <1>6 DEF TypeOK
<1>8. LInv' /\ (CreditFresh => CreditFresh')
  BY <1>1, <1>2, <1>3, <1>7, QuietStep DEF LoadsOK
<1>9. ASSUME FirstUses', StoreFresh PROVE StoreFresh'
  <2>1. \A b, p : Holds(b, p)' = Holds(b, p)
    BY <1>1 DEF Holds
  <2>2. \A p \in Planned : p \in Segment /\ p.donor \in Donors
    BY PlannedTyped, SegmentFields
  <2>3. \A p : Holds(NoBytes, p)
    BY ValueFacts DEF Holds
  <2>4. CASE Evict(d)
    <3>1. /\ \A l \in Layers : layer'[d][l] = NoBytes
          /\ \A e \in Donors \ {d} : layer'[e] = layer[e] /\ record'[e] = record[e]
      BY <2>4 DEF Evict, TypeOK
    <3>2. \A e \in Donors, l \in Layers : layer'[e][l].len > 0 =>
            layer'[e][l].use = 1 /\ record'[e].len <= layer'[e][l].len
      BY <3>1, <1>9, ValueFacts DEF StoreFresh
    <3>3. \A p \in Planned, l \in Layers : Holds(layer'[p.donor][l], p)
      BY <3>1, <2>2, <2>3, <1>9 DEF StoreFresh
    <3>4. ASSUME held' = "kept", NEW l \in Layers
          PROVE  /\ kept'[l].len > 0 => kept'[l].use = 1
                 /\ \A j \in job : Holds(kept'[l], j.piece)
      <4>1. CASE kept' = kept /\ held' = held
        BY <4>1, <3>4, <1>9 DEF StoreFresh
      <4>2. CASE kept' = layer[d] /\ \E j \in job : j.piece.donor = d
        <5>1. \A j \in job : j.piece.donor = d
          <6>1. \A j, k \in job : j = k
            BY DEF LoadsOK
          <6> QED
            BY <4>2, <6>1
        <5>2. \A j \in job : j.piece \in Planned
          BY PlannedTyped
        <5> QED
          BY <4>2, <5>1, <5>2, <1>9 DEF StoreFresh
      <4> QED
        BY <4>1, <4>2, <2>4 DEF Evict
    <3> QED
      BY <3>2, <3>3, <3>4, <2>1, <1>1, <1>2 DEF StoreFresh, Holds
  <2>5. ASSUME NEW m \in Layers, Tear(d, m) PROVE StoreFresh'
    <3>1. /\ \A e \in Donors, l \in Layers :
               layer'[e][l] = layer[e][l] \/ layer'[e][l] = NoBytes
          /\ UNCHANGED <<record, held, kept>>
      BY <2>5 DEF Tear, TypeOK, worker
    <3>2. \A e \in Donors, l \in Layers : layer'[e][l].len > 0 =>
            layer'[e][l].use = 1 /\ record'[e].len <= layer'[e][l].len
      BY <3>1, <1>9, ValueFacts DEF StoreFresh
    <3>3. \A p \in Planned, l \in Layers : Holds(layer'[p.donor][l], p)
      BY <3>1, <2>2, <2>3, <1>9 DEF StoreFresh
    <3> QED
      BY <3>1, <3>2, <3>3, <2>1, <1>1, <1>2, <1>9 DEF StoreFresh, Holds
  <2>6. ~ReuseId(d) /\ ~Republish(d) /\ \A l \in Layers : ~Overwrite(d, l)
    BY <1>9 DEF ReuseId, Republish, Overwrite, FirstUses, TypeOK
  <2> QED
    BY <2>4, <2>5, <2>6
<1>10. FirstUses' => FirstUses
  <2>1. CASE ReuseId(d)
    BY <2>1 DEF ReuseId, FirstUses, TypeOK
  <2>2. CASE ~ReuseId(d)
    BY <2>2 DEF Evict, Republish, Tear, Overwrite, FirstUses
  <2> QED
    BY <2>1, <2>2
<1> QED
  BY <1>8, <1>9, <1>10 DEF Fresh

-----------------------------------------------------------------------------
(* The worker. *)

\* build_connector_meta hands the pending plans to the worker and loses none.
LEMMA BuildStep ==
  ASSUME LInv, BuildConnectorMeta
  PROVE  LInv' /\ (Fresh => Fresh')
<1> USE DEF LInv
<1>1. /\ UNCHANGED <<mode, backend, align, status, ncomp, seen, trying, base, ext,
                     preempts, giveups, looked, memo, plan, job, layerNo, landed,
                     held, kept, errors, kv, layer, record, use>>
      /\ phase = "schedule" /\ phase' = "load"
      /\ loads' = UNION {{[req |-> r, piece |-> p] : p \in pending[r]} :
                           r \in Requests}
      /\ pending' = [r \in Requests |-> {}]
  BY DEF BuildConnectorMeta, input, store
<1>2. Due' = Due /\ loads' = Due
  <2>1. loads = {} /\ pending \in [Requests -> SUBSET Segment]
    BY <1>1 DEF PhaseOK, TypeOK
  <2>2. ASSUME NEW j \in loads' PROVE j \in Due
    <3>1. PICK r \in Requests : \E p \in pending[r] : j = [req |-> r, piece |-> p]
      BY <1>1
    <3>2. PICK p \in pending[r] : j = [req |-> r, piece |-> p]
      BY <3>1
    <3>3. j.req = r /\ j.piece = p /\ p \in Segment
      BY <3>2, <2>1
    <3>4. j \in [req : Requests, piece : Segment]
      BY <3>2, <3>3
    <3> QED
      BY <3>3, <3>4 DEF Due
  <2>3. ASSUME NEW j \in Due PROVE j \in loads'
    <3>1. /\ j \in [req : Requests, piece : Segment]
          /\ j.piece \in pending[j.req]
      BY <2>1 DEF Due
    <3>2. j = [req |-> j.req, piece |-> j.piece] /\ j.req \in Requests
      BY <3>1
    <3> QED
      BY <3>1, <3>2, <1>1
  <2>4. loads' = Due
    BY <2>2, <2>3
  <2>5. Due' = loads'
    BY <1>1 DEF Due
  <2> QED
    BY <2>4, <2>5
<1>3. TypeOK'
  <2>1. Due \subseteq [req : Requests, piece : Segment]
    BY DEF Due, TypeOK
  <2> QED
    BY <2>1, <1>1, <1>2 DEF TypeOK
<1>4. PhaseOK'
  BY <1>1 DEF PhaseOK
<1>5. Planned' = Planned
  BY <1>1, <1>2 DEF Planned
<1>6. LInv' /\ (CreditFresh => CreditFresh')
  BY <1>1, <1>2, <1>3, <1>4, <1>5, QuietStep DEF LoadsOK
<1>7. StoreFresh => StoreFresh'
  BY <1>1, <1>5, StoreStep
<1> QED
  BY <1>1, <1>6, <1>7 DEF Fresh, FirstUses

\* During a load phase everything due is shipped.
LEMMA ShippedIsDue ==
  ASSUME LInv, phase = "load"
  PROVE  Due = loads
<1>1. \A r \in Requests : pending[r] = {}
  BY DEF LInv, PhaseOK
<1> QED
  BY <1>1 DEF Due

\* What no step of the worker touches.
WorkFrame ==
  UNCHANGED <<mode, backend, align, status, ncomp, seen, trying, base, ext,
              preempts, giveups, looked, memo, plan, pending, layer, record, use>>

\* A step within the load phase keeps the bookkeeping of the step.
LEMMA WorkPhase ==
  ASSUME LInv, WorkFrame, phase = "load", phase' = "load"
  PROVE  /\ PhaseOK' /\ Due' = loads' /\ Due = loads
         /\ \A j : Slots(j)' = Slots(j)
         /\ \A p : Matched(p)' = Matched(p)
         /\ \A v, x : Genuine(v, x)' = Genuine(v, x)
<1>1. PhaseOK'
  BY DEF LInv, PhaseOK, WorkFrame
<1>2. \A r \in Requests : pending[r] = {} /\ pending'[r] = {}
  BY DEF LInv, PhaseOK, WorkFrame
<1>3. Due' = loads' /\ Due = loads
  BY <1>2 DEF Due
<1> QED
  BY <1>1, <1>3 DEF WorkFrame, Slots, SlotMapping, Matched, Genuine, End

\* Taking the next load keeps the invariant: its positions are not yet written.
LEMMA BeginStep ==
  ASSUME LInv, LoadBegin
  PROVE  LInv' /\ (Fresh => Fresh')
<1> USE DEF LInv
<1>1. PICK j \in loads : loads' = loads \ {j} /\ job' = {j}
                           /\ held' \in {"none", "live"}
  BY DEF LoadBegin
<1>2. /\ WorkFrame /\ phase = "load" /\ phase' = "load" /\ job = {}
      /\ layerNo' = 1 /\ landed' = 0 /\ UNCHANGED <<kept, errors, kv>>
  BY DEF LoadBegin, WorkFrame, input, engine, scheduler, store
<1>3. /\ PhaseOK' /\ Due' = loads' /\ Due = loads
      /\ \A k : Slots(k)' = Slots(k)
      /\ \A p : Matched(p)' = Matched(p)
      /\ \A v, x : Genuine(v, x)' = Genuine(v, x)
  BY <1>2, WorkPhase
<1>4. Due' \cup job' = Due \cup job /\ Due' \subseteq Due /\ j \in Due
  BY <1>1, <1>2, <1>3
<1>5. TypeOK'
  <2>1. 1 \in 0 .. NumLayers + 1 /\ 0 \in 0 .. NumLayers
    BY LoadAssumption
  <2> QED
    BY <2>1, <1>1, <1>2 DEF TypeOK, WorkFrame
<1>6. Planned' = Planned
  BY <1>2, <1>4 DEF Planned, WorkFrame
<1>7. EmptyBeyond' /\ ErrorsOK'
  BY <1>2 DEF EmptyBeyond, ErrorsOK, WorkFrame
<1>8. LoadsOK'
  <2>1. \A p \in Planned' : Matched(p)'
    BY <1>3, <1>6 DEF LoadsOK
  <2>2. \A k \in Due' \cup job' :
          /\ seen'[k.req] = "load"
          /\ End(k.piece) <= ncomp'[k.req] /\ ncomp'[k.req] < PromptTokens
    BY <1>2, <1>4 DEF LoadsOK, WorkFrame
  <2>3. \A i, k \in Due' \cup job' :
          i.req = k.req /\ i # k => Slots(i)' \cap Slots(k)' = {}
    BY <1>3, <1>4 DEF LoadsOK
  <2>4. job' \cap Due' = {} /\ \A i, k \in job' : i = k
    BY <1>1, <1>3
  <2> QED
    BY <2>1, <2>2, <2>3, <2>4 DEF LoadsOK, End
<1>9. DueOK'
  BY <1>2, <1>3, <1>4 DEF DueOK
<1>10. JobOK'
  <2>1. \A l \in Layers, x \in Slots(j) : kv'[j.req][l][x] = Nothing
    BY <1>2, <1>4 DEF DueOK
  <2> QED
    BY <2>1, <1>1, <1>2, <1>3, ValueFacts DEF JobOK, Layers
<1>11. Filled'
  BY <1>2, <1>3, <1>4 DEF Filled, HandedBack, WorkFrame
<1>12. ASSUME CreditFresh PROVE CreditFresh'
  <2>1. \A l \in Layers : l >= layerNo'
    BY <1>2 DEF Layers
  <2> QED
    BY <2>1, <1>1, <1>2, <1>3, <1>12 DEF CreditFresh, HandedBack, WorkFrame
<1>13. StoreFresh => StoreFresh'
  BY <1>1, <1>2, <1>6, StoreStep DEF WorkFrame
<1> QED
  BY <1>2, <1>3, <1>5, <1>7, <1>8, <1>9, <1>10, <1>11, <1>12, <1>13
     DEF Fresh, FirstUses, WorkFrame

\* The load at hand ends: each of its slots was filled or handed back.
LEMMA EndStep ==
  ASSUME LInv, WorkFrame, phase = "load", phase' = "load", EndJob,
         UNCHANGED <<loads, kv>>, TypeOK', ErrorsOK', errors \subseteq errors',
         \A j \in job : \A x \in Slots(j) :
           \/ HandedBack(j.req, x)'
           \/ landed > 0 /\ layerNo > NumLayers
  PROVE  LInv' /\ (Fresh => Fresh')
<1> USE DEF LInv
<1>1. /\ PhaseOK' /\ Due' = loads' /\ Due = loads
      /\ \A k : Slots(k)' = Slots(k)
      /\ \A p : Matched(p)' = Matched(p)
      /\ \A v, x : Genuine(v, x)' = Genuine(v, x)
  BY WorkPhase
<1>2. Due' = Due /\ job' = {} /\ held' = "none"
  BY <1>1 DEF EndJob
<1>3. \A p \in Planned' : p \in Planned
  BY <1>2 DEF Planned, WorkFrame
<1>4. EmptyBeyond'
  BY DEF EmptyBeyond, WorkFrame
<1>5. LoadsOK'
  <2>1. \A p \in Planned' : Matched(p)'
    BY <1>1, <1>3 DEF LoadsOK
  <2>2. \A k \in Due' \cup job' :
          /\ seen'[k.req] = "load"
          /\ End(k.piece) <= ncomp'[k.req] /\ ncomp'[k.req] < PromptTokens
    BY <1>2 DEF LoadsOK, WorkFrame
  <2>3. \A i, k \in Due' \cup job' :
          i.req = k.req /\ i # k => Slots(i)' \cap Slots(k)' = {}
    BY <1>1, <1>2 DEF LoadsOK
  <2> QED
    BY <2>1, <2>2, <2>3, <1>2 DEF LoadsOK, End
<1>6. DueOK' /\ JobOK'
  BY <1>1, <1>2 DEF DueOK, JobOK
<1>7. \A r, x : HandedBack(r, x) => HandedBack(r, x)'
  BY DEF HandedBack
<1>8. Filled'
  <2> SUFFICES ASSUME NEW r \in Requests, NEW x \in Positions, x < ncomp[r]
               PROVE  \/ \E l \in Layers : kv[r][l][x] # Nothing
                      \/ \E j \in Due : j.req = r /\ x \in Slots(j)
                      \/ HandedBack(r, x)'
    BY <1>1, <1>2 DEF Filled, WorkFrame
  <2>1. ASSUME NEW j \in job, j.req = r, x \in Slots(j)
        PROVE  HandedBack(r, x)' \/ \E l \in Layers : kv[r][l][x] # Nothing
    BY <2>1 DEF JobOK
  <2> QED
    BY <2>1, <1>7 DEF Filled
<1>9. ASSUME CreditFresh PROVE CreditFresh'
  <2> SUFFICES ASSUME NEW r \in Requests, NEW l \in Layers, NEW x \in Positions,
                      x < ncomp[r]
               PROVE  \/ Genuine(kv[r][l][x], x)
                      \/ \E j \in Due : j.req = r /\ x \in Slots(j)
                      \/ HandedBack(r, x)'
    BY <1>1, <1>2 DEF CreditFresh, WorkFrame
  <2>1. ASSUME NEW j \in job, j.req = r, x \in Slots(j), l >= layerNo
        PROVE  HandedBack(r, x)'
    <3>1. NumLayers \in Nat /\ layerNo \in Nat
      BY LoadAssumption DEF TypeOK
    <3>2. ~(layerNo > NumLayers)
      BY <2>1, <3>1 DEF Layers
    <3> QED
      BY <2>1, <3>2
  <2> QED
    BY <2>1, <1>7, <1>9 DEF CreditFresh
<1>10. StoreFresh => StoreFresh'
  BY <1>2, <1>3, StoreStep DEF WorkFrame
<1> QED
  BY <1>1, <1>4, <1>5, <1>6, <1>8, <1>9, <1>10 DEF Fresh, FirstUses, WorkFrame

\* Multiples of the block size are ordered as their factors are.
LEMMA Multiples ==
  ASSUME NEW m \in Nat, NEW k \in Nat, m <= k
  PROVE  m * BlockSize <= k * BlockSize
<1>1. PICK i \in Nat : k = m + i
  <2>1. k - m \in Nat /\ k = m + (k - m)
    OBVIOUS
  <2> QED
    BY <2>1
<1>2. k * BlockSize = m * BlockSize + i * BlockSize /\ i * BlockSize \in Nat
  BY <1>1, SizeAssumption
<1> QED
  BY <1>2, SizeAssumption

\* The blocks of a piece begin at or before it and end with it.
LEMMA DestinationFacts ==
  ASSUME NEW p \in Segment, p.count > 0
  PROVE  /\ \A b \in DestinationBlocks(p) : b \in Nat /\ b * BlockSize <= End(p)
         /\ \E b \in DestinationBlocks(p) : b * BlockSize <= p.tstart
<1> DEFINE n == p.tstart
           e == End(p)
           first == n \div BlockSize
           after == (e + BlockSize - 1) \div BlockSize
<1>1. n \in Nat /\ e \in Nat /\ n + 1 <= e /\ BlockSize \in Nat \ {0}
  BY SegmentFields, SizeAssumption
<1>2. DestinationBlocks(p) = first .. after - 1
  BY DEF DestinationBlocks
<1> HIDE DEF n, e
<1>3. /\ first \in Nat /\ first * BlockSize <= n /\ n < first * BlockSize + BlockSize
  BY <1>1
<1>4. /\ after \in Nat /\ after * BlockSize <= e + BlockSize - 1
      /\ e + BlockSize - 1 < after * BlockSize + BlockSize
  BY <1>1
<1> HIDE DEF first, after
<1>5. first < after
  <2> SUFFICES ASSUME after <= first PROVE FALSE
    BY <1>3, <1>4
  <2>1. after * BlockSize <= first * BlockSize
    BY <1>3, <1>4, Multiples
  <2> QED
    BY <2>1, <1>1, <1>3, <1>4
<1>6. ASSUME NEW b \in first .. after - 1
      PROVE  b \in Nat /\ b * BlockSize <= e
  <2>1. b \in Nat /\ b + 1 <= after /\ b + 1 \in Nat
    BY <1>3, <1>4
  <2>2. (b + 1) * BlockSize <= after * BlockSize
    BY <2>1, <1>4, Multiples
  <2>3. (b + 1) * BlockSize = b * BlockSize + BlockSize
    BY <2>1, <1>1
  <2>4. b * BlockSize \in Nat /\ after * BlockSize \in Nat
    BY <2>1, <1>1, <1>4
  <2> QED
    BY <2>1, <2>2, <2>3, <2>4, <1>1, <1>4
<1>7. first \in first .. after - 1
  BY <1>3, <1>4, <1>5
<1> QED
  BY <1>2, <1>3, <1>6, <1>7 DEF n, e

\* The error leaves nothing outstanding.
LEMMA DieStep ==
  ASSUME LInv, phase = "load", Die
  PROVE  LInv' /\ (Fresh => Fresh')
<1> USE DEF LInv
<1>1. /\ WorkFrame /\ phase' = "dead" /\ loads' = {} /\ job' = {} /\ layerNo' = 0
      /\ landed' = 0 /\ held' = "none" /\ kept' = [l \in Layers |-> NoBytes]
      /\ UNCHANGED <<errors, kv>>
  BY DEF Die, WorkFrame, input, scheduler, store
<1>2. \A r \in Requests : pending'[r] = {}
  BY <1>1 DEF PhaseOK, WorkFrame
<1>3. Due' = {} /\ job' = {}
  BY <1>1, <1>2 DEF Due
<1>4. \A p \in Planned' : p \in Planned
  BY <1>1, <1>3 DEF Planned, WorkFrame
<1>5. TypeOK'
  <2>1. 0 \in 0 .. NumLayers + 1 /\ 0 \in 0 .. NumLayers
    BY LoadAssumption
  <2> QED
    BY <2>1, <1>1, ValueFacts DEF TypeOK, WorkFrame
<1>6. PhaseOK'
  BY <1>1, <1>2 DEF PhaseOK, WorkFrame
<1>7. EmptyBeyond' /\ ErrorsOK'
  BY <1>1 DEF EmptyBeyond, ErrorsOK, WorkFrame
<1>8. \A p : Matched(p)' = Matched(p)
  BY <1>1 DEF Matched, End, WorkFrame
<1>9. LoadsOK' /\ DueOK' /\ JobOK'
  BY <1>3, <1>4, <1>8 DEF LoadsOK, DueOK, JobOK
<1>10. Filled' /\ CreditFresh'
  BY <1>1 DEF Filled, CreditFresh
<1>11. StoreFresh => StoreFresh'
  BY <1>1, <1>4, StoreStep DEF WorkFrame
<1> QED
  BY <1>1, <1>5, <1>6, <1>7, <1>9, <1>10, <1>11 DEF Fresh, FirstUses, WorkFrame

\* Ending a load keeps the types.
LEMMA EndJobTyped ==
  ASSUME LInv, WorkFrame, phase' = phase, EndJob, UNCHANGED <<loads, kv>>,
         errors' \subseteq [req : Requests, block : Nat]
  PROVE  TypeOK'
<1>1. 0 \in 0 .. NumLayers + 1 /\ 0 \in 0 .. NumLayers
  BY LoadAssumption
<1> QED
  BY <1>1, ValueFacts DEF LInv, TypeOK, EndJob, WorkFrame

\* A layer whose donor is gone keeps the invariant, whether the worker dies of it or
\* hands the blocks back.
LEMMA GoneStep ==
  ASSUME LInv, LayerGone
  PROVE  LInv' /\ (Fresh => Fresh')
<1> USE DEF LInv
<1>1. PICK j \in job :
        \/ Die
        \/ /\ mode # "semantic_span" /\ HandBack(j.req, j.piece) /\ EndJob
           /\ UNCHANGED <<input, engine, scheduler, loads, kv, store>>
  BY DEF LayerGone
<1>2. phase = "load"
  BY DEF LayerGone
<1>3. CASE Die
  BY <1>2, <1>3, DieStep
<1>4. CASE /\ mode # "semantic_span" /\ HandBack(j.req, j.piece) /\ EndJob
           /\ UNCHANGED <<input, engine, scheduler, loads, kv, store>>
  <2> DEFINE p == j.piece
             r == j.req
             new == {[req |-> r, block |-> b] : b \in DestinationBlocks(p)}
  <2>1. /\ WorkFrame /\ phase' = "load" /\ UNCHANGED <<loads, kv>>
        /\ errors' = errors \cup new
    BY <1>2, <1>4 DEF WorkFrame, HandBack, input, engine, scheduler, store
  <2>2. r \in Requests /\ p \in Segment /\ p \in Planned /\ End(p) \in Nat
    BY PlannedTyped, SegmentFields
  <2>3. p.count > 0 /\ End(p) <= ncomp[r] /\ seen[r] = "load" /\ ncomp[r] \in Nat
    BY <2>2 DEF LoadsOK, Matched, TypeOK
  <2>4. /\ \A b \in DestinationBlocks(p) : b \in Nat /\ b * BlockSize <= End(p)
        /\ \E b \in DestinationBlocks(p) : b * BlockSize <= p.tstart
    BY <2>2, <2>3, DestinationFacts
  <2>5. \A e \in new : /\ e \in [req : Requests, block : Nat] /\ e.req = r
                       /\ e.block * BlockSize <= ncomp[r]
    <3> SUFFICES ASSUME NEW b \in DestinationBlocks(p)
                 PROVE  /\ [req |-> r, block |-> b] \in [req : Requests, block : Nat]
                        /\ b * BlockSize <= ncomp[r]
      OBVIOUS
    <3>1. b \in Nat /\ b * BlockSize <= End(p) /\ b * BlockSize \in Nat
      BY <2>4, SizeAssumption
    <3> QED
      BY <3>1, <2>2, <2>3
  <2>6. errors' \subseteq [req : Requests, block : Nat] /\ errors \subseteq errors'
    BY <2>1, <2>5 DEF TypeOK
  <2>7. TypeOK'
    BY <1>2, <1>4, <2>1, <2>6, EndJobTyped
  <2>8. ErrorsOK'
    <3> HIDE DEF p, r, new
    <3> QED
      BY <1>4, <2>1, <2>3, <2>5 DEF ErrorsOK, WorkFrame
  <2>9. ASSUME NEW k \in job, NEW x \in Slots(k) PROVE HandedBack(k.req, x)'
    <3>1. k = j
      BY DEF LoadsOK
    <3>2. PICK b \in DestinationBlocks(p) : b * BlockSize <= p.tstart
      BY <2>4
    <3>3. [req |-> r, block |-> b] \in errors'
      BY <2>1
    <3>4. b * BlockSize <= x
      <4>1. x \in p.tstart .. End(p) - 1
        BY <3>1 DEF Slots, SlotMapping
      <4>2. b * BlockSize \in Nat /\ p.tstart \in Nat
        BY <2>2, <2>4, SegmentFields, SizeAssumption
      <4> QED
        BY <3>2, <4>1, <4>2, <2>2
    <3> QED
      BY <3>1, <3>3, <3>4 DEF HandedBack
  <2> QED
    BY <1>2, <1>4, <2>1, <2>6, <2>7, <2>8, <2>9, EndStep
<1> QED
  BY <1>1, <1>3, <1>4

\* The end of a load keeps the invariant: the worker dies of a span of which no layer
\* landed, and any other load is done.
LEMMA LoadEndStep ==
  ASSUME LInv, LoadEnd
  PROVE  LInv' /\ (Fresh => Fresh')
<1> USE DEF LInv
<1>1. phase = "load" /\ layerNo > NumLayers
  BY DEF LoadEnd
<1>2. CASE Die
  BY <1>1, <1>2, DieStep
<1>3. CASE /\ mode # "semantic_span" \/ landed > 0
           /\ EndJob
           /\ UNCHANGED <<input, engine, scheduler, loads, errors, kv, store>>
  <2>1. WorkFrame /\ phase' = "load" /\ UNCHANGED <<loads, kv, errors>>
    BY <1>1, <1>3 DEF WorkFrame, input, engine, scheduler, store
  <2>2. TypeOK'
    BY <1>1, <1>3, <2>1, EndJobTyped DEF TypeOK
  <2>3. ErrorsOK'
    BY <2>1 DEF ErrorsOK, WorkFrame
  <2>4. \A j \in job : landed > 0
    BY <1>1, <1>3, LoadAssumption DEF JobOK, TypeOK
  <2> QED
    BY <1>1, <1>3, <2>1, <2>2, <2>3, <2>4, EndStep
<1> QED
  BY <1>2, <1>3 DEF LoadEnd

\* The tensor that a load reads, while no donor's id has been used again.
LEMMA SourceFacts ==
  ASSUME LInv, StoreFresh, layerNo \in Layers, NEW j \in job
  PROVE  /\ Source(j.piece.donor).len > 0 => Source(j.piece.donor).use = 1
         /\ Holds(Source(j.piece.donor), j.piece)
<1> DEFINE d == j.piece.donor
<1>1. d \in Donors /\ j.piece \in Planned
  BY PlannedTyped, SegmentFields DEF LInv
<1>2. CASE held = "kept"
  BY <1>2 DEF Source, StoreFresh
<1>3. CASE held # "kept" /\ (held = "live" \/ backend = "disk")
  <2>1. Source(d) = layer[d][layerNo]
    BY <1>3 DEF Source
  <2> HIDE DEF d
  <2>2. layer[d][layerNo].len > 0 => layer[d][layerNo].use = 1
    BY <1>1 DEF StoreFresh
  <2>3. Holds(layer[d][layerNo], j.piece)
    BY <1>1 DEF StoreFresh, d
  <2> QED
    BY <2>1, <2>2, <2>3 DEF d
<1>4. CASE held # "kept" /\ ~(held = "live" \/ backend = "disk")
  BY <1>4, ValueFacts DEF Source, Holds
<1> QED
  BY <1>2, <1>3, <1>4

\* A layer that holds too few tokens keeps the invariant: a span goes on without it,
\* and the worker dies of any other load.
LEMMA ShortStep ==
  ASSUME LInv, LayerShort
  PROVE  LInv' /\ (Fresh => Fresh')
<1> USE DEF LInv
<1>1. PICK j \in job :
        /\ TooShort(j.piece)
        /\ \/ Die
           \/ /\ mode = "semantic_span" /\ layerNo' = layerNo + 1
              /\ UNCHANGED <<input, engine, scheduler, loads, job, landed,
                             held, kept, errors, kv, store>>
  BY DEF LayerShort
<1>2. phase = "load" /\ layerNo \in Layers
  BY DEF LayerShort
<1>3. CASE Die
  BY <1>2, <1>3, DieStep
<1>4. CASE /\ mode = "semantic_span" /\ layerNo' = layerNo + 1
           /\ UNCHANGED <<input, engine, scheduler, loads, job, landed, held,
                          kept, errors, kv, store>>
  <2>1. /\ WorkFrame /\ phase' = "load"
        /\ UNCHANGED <<loads, job, landed, held, kept, errors, kv>>
    BY <1>2, <1>4 DEF WorkFrame, input, engine, scheduler, store
  <2>2. /\ PhaseOK' /\ Due' = loads' /\ Due = loads
        /\ \A k : Slots(k)' = Slots(k)
        /\ \A p : Matched(p)' = Matched(p)
        /\ \A v, x : Genuine(v, x)' = Genuine(v, x)
    BY <1>2, <2>1, WorkPhase
  <2>3. layerNo \in Nat /\ layerNo' \in 0 .. NumLayers + 1 /\ layerNo' = layerNo + 1
    BY <1>2, <1>4, LoadAssumption DEF Layers
  <2>4. TypeOK'
    BY <2>1, <2>3, <1>2 DEF TypeOK, WorkFrame
  <2>5. Planned' = Planned /\ Due' = Due
    BY <2>1, <2>2 DEF Planned, WorkFrame
  <2>6. EmptyBeyond' /\ ErrorsOK'
    BY <2>1 DEF EmptyBeyond, ErrorsOK, WorkFrame
  <2>7. LoadsOK'
    <3>1. \A p \in Planned' : Matched(p)'
      BY <2>2, <2>5 DEF LoadsOK
    <3>2. \A k \in Due' \cup job' :
            /\ seen'[k.req] = "load"
            /\ End(k.piece) <= ncomp'[k.req] /\ ncomp'[k.req] < PromptTokens
      BY <2>1, <2>5 DEF LoadsOK, WorkFrame
    <3>3. \A i, k \in Due' \cup job' :
            i.req = k.req /\ i # k => Slots(i)' \cap Slots(k)' = {}
      BY <2>1, <2>2, <2>5 DEF LoadsOK
    <3>4. job' \cap Due' = {} /\ \A i, k \in job' : i = k
      BY <2>1, <2>5 DEF LoadsOK
    <3> QED
      BY <3>1, <3>2, <3>3, <3>4 DEF LoadsOK, End
  <2>8. DueOK'
    BY <2>1, <2>2, <2>5 DEF DueOK
  <2>9. JobOK'
    <3> SUFFICES ASSUME NEW k \in job
                 PROVE  /\ layerNo' > 0 /\ landed < layerNo'
                        /\ \A x \in Slots(k) :
                             /\ \A l \in Layers : kv[k.req][l][x] # Own
                             /\ landed > 0 => \E l \in Layers : kv[k.req][l][x] # Nothing
                             /\ \A l \in Layers : l >= layerNo' => kv[k.req][l][x] = Nothing
      BY <1>4, <2>1, <2>2 DEF JobOK, WorkFrame
    <3>1. landed \in Nat /\ landed < layerNo /\ \A l \in Layers : l >= layerNo' => l >= layerNo
      BY <2>3 DEF JobOK, TypeOK, Layers
    <3> QED
      BY <3>1, <2>3 DEF JobOK
  <2>10. Filled'
    <3>1. \A r, x : HandedBack(r, x)' = HandedBack(r, x)
      BY <2>1 DEF HandedBack
    <3>2. Due' \cup job' = Due \cup job
      BY <2>1, <2>5
    <3> QED
      BY <1>2, <2>1, <2>2, <3>1, <3>2 DEF Filled, WorkFrame
  <2>11. ~StoreFresh
    <3>1. Source(j.piece.donor).len \in Nat
      BY <1>2, PlannedTyped, SegmentFields, ValueFacts DEF Source, TypeOK, Bytes
    <3>2. j.piece.dstart \in Nat /\ j.piece.count \in Nat
      BY PlannedTyped, SegmentFields
    <3>3. /\ Source(j.piece.donor).len > 0
          /\ Source(j.piece.donor).len < j.piece.dstart + j.piece.count
      BY <1>1 DEF TooShort
    <3>4. ~Holds(Source(j.piece.donor), j.piece)
      BY <1>4, <3>1, <3>2, <3>3 DEF Holds
    <3> QED
      BY <3>4, <1>2, SourceFacts
  <2>12. FirstUses' = FirstUses
    BY <2>1 DEF FirstUses, WorkFrame
  <2> QED
    BY <2>2, <2>4, <2>6, <2>7, <2>8, <2>9, <2>10, <2>11, <2>12 DEF Fresh
<1> QED
  BY <1>1, <1>3, <1>4

\* Injecting a layer keeps the invariant and writes no position the request computed.
LEMMA InjectedStep ==
  ASSUME LInv, LayerInjected
  PROVE  /\ LInv' /\ (Fresh => Fresh')
         /\ \A r \in Requests, l \in Layers, x \in Positions :
              kv[r][l][x] = Own => kv'[r][l][x] = Own
<1> USE DEF LInv
<1>1. PICK j \in job :
        /\ Source(j.piece.donor).len > 0 /\ ~TooShort(j.piece)
        /\ kv' = [kv EXCEPT ![j.req][layerNo] = [x \in Positions |->
             IF x \in SlotMapping(j.piece)
             THEN [donor |-> j.piece.donor, use |-> Source(j.piece.donor).use,
                   pos |-> j.piece.dstart + x - j.piece.tstart]
             ELSE kv[j.req][layerNo][x]]]
  BY DEF LayerInjected
<1> DEFINE p == j.piece
           r == j.req
           src == Source(p.donor)
           V(x) == [donor |-> p.donor, use |-> src.use, pos |-> p.dstart + x - p.tstart]
<1>2. /\ WorkFrame /\ phase = "load" /\ phase' = "load" /\ layerNo \in Layers
      /\ layerNo' = layerNo + 1 /\ landed' = landed + 1
      /\ UNCHANGED <<loads, job, held, kept, errors>>
  BY DEF LayerInjected, WorkFrame, input, engine, scheduler, store
<1>3. /\ PhaseOK' /\ Due' = loads' /\ Due = loads
      /\ \A k : Slots(k)' = Slots(k)
      /\ \A q : Matched(q)' = Matched(q)
      /\ \A v, x : Genuine(v, x)' = Genuine(v, x)
  BY <1>2, WorkPhase
<1>4. /\ r \in Requests /\ p \in Segment /\ p \in Planned /\ p.donor \in Donors
      /\ p.dstart \in Nat /\ p.tstart \in Nat /\ p.count \in Nat
      /\ End(p) = p.tstart + p.count
  BY PlannedTyped, SegmentFields
<1>5. Matched(p) /\ End(p) <= ncomp[r] /\ \A k \in job : k = j
  BY <1>4 DEF LoadsOK
<1>6. Slots(j) \subseteq Positions /\ Slots(j) = p.tstart .. End(p) - 1
  <2>1. ncomp[r] \in Nat /\ ncomp[r] <= PromptTokens /\ PromptTokens \in Nat
    BY <1>4, SizeAssumption DEF TypeOK
  <2>2. Slots(j) = p.tstart .. End(p) - 1
    BY DEF Slots, SlotMapping
  <2> QED
    BY <2>1, <2>2, <1>4, <1>5 DEF Positions
<1>7. src.use \in Nat
  BY <1>2, <1>4, ValueFacts DEF Source, TypeOK, Bytes, NoBytes
<1> HIDE DEF src
<1>8. \A x \in Slots(j) : V(x) \in Slot /\ V(x) # Own /\ V(x) # Nothing
  <2> SUFFICES ASSUME NEW x \in Slots(j)
               PROVE  V(x) \in Slot /\ V(x) # Own /\ V(x) # Nothing
    OBVIOUS
  <2>1. p.dstart + x - p.tstart \in Nat
    BY <1>4, <1>6
  <2>2. V(x) \in Slot
    BY <2>1, <1>4, <1>7 DEF Slot
  <2>3. V(x).donor = p.donor /\ Own.donor = NoDonor /\ Nothing.donor = NoDonor
    BY DEF Own, Nothing
  <2>4. p.donor # NoDonor
    BY <1>4, LoadAssumption
  <2> QED
    BY <2>2, <2>3, <2>4
<1>9. /\ \A q \in Requests, l \in Layers, x \in Positions :
           ~(q = r /\ l = layerNo /\ x \in Slots(j)) => kv'[q][l][x] = kv[q][l][x]
      /\ \A x \in Slots(j) : kv'[r][layerNo][x] = V(x)
  <2>1. kv \in [Requests -> [Layers -> [Positions -> Slot]]]
    BY DEF TypeOK
  <2>2. kv'[r][layerNo] = [x \in Positions |-> IF x \in Slots(j) THEN V(x)
                                               ELSE kv[r][layerNo][x]]
    BY <1>1, <1>2, <1>4, <2>1 DEF src, Slots
  <2>3. \A q \in Requests, l \in Layers :
          ~(q = r /\ l = layerNo) => kv'[q][l] = kv[q][l]
    BY <1>1, <1>2, <1>4, <2>1
  <2> HIDE DEF V
  <2> QED
    BY <2>2, <2>3, <1>6
<1>10. kv' \in [Requests -> [Layers -> [Positions -> Slot]]]
  <2>1. kv \in [Requests -> [Layers -> [Positions -> Slot]]]
    BY DEF TypeOK
  <2> DEFINE F == [x \in Positions |-> IF x \in Slots(j) THEN V(x)
                                       ELSE kv[r][layerNo][x]]
  <2>2. kv' = [kv EXCEPT ![r][layerNo] = F]
    BY <1>1 DEF src, Slots
  <2>3. F \in [Positions -> Slot]
    <3> HIDE DEF V
    <3> QED
      BY <1>8, <1>4, <1>2, <2>1
  <2> HIDE DEF F
  <2> QED
    BY <2>1, <2>2, <2>3
<1> HIDE DEF V
<1>11. /\ layerNo \in Nat /\ landed \in Nat /\ landed < layerNo
       /\ layerNo' \in 0 .. NumLayers + 1 /\ landed' \in 0 .. NumLayers
  BY <1>2, LoadAssumption DEF JobOK, TypeOK, Layers
<1>12. TypeOK'
  BY <1>2, <1>10, <1>11 DEF TypeOK, WorkFrame
<1>13. Planned' = Planned /\ Due' = Due
  BY <1>2, <1>3 DEF Planned, WorkFrame
<1>14. ErrorsOK'
  BY <1>2 DEF ErrorsOK, WorkFrame
<1>15. EmptyBeyond'
  <2> SUFFICES ASSUME NEW q \in Requests, NEW l \in Layers, NEW x \in Positions,
                      x >= ncomp[q], kv[q][l][x] = Nothing
               PROVE  kv'[q][l][x] = Nothing
    BY <1>2 DEF EmptyBeyond, WorkFrame
  <2>1. ~(q = r /\ x \in Slots(j))
    BY <1>4, <1>5, <1>6 DEF TypeOK
  <2> QED
    BY <2>1, <1>9
<1>16. LoadsOK'
  <2>1. \A q \in Planned' : Matched(q)'
    BY <1>3, <1>13 DEF LoadsOK
  <2>2. \A k \in Due' \cup job' :
          /\ seen'[k.req] = "load"
          /\ End(k.piece) <= ncomp'[k.req] /\ ncomp'[k.req] < PromptTokens
    BY <1>2, <1>13 DEF LoadsOK, WorkFrame
  <2>3. \A i, k \in Due' \cup job' :
          i.req = k.req /\ i # k => Slots(i)' \cap Slots(k)' = {}
    BY <1>2, <1>3, <1>13 DEF LoadsOK
  <2>4. job' \cap Due' = {} /\ \A i, k \in job' : i = k
    BY <1>2, <1>13 DEF LoadsOK
  <2> QED
    BY <2>1, <2>2, <2>3, <2>4 DEF LoadsOK, End
<1>17. DueOK'
  <2> SUFFICES ASSUME NEW k \in Due, NEW l \in Layers, NEW x \in Slots(k)
               PROVE  kv'[k.req][l][x] = Nothing
    BY <1>3, <1>13 DEF DueOK
  <2>1. k.req \in Requests /\ k # j
    BY PlannedTyped DEF LoadsOK
  <2>2. ~(k.req = r /\ x \in Slots(j))
    BY <2>1 DEF LoadsOK
  <2>3. x \in Positions
    <3>1. /\ k.piece \in Segment /\ End(k.piece) <= ncomp[k.req]
          /\ ncomp[k.req] \in Nat /\ ncomp[k.req] <= PromptTokens
      BY <2>1, PlannedTyped DEF LoadsOK, TypeOK
    <3>2. x \in k.piece.tstart .. End(k.piece) - 1
      BY DEF Slots, SlotMapping
    <3>3. k.piece.tstart \in Nat /\ End(k.piece) \in Nat
      BY <3>1, SegmentFields
    <3> QED
      BY <3>1, <3>2, <3>3, SizeAssumption DEF Positions
  <2>4. kv[k.req][l][x] = Nothing
    BY DEF DueOK
  <2> QED
    BY <2>1, <2>2, <2>3, <2>4, <1>9
<1>18. JobOK'
  <2> SUFFICES /\ layerNo' > 0 /\ landed' < layerNo'
               /\ mode # "semantic_span" => landed' = layerNo' - 1
               /\ \A x \in Slots(j) :
                    /\ \A l \in Layers : kv'[r][l][x] # Own
                    /\ \E l \in Layers : kv'[r][l][x] # Nothing
                    /\ \A l \in Layers : l >= layerNo' => kv'[r][l][x] = Nothing
    BY <1>2, <1>3, <1>5 DEF JobOK, WorkFrame
  <2>1. /\ layerNo' > 0 /\ landed' < layerNo'
        /\ mode # "semantic_span" => landed' = layerNo' - 1
    BY <1>2, <1>11 DEF JobOK
  <2>2. ASSUME NEW x \in Slots(j)
        PROVE  /\ \A l \in Layers : kv'[r][l][x] # Own
               /\ \E l \in Layers : kv'[r][l][x] # Nothing
               /\ \A l \in Layers : l >= layerNo' => kv'[r][l][x] = Nothing
    <3>1. x \in Positions
      BY <1>6
    <3>2. kv'[r][layerNo][x] # Own /\ kv'[r][layerNo][x] # Nothing
      BY <1>8, <1>9
    <3>3. ASSUME NEW l \in Layers, l # layerNo
          PROVE  /\ kv'[r][l][x] # Own
                 /\ l >= layerNo' => kv'[r][l][x] = Nothing
      <4>1. kv'[r][l][x] = kv[r][l][x]
        BY <1>4, <1>9, <3>1, <3>3
      <4>2. l >= layerNo' => l >= layerNo
        BY <1>2, <1>11 DEF Layers
      <4> QED
        BY <4>1, <4>2 DEF JobOK
    <3>4. ~(layerNo >= layerNo')
      BY <1>2, <1>11
    <3> QED
      BY <3>2, <3>3, <3>4, <1>2
  <2> QED
    BY <2>1, <2>2
<1>19. \A q \in Requests, l \in Layers, x \in Positions :
         /\ kv[q][l][x] = Own => kv'[q][l][x] = Own
         /\ kv[q][l][x] # Nothing => kv'[q][l][x] # Nothing
  <2> SUFFICES ASSUME NEW q \in Requests, NEW l \in Layers, NEW x \in Positions
               PROVE  /\ kv[q][l][x] = Own => kv'[q][l][x] = Own
                      /\ kv[q][l][x] # Nothing => kv'[q][l][x] # Nothing
    OBVIOUS
  <2>1. CASE q = r /\ l = layerNo /\ x \in Slots(j)
    <3>1. kv[q][l][x] # Own
      BY <2>1 DEF JobOK
    <3> QED
      BY <2>1, <3>1, <1>8, <1>9
  <2>2. CASE ~(q = r /\ l = layerNo /\ x \in Slots(j))
    BY <2>2, <1>9
  <2> QED
    BY <2>1, <2>2
<1>20. Filled'
  <2> SUFFICES ASSUME NEW q \in Requests, NEW x \in Positions, x < ncomp[q]
               PROVE  \/ \E l \in Layers : kv'[q][l][x] # Nothing
                      \/ \E k \in Due \cup job : k.req = q /\ x \in Slots(k)
                      \/ HandedBack(q, x)
    BY <1>2, <1>3, <1>13 DEF Filled, HandedBack, WorkFrame
  <2> QED
    BY <1>2, <1>19 DEF Filled
<1>21. ASSUME StoreFresh, CreditFresh PROVE CreditFresh'
  <2> SUFFICES ASSUME NEW q \in Requests, NEW l \in Layers, NEW x \in Positions,
                      x < ncomp[q]
               PROVE  \/ Genuine(kv'[q][l][x], x)
                      \/ \E k \in Due : k.req = q /\ x \in Slots(k)
                      \/ \E k \in job : k.req = q /\ x \in Slots(k) /\ l >= layerNo'
                      \/ HandedBack(q, x)
    BY <1>2, <1>3, <1>13 DEF CreditFresh, HandedBack, WorkFrame
  <2>1. CASE q = r /\ l = layerNo /\ x \in Slots(j)
    <3>1. kv'[q][l][x] = V(x) /\ src.use = 1
      BY <2>1, <1>1, <1>2, <1>9, <1>21, SourceFacts DEF src
    <3>2. /\ V(x).donor = p.donor /\ V(x).use = 1
          /\ V(x).pos = p.dstart + x - p.tstart
      BY <3>1 DEF V
    <3>3. /\ align[p.donor].tstart <= p.tstart /\ End(p) <= End(align[p.donor])
          /\ p.dstart = align[p.donor].dstart + p.tstart - align[p.donor].tstart
      BY <1>5 DEF Matched
    <3>4. /\ align[p.donor].tstart \in Nat /\ align[p.donor].dstart \in Nat
          /\ End(align[p.donor]) \in Nat
      BY <1>4, AlignFacts
    <3>5. x \in Nat /\ p.tstart <= x /\ x < End(p) /\ End(p) \in Nat
      BY <2>1, <1>4, <1>6
    <3>6. p.donor # NoDonor
      BY <1>4, LoadAssumption
    <3>7. /\ align[p.donor].tstart <= x /\ x < End(align[p.donor])
          /\ p.dstart + x - p.tstart
               = align[p.donor].dstart + x - align[p.donor].tstart
      BY <3>3, <3>4, <3>5, <1>4
    <3> HIDE DEF p
    <3>8. Genuine(V(x), x)
      BY <3>2, <3>6, <3>7 DEF Genuine
    <3> QED
      BY <3>1, <3>8
  <2>2. CASE ~(q = r /\ l = layerNo /\ x \in Slots(j))
    <3>1. kv'[q][l][x] = kv[q][l][x]
      BY <2>2, <1>9
    <3>2. ASSUME NEW k \in job, k.req = q, x \in Slots(k), l >= layerNo
          PROVE  l >= layerNo'
      <4>1. k = j /\ l # layerNo
        BY <3>2, <2>2, <1>5
      <4> QED
        BY <3>2, <4>1, <1>2, <1>11 DEF Layers
    <3> QED
      BY <3>1, <3>2, <1>2, <1>21 DEF CreditFresh
  <2> QED
    BY <2>1, <2>2
<1>22. StoreFresh => StoreFresh'
  BY <1>2, <1>13, StoreStep DEF WorkFrame
<1>23. FirstUses' = FirstUses
  BY <1>2 DEF FirstUses, WorkFrame
<1> QED
  BY <1>3, <1>12, <1>14, <1>15, <1>16, <1>17, <1>18, <1>19, <1>20, <1>21, <1>22,
     <1>23 DEF Fresh

-----------------------------------------------------------------------------
(* The engine. *)

\* A request whose blocks are given up. It has no load, and the others keep
\* what they have.
LEMMA FreeStep ==
  ASSUME LInv, NEW r \in Requests, Preempt(r) \/ RequestFinished(r)
  PROVE  LInv' /\ (Fresh => Fresh')
<1> USE DEF LInv
<1>1. /\ UNCHANGED <<mode, backend, align, phase, trying, base, ext, giveups,
                     pending, loads, job, layerNo, landed, held, kept, errors,
                     layer, record, use>>
      /\ phase = "schedule" /\ seen[r] = "no"
      /\ ncomp' = [ncomp EXCEPT ![r] = 0] /\ kv' = [kv EXCEPT ![r] = Blank]
      /\ preempts' \in 0 .. MaxPreempts
      /\ \E st \in {"waiting", "done"} : status' = [status EXCEPT ![r] = st]
      /\ seen' = seen \/ seen' = [seen EXCEPT ![r] = "passed"]
      /\ plan' = plan \/ plan' = [plan EXCEPT ![r] = {}]
      /\ looked' \subseteq looked
      /\ memo' = memo \/ memo' = [memo EXCEPT ![r] = {}]
  <2>1. CASE Preempt(r)
    <3>1. preempts' \in 0 .. MaxPreempts
      BY <2>1, LoadAssumption DEF Preempt, TypeOK
    <3> QED
      BY <2>1, <3>1 DEF Preempt, input, scheduler, store
  <2>2. CASE RequestFinished(r)
    BY <2>2 DEF RequestFinished, BetweenSteps, TypeOK, input, store
  <2> QED
    BY <2>1, <2>2
<1>2. /\ ncomp' \in [Requests -> 0 .. PromptTokens] /\ ncomp'[r] = 0
      /\ kv' \in [Requests -> [Layers -> [Positions -> Slot]]] /\ kv'[r] = Blank
      /\ \A q \in Requests \ {r} : ncomp'[q] = ncomp[q] /\ kv'[q] = kv[q]
  <2>1. 0 \in 0 .. PromptTokens /\ Blank \in [Layers -> [Positions -> Slot]]
    BY SizeAssumption, ValueFacts
  <2> QED
    BY <2>1, <1>1 DEF TypeOK
<1>3. /\ status' \in [Requests -> {"waiting", "running", "done"}]
      /\ status'[r] # "running"
      /\ seen' \in [Requests -> {"no", "passed", "run", "load"}]
      /\ seen'[r] \in {"no", "passed"}
      /\ \A q \in Requests \ {r} : status'[q] = status[q] /\ seen'[q] = seen[q]
  <2>1. /\ status \in [Requests -> {"waiting", "running", "done"}]
        /\ seen \in [Requests -> {"no", "passed", "run", "load"}]
    BY DEF TypeOK
  <2>2. PICK st \in {"waiting", "done"} : status' = [status EXCEPT ![r] = st]
    BY <1>1
  <2>3. /\ status' \in [Requests -> {"waiting", "running", "done"}]
        /\ status'[r] # "running"
        /\ \A q \in Requests \ {r} : status'[q] = status[q]
    BY <2>1, <2>2
  <2>4. /\ seen' \in [Requests -> {"no", "passed", "run", "load"}]
        /\ seen'[r] \in {"no", "passed"}
        /\ \A q \in Requests \ {r} : seen'[q] = seen[q]
    <3>1. CASE seen' = seen
      BY <3>1, <2>1, <1>1
    <3>2. CASE seen' = [seen EXCEPT ![r] = "passed"]
      BY <3>2, <2>1
    <3> QED
      BY <3>1, <3>2, <1>1
  <2> QED
    BY <2>3, <2>4
<1>4. /\ plan' \in [Requests -> SUBSET Segment]
      /\ \A q \in Requests : plan'[q] \subseteq plan[q]
      /\ memo' \in [Requests -> SUBSET Donors]
  BY <1>1 DEF TypeOK
<1>5. TypeOK'
  BY <1>1, <1>2, <1>3, <1>4 DEF TypeOK
<1>6. PhaseOK'
  BY <1>1, <1>3 DEF PhaseOK
<1>7. /\ Due' = Due /\ job' = {} /\ job = {} /\ errors = {} /\ errors' = {}
      /\ \A j \in Due : j.req \in Requests \ {r}
  <2>1. job = {} /\ errors = {}
    BY <1>1 DEF PhaseOK
  <2>2. \A j \in Due : j.req \in Requests /\ seen[j.req] = "load"
    BY PlannedTyped DEF LoadsOK
  <2> QED
    BY <2>1, <2>2, <1>1 DEF Due
<1>8. \A p \in Planned' : p \in Planned
  BY <1>1, <1>4, <1>7 DEF Planned
<1>9. /\ \A j : Slots(j)' = Slots(j)
      /\ \A p : Matched(p)' = Matched(p)
      /\ \A v, x : Genuine(v, x)' = Genuine(v, x)
  BY <1>1 DEF Slots, SlotMapping, Matched, Genuine, End
<1>10. EmptyBeyond'
  BY <1>1, <1>2, <1>3, ValueFacts DEF EmptyBeyond
<1>11. LoadsOK'
  <2>1. \A p \in Planned' : Matched(p)'
    BY <1>8, <1>9 DEF LoadsOK
  <2>2. \A k \in Due' \cup job' :
          /\ seen'[k.req] = "load"
          /\ End(k.piece) <= ncomp'[k.req] /\ ncomp'[k.req] < PromptTokens
    BY <1>2, <1>3, <1>7 DEF LoadsOK
  <2>3. \A i, k \in Due' \cup job' :
          i.req = k.req /\ i # k => Slots(i)' \cap Slots(k)' = {}
    BY <1>7, <1>9 DEF LoadsOK
  <2> QED
    BY <2>1, <2>2, <2>3, <1>7 DEF LoadsOK, End
<1>12. DueOK' /\ JobOK' /\ ErrorsOK'
  BY <1>2, <1>7, <1>9 DEF DueOK, JobOK, ErrorsOK
<1>13. \A x \in Positions : ~(x < 0)
  BY DEF Positions
<1>14. Filled'
  <2> SUFFICES ASSUME NEW q \in Requests \ {r}, NEW x \in Positions, x < ncomp[q]
               PROVE  \/ \E l \in Layers : kv[q][l][x] # Nothing
                      \/ \E j \in Due : j.req = q /\ x \in Slots(j)
    <3> SUFFICES ASSUME NEW q \in Requests, NEW x \in Positions, x < ncomp'[q]
                 PROVE  \/ \E l \in Layers : kv'[q][l][x] # Nothing
                        \/ \E j \in Due : j.req = q /\ x \in Slots(j)
      BY <1>7, <1>9 DEF Filled
    <3>1. q # r
      BY <1>2, <1>13
    <3> QED
      BY <3>1, <1>2
  <2> QED
    BY <1>1, <1>7 DEF Filled, HandedBack
<1>15. ASSUME CreditFresh PROVE CreditFresh'
  <2> SUFFICES ASSUME NEW q \in Requests \ {r}, NEW l \in Layers,
                      NEW x \in Positions, x < ncomp[q]
               PROVE  \/ Genuine(kv[q][l][x], x)
                      \/ \E j \in Due : j.req = q /\ x \in Slots(j)
    BY <1>2, <1>7, <1>9, <1>13 DEF CreditFresh
  <2> QED
    BY <1>1, <1>7, <1>15 DEF CreditFresh, HandedBack
<1>16. StoreFresh => StoreFresh'
  BY <1>1, <1>8, StoreStep
<1> QED
  BY <1>1, <1>5, <1>6, <1>10, <1>11, <1>12, <1>14, <1>15, <1>16
     DEF Fresh, FirstUses

\* The forward pass: everything due has landed or was handed back.
LEMMA ForwardStep ==
  ASSUME LInv, Forward
  PROVE  /\ LInv' /\ (Fresh => Fresh')
         /\ \A r \in Requests, l \in Layers, x \in Positions :
              kv[r][l][x] = Own => kv'[r][l][x] = Own
<1> USE DEF LInv
<1>1. PICK c \in [Requests -> 0 .. Chunk] :
        /\ \A r \in Requests :
             /\ ncomp[r] + c[r] <= PromptTokens
             /\ (c[r] > 0) => (seen[r] \in {"run", "load"} /\ Failed(r) = {})
        /\ ncomp' = [r \in Requests |-> Computed(r, c[r])]
        /\ kv' = [r \in Requests |-> [l \in Layers |-> [x \in Positions |->
             IF ncomp[r] <= x /\ x < ncomp[r] + c[r] THEN Own ELSE kv[r][l][x]]]]
  BY DEF Forward
<1>2. /\ phase = "load" /\ loads = {} /\ job = {} /\ errors' = {}
      /\ phase' = "schedule" /\ seen' = [r \in Requests |-> "no"]
      /\ UNCHANGED <<mode, backend, align, status, trying, base, ext, preempts,
                     giveups, looked, memo, plan, pending, loads, job, layerNo,
                     landed, held, kept, layer, record, use>>
  BY DEF Forward, input, scheduler, store
<1>3. /\ Due = {} /\ Due' = {} /\ job' = {}
      /\ \A r \in Requests : pending[r] = {} /\ pending'[r] = {}
  <2>1. \A r \in Requests : pending[r] = {} /\ pending'[r] = {}
    BY <1>2 DEF PhaseOK
  <2> QED
    BY <2>1, <1>2 DEF Due
<1>4. \A p \in Planned' : p \in Planned
  BY <1>2, <1>3 DEF Planned
<1>5. /\ \A j : Slots(j)' = Slots(j)
      /\ \A p : Matched(p)' = Matched(p)
      /\ \A v, x : Genuine(v, x)' = Genuine(v, x)
  BY <1>2 DEF Slots, SlotMapping, Matched, Genuine, End
<1>6. \A r \in Requests : ncomp[r] \in Nat /\ c[r] \in Nat /\ ncomp[r] <= PromptTokens
  BY LoadAssumption, SizeAssumption DEF TypeOK
\* A request is where its tokens are, or back before what was handed back.
<1>7. ASSUME NEW r \in Requests
      PROVE  /\ ncomp'[r] \in 0 .. PromptTokens
             /\ \/ ncomp'[r] = ncomp[r] + c[r] /\ \A x : ~HandedBack(r, x)
                \/ /\ c[r] = 0 /\ mode # "semantic_span" /\ seen[r] = "load"
                   /\ \A x \in Positions : x < ncomp'[r] =>
                        x < ncomp[r] /\ ~HandedBack(r, x)
  <2>1. \A e \in errors : e.req = r => e.block \in Failed(r) /\ e.block \in Nat
    BY DEF Failed, TypeOK
  <2>2. CASE Failed(r) = {}
    <3>1. ncomp'[r] = ncomp[r] + c[r]
      BY <1>1, <2>2 DEF Computed
    <3>2. \A x : ~HandedBack(r, x)
      BY <2>1, <2>2 DEF HandedBack
    <3> QED
      BY <3>1, <3>2, <1>1, <1>6, SizeAssumption
  <2>3. CASE Failed(r) # {}
    <3> DEFINE m == Min(Failed(r))
    <3>1. Failed(r) \subseteq Nat
      BY DEF Failed, TypeOK
    <3>2. m \in Failed(r) /\ m \in Nat /\ \A y \in Failed(r) : m <= y
      BY <2>3, <3>1, MinFacts
    <3>3. ncomp'[r] = m * BlockSize
      BY <1>1, <2>3 DEF Computed
    <3> HIDE DEF m
    <3>4. PICK e \in errors : e.req = r /\ e.block = m
      BY <3>2 DEF Failed
    <3>5. m * BlockSize <= ncomp[r] /\ mode # "semantic_span" /\ seen[r] = "load"
      BY <3>4 DEF ErrorsOK
    <3>6. m * BlockSize \in Nat
      BY <3>2, SizeAssumption
    <3>7. c[r] = 0
      BY <1>1, <1>6, <2>3
    <3>8. ASSUME NEW x \in Positions, x < m * BlockSize, NEW f \in errors,
                 f.req = r, f.block * BlockSize <= x
          PROVE  FALSE
      <4>1. f.block \in Nat /\ m <= f.block
        BY <2>1, <3>2, <3>8
      <4>2. m * BlockSize <= f.block * BlockSize
        BY <4>1, <3>2, Multiples
      <4>3. x \in Nat /\ f.block * BlockSize \in Nat
        BY <4>1, SizeAssumption DEF Positions
      <4> QED
        BY <4>2, <4>3, <3>6, <3>8
    <3>9. \A x \in Positions : x < ncomp'[r] => x < ncomp[r] /\ ~HandedBack(r, x)
      <4> SUFFICES ASSUME NEW x \in Positions, x < m * BlockSize
                   PROVE  x < ncomp[r] /\ ~HandedBack(r, x)
        BY <3>3
      <4>1. x < ncomp[r]
        BY <3>5, <3>6, <1>6 DEF Positions
      <4> QED
        BY <4>1, <3>8 DEF HandedBack
    <3>10. ncomp'[r] \in 0 .. PromptTokens
      BY <3>3, <3>5, <3>6, <1>6, SizeAssumption
    <3> QED
      BY <3>5, <3>7, <3>9, <3>10
  <2> QED
    BY <2>2, <2>3
<1>8. \A r \in Requests, l \in Layers, x \in Positions :
        /\ x < ncomp[r] => kv'[r][l][x] = kv[r][l][x]
        /\ x >= ncomp[r] /\ x < ncomp[r] + c[r] => kv'[r][l][x] = Own
        /\ x >= ncomp[r] + c[r] => kv'[r][l][x] = kv[r][l][x]
  BY <1>1, <1>6 DEF Positions
<1>9. \A r \in Requests, l \in Layers, x \in Positions :
        kv'[r][l][x] \in {Own, kv[r][l][x]}
  BY <1>1
<1>10. TypeOK'
  <2>1. ncomp' \in [Requests -> 0 .. PromptTokens]
    BY <1>1, <1>7
  <2>2. kv' \in [Requests -> [Layers -> [Positions -> Slot]]]
    BY <1>1, ValueFacts DEF TypeOK
  <2>3. seen' \in [Requests -> {"no", "passed", "run", "load"}]
    BY <1>2
  <2> QED
    BY <2>1, <2>2, <2>3, <1>2 DEF TypeOK
<1>11. PhaseOK'
  BY <1>2, <1>3 DEF PhaseOK
<1>12. EmptyBeyond'
  <2> SUFFICES ASSUME NEW r \in Requests
               PROVE  /\ status[r] # "running" => ncomp'[r] = 0
                      /\ mode = "semantic_span" \/ status[r] # "running" =>
                           \A l \in Layers, x \in Positions :
                             x >= ncomp'[r] => kv'[r][l][x] = Nothing
    BY <1>2 DEF EmptyBeyond
  <2>1. ASSUME mode = "semantic_span" \/ status[r] # "running"
        PROVE  ncomp'[r] = ncomp[r] + c[r]
    BY <2>1, <1>7 DEF PhaseOK
  <2>2. status[r] # "running" => c[r] = 0
    BY <1>1, <1>6 DEF PhaseOK
  <2>3. status[r] # "running" => ncomp'[r] = 0
    BY <2>1, <2>2 DEF EmptyBeyond
  <2>4. ASSUME mode = "semantic_span" \/ status[r] # "running",
               NEW l \in Layers, NEW x \in Positions, x >= ncomp'[r]
        PROVE  kv'[r][l][x] = Nothing
    <3>1. x >= ncomp[r] + c[r] /\ x >= ncomp[r]
      BY <2>1, <2>4, <1>6 DEF Positions
    <3> QED
      BY <3>1, <2>4, <1>8 DEF EmptyBeyond
  <2> QED
    BY <2>3, <2>4
<1>13. LoadsOK' /\ DueOK' /\ JobOK' /\ ErrorsOK'
  BY <1>2, <1>3, <1>4, <1>5 DEF LoadsOK, DueOK, JobOK, ErrorsOK
<1>14. ASSUME NEW r \in Requests, NEW x \in Positions, x < ncomp'[r]
       PROVE  \/ x < ncomp[r] /\ ~HandedBack(r, x)
              \/ x >= ncomp[r] /\ x < ncomp[r] + c[r]
  BY <1>6, <1>7, <1>14 DEF Positions
<1>15. Filled'
  <2> SUFFICES ASSUME NEW r \in Requests, NEW x \in Positions, x < ncomp'[r]
               PROVE  \E l \in Layers : kv'[r][l][x] # Nothing
    BY DEF Filled
  <2>1. CASE x < ncomp[r] /\ ~HandedBack(r, x)
    BY <2>1, <1>2, <1>3, <1>8 DEF Filled
  <2>2. CASE x >= ncomp[r] /\ x < ncomp[r] + c[r]
    <3>1. 1 \in Layers
      BY LoadAssumption DEF Layers
    <3> QED
      BY <2>2, <3>1, <1>8, ValueFacts
  <2> QED
    BY <2>1, <2>2, <1>14
<1>16. ASSUME CreditFresh PROVE CreditFresh'
  <2> SUFFICES ASSUME NEW r \in Requests, NEW l \in Layers, NEW x \in Positions,
                      x < ncomp'[r]
               PROVE  Genuine(kv'[r][l][x], x)
    BY <1>5 DEF CreditFresh
  <2>1. CASE x < ncomp[r] /\ ~HandedBack(r, x)
    BY <2>1, <1>2, <1>3, <1>8, <1>16 DEF CreditFresh
  <2>2. CASE x >= ncomp[r] /\ x < ncomp[r] + c[r]
    BY <2>2, <1>8 DEF Genuine
  <2> QED
    BY <2>1, <2>2, <1>14
<1>17. StoreFresh => StoreFresh'
  BY <1>2, <1>4, StoreStep
<1>18. FirstUses' = FirstUses
  BY <1>2 DEF FirstUses
<1> QED
  BY <1>9, <1>10, <1>11, <1>12, <1>13, <1>15, <1>16, <1>17, <1>18 DEF Fresh

\* The request is admitted: its plan is what the credit stands for.
LEMMA AdmitStep ==
  ASSUME LInv, NEW r \in Requests, Admit(r)
  PROVE  LInv' /\ (Fresh => Fresh')
<1> USE DEF LInv
<1>1. PICK n \in {0, ext} :
        /\ Allocated(r, n)
        /\ ncomp' = [ncomp EXCEPT ![r] = base + n]
        /\ seen' = [seen EXCEPT ![r] = IF n > 0 THEN "load" ELSE "run"]
  BY DEF Admit
<1> DEFINE S == IF n > 0 THEN plan[r] ELSE {}
<1>2. /\ UNCHANGED <<mode, backend, align, preempts, giveups, looked, memo, loads,
                     job, layerNo, landed, held, kept, errors, layer, record, use>>
      /\ phase = "alloc" /\ trying = {r} /\ phase' = "schedule" /\ trying' = {}
      /\ base' = 0 /\ ext' = 0
      /\ status' = [status EXCEPT ![r] = "running"]
      /\ kv' = [kv EXCEPT ![r] = [l \in Layers |-> [x \in Positions |->
           IF status[r] = "waiting" /\ x < base THEN Own ELSE kv[r][l][x]]]]
      /\ plan' = [plan EXCEPT ![r] = {}]
  BY <1>1 DEF Admit, Allocated, input, store
<1>3. Offer(r) /\ loads = {} /\ job = {} /\ errors = {}
  BY <1>2 DEF PhaseOK
<1>4. /\ base \in Nat /\ n \in Nat /\ base + n <= PromptTokens /\ PromptTokens \in Nat
      /\ ncomp[r] \in Nat /\ ncomp[r] <= base
      /\ status[r] \in {"waiting", "running"}
      /\ status[r] = "running" => ncomp[r] = base /\ mode = "semantic_span"
      /\ n > 0 => Tiles(plan[r], base, base + n) /\ base + n < PromptTokens
  <2>1. base \in Nat /\ ext \in Nat /\ PromptTokens \in Nat /\ ncomp[r] \in Nat
    BY SizeAssumption DEF TypeOK
  <2>2. status[r] \in {"waiting", "running"}
    BY <1>3 DEF Offer, TypeOK
  <2>3. status[r] = "waiting" => ncomp[r] = 0
    BY DEF EmptyBeyond
  <2> QED
    BY <1>3, <2>1, <2>2, <2>3 DEF Offer
<1>5. /\ \A j \in Due : j.req \in Requests /\ j.req # r
      /\ pending[r] = {}
  <2>1. seen[r] = "no"
    BY <1>3 DEF Offer
  <2>2. \A j \in Due : j.req \in Requests /\ seen[j.req] = "load"
    BY PlannedTyped DEF LoadsOK
  <2>3. ASSUME NEW p \in pending[r] PROVE FALSE
    <3>1. [req |-> r, piece |-> p] \in Due
      BY DEF Due, TypeOK
    <3> QED
      BY <3>1, <2>1, <2>2
  <2> QED
    BY <2>1, <2>2, <2>3
<1>6. /\ pending' = [pending EXCEPT ![r] = S] /\ S \subseteq Segment
      /\ S \subseteq plan[r]
  BY <1>1, <1>5 DEF Allocated, TypeOK
<1>7. /\ ncomp' \in [Requests -> 0 .. PromptTokens] /\ ncomp'[r] = base + n
      /\ \A q \in Requests \ {r} : ncomp'[q] = ncomp[q]
  <2>1. base + n \in 0 .. PromptTokens
    BY <1>4
  <2> QED
    BY <2>1, <1>1 DEF TypeOK
<1>8. /\ seen' \in [Requests -> {"no", "passed", "run", "load"}]
      /\ seen'[r] = IF n > 0 THEN "load" ELSE "run"
      /\ status' \in [Requests -> {"waiting", "running", "done"}]
      /\ status'[r] = "running"
      /\ \A q \in Requests \ {r} : seen'[q] = seen[q] /\ status'[q] = status[q]
  BY <1>1, <1>2 DEF TypeOK
<1>9. /\ kv' \in [Requests -> [Layers -> [Positions -> Slot]]]
      /\ \A q \in Requests \ {r} : kv'[q] = kv[q]
      /\ \A l \in Layers, x \in Positions :
           kv'[r][l][x] = IF status[r] = "waiting" /\ x < base THEN Own
                                                               ELSE kv[r][l][x]
  <2> DEFINE F == [l \in Layers |-> [x \in Positions |->
                IF status[r] = "waiting" /\ x < base THEN Own ELSE kv[r][l][x]]]
  <2>1. F \in [Layers -> [Positions -> Slot]]
    BY ValueFacts DEF TypeOK
  <2>2. /\ \A l \in Layers, x \in Positions :
             F[l][x] = IF status[r] = "waiting" /\ x < base THEN Own
                                                           ELSE kv[r][l][x]
        /\ kv' = [kv EXCEPT ![r] = F]
    BY <1>2
  <2> HIDE DEF F
  <2> QED
    BY <2>1, <2>2 DEF TypeOK
<1>10. \A l \in Layers, x \in Positions : x >= base => kv'[r][l][x] = Nothing
  <2> SUFFICES ASSUME NEW l \in Layers, NEW x \in Positions, x >= base
               PROVE  kv'[r][l][x] = Nothing
    OBVIOUS
  <2>1. x >= ncomp[r] /\ ~(x < base)
    BY <1>4 DEF Positions
  <2>2. mode = "semantic_span" \/ status[r] # "running"
    BY <1>4
  <2> QED
    BY <2>1, <2>2, <1>9 DEF EmptyBeyond
<1>11. /\ plan' \in [Requests -> SUBSET Segment]
       /\ \A q \in Requests : plan'[q] \subseteq plan[q]
       /\ pending' \in [Requests -> SUBSET Segment]
  <2> HIDE DEF S
  <2> QED
    BY <1>2, <1>6 DEF TypeOK
<1>12. TypeOK'
  BY <1>2, <1>7, <1>8, <1>9, <1>11 DEF TypeOK
<1>13. PhaseOK'
  BY <1>2, <1>3, <1>8 DEF PhaseOK
<1>14. \A j : j \in Due' <=>
         \/ j \in Due
         \/ /\ j \in [req : Requests, piece : Segment] /\ j.req = r /\ j.piece \in S
  <2> HIDE DEF S
  <2>1. \A q \in Requests : pending'[q] = IF q = r THEN S ELSE pending[q]
    BY <1>6 DEF TypeOK
  <2>2. loads' = {} /\ loads = {}
    BY <1>2, <1>3
  <2> QED
    BY <2>1, <2>2, <1>5 DEF Due
<1>15. job' = {} /\ errors' = {}
  BY <1>2, <1>3
<1>16. \A p \in Planned' : p \in Planned
  <2> HIDE DEF S
  <2>1. \A j \in Due' : j.piece \in Segment =>
          (\E i \in Due : i = j) \/ j.piece \in plan[r]
    BY <1>6, <1>14
  <2> QED
    BY <2>1, <1>11, <1>15 DEF Planned
<1>17. /\ \A j : Slots(j)' = Slots(j)
       /\ \A p : Matched(p)' = Matched(p)
       /\ \A v, x : Genuine(v, x)' = Genuine(v, x)
  BY <1>2 DEF Slots, SlotMapping, Matched, Genuine, End
\* What the new loads are for.
<1>18. ASSUME NEW p \in S
       PROVE  /\ p \in Segment /\ n > 0 /\ p \in plan[r]
              /\ base <= p.tstart /\ End(p) <= base + n
              /\ p.tstart \in Nat /\ End(p) \in Nat
  BY <1>4, <1>6, SegmentFields DEF Tiles
<1>19. EmptyBeyond'
  <2> SUFFICES ASSUME NEW q \in Requests
               PROVE  /\ status'[q] # "running" => ncomp'[q] = 0
                      /\ mode = "semantic_span" \/ status'[q] # "running" =>
                           \A l \in Layers, x \in Positions :
                             x >= ncomp'[q] => kv'[q][l][x] = Nothing
    BY <1>2 DEF EmptyBeyond
  <2>1. CASE q = r
    <3>1. \A x \in Positions : x >= base + n => x >= base
      BY <1>4 DEF Positions
    <3> QED
      BY <2>1, <3>1, <1>7, <1>8, <1>10
  <2>2. CASE q # r
    BY <2>2, <1>7, <1>8, <1>9 DEF EmptyBeyond
  <2> QED
    BY <2>1, <2>2
<1>20. LoadsOK'
  <2>1. \A p \in Planned' : Matched(p)'
    BY <1>16, <1>17 DEF LoadsOK
  <2>2. ASSUME NEW k \in Due'
        PROVE  /\ seen'[k.req] = "load"
               /\ End(k.piece) <= ncomp'[k.req] /\ ncomp'[k.req] < PromptTokens
    <3>1. CASE k \in Due
      BY <3>1, <1>5, <1>7, <1>8 DEF LoadsOK
    <3>2. CASE k.req = r /\ k.piece \in S
      BY <3>2, <1>4, <1>7, <1>8, <1>18
    <3> QED
      BY <3>1, <3>2, <1>14
  <2>3. ASSUME NEW i \in Due', NEW k \in Due', i.req = k.req, i # k
        PROVE  Slots(i) \cap Slots(k) = {}
    <3>1. CASE i \in Due /\ k \in Due
      BY <2>3, <3>1 DEF LoadsOK
    <3>2. CASE i \notin Due \/ k \notin Due
      <4>1. /\ i \in [req : Requests, piece : Segment] /\ i.piece \in S
            /\ k \in [req : Requests, piece : Segment] /\ k.piece \in S
        BY <2>3, <3>2, <1>5, <1>14
      <4>2. i.piece # k.piece
        BY <2>3, <4>1
      <4>3. End(i.piece) <= k.piece.tstart \/ End(k.piece) <= i.piece.tstart
        BY <4>1, <4>2, <1>4, <1>18 DEF Tiles
      <4>4. /\ i.piece.tstart \in Nat /\ End(i.piece) \in Nat
            /\ k.piece.tstart \in Nat /\ End(k.piece) \in Nat
        BY <4>1, <1>18
      <4> QED
        BY <4>3, <4>4 DEF Slots, SlotMapping
    <3> QED
      BY <3>1, <3>2
  <2> QED
    BY <2>1, <2>2, <2>3, <1>15, <1>17 DEF LoadsOK, End
<1>21. DueOK'
  <2> SUFFICES ASSUME NEW j \in Due', NEW l \in Layers, NEW x \in Slots(j)
               PROVE  kv'[j.req][l][x] = Nothing
    BY <1>17 DEF DueOK
  <2>1. CASE j \in Due
    BY <2>1, <1>5, <1>9 DEF DueOK
  <2>2. CASE j.req = r /\ j.piece \in S
    <3>1. x \in j.piece.tstart .. End(j.piece) - 1
      BY DEF Slots, SlotMapping
    <3>2. x \in Positions /\ x >= base
      BY <2>2, <3>1, <1>4, <1>18 DEF Positions
    <3> QED
      BY <2>2, <3>2, <1>10
  <2> QED
    BY <2>1, <2>2, <1>14
<1>22. JobOK' /\ ErrorsOK'
  BY <1>15 DEF JobOK, ErrorsOK
\* A credited position has a new load, or lies below the boundary.
<1>23. ASSUME NEW x \in Positions, x < base + n, ~(x < base)
       PROVE  \E j \in Due' : j.req = r /\ x \in Slots(j)
  <2>1. n > 0 /\ x \in base .. base + n - 1
    BY <1>4, <1>23 DEF Positions
  <2>2. PICK p \in plan[r] : x \in p.tstart .. End(p) - 1
    BY <2>1, <1>4 DEF Tiles
  <2> DEFINE j == [req |-> r, piece |-> p]
  <2>3. j \in [req : Requests, piece : Segment] /\ j.req = r /\ j.piece = p
    BY <2>2 DEF TypeOK
  <2>4. x \in Slots(j)
    BY <2>2, <2>3 DEF Slots, SlotMapping
  <2>5. j \in Due'
    BY <2>1, <2>3, <1>14
  <2> QED
    BY <2>3, <2>4, <2>5
<1>24. \A q \in Requests, x \in Positions : ~HandedBack(q, x)
  BY <1>3 DEF HandedBack
<1>25. Filled'
  <2> SUFFICES ASSUME NEW q \in Requests, NEW x \in Positions, x < ncomp'[q]
               PROVE  \/ \E l \in Layers : kv'[q][l][x] # Nothing
                      \/ \E j \in Due' : j.req = q /\ x \in Slots(j)
    BY <1>17 DEF Filled
  <2>1. CASE q # r
    <3>1. \/ \E l \in Layers : kv[q][l][x] # Nothing
          \/ \E j \in Due : j.req = q /\ x \in Slots(j)
      BY <2>1, <1>2, <1>3, <1>7, <1>24 DEF Filled
    <3> QED
      BY <2>1, <3>1, <1>9, <1>14
  <2>2. CASE q = r /\ x < base
    <3>1. 1 \in Layers
      BY LoadAssumption DEF Layers
    <3>2. CASE status[r] = "waiting"
      BY <2>2, <3>1, <3>2, <1>9, ValueFacts
    <3>3. CASE status[r] = "running"
      <4>1. \E l \in Layers : kv[r][l][x] # Nothing
        BY <2>2, <3>3, <1>2, <1>3, <1>4, <1>5, <1>24 DEF Filled
      <4> QED
        BY <2>2, <3>3, <4>1, <1>9
    <3> QED
      BY <3>2, <3>3, <1>4
  <2>3. CASE q = r /\ ~(x < base)
    BY <2>3, <1>7, <1>23
  <2> QED
    BY <2>1, <2>2, <2>3
<1>26. ASSUME CreditFresh PROVE CreditFresh'
  <2> SUFFICES ASSUME NEW q \in Requests, NEW l \in Layers, NEW x \in Positions,
                      x < ncomp'[q]
               PROVE  \/ Genuine(kv'[q][l][x], x)
                      \/ \E j \in Due' : j.req = q /\ x \in Slots(j)
    BY <1>17 DEF CreditFresh
  <2>1. CASE q # r
    <3>1. \/ Genuine(kv[q][l][x], x)
          \/ \E j \in Due : j.req = q /\ x \in Slots(j)
      BY <2>1, <1>2, <1>3, <1>7, <1>24, <1>26 DEF CreditFresh
    <3> QED
      BY <2>1, <3>1, <1>9, <1>14
  <2>2. CASE q = r /\ x < base
    <3>1. CASE status[r] = "waiting"
      BY <2>2, <3>1, <1>9 DEF Genuine
    <3>2. CASE status[r] = "running"
      <4>1. Genuine(kv[r][l][x], x)
        BY <2>2, <3>2, <1>2, <1>3, <1>4, <1>5, <1>24, <1>26 DEF CreditFresh
      <4> QED
        BY <2>2, <3>2, <4>1, <1>9
    <3> QED
      BY <3>1, <3>2, <1>4
  <2>3. CASE q = r /\ ~(x < base)
    BY <2>3, <1>7, <1>23
  <2> QED
    BY <2>1, <2>2, <2>3
<1>27. StoreFresh => StoreFresh'
  <2>1. held' = "kept" => held = "kept" /\ kept' = kept /\ job' = job
    BY <1>2
  <2> QED
    BY <2>1, <1>2, <1>16, StoreStep
<1>28. FirstUses' = FirstUses
  BY <1>2 DEF FirstUses
<1> QED
  BY <1>12, <1>13, <1>19, <1>20, <1>21, <1>22, <1>25, <1>26, <1>27, <1>28 DEF Fresh

-----------------------------------------------------------------------------
(* The theorems. *)

\* Every step keeps the invariant.
LEMMA NextLInv ==
  ASSUME LInv, [Next]_vars
  PROVE  LInv' /\ (Fresh => Fresh')
<1>1. ASSUME NEW r \in Requests, Schedule(r) PROVE LInv' /\ (Fresh => Fresh')
  BY <1>1, HookStep, MidPrefillStep, AdmitStep, PassStep, FreeStep
     DEF Schedule, Finish
<1>2. CASE BuildConnectorMeta
  BY <1>2, BuildStep
<1>3. CASE Work
  BY <1>3, BeginStep, GoneStep, ShortStep, InjectedStep, LoadEndStep, ForwardStep
     DEF Work
<1>4. CASE Disturb
  <2>1. ASSUME NEW r \in Requests, GiveUp(r) \/ Preempt(r) \/ Abort(r)
        PROVE  LInv' /\ (Fresh => Fresh')
    BY <2>1, PassStep, FreeStep DEF Abort
  <2>2. ASSUME NEW d \in Donors, \/ Evict(d) \/ ReuseId(d) \/ Republish(d)
                                 \/ \E l \in Layers : Tear(d, l) \/ Overwrite(d, l)
        PROVE  LInv' /\ (Fresh => Fresh')
    BY <2>2, StoreActions
  <2> QED
    BY <1>4, <2>1, <2>2 DEF Disturb
<1>5. CASE UNCHANGED vars
  <2>1. UNCHANGED <<mode, backend, align, phase, status, ncomp, seen, trying, base,
                    ext, preempts, giveups, looked, memo, plan, pending, loads,
                    job, layerNo, landed, held, kept, errors, kv, layer, record,
                    use>>
    BY <1>5 DEF vars, input, engine, scheduler, worker, store
  <2>2. TypeOK' /\ PhaseOK'
    BY <2>1 DEF LInv, TypeOK, PhaseOK, Offer, Tiles, End
  <2>3. Due' = Due /\ Planned' = Planned
    BY <2>1 DEF Due, Planned
  <2>4. LInv' /\ (CreditFresh => CreditFresh')
    BY <2>1, <2>2, <2>3, QuietStep DEF LInv, LoadsOK
  <2>5. StoreFresh => StoreFresh'
    BY <2>1, <2>3, StoreStep
  <2> QED
    BY <2>1, <2>4, <2>5 DEF Fresh, FirstUses
<1> QED
  BY <1>1, <1>2, <1>3, <1>4, <1>5 DEF Next, Over

\* The invariant holds in every behaviour.
LEMMA AlwaysLInv == Spec => [](LInv /\ Fresh)
<1>1. Init => LInv /\ Fresh
  BY InitLInv
<1>2. LInv /\ Fresh /\ [Next]_vars => (LInv /\ Fresh)'
  BY NextLInv
<1> QED
  BY <1>1, <1>2, PTL DEF Spec

\* The state keeps its type: no count passes the prompt's end, whatever is
\* handed back, and no block number is negative (start_load_kv,
\* _destination_block_ids).
THEOREM TypeCorrect == Spec => []TypeOK
<1>1. LInv => TypeOK
  BY DEF LInv
<1> QED
  BY <1>1, AlwaysLInv, PTL

\* A pending load fills exactly the gap between what the request holds and what
\* vLLM counts as computed (update_state_after_alloc, _record_load_plan).
THEOREM GapCorrect == Spec => []LoadFillsTheGap
<1>1. LInv => LoadFillsTheGap
  <2> SUFFICES ASSUME LInv, phase \in {"schedule", "alloc"}, NEW r \in Requests
               PROVE  /\ {x \in 0 .. ncomp[r] - 1 : \A l \in Layers :
                                                      kv[r][l][x] = Nothing}
                           = UNION {SlotMapping(p) : p \in pending[r]}
                      /\ pending[r] # {} => ncomp[r] < PromptTokens
    BY DEF LoadFillsTheGap
  <2> USE DEF LInv
  <2>1. loads = {} /\ job = {} /\ errors = {} /\ phase # "dead"
    BY DEF PhaseOK
  <2>2. ncomp[r] \in Nat /\ ncomp[r] <= PromptTokens /\ PromptTokens \in Nat
    BY SizeAssumption DEF TypeOK
  <2>3. ASSUME NEW p \in pending[r]
        PROVE  /\ p \in Segment /\ End(p) <= ncomp[r] /\ ncomp[r] < PromptTokens
               /\ \A l \in Layers, x \in SlotMapping(p) : kv[r][l][x] = Nothing
    <3> DEFINE j == [req |-> r, piece |-> p]
    <3>1. j \in Due /\ j.req = r /\ j.piece = p /\ p \in Segment
      BY DEF Due, TypeOK
    <3> HIDE DEF j
    <3> QED
      BY <3>1 DEF LoadsOK, DueOK, Slots
  <2>4. ASSUME NEW p \in pending[r], NEW x \in SlotMapping(p)
        PROVE  x \in 0 .. ncomp[r] - 1 /\ \A l \in Layers : kv[r][l][x] = Nothing
    <3>1. p.tstart \in Nat /\ End(p) \in Nat /\ x \in p.tstart .. End(p) - 1
      BY <2>3, SegmentFields DEF SlotMapping
    <3> QED
      BY <2>2, <2>3, <3>1
  <2>5. ASSUME NEW x \in 0 .. ncomp[r] - 1, \A l \in Layers : kv[r][l][x] = Nothing
        PROVE  \E p \in pending[r] : x \in SlotMapping(p)
    <3>1. x \in Positions /\ x < ncomp[r]
      BY <2>2 DEF Positions
    <3>2. PICK j \in Due : j.req = r /\ x \in Slots(j)
      BY <2>1, <2>5, <3>1 DEF Filled, HandedBack
    <3>3. j.piece \in pending[r]
      BY <2>1, <3>2 DEF Due
    <3> QED
      BY <3>2, <3>3 DEF Slots
  <2> QED
    BY <2>3, <2>4, <2>5
<1> QED
  BY <1>1, AlwaysLInv, PTL

\* What vLLM counts as computed is the KV of the request's own tokens, in every
\* layer, as long as no donor's id is used again (start_load_kv).
THEOREM CreditCorrect == Spec => []CreditedIsReal
<1>1. LInv /\ Fresh => CreditedIsReal
  <2> SUFFICES ASSUME LInv, Fresh, BetweenSteps, \A d \in Donors : use[d] = 1,
                      NEW r \in Requests, NEW l \in Layers,
                      NEW x \in 0 .. ncomp[r] - 1
               PROVE  Genuine(kv[r][l][x], x)
    BY DEF CreditedIsReal
  <2>1. CreditFresh /\ phase = "schedule" /\ \A q \in Requests : seen[q] = "no"
    BY DEF Fresh, FirstUses, BetweenSteps
  <2>2. job = {} /\ errors = {} /\ Due = {}
    <3>1. \A j \in Due : j.req \in Requests /\ seen[j.req] = "load"
      BY PlannedTyped DEF LInv, LoadsOK
    <3> QED
      BY <2>1, <3>1 DEF LInv, PhaseOK
  <2>3. x \in Positions /\ x < ncomp[r]
    BY SizeAssumption DEF LInv, TypeOK, Positions
  <2> QED
    BY <2>1, <2>2, <2>3 DEF CreditFresh, HandedBack
<1> QED
  BY <1>1, AlwaysLInv, PTL

\* No load writes over KV that the request computed or shares through the
\* prefix cache (_slot_mapping).
THEOREM SharedSafe == Spec => SharedUntouched
<1> DEFINE Kept == \A r \in Requests, l \in Layers, x \in Positions :
                     kv[r][l][x] = Own => kv'[r][l][x] = Own
<1>1. LInv /\ [Next]_vars => (phase = "load" => Kept)
  <2> SUFFICES ASSUME LInv, [Next]_vars, phase = "load" PROVE Kept
    OBVIOUS
  <2>1. CASE LayerInjected
    BY <2>1, InjectedStep
  <2>2. CASE Forward
    BY <2>2, ForwardStep
  <2>3. CASE kv' = kv
    BY <2>3
  <2>4. ASSUME NEW r \in Requests
        PROVE  /\ ~Schedule(r) /\ ~GiveUp(r) /\ ~Preempt(r) /\ ~Abort(r)
    BY DEF Schedule, HookGated, HookNoAnswer, HookMiss, HookHit, Asked,
           MidPrefillHook, Admit, ComputeOn, Finish, RequestFinished, BetweenSteps,
           GiveUp, Preempt, Abort
  <2>5. CASE BuildConnectorMeta \/ LoadBegin \/ LayerGone \/ LayerShort \/ LoadEnd
    BY <2>3, <2>5
       DEF BuildConnectorMeta, LoadBegin, LayerGone, LayerShort, LoadEnd, Die
  <2>6. ASSUME NEW d \in Donors, \/ Evict(d) \/ ReuseId(d) \/ Republish(d)
                                 \/ \E l \in Layers : Tear(d, l) \/ Overwrite(d, l)
        PROVE  kv' = kv
    BY <2>6 DEF Evict, ReuseId, Republish, Tear, Overwrite, worker
  <2>7. CASE UNCHANGED vars
    BY <2>3, <2>7 DEF vars, worker
  <2> QED
    BY <2>1, <2>2, <2>3, <2>4, <2>5, <2>6, <2>7 DEF Next, Work, Disturb, Over
<1> QED
  BY <1>1, AlwaysLInv, PTL DEF Spec, SharedUntouched
=============================================================================
