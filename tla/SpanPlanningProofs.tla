------------------------- MODULE SpanPlanningProofs -------------------------
(***************************************************************************)
(* Span planning, for every prompt, block size, set of segments, store and *)
(* settings: what the segments say, what a plan fills, and that the greedy *)
(* chain reaches as far as any. The loops are actions, so their invariants *)
(* are invariants of the specification.                                    *)
(***************************************************************************)
EXTENDS SpanPlanning, SpanContractProofs, TLAPS

-----------------------------------------------------------------------------
(* Grouping the pairs of a map. *)

MapsOK ==
  \A kind \in {"composite", "plain"} :
    \A i \in DOMAIN maps[kind] : maps[kind][i] \in Pair

\* Every token of a segment is a kept pair of the map.
Backed(s, kind) ==
  \A k \in 0 .. s.count - 1 : \E i \in Kept(kind) :
    /\ maps[kind][i].donor = s.donor
    /\ maps[kind][i].d = s.dstart + k
    /\ maps[kind][i].t = s.tstart + k

\* The invariant of the grouping loop.
GroupLoop ==
  which \in {"composite", "plain"} =>
    /\ todo \subseteq Kept(which)
    /\ which = "plain" => Kept("composite") = {}
    /\ \A i \in Kept(which) \ todo : \E s \in Closed : Says(s, maps[which][i])
    /\ \A s \in Closed : s.count > 0 /\ Backed(s, which)

GroupInv ==
  /\ MapsOK
  /\ which \in {"composite", "plain", "done", "given"}
  /\ segments \subseteq Segment /\ run \in Segment
  /\ GroupLoop
  /\ SegmentsExact

\* The builder's empty run is a segment of length zero.
LEMMA NoRunType == NoRun \in Segment /\ NoRun.count = 0
  BY LookupAssumption DEF NoRun, Segment

\* The builders start with the grouping invariant.
LEMMA GroupInitially == GroupInit => GroupInv
<1> SUFFICES ASSUME GroupInit PROVE GroupInv
  OBVIOUS
<1>1. MapsOK
  BY LookupAssumption DEF GroupInit, MapsOK
<1>2. Closed = {}
  BY NoRunType DEF GroupInit, Closed
<1>3. GroupLoop
  BY <1>2 DEF GroupInit, GroupLoop
<1> QED BY <1>1, <1>3, NoRunType DEF GroupInit, GroupInv, SegmentsExact

\* A round of a builder's loop, which extends the run or closes it and opens the next,
\* keeps the grouping invariant.
LEMMA GroupNextStep ==
  ASSUME GroupInv, GroupNext
  PROVE  GroupInv'
<1> USE DEF GroupInv
<1>1. PICK i \in todo :
        /\ todo' = todo \ {i}
        /\ \/ /\ run.count > 0 /\ Continues(maps[which][i])
              /\ run' = [run EXCEPT !.count = @ + 1] /\ segments' = segments
           \/ run' = Started(maps[which][i]) /\ segments' = Closed
  BY DEF GroupNext
<1>2. which \in {"composite", "plain"} /\ which' = which /\ maps' = maps
  BY DEF GroupNext
<1> DEFINE p == maps[which][i]
<1>3. i \in Kept(which) /\ i \in DOMAIN maps[which] /\ p \in Pair
  BY <1>2 DEF GroupLoop, Kept, MapsOK
<1>4. p.donor \in Donors /\ p.d \in Nat /\ p.t \in Nat
  BY <1>3 DEF Pair
<1>5. \A kind : Kept(kind)' = Kept(kind)
  BY <1>2 DEF Kept
<1>6. \A s : Backed(s, which) => Backed(s, which)'
  BY <1>2, <1>5 DEF Backed
<1>7. CASE /\ run.count > 0 /\ Continues(p)
           /\ run' = [run EXCEPT !.count = @ + 1] /\ segments' = segments
  <2>1. run' \in Segment /\ run'.count = run.count + 1 /\ run'.donor = run.donor
          /\ run'.dstart = run.dstart /\ run'.tstart = run.tstart
    BY <1>7 DEF Segment
  <2>2. run.count \in Nat /\ run.dstart \in Nat /\ run.tstart \in Nat
    BY DEF Segment
  <2>3. Closed = segments \cup {run} /\ Closed' = segments \cup {run'}
    BY <1>7, <2>1, <2>2 DEF Closed
  <2>4. Says(run', p)
    BY <1>4, <1>7, <2>1, <2>2 DEF Says, Continues, End
  <2>5. \A q \in Pair : Says(run, q) => Says(run', q)
    BY <2>1, <2>2 DEF Says, End, Pair
  <2>6. ASSUME NEW j \in Kept(which) \ (todo \ {i})
        PROVE  \E s \in Closed' : Says(s, maps[which][j])
    <3>1. CASE j = i
      BY <3>1, <2>3, <2>4
    <3>2. CASE j # i
      <4>1. PICK s \in Closed : Says(s, maps[which][j])
        BY <3>2, <1>2 DEF GroupLoop
      <4>2. maps[which][j] \in Pair
        BY <1>2 DEF MapsOK, Kept
      <4> QED BY <4>1, <4>2, <2>3, <2>5
    <3> QED BY <3>1, <3>2
  <2>7. Backed(run', which)
    <3>1. SUFFICES ASSUME NEW k \in 0 .. run'.count - 1
                   PROVE  \E j \in Kept(which) :
                            /\ maps[which][j].donor = run'.donor
                            /\ maps[which][j].d = run'.dstart + k
                            /\ maps[which][j].t = run'.tstart + k
      BY DEF Backed
    <3>2. CASE k < run.count
      <4>1. k \in 0 .. run.count - 1 /\ Backed(run, which)
        BY <3>2, <2>2, <2>3, <1>2 DEF GroupLoop
      <4> QED BY <4>1, <2>1 DEF Backed
    <3>3. CASE k = run.count
      BY <3>3, <1>3, <1>7, <2>1 DEF Continues, End
    <3> QED BY <3>2, <3>3, <2>1, <2>2
  <2>8. \A s \in Closed' : s.count > 0 /\ Backed(s, which)
    BY <2>1, <2>2, <2>3, <2>7, <1>2 DEF GroupLoop
  <2>9. GroupLoop'
    <3>1. todo' \subseteq Kept(which) /\ (which = "plain" => Kept("composite") = {})
      BY <1>1, <1>2 DEF GroupLoop
    <3>2. \A s \in Closed' : s.count > 0 /\ Backed(s, which)'
      BY <2>8, <1>6
    <3>3. \A j \in Kept(which) \ todo' : \E s \in Closed' : Says(s, maps[which][j])
      BY <2>6, <1>1
    <3> QED BY <3>1, <3>2, <3>3, <1>2, <1>5 DEF GroupLoop, Says, Backed
  <2> QED BY <2>1, <2>9, <1>2, <1>7 DEF MapsOK, SegmentsExact
<1>8. CASE run' = Started(p) /\ segments' = Closed
  <2>1. run' \in Segment /\ run'.count = 1 /\ run'.donor = p.donor
          /\ run'.dstart = p.d /\ run'.tstart = p.t
    BY <1>4, <1>8 DEF Started, Segment
  <2>2. Closed' = Closed \cup {run'}
    BY <1>8, <2>1 DEF Closed
  <2>3. Says(run', p)
    BY <1>4, <2>1 DEF Says, End
  <2>4. Backed(run', which)
    <3>1. SUFFICES ASSUME NEW k \in 0 .. run'.count - 1
                   PROVE  \E j \in Kept(which) :
                            /\ maps[which][j].donor = run'.donor
                            /\ maps[which][j].d = run'.dstart + k
                            /\ maps[which][j].t = run'.tstart + k
      BY DEF Backed
    <3>2. k = 0
      BY <2>1
    <3> QED BY <3>2, <1>3, <1>4, <2>1
  <2>5. \A j \in Kept(which) \ todo' : \E s \in Closed' : Says(s, maps[which][j])
    BY <1>1, <1>2, <2>2, <2>3 DEF GroupLoop
  <2>6. \A s \in Closed' : s.count > 0 /\ Backed(s, which)'
    BY <2>1, <2>2, <2>4, <1>2, <1>6 DEF GroupLoop
  <2>7. GroupLoop'
    <3>1. todo' \subseteq Kept(which) /\ (which = "plain" => Kept("composite") = {})
      BY <1>1, <1>2 DEF GroupLoop
    <3> QED BY <3>1, <2>5, <2>6, <1>2, <1>5 DEF GroupLoop, Says, Backed
  <2>8. Closed \subseteq Segment
    BY DEF Closed
  <2> QED BY <2>1, <2>7, <2>8, <1>2, <1>8 DEF MapsOK, SegmentsExact
<1> QED BY <1>1, <1>7, <1>8

\* The end of a builder, with its last run closed, keeps the grouping invariant.
LEMMA GroupEndStep ==
  ASSUME GroupInv, GroupEnd
  PROVE  GroupInv'
<1> USE DEF GroupInv
<1>1. /\ todo = {} /\ segments' = Closed /\ run' = NoRun /\ maps' = maps
      /\ \/ which = "composite" /\ Closed = {} /\ which' = "plain"
              /\ todo' = Kept("plain")
         \/ ~(which = "composite" /\ Closed = {}) /\ which' = "done"
  BY DEF GroupEnd
<1>2. \A kind : Kept(kind)' = Kept(kind)
  BY <1>1 DEF Kept
<1>3. MapsOK' /\ segments' \subseteq Segment /\ run' \in Segment
  BY <1>1, NoRunType DEF MapsOK, Closed
<1>4. CASE which = "composite" /\ Closed = {} /\ which' = "plain"
             /\ todo' = Kept("plain")
  <2>1. Kept("composite") = {}
    BY <1>1, <1>4 DEF GroupLoop
  <2>2. Closed' = {}
    BY <1>1, <1>4, NoRunType DEF Closed
  <2>3. GroupLoop'
    BY <2>1, <2>2, <1>2, <1>4 DEF GroupLoop
  <2> QED BY <2>3, <1>3, <1>4 DEF SegmentsExact
<1>5. CASE which \in {"composite", "plain"} /\ which' = "done"
             /\ ~(which = "composite" /\ Closed = {})
  <2>1. Source = which
    <3>1. CASE which = "composite"
      <4>1. PICK s \in Closed : s.count > 0 /\ Backed(s, which)
        BY <3>1, <1>5 DEF GroupLoop
      <4>2. 0 \in 0 .. s.count - 1
        BY <4>1 DEF Closed, Segment
      <4>3. Kept("composite") # {}
        BY <4>1, <4>2, <3>1 DEF Backed
      <4> QED BY <4>3, <3>1 DEF Source
    <3>2. CASE which = "plain"
      BY <3>2 DEF GroupLoop, Source
    <3> QED BY <3>1, <3>2, <1>5
  <2>2. Source' = Source
    BY <1>2 DEF Source
  <2>3. \A i \in Kept(which) : \E s \in Closed : Says(s, maps[which][i])
    BY <1>1, <1>5 DEF GroupLoop
  <2>4. \A s \in Closed : Backed(s, which)
    BY <1>5 DEF GroupLoop
  <2>5. SegmentsExact'
    BY <2>1, <2>2, <2>3, <2>4, <1>1, <1>2 DEF SegmentsExact, Says, Backed
  <2> QED BY <2>5, <1>3, <1>5 DEF GroupLoop
<1>6. which \in {"composite", "plain"}
  BY DEF GroupEnd
<1> QED BY <1>1, <1>4, <1>5, <1>6
-----------------------------------------------------------------------------
(* Planning. *)

\* A part of a trimmed run, shifted as the run is.
PartOfRun(p) ==
  \E s \in Runs :
    /\ p.donor = s.donor
    /\ s.tstart <= p.tstart /\ End(p) <= End(s)
    /\ p.dstart - s.dstart = p.tstart - s.tstart

\* The invariant of block_align_spans.
SnapLoop ==
  pc = "snap" =>
    /\ Aligned(boundary) /\ hook = "admission" /\ ~MultiDonor
    /\ raw \subseteq Runs
    /\ \A s \in spans : PartOfRun(s) /\ Aligned(End(s))

\* The invariant of chain_at_boundary.
ChainLoop ==
  pc = "chain" =>
    /\ Aligned(boundary) /\ boundary <= position
    /\ Tiles(pieces, boundary, position)
    /\ \A p \in pieces : PartOfRun(p)

\* The greedy chain loses nothing: the plan ends at the last edge up to which
\* any choice of pieces could have gone.
LongestReach ==
  pc = "done" /\ ChainHook /\ pieces # {} =>
    \E e \in boundary .. CacheablePrefixTokens :
      /\ Tiles(pieces, boundary, e)
      /\ ServableTo(e)
      /\ \A f \in e + 1 .. CacheablePrefixTokens : ~ServableTo(f)

IInv ==
  /\ TypeOK /\ GroupInv
  /\ (which \in {"composite", "plain"}) = (pc = "lookup")
  /\ pc \in {"lookup", "idle", "snap"} => pieces = {}
  /\ pc \in {"lookup", "idle"} => spans = {}
  /\ SnapLoop /\ ChainLoop
  /\ SpanServable /\ LongestReach

\* A run is the beginning of a segment, as long as the donor has stored it.
LEMMA RunOfSegment ==
  ASSUME TypeOK, NEW s \in Runs
  PROVE  /\ s \in Segment /\ s.count > 0
         /\ \E q \in segments : /\ s.donor = q.donor /\ s.dstart = q.dstart
                                /\ s.tstart = q.tstart /\ End(s) <= End(q)
         /\ s.dstart + s.count <= stored[s.donor]
<1>1. PICK q \in segments : Trimmed(q).count > 0 /\ s = Trimmed(q)
  BY DEF Runs
<1>2. q \in Segment
  BY DEF TypeOK
<1>3. q.donor \in Donors /\ q.dstart \in Nat /\ q.tstart \in Nat /\ q.count \in Nat
  BY <1>2, SegmentFields
<1> DEFINE c == Lesser(q.count, stored[q.donor] - q.dstart)
<1>4. s = [donor |-> q.donor, dstart |-> q.dstart, tstart |-> q.tstart, count |-> c]
  BY <1>1, <1>2 DEF Trimmed, Segment
<1>5. stored[q.donor] \in Nat
  BY <1>3 DEF TypeOK
<1>6. c > 0
  BY <1>1, <1>4
<1>7. c \in Nat /\ c <= q.count /\ q.dstart + c <= stored[q.donor]
  BY <1>3, <1>5, <1>6 DEF Lesser
<1> HIDE DEF c
<1>8. s \in Segment
  BY <1>3, <1>4, <1>7 DEF Segment
<1> QED BY <1>3, <1>4, <1>6, <1>7, <1>8 DEF End

\* A part of a usable run asks the donor only for tokens it has stored.
LEMMA PartIsDrawn ==
  ASSUME TypeOK, NEW p \in Segment, PartOfRun(p)
  PROVE  Drawn(p)
<1>1. PICK s \in Runs : /\ p.donor = s.donor
                        /\ s.tstart <= p.tstart /\ End(p) <= End(s)
                        /\ p.dstart - s.dstart = p.tstart - s.tstart
  BY DEF PartOfRun
<1>2. /\ s \in Segment /\ s.dstart + s.count <= stored[s.donor]
      /\ \E q \in segments : /\ s.donor = q.donor /\ s.dstart = q.dstart
                             /\ s.tstart = q.tstart /\ End(s) <= End(q)
  BY RunOfSegment
<1>3. PICK q \in segments : /\ s.donor = q.donor /\ s.dstart = q.dstart
                            /\ s.tstart = q.tstart /\ End(s) <= End(q)
  BY <1>2
<1>4. q \in Segment /\ stored[p.donor] \in Nat
  BY SegmentFields DEF TypeOK
<1>5. End(p) <= End(q) /\ q.tstart <= p.tstart
        /\ p.dstart - q.dstart = p.tstart - q.tstart
  BY <1>1, <1>2, <1>3, <1>4, SegmentFields
<1>6. p.dstart + p.count <= stored[p.donor]
  BY <1>1, <1>2, <1>4, SegmentFields
<1> QED BY <1>1, <1>3, <1>5, <1>6 DEF Drawn

\* The initial states satisfy the inductive invariant.
LEMMA TypeInitially == Init => IInv
<1> SUFFICES ASSUME Init PROVE IInv
  OBVIOUS
<1>1. stored \in [Donors -> Nat]
  BY InputAssumption DEF Init
<1>2. CASE PipelineInit
  <2>1. GroupInv
    BY <1>2, GroupInitially DEF PipelineInit
  <2>2. TypeOK
    BY <2>1, <1>1, <1>2 DEF Init, PipelineInit, TypeOK, GroupInv
  <2> QED
    BY <2>1, <2>2, <1>2 DEF Init, PipelineInit, GroupInit, IInv, SnapLoop,
         ChainLoop, SpanServable, LongestReach
<1>3. CASE ProviderInit
  <2>1. GroupInv
    BY <1>3, InputAssumption, NoRunType
      DEF ProviderInit, GroupInv, MapsOK, GroupLoop, SegmentsExact
  <2>2. TypeOK
    BY <2>1, <1>1, <1>3 DEF Init, ProviderInit, TypeOK, GroupInv
  <2> QED
    BY <2>1, <2>2, <1>3 DEF Init, ProviderInit, IInv, SnapLoop,
         ChainLoop, SpanServable, LongestReach
<1> QED BY <1>2, <1>3 DEF Init

\* While the lookup's results and the store stand, so do the runs.
LEMMA RunsKept ==
  ASSUME UNCHANGED <<segments, stored>>
  PROVE  /\ Runs' = Runs /\ \A p : PartOfRun(p)' = PartOfRun(p)
         /\ \A p : Drawn(p)' = Drawn(p)
<1>1. Runs' = Runs
  BY DEF Runs, Trimmed
<1> QED BY <1>1 DEF PartOfRun, Drawn

\* A step of the lookup keeps the inductive invariant.
LEMMA LookupStep ==
  ASSUME IInv, Lookup
  PROVE  IInv'
<1> USE DEF IInv
<1>1. GroupInv'
  BY GroupNextStep, GroupEndStep DEF Lookup
<1>2. pc \in {"lookup"} /\ pc' \in {"lookup", "idle"} /\ pieces' = {} /\ spans' = {}
  BY DEF Lookup
<1>3. TypeOK'
  BY <1>1, <1>2 DEF Lookup, TypeOK, GroupInv
<1>4. (which' \in {"composite", "plain"}) = (pc' = "lookup")
  <2>1. which' \in {"composite", "plain", "done"}
    BY DEF Lookup, GroupNext, GroupEnd
  <2> QED BY <2>1, <1>2 DEF Lookup
<1> QED BY <1>1, <1>2, <1>3, <1>4 DEF SnapLoop, ChainLoop, SpanServable, LongestReach

\* What leaves the builders' variables alone keeps the grouping invariant.
LEMMA GroupKept ==
  ASSUME GroupInv, UNCHANGED groupVars
  PROVE  GroupInv'
<1>1. /\ \A kind : Kept(kind)' = Kept(kind)
      /\ Closed' = Closed /\ Source' = Source
  BY DEF groupVars, Kept, Closed, Source
<1>2. GroupLoop'
  BY <1>1 DEF GroupInv, GroupLoop, groupVars, Says, Backed
<1>3. SegmentsExact'
  BY <1>1 DEF GroupInv, SegmentsExact, groupVars, Says
<1> QED BY <1>2, <1>3 DEF GroupInv, MapsOK, groupVars

\* A chain starts empty, at a block edge.
LEMMA ChainStart ==
  ASSUME IInv, UNCHANGED <<groupVars, config, main, stored, raw, spans, cursor>>,
         pc = "idle", pc' = "chain", boundary' \in Nat, Aligned(boundary'),
         position' = AlignUp(boundary'), pieces' = pieces, count' = count,
         hook' \in {"admission", "mid"}, limited' \in BOOLEAN
  PROVE  IInv'
<1> USE DEF IInv
<1>1. position' = boundary' /\ position' \in Nat
  BY AlignUpOfAligned
<1>2. Tiles(pieces', boundary', position')
  BY <1>1, EmptyTiles
<1>3. TypeOK'
  BY <1>1 DEF TypeOK, groupVars
<1>4. GroupInv' /\ ((which' \in {"composite", "plain"}) = (pc' = "lookup"))
  BY GroupKept DEF groupVars
<1> QED BY <1>1, <1>2, <1>3, <1>4
          DEF SnapLoop, ChainLoop, SpanServable, LongestReach, groupVars

\* A hook that declines leaves nothing.
LEMMA Declined ==
  ASSUME IInv, UNCHANGED <<groupVars, config, main, stored, raw, spans, cursor>>,
         pc # "lookup", pc' \in {"done", "raised"}, pieces' = {}, count' = 0,
         boundary' \in Nat, position' = position,
         hook' \in {"admission", "mid", "limit"}, limited' = limited
  PROVE  IInv'
<1> USE DEF IInv
<1>1. TypeOK'
  BY DEF TypeOK, groupVars
<1>2. GroupInv' /\ ((which' \in {"composite", "plain"}) = (pc' = "lookup"))
  BY GroupKept DEF groupVars
<1> QED BY <1>1, <1>2 DEF SnapLoop, ChainLoop, SpanServable, LongestReach, groupVars

\* The admission hook keeps the inductive invariant.
LEMMA AdmissionStep ==
  ASSUME IInv, NEW b \in Boundaries, Admission(b)
  PROVE  IInv'
<1>1. b \in Nat /\ boundary' = b /\ boundary' \in Nat /\ hook' = "admission"
  BY InputAssumption DEF Admission
<1>2. CASE ~Usable(b) /\ Return(0, {}) /\ UNCHANGED <<raw, cursor, position>>
  BY <1>1, <1>2, Declined DEF Admission, Return
<1>3. CASE Usable(b) /\ pc' = "chain" /\ position' = AlignUp(b)
             /\ UNCHANGED <<raw, cursor, pieces, count>>
  BY <1>1, <1>3, ChainStart DEF Admission, Usable, IInv, TypeOK
<1>4. CASE /\ Usable(b) /\ ~MultiDonor /\ pc' = "snap" /\ cursor' = 0
           /\ raw' = {s \in Runs : s.donor = main}
           /\ UNCHANGED <<position, pieces, count>>
  <2>1. UNCHANGED <<segments, stored>>
    BY DEF Admission, groupVars
  <2>2. Runs' = Runs /\ raw' \subseteq Runs /\ raw' \subseteq Segment
    BY <1>4, <2>1, RunsKept, RunOfSegment DEF IInv
  <2>3. TypeOK'
    BY <1>1, <1>4, <2>2 DEF Admission, IInv, TypeOK, groupVars
  <2>4. GroupInv' /\ ((which' \in {"composite", "plain"}) = (pc' = "lookup"))
    BY <1>4, GroupKept DEF IInv, Admission, groupVars
  <2>5. pieces' = {} /\ spans' = {} /\ Aligned(boundary') /\ ~MultiDonor'
    BY <1>1, <1>4 DEF IInv, Admission, Usable, MultiDonor, groupVars
  <2> QED BY <1>1, <1>4, <2>2, <2>3, <2>4, <2>5
            DEF IInv, SnapLoop, ChainLoop, SpanServable, LongestReach
<1> QED BY <1>2, <1>3, <1>4 DEF Admission

\* The mid-prefill hook keeps the inductive invariant.
LEMMA MidPrefillStep ==
  ASSUME IInv, NEW b \in Boundaries, MidPrefill(b)
  PROVE  IInv'
<1>1. b \in Nat /\ boundary' = b /\ boundary' \in Nat /\ hook' = "mid"
  BY InputAssumption DEF MidPrefill
<1>2. CASE ~Usable(b) /\ Return(0, {}) /\ UNCHANGED position
  BY <1>1, <1>2, Declined DEF MidPrefill, Return
<1>3. CASE Usable(b) /\ pc' = "chain" /\ position' = AlignUp(b)
             /\ UNCHANGED <<pieces, count>>
  BY <1>1, <1>3, ChainStart DEF MidPrefill, Usable, IInv, TypeOK
<1> QED BY <1>2, <1>3 DEF MidPrefill

\* The compute limit keeps the inductive invariant.
LEMMA ComputeLimitStep ==
  ASSUME IInv, NEW b \in Boundaries, ComputeLimit(b)
  PROVE  IInv'
<1>1. CASE /\ hook' = "limit" /\ boundary' = b /\ Return(0, {})
           /\ UNCHANGED <<position, limited>>
  <2>1. b \in Nat
    BY InputAssumption
  <2> QED BY <2>1, <1>1, Declined DEF ComputeLimit, Return
<1>2. CASE \E e \in Edges(b) :
             /\ hook' = "mid" /\ boundary' = e /\ position' = AlignUp(e)
             /\ pc' = "chain" /\ limited' = TRUE
             /\ UNCHANGED <<pieces, count>>
  <2>1. PICK e \in Edges(b) :
             /\ hook' = "mid" /\ boundary' = e /\ position' = AlignUp(e)
             /\ pc' = "chain" /\ limited' = TRUE
             /\ UNCHANGED <<pieces, count>>
    BY <1>2
  <2>2. PICK s \in Runs : e = AlignUp(s.tstart)
    BY DEF Edges
  <2>3. s.tstart \in Nat
    BY RunOfSegment, SegmentFields DEF IInv
  <2>4. e \in Nat /\ Aligned(e)
    BY <2>2, <2>3, AlignUpEdge
  <2> QED BY <2>1, <2>4, ChainStart DEF ComputeLimit
<1> QED BY <1>1, <1>2 DEF ComputeLimit

\* A round of block_align_spans keeps the inductive invariant: the spans so far
\* are parts of runs that end on block edges.
LEMMA SnapOneStep ==
  ASSUME IInv, SnapOne
  PROVE  IInv'
<1> USE DEF IInv
<1>1. PICK s \in raw :
        /\ raw' = raw \ {s}
        /\ \/ /\ Snapped(s).count >= Greater(config.minSpan, 1)
              /\ spans' = spans \cup {Snapped(s)} /\ cursor' = End(Snapped(s))
           \/ UNCHANGED <<spans, cursor>>
  BY DEF SnapOne
<1>2. /\ pc = "snap" /\ pc' = pc /\ boundary' = boundary /\ pieces' = pieces
      /\ UNCHANGED <<groupVars, config, main, stored, hook, position, count, limited>>
  BY DEF SnapOne
<1>3. s \in Runs /\ s \in Segment
  BY <1>2, RunOfSegment DEF SnapLoop
<1>4. Runs' = Runs /\ MultiDonor' = MultiDonor /\ \A p : PartOfRun(p)' = PartOfRun(p)
  BY <1>2, RunsKept DEF groupVars, MultiDonor
<1>5. GroupInv' /\ ((which' \in {"composite", "plain"}) = (pc' = "lookup"))
  BY <1>2, GroupKept DEF groupVars
<1>6. SpanServable' /\ LongestReach' /\ ChainLoop'
  BY <1>2 DEF SpanServable, LongestReach, ChainLoop
<1>7. CASE UNCHANGED <<spans, cursor>>
  <2>1. TypeOK'
    BY <1>1, <1>2, <1>7 DEF TypeOK, groupVars
  <2>2. SnapLoop'
    BY <1>1, <1>2, <1>4, <1>7 DEF SnapLoop
  <2> QED BY <2>1, <2>2, <1>2, <1>5, <1>6
<1>8. CASE /\ Snapped(s).count >= Greater(config.minSpan, 1)
           /\ spans' = spans \cup {Snapped(s)} /\ cursor' = End(Snapped(s))
  <2> DEFINE w == Snapped(s)
             up == AlignUp(s.tstart)
             down == AlignDown(End(s))
  <2>1. /\ s.donor \in Donors /\ s.dstart \in Nat /\ s.tstart \in Nat
        /\ s.count \in Nat /\ End(s) \in Nat
    BY <1>3, SegmentFields
  <2>2. /\ up \in Nat /\ s.tstart <= up
        /\ down \in Nat /\ down <= End(s) /\ Aligned(down)
    BY <2>1, AlignUpEdge, AlignDownEdge
  <2>3. w = [donor |-> s.donor, dstart |-> s.dstart + up - s.tstart,
             tstart |-> up, count |-> down - up]
    BY DEF Snapped
  <2>4. down - up > 0
    <3>1. config.minSpan \in Nat
      BY InputAssumption DEF TypeOK
    <3>2. Greater(config.minSpan, 1) >= 1
      BY <3>1 DEF Greater
    <3>3. w.count = down - up /\ down - up \in Int
      BY <2>2, <2>3
    <3>4. Greater(config.minSpan, 1) \in Nat
      BY <3>1 DEF Greater
    <3> HIDE DEF up, down
    <3> QED BY <1>8, <3>2, <3>3, <3>4
  <2> HIDE DEF w, up, down
  <2>5. w \in Segment
    BY <2>1, <2>2, <2>3, <2>4 DEF Segment
  <2>6. End(w) = down
    BY <2>2, <2>3 DEF End
  <2>7. PartOfRun(w)
    <3>1. w.dstart - s.dstart = w.tstart - s.tstart /\ s.tstart <= w.tstart
            /\ w.donor = s.donor /\ End(w) <= End(s)
      BY <2>1, <2>2, <2>3, <2>6
    <3> QED BY <3>1, <1>3 DEF PartOfRun
  <2>8. spans' = spans \cup {w} /\ cursor' = down
    BY <1>8, <2>6 DEF w
  <2>9. TypeOK'
    BY <1>1, <1>2, <2>2, <2>5, <2>8 DEF TypeOK, groupVars
  <2>10. SnapLoop'
    BY <1>1, <1>2, <1>4, <2>2, <2>6, <2>7, <2>8 DEF SnapLoop
  <2> QED BY <2>9, <2>10, <1>2, <1>5, <1>6
<1> QED BY <1>1, <1>7, <1>8

\* A plan of the one-donor path is one tile.
LEMMA SupplyStep ==
  ASSUME IInv, Supply
  PROVE  IInv'
<1> USE DEF IInv
<1>1. /\ pc = "snap" /\ pc' = "done"
      /\ UNCHANGED <<groupVars, config, main, stored, hook, boundary, raw, spans,
                     cursor, position, limited>>
  BY DEF Supply, Return
<1>2. boundary \in Nat /\ Aligned(boundary) /\ AlignUp(boundary) = boundary
  BY <1>1, AlignUpOfAligned DEF SnapLoop, TypeOK
<1>3. CASE pieces' = {} /\ count' = 0
  <2>1. TypeOK'
    BY <1>1, <1>3 DEF TypeOK, groupVars
  <2>2. GroupInv' /\ ((which' \in {"composite", "plain"}) = (pc' = "lookup"))
    BY <1>1, GroupKept DEF groupVars
  <2> QED BY <1>1, <1>3, <2>1, <2>2
            DEF SnapLoop, ChainLoop, SpanServable, LongestReach
<1>4. CASE \E s \in spans : /\ Holds(s, boundary) /\ ClearsFloor(Supplied(s))
                             /\ pieces' = {SupplyPiece(s)} /\ count' = Supplied(s)
  <2>1. PICK s \in spans : /\ Holds(s, boundary) /\ ClearsFloor(Supplied(s))
                           /\ pieces' = {SupplyPiece(s)} /\ count' = Supplied(s)
    BY <1>4
  <2>2. s \in Segment /\ PartOfRun(s) /\ Aligned(End(s))
    BY <1>1 DEF TypeOK, SnapLoop
  <2>3. /\ s.donor \in Donors /\ s.dstart \in Nat /\ s.tstart \in Nat
        /\ s.count \in Nat /\ End(s) \in Nat
    BY <2>2, SegmentFields
  <2>4. s.tstart <= boundary /\ boundary < End(s)
    BY <2>1 DEF Holds
  <2> DEFINE top == AlignDown(config.maxTokens)
             c == Lesser(Lesser(End(s) - boundary, top), Headroom(boundary))
             p == [donor |-> s.donor, dstart |-> s.dstart + boundary - s.tstart,
                   tstart |-> boundary, count |-> c]
             e == boundary + c
  <2>5. Supplied(s) = c /\ SupplyPiece(s) = p
    BY <1>2 DEF Supplied, SupplyPiece
  <2>6. top \in Nat /\ Aligned(top)
    BY AlignDownEdge, InputAssumption DEF TypeOK
  <2>7. /\ Headroom(boundary) \in Nat /\ Aligned(boundary + Headroom(boundary))
        /\ Headroom(boundary) = 0 \/ boundary + Headroom(boundary) = CacheablePrefixTokens
    BY <1>2, HeadroomEdge
  <2>8. c > 0
    BY <2>1, <2>5 DEF ClearsFloor
  <2>9. Aligned(boundary + top)
    BY <1>2, <2>6, AlignedSum
  <2> HIDE DEF top
  <2>10. c \in Nat /\ c <= Headroom(boundary) /\ c <= End(s) - boundary
    BY <1>2, <2>3, <2>4, <2>6, <2>7, <2>8 DEF Lesser
  <2>11. Aligned(e)
    <3>1. \/ c = End(s) - boundary \/ c = top \/ c = Headroom(boundary)
      BY DEF Lesser
    <3>2. e = End(s) \/ e = boundary + top \/ e = boundary + Headroom(boundary)
      BY <3>1, <1>2, <2>3
    <3> QED BY <3>2, <2>2, <2>7, <2>9
  <2> HIDE DEF c
  <2>12. p \in Segment
    BY <1>2, <2>3, <2>4, <2>10 DEF Segment
  <2>13. End(p) = e /\ e \in Nat /\ e > boundary /\ e <= CacheablePrefixTokens
    BY <1>2, <2>7, <2>8, <2>10, CacheableEdge DEF End
  <2>14. Tiles({p}, boundary, e)
    <3>1. Tiles({} \cup {p}, boundary, End(p))
      BY <1>2, <2>8, <2>12, EmptyTiles, ExtendTiles
    <3> QED BY <3>1, <2>13
  <2>15. PartOfRun(p)
    <3>1. PICK q \in Runs : /\ s.donor = q.donor
                            /\ q.tstart <= s.tstart /\ End(s) <= End(q)
                            /\ s.dstart - q.dstart = s.tstart - q.tstart
      BY <2>2 DEF PartOfRun
    <3>2. q \in Segment
      BY RunOfSegment
    <3>3. q.dstart \in Nat /\ q.tstart \in Nat /\ End(q) \in Nat
      BY <3>2, SegmentFields
    <3>4. p.donor = q.donor /\ q.tstart <= p.tstart /\ End(p) <= End(q)
      BY <3>1, <3>3, <1>2, <2>3, <2>4, <2>10, <2>13
    <3>5. p.dstart - q.dstart = p.tstart - q.tstart
      BY <3>1, <3>3, <1>2, <2>3
    <3> QED BY <3>4, <3>5 DEF PartOfRun
  <2>16. Drawn(p)
    BY <2>12, <2>15, PartIsDrawn
  <2> HIDE DEF p, e
  <2>17. pieces' = {p}
    BY <2>1, <2>5
  <2>18. SpanServable'
    <3>1. \A q \in pieces' : Drawn(q)'
      BY <1>1, <2>16, <2>17, RunsKept DEF groupVars
    <3>2. boundary' = boundary /\ e \in boundary' + 1 .. CacheablePrefixTokens
      BY <1>1, <1>2, <2>13, CacheableEdge
    <3> QED BY <3>1, <3>2, <2>11, <2>14, <2>17 DEF SpanServable
  <2>19. LongestReach'
    <3>1. hook' = "admission" /\ ~MultiDonor'
      BY <1>1 DEF SnapLoop, MultiDonor, groupVars
    <3> QED BY <3>1 DEF LongestReach, ChainHook
  <2>20. TypeOK'
    <3>1. count' \in Nat
      BY <2>1, <2>5, <2>10
    <3> QED BY <3>1, <1>1, <2>12, <2>17 DEF TypeOK, groupVars
  <2>21. GroupInv' /\ ((which' \in {"composite", "plain"}) = (pc' = "lookup"))
    BY <1>1, GroupKept DEF groupVars
  <2> QED BY <1>1, <2>18, <2>19, <2>20, <2>21 DEF SnapLoop, ChainLoop
<1>5. \/ pieces' = {} /\ count' = 0
      \/ \E s \in spans : /\ Holds(s, boundary) /\ ClearsFloor(Supplied(s))
                           /\ pieces' = {SupplyPiece(s)} /\ count' = Supplied(s)
  BY <1>2 DEF Supply, Return
<1> QED BY <1>3, <1>4, <1>5

\* A round of chain_at_boundary keeps the inductive invariant: the pieces so far tile
\* the range up to the position.
LEMMA ChainOneStep ==
  ASSUME IInv, ChainOne
  PROVE  IInv'
<1> USE DEF IInv
<1>1. /\ pc = "chain" /\ pc' = "chain"
      /\ UNCHANGED <<groupVars, config, main, stored, hook, boundary, raw, spans,
                     cursor, count, limited>>
  BY DEF ChainOne
<1>2. PICK s \in Furthest :
        /\ pieces' = pieces \cup {[donor |-> s.donor, tstart |-> position,
                                   dstart |-> s.dstart + position - s.tstart,
                                   count |-> End(s) - position]}
        /\ position' = End(s)
  BY DEF ChainOne
<1> DEFINE p == [donor |-> s.donor, tstart |-> position,
                 dstart |-> s.dstart + position - s.tstart,
                 count |-> End(s) - position]
<1>3. s \in Runs /\ s \in Segment /\ s.tstart <= position /\ position < End(s)
  BY RunOfSegment DEF Furthest, Holds
<1>4. /\ s.donor \in Donors /\ s.dstart \in Nat /\ s.tstart \in Nat
      /\ End(s) \in Nat
  BY <1>3, SegmentFields
<1>5. boundary \in Nat /\ position \in Nat /\ boundary <= position
  BY <1>1 DEF TypeOK, ChainLoop
<1>6. p \in Segment
  BY <1>3, <1>4, <1>5 DEF Segment
<1>7. p.count > 0 /\ p.tstart = position /\ End(p) = End(s)
  BY <1>3, <1>4, <1>5 DEF End
<1>8. PartOfRun(p)
  <2>1. p.dstart - s.dstart = p.tstart - s.tstart /\ p.donor = s.donor
          /\ s.tstart <= p.tstart /\ End(p) <= End(s)
    BY <1>3, <1>4, <1>5, <1>7
  <2> QED BY <2>1, <1>3 DEF PartOfRun
<1> HIDE DEF p
<1>9. pieces' = pieces \cup {p}
  BY <1>2 DEF p
<1>10. Tiles(pieces', boundary, position')
  BY <1>1, <1>2, <1>5, <1>6, <1>7, <1>9, ExtendTiles DEF ChainLoop, TypeOK
<1>11. \A q : PartOfRun(q)' = PartOfRun(q)
  BY <1>1, RunsKept DEF groupVars
<1>12. \A q \in pieces' : PartOfRun(q)'
  BY <1>1, <1>8, <1>9, <1>11 DEF ChainLoop
<1>13. ChainLoop'
  BY <1>1, <1>2, <1>3, <1>4, <1>5, <1>10, <1>12 DEF ChainLoop
<1>14. TypeOK'
  BY <1>1, <1>2, <1>4, <1>6, <1>9 DEF TypeOK, groupVars
<1>15. GroupInv' /\ ((which' \in {"composite", "plain"}) = (pc' = "lookup"))
  BY <1>1, GroupKept DEF groupVars
<1> QED BY <1>1, <1>13, <1>14, <1>15 DEF SnapLoop, SpanServable, LongestReach

\* The cap on a plan's length ends on a block edge below the prompt's end.
LEMMA CapEdge ==
  ASSUME IInv, pc = "chain"
  PROVE  /\ Cap \in Nat /\ Aligned(boundary + Cap)
         /\ Cap = 0 \/ boundary + Cap <= CacheablePrefixTokens
<1>1. boundary \in Nat /\ Aligned(boundary)
  BY DEF IInv, ChainLoop, TypeOK
<1> DEFINE top == AlignDown(config.maxTokens)
<1>2. top \in Nat /\ Aligned(top)
  BY AlignDownEdge, InputAssumption DEF IInv, TypeOK
<1>3. Aligned(boundary + top)
  BY <1>1, <1>2, AlignedSum
<1>4. /\ Headroom(boundary) \in Nat /\ Aligned(boundary + Headroom(boundary))
      /\ Headroom(boundary) = 0 \/ boundary + Headroom(boundary) = CacheablePrefixTokens
  BY <1>1, HeadroomEdge
<1>5. Cap = Headroom(boundary) \/ (Cap = top /\ top < Headroom(boundary))
  BY DEF Cap, Lesser
<1> HIDE DEF top
<1> QED BY <1>1, <1>2, <1>3, <1>4, <1>5, CacheableEdge

\* When no run goes on from the end of the chain, the chain, cut at both ends,
\* tiles the positions from the boundary to the last edge that any choice of
\* pieces could reach.
LEMMA ChainReach ==
  ASSUME IInv, pc = "chain", \A s \in Runs : ~Holds(s, position)
  PROVE  \E e \in Nat :
           /\ boundary <= e /\ e <= boundary + Cap /\ Aligned(e)
           /\ Chain \subseteq Segment /\ Tiles(Chain, boundary, e)
           /\ \A q \in Chain : PartOfRun(q)
           /\ ServableTo(e) /\ \A h \in Nat : h > e => ~ServableTo(h)
<1> USE DEF IInv
<1>1. boundary \in Nat /\ position \in Nat /\ Aligned(boundary) /\ boundary <= position
        /\ Tiles(pieces, boundary, position) /\ pieces \subseteq Segment
  BY DEF TypeOK, ChainLoop
<1> DEFINE f == AlignDown(position)
           g == boundary + Cap
           ts == TrimPieces(pieces, f)
           e == Lesser(f, g)
<1>2. f \in Nat /\ f <= position /\ Aligned(f) /\ boundary <= f
  BY <1>1, AlignDownEdge, LastEdge
<1>3. Cap \in Nat /\ g \in Nat /\ Aligned(g) /\ boundary <= g
  BY <1>1, CapEdge
<1>4. ts \subseteq Segment
  BY <1>1, <1>2, TrimmedPiece
<1>5. Tiles(ts, boundary, f)
  <2>1. Lesser(position, f) = f
    BY <1>1, <1>2 DEF Lesser
  <2>2. Tiles(ts, boundary, Lesser(position, f))
    BY <1>1, <1>2, TrimTiles
  <2> QED BY <2>1, <2>2
<1>6. Chain = TrimPieces(ts, g)
  BY DEF Chain
<1>7. Chain \subseteq Segment
  BY <1>3, <1>4, <1>6, TrimmedPiece
<1> HIDE DEF f, g
<1>8. Tiles(Chain, boundary, e)
  BY <1>1, <1>2, <1>3, <1>4, <1>5, <1>6, TrimTiles
<1>9. e \in Nat /\ Aligned(e) /\ e <= f /\ e <= g /\ boundary <= e
  BY <1>2, <1>3 DEF Lesser
<1> HIDE DEF ts
<1>10. ASSUME NEW q \in Chain PROVE PartOfRun(q)
  <2>1. PICK r \in ts : /\ q.donor = r.donor /\ q.dstart = r.dstart
                        /\ q.tstart = r.tstart /\ q.count <= r.count
    BY <1>3, <1>4, <1>6, TrimmedPiece
  <2>2. PICK w \in pieces : /\ r.donor = w.donor /\ r.dstart = w.dstart
                            /\ r.tstart = w.tstart /\ r.count <= w.count
    BY <1>1, <1>2, TrimmedPiece DEF ts
  <2>3. PICK s \in Runs : /\ w.donor = s.donor
                          /\ s.tstart <= w.tstart /\ End(w) <= End(s)
                          /\ w.dstart - s.dstart = w.tstart - s.tstart
    BY DEF ChainLoop, PartOfRun
  <2>4. q \in Segment /\ r \in Segment /\ w \in Segment /\ s \in Segment
    BY <1>1, <1>4, <1>7, RunOfSegment
  <2>5. End(q) <= End(w)
    BY <2>1, <2>2, <2>4, SegmentFields
  <2>6. End(q) <= End(s)
    BY <2>3, <2>4, <2>5, SegmentFields
  <2> QED BY <2>1, <2>2, <2>3, <2>6 DEF PartOfRun
<1>11. ServableTo(e)
  <2>1. ASSUME NEW x \in boundary .. e - 1 PROVE \E s \in Runs : Holds(s, x)
    <3>1. PICK q \in Chain : x \in q.tstart .. End(q) - 1
      BY <1>8 DEF Tiles
    <3>2. PICK s \in Runs : s.tstart <= q.tstart /\ End(q) <= End(s)
      BY <1>10 DEF PartOfRun
    <3>3. q \in Segment /\ s \in Segment /\ x \in Int
      BY <1>7, RunOfSegment
    <3>4. s.tstart <= x /\ x < End(s)
      BY <3>1, <3>2, <3>3, SegmentFields
    <3> QED BY <3>4 DEF Holds
  <2> HIDE DEF e
  <2> QED BY <2>1, <1>1, <1>9 DEF ServableTo, g
<1>12. ASSUME NEW h \in Nat, h > e, ServableTo(h)
       PROVE  FALSE
  <2>1. Aligned(h) /\ h <= g
    BY <1>12 DEF ServableTo, g
  <2>2. e = f
    BY <2>1, <1>12, <1>2, <1>3 DEF Lesser
  <2> HIDE DEF e
  <2>3. h > position
    <3>1. SUFFICES ASSUME h <= position PROVE FALSE
      BY <1>1
    <3>2. h <= AlignDown(position)
      BY <3>1, <2>1, <1>1, LastEdge
    <3> QED BY <3>2, <1>12, <2>2, <1>2 DEF f
  <2>4. position \in boundary .. h - 1
    BY <2>3, <1>1
  <2> QED BY <2>4, <1>12 DEF ServableTo
<1> HIDE DEF e
<1>13. e <= boundary + Cap
  BY <1>9 DEF g
<1> QED BY <1>7, <1>8, <1>9, <1>10, <1>11, <1>12, <1>13

\* The end of the chain, trim_pieces and the floor included, keeps the inductive
\* invariant.
LEMMA ChainEndStep ==
  ASSUME IInv, ChainEnd
  PROVE  IInv'
<1> USE DEF IInv
<1>1. /\ pc = "chain" /\ \A s \in Runs : ~Holds(s, position)
      /\ UNCHANGED <<groupVars, config, main, stored, hook, boundary, raw, spans,
                     cursor, position, limited>>
  BY DEF ChainEnd
<1>2. PICK e \in Nat :
        /\ boundary <= e /\ e <= boundary + Cap /\ Aligned(e)
        /\ Chain \subseteq Segment /\ Tiles(Chain, boundary, e)
        /\ \A q \in Chain : PartOfRun(q)
        /\ ServableTo(e) /\ \A h \in Nat : h > e => ~ServableTo(h)
  BY <1>1, ChainReach
<1>3. boundary \in Nat
  BY DEF TypeOK
<1>4. Tokens(Chain) = e - boundary /\ Tokens(Chain) \in Nat
  BY <1>2, <1>3, TokensOfTiling
<1>5. CASE pc' \in {"done", "raised"} /\ pieces' = {} /\ count' = 0
  <2>1. TypeOK'
    BY <1>1, <1>5 DEF TypeOK, groupVars
  <2>2. GroupInv' /\ ((which' \in {"composite", "plain"}) = (pc' = "lookup"))
    BY <1>1, <1>5, GroupKept DEF groupVars
  <2> QED BY <1>1, <1>5, <2>1, <2>2
            DEF SnapLoop, ChainLoop, SpanServable, LongestReach
<1>6. CASE /\ pc' = "done" /\ pieces' = Chain /\ Chain # {}
           /\ count' = Tokens(Chain)
  <2>1. PICK p \in Chain : TRUE
    BY <1>6
  <2>2. e > boundary /\ e <= CacheablePrefixTokens
    <3>1. p \in Segment /\ p.count > 0 /\ boundary <= p.tstart /\ End(p) <= e
      BY <1>2, <2>1 DEF Tiles
    <3>2. e > boundary
      BY <3>1, <1>2, <1>3, SegmentFields
    <3>3. Cap \in Nat /\ (Cap = 0 \/ boundary + Cap <= CacheablePrefixTokens)
      BY <1>1, CapEdge
    <3>4. Cap # 0
      BY <3>2, <1>2, <1>3
    <3> QED BY <3>2, <3>3, <3>4, <1>2, <1>3, CacheableEdge
  <2>3. SpanServable'
    <3>1. \A q \in Chain : Drawn(q)'
      BY <1>1, <1>2, PartIsDrawn, RunsKept DEF groupVars
    <3>2. boundary' = boundary /\ e \in boundary' + 1 .. CacheablePrefixTokens
      BY <1>1, <1>2, <1>3, <2>2, CacheableEdge
    <3> QED BY <3>1, <3>2, <1>2, <1>6 DEF SpanServable
  <2>4. LongestReach'
    <3>1. Runs' = Runs /\ boundary' = boundary /\ Cap' = Cap
      BY <1>1, RunsKept DEF groupVars, Cap
    <3>2. \A x : ServableTo(x)' = ServableTo(x)
      BY <3>1 DEF ServableTo
    <3>3. e \in boundary .. CacheablePrefixTokens
      BY <1>2, <1>3, <2>2, CacheableEdge
    <3>4. \A h \in e + 1 .. CacheablePrefixTokens : ~ServableTo(h)
      BY <1>2
    <3> QED BY <3>1, <3>2, <3>3, <3>4, <1>2, <1>6 DEF LongestReach
  <2>5. TypeOK'
    BY <1>1, <1>2, <1>4, <1>6 DEF TypeOK, groupVars
  <2>6. GroupInv' /\ ((which' \in {"composite", "plain"}) = (pc' = "lookup"))
    BY <1>1, <1>6, GroupKept DEF groupVars
  <2> QED BY <1>6, <2>3, <2>4, <2>5, <2>6 DEF SnapLoop, ChainLoop
<1> QED BY <1>5, <1>6 DEF ChainEnd, Return

-----------------------------------------------------------------------------
(* What the hooks return. *)

\* The edge that a compute limit chose lies in a run that goes on for the
\* floor of the hook that is called there.
LimitLoop ==
  limited =>
    /\ pc \in {"chain", "done", "raised"} /\ hook = "mid" /\ Aligned(boundary)
    /\ \E q \in Runs : /\ q.tstart <= boundary
                       /\ boundary + config.minMid <= End(q)

CInv == CountExact /\ LimitLoop

\* Best is the reach of the last edge that can be served.
LEMMA BestReach ==
  ASSUME boundary \in Nat, Cap \in Nat, NEW e \in Nat, ServableTo(e),
         \A h \in Nat : h > e => ~ServableTo(h)
  PROVE  Best = e - boundary
<1> DEFINE F == {f \in boundary .. boundary + Cap : ServableTo(f)}
           S == {f - boundary : f \in F}
<1>1. e \in F
  BY DEF ServableTo
<1>2. \A f \in F : f \in Nat /\ f <= e
  <2> SUFFICES ASSUME NEW f \in F PROVE f \in Nat /\ f <= e
    OBVIOUS
  <2>1. f \in Nat /\ ServableTo(f)
    OBVIOUS
  <2> QED BY <2>1
<1> HIDE DEF F
<1>3. e - boundary \in S /\ \A y \in S : y \in Int /\ e - boundary >= y
  BY <1>1, <1>2
<1> HIDE DEF S
<1>4. \A x \in S : (\A y \in S : x >= y) => x = e - boundary
  <2> SUFFICES ASSUME NEW x \in S, \A y \in S : x >= y PROVE x = e - boundary
    OBVIOUS
  <2>1. x \in Int /\ e - boundary >= x /\ x >= e - boundary /\ e - boundary \in Int
    BY <1>3
  <2> QED BY <2>1
<1>5. Max(S) = e - boundary
  BY <1>3, <1>4 DEF Max
<1> QED BY <1>5 DEF Best, F, S

\* The hooks' answers are kept while nothing they are about changes.
LEMMA CountKept ==
  ASSUME CInv, UNCHANGED vars
  PROVE  CInv'
<1> USE DEF vars, planVars, groupVars
<1>1. Runs' = Runs /\ Cap' = Cap /\ MultiDonor' = MultiDonor /\ Floor' = Floor
  BY RunsKept DEF Cap, MultiDonor, Floor
<1>2. \A e : ServableTo(e)' = ServableTo(e)
  BY <1>1 DEF ServableTo
<1>3. Best' = Best
  BY <1>1, <1>2 DEF Best
<1>4. CountExact'
  BY <1>1, <1>3 DEF CInv, CountExact, ChainHook
<1>5. LimitLoop'
  BY <1>1 DEF CInv, LimitLoop
<1> QED BY <1>4, <1>5 DEF CInv

\* A hook that has not answered yet has not answered wrongly.
LEMMA CountPending ==
  ASSUME LimitLoop, UNCHANGED <<segments, stored, config>>, pc' # "done",
         \/ pc' \in {"chain", "raised"} /\ UNCHANGED <<limited, hook, boundary>>
         \/ ~limited'
  PROVE  CInv'
<1>1. CountExact'
  BY DEF CountExact
<1>2. Runs' = Runs
  BY RunsKept
<1>3. LimitLoop'
  BY <1>2 DEF LimitLoop
<1> QED BY <1>1, <1>3 DEF CInv

\* The hooks at admission and in the middle of a prefill decline off a block
\* edge, and else have not answered yet.
LEMMA HookCounts ==
  ASSUME IInv, CInv, NEW b \in Boundaries, Admission(b) \/ MidPrefill(b)
  PROVE  CInv'
<1>1. /\ pc = "idle" /\ limited' = limited /\ boundary' = b
      /\ UNCHANGED <<segments, stored, config>>
  BY DEF Admission, MidPrefill, groupVars
<1>2. ~limited /\ ~limited'
  BY <1>1 DEF CInv, LimitLoop
<1>3. CASE pc' # "done"
  BY <1>1, <1>2, <1>3, CountPending DEF CInv
<1>4. CASE pc' = "done"
  <2>1. count' = 0 /\ pieces' = {} /\ ~Aligned(boundary')
    BY <1>1, <1>4 DEF Admission, MidPrefill, Return, Usable
  <2>2. CountExact'
    BY <2>1 DEF CountExact
  <2>3. LimitLoop'
    BY <1>2 DEF LimitLoop
  <2> QED BY <2>2, <2>3 DEF CInv
<1> QED BY <1>3, <1>4

\* A compute limit is an edge from which a run goes on for the floor.
LEMMA LimitCounts ==
  ASSUME IInv, CInv, NEW b \in Boundaries, ComputeLimit(b)
  PROVE  CInv'
<1>1. pc = "idle" /\ UNCHANGED <<segments, stored, config>>
  BY DEF ComputeLimit, groupVars
<1>2. ~limited
  BY <1>1 DEF CInv, LimitLoop
<1>3. CASE hook' = "limit" /\ limited' = limited
  BY <1>2, <1>3 DEF CInv, CountExact, LimitLoop
<1>4. CASE \E e \in Edges(b) : hook' = "mid" /\ boundary' = e /\ pc' = "chain"
  <2>1. PICK e \in Edges(b) : hook' = "mid" /\ boundary' = e /\ pc' = "chain"
    BY <1>4
  <2>2. PICK q \in Runs : e = AlignUp(q.tstart) /\ e + config.minMid <= End(q)
    BY DEF Edges
  <2>3. q.tstart \in Nat
    BY RunOfSegment, SegmentFields DEF IInv
  <2>4. Aligned(e) /\ q.tstart <= e
    BY <2>2, <2>3, AlignUpEdge
  <2>5. Runs' = Runs /\ config' = config
    BY <1>1, RunsKept
  <2>6. LimitLoop'
    BY <2>1, <2>2, <2>4, <2>5 DEF LimitLoop
  <2> QED BY <2>1, <2>6 DEF CInv, CountExact
<1> QED BY <1>3, <1>4 DEF ComputeLimit

\* supply_at_boundary's answer, after the clamps and the floor, is the length
\* of its piece.
LEMMA SupplyCounts ==
  ASSUME IInv, CInv, Supply
  PROVE  CInv'
<1>1. /\ pc = "snap" /\ pc' = "done"
      /\ UNCHANGED <<segments, config, hook, boundary, limited>>
  BY DEF Supply, Return, groupVars
<1>2. LimitLoop'
  BY <1>1 DEF CInv, LimitLoop
<1>3. /\ boundary \in Nat /\ AlignUp(boundary) = boundary
      /\ hook' = "admission" /\ ~MultiDonor'
  BY <1>1, AlignUpOfAligned DEF IInv, SnapLoop, TypeOK, MultiDonor
<1>4. CASE pieces' = {} /\ count' = 0
  <2>1. CountExact'
    BY <1>3, <1>4 DEF CountExact, ChainHook
  <2> QED BY <1>2, <2>1 DEF CInv
<1>5. CASE \E s \in spans : /\ ClearsFloor(Supplied(s))
                             /\ pieces' = {SupplyPiece(s)} /\ count' = Supplied(s)
  <2>1. PICK s \in spans : /\ ClearsFloor(Supplied(s))
                           /\ pieces' = {SupplyPiece(s)} /\ count' = Supplied(s)
    BY <1>5
  <2> DEFINE p == SupplyPiece(s)
  <2>2. p \in Segment /\ count' \in Nat
    BY <2>1, SupplyStep DEF IInv, TypeOK
  <2>3. p.tstart = boundary /\ p.count = count' /\ End(p) = boundary + count'
    BY <1>3, <2>1 DEF SupplyPiece, End
  <2>4. count' > 0 /\ count' >= config.minSpan
    BY <2>1 DEF ClearsFloor
  <2> HIDE DEF p
  <2>5. Tiles({} \cup {p}, boundary, End(p))
    BY <1>3, <2>2, <2>3, <2>4, EmptyTiles, ExtendTiles
  <2>6. Tiles(pieces', boundary', boundary' + count')
    BY <1>1, <2>1, <2>3, <2>5 DEF p
  <2>7. count' <= config.maxTokens
    <3> DEFINE top == AlignDown(config.maxTokens)
               h == Headroom(boundary)
               m == End(s) - AlignUp(boundary)
    <3>1. config.maxTokens \in Nat /\ top \in Nat /\ top <= config.maxTokens
      BY InputAssumption, AlignDownEdge DEF IInv, TypeOK
    <3>2. h \in Int
      BY <1>3, CacheableEdge DEF Headroom, Greater
    <3>3. m \in Int
      <4>1. s \in Segment
        BY DEF IInv, TypeOK
      <4> QED BY <4>1, <1>3, SegmentFields
    <3>4. count' = Lesser(Lesser(m, top), h)
      BY <2>1 DEF Supplied
    <3> HIDE DEF top, h, m
    <3> QED BY <3>1, <3>2, <3>3, <3>4 DEF Lesser
  <2>8. Floor' = config.minSpan
    BY <1>1, <1>3 DEF Floor
  <2>9. CountExact'
    BY <1>1, <1>3, <2>4, <2>6, <2>7, <2>8 DEF CountExact, ChainHook
  <2> QED BY <1>2, <2>9 DEF CInv
<1>6. \/ pieces' = {} /\ count' = 0
      \/ \E s \in spans : /\ ClearsFloor(Supplied(s))
                           /\ pieces' = {SupplyPiece(s)} /\ count' = Supplied(s)
  BY DEF Supply, Return
<1> QED BY <1>4, <1>5, <1>6

\* The chain's answer is the number of positions its pieces fill, and is zero
\* only if no choice of pieces clears the floor.
LEMMA ChainCounts ==
  ASSUME IInv, CInv, ChainEnd
  PROVE  CInv'
<1>1. /\ pc = "chain" /\ \A s \in Runs : ~Holds(s, position)
      /\ UNCHANGED <<segments, stored, config, hook, boundary, limited>>
  BY DEF ChainEnd, groupVars
<1>2. PICK e \in Nat :
        /\ boundary <= e /\ e <= boundary + Cap /\ Aligned(e)
        /\ Chain \subseteq Segment /\ Tiles(Chain, boundary, e)
        /\ \A q \in Chain : PartOfRun(q)
        /\ ServableTo(e) /\ \A h \in Nat : h > e => ~ServableTo(h)
  BY <1>1, ChainReach
<1>3. boundary \in Nat /\ Cap \in Nat
  BY <1>1, CapEdge DEF IInv, TypeOK
<1> DEFINE n == e - boundary
<1>4. Tokens(Chain) = n
  BY <1>2, <1>3, TokensOfTiling
<1>5. Best = n
  BY <1>2, <1>3, BestReach
<1>6. n \in Nat /\ e = boundary + n /\ n <= Cap
  BY <1>2, <1>3
<1>7. Runs' = Runs /\ Cap' = Cap /\ Floor' = Floor
  BY <1>1, RunsKept DEF Cap, Floor
<1>8. Best' = n
  <2>1. \A x : ServableTo(x)' = ServableTo(x)
    BY <1>1, <1>7 DEF ServableTo
  <2>2. Best' = Best
    BY <2>1, <1>1, <1>7 DEF Best
  <2> QED BY <2>2, <1>5
<1> HIDE DEF n
<1>9. Floor \in Nat
  BY InputAssumption DEF Floor, IInv, TypeOK
<1>10. LimitLoop'
  <2>1. pc' \in {"done", "raised"}
    BY DEF ChainEnd, Return
  <2> QED BY <2>1, <1>1, <1>7 DEF CInv, LimitLoop
<1>11. CASE n < Floor
  <2>1. count' = 0 /\ pieces' = {}
    BY <1>4, <1>11 DEF ChainEnd, Return
  <2>2. CountExact'
    BY <2>1, <1>6, <1>7, <1>8, <1>9, <1>11 DEF CountExact
  <2> QED BY <2>2, <1>10 DEF CInv
<1>12. CASE ~(n < Floor) /\ Chain = {}
  <2>1. pc' = "raised"
    BY <1>4, <1>12 DEF ChainEnd
  <2> QED BY <2>1, <1>10 DEF CInv, CountExact
<1>13. CASE ~(n < Floor) /\ Chain # {}
  <2>1. count' = n /\ pieces' = Chain
    BY <1>4, <1>13 DEF ChainEnd, Return
  <2>2. n > 0
    <3>1. PICK p \in Chain : TRUE
      BY <1>13
    <3>2. p \in Segment /\ p.count > 0 /\ boundary <= p.tstart /\ End(p) <= e
      BY <1>2, <3>1 DEF Tiles
    <3> QED BY <3>2, <1>3, <1>6, SegmentFields
  <2>3. Tiles(pieces', boundary', boundary' + count')
    BY <2>1, <1>1, <1>2, <1>6
  <2>4. hook' = "admission" => count' <= config'.maxTokens
    <3> DEFINE top == AlignDown(config.maxTokens)
               h == Headroom(boundary)
    <3>1. config.maxTokens \in Nat /\ top \in Nat /\ top <= config.maxTokens
      BY InputAssumption, AlignDownEdge DEF IInv, TypeOK
    <3>2. h \in Int
      BY <1>3, CacheableEdge DEF Headroom, Greater
    <3>3. hook = "admission" => Cap = Lesser(top, h)
      BY DEF Cap
    <3> HIDE DEF top, h
    <3>4. hook = "admission" => n <= config.maxTokens
      BY <3>1, <3>2, <3>3, <1>6, <1>3 DEF Lesser
    <3> QED BY <3>4, <2>1, <1>1
  <2>5. count' >= Floor' /\ count' = (IF Best' >= Floor' THEN Best' ELSE 0)
    BY <2>1, <1>6, <1>7, <1>8, <1>9, <1>13
  <2>6. CountExact'
    BY <2>1, <2>2, <2>3, <2>4, <2>5, <1>6 DEF CountExact
  <2> QED BY <2>6, <1>10 DEF CInv
<1> QED BY <1>11, <1>12, <1>13

\* The answers stay exact in every step.
LEMMA NextCInv ==
  ASSUME IInv, CInv, [Next]_vars
  PROVE  CInv'
<1>1. CASE Lookup
  <2>1. /\ pc = "lookup" /\ pc' # "done" /\ limited' = limited
    BY <1>1 DEF Lookup
  <2>2. ~limited
    BY <2>1 DEF CInv, LimitLoop
  <2> QED BY <2>1, <2>2 DEF CInv, CountExact, LimitLoop
<1>2. CASE \E b \in Boundaries : Admission(b) \/ MidPrefill(b)
  BY <1>2, HookCounts
<1>3. CASE \E b \in Boundaries : ComputeLimit(b)
  BY <1>3, LimitCounts
<1>4. CASE SnapOne
  <2>1. pc = "snap" /\ pc' = pc /\ limited' = limited
          /\ UNCHANGED <<segments, stored, config>>
    BY <1>4 DEF SnapOne, groupVars
  <2>2. ~limited'
    BY <2>1 DEF CInv, LimitLoop
  <2> QED BY <2>1, <2>2, CountPending DEF CInv
<1>5. CASE ChainOne
  <2>1. pc = "chain" /\ pc' = pc /\ UNCHANGED <<limited, hook, boundary>>
          /\ UNCHANGED <<segments, stored, config>>
    BY <1>5 DEF ChainOne, groupVars
  <2> QED BY <2>1, CountPending DEF CInv
<1>6. CASE Supply
  BY <1>6, SupplyCounts
<1>7. CASE ChainEnd
  BY <1>7, ChainCounts
<1>8. CASE Idle \/ UNCHANGED vars
  BY <1>8, CountKept DEF Idle
<1> QED BY <1>1, <1>2, <1>3, <1>4, <1>5, <1>6, <1>7, <1>8 DEF Next

-----------------------------------------------------------------------------
(* The theorems. *)

\* A stuttering step keeps the inductive invariant.
LEMMA Stutter ==
  ASSUME IInv, UNCHANGED vars
  PROVE  IInv'
<1> USE DEF IInv, vars, planVars
<1>1. GroupInv' /\ Runs' = Runs /\ \A p : PartOfRun(p)' = PartOfRun(p) /\ Drawn(p)' = Drawn(p)
  BY GroupKept, RunsKept DEF groupVars
<1>2. MultiDonor' = MultiDonor /\ Cap' = Cap
  BY DEF groupVars, MultiDonor, Cap
<1>3. TypeOK'
  BY DEF groupVars, TypeOK
<1>4. \A e : ServableTo(e)' = ServableTo(e)
  BY <1>1, <1>2 DEF ServableTo
<1>5. SpanServable' /\ SnapLoop' /\ ChainLoop'
  BY <1>1, <1>2 DEF SpanServable, SnapLoop, ChainLoop
<1>6. LongestReach'
  BY <1>2, <1>4 DEF LongestReach, ChainHook
<1> QED BY <1>1, <1>3, <1>5, <1>6 DEF groupVars

\* The loops' invariants hold throughout, whatever the lookup returns.
THEOREM Invariance == Spec => []IInv
<1>1. Init => IInv
  BY TypeInitially
<1>2. IInv /\ [Next]_vars => IInv'
  <2> SUFFICES ASSUME IInv, [Next]_vars PROVE IInv'
    OBVIOUS
  <2>1. CASE Lookup
    BY <2>1, LookupStep
  <2>2. CASE \E b \in Boundaries : Admission(b) \/ MidPrefill(b) \/ ComputeLimit(b)
    BY <2>2, AdmissionStep, MidPrefillStep, ComputeLimitStep
  <2>3. CASE SnapOne \/ Supply
    BY <2>3, SnapOneStep, SupplyStep
  <2>4. CASE ChainOne \/ ChainEnd
    BY <2>4, ChainOneStep, ChainEndStep
  <2>5. CASE Idle \/ UNCHANGED vars
    BY <2>5, Stutter DEF Idle
  <2> QED BY <2>1, <2>2, <2>3, <2>4, <2>5 DEF Next
<1> QED BY <1>1, <1>2, PTL DEF Spec

\* The planner's state keeps its type: no piece has a negative start or length.
THEOREM PlanningTyped == Spec => []TypeOK
<1>1. IInv => TypeOK
  BY DEF IInv
<1> QED BY <1>1, Invariance, PTL

\* Grouping loses no pair of a position map and invents none.
THEOREM SegmentsAreExact == Spec => []SegmentsExact
<1>1. IInv => SegmentsExact
  BY DEF IInv, GroupInv
<1> QED BY <1>1, Invariance, PTL

\* A plan of any hook fills exactly the positions vLLM will count as computed,
\* from aligned tokens that the donors have stored.
THEOREM PlansAreServable == Spec => []SpanServable
<1>1. IInv => SpanServable
  BY DEF IInv
<1> QED BY <1>1, Invariance, PTL

\* The answers of the hooks are exact in every behaviour.
LEMMA AlwaysCInv == Spec => []CInv
<1>1. Init => CInv
  <2> SUFFICES ASSUME Init PROVE CInv
    OBVIOUS
  <2>1. pc # "done" /\ ~limited
    BY DEF Init, PipelineInit, ProviderInit
  <2> QED BY <2>1 DEF CInv, CountExact, LimitLoop
<1>2. IInv /\ CInv /\ [Next]_vars => CInv'
  BY NextCInv
<1> QED BY <1>1, <1>2, Invariance, PTL DEF Spec

\* What a hook returns is the number of positions its plan fills, within the
\* floor and the limit, and a chain is declined only if no choice of pieces
\* would have done (_plan_multi_donor_span, the span branch at admission, the
\* mid-prefill hook).
THEOREM CountCorrect == Spec => []CountExact
<1>1. CInv => CountExact
  BY DEF CInv
<1> QED BY <1>1, AlwaysCInv, PTL

\* A chunk that get_prefill_compute_limit ended early is followed by a load of
\* at least the mid-prefill floor.
THEOREM LimitCorrect == Spec => []LimitPaysOff
<1>1. ASSUME IInv, CInv
      PROVE  LimitPaysOff
  <2> SUFFICES ASSUME pc = "done", limited,
                      Aligned(config.minMid), config.minMid > 0,
                      boundary + config.minMid <= CacheablePrefixTokens
               PROVE  count >= config.minMid
    BY DEF LimitPaysOff
  <2> DEFINE m == config.minMid
             e == boundary + m
  <2>1. boundary \in Nat /\ m \in Nat
    BY <1>1, InputAssumption DEF IInv, TypeOK
  <2>2. hook = "mid" /\ Aligned(boundary)
    BY <1>1 DEF CInv, LimitLoop
  <2>3. PICK q \in Runs : q.tstart <= boundary /\ e <= End(q)
    BY <1>1 DEF CInv, LimitLoop
  <2>4. Cap = CacheablePrefixTokens - boundary
    BY <2>1, <2>2, CacheableEdge DEF Cap, Headroom, Greater
  <2>5. Cap \in Nat /\ e <= boundary + Cap
    BY <2>1, <2>4, CacheableEdge
  <2>6. Aligned(e)
    BY <2>1, <2>2, AlignedSum
  <2>7. \A x \in boundary .. e - 1 : Holds(q, x)
    <3>1. q.tstart \in Nat /\ End(q) \in Nat
      BY <1>1, RunOfSegment, SegmentFields DEF IInv
    <3> QED BY <3>1, <2>1, <2>3 DEF Holds
  <2> HIDE DEF m
  <2>8. ServableTo(e)
    BY <2>1, <2>5, <2>6, <2>7 DEF ServableTo
  <2> DEFINE F == {f \in boundary .. boundary + Cap : ServableTo(f)}
  <2>9. e \in F
    BY <2>1, <2>5, <2>8
  <2>10. PICK t \in F : \A f \in F : f <= t
    <3>1. boundary + Cap \in Nat /\ F \subseteq 0 .. boundary + Cap
      BY <2>1, <2>5
    <3> HIDE DEF F
    <3> QED BY <3>1, <2>9, GreatestNumber
  <2>11. t \in Nat /\ ServableTo(t) /\ e <= t
    BY <2>1, <2>5, <2>9, <2>10
  <2>12. \A h \in Nat : h > t => ~ServableTo(h)
    <3> SUFFICES ASSUME NEW h \in Nat, h > t, ServableTo(h) PROVE FALSE
      OBVIOUS
    <3>1. h \in F
      BY <2>1, <2>5 DEF ServableTo
    <3> QED BY <3>1, <2>10, <2>11
  <2>13. Best = t - boundary
    BY <2>1, <2>5, <2>11, <2>12, BestReach
  <2>14. count = IF Best >= Floor THEN Best ELSE 0
    BY <1>1, <2>2 DEF CInv, CountExact, ChainHook
  <2>15. Floor = m
    BY <2>2 DEF Floor, m
  <2>16. Best \in Int /\ Best >= m
    BY <2>1, <2>11, <2>13
  <2> QED BY <2>14, <2>15, <2>16 DEF m
<1> QED BY <1>1, Invariance, AlwaysCInv, PTL
=============================================================================
