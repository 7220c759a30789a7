---------------------------- MODULE SpanPlanning ----------------------------
(***************************************************************************)
(* How the match hooks turn a lookup's segments into a load plan           *)
(* (semantic_span.py and the planning half of the hooks in connector.py).  *)
(* Three hooks plan: the one at admission, the one in the middle of a      *)
(* prefill, and the one that says how far to compute before asking again.  *)
(* Each loop of the code is an action that takes one round of it.          *)
(*                                                                         *)
(* A boundary is num_computed_tokens. vLLM adds the number a hook returns  *)
(* to it and never computes the positions in between, so the plan must     *)
(* fill exactly those. Sets stand for the lists of runs and pieces.        *)
(***************************************************************************)
EXTENDS SegmentRuns

CONSTANTS
  Configs,      \* settings: multi_donor_spans and the three token limits
  Boundaries,   \* the boundaries at which a hook is called
  StoredCounts, \* what the donors have stored, a count for each donor
  Given         \* segment sets that a provider_module may return itself

ASSUME InputAssumption ==
  /\ Configs \subseteq [multi : BOOLEAN, minSpan : Nat, minMid : Nat,
                        maxTokens : Nat]
  /\ Boundaries \subseteq Nat
  /\ StoredCounts \subseteq [Donors -> Nat]
  /\ \A g \in Given : g \subseteq Segment

VARIABLES
  config,    \* the settings in force
  main,      \* result.donor_id
  stored,    \* _stored_donor_token_count of each donor
  hook,      \* the hook that is running: admission, mid or limit
  pc,        \* where it is
  boundary,  \* num_computed_tokens, or compute_from
  raw,       \* the raw spans that block_align_spans has still to visit
  spans,     \* the snapped spans
  cursor,    \* block_align_spans: the end of the last snapped span
  position,  \* chain_at_boundary: where the chain ends so far
  pieces,    \* the pieces of the chain, then of the plan
  count,     \* what the hook returns
  limited    \* history: the boundary is where a compute limit ended a chunk

planVars == <<config, main, stored, hook, pc, boundary, raw, spans, cursor,
              position, pieces, count, limited>>
vars == <<groupVars, planVars>>

\* The pipeline's provider still has to group its maps.
PipelineInit ==
  /\ GroupInit
  /\ \A i \in DOMAIN maps.plain : maps.plain[i].donor = main
  /\ pc = "lookup"

\* A provider named by provider_module returns segments of its own.
ProviderInit ==
  /\ maps = [composite |-> << >>, plain |-> << >>]
  /\ which = "given" /\ todo = {} /\ run = NoRun
  /\ segments \in Given
  /\ pc = "idle"

Init ==
  /\ config \in Configs
  /\ main \in Donors
  /\ stored \in StoredCounts
  /\ PipelineInit \/ ProviderInit
  /\ hook = "none" /\ boundary = 0
  /\ raw = {} /\ spans = {} /\ cursor = 0 /\ position = 0
  /\ pieces = {} /\ count = 0 /\ limited = FALSE

-----------------------------------------------------------------------------
(* The lookup, and the runs a hook may use. *)

Lookup ==
  /\ pc = "lookup"
  /\ GroupNext \/ GroupEnd
  /\ pc' = IF which' = "done" THEN "idle" ELSE pc
  /\ UNCHANGED <<config, main, stored, hook, boundary, raw, spans, cursor,
                 position, pieces, count, limited>>

\* Mutant: a run may reach past what its donor has captured.
Untrimmed(s) == s

\* A segment cut to what its donor has stored.
Trimmed(s) == [s EXCEPT !.count = Lesser(s.count, stored[s.donor] - s.dstart)]

\* Mutant: a run of which nothing is stored stays in the list.
RunsUnfiltered == {Trimmed(s) : s \in segments}

Runs == {Trimmed(s) : s \in {q \in segments : Trimmed(q).count > 0}}

MultiDonor == config.multi /\ \E s, q \in segments : s.donor # q.donor

Return(n, load) == pc' = "done" /\ count' = n /\ pieces' = load

-----------------------------------------------------------------------------
(* The hook at admission, and the one in the middle of a prefill. *)

\* The hooks decline off a block edge.
Usable(b) == Aligned(b)

\* The span branch of get_num_new_matched_tokens.
Admission(b) ==
  /\ pc = "idle" /\ segments # {}
  /\ hook' = "admission" /\ boundary' = b
  /\ \/ ~Usable(b) /\ Return(0, {}) /\ UNCHANGED <<raw, cursor, position>>
     \/ /\ Usable(b) /\ MultiDonor
        /\ pc' = "chain" /\ position' = AlignUp(b)
        /\ UNCHANGED <<raw, cursor, pieces, count>>
     \/ /\ Usable(b) /\ ~MultiDonor
        /\ pc' = "snap" /\ cursor' = 0
        /\ raw' = {s \in Runs : s.donor = main}
        /\ UNCHANGED <<position, pieces, count>>
  /\ UNCHANGED <<groupVars, config, main, stored, spans, limited>>

\* get_num_new_matched_tokens_mid_prefill.
MidPrefill(b) ==
  /\ pc = "idle" /\ segments # {}
  /\ hook' = "mid" /\ boundary' = b
  /\ \/ ~Usable(b) /\ Return(0, {}) /\ UNCHANGED position
     \/ /\ Usable(b)
        /\ pc' = "chain" /\ position' = AlignUp(b)
        /\ UNCHANGED <<pieces, count>>
  /\ UNCHANGED <<groupVars, config, main, stored, raw, spans, cursor, limited>>

-----------------------------------------------------------------------------
(* One donor: the spans are snapped to blocks and one of them is supplied. *)

\* A raw span cut inward to block edges; its count may be negative.
Snapped(s) ==
  [donor |-> s.donor, dstart |-> s.dstart + AlignUp(s.tstart) - s.tstart,
   tstart |-> AlignUp(s.tstart), count |-> AlignDown(End(s)) - AlignUp(s.tstart)]

\* One round of block_align_spans, in the order of target_start.
SnapOne ==
  /\ pc = "snap"
  /\ \E s \in raw :
       /\ \A q \in raw : s.tstart <= q.tstart
       /\ raw' = raw \ {s}
       /\ IF Snapped(s).tstart >= cursor
               /\ Snapped(s).count >= Greater(config.minSpan, 1)
          THEN /\ spans' = spans \cup {Snapped(s)}
               /\ cursor' = End(Snapped(s))
          ELSE UNCHANGED <<spans, cursor>>
  /\ UNCHANGED <<groupVars, config, main, stored, hook, pc, boundary, position,
                 pieces, count, limited>>

Holds(s, x) == s.tstart <= x /\ x < End(s)

\* supply_at_boundary, then the two clamps.
Supplied(s) ==
  Lesser(Lesser(End(s) - AlignUp(boundary), AlignDown(config.maxTokens)),
         Headroom(boundary))

\* The plan of one piece.
SupplyPiece(s) ==
  [donor |-> s.donor, dstart |-> s.dstart + AlignUp(boundary) - s.tstart,
   tstart |-> AlignUp(boundary), count |-> Supplied(s)]

\* Mutant: the floor is checked before the clamps only.
NoFloor(n) == n > 0

\* The operator's floor after the clamps.
ClearsFloor(n) == n > 0 /\ n >= config.minSpan

Supply ==
  /\ pc = "snap" /\ raw = {}
  /\ \/ \E s \in spans :
          /\ Holds(s, AlignUp(boundary))
          /\ IF ClearsFloor(Supplied(s))
             THEN Return(Supplied(s), {SupplyPiece(s)})
             ELSE Return(0, {})
     \/ (\A s \in spans : ~Holds(s, AlignUp(boundary))) /\ Return(0, {})
  /\ UNCHANGED <<groupVars, config, main, stored, hook, boundary, raw, spans,
                 cursor, position, limited>>

-----------------------------------------------------------------------------
(* Several donors: the greedy chain from the boundary. *)

\* The runs that cover the end of the chain and reach furthest.
Furthest ==
  {s \in Runs : Holds(s, position)
                  /\ \A q \in Runs : Holds(q, position) => End(q) <= End(s)}

\* One round of chain_at_boundary.
ChainOne ==
  /\ pc = "chain"
  /\ \E s \in Furthest :
       /\ pieces' = pieces \cup {[donor |-> s.donor, tstart |-> position,
                                  dstart |-> s.dstart + position - s.tstart,
                                  count |-> End(s) - position]}
       /\ position' = End(s)
  /\ UNCHANGED <<groupVars, config, main, stored, hook, pc, boundary, raw,
                 spans, cursor, count, limited>>

\* _plan_multi_donor_span caps by both limits, the mid-prefill hook by one.
Cap ==
  IF hook = "mid" THEN Headroom(boundary)
  ELSE Lesser(AlignDown(config.maxTokens), Headroom(boundary))

Floor == IF hook = "mid" THEN config.minMid ELSE config.minSpan

\* chain_at_boundary's own cut at a block edge, then the cap's.
Chain == TrimPieces(TrimPieces(pieces, AlignDown(position)), boundary + Cap)

\* The end of the chain, its cap and its floor. pieces[0] of an empty chain
\* raises, which a floor of zero lets through.
ChainEnd ==
  /\ pc = "chain"
  /\ \A s \in Runs : ~Holds(s, position)
  /\ IF Tokens(Chain) < Floor THEN Return(0, {})
     ELSE IF Chain = {} THEN pc' = "raised" /\ count' = 0 /\ pieces' = {}
     ELSE Return(Tokens(Chain), Chain)
  /\ UNCHANGED <<groupVars, config, main, stored, hook, boundary, raw, spans,
                 cursor, position, limited>>

-----------------------------------------------------------------------------
(* How far to compute before the next segment. *)

\* Mutant: an edge counts even when what follows is below the floor.
EdgesOf(b) == {AlignUp(s.tstart) : s \in {q \in Runs : AlignUp(q.tstart) > b}}

\* The block edges past b from which a run still clears the floor.
Edges(b) ==
  {AlignUp(s.tstart) :
     s \in {q \in Runs : /\ AlignUp(q.tstart) > b
                         /\ AlignUp(q.tstart) + config.minMid <= End(q)}}

\* get_prefill_compute_limit at b. vLLM computes up to the limit and then
\* calls the mid-prefill hook there.
ComputeLimit(b) ==
  /\ pc = "idle" /\ segments # {}
  /\ \/ /\ Edges(b) = {}
        /\ hook' = "limit" /\ boundary' = b /\ Return(0, {})
        /\ UNCHANGED <<position, limited>>
     \/ \E e \in Edges(b) :
          /\ \A f \in Edges(b) : e <= f
          /\ hook' = "mid" /\ boundary' = e /\ position' = AlignUp(e)
          /\ pc' = "chain" /\ limited' = TRUE
          /\ UNCHANGED <<pieces, count>>
  /\ UNCHANGED <<groupVars, config, main, stored, raw, spans, cursor>>

\* No segments, or the hook has returned.
Idle ==
  /\ pc \in {"done", "raised"} \/ (pc = "idle" /\ segments = {})
  /\ UNCHANGED vars

Next ==
  \/ Lookup
  \/ \E b \in Boundaries : Admission(b) \/ MidPrefill(b) \/ ComputeLimit(b)
  \/ SnapOne \/ Supply \/ ChainOne \/ ChainEnd
  \/ Idle

Spec == Init /\ [][Next]_vars

-----------------------------------------------------------------------------

\* The planner's state keeps its shape: no run or piece that block_align_spans,
\* chain_at_boundary or trim_pieces makes has a negative start or length.
TypeOK ==
  /\ which \in {"composite", "plain", "done", "given"}
  /\ segments \subseteq Segment /\ run \in Segment
  /\ config \in Configs /\ main \in Donors /\ stored \in [Donors -> Nat]
  /\ hook \in {"none", "admission", "mid", "limit"}
  /\ pc \in {"lookup", "idle", "snap", "chain", "done", "raised"}
  /\ boundary \in Nat /\ cursor \in Nat /\ position \in Nat /\ count \in Nat
  /\ raw \subseteq Segment /\ spans \subseteq Segment /\ pieces \subseteq Segment
  /\ limited \in BOOLEAN

\* A piece is a part of one segment, shifted as the segment is, and its donor
\* has all of it in the store.
Drawn(p) ==
  \E s \in segments :
    /\ p.donor = s.donor
    /\ s.tstart <= p.tstart /\ End(p) <= End(s)
    /\ p.dstart - s.dstart = p.tstart - s.tstart
    /\ p.dstart + p.count <= stored[p.donor]

\* Whatever hook made it, and however its donors' runs overlap, a plan fills
\* the positions from the boundary to a block edge, each exactly once and
\* none past what vLLM may take as computed, from tokens that an aligned run
\* of the donor holds and that the donor has stored.
SpanServable ==
  pc = "done" /\ pieces # {} =>
    /\ \E e \in boundary + 1 .. CacheablePrefixTokens :
         Aligned(e) /\ Tiles(pieces, boundary, e)
    /\ \A p \in pieces : Drawn(p)

ChainHook == hook = "mid" \/ (hook = "admission" /\ MultiDonor)

\* The runs together cover every position from the boundary to edge e.
ServableTo(e) ==
  /\ e >= boundary /\ Aligned(e) /\ e <= boundary + Cap
  /\ \A x \in boundary .. e - 1 : \E s \in Runs : Holds(s, x)

Best ==
  Max({e - boundary : e \in {f \in boundary .. boundary + Cap : ServableTo(f)}})

\* The number vLLM adds to the boundary is the number of positions that the
\* plan fills, it keeps the operator's floor after every clamp, and a chain
\* is declined only when no choice of pieces would have kept it.
CountExact ==
  pc = "done" /\ hook \in {"admission", "mid"} =>
    /\ count > 0 => /\ Tiles(pieces, boundary, boundary + count)
                    /\ count >= Floor
                    /\ hook = "admission" => count <= config.maxTokens
    /\ count = 0 => pieces = {}
    /\ ChainHook /\ Aligned(boundary) =>
         count = IF Best >= Floor THEN Best ELSE 0

\* Stopping a chunk early is rewarded: at the edge a compute limit chose, the
\* mid-prefill hook plans a load, if the floor is a whole number of blocks
\* and fits into what may be taken as computed. The hook that sets the limit
\* looks at neither.
LimitPaysOff ==
  /\ pc = "done" /\ limited
  /\ Aligned(config.minMid) /\ config.minMid > 0
  /\ boundary + config.minMid <= CacheablePrefixTokens
  => count >= config.minMid
=============================================================================
