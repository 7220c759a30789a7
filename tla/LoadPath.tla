------------------------------ MODULE LoadPath ------------------------------
(***************************************************************************)
(* The way of a load (connector.py): the match hook memoizes a plan, the   *)
(* allocation hook turns it into a pending load, build_connector_meta      *)
(* ships one load per piece, and the worker's start_load_kv writes the     *)
(* pieces into the request's blocks layer by layer, while donors are       *)
(* evicted, torn or written over. vLLM never computes a position that it   *)
(* has counted as computed, so each must hold usable KV by then.           *)
(*                                                                         *)
(* A KV slot holds nothing, what the request itself computed or its prefix *)
(* cache holds (Own), or a donor's KV at some donor position. Blocks are   *)
(* those of the request's own table; FilledBlocks is about sharing them.   *)
(* Which segments a plan draws on is the subject of SpanPlanning: a plan   *)
(* here is any set of at most two pieces that satisfies what is proved     *)
(* there. Token ids are abstracted to align: where each donor's first use  *)
(* holds the prompt's own tokens.                                          *)
(***************************************************************************)
EXTENDS SpanContract, FiniteSets

CONSTANTS
  Requests,     \* request ids
  NumLayers,    \* layers of the model
  NoDonor,      \* the donor of a slot that holds no donor's KV
  Aligns,       \* which range each donor may share with the prompt
  Hits,         \* what vLLM's prefix cache may hold of the prompt, in tokens
  SkipAt,       \* tokens from which skip_when_exact_prefix_ratio.. declines
  MinBoundary,  \* min_boundary_tokens
  MinSpan,      \* min_semantic_span
  MaxTokens,    \* max_materialized_tokens
  Lengths,      \* how long a capture may be
  Chunk,        \* bound: tokens of a request that a step computes
  MaxPieces,    \* bound: pieces of a span
  MaxPreempts,  \* bound: preemptions in a behaviour
  MaxGiveUps,   \* bound: admissions that fail for want of blocks
  Uses          \* bound: how often each donor's id is used, 1 is no reuse

ASSUME LoadAssumption ==
  /\ Aligns \subseteq [Donors -> Segment] /\ NoDonor \notin Donors
  /\ \A h \in Hits : h \in Nat /\ Aligned(h) /\ h < PromptTokens
  /\ NumLayers \in Nat \ {0} /\ Chunk \in Nat \ {0} /\ Uses \in [Donors -> Nat \ {0}]
  /\ Lengths \subseteq Nat \ {0}
  /\ \A a \in Aligns, d \in Donors : End(a[d]) <= PromptTokens
  /\ MaxTokens \in Nat /\ MaxPieces \in Nat
  /\ MaxPreempts \in Nat /\ MaxGiveUps \in Nat

Layers == 1 .. NumLayers
Positions == 0 .. PromptTokens - 1

VARIABLES
  mode,      \* reuse mode: exact_prefix, request_only or semantic_span
  backend,   \* storage tier: disk or memory
  align,     \* the range that each donor's first use shares with the prompt
  phase,     \* where the engine's step is; dead: an error escaped the worker
  status,    \* engine: waiting, running or done
  ncomp,     \* engine: num_computed_tokens
  seen,      \* engine: what this step has decided on each request
  trying,    \* engine: the request between match and allocation, if any
  base,      \* engine: the boundary it was matched at
  ext,       \* engine: the number the match hook returned
  preempts, giveups,  \* engine: how often that happened
  looked,    \* requests with an entry in _lookup_cache
  memo,      \* the donors of that entry, none: a miss
  plan,      \* _load_plans: the pieces of the plan, none: no plan
  pending,   \* _pending_loads
  loads,     \* this step's metadata.loads
  job,       \* the load that start_load_kv is at, if any
  layerNo,   \* the layer it is at
  landed,    \* layers_materialized
  held,      \* its entry of the memory store: none, live or kept
  kept,      \* the tensors of an entry evicted since it was fetched
  errors,    \* _load_error_block_ids
  kv,        \* the KV cache
  layer,     \* store: use and length of each layer, a length of 0: unreadable
  record,    \* store: use and length of the metadata record, 0: none
  use        \* the current use of each donor id

input     == <<mode, backend, align>>
engine    == <<phase, status, ncomp, seen, trying, base, ext, preempts, giveups>>
scheduler == <<looked, memo, plan, pending>>
worker    == <<loads, job, layerNo, landed, held, kept, errors, kv>>
store     == <<layer, record, use>>
vars == <<input, engine, scheduler, worker, store>>

Slot == [donor : Donors \cup {NoDonor}, use : Nat, pos : Nat]
Nothing == [donor |-> NoDonor, use |-> 0, pos |-> 0]
Own == [donor |-> NoDonor, use |-> 1, pos |-> 0]

Bytes == [use : Nat, len : Nat]
NoBytes == [use |-> 0, len |-> 0]

Blank == [l \in Layers |-> [x \in Positions |-> Nothing]]

Init ==
  /\ mode \in {"exact_prefix", "request_only", "semantic_span"}
  /\ backend \in {"disk", "memory"}
  /\ align \in Aligns
  /\ phase = "schedule" /\ trying = {} /\ base = 0 /\ ext = 0
  /\ status = [r \in Requests |-> "waiting"]
  /\ ncomp = [r \in Requests |-> 0]
  /\ seen = [r \in Requests |-> "no"]
  /\ preempts = 0 /\ giveups = 0
  /\ looked = {} /\ memo = [r \in Requests |-> {}]
  /\ plan = [r \in Requests |-> {}] /\ pending = [r \in Requests |-> {}]
  /\ loads = {} /\ job = {} /\ layerNo = 0 /\ landed = 0 /\ held = "none"
  /\ kept = [l \in Layers |-> NoBytes] /\ errors = {}
  /\ kv = [r \in Requests |-> Blank]
  /\ use = [d \in Donors |-> 1]
  /\ record \in [Donors -> [use : {1}, len : Lengths]]
  /\ layer = [d \in Donors |-> [l \in Layers |-> record[d]]]

-----------------------------------------------------------------------------
(* The match hook, get_num_new_matched_tokens. *)

Asked(r) == phase = "schedule" /\ status[r] = "waiting" /\ seen[r] = "no"

Return(r, b, n) ==
  /\ phase' = "alloc" /\ trying' = {r} /\ base' = b /\ ext' = n
  /\ UNCHANGED <<input, status, ncomp, seen, preempts, giveups, pending,
                 worker, store>>

\* The gates ahead of the lookup.
Gated(b) ==
  \/ b >= SkipAt
  \/ b < MinBoundary
  \/ mode = "semantic_span" /\ PromptTokens - b < MinSpan

HookGated(r, b) ==
  Asked(r) /\ Gated(b) /\ Return(r, b, 0) /\ UNCHANGED <<looked, memo, plan>>

\* The provider's precheck says no, or its lookup raises: nothing is memoized.
HookNoAnswer(r, b) ==
  /\ Asked(r) /\ ~Gated(b)
  /\ mode = "semantic_span" \/ r \notin looked
  /\ Return(r, b, 0)
  /\ UNCHANGED <<looked, memo, plan>>

HookMiss(r, b) ==
  /\ Asked(r) /\ ~Gated(b)
  /\ memo[r] = {}
  /\ looked' = looked \cup {r}
  /\ Return(r, b, 0)
  /\ UNCHANGED <<memo, plan>>

\* The piece of donor d over the prompt positions from a to e.
PieceAt(d, a, e) ==
  [donor |-> d, dstart |-> align[d].dstart + a - align[d].tstart,
   tstart |-> a, count |-> e - a]

\* A plan is its pieces and the sum of their tokens.
OnePiece(p) == [pieces |-> {p}, tokens |-> p.count]

\* What SpanPlanning proves of a piece: aligned, and stored.
Fits(p) ==
  /\ align[p.donor].tstart <= p.tstart /\ End(p) <= End(align[p.donor])
  /\ p.dstart + p.count <= record[p.donor].len

\* A span from b to a block edge, of any number of pieces of the donors.
PiecesIn(D, b, e) ==
  {p \in {PieceAt(d, x, y) : d \in D, x \in b .. e - 1, y \in b + 1 .. e} :
     p.count > 0 /\ Fits(p)}

SpanPlans(D, b) ==
  UNION {{[pieces |-> P, tokens |-> e - b] :
            P \in {Q \in SUBSET PiecesIn(D, b, e) :
                     Cardinality(Q) <= MaxPieces /\ Tiles(Q, b, e)}} :
         e \in {y \in b + 1 .. CacheablePrefixTokens : Aligned(b) /\ Aligned(y)}}

\* How far donor d and the prompt agree from their beginnings on.
CommonPrefix(d) ==
  IF align[d].tstart = 0 /\ align[d].dstart = 0 THEN align[d].count ELSE 0

Load(d, start, n) ==
  IF n <= 0 THEN {}
  ELSE {OnePiece([donor |-> d, dstart |-> start, tstart |-> start, count |-> n])}

\* A whole-request load, from boundary 0 and a published donor only.
RequestOnlyPlans(d, b) ==
  IF b # 0 \/ record[d].len = 0 THEN {}
  ELSE Load(d, 0, Cacheable(Lesser(Lesser(CommonPrefix(d), record[d].len), MaxTokens)))

\* An exact prefix past b. The donor's stored length is not consulted.
ExactPrefixPlans(d, b) ==
  LET reach == Lesser(AlignDown(Lesser(CommonPrefix(d), PromptTokens)),
                      CacheablePrefixTokens) - b
  IN  Load(d, b, IF reach <= 0 THEN 0 ELSE AlignDown(Lesser(reach, MaxTokens)))

Plans(D, b) ==
  IF mode = "semantic_span" THEN SpanPlans(D, b)
  ELSE UNION {IF mode = "request_only" THEN RequestOnlyPlans(d, b)
              ELSE ExactPrefixPlans(d, b) : d \in D}

\* Mutant: a plan that is already there stays.
KeepLoadPlan(r, ps) ==
  plan' = [plan EXCEPT ![r] = IF @ = {} THEN ps ELSE @]

\* _record_load_plan: the last plan counts.
RecordLoadPlan(r, ps) == plan' = [plan EXCEPT ![r] = ps]

\* A hit, looked up now or memoized. Only a span has several donors, and only
\* a span is declined although a plan exists (its floors). A decline leaves
\* the plan of an earlier attempt where it is.
HookHit(r, b) ==
  /\ Asked(r) /\ ~Gated(b)
  /\ \E D \in (SUBSET Donors) \ {{}} :
       /\ r \in looked => D = memo[r]
       /\ mode # "semantic_span" => Cardinality(D) = 1
       /\ looked' = looked \cup {r}
       /\ memo' = [memo EXCEPT ![r] = D]
       /\ \/ /\ mode = "semantic_span" \/ Plans(D, b) = {}
             /\ Return(r, b, 0) /\ UNCHANGED plan
          \/ \E pl \in Plans(D, b) :
               Return(r, b, pl.tokens) /\ RecordLoadPlan(r, pl.pieces)

\* get_num_new_matched_tokens_mid_prefill with a load to plan. Declining is
\* computing on, as is a position inside a block.
MidPrefillHook(r) ==
  /\ phase = "schedule" /\ status[r] = "running" /\ seen[r] = "no"
  /\ mode = "semantic_span"
  /\ \E pl \in SpanPlans(memo[r], ncomp[r]) :
       Return(r, ncomp[r], pl.tokens) /\ RecordLoadPlan(r, pl.pieces)
  /\ UNCHANGED <<looked, memo>>

-----------------------------------------------------------------------------
(* The rest of the scheduling step. *)

\* update_state_after_alloc: the plan is consumed, and becomes a load when
\* external tokens were credited.
Allocated(r, n) ==
  /\ plan' = [plan EXCEPT ![r] = {}]
  /\ pending' = [pending EXCEPT ![r] = IF n > 0 THEN plan[r] ELSE @]

\* vLLM's blocks are there. It credits what the hook returned, or drops it.
Admit(r) ==
  /\ phase = "alloc" /\ trying = {r}
  /\ \E n \in {0, ext} :
       /\ Allocated(r, n)
       /\ ncomp' = [ncomp EXCEPT ![r] = base + n]
       /\ seen' = [seen EXCEPT ![r] = IF n > 0 THEN "load" ELSE "run"]
  /\ status' = [status EXCEPT ![r] = "running"]
  /\ kv' = [kv EXCEPT ![r] = [l \in Layers |-> [x \in Positions |->
              IF status[r] = "waiting" /\ x < base THEN Own ELSE kv[r][l][x]]]]
  /\ phase' = "schedule" /\ trying' = {} /\ base' = 0 /\ ext' = 0
  /\ UNCHANGED <<input, preempts, giveups, looked, memo, loads, job,
                 layerNo, landed, held, kept, errors, store>>

\* No blocks: the request is tried again in a later step, its plan kept.
GiveUp(r) ==
  /\ phase = "alloc" /\ trying = {r} /\ giveups < MaxGiveUps
  /\ giveups' = giveups + 1
  /\ seen' = [seen EXCEPT ![r] = "passed"]
  /\ phase' = "schedule" /\ trying' = {} /\ base' = 0 /\ ext' = 0
  /\ UNCHANGED <<input, status, ncomp, preempts, scheduler, worker, store>>

\* A running request is scheduled without a load.
ComputeOn(r) ==
  /\ phase = "schedule" /\ status[r] = "running" /\ seen[r] = "no"
  /\ ncomp[r] < PromptTokens
  /\ seen' = [seen EXCEPT ![r] = "run"]
  /\ UNCHANGED <<input, phase, status, ncomp, trying, base, ext, preempts,
                 giveups, scheduler, worker, store>>

\* vLLM frees the blocks. The connector is not told and keeps its memo.
Preempt(r) ==
  /\ phase = "schedule" /\ status[r] = "running" /\ seen[r] = "no"
  /\ preempts < MaxPreempts
  /\ preempts' = preempts + 1
  /\ status' = [status EXCEPT ![r] = "waiting"]
  /\ ncomp' = [ncomp EXCEPT ![r] = 0]
  /\ seen' = [seen EXCEPT ![r] = "passed"]
  /\ kv' = [kv EXCEPT ![r] = Blank]
  /\ UNCHANGED <<input, phase, trying, base, ext, giveups, scheduler, loads,
                 job, layerNo, landed, held, kept, errors, store>>

BetweenSteps == phase = "schedule" /\ \A r \in Requests : seen[r] = "no"

\* request_finished.
RequestFinished(r) ==
  /\ BetweenSteps
  /\ status' = [status EXCEPT ![r] = "done"]
  /\ looked' = looked \ {r}
  /\ memo' = [memo EXCEPT ![r] = {}]
  /\ plan' = [plan EXCEPT ![r] = {}]
  /\ ncomp' = [ncomp EXCEPT ![r] = 0]
  /\ kv' = [kv EXCEPT ![r] = Blank]
  /\ UNCHANGED <<input, phase, seen, trying, base, ext, preempts, giveups,
                 pending, loads, job, layerNo, landed, held, kept, errors, store>>

Finish(r) ==
  status[r] = "running" /\ ncomp[r] = PromptTokens /\ RequestFinished(r)

Abort(r) ==
  status[r] # "done" /\ ncomp[r] < PromptTokens /\ RequestFinished(r)

Prefilling(r) ==
  status[r] = "waiting" \/ (status[r] = "running" /\ ncomp[r] < PromptTokens)

\* build_connector_meta: one load per piece.
BuildConnectorMeta ==
  /\ phase = "schedule"
  /\ \E r \in Requests : seen[r] # "no"
  /\ \A r \in Requests : Prefilling(r) => seen[r] # "no"
  /\ loads' = UNION {{[req |-> r, piece |-> p] : p \in pending[r]} : r \in Requests}
  /\ pending' = [r \in Requests |-> {}]
  /\ phase' = "load"
  /\ UNCHANGED <<input, status, ncomp, seen, trying, base, ext, preempts,
                 giveups, looked, memo, plan, job, layerNo, landed, held, kept,
                 errors, kv, store>>
-----------------------------------------------------------------------------
(* The worker: start_load_kv. *)

\* start_load_kv takes up the next load and fetches the donor's entry.
LoadBegin ==
  /\ phase = "load" /\ job = {}
  /\ \E j \in loads :
       /\ loads' = loads \ {j} /\ job' = {j}
       /\ held' = IF backend = "memory"
                     /\ \E l \in Layers : layer[j.piece.donor][l].len > 0
                  THEN "live" ELSE "none"
  /\ layerNo' = 1 /\ landed' = 0
  /\ UNCHANGED <<input, engine, scheduler, kept, errors, kv, store>>

\* The tensor of donor d for the layer at hand: from the entry, or a file.
Source(d) ==
  IF held = "kept" THEN kept[layerNo]
  ELSE IF held = "live" \/ backend = "disk" THEN layer[d][layerNo]
  ELSE NoBytes

\* Mutant: the destination is counted from the first block.
FirstSlots(p) == 0 .. p.count - 1

\* _slot_mapping: the positions that a piece fills.
SlotMapping(p) == p.tstart .. End(p) - 1

\* Mutant: one block too early; block -1 of a Python list is its last.
DestinationOneEarly(p) ==
  p.tstart \div BlockSize - 1 .. End(p) \div BlockSize - 1

\* _destination_block_ids.
DestinationBlocks(p) ==
  p.tstart \div BlockSize .. (End(p) + BlockSize - 1) \div BlockSize - 1

\* The error escapes into the forward pass and takes the engine down.
Die ==
  /\ phase' = "dead" /\ loads' = {} /\ job' = {} /\ layerNo' = 0 /\ landed' = 0
  /\ held' = "none" /\ kept' = [l \in Layers |-> NoBytes]
  /\ UNCHANGED <<input, status, ncomp, seen, trying, base, ext, preempts,
                 giveups, scheduler, errors, kv, store>>

EndJob ==
  /\ job' = {} /\ layerNo' = 0 /\ landed' = 0 /\ held' = "none"
  /\ kept' = [l \in Layers |-> NoBytes]

\* Mutant: the blocks of a donor that is gone are not handed back.
NotHandedBack(r, p) == UNCHANGED errors

HandBack(r, p) ==
  errors' = errors \cup {[req |-> r, block |-> b] : b \in DestinationBlocks(p)}

\* Mutant: a load whose donor is gone is started over.
LayerGoneRetried ==
  /\ phase = "load" /\ layerNo \in Layers
  /\ \E j \in job : Source(j.piece.donor).len = 0 /\ loads' = loads \cup {j}
  /\ EndJob
  /\ UNCHANGED <<input, engine, scheduler, errors, kv, store>>

\* The donor is gone: a span fails loudly, another load hands its blocks back.
LayerGone ==
  /\ phase = "load" /\ layerNo \in Layers
  /\ \E j \in job :
       /\ Source(j.piece.donor).len = 0
       /\ \/ mode = "semantic_span" /\ Die
          \/ /\ mode # "semantic_span" /\ HandBack(j.req, j.piece) /\ EndJob
             /\ UNCHANGED <<input, engine, scheduler, loads, kv, store>>

TooShort(p) == Source(p.donor).len > 0 /\ Source(p.donor).len < p.dstart + p.count

\* A tensor shorter than the window: a span leaves the layer out and goes on,
\* another load fails on the shape.
LayerShort ==
  /\ phase = "load" /\ layerNo \in Layers
  /\ \E j \in job :
       /\ TooShort(j.piece)
       /\ \/ mode # "semantic_span" /\ Die
          \/ /\ mode = "semantic_span" /\ layerNo' = layerNo + 1
             /\ UNCHANGED <<input, engine, scheduler, loads, job, landed,
                            held, kept, errors, kv, store>>

\* The window is cut out of the tensor, re-rotated and written.
LayerInjected ==
  /\ phase = "load" /\ layerNo \in Layers
  /\ \E j \in job :
       LET p == j.piece
           src == Source(p.donor)
       IN  /\ src.len > 0 /\ ~TooShort(p)
           /\ kv' = [kv EXCEPT ![j.req][layerNo] = [x \in Positions |->
                IF x \in SlotMapping(p)
                THEN [donor |-> p.donor, use |-> src.use,
                      pos |-> p.dstart + x - p.tstart]
                ELSE @[x]]]
  /\ layerNo' = layerNo + 1 /\ landed' = landed + 1
  /\ UNCHANGED <<input, engine, scheduler, loads, job, held, kept, errors,
                 store>>

\* After the last layer. A span of which nothing landed fails loudly.
LoadEnd ==
  /\ phase = "load" /\ job # {} /\ layerNo > NumLayers
  /\ \/ mode = "semantic_span" /\ landed = 0 /\ Die
     \/ /\ mode # "semantic_span" \/ landed > 0
        /\ EndJob
        /\ UNCHANGED <<input, engine, scheduler, loads, errors, kv, store>>

-----------------------------------------------------------------------------
(* vLLM computes, and takes back what the worker reports. *)

Failed(r) == {e.block : e \in {f \in errors : f.req = r}}

\* A request with failed blocks goes back to the first of them; any other
\* has its next tokens computed, none when a load was all there was to do.
Computed(r, c) ==
  IF Failed(r) # {} THEN Min(Failed(r)) * BlockSize ELSE ncomp[r] + c

Forward ==
  /\ phase = "load" /\ loads = {} /\ job = {}
  /\ \E c \in [Requests -> 0 .. Chunk] :
       /\ \A r \in Requests :
            /\ ncomp[r] + c[r] <= PromptTokens
            /\ (seen[r] = "run") => (c[r] > 0)
            /\ (c[r] > 0) => (seen[r] \in {"run", "load"} /\ Failed(r) = {})
       /\ ncomp' = [r \in Requests |-> Computed(r, c[r])]
       /\ kv' = [r \in Requests |-> [l \in Layers |-> [x \in Positions |->
            IF ncomp[r] <= x /\ x < ncomp[r] + c[r] THEN Own ELSE kv[r][l][x]]]]
  /\ errors' = {} /\ phase' = "schedule"
  /\ seen' = [r \in Requests |-> "no"]
  /\ UNCHANGED <<input, status, trying, base, ext, preempts, giveups,
                 scheduler, loads, job, layerNo, landed, held, kept, store>>

-----------------------------------------------------------------------------
(* The store, under the writer thread's captures of other requests. *)

\* The memory tier evicts a donor. A load that has fetched the entry keeps
\* it. Retracting the record may fail.
Evict(d) ==
  /\ phase # "dead" /\ backend = "memory"
  /\ \E l \in Layers : layer[d][l].len > 0
  /\ layer' = [layer EXCEPT ![d] = [l \in Layers |-> NoBytes]]
  /\ \/ record' = [record EXCEPT ![d] = NoBytes]
     \/ UNCHANGED record
  /\ IF held = "live" /\ \E j \in job : j.piece.donor = d
     THEN held' = "kept" /\ kept' = layer[d]
     ELSE UNCHANGED <<held, kept>>
  /\ UNCHANGED <<input, engine, scheduler, loads, job, layerNo, landed,
                 errors, kv, use>>

\* A write of a layer fails part-way and leaves a file that cannot be read.
Tear(d, l) ==
  /\ phase # "dead" /\ backend = "disk" /\ layer[d][l].len > 0
  /\ layer' = [layer EXCEPT ![d][l] = NoBytes]
  /\ UNCHANGED <<input, engine, scheduler, worker, record, use>>

\* The donor's id is used again: its new capture replaces layer after layer,
\* and the record follows when all of them are there. Wider than the code: the
\* layers change at any moment, although wait_for_save joins the writer, so
\* that at the next load only a failed write leaves an older layer behind.
ReuseId(d) ==
  /\ phase # "dead" /\ use[d] < Uses[d]
  /\ use' = [use EXCEPT ![d] = @ + 1]
  /\ \E n \in Lengths :
       layer' = [layer EXCEPT ![d][1] = [use |-> use[d] + 1, len |-> n]]
  /\ UNCHANGED <<input, engine, scheduler, worker, record>>

Overwrite(d, l) ==
  /\ phase # "dead" /\ l > 1
  /\ use[d] > 1 /\ layer[d][l].use # use[d]
  /\ \E n \in Lengths :
       layer' = [layer EXCEPT ![d][l] = [use |-> use[d], len |-> n]]
  /\ UNCHANGED <<input, engine, scheduler, worker, record, use>>

Republish(d) ==
  /\ phase # "dead" /\ use[d] > 1 /\ record[d].use # use[d]
  /\ \A l \in Layers : layer[d][l].use = use[d]
  /\ record' = [record EXCEPT ![d] =
       [use |-> use[d], len |-> Min({layer[d][l].len : l \in Layers})]]
  /\ UNCHANGED <<input, engine, scheduler, worker, layer, use>>

-----------------------------------------------------------------------------

Schedule(r) ==
  \/ \E b \in Hits : \/ HookGated(r, b) \/ HookNoAnswer(r, b)
                     \/ HookMiss(r, b) \/ HookHit(r, b)
  \/ MidPrefillHook(r) \/ Admit(r) \/ ComputeOn(r) \/ Finish(r)

Work ==
  LoadBegin \/ LayerGone \/ LayerShort \/ LayerInjected \/ LoadEnd \/ Forward

\* What may happen, and need not.
Disturb ==
  \/ \E r \in Requests : GiveUp(r) \/ Preempt(r) \/ Abort(r)
  \/ \E d \in Donors : Evict(d) \/ ReuseId(d) \/ Republish(d)
  \/ \E d \in Donors, l \in Layers : Tear(d, l) \/ Overwrite(d, l)

Over ==
  /\ phase = "dead" \/ \A r \in Requests : status[r] = "done"
  /\ UNCHANGED vars

Next ==
  \/ \E r \in Requests : Schedule(r)
  \/ BuildConnectorMeta \/ Work \/ Disturb \/ Over

\* The engine's loop and the worker go on; nothing else has to happen.
Engine == (\E r \in Requests : Schedule(r)) \/ BuildConnectorMeta \/ Work

Spec == Init /\ [][Next]_vars
FairSpec == Spec /\ WF_vars(Engine)

-----------------------------------------------------------------------------

\* The hooks' memo, the plans, the worker's place in a load and the store keep
\* their shape; no count passes the prompt's end and no block is negative.
TypeOK ==
  /\ mode \in {"exact_prefix", "request_only", "semantic_span"}
  /\ backend \in {"disk", "memory"} /\ align \in Aligns
  /\ phase \in {"schedule", "alloc", "load", "dead"}
  /\ status \in [Requests -> {"waiting", "running", "done"}]
  /\ ncomp \in [Requests -> 0 .. PromptTokens]
  /\ seen \in [Requests -> {"no", "passed", "run", "load"}]
  /\ trying \subseteq Requests /\ base \in Nat /\ ext \in Nat
  /\ preempts \in 0 .. MaxPreempts /\ giveups \in 0 .. MaxGiveUps
  /\ looked \subseteq Requests /\ memo \in [Requests -> SUBSET Donors]
  /\ plan \in [Requests -> SUBSET Segment]
  /\ pending \in [Requests -> SUBSET Segment]
  /\ loads \subseteq [req : Requests, piece : Segment]
  /\ job \subseteq [req : Requests, piece : Segment]
  /\ layerNo \in 0 .. NumLayers + 1 /\ landed \in 0 .. NumLayers
  /\ held \in {"none", "live", "kept"} /\ kept \in [Layers -> Bytes]
  /\ errors \subseteq [req : Requests, block : Nat]
  /\ kv \in [Requests -> [Layers -> [Positions -> Slot]]]
  /\ layer \in [Donors -> [Layers -> Bytes]] /\ record \in [Donors -> Bytes]
  /\ use \in [Donors -> Nat] /\ \A d \in Donors : use[d] \in 1 .. Uses[d]

\* KV that may stand in for the request's own at position x.
Genuine(v, x) ==
  \/ v = Own
  \/ /\ v.donor # NoDonor
     /\ v.use = 1
     /\ align[v.donor].tstart <= x /\ x < End(align[v.donor])
     /\ v.pos = align[v.donor].dstart + x - align[v.donor].tstart

\* Whatever is evicted or torn between the plan and the last layer of the
\* load, between two steps every position that vLLM counts as computed holds,
\* in every layer, KV of its own token: computed, cached, or a donor's at the
\* position that the plan aligned with it. The engine dies rather. Only the
\* reuse of a donor's id is excepted: nothing ties a plan to one use of it.
CreditedIsReal ==
  BetweenSteps /\ (\A d \in Donors : use[d] = 1) =>
    \A r \in Requests, l \in Layers : \A x \in 0 .. ncomp[r] - 1 :
      Genuine(kv[r][l][x], x)

\* A pending load fills exactly the gap between what the request holds and
\* what vLLM counts as computed, however often it was matched before at other
\* boundaries, and leaves the prompt something to compute.
LoadFillsTheGap ==
  phase \in {"schedule", "alloc"} =>
    \A r \in Requests :
      /\ {x \in 0 .. ncomp[r] - 1 : \A l \in Layers : kv[r][l][x] = Nothing}
           = UNION {SlotMapping(p) : p \in pending[r]}
      /\ pending[r] # {} => ncomp[r] < PromptTokens

\* A load never writes over KV that the request computed or shares with other
\* requests through the prefix cache.
SharedUntouched ==
  [][phase = "load" =>
       \A r \in Requests, l \in Layers, x \in Positions :
         kv[r][l][x] = Own => kv'[r][l][x] = Own]_vars

\* Lost donors, failed admissions and preemptions delay a prefill and never
\* stop it: it ends, or the engine has failed loudly.
PrefillEnds ==
  \A r \in Requests : <>(status[r] = "done" \/ phase = "dead")
=============================================================================
