# A verification project for semblend-vllm-connector

TLA+ models of the parts of the connector whose correctness depends on order,
concurrency and failure, with TLC runs on small instances and TLAPS proofs of
the central properties for every instance. Every definition is a translation of
the Python under `src/src/semblend_vllm_connector/`; `PROJECT.json` gives, for
each one, the lines it stands for.

## 1. The system

The connector is a plug-in of vLLM. It keeps the KV tensors of finished prompts
("donors") and hands them to later prompts that are similar. vLLM creates it
twice: in the scheduler process (the *scheduler role*) and in each worker (the
*worker role*). The two share no memory. They talk through the metadata of a
scheduling step and through the donor store on disk.

| component | state | operations | talks to |
|---|---|---|---|
| capture writer (`capture_writer.py`) | bounded queue and its `unfinished_tasks`, `_closed`, `_stopping`, one thread | `submit`, `join`, `close`, `_run`, `_abandon_queued` | called by the worker role and by an `atexit` hook; calls back `_run_write_job` and `_record_write_error` from its own thread |
| worker role, capture (`connector.py`) | `_capture_progress`, `_capture_namespaces`, `_finalize_pending`, `_finalized_donors`, `_capture_write_failed`, the reports of the writer thread, `_memory_store`, the files | `save_kv_layer`, `wait_for_save`, `get_finished`, `shutdown` | step metadata in; writer; donor store |
| scheduler role, capture and registration | `_capture_state`, `_captures_opened`, `_capture_skipped_reasons`, `_served_request_ids`, `_deferred_registrations`, `_request_seq`, `_scheduler_step` | `build_connector_meta`, `request_finished`, `on_new_request`, `shutdown` | provider; step metadata out; reads the store for records |
| scheduler role, prefix-cache guard | `_filled_blocks`, `_reported_fill_blocks`, `_stage_requests` | `update_state_after_alloc`, `_track_running_fills`, `request_finished` | vLLM's block pool |
| load planning | `_lookup_cache`, `_load_plans`, `_attempts`, `_pending_loads` | `get_num_new_matched_tokens`, `get_num_new_matched_tokens_mid_prefill`, `get_prefill_compute_limit`, `update_state_after_alloc`, the loads of `build_connector_meta` | provider, span algorithms, store |
| load execution | error block ids, load counters | `start_load_kv`, `get_block_ids_with_load_errors` | store, GPU cache |
| span algorithms (`semantic_span.py`) | none | alignment, chaining, trimming, re-rotation | load planning |
| provider (`provider.py`, `providers/`) | bounded index of donors, or a pipeline whose position maps become segments | `register_donor`, `find_donors` | both hooks of the scheduler role |
| configuration, namespaces, compatibility checks, audit, tensor layout | settings, counters | parsing, hashing, reflection, tensor code | everyone |

What is hard here, and what therefore gets the properties:

- **threads**: the forward pass, the writer thread and two closers share a queue,
  two flags and a counter, with unlocked windows between them;
- **order across processes**: a donor must not be offered before the worker's
  bytes and then its record are durable, and the scheduler only sees files;
- **failure of one step of several**: a layer write that raises, a torn file, an
  eviction between two layers, an `os.remove` that fails, an `evict_blocks` that
  raises;
- **teardown at any point**, including between the hooks of one step;
- **long legal sequences**: preemption and readmission, chunked prefill, aborts,
  and request ids that vLLM uses again;
- **vLLM's own step order**, in which blocks are hashed where the connector is
  not consulted;
- **numbers that another program adds up**: vLLM adds what a match hook returns to
  its count of computed tokens and never computes the positions in between, so a
  plan that is off by one block, or a load that loses a layer, is decoded over;
- **plans that outlive what they were made from**: a plan is kept across failed
  admissions and read by the worker one step later, while donors are evicted,
  torn, or replaced by a later use of their id.

`PROJECT.json` lists these hazards one by one with the line and the properties
that would catch them.

## 2. Modules

| module | models | role |
|---|---|---|
| `JobLedger` | what the writer promises: each job settled once, in order, never after a refusal | abstract specification |
| `CaptureWriter` | `capture_writer.py`, step by step | implements `JobLedger` |
| `CaptureWriterProofs` | | proofs |
| `DonorCapture` | the worker role's capture, publication and store | |
| `DonorCaptureProofs` | | proofs |
| `DonorRegistration` | the scheduler role's capture bookkeeping, finish leg and deferral | |
| `DonorRegistrationProofs` | | proofs |
| `FilledBlocks` | the scheduler role's guard on vLLM's exact prefix cache | |
| `FilledBlocksProofs` | | proofs |
| `SpanContract` | segments, pieces, block arithmetic, the cacheable prefix, `trim_pieces` | shared by the span and load modules |
| `SpanContractProofs` | | lemmas on block edges and tilings, shared by the next two proof modules |
| `SegmentRuns` | how position maps become segments (`providers/semblend.py`) | extended by `SpanPlanning` |
| `SpanPlanning` | `semantic_span.py` and the planning half of the three match hooks | |
| `SpanPlanningProofs` | | proofs |
| `LoadPath` | a load from the match hook to the last layer of `start_load_kv`, and vLLM around it | takes from `SpanPlanning` what a plan is |
| `LoadPathProofs` | | proofs |
| `MC...` | instances for TLC | |

The larger modules meet at narrow interfaces. `DonorCapture` takes from
`CaptureWriter` that jobs settle in submission order, that `join` means every
earlier job is settled, and that `close` may leave or hand back jobs.
`DonorRegistration` sees the worker only as "a record appears later, or never".
`LoadPath` lets the hooks return any plan with the properties that
`SpanPlanningProofs` establishes, and sees the capture side only as a store whose
layers disappear, tear or are replaced.

### CaptureWriter

Three kinds of thread. The forward pass is in `forward`: `SubmitPut`,
`SubmitBlocks` and `SubmitTimesOut` are the three ways through `submit` after
`_ensure_thread` (`EnsureThread`, or `SubmitClosed` when it raises); `JoinBegin`
and `JoinReturn` are `join`. The writer thread is in `thread`, one value per line
of `_run` that touches shared state: `Get`, `WriteLands` or `WriteRaises`,
`ReportError`, `WriterTaskDone`, `CheckStopping`. Each closer walks through
`CloseBegin`, `ClosePut` or `CloseGivesUp`, then `AbandonTake`, `AbandonReport`
and `AbandonEnds`, and `CloseReturn`. `queue` and `unfinished` are
`queue.Queue`'s. `Wedge` and `Recover` are the store's: a write on a wedged store
does not return. Deadlines are a choice: a timed wait may end at any moment.
`AbandonReport` is `on_error` and `task_done` of one abandoned job in one step.

### DonorCapture

The forward thread is in `pc`. A step brings stores, finalizes and finished ids
(`BeginStep`), as `_build_store_metadata` makes them: it retires the finished ids
first and then opens the captures of the requests admitted in the same step, so one
step can ship the finish of an id and the first chunk of its next use
(`Overlapped`). The worker forgets the finished use only in `get_finished`, at the
end of that step; bytes and records made meanwhile are of the use `Mixed`.
`SaveKvLayer` starts a layer, `CaptureLayer` copies one store's
window of it and queues the write, `WaitForSave` and `FlushJoin` join the writer
and drain its reports, `SubmitFinalize` queues records, `GetFinished`, `Discard`
and `Retire` settle finished requests, `Shutdown`, `CloseWriter` and the `Close...`
actions tear down. The writer's actions are whole jobs: a layer on disk
(`LayerLands`, `LayerFails`, the second possibly leaving a torn file), a layer in
memory with its eviction loop (`LayerEntersMemory`, `LayerEvicts`), a record
(`RecordLands`, `RecordFails`, `RecordSkipped`). A file is abstracted to the use
of the request id its bytes come from and the number of blocks that can be read.
Every use of an id is assumed to have the same namespace, hence the same storage
key. Left out: the least-recently-used touch by loads, namespaces (there is one),
partial removal in `Discard` (an `OSError` keeps all files) and a failing write that
is seen half done (`LayerFails` leaves a torn file or the old one, in one step). A
shutdown comes between steps or inside the forward pass, not inside `wait_for_save`
or `get_finished`.

### DonorRegistration

One action per row of `build_connector_meta`'s two loops: `AdmitShort`,
`AdmitSkipped`, `AdmitCaptured` for new requests, `ContinueClosed`,
`ContinueServed`, `ContinueAtDecode`, `ContinuePrefill` for running and resumed
ones, between `BuildBegin` (the retry pass and the retirement of finished ids) and
`BuildEnd`. `RequestFinished` runs the retry pass, then `Offered`, all exits of
`_register_donor_on_finish` in their order, then the retirement in its `finally`.
A request is served when it is allocated: `UpdateStateAfterAlloc` at admission,
`LoadMidPrefill` for a running request in the middle of its prefill.
`leg` keeps what is held, since which step, and the audit join key with the stamps
each use's rows got. `Publish` and `Lose` are the worker.

### FilledBlocks

vLLM's step in `pc`: the running loop (`Grow`, `Preempt`; a step that preempts
admits nobody), admissions (`Allocate`, then the connector's
`UpdateStateAfterAlloc`), then `build_connector_meta` (`BuildBegin`, `TrackRow`,
`BuildEnd`). A scheduler with segmented prefill (`Segmented`) also allocates for a
running request in the middle of its prefill (`GrowForLoad`), and
`update_state_after_alloc` then replaces the request's entry by one that starts at
the load. That scheduler is outside the repository: it is assumed to call the hook
there only for a load that it credits. An earlier fill of the request whose eviction
had raised is given up by such a load, and `NothingSkipped` names it. `tracked` is
`_filled_blocks`, with its cursor and settled set as in the code; positions count
from 1. All requests have the same prompt, so a block's hash is its position. The
pool's choice of free blocks and of cached duplicates is nondeterministic. Left out
because stock vLLM cannot bring them about: no bound pool, a load without block ids,
a hash unit finer than a block. Left out as well: failed loads, whose blocks vLLM
takes back and computes exactly while they are still tracked, so that exact blocks
lose their cache entry. `approx` and `left` are history: cached blocks that hold
donor KV or were computed after it by the request that was served, and blocks a pass
found and had to leave. A request that computes on top of an approximate block it
*hit* is not counted in `approx`; the hit itself is `NoApproxHit`'s subject.

### SegmentRuns and SpanPlanning

A lookup's position maps are grouped into segments, one pair at a time
(`GroupNext`, `GroupEnd`), the composite map first and the plain one when it
yields nothing; or a provider of the operator's own returns segments of any shape
(`ProviderInit`). A hook is then called at some boundary: `Admission`,
`MidPrefill`, or `ComputeLimit`, after which vLLM computes to the limit and calls
the mid-prefill hook there. One donor's spans go through `SnapOne`
(`block_align_spans`) and `Supply` (`supply_at_boundary` and the clamps), several
donors' runs through `ChainOne` and `ChainEnd` (`chain_at_boundary`, the caps, the
floor). Lists are sets: where the code's list order breaks a tie, the model takes
either. Whether a donor holds the prompt's token at a pair is a field of the pair.

### LoadPath

The scheduler's half is one request at a time: a hook (`HookGated`,
`HookNoAnswer`, `HookMiss`, `HookHit`, `MidPrefillHook`) memoizes a plan, then
vLLM allocates (`Admit`, with or without crediting what was advertised) or does
not (`GiveUp`, plan kept). `Preempt` frees the blocks and tells the connector
nothing. `BuildConnectorMeta` makes one load of each piece. The worker walks a
load layer by layer: `LoadBegin` fetches the memory entry, each layer is
`LayerInjected`, `LayerShort` or `LayerGone`, `LoadEnd` decides. `Forward` is
vLLM: it computes, or goes back to the first block handed back. `Evict`, `Tear`,
`ReuseId`, `Overwrite` and `Republish` change the store under the load; an entry
evicted after it was fetched stays readable (`held`, `kept`). These actions come at
any moment, which is more than the code does: `wait_for_save` joins the writer in
every step, so a load meets a donor of which only some layers are a new use's only
when a write of the others failed. A span has at most `MaxPieces` pieces, three in
the run and any number in the theorems. A KV slot is
abstracted to what it holds: nothing, the request's own KV, or a donor's at a
donor position. `dead` is a Python error that escapes into the forward pass.
Left out: MLA layouts and missing rope parameters (they decline all layers of a
load alike, which `LoadEnd` turns into the loud failure), other connectors'
metadata, `allow_non_identical_request_only` (it serves other tokens on purpose),
the eviction order that loads refresh (any donor may be evicted at any time).

## 3. Runs

### Passing

| run | bounds, and why they are enough | what it shows |
|---|---|---|
| `writer` | 4 jobs, queue of 2, 2 closers: the queue fills, blocks a submit, drains and refills, and both closers meet every step | `UnfinishedIsOutstanding`, `EachInOnePlace`, `JobsInOrder`, `StrandedAtMostOne`, `JoinMeansSettled`, that the threads implement `JobLedger`; `CloseReturns` always, `SubmitReturns` and `JoinReturns` if the store comes back |
| `capture_disk` | 1 id used twice, 2 layers, 3 chunks, failing and torn writes: a capture opens, appends from the middle and closes, over bytes of an earlier use, which may finish in the same step (501,845 states) | `ChunksContiguous`, `NoOrphans`, `RecordBacked`, `PublishedComplete`, `MarkedIsSettled` |
| `capture_memory` | 2 donors of 2 layers and 2 chunks, room for one (configured 0): every donor evicts the other, between layers and between chunks | `RecordBacked` under eviction |
| `capture_live` | 2 donors, memory tier with room for one, shutdown anywhere in a step: a donor is evicted while its own record is queued, and the writer is left stuck | `HooksReturn` |
| `registration` | 2 requests (one can serve the other), 5 steps, budget 2: held, retried and declined, with room for a second round; a request is served at admission or in mid-prefill | `RegisteredAfterRecord`, `FinishAnswered`, `StoredIsOwn`, `DeclinedAfterBudget`, `HeldWithinBudget` |
| `fills` | 2 requests, one staged, 3 blocks for prompts of 3, 2 preemptions, loads in mid-prefill, `evict_blocks` may raise: blocks pass between requests, a request is readmitted served and unserved, and loaded a second time after an eviction that raised (1,093,888 states) | `CleanAfterStep`, `NothingSkipped`, `OnlyFillsEvicted`, `LedgerKept` |
| `spans` | prompt of 10 tokens, blocks of 2, 2 donors, all triples of 15 windows on and off the block edges, maps of up to 4 pairs, 3 settings with floors and limits off the block size, a donor captured short: chains of three pieces, ties, nested and overlapping runs, clamps that bite | `SegmentsExact`, `SpanServable`, `CountExact`, `LimitPaysOff` |
| `loads` | one request of 3 blocks, 2 layers, one donor aligned at its start or shifted, captured long or short, its id used twice, one preemption, one failed admission, both tiers, three modes: plans of up to three pieces, a donor lost before, between and within loads, a load after a load (1,246,110 states) | `CreditedIsReal`, `LoadFillsTheGap`, `SharedUntouched`, `PrefillEnds` |

`fills` uses symmetry over the blocks, which the specification does not tell
apart, and checks no liveness. Deadlock checking is off only where a behaviour
really may end: the writer and the registration runs, whose jobs and steps run out.

### Violations: where a comment or document says more than the code does

| run | property | what happens |
|---|---|---|
| `hole` | `PublishedComplete` | shutdown between the layers of a step publishes a donor that lacks some |
| `abort` | `RegisteredHasRecord` | a request finished before its first store is registered with nothing stored |
| `window` | `NoApproxHit` | a request admitted in the step in which a served request completes a block hits that block before it is evicted |
| `overlap` | `OneUse` | a request with the id of one that finished in mid-capture is admitted in the step that ships the finish: its chunk is appended to the old use's layer, and the mixture is published |

The findings in `PROJECT.json` quote the line each one is measured against.

### What the models show beyond the runs

Facts found while modelling, each reproducible with a small change of a run:

- A close that times out in `thread.join` because its sentinel fitted behind a
  wedged write leaves the jobs in front of it queued and unreported, although
  `capture_writer.py:30` says that they are handed back.
- A published donor that grows and then fails a layer write keeps its earlier
  record (`RecordBacked` excepts donors with a failed write).
- The deferred row of a finish carries a second `request_seq`, because
  `request_finished` forgets the join key while the registration is still held.
- `MarkedIsSettled` is checked on disk. In memory, with two chunks, a donor that
  is evicted between them, restarts from 0 and is marked in the same step loses
  its mark when the report of the eviction is drained afterwards: all its tensors
  are in the store, and no record is written for them.
- A span load of which a layer is declined is counted as materialized when another
  layer landed, and nothing computes the skipped one. It takes a donor whose layers
  differ in length: an id used again, and a failed write of one of its layers.
- After a load in mid-prefill the tracked table lists the load's new blocks twice
  (`update_state_after_alloc` is given the whole table, and the step's row adds them
  again), so `block_table_blocks` counts too many. No eviction depends on it.
- A floor of 0 lets an empty chain pass, and `pieces[0]` raises (`pc = "raised"`
  in `SpanPlanning`); `min_semantic_span` and `min_mid_prefill_segment` are not
  bounded below.
- The mid-prefill hook does not apply `max_materialized_tokens`, though its
  docstring says that it plans "exactly as the admission path does".
- `lookup_precheck` asks the provider for one donor's run of `min_semantic_span`
  tokens. With `multi_donor_spans` a plan may be assembled from shorter runs, so
  the precheck declines requests that a lookup would have served.
- An exact-prefix plan is not bounded by what the donor has stored: a short
  capture ends in a shape error in the forward pass, which is `dead` here.
- A load of the other kinds that finds no KV layers at all is counted as declined
  and its blocks are not handed back. The model has at least one layer.
- `_cacheable_prefix_tokens` holds back two tokens where vLLM needs one: of a prompt
  of k blocks and one token it offers k - 1 blocks, where k would do.
- `LocalSemanticProvider.register_donor` with `max_donors` of 0 pops from an empty
  index.

### Request ids that are used again

Comments in `connector.py` and the contract say that vLLM reuses request ids. The
modules have a bound for it (`MaxUses`, `Uses`), and some properties hold only for
ids used once. With `MaxUses = 2` TLC finds:

- `RegisteredAfterRecord` fails: `_has_stored_donor` asks for a record under the
  id, and the first use's record stands in for the second's;
- `FinishAnswered` fails: `_deferred_registrations` is keyed by id, and the second
  finish overwrites a first that is still held;
- `CleanAfterStep` fails: the finished ids that `_track_running_fills` retires can
  include one that was admitted and served again in the same step, and what that
  use fills later is not evicted;
- in `DonorCapture` the second use writes its layers over the files of the first,
  whose record stays; `RecordBacked` therefore speaks of the record of the current
  use;
- when the second use is admitted in the step that ships the finish of the first, its
  layers continue the first's (run `overlap`). `ChunksContiguous`, `RecordBacked` and
  `PublishedComplete` except the bytes and records of that step by name (`Overlapped`,
  `Mixed`); every other second use is covered by the run and by the theorems;
- `NothingSkipped` fails for the same reason as `CleanAfterStep`;
- in `LoadPath` a load reads whatever is under the donor's id, so `CreditedIsReal`
  speaks of behaviours in which no donor id was used again; the other properties
  hold with reuse.

Five theorems (section 4: `OrderingCorrect`, `FinishCorrect`, `CursorCorrect`,
`CleanCorrect`, `LedgerCorrect`) have `MaxUses <= 1` as a premise for this reason.

### Fairness

Weak fairness only, and only on threads that the code leaves runnable: the forward
pass inside a hook it has entered, the writer thread while it has work and the
store answers, a closer inside `close` (whose waits are timed), the worker's
teardown once begun, and the engine's loop in `LoadPath` (schedule, load, forward)
while a request has a prefill to do. `DonorRegistration` and `FilledBlocks` assume
none: a held donor is retried on the step clock, an idle engine builds no step, and
`HeldWithinBudget` therefore bounds the wait in steps. New work (submits, steps,
arrivals, finishes) and the store's recovery are never assumed; `SubmitReturns`
and `JoinReturns` have the recovery as an explicit premise.

## 4. Proofs

Every theorem holds for every value of the constants that meets the named
`ASSUME`s, which say that sizes and bounds are natural numbers (a queue depth, a
retry budget and a memory limit may be any integer, as the code clamps them), that
switches are Booleans, that lookups, settings and segments have their types, and, in
`LoadPath`, that alignments and prefix-cache hits stay within the prompt. Each
inductive invariant was an invariant of a TLC run before it was proved.

**`CaptureWriterProofs`**, for any number of jobs and closers and any depth. The
inductive invariant `IInv` adds to the checked invariants what they need from one
another: who can hold an item in which state of which thread, that the items held
and queued are below `next`, and that jobs from `next` on are untouched. The
counter's exactness is needed for the order of `task_done` and reports, which is
what `JoinCorrect` rests on. Proved: `TypeCorrect`, `CounterCorrect`,
`PlacesCorrect`, `OrderCorrect`, `JoinCorrect`, and `LedgerRefinement` (every step
is a `JobLedger` step or a stutter). `StrandedCorrect` has an invariant of its own,
`AtMostOneBehind`: the one submit that can be past `_ensure_thread` counts as part
of the queue, and with it at most one job is behind a queued sentinel, behind a
thread that took it, or in a queue that `_abandon_queued` has left.

**`DonorCaptureProofs`**, for any number of requests, uses, layers and chunks, on
both tiers, with any memory limit. The two joins of `wait_for_save` carry the
argument: when a record is queued no layer is, so what is stored is what the
progress says. `DInv` has a part for each thing that can get out of step:

- `Control`, `Owned`: where the hooks stand, and that queued jobs belong to
  captures the worker knows of;
- `Settled`: layers and records are never queued together, and between steps
  nothing is queued and nothing is unreported;
- `StagedWhole`, `AheadWhole`, `StoredWhole`: a queued copy, a stored layer this
  step has yet to save, and a stored layer that is not queued each hold exactly
  the captured prefix of the current use, or nothing (evicted, or writer closed);
- `Even`: a capture covers all layers or none, up to those still to be saved;
- `QueuedBacked`, `RecordKept`: queued and published records are no longer than
  the layers behind them.

`TypeCorrect` and `OrphansCorrect` hold without a premise. `ChunksCorrect`,
`RecordCorrect` and `PublicationCorrect` have `~MidStepShutdown`: a shutdown that
cuts a step short leaves the writer over half a step, and the run `hole` shows that
`PublishedComplete` is then false. Ids may be used any number of times; the step
that finishes an id and reopens it is excepted by the properties themselves, and the
invariant carries its bytes as those of the use `Mixed`. The invariant does not
assume it away: its parts from `Settled` on hold up to the moment of such a shutdown
(`Sane`).

**`DonorRegistrationProofs`**, for any number of requests, uses, steps and any
configuration, in three layers:

- `OInv` for `StoresAreOwn`: a request with filled blocks is in the served set, or
  its capture is closed and it has no admission row to come;
- `TInv` for `TypeCorrect`, `BudgetCorrect` and `HeldCorrect`: live requests have a
  use, a held donor's clock is not in the future, rows belong to running requests;
- `NInv` for `OrderingCorrect` and `FinishCorrect`, under `MaxUses <= 1`: an
  unfinished use has an open leg, a finished one a verdict or a held one, what was
  sent was opened, and the index is backed by records. Both are false for reused
  ids, as section 3 says.

**`FilledBlocksProofs`**, for any numbers of requests, blocks, preemptions and any
staging. A block is hashed only while it is private to the request that hashes it
(`Private`): what lies past `full` in a table is unhashed and in no other table. So
a block the connector has settled is never hashed again behind its back
(`SettledOK`), and the table it tracks is the engine's, up to the rows of this step
it has not gone through (`Synced`). From `GInv`: `TypeCorrect` and
`EvictionCorrect`. With `Covered` (a fill is tracked as long as it runs, and each
approximate block in the cache belongs to a row still to come), which needs
`MaxUses <= 1`: `CursorCorrect`, `CleanCorrect` and `LedgerCorrect`.

**`SpanPlanningProofs`**, for any prompt, block size, donors, segments, stored
counts, settings and boundaries, and any position maps. `IInv` has a part for each
loop:

- for the grouping: the pairs not yet visited, the run in hand and the segments
  found together say what the map says, and a run is unbroken on both sides;
- for the snapped spans: each is a block-aligned part of a stored run of the donor;
- for the chain: the pieces tile the positions from the boundary to `position`,
  each drawn from a segment and stored, and every position up to there is covered.

From it: `PlanningTyped`, `SegmentsAreExact` and `PlansAreServable`. `CountCorrect`
and `LimitCorrect` add `CInv`. That the greedy chain reaches as far as any choice
(`LongestReach`, part of `IInv`) needs only that the loop stops where no run holds
`position`: no choice of pieces can get past such a position. The sum of the pieces'
lengths is stated as the number of their tokens, so that a bijection onto the tiled
positions gives its value (`TokensOfTiling`) where a fold would need induction; and
a boundary that a compute limit chose lies in a run that goes on for the floor
(`LimitLoop`).

**`LoadPathProofs`**, for any prompt, block size, layers, requests, donors and
modes. `LInv` follows a position that vLLM counts as computed: it holds something,
or a load that is due or at hand covers it, or its block was handed back
(`Filled`). Loads cover disjoint slots below the computed tokens (`LoadsOK`), a
load that is not begun finds its slots empty (`DueOK`), and the one at hand has
written only the layers before `layerNo` (`JobOK`). From it: `TypeCorrect`,
`GapCorrect`, `SharedSafe`. `CreditCorrect` also needs `Fresh`: as long as no donor
id has been used again, readable layers are of the first use and long enough for
every span planned on them, and each counted position is genuine *layer by layer*.
The exception for reused ids is part of `CreditedIsReal` itself.

Model-checked only: all liveness (`CloseReturns`, `SubmitReturns`, `JoinReturns`,
`MarkedIsSettled`, `HooksReturn`, `PrefillEnds`), since fairness is
outside the prover's reach. Every safety property of the passing runs is a theorem,
eight of them under the premises named above.

## 5. Not modelled

- The local provider's index and ranking: floating-point scores over token sets,
  used in tests and demonstrations. Registration with it is "taken or raised".
- The pipeline behind the SemBlend provider: another package. Its answers are
  arbitrary position maps.
- `rope_cos_sin`, `rerotate_k`, extraction, injection, layouts and page widths:
  tensor and floating-point code.
- Configuration parsing, namespace hashing, vLLM compatibility reflection, prompt
  text: no state that interacts; their results are constants of the modules.
- Counters, timings, log lines and the wording of audit rows, except the join key.

## 6. Plan

1. Done: `JobLedger`, `CaptureWriter`, `DonorCapture`, `DonorRegistration`,
   `FilledBlocks`, `SegmentRuns`, `SpanPlanning`, `LoadPath`; a proof of every
   safety property of the passing runs.
2. `CapturePipeline`: scheduler and worker role composed through the step metadata
   and the store, so that `DonorRegistration`'s `Publish` and `Lose` are
   `DonorCapture`'s actions; the ordering invariant end to end.
