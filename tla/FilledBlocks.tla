---------------------------- MODULE FilledBlocks ----------------------------
(***************************************************************************)
(* The scheduler role's guard on vLLM's exact prefix cache (connector.py). *)
(* A load fills blocks of a request with approximate KV. vLLM hashes them  *)
(* under the request's own tokens in the call that allocates them, and     *)
(* keeps hashing what the request computes after them; the connector       *)
(* evicts both kinds from the hash table, on the step of the load and on   *)
(* every later step that schedules the request.                            *)
(*                                                                         *)
(* vLLM is the environment: in one scheduling step it first goes through   *)
(* the running requests (growing or preempting them), then admits waiting  *)
(* ones, and then calls build_connector_meta; requests finish between two  *)
(* steps. A scheduler with segmented prefill also allocates for a load in  *)
(* the middle of a running prefill. All requests have the same prompt,     *)
(* which is the case the hash table is for: the block at one position of   *)
(* any two tables has the same hash, and is written here as that position. *)
(* Positions count from 1.                                                 *)
(***************************************************************************)
EXTENDS Integers, Sequences

CONSTANTS
  Requests,       \* request ids
  Blocks,         \* blocks of the GPU pool, the null block not counted
  PromptBlocks,   \* bound: blocks of a request's table
  StepBlocks,     \* bound: new blocks of a request in one step
  MaxUses,        \* bound: how often a request id is used, 1 is no reuse
  MaxPreempts,    \* bound: preemptions in a behaviour
  Segmented,      \* whether the scheduler asks in the middle of a prefill
  EvictFilled,    \* evict_filled_blocks_from_prefix_cache
  StageRequests,  \* the requests that carry the staged-prefill hint
  EvictRaises     \* whether evict_blocks can raise

ASSUME BoundAssumption ==
  PromptBlocks \in Nat \ {0} /\ StepBlocks \in Nat \ {0} /\ MaxUses \in Nat
    /\ MaxPreempts \in Nat
ASSUME KnobAssumption ==
  Segmented \in BOOLEAN /\ EvictFilled \in BOOLEAN /\ StageRequests \subseteq Requests
    /\ EvictRaises \in BOOLEAN

Lists(m) == UNION {[1 .. n -> Blocks] : n \in 0 .. m}
Tables == Lists(PromptBlocks)

VARIABLES
  use,       \* engine: the current use of each request id
  phase,     \* engine: where the request is
  table,     \* engine: its block table
  full,      \* engine: how many blocks of the table are hashed
  fillAt,    \* engine: the first position a load filled, 0: none
  preempts,  \* engine: preemptions so far
  gone,      \* engine: finished_req_ids not shipped yet
  hash,      \* pool: the position a block is cached for, 0: not cached
  pc,        \* where the scheduler is in its step
  diff,      \* this step's new_block_ids
  rows,      \* this step's scheduled_cached_reqs
  resumed,   \* this step's resumed_req_ids
  alloc,     \* the request allocate_slots has just given blocks, if any
  loadAt,    \* the first position of the load in them, 0: no load
  tracked,   \* _filled_blocks
  reported,  \* _reported_fill_blocks
  approx,    \* history: cached blocks a load or its request after it filled
  left       \* history: cached blocks that the last pass over them left so

engine    == <<use, phase, table, full, fillAt, preempts, gone>>
step      == <<diff, rows, resumed, alloc, loadAt>>
connector == <<tracked, reported>>
vars == <<engine, hash, pc, step, connector, approx, left>>

\* _FilledBlocks. No entry is an empty table. The blocks of a load in the
\* middle of a prefill are listed twice: update_state_after_alloc is given the
\* whole table, and the step's row adds them again.
TrackedCap == PromptBlocks + StepBlocks
Fill == [table : Lists(TrackedCap), first : 0 .. PromptBlocks,
         settled : SUBSET Blocks, scanFrom : 0 .. TrackedCap + 1]
NoFill == [table |-> << >>, first |-> 0, settled |-> {}, scanFrom |-> 0]

TypeOK ==
  /\ use \in [Requests -> 0 .. MaxUses]
  /\ phase \in [Requests -> {"none", "waiting", "running", "preempted"}]
  /\ table \in [Requests -> Tables]
  /\ full \in [Requests -> 0 .. PromptBlocks]
  /\ fillAt \in [Requests -> 0 .. PromptBlocks]
  /\ preempts \in 0 .. MaxPreempts
  /\ gone \subseteq Requests
  /\ hash \in [Blocks -> 0 .. PromptBlocks]
  /\ pc \in {"between", "running", "tight", "waiting", "build"}
  /\ diff \in [Requests -> Tables]
  /\ rows \subseteq Requests /\ resumed \subseteq rows
  /\ alloc \subseteq Requests /\ loadAt \in 0 .. PromptBlocks
  /\ tracked \in [Requests -> Fill]
  /\ reported \in [Requests -> SUBSET Blocks]
  /\ approx \subseteq Blocks /\ left \subseteq Blocks

Init ==
  /\ use = [r \in Requests |-> 0]
  /\ phase = [r \in Requests |-> "none"]
  /\ table = [r \in Requests |-> << >>]
  /\ full = [r \in Requests |-> 0]
  /\ fillAt = [r \in Requests |-> 0]
  /\ preempts = 0
  /\ gone = {}
  /\ hash = [b \in Blocks |-> 0]
  /\ pc = "between"
  /\ diff = [r \in Requests |-> << >>]
  /\ rows = {} /\ resumed = {} /\ alloc = {} /\ loadAt = 0
  /\ tracked = [r \in Requests |-> NoFill]
  /\ reported = [r \in Requests |-> {}]
  /\ approx = {} /\ left = {}

-----------------------------------------------------------------------------
(* One pass over the blocks of a fill. *)

In(s) == {s[i] : i \in 1 .. Len(s)}

ScanStart(f) == IF f.first > f.scanFrom THEN f.first ELSE f.scanFrom

\* Mutant: the blocks before the fill are scanned as well.
CachedAnywhere(f, pool) ==
  {f.table[i] : i \in {k \in 1 .. Len(f.table) :
                         /\ f.table[k] \notin f.settled
                         /\ pool[f.table[k]] # 0}}

\* _cached_fill_blocks, against the pool's hash table.
CachedFillBlocks(f, pool) ==
  {f.table[i] : i \in {k \in 1 .. Len(f.table) :
                         /\ k >= ScanStart(f)
                         /\ f.table[k] \notin f.settled
                         /\ pool[f.table[k]] # 0}}

\* The cursor past the settled blocks that follow one another from the start.
IsCursor(f, settled, n) ==
  /\ n >= ScanStart(f)
  /\ \A k \in ScanStart(f) .. n - 1 :
       k <= Len(f.table) /\ f.table[k] \in settled
  /\ n <= Len(f.table) => f.table[n] \notin settled

\* Mutant: the cursor jumps to the end of the table.
SettledToTheEnd(f, handled) ==
  [f EXCEPT !.settled = @ \cup handled, !.scanFrom = Len(f.table) + 1]

\* _settle
Settled(f, handled) ==
  LET settled == f.settled \cup handled
  IN  [f EXCEPT !.settled = settled,
                !.scanFrom = CHOOSE n \in 0 .. Len(f.table) + 1 :
                               IsCursor(f, settled, n)]

Evicts(r) == EvictFilled /\ r \notin StageRequests

\* Mutant: the ledger is restarted with every pass.
TrackAfresh(r, f, raises) ==
  LET found   == CachedFillBlocks(f, hash)
      evicted == IF Evicts(r) /\ ~raises THEN found ELSE {}
      handled == IF Evicts(r) THEN evicted ELSE found
  IN  /\ tracked' = [tracked EXCEPT ![r] =
                       IF handled = {} THEN f ELSE Settled(f, handled)]
      /\ reported' = [reported EXCEPT ![r] =
                        IF handled = {} THEN @ ELSE handled]
      /\ hash' = [b \in Blocks |-> IF b \in evicted THEN 0 ELSE hash[b]]
      /\ approx' = approx \ evicted
      /\ left' = (left \ evicted) \cup (found \ evicted)

\* _track_filled_blocks of the fill f of r: the blocks found are evicted or,
\* with the knob off or for a staged request, only noted. evict_blocks may
\* raise, which leaves the fill to the next pass.
TrackFilledBlocks(r, f, raises) ==
  LET found   == CachedFillBlocks(f, hash)
      evicted == IF Evicts(r) /\ ~raises THEN found ELSE {}
      handled == IF Evicts(r) THEN evicted ELSE found
  IN  /\ tracked' = [tracked EXCEPT ![r] =
                       IF handled = {} THEN f ELSE Settled(f, handled)]
      /\ reported' = [reported EXCEPT ![r] = @ \cup handled]
      /\ hash' = [b \in Blocks |-> IF b \in evicted THEN 0 ELSE hash[b]]
      /\ approx' = approx \ evicted
      /\ left' = (left \ evicted) \cup (found \ evicted)

-----------------------------------------------------------------------------
(* vLLM's block pool. *)

Free == Blocks \ UNION {In(table[r]) : r \in Requests}

\* The lists of distinct free blocks.
Allocations ==
  {s \in Lists(StepBlocks) : In(s) \subseteq Free
                              /\ \A i, j \in 1 .. Len(s) : s[i] = s[j] => i = j}

\* The hash table once t has the blocks new and is hashed from its position
\* lo to its position hi.
Hashed(t, new, lo, hi) ==
  [b \in Blocks |->
     IF \E k \in lo .. hi : t[k] = b THEN CHOOSE k \in lo .. hi : t[k] = b
     ELSE IF b \in In(new) THEN 0
     ELSE hash[b]]

\* The longest runs of cached blocks from the first position on; a request has
\* at least one token left to compute.
Hits ==
  {s \in Lists(PromptBlocks - 1) :
     /\ \A i \in 1 .. Len(s) : hash[s[i]] = i
     /\ Len(s) + 1 < PromptBlocks => \A b \in Blocks : hash[b] # Len(s) + 1}

\* The blocks of t from position first on, if there is a fill.
From(t, first) == {t[k] : k \in {i \in 1 .. Len(t) : first > 0 /\ i >= first}}

-----------------------------------------------------------------------------
(* The engine. *)

Arrive(r) ==
  /\ pc = "between"
  /\ phase[r] = "none"
  /\ use[r] < MaxUses
  /\ use' = [use EXCEPT ![r] = @ + 1]
  /\ phase' = [phase EXCEPT ![r] = "waiting"]
  /\ UNCHANGED <<table, full, fillAt, preempts, gone, hash, pc, step, connector,
                 approx, left>>

\* request_finished: the blocks are freed and keep their hashes.
RequestFinished(r) ==
  /\ pc = "between"
  /\ phase[r] # "none"
  /\ phase' = [phase EXCEPT ![r] = "none"]
  /\ table' = [table EXCEPT ![r] = << >>]
  /\ full' = [full EXCEPT ![r] = 0]
  /\ fillAt' = [fillAt EXCEPT ![r] = 0]
  /\ gone' = gone \cup {r}
  /\ tracked' = [tracked EXCEPT ![r] = NoFill]
  /\ reported' = [reported EXCEPT ![r] = {}]
  /\ UNCHANGED <<use, preempts, hash, pc, step, approx, left>>

Schedule ==
  /\ pc = "between"
  /\ pc' = "running"
  /\ UNCHANGED <<engine, hash, step, connector, approx, left>>

\* The running requests are scheduled before any other is admitted.
RunningLoop == pc \in {"running", "tight"} /\ alloc = {}

\* A running request is scheduled: it gets the blocks new, and the blocks that
\* this step completes, up to position hi, are hashed.
Grow(r) ==
  /\ RunningLoop
  /\ phase[r] = "running"
  /\ r \notin rows
  /\ \E new \in Allocations, hi \in full[r] .. PromptBlocks :
       LET t == table[r] \o new
       IN  /\ Len(t) <= PromptBlocks
           /\ hi <= Len(t)
           /\ table' = [table EXCEPT ![r] = t]
           /\ full' = [full EXCEPT ![r] = hi]
           /\ hash' = Hashed(t, new, full[r] + 1, hi)
           /\ approx' = {b \in (approx \ In(new)) \cup From(t, fillAt[r]) :
                          hash'[b] # 0}
           /\ left' = left \ In(new)
           /\ diff' = [diff EXCEPT ![r] = new]
  /\ rows' = rows \cup {r}
  /\ UNCHANGED <<use, phase, fillAt, preempts, gone, pc, resumed, alloc,
                 loadAt, connector>>

\* get_num_new_matched_tokens_mid_prefill has a load for a running request: a
\* chunk has ended at a block edge, and the next load blocks are for the
\* connector to fill.
GrowForLoad(r) ==
  /\ Segmented
  /\ RunningLoop
  /\ phase[r] = "running"
  /\ r \notin rows
  /\ full[r] = Len(table[r])
  /\ \E new \in Allocations, load \in 1 .. PromptBlocks, hi \in 1 .. PromptBlocks :
       LET t     == table[r] \o new
           first == IF fillAt[r] > 0 THEN fillAt[r] ELSE full[r] + 1
       IN  /\ Len(t) <= PromptBlocks
           /\ full[r] + load <= hi /\ hi <= Len(t)
           /\ table' = [table EXCEPT ![r] = t]
           /\ full' = [full EXCEPT ![r] = hi]
           /\ fillAt' = [fillAt EXCEPT ![r] = first]
           /\ hash' = Hashed(t, new, full[r] + 1, hi)
           /\ approx' = {b \in (approx \ In(new)) \cup From(t, first) :
                          hash'[b] # 0}
           /\ left' = left \ In(new)
           /\ diff' = [diff EXCEPT ![r] = new]
  /\ rows' = rows \cup {r}
  /\ alloc' = {r}
  /\ loadAt' = full[r] + 1
  /\ UNCHANGED <<use, phase, preempts, gone, pc, resumed, connector>>

\* A running request that is not scheduled yet gives its blocks up; a step
\* that preempts admits nobody.
Preempt(r) ==
  /\ RunningLoop
  /\ phase[r] = "running"
  /\ r \notin rows
  /\ preempts < MaxPreempts
  /\ preempts' = preempts + 1
  /\ pc' = "tight"
  /\ phase' = [phase EXCEPT ![r] = "preempted"]
  /\ table' = [table EXCEPT ![r] = << >>]
  /\ full' = [full EXCEPT ![r] = 0]
  /\ fillAt' = [fillAt EXCEPT ![r] = 0]
  /\ UNCHANGED <<use, gone, hash, step, connector, approx, left>>

\* allocate_slots: a waiting or preempted request is admitted with the blocks
\* hits from the prefix cache and the blocks new, the first load of which are
\* for the connector to fill; the blocks up to position hi are hashed.
Allocate(r) ==
  /\ pc \in {"running", "waiting"}
  /\ alloc = {}
  /\ phase[r] \in {"waiting", "preempted"}
  /\ \E hits \in Hits, new \in Allocations, load, hi \in 0 .. PromptBlocks :
       LET t     == hits \o new
           first == IF load > 0 THEN Len(hits) + 1 ELSE 0
       IN  /\ In(hits) \cap In(new) = {}
           /\ Len(new) > 0 /\ Len(t) <= PromptBlocks
           /\ Len(hits) + load <= hi /\ hi <= Len(t)
           /\ table' = [table EXCEPT ![r] = t]
           /\ full' = [full EXCEPT ![r] = hi]
           /\ fillAt' = [fillAt EXCEPT ![r] = first]
           /\ hash' = Hashed(t, new, Len(hits) + 1, hi)
           /\ approx' = {b \in (approx \ In(new)) \cup From(t, first) :
                          hash'[b] # 0}
           /\ left' = left \ In(new)
           /\ diff' = [diff EXCEPT ![r] = IF phase[r] = "preempted" THEN t
                                                                    ELSE @]
           /\ loadAt' = first
  /\ pc' = "waiting"
  /\ alloc' = {r}
  /\ phase' = [phase EXCEPT ![r] = "running"]
  /\ LET again == IF phase[r] = "preempted" THEN {r} ELSE {}
     IN  rows' = rows \cup again /\ resumed' = resumed \cup again
  /\ UNCHANGED <<use, preempts, gone, connector>>

-----------------------------------------------------------------------------
(* update_state_after_alloc. *)

\* The fill of an earlier allocation is forgotten, be it of an admission that
\* preemption ended or of a load earlier in the same prefill, and this one's is
\* tracked.
UpdateStateAfterAlloc(r, raises) ==
  /\ r \in alloc
  /\ IF loadAt > 0
     THEN TrackFilledBlocks(r, [NoFill EXCEPT !.table = table[r],
                                              !.first = loadAt], raises)
     ELSE /\ tracked' = [tracked EXCEPT ![r] = NoFill]
          /\ UNCHANGED <<hash, reported, approx, left>>
  /\ alloc' = {}
  /\ loadAt' = 0
  /\ UNCHANGED <<engine, pc, diff, rows, resumed>>

-----------------------------------------------------------------------------
(* build_connector_meta: _track_running_fills. *)

\* The ids that finished since the last step are retired first.
BuildBegin ==
  /\ pc \in {"running", "tight", "waiting"}
  /\ alloc = {}
  /\ pc' = "build"
  /\ tracked' = [r \in Requests |-> IF r \in gone THEN NoFill ELSE tracked[r]]
  /\ reported' = [r \in Requests |-> IF r \in gone THEN {} ELSE reported[r]]
  /\ gone' = {}
  /\ UNCHANGED <<use, phase, table, full, fillAt, preempts, hash, step, approx,
                 left>>

\* Mutant: a resumed request's table is added to the one it had.
ExtendAlways(r, f) == [f EXCEPT !.table = @ \o diff[r]]

\* _extend_block_table: the table of a resumed request is replaced.
ExtendBlockTable(r, f) ==
  IF r \in resumed THEN [f EXCEPT !.table = diff[r], !.settled = {},
                                  !.scanFrom = 0]
                   ELSE [f EXCEPT !.table = @ \o diff[r]]

\* One row of _track_running_fills.
TrackRow(r, raises) ==
  /\ pc = "build"
  /\ r \in rows
  /\ IF tracked[r] = NoFill
       THEN UNCHANGED <<hash, connector, approx, left>>
       ELSE TrackFilledBlocks(r, ExtendBlockTable(r, tracked[r]), raises)
  /\ rows' = rows \ {r}
  /\ resumed' = resumed \ {r}
  /\ diff' = [diff EXCEPT ![r] = << >>]
  /\ UNCHANGED <<engine, pc, alloc, loadAt>>

BuildEnd ==
  /\ pc = "build"
  /\ rows = {}
  /\ pc' = "between"
  /\ UNCHANGED <<engine, hash, step, connector, approx, left>>

-----------------------------------------------------------------------------

Next ==
  \/ Schedule \/ BuildBegin \/ BuildEnd
  \/ \E r \in Requests :
       \/ Arrive(r) \/ RequestFinished(r)
       \/ Grow(r) \/ GrowForLoad(r) \/ Preempt(r) \/ Allocate(r)
       \/ \E raises \in {FALSE, EvictRaises} :
            UpdateStateAfterAlloc(r, raises) \/ TrackRow(r, raises)

Spec == Init /\ [][Next]_vars

-----------------------------------------------------------------------------
(* Properties. *)

\* Between two steps no block that a load filled, or that its request filled
\* after it, can be found in the exact prefix cache, whatever preemption,
\* readmission, further loads, finishes and the pool's reuse of blocks have
\* done since. The exceptions are what a pass saw and had to leave:
\* evict_blocks raised, or the request is staged or the knob off
\* (_track_filled_blocks, _track_running_fills).
CleanAfterStep ==
  pc = "between" => approx \subseteq left

\* The connector takes no block out of the prefix cache that holds the KV of
\* an ordinary prefill: not the request's own exact prefix, and not a block
\* that has passed to another request since (_FilledBlocks: blocks before the
\* fill "must keep their entries").
OnlyFillsEvicted ==
  [][\A b \in Blocks :
       (alloc # {} \/ pc = "build") /\ hash[b] # 0 /\ hash'[b] = 0
         => b \in approx]_vars

\* While a request runs, the next pass over its entry finds every block that
\* its loads contaminated and that is still cached: none is behind the cursor,
\* among the settled or missing from the table, so an eviction that raised is
\* tried again. The exception is a block before the last load's first: a load
\* in the middle of the prefill restarts the entry there, and what raised
\* before is given up (_settle, _cached_fill_blocks, _extend_block_table,
\* update_state_after_alloc).
NothingSkipped ==
  \A r \in Requests :
    phase[r] = "running" /\ r \notin alloc /\ Evicts(r) /\ fillAt[r] > 0
      => LET next == ExtendBlockTable(r, tracked[r]) IN
         \A k \in fillAt[r] .. Len(table[r]) :
           hash[table[r][k]] # 0 =>
             \/ table[r][k] \in CachedFillBlocks(next, hash)
             \/ k < next.first

\* The ledger of the blocks a request was counted for outlives every drop of
\* its block-table state: preemption and a readmission, served or not, never
\* shrink it while the request lives (_reported_fill_blocks).
LedgerKept ==
  [][\A r \in Requests :
       phase[r] # "none" /\ phase'[r] # "none"
         => reported[r] \subseteq reported'[r]]_vars

\* docs/QUICKSTART_VLLM.md:180: "so a later request whose token prefix matches
\* a served request is consulted afresh rather than handed the donor's KV
\* through an exact hit". The blocks a running request completes are hashed in
\* the running loop and evicted in build_connector_meta; a request admitted in
\* between can hit them.
NoApproxHit ==
  [][\A r \in Requests : phase[r] # "running" /\ phase'[r] = "running" =>
       In(table'[r]) \cap (approx' \ left') \subseteq
         From(table'[r], fillAt'[r])]_vars
=============================================================================
