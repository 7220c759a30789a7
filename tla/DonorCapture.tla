---------------------------- MODULE DonorCapture ----------------------------
(***************************************************************************)
(* The worker role's capture path (connector.py): save_kv_layer copies the *)
(* layers of a donor chunk by chunk and queues their writes, wait_for_save *)
(* joins the writer and queues the metadata record that makes the donor    *)
(* discoverable, get_finished publishes or discards what a finished        *)
(* request leaves, and shutdown closes the writer.                         *)
(*                                                                         *)
(* The writer thread runs concurrently and settles the queued jobs in      *)
(* order; its own threads, bound and deadlines are CaptureWriter's         *)
(* subject. Here the queue is unbounded (a full queue only delays the      *)
(* submitter) and one step of the writer is one job.                       *)
(*                                                                         *)
(* The scheduler role is the environment: a step brings any set of stores, *)
(* finalizes and finished ids that _build_store_metadata can send. A       *)
(* preempted request admitted again restarts its announcements, so any end *)
(* may follow any other. A request id may be used again, also by a request *)
(* admitted in the very step that ships the finish of the id's last use.   *)
(* Every use of an id has the same namespace, hence the same storage key.  *)
(***************************************************************************)
EXTENDS Integers, Sequences, FiniteSets

CONSTANTS
  NumRequests,     \* bound: distinct request ids
  NumLayers,       \* attention layers of the model
  PromptCap,       \* blocks of a prompt's cacheable prefix; a store that
                   \* reaches it is final
  MaxUses,         \* bound: how often a request id is used, 1 is no reuse
  Backend,         \* kv_storage_backend
  MaxDonors,       \* kv_memory_max_donors
  MidStepShutdown  \* whether shutdown may come between save_kv_layer and
                   \* wait_for_save

ASSUME SizeAssumption ==
  NumRequests \in Nat /\ NumLayers \in Nat \ {0} /\ PromptCap \in Nat \ {0}
    /\ MaxUses \in Nat
ASSUME BackendAssumption == Backend \in {"disk", "memory"}
ASSUME MaxDonorsAssumption == MaxDonors \in Int
ASSUME ShutdownAssumption == MidStepShutdown \in BOOLEAN

Requests == 1 .. NumRequests
Layers == 1 .. NumLayers
Lengths == 0 .. PromptCap

\* What a layer file or a record holds: gen is the use of the request id the
\* bytes come from (0: no file, Mixed: not of one use), len how many blocks of
\* it can be read (0 in a file that a failed write left torn).
Mixed == MaxUses + 1
Bytes == [gen : 0 .. Mixed, len : Lengths]
NoBytes == [gen |-> 0, len |-> 0]

\* WriteJob. A layer job names one layer, a metadata job the layers it
\* vouches for.
Job == [kind : {"layer", "metadata"}, req : Requests, names : SUBSET Layers,
        bytes : Bytes]

VARIABLES
  use,        \* engine: the current use of each request id
  live,       \* engine: the requests not finished yet
  pc,         \* where the forward thread is
  hook,       \* the hook that runs _flush_captures
  stores,     \* this step's PendingStore.token_count per request, 0: none
  finalize,   \* this step's metadata.finalize
  finished,   \* this step's finished_req_ids
  layer,      \* the layer being saved
  left,       \* the stores not yet captured at this layer
  progress,   \* _capture_progress, 0: no entry
  opened,     \* the keys of _capture_namespaces
  finalized,  \* _finalized_donors, 0: no entry
  failed,     \* _capture_write_failed
  pending,    \* _finalize_pending
  queue,      \* the writer's queue, the job being written included
  writer,     \* the CaptureWriter's life
  wfailed,    \* _writer_failed_requests
  wevicted,   \* _writer_evicted
  file,       \* layer files, or the layers of the memory entry
  record,     \* metadata.json
  lru,        \* _memory_store's order, least recently used first
  damaged,    \* history: requests one of whose layer writes raised
  undeleted   \* history: requests whose files or record an OSError kept

engine  == <<use, live>>
step    == <<stores, finalize, finished, layer, left>>
capture == <<progress, opened, finalized, failed, pending>>
reports == <<wfailed, wevicted>>
disk    == <<file, record, lru>>
history == <<damaged, undeleted>>
vars == <<engine, pc, hook, step, capture, queue, writer, reports, disk,
          history>>

TypeOK ==
  /\ use \in [Requests -> 0 .. MaxUses]
  /\ live \subseteq Requests
  /\ pc \in {"idle", "save", "flush1", "publish", "flush2", "finish",
             "retire", "closing"}
  /\ hook \in {"wait_for_save", "get_finished", "shutdown"}
  /\ stores \in [Requests -> Lengths]
  /\ finalize \subseteq Requests
  /\ finished \subseteq Requests
  /\ layer \in 0 .. NumLayers
  /\ left \subseteq Requests
  /\ progress \in [Requests -> [Layers -> Lengths]]
  /\ opened \subseteq Requests
  /\ finalized \in [Requests -> Lengths]
  /\ failed \subseteq Requests
  /\ pending \subseteq Requests
  /\ queue \in Seq(Job)
  /\ writer \in {"none", "open", "closing", "wedged", "closed"}
  /\ wfailed \subseteq Requests
  /\ wevicted \subseteq Requests
  /\ file \in [Requests -> [Layers -> Bytes]]
  /\ record \in [Requests -> Bytes]
  /\ lru \in Seq(Requests)
  /\ damaged \subseteq Requests
  /\ undeleted \subseteq Requests

NoLayers(x) == [l \in Layers |-> x]

Init ==
  /\ use = [r \in Requests |-> 0]
  /\ live = {}
  /\ pc = "idle"
  /\ hook = "wait_for_save"
  /\ stores = [r \in Requests |-> 0]
  /\ finalize = {}
  /\ finished = {}
  /\ layer = 0
  /\ left = {}
  /\ progress = [r \in Requests |-> NoLayers(0)]
  /\ opened = {}
  /\ finalized = [r \in Requests |-> 0]
  /\ failed = {}
  /\ pending = {}
  /\ queue = << >>
  /\ writer = "none"
  /\ wfailed = {}
  /\ wevicted = {}
  /\ file = [r \in Requests |-> NoLayers(NoBytes)]
  /\ record = [r \in Requests |-> NoBytes]
  /\ lru = << >>
  /\ damaged = {}
  /\ undeleted = {}

-----------------------------------------------------------------------------
(* Reading the capture state. *)

\* This step ships the finish of the id's last use together with a chunk of
\* its next one. The worker keeps its books by id, and get_finished, at the
\* end of the step, is where it forgets the last use.
Overlapped(r) == r \in finished /\ r \in live

Captured(p) == {l \in Layers : p[l] > 0}

\* n = min(progress.values())
IsShortest(p, n) ==
  (\E l \in Captured(p) : p[l] = n) /\ (\A l \in Captured(p) : n <= p[l])

\* _queue_finalize: whether a donor with progress p would be marked, given
\* the failures and publications known.
Finalizable(r, p) ==
  /\ r \notin failed
  /\ Captured(p) # {}
  /\ ~IsShortest(p, finalized[r])

\* The newest staged copy of a layer: what is queued and not yet written.
StagedAt(r, l) ==
  {i \in 1 .. Len(queue) : /\ queue[i].kind = "layer"
                           /\ queue[i].req = r
                           /\ queue[i].names = {l}}

\* _captured_layer: the copy an appended chunk continues, NoBytes when there
\* is none that can be trusted.
CapturedLayer(r, l) ==
  IF r \in failed THEN NoBytes
  ELSE IF StagedAt(r, l) # {}
       THEN queue[CHOOSE i \in StagedAt(r, l) :
                    \A j \in StagedAt(r, l) : j <= i].bytes
       ELSE file[r][l]

WriterClosed == writer \in {"closing", "wedged", "closed"}

\* Mutant: join waits on a closed writer too.
JoinWaits == queue = << >>

\* CaptureWriter.join: a closed writer never waits.
JoinReturns == writer = "open" => queue = << >>

\* _drain_writer_reports, with refused added to what the writer reported and
\* fin the publications known.
Drain(refused, fin) ==
  /\ failed' = failed \cup wfailed \cup refused
  /\ wfailed' = {}
  /\ wevicted' = {}
  /\ finalized' = [r \in Requests |-> IF r \in wevicted THEN 0 ELSE fin[r]]

DrainedProgress ==
  [r \in Requests |-> IF r \in wevicted THEN NoLayers(0) ELSE progress[r]]

-----------------------------------------------------------------------------
(* save_kv_layer. *)

\* The requests whose capture _capture_admitted opens in a step with stores st
\* and finished ids fn: the finished ids are retired first, so a store for one
\* of them is a new use's.
Admitted(st, fn) == {r \in Requests : st[r] > 0 /\ (r \in fn \/ r \notin live)}

\* A step starts: the scheduler's metadata is bound. A running request sends a
\* store or is closed by a finalize; one that finished mid-capture is in
\* finalize and in the finished ids.
BeginStep ==
  /\ pc = "idle"
  /\ \E st \in [Requests -> Lengths], fz, fn \in SUBSET Requests :
       /\ fz \cup fn \subseteq live
       /\ \A r \in fz \ fn : st[r] = 0
       /\ \A r \in Admitted(st, fn) : use[r] < MaxUses
       /\ stores' = st
       /\ finalize' = fz
       /\ finished' = fn
       /\ use' = [r \in Requests |->
                    IF r \in Admitted(st, fn) THEN use[r] + 1 ELSE use[r]]
       /\ live' = (live \ fn) \cup {r \in Requests : st[r] > 0}
  /\ pc' = "save"
  /\ UNCHANGED <<hook, layer, left, capture, queue, writer, reports, disk,
                 history>>

\* save_kv_layer is called for the next layer: the finalizes come first.
SaveKvLayer ==
  /\ pc = "save"
  /\ left = {}
  /\ layer < NumLayers
  /\ layer' = layer + 1
  /\ left' = {r \in Requests : stores[r] > 0}
  /\ pending' = pending \cup {r \in finalize : Finalizable(r, progress[r])}
  /\ UNCHANGED <<engine, pc, hook, stores, finalize, finished, progress,
                 opened, finalized, failed, queue, writer, reports, disk,
                 history>>

\* if store.final: _queue_finalize
FinalPending(r, p) ==
  IF stores[r] >= PromptCap /\ Finalizable(r, p) THEN pending \cup {r}
                                                 ELSE pending

\* The layer already holds the end this store announces.
CaptureNothingNew(r) ==
  /\ pc = "save"
  /\ r \in left
  /\ progress[r][layer] >= stores[r]
  /\ left' = left \ {r}
  /\ pending' = FinalPending(r, progress[r])
  /\ UNCHANGED <<engine, pc, hook, stores, finalize, finished, layer,
                 progress, opened, finalized, failed, queue, writer, reports,
                 disk, history>>

\* Mutant: the base is appended to a window that was read from token 0.
WindowOverlaps(r) ==
  LET base == CapturedLayer(r, layer)
  IN  IF progress[r][layer] = 0 \/ base.len = 0
      THEN [gen |-> use[r], len |-> stores[r]]
      ELSE [gen |-> base.gen, len |-> base.len + stores[r]]

\* Mutant: a chunk is stored without the base it continues.
WindowTailOnly(r) ==
  [gen |-> use[r], len |-> stores[r] - progress[r][layer]]

\* The bytes handed to the writer: the stored base and the new window, or the
\* whole prefix from token 0 when the base is gone. The base is looked up by
\* the request id alone, whichever use of it the bytes are from.
Window(r) ==
  LET start == progress[r][layer]
      base  == CapturedLayer(r, layer)
  IN  IF start = 0 \/ base.len = 0
      THEN [gen |-> use[r], len |-> stores[r]]
      ELSE [gen |-> IF base.gen = use[r] THEN use[r] ELSE Mixed,
            len |-> base.len + (stores[r] - start)]

LayerJob(r, bytes) ==
  [kind |-> "layer", req |-> r, names |-> {layer}, bytes |-> bytes]

Progressed(r) == [progress EXCEPT ![r][layer] = stores[r]]

\* _capture_layer: copy the window, hand it to the writer, move the progress.
CaptureLayer(r) ==
  /\ pc = "save"
  /\ r \in left
  /\ progress[r][layer] < stores[r]
  /\ ~WriterClosed
  /\ queue' = Append(queue, LayerJob(r, Window(r)))
  /\ writer' = "open"
  /\ opened' = opened \cup {r}
  /\ progress' = Progressed(r)
  /\ left' = left \ {r}
  /\ pending' = FinalPending(r, progress'[r])
  /\ UNCHANGED <<engine, pc, hook, stores, finalize, finished, layer,
                 finalized, failed, reports, disk, history>>

\* _capture_layer on a closed writer: submit is refused, the write is
\* recorded as failed and the reports are drained, and the progress moves as
\* though it had been accepted.
CaptureRefused(r) ==
  /\ pc = "save"
  /\ r \in left
  /\ progress[r][layer] < stores[r]
  /\ WriterClosed
  /\ Drain({r}, finalized)
  /\ opened' = opened \cup {r}
  /\ progress' = [DrainedProgress EXCEPT ![r] = Progressed(r)[r]]
  /\ left' = left \ {r}
  /\ damaged' = damaged \cup {r}
  /\ UNCHANGED <<engine, pc, hook, stores, finalize, finished, layer, pending,
                 queue, writer, disk, undeleted>>

-----------------------------------------------------------------------------
(* wait_for_save and get_finished: _flush_captures, twice. *)

WaitForSave ==
  /\ pc = "save"
  /\ left = {}
  /\ layer = NumLayers
  /\ hook' = "wait_for_save"
  /\ pc' = "flush1"
  /\ UNCHANGED <<engine, step, capture, queue, writer, reports, disk, history>>

\* Mutant: the records are queued without waiting for the layers.
FlushNoJoin ==
  /\ pc = "flush1"
  /\ Drain({}, finalized)
  /\ progress' = DrainedProgress
  /\ pc' = "publish"
  /\ UNCHANGED <<engine, hook, step, opened, pending, queue, writer, disk,
                 history>>

\* The first join, and the reports of what landed and what failed.
FlushJoin ==
  /\ pc = "flush1"
  /\ JoinReturns
  /\ Drain({}, finalized)
  /\ progress' = DrainedProgress
  /\ pc' = "publish"
  /\ UNCHANGED <<engine, hook, step, opened, pending, queue, writer, disk,
                 history>>

\* _submit_pending_finalizes goes through the marked donors in order.
NextPending(r) ==
  /\ pc = "publish"
  /\ r \in pending
  /\ \A s \in pending : r <= s
  /\ pending' = pending \ {r}

Publishable(r) == r \in opened /\ Captured(progress[r]) # {} /\ r \notin failed

SkipFinalize(r) ==
  /\ NextPending(r)
  /\ ~Publishable(r)
  /\ UNCHANGED <<engine, pc, hook, step, progress, opened, finalized, failed,
                 queue, writer, reports, disk, history>>

\* The use a record is for. One queued while the books hold both uses of an
\* id is for neither of them.
RecordUse(r) == IF Overlapped(r) THEN Mixed ELSE use[r]

MetadataJob(r, n) ==
  [kind |-> "metadata", req |-> r, names |-> Captured(progress[r]),
   bytes |-> [gen |-> RecordUse(r), len |-> n]]

\* Mutant: the record is submitted with the longest layer's length.
SubmitFinalizeLongest(r, n) ==
  /\ NextPending(r)
  /\ Publishable(r)
  /\ IsShortest(progress[r], n)
  /\ ~WriterClosed
  /\ finalized' = [finalized EXCEPT ![r] = n]
  /\ queue' = Append(queue, MetadataJob(r, PromptCap))
  /\ UNCHANGED <<engine, pc, hook, step, progress, opened, failed, writer,
                 reports, disk, history>>

\* Mutant: the marked donor is dropped without a record.
SubmitNothing(r, n) ==
  /\ NextPending(r)
  /\ IsShortest(progress[r], n)
  /\ UNCHANGED <<engine, pc, hook, step, progress, opened, finalized, failed,
                 queue, writer, reports, disk, history>>

SubmitFinalize(r, n) ==
  /\ NextPending(r)
  /\ Publishable(r)
  /\ IsShortest(progress[r], n)
  /\ ~WriterClosed
  /\ finalized' = [finalized EXCEPT ![r] = n]
  /\ queue' = Append(queue, MetadataJob(r, n))
  /\ UNCHANGED <<engine, pc, hook, step, progress, opened, failed, writer,
                 reports, disk, history>>

\* The writer is closed, or teardown's bounded put found the queue full.
FinalizeRefused(r, n) ==
  /\ NextPending(r)
  /\ Publishable(r)
  /\ IsShortest(progress[r], n)
  /\ WriterClosed \/ (hook = "shutdown" /\ queue # << >>)
  /\ Drain({r}, [finalized EXCEPT ![r] = n])
  /\ progress' = DrainedProgress
  /\ UNCHANGED <<engine, pc, hook, step, opened, queue, writer, disk, history>>

PublishDone ==
  /\ pc = "publish"
  /\ pending = {}
  /\ hook # "shutdown"
  /\ pc' = "flush2"
  /\ UNCHANGED <<engine, hook, step, capture, queue, writer, reports, disk,
                 history>>

\* The second join; wait_for_save is followed by get_finished.
FlushEnd ==
  /\ pc = "flush2"
  /\ JoinReturns
  /\ Drain({}, finalized)
  /\ progress' = DrainedProgress
  /\ pc' = IF hook = "wait_for_save" THEN "finish" ELSE "retire"
  /\ UNCHANGED <<engine, hook, step, opened, pending, queue, writer, disk,
                 history>>

\* get_finished: the backstop for a capture nobody closed, then the flush.
GetFinished ==
  /\ pc = "finish"
  /\ pending' = pending \cup {r \in finished : Finalizable(r, progress[r])}
  /\ hook' = "get_finished"
  /\ pc' = "flush1"
  /\ UNCHANGED <<engine, step, progress, opened, finalized, failed, queue,
                 writer, reports, disk, history>>

\* _discard_unpublished_capture, for the donors rs: the disk files without a
\* record go, except those that an OSError keeps.
Orphans(rs) ==
  IF Backend = "disk"
  THEN {r \in rs \cap opened : /\ record[r] = NoBytes
                               /\ file[r] # NoLayers(NoBytes)}
  ELSE {}

\* Mutant: the files of an unpublished capture stay.
DiscardNothing(rs, kept) == UNCHANGED <<file, record, lru, undeleted>>

Discard(rs, kept) ==
  /\ file' = [r \in Requests |-> IF r \in Orphans(rs) \ kept
                                 THEN NoLayers(NoBytes) ELSE file[r]]
  /\ undeleted' = undeleted \cup kept
  /\ UNCHANGED <<record, lru>>

\* get_finished, after the flush: each finished request is forgotten.
Retire(r, kept) ==
  /\ pc = "retire"
  /\ r \in finished
  /\ kept \subseteq Orphans({r})
  /\ Discard({r}, kept)
  /\ finished' = finished \ {r}
  /\ progress' = [progress EXCEPT ![r] = NoLayers(0)]
  /\ opened' = opened \ {r}
  /\ finalized' = [finalized EXCEPT ![r] = 0]
  /\ failed' = failed \ {r}
  /\ UNCHANGED <<engine, pc, hook, stores, finalize, layer, left, pending,
                 queue, writer, reports, damaged>>

\* The engine unbinds the step's metadata.
ClearStep ==
  /\ pc' = "idle"
  /\ hook' = "wait_for_save"
  /\ stores' = [r \in Requests |-> 0]
  /\ finalize' = {}
  /\ finished' = {}
  /\ layer' = 0
  /\ left' = {}

EndStep ==
  /\ pc = "retire"
  /\ finished = {}
  /\ ClearStep
  /\ UNCHANGED <<engine, capture, queue, writer, reports, disk, history>>

-----------------------------------------------------------------------------
(* shutdown. *)

\* Without a writer shutdown returns at once. A shutdown in the middle of a
\* step cuts the step short.
Shutdown ==
  /\ pc = "idle" \/ (MidStepShutdown /\ pc = "save")
  /\ writer = "open"
  /\ hook' = "shutdown"
  /\ pc' = "publish"
  /\ UNCHANGED <<engine, step, capture, queue, writer, reports, disk, history>>

\* The pending records are queued; writer.close begins.
CloseWriter ==
  /\ pc = "publish"
  /\ pending = {}
  /\ hook = "shutdown"
  /\ writer' = "closing"
  /\ pc' = "closing"
  /\ UNCHANGED <<engine, hook, step, capture, queue, reports, disk, history>>

\* The rest of shutdown once close has returned: the reports, and, if the
\* thread has stopped, the unpublished captures.
Closed(w, refused, kept) ==
  /\ writer' = w
  /\ Drain(refused, finalized)
  /\ progress' = DrainedProgress
  /\ ClearStep
  /\ IF w = "closed" THEN kept \subseteq Orphans(opened) /\ Discard(opened, kept)
                     ELSE kept = {} /\ UNCHANGED <<disk, undeleted>>
  /\ UNCHANGED <<engine, opened, pending>>

CloseDrained(kept) ==
  /\ pc = "closing"
  /\ queue = << >>
  /\ Closed("closed", {}, kept)
  /\ UNCHANGED <<queue, damaged>>

\* The deadline passes with the sentinel queued behind the jobs: they stay.
CloseTimesOut ==
  /\ pc = "closing"
  /\ Closed("wedged", {}, {})
  /\ UNCHANGED <<queue, damaged>>

\* The deadline passes with the queue full: every queued job is reported as
\* failed, except the one the thread is holding, if any. Without one the
\* thread may be gone by the time shutdown looks.
CloseAbandons(w, first, kept) ==
  /\ pc = "closing"
  /\ queue # << >>
  /\ first \in {1, 2}
  /\ first = 2 => w = "wedged"
  /\ Closed(w, {queue[i].req : i \in first .. Len(queue)}, kept)
  /\ damaged' = damaged \cup {queue[i].req :
                  i \in {k \in first .. Len(queue) : queue[k].kind = "layer"}}
  /\ queue' = SubSeq(queue, 1, first - 1)

-----------------------------------------------------------------------------
(* The writer thread: _run_write_job and _record_write_error. *)

WriterTakes(kind) ==
  /\ writer \in {"open", "closing", "wedged"}
  /\ queue # << >>
  /\ Head(queue).kind = kind
  /\ queue' = Tail(queue)

\* The layer a layer job is about.
Target(job) == CHOOSE l \in job.names : TRUE

Stored(job, bytes) == [file EXCEPT ![job.req][Target(job)] = bytes]

\* _write_captured_layer, disk: save_file.
LayerLands ==
  /\ Backend = "disk"
  /\ WriterTakes("layer")
  /\ file' = Stored(Head(queue), Head(queue).bytes)
  /\ UNCHANGED <<engine, pc, hook, step, capture, writer, reports, record,
                 lru, history>>

\* The write raises. On disk the file is as it was, or torn by a write that
\* stopped part-way (save_file writes in place); in memory it is as it was.
LayerFails(torn) ==
  /\ torn => Backend = "disk"
  /\ WriterTakes("layer")
  /\ file' = IF torn THEN Stored(Head(queue), [Head(queue).bytes EXCEPT !.len = 0])
                     ELSE file
  /\ wfailed' = wfailed \cup {Head(queue).req}
  /\ damaged' = damaged \cup {Head(queue).req}
  /\ UNCHANGED <<engine, pc, hook, step, capture, writer, wevicted, record,
                 lru, undeleted>>

InMemory(r) == \E i \in 1 .. Len(lru) : lru[i] = r

\* max(1, kv_memory_max_donors)
DonorLimit == IF MaxDonors < 1 THEN 1 ELSE MaxDonors

\* OrderedDict.move_to_end
MovedToEnd(i) ==
  SubSeq(lru, 1, i - 1) \o SubSeq(lru, i + 1, Len(lru)) \o <<lru[i]>>

\* _write_captured_layer, memory, of a donor that has an entry: it becomes
\* the most recently used.
LayerStaysInMemory ==
  /\ Backend = "memory"
  /\ WriterTakes("layer")
  /\ file' = Stored(Head(queue), Head(queue).bytes)
  /\ \E i \in 1 .. Len(lru) :
       lru[i] = Head(queue).req /\ lru' = MovedToEnd(i)
  /\ UNCHANGED <<engine, pc, hook, step, capture, writer, reports, record,
                 history>>

\* _write_captured_layer, memory, of a donor without an entry, while there is
\* room for one.
LayerEntersMemory ==
  /\ Backend = "memory"
  /\ WriterTakes("layer")
  /\ ~InMemory(Head(queue).req)
  /\ Len(lru) < DonorLimit
  /\ file' = Stored(Head(queue), Head(queue).bytes)
  /\ lru' = Append(lru, Head(queue).req)
  /\ UNCHANGED <<engine, pc, hook, step, capture, writer, reports, record,
                 history>>

\* Mutant: the evicted donor's record is left behind.
EvictKeepsRecord(retracted) ==
  /\ Backend = "memory"
  /\ WriterTakes("layer")
  /\ ~InMemory(Head(queue).req)
  /\ Len(lru) >= DonorLimit
  /\ file' = [Stored(Head(queue), Head(queue).bytes) EXCEPT
                ![Head(lru)] = NoLayers(NoBytes)]
  /\ lru' = Append(Tail(lru), Head(queue).req)
  /\ wevicted' = wevicted \cup {Head(lru)}
  /\ UNCHANGED <<engine, pc, hook, step, capture, writer, wfailed, record,
                 history>>

\* The same with the store full: _evict_memory_donor drops the least recently
\* used donor and retracts its record; an OSError keeps the record.
LayerEvicts(retracted) ==
  /\ Backend = "memory"
  /\ WriterTakes("layer")
  /\ ~InMemory(Head(queue).req)
  /\ Len(lru) >= DonorLimit
  /\ file' = [Stored(Head(queue), Head(queue).bytes) EXCEPT
                ![Head(lru)] = NoLayers(NoBytes)]
  /\ lru' = Append(Tail(lru), Head(queue).req)
  /\ wevicted' = wevicted \cup {Head(lru)}
  /\ record' = IF retracted THEN [record EXCEPT ![Head(lru)] = NoBytes]
                            ELSE record
  /\ undeleted' = IF retracted THEN undeleted ELSE undeleted \cup {Head(lru)}
  /\ UNCHANGED <<engine, pc, hook, step, capture, writer, wfailed, damaged>>

\* The layers a metadata job vouches for are all there.
NoneMissing(job) == \A l \in job.names : file[job.req][l].gen > 0

\* _write_donor_metadata: the record is replaced.
RecordLands ==
  /\ WriterTakes("metadata")
  /\ NoneMissing(Head(queue))
  /\ record' = [record EXCEPT ![Head(queue).req] = Head(queue).bytes]
  /\ UNCHANGED <<engine, pc, hook, step, capture, writer, reports, file, lru,
                 history>>

\* _write_donor_metadata raises: a layer is missing, or the store fails.
RecordFails ==
  /\ WriterTakes("metadata")
  /\ Backend = "disk" \/ InMemory(Head(queue).req)
  /\ wfailed' = wfailed \cup {Head(queue).req}
  /\ UNCHANGED <<engine, pc, hook, step, capture, writer, wevicted, disk,
                 history>>

\* _write_donor_metadata, memory: the donor was evicted; nothing to publish.
RecordSkipped ==
  /\ WriterTakes("metadata")
  /\ Backend = "memory"
  /\ ~InMemory(Head(queue).req)
  /\ UNCHANGED <<engine, pc, hook, step, capture, writer, reports, disk,
                 history>>

\* The thread of a closed writer finds the queue empty and stops.
ThreadStops ==
  /\ writer = "wedged"
  /\ queue = << >>
  /\ writer' = "closed"
  /\ UNCHANGED <<engine, pc, hook, step, capture, queue, reports, disk,
                 history>>

-----------------------------------------------------------------------------

Save ==
  \/ SaveKvLayer
  \/ \E r \in Requests :
       CaptureNothingNew(r) \/ CaptureLayer(r) \/ CaptureRefused(r)

Flush ==
  \/ WaitForSave \/ FlushJoin \/ PublishDone \/ FlushEnd \/ GetFinished
  \/ \E r \in Requests : SkipFinalize(r)
  \/ \E r \in Requests, n \in Lengths :
       SubmitFinalize(r, n) \/ FinalizeRefused(r, n)
  \/ \E r \in Requests : \E kept \in SUBSET {r} : Retire(r, kept)
  \/ EndStep

Teardown ==
  \/ CloseWriter
  \/ \E kept \in SUBSET Requests : CloseDrained(kept)
  \/ CloseTimesOut
  \/ \E w \in {"wedged", "closed"}, first \in {1, 2},
        kept \in SUBSET Requests : CloseAbandons(w, first, kept)

Writer ==
  \/ LayerLands
  \/ \E torn \in BOOLEAN : LayerFails(torn)
  \/ LayerStaysInMemory \/ LayerEntersMemory
  \/ \E retracted \in BOOLEAN : LayerEvicts(retracted)
  \/ RecordLands \/ RecordFails \/ RecordSkipped

Next ==
  \/ BeginStep
  \/ Save \/ Flush
  \/ Shutdown \/ Teardown
  \/ Writer \/ ThreadStops

Spec == Init /\ [][Next]_vars

\* A step that began is run to its end, teardown is bounded, and the writer
\* thread gets to its queue until it is closed. A closed writer may be stuck
\* in its last write for good.
Fairness ==
  /\ WF_vars(Save \/ Flush \/ Teardown)
  /\ WF_vars(writer \in {"open", "closing"} /\ Writer)

FairSpec == Spec /\ Fairness

-----------------------------------------------------------------------------
(* Properties. *)

Backs(r, b) ==
  \A l \in Layers : file[r][l].gen = b.gen /\ file[r][l].len >= b.len

\* A metadata record is published only over bytes that can serve it: at that
\* moment every layer of the model is on the store, readable, from this use
\* of the request id, and at least as long as the record says
\* (_flush_captures: "it can neither overtake the tensors nor outlive their
\* failure"). The named exception is an id of which this step ships the finish
\* together with a chunk of the next use: see OneUse.
PublishedComplete ==
  [][\A r \in Requests :
       record'[r] # record[r] /\ record'[r] # NoBytes /\ ~Overlapped(r)
         => Backs(r, record'[r])]_vars

\* A published record stays true: chunks that grow the donor, restarts,
\* eviction and discards never leave a record longer than the bytes behind it
\* or over another donor's bytes (_queue_finalize: "a record longer than the
\* bytes is the failure this ordering exists to prevent"). Donors with a
\* layer write that raised, those whose record an OSError kept, the record
\* of an id that is in use again, whose layers the new use writes over, and a
\* record for two uses at once are the named exceptions.
RecordBacked ==
  \A r \in Requests \ (damaged \cup undeleted) :
    record[r].gen = use[r] /\ record[r] # NoBytes => Backs(r, record[r])

\* The copy a chunk appends to ends exactly where the layer's progress says,
\* whether it is staged or on the store, or there is none and the capture
\* restarts from 0. _capture_layer reads only the window after the progress,
\* so a shorter or longer base would shift every token after it. The copy is
\* of the same use of the id, except in the step that ships the finish of the
\* use before: there its length alone is right, and see OneUse. A write
\* reported but not yet drained is the other exception, and every step drains
\* before the next chunk.
ChunksContiguous ==
  \A r \in Requests \ wfailed, l \in Layers :
    progress[r][l] > 0 /\ CapturedLayer(r, l).len > 0
      => /\ CapturedLayer(r, l).len = progress[r][l]
         /\ Overlapped(r) \/ CapturedLayer(r, l).gen = use[r]

\* No published donor has a layer that continues one use of a request id with
\* the chunk of another (_captured_layer: "a chunked capture appends to what
\* the previous chunk produced").
OneUse ==
  \A r \in Requests, l \in Layers :
    record[r] # NoBytes => file[r][l].gen # Mixed

\* The disk tier has no eviction, so a capture that the worker has forgotten
\* and never published has no files left (_discard_unpublished_capture),
\* unless removing them failed.
NoOrphans ==
  Backend = "disk" /\ ~WriterClosed
    => \A r \in Requests \ (opened \cup undeleted) :
         record[r] = NoBytes => file[r] = NoLayers(NoBytes)

\* A donor marked for publication is published, or one of its writes is
\* reported as failed, unless it is evicted from the memory tier or the writer
\* is closed first.
MarkedIsSettled ==
  \A r \in Requests :
    r \in pending
      ~> \/ record[r].gen = RecordUse(r)
         \/ r \in failed \cup wfailed
         \/ Backend = "memory" /\ ~InMemory(r)
         \/ WriterClosed

\* Every hook returns to the engine, also after a shutdown that left the
\* writer stuck in a write (_flush_captures: "it has to return there rather
\* than join work nobody is going to run").
HooksReturn == pc # "idle" ~> pc = "idle"
=============================================================================
