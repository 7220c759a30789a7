------------------------- MODULE DonorCaptureProofs -------------------------
(***************************************************************************)
(* Proofs about DonorCapture, for any number of requests, layers, chunks   *)
(* and uses of an id, on either tier and with any limit of the memory      *)
(* tier.                                                                   *)
(*                                                                         *)
(* The properties rest on what the two joins of a step arrange: when a     *)
(* record is queued no layer is, so what is stored is exactly what the     *)
(* progress says. The inductive invariant says what the queue, the store   *)
(* and the progress have to do with one another at each place of the       *)
(* forward thread. The part called Orderly is about a worker whose steps   *)
(* no shutdown has cut short: after such a shutdown the writer goes on     *)
(* over half a step, which is the subject of the run that publishes over   *)
(* a hole. An id whose finish is shipped together with a chunk of its next *)
(* use (Overlapped) is in the model and in every lemma: the lengths stay   *)
(* right for it, whose bytes they are does not, and its record is then for *)
(* neither use. get_finished, at the end of that step, ends the exception. *)
(***************************************************************************)
EXTENDS DonorCapture, SequenceTheorems, WellFoundedInduction, TLAPS

\* The jobs in the writer's queue, whatever their order.
JobsIn == {queue[i] : i \in 1 .. Len(queue)}

IsLayer(j, r, l) == j.kind = "layer" /\ j.req = r /\ j.names = {l}

\* A copy of the layer is queued and not yet written.
Staged(r, l) == \E j \in JobsIn : IsLayer(j, r, l)

\* These bytes are the whole of what the worker believes it has captured of a
\* layer, and of this use of the id unless the step carries two uses of it.
Fits(r, l, b) ==
  b.len = progress[r][l] /\ (Overlapped(r) \/ b.gen = use[r])

\* This step has still to save this layer of this request.
Ahead(r, l) == l > layer \/ (l = layer /\ r \in left)

\* No shutdown has cut a step short.
Sane == MidStepShutdown => ~WriterClosed /\ hook # "shutdown"

\* Where the hooks stand, and what a step's metadata looks like.
Control ==
  /\ pc \in {"idle", "save", "finish"} => hook = "wait_for_save"
  /\ pc = "retire" => hook = "get_finished"
  /\ hook = "shutdown" => pc \in {"publish", "closing"}
  /\ pc = "closing" => hook = "shutdown"
  /\ writer = "closing" <=> pc = "closing"
  /\ hook = "shutdown" /\ pc = "publish" => writer = "open"
  /\ writer = "none" => queue = << >> /\ opened = {}
  /\ pc = "idle" => layer = 0 /\ left = {} /\ finished = {}
  /\ left # {} => layer > 0
  /\ \A r \in left : stores[r] > 0
  /\ pc = "save" => \A r \in Requests : stores[r] > 0 => r \in live
  /\ \A r \in live : use[r] > 0
  /\ \A j \in JobsIn : j.kind = "layer" => \E l \in Layers : j.names = {l}

\* What is queued belongs to a capture the worker knows of.
Owned == ~WriterClosed => \A j \in JobsIn : j.req \in opened

\* What the two joins of a step leave: layers and records are never queued
\* together, and nothing is queued or unreported between the steps.
Settled ==
  /\ pc \in {"finish", "retire", "idle"} \/ WriterClosed \/ hook = "shutdown"
       => queue = << >> /\ wfailed = {} /\ wevicted = {}
  /\ pc \in {"publish", "flush2"}
       => wevicted = {} /\ \A j \in JobsIn : j.kind = "metadata"
  /\ pc \in {"save", "flush1"} => \A j \in JobsIn : j.kind = "layer"
  /\ pc \in {"idle", "flush2", "finish", "retire"} \/ hook = "shutdown"
       => pending = {}
  /\ hook = "shutdown" => finished = {}
  /\ pc = "publish"
       => \A r \in pending : r \notin wfailed /\ \A j \in JobsIn : j.req # r

Forgotten ==
  \A r \in Requests : r \notin live \cup finished => progress[r] = NoLayers(0)

\* A queued copy is whole.
StagedWhole ==
  \A j \in JobsIn, l \in Layers :
    j.kind = "layer" /\ j.names = {l}
      => progress[j.req][l] > 0 /\ Fits(j.req, l, j.bytes)

\* A layer this step has yet to save is not queued, and what is stored of it
\* is whole or gone.
AheadWhole ==
  pc = "save" =>
    \A r \in Requests, l \in Layers :
      Ahead(r, l) =>
        /\ ~Staged(r, l)
        /\ r \notin failed /\ progress[r][l] > 0 /\ file[r][l].len > 0
             => Fits(r, l, file[r][l])

\* What is stored of a layer that is not queued is whole, or gone; it is gone
\* only by eviction or with a closed writer.
StoredWhole ==
  \A r \in Requests \ (failed \cup wfailed), l \in Layers :
    progress[r][l] > 0 /\ ~Staged(r, l) =>
      /\ file[r][l].len > 0 => Fits(r, l, file[r][l])
      /\ file[r][l].len > 0 \/ r \in wevicted \/ WriterClosed

\* A capture covers all layers or none, up to the layers this step has still
\* to save.
Even ==
  /\ pc = "save" =>
       \A r \in Requests, m \in Layers :
         stores[r] > 0 /\ ~Ahead(r, m) => progress[r][m] > 0
  /\ \A r \in Requests, l, m \in Layers :
       progress[r][l] > 0 =>
         progress[r][m] > 0 \/ (pc = "save" /\ stores[r] > 0 /\ Ahead(r, m))

\* A queued record is backed.
QueuedBacked ==
  \A j \in JobsIn :
    j.kind = "metadata" =>
      /\ j.bytes.gen = RecordUse(j.req)
      /\ Overlapped(j.req) \/ Backs(j.req, j.bytes)
      /\ \A l \in Layers :
           progress[j.req][l] > 0 /\ j.bytes.len <= progress[j.req][l]

\* A published record is backed, and no longer than what the worker still
\* adds to.
RecordKept ==
  /\ \A r \in Requests : record[r].gen <= use[r] \/ record[r].gen = Mixed
  /\ \A r \in Requests : Overlapped(r) => record[r].gen # use[r]
  /\ \A r \in wevicted : record[r] = NoBytes \/ r \in undeleted
  /\ \A r \in Requests \ (damaged \cup undeleted) :
       record[r].gen = use[r] /\ record[r] # NoBytes =>
         /\ Backs(r, record[r])
         /\ r \in live \cup finished =>
              \A l \in Layers : record[r].len <= progress[r][l]

Orderly ==
  /\ Settled
  /\ Forgotten
  /\ StagedWhole
  /\ AheadWhole
  /\ StoredWhole
  /\ Even
  /\ QueuedBacked
  /\ RecordKept

DInv ==
  /\ TypeOK
  /\ Control
  /\ Owned
  /\ NoOrphans
  /\ Sane => Orderly

-----------------------------------------------------------------------------
(* Values, and what the queue's operations do to the jobs in it. *)

\* The values that stand for nothing stored are values of their types.
LEMMA ValueFacts ==
  /\ NoBytes \in Bytes /\ NoBytes.len = 0 /\ NoBytes.gen = 0
  /\ \A r \in Requests, l \in Layers : NoLayers(NoBytes)[l] = NoBytes
  /\ \A l \in Layers : NoLayers(0)[l] = 0 /\ NoLayers(NoBytes)[l] = NoBytes
  /\ NoLayers(0) \in [Layers -> Lengths]
  /\ NoLayers(NoBytes) \in [Layers -> Bytes]
  /\ Lengths \subseteq Nat /\ 0 \in Lengths
  /\ Layers \subseteq Nat /\ \A l \in Layers : l > 0 /\ l <= NumLayers
<1>1. Lengths \subseteq Nat /\ 0 \in Lengths
  BY SizeAssumption DEF Lengths
<1>2. NoBytes \in Bytes /\ NoBytes.len = 0 /\ NoBytes.gen = 0
  BY <1>1, SizeAssumption DEF NoBytes, Bytes, Mixed
<1>3. Layers \subseteq Nat /\ \A l \in Layers : l > 0 /\ l <= NumLayers
  BY SizeAssumption DEF Layers
<1> QED
  BY <1>1, <1>2, <1>3 DEF NoLayers

\* The fields of a job and of what a file holds.
LEMMA JobFields ==
  /\ \A j \in Job : /\ j.kind \in {"layer", "metadata"} /\ j.req \in Requests
                    /\ j.names \subseteq Layers /\ j.bytes \in Bytes
  /\ \A b \in Bytes : b.gen \in Nat /\ b.gen \in 0 .. Mixed
                      /\ b.len \in Nat /\ b.len \in Lengths
<1>1. 0 .. Mixed \subseteq Nat /\ Lengths \subseteq Nat
  BY SizeAssumption, ValueFacts DEF Mixed
<1>2. \A b \in Bytes : b.gen \in 0 .. Mixed /\ b.len \in Lengths
  BY DEF Bytes
<1>3. \A j \in Job : /\ j.kind \in {"layer", "metadata"} /\ j.req \in Requests
                     /\ j.names \subseteq Layers /\ j.bytes \in Bytes
  BY DEF Job
<1> QED
  BY <1>1, <1>2, <1>3

\* submit adds one job.
LEMMA PutJob ==
  ASSUME queue \in Seq(Job), NEW x \in Job, queue' = Append(queue, x)
  PROVE  queue' \in Seq(Job) /\ queue' # << >> /\ JobsIn' = JobsIn \cup {x}
<1>1. /\ queue' \in Seq(Job) /\ Len(queue') = Len(queue) + 1
      /\ \A i \in 1 .. Len(queue) : queue'[i] = queue[i]
      /\ queue'[Len(queue) + 1] = x
  BY AppendProperties
<1>2. Len(queue) \in Nat
  BY LenProperties
<1>3. \A i \in 1 .. Len(queue') : queue'[i] \in JobsIn \cup {x}
  BY <1>1, <1>2 DEF JobsIn
<1>4. \A i \in 1 .. Len(queue) : i \in 1 .. Len(queue') /\ queue'[i] = queue[i]
  BY <1>1, <1>2
<1>5. Len(queue) + 1 \in 1 .. Len(queue')
  BY <1>1, <1>2
<1>6. queue' # << >>
  BY <1>1, <1>2
<1> QED
  BY <1>1, <1>3, <1>4, <1>5, <1>6 DEF JobsIn

\* The writer thread takes one job.
LEMMA TakeJob ==
  ASSUME queue \in Seq(Job), queue # << >>, queue' = Tail(queue)
  PROVE  /\ queue' \in Seq(Job)
         /\ Head(queue) \in Job /\ Head(queue) \in JobsIn
         /\ JobsIn = JobsIn' \cup {Head(queue)}
<1>1. /\ queue' \in Seq(Job) /\ Head(queue) \in Job
      /\ Len(queue') = Len(queue) - 1
      /\ \A i \in 1 .. Len(queue') : queue'[i] = queue[i + 1]
  BY HeadTailProperties
<1>2. Len(queue) \in Nat /\ Len(queue) > 0
  BY EmptySeq, LenProperties
<1>3. Head(queue) = queue[1] /\ 1 \in 1 .. Len(queue)
  BY <1>2
<1>4. \A i \in 1 .. Len(queue') : i + 1 \in 1 .. Len(queue) /\ queue'[i] = queue[i + 1]
  BY <1>1, <1>2
<1>5. \A i \in 1 .. Len(queue) :
        i = 1 \/ (i - 1 \in 1 .. Len(queue') /\ queue'[i - 1] = queue[i])
  BY <1>1, <1>2
<1>6. Head(queue) \in JobsIn /\ \A j \in JobsIn' : j \in JobsIn
  BY <1>3, <1>4 DEF JobsIn
<1>7. \A j \in JobsIn : j \in JobsIn' \cup {Head(queue)}
  BY <1>3, <1>5 DEF JobsIn
<1> HIDE DEF JobsIn
<1> QED
  BY <1>1, <1>6, <1>7

\* The jobs in the queue are jobs, and an empty queue has none.
LEMMA QueueFacts ==
  ASSUME queue \in Seq(Job)
  PROVE  JobsIn \subseteq Job /\ (queue = << >> <=> JobsIn = {})
<1>1. Len(queue) \in Nat /\ \A i \in 1 .. Len(queue) : queue[i] \in Job
  BY LenProperties, ElementOfSeq
<1>2. queue = << >> => Len(queue) = 0
  BY EmptySeq
<1>3. queue # << >> => 1 \in 1 .. Len(queue)
  BY <1>1, EmptySeq
<1>4. JobsIn \subseteq Job
  BY <1>1 DEF JobsIn
<1>5. queue = << >> => JobsIn = {}
  BY <1>2 DEF JobsIn
<1>6. queue # << >> => queue[1] \in JobsIn
  BY <1>3 DEF JobsIn
<1> QED
  BY <1>4, <1>5, <1>6

-----------------------------------------------------------------------------
(* The worker starts with nothing captured. *)

\* The invariant holds of a worker that was just built.
LEMMA InitDInv == Init => DInv
<1> SUFFICES ASSUME Init PROVE DInv
  OBVIOUS
<1>1. queue = << >> /\ queue \in Seq(Job) /\ lru \in Seq(Requests)
  BY EmptySeq DEF Init
<1>2. JobsIn = {}
  BY <1>1, QueueFacts
<1>3. \A r \in Requests : /\ progress[r] = NoLayers(0)
                          /\ file[r] = NoLayers(NoBytes) /\ record[r] = NoBytes
                          /\ use[r] = 0
  BY DEF Init
<1>4. TypeOK
  <2>1. /\ use \in [Requests -> 0 .. MaxUses] /\ stores \in [Requests -> Lengths]
        /\ finalized \in [Requests -> Lengths] /\ layer \in 0 .. NumLayers
    BY SizeAssumption, ValueFacts DEF Init
  <2>2. /\ progress \in [Requests -> [Layers -> Lengths]]
        /\ file \in [Requests -> [Layers -> Bytes]]
        /\ record \in [Requests -> Bytes]
    BY ValueFacts DEF Init
  <2> QED
    BY <1>1, <2>1, <2>2 DEF Init, TypeOK
<1>5. Control
  BY <1>1, <1>2 DEF Init, Control
<1>6. Owned /\ NoOrphans
  BY <1>2, <1>3 DEF Owned, NoOrphans
<1>7. Settled
  BY <1>1, <1>2 DEF Init, Settled
<1>8. \A r \in Requests, l \in Layers : progress[r][l] = 0
  BY <1>3, ValueFacts
<1>9. Forgotten /\ StagedWhole /\ AheadWhole /\ StoredWhole /\ Even
  BY <1>2, <1>3, <1>8 DEF Init, Forgotten, StagedWhole, AheadWhole, StoredWhole, Even
<1>10. QueuedBacked /\ RecordKept
  BY <1>2, <1>3, ValueFacts DEF Init, QueuedBacked, RecordKept, Overlapped
<1> QED
  BY <1>4, <1>5, <1>6, <1>7, <1>9, <1>10 DEF DInv, Orderly

-----------------------------------------------------------------------------
(* Steps of the forward thread that move no data. *)

\* What a step that leaves the captures, the queue and the store alone keeps.
LEMMA StillData ==
  ASSUME UNCHANGED <<use, live, finished, progress, queue, file, record, failed,
                     wfailed, wevicted, damaged, undeleted>>,
         WriterClosed => WriterClosed'
  PROVE  /\ JobsIn' = JobsIn
         /\ \A r, l : Staged(r, l)' <=> Staged(r, l)
         /\ \A r, l, b : Fits(r, l, b)' <=> Fits(r, l, b)
         /\ Forgotten => Forgotten'
         /\ StagedWhole => StagedWhole'
         /\ StoredWhole => StoredWhole'
         /\ QueuedBacked => QueuedBacked'
         /\ RecordKept => RecordKept'
<1>1. JobsIn' = JobsIn
  BY DEF JobsIn
<1>2. \A r, l : Staged(r, l)' <=> Staged(r, l)
  BY <1>1 DEF Staged, IsLayer
<1>3. \A r, l, b : Fits(r, l, b)' <=> Fits(r, l, b)
  BY DEF Fits, Overlapped
<1>4. \A r, b : Backs(r, b)' <=> Backs(r, b)
  BY DEF Backs
<1>5. Forgotten => Forgotten'
  BY DEF Forgotten
<1>6. StagedWhole => StagedWhole'
  BY <1>1, <1>3 DEF StagedWhole
<1>7. StoredWhole => StoredWhole'
  BY <1>2, <1>3 DEF StoredWhole
<1>8. QueuedBacked => QueuedBacked'
  BY <1>1, <1>4 DEF QueuedBacked, Overlapped, RecordUse
<1>9. RecordKept => RecordKept'
  BY <1>4 DEF RecordKept, Overlapped
<1> QED
  BY <1>1, <1>2, <1>3, <1>5, <1>6, <1>7, <1>8, <1>9

\* save_kv_layer marks the finalizes and turns to the next layer.
LEMMA SaveKvLayerDInv ==
  ASSUME DInv, SaveKvLayer
  PROVE  DInv'
<1> USE DEF DInv
<1>1. /\ pc = "save" /\ pc' = "save" /\ left = {} /\ layer < NumLayers
      /\ layer' = layer + 1 /\ left' = {r \in Requests : stores[r] > 0}
      /\ pending' = pending \cup {r \in finalize : Finalizable(r, progress[r])}
      /\ UNCHANGED <<use, live, hook, stores, finalize, finished, progress,
                     opened, finalized, failed, queue, writer, wfailed,
                     wevicted, file, record, lru, damaged, undeleted>>
  BY DEF SaveKvLayer, engine, reports, disk, history
<1>2. layer \in Nat /\ layer' \in 1 .. NumLayers
  BY <1>1, SizeAssumption DEF TypeOK
<1>3. TypeOK'
  <2>1. layer' \in 0 .. NumLayers /\ left' \subseteq Requests /\ pending' \subseteq Requests
    BY <1>1, <1>2 DEF TypeOK
  <2> QED
    BY <1>1, <2>1 DEF TypeOK
<1>4. WriterClosed' <=> WriterClosed
  BY <1>1 DEF WriterClosed
<1>5. /\ JobsIn' = JobsIn
      /\ \A r, l : Staged(r, l)' <=> Staged(r, l)
      /\ \A r, l, b : Fits(r, l, b)' <=> Fits(r, l, b)
  BY <1>1, <1>4, StillData
<1>6. Control'
  BY <1>1, <1>2, <1>5 DEF Control
<1>7. Owned' /\ NoOrphans'
  BY <1>1, <1>4, <1>5 DEF Owned, NoOrphans
<1>8. ASSUME Sane'
      PROVE  Orderly'
  <2>1. Orderly
    BY <1>1, <1>4, <1>8 DEF Sane
  <2>2. Forgotten' /\ StagedWhole' /\ StoredWhole' /\ QueuedBacked' /\ RecordKept'
    BY <1>1, <1>4, <2>1, StillData DEF Orderly
  <2>3. hook # "shutdown"
    BY <1>1 DEF Control
  <2>4. Settled'
    BY <1>1, <1>4, <1>5, <2>1, <2>3 DEF Orderly, Settled
  <2>5. \A r \in Requests, l \in Layers : Ahead(r, l)' => Ahead(r, l)
    BY <1>1, <1>2, ValueFacts DEF Ahead
  <2>6. AheadWhole'
    BY <1>1, <1>5, <2>1, <2>5 DEF Orderly, AheadWhole
  <2>7. \A r \in Requests, l \in Layers : stores[r] > 0 /\ Ahead(r, l) => Ahead(r, l)'
    <3> SUFFICES ASSUME NEW r \in Requests, NEW l \in Layers, stores[r] > 0, Ahead(r, l)
                 PROVE  Ahead(r, l)'
      OBVIOUS
    <3>1. l > layer /\ r \in left' /\ l \in Nat
      BY <1>1, ValueFacts DEF Ahead
    <3> QED
      BY <1>1, <1>2, <3>1 DEF Ahead
  <2>8. Even'
    BY <1>1, <2>1, <2>7 DEF Orderly, Even
  <2> QED
    BY <2>2, <2>4, <2>6, <2>8 DEF Orderly
<1> QED
  BY <1>3, <1>6, <1>7, <1>8

\* A store whose end is already captured changes no copy.
LEMMA CaptureNothingNewDInv ==
  ASSUME DInv, NEW r \in Requests, CaptureNothingNew(r)
  PROVE  DInv'
<1> USE DEF DInv
<1>1. /\ pc = "save" /\ pc' = "save" /\ r \in left /\ left' = left \ {r}
      /\ progress[r][layer] >= stores[r]
      /\ pending' \subseteq pending \cup {r}
      /\ UNCHANGED <<use, live, hook, stores, finalize, finished, layer,
                     progress, opened, finalized, failed, queue, writer,
                     wfailed, wevicted, file, record, lru, damaged, undeleted>>
  BY DEF CaptureNothingNew, FinalPending, engine, reports, disk, history
<1>2. stores[r] > 0 /\ layer \in Layers
  <2>1. layer > 0 /\ stores[r] > 0
    BY <1>1 DEF Control
  <2> QED
    BY <2>1, SizeAssumption DEF TypeOK, Layers
<1>3. TypeOK'
  <2>1. left' \subseteq Requests /\ pending' \subseteq Requests
    BY <1>1 DEF TypeOK
  <2> QED
    BY <1>1, <2>1 DEF TypeOK
<1>4. WriterClosed' <=> WriterClosed
  BY <1>1 DEF WriterClosed
<1>5. /\ JobsIn' = JobsIn
      /\ \A q, l : Staged(q, l)' <=> Staged(q, l)
      /\ \A q, l, b : Fits(q, l, b)' <=> Fits(q, l, b)
  BY <1>1, <1>4, StillData
<1>6. Control'
  BY <1>1, <1>5 DEF Control
<1>7. Owned' /\ NoOrphans'
  BY <1>1, <1>4, <1>5 DEF Owned, NoOrphans
<1>8. ASSUME Sane'
      PROVE  Orderly'
  <2>1. Orderly
    BY <1>1, <1>4, <1>8 DEF Sane
  <2>2. Forgotten' /\ StagedWhole' /\ StoredWhole' /\ QueuedBacked' /\ RecordKept'
    BY <1>1, <1>4, <2>1, StillData DEF Orderly
  <2>3. hook # "shutdown"
    BY <1>1 DEF Control
  <2>4. Settled'
    BY <1>1, <1>4, <1>5, <2>1, <2>3 DEF Orderly, Settled
  <2>5. \A q, l : Ahead(q, l)' <=> Ahead(q, l) /\ ~(q = r /\ l = layer /\ ~(l > layer))
    BY <1>1 DEF Ahead
  <2>6. AheadWhole'
    BY <1>1, <1>5, <2>1, <2>5 DEF Orderly, AheadWhole
  <2>7. progress[r][layer] > 0
    <3>0. stores[r] \in Lengths /\ progress[r][layer] \in Lengths
      BY <1>2 DEF TypeOK
    <3>1. stores[r] \in Nat /\ progress[r][layer] \in Nat
      BY <3>0, ValueFacts
    <3> QED
      BY <1>1, <1>2, <3>1
  <2>8. Even'
    BY <1>1, <2>1, <2>5, <2>7 DEF Orderly, Even
  <2> QED
    BY <2>2, <2>4, <2>6, <2>8 DEF Orderly
<1> QED
  BY <1>3, <1>6, <1>7, <1>8

\* The steps that only move the forward thread from one place to the next.
LEMMA MoveDInv ==
  ASSUME DInv,
         \/ WaitForSave \/ PublishDone \/ GetFinished \/ EndStep
         \/ Shutdown \/ CloseWriter \/ ThreadStops
         \/ \E r \in Requests : SkipFinalize(r)
  PROVE  DInv'
<1> USE DEF DInv
<1>1. UNCHANGED <<use, live, finished, progress, opened, failed, queue, wfailed,
                  wevicted, file, record, lru, damaged, undeleted, finalized>>
  BY DEF WaitForSave, PublishDone, GetFinished, EndStep, Shutdown, CloseWriter,
     ThreadStops, SkipFinalize, NextPending, ClearStep, engine, reports, disk,
     history, step, capture
<1>2. /\ pc' \in {"idle", "flush1", "publish", "flush2", "closing"} \/ ThreadStops
      /\ ThreadStops => pc' = pc /\ UNCHANGED <<hook, step, pending>>
  BY DEF WaitForSave, PublishDone, GetFinished, EndStep, Shutdown, CloseWriter,
     ThreadStops, SkipFinalize, NextPending, ClearStep, capture
<1>3. pending' \subseteq Requests
  BY DEF WaitForSave, PublishDone, GetFinished, EndStep, Shutdown, CloseWriter,
     ThreadStops, SkipFinalize, NextPending, ClearStep, capture, TypeOK
<1>4. TypeOK'
  <2>1. stores' \in [Requests -> Lengths] /\ finalize' \subseteq Requests
        /\ layer' \in 0 .. NumLayers /\ left' \subseteq Requests
    <3>1. CASE EndStep
      BY <3>1, ValueFacts, SizeAssumption DEF EndStep, ClearStep
    <3>2. CASE ~EndStep
      BY <3>2 DEF WaitForSave, PublishDone, GetFinished, Shutdown, CloseWriter,
         ThreadStops, SkipFinalize, step, TypeOK
    <3> QED
      BY <3>1, <3>2
  <2>2. /\ writer' \in {"none", "open", "closing", "wedged", "closed"}
        /\ hook' \in {"wait_for_save", "get_finished", "shutdown"}
        /\ pc' \in {"idle", "save", "flush1", "publish", "flush2", "finish",
                    "retire", "closing"}
    BY DEF WaitForSave, PublishDone, GetFinished, EndStep, Shutdown, CloseWriter,
       ThreadStops, SkipFinalize, ClearStep, TypeOK
  <2> QED
    BY <1>1, <1>3, <2>1, <2>2 DEF TypeOK
<1>5. /\ WriterClosed => WriterClosed'
      /\ WriterClosed' => WriterClosed \/ CloseWriter
  BY DEF WaitForSave, PublishDone, GetFinished, EndStep, Shutdown, CloseWriter,
     ThreadStops, SkipFinalize, ClearStep, WriterClosed
<1>6. /\ JobsIn' = JobsIn
      /\ \A r, l : Staged(r, l)' <=> Staged(r, l)
      /\ \A r, l, b : Fits(r, l, b)' <=> Fits(r, l, b)
  BY <1>1, <1>5, StillData
<1>7. Control'
  <2>1. \A j \in JobsIn' : j.kind = "layer" => \E l \in Layers : j.names = {l}
    BY <1>6 DEF Control
  <2>2. CASE EndStep
    BY <1>1, <2>1, <2>2 DEF EndStep, ClearStep, Control
  <2>3. CASE ~EndStep
    <3>1. UNCHANGED step
      BY <2>3 DEF WaitForSave, PublishDone, GetFinished, Shutdown, CloseWriter,
         ThreadStops, SkipFinalize
    <3>2. CASE WaitForSave \/ PublishDone \/ GetFinished
      BY <1>1, <2>1, <3>1, <3>2 DEF WaitForSave, PublishDone, GetFinished,
         Control, step
    <3>3. CASE Shutdown \/ CloseWriter \/ ThreadStops
      BY <1>1, <2>1, <3>1, <3>3 DEF Shutdown, CloseWriter, ThreadStops, Control,
         step
    <3>4. CASE \E r \in Requests : SkipFinalize(r)
      BY <1>1, <2>1, <3>1, <3>4 DEF SkipFinalize, Control, step
    <3> QED
      BY <2>3, <3>2, <3>3, <3>4
  <2> QED
    BY <2>2, <2>3
<1>8. Owned' /\ NoOrphans'
  BY <1>1, <1>5, <1>6 DEF Owned, NoOrphans
<1>9. ASSUME Sane'
      PROVE  Orderly'
  <2>1. Orderly
    <3>1. hook = "shutdown" => hook' = "shutdown" \/ WriterClosed'
      BY DEF WaitForSave, PublishDone, GetFinished, EndStep, Shutdown, CloseWriter,
         ThreadStops, SkipFinalize, ClearStep, WriterClosed, Control
    <3> QED
      BY <1>5, <1>9, <3>1 DEF Sane
  <2>2. Forgotten' /\ StagedWhole' /\ StoredWhole' /\ QueuedBacked' /\ RecordKept'
    BY <1>1, <1>5, <2>1, StillData DEF Orderly
  <2>3. \/ UNCHANGED <<pc, stores, layer, left>>
        \/ pc' # "save"
    BY <1>2 DEF step
  <2>4. AheadWhole'
    BY <1>1, <1>6, <2>1, <2>3 DEF Orderly, AheadWhole, Ahead
  <2>5. Even'
    <3>1. CASE UNCHANGED <<pc, stores, layer, left>>
      BY <1>1, <2>1, <3>1 DEF Orderly, Even, Ahead
    <3>2. CASE pc' # "save" /\ pc # "save"
      BY <1>1, <2>1, <3>2 DEF Orderly, Even
    <3>3. CASE pc' # "save" /\ pc = "save"
      <4>1. WaitForSave
        <5>1. ~Shutdown
          BY <1>9, <3>3 DEF Shutdown, Sane
        <5> QED
          BY <3>3, <5>1 DEF PublishDone, GetFinished, EndStep, CloseWriter,
             ThreadStops, SkipFinalize, NextPending
      <4>2. \A r \in Requests, l \in Layers : ~Ahead(r, l)
        <5>1. layer = NumLayers /\ left = {}
          BY <4>1 DEF WaitForSave
        <5>2. \A l \in Layers : ~(l > NumLayers)
          BY SizeAssumption DEF Layers
        <5> QED
          BY <5>1, <5>2 DEF Ahead
      <4> QED
        BY <1>1, <2>1, <3>3, <4>2 DEF Orderly, Even
    <3> QED
      BY <2>3, <3>1, <3>2, <3>3
  <2>6. Settled'
    <3>1. CASE WaitForSave \/ GetFinished
      <4>1. /\ pc \in {"save", "finish"} /\ pc' = "flush1" /\ hook' # "shutdown"
            /\ WriterClosed' <=> WriterClosed
        BY <3>1 DEF WaitForSave, GetFinished, WriterClosed
      <4>2. \A j \in JobsIn : j.kind = "layer"
        <5>1. CASE pc = "save"
          BY <2>1, <5>1 DEF Orderly, Settled
        <5>2. CASE pc = "finish"
          BY <2>1, <5>2, QueueFacts DEF Orderly, Settled, TypeOK
        <5> QED
          BY <4>1, <5>1, <5>2
      <4> QED
        BY <1>1, <1>6, <2>1, <4>1, <4>2 DEF Orderly, Settled
    <3>2. CASE PublishDone
      BY <1>1, <1>5, <1>6, <2>1, <3>2 DEF PublishDone, Orderly, Settled, Control,
         WriterClosed, CloseWriter, capture
    <3>3. CASE EndStep
      BY <1>1, <1>5, <1>6, <2>1, <3>3 DEF EndStep, ClearStep, Orderly, Settled,
         Control, WriterClosed, CloseWriter, capture
    <3>4. CASE Shutdown
      <4>1. pc = "idle"
        BY <1>9, <3>4 DEF Shutdown, Sane
      <4>2. /\ queue = << >> /\ wfailed = {} /\ wevicted = {} /\ pending = {}
            /\ finished = {}
        BY <2>1, <4>1 DEF Orderly, Settled, Control
      <4>3. JobsIn = {}
        BY <4>2, QueueFacts DEF TypeOK
      <4> QED
        BY <1>1, <1>6, <3>4, <4>2, <4>3 DEF Shutdown, Settled, capture
    <3>5. CASE CloseWriter
      <4>1. pc = "publish" /\ hook = "shutdown" /\ pending = {} /\ pending' = {}
        BY <3>5 DEF CloseWriter, capture
      <4>2. queue = << >> /\ wfailed = {} /\ wevicted = {} /\ finished = {}
        BY <2>1, <4>1 DEF Orderly, Settled
      <4>3. JobsIn = {}
        BY <4>2, QueueFacts DEF TypeOK
      <4> QED
        BY <1>1, <1>6, <3>5, <4>1, <4>2, <4>3 DEF CloseWriter, Settled
    <3>6. CASE ThreadStops
      <4>1. WriterClosed
        BY <3>6 DEF ThreadStops, WriterClosed
      <4> QED
        BY <1>1, <1>2, <1>6, <2>1, <3>6, <4>1 DEF Orderly, Settled
    <3>7. CASE \E r \in Requests : SkipFinalize(r)
      BY <1>1, <1>5, <1>6, <2>1, <3>7 DEF SkipFinalize, NextPending, Orderly,
         Settled, CloseWriter
    <3> QED
      BY <3>1, <3>2, <3>3, <3>4, <3>5, <3>6, <3>7
  <2> QED
    BY <2>2, <2>4, <2>5, <2>6 DEF Orderly
<1> QED
  BY <1>4, <1>7, <1>8, <1>9

-----------------------------------------------------------------------------
(* A step begins, and its chunks are captured. *)

\* A step starts over an empty queue; an id that is used anew has nothing
\* left of its earlier use in the worker's books.
LEMMA BeginStepDInv ==
  ASSUME DInv, BeginStep
  PROVE  DInv'
<1> USE DEF DInv
<1>1. PICK st \in [Requests -> Lengths], fz \in SUBSET Requests,
           fn \in SUBSET Requests :
        /\ fz \cup fn \subseteq live
        /\ \A r \in Admitted(st, fn) : use[r] < MaxUses
        /\ stores' = st /\ finalize' = fz /\ finished' = fn
        /\ use' = [r \in Requests |->
                     IF r \in Admitted(st, fn) THEN use[r] + 1 ELSE use[r]]
        /\ live' = (live \ fn) \cup {r \in Requests : st[r] > 0}
  BY DEF BeginStep
<1>2. /\ pc = "idle" /\ pc' = "save"
      /\ UNCHANGED <<hook, layer, left, progress, opened, finalized, failed,
                     pending, queue, writer, wfailed, wevicted, file, record,
                     lru, damaged, undeleted>>
  BY DEF BeginStep, capture, reports, disk, history
<1>3. layer = 0 /\ left = {} /\ finished = {} /\ hook = "wait_for_save"
  BY <1>2 DEF Control
<1>4. /\ \A r \in Requests : use[r] \in Nat /\ use'[r] \in Nat /\ use'[r] >= use[r]
      /\ \A r \in live \cap Requests : use'[r] = use[r] \/ Overlapped(r)'
      /\ \A r \in Requests : Overlapped(r)' \/ (r \in live' /\ r \notin live)
                                => use'[r] = use[r] + 1
      /\ use' \in [Requests -> 0 .. MaxUses]
  <2>1. \A r \in Requests : use[r] \in 0 .. MaxUses
    BY DEF TypeOK
  <2>2. \A r \in Requests :
          use'[r] = IF r \in Admitted(st, fn) THEN use[r] + 1 ELSE use[r]
    BY <1>1
  <2>3. \A r \in Requests : use'[r] \in 0 .. MaxUses /\ use'[r] >= use[r]
    BY <1>1, <2>1, <2>2, SizeAssumption
  <2>4. \A r \in Requests : use[r] \in Nat /\ use'[r] \in Nat
    BY <2>1, <2>3, SizeAssumption
  <2>5. \A r \in live \cap Requests : use'[r] = use[r] \/ Overlapped(r)'
    BY <1>1, <2>2 DEF Admitted, Overlapped
  <2>6. \A r \in Requests : Overlapped(r)' \/ (r \in live' /\ r \notin live)
                              => use'[r] = use[r] + 1
    BY <1>1, <2>2 DEF Admitted, Overlapped
  <2>7. use' \in [Requests -> 0 .. MaxUses]
    BY <1>1, <2>3
  <2> QED
    BY <2>3, <2>4, <2>5, <2>6, <2>7
<1>5. TypeOK'
  <2>1. /\ live' \subseteq Requests /\ stores' \in [Requests -> Lengths]
        /\ finalize' \subseteq Requests /\ finished' \subseteq Requests
    BY <1>1 DEF TypeOK
  <2> QED
    BY <1>2, <1>4, <2>1 DEF TypeOK
<1>6. /\ JobsIn' = JobsIn /\ (WriterClosed' <=> WriterClosed)
      /\ \A r, l : Staged(r, l)' <=> Staged(r, l)
  BY <1>2 DEF JobsIn, WriterClosed, Staged, IsLayer
<1>7. Control'
  <2>1. \A r \in Requests : stores'[r] > 0 => r \in live'
    BY <1>1
  <2>2. \A r \in live' : use'[r] > 0
    BY <1>1, <1>4 DEF Control, TypeOK
  <2> QED
    BY <1>2, <1>3, <1>6, <2>1, <2>2 DEF Control
<1>8. Owned' /\ NoOrphans'
  BY <1>2, <1>6 DEF Owned, NoOrphans
<1>9. ASSUME Sane'
      PROVE  Orderly'
  <2>1. Orderly
    BY <1>2, <1>6, <1>9 DEF Sane
  <2>2. queue = << >> /\ wfailed = {} /\ wevicted = {} /\ pending = {}
    BY <1>2, <2>1 DEF Orderly, Settled
  <2>3. JobsIn = {} /\ \A r, l : ~Staged(r, l)
    BY <2>2, QueueFacts DEF TypeOK, Staged
  <2>4. Settled'
    BY <1>2, <1>3, <1>6, <2>2, <2>3 DEF Settled
  <2>5. Forgotten'
    <3>1. \A r \in Requests : r \notin live' \cup finished' => r \notin live \cup finished
      BY <1>1, <1>3
    <3> QED
      BY <1>2, <2>1, <3>1 DEF Orderly, Forgotten
  <2>6. StagedWhole' /\ QueuedBacked'
    BY <1>6, <2>3 DEF StagedWhole, QueuedBacked
  <2>7. \A r \in Requests, l \in Layers :
          progress[r][l] > 0 => \A b : Fits(r, l, b) => Fits(r, l, b)'
    <3>1. \A r \in Requests, l \in Layers : r \notin live => progress[r][l] = 0
      BY <1>3, <2>1, ValueFacts DEF Orderly, Forgotten
    <3>2. \A r \in Requests, l \in Layers : progress[r][l] > 0 => r \in live
      BY <3>1
    <3>3. \A r \in Requests : r \in live => use'[r] = use[r] \/ Overlapped(r)'
      BY <1>4
    <3> QED
      BY <1>2, <1>3, <3>2, <3>3 DEF Fits, Overlapped
  <2>8. StoredWhole'
    BY <1>2, <1>6, <2>1, <2>7 DEF Orderly, StoredWhole
  <2>9. AheadWhole'
    <3>1. \A r \in Requests, l \in Layers :
            r \notin failed /\ progress[r][l] > 0 /\ file[r][l].len > 0
              => Fits(r, l, file[r][l])
      BY <2>1, <2>2, <2>3 DEF Orderly, StoredWhole
    <3> QED
      BY <1>2, <1>6, <2>3, <2>7, <3>1 DEF AheadWhole
  <2>10. Even'
    <3>1. \A r \in Requests, l \in Layers : Ahead(r, l)'
      BY <1>2, <1>3, ValueFacts DEF Ahead
    <3>2. \A r \in Requests, l, m \in Layers : progress[r][l] > 0 => progress[r][m] > 0
      BY <1>2, <2>1 DEF Orderly, Even
    <3> QED
      BY <1>2, <3>1, <3>2 DEF Even
  <2>11. RecordKept'
    <3>0. \A r \in Requests : /\ record[r].gen \in Nat /\ use'[r] <= MaxUses
                              /\ record[r].gen <= use[r] \/ record[r].gen = Mixed
      BY <1>4, <2>1, JobFields DEF Orderly, RecordKept, TypeOK
    <3>1. \A r \in Requests : record'[r].gen <= use'[r] \/ record'[r].gen = Mixed
      BY <1>2, <1>4, <3>0
    <3>2. \A r \in Requests : record'[r].gen = use'[r] => use'[r] = use[r]
      BY <1>2, <1>4, <3>0, SizeAssumption DEF Mixed
    <3>6. \A r \in Requests : Overlapped(r)' => record'[r].gen # use'[r]
      BY <1>4, <3>2
    <3>3. \A r \in Requests \ (damaged \cup undeleted) :
            record'[r].gen = use'[r] /\ record'[r] # NoBytes =>
              /\ Backs(r, record[r])
              /\ r \in live \cup finished =>
                   \A l \in Layers : record[r].len <= progress[r][l]
      BY <1>2, <2>1, <3>2 DEF Orderly, RecordKept
    <3>4. \A r, b : Backs(r, b)' <=> Backs(r, b)
      BY <1>2 DEF Backs
    <3>5. \A r \in Requests :
            r \in live' \cup finished' /\ record'[r].gen = use'[r] /\ record'[r] # NoBytes
              => r \in live \cup finished
      <4> SUFFICES ASSUME NEW r \in Requests, r \notin live, r \in live' \cup finished'
                   PROVE  record'[r].gen # use'[r]
        OBVIOUS
      <4>1. r \in live'
        BY <1>1
      <4>2. use'[r] = use[r] + 1 /\ use[r] \in Nat
        BY <1>4, <4>1
      <4> QED
        BY <3>2, <4>2
    <3> QED
      BY <1>2, <2>2, <3>1, <3>3, <3>4, <3>5, <3>6 DEF RecordKept
  <2> QED
    BY <2>4, <2>5, <2>6, <2>8, <2>9, <2>10, <2>11 DEF Orderly
<1> QED
  BY <1>5, <1>7, <1>8, <1>9

\* The chunk handed to the writer is the whole prefix the store announces,
\* whichever base it was appended to.
LEMMA WindowWhole ==
  ASSUME DInv, Sane, NEW r \in left, pc = "save", layer \in Layers
  PROVE  \E g \in 0 .. Mixed :
           /\ Window(r) = [gen |-> g, len |-> stores[r]]
           /\ Overlapped(r) \/ g = use[r]
<1> USE DEF DInv
<1>1. r \in Requests /\ Ahead(r, layer)
  BY DEF TypeOK, Ahead
<1>2. ~Staged(r, layer)
  BY <1>1 DEF Orderly, AheadWhole
<1>3. StagedAt(r, layer) = {}
  BY <1>2 DEF Staged, StagedAt, JobsIn, IsLayer
<1>4. use[r] \in 0 .. Mixed /\ Mixed \in 0 .. Mixed
  BY <1>1, SizeAssumption DEF TypeOK, Mixed
<1>5. CASE progress[r][layer] = 0 \/ CapturedLayer(r, layer).len = 0
  BY <1>4, <1>5 DEF Window
<1>6. CASE ~(progress[r][layer] = 0 \/ CapturedLayer(r, layer).len = 0)
  <2>1. r \notin failed /\ CapturedLayer(r, layer) = file[r][layer]
    BY <1>3, <1>6, ValueFacts DEF CapturedLayer
  <2>2. progress[r][layer] \in Nat /\ stores[r] \in Nat /\ file[r][layer].len \in Nat
    <3>1. progress[r][layer] \in Lengths /\ stores[r] \in Lengths /\ file[r][layer] \in Bytes
      BY <1>1 DEF TypeOK
    <3> QED
      BY <3>1, ValueFacts, JobFields
  <2>3. progress[r][layer] > 0 /\ file[r][layer].len > 0
    BY <1>6, <2>1, <2>2
  <2>4. Fits(r, layer, file[r][layer])
    BY <1>1, <2>1, <2>3 DEF Orderly, AheadWhole
  <2>5. /\ CapturedLayer(r, layer).len = progress[r][layer]
        /\ Overlapped(r) \/ CapturedLayer(r, layer).gen = use[r]
    BY <2>1, <2>4 DEF Fits
  <2> DEFINE g == IF CapturedLayer(r, layer).gen = use[r] THEN use[r] ELSE Mixed
  <2>6. Window(r) = [gen |-> g,
                     len |-> CapturedLayer(r, layer).len + (stores[r] - progress[r][layer])]
    BY <1>6 DEF Window
  <2>7. progress[r][layer] + (stores[r] - progress[r][layer]) = stores[r]
    BY <2>2
  <2>8. g \in 0 .. Mixed /\ (Overlapped(r) \/ g = use[r])
    BY <1>4, <2>5
  <2> HIDE DEF g
  <2> QED
    BY <2>5, <2>6, <2>7, <2>8
<1> QED
  BY <1>5, <1>6

\* _capture_layer queues the whole prefix and moves the progress to its end.
LEMMA CaptureLayerDInv ==
  ASSUME DInv, NEW r \in Requests, CaptureLayer(r)
  PROVE  DInv'
<1> USE DEF DInv
<1> DEFINE x == LayerJob(r, Window(r))
<1>1. /\ pc = "save" /\ pc' = "save" /\ r \in left /\ left' = left \ {r}
      /\ progress[r][layer] < stores[r] /\ ~WriterClosed
      /\ queue' = Append(queue, x) /\ writer' = "open"
      /\ opened' = opened \cup {r} /\ progress' = Progressed(r)
      /\ pending' \subseteq pending \cup {r}
      /\ UNCHANGED <<use, live, hook, stores, finalize, finished, layer,
                     finalized, failed, wfailed, wevicted, file, record, lru,
                     damaged, undeleted>>
  BY DEF CaptureLayer, FinalPending, engine, reports, disk, history
<1>2. hook # "shutdown" /\ stores[r] > 0 /\ r \in live /\ layer \in Layers
  <2>1. layer > 0 /\ stores[r] > 0 /\ hook # "shutdown" /\ r \in live
    BY <1>1 DEF Control
  <2> QED
    BY <2>1, SizeAssumption DEF TypeOK, Layers
<1>3. Sane /\ Orderly
  BY <1>1, <1>2 DEF Sane
<1>0. PICK g \in 0 .. Mixed : /\ Window(r) = [gen |-> g, len |-> stores[r]]
                              /\ Overlapped(r) \/ g = use[r]
  BY <1>1, <1>2, <1>3, WindowWhole
<1>4. /\ x.kind = "layer" /\ x.req = r /\ x.names = {layer}
      /\ x.bytes.len = stores[r] /\ (Overlapped(r) \/ x.bytes.gen = use[r])
  BY <1>0 DEF LayerJob
<1>5. x \in Job
  <2>1. [gen |-> g, len |-> stores[r]] \in Bytes
    BY DEF TypeOK, Bytes
  <2>2. x = [kind |-> "layer", req |-> r, names |-> {layer},
             bytes |-> [gen |-> g, len |-> stores[r]]]
    BY <1>0 DEF LayerJob
  <2> QED
    BY <1>2, <2>1, <2>2 DEF Job
<1> HIDE DEF x
<1>6. queue' \in Seq(Job) /\ queue' # << >> /\ JobsIn' = JobsIn \cup {x}
  BY <1>1, <1>5, PutJob DEF TypeOK
<1>7. /\ progress' \in [Requests -> [Layers -> Lengths]]
      /\ progress'[r][layer] = stores[r]
      /\ \A q \in Requests, l \in Layers :
           ~(q = r /\ l = layer) => progress'[q][l] = progress[q][l]
  <2>1. stores[r] \in Lengths /\ progress \in [Requests -> [Layers -> Lengths]]
    BY DEF TypeOK
  <2>2. progress' = [progress EXCEPT ![r][layer] = stores[r]]
    BY <1>1 DEF Progressed
  <2> QED
    BY <1>2, <2>1, <2>2
<1>8. ~WriterClosed'
  BY <1>1 DEF WriterClosed
<1>9. TypeOK'
  <2>1. /\ opened' \subseteq Requests /\ pending' \subseteq Requests
        /\ left' \subseteq Requests
    BY <1>1 DEF TypeOK
  <2> QED
    BY <1>1, <1>6, <1>7, <2>1 DEF TypeOK
<1>10. Control'
  <2>1. \A j \in JobsIn' : j.kind = "layer" => \E l \in Layers : j.names = {l}
    BY <1>2, <1>4, <1>6 DEF Control
  <2>2. left' # {} => layer' > 0
    BY <1>1 DEF Control
  <2> QED
    BY <1>1, <1>2, <2>1, <2>2 DEF Control, WriterClosed
<1>11. Owned'
  BY <1>1, <1>4, <1>6 DEF Owned
<1>12. NoOrphans'
  BY <1>1 DEF NoOrphans
<1>13. \A q, l : Staged(q, l)' <=> Staged(q, l) \/ (q = r /\ l = layer)
  <2>1. \A q, l : IsLayer(x, q, l) <=> q = r /\ l = layer
    BY <1>4 DEF IsLayer
  <2>2. \A j, q, l : IsLayer(j, q, l)' <=> IsLayer(j, q, l)
    BY DEF IsLayer
  <2> QED
    BY <1>6, <2>1, <2>2 DEF Staged
<1>14. \A q, l : Ahead(q, l)' <=> Ahead(q, l) /\ ~(q = r /\ l = layer /\ ~(l > layer))
  BY <1>1 DEF Ahead
<1>15. ~(layer > layer) /\ Ahead(r, layer)
  BY <1>1, <1>2, ValueFacts DEF Ahead
<1>16. \A q \in Requests, l \in Layers :
         ~(q = r /\ l = layer) => \A b : Fits(q, l, b)' <=> Fits(q, l, b)
  BY <1>1, <1>7 DEF Fits, Overlapped
<1>17. ~Staged(r, layer)
  BY <1>1, <1>2, <1>3, <1>15 DEF Orderly, AheadWhole
<1>19. Settled'
  <2>1. \A j \in JobsIn' : j.kind = "layer"
    BY <1>1, <1>3, <1>4, <1>6 DEF Orderly, Settled
  <2> QED
    BY <1>1, <1>2, <1>8, <2>1 DEF Settled
<1>20. Forgotten'
  <2> SUFFICES ASSUME NEW q \in Requests, q \notin live \cup finished
               PROVE  progress'[q] = NoLayers(0)
    BY <1>1 DEF Forgotten
  <2>1. q # r
    BY <1>2
  <2>2. progress'[q] = progress[q]
    BY <1>1, <2>1 DEF Progressed, TypeOK
  <2> QED
    BY <1>3, <2>2 DEF Orderly, Forgotten
<1>21. StagedWhole'
  <2> SUFFICES ASSUME NEW j \in JobsIn', NEW l \in Layers,
                      j.kind = "layer", j.names = {l}
               PROVE  progress'[j.req][l] > 0 /\ Fits(j.req, l, j.bytes)'
    BY DEF StagedWhole
  <2>1. CASE j = x
    <3>1. l = layer /\ j.req = r
      BY <1>4, <2>1
    <3>2. progress'[j.req][l] > 0
      BY <1>2, <1>7, <3>1
    <3>3. Fits(j.req, l, j.bytes)'
      BY <1>1, <1>4, <1>7, <2>1, <3>1 DEF Fits, Overlapped
    <3> QED
      BY <3>2, <3>3
  <2>2. CASE j \in JobsIn
    <3>1. j.req \in Requests
      BY <2>2, QueueFacts, JobFields DEF TypeOK
    <3>2. ~(j.req = r /\ l = layer)
      BY <1>17, <2>2 DEF Staged, IsLayer
    <3>3. progress[j.req][l] > 0 /\ Fits(j.req, l, j.bytes)
      BY <1>3, <2>2 DEF Orderly, StagedWhole
    <3> QED
      BY <1>7, <1>16, <3>1, <3>2, <3>3
  <2> QED
    BY <1>6, <2>1, <2>2
<1>22. AheadWhole'
  <2> SUFFICES ASSUME NEW q \in Requests, NEW l \in Layers, Ahead(q, l)'
               PROVE  /\ ~Staged(q, l)'
                      /\ q \notin failed /\ progress'[q][l] > 0 /\ file[q][l].len > 0
                           => Fits(q, l, file[q][l])'
    BY <1>1 DEF AheadWhole
  <2>1. Ahead(q, l) /\ ~(q = r /\ l = layer)
    BY <1>14, <1>15
  <2> QED
    BY <1>1, <1>3, <1>7, <1>13, <1>16, <2>1 DEF Orderly, AheadWhole
<1>23. StoredWhole'
  <2> SUFFICES ASSUME NEW q \in Requests \ (failed \cup wfailed), NEW l \in Layers,
                      progress'[q][l] > 0, ~Staged(q, l)'
               PROVE  /\ file[q][l].len > 0 => Fits(q, l, file[q][l])'
                      /\ file[q][l].len > 0 \/ q \in wevicted \/ WriterClosed'
    BY <1>1 DEF StoredWhole
  <2>1. ~Staged(q, l) /\ ~(q = r /\ l = layer)
    BY <1>13
  <2>2. progress[q][l] > 0 /\ \A b : Fits(q, l, b)' <=> Fits(q, l, b)
    BY <1>7, <1>16, <2>1
  <2> QED
    BY <1>1, <1>3, <2>1, <2>2 DEF Orderly, StoredWhole
<1>24. Even'
  <2>1. \A q \in Requests, l \in Layers : progress[q][l] > 0 => progress'[q][l] > 0
    BY <1>2, <1>7
  <2>2. \A q \in Requests, m \in Layers :
          stores'[q] > 0 /\ ~Ahead(q, m)' => progress'[q][m] > 0
    BY <1>1, <1>2, <1>3, <1>7, <1>14, <2>1 DEF Orderly, Even
  <2>3. \A q \in Requests, l, m \in Layers :
          progress'[q][l] > 0 =>
            progress'[q][m] > 0 \/ (stores'[q] > 0 /\ Ahead(q, m)')
    <3> SUFFICES ASSUME NEW q \in Requests, NEW l \in Layers, NEW m \in Layers,
                        progress'[q][l] > 0
                 PROVE  progress'[q][m] > 0 \/ (stores'[q] > 0 /\ Ahead(q, m)')
      OBVIOUS
    <3>1. CASE q = r
      BY <1>1, <1>2, <2>2, <3>1
    <3>2. CASE q # r
      <4>1. progress[q][l] > 0 /\ progress'[q][m] = progress[q][m]
            /\ (Ahead(q, m)' <=> Ahead(q, m))
        BY <1>7, <1>14, <3>2
      <4> QED
        BY <1>1, <1>3, <4>1 DEF Orderly, Even
    <3> QED
      BY <3>1, <3>2
  <2> QED
    BY <1>1, <2>2, <2>3 DEF Even
<1>25. QueuedBacked'
  <2>1. \A j \in JobsIn' : j.kind = "layer"
    BY <1>1, <1>3, <1>4, <1>6 DEF Orderly, Settled
  <2> QED
    BY <2>1 DEF QueuedBacked
<1>26. RecordKept'
  <2>1. \A q, b : Backs(q, b)' <=> Backs(q, b)
    BY <1>1 DEF Backs
  <2>2. \A q \in Requests, l \in Layers, n \in Nat :
          n <= progress[q][l] => n <= progress'[q][l]
    <3>1. \A q \in Requests, l \in Layers : progress[q][l] \in Nat /\ progress'[q][l] \in Nat
      <4>1. \A q \in Requests, l \in Layers :
              progress[q][l] \in Lengths /\ progress'[q][l] \in Lengths
        BY <1>7 DEF TypeOK
      <4> QED
        BY <4>1, ValueFacts
    <3>2. \A q \in Requests, l \in Layers : progress[q][l] <= progress'[q][l]
      BY <1>1, <1>7, <3>1
    <3> QED
      BY <3>1, <3>2
  <2>3. \A q \in Requests : record[q].len \in Nat
    BY JobFields DEF TypeOK
  <2> QED
    BY <1>1, <1>3, <2>1, <2>2, <2>3 DEF Orderly, RecordKept, Overlapped
<1> QED
  BY <1>9, <1>10, <1>11, <1>12, <1>19, <1>20, <1>21, <1>22, <1>23, <1>24,
     <1>25, <1>26 DEF Orderly

-----------------------------------------------------------------------------
(* The reports are drained. *)

\* What _drain_writer_reports leaves: the reports are empty, failures are
\* remembered, and an evicted capture starts over.
LEMMA DrainFacts ==
  ASSUME TypeOK, NEW R \in SUBSET Requests, NEW fin \in [Requests -> Lengths],
         Drain(R, fin)
  PROVE  /\ failed' = failed \cup wfailed \cup R /\ failed' \subseteq Requests
         /\ wfailed' = {} /\ wevicted' = {}
         /\ finalized' \in [Requests -> Lengths]
         /\ DrainedProgress \in [Requests -> [Layers -> Lengths]]
         /\ \A r \in wevicted : DrainedProgress[r] = NoLayers(0)
         /\ \A r \in Requests \ wevicted : DrainedProgress[r] = progress[r]
         /\ wevicted = {} => DrainedProgress = progress
<1>1. /\ progress \in [Requests -> [Layers -> Lengths]]
      /\ wevicted \subseteq Requests
  BY DEF TypeOK
<1>2. failed' = failed \cup wfailed \cup R /\ failed' \subseteq Requests
      /\ wfailed' = {} /\ wevicted' = {}
  BY DEF Drain, TypeOK
<1>3. finalized' \in [Requests -> Lengths]
  BY ValueFacts DEF Drain
<1>4. DrainedProgress \in [Requests -> [Layers -> Lengths]]
  BY <1>1, ValueFacts DEF DrainedProgress
<1>5. /\ \A r \in wevicted : DrainedProgress[r] = NoLayers(0)
      /\ \A r \in Requests \ wevicted : DrainedProgress[r] = progress[r]
  BY <1>1 DEF DrainedProgress
<1>6. wevicted = {} => DrainedProgress = progress
  BY <1>1 DEF DrainedProgress
<1> QED
  BY <1>2, <1>3, <1>4, <1>5, <1>6

\* The two joins of a flush return over an empty queue, so the progress that
\* is left is backed by what is stored.
LEMMA FlushDInv ==
  ASSUME DInv, FlushJoin \/ FlushEnd
  PROVE  DInv'
<1> USE DEF DInv
<1>1. /\ pc \in {"flush1", "flush2"} /\ JoinReturns
      /\ Drain({}, finalized) /\ progress' = DrainedProgress
      /\ pc = "flush1" => pc' = "publish"
      /\ pc = "flush2" => pc' = IF hook = "wait_for_save" THEN "finish" ELSE "retire"
      /\ UNCHANGED <<use, live, hook, stores, finalize, finished, layer, left,
                     opened, pending, queue, writer, file, record, lru,
                     damaged, undeleted>>
  BY DEF FlushJoin, FlushEnd, engine, step, disk, history
<1>2. /\ failed' = failed \cup wfailed /\ failed' \subseteq Requests
      /\ wfailed' = {} /\ wevicted' = {}
      /\ finalized' \in [Requests -> Lengths]
      /\ progress' \in [Requests -> [Layers -> Lengths]]
      /\ \A r \in wevicted : progress'[r] = NoLayers(0)
      /\ \A r \in Requests \ wevicted : progress'[r] = progress[r]
  BY <1>1, DrainFacts DEF TypeOK
<1>3. TypeOK'
  BY <1>1, <1>2 DEF TypeOK
<1>4. hook # "shutdown" /\ hook \in {"wait_for_save", "get_finished"}
  BY <1>1 DEF Control, TypeOK
<1>5. JobsIn' = JobsIn /\ (WriterClosed' <=> WriterClosed)
  BY <1>1 DEF JobsIn, WriterClosed
<1>6. Control'
  BY <1>1, <1>4, <1>5 DEF Control
<1>7. Owned' /\ NoOrphans'
  BY <1>1, <1>5 DEF Owned, NoOrphans
<1>8. ASSUME Sane'
      PROVE  Orderly'
  <2>1. Orderly
    BY <1>1, <1>5, <1>8 DEF Sane
  <2>2. queue = << >>
    <3>1. CASE WriterClosed
      BY <2>1, <3>1 DEF Orderly, Settled
    <3>2. CASE ~WriterClosed
      BY <1>1, <3>2 DEF WriterClosed, JoinReturns, Control, TypeOK
    <3> QED
      BY <3>1, <3>2
  <2>3. JobsIn = {} /\ \A r, l : ~Staged(r, l)
    BY <2>2, QueueFacts DEF Staged, TypeOK
  <2>4. pc = "flush2" => pending = {}
    BY <2>1 DEF Orderly, Settled
  <2>5. Settled'
    BY <1>1, <1>2, <1>4, <1>5, <2>2, <2>3, <2>4 DEF Settled
  <2>6. Forgotten'
    <3>1. wevicted \subseteq Requests
      BY DEF TypeOK
    <3> QED
      BY <1>1, <1>2, <2>1, <3>1 DEF Orderly, Forgotten
  <2>7. StagedWhole' /\ QueuedBacked' /\ AheadWhole'
    BY <1>1, <1>4, <1>5, <2>3 DEF StagedWhole, QueuedBacked, AheadWhole
  <2>8. \A r \in Requests, l \in Layers :
          progress'[r][l] > 0 => r \notin wevicted /\ progress'[r][l] = progress[r][l]
    <3>1. \A r \in wevicted, l \in Layers : progress'[r][l] = 0
      BY <1>2, ValueFacts
    <3> QED
      BY <1>2, <3>1
  <2>9. StoredWhole'
    <3> SUFFICES ASSUME NEW r \in Requests \ failed', NEW l \in Layers,
                        progress'[r][l] > 0
                 PROVE  /\ file[r][l].len > 0 => Fits(r, l, file[r][l])'
                        /\ file[r][l].len > 0 \/ WriterClosed
      BY <1>1, <1>2, <1>5 DEF StoredWhole
    <3>1. r \in Requests \ (failed \cup wfailed) /\ r \notin wevicted
          /\ progress[r][l] > 0 /\ progress'[r][l] = progress[r][l]
      BY <1>2, <2>8
    <3>2. \A b : Fits(r, l, b)' <=> Fits(r, l, b)
      BY <1>1, <3>1 DEF Fits, Overlapped
    <3> QED
      BY <1>1, <2>1, <2>3, <3>1, <3>2 DEF Orderly, StoredWhole
  <2>10. Even'
    <3>1. \A r \in Requests, l, m \in Layers : progress[r][l] > 0 => progress[r][m] > 0
      BY <1>1, <2>1 DEF Orderly, Even
    <3>2. \A r \in Requests, l, m \in Layers : progress'[r][l] > 0 => progress'[r][m] > 0
      BY <1>2, <2>8, <3>1
    <3> QED
      BY <1>1, <1>4, <3>2 DEF Even
  <2>11. RecordKept'
    <3>1. \A r, b : Backs(r, b)' <=> Backs(r, b)
      BY <1>1 DEF Backs
    <3>2. \A r \in Requests \ undeleted : record[r] # NoBytes => progress'[r] = progress[r]
      BY <1>2, <2>1 DEF Orderly, RecordKept
    <3> QED
      BY <1>1, <1>2, <2>1, <3>1, <3>2 DEF Orderly, RecordKept, Overlapped
  <2> QED
    BY <2>5, <2>6, <2>7, <2>9, <2>10, <2>11 DEF Orderly
<1> QED
  BY <1>3, <1>6, <1>7, <1>8

\* A record that a closed writer refuses is a failed donor, and nothing else.
LEMMA FinalizeRefusedDInv ==
  ASSUME DInv, NEW r \in Requests, NEW n \in Lengths, FinalizeRefused(r, n)
  PROVE  DInv'
<1> USE DEF DInv
<1>1. /\ pc = "publish" /\ r \in pending /\ pending' = pending \ {r}
      /\ WriterClosed \/ hook = "shutdown"
      /\ Drain({r}, [finalized EXCEPT ![r] = n]) /\ progress' = DrainedProgress
      /\ UNCHANGED <<use, live, pc, hook, stores, finalize, finished, layer, left,
                     opened, queue, writer, file, record, lru, damaged, undeleted>>
  BY DEF FinalizeRefused, NextPending, engine, step, disk, history
<1>2. /\ failed' = failed \cup wfailed \cup {r} /\ failed' \subseteq Requests
      /\ wfailed' = {} /\ wevicted' = {}
      /\ finalized' \in [Requests -> Lengths]
      /\ progress' \in [Requests -> [Layers -> Lengths]]
      /\ wevicted = {} => progress' = progress
  <2>1. [finalized EXCEPT ![r] = n] \in [Requests -> Lengths]
    BY DEF TypeOK
  <2> QED
    BY <1>1, <2>1, DrainFacts
<1>3. TypeOK'
  <2>1. pending' \subseteq Requests
    BY <1>1 DEF TypeOK
  <2> QED
    BY <1>1, <1>2, <2>1 DEF TypeOK
<1>4. /\ JobsIn' = JobsIn /\ (WriterClosed' <=> WriterClosed)
      /\ \A q, l : Staged(q, l)' <=> Staged(q, l)
  BY <1>1 DEF JobsIn, WriterClosed, Staged, IsLayer
<1>5. Control'
  BY <1>1, <1>4 DEF Control
<1>6. Owned' /\ NoOrphans'
  BY <1>1, <1>4 DEF Owned, NoOrphans
<1>7. ASSUME Sane'
      PROVE  Orderly'
  <2>1. Orderly
    BY <1>1, <1>4, <1>7 DEF Sane
  <2>2. queue = << >> /\ wfailed = {} /\ wevicted = {}
    BY <1>1, <2>1 DEF Orderly, Settled
  <2>3. progress' = progress /\ failed' = failed \cup {r}
    BY <1>2, <2>2
  <2>4. JobsIn = {} /\ \A q, l : ~Staged(q, l)
    BY <2>2, QueueFacts DEF Staged, TypeOK
  <2>5. Settled'
    BY <1>1, <1>2, <1>4, <2>1, <2>2, <2>4 DEF Orderly, Settled
  <2>6. Forgotten' /\ Even' /\ AheadWhole'
    BY <1>1, <2>1, <2>3 DEF Orderly, Forgotten, Even, AheadWhole
  <2>7. StagedWhole' /\ QueuedBacked'
    BY <1>4, <2>4 DEF StagedWhole, QueuedBacked
  <2>8. StoredWhole'
    <3>1. \A q, l, b : Fits(q, l, b)' <=> Fits(q, l, b)
      BY <1>1, <2>3 DEF Fits, Overlapped
    <3> QED
      BY <1>1, <1>2, <1>4, <2>1, <2>2, <2>3, <3>1 DEF Orderly, StoredWhole
  <2>9. RecordKept'
    <3>1. \A q, b : Backs(q, b)' <=> Backs(q, b)
      BY <1>1 DEF Backs
    <3> QED
      BY <1>1, <1>2, <2>1, <2>3, <3>1 DEF Orderly, RecordKept, Overlapped
  <2> QED
    BY <2>5, <2>6, <2>7, <2>8, <2>9 DEF Orderly
<1> QED
  BY <1>3, <1>5, <1>6, <1>7

\* A chunk that a closed writer refuses is a failed donor whose progress moves
\* all the same.
LEMMA CaptureRefusedDInv ==
  ASSUME DInv, NEW r \in Requests, CaptureRefused(r)
  PROVE  DInv'
<1> USE DEF DInv
<1>1. /\ pc = "save" /\ r \in left /\ left' = left \ {r}
      /\ progress[r][layer] < stores[r] /\ WriterClosed
      /\ Drain({r}, finalized) /\ opened' = opened \cup {r}
      /\ progress' = [DrainedProgress EXCEPT ![r] = Progressed(r)[r]]
      /\ damaged' = damaged \cup {r}
      /\ UNCHANGED <<use, live, pc, hook, stores, finalize, finished, layer,
                     pending, queue, writer, file, record, lru, undeleted>>
  BY DEF CaptureRefused, engine, disk
<1>2. /\ failed' = failed \cup wfailed \cup {r} /\ failed' \subseteq Requests
      /\ wfailed' = {} /\ wevicted' = {}
      /\ finalized' \in [Requests -> Lengths]
      /\ DrainedProgress \in [Requests -> [Layers -> Lengths]]
      /\ wevicted = {} => DrainedProgress = progress
  BY <1>1, DrainFacts DEF TypeOK
<1>3. stores[r] > 0 /\ layer \in Layers /\ r \in live
  <2>1. layer > 0 /\ stores[r] > 0 /\ r \in live
    BY <1>1 DEF Control
  <2> QED
    BY <2>1, SizeAssumption DEF TypeOK, Layers
<1>4. /\ Progressed(r) \in [Requests -> [Layers -> Lengths]]
      /\ Progressed(r)[r][layer] = stores[r]
      /\ \A l \in Layers : l # layer => Progressed(r)[r][l] = progress[r][l]
  <2>1. progress \in [Requests -> [Layers -> Lengths]] /\ stores[r] \in Lengths
    BY DEF TypeOK
  <2> QED
    BY <1>3, <2>1 DEF Progressed
<1>5. /\ progress' \in [Requests -> [Layers -> Lengths]]
      /\ progress'[r] = Progressed(r)[r]
      /\ \A q \in Requests \ {r} : progress'[q] = DrainedProgress[q]
  BY <1>1, <1>2, <1>4
<1>6. TypeOK'
  <2>1. left' \subseteq Requests /\ opened' \subseteq Requests /\ damaged' \subseteq Requests
    BY <1>1 DEF TypeOK
  <2> QED
    BY <1>1, <1>2, <1>5, <2>1 DEF TypeOK
<1>7. /\ JobsIn' = JobsIn /\ WriterClosed'
      /\ \A q, l : Staged(q, l)' <=> Staged(q, l)
  BY <1>1 DEF JobsIn, WriterClosed, Staged, IsLayer
<1>8. Control'
  <2>1. writer' # "none" /\ (left' # {} => layer' > 0)
    BY <1>1 DEF Control, WriterClosed
  <2> QED
    BY <1>1, <1>7, <2>1 DEF Control
<1>9. Owned' /\ NoOrphans'
  BY <1>7 DEF Owned, NoOrphans
<1>10. ASSUME Sane'
       PROVE  Orderly'
  <2>1. Orderly
    BY <1>1, <1>7, <1>10 DEF Sane
  <2>2. queue = << >> /\ wfailed = {} /\ wevicted = {}
    BY <1>1, <2>1 DEF Orderly, Settled
  <2>3. JobsIn = {} /\ \A q, l : ~Staged(q, l)
    BY <2>2, QueueFacts DEF Staged, TypeOK
  <2>4. /\ \A q \in Requests \ {r} : progress'[q] = progress[q]
        /\ progress'[r][layer] = stores[r]
        /\ \A l \in Layers : l # layer => progress'[r][l] = progress[r][l]
    BY <1>2, <1>4, <1>5, <2>2
  <2>5. hook # "shutdown"
    BY <1>1 DEF Control
  <2>6. Settled'
    BY <1>1, <1>2, <1>7, <2>1, <2>2, <2>3, <2>5 DEF Orderly, Settled
  <2>7. Forgotten'
    BY <1>1, <1>3, <2>1, <2>4 DEF Orderly, Forgotten
  <2>8. StagedWhole' /\ QueuedBacked'
    BY <1>7, <2>3 DEF StagedWhole, QueuedBacked
  <2>9. \A q \in Requests \ {r}, l \in Layers :
          \A b : Fits(q, l, b)' <=> Fits(q, l, b)
    BY <1>1, <2>4 DEF Fits, Overlapped
  <2>10. StoredWhole'
    BY <1>1, <1>2, <1>7, <2>1, <2>2, <2>4, <2>9 DEF Orderly, StoredWhole
  <2>11. \A q, l : Ahead(q, l)' <=> Ahead(q, l) /\ ~(q = r /\ l = layer /\ ~(l > layer))
    BY <1>1 DEF Ahead
  <2>12. AheadWhole'
    BY <1>1, <1>2, <1>7, <2>1, <2>3, <2>4, <2>9, <2>11 DEF Orderly, AheadWhole
  <2>13. \A q \in Requests, l \in Layers : progress[q][l] > 0 => progress'[q][l] > 0
    BY <1>3, <2>4
  <2>14. \A q \in Requests, m \in Layers :
           stores'[q] > 0 /\ ~Ahead(q, m)' => progress'[q][m] > 0
    BY <1>1, <1>3, <2>1, <2>4, <2>11, <2>13 DEF Orderly, Even
  <2>15. \A q \in Requests, l, m \in Layers :
           progress'[q][l] > 0 =>
             progress'[q][m] > 0 \/ (stores'[q] > 0 /\ Ahead(q, m)')
    <3> SUFFICES ASSUME NEW q \in Requests, NEW l \in Layers, NEW m \in Layers,
                        progress'[q][l] > 0
                 PROVE  progress'[q][m] > 0 \/ (stores'[q] > 0 /\ Ahead(q, m)')
      OBVIOUS
    <3>1. CASE q = r
      BY <1>1, <1>3, <2>14, <3>1
    <3>2. CASE q # r
      <4>1. progress[q][l] > 0 /\ progress'[q][m] = progress[q][m]
            /\ (Ahead(q, m)' <=> Ahead(q, m))
        BY <2>4, <2>11, <3>2
      <4> QED
        BY <1>1, <2>1, <4>1 DEF Orderly, Even
    <3> QED
      BY <3>1, <3>2
  <2>16. Even'
    BY <1>1, <2>14, <2>15 DEF Even
  <2>17. RecordKept'
    <3>1. \A q, b : Backs(q, b)' <=> Backs(q, b)
      BY <1>1 DEF Backs
    <3> QED
      BY <1>1, <1>2, <2>1, <2>4, <3>1 DEF Orderly, RecordKept, Overlapped
  <2> QED
    BY <2>6, <2>7, <2>8, <2>10, <2>12, <2>16, <2>17 DEF Orderly
<1> QED
  BY <1>6, <1>8, <1>9, <1>10

-----------------------------------------------------------------------------
(* A record is queued, a finished request is forgotten, the writer closes. *)

\* _submit_pending_finalizes queues a record only over what is stored: after
\* the join no layer is queued, and a donor whose writes failed or that was
\* evicted is known by then.
LEMMA SubmitFinalizeDInv ==
  ASSUME DInv, NEW r \in Requests, NEW n \in Lengths, SubmitFinalize(r, n)
  PROVE  DInv'
<1> USE DEF DInv
<1> DEFINE x == MetadataJob(r, n)
<1>1. /\ pc = "publish" /\ r \in pending /\ pending' = pending \ {r}
      /\ r \in opened /\ Captured(progress[r]) # {} /\ r \notin failed
      /\ IsShortest(progress[r], n) /\ ~WriterClosed
      /\ finalized' = [finalized EXCEPT ![r] = n] /\ queue' = Append(queue, x)
      /\ UNCHANGED <<use, live, pc, hook, stores, finalize, finished, layer, left,
                     progress, opened, failed, writer, wfailed, wevicted, file,
                     record, lru, damaged, undeleted>>
  BY DEF SubmitFinalize, NextPending, Publishable, engine, step, reports, disk,
     history
<1>2. /\ x.kind = "metadata" /\ x.req = r
      /\ x.bytes.gen = RecordUse(r) /\ x.bytes.len = n
  BY DEF MetadataJob
<1>3. x \in Job
  <2>0. use[r] \in 0 .. Mixed /\ Mixed \in 0 .. Mixed
    BY SizeAssumption DEF TypeOK, Mixed
  <2>1. [gen |-> RecordUse(r), len |-> n] \in Bytes
    BY <2>0 DEF Bytes, RecordUse
  <2>2. Captured(progress[r]) \subseteq Layers
    BY DEF Captured
  <2> QED
    BY <2>1, <2>2 DEF MetadataJob, Job
<1> HIDE DEF x
<1>4. queue' \in Seq(Job) /\ JobsIn' = JobsIn \cup {x}
  BY <1>1, <1>3, PutJob DEF TypeOK
<1>5. TypeOK'
  <2>1. pending' \subseteq Requests /\ finalized' \in [Requests -> Lengths]
    BY <1>1 DEF TypeOK
  <2> QED
    BY <1>1, <1>4, <2>1 DEF TypeOK
<1>6. (WriterClosed' <=> WriterClosed) /\ \A q, l : Staged(q, l)' <=> Staged(q, l)
  <2>1. \A q, l : ~IsLayer(x, q, l)
    BY <1>2 DEF IsLayer
  <2>2. \A j, q, l : IsLayer(j, q, l)' <=> IsLayer(j, q, l)
    BY DEF IsLayer
  <2> QED
    BY <1>1, <1>4, <2>1, <2>2 DEF WriterClosed, Staged
<1>7. Control'
  <2>1. \A j \in JobsIn' : j.kind = "layer" => \E l \in Layers : j.names = {l}
    BY <1>2, <1>4 DEF Control
  <2>2. writer # "none"
    BY <1>1 DEF Control
  <2> QED
    BY <1>1, <2>1, <2>2 DEF Control
<1>8. Owned' /\ NoOrphans'
  BY <1>1, <1>2, <1>4, <1>6 DEF Owned, NoOrphans
<1>9. ASSUME Sane'
      PROVE  Orderly'
  <2>1. Orderly
    BY <1>1, <1>6, <1>9 DEF Sane
  <2>2. /\ hook # "shutdown" /\ wevicted = {} /\ r \notin wfailed
        /\ \A j \in JobsIn : j.kind = "metadata" /\ j.req # r
        /\ \A q \in pending : q \notin wfailed /\ \A j \in JobsIn : j.req # q
    BY <1>1, <2>1 DEF Orderly, Settled
  <2>3. Settled'
    <3>1. \A j \in JobsIn' : j.kind = "metadata"
      BY <1>2, <1>4, <2>2
    <3>2. \A q \in pending' : q \notin wfailed /\ \A j \in JobsIn' : j.req # q
      BY <1>1, <1>2, <1>4, <2>2
    <3> QED
      BY <1>1, <1>6, <2>2, <3>1, <3>2 DEF Settled
  <2>4. Forgotten' /\ AheadWhole'
    BY <1>1, <2>1 DEF Orderly, Forgotten, AheadWhole
  <2>5. Even'
    BY <1>1, <2>1 DEF Orderly, Even
  <2>6. StagedWhole'
    BY <1>2, <1>4, <2>2 DEF StagedWhole
  <2>7. StoredWhole'
    <3>1. \A q, l, b : Fits(q, l, b)' <=> Fits(q, l, b)
      BY <1>1 DEF Fits, Overlapped
    <3> QED
      BY <1>1, <1>6, <2>1, <3>1 DEF Orderly, StoredWhole
  <2>8. \A l \in Layers : progress[r][l] > 0 /\ n <= progress[r][l]
    <3>1. \A l \in Layers : progress[r][l] > 0
      BY <1>1, <2>1 DEF Orderly, Even, Captured
    <3> QED
      BY <1>1, <3>1 DEF IsShortest, Captured
  <2>9. Overlapped(r) \/ Backs(r, x.bytes)
    <3>1. \A l \in Layers : ~Staged(r, l)
      BY <2>2 DEF Staged, IsLayer
    <3>2. \A l \in Layers : Fits(r, l, file[r][l])
      BY <1>1, <2>1, <2>2, <2>8, <3>1 DEF Orderly, StoredWhole
    <3>3. \A l \in Layers : /\ file[r][l].len = progress[r][l]
                            /\ Overlapped(r) \/ file[r][l].gen = use[r]
      BY <3>2 DEF Fits
    <3>4. \A l \in Layers : file[r][l].len >= n
      BY <2>8, <3>3
    <3> QED
      BY <1>2, <3>3, <3>4 DEF Backs, RecordUse
  <2>10. \A q, b : Backs(q, b)' <=> Backs(q, b)
    BY <1>1 DEF Backs
  <2>11. QueuedBacked'
    <3>1. \A q : (Overlapped(q)' <=> Overlapped(q)) /\ RecordUse(q)' = RecordUse(q)
      BY <1>1 DEF Overlapped, RecordUse
    <3> QED
      BY <1>1, <1>2, <1>4, <2>1, <2>8, <2>9, <2>10, <3>1 DEF Orderly, QueuedBacked
  <2>12. RecordKept'
    BY <1>1, <2>1, <2>10 DEF Orderly, RecordKept, Overlapped
  <2> QED
    BY <2>3, <2>4, <2>5, <2>6, <2>7, <2>11, <2>12 DEF Orderly
<1> QED
  BY <1>5, <1>7, <1>8, <1>9

\* What _discard_unpublished_capture does: the files of some donors without a
\* record go, all of them but those it could not remove.
LEMMA DiscardFacts ==
  ASSUME TypeOK, NEW rs \in SUBSET Requests, NEW kept \in SUBSET Orphans(rs),
         Discard(rs, kept)
  PROVE  /\ file' \in [Requests -> [Layers -> Bytes]]
         /\ undeleted' = undeleted \cup kept /\ undeleted' \subseteq Requests
         /\ record' = record /\ lru' = lru
         /\ \A r \in Requests :
              \/ file'[r] = file[r]
              \/ /\ r \in Orphans(rs) \ kept
                 /\ record[r] = NoBytes /\ file'[r] = NoLayers(NoBytes)
         /\ \A r \in Orphans(rs) \ kept : file'[r] = NoLayers(NoBytes)
<1>1. Orphans(rs) \subseteq Requests /\ \A r \in Orphans(rs) : record[r] = NoBytes
  BY DEF Orphans
<1>2. /\ file' = [r \in Requests |-> IF r \in Orphans(rs) \ kept
                                     THEN NoLayers(NoBytes) ELSE file[r]]
      /\ undeleted' = undeleted \cup kept /\ record' = record /\ lru' = lru
  BY DEF Discard
<1>3. undeleted' \subseteq Requests
  BY <1>1, <1>2 DEF TypeOK
<1>4. file' \in [Requests -> [Layers -> Bytes]]
  BY <1>2, ValueFacts DEF TypeOK
<1> QED
  BY <1>1, <1>2, <1>3, <1>4

\* get_finished forgets a finished request over an empty queue, and leaves no
\* files behind that no record vouches for.
LEMMA RetireDInv ==
  ASSUME DInv, NEW r \in Requests, NEW kept \in SUBSET {r}, Retire(r, kept)
  PROVE  DInv'
<1> USE DEF DInv
<1>1. /\ pc = "retire" /\ r \in finished /\ finished' = finished \ {r}
      /\ kept \subseteq Orphans({r}) /\ Discard({r}, kept)
      /\ progress' = [progress EXCEPT ![r] = NoLayers(0)]
      /\ opened' = opened \ {r} /\ finalized' = [finalized EXCEPT ![r] = 0]
      /\ failed' = failed \ {r}
      /\ UNCHANGED <<use, live, pc, hook, stores, finalize, layer, left, pending,
                     queue, writer, wfailed, wevicted, damaged>>
  BY DEF Retire, engine, reports
<1>2. /\ file' \in [Requests -> [Layers -> Bytes]]
      /\ undeleted' = undeleted \cup kept /\ undeleted' \subseteq Requests
      /\ record' = record /\ lru' = lru
      /\ \A q \in Requests :
           \/ file'[q] = file[q]
           \/ /\ q \in Orphans({r}) \ kept
              /\ record[q] = NoBytes /\ file'[q] = NoLayers(NoBytes)
      /\ \A q \in Orphans({r}) \ kept : file'[q] = NoLayers(NoBytes)
  <2>1. TypeOK /\ {r} \in SUBSET Requests /\ kept \in SUBSET Orphans({r})
        /\ Discard({r}, kept)
    BY <1>1
  <2> QED
    BY <2>1, DiscardFacts
<1>3. /\ progress' \in [Requests -> [Layers -> Lengths]]
      /\ progress'[r] = NoLayers(0)
      /\ \A q \in Requests \ {r} : progress'[q] = progress[q]
  BY <1>1, ValueFacts DEF TypeOK
<1>4. TypeOK'
  <2>1. /\ finished' \subseteq Requests /\ opened' \subseteq Requests
        /\ failed' \subseteq Requests /\ finalized' \in [Requests -> Lengths]
    BY <1>1, ValueFacts DEF TypeOK
  <2> QED
    BY <1>1, <1>2, <1>3, <2>1 DEF TypeOK
<1>5. JobsIn' = JobsIn /\ (WriterClosed' <=> WriterClosed)
  BY <1>1 DEF JobsIn, WriterClosed
<1>6. Control'
  BY <1>1, <1>5 DEF Control
<1>7. hook # "shutdown"
  BY <1>1 DEF Control
<1>8. Orderly => JobsIn = {} /\ \A q, l : ~Staged(q, l)
  BY <1>1, QueueFacts DEF Orderly, Settled, Staged, TypeOK
<1>9. ~WriterClosed => JobsIn = {}
  BY <1>7, <1>8 DEF Sane
<1>10. Owned'
  BY <1>5, <1>9 DEF Owned
<1>11. NoOrphans'
  <2> SUFFICES ASSUME Backend = "disk", ~WriterClosed,
                      NEW q \in Requests \ (opened' \cup undeleted'),
                      record[q] = NoBytes
               PROVE  file'[q] = NoLayers(NoBytes)
    BY <1>2, <1>5 DEF NoOrphans
  <2>1. CASE q \in Orphans({r}) \ kept
    BY <1>2, <2>1
  <2>2. CASE q \notin Orphans({r}) \ kept
    <3>1. file'[q] = file[q]
      BY <1>2, <2>2
    <3>2. q \notin kept
      BY <1>2
    <3>3. CASE q \in opened
      <4>1. q = r
        BY <1>1, <3>3
      <4>2. q \notin Orphans({r})
        BY <2>2, <3>2
      <4> QED
        BY <3>1, <3>3, <4>1, <4>2 DEF Orphans
    <3>4. CASE q \notin opened
      BY <1>2, <3>1, <3>4 DEF NoOrphans
    <3> QED
      BY <3>3, <3>4
  <2> QED
    BY <2>1, <2>2
<1>12. ASSUME Sane'
       PROVE  Orderly'
  <2>1. Orderly
    BY <1>1, <1>5, <1>12 DEF Sane
  <2>2. JobsIn = {} /\ JobsIn' = {} /\ wfailed = {} /\ wevicted = {}
    BY <1>1, <1>5, <1>8, <2>1 DEF Orderly, Settled
  <2>3. Settled'
    BY <1>1, <1>5, <1>7, <2>1, <2>2 DEF Orderly, Settled
  <2>4. Forgotten'
    BY <1>1, <1>3, <2>1 DEF Orderly, Forgotten
  <2>5. StagedWhole' /\ QueuedBacked' /\ AheadWhole'
    BY <1>1, <2>2 DEF StagedWhole, QueuedBacked, AheadWhole
  <2>6. \A q \in Requests, l \in Layers :
          progress'[q][l] > 0 => q # r /\ progress'[q] = progress[q]
    BY <1>3, ValueFacts
  <2>7. StoredWhole'
    <3> SUFFICES ASSUME NEW q \in Requests \ (failed' \cup wfailed'), NEW l \in Layers,
                        progress'[q][l] > 0
                 PROVE  /\ file'[q][l].len > 0 => Fits(q, l, file[q][l])'
                        /\ file'[q][l].len > 0 \/ q \in wevicted' \/ WriterClosed'
      BY DEF StoredWhole
    <3>1. q # r /\ progress[q][l] > 0 /\ q \in Requests \ (failed \cup wfailed)
      BY <1>1, <2>6
    <3>2. q \notin Orphans({r})
      BY <3>1 DEF Orphans
    <3>3. file'[q] = file[q]
      BY <1>2, <3>2
    <3>4. \A b : Fits(q, l, b)' <=> Fits(q, l, b)
      BY <1>1, <2>6, <3>1 DEF Fits, Overlapped
    <3> QED
      BY <1>1, <1>5, <1>8, <2>1, <3>1, <3>3, <3>4 DEF Orderly, StoredWhole
  <2>8. Even'
    <3>1. \A q \in Requests, l, m \in Layers : progress[q][l] > 0 => progress[q][m] > 0
      BY <1>1, <2>1 DEF Orderly, Even
    <3> QED
      BY <1>1, <2>6, <3>1 DEF Even
  <2>9. RecordKept'
    <3>1. \A q \in Requests : record[q] # NoBytes =>
            (\A b : Backs(q, b) => Backs(q, b)')
      BY <1>2 DEF Backs
    <3>2. \A q \in Requests : q \in live' \cup finished' =>
            \/ q \in live \cup finished /\ progress'[q] = progress[q]
            \/ Overlapped(q)
      BY <1>1, <1>3 DEF Overlapped
    <3>3. \A q \in Requests : Overlapped(q)' => Overlapped(q)
      BY <1>1 DEF Overlapped
    <3> QED
      BY <1>1, <1>2, <2>1, <2>2, <3>1, <3>2, <3>3 DEF Orderly, RecordKept
  <2> QED
    BY <2>3, <2>4, <2>5, <2>7, <2>8, <2>9 DEF Orderly
<1> QED
  BY <1>4, <1>6, <1>10, <1>11, <1>12

\* close returns: the reports are drained, the step is cleared, and a writer
\* whose thread has stopped has its unpublished files removed. Without a step
\* cut short there was nothing left in the queue.
LEMMA ClosedDInv ==
  ASSUME DInv, pc = "closing", NEW w \in {"wedged", "closed"},
         NEW refused \in SUBSET Requests, NEW kept \in SUBSET Requests,
         Closed(w, refused, kept),
         queue' \in Seq(Job), JobsIn' \subseteq JobsIn,
         damaged' \subseteq Requests,
         JobsIn = {} => refused = {} /\ damaged' = damaged
  PROVE  DInv'
<1> USE DEF DInv
<1>1. /\ writer' = w /\ Drain(refused, finalized) /\ progress' = DrainedProgress
      /\ pc' = "idle" /\ hook' = "wait_for_save"
      /\ stores' = [r \in Requests |-> 0] /\ finalize' = {} /\ finished' = {}
      /\ layer' = 0 /\ left' = {}
      /\ UNCHANGED <<use, live, opened, pending>>
  BY DEF Closed, ClearStep, engine
<1>2. /\ failed' = failed \cup wfailed \cup refused /\ failed' \subseteq Requests
      /\ wfailed' = {} /\ wevicted' = {}
      /\ finalized' \in [Requests -> Lengths]
      /\ progress' \in [Requests -> [Layers -> Lengths]]
      /\ wevicted = {} => progress' = progress
  BY <1>1, DrainFacts DEF TypeOK
<1>3. /\ file' \in [Requests -> [Layers -> Bytes]]
      /\ undeleted \subseteq undeleted' /\ undeleted' \subseteq Requests
      /\ record' = record /\ lru' = lru
      /\ \A r \in Requests :
           \/ file'[r] = file[r]
           \/ record[r] = NoBytes /\ file'[r] = NoLayers(NoBytes)
  <2>1. CASE w = "closed"
    <3>1. kept \subseteq Orphans(opened) /\ Discard(opened, kept)
      BY <2>1 DEF Closed
    <3>2. opened \subseteq Requests
      BY DEF TypeOK
    <3>3. /\ file' \in [Requests -> [Layers -> Bytes]]
          /\ undeleted' = undeleted \cup kept /\ undeleted' \subseteq Requests
          /\ record' = record /\ lru' = lru
          /\ \A r \in Requests :
               \/ file'[r] = file[r]
               \/ record[r] = NoBytes /\ file'[r] = NoLayers(NoBytes)
      BY <3>1, <3>2, DiscardFacts
    <3> QED
      BY <3>3
  <2>2. CASE w # "closed"
    <3>1. UNCHANGED <<file, record, lru, undeleted>>
      BY <2>2 DEF Closed, disk
    <3> QED
      BY <3>1 DEF TypeOK
  <2> QED
    BY <2>1, <2>2
<1>4. TypeOK'
  <2>1. stores' \in [Requests -> Lengths] /\ layer' \in 0 .. NumLayers
    BY <1>1, ValueFacts, SizeAssumption
  <2> QED
    BY <1>1, <1>2, <1>3, <2>1 DEF TypeOK
<1>5. WriterClosed'
  BY <1>1 DEF WriterClosed
<1>6. Control'
  BY <1>1 DEF Control
<1>7. Owned' /\ NoOrphans'
  BY <1>5 DEF Owned, NoOrphans
<1>8. ASSUME Sane'
      PROVE  Orderly'
  <2>1. Orderly /\ hook = "shutdown"
    BY <1>5, <1>8 DEF Sane, Control
  <2>2. /\ queue = << >> /\ wfailed = {} /\ wevicted = {} /\ pending = {}
        /\ finished = {}
    BY <2>1 DEF Orderly, Settled
  <2>3. JobsIn = {} /\ JobsIn' = {} /\ queue' = << >>
    <3>1. JobsIn = {} /\ JobsIn' = {}
      BY <2>2, QueueFacts DEF TypeOK
    <3>2. ASSUME queue' # << >>
          PROVE  queue'[1] \in JobsIn'
      <4>1. 1 \in 1 .. Len(queue')
        BY <3>2, EmptySeq, LenProperties
      <4> QED
        BY <4>1 DEF JobsIn
    <3> QED
      BY <3>1, <3>2
  <2>4. /\ \A q, l : ~Staged(q, l)
        /\ progress' = progress /\ failed' = failed /\ damaged' = damaged
    BY <1>2, <2>2, <2>3 DEF Staged
  <2>5. Settled'
    BY <1>1, <1>2, <2>2, <2>3 DEF Settled
  <2>6. Forgotten'
    BY <1>1, <2>1, <2>2, <2>4 DEF Orderly, Forgotten
  <2>7. StagedWhole' /\ QueuedBacked' /\ AheadWhole'
    BY <1>1, <2>3 DEF StagedWhole, QueuedBacked, AheadWhole
  <2>8. Even'
    <3>1. \A q \in Requests, l, m \in Layers : progress[q][l] > 0 => progress[q][m] > 0
      BY <2>1 DEF Orderly, Even
    <3> QED
      BY <1>1, <2>4, <3>1 DEF Even
  <2>9. StoredWhole'
    <3>1. \A q, l, b : Fits(q, l, b)' <=> Fits(q, l, b)
      BY <1>1, <2>2, <2>4 DEF Fits, Overlapped
    <3>2. \A q \in Requests, l \in Layers :
            file'[q][l].len > 0 => file'[q] = file[q]
      BY <1>3, ValueFacts
    <3> QED
      BY <1>1, <1>2, <1>5, <2>1, <2>2, <2>4, <3>1, <3>2 DEF Orderly, StoredWhole
  <2>10. RecordKept'
    <3>1. \A q \in Requests : record[q] # NoBytes =>
            (\A b : Backs(q, b) => Backs(q, b)')
      BY <1>3 DEF Backs
    <3> QED
      BY <1>1, <1>2, <1>3, <2>1, <2>2, <2>4, <3>1 DEF Orderly, RecordKept, Overlapped
  <2> QED
    BY <2>5, <2>6, <2>7, <2>8, <2>9, <2>10 DEF Orderly
<1> QED
  BY <1>4, <1>6, <1>7, <1>8

\* The three ways close returns.
LEMMA CloseDInv ==
  ASSUME DInv,
         \/ \E kept \in SUBSET Requests : CloseDrained(kept)
         \/ CloseTimesOut
         \/ \E w \in {"wedged", "closed"}, first \in {1, 2},
               kept \in SUBSET Requests : CloseAbandons(w, first, kept)
  PROVE  DInv'
<1> USE DEF DInv
<1>0. queue \in Seq(Job) /\ damaged \subseteq Requests /\ JobsIn \subseteq Job
  BY QueueFacts DEF TypeOK
<1>1. CASE \E kept \in SUBSET Requests : CloseDrained(kept)
  <2>1. PICK kept \in SUBSET Requests : CloseDrained(kept)
    BY <1>1
  <2>2. pc = "closing" /\ Closed("closed", {}, kept) /\ queue' = queue
        /\ damaged' = damaged
    BY <2>1 DEF CloseDrained
  <2>3. JobsIn' = JobsIn
    BY <2>2 DEF JobsIn
  <2> QED
    BY <1>0, <2>2, <2>3, ClosedDInv
<1>2. CASE CloseTimesOut
  <2>1. pc = "closing" /\ Closed("wedged", {}, {}) /\ queue' = queue
        /\ damaged' = damaged
    BY <1>2 DEF CloseTimesOut
  <2>2. JobsIn' = JobsIn
    BY <2>1 DEF JobsIn
  <2> QED
    BY <1>0, <2>1, <2>2, ClosedDInv
<1>3. CASE \E w \in {"wedged", "closed"}, first \in {1, 2},
              kept \in SUBSET Requests : CloseAbandons(w, first, kept)
  <2>1. PICK w \in {"wedged", "closed"}, first \in {1, 2},
             kept \in SUBSET Requests : CloseAbandons(w, first, kept)
    BY <1>3
  <2> DEFINE R == {queue[i].req : i \in first .. Len(queue)}
             D == {queue[i].req :
                     i \in {k \in first .. Len(queue) : queue[k].kind = "layer"}}
  <2>2. /\ pc = "closing" /\ queue # << >> /\ Closed(w, R, kept)
        /\ damaged' = damaged \cup D /\ queue' = SubSeq(queue, 1, first - 1)
    BY <2>1 DEF CloseAbandons
  <2>3. Len(queue) \in Nat /\ Len(queue) >= 1 /\ \A i \in 1 .. Len(queue) : queue[i] \in Job
    BY <1>0, <2>2, EmptySeq, LenProperties, ElementOfSeq
  <2>4. \A i \in first .. Len(queue) : queue[i].req \in Requests
    <3>1. \A i \in first .. Len(queue) : i \in 1 .. Len(queue)
      BY <2>3
    <3> QED
      BY <2>3, <3>1, JobFields
  <2>5. R \subseteq Requests /\ D \subseteq Requests
    BY <2>4
  <2>6. /\ queue' \in Seq(Job) /\ Len(queue') = first - 1
        /\ \A i \in 1 .. first - 1 : queue'[i] = queue[i]
    <3>1. 1 \in 1 .. Len(queue) + 1 /\ first - 1 \in 1 - 1 .. Len(queue)
      BY <2>3
    <3>2. /\ SubSeq(queue, 1, first - 1) \in Seq(Job)
          /\ Len(SubSeq(queue, 1, first - 1)) =
               IF 1 <= first - 1 THEN (first - 1) - 1 + 1 ELSE 0
          /\ \A i \in 1 .. (first - 1) - 1 + 1 :
               SubSeq(queue, 1, first - 1)[i] = queue[1 + i - 1]
      BY <1>0, <3>1, SubSeqProperties
    <3>3. (IF 1 <= first - 1 THEN (first - 1) - 1 + 1 ELSE 0) = first - 1
          /\ (first - 1) - 1 + 1 = first - 1 /\ \A i \in Int : 1 + i - 1 = i
      OBVIOUS
    <3> QED
      BY <2>2, <3>2, <3>3
  <2>7. JobsIn' \subseteq JobsIn
    <3>1. \A i \in 1 .. Len(queue') : i \in 1 .. Len(queue) /\ queue'[i] = queue[i]
      BY <2>3, <2>6
    <3> QED
      BY <3>1 DEF JobsIn
  <2>8. JobsIn # {}
    BY <1>0, <2>2, QueueFacts
  <2> HIDE DEF R, D
  <2>9. damaged' \subseteq Requests
    BY <1>0, <2>2, <2>5
  <2> QED
    BY <2>2, <2>5, <2>6, <2>7, <2>8, <2>9, ClosedDInv
<1> QED
  BY <1>1, <1>2, <1>3

-----------------------------------------------------------------------------
(* The writer thread. *)

\* A layer job at the head of the queue is settled: its file is written, or it
\* is reported and its donor is damaged. E is who was evicted to make room.
LayerSettled(E) ==
  /\ queue # << >> /\ queue' = Tail(queue) /\ Head(queue).kind = "layer"
  /\ UNCHANGED <<use, live, pc, hook, stores, finalize, finished, layer, left,
                 progress, opened, finalized, failed, pending, writer>>
  /\ Head(queue).req \notin E
  /\ E # {} => Backend # "disk"
  /\ wevicted' = wevicted \cup E
  /\ file' \in [Requests -> [Layers -> Bytes]]
  /\ record' \in [Requests -> Bytes]
  /\ lru' \in Seq(Requests)
  /\ undeleted \subseteq undeleted' /\ undeleted' \subseteq Requests
  /\ \A q \in E : file'[q] = NoLayers(NoBytes)
  /\ \A q \in Requests \ E, m \in Layers :
       ~IsLayer(Head(queue), q, m) => file'[q][m] = file[q][m]
  /\ \A q \in Requests \ E : record'[q] = record[q]
  /\ \A q \in E : record'[q] = NoBytes
                   \/ (record'[q] = record[q] /\ q \in undeleted')
  /\ \/ /\ wfailed' = wfailed /\ damaged' = damaged
        /\ \A q \in Requests, m \in Layers :
             IsLayer(Head(queue), q, m) => file'[q][m] = Head(queue).bytes
     \/ /\ wfailed' = wfailed \cup {Head(queue).req}
        /\ damaged' = damaged \cup {Head(queue).req}

\* Settling a layer job keeps the invariant, whoever is evicted for it.
LEMMA LayerSettledDInv ==
  ASSUME DInv, NEW E \in SUBSET Requests, LayerSettled(E)
  PROVE  DInv'
<1> USE DEF DInv, LayerSettled
<1> DEFINE h == Head(queue)
<1>1. /\ queue' \in Seq(Job) /\ h \in Job /\ h \in JobsIn
      /\ JobsIn = JobsIn' \cup {h}
  BY TakeJob DEF TypeOK
<1>2. h.kind = "layer" /\ h.req \in Requests /\ h.req \notin E
  BY <1>1, JobFields
<1>3. PICK l \in Layers : h.names = {l}
  BY <1>1, <1>2 DEF Control
<1>4. TypeOK'
  <2>1. /\ wfailed' \subseteq Requests /\ wevicted' \subseteq Requests
        /\ damaged' \subseteq Requests
    BY <1>2 DEF TypeOK
  <2> QED
    BY <1>1, <2>1 DEF TypeOK
<1> HIDE DEF h
<1>5. WriterClosed' <=> WriterClosed
  BY DEF WriterClosed
<1>6. Control'
  <2>1. \A j \in JobsIn' : j.kind = "layer" => \E m \in Layers : j.names = {m}
    BY <1>1 DEF Control
  <2>2. writer # "none"
    BY DEF Control
  <2> QED
    BY <2>1, <2>2 DEF Control
<1>7. Owned'
  BY <1>1, <1>5 DEF Owned
<1>8. NoOrphans'
  <2> SUFFICES ASSUME Backend = "disk", ~WriterClosed,
                      NEW q \in Requests \ (opened \cup undeleted'),
                      record'[q] = NoBytes
               PROVE  file'[q] = NoLayers(NoBytes)
    BY <1>5 DEF NoOrphans
  <2>1. q \notin E /\ record[q] = NoBytes /\ q \notin undeleted
    OBVIOUS
  <2>2. q # h.req
    BY <1>1 DEF Owned
  <2>3. \A m \in Layers : file'[q][m] = file[q][m]
    BY <2>1, <2>2 DEF IsLayer, h
  <2>4. file'[q] = file[q]
    BY <2>3 DEF TypeOK
  <2> QED
    BY <2>1, <2>4 DEF NoOrphans
<1>9. ASSUME Sane'
      PROVE  Orderly'
  <2>1. Orderly
    BY <1>5, <1>9 DEF Sane
  <2>2. pc \in {"save", "flush1"} /\ ~WriterClosed /\ hook # "shutdown"
    <3>1. /\ pc \notin {"finish", "retire", "idle"} /\ ~WriterClosed
          /\ hook # "shutdown" /\ pc \notin {"publish", "flush2"}
      BY <1>1, <1>2, <2>1 DEF Orderly, Settled
    <3>2. pc # "closing"
      BY <3>1 DEF Control
    <3> QED
      BY <3>1, <3>2 DEF TypeOK
  <2>3. \A j \in JobsIn' : j.kind = "layer"
    BY <1>1, <2>1, <2>2 DEF Orderly, Settled
  <2>4. Settled'
    BY <1>5, <2>2, <2>3 DEF Settled
  <2>5. \A q, m, b : Fits(q, m, b)' <=> Fits(q, m, b)
    BY DEF Fits, Overlapped
  <2>6. \A q, m : Staged(q, m) <=> Staged(q, m)' \/ IsLayer(h, q, m)
    <3>1. \A j, q, m : IsLayer(j, q, m)' <=> IsLayer(j, q, m)
      BY DEF IsLayer
    <3> QED
      BY <1>1, <3>1 DEF Staged
  <2>7. Forgotten' /\ QueuedBacked'
    BY <2>1, <2>3 DEF Orderly, Forgotten, QueuedBacked
  <2>8. StagedWhole'
    BY <1>1, <2>1, <2>5 DEF Orderly, StagedWhole
  <2>9. Even'
    <3>1. \A q, m : Ahead(q, m)' <=> Ahead(q, m)
      BY DEF Ahead
    <3> QED
      BY <2>1, <3>1 DEF Orderly, Even
  <2>10. \A q \in Requests, m \in Layers :
           ~IsLayer(h, q, m) =>
             \/ q \notin E /\ file'[q][m] = file[q][m]
             \/ q \in E /\ file'[q][m] = NoBytes
    BY ValueFacts DEF h
  <2>11. AheadWhole'
    <3> SUFFICES ASSUME pc = "save", NEW q \in Requests, NEW m \in Layers, Ahead(q, m)
                 PROVE  /\ ~Staged(q, m)'
                        /\ q \notin failed /\ progress[q][m] > 0 /\ file'[q][m].len > 0
                             => Fits(q, m, file'[q][m])
      BY <2>5 DEF AheadWhole, Ahead
    <3>1. ~Staged(q, m)
      BY <2>1 DEF Orderly, AheadWhole
    <3>2. ~Staged(q, m)' /\ ~IsLayer(h, q, m)
      BY <2>6, <3>1
    <3>3. CASE q \in E
      BY <2>10, <3>2, <3>3, ValueFacts
    <3>4. CASE q \notin E
      BY <2>1, <2>10, <3>2, <3>4 DEF Orderly, AheadWhole
    <3> QED
      BY <3>2, <3>3, <3>4
  <2>12. \A m \in Layers : IsLayer(h, h.req, m) =>
           progress[h.req][m] > 0 /\ Fits(h.req, m, h.bytes)
    BY <1>1, <1>2, <2>1 DEF Orderly, StagedWhole, IsLayer
  <2>13. \A m \in Layers : Fits(h.req, m, h.bytes) =>
           /\ h.bytes.len = progress[h.req][m]
           /\ Overlapped(h.req) \/ h.bytes.gen = use[h.req]
    BY DEF Fits
  <2>14. h.req \in live \cup finished
    <3>1. progress[h.req][l] > 0
      BY <1>2, <1>3, <2>12 DEF IsLayer
    <3>2. h.req \notin live \cup finished => progress[h.req][l] = 0
      BY <1>2, <2>1, ValueFacts DEF Orderly, Forgotten
    <3> QED
      BY <3>1, <3>2
  <2>15. StoredWhole'
    <3> SUFFICES ASSUME NEW q \in Requests \ (failed \cup wfailed'), NEW m \in Layers,
                        progress[q][m] > 0, ~Staged(q, m)'
                 PROVE  /\ file'[q][m].len > 0 => Fits(q, m, file'[q][m])
                        /\ file'[q][m].len > 0 \/ q \in wevicted'
      BY <2>5 DEF StoredWhole
    <3>1. q \in Requests \ (failed \cup wfailed)
      OBVIOUS
    <3>2. CASE IsLayer(h, q, m)
      <4>1. q = h.req
        BY <3>2 DEF IsLayer
      <4>2. file'[q][m] = h.bytes
        BY <3>2, <4>1 DEF h
      <4>3. Fits(q, m, file'[q][m])
        BY <2>12, <3>2, <4>1, <4>2
      <4> QED
        BY <2>13, <4>1, <4>2, <4>3
    <3>3. CASE ~IsLayer(h, q, m) /\ q \in E
      BY <2>10, <3>3, ValueFacts
    <3>4. CASE ~IsLayer(h, q, m) /\ q \notin E
      <4>1. ~Staged(q, m) /\ file'[q][m] = file[q][m]
        BY <2>6, <2>10, <3>4
      <4> QED
        BY <2>1, <2>2, <3>1, <4>1 DEF Orderly, StoredWhole
    <3> QED
      BY <3>2, <3>3, <3>4
  <2>16. RecordKept'
    <3>1. \A q \in Requests : record'[q].gen <= use'[q] \/ record'[q].gen = Mixed
      <4>1. \A q \in Requests : use[q] \in Nat
        BY SizeAssumption DEF TypeOK
      <4>2. \A q \in Requests : record'[q] = record[q] \/ record'[q] = NoBytes
        OBVIOUS
      <4> QED
        BY <2>1, <4>1, <4>2, ValueFacts DEF Orderly, RecordKept
    <3>4. \A q \in Requests : Overlapped(q)' => record'[q].gen # use'[q]
      <4>1. \A q \in Requests : Overlapped(q)' <=> Overlapped(q)
        BY DEF Overlapped
      <4>2. \A q \in Requests : record'[q] = record[q] \/ record'[q] = NoBytes
        OBVIOUS
      <4>3. \A q \in Requests : Overlapped(q) => use[q] # 0
        BY DEF Control, Overlapped
      <4> QED
        BY <2>1, <4>1, <4>2, <4>3, ValueFacts DEF Orderly, RecordKept
    <3>2. \A q \in wevicted' : record'[q] = NoBytes \/ q \in undeleted'
      <4>1. wevicted \subseteq Requests
        BY DEF TypeOK
      <4> QED
        BY <2>1, <4>1 DEF Orderly, RecordKept
    <3>3. ASSUME NEW q \in Requests \ (damaged' \cup undeleted'),
                 record'[q].gen = use'[q], record'[q] # NoBytes
          PROVE  /\ Backs(q, record[q])'
                 /\ q \in live' \cup finished' =>
                      \A m \in Layers : record'[q].len <= progress'[q][m]
      <4>1. q \notin E /\ record'[q] = record[q] /\ q \notin damaged \cup undeleted
        BY <3>3
      <4>2. /\ Backs(q, record[q])
            /\ q \in live \cup finished =>
                 \A m \in Layers : record[q].len <= progress[q][m]
        BY <2>1, <3>3, <4>1 DEF Orderly, RecordKept
      <4>3. \A m \in Layers :
              file'[q][m].gen = record[q].gen /\ file'[q][m].len >= record[q].len
        <5> SUFFICES ASSUME NEW m \in Layers
                     PROVE  /\ file'[q][m].gen = record[q].gen
                            /\ file'[q][m].len >= record[q].len
          OBVIOUS
        <5>1. CASE IsLayer(h, q, m)
          <6>1. q = h.req
            BY <5>1 DEF IsLayer
          <6>2. file'[q][m] = h.bytes
            BY <3>3, <5>1, <6>1 DEF h
          <6>5. ~Overlapped(q)
            BY <2>1, <3>3, <4>1 DEF Orderly, RecordKept
          <6>3. file'[q][m].gen = use[q] /\ file'[q][m].len = progress[q][m]
            BY <2>12, <2>13, <5>1, <6>1, <6>2, <6>5
          <6>4. record[q].len <= progress[q][m] /\ record[q].gen = use[q]
            BY <2>14, <3>3, <4>1, <4>2, <6>1
          <6> QED
            BY <6>3, <6>4
        <5>2. CASE ~IsLayer(h, q, m)
          <6>1. file'[q][m] = file[q][m]
            BY <2>10, <4>1, <5>2
          <6> QED
            BY <4>2, <6>1 DEF Backs
        <5> QED
          BY <5>1, <5>2
      <4> QED
        BY <4>1, <4>2, <4>3 DEF Backs
    <3> QED
      BY <3>1, <3>2, <3>3, <3>4 DEF RecordKept
  <2> QED
    BY <2>4, <2>7, <2>8, <2>9, <2>11, <2>15, <2>16 DEF Orderly
<1> QED
  BY <1>4, <1>6, <1>7, <1>8, <1>9

\* A metadata job at the head of the queue is settled: the record is replaced,
\* or the write is reported, or neither.
LEMMA RecordSettledDInv ==
  ASSUME DInv, queue # << >>, queue' = Tail(queue), Head(queue).kind = "metadata",
         UNCHANGED <<use, live, pc, hook, stores, finalize, finished, layer, left,
                     progress, opened, finalized, failed, pending, writer,
                     wevicted, file, lru, damaged, undeleted>>,
         \/ record' = record
         \/ record' = [record EXCEPT ![Head(queue).req] = Head(queue).bytes],
         wfailed' = wfailed \/ wfailed' = wfailed \cup {Head(queue).req}
  PROVE  DInv'
<1> USE DEF DInv
<1> DEFINE h == Head(queue)
<1>1. /\ queue' \in Seq(Job) /\ h \in Job /\ h \in JobsIn
      /\ JobsIn = JobsIn' \cup {h}
  BY TakeJob DEF TypeOK
<1>2. h.kind = "metadata" /\ h.req \in Requests /\ h.bytes \in Bytes
  BY <1>1, JobFields
<1>3. /\ record' \in [Requests -> Bytes]
      /\ \A q \in Requests : record'[q] = record[q]
                             \/ (q = h.req /\ record'[q] = h.bytes)
      /\ wfailed' \subseteq wfailed \cup {h.req} /\ wfailed \subseteq wfailed'
  BY <1>2 DEF TypeOK
<1> HIDE DEF h
<1>4. TypeOK'
  <2>1. wfailed' \subseteq Requests
    BY <1>2, <1>3 DEF TypeOK
  <2> QED
    BY <1>1, <1>3, <2>1 DEF TypeOK
<1>5. (WriterClosed' <=> WriterClosed) /\ \A q, m : Staged(q, m)' <=> Staged(q, m)
  <2>1. \A q, m : ~IsLayer(h, q, m)
    BY <1>2 DEF IsLayer
  <2>2. \A j, q, m : IsLayer(j, q, m)' <=> IsLayer(j, q, m)
    BY DEF IsLayer
  <2> QED
    BY <1>1, <2>1, <2>2 DEF WriterClosed, Staged
<1>6. Control'
  <2>1. \A j \in JobsIn' : j.kind = "layer" => \E m \in Layers : j.names = {m}
    BY <1>1 DEF Control
  <2>2. writer # "none"
    BY DEF Control
  <2> QED
    BY <2>1, <2>2 DEF Control
<1>7. Owned'
  BY <1>1, <1>5 DEF Owned
<1>8. NoOrphans'
  <2>1. ~WriterClosed => h.req \in opened
    BY <1>1 DEF Owned
  <2> QED
    BY <1>3, <1>5, <2>1 DEF NoOrphans
<1>9. ASSUME Sane'
      PROVE  Orderly'
  <2>1. Orderly
    BY <1>5, <1>9 DEF Sane
  <2>2. pc \in {"publish", "flush2"} /\ ~WriterClosed /\ hook # "shutdown"
        /\ wevicted = {}
    <3>1. /\ pc \notin {"finish", "retire", "idle"} /\ ~WriterClosed
          /\ hook # "shutdown" /\ pc \notin {"save", "flush1"}
      BY <1>1, <1>2, <2>1 DEF Orderly, Settled
    <3>2. pc \in {"publish", "flush2"}
      BY <3>1 DEF Control, TypeOK
    <3>3. wevicted = {}
      BY <2>1, <3>2 DEF Orderly, Settled
    <3> QED
      BY <3>1, <3>2, <3>3
  <2>3. Settled'
    <3>1. \A j \in JobsIn' : j.kind = "metadata"
      BY <1>1, <2>1, <2>2 DEF Orderly, Settled
    <3>2. pc = "publish" =>
            \A q \in pending : q \notin wfailed' /\ \A j \in JobsIn' : j.req # q
      BY <1>1, <1>3, <2>1 DEF Orderly, Settled
    <3>3. pc = "flush2" => pending = {}
      BY <2>1 DEF Orderly, Settled
    <3> QED
      BY <1>5, <2>2, <3>1, <3>2, <3>3 DEF Settled
  <2>4. Forgotten' /\ AheadWhole'
    BY <2>1, <2>2 DEF Orderly, Forgotten, AheadWhole
  <2>5. Even'
    BY <2>1, <2>2 DEF Orderly, Even
  <2>6. \A q, m, b : Fits(q, m, b)' <=> Fits(q, m, b)
    BY DEF Fits, Overlapped
  <2>7. \A q, b : Backs(q, b)' <=> Backs(q, b)
    BY DEF Backs
  <2>8. StagedWhole'
    BY <1>1, <2>1, <2>6 DEF Orderly, StagedWhole
  <2>9. StoredWhole'
    BY <1>3, <1>5, <2>1, <2>6 DEF Orderly, StoredWhole
  <2>15. \A q : (Overlapped(q)' <=> Overlapped(q)) /\ RecordUse(q)' = RecordUse(q)
    BY DEF Overlapped, RecordUse
  <2>10. QueuedBacked'
    BY <1>1, <2>1, <2>7, <2>15 DEF Orderly, QueuedBacked
  <2>11. /\ h.bytes.gen = RecordUse(h.req)
         /\ Overlapped(h.req) \/ Backs(h.req, h.bytes)
         /\ \A m \in Layers : h.bytes.len <= progress[h.req][m]
    BY <1>1, <1>2, <2>1 DEF Orderly, QueuedBacked
  <2>12. \A q \in Requests :
           /\ record'[q].gen <= use'[q] \/ record'[q].gen = Mixed
           /\ Overlapped(q)' => record'[q].gen # use'[q]
    <3>1. \A q \in Requests : use[q] \in Nat /\ use[q] # Mixed
      BY SizeAssumption DEF TypeOK, Mixed
    <3>2. \A q \in Requests : Overlapped(q) /\ q = h.req => h.bytes.gen = Mixed
      BY <2>11 DEF RecordUse
    <3>3. h.bytes.gen = use[h.req] \/ h.bytes.gen = Mixed
      BY <2>11 DEF RecordUse
    <3> QED
      BY <1>2, <1>3, <2>1, <2>15, <3>1, <3>2, <3>3 DEF Orderly, RecordKept
  <2>13. ASSUME NEW q \in Requests \ (damaged' \cup undeleted'),
                record'[q].gen = use'[q], record'[q] # NoBytes
         PROVE  /\ Backs(q, record'[q])
                /\ q \in live' \cup finished' =>
                     \A m \in Layers : record'[q].len <= progress'[q][m]
    <3>1. CASE record'[q] = record[q]
      BY <2>1, <2>13, <3>1 DEF Orderly, RecordKept
    <3>2. CASE q = h.req /\ record'[q] = h.bytes
      BY <2>11, <2>12, <2>13, <2>15, <3>2
    <3> QED
      BY <1>3, <3>1, <3>2
  <2>14. RecordKept'
    <3>1. \A q \in Requests : Backs(q, record'[q]) => Backs(q, record[q])'
      BY DEF Backs
    <3> QED
      BY <2>2, <2>12, <2>13, <3>1 DEF RecordKept
  <2> QED
    BY <2>3, <2>4, <2>5, <2>8, <2>9, <2>10, <2>14 DEF Orderly
<1> QED
  BY <1>4, <1>6, <1>7, <1>8, <1>9

\* Moving an entry to the end keeps the donors of the memory tier.
LEMMA MovedTyped ==
  ASSUME lru \in Seq(Requests), NEW i \in 1 .. Len(lru)
  PROVE  MovedToEnd(i) \in Seq(Requests)
<1>1. Len(lru) \in Nat /\ \A k \in 1 .. Len(lru) : lru[k] \in Requests
  BY LenProperties, ElementOfSeq
<1>2. SubSeq(lru, 1, i - 1) \in Seq(Requests)
  <2>1. \A k \in 1 .. i - 1 : lru[k] \in Requests
    BY <1>1
  <2> QED
    BY <1>1, <2>1, SubSeqProperties
<1>3. SubSeq(lru, i + 1, Len(lru)) \in Seq(Requests)
  <2>1. \A k \in i + 1 .. Len(lru) : lru[k] \in Requests
    BY <1>1
  <2> QED
    BY <1>1, <2>1, SubSeqProperties
<1>4. <<lru[i]>> \in Seq(Requests)
  BY <1>1
<1>5. SubSeq(lru, 1, i - 1) \o SubSeq(lru, i + 1, Len(lru)) \in Seq(Requests)
  BY <1>2, <1>3, ConcatProperties
<1> QED
  BY <1>4, <1>5, ConcatProperties DEF MovedToEnd

\* A layer write changes one layer of one donor.
LEMMA StoredFacts ==
  ASSUME DInv, NEW h \in JobsIn, h.kind = "layer", NEW b \in Bytes
  PROVE  /\ Stored(h, b) \in [Requests -> [Layers -> Bytes]]
         /\ \A q \in Requests, m \in Layers :
              IF IsLayer(h, q, m) THEN Stored(h, b)[q][m] = b
                                  ELSE Stored(h, b)[q][m] = file[q][m]
         /\ \A q \in Requests \ {h.req} : Stored(h, b)[q] = file[q]
<1>1. PICK l \in Layers : h.names = {l}
  BY DEF DInv, Control
<1>2. h.req \in Requests
  BY QueueFacts, JobFields DEF DInv, TypeOK
<1>3. Target(h) = l
  BY <1>1 DEF Target
<1>4. file \in [Requests -> [Layers -> Bytes]]
  BY DEF DInv, TypeOK
<1>5. Stored(h, b) = [file EXCEPT ![h.req][l] = b]
  BY <1>3 DEF Stored
<1>6. \A q \in Requests, m \in Layers : IsLayer(h, q, m) <=> q = h.req /\ m = l
  BY <1>1 DEF IsLayer
<1>7. Stored(h, b) \in [Requests -> [Layers -> Bytes]]
  BY <1>2, <1>4, <1>5
<1>8. \A q \in Requests \ {h.req} : Stored(h, b)[q] = file[q]
  BY <1>2, <1>4, <1>5
<1>9. /\ Stored(h, b)[h.req][l] = b
      /\ \A m \in Layers \ {l} : Stored(h, b)[h.req][m] = file[h.req][m]
  BY <1>2, <1>4, <1>5
<1> QED
  BY <1>6, <1>7, <1>8, <1>9

\* Every job the writer thread settles keeps the invariant.
LEMMA WriterDInv ==
  ASSUME DInv, Writer
  PROVE  DInv'
<1> DEFINE h == Head(queue)
<1>1. queue # << >> /\ queue' = Tail(queue) /\ h.kind \in {"layer", "metadata"}
  BY DEF Writer, LayerLands, LayerFails, LayerStaysInMemory, LayerEntersMemory,
     LayerEvicts, RecordLands, RecordFails, RecordSkipped, WriterTakes
<1>2. UNCHANGED <<use, live, pc, hook, stores, finalize, finished, layer, left,
                  progress, opened, finalized, failed, pending, writer>>
  BY DEF Writer, LayerLands, LayerFails, LayerStaysInMemory, LayerEntersMemory,
     LayerEvicts, RecordLands, RecordFails, RecordSkipped, engine, step, capture
<1>3. h \in Job /\ h \in JobsIn
  BY <1>1, TakeJob DEF DInv, TypeOK
<1>4. h.req \in Requests /\ h.bytes \in Bytes
  BY <1>3, JobFields
<1>5. /\ lru \in Seq(Requests) /\ record \in [Requests -> Bytes]
      /\ file \in [Requests -> [Layers -> Bytes]]
      /\ undeleted \subseteq Requests
  BY DEF DInv, TypeOK
<1>6. h.kind = "layer" =>
        /\ Stored(h, h.bytes) \in [Requests -> [Layers -> Bytes]]
        /\ \A q \in Requests, m \in Layers :
             IF IsLayer(h, q, m) THEN Stored(h, h.bytes)[q][m] = h.bytes
                                 ELSE Stored(h, h.bytes)[q][m] = file[q][m]
        /\ \A q \in Requests \ {h.req} : Stored(h, h.bytes)[q] = file[q]
  BY <1>3, <1>4, StoredFacts
<1> HIDE DEF h
<1>7. CASE LayerLands \/ LayerStaysInMemory \/ LayerEntersMemory
  <2>1. /\ h.kind = "layer" /\ file' = Stored(h, h.bytes)
        /\ UNCHANGED <<record, wfailed, wevicted, damaged, undeleted>>
    BY <1>7 DEF LayerLands, LayerStaysInMemory, LayerEntersMemory, WriterTakes,
       reports, history, h
  <2>2. lru' \in Seq(Requests)
    <3>1. CASE LayerLands
      BY <1>5, <3>1 DEF LayerLands
    <3>2. CASE LayerStaysInMemory
      <4>1. PICK i \in 1 .. Len(lru) : lru' = MovedToEnd(i)
        BY <3>2 DEF LayerStaysInMemory
      <4> QED
        BY <1>5, <4>1, MovedTyped
    <3>3. CASE LayerEntersMemory
      <4>1. lru' = Append(lru, h.req)
        BY <3>3 DEF LayerEntersMemory, h
      <4> QED
        BY <1>4, <1>5, <4>1, AppendProperties
    <3> QED
      BY <1>7, <3>1, <3>2, <3>3
  <2>3. /\ file' \in [Requests -> [Layers -> Bytes]]
        /\ \A q \in Requests, m \in Layers :
             /\ ~IsLayer(h, q, m) => file'[q][m] = file[q][m]
             /\ IsLayer(h, q, m) => file'[q][m] = h.bytes
    BY <1>6, <2>1
  <2>4. wevicted' = wevicted \cup {}
    BY <2>1
  <2> QED
    <3>1. LayerSettled({})
      BY <1>1, <1>2, <1>5, <2>1, <2>2, <2>3, <2>4 DEF LayerSettled, h
    <3> QED
      BY <3>1, LayerSettledDInv
<1>8. CASE \E torn \in BOOLEAN : LayerFails(torn)
  <2>1. PICK torn \in BOOLEAN : LayerFails(torn)
    BY <1>8
  <2> DEFINE b == [h.bytes EXCEPT !.len = 0]
  <2>2. /\ h.kind = "layer" /\ file' = IF torn THEN Stored(h, b) ELSE file
        /\ wfailed' = wfailed \cup {h.req} /\ damaged' = damaged \cup {h.req}
        /\ UNCHANGED <<record, lru, wevicted, undeleted>>
    BY <2>1 DEF LayerFails, WriterTakes, h
  <2>3. b \in Bytes
    BY <1>4, ValueFacts DEF Bytes
  <2> HIDE DEF b
  <2>4. /\ file' \in [Requests -> [Layers -> Bytes]]
        /\ \A q \in Requests, m \in Layers :
             ~IsLayer(h, q, m) => file'[q][m] = file[q][m]
    BY <1>3, <1>5, <2>2, <2>3, StoredFacts
  <2>5. wevicted' = wevicted \cup {}
    BY <2>2
  <2> QED
    <3>1. LayerSettled({})
      BY <1>1, <1>2, <1>5, <2>2, <2>4, <2>5 DEF LayerSettled, h
    <3> QED
      BY <3>1, LayerSettledDInv
<1>9. CASE \E retracted \in BOOLEAN : LayerEvicts(retracted)
  <2>1. PICK retracted \in BOOLEAN : LayerEvicts(retracted)
    BY <1>9
  <2> DEFINE e == Head(lru)
  <2>2. /\ h.kind = "layer" /\ Backend = "memory" /\ ~InMemory(h.req)
        /\ Len(lru) >= DonorLimit
        /\ file' = [Stored(h, h.bytes) EXCEPT ![e] = NoLayers(NoBytes)]
        /\ lru' = Append(Tail(lru), h.req) /\ wevicted' = wevicted \cup {e}
        /\ record' = IF retracted THEN [record EXCEPT ![e] = NoBytes] ELSE record
        /\ undeleted' = IF retracted THEN undeleted ELSE undeleted \cup {e}
        /\ UNCHANGED <<wfailed, damaged>>
    BY <2>1 DEF LayerEvicts, WriterTakes, h
  <2>3. Len(lru) \in Nat /\ Len(lru) >= 1 /\ lru # << >>
    <3>1. Len(lru) \in Nat
      BY <1>5, LenProperties
    <3>2. DonorLimit \in Int /\ DonorLimit >= 1
      BY MaxDonorsAssumption DEF DonorLimit
    <3>3. Len(lru) >= 1
      BY <2>2, <3>1, <3>2
    <3> QED
      BY <1>5, <3>1, <3>3, EmptySeq
  <2>4. e \in Requests /\ e = lru[1] /\ Tail(lru) \in Seq(Requests)
    BY <1>5, <2>3, HeadTailProperties
  <2>5. e # h.req
    BY <2>2, <2>3, <2>4 DEF InMemory
  <2> HIDE DEF e
  <2>6. lru' \in Seq(Requests)
    BY <1>4, <2>2, <2>4, AppendProperties
  <2>7. /\ record' \in [Requests -> Bytes]
        /\ \A q \in Requests \ {e} : record'[q] = record[q]
        /\ retracted => record'[e] = NoBytes
        /\ ~retracted => record'[e] = record[e] /\ e \in undeleted'
        /\ undeleted \subseteq undeleted' /\ undeleted' \subseteq Requests
    BY <1>5, <2>2, <2>4, ValueFacts
  <2>8. /\ file' \in [Requests -> [Layers -> Bytes]]
        /\ file'[e] = NoLayers(NoBytes)
        /\ \A q \in Requests \ {e} : file'[q] = Stored(h, h.bytes)[q]
    BY <1>6, <2>2, <2>4, ValueFacts
  <2>9. /\ \A q \in Requests \ {e}, m \in Layers :
             ~IsLayer(h, q, m) => file'[q][m] = file[q][m]
        /\ \A q \in Requests, m \in Layers :
             IsLayer(h, q, m) => file'[q][m] = h.bytes
    <3>1. \A m \in Layers : ~IsLayer(h, e, m)
      BY <2>5 DEF IsLayer
    <3> QED
      BY <1>6, <2>2, <2>8, <3>1
  <2>10. \A q \in {e} : /\ file'[q] = NoLayers(NoBytes)
                        /\ record'[q] = NoBytes
                           \/ (record'[q] = record[q] /\ q \in undeleted')
    BY <2>7, <2>8
  <2>11. {e} \in SUBSET Requests /\ h.req \notin {e} /\ Backend # "disk"
    BY <2>2, <2>4, <2>5
  <2> QED
    <3>1. LayerSettled({e})
      BY <1>1, <1>2, <2>2, <2>6, <2>7, <2>8, <2>9, <2>10, <2>11
         DEF LayerSettled, h
    <3> QED
      BY <2>11, <3>1, LayerSettledDInv
<1>10. CASE RecordLands \/ RecordFails \/ RecordSkipped
  <2>1. /\ h.kind = "metadata"
        /\ UNCHANGED <<wevicted, file, lru, damaged, undeleted>>
        /\ record' = record \/ record' = [record EXCEPT ![h.req] = h.bytes]
        /\ wfailed' = wfailed \/ wfailed' = wfailed \cup {h.req}
    BY <1>10 DEF RecordLands, RecordFails, RecordSkipped, WriterTakes, reports,
       disk, history, h
  <2> QED
    BY <1>1, <1>2, <2>1, RecordSettledDInv DEF h
<1> QED
  BY <1>7, <1>8, <1>9, <1>10 DEF Writer

-----------------------------------------------------------------------------
(* The invariant, and what it gives. *)

\* A set of positions of a sequence that is not empty has a largest one.
LEMMA LargestExists ==
  ASSUME NEW n \in Nat, NEW T \in SUBSET (1 .. n), T # {}
  PROVE  \E x \in T : \A y \in T : y <= x
<1> DEFINE R == {ss \in Nat \X Nat : ss[1] < ss[2]}
           D == {n - i : i \in T}
<1>1. IsWellFoundedOn(R, Nat)
  BY NatLessThanWellFounded DEF OpToRel
<1>2. D \subseteq Nat /\ D # {}
  <2>1. \A i \in T : n - i \in Nat
    OBVIOUS
  <2> QED
    BY <2>1
<1>3. PICK d \in D : \A c \in D : <<c, d>> \notin R
  <2> HIDE DEF R, D
  <2> QED
    BY <1>1, <1>2, WFMin
<1>4. PICK x \in T : d = n - x
  OBVIOUS
<1>5. ASSUME NEW y \in T
      PROVE  y <= x
  <2>1. n - y \in D /\ n - y \in Nat /\ d \in Nat
    BY <1>2
  <2>2. ASSUME n - y < d
        PROVE  <<n - y, d>> \in R
    <3>1. /\ <<n - y, d>> \in Nat \X Nat
          /\ <<n - y, d>>[1] = n - y /\ <<n - y, d>>[2] = d
      BY <2>1
    <3> QED
      BY <2>2, <3>1
  <2>3. ~(n - y < d)
    BY <1>3, <2>1, <2>2
  <2> QED
    BY <1>4, <2>3
<1> QED
  BY <1>5

\* No step of the forward thread, of the writer thread or of teardown breaks
\* the invariant.
LEMMA NextDInv == DInv /\ [Next]_vars => DInv'
<1> SUFFICES ASSUME DInv, [Next]_vars PROVE DInv'
  OBVIOUS
<1>1. CASE Save
  BY <1>1, SaveKvLayerDInv, CaptureNothingNewDInv, CaptureLayerDInv,
     CaptureRefusedDInv DEF Save
<1>2. CASE Flush
  <2>1. CASE \E r \in Requests, n \in Lengths : SubmitFinalize(r, n) \/ FinalizeRefused(r, n)
    BY <2>1, SubmitFinalizeDInv, FinalizeRefusedDInv
  <2>2. CASE \E r \in Requests : \E kept \in SUBSET {r} : Retire(r, kept)
    BY <2>2, RetireDInv
  <2>3. CASE FlushJoin \/ FlushEnd
    BY <2>3, FlushDInv
  <2>4. CASE \/ WaitForSave \/ PublishDone \/ GetFinished \/ EndStep
             \/ \E r \in Requests : SkipFinalize(r)
    BY <2>4, MoveDInv
  <2> QED
    BY <1>2, <2>1, <2>2, <2>3, <2>4 DEF Flush
<1>3. CASE Teardown \/ Shutdown \/ ThreadStops
  BY <1>3, MoveDInv, CloseDInv DEF Teardown
<1>4. CASE UNCHANGED vars
  <2>1. UNCHANGED <<use, live, pc, hook, stores, finalize, finished, layer, left,
                    progress, opened, finalized, failed, pending, queue, writer,
                    wfailed, wevicted, file, record, lru, damaged, undeleted>>
    BY <1>4 DEF vars, engine, step, capture, reports, disk, history
  <2>2. WriterClosed' <=> WriterClosed
    BY <2>1 DEF WriterClosed
  <2>3. /\ JobsIn' = JobsIn /\ \A r, l : Staged(r, l)' <=> Staged(r, l)
        /\ \A r, l, b : Fits(r, l, b)' <=> Fits(r, l, b)
        /\ \A r, l : Ahead(r, l)' <=> Ahead(r, l)
    BY <2>1, <2>2, StillData DEF Ahead
  <2>4. TypeOK' /\ Control' /\ Owned' /\ NoOrphans'
    BY <2>1, <2>2, <2>3 DEF DInv, TypeOK, Control, Owned, NoOrphans
  <2>5. ASSUME Sane'
        PROVE  Orderly'
    <3>1. Orderly
      BY <2>1, <2>2, <2>5 DEF DInv, Sane
    <3>2. Settled' /\ AheadWhole' /\ Even'
      BY <2>1, <2>2, <2>3, <3>1 DEF Orderly, Settled, AheadWhole, Even
    <3> QED
      BY <2>1, <2>2, <3>1, <3>2, StillData DEF Orderly
  <2> QED
    BY <2>4, <2>5 DEF DInv
<1> QED
  BY <1>1, <1>2, <1>3, <1>4, BeginStepDInv, WriterDInv DEF Next

\* The invariant holds in every reachable state of the worker.
LEMMA AlwaysDInv == Spec => []DInv
  BY InitDInv, NextDInv, PTL DEF Spec

\* The worker's books keep their types; in particular an appended chunk never
\* makes a layer longer than the prompt's cacheable prefix, also when the base
\* it continues was evicted or its write failed.
THEOREM TypeCorrect == Spec => []TypeOK
  BY AlwaysDInv, PTL DEF DInv

\* On disk a capture that the worker has forgotten and never published leaves
\* no files while the writer runs, however steps, failures and reuse of ids
\* interleave, also when a shutdown cuts a step short.
THEOREM OrphansCorrect == Spec => []NoOrphans
  BY AlwaysDInv, PTL DEF DInv

\* The copy that _captured_layer hands to an append ends exactly where the
\* layer's progress says, in every step, and is of the same use of the id in
\* every step but the one that ships the finish of the use before, as long as
\* no shutdown cuts a step short.
THEOREM ChunksCorrect ==
  ASSUME ~MidStepShutdown
  PROVE  Spec => []ChunksContiguous
<1>1. ASSUME DInv
      PROVE  ChunksContiguous
  <2> SUFFICES ASSUME NEW r \in Requests \ wfailed, NEW l \in Layers,
                      progress[r][l] > 0, CapturedLayer(r, l).len > 0
               PROVE  Fits(r, l, CapturedLayer(r, l))
    BY DEF ChunksContiguous, Fits
  <2>1. Orderly
    BY <1>1 DEF DInv, Sane
  <2>2. r \notin failed
    BY ValueFacts DEF CapturedLayer
  <2>3. CASE StagedAt(r, l) = {}
    <3>1. CapturedLayer(r, l) = file[r][l]
      BY <2>2, <2>3 DEF CapturedLayer
    <3>2. ~Staged(r, l)
      BY <2>3 DEF Staged, StagedAt, JobsIn, IsLayer
    <3> QED
      BY <2>1, <2>2, <3>1, <3>2 DEF Orderly, StoredWhole
  <2>4. CASE StagedAt(r, l) # {}
    <3> DEFINE newest == CHOOSE i \in StagedAt(r, l) :
                           \A j \in StagedAt(r, l) : j <= i
    <3>1. CapturedLayer(r, l) = queue[newest].bytes
      BY <2>2, <2>4 DEF CapturedLayer
    <3>2. newest \in StagedAt(r, l)
      <4>1. \E i \in StagedAt(r, l) : \A j \in StagedAt(r, l) : j <= i
        <5>1. Len(queue) \in Nat
          BY <1>1, LenProperties DEF DInv, TypeOK
        <5>2. StagedAt(r, l) \subseteq 1 .. Len(queue)
          BY DEF StagedAt
        <5> QED
          BY <2>4, <5>1, <5>2, LargestExists
      <4> QED
        BY <4>1
    <3> HIDE DEF newest
    <3>3. queue[newest] \in JobsIn /\ IsLayer(queue[newest], r, l)
      BY <3>2 DEF StagedAt, JobsIn, IsLayer
    <3> QED
      BY <2>1, <3>1, <3>3 DEF Orderly, StagedWhole, IsLayer
  <2> QED
    BY <2>3, <2>4
<1> QED
  BY <1>1, AlwaysDInv, PTL

\* A record published for one use of an id is never longer than the bytes
\* behind it and never over another use's bytes while that use lasts, through
\* growth, restarts, eviction and discards, as long as no shutdown cuts a step
\* short. That includes a use which began in the step that shipped the finish
\* of the one before: what it publishes from the next step on is its own.
THEOREM RecordCorrect ==
  ASSUME ~MidStepShutdown
  PROVE  Spec => []RecordBacked
<1>1. DInv => RecordBacked
  BY DEF DInv, Sane, Orderly, RecordKept, RecordBacked
<1> QED
  BY <1>1, AlwaysDInv, PTL

\* A record lands only over complete layers of the same use, except for an id
\* that this step finishes and uses again: the second job of a flush can
\* neither overtake the tensors nor outlive their failure, as long as no
\* shutdown cuts a step short.
THEOREM PublicationCorrect ==
  ASSUME ~MidStepShutdown
  PROVE  Spec => PublishedComplete
<1>1. ASSUME DInv, [Next]_vars
      PROVE  [\A r \in Requests :
                record'[r] # record[r] /\ record'[r] # NoBytes /\ ~Overlapped(r)
                  => Backs(r, record'[r])]_vars
  <2> SUFFICES ASSUME NEW r \in Requests, record'[r] # record[r],
                      record'[r] # NoBytes, ~Overlapped(r)
               PROVE  Backs(r, record'[r])
    OBVIOUS
  <2>1. \/ RecordLands
        \/ \E retracted \in BOOLEAN : LayerEvicts(retracted)
    BY <1>1 DEF Next, BeginStep, Save, SaveKvLayer, CaptureNothingNew,
       CaptureLayer, CaptureRefused, Flush, WaitForSave, FlushJoin, PublishDone,
       FlushEnd, GetFinished, SkipFinalize, SubmitFinalize, FinalizeRefused,
       Retire, Discard, EndStep, Shutdown, Teardown, CloseWriter, CloseDrained,
       CloseTimesOut, CloseAbandons, Closed, Writer, LayerLands, LayerFails,
       LayerStaysInMemory, LayerEntersMemory, RecordFails, RecordSkipped,
       ThreadStops, vars, disk
  <2>2. ~\E retracted \in BOOLEAN : LayerEvicts(retracted)
    BY <1>1 DEF LayerEvicts, DInv, TypeOK
  <2>3. /\ queue # << >> /\ queue' = Tail(queue) /\ Head(queue).kind = "metadata"
        /\ record' = [record EXCEPT ![Head(queue).req] = Head(queue).bytes]
    BY <2>1, <2>2 DEF RecordLands, WriterTakes
  <2>4. Head(queue) \in JobsIn
    BY <1>1, <2>3, TakeJob DEF DInv, TypeOK
  <2>5. r = Head(queue).req /\ record'[r] = Head(queue).bytes
    BY <1>1, <2>3 DEF DInv, TypeOK
  <2> QED
    BY <1>1, <2>3, <2>4, <2>5 DEF DInv, Sane, Orderly, QueuedBacked
<1> QED
  BY <1>1, AlwaysDInv, PTL DEF Spec, PublishedComplete
=============================================================================
