------------------------- MODULE CaptureWriterProofs -------------------------
(***************************************************************************)
(* Proofs about CaptureWriter, for any number of jobs and closers and any  *)
(* configured queue depth.                                                 *)
(*                                                                         *)
(* The inductive invariant joins the type invariant, the queue's counter,  *)
(* the place of every accepted job and the order of the queue with the     *)
(* bookkeeping they rest on: at most one close is under way, it has set    *)
(* _closed, and jobs not yet submitted are untouched.                      *)
(***************************************************************************)
EXTENDS CaptureWriter, SequenceTheorems, TLAPS

Bookkeeping ==
  /\ \A c \in Closers : Active(c) => closed
  /\ \A c, d \in Closers : Active(c) /\ Active(d) => c = d
  /\ thread \in {"write", "report"} => held \in Jobs
  /\ thread \in {"get", "check", "none", "exited"} => held = Sentinel
  /\ ~CloserHolds => taken = Sentinel
  /\ held < next /\ taken < next
  /\ forward \in {"ensured", "full"} => next \in Jobs
  /\ \A j \in Jobs : j >= next => outcome[j] = "new"

IInv ==
  /\ TypeOK
  /\ Bookkeeping
  /\ UnfinishedIsOutstanding
  /\ EachInOnePlace
  /\ JobsInOrder

Items == Jobs \cup {Sentinel}

-----------------------------------------------------------------------------
(* What a put and a get do to the queue. *)

\* Appending an item keeps the queue and adds the item at its end.
LEMMA PutQueued ==
  ASSUME TypeOK, NEW x \in Items, queue' = Append(queue, x)
  PROVE  /\ queue' \in Seq(Items)
         /\ Len(queue') = Len(queue) + 1
         /\ \A i \in 1 .. Len(queue) : queue'[i] = queue[i]
         /\ queue'[Len(queue) + 1] = x
         /\ \A j \in Jobs : Queued(j)' <=> Queued(j) \/ j = x
<1>1. queue \in Seq(Items)
  BY DEF TypeOK, Items
<1>2. /\ queue' \in Seq(Items)
      /\ Len(queue') = Len(queue) + 1
      /\ \A i \in 1 .. Len(queue) : queue'[i] = queue[i]
      /\ queue'[Len(queue) + 1] = x
  BY <1>1, AppendProperties
<1>3. Len(queue) \in Nat
  BY <1>1, LenProperties
<1>4. QED
  BY <1>2, <1>3 DEF Queued

\* Removing the head of a queue that is in order removes exactly that job,
\* and everything left comes after it.
LEMMA GetQueued ==
  ASSUME TypeOK, JobsInOrder, queue # << >>, queue' = Tail(queue)
  PROVE  /\ queue' \in Seq(Items)
         /\ Head(queue) \in Items
         /\ Head(queue) = queue[1]
         /\ Len(queue) \in Nat /\ Len(queue) > 0
         /\ Len(queue') = Len(queue) - 1
         /\ \A i \in 1 .. Len(queue') : queue'[i] = queue[i + 1]
         /\ \A j \in Jobs : Queued(j)' <=> Queued(j) /\ j # Head(queue)
         /\ \A j \in Jobs : Head(queue) = j => Queued(j)
         /\ \A j, k \in Jobs : Head(queue) = j /\ Queued(k)' => j < k
<1>1. queue \in Seq(Items)
  BY DEF TypeOK, Items
<1>2. /\ queue' \in Seq(Items)
      /\ Head(queue) \in Items
      /\ Len(queue') = Len(queue) - 1
      /\ \A i \in 1 .. Len(queue') : queue'[i] = queue[i + 1]
  BY <1>1, HeadTailProperties
<1>3. Len(queue) \in Nat /\ Len(queue) > 0
  BY <1>1, EmptySeq, LenProperties
<1>4. Head(queue) = queue[1]
  BY <1>1, <1>3
<1>5. \A j, k \in Jobs : Head(queue) = j /\ Queued(k)' => j < k
  BY <1>2, <1>3, <1>4 DEF Queued, JobsInOrder, Jobs, Sentinel
<1>6. \A j \in Jobs : Queued(j)' => Queued(j) /\ j # Head(queue)
  <2>1. SUFFICES ASSUME NEW j \in Jobs, Queued(j)'
                 PROVE  Queued(j) /\ j # Head(queue)
    OBVIOUS
  <2>2. Queued(j)
    BY <1>2, <1>3, <2>1 DEF Queued
  <2>3. QED
    BY <2>1, <2>2, <1>5 DEF Jobs
<1>7. \A j \in Jobs : Queued(j) /\ j # Head(queue) => Queued(j)'
  <2>1. SUFFICES ASSUME NEW j \in Jobs, Queued(j), j # Head(queue)
                 PROVE  Queued(j)'
    OBVIOUS
  <2>2. PICK i \in 1 .. Len(queue) : queue[i] = j
    BY <2>1 DEF Queued
  <2>3. i # 1
    BY <2>1, <2>2, <1>4
  <2>4. i - 1 \in 1 .. Len(queue') /\ queue'[i - 1] = queue[i]
    BY <2>2, <2>3, <1>2, <1>3
  <2>5. QED
    BY <2>2, <2>4 DEF Queued
<1>8. \A j \in Jobs : Head(queue) = j => Queued(j)
  BY <1>3, <1>4 DEF Queued
<1>9. QED
  BY <1>2, <1>3, <1>4, <1>5, <1>6, <1>7, <1>8

-----------------------------------------------------------------------------
(* The invariant holds initially and every step keeps it. *)

\* A writer that was just built has an empty queue and no work outstanding.
LEMMA InitIInv == Init => IInv
<1> SUFFICES ASSUME Init PROVE IInv
  OBVIOUS
<1>1. queue = << >> /\ queue \in Seq(Items) /\ Len(queue) = 0
  BY EmptySeq DEF Init
<1>2. TypeOK
  <2>1. queue \in Seq(Jobs \cup {Sentinel})
    BY <1>1 DEF Items
  <2>2. next \in 1 .. NumJobs + 1 /\ unfinished \in Nat
    BY NumJobsAssumption DEF Init
  <2>3. closer \in [Closers -> {"idle", "sentinel", "abandon", "report",
                                "join", "returned"}]
    BY DEF Init
  <2>4. outcome \in [Jobs -> {"new", "queued", "written", "failed",
                              "refused"}]
    BY DEF Init
  <2>5. QED
    BY <2>1, <2>2, <2>3, <2>4 DEF Init, TypeOK
<1>3. ~CloserHolds /\ ~WriterHolds
  BY DEF Init, CloserHolds, WriterHolds
<1>4. Bookkeeping
  BY <1>3 DEF Init, Bookkeeping, Active, Sentinel
<1>5. UnfinishedIsOutstanding
  BY <1>1, <1>3 DEF Init, UnfinishedIsOutstanding
<1>6. EachInOnePlace
  BY <1>1, <1>3 DEF Init, EachInOnePlace, Queued, Held, Taken
<1>7. JobsInOrder
  BY <1>1, <1>3 DEF Init, JobsInOrder, Queued, Held, Taken
<1>8. QED
  BY <1>2, <1>4, <1>5, <1>6, <1>7 DEF IInv

\* The forward pass: submit and join.
LEMMA ForwardIInv == IInv /\ Forward => IInv'
<1> SUFFICES ASSUME IInv, Forward PROVE IInv'
  OBVIOUS
<1> USE NumJobsAssumption DEF IInv, Jobs, Sentinel
<1>1. CASE \E hasTimeout \in BOOLEAN : EnsureThread(hasTimeout)
  <2>1. PICK hasTimeout \in BOOLEAN : EnsureThread(hasTimeout)
    BY <1>1
  <2> USE <2>1 DEF EnsureThread, closerVars
  <2>2. TypeOK'
    BY DEF TypeOK
  <2>3. (CloserHolds' <=> CloserHolds) /\ (WriterHolds' <=> WriterHolds)
    BY DEF CloserHolds, WriterHolds
  <2>4. Bookkeeping'
    BY <2>3 DEF Bookkeeping, Active, TypeOK
  <2>5. UnfinishedIsOutstanding'
    BY <2>3 DEF UnfinishedIsOutstanding
  <2>6. \A j \in Jobs : /\ Queued(j)' <=> Queued(j)
                        /\ Held(j)' <=> Held(j)
                        /\ Taken(j)' <=> Taken(j)
    BY <2>3 DEF Queued, Held, Taken
  <2>7. EachInOnePlace' /\ JobsInOrder'
    BY <2>6 DEF EachInOnePlace, JobsInOrder
  <2>8. QED
    BY <2>2, <2>4, <2>5, <2>7
<1>2. CASE SubmitClosed \/ SubmitTimesOut
  <2> USE <1>2 DEF SubmitClosed, SubmitTimesOut, Settle, closerVars, writerVars
  <2>1. next \in Jobs
    BY DEF TypeOK, Bookkeeping
  <2>2. TypeOK'
    BY <2>1 DEF TypeOK
  <2>3. (CloserHolds' <=> CloserHolds) /\ (WriterHolds' <=> WriterHolds)
    BY DEF CloserHolds, WriterHolds
  <2>4. Bookkeeping'
    BY <2>1, <2>3 DEF Bookkeeping, Active, TypeOK
  <2>5. UnfinishedIsOutstanding'
    BY <2>3 DEF UnfinishedIsOutstanding
  <2>6. \A j \in Jobs : /\ Queued(j)' <=> Queued(j)
                        /\ Held(j)' <=> Held(j)
                        /\ Taken(j)' <=> Taken(j)
    BY <2>3 DEF Queued, Held, Taken
  <2>7. outcome[next] = "new" /\ outcome'[next] = "refused"
    BY <2>1 DEF Bookkeeping, TypeOK
  <2>8. \A j \in Jobs : j # next => outcome'[j] = outcome[j]
    BY DEF TypeOK
  <2>9. EachInOnePlace'
    BY <2>1, <2>6, <2>7, <2>8 DEF EachInOnePlace
  <2>10. JobsInOrder'
    <3>1. next \in Nat /\ next' = next + 1 /\ queue' = queue
      BY DEF TypeOK
    <3>2. \A a \in 1 .. Len(queue') : queue'[a] < next'
      BY <3>1 DEF JobsInOrder, TypeOK, Items
    <3>3. \A j \in Jobs : outcome'[j] = "written" => outcome[j] = "written"
      BY <2>7, <2>8
    <3> QED
      BY <2>6, <3>1, <3>2, <3>3 DEF JobsInOrder
  <2>11. QED
    BY <2>2, <2>4, <2>5, <2>9, <2>10
<1>3. CASE SubmitPut
  <2> USE <1>3 DEF SubmitPut, Put, Settle, closerVars, writerVars
  <2>1. next \in Jobs
    BY DEF Bookkeeping
  <2>2. /\ queue' \in Seq(Items)
        /\ Len(queue') = Len(queue) + 1
        /\ \A i \in 1 .. Len(queue) : queue'[i] = queue[i]
        /\ queue'[Len(queue) + 1] = next
        /\ \A j \in Jobs : Queued(j)' <=> Queued(j) \/ j = next
    BY <2>1, PutQueued DEF Items
  <2>3. Len(queue) \in Nat
    BY LenProperties DEF TypeOK
  <2>4. TypeOK'
    BY <2>1, <2>2 DEF TypeOK, Items
  <2>5. (CloserHolds' <=> CloserHolds) /\ (WriterHolds' <=> WriterHolds)
    BY DEF CloserHolds, WriterHolds
  <2>6. Bookkeeping'
    BY <2>1, <2>5 DEF Bookkeeping, Active, TypeOK
  <2>7. UnfinishedIsOutstanding'
    <3> HIDE <1>3
    <3>1. /\ unfinished' = unfinished + 1 /\ Len(queue') = Len(queue) + 1
          /\ thread' = thread /\ closer' = closer
      BY <1>3, <2>2
    <3> DEFINE W == IF WriterHolds THEN 1 ELSE 0
               C == IF CloserHolds THEN 1 ELSE 0
    <3>2. W \in Nat /\ C \in Nat /\ W' = W /\ C' = C
      BY <3>1 DEF WriterHolds, CloserHolds
    <3>3. unfinished = Len(queue) + W + C
      BY DEF UnfinishedIsOutstanding
    <3>4. unfinished' = Len(queue') + W' + C'
      <4> HIDE DEF W, C
      <4> QED
        BY <2>3, <3>1, <3>2, <3>3
    <3>5. QED
      BY <3>4 DEF UnfinishedIsOutstanding
  <2>8. \A j \in Jobs : (Held(j)' <=> Held(j)) /\ (Taken(j)' <=> Taken(j))
    BY <2>5 DEF Held, Taken
  <2>9. outcome[next] = "new" /\ outcome'[next] = "queued"
    BY <2>1 DEF Bookkeeping, TypeOK
  <2>10. \A j \in Jobs : j # next => outcome'[j] = outcome[j]
    BY DEF TypeOK
  <2>11. EachInOnePlace'
    BY <2>1, <2>2, <2>8, <2>9, <2>10 DEF EachInOnePlace
  <2>12. \A j \in Jobs : Held(j) \/ Taken(j) \/ Queued(j)
                            \/ outcome[j] = "written" => j < next
    BY <2>1 DEF Bookkeeping, EachInOnePlace, TypeOK
  <2>13. JobsInOrder'
    <3> HIDE <1>3
    <3>0. next' = next + 1 /\ next \in Nat
      BY <1>3, <2>1
    <3>a. \A a \in 1 .. Len(queue) : queue[a] \in Int
      BY ElementOfSeq DEF TypeOK
    <3>1. \A a \in 1 .. Len(queue') : queue'[a] < next'
      BY <3>0, <3>a, <2>2, <2>3 DEF JobsInOrder
    <3>2. \A a, b \in 1 .. Len(queue') :
            a < b /\ queue'[a] # Sentinel /\ queue'[b] # Sentinel
              => queue'[a] < queue'[b]
      BY <3>0, <3>a, <2>2, <2>3 DEF JobsInOrder
    <3>3. \A j, k \in Jobs :
            /\ Held(j)' /\ Queued(k)' => j < k
            /\ Taken(j)' /\ Queued(k)' => j < k
            /\ outcome'[j] = "written" /\ (Held(k)' \/ Queued(k)') => j < k
      BY <2>1, <2>2, <2>8, <2>9, <2>10, <2>12 DEF JobsInOrder
    <3>4. QED
      BY <3>1, <3>2, <3>3 DEF JobsInOrder
  <2>14. QED
    BY <2>4, <2>6, <2>7, <2>11, <2>13
<1>4. CASE SubmitBlocks \/ JoinBegin \/ JoinReturn
  <2> USE <1>4 DEF SubmitBlocks, JoinBegin, JoinReturn, closerVars, writerVars
  <2>1. TypeOK'
    BY DEF TypeOK
  <2>2. (CloserHolds' <=> CloserHolds) /\ (WriterHolds' <=> WriterHolds)
    BY DEF CloserHolds, WriterHolds
  <2>3. Bookkeeping'
    BY <2>2 DEF Bookkeeping, Active
  <2>4. UnfinishedIsOutstanding'
    BY <2>2 DEF UnfinishedIsOutstanding
  <2>5. \A j \in Jobs : /\ Queued(j)' <=> Queued(j)
                        /\ Held(j)' <=> Held(j)
                        /\ Taken(j)' <=> Taken(j)
    BY <2>2 DEF Queued, Held, Taken
  <2>6. EachInOnePlace' /\ JobsInOrder'
    BY <2>5 DEF EachInOnePlace, JobsInOrder
  <2>7. QED
    BY <2>1, <2>3, <2>4, <2>6
<1>5. QED
  BY <1>1, <1>2, <1>3, <1>4 DEF Forward, ForwardStep

\* The writer thread: _run.
LEMMA WriterIInv == IInv /\ Writer => IInv'
<1> SUFFICES ASSUME IInv, Writer PROVE IInv'
  OBVIOUS
<1> USE NumJobsAssumption DEF IInv, Jobs, Sentinel, forwardVars, closerVars
<1>0. Len(queue) \in Nat
  BY LenProperties DEF TypeOK
<1>1. CASE Get
  <2> USE <1>1 DEF Get
  <2>1. /\ queue' \in Seq(Items)
        /\ Head(queue) \in Items
        /\ Head(queue) = queue[1]
        /\ Len(queue) > 0
        /\ Len(queue') = Len(queue) - 1
        /\ \A i \in 1 .. Len(queue') : queue'[i] = queue[i + 1]
        /\ \A j \in Jobs : Queued(j)' <=> Queued(j) /\ j # Head(queue)
        /\ \A j \in Jobs : Head(queue) = j => Queued(j)
        /\ \A j, k \in Jobs : Head(queue) = j /\ Queued(k)' => j < k
    BY GetQueued
  <2>2. TypeOK'
    BY <2>1 DEF TypeOK, Items
  <2>3. (CloserHolds' <=> CloserHolds) /\ ~WriterHolds /\ WriterHolds'
    BY DEF CloserHolds, WriterHolds
  <2>4. Bookkeeping'
    BY <2>1, <2>3, <1>0 DEF Bookkeeping, Active, TypeOK, Items, JobsInOrder
  <2>5. UnfinishedIsOutstanding'
    <3> HIDE <1>1
    <3>1. unfinished' = unfinished
      BY <1>1
    <3>2. QED
      BY <2>1, <2>3, <1>0, <3>1 DEF UnfinishedIsOutstanding
  <2>6. \A j \in Jobs : /\ ~Held(j)
                        /\ Held(j)' <=> j = Head(queue)
                        /\ Taken(j)' <=> Taken(j)
    BY <2>1, <2>3 DEF Held, Taken, Items
  <2>7. EachInOnePlace'
    BY <2>1, <2>6 DEF EachInOnePlace
  <2>8. JobsInOrder'
    <3>1. \A a \in 1 .. Len(queue') : queue'[a] < next'
      BY <2>1, <1>0 DEF JobsInOrder
    <3>2. \A a, b \in 1 .. Len(queue') :
            a < b /\ queue'[a] # Sentinel /\ queue'[b] # Sentinel
              => queue'[a] < queue'[b]
      BY <2>1, <1>0 DEF JobsInOrder
    <3>3. \A j, k \in Jobs :
            /\ Held(j)' /\ Queued(k)' => j < k
            /\ Taken(j)' /\ Queued(k)' => j < k
            /\ outcome'[j] = "written" /\ (Held(k)' \/ Queued(k)') => j < k
      BY <2>1, <2>6 DEF JobsInOrder
    <3>4. QED
      BY <3>1, <3>2, <3>3 DEF JobsInOrder
  <2>9. QED
    BY <2>2, <2>4, <2>5, <2>7, <2>8
<1>2. CASE WriteLands \/ ReportError
  <2> USE <1>2 DEF WriteLands, ReportError, Settle
  <2>1. held \in Jobs /\ Held(held) /\ outcome[held] = "queued"
    BY DEF Bookkeeping, Held, EachInOnePlace
  <2>2. TypeOK'
    BY <2>1 DEF TypeOK
  <2>3. (CloserHolds' <=> CloserHolds) /\ (WriterHolds' <=> WriterHolds)
    BY DEF CloserHolds, WriterHolds
  <2>4. Bookkeeping'
    BY <2>1, <2>3 DEF Bookkeeping, Active, TypeOK
  <2>5. UnfinishedIsOutstanding'
    BY <2>3 DEF UnfinishedIsOutstanding
  <2>6. \A j \in Jobs : /\ Queued(j)' <=> Queued(j)
                        /\ ~Held(j)'
                        /\ Taken(j)' <=> Taken(j)
                        /\ Held(j) <=> j = held
    BY <2>1, <2>3 DEF Queued, Held, Taken
  <2>7. outcome'[held] \in {"written", "failed"}
    BY <2>1 DEF TypeOK
  <2>8. \A j \in Jobs : j # held => outcome'[j] = outcome[j]
    BY DEF TypeOK
  <2>9. EachInOnePlace'
    BY <2>1, <2>6, <2>7, <2>8 DEF EachInOnePlace
  <2>10. JobsInOrder'
    BY <2>1, <2>6, <2>7, <2>8 DEF JobsInOrder
  <2>11. QED
    BY <2>2, <2>4, <2>5, <2>9, <2>10
<1>3. CASE WriteRaises \/ CheckStopping
  <2> USE <1>3 DEF WriteRaises, CheckStopping
  <2>1. TypeOK'
    BY DEF TypeOK
  <2>2. (CloserHolds' <=> CloserHolds) /\ (WriterHolds' <=> WriterHolds)
    BY DEF CloserHolds, WriterHolds
  <2>3. Bookkeeping'
    BY <2>2 DEF Bookkeeping, Active
  <2>4. UnfinishedIsOutstanding'
    BY <2>2 DEF UnfinishedIsOutstanding
  <2>5. \A j \in Jobs : /\ Queued(j)' <=> Queued(j)
                        /\ Held(j)' <=> Held(j)
                        /\ Taken(j)' <=> Taken(j)
    BY <2>2 DEF Queued, Held, Taken
  <2>6. EachInOnePlace' /\ JobsInOrder'
    BY <2>5 DEF EachInOnePlace, JobsInOrder
  <2>7. QED
    BY <2>1, <2>3, <2>4, <2>6
<1>4. CASE WriterTaskDone
  <2> USE <1>4 DEF WriterTaskDone, TaskDone
  <2>1. (CloserHolds' <=> CloserHolds) /\ WriterHolds /\ ~WriterHolds'
    BY DEF CloserHolds, WriterHolds
  <2>2. UnfinishedIsOutstanding' /\ unfinished > 0
    BY <2>1, <1>0 DEF UnfinishedIsOutstanding, TypeOK
  <2>3. TypeOK'
    BY <2>2 DEF TypeOK
  <2>4. Bookkeeping'
    BY <2>1 DEF Bookkeeping, Active, TypeOK
  <2>5. \A j \in Jobs : /\ Queued(j)' <=> Queued(j)
                        /\ Held(j)' <=> Held(j)
                        /\ Taken(j)' <=> Taken(j)
    BY <2>1 DEF Queued, Held, Taken
  <2>6. EachInOnePlace' /\ JobsInOrder'
    BY <2>5 DEF EachInOnePlace, JobsInOrder
  <2>7. QED
    BY <2>2, <2>3, <2>4, <2>6
<1>5. QED
  BY <1>1, <1>2, <1>3, <1>4 DEF Writer

\* The closers: close and _abandon_queued.
LEMMA CloserIInv ==
  ASSUME IInv, NEW c \in Closers, CloseBegin(c) \/ CloseStep(c)
  PROVE  IInv'
<1> USE NumJobsAssumption DEF IInv, Jobs, Sentinel, forwardVars, writerVars
<1>0. Len(queue) \in Nat
  BY LenProperties DEF TypeOK
<1>1. CASE CloseBegin(c)
  <2> USE <1>1 DEF CloseBegin
  <2>1. TypeOK'
    BY DEF TypeOK
  <2>2. \A d \in Closers : d # c => closer'[d] = closer[d]
    BY DEF TypeOK
  <2>3. closer'[c] \in {"returned", "sentinel"} /\ ~Active(c)
    BY DEF TypeOK, Active
  <2>4. CloserHolds' <=> CloserHolds
    BY <2>2, <2>3 DEF CloserHolds, Active
  <2>5. WriterHolds' <=> WriterHolds
    BY DEF WriterHolds
  <2>6. closer'[c] = "sentinel" => \A d \in Closers : ~Active(d)
    BY DEF Bookkeeping, TypeOK
  <2>7. Bookkeeping'
    BY <2>2, <2>3, <2>4, <2>6 DEF Bookkeeping, Active
  <2>8. UnfinishedIsOutstanding'
    BY <2>4, <2>5 DEF UnfinishedIsOutstanding
  <2>9. \A j \in Jobs : /\ Queued(j)' <=> Queued(j)
                        /\ Held(j)' <=> Held(j)
                        /\ Taken(j)' <=> Taken(j)
    BY <2>4 DEF Queued, Held, Taken
  <2>10. EachInOnePlace' /\ JobsInOrder'
    BY <2>9 DEF EachInOnePlace, JobsInOrder
  <2>11. QED
    BY <2>1, <2>7, <2>8, <2>10
<1>2. CASE ClosePut(c)
  <2> USE <1>2 DEF ClosePut, Put
  <2>1. /\ queue' \in Seq(Items)
        /\ Len(queue') = Len(queue) + 1
        /\ \A i \in 1 .. Len(queue) : queue'[i] = queue[i]
        /\ queue'[Len(queue) + 1] = Sentinel
        /\ \A j \in Jobs : Queued(j)' <=> Queued(j) \/ j = Sentinel
    BY PutQueued DEF Items
  <2>2. TypeOK'
    BY <2>1 DEF TypeOK, Items
  <2>3. \A d \in Closers : d # c => closer'[d] = closer[d]
    BY DEF TypeOK
  <2>4. closer[c] = "sentinel" /\ closer'[c] = "join"
    BY DEF TypeOK
  <2>5. CloserHolds' <=> CloserHolds
    BY <2>3, <2>4 DEF CloserHolds
  <2>6. Bookkeeping'
    BY <2>3, <2>4, <2>5 DEF Bookkeeping, Active
  <2>7. UnfinishedIsOutstanding'
    <3> HIDE <1>2
    <3>1. /\ unfinished' = unfinished + 1 /\ Len(queue') = Len(queue) + 1
          /\ thread' = thread
      BY <1>2, <2>1
    <3> DEFINE W == IF WriterHolds THEN 1 ELSE 0
               C == IF CloserHolds THEN 1 ELSE 0
    <3>2. W \in Nat /\ C \in Nat /\ W' = W /\ C' = C
      BY <3>1, <2>5 DEF WriterHolds
    <3>3. unfinished = Len(queue) + W + C
      BY DEF UnfinishedIsOutstanding
    <3>4. unfinished' = Len(queue') + W' + C'
      <4> HIDE DEF W, C
      <4> QED
        BY <1>0, <3>1, <3>2, <3>3
    <3>5. QED
      BY <3>4 DEF UnfinishedIsOutstanding
  <2>8. \A j \in Jobs : /\ Queued(j)' <=> Queued(j)
                        /\ Held(j)' <=> Held(j)
                        /\ Taken(j)' <=> Taken(j)
    BY <2>1, <2>5 DEF Held, Taken
  <2>9. EachInOnePlace'
    BY <2>8 DEF EachInOnePlace
  <2>10. JobsInOrder'
    <3>1. next \in Nat /\ next > 0 /\ next' = next
      BY DEF TypeOK
    <3> HIDE <1>2
    <3>2. \A a \in 1 .. Len(queue') : queue'[a] < next'
      BY <2>1, <1>0, <3>1 DEF JobsInOrder
    <3>3. \A a, b \in 1 .. Len(queue') :
            a < b /\ queue'[a] # Sentinel /\ queue'[b] # Sentinel
              => queue'[a] < queue'[b]
      BY <2>1, <1>0 DEF JobsInOrder
    <3>4. outcome' = outcome
      BY <1>2
    <3>5. \A j, k \in Jobs :
            /\ Held(j)' /\ Queued(k)' => j < k
            /\ Taken(j)' /\ Queued(k)' => j < k
            /\ outcome'[j] = "written" /\ (Held(k)' \/ Queued(k)') => j < k
      BY <3>4, <2>8 DEF JobsInOrder
    <3>6. QED
      BY <3>2, <3>3, <3>5 DEF JobsInOrder
  <2>11. QED
    BY <2>2, <2>6, <2>7, <2>9, <2>10
<1>3. CASE CloseGivesUp(c) \/ AbandonEnds(c) \/ CloseReturn(c)
  <2>0. \E where \in {"abandon", "join", "returned"} :
          closer' = [closer EXCEPT ![c] = where]
    BY <1>3 DEF CloseGivesUp, AbandonEnds, CloseReturn
  <2> USE <1>3 DEF CloseGivesUp, AbandonEnds, CloseReturn
  <2>1. TypeOK'
    <3>1. closer' \in [Closers -> {"idle", "sentinel", "abandon", "report",
                                   "join", "returned"}]
      BY <2>0 DEF TypeOK
    <3>2. /\ stopping' \in BOOLEAN
          /\ UNCHANGED <<queue, unfinished, closed, thread, held, forward,
                         timed, next, taken, outcome, store>>
      BY DEF TypeOK
    <3> HIDE <1>3
    <3> QED
      BY <3>1, <3>2 DEF TypeOK
  <2>2. \A d \in Closers : d # c => closer'[d] = closer[d]
    BY DEF TypeOK
  <2>3. Active(c) /\ closer[c] # "report" /\ closer'[c] # "report"
    BY DEF TypeOK, Active
  <2>4. (CloserHolds' <=> CloserHolds) /\ (WriterHolds' <=> WriterHolds)
    BY <2>2, <2>3 DEF CloserHolds, WriterHolds
  <2>5. Bookkeeping'
    BY <2>2, <2>3, <2>4 DEF Bookkeeping, Active
  <2>6. UnfinishedIsOutstanding'
    BY <2>4 DEF UnfinishedIsOutstanding
  <2>7. \A j \in Jobs : /\ Queued(j)' <=> Queued(j)
                        /\ Held(j)' <=> Held(j)
                        /\ Taken(j)' <=> Taken(j)
    BY <2>4 DEF Queued, Held, Taken
  <2>8. EachInOnePlace' /\ JobsInOrder'
    BY <2>7 DEF EachInOnePlace, JobsInOrder
  <2>9. QED
    BY <2>1, <2>5, <2>6, <2>8
<1>4. CASE AbandonTake(c)
  <2> USE <1>4 DEF AbandonTake
  <2>1. /\ queue' \in Seq(Items)
        /\ Head(queue) \in Items
        /\ Head(queue) = queue[1]
        /\ Len(queue) > 0
        /\ Len(queue') = Len(queue) - 1
        /\ \A i \in 1 .. Len(queue') : queue'[i] = queue[i + 1]
        /\ \A j \in Jobs : Queued(j)' <=> Queued(j) /\ j # Head(queue)
        /\ \A j \in Jobs : Head(queue) = j => Queued(j)
        /\ \A j, k \in Jobs : Head(queue) = j /\ Queued(k)' => j < k
    BY GetQueued
  <2>2. TypeOK'
    BY <2>1 DEF TypeOK, Items
  <2>3. \A d \in Closers : d # c => closer'[d] = closer[d]
    BY DEF TypeOK
  <2>4. closer[c] = "abandon" /\ closer'[c] = "report"
    BY DEF TypeOK
  <2>5. ~CloserHolds /\ CloserHolds'
    BY <2>4 DEF CloserHolds, Bookkeeping, Active
  <2>6. Bookkeeping'
    BY <2>1, <2>3, <2>4, <2>5, <1>0 DEF Bookkeeping, Active, JobsInOrder
  <2>7. UnfinishedIsOutstanding'
    <3> HIDE <1>4
    <3>1. unfinished' = unfinished /\ thread' = thread
      BY <1>4
    <3> DEFINE W == IF WriterHolds THEN 1 ELSE 0
               C == IF CloserHolds THEN 1 ELSE 0
    <3>2. W \in Nat /\ C = 0 /\ C' = 1 /\ W' = W
      BY <3>1, <2>5 DEF WriterHolds
    <3>3. unfinished = Len(queue) + W + C
      BY DEF UnfinishedIsOutstanding
    <3>4. unfinished' = Len(queue') + W' + C'
      <4>1. Len(queue') = Len(queue) - 1
        BY <2>1
      <4> HIDE DEF W, C
      <4> QED
        BY <4>1, <1>0, <3>1, <3>2, <3>3
    <3>5. QED
      BY <3>4 DEF UnfinishedIsOutstanding
  <2>8. \A j \in Jobs : /\ ~Taken(j)
                        /\ Taken(j)' <=> j = Head(queue)
                        /\ Held(j)' <=> Held(j)
    BY <2>5 DEF Held, Taken
  <2>9. EachInOnePlace'
    BY <2>1, <2>8 DEF EachInOnePlace
  <2>10. JobsInOrder'
    <3>1. \A a \in 1 .. Len(queue') : queue'[a] < next'
      BY <2>1, <1>0 DEF JobsInOrder
    <3>2. \A a, b \in 1 .. Len(queue') :
            a < b /\ queue'[a] # Sentinel /\ queue'[b] # Sentinel
              => queue'[a] < queue'[b]
      BY <2>1, <1>0 DEF JobsInOrder
    <3>3. \A j, k \in Jobs :
            /\ Held(j)' /\ Queued(k)' => j < k
            /\ Taken(j)' /\ Queued(k)' => j < k
            /\ outcome'[j] = "written" /\ (Held(k)' \/ Queued(k)') => j < k
      BY <2>1, <2>8 DEF JobsInOrder
    <3>4. QED
      BY <3>1, <3>2, <3>3 DEF JobsInOrder
  <2>11. QED
    BY <2>2, <2>6, <2>7, <2>9, <2>10
<1>5. CASE AbandonReport(c)
  <2> USE <1>5 DEF AbandonReport, TaskDone, Settle
  <2>1. \A d \in Closers : d # c => closer'[d] = closer[d]
    BY DEF TypeOK
  <2>2. closer[c] = "report" /\ closer'[c] = "abandon"
    BY DEF TypeOK
  <2>3. CloserHolds /\ ~CloserHolds'
    BY <2>1, <2>2 DEF CloserHolds, Bookkeeping, Active
  <2>4. UnfinishedIsOutstanding' /\ unfinished > 0
    <3> HIDE <1>5
    <3>1. unfinished' = unfinished - 1 /\ thread' = thread /\ queue' = queue
      BY <1>5
    <3> DEFINE W == IF WriterHolds THEN 1 ELSE 0
               C == IF CloserHolds THEN 1 ELSE 0
    <3>2. W \in Nat /\ C = 1 /\ C' = 0 /\ W' = W
      BY <3>1, <2>3 DEF WriterHolds
    <3>3. unfinished = Len(queue) + W + C
      BY DEF UnfinishedIsOutstanding
    <3>4. unfinished' = Len(queue') + W' + C' /\ unfinished > 0
      <4> HIDE DEF W, C
      <4> QED
        BY <1>0, <3>1, <3>2, <3>3
    <3>5. QED
      BY <3>4 DEF UnfinishedIsOutstanding
  <2>5. TypeOK'
    BY <2>4 DEF TypeOK
  <2>6. Bookkeeping'
    BY <2>1, <2>2, <2>3 DEF Bookkeeping, Active, TypeOK
  <2>7. \A j \in Jobs : /\ Queued(j)' <=> Queued(j)
                        /\ Held(j)' <=> Held(j)
                        /\ ~Taken(j)'
                        /\ Taken(j) <=> j = taken
    BY <2>3 DEF Queued, Held, Taken
  <2>8. \A j \in Jobs : outcome'[j] = IF j = taken THEN "failed" ELSE outcome[j]
    BY DEF TypeOK
  <2>9. EachInOnePlace'
    BY <2>7, <2>8 DEF EachInOnePlace
  <2>10. JobsInOrder'
    BY <2>7, <2>8 DEF JobsInOrder
  <2>11. QED
    BY <2>4, <2>5, <2>6, <2>9, <2>10
<1>6. QED
  BY <1>1, <1>2, <1>3, <1>4, <1>5 DEF CloseStep

\* Steps that leave the writer alone: the store wedges or recovers, nothing
\* happens.
LEMMA OtherIInv == IInv /\ (Wedge \/ Recover \/ UNCHANGED vars) => IInv'
<1> SUFFICES ASSUME IInv, Wedge \/ Recover \/ UNCHANGED vars PROVE IInv'
  OBVIOUS
<1> USE DEF IInv, Wedge, Recover, vars, forwardVars, writerVars, closerVars
<1>1. TypeOK'
  BY DEF TypeOK
<1>2. (CloserHolds' <=> CloserHolds) /\ (WriterHolds' <=> WriterHolds)
  BY DEF CloserHolds, WriterHolds
<1>3. Bookkeeping'
  BY <1>2 DEF Bookkeeping, Active
<1>4. UnfinishedIsOutstanding'
  BY <1>2 DEF UnfinishedIsOutstanding
<1>5. \A j \in Jobs : /\ Queued(j)' <=> Queued(j)
                      /\ Held(j)' <=> Held(j)
                      /\ Taken(j)' <=> Taken(j)
  BY <1>2 DEF Queued, Held, Taken
<1>6. EachInOnePlace' /\ JobsInOrder'
  BY <1>5 DEF EachInOnePlace, JobsInOrder
<1>7. QED
  BY <1>1, <1>3, <1>4, <1>6

\* No step of any thread breaks the invariant.
LEMMA NextIInv == IInv /\ [Next]_vars => IInv'
  BY ForwardIInv, WriterIInv, CloserIInv, OtherIInv DEF Next

\* The invariant holds in every reachable state of the writer.
LEMMA AlwaysIInv == Spec => []IInv
  BY InitIInv, NextIInv, PTL DEF Spec

-----------------------------------------------------------------------------
(* What the invariant gives. *)

\* The variables of the writer keep their types: the queue holds jobs and
\* sentinels only, and its counter never goes below zero, which task_done
\* would answer with a ValueError inside the writer thread.
THEOREM TypeCorrect == Spec => []TypeOK
  BY AlwaysIInv, PTL DEF IInv

\* unfinished_tasks is at all times the number of jobs nobody has finished,
\* however submit, _run, task_done and _abandon_queued interleave.
THEOREM CounterCorrect == Spec => []UnfinishedIsOutstanding
  BY AlwaysIInv, PTL DEF IInv

\* No accepted job is lost or in two hands, whoever closes the writer and
\* whenever.
THEOREM PlacesCorrect == Spec => []EachInOnePlace
  BY AlwaysIInv, PTL DEF IInv

\* The queue, the job being written and the jobs that landed are in
\* submission order.
THEOREM OrderCorrect == Spec => []JobsInOrder
  BY AlwaysIInv, PTL DEF IInv

\* A join that waited and returned found every job submitted before it
\* written or reported.
THEOREM JoinCorrect == Spec => JoinMeansSettled
<1>1. ASSUME IInv, [Next]_vars
      PROVE  [forward = "waiting" /\ forward' # "waiting"
                => \A j \in Jobs : j < next => outcome[j] # "queued"]_vars
  <2>1. SUFFICES ASSUME forward = "waiting", forward' # "waiting",
                        NEW j \in Jobs
                 PROVE  outcome[j] # "queued"
    OBVIOUS
  <2>2. JoinReturn
    BY <1>1, <2>1 DEF Next, Forward, ForwardStep, EnsureThread, SubmitClosed,
       JoinBegin, SubmitPut, SubmitBlocks, SubmitTimesOut, Writer, Get,
       WriteLands, WriteRaises, ReportError, WriterTaskDone, CheckStopping,
       CloseBegin, CloseStep, ClosePut, CloseGivesUp, AbandonTake,
       AbandonReport, AbandonEnds, CloseReturn, Wedge, Recover, vars,
       forwardVars
  <2>3. Len(queue) \in Nat
    BY <1>1, LenProperties DEF IInv, TypeOK
  <2>4. Len(queue) = 0 /\ ~WriterHolds /\ ~CloserHolds
    <3> DEFINE W == IF WriterHolds THEN 1 ELSE 0
               C == IF CloserHolds THEN 1 ELSE 0
    <3>1. W \in Nat /\ C \in Nat
      OBVIOUS
    <3>2. Len(queue) + W + C = 0
      BY <1>1, <2>2 DEF IInv, UnfinishedIsOutstanding, JoinReturn
    <3>3. Len(queue) = 0 /\ W = 0 /\ C = 0
      <4> HIDE DEF W, C
      <4> QED
        BY <2>3, <3>1, <3>2
    <3>4. QED
      BY <3>3
  <2>5. ~Queued(j) /\ ~Held(j) /\ ~Taken(j)
    BY <2>4 DEF Queued, Held, Taken, WriterHolds
  <2>6. QED
    BY <1>1, <2>5 DEF IInv, EachInOnePlace
<1>2. QED
  BY <1>1, AlwaysIInv, PTL DEF Spec, JoinMeansSettled

-----------------------------------------------------------------------------
(* The threads implement the ledger. *)

\* Every step of a thread is a step of JobLedger or leaves the ledger alone.
LEMMA LedgerStep ==
  ASSUME IInv, [Next]_vars
  PROVE  [Ledger!Next]_outcome
<1> USE DEF IInv, Settle
<1>1. CASE SubmitClosed \/ SubmitTimesOut
  <2>1. next \in Jobs /\ outcome[next] = "new"
    BY <1>1 DEF SubmitClosed, SubmitTimesOut, Bookkeeping, TypeOK
  <2>2. Ledger!Refuse(next)
    BY <1>1, <2>1 DEF SubmitClosed, SubmitTimesOut, Ledger!Refuse
  <2>3. QED
    BY <2>1, <2>2 DEF Ledger!Next
<1>2. CASE SubmitPut
  <2>1. next \in Jobs /\ outcome[next] = "new"
    BY <1>2 DEF SubmitPut, Bookkeeping, TypeOK
  <2>2. Ledger!Accept(next)
    BY <1>2, <2>1 DEF SubmitPut, Ledger!Accept
  <2>3. QED
    BY <2>1, <2>2 DEF Ledger!Next
<1>3. CASE WriteLands
  <2>1. held \in Jobs /\ Held(held) /\ outcome[held] = "queued"
    BY <1>3 DEF WriteLands, Bookkeeping, Held, EachInOnePlace
  <2>2. \A i \in Jobs : i > held => outcome[i] # "written"
    BY <2>1 DEF JobsInOrder, Jobs
  <2>3. Ledger!Land(held)
    BY <1>3, <2>1, <2>2 DEF WriteLands, Ledger!Land
  <2>4. QED
    BY <2>1, <2>3 DEF Ledger!Next
<1>4. CASE ReportError
  <2>1. held \in Jobs /\ Held(held) /\ outcome[held] = "queued"
    BY <1>4 DEF ReportError, Bookkeeping, Held, EachInOnePlace
  <2>2. Ledger!Fail(held)
    BY <1>4, <2>1 DEF ReportError, Ledger!Fail
  <2>3. QED
    BY <2>1, <2>2 DEF Ledger!Next
<1>5. CASE \E c \in Closers : AbandonReport(c)
  <2>1. PICK c \in Closers : AbandonReport(c)
    BY <1>5
  <2>2. CASE taken = Sentinel
    BY <2>1, <2>2 DEF AbandonReport
  <2>3. CASE taken # Sentinel
    <3>1. taken \in Jobs /\ Taken(taken) /\ outcome[taken] = "queued"
      BY <2>1, <2>3 DEF AbandonReport, TypeOK, Taken, CloserHolds,
         EachInOnePlace
    <3>2. Ledger!Fail(taken)
      BY <2>1, <2>3, <3>1 DEF AbandonReport, Ledger!Fail
    <3>3. QED
      BY <3>1, <3>2 DEF Ledger!Next
  <2>4. QED
    BY <2>2, <2>3
<1>6. CASE outcome' = outcome
  BY <1>6
<1>7. QED
  BY <1>1, <1>2, <1>3, <1>4, <1>5, <1>6 DEF Next, Forward, ForwardStep,
     EnsureThread, JoinBegin, SubmitBlocks, JoinReturn, Writer, Get,
     WriteRaises, WriterTaskDone, CheckStopping, CloseBegin, CloseStep,
     ClosePut, CloseGivesUp, AbandonTake, AbandonEnds, CloseReturn, Wedge,
     Recover, vars

\* The capture writer implements JobLedger: whatever the forward pass, the
\* writer thread and the closers do, each job is settled at most once, a
\* refused job is never written, and jobs land in submission order.
THEOREM LedgerRefinement == Spec => ImplementsLedger
<1>1. Init => Ledger!Init
  BY DEF Init, Ledger!Init
<1>2. QED
  BY <1>1, LedgerStep, AlwaysIInv, PTL DEF Spec, ImplementsLedger, Ledger!Spec

-----------------------------------------------------------------------------
(* What close leaves behind. *)

\* The one job that may still arrive: a submit past _ensure_thread.
InFlight == IF forward \in {"ensured", "full"} THEN 1 ELSE 0

Abandoning == \E c \in Closers : closer[c] \in {"abandon", "report"}

SentinelQueued == \E i \in 1 .. Len(queue) : queue[i] = Sentinel
SentinelHeld == thread = "task_done" /\ held = Sentinel

\* The writer has been told to stop.
Told == stopping \/ thread = "exited" \/ SentinelQueued \/ SentinelHeld

\* Once close has told the writer to stop, nothing but the job in flight
\* follows: behind the sentinel, behind a thread that took it, and in a queue
\* that _abandon_queued has left.
AtMostOneBehind ==
  /\ Told => closed /\ \A c \in Closers : closer[c] # "sentinel"
  /\ \A i \in 1 .. Len(queue) :
       queue[i] = Sentinel => Len(queue) + InFlight <= i + 1
  /\ SentinelHeld => Len(queue) + InFlight <= 1
  /\ (stopping \/ thread = "exited") /\ ~Abandoning
       => Len(queue) + InFlight <= 1

\* The forward pass adds a job behind the sentinel only by the submit that
\* was in flight when the sentinel was put.
LEMMA ForwardBehind ==
  ASSUME IInv, AtMostOneBehind, Forward
  PROVE  AtMostOneBehind'
<1> USE DEF IInv
<1>0. Len(queue) \in Nat
  BY LenProperties DEF TypeOK
<1>1. CASE SubmitPut
  <2>1. /\ thread' = thread /\ held' = held /\ stopping' = stopping
        /\ closed' = closed /\ closer' = closer
        /\ InFlight = 1 /\ InFlight' = 0
    BY <1>1 DEF SubmitPut, writerVars, closerVars, InFlight
  <2>2. next \in Jobs /\ next \in Items /\ next # Sentinel
    BY <1>1 DEF SubmitPut, Bookkeeping, Items, Jobs, Sentinel
  <2>3. queue' = Append(queue, next)
    BY <1>1 DEF SubmitPut, Put
  <2>4. /\ Len(queue') = Len(queue) + 1
        /\ \A i \in 1 .. Len(queue) : queue'[i] = queue[i]
        /\ queue'[Len(queue) + 1] = next
    BY <2>2, <2>3, PutQueued
  <2>5. \A i \in 1 .. Len(queue') :
          queue'[i] = Sentinel => i \in 1 .. Len(queue) /\ queue[i] = Sentinel
    BY <2>2, <2>4, <1>0
  <2>6. /\ SentinelQueued' => SentinelQueued
        /\ SentinelHeld' <=> SentinelHeld
        /\ Abandoning' <=> Abandoning
    BY <2>1, <2>5 DEF SentinelQueued, SentinelHeld, Abandoning
  <2>7. Len(queue') + InFlight' = Len(queue) + InFlight
    BY <2>1, <2>4, <1>0
  <2> HIDE DEF InFlight
  <2>8. Told' => Told
    BY <2>1, <2>6 DEF Told
  <2> QED
    BY <2>1, <2>5, <2>6, <2>7, <2>8 DEF AtMostOneBehind
<1>2. CASE \E hasTimeout \in BOOLEAN : EnsureThread(hasTimeout)
  <2>1. /\ ~closed /\ queue' = queue /\ held' = held /\ stopping' = stopping
        /\ thread' = IF thread = "none" THEN "get" ELSE thread
    BY <1>2 DEF EnsureThread, closerVars
  <2>2. ~Told /\ ~Told'
    BY <2>1 DEF AtMostOneBehind, Told, SentinelQueued, SentinelHeld
  <2> QED
    BY <2>2 DEF AtMostOneBehind, Told, SentinelQueued
<1>3. CASE SubmitClosed \/ SubmitBlocks \/ SubmitTimesOut \/ JoinBegin \/ JoinReturn
  <2>1. /\ thread' = thread /\ held' = held /\ stopping' = stopping
        /\ closed' = closed /\ closer' = closer /\ queue' = queue
    BY <1>3 DEF SubmitClosed, SubmitBlocks, SubmitTimesOut, JoinBegin,
       JoinReturn, writerVars, closerVars
  <2>2. InFlight \in Nat /\ InFlight' \in Nat /\ InFlight' <= InFlight
    BY <1>3 DEF SubmitClosed, SubmitBlocks, SubmitTimesOut, JoinBegin,
       JoinReturn, InFlight
  <2>3. /\ (Told' <=> Told) /\ (Abandoning' <=> Abandoning)
        /\ SentinelHeld' <=> SentinelHeld
    BY <2>1 DEF Told, SentinelQueued, SentinelHeld, Abandoning
  <2> HIDE DEF InFlight
  <2> QED
    BY <2>1, <2>2, <2>3, <1>0 DEF AtMostOneBehind
<1> QED
  BY <1>1, <1>2, <1>3 DEF Forward, ForwardStep

\* The writer thread only takes from the queue, and it stops at the sentinel.
LEMMA WriterBehind ==
  ASSUME IInv, AtMostOneBehind, Writer
  PROVE  AtMostOneBehind'
<1> USE DEF IInv
<1>0. Len(queue) \in Nat
  BY LenProperties DEF TypeOK
<1>1. /\ stopping' = stopping /\ closed' = closed /\ closer' = closer
      /\ forward' = forward
  BY DEF Writer, Get, WriteLands, WriteRaises, ReportError, WriterTaskDone,
     CheckStopping, forwardVars, closerVars
<1>2. InFlight \in Nat /\ InFlight' = InFlight /\ (Abandoning' <=> Abandoning)
  BY <1>1 DEF InFlight, Abandoning
<1> HIDE DEF InFlight
<1>3. CASE Get
  <2>1. /\ queue # << >> /\ queue' = Tail(queue) /\ thread = "get"
        /\ held' = Head(queue)
        /\ thread' = IF Head(queue) = Sentinel THEN "task_done" ELSE "write"
    BY <1>3 DEF Get
  <2>2. /\ Len(queue') = Len(queue) - 1 /\ Len(queue) > 0
        /\ \A i \in 1 .. Len(queue') : queue'[i] = queue[i + 1]
        /\ Head(queue) = queue[1]
    BY <2>1, GetQueued
  <2>3. \A i \in 1 .. Len(queue') :
          queue'[i] = Sentinel
            => i + 1 \in 1 .. Len(queue) /\ queue[i + 1] = Sentinel
    BY <2>2, <1>0
  <2>4. SentinelHeld' => 1 \in 1 .. Len(queue) /\ queue[1] = Sentinel
    BY <2>1, <2>2, <1>0 DEF SentinelHeld
  <2>5. Told' => Told
    BY <1>1, <2>1, <2>3, <2>4 DEF Told, SentinelQueued
  <2>6. \A i \in 1 .. Len(queue') :
          queue'[i] = Sentinel => Len(queue') + InFlight' <= i + 1
    BY <2>2, <2>3, <1>0, <1>2 DEF AtMostOneBehind
  <2>7. SentinelHeld' => Len(queue') + InFlight' <= 1
    BY <2>2, <2>4, <1>0, <1>2 DEF AtMostOneBehind
  <2>8. Len(queue) + InFlight <= 1 => Len(queue') + InFlight' <= 1
    BY <2>2, <1>0, <1>2
  <2>9. thread' # "exited"
    BY <2>1
  <2> QED
    BY <1>1, <1>2, <2>5, <2>6, <2>7, <2>8, <2>9 DEF AtMostOneBehind
<1>4. CASE WriterTaskDone \/ CheckStopping \/ WriteLands \/ WriteRaises \/ ReportError
  <2>1. queue' = queue
    BY <1>4 DEF WriterTaskDone, CheckStopping, WriteLands, WriteRaises,
       ReportError
  <2>2. SentinelQueued' <=> SentinelQueued
    BY <2>1 DEF SentinelQueued
  <2>3. thread' = "exited" => stopping \/ SentinelHeld
    BY <1>4 DEF WriterTaskDone, CheckStopping, WriteLands, WriteRaises,
       ReportError, SentinelHeld
  <2>4. ~SentinelHeld'
    BY <1>4 DEF WriterTaskDone, CheckStopping, WriteLands, WriteRaises,
       ReportError, SentinelHeld, Bookkeeping, Jobs, Sentinel
  <2>5. Told' => Told
    BY <1>1, <2>2, <2>3, <2>4 DEF Told
  <2> QED
    BY <1>1, <1>2, <2>1, <2>3, <2>4, <2>5 DEF AtMostOneBehind
<1> QED
  BY <1>3, <1>4 DEF Writer

\* The close that puts the sentinel, or gives up and empties the queue, is
\* the only one.
LEMMA CloserBehind ==
  ASSUME IInv, AtMostOneBehind, NEW c \in Closers, CloseBegin(c) \/ CloseStep(c)
  PROVE  AtMostOneBehind'
<1> USE DEF IInv
<1>0. Len(queue) \in Nat
  BY LenProperties DEF TypeOK
<1>1. /\ thread' = thread /\ held' = held /\ forward' = forward
      /\ \A d \in Closers : d # c => closer'[d] = closer[d]
  BY DEF CloseBegin, CloseStep, ClosePut, CloseGivesUp, AbandonTake,
     AbandonReport, AbandonEnds, CloseReturn, forwardVars, writerVars, TypeOK
<1>2. /\ InFlight \in 0 .. 1 /\ InFlight' = InFlight
      /\ SentinelHeld' <=> SentinelHeld
  BY <1>1 DEF InFlight, SentinelHeld
<1> HIDE DEF InFlight
<1>3. CASE CloseBegin(c)
  <2>1. /\ queue' = queue /\ stopping' = stopping /\ closed'
        /\ closer[c] = "idle" /\ closer'[c] \in {"returned", "sentinel"}
        /\ closer'[c] = "sentinel" => ~closed
    BY <1>3 DEF CloseBegin, TypeOK
  <2>2. (Told' <=> Told) /\ (Abandoning' <=> Abandoning)
    BY <1>1, <1>2, <2>1 DEF Told, SentinelQueued, Abandoning
  <2>3. Told => \A d \in Closers : closer'[d] # "sentinel"
    BY <1>1, <2>1 DEF AtMostOneBehind
  <2> QED
    BY <1>1, <1>2, <2>1, <2>2, <2>3 DEF AtMostOneBehind
<1>4. CASE ClosePut(c)
  <2>1. /\ queue' = Append(queue, Sentinel) /\ stopping' = stopping
        /\ closed' = closed /\ closer[c] = "sentinel" /\ closer'[c] = "join"
    BY <1>4 DEF ClosePut, Put, TypeOK
  <2>2. ~Told /\ closed
    BY <2>1 DEF AtMostOneBehind, Bookkeeping, Active
  <2>3. \A d \in Closers : closer'[d] # "sentinel"
    BY <1>1, <2>1 DEF Bookkeeping, Active
  <2>4. /\ Len(queue') = Len(queue) + 1
        /\ \A i \in 1 .. Len(queue) : queue'[i] = queue[i]
    BY <2>1, PutQueued DEF Items
  <2>5. \A i \in 1 .. Len(queue') : queue'[i] = Sentinel => i = Len(queue')
    BY <2>2, <2>4, <1>0 DEF Told, SentinelQueued
  <2>6. \A i \in 1 .. Len(queue') :
          queue'[i] = Sentinel => Len(queue') + InFlight' <= i + 1
    BY <2>4, <2>5, <1>0, <1>2
  <2>7. ~SentinelHeld' /\ ~stopping' /\ thread' # "exited"
    BY <1>1, <1>2, <2>1, <2>2 DEF Told
  <2> QED
    BY <2>1, <2>2, <2>3, <2>6, <2>7 DEF AtMostOneBehind
<1>5. CASE CloseGivesUp(c)
  <2>1. /\ queue' = queue /\ closed' = closed
        /\ closer[c] = "sentinel" /\ closer'[c] = "abandon"
    BY <1>5 DEF CloseGivesUp, TypeOK
  <2>2. ~Told /\ closed
    BY <2>1 DEF AtMostOneBehind, Bookkeeping, Active
  <2>3. \A d \in Closers : closer'[d] # "sentinel"
    BY <1>1, <2>1 DEF Bookkeeping, Active
  <2>4. Abandoning'
    BY <2>1 DEF Abandoning
  <2> QED
    BY <1>2, <2>1, <2>2, <2>3, <2>4 DEF AtMostOneBehind, Told, SentinelQueued
<1>6. CASE AbandonTake(c)
  <2>1. /\ queue # << >> /\ queue' = Tail(queue) /\ stopping' = stopping
        /\ closed' = closed /\ closer'[c] = "report"
    BY <1>6 DEF AbandonTake, TypeOK
  <2>2. /\ Len(queue') = Len(queue) - 1 /\ Len(queue) > 0
        /\ \A i \in 1 .. Len(queue') : queue'[i] = queue[i + 1]
    BY <2>1, GetQueued
  <2>3. \A i \in 1 .. Len(queue') :
          queue'[i] = Sentinel
            => i + 1 \in 1 .. Len(queue) /\ queue[i + 1] = Sentinel
    BY <2>2, <1>0
  <2>4. Told' => Told
    BY <1>1, <1>2, <2>1, <2>3 DEF Told, SentinelQueued
  <2>5. Abandoning' /\ \A d \in Closers : closer'[d] = "sentinel" => closer[d] = "sentinel"
    BY <1>1, <2>1 DEF Abandoning
  <2>6. \A i \in 1 .. Len(queue') :
          queue'[i] = Sentinel => Len(queue') + InFlight' <= i + 1
    BY <2>2, <2>3, <1>0, <1>2 DEF AtMostOneBehind
  <2>7. SentinelHeld' => Len(queue') + InFlight' <= 1
    BY <2>2, <1>0, <1>2 DEF AtMostOneBehind
  <2> QED
    BY <2>1, <2>4, <2>5, <2>6, <2>7 DEF AtMostOneBehind
<1>7. CASE AbandonReport(c)
  <2>1. /\ queue' = queue /\ stopping' = stopping /\ closed' = closed
        /\ closer[c] = "report" /\ closer'[c] = "abandon"
    BY <1>7 DEF AbandonReport, TypeOK
  <2>2. /\ Told' <=> Told
        /\ Abandoning'
        /\ \A d \in Closers : closer'[d] = "sentinel" => closer[d] = "sentinel"
    BY <1>1, <1>2, <2>1 DEF Told, SentinelQueued, Abandoning
  <2> QED
    BY <1>1, <1>2, <2>1, <2>2 DEF AtMostOneBehind
<1>8. CASE AbandonEnds(c)
  <2>1. /\ queue' = queue /\ queue = << >> /\ stopping' = stopping
        /\ closed' = closed /\ closer'[c] = "join"
    BY <1>8 DEF AbandonEnds, TypeOK
  <2>2. /\ Told' <=> Told
        /\ \A d \in Closers : closer'[d] = "sentinel" => closer[d] = "sentinel"
    BY <1>1, <1>2, <2>1 DEF Told, SentinelQueued
  <2>3. Len(queue') = 0
    BY <2>1
  <2>4. Len(queue') + InFlight' <= 1
    BY <1>2, <2>3
  <2> QED
    BY <1>1, <1>2, <2>1, <2>2, <2>3, <2>4 DEF AtMostOneBehind
<1>9. CASE CloseReturn(c)
  <2>1. /\ queue' = queue /\ stopping' = stopping /\ closed' = closed
        /\ closer[c] = "join" /\ closer'[c] = "returned"
    BY <1>9 DEF CloseReturn, TypeOK
  <2>2. /\ Told' <=> Told
        /\ Abandoning' <=> Abandoning
        /\ \A d \in Closers : closer'[d] = "sentinel" => closer[d] = "sentinel"
    BY <1>1, <1>2, <2>1 DEF Told, SentinelQueued, Abandoning
  <2> QED
    BY <1>1, <1>2, <2>1, <2>2 DEF AtMostOneBehind
<1> QED
  BY <1>3, <1>4, <1>5, <1>6, <1>7, <1>8, <1>9 DEF CloseStep

\* In every reachable state at most one job follows what told the writer to
\* stop.
LEMMA AlwaysBehind == Spec => []AtMostOneBehind
<1>1. Init => AtMostOneBehind
  <2> SUFFICES ASSUME Init PROVE AtMostOneBehind
    OBVIOUS
  <2>1. ~Told /\ Len(queue) = 0
    BY DEF Init, Told, SentinelQueued, SentinelHeld
  <2> QED
    BY <2>1 DEF AtMostOneBehind, Told
<1>2. ASSUME IInv, AtMostOneBehind, [Next]_vars
      PROVE  AtMostOneBehind'
  <2>1. CASE Wedge \/ Recover \/ UNCHANGED vars
    <3>1. UNCHANGED <<queue, closed, stopping, thread, held, forward, closer>>
      BY <2>1 DEF Wedge, Recover, vars, forwardVars, writerVars, closerVars
    <3> QED
      BY <1>2, <3>1 DEF AtMostOneBehind, Told, SentinelQueued, SentinelHeld,
         Abandoning, InFlight
  <2> QED
    BY <1>2, <2>1, ForwardBehind, WriterBehind, CloserBehind DEF Next
<1> QED
  BY <1>1, <1>2, AlwaysIInv, PTL DEF Spec

\* A close that has returned over a stopped thread leaves at most the one job
\* whose submit had passed _ensure_thread before it: for any depth, any number
\* of jobs, and whichever of shutdown and atexit got there first.
THEOREM StrandedCorrect == Spec => []StrandedAtMostOne
<1>1. ASSUME IInv, AtMostOneBehind
      PROVE  StrandedAtMostOne
  <2> SUFFICES ASSUME thread = "exited", \A c \in Closers : ~Active(c)
               PROVE  Len(queue) <= 1
    BY DEF StrandedAtMostOne
  <2>1. ~Abandoning
    BY DEF Abandoning, Active
  <2>2. Len(queue) + InFlight <= 1
    BY <1>1, <2>1 DEF AtMostOneBehind
  <2>3. Len(queue) \in Nat /\ InFlight \in Nat
    BY <1>1, LenProperties DEF IInv, TypeOK, InFlight
  <2> HIDE DEF InFlight
  <2> QED
    BY <2>2, <2>3
<1> QED
  BY <1>1, AlwaysIInv, AlwaysBehind, PTL
=============================================================================
