-------------------------- MODULE DonorRegistration --------------------------
(***************************************************************************)
(* The scheduler role's donor lifecycle (connector.py): build_connector_   *)
(* meta opens and extends captures and announces them to the worker,       *)
(* request_finished offers the finished request to the provider, and a     *)
(* donor whose metadata record is not there yet is held and retried on the *)
(* step clock until it appears, its budget is spent, or shutdown.          *)
(*                                                                         *)
(* vLLM's scheduler is the environment: it admits, preempts, resumes and   *)
(* finishes requests and reuses their ids. The worker role, another        *)
(* process, is abstracted to what this role sees of it: the record of a    *)
(* donor it was told to publish appears some time later, or never. How the *)
(* worker gets there is DonorCapture's subject. A request is handed donor  *)
(* KV whenever some donor is registered; how the match is planned is left  *)
(* out.                                                                    *)
(***************************************************************************)
EXTENDS Integers, FiniteSets

CONSTANTS
  NumRequests,    \* bound: distinct request ids
  PromptCap,      \* blocks of a prompt's cacheable prefix
  MaxUses,        \* bound: how often a request id is used, 1 is no reuse
  MaxSteps,       \* bound: scheduler steps
  RetrySteps,     \* donor_registration_retry_steps
  CaptureServed,  \* capture_served_requests
  Materializes,   \* _materialization_enabled()
  Registers       \* engine compatible, register_donors set, provider loaded

ASSUME SizeAssumption ==
  NumRequests \in Nat /\ PromptCap \in Nat \ {0} /\ MaxUses \in Nat
    /\ MaxSteps \in Nat
ASSUME RetryAssumption == RetrySteps \in Int
ASSUME ConfigAssumption ==
  CaptureServed \in BOOLEAN /\ Materializes \in BOOLEAN
    /\ Registers \in BOOLEAN

Requests == 1 .. NumRequests
Uses == 1 .. MaxUses
Lengths == 0 .. PromptCap

\* What this role keeps of one request's capture. end is the _capture_state's
\* captured_end, Closed when there is no state. opened is 0 when
\* _captures_opened has no entry, else the length of the last store sent.
\* skipped is the reason in _capture_skipped_reasons.
Closed == -1
Capture == [end : Lengths \cup {Closed}, opened : Lengths,
            skipped : {"none", "served", "other"}]
NoCapture == [end |-> Closed, opened |-> 0, skipped |-> "none"]

\* How the finish leg of one use of a request id ended.
Verdict == {"none", "held", "registered", "skipped", "declined", "failed"}

\* The finish leg of a request id: held is the use in _deferred_registrations
\* (0: none) and since its opened_at_step; seq is the _request_seq entry (0:
\* none), as the number of the stamp, and stamps how many there have been.
\* verdict and keys record, for each use, how its leg ended and the stamps its
\* audit rows carry.
Leg == [held : 0 .. MaxUses, since : 0 .. MaxSteps, seq : Nat, stamps : Nat,
        verdict : [Uses -> Verdict], keys : [Uses -> SUBSET Nat]]
NoLeg == [held |-> 0, since |-> 0, seq |-> 0, stamps |-> 0,
          verdict |-> [u \in Uses |-> "none"], keys |-> [u \in Uses |-> {}]]

\* The worker's files, as far as this role can tell: the use and the length a
\* record vouches for.
Donor == [gen : 0 .. MaxUses, len : Lengths]
NoDonor == [gen |-> 0, len |-> 0]

VARIABLES
  use,       \* engine: the current use of each request id
  phase,     \* engine: where the request is
  fresh,     \* engine: this step's scheduled_new_reqs
  resumed,   \* engine: this step's resumed_req_ids
  decoding,  \* engine: requests with output tokens
  gone,      \* engine: finished_req_ids not shipped yet, each with its use
  filled,    \* engine: requests whose block table holds KV a load filled
  pc,        \* whether build_connector_meta is running
  due,       \* the rows it has still to go through or that the step must have
  finalize,  \* donors this step's metadata tells the worker to publish
  step,      \* _scheduler_step
  served,    \* _served_request_ids
  cap,       \* the capture each request has
  leg,       \* the finish leg each request has
  sent,      \* worker: the last store it was sent
  told,      \* worker: donors it still has to publish
  record     \* worker: metadata.json

engine == <<use, phase, fresh, resumed, decoding, gone, filled>>
build  == <<pc, due, finalize, step>>
worker == <<sent, told, record>>
vars   == <<engine, build, served, cap, leg, worker>>

TypeOK ==
  /\ use \in [Requests -> 0 .. MaxUses]
  /\ phase \in [Requests -> {"none", "waiting", "running", "preempted"}]
  /\ fresh \subseteq Requests /\ resumed \subseteq Requests
  /\ decoding \subseteq Requests /\ gone \subseteq Requests \X Uses
  /\ filled \subseteq Requests /\ due \subseteq Requests
  /\ finalize \subseteq Requests /\ served \subseteq Requests
  /\ pc \in {"idle", "build", "down"}
  /\ step \in 0 .. MaxSteps
  /\ cap \in [Requests -> Capture]
  /\ leg \in [Requests -> Leg]
  /\ sent \in [Requests -> Donor]
  /\ told \subseteq Requests
  /\ record \in [Requests -> Donor]

Init ==
  /\ use = [r \in Requests |-> 0]
  /\ phase = [r \in Requests |-> "none"]
  /\ fresh = {} /\ resumed = {} /\ decoding = {} /\ gone = {} /\ filled = {}
  /\ pc = "idle" /\ due = {} /\ finalize = {} /\ step = 0
  /\ served = {}
  /\ cap = [r \in Requests |-> NoCapture]
  /\ leg = [r \in Requests |-> NoLeg]
  /\ sent = [r \in Requests |-> NoDonor]
  /\ told = {}
  /\ record = [r \in Requests |-> NoDonor]

-----------------------------------------------------------------------------
(* The finish leg. *)

\* _has_stored_donor: the record's presence, whichever use it is from.
HasStoredDonor(r) == record[r] # NoDonor

\* _audit_event: the row takes the request's stamp, or a new one when the id
\* has none.
AuditRow(g, u) ==
  LET unstamped == g.seq = 0
      key == IF unstamped THEN g.stamps + 1 ELSE g.seq
  IN  [g EXCEPT !.seq = key,
                !.stamps = IF unstamped THEN @ + 1 ELSE @,
                !.keys[u] = @ \cup {key}]

\* _forget_request_join_key
ForgetJoinKey(g) == [g EXCEPT !.seq = 0]

Ends(g, u, verdict) == AuditRow([g EXCEPT !.verdict[u] = verdict], u)

\* _register_pending_donor: the provider takes the donor or raises.
RegisterPendingDonor(g, u, raises) ==
  Ends(g, u, IF raises THEN "failed" ELSE "registered")

\* _decline_undurable_donor
DeclineUndurable(g, u) == Ends(g, u, "declined")

\* Mutant: the budget counts from the next step.
DeferFromNextStep(g, u) ==
  IF RetrySteps <= 0
    THEN DeclineUndurable(g, u)
    ELSE Ends([g EXCEPT !.held = u, !.since = step + 1], u, "held")

\* _defer_donor_registration
Defer(g, u) ==
  IF RetrySteps <= 0
    THEN DeclineUndurable(g, u)
    ELSE Ends([g EXCEPT !.held = u, !.since = step], u, "held")

\* The dict entry is gone before the donor is offered.
Unheld(g) == [g EXCEPT !.held = 0]

\* Mutant: the step the donor was held on counts as waited.
WaitedOffByOne(g, now) == now - g.since + 1

\* How long a held donor has waited at step now.
Waited(g, now) == now - g.since

\* Mutant: a donor is given one more step than the budget.
RetriedOnceMore(r, now, final, raising) ==
  LET g == leg[r]
  IN  IF g.held = 0 THEN g
      ELSE IF HasStoredDonor(r)
        THEN RegisterPendingDonor(Unheld(g), g.held, r \in raising)
      ELSE IF Waited(g, now) <= RetrySteps /\ ~final THEN g
      ELSE DeclineUndurable(Unheld(g), g.held)

\* Mutant: an expired donor is dropped without a row.
RetriedThenDropped(r, now, final, raising) ==
  LET g == leg[r]
  IN  IF g.held = 0 THEN g
      ELSE IF HasStoredDonor(r)
        THEN RegisterPendingDonor(Unheld(g), g.held, r \in raising)
      ELSE IF Waited(g, now) < RetrySteps /\ ~final THEN g
      ELSE Unheld(g)

\* _retry_deferred_registrations, for one id.
Retried(r, now, final, raising) ==
  LET g == leg[r]
  IN  IF g.held = 0 THEN g
      ELSE IF HasStoredDonor(r)
        THEN RegisterPendingDonor(Unheld(g), g.held, r \in raising)
      ELSE IF Waited(g, now) < RetrySteps /\ ~final THEN g
      ELSE DeclineUndurable(Unheld(g), g.held)

\* Mutant: the record is not waited for.
OfferedAtOnce(g, r, short, raises) ==
  LET u == use[r]
  IN  IF ~Registers \/ short \/ cap[r].skipped # "none"
        THEN Ends(g, u, "skipped")
      ELSE RegisterPendingDonor(g, u, raises)

\* _register_donor_on_finish, for the use that finishes; short is whether its
\* prompt is below the floor.
Offered(g, r, short, raises) ==
  LET u == use[r]
  IN  IF ~Registers \/ short \/ cap[r].skipped # "none"
        THEN Ends(g, u, "skipped")
      ELSE IF cap[r].opened > 0 /\ ~HasStoredDonor(r) THEN Defer(g, u)
      ELSE RegisterPendingDonor(g, u, raises)

-----------------------------------------------------------------------------
(* The engine between two steps. *)

Scheduling == pc = "idle" /\ fresh = {} /\ resumed = {} /\ due = {}

\* on_new_request
Arrive(r) ==
  /\ Scheduling
  /\ phase[r] = "none"
  /\ use[r] < MaxUses
  /\ use' = [use EXCEPT ![r] = @ + 1]
  /\ phase' = [phase EXCEPT ![r] = "waiting"]
  /\ leg' = [leg EXCEPT ![r] = AuditRow(@, use[r] + 1)]
  /\ UNCHANGED <<fresh, resumed, decoding, gone, filled, build, served, cap,
                 worker>>

\* vLLM goes through the running requests before it admits others.
RunningLoop == pc = "idle" /\ fresh = {} /\ resumed = {}

\* The blocks of a preempted request are freed.
Preempt(r) ==
  /\ RunningLoop
  /\ phase[r] = "running"
  /\ r \notin due
  /\ phase' = [phase EXCEPT ![r] = "preempted"]
  /\ filled' = filled \ {r}
  /\ UNCHANGED <<use, fresh, resumed, decoding, gone, build, served, cap, leg,
                 worker>>

\* A donor some lookup can find.
Registered(d) == \E u \in Uses : leg[d].verdict[u] = "registered"

\* vLLM admits or resumes a request and calls update_state_after_alloc; load
\* is whether a planned load was credited and given blocks.
UpdateStateAfterAlloc(r, load) ==
  /\ pc = "idle"
  /\ phase[r] \in {"waiting", "preempted"}
  /\ step < MaxSteps
  /\ load => Materializes /\ \E d \in Requests : Registered(d)
  /\ phase' = [phase EXCEPT ![r] = "running"]
  /\ fresh' = IF phase[r] = "waiting" THEN fresh \cup {r} ELSE fresh
  /\ resumed' = IF phase[r] = "preempted" THEN resumed \cup {r} ELSE resumed
  /\ served' = IF load THEN served \cup {r} ELSE served
  /\ filled' = IF load THEN filled \cup {r} ELSE filled
  /\ UNCHANGED <<use, decoding, gone, build, cap, leg, worker>>

\* A scheduler with segmented prefill has a load for a running request in the
\* middle of its prefill and calls update_state_after_alloc; the step then has
\* a row for the request.
LoadMidPrefill(r) ==
  /\ RunningLoop
  /\ phase[r] = "running"
  /\ r \notin due \cup decoding
  /\ step < MaxSteps
  /\ Materializes /\ \E d \in Requests : Registered(d)
  /\ due' = due \cup {r}
  /\ served' = served \cup {r}
  /\ filled' = filled \cup {r}
  /\ UNCHANGED <<use, phase, fresh, resumed, decoding, gone, pc, finalize, step,
                 cap, leg, worker>>

\* request_finished, for a request that ends or is aborted in any phase. No
\* capture was opened for a short prompt.
RequestFinished(r, short, raising) ==
  /\ Scheduling
  /\ phase[r] # "none"
  /\ short => cap[r].end = Closed /\ cap[r].opened = 0
  /\ LET retried == [q \in Requests |-> Retried(q, step, FALSE, raising)]
     IN  leg' = [retried EXCEPT
                   ![r] = ForgetJoinKey(
                            Offered(@, r, short, r \in raising))]
  /\ cap' = [cap EXCEPT ![r] = NoCapture]
  /\ phase' = [phase EXCEPT ![r] = "none"]
  /\ gone' = gone \cup {<<r, use[r]>>}
  /\ decoding' = decoding \ {r}
  /\ filled' = filled \ {r}
  /\ UNCHANGED <<use, fresh, resumed, build, served, worker>>

\* shutdown, in the scheduler role: the last pass over the held donors.
Shutdown(raising) ==
  /\ Scheduling
  /\ leg' = [q \in Requests |-> Retried(q, step, TRUE, raising)]
  /\ pc' = "down"
  /\ UNCHANGED <<engine, due, finalize, step, served, cap, worker>>

-----------------------------------------------------------------------------
(* build_connector_meta: the tick and the retries, then one row for each   *)
(* scheduled request, then the metadata that goes to the worker.           *)

\* Every request scheduled for the first time, resumed or given a load has a
\* row, a running one has one when the step gives it tokens. Without materialization no row
\* is looked at. A finished id's capture state was
\* dropped by request_finished, so the finalize _build_store_metadata would
\* queue for it is the worker's to do (see BuildEnd).
BuildBegin(rows, raising) ==
  /\ pc = "idle"
  /\ step < MaxSteps
  /\ rows \subseteq {r \in Requests : phase[r] = "running"}
  /\ fresh \cup resumed \cup due \subseteq rows
  /\ step' = step + 1
  /\ leg' = [q \in Requests |-> Retried(q, step', FALSE, raising)]
  /\ pc' = "build"
  /\ due' = IF Materializes THEN rows ELSE {}
  /\ fresh' = IF Materializes THEN fresh ELSE {}
  /\ resumed' = IF Materializes THEN resumed ELSE {}
  /\ UNCHANGED <<use, phase, decoding, gone, filled, finalize, served, cap,
                 worker>>

NoteSkipped(c, why) == [c EXCEPT !.skipped = why]

\* _advance_capture, where end blocks are whole, allocated and computed.
AdvanceCapture(c, end) ==
  IF end <= c.end THEN c
  ELSE [end |-> IF end = PromptCap THEN Closed ELSE end,
        opened |-> end, skipped |-> "none"]

\* The store is the donor's last, so the worker publishes it.
Final(c, end) == end > c.end /\ end = PromptCap

\* _capture_allowed, which also takes r out of the served set.
CaptureAllowed(r) == r \notin served \/ CaptureServed

RowDone(r) ==
  /\ due' = due \ {r}
  /\ UNCHANGED <<use, phase, gone, filled, pc, step, leg, worker>>

\* _capture_admitted, below the prompt floor.
AdmitShort(r) ==
  /\ pc = "build" /\ r \in due /\ r \in fresh
  /\ cap' = [cap EXCEPT ![r] = NoteSkipped(@, "other")]
  /\ fresh' = fresh \ {r}
  /\ RowDone(r)
  /\ UNCHANGED <<resumed, decoding, finalize, served>>

\* _capture_admitted, past the floor: a served request is skipped, then one
\* the policy declines or that has no block table or no whole block.
AdmitSkipped(r) ==
  /\ pc = "build" /\ r \in due /\ r \in fresh
  /\ cap' = [cap EXCEPT ![r] =
               NoteSkipped(@, IF CaptureAllowed(r) THEN "other" ELSE "served")]
  /\ fresh' = fresh \ {r}
  /\ served' = served \ {r}
  /\ RowDone(r)
  /\ UNCHANGED <<resumed, decoding, finalize>>

\* Mutant: a served request is captured like any other.
AdmitServedToo(r, end) ==
  /\ pc = "build" /\ r \in due /\ r \in fresh
  /\ LET c == [cap[r] EXCEPT !.end = 0]
     IN  /\ cap' = [cap EXCEPT ![r] = AdvanceCapture(c, end)]
         /\ finalize' = IF Final(c, end) THEN finalize \cup {r} ELSE finalize
  /\ fresh' = fresh \ {r}
  /\ served' = served \ {r}
  /\ RowDone(r)
  /\ UNCHANGED <<resumed, decoding>>

\* _capture_admitted opens the capture.
AdmitCaptured(r, end) ==
  /\ pc = "build" /\ r \in due /\ r \in fresh
  /\ CaptureAllowed(r)
  /\ LET c == [cap[r] EXCEPT !.end = 0]
     IN  /\ cap' = [cap EXCEPT ![r] = AdvanceCapture(c, end)]
         /\ finalize' = IF Final(c, end) THEN finalize \cup {r} ELSE finalize
  /\ fresh' = fresh \ {r}
  /\ served' = served \ {r}
  /\ RowDone(r)
  /\ UNCHANGED <<resumed, decoding>>

\* _capture_continuations takes the rows of requests admitted earlier.
Continues(r) == pc = "build" /\ r \in due /\ r \notin fresh

\* No capture is open, so the row is passed over.
ContinueClosed(r, dec) ==
  /\ Continues(r)
  /\ cap[r].end = Closed
  /\ decoding' = IF dec THEN decoding \cup {r} ELSE decoding
  /\ resumed' = resumed \ {r}
  /\ RowDone(r)
  /\ UNCHANGED <<fresh, finalize, served, cap>>

\* The request was served on its way back in, or in the middle of its prefill:
\* its capture is dropped.
ContinueServed(r) ==
  /\ Continues(r)
  /\ cap[r].end # Closed
  /\ ~CaptureAllowed(r)
  /\ cap' = [cap EXCEPT ![r] = [NoteSkipped(@, "served") EXCEPT !.end = Closed]]
  /\ served' = served \ {r}
  /\ resumed' = resumed \ {r}
  /\ RowDone(r)
  /\ UNCHANGED <<fresh, decoding, finalize>>

\* Decode has started with the capture short of its cap.
ContinueAtDecode(r) ==
  /\ Continues(r)
  /\ cap[r].end # Closed
  /\ CaptureAllowed(r)
  /\ cap' = [cap EXCEPT ![r].end = Closed]
  /\ decoding' = decoding \cup {r}
  /\ finalize' = finalize \cup {r}
  /\ served' = served \ {r}
  /\ resumed' = resumed \ {r}
  /\ RowDone(r)
  /\ UNCHANGED fresh

\* Another prefill chunk.
ContinuePrefill(r, end) ==
  /\ Continues(r)
  /\ cap[r].end # Closed
  /\ CaptureAllowed(r)
  /\ r \notin decoding
  /\ cap' = [cap EXCEPT ![r] = AdvanceCapture(@, end)]
  /\ finalize' = IF Final(cap[r], end) THEN finalize \cup {r} ELSE finalize
  /\ served' = served \ {r}
  /\ resumed' = resumed \ {r}
  /\ RowDone(r)
  /\ UNCHANGED <<fresh, decoding>>

\* The metadata and the finished ids go to the worker, which closes the
\* captures of the finished itself.
BuildEnd ==
  /\ pc = "build"
  /\ due = {}
  /\ pc' = "idle"
  /\ sent' = [r \in Requests |->
                IF cap[r].opened > 0
                  THEN [gen |-> use[r], len |-> cap[r].opened] ELSE sent[r]]
  /\ told' = told \cup finalize
                  \cup {r \in Requests : <<r, sent[r].gen>> \in gone}
  /\ finalize' = {}
  /\ gone' = {}
  /\ UNCHANGED <<use, phase, fresh, resumed, decoding, filled, due, step,
                 served, cap, leg, record>>

-----------------------------------------------------------------------------
(* The worker role. *)

\* The writer lands the record.
Publish(r) ==
  /\ r \in told
  /\ record' = [record EXCEPT ![r] = sent[r]]
  /\ told' = told \ {r}
  /\ UNCHANGED <<engine, build, served, cap, leg, sent>>

\* A write of the donor failed: nothing is published until it is told again.
Lose(r) ==
  /\ r \in told
  /\ told' = told \ {r}
  /\ UNCHANGED <<engine, build, served, cap, leg, sent, record>>

Row(r) ==
  \/ AdmitShort(r)
  \/ AdmitSkipped(r)
  \/ \E end \in Lengths : AdmitCaptured(r, end)
  \/ \E dec \in BOOLEAN : ContinueClosed(r, dec)
  \/ ContinueServed(r)
  \/ ContinueAtDecode(r)
  \/ \E end \in Lengths : ContinuePrefill(r, end)

Build ==
  \/ \E rows \in SUBSET Requests, raising \in SUBSET Requests :
       BuildBegin(rows, raising)
  \/ \E r \in Requests : Row(r)
  \/ BuildEnd

Engine ==
  \E r \in Requests :
    \/ Arrive(r)
    \/ Preempt(r)
    \/ \E load \in BOOLEAN : UpdateStateAfterAlloc(r, load)
    \/ LoadMidPrefill(r)
    \/ \E short \in BOOLEAN, raising \in SUBSET Requests :
         RequestFinished(r, short, raising)

Teardown == \E raising \in SUBSET Requests : Shutdown(raising)

Worker == \E r \in Requests : Publish(r) \/ Lose(r)

Next == Engine \/ Build \/ Teardown \/ Worker

Spec == Init /\ [][Next]_vars

-----------------------------------------------------------------------------
(* Properties. *)

\* The ordering invariant, for the requests whose capture was announced: a
\* use is in the provider's index only once the record on the store is that
\* use's own, so no lookup finds a donor whose bytes are still queued, lost,
\* or another request's (_register_donor_on_finish,
\* _retry_deferred_registrations).
RegisteredAfterRecord ==
  \A r \in Requests, u \in Uses :
    leg[r].verdict[u] = "registered" /\ sent[r].gen = u => record[r].gen = u

\* The ordering invariant as the contract states it, for every donor: no use
\* is registered without a record of its own.
RegisteredHasRecord ==
  \A r \in Requests, u \in Uses :
    leg[r].verdict[u] = "registered" => record[r].gen = u

\* A use that has finished has had its finish row: it was registered, skipped
\* or declined, or is still held to be (_register_donor_on_finish: a request
\* that never becomes a donor still leaves a row naming the reason).
FinishAnswered ==
  \A r \in Requests, u \in Uses :
    LET verdict == leg[r].verdict[u]
    IN  /\ u < use[r] + (IF phase[r] = "none" THEN 1 ELSE 0)
             => verdict # "none"
        /\ verdict = "held" => leg[r].held = u /\ pc # "down"

\* No store is announced for a request whose block table holds KV a load
\* filled, across preemption and readmission: approximate KV never becomes
\* donor KV (_capture_admitted, _capture_continuations, _capture_allowed).
StoredIsOwn ==
  [][\A r \in Requests :
       cap'[r].opened > 0 /\ cap'[r].opened # cap[r].opened
         => r \notin filled \/ CaptureServed]_vars

\* While the engine runs, a held donor is declined only after the worker has
\* had the whole budget of scheduler steps to publish it, however many
\* requests finish meanwhile (_retry_deferred_registrations).
DeclinedAfterBudget ==
  [][\A r \in Requests, u \in Uses :
       leg[r].verdict[u] = "held" /\ leg'[r].verdict[u] = "declined"
         => pc' = "down" \/ step' - leg[r].since >= RetrySteps]_vars

\* No donor is held longer than its budget of scheduler steps, whether it was
\* held at a finish or overtaken by finishes since. The budget is counted in
\* steps and not in time: an engine that builds no step keeps what it holds
\* until the next finish or the shutdown (_defer_donor_registration,
\* _retry_deferred_registrations).
HeldWithinBudget ==
  \A r \in Requests : leg[r].held # 0 => step - leg[r].since < RetrySteps
=============================================================================
