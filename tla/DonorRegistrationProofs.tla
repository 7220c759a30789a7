----------------------- MODULE DonorRegistrationProofs -----------------------
(***************************************************************************)
(* Proofs about DonorRegistration, for every number of requests, uses,     *)
(* steps and blocks and every configuration.                               *)
(***************************************************************************)
EXTENDS DonorRegistration, TLAPS

(***************************************************************************)
(* StoredIsOwn. A request whose table holds filled blocks is either still  *)
(* in the served set, so the next row that could capture it skips it, or   *)
(* past its admission row with no capture open, and then none ever opens.  *)
(***************************************************************************)
SetsOK ==
  /\ cap \in [Requests -> Capture]
  /\ phase \in [Requests -> {"none", "waiting", "running", "preempted"}]
  /\ fresh \subseteq Requests

\* A request that has not been through its admission row has no capture.
NotYetOpen ==
  \A r \in Requests :
    phase[r] \in {"none", "waiting"} \/ r \in fresh => cap[r].end = Closed

\* Where the served set can have lost a filled request.
FilledIsKnown ==
  CaptureServed \/
    \A r \in Requests :
      r \in filled => r \in served \/ (r \notin fresh /\ cap[r].end = Closed)

\* Only admitted requests hold filled blocks or have an admission row.
FilledIsRunning ==
  \A r \in Requests : r \in filled \cup fresh => phase[r] = "running"

OInv == SetsOK /\ NotYetOpen /\ FilledIsKnown /\ FilledIsRunning

\* A request without a capture has a capture record all the same, and a
\* captured_end can be reset in one.
LEMMA CaptureType ==
  /\ NoCapture \in Capture /\ NoCapture.end = Closed
  /\ \A c \in Capture : [c EXCEPT !.end = 0] \in Capture
  BY SizeAssumption DEF NoCapture, Capture, Closed, Lengths

\* The initial state satisfies the invariant: nothing is captured or filled.
LEMMA InitOInv == Init => OInv
  BY CaptureType
     DEF Init, OInv, SetsOK, NotYetOpen, FilledIsKnown, FilledIsRunning

\* Extending a capture gives a capture again, and one that announces a new
\* length has grown past what was announced (_advance_capture).
LEMMA AdvanceType ==
  ASSUME NEW c \in Capture, NEW end \in Lengths
  PROVE  AdvanceCapture(c, end) \in Capture
  BY SizeAssumption DEF AdvanceCapture, Capture, Lengths, Closed

\* Noting why a prompt is not captured, or closing its capture, gives a capture
\* again (_note_capture_skipped, _close_capture).
LEMMA NoteType ==
  ASSUME NEW c \in Capture, NEW why \in {"none", "served", "other"}
  PROVE  /\ NoteSkipped(c, why) \in Capture
         /\ [c EXCEPT !.end = Closed] \in Capture
  BY DEF NoteSkipped, Capture

\* No step of the engine, of the build, of teardown or of the worker breaks
\* the invariant.
LEMMA NextOInv == OInv /\ [Next]_vars => OInv'
<1> SUFFICES ASSUME OInv, [Next]_vars PROVE OInv'
  OBVIOUS
<1> USE DEF OInv, SetsOK, NotYetOpen, FilledIsKnown, FilledIsRunning
<1>1. ASSUME NEW r \in Requests, Arrive(r) PROVE OInv'
  BY <1>1 DEF Arrive, Scheduling
<1>2. ASSUME NEW r \in Requests, Preempt(r) PROVE OInv'
  BY <1>2 DEF Preempt, build, RunningLoop
<1>3. ASSUME NEW r \in Requests,
             \/ \E load \in BOOLEAN : UpdateStateAfterAlloc(r, load)
             \/ LoadMidPrefill(r)
      PROVE  OInv'
  <2>1. CASE LoadMidPrefill(r)
    BY <2>1 DEF LoadMidPrefill, RunningLoop
  <2>2. ASSUME NEW load \in BOOLEAN, UpdateStateAfterAlloc(r, load)
        PROVE  OInv'
    BY <2>2 DEF UpdateStateAfterAlloc, build
  <2> QED
    BY <1>3, <2>1, <2>2
<1>4. ASSUME NEW r \in Requests, NEW short \in BOOLEAN,
             NEW raising \in SUBSET Requests,
             RequestFinished(r, short, raising)
      PROVE  OInv'
  BY <1>4, CaptureType DEF RequestFinished, Scheduling
<1>5. ASSUME NEW rows \in SUBSET Requests, NEW raising \in SUBSET Requests,
             BuildBegin(rows, raising)
      PROVE  OInv'
  BY <1>5 DEF BuildBegin
<1>6. ASSUME NEW r \in Requests, AdmitShort(r) PROVE OInv'
  BY <1>6 DEF AdmitShort, RowDone, NoteSkipped, Capture
<1>7. ASSUME NEW r \in Requests, AdmitSkipped(r) PROVE OInv'
  BY <1>7 DEF AdmitSkipped, RowDone, NoteSkipped, Capture
<1>8. ASSUME NEW r \in Requests, NEW end \in Lengths, AdmitCaptured(r, end)
      PROVE  OInv'
  <2> DEFINE d == AdvanceCapture([cap[r] EXCEPT !.end = 0], end)
  <2>1. d \in Capture
    BY CaptureType, AdvanceType
  <2>2. cap' = [cap EXCEPT ![r] = d]
    BY <1>8 DEF AdmitCaptured
  <2> HIDE DEF d
  <2> QED
    BY <1>8, <2>1, <2>2 DEF AdmitCaptured, CaptureAllowed, RowDone
<1>9. ASSUME NEW r \in Requests, NEW dec \in BOOLEAN, ContinueClosed(r, dec)
      PROVE  OInv'
  BY <1>9 DEF ContinueClosed, Continues, RowDone
<1>10. ASSUME NEW r \in Requests, ContinueServed(r) PROVE OInv'
  BY <1>10 DEF ContinueServed, Continues, RowDone, NoteSkipped, Capture
<1>11. ASSUME NEW r \in Requests, ContinueAtDecode(r) PROVE OInv'
  BY <1>11 DEF ContinueAtDecode, Continues, CaptureAllowed, RowDone,
               Capture
<1>12. ASSUME NEW r \in Requests, NEW end \in Lengths, ContinuePrefill(r, end)
       PROVE  OInv'
  BY <1>12, AdvanceType DEF ContinuePrefill, Continues, CaptureAllowed,
                              RowDone
<1>13. ASSUME BuildEnd PROVE OInv'
  BY <1>13 DEF BuildEnd
<1>14. ASSUME NEW raising \in SUBSET Requests, Shutdown(raising) PROVE OInv'
  BY <1>14 DEF Shutdown, engine
<1>15. ASSUME NEW r \in Requests, Publish(r) \/ Lose(r) PROVE OInv'
  BY <1>15 DEF Publish, Lose, engine
<1>16. ASSUME UNCHANGED vars PROVE OInv'
  BY <1>16 DEF vars, engine
<1> QED
  BY <1>1, <1>2, <1>3, <1>4, <1>5, <1>6, <1>7, <1>8, <1>9, <1>10, <1>11,
     <1>12, <1>13, <1>14, <1>15, <1>16
     DEF Next, Engine, Build, Row, Teardown, Worker

\* The invariant holds in every reachable state.
LEMMA AlwaysOInv == Spec => []OInv
  BY InitOInv, NextOInv, PTL DEF Spec

\* A row that announces a new length finds the request's blocks its own.
LEMMA StepStoredIsOwn ==
  ASSUME OInv, [Next]_vars, NEW r \in Requests,
         cap'[r].opened > 0, cap'[r].opened # cap[r].opened
  PROVE  r \notin filled \/ CaptureServed
<1> USE DEF OInv, SetsOK
<1>1. CASE UNCHANGED cap
  BY <1>1
<1>2. ASSUME NEW q \in Requests, NEW short \in BOOLEAN,
             NEW raising \in SUBSET Requests,
             RequestFinished(q, short, raising)
      PROVE  FALSE
  BY <1>2 DEF RequestFinished, NoCapture
<1>3. ASSUME NEW q \in Requests, AdmitShort(q) \/ AdmitSkipped(q)
      PROVE  FALSE
  BY <1>3 DEF AdmitShort, AdmitSkipped, NoteSkipped, Capture
<1>4. ASSUME NEW q \in Requests, ContinueServed(q) \/ ContinueAtDecode(q)
      PROVE  FALSE
  <2>1. CASE ContinueServed(q)
    BY <2>1 DEF ContinueServed, NoteSkipped, Capture
  <2>2. CASE ContinueAtDecode(q)
    BY <2>2 DEF ContinueAtDecode, Capture
  <2> QED
    BY <1>4, <2>1, <2>2
<1>5. ASSUME NEW q \in Requests, NEW end \in Lengths, AdmitCaptured(q, end)
      PROVE  r \notin filled \/ CaptureServed
  <2>1. q = r
    BY <1>5 DEF AdmitCaptured
  <2> QED
    BY <1>5, <2>1 DEF AdmitCaptured, CaptureAllowed, FilledIsKnown
<1>6. ASSUME NEW q \in Requests, NEW end \in Lengths, ContinuePrefill(q, end)
      PROVE  r \notin filled \/ CaptureServed
  <2>1. q = r
    BY <1>6 DEF ContinuePrefill
  <2> QED
    BY <1>6, <2>1 DEF ContinuePrefill, CaptureAllowed, FilledIsKnown
<1>7. ASSUME NEW q \in Requests,
             \/ Arrive(q) \/ Preempt(q) \/ Publish(q) \/ Lose(q)
             \/ LoadMidPrefill(q)
             \/ \E load \in BOOLEAN : UpdateStateAfterAlloc(q, load)
             \/ \E dec \in BOOLEAN : ContinueClosed(q, dec)
      PROVE  UNCHANGED cap
  BY <1>7 DEF Arrive, Preempt, Publish, Lose, UpdateStateAfterAlloc,
              LoadMidPrefill, ContinueClosed
<1>8. ASSUME \/ BuildEnd
             \/ \E rows, raising \in SUBSET Requests :
                  BuildBegin(rows, raising) \/ Shutdown(raising)
      PROVE  UNCHANGED cap
  BY <1>8 DEF BuildEnd, BuildBegin, Shutdown
<1>9. CASE UNCHANGED vars
  BY <1>1, <1>9 DEF vars
<1> QED
  BY <1>1, <1>2, <1>3, <1>4, <1>5, <1>6, <1>7, <1>8, <1>9
     DEF Next, Engine, Build, Row, Teardown, Worker

\* Approximate KV never becomes donor KV: whatever preemptions, readmissions
\* and reuses of the id happen, no store is announced for a request whose
\* block table holds KV that a load filled (_capture_admitted,
\* _capture_continuations, _capture_allowed).
THEOREM StoresAreOwn == Spec => StoredIsOwn
<1>1. OInv /\ [Next]_vars =>
        [\A r \in Requests :
           cap'[r].opened > 0 /\ cap'[r].opened # cap[r].opened
             => r \notin filled \/ CaptureServed]_vars
  BY StepStoredIsOwn
<1> QED
  BY <1>1, AlwaysOInv, PTL DEF Spec, StoredIsOwn

-----------------------------------------------------------------------------
(***************************************************************************)
(* What the operators of the finish leg return.                            *)
(***************************************************************************)

\* An audit row stamps the leg and changes nothing else of it (_audit_event).
LEMMA AuditRowLeg ==
  ASSUME NEW g \in Leg, NEW u \in Uses
  PROVE  LET a == AuditRow(g, u)
         IN  /\ a \in Leg
             /\ a.held = g.held /\ a.since = g.since
             /\ a.verdict = g.verdict
<1> DEFINE k == IF g.seq = 0 THEN g.stamps + 1 ELSE g.seq
           n == IF g.seq = 0 THEN g.stamps + 1 ELSE g.stamps
           keys == [g.keys EXCEPT ![u] = @ \cup {k}]
<1>1. k \in Nat /\ n \in Nat
  BY DEF Leg
<1>2. keys \in [Uses -> SUBSET Nat]
  BY <1>1 DEF Leg
<1>3. AuditRow(g, u) = [g EXCEPT !.seq = k, !.stamps = n, !.keys = keys]
  BY DEF AuditRow, Leg
<1> HIDE DEF k, n, keys
<1> QED
  BY <1>1, <1>2, <1>3 DEF Leg

\* Ending a leg sets the verdict of the one use (the finish rows).
LEMMA EndsLeg ==
  ASSUME NEW g \in Leg, NEW u \in Uses, NEW v \in Verdict
  PROVE  LET e == Ends(g, u, v)
         IN  /\ e \in Leg
             /\ e.held = g.held /\ e.since = g.since
             /\ e.verdict = [g.verdict EXCEPT ![u] = v]
<1> DEFINE f == [g EXCEPT !.verdict[u] = v]
<1>1. /\ f \in Leg /\ f.held = g.held /\ f.since = g.since
      /\ f.verdict = [g.verdict EXCEPT ![u] = v]
  BY DEF Leg
<1> HIDE DEF f
<1>2. Ends(g, u, v) = AuditRow(f, u)
  BY DEF Ends, f
<1> QED
  BY <1>1, <1>2, AuditRowLeg

\* What a retry at step now makes of r's leg: it leaves the leg alone, or
\* empties the held slot and ends the held use: in the index or failed when its
\* record is there, declined when its budget is spent or nothing will run
\* again. The last pass empties every slot, and no slot stays taken past the
\* budget.
RetriedOK(n, r, now, final) ==
  /\ n \in Leg
  /\ n.since = leg[r].since
  /\ final => n.held = 0
  /\ n.held # 0 => now - leg[r].since < RetrySteps
  /\ \/ n = leg[r]
     \/ /\ leg[r].held \in Uses /\ n.held = 0
        /\ \E v \in {"registered", "failed", "declined"} :
             /\ n.verdict = [leg[r].verdict EXCEPT ![leg[r].held] = v]
             /\ v = "registered" => HasStoredDonor(r)
             /\ v = "declined" => final \/ now - leg[r].since >= RetrySteps

\* That is what _retry_deferred_registrations does.
LEMMA RetriedLeg ==
  ASSUME NEW r \in Requests, leg[r] \in Leg, NEW now \in Int,
         NEW final \in BOOLEAN, NEW raising \in SUBSET Requests
  PROVE  RetriedOK(Retried(r, now, final, raising), r, now, final)
<1> USE DEF RetriedOK
<1> DEFINE g == leg[r]
           n == Retried(r, now, final, raising)
<1>1. CASE g.held = 0
  BY <1>1 DEF Retried
<1>2. CASE g.held # 0
  <2>1. g.held \in Uses /\ g.since \in Int
    BY <1>2, SizeAssumption DEF Leg, Uses
  <2> DEFINE h == Unheld(g)
  <2>2. /\ h \in Leg /\ h.held = 0 /\ h.since = g.since
        /\ h.verdict = g.verdict
    BY SizeAssumption DEF Unheld, Leg
  <2> HIDE DEF h
  <2>3. CASE HasStoredDonor(r)
    <3> DEFINE v == IF r \in raising THEN "failed" ELSE "registered"
    <3>1. n = Ends(h, g.held, v)
      BY <1>2, <2>3 DEF Retried, RegisterPendingDonor, h
    <3>2. v \in {"registered", "failed"} /\ v \in Verdict
      BY DEF Verdict
    <3> HIDE DEF v
    <3> QED
      BY <2>1, <2>2, <2>3, <3>1, <3>2, EndsLeg
  <2>4. CASE ~HasStoredDonor(r) /\ Waited(g, now) < RetrySteps /\ ~final
    BY <1>2, <2>4 DEF Retried, Waited
  <2>5. CASE ~HasStoredDonor(r) /\ ~(Waited(g, now) < RetrySteps /\ ~final)
    <3>1. n = Ends(h, g.held, "declined")
      BY <1>2, <2>5 DEF Retried, DeclineUndurable, h
    <3>2. final \/ now - g.since >= RetrySteps
      BY <2>1, <2>5, RetryAssumption DEF Waited
    <3>3. "declined" \in Verdict
      BY DEF Verdict
    <3> QED
      BY <2>1, <2>2, <3>1, <3>2, <3>3, EndsLeg
  <2> QED
    BY <2>3, <2>4, <2>5
<1> QED
  BY <1>1, <1>2

\* What the finish makes of the leg g of the use that finishes: it has a
\* verdict, and holds the slot when it is held.
OfferedOK(o, g, r) ==
  /\ o \in Leg
  /\ \E v \in Verdict \ {"none"} :
       /\ o.verdict = [g.verdict EXCEPT ![use[r]] = v]
       /\ v = "held" => /\ o.held = use[r] /\ o.since = step
                        /\ RetrySteps > 0
       /\ v # "held" => o.held = g.held /\ o.since = g.since
       /\ v = "registered" /\ cap[r].opened > 0 => HasStoredDonor(r)
       /\ v = "declined" => RetrySteps <= 0

\* That is what _register_donor_on_finish and _defer_donor_registration do, and
\* forgetting the join key changes none of it.
LEMMA OfferedLeg ==
  ASSUME NEW r \in Requests, NEW g \in Leg, use[r] \in Uses,
         step \in 0 .. MaxSteps, NEW short \in BOOLEAN,
         NEW raises \in BOOLEAN
  PROVE  OfferedOK(ForgetJoinKey(Offered(g, r, short, raises)), g, r)
<1> DEFINE u == use[r]
           w == Offered(g, r, short, raises)
           Good(o) == OfferedOK(o, g, r)
<1> USE DEF OfferedOK
<1>1. ASSUME NEW o, Good(o) PROVE Good(ForgetJoinKey(o))
  <2>1. /\ ForgetJoinKey(o) \in Leg
        /\ ForgetJoinKey(o).verdict = o.verdict
        /\ ForgetJoinKey(o).held = o.held /\ ForgetJoinKey(o).since = o.since
    BY <1>1 DEF ForgetJoinKey, Leg
  <2> QED
    BY <1>1, <2>1
<1>2. ASSUME NEW v \in Verdict \ {"none", "held"},
             v = "registered" /\ cap[r].opened > 0 => HasStoredDonor(r),
             v = "declined" => RetrySteps <= 0
      PROVE  Good(Ends(g, u, v))
  <2> DEFINE e == Ends(g, u, v)
  <2>1. /\ e \in Leg /\ e.held = g.held /\ e.since = g.since
        /\ e.verdict = [g.verdict EXCEPT ![u] = v]
    BY EndsLeg
  <2> HIDE DEF e
  <2>2. Good(e)
    BY <1>2, <2>1
  <2> QED
    BY <2>2 DEF e
<1> HIDE DEF Good
<1>3. Good(w)
  <2>1. CASE ~Registers \/ short \/ cap[r].skipped # "none"
    <3>1. w = Ends(g, u, "skipped")
      BY <2>1 DEF Offered
    <3>2. Good(Ends(g, u, "skipped"))
      BY <1>2 DEF Verdict
    <3> QED
      BY <3>1, <3>2
  <2>2. CASE /\ Registers /\ ~short /\ cap[r].skipped = "none"
             /\ cap[r].opened > 0 /\ ~HasStoredDonor(r)
             /\ RetrySteps <= 0
    <3>1. w = Ends(g, u, "declined")
      BY <2>2 DEF Offered, Defer, DeclineUndurable
    <3>2. Good(Ends(g, u, "declined"))
      BY <1>2, <2>2 DEF Verdict
    <3> QED
      BY <3>1, <3>2
  <2>3. CASE /\ Registers /\ ~short /\ cap[r].skipped = "none"
             /\ cap[r].opened > 0 /\ ~HasStoredDonor(r)
             /\ ~(RetrySteps <= 0)
    <3> DEFINE f == [g EXCEPT !.held = u, !.since = step]
    <3>1. /\ f \in Leg /\ f.held = u /\ f.since = step
          /\ f.verdict = g.verdict
      <4>1. u \in 0 .. MaxUses
        BY SizeAssumption DEF Uses
      <4> HIDE DEF u
      <4> QED
        BY <4>1 DEF Leg
    <3>2. w = Ends(f, u, "held")
      BY <2>3 DEF Offered, Defer
    <3>3. "held" \in Verdict \ {"none"}
      BY DEF Verdict
    <3> HIDE DEF f
    <3>4. LET e == Ends(f, u, "held")
          IN  /\ e \in Leg /\ e.held = u /\ e.since = step
              /\ e.verdict = [g.verdict EXCEPT ![u] = "held"]
      BY <3>1, <3>3, EndsLeg
    <3>5. RetrySteps > 0
      BY <2>3, RetryAssumption
    <3> QED
      BY <3>2, <3>3, <3>4, <3>5 DEF Good
  <2>4. CASE /\ Registers /\ ~short /\ cap[r].skipped = "none"
             /\ ~(cap[r].opened > 0 /\ ~HasStoredDonor(r))
    <3> DEFINE v == IF raises THEN "failed" ELSE "registered"
    <3>1. w = Ends(g, u, v)
      BY <2>4 DEF Offered, RegisterPendingDonor
    <3>2. v \in Verdict \ {"none", "held"} /\ v # "declined"
      BY DEF Verdict
    <3> HIDE DEF v
    <3>3. Good(Ends(g, u, v))
      BY <1>2, <2>4, <3>2
    <3> QED
      BY <3>1, <3>3
  <2> QED
    BY <2>1, <2>2, <2>3, <2>4, ConfigAssumption
<1> QED
  BY <1>1, <1>3 DEF Good

-----------------------------------------------------------------------------
(***************************************************************************)
(* Types, and what the clock and the rows of a step have to do with them.  *)
(***************************************************************************)

\* A live request is in its first use or a later one.
LiveHasUse == \A r \in Requests : phase[r] # "none" => use[r] \in Uses

\* No donor is held from a step that has not come.
HeldInThePast == \A r \in Requests : leg[r].since <= step

\* The rows of a step are those of running requests.
RowsRun == \A r \in due : phase[r] = "running"

TInv == TypeOK /\ LiveHasUse /\ HeldInThePast /\ RowsRun

\* The initial state satisfies the invariant.
LEMMA InitTInv == Init => TInv
<1> SUFFICES ASSUME Init PROVE TInv
  OBVIOUS
<1>1. NoLeg \in Leg /\ NoLeg.since = 0
  BY SizeAssumption DEF NoLeg, Leg, Verdict
<1>2. NoDonor \in Donor
  BY SizeAssumption DEF NoDonor, Donor, Lengths
<1>3. TypeOK
  BY <1>1, <1>2, CaptureType, SizeAssumption DEF Init, TypeOK
<1> QED
  BY <1>1, <1>3, SizeAssumption
     DEF Init, TInv, LiveHasUse, HeldInThePast, RowsRun

\* A retry of every id keeps the legs well formed and their clocks in the past.
LEMMA AllRetriedTInv ==
  ASSUME TInv, NEW now \in Int, NEW final \in BOOLEAN,
         NEW raising \in SUBSET Requests
  PROVE  \A q \in Requests :
           /\ Retried(q, now, final, raising) \in Leg
           /\ Retried(q, now, final, raising).since = leg[q].since
<1> TAKE q \in Requests
<1>1. leg[q] \in Leg
  BY DEF TInv, TypeOK
<1>2. RetriedOK(Retried(q, now, final, raising), q, now, final)
  BY <1>1, RetriedLeg
<1> QED
  BY <1>2 DEF RetriedOK

\* No step breaks the invariant.
LEMMA NextTInv == TInv /\ [Next]_vars => TInv'
<1> SUFFICES ASSUME TInv, [Next]_vars PROVE TInv'
  OBVIOUS
<1> USE DEF TInv, TypeOK, LiveHasUse, HeldInThePast, RowsRun
<1>0. step \in Int /\ MaxSteps \in Int /\ \A q \in Requests : leg[q].since \in Int
  BY SizeAssumption DEF Leg
<1>1. ASSUME NEW r \in Requests, Arrive(r) PROVE TInv'
  <2>1. use[r] + 1 \in Uses /\ use[r] + 1 \in 0 .. MaxUses
    BY <1>1, SizeAssumption DEF Arrive, Uses
  <2> DEFINE a == AuditRow(leg[r], use[r] + 1)
  <2>2. a \in Leg /\ a.since = leg[r].since
    BY <2>1, AuditRowLeg
  <2>3. leg' = [leg EXCEPT ![r] = a]
    BY <1>1 DEF Arrive
  <2> HIDE DEF a
  <2>4. TypeOK' /\ HeldInThePast'
    BY <1>1, <2>1, <2>2, <2>3 DEF Arrive, build, worker
  <2>5. LiveHasUse' /\ RowsRun'
    BY <1>1, <2>1 DEF Arrive, build, Scheduling
  <2> QED
    BY <2>4, <2>5
<1>2. ASSUME NEW r \in Requests, Preempt(r) PROVE TInv'
  BY <1>2 DEF Preempt, build, worker
<1>3. ASSUME NEW r \in Requests,
             \/ \E load \in BOOLEAN : UpdateStateAfterAlloc(r, load)
             \/ LoadMidPrefill(r)
      PROVE  TInv'
  <2>1. CASE LoadMidPrefill(r)
    BY <2>1 DEF LoadMidPrefill, worker
  <2>2. ASSUME NEW load \in BOOLEAN, UpdateStateAfterAlloc(r, load)
        PROVE  TInv'
    BY <2>2 DEF UpdateStateAfterAlloc, build, worker
  <2> QED
    BY <1>3, <2>1, <2>2
<1>4. ASSUME NEW r \in Requests, NEW short \in BOOLEAN,
             NEW raising \in SUBSET Requests,
             RequestFinished(r, short, raising)
      PROVE  TInv'
  <2> DEFINE retried == [q \in Requests |-> Retried(q, step, FALSE, raising)]
             o == ForgetJoinKey(Offered(retried[r], r, short, r \in raising))
  <2>1. /\ retried \in [Requests -> Leg]
        /\ \A q \in Requests : retried[q].since = leg[q].since
    BY <1>0, AllRetriedTInv
  <2>2. use[r] \in Uses
    BY <1>4 DEF RequestFinished
  <2>3. leg' = [retried EXCEPT ![r] = o]
    BY <1>4 DEF RequestFinished
  <2> HIDE DEF retried
  <2>4. o \in Leg /\ (o.since = step \/ o.since = retried[r].since)
    <3>1. (r \in raising) \in BOOLEAN /\ retried[r] \in Leg
      BY <2>1
    <3>2. OfferedOK(o, retried[r], r)
      BY <2>2, <3>1, OfferedLeg
    <3> HIDE DEF o
    <3> QED
      BY <3>2 DEF OfferedOK
  <2> HIDE DEF o
  <2>5. leg' \in [Requests -> Leg] /\ \A q \in Requests : leg'[q].since <= step
    BY <1>0, <2>1, <2>3, <2>4
  <2>6. /\ cap' = [cap EXCEPT ![r] = NoCapture]
        /\ phase' = [phase EXCEPT ![r] = "none"]
        /\ gone' = gone \cup {<<r, use[r]>>}
        /\ decoding' = decoding \ {r} /\ filled' = filled \ {r}
        /\ UNCHANGED <<use, fresh, resumed, build, served, worker>>
        /\ pc = "idle" /\ due = {}
    BY <1>4 DEF RequestFinished, Scheduling
  <2> QED
    BY <2>2, <2>5, <2>6, CaptureType DEF build, worker
<1>5. ASSUME NEW rows \in SUBSET Requests, NEW raising \in SUBSET Requests,
             BuildBegin(rows, raising)
      PROVE  TInv'
  <2>1. step' = step + 1 /\ step' \in 0 .. MaxSteps /\ step' \in Int
    BY <1>5, SizeAssumption DEF BuildBegin
  <2>2. leg' = [q \in Requests |-> Retried(q, step', FALSE, raising)]
    BY <1>5 DEF BuildBegin
  <2>3. /\ leg' \in [Requests -> Leg]
        /\ \A q \in Requests : leg'[q].since <= step'
    <3>1. PICK now \in Int : now = step'
      BY <2>1
    <3>2. leg' = [q \in Requests |-> Retried(q, now, FALSE, raising)]
      BY <2>2, <3>1
    <3>3. \A q \in Requests :
            /\ Retried(q, now, FALSE, raising) \in Leg
            /\ Retried(q, now, FALSE, raising).since = leg[q].since
      BY AllRetriedTInv
    <3> QED
      <4>1. \A q \in Requests : leg'[q] \in Leg /\ leg'[q].since = leg[q].since
        BY <3>2, <3>3
      <4>2. leg' \in [Requests -> Leg]
        BY <3>2, <4>1
      <4> QED
        BY <1>0, <2>1, <4>1, <4>2
  <2> QED
    BY <1>5, <2>1, <2>3 DEF BuildBegin, worker
<1>6. ASSUME NEW r \in Requests, AdmitShort(r) \/ AdmitSkipped(r) PROVE TInv'
  <2>1. CASE AdmitShort(r)
    <3>1. cap' = [cap EXCEPT ![r] = NoteSkipped(cap[r], "other")]
      BY <2>1 DEF AdmitShort
    <3>2. cap' \in [Requests -> Capture]
      BY <3>1, NoteType
    <3> QED
      BY <2>1, <3>2 DEF AdmitShort, RowDone, worker
  <2>2. CASE AdmitSkipped(r)
    <3>1. PICK why \in {"served", "other"} :
            cap' = [cap EXCEPT ![r] = NoteSkipped(cap[r], why)]
      BY <2>2 DEF AdmitSkipped
    <3>2. cap' \in [Requests -> Capture]
      BY <3>1, NoteType
    <3> QED
      BY <2>2, <3>2 DEF AdmitSkipped, RowDone, worker
  <2> QED
    BY <1>6, <2>1, <2>2
<1>7. ASSUME NEW r \in Requests, NEW end \in Lengths,
             AdmitCaptured(r, end) \/ ContinuePrefill(r, end)
      PROVE  TInv'
  <2>1. cap' \in [Requests -> Capture]
    BY <1>7, CaptureType, AdvanceType DEF AdmitCaptured, ContinuePrefill
  <2> QED
    BY <1>7, <2>1 DEF AdmitCaptured, ContinuePrefill, Continues, RowDone, worker
<1>8. ASSUME NEW r \in Requests, NEW dec \in BOOLEAN, ContinueClosed(r, dec)
      PROVE  TInv'
  BY <1>8 DEF ContinueClosed, Continues, RowDone, worker
<1>9. ASSUME NEW r \in Requests, ContinueServed(r) PROVE TInv'
  <2>1. cap' \in [Requests -> Capture]
    <3>1. NoteSkipped(cap[r], "served") \in Capture
      BY NoteType
    <3>2. [NoteSkipped(cap[r], "served") EXCEPT !.end = Closed] \in Capture
      BY <3>1, NoteType
    <3> QED
      BY <1>9, <3>2 DEF ContinueServed
  <2> QED
    BY <1>9, <2>1 DEF ContinueServed, Continues, RowDone, worker
<1>10. ASSUME NEW r \in Requests, ContinueAtDecode(r) PROVE TInv'
  <2>1. cap' \in [Requests -> Capture]
    <3>1. cap' = [cap EXCEPT ![r] = [cap[r] EXCEPT !.end = Closed]]
      BY <1>10 DEF ContinueAtDecode
    <3> QED
      BY <3>1, NoteType
  <2> QED
    BY <1>10, <2>1 DEF ContinueAtDecode, Continues, RowDone, worker
<1>11. ASSUME BuildEnd PROVE TInv'
  <2>1. sent' \in [Requests -> Donor]
    BY <1>11 DEF BuildEnd, Donor, Capture
  <2> QED
    BY <1>11, <2>1 DEF BuildEnd
<1>12. ASSUME NEW raising \in SUBSET Requests, Shutdown(raising) PROVE TInv'
  <2>1. leg' = [q \in Requests |-> Retried(q, step, TRUE, raising)]
    BY <1>12 DEF Shutdown
  <2>2. /\ leg' \in [Requests -> Leg]
        /\ \A q \in Requests : leg'[q].since <= step
    BY <1>0, <2>1, AllRetriedTInv
  <2> QED
    BY <1>12, <2>2 DEF Shutdown, Scheduling, engine, worker
<1>13. ASSUME NEW r \in Requests, Publish(r) \/ Lose(r) PROVE TInv'
  BY <1>13 DEF Publish, Lose, engine, build
<1>14. ASSUME UNCHANGED vars PROVE TInv'
  BY <1>14 DEF vars, engine, build, worker
<1> QED
  BY <1>1, <1>2, <1>3, <1>4, <1>5, <1>6, <1>7, <1>8, <1>9, <1>10, <1>11,
     <1>12, <1>13, <1>14
     DEF Next, Engine, Build, Row, Teardown, Worker

\* The invariant holds in every reachable state.
LEMMA AlwaysTInv == Spec => []TInv
  BY InitTInv, NextTInv, PTL DEF Spec

\* The model is well typed.
THEOREM TypeCorrect == Spec => []TypeOK
  BY AlwaysTInv, PTL DEF TInv

-----------------------------------------------------------------------------
(***************************************************************************)
(* The budget of a held donor.                                             *)
(***************************************************************************)

\* A retry that declines a held use comes with the budget spent or is the last.
LEMMA RetryDeclines ==
  ASSUME TInv, NEW r \in Requests, NEW u \in Uses, NEW now \in Int,
         NEW final \in BOOLEAN, NEW raising \in SUBSET Requests,
         leg[r].verdict[u] = "held",
         Retried(r, now, final, raising).verdict[u] = "declined"
  PROVE  final \/ now - leg[r].since >= RetrySteps
<1> DEFINE n == Retried(r, now, final, raising)
<1>1. leg[r] \in Leg /\ leg[r].verdict \in [Uses -> Verdict]
  BY DEF TInv, TypeOK, Leg
<1>2. RetriedOK(n, r, now, final)
  BY <1>1, RetriedLeg
<1> HIDE DEF n
<1>3. n.verdict[u] = "declined" /\ leg[r].verdict[u] = "held"
  BY DEF n
<1> QED
  BY <1>1, <1>2, <1>3 DEF RetriedOK

\* While the engine runs, no step declines a held donor before its budget.
LEMMA StepDeclinedAfterBudget ==
  ASSUME TInv, [Next]_vars, NEW r \in Requests, NEW u \in Uses,
         leg[r].verdict[u] = "held", leg'[r].verdict[u] = "declined"
  PROVE  pc' = "down" \/ step' - leg[r].since >= RetrySteps
<1>0. /\ leg \in [Requests -> Leg] /\ leg[r].verdict \in [Uses -> Verdict]
      /\ step \in Int /\ leg[r].since \in Int /\ leg[r].since <= step
  BY SizeAssumption DEF TInv, TypeOK, HeldInThePast, Leg
<1>1. CASE UNCHANGED leg
  BY <1>1
<1>2. ASSUME NEW q \in Requests, Arrive(q) PROVE FALSE
  <2>1. use[q] + 1 \in Uses
    BY <1>2, SizeAssumption DEF Arrive, Uses, TInv, TypeOK
  <2>2. AuditRow(leg[q], use[q] + 1).verdict = leg[q].verdict
    BY <1>0, <2>1, AuditRowLeg
  <2> QED
    BY <1>0, <1>2, <2>2 DEF Arrive
<1>3. ASSUME NEW q \in Requests, NEW short \in BOOLEAN,
             NEW raising \in SUBSET Requests,
             RequestFinished(q, short, raising)
      PROVE  step' - leg[r].since >= RetrySteps
  <2> DEFINE retried == [p \in Requests |-> Retried(p, step, FALSE, raising)]
             o == ForgetJoinKey(Offered(retried[q], q, short, q \in raising))
  <2>1. leg' = [retried EXCEPT ![q] = o] /\ UNCHANGED step
    BY <1>3 DEF RequestFinished, build
  <2>2. retried[r] = Retried(r, step, FALSE, raising) /\ retried[q] \in Leg
    BY <1>0, AllRetriedTInv
  <2>3. CASE retried[r].verdict[u] = "declined"
    BY <1>0, <2>1, <2>2, <2>3, RetryDeclines
  <2>4. CASE retried[r].verdict[u] # "declined"
    <3>1. q = r /\ o.verdict[u] = "declined"
      <4> HIDE DEF retried, o
      <4>1. retried \in [Requests -> Leg]
        BY <1>0, AllRetriedTInv DEF retried
      <4> QED
        BY <2>1, <2>4, <4>1
    <3>2. use[q] \in Uses /\ step \in 0 .. MaxSteps /\ (q \in raising) \in BOOLEAN
      BY <1>3 DEF RequestFinished, TInv, TypeOK, LiveHasUse
    <3> HIDE DEF retried
    <3>3. \E v \in Verdict \ {"none"} :
            /\ o.verdict = [retried[q].verdict EXCEPT ![use[q]] = v]
            /\ v = "declined" => RetrySteps <= 0
      <4>1. OfferedOK(o, retried[q], q)
        BY <2>2, <3>2, OfferedLeg
      <4> HIDE DEF o
      <4> QED
        BY <4>1 DEF OfferedOK
    <3> HIDE DEF o
    <3>4. retried[q].verdict \in [Uses -> Verdict]
      BY <2>2 DEF Leg
    <3>5. RetrySteps <= 0
      BY <2>4, <3>1, <3>3, <3>4
    <3> QED
      BY <1>0, <2>1, <3>5, RetryAssumption
  <2> QED
    BY <2>3, <2>4
<1>4. ASSUME NEW rows \in SUBSET Requests, NEW raising \in SUBSET Requests,
             BuildBegin(rows, raising)
      PROVE  step' - leg[r].since >= RetrySteps
  <2>1. PICK now \in Int : now = step'
    BY <1>0, <1>4 DEF BuildBegin
  <2>2. leg' = [p \in Requests |-> Retried(p, now, FALSE, raising)]
    BY <1>4, <2>1 DEF BuildBegin
  <2>3. Retried(r, now, FALSE, raising).verdict[u] = "declined"
    BY <2>2
  <2>4. now - leg[r].since >= RetrySteps
    BY <2>3, RetryDeclines
  <2> QED
    BY <2>1, <2>4
<1>5. ASSUME NEW raising \in SUBSET Requests, Shutdown(raising)
      PROVE  pc' = "down"
  BY <1>5 DEF Shutdown
<1>6. ASSUME NEW q \in Requests,
             \/ Preempt(q) \/ LoadMidPrefill(q) \/ Publish(q) \/ Lose(q)
             \/ Row(q) \/ \E load \in BOOLEAN : UpdateStateAfterAlloc(q, load)
      PROVE  UNCHANGED leg
  BY <1>6 DEF Preempt, LoadMidPrefill, Publish, Lose, UpdateStateAfterAlloc,
              Row, AdmitShort, AdmitSkipped, AdmitCaptured, ContinueClosed,
              ContinueServed, ContinueAtDecode, ContinuePrefill, RowDone
<1>7. ASSUME BuildEnd PROVE UNCHANGED leg
  BY <1>7 DEF BuildEnd
<1>8. CASE UNCHANGED vars
  BY <1>1, <1>8 DEF vars
<1> QED
  BY <1>1, <1>2, <1>3, <1>4, <1>5, <1>6, <1>7, <1>8
     DEF Next, Engine, Build, Teardown, Worker

\* While the engine runs, a held donor is declined only once the worker has had
\* its whole budget of scheduler steps, however many requests finish meanwhile
\* (_retry_deferred_registrations).
THEOREM BudgetCorrect == Spec => DeclinedAfterBudget
<1>1. TInv /\ [Next]_vars =>
        [\A r \in Requests, u \in Uses :
           leg[r].verdict[u] = "held" /\ leg'[r].verdict[u] = "declined"
             => pc' = "down" \/ step' - leg[r].since >= RetrySteps]_vars
  BY StepDeclinedAfterBudget
<1> QED
  BY <1>1, AlwaysTInv, PTL DEF Spec, DeclinedAfterBudget

\* No step leaves a donor held past its budget.
LEMMA NextHeld ==
  ASSUME TInv, HeldWithinBudget, [Next]_vars
  PROVE  HeldWithinBudget'
<1>0. /\ leg \in [Requests -> Leg] /\ step \in Int /\ RetrySteps \in Int
      /\ step \in 0 .. MaxSteps
      /\ \A q \in Requests : leg[q].since \in Int
  BY SizeAssumption, RetryAssumption DEF TInv, TypeOK, Leg
<1>1. CASE UNCHANGED <<leg, step>>
  BY <1>1 DEF HeldWithinBudget
<1>2. ASSUME NEW q \in Requests, Arrive(q) PROVE HeldWithinBudget'
  <2>1. use[q] + 1 \in Uses
    BY <1>2, SizeAssumption DEF Arrive, Uses, TInv, TypeOK
  <2> DEFINE a == AuditRow(leg[q], use[q] + 1)
  <2>2. a.held = leg[q].held /\ a.since = leg[q].since
    BY <1>0, <2>1, AuditRowLeg
  <2>3. leg' = [leg EXCEPT ![q] = a] /\ UNCHANGED step
    BY <1>2 DEF Arrive, build
  <2> HIDE DEF a
  <2> QED
    BY <1>0, <2>2, <2>3 DEF HeldWithinBudget
<1>3. ASSUME NEW q \in Requests, NEW short \in BOOLEAN,
             NEW raising \in SUBSET Requests,
             RequestFinished(q, short, raising)
      PROVE  HeldWithinBudget'
  <2> DEFINE retried == [p \in Requests |-> Retried(p, step, FALSE, raising)]
             o == ForgetJoinKey(Offered(retried[q], q, short, q \in raising))
  <2>1. leg' = [retried EXCEPT ![q] = o] /\ UNCHANGED step
    BY <1>3 DEF RequestFinished, build
  <2>2. \A p \in Requests : RetriedOK(retried[p], p, step, FALSE)
    BY <1>0, RetriedLeg
  <2> HIDE DEF retried
  <2>3. \A p \in Requests : /\ retried[p] \in Leg
                            /\ retried[p].held # 0
                                 => step - retried[p].since < RetrySteps
    BY <2>2 DEF RetriedOK
  <2>4. use[q] \in Uses /\ (q \in raising) \in BOOLEAN
    BY <1>3 DEF RequestFinished, TInv, LiveHasUse
  <2>5. OfferedOK(o, retried[q], q)
    BY <1>0, <2>3, <2>4, OfferedLeg
  <2> HIDE DEF o
  <2>6. o.held # 0 => step - o.since < RetrySteps
    BY <1>0, <2>3, <2>5 DEF OfferedOK
  <2>7. \A p \in Requests : leg'[p] = IF p = q THEN o ELSE retried[p]
    BY <2>1 DEF retried
  <2> QED
    BY <2>1, <2>3, <2>6, <2>7 DEF HeldWithinBudget
<1>4. ASSUME NEW rows \in SUBSET Requests, NEW raising \in SUBSET Requests,
             BuildBegin(rows, raising)
      PROVE  HeldWithinBudget'
  <2>1. PICK now \in Int : now = step'
    BY <1>0, <1>4 DEF BuildBegin
  <2>2. leg' = [p \in Requests |-> Retried(p, now, FALSE, raising)]
    BY <1>4, <2>1 DEF BuildBegin
  <2>3. \A p \in Requests : RetriedOK(leg'[p], p, now, FALSE)
    BY <1>0, <2>2, RetriedLeg
  <2> QED
    BY <2>1, <2>3 DEF RetriedOK, HeldWithinBudget
<1>5. ASSUME NEW raising \in SUBSET Requests, Shutdown(raising)
      PROVE  HeldWithinBudget'
  <2>1. leg' = [p \in Requests |-> Retried(p, step, TRUE, raising)]
    BY <1>5 DEF Shutdown
  <2>2. \A p \in Requests : RetriedOK(leg'[p], p, step, TRUE)
    BY <1>0, <2>1, RetriedLeg
  <2> QED
    BY <2>2 DEF RetriedOK, HeldWithinBudget
<1>6. ASSUME NEW q \in Requests,
             \/ Preempt(q) \/ LoadMidPrefill(q) \/ Publish(q) \/ Lose(q)
             \/ Row(q) \/ \E load \in BOOLEAN : UpdateStateAfterAlloc(q, load)
      PROVE  UNCHANGED <<leg, step>>
  BY <1>6 DEF Preempt, LoadMidPrefill, Publish, Lose, UpdateStateAfterAlloc,
              Row, AdmitShort, AdmitSkipped, AdmitCaptured, ContinueClosed,
              ContinueServed, ContinueAtDecode, ContinuePrefill, RowDone, build
<1>7. ASSUME BuildEnd PROVE UNCHANGED <<leg, step>>
  BY <1>7 DEF BuildEnd
<1>8. CASE UNCHANGED vars
  BY <1>1, <1>8 DEF vars, build
<1> QED
  BY <1>1, <1>2, <1>3, <1>4, <1>5, <1>6, <1>7, <1>8
     DEF Next, Engine, Build, Teardown, Worker

\* No donor is held longer than its budget of scheduler steps
\* (_defer_donor_registration, _retry_deferred_registrations).
THEOREM HeldCorrect == Spec => []HeldWithinBudget
<1>1. Init => HeldWithinBudget
  BY DEF Init, HeldWithinBudget, NoLeg
<1>2. TInv /\ HeldWithinBudget /\ [Next]_vars => HeldWithinBudget'
  BY NextHeld
<1> QED
  BY <1>1, <1>2, AlwaysTInv, PTL DEF Spec

-----------------------------------------------------------------------------
(***************************************************************************)
(* The ordering invariant and the finish rows, where request ids are not   *)
(* reused. (With reuse both fail.)                                         *)
(***************************************************************************)

\* A use that has not finished has no verdict and is not held.
UnfinishedOpen(r) ==
  phase[r] # "none" \/ use[r] = 0
    => leg[r].held = 0 /\ \A u \in Uses : leg[r].verdict[u] = "none"

\* One that has finished has a verdict, and the slot if it is held.
FinishedClosed(r) ==
  /\ phase[r] = "none" /\ use[r] > 0 =>
       \A u \in Uses : leg[r].verdict[u] # "none"
  /\ \A u \in Uses :
       leg[r].verdict[u] = "held" => leg[r].held = u /\ pc # "down"

\* What the worker was sent is a capture this role remembers until the finish.
SentIsOpened(r) ==
  /\ sent[r].gen > 0 /\ phase[r] # "none" => cap[r].opened > 0
  /\ cap[r].opened > 0 => phase[r] # "none"
  /\ sent[r].gen > 0 => use[r] > 0

\* Something sent, or a record, is of some use.
DonorHasUse(r) ==
  /\ sent[r].gen = 0 => sent[r] = NoDonor
  /\ record[r].gen = 0 => record[r] = NoDonor

\* RegisteredAfterRecord, for one id.
IndexBacked(r) ==
  \A u \in Uses :
    leg[r].verdict[u] = "registered" /\ sent[r].gen = u => record[r].gen = u

NInv ==
  \A r \in Requests :
    UnfinishedOpen(r) /\ FinishedClosed(r) /\ SentIsOpened(r)
      /\ DonorHasUse(r) /\ IndexBacked(r)

\* Without reuse a use that is not 0 is the first.
LEMMA OneUse ==
  ASSUME MaxUses <= 1
  PROVE  /\ \A u \in Uses : u = 1
         /\ \A u \in 0 .. MaxUses : u = 0 \/ (u = 1 /\ u \in Uses)
  BY SizeAssumption DEF Uses

\* The initial state satisfies the invariant.
LEMMA InitNInv == Init => NInv
  BY SizeAssumption
     DEF Init, NInv, UnfinishedOpen, FinishedClosed, SentIsOpened, DonorHasUse,
         IndexBacked, NoLeg, NoCapture, NoDonor, Uses

\* A retry keeps what the invariant says of the legs.
LEMMA RetryNInv ==
  ASSUME MaxUses <= 1, TInv, NInv, NEW r \in Requests, NEW n, NEW now \in Int,
         NEW final \in BOOLEAN, RetriedOK(n, r, now, final)
  PROVE  /\ phase[r] # "none" \/ use[r] = 0
              => n.held = 0 /\ \A u \in Uses : n.verdict[u] = "none"
         /\ phase[r] = "none" /\ use[r] > 0 =>
              \A u \in Uses : n.verdict[u] # "none"
         /\ \A u \in Uses : n.verdict[u] = "held" => n.held = u /\ ~final
         /\ \A u \in Uses :
              n.verdict[u] = "registered" /\ sent[r].gen = u
                => record[r].gen = u
<1>1. /\ leg[r] \in Leg /\ leg[r].verdict \in [Uses -> Verdict]
      /\ record[r] \in Donor /\ record[r].gen \in 0 .. MaxUses
  BY DEF TInv, TypeOK, Leg, Donor
<1>2. /\ UnfinishedOpen(r) /\ FinishedClosed(r) /\ IndexBacked(r)
      /\ DonorHasUse(r)
  BY DEF NInv
<1>3. CASE n = leg[r]
  BY <1>2, <1>3, OneUse, SizeAssumption
     DEF RetriedOK, UnfinishedOpen, FinishedClosed, IndexBacked
<1>4. CASE n # leg[r]
  <2>1. PICK v \in {"registered", "failed", "declined"} :
          /\ n.verdict = [leg[r].verdict EXCEPT ![leg[r].held] = v]
          /\ v = "registered" => HasStoredDonor(r)
    BY <1>4 DEF RetriedOK
  <2>2. leg[r].held = 1 /\ 1 \in Uses
    BY <1>4, OneUse DEF RetriedOK
  <2>3. \A u \in Uses : u = 1 /\ n.verdict[u] = v
    BY <1>1, <2>1, <2>2, OneUse
  <2>4. phase[r] = "none" /\ use[r] # 0
    BY <1>2, <2>2 DEF UnfinishedOpen
  <2>5. v = "registered" => record[r].gen = 1
    BY <1>1, <1>2, <2>1, OneUse DEF HasStoredDonor, DonorHasUse
  <2> QED
    BY <2>3, <2>4, <2>5
<1> QED
  BY <1>3, <1>4

\* A capture that was announced stays announced as it is extended.
LEMMA AdvanceOpened ==
  ASSUME NEW c \in Capture, NEW end \in Lengths, c.end # Closed,
         c.opened > 0
  PROVE  AdvanceCapture(c, end).opened > 0
  BY SizeAssumption DEF AdvanceCapture, Capture, Lengths, Closed

\* A step that leaves the legs, the worker and the engine's phases alone keeps
\* the invariant if it forgets no announced capture and opens none for a
\* request that is not there.
LEMMA RowNInv ==
  ASSUME NInv, NEW r \in Requests, phase[r] # "none",
         cap \in [Requests -> Capture], NEW d,
         cap' = [cap EXCEPT ![r] = d], cap[r].opened > 0 => d.opened > 0,
         UNCHANGED <<phase, use, leg, pc, sent, record>>
  PROVE  NInv'
  BY DEF NInv, UnfinishedOpen, FinishedClosed, SentIsOpened, DonorHasUse,
         IndexBacked

\* Without reuse no step breaks the invariant.
LEMMA NextNInv ==
  ASSUME MaxUses <= 1
  PROVE  TInv /\ OInv /\ NInv /\ [Next]_vars => NInv'
<1> SUFFICES ASSUME TInv, OInv, NInv, [Next]_vars PROVE NInv'
  OBVIOUS
<1>0. /\ leg \in [Requests -> Leg] /\ cap \in [Requests -> Capture]
      /\ sent \in [Requests -> Donor] /\ record \in [Requests -> Donor]
      /\ use \in [Requests -> 0 .. MaxUses] /\ step \in Int
      /\ phase \in [Requests -> {"none", "waiting", "running", "preempted"}]
      /\ step \in 0 .. MaxSteps
  BY SizeAssumption DEF TInv, TypeOK
<1>1. ASSUME NEW r \in Requests, Arrive(r) PROVE NInv'
  <2>1. use[r] = 0 /\ 1 \in Uses
    BY <1>0, <1>1, SizeAssumption DEF Arrive, Uses
  <2> DEFINE a == AuditRow(leg[r], use[r] + 1)
  <2>2. a.held = leg[r].held /\ a.verdict = leg[r].verdict
    BY <1>0, <2>1, AuditRowLeg
  <2>3. /\ leg' = [leg EXCEPT ![r] = a] /\ use' = [use EXCEPT ![r] = @ + 1]
        /\ phase' = [phase EXCEPT ![r] = "waiting"]
        /\ UNCHANGED <<cap, pc, sent, record>>
    BY <1>1 DEF Arrive, build, worker
  <2> HIDE DEF a
  <2>4. \A q \in Requests : UnfinishedOpen(q)' /\ FinishedClosed(q)'
    BY <1>0, <2>1, <2>2, <2>3 DEF NInv, UnfinishedOpen, FinishedClosed
  <2>5. \A q \in Requests : SentIsOpened(q)'
    BY <1>0, <2>1, <2>3, OneUse DEF NInv, SentIsOpened, Donor
  <2>6. \A q \in Requests : DonorHasUse(q)' /\ IndexBacked(q)'
    BY <1>0, <2>2, <2>3 DEF NInv, DonorHasUse, IndexBacked
  <2> QED
    BY <2>4, <2>5, <2>6 DEF NInv
<1>2. ASSUME NEW r \in Requests, Preempt(r) PROVE NInv'
  BY <1>0, <1>2 DEF Preempt, build, worker, NInv, UnfinishedOpen,
                    FinishedClosed, SentIsOpened, DonorHasUse, IndexBacked
<1>3. ASSUME NEW r \in Requests,
             \/ \E load \in BOOLEAN : UpdateStateAfterAlloc(r, load)
             \/ LoadMidPrefill(r)
      PROVE  NInv'
  <2>1. CASE LoadMidPrefill(r)
    BY <1>0, <2>1 DEF LoadMidPrefill, worker, NInv, UnfinishedOpen,
                      FinishedClosed, SentIsOpened, DonorHasUse, IndexBacked
  <2>2. ASSUME NEW load \in BOOLEAN, UpdateStateAfterAlloc(r, load)
        PROVE  NInv'
    BY <1>0, <2>2 DEF UpdateStateAfterAlloc, build, worker, NInv,
                      UnfinishedOpen, FinishedClosed, SentIsOpened,
                      DonorHasUse, IndexBacked
  <2> QED
    BY <1>3, <2>1, <2>2
<1>4. ASSUME NEW r \in Requests, NEW short \in BOOLEAN,
             NEW raising \in SUBSET Requests,
             RequestFinished(r, short, raising)
      PROVE  NInv'
  <2> DEFINE retried == [q \in Requests |-> Retried(q, step, FALSE, raising)]
             o == ForgetJoinKey(Offered(retried[r], r, short, r \in raising))
  <2>1. /\ leg' = [retried EXCEPT ![r] = o]
        /\ cap' = [cap EXCEPT ![r] = NoCapture]
        /\ phase' = [phase EXCEPT ![r] = "none"]
        /\ UNCHANGED <<use, pc, sent, record>> /\ pc = "idle"
        /\ phase[r] # "none"
    BY <1>4 DEF RequestFinished, build, worker, Scheduling
  <2>2. \A q \in Requests : RetriedOK(retried[q], q, step, FALSE)
    BY <1>0, RetriedLeg
  <2>3. use[r] \in Uses /\ use[r] = 1
    BY <2>1, OneUse DEF TInv, LiveHasUse
  <2> HIDE DEF retried
  <2>4. retried[r] \in Leg /\ (r \in raising) \in BOOLEAN
    <3>1. (r \in raising) \in BOOLEAN
      OBVIOUS
    <3>2. RetriedOK(retried[r], r, step, FALSE)
      BY <2>2
    <3> QED
      BY <3>1, <3>2 DEF RetriedOK
  <2>5. OfferedOK(o, retried[r], r)
    BY <1>0, <2>3, <2>4, OfferedLeg
  <2> HIDE DEF o
  <2>6. \A q \in Requests :
          /\ phase[q] # "none" \/ use[q] = 0 =>
               retried[q].held = 0 /\ \A u \in Uses : retried[q].verdict[u] = "none"
          /\ phase[q] = "none" /\ use[q] > 0 =>
               \A u \in Uses : retried[q].verdict[u] # "none"
          /\ \A u \in Uses :
               retried[q].verdict[u] = "held" => retried[q].held = u
          /\ \A u \in Uses :
               retried[q].verdict[u] = "registered" /\ sent[q].gen = u
                 => record[q].gen = u
    <3> TAKE q \in Requests
    <3>1. PICK n : n = retried[q]
      OBVIOUS
    <3>2. PICK final \in BOOLEAN : final = FALSE
      OBVIOUS
    <3>3. RetriedOK(n, q, step, final)
      BY <2>2, <3>1, <3>2
    <3> QED
      BY <1>0, <3>1, <3>3, RetryNInv
  <2>7. PICK v \in Verdict \ {"none"} :
          /\ \A u \in Uses : o.verdict[u] = v
          /\ v = "held" => o.held = 1
          /\ v = "registered" /\ cap[r].opened > 0 => HasStoredDonor(r)
    BY <2>3, <2>4, <2>5, OneUse DEF OfferedOK, Leg
  <2>8. retried \in [Requests -> Leg] /\ DOMAIN retried = Requests
    BY <2>2 DEF RetriedOK, retried
  <2>9. \A q \in Requests : leg'[q] = IF q = r THEN o ELSE retried[q]
    BY <2>1, <2>8
  <2>10. \A q \in Requests : UnfinishedOpen(q)' /\ FinishedClosed(q)'
    BY <1>0, <2>1, <2>3, <2>6, <2>7, <2>9, OneUse
       DEF UnfinishedOpen, FinishedClosed
  <2>11. \A q \in Requests : SentIsOpened(q)' /\ DonorHasUse(q)'
    BY <1>0, <2>1 DEF NInv, SentIsOpened, DonorHasUse, NoCapture
  <2>12. ASSUME NEW u \in Uses, v = "registered", sent[r].gen = u
         PROVE  record[r].gen = u
    <3>1. HasStoredDonor(r)
      BY <2>1, <2>7, <2>12, OneUse DEF NInv, SentIsOpened
    <3>2. record[r].gen \in 0 .. MaxUses /\ record[r].gen # 0
      BY <1>0, <3>1 DEF HasStoredDonor, NInv, DonorHasUse, Donor
    <3> QED
      BY <3>2, OneUse
  <2>13. \A q \in Requests : IndexBacked(q)'
    BY <2>1, <2>6, <2>7, <2>9, <2>12 DEF IndexBacked
  <2> QED
    BY <2>10, <2>11, <2>13 DEF NInv
<1>5. ASSUME NEW final \in BOOLEAN, NEW now \in Int,
             NEW raising \in SUBSET Requests,
             leg' = [q \in Requests |-> Retried(q, now, final, raising)],
             UNCHANGED <<use, phase, cap, sent, record>>,
             pc' = "down" => final
      PROVE  NInv'
  <2>1. \A q \in Requests : RetriedOK(leg'[q], q, now, final)
    BY <1>0, <1>5, RetriedLeg
  <2>2. \A q \in Requests :
          /\ phase[q] # "none" \/ use[q] = 0 =>
               leg'[q].held = 0 /\ \A u \in Uses : leg'[q].verdict[u] = "none"
          /\ phase[q] = "none" /\ use[q] > 0 =>
               \A u \in Uses : leg'[q].verdict[u] # "none"
          /\ \A u \in Uses :
               leg'[q].verdict[u] = "held" => leg'[q].held = u /\ ~final
          /\ \A u \in Uses :
               leg'[q].verdict[u] = "registered" /\ sent[q].gen = u
                 => record[q].gen = u
    <3> TAKE q \in Requests
    <3>1. PICK n : n = leg'[q]
      OBVIOUS
    <3>2. RetriedOK(n, q, now, final)
      BY <2>1, <3>1
    <3> QED
      BY <3>1, <3>2, RetryNInv
  <2> QED
    BY <1>5, <2>2 DEF NInv, UnfinishedOpen, FinishedClosed, SentIsOpened,
                      DonorHasUse, IndexBacked
<1>6. ASSUME NEW rows \in SUBSET Requests, NEW raising \in SUBSET Requests,
             BuildBegin(rows, raising)
      PROVE  NInv'
  <2>1. PICK now \in Int : now = step'
    BY <1>0, <1>6 DEF BuildBegin
  <2> QED
    BY <1>5, <1>6, <2>1 DEF BuildBegin, worker
<1>7. ASSUME NEW raising \in SUBSET Requests, Shutdown(raising) PROVE NInv'
  BY <1>0, <1>5, <1>7 DEF Shutdown, engine, worker
<1>8. ASSUME NEW r \in Requests, Row(r) PROVE NInv'
  <2>1. r \in due /\ phase[r] # "none"
    BY <1>8 DEF Row, AdmitShort, AdmitSkipped, AdmitCaptured, ContinueClosed,
                ContinueServed, ContinueAtDecode, ContinuePrefill, Continues,
                TInv, RowsRun
  <2>2. UNCHANGED <<phase, use, leg, pc, sent, record>>
    BY <1>8 DEF Row, AdmitShort, AdmitSkipped, AdmitCaptured, ContinueClosed,
                ContinueServed, ContinueAtDecode, ContinuePrefill, RowDone,
                worker
  <2>3. \E d : cap' = [cap EXCEPT ![r] = d] /\ (cap[r].opened > 0 => d.opened > 0)
    <3>1. cap[r] \in Capture
      BY <1>0
    <3>2. CASE AdmitShort(r) \/ AdmitSkipped(r)
      <4>1. \A why : NoteSkipped(cap[r], why).opened = cap[r].opened
        BY <3>1 DEF NoteSkipped, Capture
      <4> QED
        BY <3>2, <4>1 DEF AdmitShort, AdmitSkipped
    <3>3. ASSUME NEW end \in Lengths, AdmitCaptured(r, end)
          PROVE  \E d : /\ cap' = [cap EXCEPT ![r] = d]
                        /\ cap[r].opened > 0 => d.opened > 0
      <4> DEFINE c == [cap[r] EXCEPT !.end = 0]
      <4>1. c \in Capture /\ c.end # Closed /\ c.opened = cap[r].opened
        BY <3>1, SizeAssumption DEF Capture, Lengths, Closed
      <4>2. cap' = [cap EXCEPT ![r] = AdvanceCapture(c, end)]
        BY <3>3 DEF AdmitCaptured
      <4> HIDE DEF c
      <4> QED
        BY <4>1, <4>2, AdvanceOpened
    <3>4. ASSUME NEW dec \in BOOLEAN, ContinueClosed(r, dec)
          PROVE  cap' = [cap EXCEPT ![r] = cap[r]]
      BY <1>0, <3>4 DEF ContinueClosed
    <3>5. CASE ContinueServed(r)
      <4> DEFINE d == [NoteSkipped(cap[r], "served") EXCEPT !.end = Closed]
      <4>1. d.opened = cap[r].opened
        BY <3>1 DEF NoteSkipped, Capture
      <4>2. cap' = [cap EXCEPT ![r] = d]
        BY <3>5 DEF ContinueServed
      <4> HIDE DEF d
      <4> QED
        BY <4>1, <4>2
    <3>6. CASE ContinueAtDecode(r)
      <4> DEFINE d == [cap[r] EXCEPT !.end = Closed]
      <4>1. d.opened = cap[r].opened
        BY <3>1 DEF Capture
      <4>2. cap' = [cap EXCEPT ![r] = d]
        BY <3>6 DEF ContinueAtDecode
      <4> HIDE DEF d
      <4> QED
        BY <4>1, <4>2
    <3>7. ASSUME NEW end \in Lengths, ContinuePrefill(r, end)
          PROVE  \E d : /\ cap' = [cap EXCEPT ![r] = d]
                        /\ cap[r].opened > 0 => d.opened > 0
      BY <3>1, <3>7, AdvanceOpened DEF ContinuePrefill
    <3> QED
      BY <1>8, <3>2, <3>3, <3>4, <3>5, <3>6, <3>7 DEF Row
  <2> QED
    BY <1>0, <2>1, <2>2, <2>3, RowNInv
<1>9. ASSUME BuildEnd PROVE NInv'
  <2>1. /\ sent' = [r \in Requests |->
                      IF cap[r].opened > 0
                        THEN [gen |-> use[r], len |-> cap[r].opened]
                        ELSE sent[r]]
        /\ UNCHANGED <<use, phase, cap, leg, record>> /\ pc' = "idle"
    BY <1>9 DEF BuildEnd
  <2>2. \A r \in Requests : cap[r].opened > 0 =>
          phase[r] # "none" /\ use[r] = 1 /\ use[r] \in Uses
    BY OneUse DEF NInv, SentIsOpened, TInv, LiveHasUse
  <2>3. \A r \in Requests :
          sent'[r].gen = IF cap[r].opened > 0 THEN 1 ELSE sent[r].gen
    BY <2>1, <2>2
  <2>4. \A r \in Requests : UnfinishedOpen(r)' /\ FinishedClosed(r)'
    BY <2>1 DEF NInv, UnfinishedOpen, FinishedClosed
  <2>5. \A r \in Requests : SentIsOpened(r)'
    BY <2>1, <2>2, <2>3 DEF NInv, SentIsOpened
  <2>6. \A r \in Requests : DonorHasUse(r)'
    BY <2>1, <2>2, <2>3 DEF NInv, DonorHasUse
  <2>7. \A r \in Requests : IndexBacked(r)'
    BY <2>1, <2>2, <2>3 DEF NInv, IndexBacked, UnfinishedOpen
  <2> QED
    BY <2>4, <2>5, <2>6, <2>7 DEF NInv
<1>10. ASSUME NEW r \in Requests, Publish(r) \/ Lose(r) PROVE NInv'
  <2>1. /\ UNCHANGED <<use, phase, cap, leg, sent, pc>>
        /\ UNCHANGED record \/ record' = [record EXCEPT ![r] = sent[r]]
    BY <1>10 DEF Publish, Lose, engine, build
  <2> QED
    BY <1>0, <2>1 DEF NInv, UnfinishedOpen, FinishedClosed, SentIsOpened,
                      DonorHasUse, IndexBacked
<1>11. ASSUME UNCHANGED vars PROVE NInv'
  BY <1>11 DEF vars, engine, build, worker, NInv, UnfinishedOpen,
               FinishedClosed, SentIsOpened, DonorHasUse, IndexBacked
<1> QED
  BY <1>1, <1>2, <1>3, <1>4, <1>6, <1>7, <1>8, <1>9, <1>10, <1>11
     DEF Next, Engine, Build, Teardown, Worker

\* Without reuse the invariant holds in every reachable state.
LEMMA AlwaysNInv ==
  ASSUME MaxUses <= 1
  PROVE  Spec => []NInv
<1>1. TInv /\ OInv /\ NInv /\ [Next]_vars => NInv'
  BY NextNInv
<1> QED
  BY <1>1, InitNInv, AlwaysTInv, AlwaysOInv, PTL DEF Spec

\* The ordering invariant: where request ids are not reused, a request whose
\* capture was announced is in the provider's index only once its own record is
\* on the store (_register_donor_on_finish, _retry_deferred_registrations).
THEOREM OrderingCorrect ==
  ASSUME MaxUses <= 1
  PROVE  Spec => []RegisteredAfterRecord
<1>1. NInv => RegisteredAfterRecord
  BY DEF NInv, IndexBacked, RegisteredAfterRecord
<1> QED
  BY <1>1, AlwaysNInv, PTL

\* Where request ids are not reused, every use that has finished has its finish
\* row or is still held to have it, and teardown leaves none held
\* (_register_donor_on_finish, shutdown).
THEOREM FinishCorrect ==
  ASSUME MaxUses <= 1
  PROVE  Spec => []FinishAnswered
<1>1. TInv /\ NInv => FinishAnswered
  <2> SUFFICES ASSUME TInv, NInv, NEW r \in Requests, NEW u \in Uses
               PROVE  /\ u < use[r] + (IF phase[r] = "none" THEN 1 ELSE 0)
                            => leg[r].verdict[u] # "none"
                      /\ leg[r].verdict[u] = "held"
                            => leg[r].held = u /\ pc # "down"
    BY DEF FinishAnswered
  <2>1. use[r] = 0 \/ use[r] = 1
    BY OneUse DEF TInv, TypeOK
  <2>2. u = 1
    BY OneUse
  <2> QED
    BY <2>1, <2>2 DEF NInv, FinishedClosed
<1> QED
  BY <1>1, AlwaysTInv, AlwaysNInv, PTL

=============================================================================
