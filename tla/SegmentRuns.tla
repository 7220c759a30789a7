----------------------------- MODULE SegmentRuns -----------------------------
(***************************************************************************)
(* How the SemBlend provider turns the pipeline's position maps into       *)
(* segments (providers/semblend.py). A map pairs donor positions with      *)
(* prompt positions; the composite map draws on several donors, the plain  *)
(* one on a single donor. Pairs that advance together by one on both sides *)
(* become one segment. The composite map is used when it yields anything.  *)
(*                                                                         *)
(* Whether a donor holds the prompt's token at a pair is the field same:   *)
(* only the composite map is filtered by it. A map that is missing, or     *)
(* whose lists differ in length, is the empty map. Segments are a set:     *)
(* their order in the list only breaks ties that the model leaves open.    *)
(***************************************************************************)
EXTENDS SpanContract, Sequences

CONSTANT Lookups   \* the pairs of maps that find_donor may return

Pair == [donor : Donors, d : Nat, t : Nat, same : BOOLEAN]

ASSUME LookupAssumption ==
  /\ Donors # {}
  /\ \A l \in Lookups : \A kind \in {"composite", "plain"} :
       \A i \in DOMAIN l[kind] : l[kind][i] \in Pair

VARIABLES
  maps,      \* the lookup's position maps
  which,     \* the map in hand: composite, plain, or done
  todo,      \* the pairs of it that the loop has still to visit
  run,       \* the run being grown; a count of 0: none
  segments   \* the segments found so far

groupVars == <<maps, which, todo, run, segments>>

NoRun == [donor |-> CHOOSE d \in Donors : TRUE,
          dstart |-> 0, tstart |-> 0, count |-> 0]

\* identical: a composite pair counts only where the tokens are the same.
Kept(kind) ==
  {i \in DOMAIN maps[kind] : kind = "plain" \/ maps[kind][i].same}

\* The order of the loop: by prompt position when composite, else as listed.
Before(i, j) ==
  IF which = "composite" /\ maps[which][i].t # maps[which][j].t
  THEN maps[which][i].t < maps[which][j].t
  ELSE i < j

GroupInit ==
  /\ maps \in Lookups
  /\ which = "composite"
  /\ todo = Kept("composite")
  /\ run = NoRun
  /\ segments = {}

Started(p) == [donor |-> p.donor, dstart |-> p.d, tstart |-> p.t, count |-> 1]

\* Mutant: a run goes on over a jump on the donor's side.
TargetAdvances(p) == run.donor = p.donor /\ p.t = End(run)

\* The pair goes on where the run stops, on both sides and in one donor.
Continues(p) ==
  run.donor = p.donor /\ p.d = run.dstart + run.count /\ p.t = End(run)

Closed == IF run.count > 0 THEN segments \cup {run} ELSE segments

\* One round of the loop over the pairs.
GroupNext ==
  /\ which \in {"composite", "plain"}
  /\ \E i \in todo :
       LET p == maps[which][i] IN
       /\ \A j \in todo \ {i} : Before(i, j)
       /\ todo' = todo \ {i}
       /\ IF run.count > 0 /\ Continues(p)
          THEN run' = [run EXCEPT !.count = @ + 1] /\ UNCHANGED segments
          ELSE run' = Started(p) /\ segments' = Closed
  /\ UNCHANGED <<maps, which>>

\* The end of the loop. A composite map without segments gives way.
GroupEnd ==
  /\ which \in {"composite", "plain"}
  /\ todo = {}
  /\ segments' = Closed
  /\ run' = NoRun
  /\ IF which = "composite" /\ Closed = {}
     THEN which' = "plain" /\ todo' = Kept("plain")
     ELSE which' = "done" /\ UNCHANGED todo
  /\ UNCHANGED maps

-----------------------------------------------------------------------------

\* The map the segments were taken from.
Source == IF Kept("composite") # {} THEN "composite" ELSE "plain"

\* Segment s says that its donor holds the prompt's token x at position d.
Says(s, p) ==
  /\ s.donor = p.donor
  /\ s.tstart <= p.t /\ p.t < End(s)
  /\ p.d - s.dstart = p.t - s.tstart

\* What the segments say is what the pairs of the map in use say, no more
\* and no less: no pair is lost where a run ends, and no run reaches over a
\* change of donor or a jump on either side.
SegmentsExact ==
  which = "done" =>
    /\ \A i \in Kept(Source) : \E s \in segments : Says(s, maps[Source][i])
    /\ \A s \in segments : \A k \in 0 .. s.count - 1 :
         \E i \in Kept(Source) :
           /\ maps[Source][i].donor = s.donor
           /\ maps[Source][i].d = s.dstart + k
           /\ maps[Source][i].t = s.tstart + k
=============================================================================
