----------------------------- MODULE MCLoadPath -----------------------------
(***************************************************************************)
(* The load path for TLC: donors share the prompt from its beginning on,   *)
(* or their own beginning with the prompt from its second block on.        *)
(***************************************************************************)
EXTENDS LoadPath

FromStart(d) == [donor |-> d, dstart |-> 0, tstart |-> 0, count |-> 5]
Shifted(d)   == [donor |-> d, dstart |-> 0, tstart |-> 2, count |-> 4]

MCAligns == {[d \in Donors |-> FromStart(d)], [d \in Donors |-> Shifted(d)]}

MCUses == [d \in Donors |-> 2]
=============================================================================
