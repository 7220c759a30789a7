------------------------------ MODULE JobLedger ------------------------------
(***************************************************************************)
(* What the capture writer promises the connector about write jobs,        *)
(* whatever its threads do: a job handed over is settled at most once,     *)
(* either written or handed back as failed; a job that was refused is      *)
(* never written; and the jobs that land do so in submission order.        *)
(* The module docstring of capture_writer.py ("Ordering is as much the     *)
(* point as the deferral") is the text behind it.                          *)
(***************************************************************************)
EXTENDS Naturals

CONSTANT Jobs   \* job numbers, in submission order

VARIABLE status

Init == status = [j \in Jobs |-> "new"]

\* submit returned: the writer owns the job.
Accept(j) ==
  /\ status[j] = "new"
  /\ status' = [status EXCEPT ![j] = "queued"]

\* submit raised: the caller still owns the job and records it as failed.
Refuse(j) ==
  /\ status[j] = "new"
  /\ status' = [status EXCEPT ![j] = "refused"]

\* The write landed. No later job has landed before it.
Land(j) ==
  /\ status[j] = "queued"
  /\ \A i \in Jobs : i > j => status[i] # "written"
  /\ status' = [status EXCEPT ![j] = "written"]

\* The write raised, or was abandoned by close; on_error was called for it.
Fail(j) ==
  /\ status[j] = "queued"
  /\ status' = [status EXCEPT ![j] = "failed"]

Next == \E j \in Jobs : Accept(j) \/ Refuse(j) \/ Land(j) \/ Fail(j)

Spec == Init /\ [][Next]_status
=============================================================================
