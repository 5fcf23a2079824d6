----------------------------- MODULE RunStatus -----------------------------
(***************************************************************************)
(* The status of a persisted run (namespace run_status and RunRecord in    *)
(* jobs/IJobStore.hpp) and the two store statements that change it.        *)
(***************************************************************************)

Queued    == "queued"
Running   == "running"
Success   == "success"
Failed    == "failed"
Cancelled == "cancelled"

(* A run id that no row of the store has.                                  *)
NoRow == "none"

Live == {Queued, Running}

(* The final statuses a run can reach inside the process that owns it.     *)
(* (interrupted is written by the next process, skipped by the scheduler   *)
(* for a run that never enters the queue.)                                 *)
Verdicts == {Success, Failed, Cancelled}

RowStatus == Live \cup Verdicts \cup {NoRow}

IsTerminal(status) == status \notin Live \cup {NoRow}

(* update_run writes only rows that are still live: the WHERE clause keeps *)
(* a final status from being overwritten.  It reports whether it wrote.    *)
UpdateRun(rows, r, status) ==
  IF rows[r] \in Live THEN [rows EXCEPT ![r] = status] ELSE rows

UpdateRunReports(rows, r) == rows[r] \in Live

(* insert_run adds the row of a fresh id.                                  *)
InsertRun(rows, r, status) == [rows EXCEPT ![r] = status]
=============================================================================
