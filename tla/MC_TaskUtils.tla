---------------------------- MODULE MC_TaskUtils ----------------------------
(* TaskUtils alone: a caller enters any helper for one row of every table  *)
(* while every table's commits may fail.                                   *)
EXTENDS TaskUtils

\* One row per table.
MCRows == {<<t, "r1">> : t \in Tables}

\* Rows held by a flow in progress; the amphora_health record marked busy.
MCInitialDb ==
  [r \in MCRows |-> IF r[1] = "amphora_health" THEN "BUSY" ELSE "PENDING_UPDATE"]
=============================================================================
