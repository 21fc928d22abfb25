---------------------------- MODULE MCAsyncTask ----------------------------
(* Instances of AsyncTaskManager for TLC. *)
EXTENDS AsyncTaskManager
=============================================================================
