------------------------------- MODULE Callers -------------------------------
(***************************************************************************)
(* The threads that call QBasicMutex and QWaitCondition.                   *)
(***************************************************************************)
CONSTANTS Threads,
          NoThread   \* "nobody"

ASSUME NoThreadAssumption == NoThread \notin Threads
=============================================================================
