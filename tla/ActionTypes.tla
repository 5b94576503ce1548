---------------------------- MODULE ActionTypes ----------------------------
(* The vocabulary shared by the controller and its backends: action         *)
(* identifiers and the lifecycle statuses of src/raft_control/models.py.    *)
EXTENDS Naturals

CONSTANTS
    MaxActions,         \* bound: how many requests may be submitted in a behaviour
    Callers             \* threads that call the controller

ASSUME MaxActionsAssumption == MaxActions \in Nat \ {0}

\* uuid4().hex identifiers are fresh; they are numbered in order of submission.
Actions == 1 .. MaxActions

\* Python's None, for a reference to an action or to the thread it launched.
None == 0

\* ActionStatus; "none" is the status of an action that has no record yet.
Statuses == {"none", "validated", "queued", "started", "duration_elapsed",
             "completed", "replaced", "stopped", "failed", "rejected"}

\* The argument of the backend's on_done callback: None, "stopped", or the
\* text of an exception.
DoneReasons == {"completed", "stopped", "fault"}
=============================================================================
