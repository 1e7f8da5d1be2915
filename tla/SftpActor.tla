----------------------------- MODULE SftpActor -----------------------------
(***************************************************************************)
(* The transfer records of SftpSessionActor                                *)
(* (src-tauri/src/sftp_session_service.rs): what each operation of the     *)
(* actor makes of one record.  The service calls them under the lock of    *)
(* its records; an operation the actor refuses leaves the record alone.    *)
(*                                                                         *)
(* Bytes are abstracted to `moved': some of them have been acknowledged.   *)
(* A revision number is abstracted to who still holds the current one:     *)
(* `seen' (a cleanup retry on its way) and `kept' (an exit authorization). *)
(* Of failure_code the record keeps `dirty': it is CleanupIncomplete.      *)
(***************************************************************************)
EXTENDS Naturals

(* Verifying is entered and left under one lock: nobody sees it. *)
States == {"Absent", "Queued", "Preparing", "Transferring", "Committing",
           "Completed", "Paused", "Cancelling", "Cancelled", "Failed"}

Terminal == {"Completed", "Cancelled", "Failed"}

(* TransferFailureCode.  "Refused" stands for TargetExists,                 *)
(* UnsafeReplaceUnsupported, PermissionDenied, the path encoding and the    *)
(* length of a download's source, which end a task the same way;            *)
(* "InvalidState" for the Protocol that            *)
(* map_transfer_runtime_failure makes of a refusal of the actor.            *)
Codes == {"None", "TransportLost", "Protocol", "InvalidState", "Uncertain",
          "CleanupIncomplete", "LengthMismatch", "Refused"}

Outcomes == {"NotCommitted", "Committed", "Uncertain"}

Cleanups == {"Cleaned", "Residual"}

RecordsOf(Generations) ==
    [state : States, gen : Generations, temp : BOOLEAN, moved : BOOLEAN,
     residual : BOOLEAN, dirty : BOOLEAN, outcome : Outcomes,
     seen : BOOLEAN, kept : BOOLEAN]

NoRecord ==
    [state |-> "Absent", gen |-> 0, temp |-> FALSE, moved |-> FALSE,
     residual |-> FALSE, dirty |-> FALSE, outcome |-> "NotCommitted",
     seen |-> FALSE, kept |-> FALSE]

(* transfer_transition: the new revision is nobody's yet. *)
Transition(r, state, code) ==
    [r EXCEPT !.state = state, !.dirty = (code = "CleanupIncomplete"),
              !.seen = FALSE, !.kept = FALSE]

EnqueueTransfer(g) == Transition([NoRecord EXCEPT !.gen = g], "Queued", "None")

(* rebind_queued_transfer, then begin_transfer. *)
BeginTransfer(r, g) ==
    Transition([r EXCEPT !.gen = g], "Preparing", "None")

(* The temporary target is recorded before the conflict policy is asked. *)
TransferPrepared(r, conflict) ==
    Transition([r EXCEPT !.temp = TRUE],
               IF conflict THEN "Failed" ELSE "Transferring",
               IF conflict THEN "Refused" ELSE "None")

RecordProgress(r) == [r EXCEPT !.moved = TRUE, !.seen = FALSE, !.kept = FALSE]

(* begin_verification, then begin_commit. *)
BeginCommit(r, sameLength) ==
    IF sameLength THEN Transition(r, "Committing", "None")
                  ELSE Transition(r, "Failed", "LengthMismatch")

CompleteTransfer(r, sameLength) ==
    IF sameLength
      THEN Transition([r EXCEPT !.temp = FALSE, !.outcome = "Committed"],
                      "Completed", "None")
      ELSE Transition(r, "Failed", "LengthMismatch")

(* TransferRecord::cancellable of a desktop build: the commit is locked. *)
Cancellable(r) == r.state \in {"Queued", "Preparing", "Transferring", "Paused"}

BeginCancel(r) == Transition(r, "Cancelling", "None")

(* The outcome and the state a failure code leads to. *)
Failed(r, code) ==
    Transition([r EXCEPT !.outcome = IF code = "Uncertain" THEN "Uncertain"
                                                           ELSE "NotCommitted"],
               IF code = "TransportLost" THEN "Paused" ELSE "Failed", code)

(* Mutant: a failed transfer may fail once more. *)
FailAgain(r, code) ==
    IF r.state \in {"Completed", "Cancelled"} THEN r ELSE Failed(r, code)

FailTransfer(r, code) == IF r.state \in Terminal THEN r ELSE Failed(r, code)

FailTransferAfterCleanup(r, code, cleanup) ==
    IF r.state \in Terminal
      THEN r
      ELSE IF cleanup = "Cleaned"
             THEN Failed([r EXCEPT !.temp = FALSE, !.residual = FALSE], code)
             ELSE [Failed([r EXCEPT !.residual = TRUE], code)
                     EXCEPT !.state = "Failed", !.dirty = TRUE]

FinishCancel(r, cleanup) ==
    IF r.state # "Cancelling"
      THEN r
      ELSE IF cleanup = "Cleaned"
             THEN Transition([r EXCEPT !.temp = FALSE, !.residual = FALSE],
                             "Cancelled", "None")
             ELSE Transition([r EXCEPT !.residual = TRUE],
                             "Failed", "CleanupIncomplete")

Resolvable(r) ==
    /\ r.state = "Failed" /\ r.dirty /\ r.residual
    /\ r.outcome # "Uncertain"

ResolveCleanupResidual(r) ==
    IF Resolvable(r)
      THEN Transition([r EXCEPT !.temp = FALSE, !.residual = FALSE],
                      "Cancelled", "None")
      ELSE r

(* resume_verification_failed with a residual, and restart_transfer with    *)
(* one: the transfer stops where it is.                                     *)
RetainResidual(r) ==
    Transition([r EXCEPT !.residual = TRUE], "Failed", "CleanupIncomplete")

RestartTransfer(r, g, cleanup) ==
    IF cleanup = "Cleaned"
      THEN EnqueueTransfer(g)
      ELSE RetainResidual(r)

PauseActiveTransfer(r) ==
    CASE r.state \in {"Preparing", "Transferring"} ->
           Transition(r, "Paused", "TransportLost")
      [] r.state = "Committing" ->
           Transition([r EXCEPT !.outcome = "Uncertain"], "Failed", "Uncertain")
      [] r.state = "Cancelling" ->
           Transition([r EXCEPT !.residual = r.temp],
                      "Failed", "CleanupIncomplete")
      [] OTHER -> r
=============================================================================
