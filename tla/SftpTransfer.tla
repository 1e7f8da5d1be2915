---------------------------- MODULE SftpTransfer ----------------------------
(***************************************************************************)
(* The transfers of one SFTP session: SftpSessionService of                *)
(* src-tauri/src/sftp_session_service.rs.                                  *)
(*                                                                         *)
(* A transfer waits in the session's queue until start_next_queued_transfer*)
(* makes it the active one, lends it the session's only channel and spawns *)
(* run_transfer.  The task writes a temporary file, publishes it under the *)
(* target's name, and gives the channel back or closes the session.        *)
(* Meanwhile the user cancels, resumes and retries, the heartbeat reports  *)
(* the transport lost, the session is closed and opened again, and the     *)
(* application shuts down.  Each lock of `records' or `active_transfers'   *)
(* is a step, and so is each request to the server.                        *)
(*                                                                         *)
(* A session with its own transport, desktop build; every request of the   *)
(* user is one SftpView.vue offers in the state he sees.                   *)
(***************************************************************************)
EXTENDS SftpActor, Sequences, FiniteSets, SequencesExt

CONSTANTS
    Uploads,        \* transfers to the server
    Downloads,      \* transfers from the server
    MaxGeneration,  \* bound on the connections of the session
    MaxRestarts,    \* bound on the restarts of a transfer
    MaxCancels,     \* bound on the cancels of the user
    MaxShutdowns,   \* bound on the calls of shutdown_all
    None            \* no transfer; also the reopened session's start_next

Transfers == Uploads \cup Downloads
Generations == 0..MaxGeneration

ASSUME SftpAssumption ==
    /\ MaxGeneration \in Nat \ {0}
    /\ MaxRestarts \in Nat
    /\ MaxCancels \in Nat
    /\ MaxShutdowns \in Nat
    /\ Uploads \cap Downloads = {}
    /\ None \notin Transfers

VARIABLES
    sess,           \* summary().state as seen between two locks
    gen,            \* summary().generation
    live,           \* generation of record.live; 0 is None
    hb,             \* heartbeat_tasks: watching, failed, or None
    tr,             \* the actor's transfer records
    pending,        \* pending_transfers
    active,         \* active_transfer_id
    bound,          \* transfer_boundaries
    control,        \* active_transfers: transfers a control is registered for
    kick,           \* calls of start_next_queued_transfer to come
    looping,        \* ... and those in its loop, past the look at `paused'
    task,           \* run_transfer, from the pop to the release of the session
    tail,           \* run_transfer after it released the session
    canc,           \* calls of cancel_transfer
    retry,          \* calls of retry_remote_cleanup
    restarts,       \* restarts of each transfer so far
    cancels,        \* cancels so far
    tmp,            \* the temporary file exists
    pub,            \* the target was published by the transfer
    shut,           \* where shutdown_all is
    waitFor,        \* the controls it still waits for
    timedOut,       \* transfers it aborted
    paused,         \* transfer_scheduling_paused
    shutdowns       \* calls of shutdown_all so far

session == <<sess, gen, live, hb>>
queue == <<pending, active, kick, looping>>
files == <<tmp, pub>>
client == <<canc, retry, restarts, cancels>>
shutdown == <<shut, waitFor, timedOut, paused, shutdowns>>
vars == <<session, tr, queue, bound, control, task, tail, client, files,
          shutdown>>

PCs == {"idle", "popped", "begun", "prepare", "create", "copy", "commit",
        "linked", "complete", "cleanup", "settle", "return", "release"}

(* No task of the transfer is registered yet. *)
Unregistered == {"idle", "popped", "begun"}

(* Where execution may be interrupted. *)
Executing == {"prepare", "create", "copy", "commit", "linked", "complete"}

(* How a task ended: a failure code, or one of run_transfer's outcomes. *)
Ends == Codes \cup {"Cancelled", "Unresponsive", "Lost"}

NoTask == [pc |-> "idle", gen |-> 0, cancel |-> FALSE, deaf |-> FALSE,
           end |-> "None", clean |-> "Cleaned"]

NoCancel == [pc |-> "idle", gen |-> 0, temp |-> FALSE, clean |-> "Cleaned"]

TypeOK ==
    /\ sess \in {"Ready", "Failed", "Closed"}
    /\ gen \in Generations /\ live \in Generations
    /\ hb \in {"up", "lost", "gone"}
    /\ tr \in [Transfers -> RecordsOf(Generations)]
    /\ pending \in Seq(Transfers)
    /\ active \in Transfers \cup {None}
    /\ bound \subseteq Transfers /\ control \subseteq Transfers
    /\ kick \subseteq Transfers \cup {None}
    /\ looping \subseteq Transfers \cup {None}
    /\ task \in [Transfers -> [pc : PCs, gen : Generations, cancel : BOOLEAN,
                               deaf : BOOLEAN, end : Ends, clean : Cleanups]]
    /\ tail \in [Transfers -> {"none", "control", "finish"}]
    /\ canc \in [Transfers -> [pc : {"idle", "route", "finish"},
                               gen : Generations, temp : BOOLEAN,
                               clean : Cleanups]]
    /\ retry \in [Transfers -> {"none", "net", "resolve"}]
    /\ restarts \in [Transfers -> 0..MaxRestarts]
    /\ cancels \in 0..MaxCancels
    /\ tmp \in [Transfers -> BOOLEAN] /\ pub \in [Transfers -> BOOLEAN]
    /\ shut \in {"idle", "collect", "cancel", "wait", "report", "ok"}
    /\ waitFor \subseteq Transfers /\ timedOut \subseteq Transfers
    /\ paused \in BOOLEAN
    /\ shutdowns \in 0..MaxShutdowns

Init ==
    /\ sess = "Ready" /\ gen = 1 /\ live = 1 /\ hb = "up"
    /\ tr = [t \in Transfers |-> NoRecord]
    /\ pending = <<>> /\ active = None /\ kick = {} /\ looping = {}
    /\ bound = {} /\ control = {}
    /\ task = [t \in Transfers |-> NoTask]
    /\ tail = [t \in Transfers |-> "none"]
    /\ canc = [t \in Transfers |-> NoCancel]
    /\ retry = [t \in Transfers |-> "none"]
    /\ restarts = [t \in Transfers |-> 0]
    /\ cancels = 0
    /\ tmp = [t \in Transfers |-> FALSE]
    /\ pub = [t \in Transfers |-> FALSE]
    /\ shut = "idle" /\ waitFor = {} /\ timedOut = {}
    /\ paused = FALSE /\ shutdowns = 0

-----------------------------------------------------------------------------
(* The actor's records. *)

Put(t, r) == tr' = [tr EXCEPT ![t] = r]

(* transfer_mut: a fact of another generation changes nothing. *)
PutFenced(t, g, r) == Put(t, IF tr[t].gen = g THEN r ELSE tr[t])

PauseAll == [t \in Transfers |-> PauseActiveTransfer(tr[t])]

(* transport_lost, for a session that has not ended. *)
TransportLost ==
    IF sess \in {"Closed", "Failed"}
      THEN UNCHANGED <<sess, tr>>
      ELSE sess' = "Failed" /\ tr' = PauseAll

-----------------------------------------------------------------------------
(* The queue. *)

(* pending_transfers.retain: all but t, in their order. *)
Without(s, t) ==
    LET kept == {i \in DOMAIN s : s[i] # t}
        nth(n) == CHOOSE i \in kept : Cardinality({j \in kept : j <= i}) = n
    IN  [n \in 1..Cardinality(kept) |-> s[nth(n)]]

Enqueue(t) ==
    /\ tr[t].state = "Absent"
    /\ sess = "Ready" /\ hb # "lost"
    /\ Put(t, EnqueueTransfer(gen))
    /\ pending' = Append(pending, t)
    /\ bound' = bound \cup {t}
    /\ kick' = kick \cup {t}
    /\ UNCHANGED <<session, active, looping, control, task, tail, client, files,
                   shutdown>>

(* start_next_queued_transfer looks once whether scheduling is paused. *)
StartCall(c) ==
    /\ c \in kick
    /\ kick' = kick \ {c}
    /\ looping' = IF paused THEN looping ELSE looping \cup {c}
    /\ UNCHANGED <<session, tr, pending, active, bound, control, task, tail,
                   client, files, shutdown>>

(* There is something to start. *)
Admits == active = None /\ sess = "Ready" /\ pending # <<>>

StartPop(c) ==
    /\ c \in looping
    /\ looping' = looping \ {c}
    /\ IF Admits
         THEN LET t == Head(pending)
              IN  /\ pending' = Tail(pending)
                  /\ active' = t
                  /\ task' = [task EXCEPT ![t] = [NoTask EXCEPT !.pc = "popped"]]
         ELSE UNCHANGED <<pending, active, task>>
    /\ UNCHANGED <<session, tr, kick, bound, control, tail, client, files, shutdown>>

(* The second lock: everything is looked at again; a transfer that cannot   *)
(* start fails and the loop goes on.                                        *)
StartBegin(t) ==
    /\ task[t].pc = "popped"
    /\ IF t \in bound /\ live # 0 /\ sess = "Ready" /\ tr[t].state = "Queued"
         THEN /\ Put(t, BeginTransfer(tr[t], gen))
              /\ live' = 0
              /\ task' = [task EXCEPT ![t].pc = "begun", ![t].gen = gen]
              /\ UNCHANGED <<active, looping>>
         ELSE /\ PutFenced(t, IF t \in bound /\ live # 0 THEN gen ELSE tr[t].gen,
                           FailTransfer(tr[t], "Protocol"))
              /\ active' = None
              /\ task' = [task EXCEPT ![t] = NoTask]
              /\ looping' = looping \cup {t}
              /\ UNCHANGED live
    /\ UNCHANGED <<sess, gen, hb, pending, kick, bound, control, tail, client, files,
                   shutdown>>

(* The control is registered and the task spawned. *)
InsertControl(t) ==
    /\ task[t].pc = "begun"
    /\ control' = control \cup {t}
    /\ task' = [task EXCEPT ![t].pc = "prepare"]
    /\ UNCHANGED <<session, tr, queue, bound, tail, client, files, shutdown>>

-----------------------------------------------------------------------------
(* run_upload and run_download. *)

Goto(t, pc) == task' = [task EXCEPT ![t].pc = pc]

End(t, end) ==
    task' = [task EXCEPT ![t].end = end,
                         ![t].pc = IF end = "None" THEN "return" ELSE "cleanup"]

(* The actor takes the fact: right generation and right state. *)
Takes(t, state) == tr[t].gen = task[t].gen /\ tr[t].state = state

quiet == <<session, queue, bound, control, tail, client, shutdown>>

(* The server or the local disk refuses, breaks off or does not answer. *)
Break(t, ends) ==
    /\ \E e \in ends : End(t, e)
    /\ UNCHANGED tr

(* A temporary file left by an earlier attempt is removed first. *)
Prepare(t) ==
    /\ task[t].pc = "prepare"
    /\ \/ /\ tmp' = [tmp EXCEPT ![t] = FALSE]
          /\ IF Takes(t, "Preparing")
               THEN \E conflict \in BOOLEAN :
                      /\ Put(t, TransferPrepared(tr[t], conflict))
                      /\ IF conflict THEN End(t, "Refused") ELSE Goto(t, "create")
               ELSE End(t, "InvalidState") /\ UNCHANGED tr
       \/ /\ Break(t, {"TransportLost", "Protocol", "CleanupIncomplete", "Refused"})
          /\ UNCHANGED tmp
    /\ UNCHANGED <<quiet, pub>>

(* The file may exist although the reply was lost. *)
Create(t) ==
    /\ task[t].pc = "create"
    /\ \/ /\ tmp' = [tmp EXCEPT ![t] = TRUE]
          /\ Goto(t, "copy") /\ UNCHANGED tr
       \/ /\ \E made \in BOOLEAN : tmp' = [tmp EXCEPT ![t] = made]
          /\ Break(t, {"Protocol", "Refused"})
    /\ UNCHANGED <<quiet, pub>>

(* A chunk is written and counted; a refused count ends the task as a       *)
(* length mismatch.                                                         *)
CopyChunk(t) ==
    /\ task[t].pc = "copy"
    /\ \/ /\ Takes(t, "Transferring") /\ ~tr[t].moved
          /\ Put(t, RecordProgress(tr[t])) /\ UNCHANGED task
       \/ ~Takes(t, "Transferring") /\ End(t, "LengthMismatch") /\ UNCHANGED tr
       \/ Break(t, {"Protocol", "Refused"})
    /\ UNCHANGED <<quiet, files>>

(* begin_transfer_commit. *)
CopyDone(t) ==
    /\ task[t].pc = "copy"
    /\ IF Takes(t, "Transferring")
         THEN \E same \in BOOLEAN :
                /\ Put(t, BeginCommit(tr[t], same))
                /\ IF same THEN Goto(t, "commit") ELSE End(t, "LengthMismatch")
         ELSE End(t, "InvalidState") /\ UNCHANGED tr
    /\ UNCHANGED <<quiet, files>>

Publish(t, done, left) ==
    /\ pub' = [pub EXCEPT ![t] = pub[t] \/ done]
    /\ tmp' = [tmp EXCEPT ![t] = left]

(* posix_rename over an existing target, or hardlink to a new one.  A reply *)
(* that does not come leaves the target either way.                         *)
CommitUpload(t) ==
    /\ t \in Uploads /\ task[t].pc = "commit"
    /\ \/ Publish(t, TRUE, FALSE) /\ Goto(t, "complete")
       \/ Publish(t, TRUE, TRUE) /\ Goto(t, "linked")
       \/ UNCHANGED files /\ End(t, "Refused")
       \/ /\ \E done \in BOOLEAN : Publish(t, done, TRUE)
          /\ \E e \in {"Uncertain", "Protocol", "TransportLost"} : End(t, e)
       \/ Publish(t, TRUE, FALSE) /\ End(t, "Uncertain")
    /\ UNCHANGED <<quiet, tr>>

(* Mutant: the temporary name may stay. *)
UnlinkUnchecked(t) ==
    /\ task[t].pc = "linked"
    /\ \/ /\ \E left \in BOOLEAN : tmp' = [tmp EXCEPT ![t] = left]
          /\ Goto(t, "complete")
       \/ UNCHANGED tmp /\ End(t, "Protocol")
    /\ UNCHANGED <<quiet, tr, pub>>

(* After the hardlink: the length is read and the temporary name removed. *)
Unlink(t) ==
    /\ task[t].pc = "linked"
    /\ \/ tmp' = [tmp EXCEPT ![t] = FALSE] /\ Goto(t, "complete")
       \/ UNCHANGED tmp /\ End(t, "Protocol")
       \/ /\ \E left \in BOOLEAN : tmp' = [tmp EXCEPT ![t] = left]
          /\ End(t, "CleanupIncomplete")
    /\ UNCHANGED <<quiet, tr, pub>>

(* LocalBoundary::commit_download: what is checked after the rename may     *)
(* refuse too.                                                              *)
CommitDownload(t) ==
    /\ t \in Downloads /\ task[t].pc = "commit"
    /\ \/ Publish(t, TRUE, FALSE) /\ Goto(t, "complete")
       \/ UNCHANGED files /\ End(t, "Refused")
       \/ Publish(t, TRUE, FALSE) /\ End(t, "Refused")
       \/ Publish(t, TRUE, TRUE) /\ End(t, "CleanupIncomplete")
    /\ UNCHANGED <<quiet, tr>>

Complete(t) ==
    /\ task[t].pc = "complete"
    /\ IF Takes(t, "Committing")
         THEN \E same \in BOOLEAN :
                /\ Put(t, CompleteTransfer(tr[t], same))
                /\ End(t, IF same THEN "None" ELSE "LengthMismatch")
         ELSE End(t, "InvalidState") /\ UNCHANGED tr
    /\ UNCHANGED <<quiet, files>>

-----------------------------------------------------------------------------
(* run_transfer around the execution. *)

CommitStarted(t) == tr[t].state \in {"Committing", "Completed"}

(* The select: a task that has begun to commit is let finish, and hears     *)
(* nothing from then on.                                                    *)
Interrupt(t, end, pc) ==
    /\ task[t].pc \in Executing /\ ~task[t].deaf
    /\ task' = IF CommitStarted(t)
                 THEN [task EXCEPT ![t].deaf = TRUE]
                 ELSE [task EXCEPT ![t].end = end, ![t].pc = pc]
    /\ UNCHANGED <<quiet, tr, files>>

HearCancel(t) == task[t].cancel /\ Interrupt(t, "Cancelled", "cleanup")

(* A heartbeat owner that is dropped reads like one that failed. *)
HearLost(t) == hb # "up" /\ Interrupt(t, "Lost", "settle")

(* bounded_transfer_cleanup; a file may be gone although that was not       *)
(* confirmed.  After a cancel the channel is asked whether it still         *)
(* answers.                                                                 *)
CleanUp(t) ==
    /\ task[t].pc = "cleanup"
    /\ IF task[t].end = "TransportLost"
         THEN Goto(t, "settle") /\ UNCHANGED tmp
         ELSE \E c \in Cleanups, gone, silent \in BOOLEAN :
                /\ c = "Cleaned" => gone
                /\ silent => task[t].end = "Cancelled"
                /\ tmp' = [tmp EXCEPT ![t] = tmp[t] /\ ~gone]
                /\ task' = [task EXCEPT ![t].pc = "settle", ![t].clean = c,
                              ![t].end = IF silent THEN "Unresponsive" ELSE @]
    /\ UNCHANGED <<quiet, tr, pub>>

(* A cancel that reached the record before the failure is finished by it. *)
SettledError(r, e, c) ==
    IF r.state = "Cancelling"
      THEN FinishCancel(r, IF e \in {"CleanupIncomplete", "TransportLost"}
                             THEN "Residual" ELSE c)
      ELSE IF e = "TransportLost"
             THEN FailTransfer(r, e)
             ELSE FailTransferAfterCleanup(
                      r, IF e = "InvalidState" THEN "Protocol" ELSE e, c)

(* What the record makes of the task's end. *)
Settled(t) ==
    LET r == tr[t] c == task[t].clean e == task[t].end
    IN  CASE e \in {"Cancelled", "Unresponsive"} -> FinishCancel(r, c)
          [] e = "Lost" -> FailTransfer(r, "TransportLost")
          [] OTHER -> SettledError(r, e, c)

Settle(t) ==
    /\ task[t].pc = "settle"
    /\ PutFenced(t, task[t].gen, Settled(t))
    /\ task' = [task EXCEPT ![t].pc = "return", ![t].clean = "Cleaned",
                            ![t].cancel = FALSE, ![t].deaf = FALSE]
    /\ UNCHANGED <<quiet, files>>

(* Ends after which the channel is closed. *)
Closes(e) == e \in {"TransportLost", "Protocol", "InvalidState", "Uncertain",
                    "CleanupIncomplete", "Lost", "Unresponsive"}

(* Mutant: a task that failed drops the channel. *)
DropChannel(t) ==
    /\ task[t].pc = "return"
    /\ IF Closes(task[t].end)
         THEN /\ hb' = "gone"
              /\ IF gen = task[t].gen THEN TransportLost
                                      ELSE UNCHANGED <<sess, tr>>
              /\ UNCHANGED live
         ELSE /\ live' = IF task[t].end = "None" THEN task[t].gen ELSE live
              /\ UNCHANGED <<sess, hb, tr>>
    /\ Goto(t, "release")
    /\ UNCHANGED <<gen, queue, bound, control, tail, client, files, shutdown>>

ReturnChannel(t) ==
    /\ task[t].pc = "return"
    /\ IF Closes(task[t].end)
         THEN /\ hb' = "gone"
              /\ IF gen = task[t].gen THEN TransportLost
                                      ELSE UNCHANGED <<sess, tr>>
              /\ UNCHANGED live
         ELSE /\ live' = IF live = 0 /\ sess # "Closed" THEN task[t].gen ELSE live
              /\ UNCHANGED <<sess, hb, tr>>
    /\ Goto(t, "release")
    /\ UNCHANGED <<gen, queue, bound, control, tail, client, files, shutdown>>

ReleaseSession(t) ==
    /\ task[t].pc = "release"
    /\ active' = IF active = t THEN None ELSE active
    /\ task' = [task EXCEPT ![t] = NoTask]
    /\ tail' = [tail EXCEPT ![t] = "control"]
    /\ UNCHANGED <<session, tr, pending, kick, looping, bound, control, client,
                   files, shutdown>>

RemoveControl(t) ==
    /\ tail[t] = "control"
    /\ control' = control \ {t}
    /\ tail' = [tail EXCEPT ![t] = "finish"]
    /\ UNCHANGED <<session, tr, queue, bound, task, client, files, shutdown>>

(* Mutant: a finished task starts nothing. *)
FinishQuietly(t) ==
    /\ tail[t] = "finish"
    /\ bound' = IF tr[t].state \in {"Completed", "Cancelled"} THEN bound \ {t}
                                                              ELSE bound
    /\ tail' = [tail EXCEPT ![t] = "none"]
    /\ UNCHANGED <<session, tr, queue, control, task, client, files, shutdown>>

FinishTask(t) ==
    /\ tail[t] = "finish"
    /\ bound' = IF tr[t].state \in {"Completed", "Cancelled"} THEN bound \ {t}
                                                              ELSE bound
    /\ kick' = kick \cup {t}
    /\ tail' = [tail EXCEPT ![t] = "none"]
    /\ UNCHANGED <<session, tr, pending, active, looping, control, task, client,
                   files, shutdown>>

-----------------------------------------------------------------------------
(* cancel_transfer, resume_transfer and retry_remote_cleanup. *)

(* One call of a transfer's cancel at a time. *)
Cancel(t) ==
    /\ Cancellable(tr[t]) /\ canc[t].pc = "idle"
    /\ cancels < MaxCancels /\ cancels' = cancels + 1
    /\ Put(t, BeginCancel(tr[t]))
    /\ canc' = [canc EXCEPT ![t] = [NoCancel EXCEPT !.pc = "route",
                                      !.gen = tr[t].gen, !.temp = tr[t].temp]]
    /\ UNCHANGED <<session, queue, bound, control, task, tail, retry, restarts,
                   files, shutdown>>

(* Setting cancel_requested of the registered controls of S: a control left *)
(* by a task that is over has no listener.                                  *)
Signal(S) ==
    task' = [t \in Transfers |->
               IF t \in S /\ task[t].pc \notin Unregistered
                 THEN [task[t] EXCEPT !.cancel = TRUE] ELSE task[t]]

CancelSignal(t) ==
    /\ canc[t].pc = "route" /\ t \in control
    /\ Signal({t})
    /\ canc' = [canc EXCEPT ![t] = NoCancel]
    /\ UNCHANGED <<session, tr, queue, bound, control, tail, retry, restarts,
                   cancels, files, shutdown>>

(* No task is registered: cleanup_unattended_cancel.  A remote file stays   *)
(* and is reported; a local one is removed through its boundary.            *)
CancelUnattended(t) ==
    /\ canc[t].pc = "route" /\ t \notin control
    /\ \E c \in Cleanups :
         /\ c = "Cleaned" => (canc[t].temp => t \in Downloads \cap bound)
         /\ c = "Residual" => canc[t].temp
         /\ tmp' = [tmp EXCEPT ![t] = tmp[t] /\ (c = "Cleaned" => ~canc[t].temp)]
         /\ canc' = [canc EXCEPT ![t].pc = "finish", ![t].clean = c]
    /\ UNCHANGED <<session, tr, queue, bound, control, task, tail, retry,
                   restarts, cancels, pub, shutdown>>

(* Mutant: the queue is cleared of everything that is being cancelled. *)
CancelFinishClears(t) ==
    /\ canc[t].pc = "finish"
    /\ pending' = <<>>
    /\ PutFenced(t, canc[t].gen, FinishCancel(tr[t], canc[t].clean))
    /\ bound' = IF tr'[t] # tr[t] /\ tr'[t].state = "Cancelled"
                  THEN bound \ {t} ELSE bound
    /\ canc' = [canc EXCEPT ![t] = NoCancel]
    /\ UNCHANGED <<session, active, kick, looping, control, task, tail, retry,
                   restarts, cancels, files, shutdown>>

CancelFinish(t) ==
    /\ canc[t].pc = "finish"
    /\ pending' = Without(pending, t)
    /\ PutFenced(t, canc[t].gen, FinishCancel(tr[t], canc[t].clean))
    /\ bound' = IF tr'[t] # tr[t] /\ tr'[t].state = "Cancelled"
                  THEN bound \ {t} ELSE bound
    /\ canc' = [canc EXCEPT ![t] = NoCancel]
    /\ UNCHANGED <<session, active, kick, looping, control, task, tail, retry,
                   restarts, cancels, files, shutdown>>

(* Mutant: a transfer with a residual may be started over. *)
ResumableDirty(t) ==
    /\ tr[t].state \in {"Failed", "Paused"}
    /\ tr[t].outcome # "Uncertain"
    /\ t \in bound /\ sess = "Ready" /\ live # 0 /\ active = None

(* What SftpView.vue offers to resume, and what the service admits: a       *)
(* cancel between its two locks of the records is no obstacle.              *)
Resumable(t) ==
    /\ tr[t].state \in {"Failed", "Paused"}
    /\ tr[t].outcome # "Uncertain" /\ ~tr[t].residual
    /\ t \in bound /\ sess = "Ready" /\ live # 0 /\ active = None

(* can_verify_upload, but for the length of what was sent: up to            *)
(* MAX_RESUME_PREFIX_BYTES are verified, and as                             *)
(* SFTP_V3_HANDLE_STABLE_RESUME_COMMIT is false the upload keeps its        *)
(* partial file and stops; an upload that sent more starts over.            *)
MayVerify(t) ==
    t \in Uploads /\ tr[t].state = "Paused" /\ tr[t].moved /\ tr[t].temp

ResumeRefused(t) ==
    /\ Resumable(t) /\ MayVerify(t)
    /\ Put(t, RetainResidual(tr[t]))
    /\ UNCHANGED <<session, queue, bound, control, task, tail, client, files,
                   shutdown>>

(* Cleanup and restart, under one lock. *)
Restart(t) ==
    /\ Resumable(t) /\ restarts[t] < MaxRestarts
    /\ restarts' = [restarts EXCEPT ![t] = @ + 1]
    /\ \E c \in Cleanups, gone \in BOOLEAN :
         /\ c = "Cleaned" => gone
         /\ tmp' = [tmp EXCEPT ![t] = tmp[t] /\ ~gone]
         /\ Put(t, RestartTransfer(tr[t], gen, c))
         /\ pending' = IF c = "Cleaned" THEN Append(pending, t) ELSE pending
         /\ kick' = IF c = "Cleaned" THEN kick \cup {t} ELSE kick
    /\ UNCHANGED <<session, active, looping, bound, control, task, tail, canc,
                   retry, cancels, pub, shutdown>>

(* The user asks for another cleanup of a remote file; it runs on a         *)
(* connection of its own, without a lock.                                   *)
RetryCleanup(t) ==
    /\ t \in Uploads /\ retry[t] = "none"
    /\ Resolvable(tr[t]) /\ tr[t].temp
    /\ retry' = [retry EXCEPT ![t] = "net"]
    /\ Put(t, [tr[t] EXCEPT !.seen = TRUE])
    /\ UNCHANGED <<session, queue, bound, control, task, tail, canc, restarts,
                   cancels, files, shutdown>>

RetryClean(t) ==
    /\ retry[t] = "net"
    /\ \E gone, confirmed \in BOOLEAN :
         /\ confirmed => gone
         /\ tmp' = [tmp EXCEPT ![t] = tmp[t] /\ ~gone]
         /\ retry' = [retry EXCEPT ![t] = IF confirmed THEN "resolve" ELSE "none"]
    /\ UNCHANGED <<session, tr, queue, bound, control, task, tail, canc,
                   restarts, cancels, pub, shutdown>>

(* The revision of the request must still be the record's. *)
RetryResolve(t) ==
    /\ retry[t] = "resolve"
    /\ retry' = [retry EXCEPT ![t] = "none"]
    /\ IF tr[t].seen /\ Resolvable(tr[t])
         THEN Put(t, ResolveCleanupResidual(tr[t])) /\ bound' = bound \ {t}
         ELSE UNCHANGED <<tr, bound>>
    /\ UNCHANGED <<session, queue, control, task, tail, canc, restarts, cancels,
                   files, shutdown>>

(* retain_remote_cleanup_for_exit: the authorization names this revision. *)
RetainForExit(t) ==
    /\ t \in Uploads
    /\ tr[t].state = "Failed" /\ tr[t].dirty
    /\ tr[t].residual /\ tr[t].temp
    /\ Put(t, [tr[t] EXCEPT !.kept = TRUE])
    /\ UNCHANGED <<session, queue, bound, control, task, tail, client, files,
                   shutdown>>

-----------------------------------------------------------------------------
(* The session. *)

HeartbeatFails ==
    /\ hb = "up" /\ sess = "Ready"
    /\ hb' = "lost"
    /\ UNCHANGED <<sess, gen, live, tr, queue, bound, control, task, tail,
                   client, files, shutdown>>

(* reconcile_record_liveness, on the way of a snapshot, listing or enqueue. *)
Reconcile ==
    /\ hb = "lost"
    /\ hb' = "gone" /\ live' = 0
    /\ TransportLost
    /\ UNCHANGED <<gen, queue, bound, control, task, tail, client, files,
                   shutdown>>

(* disconnect: refused while a transfer is not over. *)
Disconnect ==
    /\ sess # "Closed"
    /\ \A t \in Transfers : tr[t].state \in Terminal \cup {"Absent"}
    /\ active = None
    /\ \E clean \in BOOLEAN : sess' = IF clean THEN "Closed" ELSE "Failed"
    /\ hb' = "gone" /\ live' = 0
    /\ UNCHANGED <<gen, tr, queue, bound, control, task, tail, client, files,
                   shutdown>>

(* open on an ended session: the queue is kept, the connection is new. *)
Reopen ==
    /\ sess \in {"Failed", "Closed"} /\ active = None
    /\ gen < MaxGeneration
    /\ gen' = gen + 1
    /\ tr' = PauseAll
    /\ \E connected \in BOOLEAN :
         /\ sess' = IF connected THEN "Ready" ELSE "Failed"
         /\ live' = IF connected THEN gen + 1 ELSE 0
         /\ hb' = IF connected THEN "up" ELSE "gone"
    /\ kick' = kick \cup {None}
    /\ UNCHANGED <<pending, active, looping, bound, control, task, tail, client,
                   files, shutdown>>

-----------------------------------------------------------------------------
(* shutdown_all. *)

(* Scheduling is paused; residual local files are tried once more. *)
ShutdownBegin ==
    /\ shut = "idle" /\ shutdowns < MaxShutdowns
    /\ shut' = "collect" /\ paused' = TRUE
    /\ shutdowns' = shutdowns + 1
    /\ \E gone \in SUBSET {t \in Downloads \cap bound : tr[t].residual} :
         /\ tmp' = [t \in Transfers |-> tmp[t] /\ t \notin gone]
         /\ tr' = [t \in Transfers |-> IF t \in gone
                                          THEN ResolveCleanupResidual(tr[t])
                                          ELSE tr[t]]
         /\ bound' = bound \ {t \in gone : Resolvable(tr[t])}
    /\ UNCHANGED <<session, queue, control, task, tail, client, pub, waitFor,
                   timedOut>>

ShutdownCollect ==
    /\ shut = "collect"
    /\ shut' = "cancel" /\ waitFor' = control /\ timedOut' = {}
    /\ UNCHANGED <<session, tr, queue, bound, control, task, tail, client,
                   files, paused, shutdowns>>

ShutdownCancel ==
    /\ shut = "cancel"
    /\ shut' = "wait"
    /\ tr' = [t \in Transfers |->
                 IF t \in waitFor /\ Cancellable(tr[t]) THEN BeginCancel(tr[t])
                                                        ELSE tr[t]]
    /\ Signal(waitFor)
    /\ UNCHANGED <<session, queue, bound, control, tail, client, files, waitFor,
                   timedOut, paused, shutdowns>>

ShutdownFinished(t) ==
    /\ shut = "wait" /\ t \in waitFor
    /\ task[t].pc \in Unregistered /\ tail[t] = "none"
    /\ waitFor' = waitFor \ {t}
    /\ UNCHANGED <<session, tr, queue, bound, control, task, tail, client,
                   files, shut, timedOut, paused, shutdowns>>

(* The deadline passes: the task is aborted wherever it is, a request it    *)
(* had sent may still be carried out.                                       *)
ShutdownAbort(t) ==
    /\ shut = "wait" /\ t \in waitFor
    /\ task[t].pc \notin Unregistered \/ tail[t] # "none"
    /\ waitFor' = waitFor \ {t} /\ timedOut' = timedOut \cup {t}
    /\ task' = IF task[t].pc \in Unregistered THEN task
                                              ELSE [task EXCEPT ![t] = NoTask]
    /\ tail' = [tail EXCEPT ![t] = "none"]
    /\ \E sent \in BOOLEAN :
         pub' = [pub EXCEPT ![t] = pub[t] \/ (sent /\ task[t].pc = "commit")]
    /\ UNCHANGED <<session, tr, queue, bound, control, client, tmp, shut,
                   paused, shutdowns>>

(* Under the lock of the records: the aborted transfers are settled, the    *)
(* session closed, the residuals counted.                                   *)
ShutdownClose ==
    /\ shut = "wait" /\ waitFor = {}
    /\ control' = control \ timedOut
    /\ LET cut == [t \in Transfers |->
                     IF t \in timedOut THEN FinishCancel(tr[t], "Residual")
                                       ELSE tr[t]]
           settled == [t \in Transfers |->
                         IF sess \in {"Closed", "Failed"}
                           THEN cut[t] ELSE PauseActiveTransfer(cut[t])]
       IN  \E failed \in BOOLEAN :
             /\ failed => live # 0
             /\ sess' = IF /\ sess # "Closed"
                           /\ failed \/ timedOut # {} \/ sess = "Failed"
                          THEN "Failed" ELSE "Closed"
             /\ tr' = [t \in Transfers |-> [settled[t] EXCEPT !.kept = FALSE]]
             /\ shut' = IF /\ timedOut = {} /\ ~failed
                           /\ \A t \in Transfers :
                                settled[t].residual => settled[t].kept
                          THEN "ok" ELSE "report"
    /\ live' = 0 /\ hb' = "gone"
    /\ UNCHANGED <<gen, queue, bound, task, tail, client, files, waitFor,
                   timedOut, paused, shutdowns>>

(* The application goes on after a shutdown that failed. *)
ShutdownReport ==
    /\ shut = "report"
    /\ shut' = "idle" /\ paused' = FALSE
    /\ UNCHANGED <<session, tr, queue, bound, control, task, tail, client,
                   files, waitFor, timedOut, shutdowns>>

-----------------------------------------------------------------------------
Start(t) == StartBegin(t) \/ InsertControl(t)

Execute(t) ==
    \/ Prepare(t) \/ Create(t) \/ CopyChunk(t) \/ CopyDone(t)
    \/ CommitUpload(t) \/ Unlink(t) \/ CommitDownload(t) \/ Complete(t)

WindUp(t) ==
    \/ CleanUp(t) \/ Settle(t) \/ ReturnChannel(t) \/ ReleaseSession(t)
    \/ RemoveControl(t) \/ FinishTask(t)

CancelStep(t) == CancelSignal(t) \/ CancelUnattended(t) \/ CancelFinish(t)

RetryStep(t) == RetryClean(t) \/ RetryResolve(t)

User(t) ==
    \/ Enqueue(t) \/ Cancel(t) \/ ResumeRefused(t) \/ Restart(t)
    \/ RetryCleanup(t) \/ RetainForExit(t)

ShutdownStep ==
    \/ ShutdownCollect \/ ShutdownCancel
    \/ \E t \in Transfers : ShutdownFinished(t) \/ ShutdownAbort(t)
    \/ ShutdownClose \/ ShutdownReport

Shutdown == ShutdownBegin \/ ShutdownStep

(* After a shutdown that succeeded the process ends. *)
Next ==
    /\ shut # "ok"
    /\ \/ \E c \in Transfers \cup {None} : StartCall(c) \/ StartPop(c)
       \/ \E t \in Transfers :
            \/ Start(t) \/ Execute(t) \/ HearCancel(t) \/ HearLost(t)
            \/ WindUp(t) \/ CancelStep(t) \/ RetryStep(t) \/ User(t)
       \/ HeartbeatFails \/ Reconcile \/ Disconnect \/ Reopen
       \/ Shutdown

Spec == Init /\ [][Next]_vars

(* Tasks and command handlers run on the runtime, and every request and     *)
(* every wait of theirs has a timeout; nobody need ask for anything.        *)
Fairness ==
    /\ \A c \in Transfers \cup {None} : 
         WF_vars(shut # "ok" /\ (StartCall(c) \/ StartPop(c)))
    /\ \A t \in Transfers :
         /\ WF_vars(shut # "ok" /\ Start(t))
         /\ WF_vars(shut # "ok" /\ (Execute(t) \/ HearCancel(t) \/ HearLost(t)))
         /\ WF_vars(shut # "ok" /\ WindUp(t))
         /\ WF_vars(shut # "ok" /\ CancelStep(t))
         /\ WF_vars(shut # "ok" /\ RetryStep(t))
    /\ WF_vars(shut # "ok" /\ ShutdownStep)

FairSpec == Spec /\ Fairness

-----------------------------------------------------------------------------
(* Properties. *)

Holding(t) == task[t].pc \notin {"idle", "popped", "release"}

(* The session has one channel, and a ready session has not mislaid it:     *)
(* either record.live is there, or exactly one task holds it, of the        *)
(* session's own generation.  (A task aborted by shutdown_all drops the     *)
(* channel it held, and the session is closed next.)                        *)
ChannelOwned ==
    /\ \A t, u \in Transfers : Holding(t) /\ Holding(u) => t = u
    /\ \A t \in Transfers : Holding(t) => live = 0 /\ task[t].gen = gen
    /\ sess = "Ready" /\ shut # "wait" =>
         live = gen \/ \E t \in Transfers : Holding(t)

(* A queued transfer is in the queue, or on its way out of it: the starts,  *)
(* cancels and late ends of tasks lose no transfer that was not started     *)
(* over, and restarts and new connections lose none while nobody cancels.   *)
(* (Both together may: the late retain of a cancel that a restart has       *)
(* overtaken takes the new entry out.  And an entry may be there twice: a   *)
(* cancel that finds the control of the previous attempt leaves it behind,  *)
(* and a restart adds another, refused when its turn comes.)                *)
QueuedIsQueued ==
    \A t \in Transfers :
      tr[t].state = "Queued" /\ (restarts[t] = 0 \/ cancels = 0) =>
        t \in ToSet(pending) \/ task[t].pc = "popped"

(* ... without the exception, which the code does not keep. *)
QueuedStaysQueued ==
    \A t \in Transfers :
      tr[t].state = "Queued" => t \in ToSet(pending) \/ task[t].pc = "popped"

(* A transfer that reports completion has published its target and left no  *)
(* temporary file.                                                          *)
CompletedIsPublished ==
    \A t \in Transfers :
      tr[t].state = "Completed" =>
        pub[t] /\ ~tmp[t]

(* A cleanup retried by the user, which runs without a lock and under the   *)
(* file name every attempt uses, never removes the temporary file of an     *)
(* upload that may still be published.                                      *)
UploadKeepsFile ==
    \A t \in Uploads :
      /\ task[t].pc \in {"copy", "commit"}
      /\ tr[t].state \in {"Transferring", "Committing"}
      => tmp[t]

(* Completed, Cancelled and an uncertain commit are final: no late fact of  *)
(* a task, a cancel, a lost transport or a restart takes them back.         *)
FinalStays ==
    [][\A t \in Transfers :
         /\ tr[t].state \in {"Completed", "Cancelled"} => tr'[t].state = tr[t].state
         /\ tr[t].outcome = "Uncertain" => tr'[t].outcome = "Uncertain"]_vars

(* No wake-up is lost: while transfers wait and a ready session runs none,  *)
(* a call of start_next_queued_transfer is under way, or a task that has    *)
(* released the session is still to make one.  (A shutdown pauses the       *)
(* scheduling and swallows such calls.)                                     *)
WakeupOwed ==
    sess = "Ready" /\ pending # <<>> /\ active = None /\ shutdowns = 0 =>
      kick # {} \/ looping # {} \/ \E t \in Transfers : tail[t] # "none"

-----------------------------------------------------------------------------
(* What comments and tests say, and the code does not keep. *)

(* run_transfer: "Cancelling one transfer must not end the session ... Only *)
(* an unresponsive channel is closed."  The task of a cancelled transfer    *)
(* does not close the channel because the actor refused its next fact.      *)
CancelKeepsSession ==
    \A t \in Transfers :
      ~ /\ task[t].pc = "return" /\ task[t].end = "InvalidState"
        /\ tr[t].state = "Cancelled"

(* cleanup_temporary_target: "A failed or uncertain cleanup is reported as  *)
(* a residual, never as a successful cancellation."  A transfer that is     *)
(* over and left its temporary file says so.                                *)
LeftoverIsReported ==
    \A t \in Transfers :
      /\ tr[t].state = "Failed" /\ tr[t].outcome = "NotCommitted"
      /\ task[t].pc = "idle" /\ tmp[t]
      => tr[t].residual

(* ... and a cancelled transfer left none. *)
CancelledIsClean ==
    \A t \in Transfers :
      tr[t].state = "Cancelled" /\ task[t].pc = "idle" => ~tmp[t]

(* run_upload: "The server may have created the link before the reply was   *)
(* lost."  A transfer is reported as not committed only if it is not.       *)
NotCommittedIsTrue ==
    \A t \in Transfers :
      tr[t].state = "Failed" /\ tr[t].outcome = "NotCommitted" => ~pub[t]

(* Test shutdown_timeout_records_residual_and_never_leaves_cancelling: a    *)
(* cancel that was accepted comes to an end.                                *)
CancelResolves ==
    \A t \in Transfers : tr[t].state = "Cancelling" ~> tr[t].state # "Cancelling"

(* Test shutdown_all_timeout_is_actionable_on_the_next_attempt: a transfer  *)
(* that has not stopped "must fail application shutdown".                   *)
ShutdownWaits == shut = "ok" => \A t \in Transfers : task[t].pc = "idle"
=============================================================================
