---------------------------- MODULE PluginCredential ----------------------------
(* Credentials that plugins own (src/src-tauri/src/plugin_credential_service.rs *)
(* with src/src-tauri/src/plugin_service/api_credentials.rs and the table       *)
(* plugin_credentials of src/crates/app-persistence/src/plugin_credentials.rs). *)
(* An API invocation commits an intent, asks the user for the value and         *)
(* publishes the row once the vault holds it.  The future that does so can be   *)
(* dropped at any await, while the jobs it spawned run on; the plugin instance  *)
(* can be stopped at any moment, which every transaction checks by the fence.   *)
(*                                                                              *)
(* Jobs and calls take the `lifecycle` mutex for as long as they run; `call` is *)
(* the one that holds it, and its transactions and vault calls are the steps.   *)
(* A reference stands for its row: handle, operation id and idempotency key.    *)
(* The revision column follows from the state: 1 while pending or ready, then 2.*)
EXTENDS SecretVault, Naturals

CONSTANTS Invocations,   \* create invocations under way at a time
          NoRef, NoInv,
          MaxFaults,     \* I/O faults in a behaviour
          MaxCrashes,    \* deaths of the process in a behaviour
          PowerLoss      \* whether such a death may be a loss of power

ASSUME CredentialAssumption ==
    /\ NoRef \notin Refs
    /\ NoInv \notin Invocations
    /\ MaxFaults \in Nat
    /\ MaxCrashes \in Nat
    /\ PowerLoss \in BOOLEAN

VARIABLES row,           \* the state column
          inv,           \* the future of each invocation
          alive,         \* the invocations whose fence holds
          jobs,          \* spawn_blocking jobs that have not taken the mutex
          call,          \* what holds the mutex
          app,           \* "Starting" until recover_startup returns, "Up", or "Ended" by its error
          deleted,       \* an uninstall has revoked the plugin's credentials
          faults, crashes

vars == <<vaultVars, row, inv, alive, jobs, call, app, deleted, faults, crashes>>

States == {"None", "PendingVault", "Ready", "CleanupPending", "Revoked"}

Invs == [pc : {"Out", "Preparing", "Prompt", "Finishing", "Told", "Over"},
         ref : Refs \union {NoRef}, value : Values \union {Absent}]
OutInv == [pc |-> "Out", ref |-> NoRef, value |-> Absent]

Jobs == [kind : {"Prepare", "Finish", "Cancel", "Cleanup"},
         by : Invocations \union {NoInv}, checked : BOOLEAN]

Kinds == {"None", "Prepare", "Finish", "Cancel", "Revoke", "Cleanup", "Uninstall", "Recover"}
Pcs == {"Idle", "Begin", "Find", "FenceNew", "FenceOld", "Exact", "Insert", "FenceStored",
        "Ready", "Observe", "Mark", "MarkOnly", "Next", "Delete", "Finalize"}
Calls == [kind : Kinds, pc : Pcs, by : Invocations \union {NoInv},
          ref : Refs \union {NoRef}, todo : SUBSET Refs]
Idle == [kind |-> "None", pc |-> "Idle", by |-> NoInv, ref |-> NoRef, todo |-> {}]

(* The type invariant. *)
TypeOK ==
    /\ VaultTypeOK
    /\ row \in [Refs -> States]
    /\ inv \in [Invocations -> Invs]
    /\ alive \subseteq Invocations
    /\ jobs \subseteq Jobs
    /\ call \in Calls
    /\ app \in {"Starting", "Up", "Ended"}
    /\ deleted \in BOOLEAN
    /\ faults \in 0 .. MaxFaults
    /\ crashes \in 0 .. MaxCrashes

Init ==
    /\ VaultInit
    /\ row = [r \in Refs |-> "None"]
    /\ inv = [i \in Invocations |-> OutInv]
    /\ alive = Invocations
    /\ jobs = {}
    /\ call = Idle
    /\ app = "Starting"
    /\ deleted = FALSE
    /\ faults = 0
    /\ crashes = 0

--------------------------------------------------------------------------------
Well == UNCHANGED faults
Ill == faults < MaxFaults /\ faults' = faults + 1
Answered(result) == IF result \in Faults THEN Ill ELSE Well

Commit(r, to) == Well /\ row' = [row EXCEPT ![r] = to]

(* A commit that reports an error may have taken effect. *)
CommitFails(r, to) == Ill /\ row' \in {row, [row EXCEPT ![r] = to]}

Goto(pc) == call' = [call EXCEPT !.pc = pc] /\ UNCHANGED <<inv, jobs, app>>

Job(kind, i) == [kind |-> kind, by |-> i, checked |-> FALSE]

(* The future of invocation i ends; a guard that holds the intent spawns the    *)
(* cancel, the future of a prepare holds none yet.                              *)
Leave(i) ==
    /\ inv' = [inv EXCEPT ![i].pc = "Over"]
    /\ jobs' = IF inv[i].pc \in {"Prompt", "Finishing"}
               THEN jobs \union {Job("Cancel", i)} ELSE jobs

(* The call returns; an error ends the future that awaits it, if there is one.  *)
Fail ==
    /\ call' = Idle
    /\ IF \/ call.kind = "Prepare" /\ inv[call.by].pc = "Preparing"
          \/ call.kind = "Finish" /\ inv[call.by].pc = "Finishing"
       THEN Leave(call.by)
       ELSE UNCHANGED <<inv, jobs>>
    /\ app' = IF call.kind = "Recover" THEN "Ended" ELSE app

(* A successful answer moves the future to `pc`, unless it was dropped: then    *)
(* the answer, an intent included, is lost.                                     *)
Answer(pc) ==
    /\ call' = Idle
    /\ inv' = IF inv[call.by].pc \in {"Preparing", "Finishing"}
              THEN [inv EXCEPT ![call.by].pc = pc] ELSE inv
    /\ UNCHANGED <<jobs, app>>

--------------------------------------------------------------------------------
(* The future of Create in invoke_api_credential. *)
Invoke(i, r) ==
    /\ app = "Up"
    /\ ~deleted
    /\ i \in alive
    /\ inv[i].pc = "Out"
    /\ inv' = [inv EXCEPT ![i].pc = "Preparing", ![i].ref = r]
    /\ jobs' = jobs \union {Job("Prepare", i)}
    /\ UNCHANGED <<vaultVars, row, alive, call, app, deleted, faults, crashes>>

(* The user answers the prompts; Absent is a value that valid_secret_value      *)
(* will refuse.                                                                 *)
Enter(i, v) ==
    /\ inv[i].pc = "Prompt"
    /\ i \in alive
    /\ inv' = [inv EXCEPT ![i].pc = "Finishing", ![i].value = v]
    /\ jobs' = jobs \union {Job("Finish", i)}
    /\ UNCHANGED <<vaultVars, row, alive, call, app, deleted, faults, crashes>>

(* The prompt is refused, or the future is dropped at any of its awaits. *)
DropFuture(i) ==
    /\ inv[i].pc \in {"Preparing", "Prompt", "Finishing"}
    /\ Leave(i)
    /\ UNCHANGED <<vaultVars, row, alive, call, app, deleted, faults, crashes>>

(* The action or the instance an invocation belongs to is over. *)
LoseFence(i) ==
    /\ i \in alive
    /\ alive' = alive \ {i}
    /\ UNCHANGED <<vaultVars, row, inv, jobs, call, app, deleted, faults, crashes>>

--------------------------------------------------------------------------------
(* prepare_create. *)

(* A prepare or finish job looks at the fence before it waits for the mutex; a  *)
(* refusal is an error to the future that awaits the job.                       *)
CheckFence(j) ==
    /\ j \in jobs
    /\ j.kind \in {"Prepare", "Finish"}
    /\ ~j.checked
    /\ LET i == j.by
           waits == inv[i].pc = (IF j.kind = "Prepare" THEN "Preparing" ELSE "Finishing")
           next == IF i \in alive THEN {[j EXCEPT !.checked = TRUE]}
                   ELSE IF waits /\ j.kind = "Finish" THEN {Job("Cancel", i)}
                   ELSE {}
       IN /\ inv' = IF i \notin alive /\ waits THEN [inv EXCEPT ![i].pc = "Over"] ELSE inv
          /\ jobs' = (jobs \ {j}) \union next
    /\ UNCHANGED <<vaultVars, row, alive, call, app, deleted, faults, crashes>>

(* A job takes the mutex. *)
TakeJob(j) ==
    /\ call.pc = "Idle"
    /\ j \in jobs
    /\ j.kind \in {"Prepare", "Finish"} => j.checked
    /\ call' = IF j.kind = "Cleanup"
               THEN [Idle EXCEPT !.kind = "Cleanup", !.pc = "Next",
                                 !.todo = {r \in Refs : row[r] = "CleanupPending"}]
               ELSE [Idle EXCEPT !.kind = j.kind, !.by = j.by, !.ref = inv[j.by].ref,
                                 !.pc = IF j.kind = "Prepare" THEN "Begin" ELSE "Exact"]
    /\ jobs' = jobs \ {j}
    /\ UNCHANGED <<vaultVars, row, inv, alive, app, deleted, faults, crashes>>

(* The query for the rows marked for clean-up fails: the job is over and the    *)
(* rows wait for the next one.                                                  *)
CleanupQueryFails(j) ==
    /\ call.pc = "Idle"
    /\ j \in jobs
    /\ j.kind = "Cleanup"
    /\ Ill
    /\ jobs' = jobs \ {j}
    /\ UNCHANGED <<vaultVars, row, inv, alive, call, app, deleted, crashes>>

(* Mutant: the transaction does not look at the fence. *)
FencedUnchecked(i) == TRUE

(* require_fence inside a transaction. *)
Fenced(i) == i \in alive

(* begin_plugin_credential_create: a new row, or the row of an exact replay.    *)
(* After any error the row is looked up.                                        *)
Begin ==
    /\ call.pc = "Begin"
    /\ \/ ~Fenced(call.by) /\ Well /\ row' = row /\ Goto("Find")
       \/ /\ Fenced(call.by)
          /\ row[call.ref] = "None"
          /\ \/ Commit(call.ref, "PendingVault") /\ Goto("FenceNew")
             \/ CommitFails(call.ref, "PendingVault") /\ Goto("Find")
       \/ /\ Fenced(call.by)
          /\ row[call.ref] # "None"
          /\ row' = row
          /\ \/ Well /\ Goto("FenceOld")
             \/ Ill /\ Goto("Find")
    /\ UNCHANGED <<vaultVars, alive, deleted, crashes>>

(* find_plugin_credential_create: a pending row found after an error is cleaned *)
(* up, whoever created it.                                                      *)
Find ==
    /\ call.pc = "Find"
    /\ \/ Well /\ row[call.ref] = "PendingVault" /\ Goto("Mark")
       \/ Well /\ row[call.ref] # "PendingVault" /\ Fail
       \/ Ill /\ Fail
    /\ UNCHANGED <<vaultVars, row, alive, deleted, crashes>>

(* The fence once more, after the commit. *)
FenceNew ==
    /\ call.pc = "FenceNew"
    /\ IF call.by \in alive THEN Answer("Prompt") ELSE Goto("Mark")
    /\ UNCHANGED <<vaultVars, row, alive, deleted, faults, crashes>>

FenceOld ==
    /\ call.pc = "FenceOld"
    /\ IF call.by \in alive /\ row[call.ref] = "Ready" THEN Answer("Told") ELSE Fail
    /\ UNCHANGED <<vaultVars, row, alive, deleted, faults, crashes>>

--------------------------------------------------------------------------------
(* finish_create and cancel_create. *)

(* require_exact_intent: the row is still as its creator got it. *)
ExactIntent(r) == row[r] = "PendingVault"

Exact ==
    /\ call.pc = "Exact"
    /\ \/ /\ Well
          /\ ExactIntent(call.ref)
          /\ Goto(IF call.kind = "Cancel" \/ inv[call.by].value = Absent THEN "Mark" ELSE "Insert")
       \/ Well /\ ~ExactIntent(call.ref) /\ Fail
       \/ Ill /\ Fail
    /\ UNCHANGED <<vaultVars, row, alive, deleted, crashes>>

(* Mutant: a write whose durability is unknown counts as stored. *)
StoredUnknown(result) == result \in {"Ok", "CommitStateUnknown"}

Stored(result) == result = "Ok"

(* Any failure marks the row; only one that proves the value absent lets the    *)
(* clean-up go on at once.                                                      *)
Insert ==
    /\ call.pc = "Insert"
    /\ \E result \in Results :
          /\ InsertSecret(call.ref, inv[call.by].value, result)
          /\ Answered(result)
          /\ \/ Stored(result) /\ Goto("FenceStored")
             \/ DefinitelyAbsent(result) /\ Goto("Mark")
             \/ ~Stored(result) /\ ~DefinitelyAbsent(result) /\ Goto("MarkOnly")
    /\ UNCHANGED <<row, alive, deleted, crashes>>

FenceStored ==
    /\ call.pc = "FenceStored"
    /\ Goto(IF call.by \in alive THEN "Ready" ELSE "Mark")
    /\ UNCHANGED <<vaultVars, row, alive, deleted, faults, crashes>>

(* Mutant: an error of the publish is taken for a row that was not published. *)
ObservedBlindly(r) == TRUE

(* What the row says after a failed publish: a ready row is retained. *)
Observed(r) == row[r] = "PendingVault"

(* mark_plugin_credential_ready. *)
MarkReady ==
    /\ call.pc = "Ready"
    /\ \/ ~Fenced(call.by) /\ Well /\ row' = row /\ Goto("Observe")
       \/ /\ Fenced(call.by)
          /\ row[call.ref] = "PendingVault"
          /\ \/ Commit(call.ref, "Ready") /\ Answer("Told")
             \/ CommitFails(call.ref, "Ready") /\ Goto("Observe")
       \/ /\ Fenced(call.by)
          /\ row[call.ref] # "PendingVault"
          /\ Well
          /\ row' = row
          /\ Goto("Observe")
    /\ UNCHANGED <<vaultVars, alive, deleted, crashes>>

Observe ==
    /\ call.pc = "Observe"
    /\ \/ Well /\ Observed(call.ref) /\ Goto("Mark")
       \/ Well /\ ~Observed(call.ref) /\ Fail
       \/ Ill /\ Fail
    /\ UNCHANGED <<vaultVars, row, alive, deleted, crashes>>

--------------------------------------------------------------------------------
(* revoke, cleanup_pending, cleanup_plugin and recover_startup. *)

(* mark_plugin_credential_cleanup_pending: a row that is being cleaned up or is *)
(* revoked is returned as it is.                                                *)
Mark ==
    /\ call.pc \in {"Mark", "MarkOnly"}
    /\ \/ /\ row[call.ref] \in {"PendingVault", "Ready"}
          /\ \/ /\ Commit(call.ref, "CleanupPending")
                /\ IF call.pc = "Mark" THEN Goto("Delete") ELSE Fail
             \/ CommitFails(call.ref, "CleanupPending") /\ Fail
       \/ /\ row[call.ref] \in {"CleanupPending", "Revoked"}
          /\ Well
          /\ row' = row
          /\ IF row[call.ref] = "CleanupPending" THEN Goto("Delete") ELSE Fail
    /\ UNCHANGED <<vaultVars, alive, deleted, crashes>>

(* A revoke of a listed credential, at the revision of the list. *)
Revoke(r) ==
    /\ call.pc = "Idle"
    /\ app = "Up"
    /\ ~deleted
    /\ row[r] # "None"
    /\ call' = [Idle EXCEPT !.kind = "Revoke", !.pc = "Mark", !.ref = r]
    /\ UNCHANGED <<vaultVars, row, inv, alive, jobs, app, deleted, faults, crashes>>

(* An uninstall with deletion of the data stops the plugin and then revokes all *)
(* its rows in one transaction.                                                 *)
StopPlugin ==
    /\ app = "Up"
    /\ alive # {}
    /\ alive' = {}
    /\ UNCHANGED <<vaultVars, row, inv, jobs, call, app, deleted, faults, crashes>>

Retired(states) == [r \in Refs |-> IF row[r] \in states THEN "CleanupPending" ELSE row[r]]

CleanupPlugin ==
    /\ call.pc = "Idle"
    /\ app = "Up"
    /\ ~deleted
    /\ alive = {}
    /\ \/ /\ Well
          /\ row' = Retired({"PendingVault", "Ready"})
          /\ deleted' = TRUE
          /\ call' = [Idle EXCEPT !.kind = "Uninstall", !.pc = "Next",
                                  !.todo = {r \in Refs : row'[r] = "CleanupPending"}]
       \/ /\ Ill
          /\ row' \in {row, Retired({"PendingVault", "Ready"})}
          /\ UNCHANGED <<deleted, call>>
    /\ UNCHANGED <<vaultVars, inv, alive, jobs, app, crashes>>

(* recover_plugin_credentials_startup: whatever is pending was abandoned. *)
Abandoned == {"PendingVault"}

Recover ==
    /\ app = "Starting"
    /\ call.pc = "Idle"
    /\ \/ /\ Well
          /\ row' = Retired(Abandoned)
          /\ call' = [Idle EXCEPT !.kind = "Recover", !.pc = "Next",
                                  !.todo = {r \in Refs : row'[r] = "CleanupPending"}]
          /\ UNCHANGED app
       \/ /\ Ill
          /\ row' \in {row, Retired(Abandoned)}
          /\ app' = "Ended"
          /\ UNCHANGED call
    /\ UNCHANGED <<vaultVars, inv, alive, jobs, deleted, crashes>>

(* cleanup_records. *)
Loops == {"Cleanup", "Uninstall", "Recover"}

NextRecord(r) ==
    /\ call.pc = "Next"
    /\ r \in call.todo
    /\ call' = [call EXCEPT !.pc = "Delete", !.ref = r, !.todo = @ \ {r}]
    /\ UNCHANGED <<vaultVars, row, inv, alive, jobs, app, deleted, faults, crashes>>

NoRecord ==
    /\ call.pc = "Next"
    /\ call.todo = {}
    /\ call' = Idle
    /\ app' = "Up"
    /\ UNCHANGED <<vaultVars, row, inv, alive, jobs, deleted, faults, crashes>>

(* Mutant: a locked vault is taken for an empty one. *)
ErasedOrLocked(result) == result \in {"Ok", "NotUnlocked"}

(* The vault holds nothing under the reference any more. *)
Erased(result) == result = "Ok"

(* The errors of a vault that is not available, which the loop passes over. *)
Deferred == {"NotUnlocked", "ReloadRequired", "CommitStateUnknown"}

(* finish_cleanup.  The loop goes on after a vault that is locked or must be    *)
(* reloaded and stops at any other error; at the start that ends the program.   *)
(* A vault that refused for being locked is asked for its state afterwards: if  *)
(* it was unlocked meanwhile, the error is one that stops the loop.             *)
Delete ==
    /\ call.pc = "Delete"
    /\ \E result \in Results :
          /\ DeleteSecret(call.ref, result)
          /\ Answered(result)
          /\ \/ Erased(result) /\ Goto("Finalize")
             \/ /\ ~Erased(result)
                /\ result \in Deferred
                /\ call.kind \in Loops
                /\ Goto("Next")
             \/ /\ ~Erased(result)
                /\ result \in Deferred \ {"NotUnlocked"} => call.kind \notin Loops
                /\ Fail
    /\ UNCHANGED <<row, alive, deleted, crashes>>

Finalize ==
    /\ call.pc = "Finalize"
    /\ \/ /\ Commit(call.ref, "Revoked")
          /\ IF call.kind \in Loops THEN Goto("Next") ELSE Fail
       \/ CommitFails(call.ref, "Revoked") /\ Fail
    /\ UNCHANGED <<vaultVars, alive, deleted, crashes>>

--------------------------------------------------------------------------------
(* A vault that becomes available has the rows marked for clean-up taken up. *)
Unlock ==
    /\ app # "Ended"
    /\ UnlockVault
    /\ jobs' = IF app = "Starting" THEN jobs ELSE jobs \union {Job("Cleanup", NoInv)}
    /\ UNCHANGED <<row, inv, alive, call, app, deleted, faults, crashes>>

Lock ==
    /\ app # "Ended"
    /\ LockVault
    /\ UNCHANGED <<row, inv, alive, jobs, call, app, deleted, faults, crashes>>

OtherWrite ==
    /\ app # "Ended"
    /\ \E result \in Results : WriteElsewhere(result) /\ Answered(result)
    /\ UNCHANGED <<row, inv, alive, jobs, call, app, deleted, crashes>>

(* The process dies and is started again. *)
Crash ==
    /\ crashes < MaxCrashes
    /\ crashes' = crashes + 1
    /\ CrashVault \/ (PowerLoss /\ PowerLossVault)
    /\ inv' = [i \in Invocations |-> OutInv]
    /\ alive' = IF deleted THEN {} ELSE Invocations
    /\ jobs' = {}
    /\ call' = Idle
    /\ app' = "Starting"
    /\ UNCHANGED <<row, deleted, faults>>

Next ==
    \/ \E i \in Invocations, r \in Refs : Invoke(i, r)
    \/ \E i \in Invocations, v \in Values \union {Absent} : Enter(i, v)
    \/ \E i \in Invocations : DropFuture(i) \/ LoseFence(i)
    \/ \E j \in jobs : CheckFence(j) \/ TakeJob(j) \/ CleanupQueryFails(j)
    \/ Begin
    \/ Find
    \/ FenceNew
    \/ FenceOld
    \/ Exact
    \/ Insert
    \/ FenceStored
    \/ MarkReady
    \/ Observe
    \/ Mark
    \/ \E r \in Refs : Revoke(r) \/ NextRecord(r)
    \/ NoRecord
    \/ Delete
    \/ Finalize
    \/ StopPlugin
    \/ CleanupPlugin
    \/ Recover
    \/ Unlock
    \/ Lock
    \/ OtherWrite
    \/ Crash

Spec == Init /\ [][Next]_vars

--------------------------------------------------------------------------------
(* A credential that is offered is durably in the vault: a plugin that was told *)
(* of it finds its value after a crash and a loss of power, and the value is    *)
(* the one the user entered for it.                                             *)
ReadyIsStored ==
    \A r \in Refs : row[r] = "Ready" =>
        /\ synced[r] # Absent
        /\ file[r] = synced[r]
        /\ \A i \in Invocations :
              inv[i].ref = r /\ inv[i].pc = "Told" => inv[i].value \in {Absent, synced[r]}

(* After an uninstall that deletes the data nothing of the plugin is offered or *)
(* comes to be offered, whatever prompts and jobs were under way; a row left    *)
(* over is on its way out.                                                      *)
UninstalledIsRevoked ==
    deleted => \A r \in Refs : row[r] \in {"None", "CleanupPending", "Revoked"}

(* A row leaves the offered state only through a revoke or an uninstall: no     *)
(* late cancel, failed publish or recovery takes a credential that was          *)
(* published.                                                                   *)
ReadyIsKept ==
    [][\A r \in Refs : row[r] = "Ready" /\ row'[r] # "Ready" =>
          call.kind = "Revoke" \/ CleanupPlugin]_vars

(* Who has the intent of row r in hand: a future, the cancel its guard spawned, *)
(* or the call that holds the mutex.                                            *)
Prompted(i, r) == inv[i].ref = r /\ inv[i].pc \in {"Prompt", "Finishing"}

Held(r) ==
    \/ \E i \in Invocations :
          \/ Prompted(i, r)
          \/ inv[i].ref = r /\ Job("Cancel", i) \in jobs
    \/ call.ref = r

(* "Runtime cleanup must not classify a newly prompted create intent as         *)
(* abandoned": while an invocation has an intent in hand, only that invocation, *)
(* a revoke or an uninstall cleans it up.                                       *)
IntentIsKept ==
    [][\A r \in Refs, i \in Invocations :
          /\ Prompted(i, r)
          /\ i \in alive
          /\ row[r] = "PendingVault"
          /\ row'[r] = "CleanupPending"
          => call.by = i \/ call.kind = "Revoke" \/ CleanupPlugin]_vars

(* "Reconciles abandoned create/revoke intents after start or Vault unlock":    *)
(* when a round of the clean-up is over, no intent is left that nobody has.     *)
AbandonedIsReconciled ==
    [][call.kind = "Cleanup" /\ call.pc = "Next" /\ call'.pc = "Idle" =>
          \A r \in Refs : row[r] = "PendingVault" => Held(r)]_vars

(* The row states seen as the phases of SecretCustody. *)
PhaseOf(state) ==
    CASE state = "None" -> "None"
      [] state = "PendingVault" -> "Pending"
      [] state = "Ready" -> "Live"
      [] state = "CleanupPending" -> "Retiring"
      [] state = "Revoked" -> "Gone"

Custody == INSTANCE SecretCustody WITH phase <- [r \in Refs |-> PhaseOf(row[r])],
                                       kept <- file

(* The credential protocol keeps the custody promise. *)
CustodySpec == Custody!Spec

================================================================================
