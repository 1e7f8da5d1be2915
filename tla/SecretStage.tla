------------------------------ MODULE SecretStage ------------------------------
(* Staged secrets of HostService (src/src-tauri/src/host_service.rs) over the   *)
(* tables login_automation_secret_stages and host_create_password_stages        *)
(* (src/crates/app-persistence/src/lib.rs) and the vault.  A value typed into a *)
(* form is stored in the vault under a row that is first an intent, then        *)
(* staged, and is consumed by the transaction that saves the host, automation   *)
(* or desktop profile; a cancel, an expiry or a crash leads to its clean-up.    *)
(* The saved record may have its password replaced, and the sync exchange may   *)
(* take the record and then the secret away; neither of them takes the mutex.   *)
(*                                                                              *)
(* Every other call, and each pass of the reconciler thread, holds the mutex          *)
(* login_automation_secret_lifecycle from its first access to its last, so one  *)
(* call at most is under way; its transactions and vault calls are the steps,   *)
(* between which the vault may be locked or reloaded, a row may expire and the  *)
(* process may die.  A reference stands for its row: operation id, idempotency  *)
(* key and labels of a request are those of its row (a mismatch is refused      *)
(* before anything changes).                                                    *)
EXTENDS SecretVault, Naturals

CONSTANTS LoginRefs,     \* the rows of login_automation_secret_stages; the others
                         \* are rows of host_create_password_stages
          NoRef,
          MaxFaults,     \* I/O faults in a behaviour
          MaxCrashes,    \* deaths of the process in a behaviour
          PowerLoss      \* whether such a death may be a loss of power

ASSUME StageAssumption ==
    /\ LoginRefs \subseteq Refs
    /\ NoRef \notin Refs
    /\ MaxFaults \in Nat
    /\ MaxCrashes \in Nat
    /\ PowerLoss \in BOOLEAN

VARIABLES row,           \* the state column of each row; "Released" is a consumed
                         \* row whose reference no saved record holds any more
          expired,       \* the rows whose expires_at_ms has passed
          current,       \* login rows staged for the automation's present revision
          poisoned,      \* the tables whose ..._stages_poisoned flag is set
          call,          \* the call or reconciler pass that holds the lifecycle mutex
          pass,          \* the table the reconciler thread takes next
          acked,         \* the values callers were told are stored under each row
          faults, crashes

rowVars == <<row, expired, current, poisoned>>
vars == <<vaultVars, rowVars, call, pass, acked, faults, crashes>>

Tables == {"Login", "Password"}
Table(r) == IF r \in LoginRefs THEN "Login" ELSE "Password"

States == {"None", "PendingVault", "Staged", "CleanupPending", "Cancelled", "Consumed",
           "Released"}
Pcs == {"Idle", "Compare", "Insert", "Abort", "Mark", "Next", "Delete", "Finalize"}

Calls == [pc : Pcs, ref : Refs \union {NoRef}, value : Values \union {Absent},
          todo : SUBSET Refs, by : {"User", "Worker"}]

Idle == [pc |-> "Idle", ref |-> NoRef, value |-> Absent, todo |-> {}, by |-> "User"]

(* The type invariant. *)
TypeOK ==
    /\ VaultTypeOK
    /\ row \in [Refs -> States]
    /\ expired \subseteq Refs
    /\ current \subseteq LoginRefs
    /\ poisoned \subseteq Tables
    /\ call \in Calls
    /\ pass \in Tables
    /\ acked \in [Refs -> SUBSET Values]
    /\ faults \in 0 .. MaxFaults
    /\ crashes \in 0 .. MaxCrashes

Init ==
    /\ VaultInit
    /\ row = [r \in Refs |-> "None"]
    /\ expired = {}
    /\ current = {}
    /\ poisoned = {}
    /\ call = Idle
    /\ pass = "Login"
    /\ acked = [r \in Refs |-> {}]
    /\ faults = 0
    /\ crashes = 0

--------------------------------------------------------------------------------
(* A step that goes well, one that meets a fault, and one of either kind        *)
(* depending on what the vault answered.                                        *)
Well == UNCHANGED faults
Ill == faults < MaxFaults /\ faults' = faults + 1
Answered(result) == IF result \in Faults THEN Ill ELSE Well

(* The row's transaction writes `to`. *)
Commit(r, to) == row' = [row EXCEPT ![r] = to]

(* The write fails.  At the commit it may have taken effect nonetheless: the    *)
(* login table then poisons the repository until a restart, the password table  *)
(* when `poisons` says so.  A login transaction whose statement fails is rolled *)
(* back.                                                                        *)
CommitFails(r, to, poisons) ==
    /\ Ill
    /\ \/ /\ row' \in {row, [row EXCEPT ![r] = to]}
          /\ poisoned' = IF poisons \/ Table(r) = "Login"
                         THEN poisoned \union {Table(r)} ELSE poisoned
       \/ /\ Table(r) = "Login"
          /\ UNCHANGED <<row, poisoned>>

(* The call ends.  The reconciler goes on to the other table after a pass that  *)
(* succeeded and starts over with the login table after one that did not.       *)
End(ok) ==
    /\ call' = Idle
    /\ pass' = IF call.by = "User" THEN pass
               ELSE IF ok /\ pass = "Login" THEN "Password"
               ELSE "Login"

Goto(pc) == call' = [call EXCEPT !.pc = pc] /\ UNCHANGED pass

--------------------------------------------------------------------------------
(* create_login_automation_secret and stage_host_create_password.               *)

(* The intent is committed before any vault write; its caller goes on to the    *)
(* insert.  A login row records the automation's present revision.              *)
StageNew(r, v) ==
    /\ call.pc = "Idle"
    /\ Table(r) \notin poisoned
    /\ row[r] = "None"
    /\ \/ /\ Well
          /\ Commit(r, "PendingVault")
          /\ call' = [Idle EXCEPT !.pc = "Insert", !.ref = r, !.value = v]
          /\ UNCHANGED poisoned
       \/ /\ CommitFails(r, "PendingVault", FALSE)
          /\ UNCHANGED call
       \/ /\ Table(r) = "Password"          \* the INSERT itself fails
          /\ Ill
          /\ poisoned' = poisoned \union {"Password"}
          /\ UNCHANGED <<row, call>>
    /\ current' = IF Table(r) = "Login" /\ row'[r] # "None"
                  THEN current \union {r} ELSE current
    /\ UNCHANGED <<vaultVars, expired, pass, acked, crashes>>

(* Mutant: the pending row of an insert that may be unknown is taken up too. *)
ReplayableRowPending(r) == row[r] \in {"PendingVault", "Staged"}

(* A replay finds its row.  Only a staged row is taken up: a pending one, whose *)
(* insert may be unknown, needs a reload, and any other is a conflict.  A login *)
(* replay must not have expired.                                                *)
ReplayableRow(r) == row[r] = "Staged"

StageReplay(r, v) ==
    /\ call.pc = "Idle"
    /\ Table(r) \notin poisoned
    /\ ReplayableRow(r)
    /\ Table(r) = "Login" => r \notin expired
    /\ call' = [Idle EXCEPT !.pc = IF Table(r) = "Login" THEN "Insert" ELSE "Compare",
                            !.ref = r, !.value = v]
    /\ UNCHANGED <<vaultVars, rowVars, pass, acked, faults, crashes>>

(* Mutant: the value of a replay is not compared with the stored one. *)
SameSecretUnchecked(r, v) == access = "Open"

(* A password replay reads the stored value back. *)
SameSecret(r, v) == access = "Open" /\ mem[r] = v

Compare ==
    /\ call.pc = "Compare"
    /\ IF SameSecret(call.ref, call.value) THEN Goto("Mark") ELSE End(FALSE)
    /\ UNCHANGED <<vaultVars, rowVars, acked, faults, crashes>>

(* The vault insert.  Only an error that leaves the reference definitely absent *)
(* lets the intent be aborted; after any other the row stays for the reconciler.*)
Insert ==
    /\ call.pc = "Insert"
    /\ \E result \in Results :
          /\ InsertSecret(call.ref, call.value, result)
          /\ Answered(result)
          /\ \/ result = "Ok" /\ Goto("Mark")
             \/ DefinitelyAbsent(result) /\ Goto("Abort")
             \/ result # "Ok" /\ ~DefinitelyAbsent(result) /\ End(FALSE)
    /\ UNCHANGED <<rowVars, acked, crashes>>

(* abort_pending_...: only a pending intent is cancelled; a staged row, reached *)
(* by a login replay while the vault is locked, is a conflict.                  *)
Abort ==
    /\ call.pc = "Abort"
    /\ \/ /\ row[call.ref] = "PendingVault"
          /\ \/ Well /\ Commit(call.ref, "Cancelled") /\ UNCHANGED poisoned
             \/ CommitFails(call.ref, "Cancelled", FALSE)
       \/ /\ row[call.ref] # "PendingVault"
          /\ Well
          /\ UNCHANGED <<row, poisoned>>
    /\ End(FALSE)
    /\ UNCHANGED <<vaultVars, expired, current, acked, crashes>>

(* mark_..._staged, and the answer to the caller.  Expiry is checked for login  *)
(* rows only.                                                                   *)
Acknowledge == acked' = [acked EXCEPT ![call.ref] = @ \union {call.value}]

Mark ==
    /\ call.pc = "Mark"
    /\ LET late == Table(call.ref) = "Login" /\ call.ref \in expired IN
       \/ /\ row[call.ref] = "Staged"
          /\ Acknowledge
          /\ Well
          /\ UNCHANGED <<row, poisoned>>
       \/ /\ row[call.ref] = "PendingVault"
          /\ ~late
          /\ \/ Commit(call.ref, "Staged") /\ Acknowledge /\ Well /\ UNCHANGED poisoned
             \/ CommitFails(call.ref, "Staged", TRUE) /\ UNCHANGED acked
       \/ /\ row[call.ref] = "PendingVault"
          /\ late
          /\ Well
          /\ UNCHANGED <<row, poisoned, acked>>
    /\ End(TRUE)
    /\ UNCHANGED <<vaultVars, expired, current, crashes>>

--------------------------------------------------------------------------------
(* cancel_login_automation_secret, cancel_host_create_password and the          *)
(* reconciler: the row is marked, the secret deleted, the row finished.         *)

(* begin_..._cleanup.  Finished rows are returned as they are. *)
CleanupTarget(state) ==
    IF state \in {"Cancelled", "Consumed", "Released"} THEN state ELSE "CleanupPending"

CancelBegin(r) ==
    /\ call.pc = "Idle"
    /\ Table(r) \notin poisoned
    /\ row[r] # "None"
    /\ \/ /\ Well
          /\ Commit(r, CleanupTarget(row[r]))
          /\ call' = IF row'[r] # "CleanupPending" THEN Idle
                     ELSE [Idle EXCEPT !.pc = "Delete", !.ref = r]
          /\ UNCHANGED poisoned
       \/ /\ row[r] \in {"PendingVault", "Staged"}
          /\ CommitFails(r, "CleanupPending", FALSE)
          /\ UNCHANGED call
    /\ UNCHANGED <<vaultVars, expired, current, pass, acked, crashes>>

(* Mutant: only rows marked for clean-up are listed. *)
CandidatesMarked(table) ==
    {r \in Refs : Table(r) = table /\ row[r] = "CleanupPending"}

(* list_..._cleanup_candidates.  The order (oldest update first) and the limit  *)
(* of a batch are left open: any candidate may come next.                       *)
Candidates(table) ==
    {r \in Refs : /\ Table(r) = table
                  /\ \/ row[r] \in {"PendingVault", "CleanupPending"}
                     \/ row[r] = "Staged" /\ r \in expired}

(* The reconciler thread takes the mutex for one table: it runs only over an    *)
(* open vault, and a poisoned table ends the round.                             *)
Reconcile ==
    /\ call.pc = "Idle"
    /\ access = "Open" \/ pass = "Password"
    /\ LET todo == Candidates(pass) IN
       IF access = "Open" /\ pass \notin poisoned /\ todo # {}
       THEN call' = [Idle EXCEPT !.pc = "Next", !.todo = todo, !.by = "Worker"] /\ UNCHANGED pass
       ELSE /\ UNCHANGED call
            /\ pass' = IF pass = "Login" /\ pass \notin poisoned THEN "Password" ELSE "Login"
    /\ UNCHANGED <<vaultVars, rowVars, acked, faults, crashes>>

(* The next candidate of the batch.  A row that was cancelled is skipped; one   *)
(* that was consumed would be deleted: that it cannot be is the lock's work.    *)
ReconcileNext(r) ==
    /\ call.pc = "Next"
    /\ r \in call.todo
    /\ \/ /\ Well
          /\ Commit(r, CleanupTarget(row[r]))
          /\ IF row[r] = "Cancelled"
             THEN /\ IF call.todo = {r} THEN End(TRUE)
                     ELSE call' = [call EXCEPT !.todo = @ \ {r}] /\ UNCHANGED pass
             ELSE /\ call' = [call EXCEPT !.pc = "Delete", !.ref = r, !.todo = @ \ {r}]
                  /\ UNCHANGED pass
          /\ UNCHANGED poisoned
       \/ /\ row[r] \in {"PendingVault", "Staged"}
          /\ CommitFails(r, "CleanupPending", FALSE)
          /\ End(FALSE)
    /\ UNCHANGED <<vaultVars, expired, current, acked, crashes>>

Delete ==
    /\ call.pc = "Delete"
    /\ \E result \in Results :
          /\ DeleteSecret(call.ref, result)
          /\ Answered(result)
          /\ IF result = "Ok" THEN Goto("Finalize") ELSE End(FALSE)
    /\ UNCHANGED <<rowVars, acked, crashes>>

(* finalize_..._cleanup; the reconciler then takes its next candidate. *)
Finalize ==
    /\ call.pc = "Finalize"
    /\ \/ /\ row[call.ref] = "CleanupPending"
          /\ Well
          /\ Commit(call.ref, "Cancelled")
          /\ IF call.todo = {} THEN End(TRUE) ELSE Goto("Next")
          /\ UNCHANGED poisoned
       \/ /\ row[call.ref] = "CleanupPending"
          /\ CommitFails(call.ref, "Cancelled", FALSE)
          /\ End(FALSE)
       \/ /\ row[call.ref] # "CleanupPending"
          /\ Well
          /\ End(FALSE)
          /\ UNCHANGED <<row, poisoned>>
    /\ UNCHANGED <<vaultVars, expired, current, acked, crashes>>

--------------------------------------------------------------------------------
(* replace_login_automation consuming a staged secret, create_host_configured   *)
(* and save_desktop_profile_with_password_stage consuming a staged password:    *)
(* one transaction that also publishes the references to the saved record, of   *)
(* which an automation may have several.                                        *)
Consumable(r) ==
    /\ row[r] = "Staged"
    /\ r \notin expired
    /\ Table(r) = "Login" => r \in current /\ "Login" \notin poisoned

Consume(S) ==
    LET login == S \subseteq LoginRefs
        saved == [r \in Refs |-> IF r \in S THEN "Consumed" ELSE row[r]] IN
    /\ call.pc = "Idle"
    /\ S # {}
    /\ login \/ \E r \in Refs \ LoginRefs : S = {r}
    /\ \A r \in S : Consumable(r)
    /\ \/ Well /\ row' = saved /\ UNCHANGED poisoned
       \/ /\ Ill
          /\ row' \in {row, saved}
          /\ poisoned' = IF login THEN poisoned \union {"Login"} ELSE poisoned
       \/ login /\ Ill /\ UNCHANGED <<row, poisoned>>
    /\ current' = IF login /\ row' = saved THEN {} ELSE current
    /\ UNCHANGED <<vaultVars, expired, call, pass, acked, crashes>>

(* replace_login_automation without a staged secret only moves the revision on. *)
ReplaceAutomation ==
    /\ call.pc = "Idle"
    /\ "Login" \notin poisoned
    /\ current # {}
    /\ current' = {}
    /\ UNCHANGED <<vaultVars, row, expired, poisoned, call, pass, acked, faults, crashes>>

--------------------------------------------------------------------------------
(* After the record is saved. *)

(* replace_password_credential, for a credential whose reference is the row's.  *)
(* Its caller learns that the new value is stored, or, if the outcome is        *)
(* unknown, neither of the two.                                                 *)
ReplacePassword(r, v) ==
    /\ Table(r) = "Password"
    /\ row[r] \in {"Consumed", "Released"}
    /\ \E result \in Results :
          /\ ReplaceSecret(r, v, result)
          /\ Answered(result)
          /\ acked' = CASE result = "Ok" -> [acked EXCEPT ![r] = {v}]
                        [] result = "CommitStateUnknown" -> [acked EXCEPT ![r] = {}]
                        [] OTHER -> acked
    /\ UNCHANGED <<rowVars, call, pass, crashes>>

(* A delta of the sync exchange updates or deletes the record, and puts the     *)
(* reference on the queue of the vault's garbage collection.                    *)
SyncRelease(r) ==
    /\ row[r] = "Consumed"
    /\ Commit(r, "Released")
    /\ UNCHANGED <<vaultVars, expired, current, poisoned, call, pass, acked, faults, crashes>>

(* reconcile_vault_gc, in a session of the exchange. *)
SyncCollect(r) ==
    /\ row[r] = "Released"
    /\ \E result \in Results : DeleteSecret(r, result) /\ Answered(result)
    /\ UNCHANGED <<rowVars, call, pass, acked, crashes>>

--------------------------------------------------------------------------------
(* What happens around a call. *)
Expire(r) ==
    /\ row[r] \notin {"None", "Cancelled", "Consumed", "Released"}
    /\ r \notin expired
    /\ expired' = expired \union {r}
    /\ UNCHANGED <<vaultVars, row, current, poisoned, call, pass, acked, faults, crashes>>

Unlock == UnlockVault /\ UNCHANGED <<rowVars, call, pass, acked, faults, crashes>>
Lock == LockVault /\ UNCHANGED <<rowVars, call, pass, acked, faults, crashes>>

OtherWrite ==
    /\ \E result \in Results : WriteElsewhere(result) /\ Answered(result)
    /\ UNCHANGED <<rowVars, call, pass, acked, crashes>>

(* The process dies and starts again; SQLite commits are durable (synchronous = *)
(* FULL), the flags and the call are not.                                       *)
Crash ==
    /\ crashes < MaxCrashes
    /\ crashes' = crashes + 1
    /\ CrashVault \/ (PowerLoss /\ PowerLossVault)
    /\ poisoned' = {}
    /\ call' = Idle
    /\ pass' = "Login"
    /\ UNCHANGED <<row, expired, current, acked, faults>>

CallStep ==
    \/ Compare
    \/ Insert
    \/ Abort
    \/ Mark
    \/ \E r \in Refs : ReconcileNext(r)
    \/ Delete
    \/ Finalize

Next ==
    \/ \E r \in Refs, v \in Values :
          StageNew(r, v) \/ StageReplay(r, v) \/ ReplacePassword(r, v)
    \/ \E r \in Refs : CancelBegin(r) \/ Expire(r) \/ SyncRelease(r) \/ SyncCollect(r)
    \/ \E S \in SUBSET Refs : Consume(S)
    \/ CallStep
    \/ Reconcile
    \/ ReplaceAutomation
    \/ Unlock
    \/ Lock
    \/ OtherWrite
    \/ Crash

Spec == Init /\ [][Next]_vars

(* A call that holds the mutex goes on, and the reconciler, whose interval      *)
(* elapses over and over, gets the mutex now and then: calls are a user's, with *)
(* pauses between them.                                                         *)
FairSpec == Spec /\ WF_vars(CallStep) /\ SF_vars(Reconcile)

--------------------------------------------------------------------------------
(* A secret that is offered for use is in the vault file, the same before and   *)
(* after a crash or a loss of power, and one that a saved record refers to is   *)
(* there too: a caller that was told "staged" and a host that was saved never   *)
(* find it missing.  (While the outcome of a password's replacement is unknown, *)
(* a loss of power may bring the value before it back.)                         *)
StagedIsStored ==
    \A r \in Refs :
        /\ row[r] = "Staged" => file[r] = synced[r]
        /\ row[r] \in {"Staged", "Consumed"} => file[r] # Absent /\ synced[r] # Absent

(* Every caller that was told its value is stored was told the truth: whatever  *)
(* was staged, replayed or replaced, the durable value is the one the last      *)
(* caller that was told so sent, until the record gives the reference up.       *)
AckedIsStored ==
    \A r \in Refs : row[r] \in {"Staged", "Consumed"} => acked[r] \subseteq {synced[r]}

(* A row that says the secret is gone is right: nothing is left in the vault    *)
(* file that no row would lead a clean-up to.                                   *)
CancelledIsGone ==
    \A r \in Refs : row[r] \in {"None", "Cancelled"} => file[r] = Absent

(* The row states seen as the phases of SecretCustody, over the visible file. *)
PhaseOf(state) ==
    CASE state = "None" -> "None"
      [] state = "PendingVault" -> "Pending"
      [] state = "Staged" -> "Live"
      [] state = "Consumed" -> "Used"
      [] state = "Released" -> "Released"
      [] state = "CleanupPending" -> "Retiring"
      [] state = "Cancelled" -> "Gone"

Custody == INSTANCE SecretCustody WITH phase <- [r \in Refs |-> PhaseOf(row[r])],
                                       kept <- file

(* Both staging protocols keep the custody promise. *)
CustodySpec == Custody!Spec

(* Once the vault stays open, every intent and clean-up left behind by a        *)
(* failure or a crash reaches an end, unless a repository flag asks for a       *)
(* restart.                                                                     *)
CleanupFinishes ==
    <>[](access = "Open") =>
        \A r \in Refs :
            row[r] \in {"PendingVault", "CleanupPending"}
                ~> row[r] \in {"Staged", "Consumed", "Released", "Cancelled"} \/ poisoned # {}

================================================================================
