------------------------------ MODULE SecretVault ------------------------------
(* The vault file and the one unlocked instance VaultService holds of it        *)
(* (src/crates/secret-vault/src/lib.rs, src/src-tauri/src/vault_service.rs), as *)
(* the services that keep secrets beside SQLite rows use it.  Every call below  *)
(* runs whole under the `unlocked` mutex, so each is one step of its caller.    *)
(*                                                                              *)
(* A persist writes the whole payload: a staging file is fsynced, renamed over  *)
(* the vault file, and the directory is fsynced.  Three outcomes follow: done;  *)
(* failed before the rename, with the change in memory rolled back; or renamed  *)
(* with the directory fsync failed, which poisons the instance until a reload.  *)
(* After the last one a crash of the process keeps the new file, while a loss   *)
(* of power may bring the old one back: `file` is what a reader sees, `synced`  *)
(* what the disk is known to hold.                                              *)
CONSTANTS Refs,      \* the secret references of the modelled rows
          Values,    \* the values callers store
          Absent     \* no entry under a reference

ASSUME AbsentAssumption == Absent \notin Values

VARIABLES access,    \* "Locked", "Open" or "Poisoned": the guard, and requires_reload()
          mem,       \* payload.entries of the unlocked instance
          file,      \* the vault file a reader sees
          synced     \* the vault file a loss of power leaves

vaultVars == <<access, mem, file, synced>>

Contents == [Refs -> Values \union {Absent}]

Empty == [r \in Refs |-> Absent]

VaultTypeOK ==
    /\ access \in {"Locked", "Open", "Poisoned"}
    /\ mem \in Contents
    /\ file \in Contents
    /\ synced \in Contents

VaultInit ==
    /\ access = "Locked"
    /\ mem = Empty
    /\ file = Empty
    /\ synced = Empty

(* UnlockedVault::persist with the rollback of the mutation that called it. *)
Persist(new, result) ==
    \/ /\ result = "Ok"
       /\ mem' = new
       /\ file' = new
       /\ synced' = new
       /\ UNCHANGED access
    \/ /\ result = "Failed"
       /\ UNCHANGED vaultVars
    \/ /\ result = "CommitStateUnknown"
       /\ access' = "Poisoned"
       /\ mem' = new
       /\ file' = new
       /\ synced' \in {synced, file}   \* the rename before this one may last

(* The early returns every call on the guard begins with. *)
Refused(result) ==
    /\ \/ access = "Locked" /\ result = "NotUnlocked"
       \/ access = "Poisoned" /\ result = "ReloadRequired"
    /\ UNCHANGED vaultVars

(* VaultService::insert_secrets for one reference.  A reference that is there   *)
(* already is accepted when it holds the same value and is a conflict if not.   *)
InsertSecret(r, v, result) ==
    \/ Refused(result)
    \/ /\ access = "Open"
       /\ mem[r] # Absent
       /\ result = (IF mem[r] = v THEN "Ok" ELSE "SecretConflict")
       /\ UNCHANGED vaultVars
    \/ /\ access = "Open"
       /\ mem[r] = Absent
       /\ Persist([mem EXCEPT ![r] = v], result)

(* VaultService::delete_secrets for one reference; a missing one is already     *)
(* clean and writes nothing.                                                    *)
DeleteSecret(r, result) ==
    \/ Refused(result)
    \/ /\ access = "Open"
       /\ mem[r] = Absent
       /\ result = "Ok"
       /\ UNCHANGED vaultVars
    \/ /\ access = "Open"
       /\ mem[r] # Absent
       /\ Persist([mem EXCEPT ![r] = Absent], result)

(* VaultService::replace_secret: another value under a reference that is there. *)
ReplaceSecret(r, v, result) ==
    \/ Refused(result)
    \/ /\ access = "Open"
       /\ mem[r] = Absent
       /\ result = "SecretNotFound"
       /\ UNCHANGED vaultVars
    \/ /\ access = "Open"
       /\ mem[r] # Absent
       /\ Persist([mem EXCEPT ![r] = v], result)

(* Mutant: any error is taken for an absent secret. *)
AnyError(result) == result # "Ok"

(* secret_insert_definitely_absent: the errors after which the caller may       *)
(* conclude that nothing was stored under the reference it minted.              *)
DefinitelyAbsent(result) ==
    result \notin {"Ok", "SecretConflict", "CommitStateUnknown", "ReloadRequired"}

Faults == {"Failed", "CommitStateUnknown"}
Results == Faults \union {"Ok", "NotUnlocked", "ReloadRequired", "SecretConflict",
                          "SecretNotFound"}

(* unlock and try_auto_unlock read the file again; unlock also replaces a       *)
(* poisoned instance.                                                           *)
UnlockVault ==
    /\ access # "Open"
    /\ access' = "Open"
    /\ mem' = file
    /\ UNCHANGED <<file, synced>>

(* lock drops the instance. *)
LockVault ==
    /\ access # "Locked"
    /\ access' = "Locked"
    /\ mem' = Empty
    /\ UNCHANGED <<file, synced>>

(* Another client of the vault (the OAuth tokens of plugins, the keys of the    *)
(* sync profiles) persists a change of entries that are not modelled here.      *)
WriteElsewhere(result) ==
    /\ access = "Open"
    /\ result \in {"Ok", "CommitStateUnknown"}
    /\ Persist(mem, result)

(* The process ends and is started again: the file is as a reader saw it. *)
CrashVault ==
    /\ access' = "Locked"
    /\ mem' = Empty
    /\ UNCHANGED <<file, synced>>

(* The machine loses power: an unsynced rename may be undone. *)
PowerLossVault ==
    /\ access' = "Locked"
    /\ mem' = Empty
    /\ file' \in {file, synced}
    /\ synced' = file'

--------------------------------------------------------------------------------
(* What the sagas use of the vault. *)

(* An open instance holds what the file holds: a persist changes both or        *)
(* neither, and only a reload follows an unknown outcome.                       *)
MemIsFile == access = "Open" => mem = file

(* What a vault call may do to the entries of other rows: the visible value     *)
(* stays, and a persist may only make it durable.                               *)
Spares(r) ==
    \A s \in Refs \ {r} : file'[s] = file[s] /\ synced'[s] \in {synced[s], file[s]}

================================================================================
