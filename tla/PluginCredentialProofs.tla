------------------------- MODULE PluginCredentialProofs -------------------------
(* Proofs about the credentials of PluginCredential, for every set of           *)
(* references, values and invocations and every number of faults and crashes,   *)
(* losses of power included.                                                    *)
EXTENDS PluginCredential, TLAPS

(* What an invocation has: a reference once it was made, a value once one was   *)
(* entered, and a row that was offered once it was told of it.                  *)
InvInv ==
    \A i \in Invocations :
        /\ inv[i].pc # "Out" => inv[i].ref \in Refs
        /\ inv[i].pc \in {"Out", "Preparing", "Prompt"} => inv[i].value = Absent
        /\ inv[i].pc = "Told" => row[inv[i].ref] \in {"Ready", "CleanupPending", "Revoked"}

(* Where the future of a job or a call can be. *)
Futures(kind) ==
    {"Over"} \union (IF kind = "Prepare" THEN {"Preparing"}
                     ELSE IF kind = "Finish" THEN {"Finishing"} ELSE {})

Asks(kind) == kind \in {"Prepare", "Finish"}

(* An invocation asks for its prepare and for its finish once. *)
JobInv ==
    \A j \in jobs : j.kind # "Cleanup" =>
        /\ j.by \in Invocations
        /\ inv[j.by].pc \in Futures(j.kind)
        /\ Asks(j.kind) => \A k \in jobs : k.kind = j.kind /\ k.by = j.by => k = j

(* A call that works for an invocation works on its row, and was asked for once. *)
CallerInv ==
    call.kind \in {"Prepare", "Finish", "Cancel"} =>
        /\ call.by \in Invocations
        /\ inv[call.by].pc \in Futures(call.kind)
        /\ call.ref = inv[call.by].ref
        /\ Asks(call.kind) => \A k \in jobs : ~(k.kind = call.kind /\ k.by = call.by)

(* Invocation i has the intent of its row and has not stored anything yet. *)
Holds(i) ==
    \/ inv[i].pc = "Prompt"
    \/ \E j \in jobs : j.kind = "Finish" /\ j.by = i
    \/ call.kind = "Finish" /\ call.by = i /\ call.pc \in {"Exact", "Insert"}
    \/ call.kind = "Prepare" /\ call.by = i /\ call.pc = "FenceNew"

(* An intent has one holder, and while it has one the vault has no entry. *)
HoldInv ==
    \A i \in Invocations : Holds(i) =>
        LET r == inv[i].ref IN
        /\ row[r] # "None"
        /\ row[r] = "PendingVault" => file[r] = Absent /\ synced[r] = Absent
        /\ \A k \in Invocations : Holds(k) /\ inv[k].ref = r => k = i

(* What the call that holds the mutex has established of its row. *)
CallInv ==
    LET r == call.ref IN
    /\ call.pc = "Idle" => call = Idle
    /\ call.pc # "Idle" => call.kind # "None"
    /\ call.pc \notin {"Idle", "Next"} => r \in Refs
    /\ call.pc \in {"Begin", "Find", "FenceNew", "FenceOld"} => call.kind = "Prepare"
    /\ call.pc \in {"Insert", "FenceStored", "Ready", "Observe"} => call.kind = "Finish"
    /\ call.pc = "Exact" => call.kind \in {"Finish", "Cancel"}
    /\ call.pc \in {"FenceNew", "Insert", "FenceStored"} => row[r] = "PendingVault"
    /\ call.pc = "Insert" => inv[call.by].value \in Values
    /\ call.pc \in {"FenceStored", "Ready"} =>
          /\ row[r] = "PendingVault"
          /\ inv[call.by].value \in Values
          /\ file[r] = inv[call.by].value
          /\ synced[r] = inv[call.by].value
    /\ call.pc \in {"Mark", "MarkOnly"} =>
          IF call.kind = "Revoke" THEN row[r] # "None" ELSE row[r] = "PendingVault"
    /\ call.pc \in {"Delete", "Finalize"} => row[r] = "CleanupPending"
    /\ call.pc = "Finalize" => file[r] = Absent
    /\ call.todo # {} => call.kind \in Loops
    /\ \A t \in call.todo : row[t] = "CleanupPending" /\ (call.pc # "Next" => t # r)
    /\ call.kind \in Loops => call.pc \in {"Next", "Delete", "Finalize"}

(* A row that was never created has no entry. *)
NothingYet == \A r \in Refs : row[r] = "None" => file[r] = Absent /\ synced[r] = Absent

UninstallInv == deleted => alive = {}

IInv ==
    /\ TypeOK
    /\ MemIsFile
    /\ NothingYet
    /\ InvInv
    /\ JobInv
    /\ CallerInv
    /\ HoldInv
    /\ CallInv
    /\ ReadyIsStored
    /\ UninstalledIsRevoked
    /\ UninstallInv

--------------------------------------------------------------------------------
(* The steps SecretCustody knows, in terms of the row states: a row moves along *)
(* its protocol, or an entry changes under an intent or a clean-up, or comes    *)
(* back under a revoked row with a loss of power.                               *)
Moves(r) ==
    \/ row'[r] = row[r]
    \/ row[r] = "None" /\ row'[r] = "PendingVault"
    \/ row[r] = "PendingVault" /\ row'[r] = "Ready" /\ file[r] # Absent /\ synced[r] = file[r]
    \/ row[r] \in {"PendingVault", "Ready"} /\ row'[r] = "CleanupPending"
    \/ row[r] = "CleanupPending" /\ row'[r] = "Revoked" /\ file[r] = Absent

Exposed(r) ==
    \/ row[r] \in {"PendingVault", "CleanupPending"}
    \/ PowerLoss /\ row[r] = "Revoked"

Shape ==
    \/ file' = file /\ \A r \in Refs : Moves(r)
    \/ row' = row /\ \A r \in Refs : file'[r] # file[r] => Exposed(r)

(* The rows move and the vault does not. *)
RowsMove ==
    /\ UNCHANGED vaultVars
    /\ row' \in [Refs -> States]
    /\ \A r \in Refs : Moves(r)

(* An uninstall retires every row, and nothing is created after it. *)
Uninstalls ==
    /\ alive' \subseteq alive
    /\ deleted' => \/ deleted /\ \A r \in Refs : row[r] = "None" => row'[r] = "None"
                   \/ /\ alive = {}
                      /\ \A r \in Refs : row'[r] \in {"None", "CleanupPending", "Revoked"}

(* The future of invocation i stays or takes one of its steps. *)
FutureMoves(i) ==
    \/ inv'[i] = inv[i]
    \/ /\ inv[i].pc = "Out" /\ inv'[i].pc = "Preparing"
       /\ inv'[i].ref \in Refs /\ inv'[i].value = inv[i].value
    \/ inv[i].pc = "Prompt" /\ inv'[i].pc = "Finishing" /\ inv'[i].ref = inv[i].ref
    \/ /\ inv'[i].ref = inv[i].ref /\ inv'[i].value = inv[i].value
       /\ \/ inv[i].pc # "Out" /\ inv'[i].pc = "Over"
          \/ inv[i].pc = "Preparing" /\ inv'[i].pc = "Prompt"
          \/ /\ inv[i].pc \in {"Preparing", "Finishing"} /\ inv'[i].pc = "Told"
             /\ row'[inv[i].ref] = "Ready"
             /\ inv[i].value \in {Absent, synced[inv[i].ref]}

(* The call creates the row of its invocation i. *)
Creates(i) ==
    /\ i = call.by
    /\ inv'[i] = inv[i]
    /\ inv[i].ref \in Refs
    /\ row[inv[i].ref] = "None"
    /\ row'[inv[i].ref] = "PendingVault"

(* Only who creates a row gets an intent it had not. *)
FuturesMove ==
    \A i \in Invocations : FutureMoves(i) /\ (Holds(i)' => Holds(i) \/ Creates(i))

Claims ==
    /\ MemIsFile
    /\ NothingYet
    /\ InvInv
    /\ HoldInv
    /\ ReadyIsStored
    /\ UninstalledIsRevoked
    /\ UninstallInv

(* Who holds an intent has been invoked. *)
LEMMA HolderFacts ==
    ASSUME IInv, NEW i \in Invocations, Holds(i)
    PROVE  inv[i].pc # "Out" /\ inv[i].ref \in Refs
  <1>1. inv[i].pc # "Out"
    BY DEF IInv, Holds, JobInv, CallerInv, Futures
  <1> QED
    BY <1>1 DEF IInv, InvInv

(* A step in which the rows and the futures move so disturbs no claim. *)
LEMMA QuietClaims ==
    ASSUME IInv, RowsMove, FuturesMove, Uninstalls
    PROVE  Claims' /\ Shape
  <1> USE AbsentAssumption DEF IInv
  <1>1. /\ UNCHANGED <<access, mem, file, synced>>
        /\ \A r \in Refs : Moves(r) /\ row[r] \in States /\ row'[r] \in States
    BY DEF RowsMove, vaultVars, TypeOK
  <1>2. MemIsFile' /\ NothingYet'
    BY <1>1 DEF MemIsFile, NothingYet, Moves
  <1>3. InvInv'
    <2> SUFFICES ASSUME NEW i \in Invocations
                 PROVE  /\ inv'[i].pc # "Out" => inv'[i].ref \in Refs
                        /\ inv'[i].pc \in {"Out", "Preparing", "Prompt"} => inv'[i].value = Absent
                        /\ inv'[i].pc = "Told" =>
                              row'[inv'[i].ref] \in {"Ready", "CleanupPending", "Revoked"}
      BY DEF InvInv
    <2>1. FutureMoves(i)
      BY DEF FuturesMove
    <2>2. /\ inv[i].pc # "Out" => inv[i].ref \in Refs
          /\ inv[i].pc \in {"Out", "Preparing", "Prompt"} => inv[i].value = Absent
          /\ inv[i].pc = "Told" => row[inv[i].ref] \in {"Ready", "CleanupPending", "Revoked"}
      BY DEF InvInv
    <2> QED
      BY <1>1, <2>1, <2>2 DEF Moves, FutureMoves
  <1>4. HoldInv'
    <2> SUFFICES ASSUME NEW i \in Invocations, Holds(i)'
                 PROVE  /\ row'[inv'[i].ref] # "None"
                        /\ row'[inv'[i].ref] = "PendingVault" =>
                              file'[inv'[i].ref] = Absent /\ synced'[inv'[i].ref] = Absent
                        /\ \A k \in Invocations : Holds(k)' /\ inv'[k].ref = inv'[i].ref => k = i
      BY DEF HoldInv
    <2>1. \A k \in Invocations : Holds(k)' =>
              (Holds(k) \/ Creates(k)) /\ inv'[k].ref = inv[k].ref /\ inv[k].ref \in Refs
      BY HolderFacts DEF FuturesMove, FutureMoves, Creates
    <2>2. CASE Holds(i)
      BY <1>1, <2>1, <2>2 DEF HoldInv, Moves, Creates
    <2>3. CASE Creates(i)
      BY <1>1, <2>1, <2>3 DEF HoldInv, NothingYet, Creates
    <2> QED
      BY <2>1, <2>2, <2>3
  <1>5. ReadyIsStored'
    <2> SUFFICES ASSUME NEW r \in Refs, row'[r] = "Ready"
                 PROVE  /\ synced[r] # Absent /\ file[r] = synced[r]
                        /\ \A i \in Invocations : inv'[i].ref = r /\ inv'[i].pc = "Told" =>
                              inv'[i].value \in {Absent, synced[r]}
      BY <1>1 DEF ReadyIsStored
    <2>1. synced[r] # Absent /\ file[r] = synced[r]
      BY <1>1 DEF ReadyIsStored, Moves
    <2>2. ASSUME NEW i \in Invocations, inv'[i].ref = r, inv'[i].pc = "Told"
          PROVE  inv'[i].value \in {Absent, synced[r]}
      <3>1. FutureMoves(i)
        BY DEF FuturesMove
      <3>2. CASE inv'[i] = inv[i]
        <4>1. row[r] = "Ready"
          BY <1>1, <2>2, <3>2 DEF InvInv, Moves
        <4> QED
          BY <2>2, <3>2, <4>1 DEF ReadyIsStored
      <3>3. CASE inv'[i] # inv[i]
        BY <2>2, <3>1, <3>3 DEF FutureMoves
      <3> QED
        BY <3>2, <3>3
    <2> QED
      BY <2>1, <2>2
  <1>6. UninstalledIsRevoked' /\ UninstallInv'
    BY <1>1 DEF UninstalledIsRevoked, UninstallInv, Uninstalls, Moves
  <1>7. Shape
    BY <1>1 DEF Shape
  <1> QED
    BY <1>2, <1>3, <1>4, <1>5, <1>6, <1>7 DEF Claims

--------------------------------------------------------------------------------
(* What the calls do with their future. *)

(* A call that goes on. *)
LEMMA GotoFacts ==
    ASSUME TypeOK, NEW pc \in Pcs, Goto(pc)
    PROVE  /\ call' \in Calls
           /\ call'.pc = pc
           /\ call'.kind = call.kind
           /\ call'.by = call.by
           /\ call'.ref = call.ref
           /\ call'.todo = call.todo
           /\ UNCHANGED <<inv, jobs, app>>
  BY DEF Goto, Calls, TypeOK

(* ... past the point where it holds an intent. *)
LEMMA GotoQuiet ==
    ASSUME IInv, NEW pc \in Pcs, Goto(pc),
           pc \notin {"Exact", "Insert", "FenceNew"} \/ (pc = "Insert" /\ call.pc = "Exact")
    PROVE  FuturesMove /\ JobInv' /\ CallerInv'
  <1> USE DEF IInv
  <1>1. /\ call'.pc = pc /\ call'.kind = call.kind /\ call'.by = call.by
        /\ call'.ref = call.ref /\ UNCHANGED <<inv, jobs>>
    BY GotoFacts
  <1>2. JobInv' /\ CallerInv'
    BY <1>1 DEF JobInv, CallerInv, Futures, Asks
  <1>3. \A i \in Invocations : Holds(i)' => Holds(i)
    BY <1>1 DEF Holds
  <1> QED
    BY <1>1, <1>2, <1>3 DEF FuturesMove, FutureMoves

(* A future that ends leaves its intent to a cancel. *)
LEMMA LeaveFacts ==
    ASSUME TypeOK, JobInv, NEW i \in Invocations, Leave(i), inv[i].pc # "Out"
    PROVE  /\ inv' \in [Invocations -> Invs] /\ jobs' \subseteq Jobs
           /\ JobInv'
           /\ \A k \in Invocations :
                 /\ FutureMoves(k) /\ inv'[k].value = inv[k].value /\ inv'[k].ref = inv[k].ref
                 /\ inv'[k].pc \in {inv[k].pc, "Over"}
           /\ \A j \in jobs' : j \in jobs \/ j.kind = "Cancel"
  <1>1. /\ inv' = [inv EXCEPT ![i].pc = "Over"]
        /\ jobs' = jobs \/ jobs' = jobs \union {Job("Cancel", i)}
    BY DEF Leave
  <1>2. /\ Job("Cancel", i) \in Jobs /\ Job("Cancel", i).kind = "Cancel"
        /\ Job("Cancel", i).by = i
    BY DEF Job, Jobs
  <1>3. \A k \in Invocations : inv[k] \in Invs
    BY DEF TypeOK
  <1>4. inv' \in [Invocations -> Invs] /\ jobs' \subseteq Jobs
    BY <1>1, <1>2 DEF TypeOK, Invs
  <1>5. \A k \in Invocations :
                 /\ FutureMoves(k) /\ inv'[k].value = inv[k].value /\ inv'[k].ref = inv[k].ref
                 /\ inv'[k].pc \in {inv[k].pc, "Over"}
    BY <1>1, <1>3 DEF Invs, TypeOK, FutureMoves
  <1>6. inv'[i].pc = "Over"
    BY <1>1, <1>3 DEF Invs, TypeOK
  <1>7. \A j \in jobs' : j \in jobs \/ (j.kind = "Cancel" /\ j.by = i)
    BY <1>1, <1>2
  <1>8. JobInv'
    BY <1>5, <1>6, <1>7 DEF JobInv, Futures, Asks
  <1> QED
    BY <1>4, <1>5, <1>7, <1>8

(* The idle call says nothing. *)
LEMMA IdleFacts ==
    /\ Idle \in Calls /\ Idle.pc = "Idle" /\ Idle.kind = "None" /\ Idle.todo = {}
    /\ Idle.by = NoInv /\ Idle.ref = NoRef
  BY DEF Idle, Calls, Kinds, Pcs

LEMMA IdleCall ==
    ASSUME call' = Idle
    PROVE  call' \in Calls /\ CallerInv' /\ CallInv'
  BY IdleFacts DEF CallerInv, CallInv, Loops

(* A call that fails. *)
LEMMA FailFacts ==
    ASSUME IInv, Fail
    PROVE  /\ inv' \in [Invocations -> Invs] /\ jobs' \subseteq Jobs
           /\ call' \in Calls /\ app' \in {"Starting", "Up", "Ended"}
           /\ FuturesMove /\ JobInv' /\ CallerInv' /\ CallInv'
  <1> USE DEF IInv
  <1>1. call' = Idle /\ app' \in {"Starting", "Up", "Ended"}
    BY DEF Fail, TypeOK
  <1>2. CASE UNCHANGED <<inv, jobs>>
    <2>1. JobInv'
      BY <1>2 DEF JobInv
    <2>2. FuturesMove
      BY <1>1, <1>2, IdleFacts DEF FuturesMove, FutureMoves, Holds
    <2> QED
      BY <1>1, <1>2, <2>1, <2>2, IdleCall DEF TypeOK
  <1>3. CASE /\ call.kind \in {"Prepare", "Finish"} /\ Leave(call.by)
             /\ inv[call.by].pc \in {"Preparing", "Finishing"}
    <2>1. call.by \in Invocations /\ inv[call.by].pc # "Out"
      BY <1>3 DEF CallerInv
    <2>2. /\ inv' \in [Invocations -> Invs] /\ jobs' \subseteq Jobs
          /\ JobInv'
          /\ \A k \in Invocations :
                 /\ FutureMoves(k) /\ inv'[k].value = inv[k].value /\ inv'[k].ref = inv[k].ref
                 /\ inv'[k].pc \in {inv[k].pc, "Over"}
          /\ \A j \in jobs' : j \in jobs \/ j.kind = "Cancel"
      BY <1>3, <2>1, LeaveFacts
    <2>3. FuturesMove
      BY <1>1, <2>2, IdleFacts DEF FuturesMove, FutureMoves, Holds
    <2> QED
      BY <1>1, <2>2, <2>3, IdleCall
  <1> QED
    BY <1>2, <1>3 DEF Fail

(* A step outside the mutex leaves the rows and what the call knows. *)
LEMMA SameRows ==
    ASSUME TypeOK, UNCHANGED <<vaultVars, row>>
    PROVE  /\ RowsMove
           /\ deleted' = deleted /\ alive' \subseteq alive => Uninstalls
  BY DEF RowsMove, Uninstalls, Moves, TypeOK

LEMMA SameCall ==
    ASSUME CallInv, UNCHANGED <<vaultVars, row, call>>,
           call.kind = "Finish" => inv'[call.by].value = inv[call.by].value
    PROVE  CallInv'
  BY DEF CallInv, vaultVars, Loops

--------------------------------------------------------------------------------
(* The futures. *)
LEMMA InvokeStep ==
    ASSUME IInv, NEW i \in Invocations, NEW r \in Refs, Invoke(i, r)
    PROVE  IInv' /\ Shape
  <1> USE DEF IInv
  <1>1. /\ UNCHANGED <<vaultVars, row, alive, call, app, deleted, faults, crashes>>
        /\ inv' = [inv EXCEPT ![i].pc = "Preparing", ![i].ref = r] /\ inv[i].pc = "Out"
        /\ jobs' = jobs \union {Job("Prepare", i)}
    BY DEF Invoke
  <1>2. Job("Prepare", i) \in Jobs /\ Job("Prepare", i).kind = "Prepare" /\ Job("Prepare", i).by = i
    BY DEF Job, Jobs
  <1>3. /\ inv' \in [Invocations -> Invs]
        /\ inv'[i].pc = "Preparing" /\ inv'[i].ref = r /\ inv'[i].value = inv[i].value
        /\ \A k \in Invocations : k # i => inv'[k] = inv[k]
    BY <1>1 DEF Invs, TypeOK
  <1>4. /\ \A j \in jobs : j.kind # "Cleanup" => j.by # i
        /\ call.kind \in {"Prepare", "Finish", "Cancel"} => call.by # i
    BY <1>1 DEF JobInv, CallerInv, Futures
  <1>5. JobInv' /\ CallerInv'
    BY <1>1, <1>2, <1>3, <1>4 DEF JobInv, CallerInv, Futures, Asks
  <1>6. FuturesMove
    BY <1>1, <1>2, <1>3, <1>4 DEF FuturesMove, FutureMoves, Holds
  <1>7. Claims' /\ Shape
    BY <1>1, <1>6, SameRows, QuietClaims
  <1>8. TypeOK'
    BY <1>1, <1>2, <1>3 DEF TypeOK, VaultTypeOK, vaultVars
  <1>9. CallInv'
    BY <1>1, <1>3, <1>4, SameCall DEF CallerInv
  <1> QED
    BY <1>5, <1>7, <1>8, <1>9 DEF Claims

LEMMA EnterStep ==
    ASSUME IInv, NEW i \in Invocations, NEW v \in Values \union {Absent}, Enter(i, v)
    PROVE  IInv' /\ Shape
  <1> USE DEF IInv
  <1>1. /\ UNCHANGED <<vaultVars, row, alive, call, app, deleted, faults, crashes>>
        /\ inv' = [inv EXCEPT ![i].pc = "Finishing", ![i].value = v] /\ inv[i].pc = "Prompt"
        /\ jobs' = jobs \union {Job("Finish", i)}
    BY DEF Enter
  <1>2. Job("Finish", i) \in Jobs /\ Job("Finish", i).kind = "Finish" /\ Job("Finish", i).by = i
    BY DEF Job, Jobs
  <1>3. /\ inv' \in [Invocations -> Invs]
        /\ inv'[i].pc = "Finishing" /\ inv'[i].ref = inv[i].ref
        /\ \A k \in Invocations : k # i => inv'[k] = inv[k]
    BY <1>1 DEF Invs, TypeOK
  <1>4. /\ \A j \in jobs : j.kind # "Cleanup" => j.by # i
        /\ call.kind \in {"Prepare", "Finish", "Cancel"} => call.by # i
    BY <1>1 DEF JobInv, CallerInv, Futures
  <1>5. JobInv' /\ CallerInv'
    BY <1>1, <1>2, <1>3, <1>4 DEF JobInv, CallerInv, Futures, Asks
  <1>6. FuturesMove
    BY <1>1, <1>2, <1>3, <1>4 DEF FuturesMove, FutureMoves, Holds
  <1>7. Claims' /\ Shape
    BY <1>1, <1>6, SameRows, QuietClaims
  <1>8. TypeOK'
    BY <1>1, <1>2, <1>3 DEF TypeOK, VaultTypeOK, vaultVars
  <1>9. CallInv'
    BY <1>1, <1>3, <1>4, SameCall DEF CallerInv
  <1> QED
    BY <1>5, <1>7, <1>8, <1>9 DEF Claims

LEMMA DropFutureStep ==
    ASSUME IInv, NEW i \in Invocations, DropFuture(i)
    PROVE  IInv' /\ Shape
  <1> USE DEF IInv
  <1>1. /\ UNCHANGED <<vaultVars, row, alive, call, app, deleted, faults, crashes>>
        /\ Leave(i) /\ inv[i].pc # "Out"
    BY DEF DropFuture
  <1>2. /\ inv' \in [Invocations -> Invs] /\ jobs' \subseteq Jobs
        /\ JobInv'
        /\ \A k \in Invocations :
              /\ FutureMoves(k) /\ inv'[k].value = inv[k].value /\ inv'[k].ref = inv[k].ref
              /\ inv'[k].pc \in {inv[k].pc, "Over"}
        /\ \A j \in jobs' : j \in jobs \/ j.kind = "Cancel"
    BY <1>1, LeaveFacts
  <1>3. FuturesMove
    BY <1>1, <1>2 DEF FuturesMove, FutureMoves, Holds
  <1>4. Claims' /\ Shape
    BY <1>1, <1>3, SameRows, QuietClaims
  <1>5. TypeOK'
    BY <1>1, <1>2 DEF TypeOK, VaultTypeOK, vaultVars
  <1>6. CallerInv'
    BY <1>1, <1>2 DEF CallerInv, Futures, Asks
  <1>7. CallInv'
    BY <1>1, <1>2, SameCall DEF CallerInv
  <1> QED
    BY <1>2, <1>4, <1>5, <1>6, <1>7 DEF Claims

(* The loss of a fence, of one invocation or of all. *)
LEMMA LoseFenceStep ==
    ASSUME IInv, StopPlugin \/ \E i \in Invocations : LoseFence(i)
    PROVE  IInv' /\ Shape
  <1> USE DEF IInv
  <1>1. /\ UNCHANGED <<vaultVars, row, inv, jobs, call, app, deleted, faults, crashes>>
        /\ alive' \subseteq alive
    BY DEF StopPlugin, LoseFence
  <1>2. FuturesMove
    BY <1>1 DEF FuturesMove, FutureMoves, Holds
  <1>3. Claims' /\ Shape
    BY <1>1, <1>2, SameRows, QuietClaims
  <1>4. TypeOK' /\ JobInv' /\ CallerInv'
    BY <1>1 DEF TypeOK, VaultTypeOK, vaultVars, JobInv, CallerInv
  <1>5. CallInv'
    BY <1>1, SameCall
  <1> QED
    BY <1>3, <1>4, <1>5 DEF Claims

LEMMA CheckFenceStep ==
    ASSUME IInv, NEW j \in jobs, CheckFence(j)
    PROVE  IInv' /\ Shape
  <1> USE DEF IInv
  <1> DEFINE i == j.by
             checked == [j EXCEPT !.checked = TRUE]
  <1>1. /\ UNCHANGED <<vaultVars, row, alive, call, app, deleted, faults, crashes>>
        /\ j.kind \in {"Prepare", "Finish"} /\ j \in Jobs
    BY DEF CheckFence, TypeOK
  <1>2. /\ i \in Invocations /\ inv[i].pc \in Futures(j.kind)
        /\ \A k \in jobs : k.kind = j.kind /\ k.by = j.by => k = j
    BY <1>1 DEF JobInv, Asks
  <1>3. /\ checked \in Jobs /\ checked.kind = j.kind /\ checked.by = i
        /\ Job("Cancel", i) \in Jobs /\ Job("Cancel", i).kind = "Cancel"
        /\ Job("Cancel", i).by = i
    BY <1>1, <1>2 DEF Jobs, Job
  <1>4. \A k \in Invocations : inv[k] \in Invs
    BY DEF TypeOK
  <1>5. \/ inv' = inv /\ jobs' \in {(jobs \ {j}) \union {checked}, jobs \ {j}}
        \/ /\ inv' = [inv EXCEPT ![i].pc = "Over"]
           /\ jobs' \in {(jobs \ {j}) \union {Job("Cancel", i)}, jobs \ {j}}
           /\ inv[i].pc # "Out"
    BY <1>2 DEF CheckFence, Futures
  <1>6. /\ inv' \in [Invocations -> Invs]
        /\ \A k \in Invocations :
              /\ FutureMoves(k) /\ inv'[k].value = inv[k].value /\ inv'[k].ref = inv[k].ref
              /\ inv'[k].pc \in {inv[k].pc, "Over"}
        /\ inv' # inv => inv'[i].pc = "Over"
    BY <1>2, <1>4, <1>5 DEF Invs, TypeOK, FutureMoves
  <1>7. /\ jobs' \subseteq Jobs
        /\ \A k \in jobs' :
              \/ k \in jobs /\ k # j
              \/ k.kind = j.kind /\ k.by = i /\ k = checked /\ inv' = inv
              \/ k.kind = "Cancel" /\ k.by = i /\ inv'[i].pc = "Over"
    BY <1>3, <1>4, <1>5, <1>2 DEF TypeOK, Invs
  <1> HIDE DEF checked, i
  <1>8. JobInv'
    BY <1>1, <1>2, <1>6, <1>7 DEF JobInv, Futures, Asks, i
  <1>9. CallerInv'
    BY <1>1, <1>6, <1>7 DEF CallerInv, Futures, Asks, i
  <1>10. FuturesMove
    BY <1>1, <1>6, <1>7 DEF FuturesMove, FutureMoves, Holds, i
  <1>11. Claims' /\ Shape
    BY <1>1, <1>10, SameRows, QuietClaims
  <1>12. TypeOK'
    BY <1>1, <1>6, <1>7 DEF TypeOK, VaultTypeOK, vaultVars
  <1>13. CallInv'
    BY <1>1, <1>6, SameCall DEF CallerInv
  <1> QED
    BY <1>8, <1>9, <1>11, <1>12, <1>13 DEF Claims

LEMMA TakeJobStep ==
    ASSUME IInv, NEW j \in jobs, TakeJob(j)
    PROVE  IInv' /\ Shape
  <1> USE DEF IInv
  <1>1. /\ UNCHANGED <<vaultVars, row, inv, alive, app, deleted, faults, crashes>>
        /\ jobs' = jobs \ {j} /\ call = Idle /\ j \in Jobs
    BY DEF TakeJob, TypeOK, CallInv
  <1>2. JobInv'
    BY <1>1 DEF JobInv
  <1>3. CASE j.kind = "Cleanup"
    <2>1. call' = [Idle EXCEPT !.kind = "Cleanup", !.pc = "Next",
                               !.todo = {r \in Refs : row[r] = "CleanupPending"}]
      BY <1>3 DEF TakeJob
    <2>2. /\ call' \in Calls /\ call'.kind = "Cleanup" /\ call'.pc = "Next"
          /\ call'.todo = {r \in Refs : row[r] = "CleanupPending"}
      BY <2>1 DEF Idle, Calls, Kinds, Pcs
    <2>3. CallerInv' /\ CallInv'
      BY <1>1, <2>2 DEF CallerInv, CallInv, Loops
    <2>4. FuturesMove
      BY <1>1, <2>2 DEF FuturesMove, FutureMoves, Holds
    <2>5. Claims' /\ Shape
      BY <1>1, <2>4, SameRows, QuietClaims
    <2>6. TypeOK'
      BY <1>1, <2>2 DEF TypeOK, VaultTypeOK, vaultVars
    <2> QED
      BY <1>2, <2>3, <2>5, <2>6 DEF Claims
  <1>4. CASE j.kind # "Cleanup"
    <2>1. call' = [Idle EXCEPT !.kind = j.kind, !.by = j.by, !.ref = inv[j.by].ref,
                               !.pc = IF j.kind = "Prepare" THEN "Begin" ELSE "Exact"]
      BY <1>4 DEF TakeJob
    <2>2. /\ j.by \in Invocations /\ inv[j.by].pc \in Futures(j.kind)
          /\ Asks(j.kind) => \A k \in jobs : k.kind = j.kind /\ k.by = j.by => k = j
          /\ inv[j.by].ref \in Refs
      BY <1>4 DEF JobInv, InvInv, Futures
    <2>3. /\ call' \in Calls /\ call'.kind = j.kind /\ call'.by = j.by
          /\ call'.ref = inv[j.by].ref /\ call'.todo = {}
          /\ call'.pc = IF j.kind = "Prepare" THEN "Begin" ELSE "Exact"
          /\ j.kind \in {"Prepare", "Finish", "Cancel"}
      BY <1>1, <1>4, <2>1, <2>2 DEF Idle, Calls, Kinds, Pcs, Jobs
    <2>4. CallerInv'
      BY <1>1, <2>2, <2>3 DEF CallerInv, Futures, Asks
    <2>5. CallInv'
      BY <1>1, <2>2, <2>3 DEF CallInv, Loops
    <2>6. FuturesMove
      BY <1>1, <2>2, <2>3 DEF FuturesMove, FutureMoves, Holds
    <2>7. Claims' /\ Shape
      BY <1>1, <2>6, SameRows, QuietClaims
    <2>8. TypeOK'
      BY <1>1, <2>3 DEF TypeOK, VaultTypeOK, vaultVars
    <2> QED
      BY <1>2, <2>4, <2>5, <2>7, <2>8 DEF Claims
  <1> QED
    BY <1>3, <1>4

--------------------------------------------------------------------------------
(* The call that holds the mutex. *)
Counted ==
    /\ deleted' \in BOOLEAN
    /\ faults' \in 0 .. MaxFaults
    /\ crashes' \in 0 .. MaxCrashes

LEMMA CountedFacts ==
    ASSUME TypeOK, Well \/ Ill \/ UNCHANGED faults, UNCHANGED <<deleted, crashes>>
    PROVE  Counted
  BY CredentialAssumption DEF Well, Ill, Counted, TypeOK

LEMMA CleanupQueryFailsStep ==
    ASSUME IInv, NEW j \in jobs, CleanupQueryFails(j)
    PROVE  IInv' /\ Shape
  <1> USE DEF IInv
  <1>1. /\ UNCHANGED <<vaultVars, row, inv, alive, call, app, deleted, crashes>>
        /\ jobs' = jobs \ {j} /\ jobs' \subseteq jobs /\ Counted
    BY CountedFacts DEF CleanupQueryFails
  <1>2. JobInv' /\ CallerInv'
    BY <1>1 DEF JobInv, CallerInv
  <1>3. FuturesMove
    BY <1>1 DEF FuturesMove, FutureMoves, Holds
  <1>4. Claims' /\ Shape
    BY <1>1, <1>3, SameRows, QuietClaims
  <1>5. TypeOK'
    BY <1>1 DEF TypeOK, VaultTypeOK, vaultVars, Counted
  <1>6. CallInv'
    BY <1>1, SameCall
  <1> QED
    BY <1>2, <1>4, <1>5, <1>6 DEF Claims

(* A row that moves. *)
LEMMA OneRow ==
    ASSUME TypeOK, UNCHANGED <<vaultVars, alive, deleted>>, NEW r \in Refs, NEW to \in States,
           row' = [row EXCEPT ![r] = to],
           row'[r] = to => Moves(r),
           row[r] = "None" => ~deleted
    PROVE  RowsMove /\ Uninstalls /\ row'[r] = to /\ \A s \in Refs \ {r} : row'[s] = row[s]
  <1>1. row'[r] = to /\ \A s \in Refs \ {r} : row'[s] = row[s]
    BY DEF TypeOK
  <1>2. row' \in [Refs -> States]
    BY DEF TypeOK
  <1>3. \A s \in Refs : Moves(s)
    BY <1>1 DEF Moves
  <1>4. Uninstalls
    BY <1>1 DEF Uninstalls
  <1> QED
    BY <1>1, <1>2, <1>3, <1>4 DEF RowsMove

(* A call that fails leaves all as it should be ... *)
LEMMA FailStep ==
    ASSUME IInv, Fail, RowsMove, Uninstalls, Counted
    PROVE  IInv' /\ Shape
  <1> USE DEF IInv
  <1>1. /\ inv' \in [Invocations -> Invs] /\ jobs' \subseteq Jobs
        /\ call' \in Calls /\ app' \in {"Starting", "Up", "Ended"}
        /\ FuturesMove /\ JobInv' /\ CallerInv' /\ CallInv'
    BY FailFacts
  <1>2. Claims' /\ Shape
    BY <1>1, QuietClaims
  <1>3. TypeOK'
    BY <1>1 DEF TypeOK, VaultTypeOK, vaultVars, RowsMove, Uninstalls, Counted
  <1> QED
    BY <1>1, <1>2, <1>3 DEF Claims

(* ... and so does one that goes on, if it has established what it needs. *)
LEMMA GotoStep ==
    ASSUME IInv, NEW pc \in Pcs, Goto(pc), RowsMove, Uninstalls, Counted, CallInv',
           pc \notin {"Exact", "Insert", "FenceNew"} \/ (pc = "Insert" /\ call.pc = "Exact")
    PROVE  IInv' /\ Shape
  <1> USE DEF IInv
  <1>1. FuturesMove /\ JobInv' /\ CallerInv'
    BY GotoQuiet
  <1>2. Claims' /\ Shape
    BY <1>1, QuietClaims
  <1>3. call' \in Calls /\ UNCHANGED <<inv, jobs, app>>
    BY GotoFacts
  <1>4. TypeOK'
    BY <1>3 DEF TypeOK, VaultTypeOK, vaultVars, RowsMove, Uninstalls, Counted
  <1> QED
    BY <1>1, <1>2, <1>4 DEF Claims

(* An answer reaches a future that still waits, and no job of it is left. *)
LEMMA AnswerFacts ==
    ASSUME IInv, NEW pc \in {"Prompt", "Told"}, Answer(pc), call.kind \in {"Prepare", "Finish"}
    PROVE  /\ call' = Idle /\ UNCHANGED <<jobs, app>>
           /\ call.by \in Invocations /\ call.ref = inv[call.by].ref
           /\ inv' \in [Invocations -> Invs]
           /\ JobInv'
           /\ \A k \in Invocations : inv'[k] = inv[k] \/
                 /\ k = call.by /\ inv'[k].pc = pc
                 /\ inv[k].pc = IF call.kind = "Prepare" THEN "Preparing" ELSE "Finishing"
                 /\ inv'[k].ref = inv[k].ref /\ inv'[k].value = inv[k].value
  <1> USE DEF IInv
  <1>1. /\ call' = Idle /\ UNCHANGED <<jobs, app>>
        /\ inv' = IF inv[call.by].pc \in {"Preparing", "Finishing"}
                  THEN [inv EXCEPT ![call.by].pc = pc] ELSE inv
    BY DEF Answer
  <1>2. /\ call.by \in Invocations /\ call.ref = inv[call.by].ref
        /\ inv[call.by].pc \in Futures(call.kind)
        /\ \A k \in jobs : ~(k.kind = call.kind /\ k.by = call.by)
    BY DEF CallerInv, Asks
  <1>3. inv' \in [Invocations -> Invs]
    BY <1>1, <1>2 DEF TypeOK, Invs
  <1>4. \A k \in Invocations : inv'[k] = inv[k] \/
                 /\ k = call.by /\ inv'[k].pc = pc
                 /\ inv[k].pc = IF call.kind = "Prepare" THEN "Preparing" ELSE "Finishing"
                 /\ inv'[k].ref = inv[k].ref /\ inv'[k].value = inv[k].value
    BY <1>1, <1>2 DEF TypeOK, Invs, Futures
  <1>5. JobInv'
    <2>1. \A j \in jobs : j.kind # "Cleanup" =>
              inv'[j.by] = inv[j.by] /\ j.by \in Invocations
      BY <1>2, <1>4 DEF JobInv, Futures, Jobs, TypeOK
    <2> QED
      BY <1>1, <2>1 DEF JobInv
  <1> QED
    BY <1>1, <1>2, <1>3, <1>4, <1>5

LEMMA AnswerStep ==
    ASSUME IInv, NEW pc \in {"Prompt", "Told"}, Answer(pc), call.kind \in {"Prepare", "Finish"},
           RowsMove, Uninstalls, Counted, FuturesMove
    PROVE  IInv' /\ Shape
  <1> USE DEF IInv
  <1>1. /\ call' = Idle /\ UNCHANGED <<jobs, app>> /\ JobInv'
        /\ inv' \in [Invocations -> Invs]
    BY AnswerFacts
  <1>2. call' \in Calls /\ CallerInv' /\ CallInv'
    BY <1>1, IdleCall
  <1>3. Claims' /\ Shape
    BY QuietClaims
  <1>4. TypeOK'
    BY <1>1, <1>2 DEF TypeOK, VaultTypeOK, vaultVars, RowsMove, Uninstalls, Counted
  <1> QED
    BY <1>1, <1>2, <1>3, <1>4 DEF Claims

--------------------------------------------------------------------------------
(* prepare_create. *)
LEMMA BeginStep ==
    ASSUME IInv, Begin
    PROVE  IInv' /\ Shape
  <1> USE DEF IInv
  <1> DEFINE r == call.ref
  <1>1. /\ UNCHANGED <<vaultVars, alive, deleted, crashes>>
        /\ call.pc = "Begin" /\ call.kind = "Prepare" /\ r \in Refs /\ call.todo = {}
        /\ call.by \in Invocations /\ r = inv[call.by].ref
    BY DEF Begin, CallInv, CallerInv, Loops
  <1>2. Counted
    BY <1>1, CountedFacts DEF Begin, Commit, CommitFails
  <1>3. CASE row' = row /\ (Goto("Find") \/ (row[r] # "None" /\ Goto("FenceOld")))
    <2>1. RowsMove /\ Uninstalls
      BY <1>1, <1>3, SameRows
    <2>2. CASE Goto("Find")
      <3>1. CallInv'
        BY <1>1, <2>2, GotoFacts DEF Pcs, CallInv, Loops
      <3> QED
        BY <1>2, <2>1, <2>2, <3>1, GotoStep DEF Pcs
    <2>3. CASE Goto("FenceOld")
      <3>1. CallInv'
        BY <1>1, <2>3, GotoFacts DEF Pcs, CallInv, Loops
      <3> QED
        BY <1>2, <2>1, <2>3, <3>1, GotoStep DEF Pcs
    <2> QED
      BY <1>3, <2>2, <2>3
  <1>4. CASE /\ row' = [row EXCEPT ![r] = "PendingVault"]
             /\ Fenced(call.by) /\ row[r] = "None"
             /\ Goto("Find") \/ Goto("FenceNew")
    <2>1. ~deleted
      BY <1>4 DEF UninstallInv, Fenced
    <2>2. /\ RowsMove /\ Uninstalls /\ row'[r] = "PendingVault"
          /\ \A s \in Refs \ {r} : row'[s] = row[s]
      BY <1>1, <1>4, <2>1, OneRow DEF Moves, States
    <2>3. CASE Goto("Find")
      <3>1. CallInv'
        BY <1>1, <2>3, GotoFacts DEF Pcs, CallInv, Loops
      <3> QED
        BY <1>2, <2>2, <2>3, <3>1, GotoStep DEF Pcs
    <2>4. CASE Goto("FenceNew")
      <3>1. /\ call' \in Calls /\ call'.pc = "FenceNew" /\ call'.kind = call.kind
            /\ call'.by = call.by /\ call'.ref = r /\ call'.todo = {}
            /\ UNCHANGED <<inv, jobs, app>>
        BY <1>1, <2>4, GotoFacts DEF Pcs
      <3>2. CallInv'
        BY <1>1, <2>2, <3>1 DEF CallInv, Loops
      <3>3. FuturesMove
        BY <1>1, <1>4, <2>2, <3>1 DEF FuturesMove, FutureMoves, Holds, Creates
      <3>4. JobInv' /\ CallerInv'
        BY <3>1 DEF JobInv, CallerInv, Futures, Asks
      <3>5. Claims' /\ Shape
        BY <2>2, <3>3, QuietClaims
      <3>6. TypeOK'
        BY <1>1, <1>2, <2>2, <3>1 DEF TypeOK, VaultTypeOK, vaultVars, RowsMove, Counted
      <3> QED
        BY <3>2, <3>4, <3>5, <3>6 DEF Claims
    <2> QED
      BY <1>4, <2>3, <2>4
  <1> QED
    BY <1>3, <1>4 DEF Begin, Commit, CommitFails

LEMMA FindStep ==
    ASSUME IInv, Find
    PROVE  IInv' /\ Shape
  <1> USE DEF IInv
  <1>1. /\ UNCHANGED <<vaultVars, row, alive, deleted, crashes>>
        /\ call.pc = "Find" /\ call.kind = "Prepare" /\ call.ref \in Refs /\ call.todo = {}
    BY DEF Find, CallInv, Loops
  <1>2. Counted /\ RowsMove /\ Uninstalls
    BY <1>1, CountedFacts, SameRows DEF Find
  <1>3. CASE row[call.ref] = "PendingVault" /\ Goto("Mark")
    <2>1. CallInv'
      BY <1>1, <1>3, GotoFacts DEF Pcs, CallInv, Loops
    <2> QED
      BY <1>2, <1>3, <2>1, GotoStep DEF Pcs
  <1> QED
    BY <1>2, <1>3, FailStep DEF Find

LEMMA FenceNewStep ==
    ASSUME IInv, FenceNew
    PROVE  IInv' /\ Shape
  <1> USE DEF IInv
  <1>1. /\ UNCHANGED <<vaultVars, row, alive, deleted, faults, crashes>>
        /\ call.pc = "FenceNew" /\ call.kind = "Prepare" /\ call.ref \in Refs /\ call.todo = {}
        /\ row[call.ref] = "PendingVault"
    BY DEF FenceNew, CallInv, Loops
  <1>2. Counted /\ RowsMove /\ Uninstalls
    BY <1>1, CountedFacts, SameRows
  <1>3. CASE Goto("Mark")
    <2>1. CallInv'
      BY <1>1, <1>3, GotoFacts DEF Pcs, CallInv, Loops
    <2> QED
      BY <1>2, <1>3, <2>1, GotoStep DEF Pcs
  <1>4. CASE Answer("Prompt")
    <2>1. /\ call' = Idle /\ UNCHANGED <<jobs, app>> /\ call.by \in Invocations
          /\ \A k \in Invocations : inv'[k] = inv[k] \/
                /\ k = call.by /\ inv'[k].pc = "Prompt" /\ inv[k].pc = "Preparing"
                /\ inv'[k].ref = inv[k].ref /\ inv'[k].value = inv[k].value
      BY <1>1, <1>4, AnswerFacts
    <2>2. FuturesMove
      BY <1>1, <2>1, IdleFacts DEF FuturesMove, FutureMoves, Holds
    <2> QED
      BY <1>1, <1>2, <1>4, <2>2, AnswerStep
  <1> QED
    BY <1>3, <1>4 DEF FenceNew

LEMMA FenceOldStep ==
    ASSUME IInv, FenceOld
    PROVE  IInv' /\ Shape
  <1> USE DEF IInv
  <1>1. /\ UNCHANGED <<vaultVars, row, alive, deleted, faults, crashes>>
        /\ call.pc = "FenceOld" /\ call.kind = "Prepare" /\ call.ref \in Refs
    BY DEF FenceOld, CallInv
  <1>2. Counted /\ RowsMove /\ Uninstalls
    BY <1>1, CountedFacts, SameRows
  <1>3. CASE Answer("Told") /\ row[call.ref] = "Ready"
    <2>1. /\ call' = Idle /\ UNCHANGED <<jobs, app>>
          /\ call.by \in Invocations /\ call.ref = inv[call.by].ref
          /\ \A k \in Invocations : inv'[k] = inv[k] \/
                /\ k = call.by /\ inv'[k].pc = "Told" /\ inv[k].pc = "Preparing"
                /\ inv'[k].ref = inv[k].ref /\ inv'[k].value = inv[k].value
      BY <1>1, <1>3, AnswerFacts
    <2>2. FuturesMove
      BY <1>1, <1>3, <2>1, IdleFacts DEF FuturesMove, FutureMoves, Holds, InvInv
    <2> QED
      BY <1>1, <1>2, <1>3, <2>2, AnswerStep
  <1> QED
    BY <1>2, <1>3, FailStep DEF FenceOld

--------------------------------------------------------------------------------
(* finish_create and cancel_create. *)
LEMMA ExactStep ==
    ASSUME IInv, Exact
    PROVE  IInv' /\ Shape
  <1> USE DEF IInv
  <1>1. /\ UNCHANGED <<vaultVars, row, alive, deleted, crashes>>
        /\ call.pc = "Exact" /\ call.kind \in {"Finish", "Cancel"} /\ call.ref \in Refs
        /\ call.todo = {} /\ call.by \in Invocations /\ call.ref = inv[call.by].ref
    BY DEF Exact, CallInv, CallerInv, Loops
  <1>2. Counted /\ RowsMove /\ Uninstalls
    BY <1>1, CountedFacts, SameRows DEF Exact
  <1>3. CASE row[call.ref] = "PendingVault" /\ Goto("Mark")
    <2>1. CallInv'
      BY <1>1, <1>3, GotoFacts DEF Pcs, CallInv, Loops
    <2> QED
      BY <1>2, <1>3, <2>1, GotoStep DEF Pcs
  <1>4. CASE /\ row[call.ref] = "PendingVault" /\ Goto("Insert")
             /\ call.kind # "Cancel" /\ inv[call.by].value # Absent
    <2>1. inv[call.by].value \in Values
      BY <1>1, <1>4 DEF TypeOK, Invs
    <2>2. CallInv'
      BY <1>1, <1>4, <2>1, GotoFacts DEF Pcs, CallInv, Loops
    <2> QED
      BY <1>1, <1>2, <1>4, <2>2, GotoStep DEF Pcs
  <1> QED
    BY <1>2, <1>3, <1>4, FailStep DEF Exact, ExactIntent

(* A change of the vault under rows R that are pending or being cleaned up,     *)
(* while nobody relies on an entry of theirs being absent.                      *)
LEMMA VaultClaims ==
    ASSUME IInv, UNCHANGED <<row, alive, deleted>>, VaultTypeOK', MemIsFile',
           NEW R \in SUBSET Refs, FuturesMove,
           \A s \in Refs \ R : file'[s] = file[s] /\ synced'[s] \in {synced[s], file[s]},
           \A r \in R :
              /\ row[r] \in {"PendingVault", "CleanupPending"}
              /\ \A k \in Invocations : Holds(k)' /\ inv[k].ref = r => row[r] # "PendingVault"
    PROVE  Claims' /\ Shape
  <1> USE DEF IInv
  <1>1. NothingYet'
    BY DEF NothingYet
  <1>2. ASSUME NEW i \in Invocations
        PROVE  /\ inv'[i].pc # "Out" => inv'[i].ref \in Refs
               /\ inv'[i].pc \in {"Out", "Preparing", "Prompt"} => inv'[i].value = Absent
               /\ inv'[i].pc = "Told" => row[inv'[i].ref] \in {"Ready", "CleanupPending", "Revoked"}
    <2>1. FutureMoves(i)
      BY DEF FuturesMove
    <2> QED
      BY <2>1 DEF FutureMoves, InvInv
  <1>3. InvInv'
    BY <1>2 DEF InvInv
  <1>4. HoldInv'
    <2>1. \A k \in Invocations : Holds(k)' =>
              Holds(k) /\ inv'[k].ref = inv[k].ref /\ inv[k].ref \in Refs
      BY HolderFacts DEF FuturesMove, FutureMoves, Creates
    <2> QED
      BY <2>1 DEF HoldInv
  <1>5. ReadyIsStored'
    <2> SUFFICES ASSUME NEW r \in Refs, row[r] = "Ready"
                 PROVE  /\ synced'[r] # Absent /\ file'[r] = synced'[r]
                        /\ \A i \in Invocations : inv'[i].ref = r /\ inv'[i].pc = "Told" =>
                              inv'[i].value \in {Absent, synced'[r]}
      BY DEF ReadyIsStored
    <2>1. r \notin R
      OBVIOUS
    <2>2. file[r] = synced[r] /\ synced[r] # Absent /\ file'[r] = file[r] /\ synced'[r] = synced[r]
      BY <2>1 DEF ReadyIsStored
    <2>3. ASSUME NEW i \in Invocations, inv'[i].ref = r, inv'[i].pc = "Told"
          PROVE  inv'[i].value \in {Absent, synced[r]}
      <3>1. FutureMoves(i)
        BY DEF FuturesMove
      <3>2. CASE inv'[i] = inv[i]
        BY <2>3, <3>2 DEF ReadyIsStored
      <3>3. CASE inv'[i] # inv[i]
        BY <2>3, <3>1, <3>3 DEF FutureMoves
      <3> QED
        BY <3>2, <3>3
    <2> QED
      BY <2>2, <2>3
  <1>6. UninstalledIsRevoked' /\ UninstallInv'
    BY DEF UninstalledIsRevoked, UninstallInv
  <1>7. Shape
    BY DEF Shape, Exposed
  <1> QED
    BY <1>1, <1>3, <1>4, <1>5, <1>6, <1>7 DEF Claims

LEMMA InsertStep ==
    ASSUME IInv, Insert
    PROVE  IInv' /\ Shape
  <1> USE DEF IInv
  <1> DEFINE r == call.ref
             v == inv[call.by].value
  <1>1. /\ UNCHANGED <<row, alive, deleted, crashes>>
        /\ call.pc = "Insert" /\ call.kind = "Finish" /\ r \in Refs /\ call.todo = {}
        /\ row[r] = "PendingVault" /\ v \in Values
        /\ call.by \in Invocations /\ r = inv[call.by].ref
        /\ inv[call.by].pc \in {"Over", "Finishing"}
        /\ \A k \in jobs : ~(k.kind = "Finish" /\ k.by = call.by)
    BY DEF Insert, CallInv, CallerInv, Loops, Futures, Asks
  <1>2. PICK result \in Results :
           /\ InsertSecret(r, v, result) /\ Answered(result)
           /\ \/ result = "Ok" /\ Goto("FenceStored")
              \/ Goto("Mark")
              \/ Goto("MarkOnly")
    BY DEF Insert, Stored
  <1>3. Counted
    BY <1>1, <1>2, CountedFacts DEF Answered
  <1>4. Holds(call.by) /\ file[r] = Absent /\ synced[r] = Absent
    BY <1>1 DEF Holds, HoldInv
  <1>5. /\ VaultTypeOK' /\ MemIsFile' /\ Spares(r)
        /\ result = "Ok" => file'[r] = v /\ synced'[r] = v
    <2>1. /\ VaultTypeOK /\ MemIsFile
          /\ [mem EXCEPT ![r] = v] \in Contents
          /\ [mem EXCEPT ![r] = v][r] = v
          /\ \A s \in Refs \ {r} : [mem EXCEPT ![r] = v][s] = mem[s]
      BY <1>1 DEF TypeOK, VaultTypeOK, Contents
    <2>2. CASE UNCHANGED vaultVars
      BY <1>1, <1>2, <1>4, <2>1, <2>2
      DEF VaultTypeOK, MemIsFile, Spares, vaultVars, InsertSecret, Refused, Persist
    <2>3. CASE access = "Open" /\ mem[r] = Absent /\ Persist([mem EXCEPT ![r] = v], result)
      BY <1>1, <2>1, <2>3 DEF VaultTypeOK, MemIsFile, Spares, vaultVars, Persist
    <2> QED
      BY <1>2, <2>2, <2>3 DEF InsertSecret, Refused
  <1>6. PICK pc \in {"FenceStored", "Mark", "MarkOnly"} :
           Goto(pc) /\ (pc = "FenceStored" => result = "Ok")
    BY <1>2
  <1>7. /\ call' \in Calls /\ call'.pc = pc /\ call'.kind = call.kind /\ call'.by = call.by
        /\ call'.ref = r /\ call'.todo = {} /\ UNCHANGED <<inv, jobs, app>>
    BY <1>1, <1>6, GotoFacts DEF Pcs
  <1>8. FuturesMove /\ JobInv' /\ CallerInv'
    BY <1>6, GotoQuiet DEF Pcs
  <1>9. \A k \in Invocations : k = call.by => ~Holds(k)'
    BY <1>1, <1>7 DEF Holds
  <1>10. ASSUME NEW k \in Invocations, Holds(k)', inv[k].ref = r
         PROVE  FALSE
    <2>1. Holds(k)
      BY <1>1, <1>8, <1>10 DEF FuturesMove, Creates
    <2>2. k = call.by
      BY <1>1, <1>4, <1>10, <2>1 DEF HoldInv
    <2> QED
      BY <1>9, <1>10, <2>2
  <1>11. Claims' /\ Shape
    <2>1. \A s \in Refs \ {r} : file'[s] = file[s] /\ synced'[s] \in {synced[s], file[s]}
      BY <1>5 DEF Spares
    <2>2. {r} \in SUBSET Refs
      BY <1>1
    <2> HIDE DEF r, v
    <2> QED
      BY <1>1, <1>5, <1>8, <1>10, <2>1, <2>2, VaultClaims
  <1>12. CallInv'
    BY <1>1, <1>5, <1>6, <1>7 DEF CallInv, Loops
  <1>13. TypeOK'
    BY <1>1, <1>3, <1>5, <1>7 DEF TypeOK, Counted
  <1> QED
    BY <1>8, <1>11, <1>12, <1>13 DEF Claims

LEMMA FenceStoredStep ==
    ASSUME IInv, FenceStored
    PROVE  IInv' /\ Shape
  <1> USE DEF IInv
  <1>1. /\ UNCHANGED <<vaultVars, row, alive, deleted, faults, crashes>>
        /\ call.pc = "FenceStored" /\ call.kind = "Finish" /\ call.todo = {}
    BY DEF FenceStored, CallInv, Loops
  <1>2. Counted /\ RowsMove /\ Uninstalls
    BY <1>1, CountedFacts, SameRows
  <1>3. PICK pc \in {"Ready", "Mark"} : Goto(pc)
    BY DEF FenceStored
  <1>4. CallInv'
    BY <1>1, <1>3, GotoFacts DEF Pcs, CallInv, Loops, vaultVars
  <1> QED
    BY <1>2, <1>3, <1>4, GotoStep DEF Pcs

LEMMA MarkReadyStep ==
    ASSUME IInv, MarkReady
    PROVE  IInv' /\ Shape
  <1> USE DEF IInv
  <1> DEFINE r == call.ref
  <1>1. /\ UNCHANGED <<vaultVars, alive, deleted, crashes>>
        /\ call.pc = "Ready" /\ call.kind = "Finish" /\ r \in Refs /\ call.todo = {}
        /\ row[r] = "PendingVault" /\ inv[call.by].value \in Values
        /\ file[r] = inv[call.by].value /\ synced[r] = inv[call.by].value
    BY DEF MarkReady, CallInv, Loops
  <1>2. Counted
    BY <1>1, CountedFacts DEF MarkReady, Commit, CommitFails
  <1>3. CASE row' = row /\ Goto("Observe")
    <2>1. RowsMove /\ Uninstalls
      BY <1>1, <1>3, SameRows
    <2>2. CallInv'
      BY <1>1, <1>3, GotoFacts DEF Pcs, CallInv, Loops
    <2> QED
      BY <1>2, <1>3, <2>1, <2>2, GotoStep DEF Pcs
  <1>4. CASE row' = [row EXCEPT ![r] = "Ready"] /\ (Goto("Observe") \/ Answer("Told"))
    <2>1. RowsMove /\ Uninstalls /\ row'[r] = "Ready"
      BY <1>1, <1>4, OneRow, AbsentAssumption DEF Moves, States
    <2>2. CASE Goto("Observe")
      <3>1. CallInv'
        BY <1>1, <2>2, GotoFacts DEF Pcs, CallInv, Loops
      <3> QED
        BY <1>2, <2>1, <2>2, <3>1, GotoStep DEF Pcs
    <2>3. CASE Answer("Told")
      <3>1. /\ call' = Idle /\ UNCHANGED <<jobs, app>>
            /\ call.by \in Invocations /\ call.ref = inv[call.by].ref
            /\ \A k \in Invocations : inv'[k] = inv[k] \/
                  /\ k = call.by /\ inv'[k].pc = "Told" /\ inv[k].pc = "Finishing"
                  /\ inv'[k].ref = inv[k].ref /\ inv'[k].value = inv[k].value
        BY <1>1, <2>3, AnswerFacts
      <3>2. FuturesMove
        BY <1>1, <2>1, <3>1, IdleFacts DEF FuturesMove, FutureMoves, Holds
      <3> QED
        BY <1>1, <1>2, <2>1, <2>3, <3>2, AnswerStep
    <2> QED
      BY <1>4, <2>2, <2>3
  <1> QED
    BY <1>1, <1>3, <1>4 DEF MarkReady, Commit, CommitFails

LEMMA ObserveStep ==
    ASSUME IInv, Observe
    PROVE  IInv' /\ Shape
  <1> USE DEF IInv
  <1>1. /\ UNCHANGED <<vaultVars, row, alive, deleted, crashes>>
        /\ call.pc = "Observe" /\ call.kind = "Finish" /\ call.ref \in Refs /\ call.todo = {}
    BY DEF Observe, CallInv, Loops
  <1>2. Counted /\ RowsMove /\ Uninstalls
    BY <1>1, CountedFacts, SameRows DEF Observe
  <1>3. CASE row[call.ref] = "PendingVault" /\ Goto("Mark")
    <2>1. CallInv'
      BY <1>1, <1>3, GotoFacts DEF Pcs, CallInv, Loops
    <2> QED
      BY <1>2, <1>3, <2>1, GotoStep DEF Pcs
  <1> QED
    BY <1>2, <1>3, FailStep DEF Observe, Observed

--------------------------------------------------------------------------------
(* revoke, cleanup_pending, cleanup_plugin and recover_startup. *)
LEMMA MarkStep ==
    ASSUME IInv, Mark
    PROVE  IInv' /\ Shape
  <1> USE DEF IInv
  <1> DEFINE r == call.ref
  <1>1. /\ UNCHANGED <<vaultVars, alive, deleted, crashes>>
        /\ call.pc \in {"Mark", "MarkOnly"} /\ r \in Refs /\ call.todo = {}
        /\ call.kind \notin Loops /\ call.kind # "None"
        /\ IF call.kind = "Revoke" THEN row[r] # "None" ELSE row[r] = "PendingVault"
    BY DEF Mark, CallInv, Loops
  <1>2. Counted
    BY <1>1, CountedFacts DEF Mark, Commit, CommitFails
  <1>3. ASSUME row'[r] = "CleanupPending", Goto("Delete"), RowsMove, Uninstalls
        PROVE  IInv' /\ Shape
    <2>1. CallInv'
      BY <1>1, <1>3, GotoFacts DEF Pcs, CallInv, Loops
    <2> QED
      BY <1>2, <1>3, <2>1, GotoStep DEF Pcs
  <1>4. CASE row' = [row EXCEPT ![r] = "CleanupPending"] /\ row[r] \in {"PendingVault", "Ready"}
    <2>1. RowsMove /\ Uninstalls /\ row'[r] = "CleanupPending"
      BY <1>1, <1>4, OneRow DEF Moves, States
    <2>2. Fail \/ Goto("Delete")
      BY <1>4 DEF Mark
    <2> QED
      BY <1>2, <1>3, <2>1, <2>2, FailStep
  <1>5. CASE row' = row
    <2>1. RowsMove /\ Uninstalls
      BY <1>1, <1>5, SameRows
    <2>2. \/ Fail
          \/ Goto("Delete") /\ row[r] = "CleanupPending"
          \/ row' = [row EXCEPT ![r] = "CleanupPending"] /\ row[r] \in {"PendingVault", "Ready"}
      BY <1>1, <1>5 DEF Mark, Commit, CommitFails
    <2> QED
      BY <1>2, <1>3, <1>4, <1>5, <2>1, <2>2, FailStep
  <1> QED
    BY <1>4, <1>5 DEF Mark, Commit, CommitFails

(* A call that begins for nobody. *)
LEMMA OwnCallStep ==
    ASSUME IInv, UNCHANGED <<inv, jobs>>, RowsMove, Uninstalls, Counted,
           call' \in Calls, call'.kind \in {"None", "Revoke"} \union Loops, CallInv',
           app' \in {"Starting", "Up", "Ended"}
    PROVE  IInv' /\ Shape
  <1> USE DEF IInv
  <1>1. JobInv' /\ CallerInv'
    BY DEF JobInv, CallerInv, Loops
  <1>2. FuturesMove
    BY DEF FuturesMove, FutureMoves, Holds, Loops
  <1>3. Claims' /\ Shape
    BY <1>2, QuietClaims
  <1>4. TypeOK'
    BY DEF TypeOK, VaultTypeOK, vaultVars, RowsMove, Uninstalls, Counted
  <1> QED
    BY <1>1, <1>3, <1>4 DEF Claims

LEMMA RevokeStep ==
    ASSUME IInv, NEW r \in Refs, Revoke(r)
    PROVE  IInv' /\ Shape
  <1> USE DEF IInv
  <1>1. /\ UNCHANGED <<vaultVars, row, inv, alive, jobs, app, deleted, faults, crashes>>
        /\ call' = [Idle EXCEPT !.kind = "Revoke", !.pc = "Mark", !.ref = r] /\ row[r] # "None"
    BY DEF Revoke
  <1>2. /\ call' \in Calls /\ call'.kind = "Revoke" /\ call'.pc = "Mark" /\ call'.ref = r
        /\ call'.todo = {}
    BY <1>1 DEF Idle, Calls, Kinds, Pcs
  <1>3. CallInv'
    BY <1>1, <1>2 DEF CallInv, Loops
  <1>4. Counted /\ RowsMove /\ Uninstalls /\ app' \in {"Starting", "Up", "Ended"}
    BY <1>1, CountedFacts, SameRows DEF TypeOK
  <1> QED
    BY <1>1, <1>2, <1>3, <1>4, OwnCallStep

LEMMA NextRecordStep ==
    ASSUME IInv, NEW r \in Refs, NextRecord(r)
    PROVE  IInv' /\ Shape
  <1> USE DEF IInv
  <1>1. /\ UNCHANGED <<vaultVars, row, inv, alive, jobs, app, deleted, faults, crashes>>
        /\ call' = [call EXCEPT !.pc = "Delete", !.ref = r, !.todo = call.todo \ {r}]
        /\ call.pc = "Next" /\ r \in call.todo
    BY DEF NextRecord
  <1>2. /\ call' \in Calls /\ call'.kind = call.kind /\ call'.pc = "Delete" /\ call'.ref = r
        /\ call'.todo = call.todo \ {r} /\ call.kind \in Loops
    BY <1>1 DEF TypeOK, Calls, Kinds, Pcs, CallInv
  <1>3. CallInv'
    BY <1>1, <1>2 DEF CallInv, Loops
  <1>4. Counted /\ RowsMove /\ Uninstalls /\ app' \in {"Starting", "Up", "Ended"}
    BY <1>1, CountedFacts, SameRows DEF TypeOK
  <1> QED
    BY <1>1, <1>2, <1>3, <1>4, OwnCallStep

LEMMA NoRecordStep ==
    ASSUME IInv, NoRecord
    PROVE  IInv' /\ Shape
  <1> USE DEF IInv
  <1>1. /\ UNCHANGED <<vaultVars, row, inv, alive, jobs, deleted, faults, crashes>>
        /\ call' = Idle /\ app' = "Up"
    BY DEF NoRecord
  <1>2. Counted /\ RowsMove /\ Uninstalls
    BY <1>1, CountedFacts, SameRows
  <1>3. call' \in Calls /\ call'.kind = "None" /\ CallInv'
    BY <1>1, IdleCall, IdleFacts
  <1> QED
    BY <1>1, <1>2, <1>3, OwnCallStep

(* A loop over the rows that are to be cleaned up begins. *)
LEMMA LoopStep ==
    ASSUME IInv, UNCHANGED <<inv, jobs>>, RowsMove, Uninstalls, Counted, NEW kind \in Loops,
           call' = [Idle EXCEPT !.kind = kind, !.pc = "Next",
                                !.todo = {r \in Refs : row'[r] = "CleanupPending"}],
           app' \in {"Starting", "Up", "Ended"}
    PROVE  IInv' /\ Shape
  <1>1. /\ call' \in Calls /\ call'.kind = kind /\ call'.pc = "Next"
        /\ call'.todo = {r \in Refs : row'[r] = "CleanupPending"}
    BY DEF Idle, Calls, Kinds, Pcs, Loops
  <1>2. CallInv'
    BY <1>1 DEF CallInv, Loops
  <1> QED
    BY <1>1, <1>2, OwnCallStep

(* Rows that are retired together. *)
LEMMA RetiredRows ==
    ASSUME TypeOK, UNCHANGED vaultVars, NEW states, states \subseteq {"PendingVault", "Ready"},
           row' = Retired(states)
    PROVE  /\ RowsMove
           /\ \A r \in Refs : row'[r] = IF row[r] \in states THEN "CleanupPending" ELSE row[r]
           /\ \A r \in Refs : row[r] = "None" => row'[r] = "None"
  <1>1. \A r \in Refs : row'[r] = IF row[r] \in states THEN "CleanupPending" ELSE row[r]
    BY DEF Retired
  <1>2. row' \in [Refs -> States]
    BY DEF Retired, TypeOK, States
  <1> QED
    BY <1>1, <1>2 DEF RowsMove, Moves

LEMMA CleanupPluginStep ==
    ASSUME IInv, CleanupPlugin
    PROVE  IInv' /\ Shape
  <1> USE DEF IInv
  <1>1. /\ UNCHANGED <<vaultVars, inv, alive, jobs, app, crashes>>
        /\ call = Idle /\ ~deleted /\ alive = {} /\ (Well \/ Ill)
    BY DEF CleanupPlugin, CallInv
  <1>2. ASSUME row' = Retired({"PendingVault", "Ready"})
        PROVE  /\ RowsMove
               /\ \A r \in Refs : row'[r] \in {"None", "CleanupPending", "Revoked"}
    <2>1. \A r \in Refs : row[r] \in States
      BY DEF TypeOK
    <2>2. RowsMove
      BY <1>1, <1>2, RetiredRows
    <2>3. \A r \in Refs :
             row'[r] = IF row[r] \in {"PendingVault", "Ready"} THEN "CleanupPending" ELSE row[r]
      BY <1>1, <1>2, RetiredRows
    <2> QED
      BY <2>1, <2>2, <2>3 DEF States
  <1>3. CASE /\ row' = Retired({"PendingVault", "Ready"}) /\ deleted' = TRUE /\ Well
             /\ call' = [Idle EXCEPT !.kind = "Uninstall", !.pc = "Next",
                                     !.todo = {r \in Refs : row'[r] = "CleanupPending"}]
    <2>1. RowsMove /\ Uninstalls
      BY <1>1, <1>2, <1>3 DEF Uninstalls
    <2>2. Counted /\ app' \in {"Starting", "Up", "Ended"}
      BY <1>1, <1>3 DEF Counted, TypeOK, Well
    <2> QED
      BY <1>1, <1>3, <2>1, <2>2, LoopStep DEF Loops
  <1>4. CASE row' \in {row, Retired({"PendingVault", "Ready"})} /\ UNCHANGED <<deleted, call>>
    <2>1. RowsMove
      BY <1>1, <1>2, <1>4, SameRows
    <2>2. Uninstalls
      BY <1>1, <1>4 DEF Uninstalls
    <2>3. Counted /\ app' \in {"Starting", "Up", "Ended"}
      BY <1>1, <1>4, CountedFacts DEF TypeOK
    <2>4. call' \in Calls /\ call'.kind = "None" /\ CallInv'
      BY <1>1, <1>4, IdleCall, IdleFacts
    <2> QED
      BY <1>1, <2>1, <2>2, <2>3, <2>4, OwnCallStep
  <1> QED
    BY <1>3, <1>4 DEF CleanupPlugin

LEMMA RecoverStep ==
    ASSUME IInv, Recover
    PROVE  IInv' /\ Shape
  <1> USE DEF IInv
  <1>1. /\ UNCHANGED <<vaultVars, inv, alive, jobs, deleted, crashes>>
        /\ call = Idle /\ (Well \/ Ill)
    BY DEF Recover, CallInv
  <1>2. Counted
    BY <1>1, CountedFacts
  <1>3. RowsMove /\ Uninstalls
    <2>1. CASE row' = row
      BY <1>1, <2>1, SameRows
    <2>2. CASE row' = Retired(Abandoned)
      <3>1. Abandoned \subseteq {"PendingVault", "Ready"}
        BY DEF Abandoned
      <3> QED
        BY <1>1, <2>2, <3>1, RetiredRows DEF Uninstalls
    <2> QED
      BY <2>1, <2>2 DEF Recover
  <1>4. CASE /\ app' = app
             /\ call' = [Idle EXCEPT !.kind = "Recover", !.pc = "Next",
                                     !.todo = {r \in Refs : row'[r] = "CleanupPending"}]
    <2>1. app' \in {"Starting", "Up", "Ended"}
      BY <1>4 DEF TypeOK
    <2> QED
      BY <1>1, <1>2, <1>3, <1>4, <2>1, LoopStep DEF Loops
  <1>5. CASE call' = call /\ app' = "Ended"
    <2>1. call' \in Calls /\ call'.kind = "None" /\ CallInv'
      BY <1>1, <1>5, IdleCall, IdleFacts
    <2> QED
      BY <1>1, <1>2, <1>3, <1>5, <2>1, OwnCallStep
  <1> QED
    BY <1>4, <1>5 DEF Recover

LEMMA DeleteStep ==
    ASSUME IInv, Delete
    PROVE  IInv' /\ Shape
  <1> USE DEF IInv
  <1> DEFINE r == call.ref
  <1>1. /\ UNCHANGED <<row, alive, deleted, crashes>>
        /\ call.pc = "Delete" /\ r \in Refs /\ row[r] = "CleanupPending" /\ call.kind # "None"
        /\ call.todo # {} => call.kind \in Loops
        /\ \A t \in call.todo : row[t] = "CleanupPending" /\ t # r
    BY DEF Delete, CallInv
  <1>2. PICK result \in Results :
           /\ DeleteSecret(r, result) /\ Answered(result)
           /\ \/ result = "Ok" /\ Goto("Finalize")
              \/ call.kind \in Loops /\ Goto("Next")
              \/ Fail
    BY DEF Delete, Erased
  <1>3. Counted
    BY <1>1, <1>2, CountedFacts DEF Answered
  <1>4. /\ VaultTypeOK' /\ MemIsFile' /\ Spares(r)
        /\ result = "Ok" => file'[r] = Absent
    <2>1. /\ VaultTypeOK /\ MemIsFile
          /\ [mem EXCEPT ![r] = Absent] \in Contents
          /\ [mem EXCEPT ![r] = Absent][r] = Absent
          /\ \A s \in Refs \ {r} : [mem EXCEPT ![r] = Absent][s] = mem[s]
      BY <1>1 DEF TypeOK, VaultTypeOK, Contents
    <2>2. CASE UNCHANGED vaultVars
      BY <1>1, <1>2, <2>1, <2>2
      DEF VaultTypeOK, MemIsFile, Spares, vaultVars, DeleteSecret, Refused, Persist
    <2>3. CASE access = "Open" /\ Persist([mem EXCEPT ![r] = Absent], result)
      BY <1>1, <2>1, <2>3 DEF VaultTypeOK, MemIsFile, Spares, vaultVars, Persist
    <2> QED
      BY <1>2, <2>2, <2>3 DEF DeleteSecret, Refused
  <1>5. FuturesMove => Claims' /\ Shape
    <2>1. \A s \in Refs \ {r} : file'[s] = file[s] /\ synced'[s] \in {synced[s], file[s]}
      BY <1>4 DEF Spares
    <2>2. {r} \in SUBSET Refs /\ row[r] = "CleanupPending"
      BY <1>1
    <2> HIDE DEF r
    <2> QED
      BY <1>1, <1>4, <2>1, <2>2, VaultClaims
  <1>6. CASE Fail
    <2>1. /\ inv' \in [Invocations -> Invs] /\ jobs' \subseteq Jobs
          /\ call' \in Calls /\ app' \in {"Starting", "Up", "Ended"}
          /\ FuturesMove /\ JobInv' /\ CallerInv' /\ CallInv'
      BY <1>6, FailFacts
    <2>2. TypeOK'
      BY <1>1, <1>3, <1>4, <2>1 DEF TypeOK, Counted
    <2> QED
      BY <1>5, <2>1, <2>2 DEF Claims
  <1>7. ASSUME NEW pc \in {"Finalize", "Next"}, Goto(pc),
               pc = "Finalize" => file'[r] = Absent, pc = "Next" => call.kind \in Loops
        PROVE  IInv' /\ Shape
    <2>1. FuturesMove /\ JobInv' /\ CallerInv'
      BY <1>7, GotoQuiet DEF Pcs
    <2>2. /\ call' \in Calls /\ call'.pc = pc /\ call'.kind = call.kind /\ call'.by = call.by
          /\ call'.ref = r /\ call'.todo = call.todo /\ UNCHANGED <<inv, jobs, app>>
      BY <1>7, GotoFacts DEF Pcs
    <2>3. CallInv'
      BY <1>1, <1>7, <2>2 DEF CallInv, Loops
    <2>4. TypeOK'
      BY <1>1, <1>3, <1>4, <2>2 DEF TypeOK, Counted
    <2> QED
      BY <1>5, <2>1, <2>3, <2>4 DEF Claims
  <1> QED
    BY <1>2, <1>4, <1>6, <1>7

LEMMA FinalizeStep ==
    ASSUME IInv, Finalize
    PROVE  IInv' /\ Shape
  <1> USE DEF IInv
  <1> DEFINE r == call.ref
  <1>1. /\ UNCHANGED <<vaultVars, alive, deleted, crashes>>
        /\ call.pc = "Finalize" /\ r \in Refs /\ row[r] = "CleanupPending" /\ file[r] = Absent
        /\ call.todo # {} => call.kind \in Loops
        /\ \A t \in call.todo : row[t] = "CleanupPending" /\ t # r
        /\ call.todo \subseteq Refs
    BY DEF Finalize, CallInv, TypeOK, Calls
  <1>2. Counted
    BY <1>1, CountedFacts DEF Finalize, Commit, CommitFails
  <1>3. CASE row' = row /\ Fail
    BY <1>1, <1>2, <1>3, SameRows, FailStep
  <1>4. CASE /\ row' = [row EXCEPT ![r] = "Revoked"]
             /\ Fail \/ (call.kind \in Loops /\ Goto("Next"))
    <2>1. /\ RowsMove /\ Uninstalls /\ row'[r] = "Revoked"
          /\ \A s \in Refs \ {r} : row'[s] = row[s]
      BY <1>1, <1>4, OneRow DEF Moves, States
    <2>2. CASE call.kind \in Loops /\ Goto("Next")
      <3>1. CallInv'
        BY <1>1, <2>1, <2>2, GotoFacts DEF Pcs, CallInv, Loops
      <3> QED
        BY <1>2, <2>1, <2>2, <3>1, GotoStep DEF Pcs
    <2> QED
      BY <1>2, <1>4, <2>1, <2>2, FailStep
  <1> QED
    BY <1>3, <1>4 DEF Finalize, Commit, CommitFails

--------------------------------------------------------------------------------
(* The vault around the calls. *)
LEMMA AroundStep ==
    ASSUME IInv, Unlock \/ Lock \/ OtherWrite
    PROVE  IInv' /\ Shape
  <1> USE DEF IInv
  <1>1. /\ UNCHANGED <<row, inv, alive, call, app, deleted, crashes>>
        /\ jobs' = jobs \/ jobs' = jobs \union {Job("Cleanup", NoInv)}
    BY DEF Unlock, Lock, OtherWrite
  <1>2. /\ Job("Cleanup", NoInv) \in Jobs /\ Job("Cleanup", NoInv).kind = "Cleanup"
    BY DEF Job, Jobs
  <1>3. Counted
    BY <1>1, CountedFacts DEF Unlock, Lock, OtherWrite, Answered
  <1>4. /\ VaultTypeOK' /\ MemIsFile' /\ file' = file
        /\ \A s \in Refs : synced'[s] \in {synced[s], file[s]}
    <2>1. CASE Unlock
      BY <2>1 DEF Unlock, UnlockVault, TypeOK, VaultTypeOK, MemIsFile
    <2>2. CASE Lock
      BY <2>2 DEF Lock, LockVault, TypeOK, VaultTypeOK, MemIsFile, Empty, Contents
    <2>3. CASE OtherWrite
      BY <2>3 DEF OtherWrite, WriteElsewhere, Persist, TypeOK, VaultTypeOK, MemIsFile, vaultVars
    <2> QED
      BY <2>1, <2>2, <2>3
  <1>5. FuturesMove
    BY <1>1, <1>2 DEF FuturesMove, FutureMoves, Holds
  <1>6. Claims' /\ Shape
    <2>1. {} \in SUBSET Refs
      OBVIOUS
    <2> QED
      BY <1>1, <1>4, <1>5, <2>1, VaultClaims
  <1>7. JobInv' /\ CallerInv'
    BY <1>1, <1>2 DEF JobInv, CallerInv, Futures, Asks
  <1>8. CallInv'
    BY <1>1, <1>4 DEF CallInv, Loops
  <1>9. TypeOK'
    BY <1>1, <1>2, <1>3, <1>4 DEF TypeOK, Counted
  <1> QED
    BY <1>6, <1>7, <1>8, <1>9 DEF Claims

(* A crash leaves nobody who holds an intent, and a loss of power changes the   *)
(* entries only of rows that are pending, being cleaned up or revoked.          *)
LEMMA CrashStep ==
    ASSUME IInv, Crash
    PROVE  IInv' /\ Shape
  <1> USE DEF IInv
  <1>1. /\ UNCHANGED <<row, deleted, faults>>
        /\ inv' = [i \in Invocations |-> OutInv] /\ jobs' = {} /\ call' = Idle
        /\ app' = "Starting" /\ alive' = IF deleted THEN {} ELSE Invocations
        /\ crashes' \in 0 .. MaxCrashes
    BY CredentialAssumption DEF Crash, TypeOK
  <1>2. OutInv \in Invs /\ OutInv.pc = "Out" /\ OutInv.value = Absent
    BY DEF OutInv, Invs
  <1>3. /\ VaultTypeOK' /\ MemIsFile'
        /\ \/ file' = file /\ synced' \in {synced, file}
           \/ PowerLoss /\ file' = synced /\ synced' = synced
    BY DEF Crash, CrashVault, PowerLossVault, TypeOK, VaultTypeOK, MemIsFile, Empty, Contents
  <1>4. TypeOK' /\ CallerInv' /\ CallInv'
    <2>1. call' \in Calls /\ CallerInv' /\ CallInv'
      BY <1>1, IdleCall
    <2> QED
      BY <1>1, <1>2, <1>3, <2>1 DEF TypeOK
  <1>5. InvInv' /\ JobInv'
    BY <1>1, <1>2 DEF InvInv, JobInv
  <1>6. HoldInv'
    BY <1>1, <1>2, IdleFacts DEF HoldInv, Holds
  <1>7. NothingYet' /\ ReadyIsStored'
    BY <1>1, <1>2, <1>3 DEF NothingYet, ReadyIsStored
  <1>8. UninstalledIsRevoked' /\ UninstallInv'
    BY <1>1 DEF UninstalledIsRevoked, UninstallInv
  <1>9. Shape
    <2>1. CASE file' = file
      BY <1>1, <2>1 DEF Shape, Moves
    <2>2. CASE PowerLoss /\ file' = synced
      <3>1. ASSUME NEW r \in Refs, file'[r] # file[r]
            PROVE  Exposed(r)
        <4>1. row[r] \in States
          BY DEF TypeOK
        <4> QED
          BY <2>2, <3>1, <4>1 DEF Exposed, States, NothingYet, ReadyIsStored
      <3> QED
        BY <1>1, <3>1 DEF Shape
    <2> QED
      BY <1>3, <2>1, <2>2
  <1> QED
    BY <1>3, <1>4, <1>5, <1>6, <1>7, <1>8, <1>9

LEMMA StutterStep ==
    ASSUME IInv, UNCHANGED vars
    PROVE  IInv' /\ Shape
  <1> USE DEF IInv
  <1>1. /\ UNCHANGED <<vaultVars, row, inv, alive, jobs, call, app, deleted, faults, crashes>>
    BY DEF vars
  <1>2. FuturesMove
    BY <1>1 DEF FuturesMove, FutureMoves, Holds
  <1>3. Claims' /\ Shape
    BY <1>1, <1>2, SameRows, QuietClaims
  <1>4. TypeOK' /\ JobInv' /\ CallerInv'
    BY <1>1 DEF TypeOK, VaultTypeOK, vaultVars, JobInv, CallerInv
  <1>5. CallInv'
    BY <1>1, SameCall
  <1> QED
    BY <1>3, <1>4, <1>5 DEF Claims

LEMMA Step ==
    ASSUME IInv, [Next]_vars
    PROVE  IInv' /\ Shape
  BY InvokeStep, EnterStep, DropFutureStep, LoseFenceStep, CheckFenceStep, TakeJobStep,
     CleanupQueryFailsStep,
     BeginStep, FindStep, FenceNewStep, FenceOldStep, ExactStep, InsertStep, FenceStoredStep,
     MarkReadyStep, ObserveStep, MarkStep, RevokeStep, NextRecordStep, NoRecordStep, DeleteStep,
     FinalizeStep, CleanupPluginStep, RecoverStep, AroundStep, CrashStep, StutterStep
  DEF Next

LEMMA Inductive == Spec => []IInv
  <1>1. Init => IInv
    <2> SUFFICES ASSUME Init PROVE IInv
      OBVIOUS
    <2> USE DEF Init
    <2>1. OutInv \in Invs /\ OutInv.pc = "Out" /\ OutInv.value = Absent
      BY DEF OutInv, Invs
    <2>2. TypeOK
      <3>1. VaultTypeOK
        BY DEF VaultInit, Empty, Contents, VaultTypeOK
      <3>2. row \in [Refs -> States] /\ inv \in [Invocations -> Invs] /\ call \in Calls
        BY <2>1, IdleFacts DEF States
      <3>3. faults \in 0 .. MaxFaults /\ crashes \in 0 .. MaxCrashes
        BY CredentialAssumption
      <3> QED
        BY <3>1, <3>2, <3>3 DEF TypeOK
    <2>3. MemIsFile /\ NothingYet
      BY DEF VaultInit, Empty, MemIsFile, NothingYet
    <2>4. InvInv /\ JobInv /\ CallerInv /\ CallInv /\ HoldInv
      BY <2>1, IdleFacts DEF InvInv, JobInv, CallerInv, CallInv, HoldInv, Holds, Loops
    <2>5. ReadyIsStored /\ UninstalledIsRevoked /\ UninstallInv
      BY DEF ReadyIsStored, UninstalledIsRevoked, UninstallInv
    <2> QED
      BY <2>2, <2>3, <2>4, <2>5 DEF IInv
  <1>2. IInv /\ [Next]_vars => IInv'
    BY Step
  <1> QED
    BY <1>1, <1>2, PTL DEF Spec

--------------------------------------------------------------------------------
(* Type correctness of the credential protocol. *)
THEOREM TypeCorrect == Spec => []TypeOK
  BY Inductive, PTL DEF IInv

(* Whatever future is dropped, whatever fails, crashes or loses power: a        *)
(* credential that is offered is durably in the vault with the value the user   *)
(* entered.                                                                     *)
THEOREM ReadyStored == Spec => []ReadyIsStored
  BY Inductive, PTL DEF IInv

(* Whatever prompts and jobs were under way, an uninstall that deletes the data *)
(* leaves no credential on offer, and none comes to be offered later.           *)
THEOREM UninstalledRevoked == Spec => []UninstalledIsRevoked
  BY Inductive, PTL DEF IInv

(* A row that is offered is taken back by a revoke or an uninstall only. *)
LEMMA KeptStep ==
    ASSUME IInv, [Next]_vars, NEW r \in Refs, row[r] = "Ready", row'[r] # "Ready"
    PROVE  call.kind = "Revoke" \/ CleanupPlugin
  <1> USE DEF IInv
  <1>1. row # row' /\ row \in [Refs -> States]
    BY DEF TypeOK
  <1>2. Begin \/ MarkReady \/ Mark \/ Finalize \/ CleanupPlugin \/ Recover
    BY <1>1
    DEF Next, vars, Invoke, Enter, DropFuture, LoseFence, CheckFence, TakeJob,
        CleanupQueryFails, Find, FenceNew,
        FenceOld, Exact, Insert, FenceStored, Observe, Revoke, NextRecord, NoRecord, Delete,
        StopPlugin, Unlock, Lock, OtherWrite, Crash
  <1>3. CASE Begin
    BY <1>1, <1>3 DEF Begin, Commit, CommitFails
  <1>4. CASE MarkReady
    BY <1>1, <1>4 DEF MarkReady, Commit, CommitFails
  <1>5. CASE Mark
    BY <1>1, <1>5 DEF Mark, Commit, CommitFails, CallInv
  <1>6. CASE Finalize
    BY <1>1, <1>6 DEF Finalize, Commit, CommitFails, CallInv
  <1>7. CASE Recover
    BY <1>1, <1>7 DEF Recover, Retired, Abandoned
  <1> QED
    BY <1>2, <1>3, <1>4, <1>5, <1>6, <1>7

(* No late cancel, failed publish, clean-up or recovery takes a credential that *)
(* was published.                                                               *)
THEOREM ReadyKept == Spec => ReadyIsKept
  <1>1. IInv /\ [Next]_vars =>
           [\A r \in Refs : row[r] = "Ready" /\ row'[r] # "Ready" =>
               call.kind = "Revoke" \/ CleanupPlugin]_vars
    BY KeptStep
  <1> QED
    BY <1>1, Inductive, PTL DEF Spec, ReadyIsKept

(* Every step is a step of the abstract custody of the secrets, or stutters. *)
LEMMA CustodyStep ==
    ASSUME IInv, [Next]_vars
    PROVE  [Custody!Next]_(Custody!vars)
  <1>1. IInv' /\ Shape
    BY Step
  <1> DEFINE ph == [r \in Refs |-> PhaseOf(row[r])]
  <1>2. /\ row \in [Refs -> States] /\ row' \in [Refs -> States]
        /\ file \in Contents /\ file' \in Contents
    BY <1>1 DEF IInv, TypeOK, VaultTypeOK
  <1>3. \A st \in States : PhaseOf(st) \in Custody!Phases
    BY DEF States, PhaseOf, Custody!Phases
  <1>4. ph' = [r \in Refs |-> PhaseOf(row'[r])]
    OBVIOUS
  <1>5. ph' \in [Refs -> Custody!Phases] /\ file' \in [Refs -> Values \union {Absent}]
    BY <1>2, <1>3, <1>4 DEF Contents
  <1>6. ASSUME NEW r \in Refs
        PROVE  Custody!Move(r) \/ Custody!Store(r)
    <2>1. /\ row[r] \in States /\ row'[r] \in States
          /\ ph[r] = PhaseOf(row[r]) /\ ph'[r] = PhaseOf(row'[r])
      BY <1>2, <1>4
    <2>2. CASE file'[r] = file[r] /\ Moves(r)
      BY <2>1, <2>2 DEF Moves, Custody!Move, Custody!Store, PhaseOf
    <2>3. CASE row'[r] = row[r] /\ (file'[r] # file[r] => Exposed(r))
      BY <2>1, <2>3 DEF Exposed, Custody!Store, PhaseOf
    <2> QED
      BY <1>1, <2>2, <2>3 DEF Shape
  <1> QED
    BY <1>4, <1>5, <1>6 DEF Custody!Next

(* The credentials keep the promise of SecretCustody: no step stores, offers or *)
(* forgets a value out of turn.                                                 *)
THEOREM CustodyKept == Spec => CustodySpec
  <1>1. Init => Custody!Init
    BY DEF Init, VaultInit, Empty, Custody!Init, PhaseOf
  <1>2. IInv /\ [Next]_vars => [Custody!Next]_(Custody!vars)
    BY CustodyStep
  <1> QED
    BY <1>1, <1>2, Inductive, PTL DEF Spec, CustodySpec, Custody!Spec

================================================================================
