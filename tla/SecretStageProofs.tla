--------------------------- MODULE SecretStageProofs ---------------------------
(* Proofs about the staged secrets of SecretStage, for every set of references  *)
(* and values and every number of faults and crashes.                           *)
EXTENDS SecretStage, TLAPS

(* Nothing is stored or acknowledged for a row before its intent is committed,  *)
(* and nothing is acknowledged for an intent.                                   *)
NothingYet ==
    \A r \in Refs :
        /\ row[r] = "None" => file[r] = Absent /\ synced[r] = Absent
        /\ row[r] \in {"None", "PendingVault"} => acked[r] = {}

(* What the call that holds the mutex has established of its row. *)
CallInv ==
    LET r == call.ref IN
    /\ call.pc = "Idle" => call.todo = {}
    /\ call.pc \in {"Compare", "Insert", "Abort", "Mark", "Delete", "Finalize"} => r \in Refs
    /\ call.pc \in {"Compare", "Insert", "Abort", "Mark"} => call.value \in Values
    /\ call.pc = "Compare" => row[r] = "Staged"
    /\ call.pc \in {"Insert", "Abort"} =>
          \/ row[r] = "Staged"
          \/ row[r] = "PendingVault" /\ file[r] = Absent /\ synced[r] = Absent
    /\ call.pc = "Mark" =>
          /\ row[r] \in {"Staged", "PendingVault"}
          /\ file[r] = call.value
          /\ synced[r] = call.value
    /\ call.pc \in {"Delete", "Finalize"} => row[r] = "CleanupPending"
    /\ call.pc = "Finalize" => file[r] = Absent
    /\ \A t \in call.todo :
          /\ row[t] \in {"PendingVault", "Staged", "CleanupPending"}
          /\ t # r

(* What a caller was told is stored is also what a reader sees. *)
AckedInv ==
    \A r \in Refs :
        row[r] \in {"Staged", "Consumed"} => acked[r] \subseteq {synced[r]} \cap {file[r]}

(* Without a loss of power a cancelled row has nothing left. *)
GoneInv == ~PowerLoss => CancelledIsGone

IInv ==
    /\ TypeOK
    /\ MemIsFile
    /\ NothingYet
    /\ CallInv
    /\ StagedIsStored
    /\ AckedInv
    /\ GoneInv

--------------------------------------------------------------------------------
(* The two kinds of steps SecretCustody knows, in terms of the row states: a    *)
(* row moves along its protocol, or an entry changes under an intent, a         *)
(* clean-up or a released row, is replaced under a consumed one, or comes back  *)
(* under a cancelled row with a loss of power.                                  *)
Moves(r) ==
    \/ row'[r] = row[r]
    \/ row[r] = "None" /\ row'[r] = "PendingVault"
    \/ row[r] = "PendingVault" /\ row'[r] = "Staged" /\ file[r] # Absent
    \/ row[r] = "Staged" /\ row'[r] = "Consumed"
    \/ row[r] = "Consumed" /\ row'[r] = "Released"
    \/ row[r] \in {"PendingVault", "Staged"} /\ row'[r] = "CleanupPending"
    \/ row[r] \in {"PendingVault", "CleanupPending"} /\ row'[r] = "Cancelled" /\ file[r] = Absent

Exposed(r) ==
    \/ row[r] \in {"PendingVault", "CleanupPending", "Released"}
    \/ row[r] = "Consumed" /\ file'[r] # Absent
    \/ PowerLoss /\ row[r] = "Cancelled"

Shape ==
    \/ file' = file /\ \A r \in Refs : Moves(r)
    \/ row' = row /\ \A r \in Refs : file'[r] # file[r] => Exposed(r)

(* A failed write leaves the row, or gives it the state it was to have. *)
LEMMA CommitFailsRow ==
    ASSUME TypeOK, NEW r \in Refs, NEW to \in States, NEW p, CommitFails(r, to, p)
    PROVE  /\ row' = row \/ row' = [row EXCEPT ![r] = to]
           /\ row' \in [Refs -> States]
           /\ poisoned' \subseteq Tables
           /\ faults' \in 0 .. MaxFaults
  <1>1. row' = row \/ row' = [row EXCEPT ![r] = to]
    BY DEF CommitFails
  <1>2. row' \in [Refs -> States]
    BY <1>1 DEF TypeOK
  <1>3. poisoned' \subseteq Tables
    BY DEF CommitFails, TypeOK, Tables, Table
  <1>4. faults' \in 0 .. MaxFaults
    BY StageAssumption DEF CommitFails, Ill, TypeOK
  <1> QED
    BY <1>1, <1>2, <1>3, <1>4

(* The end of a call leaves nothing to be said of it. *)
LEMMA EndIdle ==
    ASSUME TypeOK, NEW ok, End(ok)
    PROVE  call' \in Calls /\ pass' \in Tables /\ CallInv'
  BY StageAssumption DEF End, Idle, Calls, Pcs, Tables, TypeOK, CallInv

(* A call that goes on keeps its row, value and batch. *)
LEMMA GotoCall ==
    ASSUME TypeOK, NEW pc \in Pcs, Goto(pc)
    PROVE  /\ call' \in Calls
           /\ call'.pc = pc
           /\ call'.ref = call.ref
           /\ call'.value = call.value
           /\ call'.todo = call.todo
           /\ pass' \in Tables
  BY DEF Goto, Calls, TypeOK

--------------------------------------------------------------------------------
(* A vault call for a row that is an intent, a clean-up or released, or that    *)
(* leaves the row's entry alone, disturbs no claim about the rows.              *)
RowClaims == NothingYet /\ StagedIsStored /\ AckedInv /\ GoneInv

LEMMA VaultCallClaims ==
    ASSUME RowClaims, NEW r \in Refs, Spares(r), UNCHANGED <<row, acked>>,
           \/ row[r] \in {"PendingVault", "CleanupPending", "Released"}
           \/ file'[r] = file[r] /\ synced'[r] \in {synced[r], file[r]}
    PROVE  RowClaims'
  BY DEF RowClaims, Spares, NothingYet, StagedIsStored, AckedInv, GoneInv, CancelledIsGone

--------------------------------------------------------------------------------
(* The intent. *)
LEMMA StageNewStep ==
    ASSUME IInv, NEW r \in Refs, NEW v \in Values, StageNew(r, v)
    PROVE  IInv' /\ Shape
  <1> USE StageAssumption, AbsentAssumption DEF IInv
  <1>1. row[r] = "None" /\ call.pc = "Idle"
    BY DEF StageNew
  <1>2. /\ row' = row \/ row' = [row EXCEPT ![r] = "PendingVault"]
        /\ row' \in [Refs -> States]
        /\ poisoned' \subseteq Tables
        /\ faults' \in 0 .. MaxFaults
    <2>1. CASE Well /\ Commit(r, "PendingVault") /\ UNCHANGED poisoned
      BY <2>1 DEF Well, Commit, TypeOK, States
    <2>2. CASE CommitFails(r, "PendingVault", FALSE)
      BY <2>2, CommitFailsRow DEF States
    <2>3. CASE Ill /\ poisoned' = poisoned \union {"Password"} /\ UNCHANGED row
      BY <2>3 DEF Ill, TypeOK, Tables
    <2> QED
      BY <2>1, <2>2, <2>3 DEF StageNew
  <1>3. \/ call' = call
        \/ /\ call' = [Idle EXCEPT !.pc = "Insert", !.ref = r, !.value = v]
           /\ row' = [row EXCEPT ![r] = "PendingVault"]
    BY DEF StageNew, Commit
  <1>4. /\ UNCHANGED <<vaultVars, expired, pass, acked, crashes>>
        /\ current' \subseteq LoginRefs
    BY DEF StageNew, TypeOK, Table
  <1>5. call' \in Calls
    BY <1>3 DEF Calls, Pcs, Idle, TypeOK
  <1>6. TypeOK'
    BY <1>2, <1>4, <1>5 DEF TypeOK, VaultTypeOK, vaultVars
  <1>7. MemIsFile' /\ NothingYet' /\ StagedIsStored' /\ AckedInv' /\ GoneInv'
    BY <1>1, <1>2, <1>4
    DEF TypeOK, vaultVars, MemIsFile, NothingYet, StagedIsStored, AckedInv, GoneInv,
        CancelledIsGone
  <1>8. CallInv'
    <2>1. CASE call' = call
      BY <1>1, <1>2, <1>4, <2>1 DEF CallInv, TypeOK, Calls, vaultVars
    <2>2. CASE call' # call
      <3>1. /\ call'.pc = "Insert" /\ call'.ref = r /\ call'.value = v /\ call'.todo = {}
            /\ row'[r] = "PendingVault"
        BY <1>3, <2>2 DEF Idle, TypeOK
      <3>2. file'[r] = Absent /\ synced'[r] = Absent
        BY <1>1, <1>4 DEF NothingYet, vaultVars
      <3> QED
        BY <3>1, <3>2 DEF CallInv
    <2> QED
      BY <2>1, <2>2
  <1>9. Shape
    BY <1>1, <1>2, <1>4 DEF Shape, Moves, TypeOK, vaultVars
  <1> QED
    BY <1>6, <1>7, <1>8, <1>9

LEMMA StageReplayStep ==
    ASSUME IInv, NEW r \in Refs, NEW v \in Values, StageReplay(r, v)
    PROVE  IInv' /\ Shape
  <1> USE StageAssumption, AbsentAssumption DEF IInv
  <1>1. UNCHANGED <<vaultVars, rowVars, pass, acked, faults, crashes>>
    BY DEF StageReplay
  <1>2. /\ call'.pc \in {"Insert", "Compare"} /\ call'.ref = r /\ call'.value = v
        /\ call'.todo = {} /\ call' \in Calls /\ row[r] = "Staged"
    BY DEF StageReplay, ReplayableRow, Idle, Calls, Pcs
  <1>3. TypeOK'
    BY <1>1, <1>2 DEF TypeOK, VaultTypeOK, vaultVars, rowVars
  <1>4. MemIsFile' /\ NothingYet' /\ StagedIsStored' /\ AckedInv' /\ GoneInv'
    BY <1>1
    DEF vaultVars, rowVars, MemIsFile, NothingYet, StagedIsStored, AckedInv, GoneInv,
        CancelledIsGone
  <1>5. CallInv'
    BY <1>1, <1>2 DEF CallInv, rowVars
  <1>6. Shape
    BY <1>1 DEF Shape, Moves, vaultVars, rowVars
  <1> QED
    BY <1>3, <1>4, <1>5, <1>6

LEMMA CompareStep ==
    ASSUME IInv, Compare
    PROVE  IInv' /\ Shape
  <1> USE StageAssumption, AbsentAssumption DEF IInv
  <1>1. UNCHANGED <<vaultVars, rowVars, acked, faults, crashes>>
    BY DEF Compare
  <1>2. call.ref \in Refs /\ call.value \in Values /\ row[call.ref] = "Staged"
    BY DEF Compare, CallInv
  <1>3. call' \in Calls /\ pass' \in Tables /\ CallInv'
    <2>1. CASE SameSecret(call.ref, call.value)
      <3>1. Goto("Mark")
        BY <2>1 DEF Compare
      <3>2. /\ call' \in Calls /\ call'.pc = "Mark" /\ call'.ref = call.ref
            /\ call'.value = call.value /\ call'.todo = call.todo /\ pass' \in Tables
        BY <3>1, GotoCall DEF Pcs
      <3>3. file[call.ref] = call.value /\ synced[call.ref] = call.value
        BY <1>2, <2>1 DEF SameSecret, MemIsFile, StagedIsStored
      <3> QED
        BY <1>1, <1>2, <3>2, <3>3 DEF CallInv, vaultVars, rowVars
    <2>2. CASE ~SameSecret(call.ref, call.value)
      BY <2>2, EndIdle DEF Compare
    <2> QED
      BY <2>1, <2>2
  <1>4. TypeOK'
    BY <1>1, <1>3 DEF TypeOK, VaultTypeOK, vaultVars, rowVars
  <1>5. MemIsFile' /\ NothingYet' /\ StagedIsStored' /\ AckedInv' /\ GoneInv'
    BY <1>1
    DEF vaultVars, rowVars, MemIsFile, NothingYet, StagedIsStored, AckedInv, GoneInv,
        CancelledIsGone
  <1>6. Shape
    BY <1>1 DEF Shape, Moves, vaultVars, rowVars
  <1> QED
    BY <1>3, <1>4, <1>5, <1>6

LEMMA AnsweredFaults ==
    ASSUME TypeOK, NEW result, Answered(result)
    PROVE  faults' \in 0 .. MaxFaults
  BY StageAssumption DEF TypeOK, Answered, Ill, Well

LEMMA InsertStep ==
    ASSUME IInv, Insert
    PROVE  IInv' /\ Shape
  <1> USE StageAssumption, AbsentAssumption DEF IInv
  <1> DEFINE r == call.ref
             v == call.value
  <1>1. UNCHANGED <<rowVars, acked, crashes>>
    BY DEF Insert
  <1>2. /\ r \in Refs /\ v \in Values
        /\ row[r] = "Staged" \/ (row[r] = "PendingVault" /\ file[r] = Absent /\ synced[r] = Absent)
    BY DEF Insert, CallInv
  <1>3. PICK result \in Results :
          /\ InsertSecret(r, v, result)
          /\ Answered(result)
          /\ \/ result = "Ok" /\ Goto("Mark")
             \/ DefinitelyAbsent(result) /\ Goto("Abort")
             \/ result # "Ok" /\ ~DefinitelyAbsent(result) /\ End(FALSE)
    BY DEF Insert
  <1>4. /\ VaultTypeOK' /\ MemIsFile' /\ Spares(r)
        /\ file[r] # Absent => UNCHANGED <<file, synced>>
        /\ result = "Ok" /\ file[r] = synced[r] => file'[r] = v /\ synced'[r] = v
        /\ DefinitelyAbsent(result) => UNCHANGED <<file, synced>>
    <2>1. /\ VaultTypeOK /\ MemIsFile
          /\ [mem EXCEPT ![r] = v] \in Contents
          /\ [mem EXCEPT ![r] = v][r] = v
          /\ \A s \in Refs \ {r} : [mem EXCEPT ![r] = v][s] = mem[s]
      BY <1>2 DEF TypeOK, VaultTypeOK, Contents
    <2>2. CASE UNCHANGED vaultVars
      BY <1>2, <1>3, <2>1, <2>2
      DEF VaultTypeOK, MemIsFile, Spares, vaultVars, InsertSecret, Refused, Persist,
          DefinitelyAbsent
    <2>3. CASE access = "Open" /\ mem[r] = Absent /\ Persist([mem EXCEPT ![r] = v], result)
      BY <1>2, <2>1, <2>3
      DEF VaultTypeOK, MemIsFile, Spares, vaultVars, Persist, DefinitelyAbsent
    <2> QED
      BY <1>3, <2>2, <2>3 DEF InsertSecret, Refused
  <1>5. file[r] = synced[r] /\ (row[r] = "Staged" => file[r] # Absent)
    BY <1>2 DEF StagedIsStored
  <1>6. RowClaims'
    BY <1>1, <1>2, <1>4, <1>5, VaultCallClaims DEF RowClaims, rowVars
  <1>7. call' \in Calls /\ pass' \in Tables /\ CallInv'
    <2>1. CASE result = "Ok" /\ Goto("Mark")
      <3>1. /\ call' \in Calls /\ call'.pc = "Mark" /\ call'.ref = r
            /\ call'.value = v /\ call'.todo = call.todo /\ pass' \in Tables
        BY <2>1, GotoCall DEF Pcs
      <3> QED
        BY <1>1, <1>2, <1>4, <1>5, <2>1, <3>1 DEF CallInv, rowVars
    <2>2. CASE DefinitelyAbsent(result) /\ Goto("Abort")
      <3>1. /\ call' \in Calls /\ call'.pc = "Abort" /\ call'.ref = r
            /\ call'.value = v /\ call'.todo = call.todo /\ pass' \in Tables
        BY <2>2, GotoCall DEF Pcs
      <3> QED
        BY <1>1, <1>2, <1>4, <2>2, <3>1 DEF CallInv, rowVars
    <2>3. CASE End(FALSE)
      BY <2>3, EndIdle
    <2> QED
      BY <1>3, <2>1, <2>2, <2>3
  <1>8. TypeOK'
    BY <1>1, <1>3, <1>4, <1>7, AnsweredFaults DEF TypeOK, rowVars
  <1>9. Shape
    BY <1>1, <1>2, <1>4, <1>5 DEF Shape, Moves, Exposed, Spares, rowVars
  <1> QED
    BY <1>4, <1>6, <1>7, <1>8, <1>9 DEF RowClaims

(* A step that leaves the vault and the acknowledgements alone disturbs no      *)
(* claim about the rows when the row it moves starts where the move is lawful.  *)
Lawful(r, to) ==
    \/ to = row[r]
    \/ to = "Consumed" /\ row[r] = "Staged"
    \/ to = "CleanupPending" /\ row[r] # "None"
    \/ to = "Cancelled" /\ row[r] # "None" /\ file[r] = Absent

LEMMA LawfulClaims ==
    ASSUME TypeOK, RowClaims, UNCHANGED vaultVars, UNCHANGED acked,
           NEW r \in Refs, NEW to \in States, Lawful(r, to),
           row' = row \/ row' = [row EXCEPT ![r] = to]
    PROVE  RowClaims'
  <1>1. \A s \in Refs : row'[s] = row[s] \/ (s = r /\ row'[s] = to)
    BY DEF TypeOK
  <1>2. UNCHANGED <<file, synced, acked>>
    BY DEF vaultVars
  <1>3. NothingYet' /\ GoneInv'
    BY <1>1, <1>2 DEF Lawful, RowClaims, NothingYet, GoneInv, CancelledIsGone
  <1>4. StagedIsStored' /\ AckedInv'
    BY <1>1, <1>2 DEF Lawful, RowClaims, StagedIsStored, AckedInv
  <1> QED
    BY <1>3, <1>4 DEF RowClaims

LEMMA AbortStep ==
    ASSUME IInv, Abort
    PROVE  IInv' /\ Shape
  <1> USE StageAssumption, AbsentAssumption DEF IInv
  <1> DEFINE r == call.ref
  <1>1. UNCHANGED <<vaultVars, expired, current, acked, crashes>>
    BY DEF Abort
  <1>2. call' \in Calls /\ pass' \in Tables /\ CallInv'
    BY EndIdle DEF Abort
  <1>3. /\ r \in Refs
        /\ row[r] = "Staged" \/ (row[r] = "PendingVault" /\ file[r] = Absent)
    BY DEF Abort, CallInv
  <1>4. /\ row' \in [Refs -> States]
        /\ poisoned' \subseteq Tables
        /\ faults' \in 0 .. MaxFaults
        /\ \/ row' = row
           \/ row[r] = "PendingVault" /\ row' = [row EXCEPT ![r] = "Cancelled"]
    <2>1. CASE /\ row[r] = "PendingVault"
               /\ Well /\ Commit(r, "Cancelled") /\ UNCHANGED poisoned
      BY <1>3, <2>1 DEF Well, Commit, TypeOK, States
    <2>2. CASE row[r] = "PendingVault" /\ CommitFails(r, "Cancelled", FALSE)
      BY <1>3, <2>2, CommitFailsRow DEF States
    <2>3. CASE Well /\ UNCHANGED <<row, poisoned>>
      BY <2>3 DEF Well, TypeOK
    <2> QED
      BY <2>1, <2>2, <2>3 DEF Abort
  <1>5. RowClaims'
    <2>1. CASE row[r] = "PendingVault"
      BY <1>1, <1>3, <1>4, <2>1, LawfulClaims DEF RowClaims, Lawful, States
    <2>2. CASE row[r] = "Staged"
      BY <1>1, <1>3, <1>4, <2>2, LawfulClaims DEF RowClaims, Lawful, States
    <2> QED
      BY <1>3, <2>1, <2>2
  <1>6. TypeOK' /\ MemIsFile'
    BY <1>1, <1>2, <1>4 DEF TypeOK, VaultTypeOK, MemIsFile, vaultVars
  <1>7. Shape
    BY <1>1, <1>3, <1>4 DEF Shape, Moves, TypeOK, vaultVars
  <1> QED
    BY <1>2, <1>5, <1>6, <1>7 DEF RowClaims

LEMMA MarkStep ==
    ASSUME IInv, Mark
    PROVE  IInv' /\ Shape
  <1> USE StageAssumption, AbsentAssumption DEF IInv
  <1> DEFINE r == call.ref
             v == call.value
  <1>1. UNCHANGED <<vaultVars, expired, current, crashes>>
    BY DEF Mark
  <1>2. call' \in Calls /\ pass' \in Tables /\ CallInv'
    BY EndIdle DEF Mark
  <1>3. /\ r \in Refs /\ v \in Values
        /\ row[r] \in {"Staged", "PendingVault"}
        /\ file[r] = v /\ synced[r] = v
    BY DEF Mark, CallInv
  <1>4. /\ row' \in [Refs -> States]
        /\ poisoned' \subseteq Tables
        /\ faults' \in 0 .. MaxFaults
        /\ row' = row \/ row' = [row EXCEPT ![r] = "Staged"]
        /\ \/ acked' = acked
           \/ row'[r] = "Staged" /\ acked' = [acked EXCEPT ![r] = @ \union {v}]
    <2>1. CASE row[r] = "Staged" /\ Acknowledge /\ Well /\ UNCHANGED <<row, poisoned>>
      BY <2>1 DEF Well, TypeOK, Acknowledge
    <2>2. CASE Commit(r, "Staged") /\ Acknowledge /\ Well /\ UNCHANGED poisoned
      BY <1>3, <2>2 DEF Well, Commit, TypeOK, States, Acknowledge
    <2>3. CASE CommitFails(r, "Staged", TRUE) /\ UNCHANGED acked
      BY <1>3, <2>3, CommitFailsRow DEF States
    <2>4. CASE Well /\ UNCHANGED <<row, poisoned, acked>>
      BY <2>4 DEF Well, TypeOK
    <2> QED
      BY <2>1, <2>2, <2>3, <2>4 DEF Mark
  <1>5. \A s \in Refs : row'[s] = row[s] \/ (s = r /\ row'[s] = "Staged")
    BY <1>3, <1>4 DEF TypeOK
  <1>6. acked' \in [Refs -> SUBSET Values]
    BY <1>3, <1>4 DEF TypeOK
  <1>7. \A s \in Refs :
            \/ acked'[s] = acked[s]
            \/ s = r /\ row'[s] = "Staged" /\ acked'[s] = acked[s] \union {v}
    <2>1. CASE acked' = acked
      BY <2>1
    <2>2. CASE row'[r] = "Staged" /\ acked' = [acked EXCEPT ![r] = @ \union {v}]
      BY <1>3, <2>2 DEF TypeOK
    <2> QED
      BY <1>4, <2>1, <2>2
  <1>8. NothingYet' /\ StagedIsStored' /\ GoneInv'
    BY <1>1, <1>3, <1>5, <1>7
    DEF NothingYet, StagedIsStored, GoneInv, CancelledIsGone, vaultVars
  <1>9. AckedInv'
    <2>1. UNCHANGED <<file, synced>>
      BY <1>1 DEF vaultVars
    <2>2. acked[r] \subseteq {v}
      BY <1>3 DEF AckedInv, NothingYet
    <2> SUFFICES ASSUME NEW s \in Refs, row'[s] \in {"Staged", "Consumed"}
                 PROVE  acked'[s] \subseteq {synced[s]} \cap {file[s]}
      BY <2>1 DEF AckedInv
    <2>3. CASE s = r
      BY <1>3, <1>7, <2>2, <2>3
    <2>4. CASE s # r
      BY <1>5, <1>7, <2>4 DEF AckedInv
    <2> QED
      BY <2>3, <2>4
  <1>10. TypeOK' /\ MemIsFile'
    BY <1>1, <1>2, <1>4, <1>6 DEF TypeOK, VaultTypeOK, MemIsFile, vaultVars
  <1>11. Shape
    BY <1>1, <1>3, <1>5 DEF Shape, Moves, vaultVars
  <1> QED
    BY <1>2, <1>8, <1>9, <1>10, <1>11

LEMMA CancelStep ==
    ASSUME IInv, NEW r \in Refs, CancelBegin(r)
    PROVE  IInv' /\ Shape
  <1> USE StageAssumption, AbsentAssumption DEF IInv
  <1>1. /\ UNCHANGED <<vaultVars, expired, current, pass, acked, crashes>>
        /\ row[r] # "None" /\ call.pc = "Idle"
    BY DEF CancelBegin
  <1>2. /\ row' \in [Refs -> States]
        /\ poisoned' \subseteq Tables
        /\ faults' \in 0 .. MaxFaults
        /\ \/ row' = row
           \/ /\ row[r] \in {"PendingVault", "Staged"}
              /\ row' = [row EXCEPT ![r] = "CleanupPending"]
        /\ \/ call' = call \/ call' = Idle
           \/ /\ call' = [Idle EXCEPT !.pc = "Delete", !.ref = r]
              /\ row'[r] = "CleanupPending"
    <2>1. CASE /\ Well /\ Commit(r, CleanupTarget(row[r])) /\ UNCHANGED poisoned
               /\ call' = IF row'[r] # "CleanupPending" THEN Idle
                          ELSE [Idle EXCEPT !.pc = "Delete", !.ref = r]
      <3>1. [row EXCEPT ![r] = row[r]] = row
        BY DEF TypeOK
      <3>2. CASE row[r] \in {"PendingVault", "Staged"}
        BY <2>1, <3>2 DEF Well, Commit, CleanupTarget, TypeOK, States
      <3>3. CASE row[r] \notin {"PendingVault", "Staged"}
        <4>1. row[r] \in {"CleanupPending", "Cancelled", "Consumed", "Released"}
          BY <1>1, <3>3 DEF TypeOK, States
        <4>2. CleanupTarget(row[r]) = row[r]
          BY <4>1 DEF CleanupTarget
        <4>3. row' = row
          BY <2>1, <3>1, <4>2 DEF Commit
        <4> QED
          BY <2>1, <4>1, <4>3 DEF Well, TypeOK
      <3> QED
        BY <3>2, <3>3
    <2>2. CASE /\ row[r] \in {"PendingVault", "Staged"}
               /\ CommitFails(r, "CleanupPending", FALSE) /\ UNCHANGED call
      BY <2>2, CommitFailsRow DEF States
    <2> QED
      BY <2>1, <2>2 DEF CancelBegin
  <1>3. RowClaims'
    BY <1>1, <1>2, LawfulClaims DEF RowClaims, Lawful, States
  <1>4. call' \in Calls
    <2>1. Idle \in Calls
      BY DEF Calls, Pcs, Idle
    <2>2. [Idle EXCEPT !.pc = "Delete", !.ref = r] \in Calls
      BY DEF Calls, Pcs, Idle
    <2>3. call \in Calls
      BY DEF TypeOK
    <2> QED
      BY <1>2, <2>1, <2>2, <2>3
  <1>5. CallInv'
    <2>1. CASE call' = call
      BY <1>1, <1>2, <2>1 DEF CallInv, TypeOK, Calls, vaultVars
    <2>2. CASE call' = Idle
      BY <2>2 DEF CallInv, Idle
    <2>3. CASE /\ call' = [Idle EXCEPT !.pc = "Delete", !.ref = r]
               /\ row'[r] = "CleanupPending"
      BY <2>3 DEF CallInv, Idle
    <2> QED
      BY <1>2, <2>1, <2>2, <2>3
  <1>6. TypeOK' /\ MemIsFile'
    BY <1>1, <1>2, <1>4 DEF TypeOK, VaultTypeOK, MemIsFile, vaultVars
  <1>7. Shape
    BY <1>1, <1>2 DEF Shape, Moves, TypeOK, vaultVars
  <1> QED
    BY <1>3, <1>5, <1>6, <1>7 DEF RowClaims

LEMMA ReconcileStep ==
    ASSUME IInv, Reconcile
    PROVE  IInv' /\ Shape
  <1> USE StageAssumption, AbsentAssumption DEF IInv
  <1>1. UNCHANGED <<vaultVars, rowVars, acked, faults, crashes>>
    BY DEF Reconcile
  <1>2. call.pc = "Idle" /\ pass' \in Tables
    BY DEF Reconcile, TypeOK, Tables
  <1>3. \/ call' = call
        \/ call' = [Idle EXCEPT !.pc = "Next", !.todo = Candidates(pass), !.by = "Worker"]
    BY DEF Reconcile
  <1>4. call' \in Calls /\ CallInv'
    <2>1. CASE call' = call
      BY <1>1, <2>1 DEF CallInv, TypeOK, vaultVars, rowVars
    <2>2. CASE call' = [Idle EXCEPT !.pc = "Next", !.todo = Candidates(pass), !.by = "Worker"]
      <3>1. /\ call'.pc = "Next" /\ call'.ref = NoRef /\ call'.todo = Candidates(pass)
            /\ call'.value = Absent /\ call' \in Calls
        BY <2>2 DEF Idle, Calls, Pcs, Candidates
      <3>2. \A t \in Candidates(pass) :
                t \in Refs /\ row[t] \in {"PendingVault", "Staged", "CleanupPending"}
        BY DEF Candidates
      <3> QED
        BY <1>1, <3>1, <3>2 DEF CallInv, rowVars
    <2> QED
      BY <1>3, <2>1, <2>2
  <1>5. TypeOK'
    BY <1>1, <1>2, <1>4 DEF TypeOK, VaultTypeOK, vaultVars, rowVars
  <1>6. MemIsFile' /\ NothingYet' /\ StagedIsStored' /\ AckedInv' /\ GoneInv'
    BY <1>1
    DEF vaultVars, rowVars, MemIsFile, NothingYet, StagedIsStored, AckedInv, GoneInv,
        CancelledIsGone
  <1>7. Shape
    BY <1>1 DEF Shape, Moves, vaultVars, rowVars
  <1> QED
    BY <1>4, <1>5, <1>6, <1>7

LEMMA ReconcileNextStep ==
    ASSUME IInv, NEW r \in Refs, ReconcileNext(r)
    PROVE  IInv' /\ Shape
  <1> USE StageAssumption, AbsentAssumption DEF IInv
  <1>1. UNCHANGED <<vaultVars, expired, current, acked, crashes>>
    BY DEF ReconcileNext
  <1>2. /\ call.pc = "Next" /\ r \in call.todo
        /\ row[r] \in {"PendingVault", "Staged", "CleanupPending"}
    BY DEF ReconcileNext, CallInv
  <1>3. /\ row' \in [Refs -> States]
        /\ poisoned' \subseteq Tables
        /\ faults' \in 0 .. MaxFaults
        /\ row' = row \/ row' = [row EXCEPT ![r] = "CleanupPending"]
        /\ \/ End(FALSE)
           \/ /\ call' = [call EXCEPT !.pc = "Delete", !.ref = r, !.todo = @ \ {r}]
              /\ row'[r] = "CleanupPending"
              /\ UNCHANGED pass
    <2>1. CASE CommitFails(r, "CleanupPending", FALSE) /\ End(FALSE)
      BY <2>1, CommitFailsRow DEF States
    <2>2. CASE /\ Well /\ Commit(r, CleanupTarget(row[r])) /\ UNCHANGED <<poisoned, pass>>
               /\ call' = [call EXCEPT !.pc = "Delete", !.ref = r, !.todo = @ \ {r}]
      BY <1>2, <2>2 DEF Well, Commit, CleanupTarget, TypeOK, States
    <2> QED
      BY <1>2, <2>1, <2>2 DEF ReconcileNext
  <1>4. RowClaims'
    BY <1>1, <1>2, <1>3, LawfulClaims DEF RowClaims, Lawful, States
  <1>5. call' \in Calls /\ pass' \in Tables /\ CallInv'
    <2>1. CASE End(FALSE)
      BY <2>1, EndIdle
    <2>2. CASE /\ call' = [call EXCEPT !.pc = "Delete", !.ref = r, !.todo = @ \ {r}]
               /\ row'[r] = "CleanupPending"
               /\ UNCHANGED pass
      <3>1. /\ call' \in Calls /\ call'.pc = "Delete" /\ call'.ref = r
            /\ call'.todo = call.todo \ {r} /\ pass' \in Tables
            /\ call.todo \subseteq Refs
        BY <2>2 DEF Calls, Pcs, TypeOK
      <3>2. \A t \in call.todo \ {r} : row'[t] \in {"PendingVault", "Staged", "CleanupPending"}
        BY <1>3, <3>1 DEF CallInv, TypeOK
      <3> QED
        BY <2>2, <3>1, <3>2 DEF CallInv
    <2> QED
      BY <1>3, <2>1, <2>2
  <1>6. TypeOK' /\ MemIsFile'
    BY <1>1, <1>3, <1>5 DEF TypeOK, VaultTypeOK, MemIsFile, vaultVars
  <1>7. Shape
    BY <1>1, <1>2, <1>3 DEF Shape, Moves, TypeOK, vaultVars
  <1> QED
    BY <1>4, <1>5, <1>6, <1>7 DEF RowClaims

(* What delete_secrets leaves of the vault. *)
LEMMA DeletedEntry ==
    ASSUME VaultTypeOK, MemIsFile, NEW r \in Refs, NEW result, DeleteSecret(r, result)
    PROVE  /\ VaultTypeOK' /\ MemIsFile' /\ Spares(r)
           /\ result = "Ok" => file'[r] = Absent
  <1>1. /\ [mem EXCEPT ![r] = Absent] \in Contents
        /\ [mem EXCEPT ![r] = Absent][r] = Absent
        /\ \A s \in Refs \ {r} : [mem EXCEPT ![r] = Absent][s] = mem[s]
    BY DEF VaultTypeOK, Contents
  <1>2. CASE UNCHANGED vaultVars
    BY <1>1, <1>2
    DEF VaultTypeOK, MemIsFile, Spares, vaultVars, DeleteSecret, Refused, Persist
  <1>3. CASE access = "Open" /\ Persist([mem EXCEPT ![r] = Absent], result)
    BY <1>1, <1>3 DEF VaultTypeOK, MemIsFile, Spares, vaultVars, Persist
  <1> QED
    BY <1>2, <1>3 DEF DeleteSecret, Refused

LEMMA DeleteStep ==
    ASSUME IInv, Delete
    PROVE  IInv' /\ Shape
  <1> USE StageAssumption, AbsentAssumption DEF IInv
  <1> DEFINE r == call.ref
  <1>1. UNCHANGED <<rowVars, acked, crashes>>
    BY DEF Delete
  <1>2. r \in Refs /\ row[r] = "CleanupPending"
    BY DEF Delete, CallInv
  <1>3. PICK result \in Results :
          /\ DeleteSecret(r, result)
          /\ Answered(result)
          /\ IF result = "Ok" THEN Goto("Finalize") ELSE End(FALSE)
    BY DEF Delete
  <1>4. /\ VaultTypeOK' /\ MemIsFile' /\ Spares(r)
        /\ result = "Ok" => file'[r] = Absent
    BY <1>2, <1>3, DeletedEntry DEF TypeOK
  <1>5. RowClaims'
    BY <1>1, <1>2, <1>4, VaultCallClaims DEF RowClaims, rowVars
  <1>6. call' \in Calls /\ pass' \in Tables /\ CallInv'
    <2>1. CASE result = "Ok"
      <3>1. /\ call' \in Calls /\ call'.pc = "Finalize" /\ call'.ref = r
            /\ call'.todo = call.todo /\ pass' \in Tables
        BY <1>3, <2>1, GotoCall DEF Pcs
      <3> QED
        BY <1>1, <1>2, <1>4, <2>1, <3>1 DEF CallInv, rowVars
    <2>2. CASE result # "Ok"
      BY <1>3, <2>2, EndIdle
    <2> QED
      BY <2>1, <2>2
  <1>7. TypeOK'
    BY <1>1, <1>3, <1>4, <1>6, AnsweredFaults DEF TypeOK, rowVars
  <1>8. Shape
    BY <1>1, <1>2, <1>4 DEF Shape, Moves, Exposed, Spares, rowVars
  <1> QED
    BY <1>4, <1>5, <1>6, <1>7, <1>8 DEF RowClaims

LEMMA FinalizeStep ==
    ASSUME IInv, Finalize
    PROVE  IInv' /\ Shape
  <1> USE StageAssumption, AbsentAssumption DEF IInv
  <1> DEFINE r == call.ref
  <1>1. UNCHANGED <<vaultVars, expired, current, acked, crashes>>
    BY DEF Finalize
  <1>2. r \in Refs /\ row[r] = "CleanupPending" /\ file[r] = Absent
    BY DEF Finalize, CallInv
  <1>3. /\ row' \in [Refs -> States]
        /\ poisoned' \subseteq Tables
        /\ faults' \in 0 .. MaxFaults
        /\ row' = row \/ row' = [row EXCEPT ![r] = "Cancelled"]
        /\ End(TRUE) \/ End(FALSE) \/ Goto("Next")
    <2>1. CASE /\ Well /\ Commit(r, "Cancelled") /\ UNCHANGED poisoned
               /\ IF call.todo = {} THEN End(TRUE) ELSE Goto("Next")
      BY <1>2, <2>1 DEF Well, Commit, TypeOK, States
    <2>2. CASE CommitFails(r, "Cancelled", FALSE) /\ End(FALSE)
      BY <1>2, <2>2, CommitFailsRow DEF States
    <2> QED
      BY <1>2, <2>1, <2>2 DEF Finalize
  <1>4. RowClaims'
    BY <1>1, <1>2, <1>3, LawfulClaims DEF RowClaims, Lawful, States
  <1>5. call' \in Calls /\ pass' \in Tables /\ CallInv'
    <2>1. CASE End(TRUE) \/ End(FALSE)
      BY <2>1, EndIdle
    <2>2. CASE Goto("Next")
      <3>1. /\ call' \in Calls /\ call'.pc = "Next" /\ call'.ref = r
            /\ call'.todo = call.todo /\ pass' \in Tables
        BY <2>2, GotoCall DEF Pcs
      <3>2. \A t \in call.todo : row'[t] \in {"PendingVault", "Staged", "CleanupPending"} /\ t # r
        BY <1>3 DEF CallInv, TypeOK, Calls
      <3> QED
        BY <3>1, <3>2 DEF CallInv
    <2> QED
      BY <1>3, <2>1, <2>2
  <1>6. TypeOK' /\ MemIsFile'
    BY <1>1, <1>3, <1>5 DEF TypeOK, VaultTypeOK, MemIsFile, vaultVars
  <1>7. Shape
    BY <1>1, <1>2, <1>3 DEF Shape, Moves, TypeOK, vaultVars
  <1> QED
    BY <1>4, <1>5, <1>6, <1>7 DEF RowClaims

LEMMA ConsumeStep ==
    ASSUME IInv, NEW S \in SUBSET Refs, Consume(S)
    PROVE  IInv' /\ Shape
  <1> USE StageAssumption, AbsentAssumption DEF IInv
  <1>1. /\ UNCHANGED <<vaultVars, expired, call, pass, acked, crashes>>
        /\ \A r \in S : row[r] = "Staged"
        /\ call.pc = "Idle"
    BY DEF Consume, Consumable
  <1>2. row' = row \/ row' = [r \in Refs |-> IF r \in S THEN "Consumed" ELSE row[r]]
    BY DEF Consume
  <1>3. /\ row' \in [Refs -> States]
        /\ \A r \in Refs :
              row'[r] = row[r] \/ (row[r] = "Staged" /\ row'[r] = "Consumed")
    BY <1>1, <1>2 DEF TypeOK, States
  <1>4. /\ poisoned' \subseteq Tables
        /\ faults' \in 0 .. MaxFaults
        /\ current' \subseteq LoginRefs
    <2>1. poisoned' \in {poisoned, poisoned \union {"Login"}} /\ current' \in {{}, current}
      BY DEF Consume
    <2>2. faults' = faults \/ (faults < MaxFaults /\ faults' = faults + 1)
      BY DEF Consume, Well, Ill
    <2> QED
      BY <2>1, <2>2 DEF TypeOK, Tables
  <1>5. NothingYet' /\ StagedIsStored' /\ AckedInv' /\ GoneInv'
    BY <1>1, <1>3
    DEF NothingYet, StagedIsStored, AckedInv, GoneInv, CancelledIsGone, vaultVars
  <1>6. TypeOK' /\ MemIsFile'
    BY <1>1, <1>3, <1>4 DEF TypeOK, VaultTypeOK, MemIsFile, vaultVars
  <1>7. CallInv'
    BY <1>1 DEF CallInv
  <1>8. Shape
    BY <1>1, <1>3 DEF Shape, Moves, vaultVars
  <1> QED
    BY <1>5, <1>6, <1>7, <1>8

--------------------------------------------------------------------------------
(* After the record is saved. *)

(* The call under way is about no consumed or released row. *)
LEMMA CallElsewhere ==
    ASSUME IInv, NEW r \in Refs, row[r] \in {"Consumed", "Released"}, Spares(r),
           UNCHANGED <<row, call>>
    PROVE  CallInv'
  <1>1. ASSUME call.pc \in {"Insert", "Abort", "Mark", "Finalize"}
        PROVE  call.ref \in Refs \ {r}
    BY <1>1 DEF IInv, CallInv
  <1> QED
    BY <1>1 DEF IInv, CallInv, Spares

LEMMA ReplacePasswordStep ==
    ASSUME IInv, NEW r \in Refs, NEW v \in Values, ReplacePassword(r, v)
    PROVE  IInv' /\ Shape
  <1> USE StageAssumption, AbsentAssumption DEF IInv
  <1>1. UNCHANGED <<rowVars, call, pass, crashes>> /\ row[r] \in {"Consumed", "Released"}
    BY DEF ReplacePassword
  <1>2. PICK result \in Results :
          /\ ReplaceSecret(r, v, result)
          /\ Answered(result)
          /\ acked' = CASE result = "Ok" -> [acked EXCEPT ![r] = {v}]
                        [] result = "CommitStateUnknown" -> [acked EXCEPT ![r] = {}]
                        [] OTHER -> acked
    BY DEF ReplacePassword
  <1>3. /\ VaultTypeOK' /\ MemIsFile' /\ Spares(r)
        /\ result \notin {"Ok", "CommitStateUnknown"} => UNCHANGED <<file, synced>>
        /\ result = "Ok" => file'[r] = v /\ synced'[r] = v
        /\ result = "CommitStateUnknown" =>
              file'[r] = v /\ synced'[r] \in {synced[r], file[r]}
    <2>1. /\ VaultTypeOK /\ MemIsFile
          /\ [mem EXCEPT ![r] = v] \in Contents
          /\ [mem EXCEPT ![r] = v][r] = v
          /\ \A s \in Refs \ {r} : [mem EXCEPT ![r] = v][s] = mem[s]
      BY DEF TypeOK, VaultTypeOK, Contents
    <2>2. CASE UNCHANGED vaultVars /\ result \notin {"Ok", "CommitStateUnknown"}
      BY <2>1, <2>2 DEF VaultTypeOK, MemIsFile, Spares, vaultVars
    <2>3. CASE access = "Open" /\ Persist([mem EXCEPT ![r] = v], result)
      BY <2>1, <2>3 DEF VaultTypeOK, MemIsFile, Spares, vaultVars, Persist
    <2> QED
      BY <1>2, <2>2, <2>3 DEF ReplaceSecret, Refused
  <1>4. /\ acked' \in [Refs -> SUBSET Values]
        /\ \A s \in Refs \ {r} : acked'[s] = acked[s]
        /\ result = "Ok" => acked'[r] = {v}
        /\ result = "CommitStateUnknown" => acked'[r] = {}
        /\ result \notin {"Ok", "CommitStateUnknown"} => acked'[r] = acked[r]
    <2>1. CASE result = "Ok"
      BY <1>2, <2>1 DEF TypeOK
    <2>2. CASE result = "CommitStateUnknown"
      BY <1>2, <2>2 DEF TypeOK
    <2>3. CASE result \notin {"Ok", "CommitStateUnknown"}
      BY <1>2, <2>3 DEF TypeOK
    <2> QED
      BY <2>1, <2>2, <2>3
  <1>5. \A s \in Refs \ {r} :
            /\ row'[s] = row[s] /\ acked'[s] = acked[s] /\ file'[s] = file[s]
            /\ synced'[s] \in {synced[s], file[s]}
    BY <1>1, <1>3, <1>4 DEF Spares, rowVars
  <1>6. row'[r] = row[r] /\ (row[r] = "Consumed" => file'[r] # Absent /\ synced'[r] # Absent)
    BY <1>1, <1>2, <1>3 DEF rowVars, StagedIsStored
  <1>7. NothingYet' /\ StagedIsStored' /\ GoneInv'
    BY <1>1, <1>5, <1>6 DEF NothingYet, StagedIsStored, GoneInv, CancelledIsGone
  <1>8. AckedInv'
    BY <1>3, <1>4, <1>5, <1>6 DEF AckedInv
  <1>9. CallInv'
    BY <1>1, <1>3, CallElsewhere DEF rowVars
  <1>10. TypeOK'
    BY <1>1, <1>2, <1>3, <1>4, AnsweredFaults DEF TypeOK, rowVars
  <1>11. Shape
    BY <1>1, <1>5, <1>6 DEF Shape, Exposed, rowVars
  <1> QED
    BY <1>3, <1>7, <1>8, <1>9, <1>10, <1>11

LEMMA SyncReleaseStep ==
    ASSUME IInv, NEW r \in Refs, SyncRelease(r)
    PROVE  IInv' /\ Shape
  <1> USE StageAssumption, AbsentAssumption DEF IInv
  <1>1. /\ UNCHANGED <<vaultVars, expired, current, poisoned, call, pass, acked, faults, crashes>>
        /\ row[r] = "Consumed" /\ row' = [row EXCEPT ![r] = "Released"]
    BY DEF SyncRelease, Commit
  <1>2. /\ row' \in [Refs -> States]
        /\ \A s \in Refs :
              row'[s] = row[s] \/ (row[s] = "Consumed" /\ row'[s] = "Released")
    BY <1>1 DEF TypeOK, States
  <1>3. NothingYet' /\ StagedIsStored' /\ AckedInv' /\ GoneInv'
    BY <1>1, <1>2
    DEF NothingYet, StagedIsStored, AckedInv, GoneInv, CancelledIsGone, vaultVars
  <1>4. TypeOK' /\ MemIsFile'
    BY <1>1, <1>2 DEF TypeOK, VaultTypeOK, MemIsFile, vaultVars
  <1>5. CallInv'
    <2>1. /\ call.todo \subseteq Refs
          /\ call.pc \in {"Compare", "Insert", "Abort", "Mark", "Delete", "Finalize"} =>
                call.ref \in Refs
      BY DEF TypeOK, Calls, CallInv
    <2> QED
      BY <1>1, <1>2, <2>1 DEF CallInv, vaultVars
  <1>6. Shape
    BY <1>1, <1>2 DEF Shape, Moves, vaultVars
  <1> QED
    BY <1>3, <1>4, <1>5, <1>6

LEMMA SyncCollectStep ==
    ASSUME IInv, NEW r \in Refs, SyncCollect(r)
    PROVE  IInv' /\ Shape
  <1> USE StageAssumption, AbsentAssumption DEF IInv
  <1>1. UNCHANGED <<rowVars, call, pass, acked, crashes>> /\ row[r] = "Released"
    BY DEF SyncCollect
  <1>2. PICK result \in Results : DeleteSecret(r, result) /\ Answered(result)
    BY DEF SyncCollect
  <1>3. VaultTypeOK' /\ MemIsFile' /\ Spares(r)
    BY <1>2, DeletedEntry DEF TypeOK
  <1>4. RowClaims'
    BY <1>1, <1>3, VaultCallClaims DEF RowClaims, rowVars
  <1>5. CallInv'
    BY <1>1, <1>3, CallElsewhere DEF rowVars
  <1>6. TypeOK'
    BY <1>1, <1>2, <1>3, AnsweredFaults DEF TypeOK, rowVars
  <1>7. Shape
    BY <1>1, <1>3 DEF Shape, Exposed, Spares, rowVars
  <1> QED
    BY <1>3, <1>4, <1>5, <1>6, <1>7 DEF RowClaims

--------------------------------------------------------------------------------
(* What happens around a call changes no row, and the vault only by a reload,   *)
(* by making the visible file durable, or by bringing the durable one back.     *)
Around == Unlock \/ Lock \/ OtherWrite \/ Crash

LEMMA AroundVault ==
    ASSUME IInv, Around
    PROVE  /\ VaultTypeOK' /\ MemIsFile'
           /\ \/ file' = file /\ synced' \in {synced, file}
              \/ PowerLoss /\ file' = synced /\ synced' = synced /\ call' = Idle
  <1> USE DEF IInv, TypeOK, VaultTypeOK
  <1>1. CASE Unlock
    BY <1>1 DEF Unlock, UnlockVault, MemIsFile
  <1>2. CASE Lock
    BY <1>2 DEF Lock, LockVault, MemIsFile, Empty, Contents
  <1>3. CASE OtherWrite
    BY <1>3 DEF OtherWrite, WriteElsewhere, Persist, MemIsFile, vaultVars
  <1>4. CASE Crash
    BY <1>4 DEF Crash, CrashVault, PowerLossVault, MemIsFile, Empty, Contents
  <1> QED
    BY <1>1, <1>2, <1>3, <1>4 DEF Around

LEMMA AroundStep ==
    ASSUME IInv, Around
    PROVE  IInv' /\ Shape
  <1> USE StageAssumption, AbsentAssumption DEF IInv
  <1>1. /\ VaultTypeOK' /\ MemIsFile'
        /\ \/ file' = file /\ synced' \in {synced, file}
           \/ PowerLoss /\ file' = synced /\ synced' = synced /\ call' = Idle
    BY AroundVault
  <1>2. /\ UNCHANGED <<row, expired, current, acked>>
        /\ poisoned' \in {poisoned, {}}
        /\ call' \in {call, Idle}
        /\ pass' \in {pass, "Login"}
    BY DEF Around, Unlock, Lock, OtherWrite, Crash, rowVars
  <1>3. faults' \in 0 .. MaxFaults /\ crashes' \in 0 .. MaxCrashes
    <2>1. CASE Unlock \/ Lock
      BY <2>1 DEF Unlock, Lock, TypeOK
    <2>2. CASE OtherWrite
      BY <2>2, AnsweredFaults DEF OtherWrite, TypeOK
    <2>3. CASE Crash
      BY <2>3 DEF Crash, TypeOK
    <2> QED
      BY <2>1, <2>2, <2>3 DEF Around
  <1>4. TypeOK'
    BY <1>1, <1>2, <1>3 DEF TypeOK, Idle, Calls, Pcs, Tables
  <1>5. NothingYet' /\ StagedIsStored' /\ AckedInv'
    BY <1>1, <1>2 DEF NothingYet, StagedIsStored, AckedInv
  <1>6. GoneInv'
    BY <1>1, <1>2 DEF GoneInv, CancelledIsGone
  <1>7. CallInv'
    <2>1. CASE call' = Idle
      BY <2>1 DEF CallInv, Idle
    <2>2. CASE call' = call /\ file' = file /\ synced' \in {synced, file}
      BY <1>2, <2>2 DEF CallInv
    <2> QED
      BY <1>1, <1>2, <2>1, <2>2
  <1>8. Shape
    <2>1. CASE file' = file
      BY <1>2, <2>1 DEF Shape, Moves
    <2>2. CASE PowerLoss /\ file' = synced
      <3>1. ASSUME NEW r \in Refs, file'[r] # file[r]
            PROVE  Exposed(r)
        BY <2>2, <3>1 DEF Exposed, TypeOK, States, NothingYet, StagedIsStored
      <3> QED
        BY <1>2, <3>1 DEF Shape
    <2> QED
      BY <1>1, <2>1, <2>2
  <1> QED
    BY <1>1, <1>4, <1>5, <1>6, <1>7, <1>8

(* Time, and a replacement that consumes nothing, touch neither store. *)
LEMMA QuietStep ==
    ASSUME IInv, ReplaceAutomation \/ (\E r \in Refs : Expire(r)) \/ UNCHANGED vars
    PROVE  IInv' /\ Shape
  <1> USE DEF IInv
  <1>1. /\ UNCHANGED <<vaultVars, row, poisoned, call, pass, acked, faults, crashes>>
        /\ expired' \subseteq Refs /\ current' \subseteq LoginRefs
    BY DEF ReplaceAutomation, Expire, vars, rowVars, TypeOK
  <1>2. TypeOK' /\ MemIsFile'
    BY <1>1 DEF TypeOK, VaultTypeOK, MemIsFile, vaultVars
  <1>3. NothingYet' /\ StagedIsStored' /\ AckedInv' /\ GoneInv' /\ CallInv'
    BY <1>1
    DEF vaultVars, NothingYet, StagedIsStored, AckedInv, GoneInv, CancelledIsGone, CallInv
  <1>4. Shape
    BY <1>1 DEF Shape, Moves, vaultVars
  <1> QED
    BY <1>2, <1>3, <1>4

LEMMA Step ==
    ASSUME IInv, [Next]_vars
    PROVE  IInv' /\ Shape
  BY StageNewStep, StageReplayStep, CancelStep, ConsumeStep, CompareStep, InsertStep, AbortStep,
     MarkStep, ReconcileNextStep, DeleteStep, FinalizeStep, ReconcileStep, ReplacePasswordStep,
     SyncReleaseStep, SyncCollectStep, AroundStep, QuietStep
  DEF Next, CallStep, Around

LEMMA Inductive == Spec => []IInv
  <1>1. Init => IInv
    BY StageAssumption, AbsentAssumption
    DEF Init, VaultInit, Empty, Contents, Idle, IInv, TypeOK, VaultTypeOK, Calls, Pcs, States,
        Tables, MemIsFile, NothingYet, CallInv, StagedIsStored, AckedInv, GoneInv,
        CancelledIsGone
  <1>2. IInv /\ [Next]_vars => IInv'
    BY Step
  <1> QED
    BY <1>1, <1>2, PTL DEF Spec

(* Type correctness of the staging protocols. *)
THEOREM TypeCorrect == Spec => []TypeOK
  BY Inductive, PTL DEF IInv

(* Whatever fails, crashes or loses power, a secret that a staged row offers or *)
(* a saved record refers to is in the vault file and will be after the next     *)
(* loss of power, the staged one unchanged.                                     *)
THEOREM StagedStored == Spec => []StagedIsStored
  BY Inductive, PTL DEF IInv

(* Whatever is staged, replayed or replaced, the durable value under a staged   *)
(* row, or one a saved record refers to, is the one its caller was last told is *)
(* stored.                                                                      *)
THEOREM AckedStored == Spec => []AckedIsStored
  <1>1. IInv => AckedIsStored
    BY DEF IInv, AckedInv, AckedIsStored
  <1> QED
    BY <1>1, Inductive, PTL

(* Every step is a step of the abstract custody of the secrets, or stutters. *)
LEMMA CustodyStep ==
    ASSUME IInv, [Next]_vars
    PROVE  [Custody!Next]_(Custody!vars)
  <1>1. IInv' /\ Shape
    BY Step
  <1> DEFINE ph == [r \in Refs |-> PhaseOf(row[r])]
  <1>2. /\ row \in [Refs -> States] /\ row' \in [Refs -> States]
        /\ file \in Contents /\ file' \in Contents
    BY <1>1 DEF IInv, TypeOK, VaultTypeOK
  <1>3. \A st \in States : PhaseOf(st) \in Custody!Phases
    BY DEF States, PhaseOf, Custody!Phases
  <1>4. ph' = [r \in Refs |-> PhaseOf(row'[r])]
    OBVIOUS
  <1>5. ph' \in [Refs -> Custody!Phases] /\ file' \in [Refs -> Values \union {Absent}]
    BY <1>2, <1>3, <1>4 DEF Contents
  <1>6. ASSUME NEW r \in Refs
        PROVE  Custody!Move(r) \/ Custody!Store(r)
    <2>1. /\ row[r] \in States /\ row'[r] \in States
          /\ ph[r] = PhaseOf(row[r]) /\ ph'[r] = PhaseOf(row'[r])
      BY <1>2, <1>4
    <2>2. CASE file'[r] = file[r] /\ Moves(r)
      BY <2>1, <2>2 DEF Moves, Custody!Move, Custody!Store, PhaseOf
    <2>3. CASE row'[r] = row[r] /\ (file'[r] # file[r] => Exposed(r))
      BY <2>1, <2>3 DEF Exposed, Custody!Store, PhaseOf
    <2> QED
      BY <1>1, <2>2, <2>3 DEF Shape
  <1> QED
    BY <1>4, <1>5, <1>6 DEF Custody!Next

(* Both staging protocols keep the promise of SecretCustody: for any rows,      *)
(* faults and crashes, no step stores, offers, replaces or forgets a secret out *)
(* of turn.                                                                     *)
THEOREM CustodyKept == Spec => CustodySpec
  <1>1. Init => Custody!Init
    BY DEF Init, VaultInit, Empty, Custody!Init, PhaseOf
  <1>2. IInv /\ [Next]_vars => [Custody!Next]_(Custody!vars)
    BY CustodyStep
  <1> QED
    BY <1>1, <1>2, Inductive, PTL DEF Spec, CustodySpec, Custody!Spec

================================================================================
