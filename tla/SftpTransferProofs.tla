------------------------- MODULE SftpTransferProofs -------------------------
(***************************************************************************)
(* Proofs about the transfers of an SFTP session: for any transfers and    *)
(* any bounds, the channel is owned, a queued transfer is not lost (but to *)
(* a cancel that a restart overtook), no wake-up is lost, a completed      *)
(* transfer is published, the temporary file of an upload under way stays, *)
(* and a final state is final.                                             *)
(***************************************************************************)
EXTENDS SftpTransfer, FiniteSetTheorems, TLAPS

-----------------------------------------------------------------------------
(* The inductive invariant, part by part. *)

Records == RecordsOf(Generations)

Tasks == [pc : PCs, gen : Generations, cancel : BOOLEAN, deaf : BOOLEAN,
          end : Ends, clean : Cleanups]

Callers == [pc : {"idle", "route", "finish"}, gen : Generations,
            temp : BOOLEAN, clean : Cleanups]

(* A task from its pop to its release belongs to active_transfer_id. *)
OnlyActive == \A t \in Transfers : task[t].pc # "idle" => active = t

(* The task that holds the channel is of this connection, and the session   *)
(* has nothing to lend.                                                     *)
Lent == \A t \in Transfers : Holding(t) => live = 0 /\ task[t].gen = gen

(* A ready session has its channel, or has lent it. *)
NotMislaid ==
    sess = "Ready" /\ shut # "wait" =>
      live = gen \/ \E t \in Transfers : Holding(t)

(* A popped transfer finds the session as the pop left it, or its channel   *)
(* gone.                                                                    *)
PoppedReady ==
    \A t \in Transfers : task[t].pc = "popped" => sess = "Ready" \/ live = 0

(* An uncertain commit is a failure. *)
UncertainFailed ==
    \A t \in Transfers : tr[t].outcome = "Uncertain" => tr[t].state = "Failed"

(* Published from the rename on, clean when the record is told so, and no   *)
(* task writes for a completed transfer.                                    *)
Published(t) ==
    /\ tr[t].state = "Completed" =>
         /\ pub[t] /\ ~tmp[t]
         /\ task[t].pc \in {"idle", "popped", "return", "release"}
    /\ task[t].pc = "complete" => pub[t] /\ ~tmp[t]
    /\ task[t].pc = "linked" => pub[t]

KeepsFile(t) ==
    /\ t \in Uploads
    /\ task[t].pc \in {"copy", "commit"}
    /\ tr[t].state \in {"Transferring", "Committing"}
    => tmp[t]

(* A cleanup is retried for an upload that failed and left its file, and    *)
(* that upload stays where it is meanwhile.                                 *)
RetryWaits(t) ==
    retry[t] # "none" =>
      t \in Uploads /\ tr[t].state = "Failed" /\ tr[t].residual

(* A cancel under way was asked for, and keeps a transfer that is not       *)
(* started over out of the queue.                                           *)
CancelAhead(t) ==
    canc[t].pc # "idle" =>
      /\ cancels # 0
      /\ restarts[t] = 0 => tr[t].state \notin {"Absent", "Queued"}

Waits(t) ==
    tr[t].state = "Queued" /\ (restarts[t] = 0 \/ cancels = 0) =>
      t \in ToSet(pending) \/ task[t].pc = "popped"

(* Before the first shutdown nothing is paused. *)
Unpaused == shutdowns = 0 => shut = "idle" /\ paused = FALSE

(* The parts that speak of one transfer. *)
Fit(t) ==
    /\ Published(t) /\ KeepsFile(t) /\ RetryWaits(t) /\ CancelAhead(t)
    /\ Waits(t)

IInv ==
    /\ TypeOK
    /\ OnlyActive /\ Lent /\ NotMislaid /\ PoppedReady
    /\ UncertainFailed
    /\ \A t \in Transfers : Fit(t)
    /\ Unpaused /\ WakeupOwed

-----------------------------------------------------------------------------
(* The records. *)

(* What a step may make of a record: a final state stays, an uncertain      *)
(* commit stays uncertain and is a failure.                                 *)
Moves(r, s) ==
    /\ s \in Records
    /\ r.state \in {"Completed", "Cancelled"} => s.state = r.state
    /\ r.outcome = "Uncertain" => s.outcome = "Uncertain"
    /\ s.outcome = "Uncertain" => s.state = "Failed"

(* A step that does not advance the transfer: its record stays as it is, or *)
(* the transfer stops; a residual is kept.                                  *)
Stops(r, s) ==
    /\ Moves(r, s)
    /\ \/ s.state = r.state
       \/ s.state \in {"Failed", "Paused", "Cancelling", "Cancelled"}
    /\ r.state = "Failed" /\ r.residual => s.state = "Failed" /\ s.residual

(* The actor's invariant of one record. *)
Sound(r) == r \in Records /\ (r.outcome = "Uncertain" => r.state = "Failed")

LEMMA TransitionTyped ==
    ASSUME NEW r \in Records, NEW state \in States, NEW code
    PROVE  /\ Transition(r, state, code) \in Records
           /\ Transition(r, state, code).state = state
           /\ Transition(r, state, code).outcome = r.outcome
           /\ Transition(r, state, code).residual = r.residual
           /\ Transition(r, state, code).gen = r.gen
           /\ Transition(r, state, code).temp = r.temp
BY DEF Transition, Records, RecordsOf

LEMMA SameStops == ASSUME NEW r, Sound(r) PROVE Stops(r, r)
BY DEF Sound, Stops, Moves, Records, RecordsOf

LEMMA PauseStops == ASSUME NEW r, Sound(r) PROVE Stops(r, PauseActiveTransfer(r))
<1>0. r \in Records /\ r \in RecordsOf(Generations)
  BY DEF Sound, Records
<1>1. CASE r.state \in {"Preparing", "Transferring"}
  <2>1. PauseActiveTransfer(r) = Transition(r, "Paused", "TransportLost")
    BY <1>1 DEF PauseActiveTransfer
  <2> QED BY <1>0, <1>1, <2>1, TransitionTyped DEF Sound, Stops, Moves, States
<1>2. CASE r.state = "Committing"
  <2> DEFINE q == [r EXCEPT !.outcome = "Uncertain"]
  <2>1. PauseActiveTransfer(r) = Transition(q, "Failed", "Uncertain")
    BY <1>2 DEF PauseActiveTransfer
  <2>2. q \in Records /\ q.outcome = "Uncertain" /\ q.residual = r.residual
    BY <1>0 DEF Records, RecordsOf, Outcomes
  <2> HIDE DEF q
  <2> QED BY <1>0, <1>2, <2>1, <2>2, TransitionTyped DEF Sound, Stops, Moves, States
<1>3. CASE r.state = "Cancelling"
  <2> DEFINE q == [r EXCEPT !.residual = r.temp]
  <2>1. PauseActiveTransfer(r) = Transition(q, "Failed", "CleanupIncomplete")
    BY <1>3 DEF PauseActiveTransfer
  <2>2. q \in Records /\ q.outcome = r.outcome
    BY <1>0 DEF Records, RecordsOf
  <2> HIDE DEF q
  <2> QED BY <1>0, <1>3, <2>1, <2>2, TransitionTyped DEF Sound, Stops, Moves, States
<1>4. CASE r.state \notin {"Preparing", "Transferring", "Committing", "Cancelling"}
  BY <1>4, SameStops DEF PauseActiveTransfer
<1> QED BY <1>1, <1>2, <1>3, <1>4

LEMMA FailedTyped ==
    ASSUME NEW r \in Records, NEW code
    PROVE  /\ Failed(r, code) \in Records
           /\ Failed(r, code).state \in {"Failed", "Paused"}
           /\ code # "TransportLost" => Failed(r, code).state = "Failed"
           /\ Failed(r, code).residual = r.residual
           /\ Failed(r, code).outcome = IF code = "Uncertain" THEN "Uncertain"
                                                             ELSE "NotCommitted"
<1> DEFINE o == IF code = "Uncertain" THEN "Uncertain" ELSE "NotCommitted"
           q == [r EXCEPT !.outcome = o]
           s == IF code = "TransportLost" THEN "Paused" ELSE "Failed"
<1>1. q \in Records /\ q.outcome = o /\ q.residual = r.residual
  BY DEF Records, RecordsOf, Outcomes
<1>2. s \in States
  BY DEF States
<1>3. Failed(r, code) = Transition(q, s, code)
  BY DEF Failed
<1>4. /\ Failed(r, code) \in Records
      /\ Failed(r, code).state = s
      /\ Failed(r, code).residual = q.residual
      /\ Failed(r, code).outcome = q.outcome
  <2> HIDE DEF q, s
  <2> QED BY <1>1, <1>2, <1>3, TransitionTyped
<1> QED BY <1>1, <1>4

LEMMA FailedStops ==
    ASSUME NEW r, Sound(r), r.state \notin Terminal,
           NEW q \in Records, NEW code
    PROVE  Stops(r, Failed(q, code))
<1>1. Failed(q, code).outcome = "Uncertain" => Failed(q, code).state = "Failed"
  BY FailedTyped
<1> QED BY <1>1, FailedTyped DEF Sound, Stops, Moves, Terminal

LEMMA FailStops ==
    ASSUME NEW r, Sound(r), NEW code
    PROVE  Stops(r, FailTransfer(r, code))
<1>1. CASE r.state \in Terminal
  BY <1>1, SameStops DEF FailTransfer
<1>2. CASE r.state \notin Terminal
  BY <1>2, FailedStops DEF FailTransfer, Sound
<1> QED BY <1>1, <1>2

LEMMA FailAfterCleanupStops ==
    ASSUME NEW r, Sound(r), NEW code, NEW c
    PROVE  Stops(r, FailTransferAfterCleanup(r, code, c))
<1>0. r \in RecordsOf(Generations)
  BY DEF Sound, Records
<1>1. CASE r.state \in Terminal
  BY <1>1, SameStops DEF FailTransferAfterCleanup
<1>2. CASE r.state \notin Terminal /\ c = "Cleaned"
  <2> DEFINE q == [r EXCEPT !.temp = FALSE, !.residual = FALSE]
  <2>1. FailTransferAfterCleanup(r, code, c) = Failed(q, code)
    BY <1>2 DEF FailTransferAfterCleanup
  <2>2. q \in Records
    BY <1>0 DEF Records, RecordsOf
  <2> HIDE DEF q
  <2> QED BY <1>2, <2>1, <2>2, FailedStops
<1>3. CASE r.state \notin Terminal /\ c # "Cleaned"
  <2> DEFINE q == [r EXCEPT !.residual = TRUE]
             p == Failed(q, code)
             s == [p EXCEPT !.state = "Failed", !.dirty = TRUE]
  <2>1. FailTransferAfterCleanup(r, code, c) = s
    BY <1>3 DEF FailTransferAfterCleanup
  <2>2. q \in Records
    BY <1>0 DEF Records, RecordsOf
  <2>3. p \in Records
    <3> HIDE DEF q
    <3> QED BY <2>2, FailedTyped
  <2>4. s \in Records /\ s.state = "Failed"
    <3> HIDE DEF p
    <3> QED BY <2>3 DEF Records, RecordsOf, States
  <2> HIDE DEF s
  <2> QED BY <1>3, <2>1, <2>4 DEF Sound, Stops, Moves, Terminal
<1> QED BY <1>1, <1>2, <1>3

LEMMA FinishCancelStops ==
    ASSUME NEW r, Sound(r), NEW c PROVE Stops(r, FinishCancel(r, c))
<1>0. r \in RecordsOf(Generations)
  BY DEF Sound, Records
<1>1. CASE r.state # "Cancelling"
  BY <1>1, SameStops DEF FinishCancel
<1>2. CASE r.state = "Cancelling" /\ c = "Cleaned"
  <2> DEFINE q == [r EXCEPT !.temp = FALSE, !.residual = FALSE]
  <2>1. FinishCancel(r, c) = Transition(q, "Cancelled", "None")
    BY <1>2 DEF FinishCancel
  <2>2. q \in Records /\ q.outcome = r.outcome
    BY <1>0 DEF Records, RecordsOf
  <2> HIDE DEF q
  <2> QED BY <1>2, <2>1, <2>2, TransitionTyped DEF Sound, Stops, Moves, States
<1>3. CASE r.state = "Cancelling" /\ c # "Cleaned"
  <2> DEFINE q == [r EXCEPT !.residual = TRUE]
  <2>1. FinishCancel(r, c) = Transition(q, "Failed", "CleanupIncomplete")
    BY <1>3 DEF FinishCancel
  <2>2. q \in Records /\ q.outcome = r.outcome
    BY <1>0 DEF Records, RecordsOf
  <2> HIDE DEF q
  <2> QED BY <1>3, <2>1, <2>2, TransitionTyped DEF Sound, Stops, Moves, States
<1> QED BY <1>1, <1>2, <1>3

LEMMA SettledErrorStops ==
    ASSUME NEW r, Sound(r), NEW e, NEW c
    PROVE  Stops(r, SettledError(r, e, c))
BY FinishCancelStops, FailStops, FailAfterCleanupStops DEF SettledError

(* The start over of a record, and the residual it may end in. *)
LEMMA RetainStops ==
    ASSUME NEW r, Sound(r), r.state \in {"Failed", "Paused"}
    PROVE  Stops(r, RetainResidual(r))
<1> DEFINE q == [r EXCEPT !.residual = TRUE]
<1>1. RetainResidual(r) = Transition(q, "Failed", "CleanupIncomplete")
  BY DEF RetainResidual
<1>2. q \in Records /\ q.outcome = r.outcome /\ q.residual = TRUE
  BY DEF Sound, Records, RecordsOf
<1> HIDE DEF q
<1> QED BY <1>1, <1>2, TransitionTyped DEF Sound, Stops, Moves, States

LEMMA BeginCancelStops ==
    ASSUME NEW r, Sound(r), Cancellable(r)
    PROVE  Stops(r, BeginCancel(r)) /\ BeginCancel(r).state = "Cancelling"
BY TransitionTyped DEF BeginCancel, Cancellable, Sound, Stops, Moves, States

LEMMA EnqueueTyped ==
    ASSUME NEW g \in Generations
    PROVE  /\ EnqueueTransfer(g) \in Records
           /\ EnqueueTransfer(g).state = "Queued"
           /\ EnqueueTransfer(g).outcome = "NotCommitted"
<1> DEFINE q == [NoRecord EXCEPT !.gen = g]
<1>1. q \in Records /\ q.outcome = "NotCommitted"
  BY DEF Records, RecordsOf, NoRecord, States, Outcomes
<1>2. EnqueueTransfer(g) = Transition(q, "Queued", "None")
  BY DEF EnqueueTransfer
<1> HIDE DEF q
<1> QED BY <1>1, <1>2, TransitionTyped DEF States

(* resolve_cleanup_residual. *)
LEMMA ResolveMoves ==
    ASSUME NEW r, Sound(r)
    PROVE  /\ Moves(r, ResolveCleanupResidual(r))
           /\ \/ ResolveCleanupResidual(r) = r
              \/ /\ r.state = "Failed" 
                 /\ ResolveCleanupResidual(r).state = "Cancelled"
<1>0. r \in RecordsOf(Generations)
  BY DEF Sound, Records
<1>1. CASE Resolvable(r)
  <2> DEFINE q == [r EXCEPT !.temp = FALSE, !.residual = FALSE]
  <2>1. ResolveCleanupResidual(r) = Transition(q, "Cancelled", "None")
    BY <1>1 DEF ResolveCleanupResidual
  <2>2. q \in Records /\ q.outcome = r.outcome
    BY <1>0 DEF Records, RecordsOf
  <2>3. r.state = "Failed" /\ r.outcome # "Uncertain"
    BY <1>1 DEF Resolvable
  <2> HIDE DEF q
  <2> QED BY <2>1, <2>2, <2>3, TransitionTyped DEF Moves, States
<1>2. CASE ~Resolvable(r)
  BY <1>2, SameStops DEF ResolveCleanupResidual, Stops
<1> QED BY <1>1, <1>2

-----------------------------------------------------------------------------
(* The queue. *)

(* The rank of an index among the kept ones numbers them without a gap. *)
LEMMA RankIsOnto ==
    ASSUME NEW n \in Nat, NEW K \in SUBSET (1..n)
    PROVE  LET rank == [i \in K |-> Cardinality({j \in K : j <= i})]
           IN  /\ Cardinality(K) \in Nat
               /\ rank \in [K -> 1..Cardinality(K)]
               /\ \A i, k \in K : rank[i] = rank[k] => i = k
               /\ \A m \in 1..Cardinality(K) : \E i \in K : rank[i] = m
<1> DEFINE below(i) == {j \in K : j <= i}
           rank == [i \in K |-> Cardinality(below(i))]
<1>1. IsFiniteSet(K) /\ Cardinality(K) \in Nat
  BY FS_Interval, FS_Subset, FS_CardinalityType, 1 \in Int, n \in Int
<1>2. ASSUME NEW i \in K
      PROVE  /\ IsFiniteSet(below(i)) /\ Cardinality(below(i)) \in Nat
             /\ Cardinality(below(i)) <= Cardinality(K)
             /\ Cardinality(below(i)) >= 1
  <2>1. below(i) \in SUBSET K /\ i \in below(i)
    OBVIOUS
  <2>2. IsFiniteSet(below(i)) /\ Cardinality(below(i)) <= Cardinality(K)
    BY <1>1, <2>1, FS_Subset
  <2>3. Cardinality(below(i)) \in Nat /\ Cardinality(below(i)) # 0
    BY <2>1, <2>2, FS_CardinalityType, FS_EmptySet
  <2> QED BY <2>2, <2>3
<1>3. rank \in [K -> 1..Cardinality(K)]
  <2> HIDE DEF below
  <2> QED BY <1>1, <1>2
<1>4. ASSUME NEW i \in K, NEW k \in K, i < k PROVE rank[i] # rank[k]
  <2>1. below(i) \in SUBSET below(k) /\ k \in below(k) /\ k \notin below(i)
    <3>1. i \in Int /\ k \in Int /\ \A j \in K : j \in Int
      OBVIOUS
    <3>2. \A j \in K : j <= i => j <= k
      BY <1>4, <3>1
    <3>3. k <= k /\ ~(k <= i)
      BY <1>4, <3>1
    <3> QED BY <3>2, <3>3
  <2>2. Cardinality(below(i)) # Cardinality(below(k))
    <3>1. IsFiniteSet(below(k))
      BY <1>2
    <3>2. below(i) # below(k)
      BY <2>1
    <3> HIDE DEF below
    <3> QED BY <2>1, <3>1, <3>2, FS_Subset
  <2> QED BY <2>2
<1>5. \A i, k \in K : rank[i] = rank[k] => i = k
  <2> SUFFICES ASSUME NEW i \in K, NEW k \in K, i # k PROVE rank[i] # rank[k]
    OBVIOUS
  <2>1. i < k \/ k < i
    OBVIOUS
  <2> HIDE DEF rank
  <2> QED BY <1>4, <2>1
<1> HIDE DEF rank
<1>6. rank \in Injection(K, 1..Cardinality(K))
  BY <1>3, <1>5 DEF Injection, IsInjective
<1>7. IsFiniteSet(1..Cardinality(K)) /\ Cardinality(1..Cardinality(K)) = Cardinality(K)
  BY <1>1, FS_Interval, 1 \in Int
<1>8. rank \in Surjection(K, 1..Cardinality(K))
  BY <1>6, <1>7, FS_Injection
<1>9. \A m \in 1..Cardinality(K) : \E i \in K : rank[i] = m
  BY <1>8 DEF Surjection
<1> QED BY <1>1, <1>3, <1>5, <1>9 DEF rank, below

LEMMA WithoutKeeps ==
    ASSUME NEW S, NEW s \in Seq(S), NEW t
    PROVE  /\ Without(s, t) \in Seq(S)
           /\ ToSet(Without(s, t)) = ToSet(s) \ {t}
           /\ s = <<>> => Without(s, t) = <<>>
<1> DEFINE K == {i \in DOMAIN s : s[i] # t}
           rank == [i \in K |-> Cardinality({j \in K : j <= i})]
           nth(n) == CHOOSE i \in K : Cardinality({j \in K : j <= i}) = n
           q == [n \in 1..Cardinality(K) |-> s[nth(n)]]
<1>1. K \in SUBSET (1..Len(s)) /\ Len(s) \in Nat /\ DOMAIN s = 1..Len(s)
  OBVIOUS
<1>2. /\ Cardinality(K) \in Nat
      /\ rank \in [K -> 1..Cardinality(K)]
      /\ \A i, k \in K : rank[i] = rank[k] => i = k
      /\ \A m \in 1..Cardinality(K) : \E i \in K : rank[i] = m
  <2> HIDE DEF K
  <2> QED BY <1>1, RankIsOnto
<1>3. \A n \in 1..Cardinality(K) : nth(n) \in K /\ rank[nth(n)] = n
  <2> SUFFICES ASSUME NEW n \in 1..Cardinality(K)
               PROVE  nth(n) \in K /\ rank[nth(n)] = n
    OBVIOUS
  <2>1. PICK i \in K : rank[i] = n
    BY <1>2
  <2>2. Cardinality({j \in K : j <= i}) = n
    BY <2>1
  <2>3. nth(n) \in K /\ Cardinality({j \in K : j <= nth(n)}) = n
    <3> HIDE DEF K
    <3> QED BY <2>2
  <2> QED BY <2>3
<1>4. \A i \in K : rank[i] \in 1..Cardinality(K) /\ nth(rank[i]) = i
  <2> SUFFICES ASSUME NEW i \in K
               PROVE  rank[i] \in 1..Cardinality(K) /\ nth(rank[i]) = i
    OBVIOUS
  <2> HIDE DEF K, rank, nth
  <2>1. rank[i] \in 1..Cardinality(K)
    BY <1>2
  <2>2. nth(rank[i]) \in K /\ rank[nth(rank[i])] = rank[i]
    BY <1>3, <2>1
  <2> QED BY <1>2, <2>1, <2>2
<1>5. Without(s, t) = q
  BY DEF Without
<1>6. \A n \in 1..Cardinality(K) : q[n] = s[nth(n)] /\ q[n] \in S /\ q[n] # t
  <2> SUFFICES ASSUME NEW n \in 1..Cardinality(K)
               PROVE  q[n] = s[nth(n)] /\ q[n] \in S /\ q[n] # t
    OBVIOUS
  <2>1. nth(n) \in K
    BY <1>3
  <2>2. nth(n) \in 1..Len(s) /\ s[nth(n)] # t
    <3> HIDE DEF nth
    <3> QED BY <1>1, <2>1
  <2> HIDE DEF nth
  <2> QED BY <2>2
<1>7. q \in Seq(S) /\ DOMAIN q = 1..Cardinality(K)
  <2> HIDE DEF K, nth
  <2>1. q = [n \in 1..Cardinality(K) |-> q[n]]
    OBVIOUS
  <2> QED BY <1>2, <1>6, <2>1
<1>8. ToSet(q) = ToSet(s) \ {t}
  <2>1. ASSUME NEW x \in ToSet(q) PROVE x \in ToSet(s) \ {t}
    <3>1. PICK n \in 1..Cardinality(K) : x = q[n]
      BY <1>7, <2>1 DEF ToSet
    <3>2. nth(n) \in K
      BY <1>3
    <3>3. nth(n) \in DOMAIN s
      <4> HIDE DEF nth
      <4> QED BY <3>2
    <3>4. x = s[nth(n)] /\ x # t
      <4> HIDE DEF nth, K, q
      <4> QED BY <1>6, <3>1
    <3> HIDE DEF nth
    <3> QED BY <3>3, <3>4 DEF ToSet
  <2>2. ASSUME NEW x \in ToSet(s) \ {t} PROVE x \in ToSet(q)
    <3>1. PICK i \in DOMAIN s : x = s[i]
      BY <2>2 DEF ToSet
    <3>2. i \in K
      BY <2>2, <3>1
    <3>3. rank[i] \in 1..Cardinality(K) /\ nth(rank[i]) = i
      <4> HIDE DEF K, nth, rank
      <4> QED BY <1>4, <3>2
    <3>4. q[rank[i]] = x
      <4> HIDE DEF K, nth, rank
      <4> QED BY <3>1, <3>3
    <3> HIDE DEF K, nth, rank, q
    <3> QED BY <1>7, <3>3, <3>4 DEF ToSet
  <2> HIDE DEF q
  <2> QED BY <2>1, <2>2
<1>9. ASSUME s = <<>> PROVE q = <<>>
  <2>1. K = {}
    BY <1>9
  <2>2. Cardinality(K) = 0
    BY <2>1, FS_EmptySet
  <2>3. DOMAIN q = {} /\ q \in Seq(S)
    <3> HIDE DEF K, nth, q
    <3> QED BY <1>7, <2>2
  <2> HIDE DEF q
  <2> QED BY <2>3
<1> HIDE DEF q
<1> QED BY <1>5, <1>7, <1>8, <1>9

LEMMA AppendKeeps ==
    ASSUME NEW S, NEW s \in Seq(S), NEW t \in S
    PROVE  /\ Append(s, t) \in Seq(S)
           /\ ToSet(Append(s, t)) = ToSet(s) \cup {t}
<1>1. Append(s, t) \in Seq(S) /\ Len(Append(s, t)) = Len(s) + 1
  OBVIOUS
<1>2. ASSUME NEW x \in ToSet(Append(s, t)) PROVE x \in ToSet(s) \cup {t}
  <2>1. PICK i \in 1..(Len(s) + 1) : x = Append(s, t)[i]
    BY <1>1, <1>2 DEF ToSet
  <2>2. CASE i = Len(s) + 1
    BY <2>1, <2>2
  <2>3. CASE i \in 1..Len(s)
    <3>1. x = s[i] /\ i \in DOMAIN s
      BY <2>1, <2>3
    <3> QED BY <3>1 DEF ToSet
  <2> QED BY <2>2, <2>3
<1>3. ASSUME NEW x \in ToSet(s) \cup {t} PROVE x \in ToSet(Append(s, t))
  <2>0. DOMAIN Append(s, t) = 1..(Len(s) + 1)
    BY <1>1
  <2>1. CASE x = t
    <3>1. Append(s, t)[Len(s) + 1] = x /\ Len(s) + 1 \in 1..(Len(s) + 1)
      BY <2>1
    <3> QED BY <2>0, <3>1 DEF ToSet
  <2>2. CASE x \in ToSet(s)
    <3>1. PICK i \in 1..Len(s) : x = s[i]
      BY <2>2 DEF ToSet
    <3>2. Append(s, t)[i] = x /\ i \in 1..(Len(s) + 1)
      BY <3>1
    <3> QED BY <2>0, <3>2 DEF ToSet
  <2> QED BY <1>3, <2>1, <2>2
<1> QED BY <1>1, <1>2, <1>3

LEMMA TailKeeps ==
    ASSUME NEW S, NEW s \in Seq(S), s # <<>>
    PROVE  /\ Tail(s) \in Seq(S) /\ Head(s) \in S
           /\ ToSet(s) \subseteq ToSet(Tail(s)) \cup {Head(s)}
<1>1. Tail(s) \in Seq(S) /\ Head(s) \in S /\ Len(Tail(s)) = Len(s) - 1
  OBVIOUS
<1>2. ASSUME NEW x \in ToSet(s), x # Head(s) PROVE x \in ToSet(Tail(s))
  <2>1. PICK i \in 1..Len(s) : x = s[i]
    BY <1>2 DEF ToSet
  <2>2. i # 1
    BY <1>2, <2>1
  <2>3. i - 1 \in 1..Len(Tail(s)) /\ Tail(s)[i - 1] = x
    BY <1>1, <2>1, <2>2
  <2>4. i - 1 \in DOMAIN Tail(s)
    BY <1>1, <2>3
  <2> DEFINE q == Tail(s)
             k == i - 1
  <2>5. k \in DOMAIN q /\ q[k] = x
    BY <2>3, <2>4
  <2> HIDE DEF q, k
  <2>6. x \in ToSet(q)
    BY <2>5 DEF ToSet
  <2> QED BY <2>6 DEF q
<1> QED BY <1>1, <1>2

-----------------------------------------------------------------------------
(* What the proofs of the steps share. *)

(* What FinalStays says of a step. *)
Finals ==
    \A t \in Transfers :
      /\ tr[t].state \in {"Completed", "Cancelled"} => tr'[t].state = tr[t].state
      /\ tr[t].outcome = "Uncertain" => tr'[t].outcome = "Uncertain"

Good == IInv' /\ Finals

LEMMA AllSound == ASSUME IInv PROVE \A u \in Transfers : Sound(tr[u])
BY DEF IInv, TypeOK, UncertainFailed, Sound, Records

LEMMA Assembled ==
    ASSUME IInv, TypeOK', OnlyActive', Lent', NotMislaid', PoppedReady',
           \A u \in Transfers : Moves(tr[u], tr'[u]),
           \A u \in Transfers : Fit(u)',
           Unpaused', WakeupOwed'
    PROVE  Good
<1>1. UncertainFailed'
  BY DEF UncertainFailed, Moves
<1>2. Finals
  BY DEF Finals, Moves
<1> QED BY <1>1, <1>2 DEF Good, IInv

(* The session, its queue and the tasks' places stay as they are. *)
LEMMA ClientStep ==
    ASSUME IInv, TypeOK',
           UNCHANGED <<sess, gen, live, active, shut, pending, kick, looping,
                       tail, shutdowns, paused>>,
           \A u \in Transfers : /\ task'[u].pc = task[u].pc
                                /\ task'[u].gen = task[u].gen,
           \A u \in Transfers : Moves(tr[u], tr'[u]),
           \A u \in Transfers : Fit(u)'
    PROVE  Good
<1>1. OnlyActive' /\ Lent' /\ NotMislaid' /\ PoppedReady'
  BY DEF IInv, OnlyActive, Lent, NotMislaid, PoppedReady, Holding
<1>2. Unpaused' /\ WakeupOwed'
  BY DEF IInv, Unpaused, WakeupOwed
<1> QED BY <1>1, <1>2, Assembled

(* A transfer whose record stays or stops keeps what is claimed of it. *)
LEMMA FitStays ==
    ASSUME NEW u \in Transfers, Fit(u), Stops(tr[u], tr'[u]),
           \/ task'[u].pc = task[u].pc
           \/ task'[u].pc \in {"idle", "popped", "return", "release"}
           \/ task[u].pc = "begun" /\ task'[u].pc = "prepare",
           pub'[u] = pub[u] \/ pub'[u] = TRUE,
           tmp'[u] = tmp[u] \/ tmp'[u] = FALSE,
           \/ tmp'[u] = tmp[u] \/ u \notin Uploads
           \/ task[u].pc = "idle" \/ tr[u].state = "Failed",
           \/ retry'[u] = retry[u] \/ retry'[u] = "none"
           \/ u \in Uploads /\ tr[u].state = "Failed" /\ tr[u].residual,
           \/ canc'[u].pc = "idle" \/ canc[u].pc # "idle"
           \/ tr'[u].state = "Cancelling" /\ cancels' # 0,
           restarts'[u] = 0 => restarts[u] = 0, cancels' = 0 => cancels = 0,
           \/ pending' = pending /\ (task[u].pc = "popped" => task'[u].pc = "popped")
           \/ Waits(u)'
    PROVE  Fit(u)'
<1>1. \/ tr'[u].state = tr[u].state
      \/ tr'[u].state \in {"Failed", "Paused", "Cancelling", "Cancelled"}
  BY DEF Stops
<1>2. Published(u)'
  BY <1>1 DEF Fit, Published
<1>3. KeepsFile(u)'
  BY <1>1 DEF Fit, KeepsFile
<1>4. RetryWaits(u)'
  BY DEF Fit, RetryWaits, Stops
<1>5. CancelAhead(u)'
  BY <1>1 DEF Fit, CancelAhead
<1>6. Waits(u)'
  BY <1>1 DEF Fit, Waits
<1> QED BY <1>2, <1>3, <1>4, <1>5, <1>6 DEF Fit

(* Nothing of the transfer changes. *)
LEMMA FitSame ==
    ASSUME NEW u \in Transfers, Fit(u), tr'[u] = tr[u],
           task'[u].pc = task[u].pc, pub'[u] = pub[u], tmp'[u] = tmp[u],
           retry'[u] = retry[u], canc'[u].pc = canc[u].pc,
           restarts'[u] = 0 => restarts[u] = 0, cancels' = 0 => cancels = 0,
           pending' = pending \/ (u \in ToSet(pending) => u \in ToSet(pending'))
    PROVE  Fit(u)'
BY DEF Fit, Published, KeepsFile, RetryWaits, CancelAhead, Waits

(* A step of the task that has the channel. *)
LEMMA TaskStep ==
    ASSUME IInv, NEW t \in Transfers, UNCHANGED quiet, Holding(t), Holding(t)',
           task' \in [Transfers -> Tasks], task'[t].gen = task[t].gen,
           tr' \in [Transfers -> Records],
           tmp' \in [Transfers -> BOOLEAN], pub' \in [Transfers -> BOOLEAN],
           \A u \in Transfers \ {t} :
             /\ task'[u] = task[u] /\ tr'[u] = tr[u]
             /\ tmp'[u] = tmp[u] /\ pub'[u] = pub[u],
           Moves(tr[t], tr'[t]),
           tr'[t].state = tr[t].state \/ tr'[t].state \notin {"Absent", "Queued"},
           retry[t] # "none" => tr'[t].state = "Failed" /\ tr'[t].residual,
           Published(t)', KeepsFile(t)'
    PROVE  Good
<1> USE DEF quiet, session, queue, client, shutdown
<1>1. TypeOK'
  BY DEF IInv, TypeOK, Tasks, Records
<1>2. OnlyActive' /\ Lent'
  BY DEF IInv, OnlyActive, Lent, Holding
<1>3. NotMislaid'
  BY DEF NotMislaid, IInv, Holding
<1>4. PoppedReady'
  BY DEF IInv, PoppedReady, Holding
<1>5. Unpaused' /\ WakeupOwed'
  BY DEF IInv, Unpaused, WakeupOwed
<1>6. \A u \in Transfers : Moves(tr[u], tr'[u])
  BY AllSound, SameStops DEF Stops
<1>7. ASSUME NEW u \in Transfers PROVE Fit(u)'
  <2>1. CASE u # t
    BY <2>1, FitSame DEF IInv
  <2>2. CASE u = t
    <3>1. RetryWaits(t)' /\ CancelAhead(t)' /\ Waits(t)'
      BY DEF IInv, Fit, RetryWaits, CancelAhead, Waits, Holding
    <3> QED BY <2>2, <3>1 DEF Fit
  <2> QED BY <2>1, <2>2
<1> QED BY <1>1, <1>2, <1>3, <1>4, <1>5, <1>6, <1>7, Assembled

-----------------------------------------------------------------------------
(* run_upload and run_download. *)

LEMMA GotoTask ==
    ASSUME IInv, NEW t \in Transfers, NEW pc \in PCs, Goto(t, pc)
    PROVE  /\ task' \in [Transfers -> Tasks]
           /\ task'[t].pc = pc /\ task'[t].gen = task[t].gen
           /\ \A u \in Transfers \ {t} : task'[u] = task[u]
<1>1. task \in [Transfers -> Tasks]
  BY DEF IInv, TypeOK, Tasks
<1> QED BY <1>1 DEF Goto, Tasks

LEMMA EndTask ==
    ASSUME IInv, NEW t \in Transfers, NEW e \in Ends, End(t, e)
    PROVE  /\ task' \in [Transfers -> Tasks]
           /\ task'[t].pc = IF e = "None" THEN "return" ELSE "cleanup"
           /\ task'[t].gen = task[t].gen
           /\ \A u \in Transfers \ {t} : task'[u] = task[u]
<1>1. task \in [Transfers -> Tasks]
  BY DEF IInv, TypeOK, Tasks
<1> QED BY <1>1 DEF End, Tasks, PCs

LEMMA PutRecord ==
    ASSUME IInv, NEW t \in Transfers, NEW r \in Records, Put(t, r)
    PROVE  /\ tr' \in [Transfers -> Records] /\ tr'[t] = r
           /\ \A u \in Transfers \ {t} : tr'[u] = tr[u]
BY DEF IInv, TypeOK, Records, Put

(* The operations that advance a record. *)
LEMMA PreparedMoves ==
    ASSUME NEW r, Sound(r), r.state = "Preparing", NEW conflict \in BOOLEAN
    PROVE  /\ Moves(r, TransferPrepared(r, conflict))
           /\ TransferPrepared(r, conflict).state \in {"Failed", "Transferring"}
<1> DEFINE q == [r EXCEPT !.temp = TRUE]
           s == IF conflict THEN "Failed" ELSE "Transferring"
           c == IF conflict THEN "Refused" ELSE "None"
<1>1. q \in Records /\ q.outcome = r.outcome
  BY DEF Sound, Records, RecordsOf
<1>2. s \in States /\ s \in {"Failed", "Transferring"}
  BY DEF States
<1>3. TransferPrepared(r, conflict) = Transition(q, s, c)
  BY DEF TransferPrepared
<1> HIDE DEF q, s, c
<1> QED BY <1>1, <1>2, <1>3, TransitionTyped DEF Sound, Moves

LEMMA ProgressMoves ==
    ASSUME NEW r, Sound(r), r.state = "Transferring"
    PROVE  Moves(r, RecordProgress(r)) /\ RecordProgress(r).state = "Transferring"
BY DEF Sound, Moves, RecordProgress, Records, RecordsOf

LEMMA CommitMoves ==
    ASSUME NEW r, Sound(r), r.state = "Transferring", NEW same \in BOOLEAN
    PROVE  /\ Moves(r, BeginCommit(r, same))
           /\ BeginCommit(r, same).state \in {"Failed", "Committing"}
BY TransitionTyped DEF Sound, Moves, BeginCommit, States

LEMMA CompleteMoves ==
    ASSUME NEW r, Sound(r), r.state = "Committing", NEW same \in BOOLEAN
    PROVE  /\ Moves(r, CompleteTransfer(r, same))
           /\ same = TRUE => CompleteTransfer(r, same).state = "Completed"
           /\ same = FALSE => CompleteTransfer(r, same).state = "Failed"
<1>1. CASE same = TRUE
  <2> DEFINE q == [r EXCEPT !.temp = FALSE, !.outcome = "Committed"]
  <2>1. CompleteTransfer(r, same) = Transition(q, "Completed", "None")
    BY <1>1 DEF CompleteTransfer
  <2>2. q \in Records /\ q.outcome = "Committed"
    BY DEF Sound, Records, RecordsOf, Outcomes
  <2> HIDE DEF q
  <2> QED BY <1>1, <2>1, <2>2, TransitionTyped DEF Sound, Moves, States
<1>2. CASE same = FALSE
  BY <1>2, TransitionTyped DEF Sound, Moves, CompleteTransfer, States
<1> QED BY <1>1, <1>2

(* What a task finds before a step of its own. *)
LEMMA TaskHas ==
    ASSUME IInv, NEW t \in Transfers
    PROVE  /\ Sound(tr[t]) /\ Stops(tr[t], tr[t]) /\ Moves(tr[t], tr[t])
           /\ Fit(t) /\ Published(t) /\ KeepsFile(t)
           /\ tr \in [Transfers -> Records] /\ task \in [Transfers -> Tasks]
           /\ tmp \in [Transfers -> BOOLEAN] /\ pub \in [Transfers -> BOOLEAN]
           /\ retry[t] # "none" => tr[t].state = "Failed" /\ tr[t].residual
<1>1. Sound(tr[t])
  BY AllSound
<1>2. Stops(tr[t], tr[t]) /\ Moves(tr[t], tr[t])
  BY <1>1, SameStops DEF Stops
<1>3. Fit(t)
  BY DEF IInv
<1>4. Published(t) /\ KeepsFile(t) /\ (retry[t] # "none" => tr[t].state = "Failed" /\ tr[t].residual)
  BY <1>3 DEF Fit, RetryWaits
<1>5. /\ tr \in [Transfers -> Records] /\ task \in [Transfers -> Tasks]
      /\ tmp \in [Transfers -> BOOLEAN] /\ pub \in [Transfers -> BOOLEAN]
  BY DEF IInv, TypeOK, Records, Tasks
<1> QED BY <1>1, <1>2, <1>3, <1>4, <1>5

(* A task that ends without a word to the actor. *)
LEMMA TaskEnds ==
    ASSUME IInv, NEW t \in Transfers, NEW e \in Ends \ {"None"}, End(t, e),
           task[t].pc \in Executing, UNCHANGED <<quiet, tr>>,
           tmp' \in [Transfers -> BOOLEAN], pub' \in [Transfers -> BOOLEAN],
           \A u \in Transfers \ {t} : tmp'[u] = tmp[u] /\ pub'[u] = pub[u]
    PROVE  Good
<1>1. /\ task' \in [Transfers -> Tasks]
      /\ task'[t].pc = "cleanup" /\ task'[t].gen = task[t].gen
      /\ \A u \in Transfers \ {t} : task'[u] = task[u]
  BY EndTask
<1>2. Holding(t) /\ Holding(t)'
  BY <1>1 DEF Holding, Executing
<1>3. Published(t)' /\ KeepsFile(t)'
  <2>1. tr[t].state # "Completed"
    BY TaskHas DEF Published, Executing
  <2> QED BY <1>1, <2>1 DEF Published, KeepsFile
<1> QED BY <1>1, <1>2, <1>3, TaskHas, TaskStep

LEMMA BreakStep ==
    ASSUME IInv, NEW t \in Transfers, NEW ends \in SUBSET (Ends \ {"None"}),
           Break(t, ends), task[t].pc \in Executing, UNCHANGED quiet,
           tmp' \in [Transfers -> BOOLEAN], pub' \in [Transfers -> BOOLEAN],
           \A u \in Transfers \ {t} : tmp'[u] = tmp[u] /\ pub'[u] = pub[u]
    PROVE  Good
<1>1. PICK e \in ends : End(t, e)
  BY DEF Break
<1>2. UNCHANGED tr /\ e \in Ends \ {"None"}
  BY DEF Break
<1> QED BY <1>1, <1>2, TaskEnds

(* A fact the actor takes: the record moves, the task goes on or ends. *)
LEMMA FactStep ==
    ASSUME IInv, NEW t \in Transfers, NEW r, Put(t, r), Moves(tr[t], r),
           r.state \notin {"Absent", "Queued"}, tr[t].state # "Failed",
           UNCHANGED quiet, Holding(t), Holding(t)',
           task' \in [Transfers -> Tasks], task'[t].gen = task[t].gen,
           tmp' \in [Transfers -> BOOLEAN], pub' \in [Transfers -> BOOLEAN],
           \A u \in Transfers \ {t} :
             /\ task'[u] = task[u] /\ tmp'[u] = tmp[u] /\ pub'[u] = pub[u],
           Published(t)', KeepsFile(t)'
    PROVE  Good
<1>1. r \in Records
  BY DEF Moves
<1>2. /\ tr' \in [Transfers -> Records] /\ tr'[t] = r
      /\ \A u \in Transfers \ {t} : tr'[u] = tr[u]
  BY <1>1, PutRecord
<1> QED BY <1>2, TaskHas, TaskStep

LEMMA PrepareStep == ASSUME IInv, NEW t \in Transfers, Prepare(t) PROVE Good
<1>0. task[t].pc = "prepare" /\ task[t].pc \in Executing /\ Holding(t)
  BY DEF Prepare, Executing, Holding
<1>1. /\ UNCHANGED quiet /\ pub' = pub
      /\ tmp' \in [Transfers -> BOOLEAN]
      /\ \A u \in Transfers \ {t} : tmp'[u] = tmp[u]
  BY TaskHas DEF Prepare
<1>2. ASSUME NEW conflict \in BOOLEAN, Takes(t, "Preparing"),
             Put(t, TransferPrepared(tr[t], conflict)),
             IF conflict THEN End(t, "Refused") ELSE Goto(t, "create")
      PROVE  Good
  <2>1. tr[t].state = "Preparing"
    BY <1>2 DEF Takes
  <2>2. /\ Moves(tr[t], TransferPrepared(tr[t], conflict))
        /\ TransferPrepared(tr[t], conflict).state \in {"Failed", "Transferring"}
    BY <2>1, TaskHas, PreparedMoves
  <2>3. tr'[t] = TransferPrepared(tr[t], conflict)
    BY <1>2, <2>2, PutRecord DEF Moves
  <2>4. /\ task' \in [Transfers -> Tasks]
        /\ task'[t].pc \in {"create", "cleanup"} /\ task'[t].gen = task[t].gen
        /\ \A u \in Transfers \ {t} : task'[u] = task[u]
    <3>1. CASE conflict
      <4>1. End(t, "Refused") /\ "Refused" \in Ends
        BY <1>2, <3>1 DEF Ends, Codes
      <4> QED BY <4>1, EndTask
    <3>2. CASE ~conflict
      <4>1. Goto(t, "create") /\ "create" \in PCs
        BY <1>2, <3>2 DEF PCs
      <4> QED BY <4>1, GotoTask
    <3> QED BY <3>1, <3>2
  <2>5. Holding(t)' /\ Published(t)' /\ KeepsFile(t)'
    BY <2>2, <2>3, <2>4 DEF Holding, Published, KeepsFile
  <2> QED BY <1>0, <1>1, <1>2, <2>1, <2>2, <2>4, <2>5, TaskHas, FactStep
<1>3. CASE End(t, "InvalidState") /\ UNCHANGED tr
  <2>1. "InvalidState" \in Ends \ {"None"}
    BY DEF Ends, Codes
  <2> QED BY <1>0, <1>1, <1>3, <2>1, TaskHas, TaskEnds
<1>4. CASE Break(t, {"TransportLost", "Protocol", "CleanupIncomplete", "Refused"})
  <2>1. {"TransportLost", "Protocol", "CleanupIncomplete", "Refused"}
          \in SUBSET (Ends \ {"None"})
    BY DEF Ends, Codes
  <2> QED BY <1>0, <1>1, <1>4, <2>1, TaskHas, BreakStep
<1> QED BY <1>2, <1>3, <1>4 DEF Prepare

LEMMA CreateStep == ASSUME IInv, NEW t \in Transfers, Create(t) PROVE Good
<1>0. task[t].pc = "create" /\ task[t].pc \in Executing /\ Holding(t)
  BY DEF Create, Executing, Holding
<1>1. /\ UNCHANGED quiet /\ pub' = pub
      /\ tmp' \in [Transfers -> BOOLEAN]
      /\ \A u \in Transfers \ {t} : tmp'[u] = tmp[u]
  BY TaskHas DEF Create
<1>2. CASE tmp'[t] = TRUE /\ Goto(t, "copy") /\ UNCHANGED tr
  <2>1. /\ task' \in [Transfers -> Tasks]
        /\ task'[t].pc = "copy" /\ task'[t].gen = task[t].gen
        /\ \A u \in Transfers \ {t} : task'[u] = task[u]
    BY <1>2, GotoTask DEF PCs
  <2>2. Holding(t)' /\ Published(t)' /\ KeepsFile(t)'
    <3>1. tr[t].state # "Completed"
      BY <1>0, TaskHas DEF Published
    <3> QED BY <1>2, <2>1, <3>1 DEF Holding, Published, KeepsFile
  <2> QED BY <1>0, <1>1, <1>2, <2>1, <2>2, TaskHas, TaskStep
<1>3. CASE Break(t, {"Protocol", "Refused"})
  <2>1. {"Protocol", "Refused"} \in SUBSET (Ends \ {"None"})
    BY DEF Ends, Codes
  <2> QED BY <1>0, <1>1, <1>3, <2>1, TaskHas, BreakStep
<1>4. (tmp'[t] = TRUE /\ Goto(t, "copy") /\ UNCHANGED tr) \/ Break(t, {"Protocol", "Refused"})
  BY TaskHas DEF Create
<1> QED BY <1>2, <1>3, <1>4

LEMMA CopyChunkStep == ASSUME IInv, NEW t \in Transfers, CopyChunk(t) PROVE Good
<1>0. task[t].pc = "copy" /\ task[t].pc \in Executing /\ Holding(t)
  BY DEF CopyChunk, Executing, Holding
<1>1. UNCHANGED quiet /\ pub' = pub /\ tmp' = tmp
  BY DEF CopyChunk, files
<1>2. CASE Takes(t, "Transferring") /\ Put(t, RecordProgress(tr[t])) /\ UNCHANGED task
  <2>1. tr[t].state = "Transferring"
    BY <1>2 DEF Takes
  <2>2. /\ Moves(tr[t], RecordProgress(tr[t]))
        /\ RecordProgress(tr[t]).state = "Transferring"
    BY <2>1, TaskHas, ProgressMoves
  <2>3. tr'[t] = RecordProgress(tr[t])
    BY <1>2, <2>2, PutRecord DEF Moves
  <2>4. Holding(t)' /\ Published(t)' /\ KeepsFile(t)'
    BY <1>0, <1>1, <1>2, <2>1, <2>2, <2>3, TaskHas DEF Holding, Published, KeepsFile
  <2> QED BY <1>0, <1>1, <1>2, <2>1, <2>2, <2>4, TaskHas, FactStep
<1>3. CASE End(t, "LengthMismatch") /\ UNCHANGED tr
  <2>1. "LengthMismatch" \in Ends \ {"None"}
    BY DEF Ends, Codes
  <2> QED BY <1>0, <1>1, <1>3, <2>1, TaskHas, TaskEnds
<1>4. CASE Break(t, {"Protocol", "Refused"})
  <2>1. {"Protocol", "Refused"} \in SUBSET (Ends \ {"None"})
    BY DEF Ends, Codes
  <2> QED BY <1>0, <1>1, <1>4, <2>1, TaskHas, BreakStep
<1> QED BY <1>2, <1>3, <1>4 DEF CopyChunk

LEMMA CopyDoneStep == ASSUME IInv, NEW t \in Transfers, CopyDone(t) PROVE Good
<1>0. task[t].pc = "copy" /\ task[t].pc \in Executing /\ Holding(t)
  BY DEF CopyDone, Executing, Holding
<1>1. UNCHANGED quiet /\ pub' = pub /\ tmp' = tmp
  BY DEF CopyDone, files
<1>2. CASE Takes(t, "Transferring")
  <2>1. PICK same \in BOOLEAN :
          /\ Put(t, BeginCommit(tr[t], same))
          /\ IF same THEN Goto(t, "commit") ELSE End(t, "LengthMismatch")
    BY <1>2 DEF CopyDone
  <2>2. tr[t].state = "Transferring"
    BY <1>2 DEF Takes
  <2>3. /\ Moves(tr[t], BeginCommit(tr[t], same))
        /\ BeginCommit(tr[t], same).state \in {"Failed", "Committing"}
    BY <2>2, TaskHas, CommitMoves
  <2>4. tr'[t] = BeginCommit(tr[t], same)
    BY <2>1, <2>3, PutRecord DEF Moves
  <2>5. /\ task' \in [Transfers -> Tasks]
        /\ task'[t].pc \in {"commit", "cleanup"} /\ task'[t].gen = task[t].gen
        /\ \A u \in Transfers \ {t} : task'[u] = task[u]
    <3>1. CASE same
      <4>1. Goto(t, "commit") /\ "commit" \in PCs
        BY <2>1, <3>1 DEF PCs
      <4> QED BY <4>1, GotoTask
    <3>2. CASE ~same
      <4>1. End(t, "LengthMismatch") /\ "LengthMismatch" \in Ends
        BY <2>1, <3>2 DEF Ends, Codes
      <4> QED BY <4>1, EndTask
    <3> QED BY <3>1, <3>2
  <2>6. Holding(t)' /\ Published(t)' /\ KeepsFile(t)'
    BY <1>0, <1>1, <2>2, <2>3, <2>4, <2>5, TaskHas DEF Holding, Published, KeepsFile
  <2> QED BY <1>0, <1>1, <2>1, <2>2, <2>3, <2>5, <2>6, TaskHas, FactStep
<1>3. CASE ~Takes(t, "Transferring")
  <2>1. End(t, "InvalidState") /\ UNCHANGED tr /\ "InvalidState" \in Ends \ {"None"}
    BY <1>3 DEF CopyDone, Ends, Codes
  <2> QED BY <1>0, <1>1, <2>1, TaskHas, TaskEnds
<1> QED BY <1>2, <1>3

(* The task goes on, and the record is not told yet. *)
LEMMA AdvanceStep ==
    ASSUME IInv, NEW t \in Transfers, task[t].pc \in Executing,
           NEW pc \in {"linked", "complete"}, Goto(t, pc),
           UNCHANGED <<quiet, tr>>,
           tmp' \in [Transfers -> BOOLEAN], pub' \in [Transfers -> BOOLEAN],
           \A u \in Transfers \ {t} : tmp'[u] = tmp[u] /\ pub'[u] = pub[u],
           pub'[t], pc = "complete" => ~tmp'[t]
    PROVE  Good
<1>1. /\ task' \in [Transfers -> Tasks]
      /\ task'[t].pc = pc /\ task'[t].gen = task[t].gen
      /\ \A u \in Transfers \ {t} : task'[u] = task[u]
  BY GotoTask DEF PCs
<1>2. Holding(t) /\ Holding(t)'
  BY <1>1 DEF Holding, Executing
<1>3. Published(t)' /\ KeepsFile(t)'
  <2>1. tr[t].state # "Completed"
    BY TaskHas DEF Published, Executing
  <2> QED BY <1>1, <2>1 DEF Published, KeepsFile
<1> QED BY <1>1, <1>2, <1>3, TaskHas, TaskStep

LEMMA PublishFiles ==
    ASSUME IInv, NEW t \in Transfers, NEW done \in BOOLEAN, NEW left \in BOOLEAN,
           Publish(t, done, left)
    PROVE  /\ tmp' \in [Transfers -> BOOLEAN] /\ pub' \in [Transfers -> BOOLEAN]
           /\ \A u \in Transfers \ {t} : tmp'[u] = tmp[u] /\ pub'[u] = pub[u]
           /\ tmp'[t] = left /\ (done => pub'[t])
BY TaskHas DEF Publish

LEMMA CommitUploadStep == ASSUME IInv, NEW t \in Transfers, CommitUpload(t) PROVE Good
<1>0. task[t].pc = "commit" /\ task[t].pc \in Executing
  BY DEF CommitUpload, Executing
<1>1. UNCHANGED <<quiet, tr>>
  BY DEF CommitUpload
<1>2. CASE Publish(t, TRUE, FALSE) /\ Goto(t, "complete")
  BY <1>0, <1>1, <1>2, PublishFiles, AdvanceStep
<1>3. CASE Publish(t, TRUE, TRUE) /\ Goto(t, "linked")
  BY <1>0, <1>1, <1>3, PublishFiles, AdvanceStep
<1>4. CASE UNCHANGED files /\ End(t, "Refused")
  <2>1. "Refused" \in Ends \ {"None"} /\ tmp' = tmp /\ pub' = pub
    BY <1>4 DEF Ends, Codes, files
  <2> QED BY <1>0, <1>1, <1>4, <2>1, TaskHas, TaskEnds
<1>5. CASE /\ \E done \in BOOLEAN : Publish(t, done, TRUE)
           /\ \E e \in {"Uncertain", "Protocol", "TransportLost"} : End(t, e)
  <2>1. PICK done \in BOOLEAN : Publish(t, done, TRUE)
    BY <1>5
  <2>2. PICK e \in {"Uncertain", "Protocol", "TransportLost"} : End(t, e)
    BY <1>5
  <2>3. e \in Ends \ {"None"}
    BY DEF Ends, Codes
  <2> QED BY <1>0, <1>1, <2>1, <2>2, <2>3, PublishFiles, TaskEnds
<1>6. CASE Publish(t, TRUE, FALSE) /\ End(t, "Uncertain")
  <2>1. "Uncertain" \in Ends \ {"None"}
    BY DEF Ends, Codes
  <2> QED BY <1>0, <1>1, <1>6, <2>1, PublishFiles, TaskEnds
<1> QED BY <1>2, <1>3, <1>4, <1>5, <1>6 DEF CommitUpload

LEMMA CommitDownloadStep ==
    ASSUME IInv, NEW t \in Transfers, CommitDownload(t) PROVE Good
<1>0. task[t].pc = "commit" /\ task[t].pc \in Executing
  BY DEF CommitDownload, Executing
<1>1. UNCHANGED <<quiet, tr>>
  BY DEF CommitDownload
<1>2. "Refused" \in Ends \ {"None"} /\ "CleanupIncomplete" \in Ends \ {"None"}
  BY DEF Ends, Codes
<1>3. CASE Publish(t, TRUE, FALSE) /\ Goto(t, "complete")
  BY <1>0, <1>1, <1>3, PublishFiles, AdvanceStep
<1>4. CASE UNCHANGED files /\ End(t, "Refused")
  <2>1. tmp' = tmp /\ pub' = pub
    BY <1>4 DEF files
  <2> QED BY <1>0, <1>1, <1>2, <1>4, <2>1, TaskHas, TaskEnds
<1>5. CASE Publish(t, TRUE, FALSE) /\ End(t, "Refused")
  BY <1>0, <1>1, <1>2, <1>5, PublishFiles, TaskEnds
<1>6. CASE Publish(t, TRUE, TRUE) /\ End(t, "CleanupIncomplete")
  BY <1>0, <1>1, <1>2, <1>6, PublishFiles, TaskEnds
<1> QED BY <1>3, <1>4, <1>5, <1>6 DEF CommitDownload

LEMMA UnlinkStep == ASSUME IInv, NEW t \in Transfers, Unlink(t) PROVE Good
<1>0. task[t].pc = "linked" /\ task[t].pc \in Executing
  BY DEF Unlink, Executing
<1>1. UNCHANGED <<quiet, tr>> /\ pub' = pub /\ pub[t]
  BY <1>0, TaskHas DEF Unlink, Published
<1>2. /\ tmp' \in [Transfers -> BOOLEAN]
      /\ \A u \in Transfers \ {t} : tmp'[u] = tmp[u]
  BY TaskHas DEF Unlink
<1>3. "Protocol" \in Ends \ {"None"} /\ "CleanupIncomplete" \in Ends \ {"None"}
  BY DEF Ends, Codes
<1>4. CASE tmp' = [tmp EXCEPT ![t] = FALSE] /\ Goto(t, "complete")
  <2>1. ~tmp'[t]
    BY <1>4, TaskHas
  <2> QED BY <1>0, <1>1, <1>2, <1>4, <2>1, TaskHas, AdvanceStep
<1>5. CASE End(t, "Protocol")
  BY <1>0, <1>1, <1>2, <1>3, <1>5, TaskHas, TaskEnds
<1>6. CASE End(t, "CleanupIncomplete")
  BY <1>0, <1>1, <1>2, <1>3, <1>6, TaskHas, TaskEnds
<1> QED BY <1>4, <1>5, <1>6 DEF Unlink

LEMMA CompleteStep == ASSUME IInv, NEW t \in Transfers, Complete(t) PROVE Good
<1>0. task[t].pc = "complete" /\ task[t].pc \in Executing /\ Holding(t)
  BY DEF Complete, Executing, Holding
<1>1. UNCHANGED quiet /\ pub' = pub /\ tmp' = tmp
  BY DEF Complete, files
<1>2. CASE Takes(t, "Committing")
  <2>1. PICK same \in BOOLEAN :
          /\ Put(t, CompleteTransfer(tr[t], same))
          /\ End(t, IF same THEN "None" ELSE "LengthMismatch")
    BY <1>2 DEF Complete
  <2>2. tr[t].state = "Committing"
    BY <1>2 DEF Takes
  <2>3. /\ Moves(tr[t], CompleteTransfer(tr[t], same))
        /\ same = TRUE => CompleteTransfer(tr[t], same).state = "Completed"
        /\ same = FALSE => CompleteTransfer(tr[t], same).state = "Failed"
    BY <2>2, TaskHas, CompleteMoves
  <2>4. tr'[t] = CompleteTransfer(tr[t], same)
    BY <2>1, <2>3, PutRecord DEF Moves
  <2>5. /\ task' \in [Transfers -> Tasks] /\ task'[t].gen = task[t].gen
        /\ task'[t].pc = IF same THEN "return" ELSE "cleanup"
        /\ \A u \in Transfers \ {t} : task'[u] = task[u]
    <3>1. CASE same
      <4>1. End(t, "None") /\ "None" \in Ends
        BY <2>1, <3>1 DEF Ends, Codes
      <4> QED BY <3>1, <4>1, EndTask
    <3>2. CASE ~same
      <4>1. End(t, "LengthMismatch") /\ "LengthMismatch" \in Ends
        BY <2>1, <3>2 DEF Ends, Codes
      <4> QED BY <3>2, <4>1, EndTask
    <3> QED BY <3>1, <3>2
  <2>6. Holding(t)' /\ KeepsFile(t)'
    BY <2>5 DEF Holding, KeepsFile
  <2>7. Published(t)'
    <3>1. pub'[t] /\ ~tmp'[t]
      BY <1>0, <1>1, TaskHas DEF Published
    <3>2. CASE same
      BY <2>5, <3>1, <3>2 DEF Published
    <3>3. CASE ~same
      BY <2>3, <2>4, <2>5, <3>3 DEF Published
    <3> QED BY <3>2, <3>3
  <2>8. CompleteTransfer(tr[t], same).state \in {"Completed", "Failed"}
    BY <2>3
  <2> QED BY <1>0, <1>1, <2>1, <2>2, <2>3, <2>5, <2>6, <2>7, <2>8, TaskHas, FactStep
<1>3. CASE ~Takes(t, "Committing")
  <2>1. End(t, "InvalidState") /\ UNCHANGED tr /\ "InvalidState" \in Ends \ {"None"}
    BY <1>3 DEF Complete, Ends, Codes
  <2> QED BY <1>0, <1>1, <2>1, TaskHas, TaskEnds
<1> QED BY <1>2, <1>3

-----------------------------------------------------------------------------
(* run_transfer around the execution. *)

LEMMA InterruptStep ==
    ASSUME IInv, NEW t \in Transfers, NEW end \in Ends,
           NEW pc \in {"cleanup", "settle"}, Interrupt(t, end, pc)
    PROVE  Good
<1>0. /\ task[t].pc \in Executing /\ Holding(t)
      /\ UNCHANGED <<quiet, tr>> /\ tmp' = tmp /\ pub' = pub
  BY DEF Interrupt, Executing, Holding, files
<1>1. CASE CommitStarted(t)
  <2>1. task' = [task EXCEPT ![t].deaf = TRUE]
    BY <1>1 DEF Interrupt
  <2>2. /\ task' \in [Transfers -> Tasks]
        /\ task'[t].pc = task[t].pc /\ task'[t].gen = task[t].gen
        /\ \A u \in Transfers \ {t} : task'[u] = task[u]
    BY <2>1, TaskHas DEF Tasks
  <2>3. Holding(t)' /\ Published(t)' /\ KeepsFile(t)'
    BY <1>0, <2>2, TaskHas DEF Holding, Published, KeepsFile
  <2> QED BY <1>0, <2>2, <2>3, TaskHas, TaskStep
<1>2. CASE ~CommitStarted(t)
  <2>1. task' = [task EXCEPT ![t].end = end, ![t].pc = pc]
    BY <1>2 DEF Interrupt
  <2>2. /\ task' \in [Transfers -> Tasks]
        /\ task'[t].pc = pc /\ task'[t].gen = task[t].gen
        /\ \A u \in Transfers \ {t} : task'[u] = task[u]
    BY <2>1, TaskHas DEF Tasks, PCs
  <2>3. tr[t].state # "Completed"
    BY <1>2 DEF CommitStarted
  <2>4. Holding(t)' /\ Published(t)' /\ KeepsFile(t)'
    BY <1>0, <2>2, <2>3 DEF Holding, Published, KeepsFile
  <2> QED BY <1>0, <2>2, <2>4, TaskHas, TaskStep
<1> QED BY <1>1, <1>2

LEMMA HearStep ==
    ASSUME IInv, NEW t \in Transfers, HearCancel(t) \/ HearLost(t) PROVE Good
<1>1. "Cancelled" \in Ends /\ "Lost" \in Ends
  BY DEF Ends
<1> QED BY <1>1, InterruptStep DEF HearCancel, HearLost

LEMMA CleanUpStep == ASSUME IInv, NEW t \in Transfers, CleanUp(t) PROVE Good
<1>0. task[t].pc = "cleanup" /\ Holding(t) /\ UNCHANGED <<quiet, tr>> /\ pub' = pub
  BY DEF CleanUp, Holding
<1>1. /\ task' \in [Transfers -> Tasks] /\ tmp' \in [Transfers -> BOOLEAN]
      /\ task'[t].pc = "settle" /\ task'[t].gen = task[t].gen
      /\ \A u \in Transfers \ {t} : task'[u] = task[u] /\ tmp'[u] = tmp[u]
  <2>1. CASE task[t].end = "TransportLost"
    <3>1. Goto(t, "settle") /\ tmp' = tmp /\ "settle" \in PCs
      BY <2>1 DEF CleanUp, PCs
    <3> QED BY <3>1, GotoTask, TaskHas
  <2>2. CASE task[t].end # "TransportLost"
    <3>1. PICK c \in Cleanups, gone \in BOOLEAN, silent \in BOOLEAN :
            /\ tmp' = [tmp EXCEPT ![t] = tmp[t] /\ ~gone]
            /\ task' = [task EXCEPT ![t].pc = "settle", ![t].clean = c,
                          ![t].end = IF silent THEN "Unresponsive" ELSE @]
      BY <2>2 DEF CleanUp
    <3>2. tmp' \in [Transfers -> BOOLEAN] /\ \A u \in Transfers \ {t} : tmp'[u] = tmp[u]
      BY <3>1, TaskHas
    <3>3. "settle" \in PCs /\ "Unresponsive" \in Ends
      BY DEF PCs, Ends
    <3> DEFINE e == IF silent THEN "Unresponsive" ELSE task[t].end
    <3>4. e \in Ends
      BY <3>3, TaskHas DEF Tasks
    <3>5. task' = [task EXCEPT ![t] = [task[t] EXCEPT !.pc = "settle", !.clean = c,
                                                      !.end = e]]
      BY <3>1, TaskHas
    <3> HIDE DEF e
    <3>6. /\ task' \in [Transfers -> Tasks]
          /\ task'[t].pc = "settle" /\ task'[t].gen = task[t].gen
          /\ \A u \in Transfers \ {t} : task'[u] = task[u]
      BY <3>3, <3>4, <3>5, TaskHas DEF Tasks
    <3> QED BY <3>2, <3>6
  <2> QED BY <2>1, <2>2
<1>2. Holding(t)' /\ Published(t)' /\ KeepsFile(t)'
  <2>1. tr[t].state # "Completed"
    BY <1>0, TaskHas DEF Published
  <2> QED BY <1>0, <1>1, <2>1 DEF Holding, Published, KeepsFile
<1> QED BY <1>0, <1>1, <1>2, TaskHas, TaskStep

LEMMA SettledStops ==
    ASSUME IInv, NEW t \in Transfers
    PROVE  Stops(tr[t], Settled(t))
<1>1. Stops(tr[t], FinishCancel(tr[t], task[t].clean))
  BY TaskHas, FinishCancelStops
<1>2. Stops(tr[t], FailTransfer(tr[t], "TransportLost"))
  BY TaskHas, FailStops
<1>3. Stops(tr[t], SettledError(tr[t], task[t].end, task[t].clean))
  BY TaskHas, SettledErrorStops
<1> QED BY <1>1, <1>2, <1>3 DEF Settled

LEMMA FencedPut ==
    ASSUME IInv, NEW t \in Transfers, NEW g, NEW r, Stops(tr[t], r),
           PutFenced(t, g, r)
    PROVE  /\ tr' \in [Transfers -> Records] /\ Stops(tr[t], tr'[t])
           /\ tr'[t] = IF tr[t].gen = g THEN r ELSE tr[t]
           /\ \A u \in Transfers \ {t} : tr'[u] = tr[u]
<1> DEFINE s == IF tr[t].gen = g THEN r ELSE tr[t]
<1>1. Stops(tr[t], s)
  BY TaskHas
<1>2. Put(t, s) /\ s \in Records
  BY <1>1 DEF PutFenced, Stops, Moves
<1>3. /\ tr' \in [Transfers -> Records] /\ tr'[t] = s
      /\ \A u \in Transfers \ {t} : tr'[u] = tr[u]
  <2> HIDE DEF s
  <2> QED BY <1>2, PutRecord
<1> QED BY <1>1, <1>3

LEMMA SettleStep == ASSUME IInv, NEW t \in Transfers, Settle(t) PROVE Good
<1>0. /\ task[t].pc = "settle" /\ Holding(t) /\ UNCHANGED quiet
      /\ tmp' = tmp /\ pub' = pub
  BY DEF Settle, Holding, files
<1>1. /\ tr' \in [Transfers -> Records] /\ Stops(tr[t], tr'[t])
      /\ \A u \in Transfers \ {t} : tr'[u] = tr[u]
  BY SettledStops, FencedPut DEF Settle
<1>2. /\ task' \in [Transfers -> Tasks]
      /\ task'[t].pc = "return" /\ task'[t].gen = task[t].gen
      /\ \A u \in Transfers \ {t} : task'[u] = task[u]
  <2>1. "return" \in PCs /\ "Cleaned" \in Cleanups
    BY DEF PCs, Cleanups
  <2>2. task' = [task EXCEPT ![t] = [task[t] EXCEPT !.pc = "return",
                      !.clean = "Cleaned", !.cancel = FALSE, !.deaf = FALSE]]
    BY TaskHas DEF Settle
  <2> QED BY <2>1, <2>2, TaskHas DEF Tasks
<1>3. /\ Moves(tr[t], tr'[t])
      /\ \/ tr'[t].state = tr[t].state
         \/ tr'[t].state \in {"Failed", "Paused", "Cancelling", "Cancelled"}
      /\ retry[t] # "none" => tr'[t].state = "Failed" /\ tr'[t].residual
  BY <1>1, TaskHas DEF Stops
<1>4. Holding(t)' /\ Published(t)' /\ KeepsFile(t)'
  <2>1. tr[t].state # "Completed"
    BY <1>0, TaskHas DEF Published
  <2> QED BY <1>0, <1>2, <1>3, <2>1 DEF Holding, Published, KeepsFile
<1> QED BY <1>0, <1>1, <1>2, <1>3, <1>4, TaskHas, TaskStep

(* Only the active transfer has a task. *)
LEMMA OneTask ==
    ASSUME IInv, NEW t \in Transfers, task[t].pc # "idle"
    PROVE  /\ active = t /\ active # None
           /\ \A u \in Transfers \ {t} : task[u].pc = "idle"
BY SftpAssumption DEF IInv, OnlyActive

LEMMA NoneActive ==
    ASSUME IInv, active = None
    PROVE  \A u \in Transfers : task[u].pc = "idle" /\ ~Holding(u)
BY SftpAssumption DEF IInv, OnlyActive, Holding

LEMMA NoTaskTyped == NoTask \in Tasks /\ NoTask.pc = "idle"
<1>1. 0 \in Generations
  BY SftpAssumption DEF Generations
<1> QED BY <1>1 DEF NoTask, Tasks, PCs, Ends, Codes, Cleanups

LEMMA LostStops ==
    ASSUME IInv, TransportLost
    PROVE  /\ sess' \in {"Closed", "Failed"}
           /\ tr' \in [Transfers -> Records]
           /\ \A u \in Transfers : Stops(tr[u], tr'[u])
<1>1. CASE sess \in {"Closed", "Failed"}
  BY <1>1, TaskHas DEF TransportLost, IInv, TypeOK, Records
<1>2. CASE sess \notin {"Closed", "Failed"}
  <2>1. sess' = "Failed" /\ \A u \in Transfers : tr'[u] = PauseActiveTransfer(tr[u])
    BY <1>2 DEF TransportLost, PauseAll
  <2>2. \A u \in Transfers : Stops(tr[u], tr'[u])
    BY <2>1, TaskHas, PauseStops
  <2>3. tr' = [u \in Transfers |-> tr'[u]]
    BY <1>2 DEF TransportLost, PauseAll
  <2>4. tr' \in [Transfers -> Records]
    BY <2>2, <2>3 DEF Stops, Moves
  <2> QED BY <2>1, <2>2, <2>4
<1> QED BY <1>1, <1>2

(* The records stay or stop, and tasks go nowhere but out. *)
LEMMA AllFitStays ==
    ASSUME IInv, \A u \in Transfers : Stops(tr[u], tr'[u]),
           \A u \in Transfers :
             \/ task'[u].pc = task[u].pc
             \/ task[u].pc # "popped" /\ task'[u].pc \in {"idle", "return", "release"}
             \/ task[u].pc = "begun" /\ task'[u].pc = "prepare",
           UNCHANGED <<pub, tmp, client, pending>>
    PROVE  /\ \A u \in Transfers : Fit(u)'
           /\ \A u \in Transfers : Moves(tr[u], tr'[u])
<1>1. \A u \in Transfers : Moves(tr[u], tr'[u])
  BY DEF Stops
<1>2. \A u \in Transfers : Fit(u)
  BY DEF IInv
<1> QED BY <1>1, <1>2, FitStays DEF client

LEMMA ReturnChannelStep ==
    ASSUME IInv, NEW t \in Transfers, ReturnChannel(t) PROVE Good
<1>0. task[t].pc = "return" /\ Holding(t) /\ Goto(t, "release")
  BY DEF ReturnChannel, Holding
<1>1. UNCHANGED <<gen, queue, bound, control, tail, client, files, shutdown>>
  BY DEF ReturnChannel
<1>2. /\ active = t /\ active # None /\ live = 0 /\ task[t].gen = gen
      /\ \A u \in Transfers \ {t} : task[u].pc = "idle"
  BY <1>0, OneTask DEF IInv, Lent
<1>3. /\ task' \in [Transfers -> Tasks]
      /\ task'[t].pc = "release" /\ task'[t].gen = task[t].gen
      /\ \A u \in Transfers \ {t} : task'[u] = task[u]
  BY <1>0, GotoTask DEF PCs
<1>4. /\ tr' \in [Transfers -> Records]
      /\ \A u \in Transfers : Stops(tr[u], tr'[u])
      /\ \/ sess' \in {"Closed", "Failed"} /\ live' = 0
         \/ sess' = sess /\ live' = gen
         \/ sess' = sess /\ sess = "Closed" /\ live' = 0
      /\ hb' = hb \/ hb' = "gone"
  <2>1. CASE Closes(task[t].end)
    <3>1. TransportLost /\ live' = live /\ hb' = "gone"
      BY <1>2, <2>1 DEF ReturnChannel
    <3> QED BY <1>2, <3>1, LostStops
  <2>2. CASE ~Closes(task[t].end)
    <3>1. /\ live' = IF live = 0 /\ sess # "Closed" THEN task[t].gen ELSE live
          /\ UNCHANGED <<sess, hb, tr>>
      BY <2>2 DEF ReturnChannel
    <3> QED BY <1>2, <3>1, TaskHas DEF IInv, TypeOK, Records
  <2> QED BY <2>1, <2>2
<1>5. TypeOK'
  <2>1. sess' \in {"Ready", "Failed", "Closed"} /\ live' \in Generations
    BY <1>2, <1>4 DEF IInv, TypeOK
  <2>2. hb' \in {"up", "lost", "gone"}
    BY <1>4 DEF IInv, TypeOK
  <2> QED BY <1>1, <1>3, <1>4, <2>1, <2>2
           DEF IInv, TypeOK, Tasks, Records, queue, client, files, shutdown
<1>6. OnlyActive' /\ Lent' /\ PoppedReady'
  BY <1>1, <1>2, <1>3 DEF OnlyActive, Lent, PoppedReady, Holding, queue
<1>7. NotMislaid'
  BY <1>1, <1>4 DEF NotMislaid
<1>8. Unpaused' /\ WakeupOwed'
  BY <1>1, <1>2 DEF IInv, Unpaused, WakeupOwed, queue, shutdown
<1>9. /\ \A u \in Transfers : Fit(u)'
      /\ \A u \in Transfers : Moves(tr[u], tr'[u])
  <2>1. UNCHANGED <<pub, tmp, client, pending>>
    BY <1>1 DEF queue, client, files
  <2>2. \A u \in Transfers :
          \/ task'[u].pc = task[u].pc
          \/ task[u].pc # "popped" /\ task'[u].pc \in {"idle", "return", "release"}
    BY <1>0, <1>3
  <2> QED BY <1>4, <2>1, <2>2, AllFitStays
<1> QED BY <1>5, <1>6, <1>7, <1>8, <1>9, Assembled

LEMMA ReleaseSessionStep ==
    ASSUME IInv, NEW t \in Transfers, ReleaseSession(t) PROVE Good
<1>0. task[t].pc = "release"
  BY DEF ReleaseSession
<1>1. UNCHANGED <<session, tr, pending, kick, looping, bound, control, client,
                  files, shutdown>>
  BY DEF ReleaseSession
<1>2. active = t /\ \A u \in Transfers \ {t} : task[u].pc = "idle"
  BY <1>0, OneTask
<1>3. /\ task' \in [Transfers -> Tasks] /\ active' = None
      /\ \A u \in Transfers : task'[u].pc = "idle"
      /\ tail' \in [Transfers -> {"none", "control", "finish"}]
      /\ tail'[t] = "control"
  <2>1. task' \in [Transfers -> Tasks] /\ \A u \in Transfers : task'[u].pc = "idle"
    BY <1>2, TaskHas, NoTaskTyped DEF ReleaseSession
  <2> QED BY <1>2, <2>1 DEF ReleaseSession, IInv, TypeOK
<1>4. TypeOK'
  BY <1>1, <1>3 DEF IInv, TypeOK, Tasks, session, client, files, shutdown
<1>5. OnlyActive' /\ Lent' /\ PoppedReady'
  BY <1>3 DEF OnlyActive, Lent, PoppedReady, Holding
<1>6. NotMislaid'
  BY <1>0, <1>1, <1>2 DEF IInv, NotMislaid, Holding, session, shutdown
<1>7. Unpaused' /\ WakeupOwed'
  BY <1>1, <1>3 DEF IInv, Unpaused, WakeupOwed, shutdown
<1>8. /\ \A u \in Transfers : Fit(u)'
      /\ \A u \in Transfers : Moves(tr[u], tr'[u])
  <2>1. UNCHANGED <<pub, tmp, client, pending>> /\ \A u \in Transfers : Stops(tr[u], tr'[u])
    BY <1>1, TaskHas DEF client, files
  <2>2. \A u \in Transfers :
          \/ task'[u].pc = task[u].pc
          \/ task[u].pc # "popped" /\ task'[u].pc \in {"idle", "return", "release"}
    BY <1>0, <1>2, <1>3
  <2> QED BY <2>1, <2>2, AllFitStays
<1> QED BY <1>4, <1>5, <1>6, <1>7, <1>8, Assembled

(* A step that touches neither the records nor the tasks nor the files. *)
LEMMA BesideStep ==
    ASSUME IInv, TypeOK',
           UNCHANGED <<sess, gen, live, tr, pending, active, task, client,
                       files>>,
           shut' = shut \/ shut # "wait" \/ sess # "Ready",
           Unpaused', WakeupOwed'
    PROVE  Good
<1>1. OnlyActive' /\ Lent' /\ PoppedReady'
  BY DEF IInv, OnlyActive, Lent, PoppedReady, Holding
<1>2. NotMislaid'
  BY DEF IInv, NotMislaid, Holding
<1>3. /\ \A u \in Transfers : Fit(u)'
      /\ \A u \in Transfers : Moves(tr[u], tr'[u])
  BY TaskHas, AllFitStays DEF files
<1> QED BY <1>1, <1>2, <1>3, Assembled

LEMMA RemoveControlStep ==
    ASSUME IInv, NEW t \in Transfers, RemoveControl(t) PROVE Good
<1>1. UNCHANGED <<session, tr, queue, bound, task, client, files, shutdown>>
  BY DEF RemoveControl
<1>2. /\ control' \subseteq Transfers
      /\ tail' \in [Transfers -> {"none", "control", "finish"}]
      /\ tail'[t] = "finish" /\ \A u \in Transfers \ {t} : tail'[u] = tail[u]
  BY DEF RemoveControl, IInv, TypeOK
<1>3. TypeOK'
  BY <1>1, <1>2 DEF IInv, TypeOK, session, queue, client, files, shutdown
<1>4. Unpaused' /\ WakeupOwed'
  BY <1>1, <1>2 DEF IInv, Unpaused, WakeupOwed, session, queue, shutdown
<1> QED BY <1>1, <1>3, <1>4, BesideStep DEF session, queue, client, shutdown

LEMMA FinishTaskStep ==
    ASSUME IInv, NEW t \in Transfers, FinishTask(t) PROVE Good
<1>1. UNCHANGED <<session, tr, pending, active, looping, control, task, client,
                  files, shutdown>>
  BY DEF FinishTask
<1>2. /\ bound' \subseteq Transfers
      /\ kick' \subseteq Transfers \cup {None} /\ kick' # {}
      /\ tail' \in [Transfers -> {"none", "control", "finish"}]
  BY DEF FinishTask, IInv, TypeOK
<1>3. TypeOK'
  BY <1>1, <1>2 DEF IInv, TypeOK, session, client, files, shutdown
<1>4. Unpaused' /\ WakeupOwed'
  BY <1>1, <1>2 DEF IInv, Unpaused, WakeupOwed, shutdown
<1> QED BY <1>1, <1>3, <1>4, BesideStep DEF session, client, shutdown

-----------------------------------------------------------------------------
(* The queue's steps. *)

LEMMA EnqueueStep == ASSUME IInv, NEW t \in Transfers, Enqueue(t) PROVE Good
<1>0. tr[t].state = "Absent" /\ Put(t, EnqueueTransfer(gen)) /\ gen \in Generations
  BY DEF Enqueue, IInv, TypeOK
<1>1. UNCHANGED <<session, active, looping, control, task, tail, client, files,
                  shutdown>>
  BY DEF Enqueue
<1>2. /\ EnqueueTransfer(gen) \in Records
      /\ EnqueueTransfer(gen).state = "Queued"
      /\ EnqueueTransfer(gen).outcome = "NotCommitted"
  BY <1>0, EnqueueTyped
<1>3. /\ tr' \in [Transfers -> Records] /\ tr'[t] = EnqueueTransfer(gen)
      /\ \A u \in Transfers \ {t} : tr'[u] = tr[u]
  BY <1>0, <1>2, PutRecord
<1>4. /\ pending' \in Seq(Transfers)
      /\ ToSet(pending') = ToSet(pending) \cup {t}
      /\ kick' \subseteq Transfers \cup {None} /\ kick' # {}
      /\ bound' \subseteq Transfers
  <2>1. pending \in Seq(Transfers) /\ pending' = Append(pending, t)
    BY DEF Enqueue, IInv, TypeOK
  <2>2. pending' \in Seq(Transfers) /\ ToSet(pending') = ToSet(pending) \cup {t}
    BY <2>1, AppendKeeps
  <2> QED BY <2>2 DEF Enqueue, IInv, TypeOK
<1>5. TypeOK'
  BY <1>1, <1>3, <1>4 DEF IInv, TypeOK, Records, session, client, files, shutdown
<1>6. OnlyActive' /\ Lent' /\ NotMislaid' /\ PoppedReady'
  BY <1>1 DEF IInv, OnlyActive, Lent, NotMislaid, PoppedReady, Holding, session,
              shutdown
<1>7. Unpaused' /\ WakeupOwed'
  BY <1>1, <1>4 DEF IInv, Unpaused, WakeupOwed, shutdown
<1>8. ASSUME NEW u \in Transfers PROVE Moves(tr[u], tr'[u]) /\ Fit(u)'
  <2>1. CASE u # t
    BY <1>1, <1>3, <1>4, <2>1, TaskHas, FitSame DEF IInv, client, files
  <2>2. CASE u = t
    <3>1. Moves(tr[t], tr'[t])
      BY <1>0, <1>2, <1>3, TaskHas DEF Moves, Sound
    <3>2. Published(t)' /\ KeepsFile(t)' /\ Waits(t)'
      BY <1>1, <1>2, <1>3, <1>4, TaskHas DEF Published, KeepsFile, Waits, files
    <3>3. RetryWaits(t)' /\ CancelAhead(t)'
      BY <1>0, <1>1, TaskHas DEF Fit, RetryWaits, CancelAhead, client
    <3> QED BY <2>2, <3>1, <3>2, <3>3 DEF Fit
  <2> QED BY <2>1, <2>2
<1> QED BY <1>5, <1>6, <1>7, <1>8, Assembled

LEMMA StartCallStep ==
    ASSUME IInv, NEW c \in Transfers \cup {None}, StartCall(c) PROVE Good
<1>1. /\ UNCHANGED <<session, tr, pending, active, bound, control, task, tail,
                     client, files, shutdown>>
      /\ kick' = kick \ {c}
      /\ looping' = IF paused THEN looping ELSE looping \cup {c}
  BY DEF StartCall
<1>2. TypeOK'
  BY <1>1 DEF IInv, TypeOK, session, client, files, shutdown
<1>3. Unpaused'
  BY <1>1 DEF IInv, Unpaused, shutdown
<1>4. WakeupOwed'
  <2>1. CASE paused
    BY <1>1, <2>1 DEF IInv, Unpaused, WakeupOwed, shutdown
  <2>2. CASE ~paused
    BY <1>1, <2>2 DEF WakeupOwed
  <2> QED BY <2>1, <2>2
<1> QED BY <1>1, <1>2, <1>3, <1>4, BesideStep DEF session, client, shutdown

LEMMA StartPopStep ==
    ASSUME IInv, NEW c \in Transfers \cup {None}, StartPop(c) PROVE Good
<1>1. /\ UNCHANGED <<session, tr, kick, bound, control, tail, client, files,
                     shutdown>>
      /\ looping' = looping \ {c}
  BY DEF StartPop
<1>2. CASE ~Admits
  <2>1. UNCHANGED <<pending, active, task>>
    BY <1>2 DEF StartPop
  <2>2. TypeOK'
    BY <1>1, <2>1 DEF IInv, TypeOK, session, client, files, shutdown
  <2>3. Unpaused' /\ WakeupOwed'
    BY <1>1, <1>2, <2>1 DEF IInv, Unpaused, WakeupOwed, Admits, session, shutdown
  <2> QED BY <1>1, <2>1, <2>2, <2>3, BesideStep DEF session, client, shutdown
<1>3. CASE Admits
  <2>1. active = None /\ sess = "Ready" /\ pending # <<>> /\ pending \in Seq(Transfers)
    BY <1>3 DEF Admits, IInv, TypeOK
  <2>2. PICK t \in Transfers :
          /\ t = Head(pending) /\ pending' \in Seq(Transfers)
          /\ ToSet(pending) \subseteq ToSet(pending') \cup {t}
    <3>1. pending' = Tail(pending)
      BY <1>3 DEF StartPop
    <3> QED BY <2>1, <3>1, TailKeeps
  <2>3. /\ active' = t
        /\ task' = [task EXCEPT ![t] = [NoTask EXCEPT !.pc = "popped"]]
    BY <1>3, <2>2 DEF StartPop
  <2>4. /\ task' \in [Transfers -> Tasks] /\ task'[t].pc = "popped"
        /\ \A u \in Transfers \ {t} : task'[u] = task[u]
    <3>1. [NoTask EXCEPT !.pc = "popped"] \in Tasks
      BY NoTaskTyped DEF Tasks, PCs
    <3>2. [NoTask EXCEPT !.pc = "popped"].pc = "popped"
      BY DEF NoTask
    <3> QED BY <2>2, <2>3, <3>1, <3>2, TaskHas
  <2>5. \A u \in Transfers : task[u].pc = "idle" /\ ~Holding(u)
    BY <2>1, NoneActive
  <2>6. t # None
    BY <2>2, SftpAssumption
  <2>7. TypeOK'
    BY <1>1, <2>2, <2>3, <2>4
       DEF IInv, TypeOK, Tasks, session, client, files, shutdown
  <2>8. OnlyActive' /\ Lent' /\ PoppedReady'
    BY <1>1, <2>1, <2>3, <2>4, <2>5
       DEF OnlyActive, Lent, PoppedReady, Holding, session
  <2>9. NotMislaid'
    BY <1>1, <2>5 DEF IInv, NotMislaid, session, shutdown
  <2>10. Unpaused' /\ WakeupOwed'
    BY <1>1, <2>3, <2>6 DEF IInv, Unpaused, WakeupOwed, shutdown
  <2>11. ASSUME NEW u \in Transfers PROVE Moves(tr[u], tr'[u]) /\ Fit(u)'
    <3>1. CASE u # t
      BY <1>1, <2>2, <2>4, <3>1, TaskHas, FitSame DEF IInv, client, files
    <3>2. CASE u = t
      <4>1. Waits(t)'
        BY <2>4 DEF Waits
      <4> QED BY <1>1, <2>4, <3>2, <4>1, TaskHas, FitStays DEF client, files
    <3> QED BY <3>1, <3>2
  <2> QED BY <2>7, <2>8, <2>9, <2>10, <2>11, Assembled
<1> QED BY <1>2, <1>3

LEMMA BeginMoves ==
    ASSUME NEW r, Sound(r), r.state = "Queued", NEW g \in Generations
    PROVE  Moves(r, BeginTransfer(r, g)) /\ BeginTransfer(r, g).state = "Preparing"
<1> DEFINE q == [r EXCEPT !.gen = g]
<1>1. q \in Records /\ q.outcome = r.outcome
  BY DEF Sound, Records, RecordsOf
<1>2. BeginTransfer(r, g) = Transition(q, "Preparing", "None")
  BY DEF BeginTransfer
<1> HIDE DEF q
<1> QED BY <1>1, <1>2, TransitionTyped DEF Sound, Moves, States

LEMMA StartBeginStep == ASSUME IInv, NEW t \in Transfers, StartBegin(t) PROVE Good
<1>0. task[t].pc = "popped"
  BY DEF StartBegin
<1>1. UNCHANGED <<sess, gen, hb, pending, kick, bound, control, tail, client,
                  files, shutdown>>
  BY DEF StartBegin
<1>2. /\ active = t /\ active # None
      /\ \A u \in Transfers \ {t} : task[u].pc = "idle"
      /\ \A u \in Transfers : ~Holding(u)
  BY <1>0, OneTask DEF Holding
<1>3. 0 \in Generations /\ gen \in Generations
  BY SftpAssumption DEF Generations, IInv, TypeOK
<1>4. CASE t \in bound /\ live # 0 /\ sess = "Ready" /\ tr[t].state = "Queued"
  <2>1. /\ Put(t, BeginTransfer(tr[t], gen)) /\ live' = 0
        /\ task' = [task EXCEPT ![t].pc = "begun", ![t].gen = gen]
        /\ UNCHANGED <<active, looping>>
    BY <1>4 DEF StartBegin
  <2>2. /\ Moves(tr[t], BeginTransfer(tr[t], gen))
        /\ BeginTransfer(tr[t], gen).state = "Preparing"
    BY <1>3, <1>4, TaskHas, BeginMoves
  <2>3. /\ tr' \in [Transfers -> Records] /\ tr'[t] = BeginTransfer(tr[t], gen)
        /\ \A u \in Transfers \ {t} : tr'[u] = tr[u]
    BY <2>1, <2>2, PutRecord DEF Moves
  <2>4. /\ task' \in [Transfers -> Tasks]
        /\ task'[t].pc = "begun" /\ task'[t].gen = gen
        /\ \A u \in Transfers \ {t} : task'[u] = task[u]
    BY <1>3, <2>1, TaskHas DEF Tasks, PCs
  <2>5. TypeOK'
    BY <1>1, <1>3, <2>1, <2>3, <2>4
       DEF IInv, TypeOK, Tasks, Records, client, files, shutdown
  <2>6. OnlyActive' /\ Lent' /\ PoppedReady'
    BY <1>1, <1>2, <2>1, <2>4 DEF OnlyActive, Lent, PoppedReady, Holding
  <2>7. NotMislaid'
    BY <2>4 DEF NotMislaid, Holding
  <2>8. Unpaused' /\ WakeupOwed'
    BY <1>1, <1>2, <2>1 DEF IInv, Unpaused, WakeupOwed, shutdown
  <2>9. ASSUME NEW u \in Transfers PROVE Moves(tr[u], tr'[u]) /\ Fit(u)'
    <3>1. CASE u # t
      BY <1>1, <2>3, <2>4, <3>1, TaskHas, FitSame DEF IInv, client, files
    <3>2. CASE u = t
      <4>1. Published(t)' /\ KeepsFile(t)' /\ Waits(t)'
        BY <2>2, <2>3, <2>4 DEF Published, KeepsFile, Waits
      <4>2. RetryWaits(t)' /\ CancelAhead(t)'
        BY <1>1, <1>4, <2>2, <2>3, TaskHas DEF Fit, RetryWaits, CancelAhead, client
      <4> QED BY <2>2, <2>3, <3>2, <4>1, <4>2 DEF Fit
    <3> QED BY <3>1, <3>2
  <2> QED BY <2>5, <2>6, <2>7, <2>8, <2>9, Assembled
<1>5. CASE ~(t \in bound /\ live # 0 /\ sess = "Ready" /\ tr[t].state = "Queued")
  <2> DEFINE g == IF t \in bound /\ live # 0 THEN gen ELSE tr[t].gen
  <2>1. /\ PutFenced(t, g, FailTransfer(tr[t], "Protocol"))
        /\ active' = None /\ task' = [task EXCEPT ![t] = NoTask]
        /\ looping' = looping \cup {t} /\ UNCHANGED live
    BY <1>5 DEF StartBegin
  <2>2. Stops(tr[t], FailTransfer(tr[t], "Protocol"))
    BY TaskHas, FailStops
  <2>3. /\ tr' \in [Transfers -> Records] /\ Stops(tr[t], tr'[t])
        /\ tr'[t] = IF tr[t].gen = g THEN FailTransfer(tr[t], "Protocol") ELSE tr[t]
        /\ \A u \in Transfers \ {t} : tr'[u] = tr[u]
    <3> HIDE DEF g
    <3> QED BY <2>1, <2>2, FencedPut
  <2>4. /\ task' \in [Transfers -> Tasks]
        /\ \A u \in Transfers : task'[u].pc = "idle"
        /\ \A u \in Transfers \ {t} : task'[u] = task[u]
    BY <1>2, <2>1, TaskHas, NoTaskTyped
  <2>5. TypeOK'
    BY <1>1, <2>1, <2>3, <2>4
       DEF IInv, TypeOK, Tasks, Records, client, files, shutdown
  <2>6. OnlyActive' /\ Lent' /\ PoppedReady'
    BY <2>4 DEF OnlyActive, Lent, PoppedReady, Holding
  <2>7. NotMislaid'
    BY <1>1, <1>2, <2>1 DEF IInv, NotMislaid, shutdown
  <2>8. Unpaused' /\ WakeupOwed'
    BY <1>1, <2>1 DEF IInv, Unpaused, WakeupOwed, shutdown
  <2>9. tr'[t].state # "Queued"
    <3>1. CASE tr[t].state = "Queued"
      <4>1. ~(t \in bound /\ live # 0)
        BY <1>0, <1>5, <3>1 DEF IInv, PoppedReady
      <4>2. tr'[t] = Failed(tr[t], "Protocol")
        BY <2>3, <3>1, <4>1 DEF FailTransfer, Terminal
      <4> QED BY <4>2, TaskHas, FailedTyped DEF Sound
    <3>2. CASE tr[t].state # "Queued"
      BY <2>3, <3>2 DEF Stops
    <3> QED BY <3>1, <3>2
  <2>10. ASSUME NEW u \in Transfers PROVE Moves(tr[u], tr'[u]) /\ Fit(u)'
    <3>1. CASE u # t
      BY <1>1, <2>3, <2>4, <3>1, TaskHas, FitSame DEF IInv, client, files
    <3>2. CASE u = t
      <4>1. Waits(t)'
        BY <2>9 DEF Waits
      <4>2. Moves(tr[t], tr'[t])
        BY <2>3 DEF Stops
      <4> QED BY <1>1, <2>3, <2>4, <3>2, <4>1, <4>2, TaskHas, FitStays
               DEF client, files
    <3> QED BY <3>1, <3>2
  <2> QED BY <2>5, <2>6, <2>7, <2>8, <2>10, Assembled
<1> QED BY <1>4, <1>5

LEMMA InsertControlStep ==
    ASSUME IInv, NEW t \in Transfers, InsertControl(t) PROVE Good
<1>0. task[t].pc = "begun" /\ Holding(t)
  BY DEF InsertControl, Holding
<1>1. /\ UNCHANGED <<session, tr, queue, bound, tail, client, files, shutdown>>
      /\ control' \subseteq Transfers
  BY DEF InsertControl, IInv, TypeOK
<1>2. /\ task' \in [Transfers -> Tasks]
      /\ task'[t].pc = "prepare" /\ task'[t].gen = task[t].gen
      /\ \A u \in Transfers \ {t} : task'[u] = task[u]
  BY TaskHas DEF InsertControl, Tasks, PCs
<1>3. TypeOK'
  BY <1>1, <1>2 DEF IInv, TypeOK, Tasks, session, queue, client, files, shutdown
<1>4. Holding(t)'
  BY <1>2 DEF Holding
<1>5. OnlyActive' /\ Lent' /\ PoppedReady'
  BY <1>0, <1>1, <1>2
     DEF IInv, OnlyActive, Lent, PoppedReady, Holding, session, queue
<1>6. NotMislaid'
  BY <1>4 DEF NotMislaid
<1>7. Unpaused' /\ WakeupOwed'
  BY <1>1 DEF IInv, Unpaused, WakeupOwed, session, queue, shutdown
<1>8. /\ \A u \in Transfers : Fit(u)'
      /\ \A u \in Transfers : Moves(tr[u], tr'[u])
  <2>1. \A u \in Transfers : Stops(tr[u], tr'[u])
    BY <1>1, TaskHas
  <2>2. UNCHANGED <<pub, tmp, client, pending>>
    BY <1>1 DEF queue, client, files
  <2> QED BY <1>0, <1>2, <2>1, <2>2, AllFitStays
<1> QED BY <1>3, <1>5, <1>6, <1>7, <1>8, Assembled

-----------------------------------------------------------------------------
(* cancel_transfer, resume_transfer and retry_remote_cleanup. *)

LEMMA NoCancelTyped == NoCancel \in Callers /\ NoCancel.pc = "idle"
<1>1. 0 \in Generations
  BY SftpAssumption DEF Generations
<1> QED BY <1>1 DEF NoCancel, Callers, Cleanups

LEMMA CancelTyped == ASSUME IInv PROVE canc \in [Transfers -> Callers]
BY DEF IInv, TypeOK, Callers

(* The record of t is replaced by one that stops; nothing else moves but    *)
(* the callers' own state.                                                  *)
LEMMA StopStep ==
    ASSUME IInv, NEW t \in Transfers, NEW r, Put(t, r), Stops(tr[t], r),
           UNCHANGED <<session, queue, control, task, tail, files, shutdown,
                       restarts>>,
           bound' \subseteq Transfers, cancels' \in 0..MaxCancels,
           canc' \in [Transfers -> Callers],
           retry' \in [Transfers -> {"none", "net", "resolve"}],
           \A u \in Transfers \ {t} : canc'[u] = canc[u] /\ retry'[u] = retry[u],
           \/ canc'[t].pc = "idle" \/ canc[t].pc # "idle"
           \/ r.state = "Cancelling" /\ cancels' # 0,
           cancels' = 0 => cancels = 0,
           \/ retry'[t] = retry[t] \/ retry'[t] = "none"
           \/ t \in Uploads /\ tr[t].state = "Failed" /\ tr[t].residual
    PROVE  Good
<1>1. r \in Records
  BY DEF Stops, Moves
<1>2. /\ tr' \in [Transfers -> Records] /\ tr'[t] = r
      /\ \A u \in Transfers \ {t} : tr'[u] = tr[u]
  BY <1>1, PutRecord
<1>3. TypeOK'
  BY <1>2 DEF IInv, TypeOK, Records, Callers, session, queue, files, shutdown
<1>4. ASSUME NEW u \in Transfers PROVE Moves(tr[u], tr'[u]) /\ Fit(u)'
  <2>1. CASE u # t
    BY <1>2, <2>1, TaskHas, FitSame DEF queue, files
  <2>2. CASE u = t
    <3>1. Moves(tr[t], tr'[t])
      BY <1>2 DEF Stops
    <3> QED BY <1>2, <2>2, <3>1, TaskHas, FitStays DEF queue, files
  <2> QED BY <2>1, <2>2
<1> QED BY <1>3, <1>4, ClientStep DEF session, queue, shutdown

LEMMA CancelStarts == ASSUME IInv, NEW t \in Transfers, Cancel(t) PROVE Good
<1>1. Cancellable(tr[t]) /\ Put(t, BeginCancel(tr[t]))
  BY DEF Cancel
<1>2. Stops(tr[t], BeginCancel(tr[t])) /\ BeginCancel(tr[t]).state = "Cancelling"
  BY <1>1, TaskHas, BeginCancelStops
<1>3. cancels' \in 0..MaxCancels /\ cancels' # 0
  BY SftpAssumption DEF Cancel, IInv, TypeOK
<1>4. /\ canc' \in [Transfers -> Callers]
      /\ \A u \in Transfers \ {t} : canc'[u] = canc[u]
  <2> DEFINE k == [NoCancel EXCEPT !.pc = "route", !.gen = tr[t].gen,
                                   !.temp = tr[t].temp]
  <2>1. k \in Callers
    BY NoCancelTyped, TaskHas DEF Callers, Sound, Records, RecordsOf
  <2>2. canc' = [canc EXCEPT ![t] = k]
    BY DEF Cancel
  <2> HIDE DEF k
  <2> QED BY <2>1, <2>2, CancelTyped
<1>5. /\ UNCHANGED <<session, queue, control, task, tail, files, shutdown,
                     restarts, retry>>
      /\ bound' \subseteq Transfers
      /\ retry' \in [Transfers -> {"none", "net", "resolve"}]
  BY DEF Cancel, IInv, TypeOK
<1> QED BY <1>1, <1>2, <1>3, <1>4, <1>5, StopStep

(* A signal moves no task. *)
LEMMA SignalTasks ==
    ASSUME IInv, NEW S, Signal(S)
    PROVE  /\ task' \in [Transfers -> Tasks]
           /\ \A u \in Transfers : /\ task'[u].pc = task[u].pc
                                   /\ task'[u].gen = task[u].gen
<1>1. task \in [Transfers -> Tasks]
  BY DEF IInv, TypeOK, Tasks
<1>2. \A u \in Transfers : /\ task'[u] \in Tasks
                           /\ task'[u].pc = task[u].pc
                           /\ task'[u].gen = task[u].gen
  BY <1>1 DEF Signal, Tasks
<1>3. task' = [u \in Transfers |-> task'[u]]
  BY DEF Signal
<1> QED BY <1>2, <1>3

LEMMA CancelSignalStep ==
    ASSUME IInv, NEW t \in Transfers, CancelSignal(t) PROVE Good
<1>1. UNCHANGED <<session, tr, queue, bound, control, tail, retry, restarts,
                  cancels, files, shutdown>>
  BY DEF CancelSignal
<1>2. /\ task' \in [Transfers -> Tasks]
      /\ \A u \in Transfers : task'[u].pc = task[u].pc /\ task'[u].gen = task[u].gen
  BY SignalTasks DEF CancelSignal
<1>3. /\ canc' \in [Transfers -> Callers] /\ canc'[t].pc = "idle"
      /\ \A u \in Transfers \ {t} : canc'[u] = canc[u]
  BY NoCancelTyped, CancelTyped DEF CancelSignal
<1>4. TypeOK'
  BY <1>1, <1>2, <1>3
     DEF IInv, TypeOK, Tasks, Callers, session, queue, files, shutdown
<1>5. ASSUME NEW u \in Transfers PROVE Moves(tr[u], tr'[u]) /\ Fit(u)'
  <2>1. \/ canc'[u].pc = "idle" \/ canc[u].pc # "idle"
    BY <1>3
  <2> QED BY <1>1, <1>2, <2>1, TaskHas, FitStays DEF queue, files
<1> QED BY <1>1, <1>2, <1>4, <1>5, ClientStep DEF session, queue, shutdown

LEMMA CancelUnattendedStep ==
    ASSUME IInv, NEW t \in Transfers, CancelUnattended(t) PROVE Good
<1>1. UNCHANGED <<session, tr, queue, bound, control, task, tail, retry,
                  restarts, cancels, pub, shutdown>>
  BY DEF CancelUnattended
<1>2. PICK c \in Cleanups :
        /\ c = "Cleaned" => (canc[t].temp => t \in Downloads \cap bound)
        /\ tmp' = [tmp EXCEPT ![t] = tmp[t] /\ (c = "Cleaned" => ~canc[t].temp)]
        /\ canc' = [canc EXCEPT ![t].pc = "finish", ![t].clean = c]
  BY DEF CancelUnattended
<1>3. /\ canc' \in [Transfers -> Callers] /\ canc[t].pc # "idle"
      /\ \A u \in Transfers \ {t} : canc'[u] = canc[u]
  <2>1. canc' = [canc EXCEPT ![t] = [canc[t] EXCEPT !.pc = "finish", !.clean = c]]
    BY <1>2, CancelTyped
  <2>2. [canc[t] EXCEPT !.pc = "finish", !.clean = c] \in Callers
    BY CancelTyped DEF Callers
  <2>3. canc[t].pc = "route"
    BY DEF CancelUnattended
  <2> QED BY <2>1, <2>2, <2>3, CancelTyped
<1>4. /\ tmp' \in [Transfers -> BOOLEAN]
      /\ tmp'[t] = tmp[t] \/ tmp'[t] = FALSE
      /\ tmp'[t] = tmp[t] \/ t \notin Uploads
      /\ \A u \in Transfers \ {t} : tmp'[u] = tmp[u]
  <2>1. /\ tmp' \in [Transfers -> BOOLEAN]
        /\ tmp'[t] = (tmp[t] /\ (c = "Cleaned" => ~canc[t].temp))
        /\ \A u \in Transfers \ {t} : tmp'[u] = tmp[u]
    BY <1>2, TaskHas
  <2>2. CASE c = "Cleaned" /\ canc[t].temp
    <3>1. t \in Downloads /\ tmp'[t] = FALSE
      BY <1>2, <2>1, <2>2
    <3> QED BY <2>1, <3>1, SftpAssumption
  <2>3. CASE ~(c = "Cleaned" /\ canc[t].temp)
    <3>1. c = "Cleaned" => ~canc[t].temp
      BY <2>3
    <3>2. tmp'[t] = tmp[t]
      BY <2>1, <3>1, TaskHas
    <3> QED BY <2>1, <3>2
  <2> QED BY <2>2, <2>3
<1>5. TypeOK'
  BY <1>1, <1>3, <1>4 DEF IInv, TypeOK, Callers, session, queue, shutdown
<1>6. ASSUME NEW u \in Transfers PROVE Moves(tr[u], tr'[u]) /\ Fit(u)'
  <2>1. \/ canc'[u].pc = "idle" \/ canc[u].pc # "idle"
    BY <1>3
  <2>2. /\ tmp'[u] = tmp[u] \/ tmp'[u] = FALSE
        /\ tmp'[u] = tmp[u] \/ u \notin Uploads
    BY <1>4
  <2> QED BY <1>1, <2>1, <2>2, TaskHas, FitStays DEF queue
<1> QED BY <1>1, <1>5, <1>6, ClientStep DEF session, queue, shutdown

LEMMA CancelFinishStep ==
    ASSUME IInv, NEW t \in Transfers, CancelFinish(t) PROVE Good
<1>0. canc[t].pc = "finish"
  BY DEF CancelFinish
<1>1. UNCHANGED <<session, active, kick, looping, control, task, tail, retry,
                  restarts, cancels, files, shutdown>>
  BY DEF CancelFinish
<1>2. /\ pending' \in Seq(Transfers)
      /\ ToSet(pending') = ToSet(pending) \ {t}
      /\ pending = <<>> => pending' = <<>>
  <2>1. pending \in Seq(Transfers) /\ pending' = Without(pending, t)
    BY DEF CancelFinish, IInv, TypeOK
  <2> QED BY <2>1, WithoutKeeps
<1>3. /\ tr' \in [Transfers -> Records] /\ Stops(tr[t], tr'[t])
      /\ \A u \in Transfers \ {t} : tr'[u] = tr[u]
  <2>1. Stops(tr[t], FinishCancel(tr[t], canc[t].clean))
    BY TaskHas, FinishCancelStops
  <2> QED BY <2>1, FencedPut DEF CancelFinish
<1>4. /\ canc' \in [Transfers -> Callers] /\ canc'[t].pc = "idle"
      /\ \A u \in Transfers \ {t} : canc'[u] = canc[u]
      /\ bound' \subseteq Transfers
  BY NoCancelTyped, CancelTyped DEF CancelFinish, IInv, TypeOK
<1>5. TypeOK'
  BY <1>1, <1>2, <1>3, <1>4 DEF IInv, TypeOK, Records, Callers, session, files,
                                shutdown
<1>6. OnlyActive' /\ Lent' /\ NotMislaid' /\ PoppedReady'
  BY <1>1 DEF IInv, OnlyActive, Lent, NotMislaid, PoppedReady, Holding, session,
              shutdown
<1>7. Unpaused' /\ WakeupOwed'
  BY <1>1, <1>2 DEF IInv, Unpaused, WakeupOwed, session, shutdown
<1>8. ASSUME NEW u \in Transfers PROVE Moves(tr[u], tr'[u]) /\ Fit(u)'
  <2>1. CASE u # t
    BY <1>1, <1>2, <1>3, <1>4, <2>1, TaskHas, FitSame DEF files
  <2>2. CASE u = t
    <3>1. cancels # 0 /\ (restarts[t] = 0 => tr[t].state # "Queued")
      BY <1>0, TaskHas DEF Fit, CancelAhead
    <3>2. /\ restarts[t] = 0 => tr'[t].state # "Queued"
          /\ Moves(tr[t], tr'[t])
      BY <1>3, <3>1 DEF Stops
    <3>3. Waits(t)'
      BY <1>1, <3>1, <3>2 DEF Waits
    <3> QED BY <1>1, <1>3, <1>4, <2>2, <3>2, <3>3, TaskHas, FitStays DEF files
  <2> QED BY <2>1, <2>2
<1> QED BY <1>5, <1>6, <1>7, <1>8, Assembled

LEMMA ResumeRefusedStep ==
    ASSUME IInv, NEW t \in Transfers, ResumeRefused(t) PROVE Good
<1>1. Put(t, RetainResidual(tr[t])) /\ tr[t].state \in {"Failed", "Paused"}
  BY DEF ResumeRefused, Resumable
<1>2. Stops(tr[t], RetainResidual(tr[t]))
  BY <1>1, TaskHas, RetainStops
<1>3. /\ UNCHANGED <<session, queue, control, task, tail, files, shutdown,
                     restarts, cancels, canc, retry>>
      /\ bound' \subseteq Transfers /\ cancels' \in 0..MaxCancels
      /\ canc' \in [Transfers -> Callers]
      /\ retry' \in [Transfers -> {"none", "net", "resolve"}]
  BY CancelTyped DEF ResumeRefused, client, IInv, TypeOK
<1> QED BY <1>1, <1>2, <1>3, StopStep

LEMMA RetryCleanupStep ==
    ASSUME IInv, NEW t \in Transfers, RetryCleanup(t) PROVE Good
<1> DEFINE r == [tr[t] EXCEPT !.seen = TRUE]
<1>1. /\ Put(t, r) /\ t \in Uploads /\ tr[t].state = "Failed" /\ tr[t].residual
  BY DEF RetryCleanup, Resolvable
<1>2. Stops(tr[t], r)
  BY <1>1, TaskHas DEF Sound, Stops, Moves, Records, RecordsOf
<1>3. /\ UNCHANGED <<session, queue, control, task, tail, files, shutdown,
                     restarts, cancels, canc>>
      /\ bound' \subseteq Transfers /\ cancels' \in 0..MaxCancels
      /\ canc' \in [Transfers -> Callers]
      /\ retry' \in [Transfers -> {"none", "net", "resolve"}]
      /\ \A u \in Transfers \ {t} : retry'[u] = retry[u]
  BY CancelTyped DEF RetryCleanup, IInv, TypeOK
<1> HIDE DEF r
<1> QED BY <1>1, <1>2, <1>3, StopStep

LEMMA RetainForExitStep ==
    ASSUME IInv, NEW t \in Transfers, RetainForExit(t) PROVE Good
<1> DEFINE r == [tr[t] EXCEPT !.kept = TRUE]
<1>1. Put(t, r) /\ tr[t].state = "Failed"
  BY DEF RetainForExit
<1>2. Stops(tr[t], r)
  BY <1>1, TaskHas DEF Sound, Stops, Moves, Records, RecordsOf
<1>3. /\ UNCHANGED <<session, queue, control, task, tail, files, shutdown,
                     restarts, cancels, canc, retry>>
      /\ bound' \subseteq Transfers /\ cancels' \in 0..MaxCancels
      /\ canc' \in [Transfers -> Callers]
      /\ retry' \in [Transfers -> {"none", "net", "resolve"}]
  BY CancelTyped DEF RetainForExit, client, IInv, TypeOK
<1> HIDE DEF r
<1> QED BY <1>1, <1>2, <1>3, StopStep

LEMMA RetryCleanStep ==
    ASSUME IInv, NEW t \in Transfers, RetryClean(t) PROVE Good
<1>0. retry[t] # "none" /\ tr[t].state = "Failed"
  BY TaskHas DEF RetryClean
<1>1. UNCHANGED <<session, tr, queue, bound, control, task, tail, canc,
                  restarts, cancels, pub, shutdown>>
  BY DEF RetryClean
<1>2. PICK gone \in BOOLEAN, confirmed \in BOOLEAN :
        /\ tmp' = [tmp EXCEPT ![t] = tmp[t] /\ ~gone]
        /\ retry' = [retry EXCEPT ![t] = IF confirmed THEN "resolve" ELSE "none"]
  BY DEF RetryClean
<1>3. /\ tmp' \in [Transfers -> BOOLEAN]
      /\ tmp'[t] = tmp[t] \/ tmp'[t] = FALSE
      /\ \A u \in Transfers \ {t} : tmp'[u] = tmp[u]
  BY <1>2, TaskHas
<1>4. /\ retry' \in [Transfers -> {"none", "net", "resolve"}]
      /\ \A u \in Transfers \ {t} : retry'[u] = retry[u]
  BY <1>2 DEF IInv, TypeOK
<1>5. TypeOK'
  BY <1>1, <1>3, <1>4 DEF IInv, TypeOK, session, queue, shutdown
<1>6. ASSUME NEW u \in Transfers PROVE Moves(tr[u], tr'[u]) /\ Fit(u)'
  <2>1. CASE u # t
    BY <1>1, <1>3, <1>4, <2>1, TaskHas, FitSame DEF queue
  <2>2. CASE u = t
    <3>1. t \in Uploads /\ tr[t].state = "Failed" /\ tr[t].residual
      BY <1>0, TaskHas DEF Fit, RetryWaits
    <3> QED BY <1>1, <1>3, <2>2, <3>1, TaskHas, FitStays DEF queue
  <2> QED BY <2>1, <2>2
<1> QED BY <1>1, <1>5, <1>6, ClientStep DEF session, queue, shutdown

(* A residual that is resolved: the transfer is cancelled, and no cleanup   *)
(* of it is retried any more.                                               *)
LEMMA FitResolved ==
    ASSUME NEW u \in Transfers, Fit(u), Sound(tr[u]),
           tr'[u] = ResolveCleanupResidual(tr[u]),
           task'[u] = task[u], pub'[u] = pub[u], canc'[u] = canc[u],
           restarts'[u] = restarts[u], cancels' = cancels,
           pending' = pending, retry'[u] = "none",
           tmp'[u] = tmp[u] \/ (u \notin Uploads /\ tmp'[u] = FALSE)
    PROVE  Moves(tr[u], tr'[u]) /\ Fit(u)'
<1>1. /\ Moves(tr[u], tr'[u])
      /\ tr'[u] = tr[u] \/ tr'[u].state = "Cancelled"
  BY ResolveMoves
<1>2. Published(u)' /\ KeepsFile(u)'
  BY <1>1 DEF Fit, Published, KeepsFile
<1>3. RetryWaits(u)' /\ CancelAhead(u)' /\ Waits(u)'
  BY <1>1 DEF Fit, RetryWaits, CancelAhead, Waits
<1> QED BY <1>1, <1>2, <1>3 DEF Fit

LEMMA RetryResolveStep ==
    ASSUME IInv, NEW t \in Transfers, RetryResolve(t) PROVE Good
<1>1. UNCHANGED <<session, queue, control, task, tail, canc, restarts, cancels,
                  files, shutdown>>
  BY DEF RetryResolve
<1>2. /\ retry' \in [Transfers -> {"none", "net", "resolve"}]
      /\ retry'[t] = "none" /\ \A u \in Transfers \ {t} : retry'[u] = retry[u]
      /\ bound' \subseteq Transfers
  BY DEF RetryResolve, IInv, TypeOK
<1>3. /\ tr' \in [Transfers -> Records]
      /\ tr'[t] = ResolveCleanupResidual(tr[t]) \/ tr'[t] = tr[t]
      /\ \A u \in Transfers \ {t} : tr'[u] = tr[u]
  <2>1. CASE tr[t].seen /\ Resolvable(tr[t])
    <3>1. Put(t, ResolveCleanupResidual(tr[t]))
      BY <2>1 DEF RetryResolve
    <3>2. ResolveCleanupResidual(tr[t]) \in Records
      BY TaskHas, ResolveMoves DEF Moves
    <3> QED BY <3>1, <3>2, PutRecord
  <2>2. CASE ~(tr[t].seen /\ Resolvable(tr[t]))
    BY <2>2, TaskHas DEF RetryResolve
  <2> QED BY <2>1, <2>2
<1>4. TypeOK'
  BY <1>1, <1>2, <1>3 DEF IInv, TypeOK, Records, session, queue, files, shutdown
<1>5. ASSUME NEW u \in Transfers PROVE Moves(tr[u], tr'[u]) /\ Fit(u)'
  <2>1. CASE u # t
    BY <1>1, <1>2, <1>3, <2>1, TaskHas, FitSame DEF queue, files
  <2>2. CASE u = t /\ tr'[t] = tr[t]
    BY <1>1, <1>2, <2>2, TaskHas, FitStays DEF queue, files
  <2>3. CASE u = t /\ tr'[t] = ResolveCleanupResidual(tr[t])
    BY <1>1, <1>2, <2>3, TaskHas, FitResolved DEF queue, files
  <2> QED BY <1>3, <2>1, <2>2, <2>3
<1> QED BY <1>1, <1>4, <1>5, ClientStep DEF session, queue, shutdown

LEMMA RestartStep == ASSUME IInv, NEW t \in Transfers, Restart(t) PROVE Good
<1>0. /\ active = None /\ ~tr[t].residual
      /\ tr[t].state \in {"Failed", "Paused"} /\ tr[t].outcome # "Uncertain"
      /\ gen \in Generations
  BY DEF Restart, Resumable, IInv, TypeOK
<1>1. UNCHANGED <<session, active, looping, bound, control, task, tail, canc,
                  retry, cancels, pub, shutdown>>
  BY DEF Restart
<1>2. /\ restarts' \in [Transfers -> 0..MaxRestarts]
      /\ restarts'[t] # 0 /\ \A u \in Transfers \ {t} : restarts'[u] = restarts[u]
  BY SftpAssumption DEF Restart, IInv, TypeOK
<1>3. PICK c \in Cleanups, gone \in BOOLEAN :
        /\ tmp' = [tmp EXCEPT ![t] = tmp[t] /\ ~gone]
        /\ Put(t, RestartTransfer(tr[t], gen, c))
        /\ pending' = IF c = "Cleaned" THEN Append(pending, t) ELSE pending
        /\ kick' = IF c = "Cleaned" THEN kick \cup {t} ELSE kick
  BY DEF Restart
<1>4. /\ tmp' \in [Transfers -> BOOLEAN]
      /\ tmp'[t] = tmp[t] \/ tmp'[t] = FALSE
      /\ \A u \in Transfers \ {t} : tmp'[u] = tmp[u]
  BY <1>3, TaskHas
<1>5. \A u \in Transfers : task[u].pc = "idle" /\ ~Holding(u)
  BY <1>0, NoneActive
<1>6. OnlyActive' /\ Lent' /\ NotMislaid' /\ PoppedReady'
  BY <1>1 DEF IInv, OnlyActive, Lent, NotMislaid, PoppedReady, Holding, session,
              shutdown
<1>7. CASE c = "Cleaned"
  <2>1. /\ Put(t, EnqueueTransfer(gen)) /\ pending' = Append(pending, t)
        /\ kick' = kick \cup {t}
    BY <1>3, <1>7 DEF RestartTransfer
  <2>2. /\ EnqueueTransfer(gen) \in Records
        /\ EnqueueTransfer(gen).state = "Queued"
        /\ EnqueueTransfer(gen).outcome = "NotCommitted"
    BY <1>0, EnqueueTyped
  <2>3. /\ tr' \in [Transfers -> Records] /\ tr'[t] = EnqueueTransfer(gen)
        /\ \A u \in Transfers \ {t} : tr'[u] = tr[u]
    BY <2>1, <2>2, PutRecord
  <2>4. pending' \in Seq(Transfers) /\ ToSet(pending') = ToSet(pending) \cup {t}
    BY <2>1, AppendKeeps DEF IInv, TypeOK
  <2>5. TypeOK'
    <3>1. kick' \subseteq Transfers \cup {None}
      BY <2>1 DEF IInv, TypeOK
    <3> QED BY <1>1, <1>2, <1>4, <2>3, <2>4, <3>1
             DEF IInv, TypeOK, Records, session, shutdown
  <2>6. Unpaused' /\ WakeupOwed'
    BY <1>1, <2>1 DEF IInv, Unpaused, WakeupOwed, shutdown
  <2>7. ASSUME NEW u \in Transfers PROVE Moves(tr[u], tr'[u]) /\ Fit(u)'
    <3>1. CASE u # t
      BY <1>1, <1>2, <1>4, <2>3, <2>4, <3>1, TaskHas, FitSame
    <3>2. CASE u = t
      <4>1. Moves(tr[t], tr'[t])
        BY <1>0, <2>2, <2>3 DEF Moves
      <4>2. Published(t)' /\ KeepsFile(t)' /\ Waits(t)'
        BY <1>1, <1>5, <2>2, <2>3, <2>4 DEF Published, KeepsFile, Waits
      <4>3. RetryWaits(t)' /\ CancelAhead(t)'
        BY <1>0, <1>1, <1>2, TaskHas DEF Fit, RetryWaits, CancelAhead
      <4> QED BY <3>2, <4>1, <4>2, <4>3 DEF Fit
    <3> QED BY <3>1, <3>2
  <2> QED BY <1>6, <2>5, <2>6, <2>7, Assembled
<1>8. CASE c # "Cleaned"
  <2>1. /\ Put(t, RetainResidual(tr[t])) /\ pending' = pending /\ kick' = kick
    BY <1>3, <1>8 DEF RestartTransfer
  <2>2. Stops(tr[t], RetainResidual(tr[t]))
    BY <1>0, TaskHas, RetainStops
  <2>3. /\ tr' \in [Transfers -> Records] /\ Stops(tr[t], tr'[t])
        /\ \A u \in Transfers \ {t} : tr'[u] = tr[u]
    BY <2>1, <2>2, PutRecord DEF Stops, Moves
  <2>4. TypeOK'
    BY <1>1, <1>2, <1>4, <2>1, <2>3 DEF IInv, TypeOK, Records, session, shutdown
  <2>5. ASSUME NEW u \in Transfers PROVE Moves(tr[u], tr'[u]) /\ Fit(u)'
    <3>1. CASE u # t
      BY <1>1, <1>2, <1>4, <2>1, <2>3, <3>1, TaskHas, FitSame
    <3>2. CASE u = t
      <4>1. Moves(tr[t], tr'[t])
        BY <2>3 DEF Stops
      <4> QED BY <1>1, <1>2, <1>4, <1>5, <2>1, <2>3, <3>2, <4>1, TaskHas, FitStays
    <3> QED BY <3>1, <3>2
  <2> QED BY <1>1, <2>1, <2>4, <2>5, ClientStep DEF session, shutdown
<1> QED BY <1>7, <1>8

-----------------------------------------------------------------------------
(* The session. *)

LEMMA HeartbeatFailsStep == ASSUME IInv, HeartbeatFails PROVE Good
<1>1. /\ UNCHANGED <<sess, gen, live, tr, queue, bound, control, task, tail,
                     client, files, shutdown>>
      /\ hb' = "lost"
  BY DEF HeartbeatFails
<1>2. TypeOK'
  BY <1>1 DEF IInv, TypeOK, queue, client, files, shutdown
<1>3. Unpaused' /\ WakeupOwed'
  BY <1>1 DEF IInv, Unpaused, WakeupOwed, queue, shutdown
<1> QED BY <1>1, <1>2, <1>3, BesideStep DEF queue, client, shutdown

(* The session ends: whoever holds the channel holds it alone. *)
LEMMA SessionEnds ==
    ASSUME IInv, TypeOK', sess' # "Ready", live' = 0,
           \A u \in Transfers : Stops(tr[u], tr'[u]),
           UNCHANGED <<gen, queue, tail, task, client, files, shutdowns>>,
           Unpaused'
    PROVE  Good
<1>1. OnlyActive' /\ Lent' /\ NotMislaid' /\ PoppedReady'
  BY DEF IInv, OnlyActive, Lent, NotMislaid, PoppedReady, Holding, queue
<1>2. WakeupOwed'
  BY DEF WakeupOwed
<1>3. /\ \A u \in Transfers : Fit(u)'
      /\ \A u \in Transfers : Moves(tr[u], tr'[u])
  BY AllFitStays DEF queue, client, files
<1> QED BY <1>1, <1>2, <1>3, Assembled

LEMMA ReconcileStep == ASSUME IInv, Reconcile PROVE Good
<1>1. /\ UNCHANGED <<gen, queue, bound, control, task, tail, client, files,
                     shutdown>>
      /\ hb' = "gone" /\ live' = 0 /\ TransportLost
  BY DEF Reconcile
<1>2. /\ sess' \in {"Closed", "Failed"}
      /\ tr' \in [Transfers -> Records]
      /\ \A u \in Transfers : Stops(tr[u], tr'[u])
  BY <1>1, LostStops
<1>3. TypeOK'
  <2>1. 0 \in Generations
    BY SftpAssumption DEF Generations
  <2> QED BY <1>1, <1>2, <2>1 DEF IInv, TypeOK, Records, queue, client, files, shutdown
<1>4. Unpaused'
  BY <1>1 DEF IInv, Unpaused, shutdown
<1> QED BY <1>1, <1>2, <1>3, <1>4, SessionEnds DEF shutdown

LEMMA DisconnectStep == ASSUME IInv, Disconnect PROVE Good
<1>1. /\ UNCHANGED <<gen, tr, queue, bound, control, task, tail, client, files,
                     shutdown>>
      /\ hb' = "gone" /\ live' = 0 /\ sess' \in {"Closed", "Failed"}
  BY DEF Disconnect
<1>2. TypeOK'
  <2>1. 0 \in Generations
    BY SftpAssumption DEF Generations
  <2> QED BY <1>1, <2>1 DEF IInv, TypeOK, queue, client, files, shutdown
<1>3. Unpaused' /\ \A u \in Transfers : Stops(tr[u], tr'[u])
  BY <1>1, TaskHas DEF IInv, Unpaused, shutdown
<1> QED BY <1>1, <1>2, <1>3, SessionEnds DEF shutdown

LEMMA ReopenStep == ASSUME IInv, Reopen PROVE Good
<1>1. /\ UNCHANGED <<pending, active, looping, bound, control, task, tail,
                     client, files, shutdown>>
      /\ active = None /\ gen' = gen + 1 /\ tr' = PauseAll
      /\ kick' = kick \cup {None}
  BY DEF Reopen
<1>2. PICK connected \in BOOLEAN :
        /\ sess' = IF connected THEN "Ready" ELSE "Failed"
        /\ live' = IF connected THEN gen + 1 ELSE 0
        /\ hb' = IF connected THEN "up" ELSE "gone"
  BY DEF Reopen
<1>3. gen + 1 \in Generations /\ 0 \in Generations
  BY SftpAssumption DEF Reopen, Generations, IInv, TypeOK
<1>4. /\ tr' \in [Transfers -> Records]
      /\ \A u \in Transfers : Stops(tr[u], tr'[u])
  <2>1. \A u \in Transfers : Stops(tr[u], PauseActiveTransfer(tr[u]))
    BY TaskHas, PauseStops
  <2>2. \A u \in Transfers : PauseActiveTransfer(tr[u]) \in Records
    BY <2>1 DEF Stops, Moves
  <2> QED BY <1>1, <2>1, <2>2 DEF PauseAll
<1>5. TypeOK'
  BY <1>1, <1>2, <1>3, <1>4 DEF IInv, TypeOK, Records, client, files, shutdown
<1>6. \A u \in Transfers : task[u].pc = "idle"
  BY <1>1, NoneActive
<1>7. OnlyActive' /\ Lent' /\ PoppedReady'
  BY <1>1, <1>6 DEF OnlyActive, Lent, PoppedReady, Holding
<1>8. NotMislaid'
  BY <1>1, <1>2 DEF NotMislaid
<1>9. Unpaused' /\ WakeupOwed'
  BY <1>1 DEF IInv, Unpaused, WakeupOwed, shutdown
<1>10. /\ \A u \in Transfers : Fit(u)'
       /\ \A u \in Transfers : Moves(tr[u], tr'[u])
  BY <1>1, <1>4, AllFitStays DEF client, files
<1> QED BY <1>5, <1>7, <1>8, <1>9, <1>10, Assembled

-----------------------------------------------------------------------------
(* shutdown_all. *)

LEMMA ShutdownBeginStep == ASSUME IInv, ShutdownBegin PROVE Good
<1>1. /\ UNCHANGED <<session, queue, control, task, tail, client, pub, waitFor,
                     timedOut>>
      /\ shut = "idle" /\ shut' = "collect" /\ paused' = TRUE
      /\ shutdowns' = shutdowns + 1
  BY DEF ShutdownBegin
<1>2. PICK gone \in SUBSET {t \in Downloads \cap bound : tr[t].residual} :
        /\ tmp' = [t \in Transfers |-> tmp[t] /\ t \notin gone]
        /\ tr' = [t \in Transfers |-> IF t \in gone
                                         THEN ResolveCleanupResidual(tr[t])
                                         ELSE tr[t]]
        /\ bound' = bound \ {t \in gone : Resolvable(tr[t])}
  BY DEF ShutdownBegin
<1>3. \A u \in Transfers :
        /\ u \in gone => /\ u \notin Uploads /\ tmp'[u] = FALSE
                         /\ tr'[u] = ResolveCleanupResidual(tr[u])
        /\ u \notin gone => tmp'[u] = tmp[u] /\ tr'[u] = tr[u]
  BY <1>2, TaskHas, SftpAssumption
<1>4. ASSUME NEW u \in Transfers PROVE Moves(tr[u], tr'[u]) /\ Fit(u)'
  <2>1. CASE u \in gone
    <3>1. retry'[u] = "none"
      BY <1>1, <1>3, <2>1, TaskHas DEF Fit, RetryWaits, client
    <3>2. /\ tr'[u] = ResolveCleanupResidual(tr[u])
          /\ u \notin Uploads /\ tmp'[u] = FALSE
      BY <1>3, <2>1
    <3>3. /\ task'[u] = task[u] /\ pub'[u] = pub[u] /\ canc'[u] = canc[u]
          /\ restarts'[u] = restarts[u] /\ cancels' = cancels /\ pending' = pending
      BY <1>1 DEF queue, client
    <3> QED BY <3>1, <3>2, <3>3, TaskHas, FitResolved
  <2>2. CASE u \notin gone
    BY <1>1, <1>3, <2>2, TaskHas, FitSame DEF queue, client
  <2> QED BY <2>1, <2>2
<1>5. /\ tr' \in [Transfers -> Records] /\ tmp' \in [Transfers -> BOOLEAN]
      /\ bound' \subseteq Transfers /\ shutdowns' \in 0..MaxShutdowns
      /\ shutdowns' # 0
  <2>1. \A u \in Transfers : tr'[u] \in Records
    BY <1>4 DEF Moves
  <2>2. tr' \in [Transfers -> Records]
    BY <1>2, <2>1
  <2>3. tmp' \in [Transfers -> BOOLEAN]
    BY <1>2
  <2>4. bound' \subseteq Transfers
    BY <1>2 DEF IInv, TypeOK
  <2>5. shutdowns' \in 0..MaxShutdowns /\ shutdowns' # 0
    BY SftpAssumption DEF ShutdownBegin, IInv, TypeOK
  <2> QED BY <2>2, <2>3, <2>4, <2>5
<1>6. TypeOK'
  BY <1>1, <1>5 DEF IInv, TypeOK, Records, session, queue, client
<1>7. OnlyActive' /\ Lent' /\ NotMislaid' /\ PoppedReady'
  BY <1>1 DEF IInv, OnlyActive, Lent, NotMislaid, PoppedReady, Holding, session,
              queue
<1>8. Unpaused' /\ WakeupOwed'
  BY <1>5 DEF Unpaused, WakeupOwed
<1> QED BY <1>4, <1>6, <1>7, <1>8, Assembled

(* A shutdown under way has been counted. *)
LEMMA ShutdownCounted == ASSUME IInv, shut # "idle" PROVE shutdowns # 0
BY DEF IInv, Unpaused

LEMMA ShutdownCollectStep == ASSUME IInv, ShutdownCollect PROVE Good
<1>1. /\ UNCHANGED <<session, tr, queue, bound, control, task, tail, client,
                     files, paused, shutdowns>>
      /\ shut = "collect" /\ shut' = "cancel" /\ waitFor' = control /\ timedOut' = {}
  BY DEF ShutdownCollect
<1>2. TypeOK'
  BY <1>1 DEF IInv, TypeOK, session, queue, client, files
<1>3. Unpaused' /\ WakeupOwed'
  BY <1>1, ShutdownCounted DEF Unpaused, WakeupOwed
<1> QED BY <1>1, <1>2, <1>3, BesideStep DEF session, queue, client

LEMMA ShutdownReportStep == ASSUME IInv, ShutdownReport PROVE Good
<1>1. /\ UNCHANGED <<session, tr, queue, bound, control, task, tail, client,
                     files, waitFor, timedOut, shutdowns>>
      /\ shut = "report" /\ shut' = "idle" /\ paused' = FALSE
  BY DEF ShutdownReport
<1>2. TypeOK'
  BY <1>1 DEF IInv, TypeOK, session, queue, client, files
<1>3. Unpaused' /\ WakeupOwed'
  BY <1>1, ShutdownCounted DEF Unpaused, WakeupOwed
<1> QED BY <1>1, <1>2, <1>3, BesideStep DEF session, queue, client

LEMMA ShutdownFinishedStep ==
    ASSUME IInv, NEW t \in Transfers, ShutdownFinished(t) PROVE Good
<1>1. /\ UNCHANGED <<session, tr, queue, bound, control, task, tail, client,
                     files, shut, timedOut, paused, shutdowns>>
      /\ waitFor' = waitFor \ {t}
  BY DEF ShutdownFinished
<1>2. TypeOK'
  BY <1>1 DEF IInv, TypeOK, session, queue, client, files
<1>3. Unpaused' /\ WakeupOwed'
  BY <1>1 DEF IInv, Unpaused, WakeupOwed, session, queue
<1> QED BY <1>1, <1>2, <1>3, BesideStep DEF session, queue, client

LEMMA ShutdownCancelStep == ASSUME IInv, ShutdownCancel PROVE Good
<1>1. /\ UNCHANGED <<session, queue, bound, control, tail, client, files,
                     waitFor, timedOut, paused, shutdowns>>
      /\ shut = "cancel" /\ shut' = "wait" /\ Signal(waitFor)
      /\ tr' = [t \in Transfers |->
                  IF t \in waitFor /\ Cancellable(tr[t]) THEN BeginCancel(tr[t])
                                                         ELSE tr[t]]
  BY DEF ShutdownCancel
<1>2. /\ task' \in [Transfers -> Tasks]
      /\ \A u \in Transfers : task'[u].pc = task[u].pc /\ task'[u].gen = task[u].gen
  BY <1>1, SignalTasks
<1>3. \A u \in Transfers : Stops(tr[u], tr'[u])
  BY <1>1, TaskHas, BeginCancelStops
<1>4. tr' \in [Transfers -> Records]
  <2>1. \A u \in Transfers : tr'[u] \in Records
    BY <1>3 DEF Stops, Moves
  <2> QED BY <1>1, <2>1
<1>5. TypeOK'
  BY <1>1, <1>2, <1>4 DEF IInv, TypeOK, Tasks, Records, session, queue, client, files
<1>6. OnlyActive' /\ Lent' /\ NotMislaid' /\ PoppedReady'
  BY <1>1, <1>2 DEF IInv, OnlyActive, Lent, NotMislaid, PoppedReady, Holding,
                    session, queue
<1>7. Unpaused' /\ WakeupOwed'
  BY <1>1, ShutdownCounted DEF Unpaused, WakeupOwed
<1>8. /\ \A u \in Transfers : Fit(u)'
      /\ \A u \in Transfers : Moves(tr[u], tr'[u])
  BY <1>1, <1>2, <1>3, AllFitStays DEF queue, client, files
<1> QED BY <1>5, <1>6, <1>7, <1>8, Assembled

LEMMA ShutdownAbortStep ==
    ASSUME IInv, NEW t \in Transfers, ShutdownAbort(t) PROVE Good
<1>1. /\ UNCHANGED <<session, tr, queue, bound, control, client, tmp, shut,
                     paused, shutdowns>>
      /\ shut = "wait" /\ waitFor' = waitFor \ {t} /\ timedOut' = timedOut \cup {t}
      /\ tail' = [tail EXCEPT ![t] = "none"]
  BY DEF ShutdownAbort
<1>2. /\ task' \in [Transfers -> Tasks]
      /\ task'[t].pc = task[t].pc \/ (task[t].pc # "popped" /\ task'[t].pc = "idle")
      /\ task'[t].pc # "idle" => task'[t] = task[t]
      /\ \A u \in Transfers \ {t} : task'[u] = task[u]
  <2>1. CASE task[t].pc \in Unregistered
    BY <2>1, TaskHas DEF ShutdownAbort
  <2>2. CASE task[t].pc \notin Unregistered
    BY <2>2, TaskHas, NoTaskTyped DEF ShutdownAbort, Unregistered
  <2> QED BY <2>1, <2>2
<1>3. /\ pub' \in [Transfers -> BOOLEAN]
      /\ pub'[t] = pub[t] \/ pub'[t] = TRUE
      /\ \A u \in Transfers \ {t} : pub'[u] = pub[u]
  <2>1. PICK sent \in BOOLEAN :
          pub' = [pub EXCEPT ![t] = pub[t] \/ (sent /\ task[t].pc = "commit")]
    BY DEF ShutdownAbort
  <2> QED BY <2>1, TaskHas
<1>4. TypeOK'
  BY <1>1, <1>2, <1>3 DEF IInv, TypeOK, Tasks, session, queue, client
<1>5. OnlyActive' /\ Lent' /\ PoppedReady'
  BY <1>1, <1>2 DEF IInv, OnlyActive, Lent, PoppedReady, Holding, session, queue
<1>6. NotMislaid'
  BY <1>1 DEF NotMislaid
<1>7. Unpaused' /\ WakeupOwed'
  BY <1>1, ShutdownCounted DEF Unpaused, WakeupOwed
<1>8. ASSUME NEW u \in Transfers PROVE Moves(tr[u], tr'[u]) /\ Fit(u)'
  <2>1. CASE u # t
    BY <1>1, <1>2, <1>3, <2>1, TaskHas, FitSame DEF queue, client
  <2>2. CASE u = t
    BY <1>1, <1>2, <1>3, <2>2, TaskHas, FitStays DEF queue, client
  <2> QED BY <2>1, <2>2
<1> QED BY <1>4, <1>5, <1>6, <1>7, <1>8, Assembled

LEMMA StopsTwice ==
    ASSUME NEW r, NEW s, NEW q, Stops(r, s), Stops(s, q) PROVE Stops(r, q)
BY DEF Stops, Moves

LEMMA StopsSound == ASSUME NEW r, NEW s, Stops(r, s) PROVE Sound(s)
BY DEF Stops, Moves, Sound

LEMMA KeptStops ==
    ASSUME NEW r, Sound(r) PROVE Stops(r, [r EXCEPT !.kept = FALSE])
BY DEF Sound, Stops, Moves, Records, RecordsOf

LEMMA ShutdownCloseStep == ASSUME IInv, ShutdownClose PROVE Good
<1> DEFINE cut == [t \in Transfers |->
                     IF t \in timedOut THEN FinishCancel(tr[t], "Residual")
                                       ELSE tr[t]]
           settled == [t \in Transfers |->
                         IF sess \in {"Closed", "Failed"}
                           THEN cut[t] ELSE PauseActiveTransfer(cut[t])]
<1>1. /\ UNCHANGED <<gen, queue, bound, task, tail, client, files, waitFor,
                     timedOut, paused, shutdowns>>
      /\ shut = "wait" /\ live' = 0 /\ hb' = "gone"
      /\ control' = control \ timedOut
  BY DEF ShutdownClose
<1>2. /\ sess' \in {"Failed", "Closed"} /\ shut' \in {"ok", "report"}
      /\ tr' = [t \in Transfers |-> [settled[t] EXCEPT !.kept = FALSE]]
  BY DEF ShutdownClose
<1>3. \A u \in Transfers : Stops(tr[u], cut[u])
  BY TaskHas, FinishCancelStops
<1>4. \A u \in Transfers : Stops(tr[u], settled[u])
  <2> SUFFICES ASSUME NEW u \in Transfers PROVE Stops(tr[u], settled[u])
    OBVIOUS
  <2> HIDE DEF cut
  <2>1. Stops(tr[u], cut[u]) /\ Sound(cut[u])
    BY <1>3, StopsSound
  <2>2. Stops(cut[u], PauseActiveTransfer(cut[u]))
    BY <2>1, PauseStops
  <2>3. settled[u] = cut[u] \/ settled[u] = PauseActiveTransfer(cut[u])
    OBVIOUS
  <2> HIDE DEF settled
  <2> QED BY <2>1, <2>2, <2>3, StopsTwice
<1> HIDE DEF settled
<1>5. \A u \in Transfers : Stops(tr[u], tr'[u])
  <2> SUFFICES ASSUME NEW u \in Transfers PROVE Stops(tr[u], tr'[u])
    OBVIOUS
  <2>1. Stops(tr[u], settled[u]) /\ Sound(settled[u])
    BY <1>4, StopsSound
  <2>2. Stops(settled[u], [settled[u] EXCEPT !.kept = FALSE])
    BY <2>1, KeptStops
  <2>3. tr'[u] = [settled[u] EXCEPT !.kept = FALSE]
    BY <1>2
  <2> QED BY <2>1, <2>2, <2>3, StopsTwice
<1>6. tr' \in [Transfers -> Records]
  <2>1. \A u \in Transfers : tr'[u] \in Records
    BY <1>5 DEF Stops, Moves
  <2>2. tr' = [u \in Transfers |-> tr'[u]]
    BY <1>2
  <2> QED BY <2>1, <2>2
<1>7. TypeOK'
  <2>1. 0 \in Generations
    BY SftpAssumption DEF Generations
  <2> QED BY <1>1, <1>2, <1>6, <2>1 DEF IInv, TypeOK, Records, queue, client, files
<1>8. Unpaused'
  BY <1>1, ShutdownCounted DEF Unpaused
<1> QED BY <1>1, <1>2, <1>5, <1>7, <1>8, SessionEnds

-----------------------------------------------------------------------------
(* The theorems. *)

LEMMA InitHolds == Init => IInv
<1> SUFFICES ASSUME Init PROVE IInv
  OBVIOUS
<1>1. 0 \in Generations /\ 1 \in Generations
  BY SftpAssumption DEF Generations
<1>2. /\ \A t \in Transfers : /\ tr[t] = NoRecord /\ task[t] = NoTask
                              /\ canc[t] = NoCancel /\ retry[t] = "none"
      /\ NoRecord \in Records
      /\ NoRecord.state = "Absent" /\ NoRecord.outcome = "NotCommitted"
  BY <1>1 DEF Init, NoRecord, Records, RecordsOf, States, Outcomes
<1>3. TypeOK
  <2>1. tr \in [Transfers -> RecordsOf(Generations)]
    BY <1>2 DEF Init, Records
  <2>2. task \in [Transfers -> Tasks] /\ canc \in [Transfers -> Callers]
    BY NoTaskTyped, NoCancelTyped DEF Init
  <2>3. pending \in Seq(Transfers)
    BY DEF Init
  <2>4. /\ restarts \in [Transfers -> 0..MaxRestarts] /\ cancels \in 0..MaxCancels
        /\ shutdowns \in 0..MaxShutdowns
    BY SftpAssumption DEF Init
  <2>5. /\ tmp \in [Transfers -> BOOLEAN] /\ pub \in [Transfers -> BOOLEAN]
        /\ tail \in [Transfers -> {"none", "control", "finish"}]
        /\ retry \in [Transfers -> {"none", "net", "resolve"}]
    BY DEF Init
  <2>6. /\ sess \in {"Ready", "Failed", "Closed"} /\ hb \in {"up", "lost", "gone"}
        /\ gen \in Generations /\ live \in Generations
        /\ shut \in {"idle", "collect", "cancel", "wait", "report", "ok"}
        /\ paused \in BOOLEAN
    BY <1>1 DEF Init
  <2>7. /\ active \in Transfers \cup {None} /\ bound \subseteq Transfers
        /\ control \subseteq Transfers /\ kick \subseteq Transfers \cup {None}
        /\ looping \subseteq Transfers \cup {None}
        /\ waitFor \subseteq Transfers /\ timedOut \subseteq Transfers
    BY DEF Init
  <2> QED BY <2>1, <2>2, <2>3, <2>4, <2>5, <2>6, <2>7 DEF TypeOK, Tasks, Callers
<1>4. OnlyActive /\ Lent /\ PoppedReady
  BY <1>2, NoTaskTyped DEF OnlyActive, Lent, PoppedReady, Holding
<1>5. NotMislaid /\ Unpaused /\ WakeupOwed
  BY DEF Init, NotMislaid, Unpaused, WakeupOwed
<1>6. UncertainFailed
  BY <1>2 DEF UncertainFailed
<1>7. \A t \in Transfers : Fit(t)
  BY <1>2, NoTaskTyped, NoCancelTyped
     DEF Fit, Published, KeepsFile, RetryWaits, CancelAhead, Waits
<1> QED BY <1>3, <1>4, <1>5, <1>6, <1>7 DEF IInv

LEMMA NextHolds == ASSUME IInv, Next PROVE Good
<1>1. ASSUME NEW c \in Transfers \cup {None}, StartCall(c) \/ StartPop(c) PROVE Good
  BY <1>1, StartCallStep, StartPopStep
<1>2. ASSUME NEW t \in Transfers, Start(t) PROVE Good
  BY <1>2, StartBeginStep, InsertControlStep DEF Start
<1>3. ASSUME NEW t \in Transfers, Execute(t) PROVE Good
  BY <1>3, PrepareStep, CreateStep, CopyChunkStep, CopyDoneStep,
     CommitUploadStep, UnlinkStep, CommitDownloadStep, CompleteStep DEF Execute
<1>4. ASSUME NEW t \in Transfers, HearCancel(t) \/ HearLost(t) PROVE Good
  BY <1>4, HearStep
<1>5. ASSUME NEW t \in Transfers, WindUp(t) PROVE Good
  BY <1>5, CleanUpStep, SettleStep, ReturnChannelStep, ReleaseSessionStep,
     RemoveControlStep, FinishTaskStep DEF WindUp
<1>6. ASSUME NEW t \in Transfers, CancelStep(t) PROVE Good
  BY <1>6, CancelSignalStep, CancelUnattendedStep, CancelFinishStep DEF CancelStep
<1>7. ASSUME NEW t \in Transfers, RetryStep(t) PROVE Good
  BY <1>7, RetryCleanStep, RetryResolveStep DEF RetryStep
<1>8. ASSUME NEW t \in Transfers, User(t) PROVE Good
  BY <1>8, EnqueueStep, CancelStarts, ResumeRefusedStep, RestartStep,
     RetryCleanupStep, RetainForExitStep DEF User
<1>9. ASSUME HeartbeatFails \/ Reconcile \/ Disconnect \/ Reopen PROVE Good
  BY <1>9, HeartbeatFailsStep, ReconcileStep, DisconnectStep, ReopenStep
<1>10. ASSUME Shutdown PROVE Good
  BY <1>10, ShutdownBeginStep, ShutdownCollectStep, ShutdownCancelStep,
     ShutdownFinishedStep, ShutdownAbortStep, ShutdownCloseStep,
     ShutdownReportStep DEF Shutdown, ShutdownStep
<1> QED BY <1>1, <1>2, <1>3, <1>4, <1>5, <1>6, <1>7, <1>8, <1>9, <1>10 DEF Next

LEMMA StutterHolds == ASSUME IInv, UNCHANGED vars PROVE Good
<1> USE DEF vars, session, queue, client, files, shutdown
<1>1. TypeOK'
  BY DEF IInv, TypeOK
<1>2. Unpaused' /\ WakeupOwed'
  BY DEF IInv, Unpaused, WakeupOwed
<1> QED BY <1>1, <1>2, BesideStep

(* Every step of the service keeps the invariant. *)
THEOREM Inductive == Spec => []IInv
<1>1. IInv /\ [Next]_vars => IInv'
  BY NextHolds, StutterHolds DEF Good
<1> QED BY <1>1, InitHolds, PTL DEF Spec

(* The service's state is typed: the queue holds transfers of the session,  *)
(* and every record, task and call is in one of the states its code names.  *)
THEOREM TypeCorrect == Spec => []TypeOK
<1>1. IInv => TypeOK
  BY DEF IInv
<1> QED BY <1>1, Inductive, PTL

(* run_transfer, open, reconcile and the shutdown never lose or share the   *)
(* channel of a ready session.                                              *)
THEOREM ChannelOwnedHolds == Spec => []ChannelOwned
<1>1. IInv => ChannelOwned
  <2> SUFFICES ASSUME IInv PROVE ChannelOwned
    OBVIOUS
  <2>1. \A t, u \in Transfers : Holding(t) /\ Holding(u) => t = u
    BY DEF IInv, OnlyActive, Holding
  <2> QED BY <2>1 DEF IInv, Lent, NotMislaid, ChannelOwned
<1> QED BY <1>1, Inductive, PTL

(* start_next_queued_transfer, cancel_transfer and the tasks lose no queued *)
(* transfer that was not started over; resume_transfer and open lose none   *)
(* unless a cancel was asked for.                                           *)
THEOREM QueuedIsQueuedHolds == Spec => []QueuedIsQueued
<1>1. IInv => QueuedIsQueued
  BY DEF IInv, Fit, Waits, QueuedIsQueued
<1> QED BY <1>1, Inductive, PTL

(* While a ready session has work and runs none of it, a call of            *)
(* start_next_queued_transfer is on its way.                                *)
THEOREM WakeupOwedHolds == Spec => []WakeupOwed
<1>1. IInv => WakeupOwed
  BY DEF IInv
<1> QED BY <1>1, Inductive, PTL

(* complete_transfer is reached only after the target was published and     *)
(* the temporary name was removed, and nobody undoes either.                *)
THEOREM CompletedIsPublishedHolds == Spec => []CompletedIsPublished
<1>1. IInv => CompletedIsPublished
  BY DEF IInv, Fit, Published, CompletedIsPublished
<1> QED BY <1>1, Inductive, PTL

(* retry_remote_cleanup, which runs without a lock, never takes the file of *)
(* an upload that goes on.                                                  *)
THEOREM UploadKeepsFileHolds == Spec => []UploadKeepsFile
<1>1. IInv => UploadKeepsFile
  BY DEF IInv, Fit, KeepsFile, UploadKeepsFile, Transfers
<1> QED BY <1>1, Inductive, PTL

(* No step of the service takes back a completed, a cancelled or an         *)
(* uncertain transfer.                                                      *)
THEOREM FinalStaysHolds == Spec => FinalStays
<1>1. IInv /\ [Next]_vars =>
        [\A t \in Transfers :
           /\ tr[t].state \in {"Completed", "Cancelled"} => tr'[t].state = tr[t].state
           /\ tr[t].outcome = "Uncertain" => tr'[t].outcome = "Uncertain"]_vars
  BY NextHolds DEF Good, Finals
<1> QED BY <1>1, Inductive, PTL DEF Spec, FinalStays

=============================================================================
