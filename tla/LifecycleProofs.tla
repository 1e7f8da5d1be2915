-------------------------- MODULE LifecycleProofs --------------------------
(***************************************************************************)
(* Proofs about the exit gate for every number of creators and tasks.      *)
(***************************************************************************)
EXTENDS Lifecycle, FiniteSetTheorems, TLAPS

(* The steps of Next by what they can disturb. *)
OtherStep ==
    \/ ResourceEnds \/ UnattendedAuthorize \/ AllowRelaunch
    \/ (\E t \in Tasks : CancelInstall(t)) \/ ExitRequested
    \/ InstallReplacesProcess \/ Exited

-----------------------------------------------------------------------------
(* Type correctness. *)

(* Every shutdown stage, and what follows it, is a place a task can be at.  *)
LEMMA StageTypes ==
    ASSUME NEW stage \in Stages
    PROVE  NextStage(stage) \in TaskPCs /\ stage \in TaskPCs
  BY DEF Stages, NextStage, TaskPCs, Draining

(* A counted creator makes the counter positive, and uncounting it leaves   *)
(* the counter equal to the number of the remaining ones.                   *)
LEMMA CountPositive ==
    ASSUME TypeOK, CountInv, NEW c \in Creators, creator[c] \in Counted
    PROVE  active \in Nat /\ active # 0
  <1>1. IsFiniteSet(CountedCreators)
    BY LifecycleAssumption, FS_Subset DEF CountedCreators
  <1>2. c \in CountedCreators
    BY DEF CountedCreators
  <1>3. Cardinality(CountedCreators) # 0
    BY <1>1, <1>2, FS_EmptySet
  <1> QED
    BY <1>3 DEF CountInv, TypeOK

(* Type correctness is preserved by every step of a creator, ... *)
LEMMA CreatorTypes ==
    ASSUME TypeOK, CountInv, NEW c \in Creators, CreatorStep(c)
    PROVE  TypeOK'
  <1> USE DEF TypeOK
  <1>1. CreatorFrame
    BY DEF CreatorStep, CreatorProgress
  <1>2. UNCHANGED <<pc, req, failed, attempt, updatePermit, unattended, exited>>
    BY <1>1 DEF CreatorFrame, task
  <1>3. CASE ObserveIdle(c)
    BY <1>2, <1>3 DEF ObserveIdle, MoveCreator, CreatorPCs
  <1>4. CASE CountCreator(c)
    BY <1>2, <1>4 DEF CountCreator, MoveCreator, CreatorPCs
  <1>5. CASE GrantPermit(c)
    BY <1>2, <1>5 DEF GrantPermit, MoveCreator, CreatorPCs
  <1>6. CASE RefusePermit(c) \/ DropPermit(c)
    <2>1. creator[c] \in Counted /\ Uncount(c)
      BY <1>6 DEF RefusePermit, DropPermit, Counted
    <2>2. active \in Nat /\ active # 0
      BY <2>1, CountPositive
    <2> QED
      BY <1>2, <2>1, <2>2 DEF Uncount, CreatorPCs
  <1>7. CASE NotifyWaiters(c)
    BY <1>2, <1>7 DEF NotifyWaiters, MoveCreator, CreatorPCs
  <1>8. CASE CreateResource(c)
    BY <1>2, <1>8 DEF CreateResource, gate
  <1> QED
    BY <1>3, <1>4, <1>5, <1>6, <1>7, <1>8 DEF CreatorStep, CreatorProgress

(* ... of a task, ... *)
LEMMA TaskTypes ==
    ASSUME TypeOK, NEW t \in Tasks, TaskStep(t)
    PROVE  TypeOK'
  <1> USE DEF TypeOK, Goto, Keep, gate
  <1>pcs. \A p \in {"idle", "prepare", "preparing", "authcheck", "begin", "arm",
                    "check", "await", "recheck", "plugins", "settle", "cancel",
                    "installing", "release", "commit"} : p \in TaskPCs
    BY DEF TaskPCs, Draining, Stages
  <1> USE <1>pcs
  <1>1. ASSUME NEW kind \in {"exit", "update"}, NEW consent \in BOOLEAN,
               Request(t, kind, consent)
        PROVE  TypeOK'
    BY <1>1 DEF Request, Kinds
  <1>2. CASE StartUnattended(t)
    BY <1>2 DEF StartUnattended, Kinds
  <1>3. CASE PrepareStart(t)
    BY <1>3 DEF PrepareStart, WithoutPermit
  <1>4. CASE PrepareOk(t)
    BY <1>4 DEF PrepareOk
  <1>5. CASE PrepareErr(t)
    BY <1>5 DEF PrepareErr, WithoutPermit
  <1>6. CASE AuthCheck(t)
    BY <1>6 DEF AuthCheck
  <1>7. CASE BeginCleanup(t)
    BY <1>7 DEF BeginCleanup, Phases
  <1>8. CASE ArmNotified(t)
    BY <1>8 DEF ArmNotified
  <1>9. CASE CheckDrained(t)
    BY <1>9 DEF CheckDrained
  <1>10. CASE AwaitDrained(t)
    BY <1>10 DEF AwaitDrained
  <1>11. CASE Recheck(t)
    BY <1>11 DEF Recheck
  <1>12. ASSUME NEW stage \in Stages, ShutdownStage(t, stage)
         PROVE  TypeOK'
    BY <1>12, StageTypes DEF ShutdownStage
  <1>13. CASE Settle(t)
    BY <1>13 DEF Settle, Phases
  <1>14. CASE CancelCleanup(t)
    BY <1>14 DEF CancelCleanup, LowerFence, Phases
  <1>15. CASE ReleasePermit(t)
    BY <1>15 DEF ReleasePermit, DropToolPermit
  <1>16. CASE CommitPermit(t)
    BY <1>16 DEF CommitPermit
  <1> QED
    BY <1>1, <1>2, <1>3, <1>4, <1>5, <1>6, <1>7, <1>8, <1>9, <1>10, <1>11,
       <1>12, <1>13, <1>14, <1>15, <1>16 DEF TaskStep, CleanerStep

(* ... and of the event loop, the owners and the update commands. *)
LEMMA OtherTypes ==
    ASSUME TypeOK, OtherStep
    PROVE  TypeOK'
  <1> USE DEF TypeOK, gate, task, Phases
  <1>1. CASE ResourceEnds
    BY <1>1 DEF ResourceEnds
  <1>2. CASE UnattendedAuthorize
    BY <1>2 DEF UnattendedAuthorize
  <1>3. CASE AllowRelaunch
    BY <1>3 DEF AllowRelaunch
  <1>4. ASSUME NEW t \in Tasks, CancelInstall(t) PROVE TypeOK'
    BY <1>4 DEF CancelInstall, Goto, TaskPCs
  <1>5. CASE ExitRequested
    BY <1>5 DEF ExitRequested
  <1>6. CASE InstallReplacesProcess
    BY <1>6 DEF InstallReplacesProcess
  <1>7. CASE Exited
    BY <1>7 DEF Exited, vars
  <1> QED
    BY <1>1, <1>2, <1>3, <1>4, <1>5, <1>6, <1>7 DEF OtherStep

-----------------------------------------------------------------------------
(* The counter. *)

(* fetch_add and fetch_sub keep the counter equal to the number of creators *)
(* between them.                                                            *)
LEMMA CountStep ==
    ASSUME TypeOK, CountInv, [Next]_vars
    PROVE  CountInv'
  <1> USE DEF TypeOK
  <1>fin. IsFiniteSet(CountedCreators)
    BY LifecycleAssumption, FS_Subset DEF CountedCreators
  <1>1. ASSUME UNCHANGED <<active, creator>> PROVE CountInv'
    BY <1>1 DEF CountInv, CountedCreators
  <1>2. ASSUME NEW c \in Creators, CreatorStep(c) PROVE CountInv'
    <2>1. CASE CountCreator(c)
      <3>1. CountedCreators' = CountedCreators \cup {c}
        BY <2>1 DEF CountCreator, MoveCreator, CountedCreators, Counted
      <3>2. c \notin CountedCreators
        BY <2>1 DEF CountCreator, MoveCreator, CountedCreators, Counted
      <3>3. Cardinality(CountedCreators') = Cardinality(CountedCreators) + 1
        BY <1>fin, <3>1, <3>2, FS_AddElement
      <3> QED
        BY <2>1, <3>3 DEF CountInv, CountCreator
    <2>2. CASE RefusePermit(c) \/ DropPermit(c)
      <3>1. creator[c] \in Counted /\ Uncount(c)
        BY <2>2 DEF RefusePermit, DropPermit, Counted
      <3>2. CountedCreators' = CountedCreators \ {c}
        BY <3>1 DEF Uncount, CountedCreators, Counted
      <3>3. c \in CountedCreators
        BY <3>1 DEF CountedCreators
      <3>4. Cardinality(CountedCreators') = Cardinality(CountedCreators) - 1
        BY <1>fin, <3>2, <3>3, FS_RemoveElement
      <3> QED
        BY <3>1, <3>4 DEF CountInv, Uncount
    <2>3. ASSUME active' = active, CountedCreators' = CountedCreators
          PROVE  CountInv'
      BY <2>3 DEF CountInv
    <2>4. CASE ObserveIdle(c)
      BY <2>3, <2>4 DEF ObserveIdle, MoveCreator, CountedCreators, Counted
    <2>5. CASE GrantPermit(c)
      BY <2>3, <2>5 DEF GrantPermit, MoveCreator, CountedCreators, Counted
    <2>6. CASE NotifyWaiters(c)
      BY <2>3, <2>6 DEF NotifyWaiters, MoveCreator, CountedCreators, Counted
    <2>7. CASE CreateResource(c)
      BY <1>1, <2>7 DEF CreateResource, gate
    <2> QED
      BY <1>2, <2>1, <2>2, <2>4, <2>5, <2>6, <2>7
      DEF CreatorStep, CreatorProgress
  <1>3. ASSUME NEW t \in Tasks, TaskStep(t) PROVE CountInv'
    <2>1. UNCHANGED <<active, creator>>
      BY <1>3 DEF TaskStep, CleanerStep, Request, StartUnattended, PrepareStart,
         PrepareOk, PrepareErr, AuthCheck, BeginCleanup, ArmNotified,
         CheckDrained, AwaitDrained, Recheck, ShutdownStage, Settle,
         CancelCleanup, ReleasePermit, CommitPermit, Keep, gate
    <2> QED
      BY <1>1, <2>1
  <1>4. CASE OtherStep
    BY <1>1, <1>4 DEF OtherStep, ResourceEnds, UnattendedAuthorize,
       AllowRelaunch, CancelInstall, ExitRequested, InstallReplacesProcess,
       Exited, gate, vars
  <1>5. CASE UNCHANGED vars
    BY <1>1, <1>5 DEF vars
  <1> QED
    BY <1>2, <1>3, <1>4, <1>5 DEF Next, OtherStep

(* Type correctness of every step. *)
LEMMA TypeStep ==
    ASSUME TypeOK, CountInv, [Next]_vars
    PROVE  TypeOK'
  <1>1. CASE UNCHANGED vars
    BY <1>1 DEF vars, TypeOK
  <1> QED
    BY <1>1, CreatorTypes, TaskTypes, OtherTypes DEF Next, OtherStep

(* When the counter is zero no creator holds a permit. *)
LEMMA ZeroMeansNone ==
    ASSUME TypeOK, CountInv, active = 0
    PROVE  \A c \in Creators : creator[c] \notin Counted
  BY CountPositive

(* The gate's phase, counter and program counters keep their types, and the *)
(* counter counts: the first part of the invariant, from the start.         *)
THEOREM TypeCorrect == Spec => [](TypeOK /\ CountInv)
  <1>1. Init => TypeOK /\ CountInv
    <2> SUFFICES ASSUME Init PROVE TypeOK /\ CountInv
      OBVIOUS
    <2>1. CountedCreators = {}
      BY DEF Init, CountedCreators, Counted
    <2>2. CountInv
      BY <2>1, FS_EmptySet DEF Init, CountInv
    <2>3. TypeOK
      BY DEF Init, TypeOK, Phases, CreatorPCs, TaskPCs, Kinds
    <2> QED
      BY <2>2, <2>3
  <1>2. TypeOK /\ CountInv /\ [Next]_vars => (TypeOK /\ CountInv)'
    BY TypeStep, CountStep
  <1> QED
    BY <1>1, <1>2, PTL DEF Spec

-----------------------------------------------------------------------------
(* The safety part of the invariant.  Each conjunct speaks of the fence, of *)
(* the live resources and of where the tasks are, so every step of a task   *)
(* can disturb several of them.                                             *)

SafetyInv ==
    /\ FenceInv
    /\ NoCreatorBehindFence
    /\ ConsentInv
    /\ CleanInv
    /\ PermitInv
    /\ AuthorizedInv
    /\ ToolInv
    /\ NothingLeftBehind

(* Steps before the fence: the request, ToolWindowExit::prepare and the     *)
(* compare_exchange of begin_cleanup, which finds the phase idle only when  *)
(* no other exit or update owns the fence.                                  *)
LEMMA RequestSafety ==
    ASSUME TypeOK, SafetyInv, NEW t \in Tasks,
           \/ \E kind \in {"exit", "update"}, consent \in BOOLEAN :
                 Request(t, kind, consent)
           \/ StartUnattended(t) \/ PrepareStart(t) \/ PrepareOk(t)
           \/ PrepareErr(t) \/ AuthCheck(t) \/ BeginCleanup(t)
    PROVE  SafetyInv'
  <1> USE LifecycleAssumption
      DEF TypeOK, Goto, Keep, gate, Draining, Drained, Stages, SafetyInv,
          FenceInv, Fenced, NoCreatorBehindFence, ConsentInv, CanExit, Blockers,
          CleanInv, Cleared, PermitInv, AuthorizedInv, ToolInv, NothingLeftBehind
  <1>1. ASSUME NEW kind \in {"exit", "update"}, NEW consent \in BOOLEAN,
               Request(t, kind, consent)
        PROVE  SafetyInv'
    BY <1>1 DEF Request
  <1>2. CASE StartUnattended(t)
    BY <1>2 DEF StartUnattended
  <1>3. CASE PrepareStart(t)
    BY <1>3 DEF PrepareStart, WithoutPermit
  <1>4. CASE PrepareOk(t)
    BY <1>4 DEF PrepareOk
  <1>5. CASE PrepareErr(t)
    BY <1>5 DEF PrepareErr, WithoutPermit
  <1>6. CASE AuthCheck(t)
    BY <1>6 DEF AuthCheck
  <1>7. CASE BeginCleanup(t)
    BY <1>7 DEF BeginCleanup
  <1> QED
    BY <1>1, <1>2, <1>3, <1>4, <1>5, <1>6, <1>7

(* Steps behind the fence: begin_cleanup returns only when the counter is   *)
(* zero, so no permit is held (ZeroMeansNone), and none is granted until    *)
(* the owner of the fence lowers it.                                        *)
LEMMA CleanupSafety ==
    ASSUME TypeOK, CountInv, SafetyInv, NEW t \in Tasks,
           \/ ArmNotified(t) \/ CheckDrained(t) \/ AwaitDrained(t) \/ Recheck(t)
           \/ \E stage \in Stages : ShutdownStage(t, stage)
           \/ Settle(t) \/ CancelCleanup(t) \/ ReleasePermit(t) \/ CommitPermit(t)
    PROVE  SafetyInv'
  <1> USE LifecycleAssumption
      DEF TypeOK, Goto, Keep, gate, Draining, Drained, Stages, SafetyInv,
          FenceInv, Fenced, NoCreatorBehindFence, ConsentInv, CanExit, Blockers,
          CleanInv, Cleared, PermitInv, AuthorizedInv, ToolInv, NothingLeftBehind
  <1>1. CASE ArmNotified(t)
    BY <1>1 DEF ArmNotified
  <1>2. CASE CheckDrained(t)
    BY <1>2, ZeroMeansNone DEF CheckDrained, Counted
  <1>3. CASE AwaitDrained(t)
    BY <1>3 DEF AwaitDrained
  <1>4. CASE Recheck(t)
    BY <1>4 DEF Recheck
  <1>5. ASSUME NEW stage \in Stages, ShutdownStage(t, stage)
        PROVE  SafetyInv'
    <2>1. PICK gone \in SUBSET (live \cap Owned(stage)), ok \in BOOLEAN :
             /\ ok => gone = live \cap Owned(stage)
             /\ live' = live \ gone
             /\ failed' = [failed EXCEPT ![t] = @ \/ ~ok]
      BY <1>5 DEF ShutdownStage
    <2>2. /\ pc[t] = stage /\ pc' = [pc EXCEPT ![t] = NextStage(stage)]
          /\ UNCHANGED <<phase, woken, req, attempt, active, creator,
                         updatePermit, unattended, exited>>
      BY <1>5 DEF ShutdownStage
    <2>3. FenceInv' /\ NoCreatorBehindFence' /\ PermitInv' /\ ToolInv'
      BY <2>1, <2>2 DEF NextStage
    <2>4. ConsentInv' /\ AuthorizedInv' /\ NothingLeftBehind'
      BY <2>1, <2>2 DEF NextStage
    <2>5. CleanInv'
      <3> SUFFICES ASSUME NEW u \in Tasks, req[u].kind # "unattended",
                          ~failed'[u]
                   PROVE  live' \cap Cleared(pc'[u]) = {}
        BY <2>2
      <3>1. CASE u # t
        BY <2>1, <2>2, <3>1
      <3>2. CASE u = t
        <4>1. ~failed[t] /\ ok
          BY <2>1, <3>2
        <4>2. live \cap Cleared(stage) = {} /\ live' = live \ Owned(stage)
          BY <2>1, <2>2, <3>2, <4>1
        <4>3. Cleared(NextStage(stage)) \cap Resources \subseteq Cleared(stage) \cup Owned(stage)
          BY DEF NextStage, Owned
        <4> QED
          BY <2>2, <3>2, <4>2, <4>3
      <3> QED
        BY <3>1, <3>2
    <2> QED
      BY <2>3, <2>4, <2>5
  <1>6. CASE Settle(t)
    <2>1. FenceInv' /\ NoCreatorBehindFence'
      BY <1>6 DEF Settle
    <2>2. ConsentInv' /\ CleanInv' /\ PermitInv'
      BY <1>6 DEF Settle
    <2>3. AuthorizedInv' /\ ToolInv' /\ NothingLeftBehind'
      BY <1>6 DEF Settle
    <2> QED
      BY <2>1, <2>2, <2>3
  <1>7. CASE CancelCleanup(t)
    <2>1. \A u \in Tasks \ {t} : ~Fenced(u)
      BY <1>7 DEF CancelCleanup
    <2>2. FenceInv' /\ NoCreatorBehindFence'
      BY <1>7, <2>1 DEF CancelCleanup, LowerFence
    <2>3. ConsentInv' /\ CleanInv' /\ PermitInv'
      BY <1>7 DEF CancelCleanup, LowerFence
    <2>4. AuthorizedInv' /\ ToolInv' /\ NothingLeftBehind'
      BY <1>7 DEF CancelCleanup, LowerFence
    <2> QED
      BY <2>2, <2>3, <2>4
  <1>8. CASE ReleasePermit(t)
    BY <1>8 DEF ReleasePermit, DropToolPermit
  <1>9. CASE CommitPermit(t)
    BY <1>9 DEF CommitPermit
  <1> QED
    BY <1>1, <1>2, <1>3, <1>4, <1>5, <1>6, <1>7, <1>8, <1>9

(* Creators: a permit is granted only while the phase is idle, hence when   *)
(* nobody works behind the fence and no exit is authorized.                 *)
LEMMA CreatorSafety ==
    ASSUME TypeOK, SafetyInv, NEW c \in Creators, CreatorStep(c)
    PROVE  SafetyInv'
  <1> USE DEF TypeOK, gate, Draining, Drained, Stages, SafetyInv,
          FenceInv, Fenced, NoCreatorBehindFence, ConsentInv, CanExit, Blockers,
          CleanInv, Cleared, PermitInv, AuthorizedInv, ToolInv, NothingLeftBehind
  <1>1. ~exited /\ UNCHANGED <<pc, req, failed, attempt, updatePermit, unattended, exited>>
    BY DEF CreatorStep, CreatorProgress, CreatorFrame, task
  <1>2. CASE ObserveIdle(c) \/ CountCreator(c) \/ GrantPermit(c)
    BY <1>1, <1>2 DEF ObserveIdle, CountCreator, GrantPermit, MoveCreator
  <1>3. CASE RefusePermit(c) \/ DropPermit(c)
    BY <1>1, <1>3 DEF RefusePermit, DropPermit, Uncount
  <1>4. CASE NotifyWaiters(c)
    BY <1>1, <1>4 DEF NotifyWaiters, MoveCreator
  <1>5. CASE CreateResource(c)
    BY <1>1, <1>5 DEF CreateResource
  <1> QED
    BY <1>2, <1>3, <1>4, <1>5 DEF CreatorStep, CreatorProgress

(* The remaining steps: resources only go away, the phase only becomes      *)
(* authorized, and an update gives its permit and its fence up together.    *)
LEMMA OtherSafety ==
    ASSUME TypeOK, SafetyInv, OtherStep
    PROVE  SafetyInv'
  <1> USE LifecycleAssumption
      DEF TypeOK, gate, task, Draining, Drained, Stages, SafetyInv,
          FenceInv, Fenced, NoCreatorBehindFence, ConsentInv, CanExit, Blockers,
          CleanInv, Cleared, PermitInv, AuthorizedInv, ToolInv, NothingLeftBehind
  <1>1. CASE ResourceEnds
    BY <1>1 DEF ResourceEnds
  <1>2. CASE UnattendedAuthorize
    BY <1>2 DEF UnattendedAuthorize
  <1>3. CASE AllowRelaunch
    BY <1>3 DEF AllowRelaunch
  <1>4. ASSUME NEW t \in Tasks, CancelInstall(t) PROVE SafetyInv'
    BY <1>4 DEF CancelInstall, Goto
  <1>5. CASE ExitRequested
    BY <1>5 DEF ExitRequested
  <1>6. CASE InstallReplacesProcess
    BY <1>6 DEF InstallReplacesProcess
  <1>7. CASE Exited
    BY <1>7 DEF Exited, vars
  <1> QED
    BY <1>1, <1>2, <1>3, <1>4, <1>5, <1>6, <1>7 DEF OtherStep

(* The invariant holds initially and every step of the program keeps it. *)
THEOREM Inductive == Spec => []IInv
  <1>1. Init => SafetyInv
    BY LifecycleAssumption
    DEF Init, SafetyInv, FenceInv, Fenced, Draining, Drained, Stages,
        NoCreatorBehindFence, ConsentInv, CanExit, Blockers, CleanInv, Cleared,
        PermitInv, AuthorizedInv, ToolInv, NothingLeftBehind
  <1>2. TypeOK /\ CountInv /\ SafetyInv /\ [Next]_vars => SafetyInv'
    <2> SUFFICES ASSUME TypeOK, CountInv, SafetyInv, [Next]_vars
                 PROVE  SafetyInv'
      OBVIOUS
    <2>1. ASSUME NEW t \in Tasks, TaskStep(t) PROVE SafetyInv'
      BY <2>1, RequestSafety, CleanupSafety DEF TaskStep, CleanerStep
    <2>2. CASE UNCHANGED vars
      BY <2>2 DEF vars, SafetyInv, FenceInv, Fenced, NoCreatorBehindFence,
         ConsentInv, CanExit, CleanInv, PermitInv, AuthorizedInv, ToolInv,
         NothingLeftBehind
    <2> QED
      BY <2>1, <2>2, CreatorSafety, OtherSafety DEF Next, OtherStep
  <1>3. TypeOK /\ CountInv /\ SafetyInv => IInv
    BY DEF IInv, SafetyInv
  <1> QED
    BY <1>1, <1>2, <1>3, TypeCorrect, PTL DEF Spec

-----------------------------------------------------------------------------
(* The properties. *)

(* Once begin_cleanup has returned true to an exit or update, no command    *)
(* holds a creation permit until that exit or update lowers the fence.      *)
THEOREM NoCreatorBehindFenceHolds == Spec => []NoCreatorBehindFence
  BY Inductive, PTL DEF IInv

(* Apart from Android's unattended exit, the process ends only when every   *)
(* owner has let go of its resources.                                       *)
THEOREM NothingLeftBehindHolds == Spec => []NothingLeftBehind
  BY Inductive, PTL DEF IInv

(* No failed, refused or cancelled exit leaves the tool windows fenced. *)
THEOREM NoLeakedToolFenceHolds == Spec => []NoLeakedToolFence
  <1>1. IInv => NoLeakedToolFence
    BY DEF IInv, ToolInv, NoLeakedToolFence
  <1> QED
    BY <1>1, Inductive, PTL

(* No step takes an authorized exit back. *)
THEOREM AuthorizedIsFinalHolds == Spec => AuthorizedIsFinal
  <1>1. [Next]_vars => [phase = "authorized" => phase' = "authorized"]_vars
    BY DEF Next, CreatorStep, CreatorProgress, CreatorFrame, CountCreator,
       GrantPermit, RefusePermit, DropPermit, Uncount, NotifyWaiters, MoveCreator,
       ObserveIdle, CreateResource, ResourceEnds, TaskStep, CleanerStep, Request,
       StartUnattended, PrepareStart, PrepareOk, PrepareErr, AuthCheck,
       BeginCleanup, ArmNotified, CheckDrained, AwaitDrained, Recheck,
       ShutdownStage, Settle, CancelCleanup, LowerFence, ReleasePermit,
       CommitPermit, UnattendedAuthorize, AllowRelaunch, CancelInstall,
       ExitRequested, InstallReplacesProcess, Exited, gate, vars
  <1> QED
    BY <1>1, PTL DEF Spec, AuthorizedIsFinal

(* The only steps that take a task out of a shutdown stage shut down what   *)
(* that stage owns; without consent nothing the user cares about is live.   *)
THEOREM ConsentRespectedHolds == Spec => ConsentRespected
  <1> DEFINE Respected == \A t \in Tasks :
                 pc[t] \in Stages /\ pc'[t] # pc[t] /\ ~req[t].consent
                    => Blockers(req[t].kind, live \ live') = {}
  <1>1. IInv /\ [Next]_vars => [Respected]_vars
    <2> SUFFICES ASSUME IInv, Next, NEW t \in Tasks, pc[t] \in Stages,
                        ~req[t].consent
                 PROVE  Blockers(req[t].kind, live \ live') = {}
      BY DEF Respected
    <2>1. Blockers(req[t].kind, live) = {}
      BY DEF IInv, ConsentInv, CanExit
    <2> QED
      BY <2>1 DEF Blockers
  <1> QED
    BY <1>1, Inductive, PTL DEF Spec, ConsentRespected

-----------------------------------------------------------------------------
(* Lifecycle implements ExitPermit, with attempt as the holder. *)

(* The steps that move no permit: no task enters or leaves prepare, and no  *)
(* task that holds the permit becomes idle.                                 *)
QuietStep(t) ==
    \/ \E kind \in {"exit", "update"}, consent \in BOOLEAN :
         Request(t, kind, consent)
    \/ StartUnattended(t) \/ AuthCheck(t) \/ BeginCleanup(t)
    \/ ArmNotified(t) \/ CheckDrained(t) \/ AwaitDrained(t) \/ Recheck(t)
    \/ \E stage \in Stages : ShutdownStage(t, stage)
    \/ Settle(t) \/ CancelCleanup(t)

(* Where a quiet step takes its task. *)
LEMMA QuietMoves ==
    ASSUME TypeOK, NEW t \in Tasks, QuietStep(t)
    PROVE  /\ attempt' = attempt
           /\ \E p \in TaskPCs : pc' = [pc EXCEPT ![t] = p]
           /\ \/ /\ pc[t] = "idle" /\ attempt # t
                 /\ pc'[t] = "prepare"
              \/ /\ pc[t] \notin {"idle", "prepare", "preparing"}
                 /\ pc'[t] \notin {"idle", "prepare", "preparing"}
  <1> USE DEF TypeOK, Goto, TaskPCs, Draining, Stages, gate
  <1>1. CASE \E kind \in {"exit", "update"}, consent \in BOOLEAN :
               Request(t, kind, consent)
    BY <1>1 DEF Request
  <1>2. CASE StartUnattended(t)
    BY <1>2 DEF StartUnattended
  <1>3. CASE AuthCheck(t) \/ BeginCleanup(t)
    BY <1>3 DEF AuthCheck, BeginCleanup
  <1>4. CASE ArmNotified(t) \/ CheckDrained(t) \/ AwaitDrained(t) \/ Recheck(t)
    BY <1>4 DEF ArmNotified, CheckDrained, AwaitDrained, Recheck
  <1>5. CASE \E stage \in Stages : ShutdownStage(t, stage)
    BY <1>5 DEF ShutdownStage, NextStage
  <1>6. CASE Settle(t)
    BY <1>6 DEF Settle
  <1>7. CASE CancelCleanup(t)
    BY <1>7 DEF CancelCleanup
  <1> QED
    BY <1>1, <1>2, <1>3, <1>4, <1>5, <1>6, <1>7 DEF QuietStep

(* All other steps but the permit's own and CancelInstall leave the tasks   *)
(* and the attempt alone.                                                   *)
LEMMA AloneMoves ==
    ASSUME \/ \E c \in Creators : CreatorStep(c)
           \/ ResourceEnds \/ UnattendedAuthorize \/ AllowRelaunch
           \/ ExitRequested \/ InstallReplacesProcess \/ Exited
           \/ UNCHANGED vars
    PROVE  UNCHANGED <<pc, attempt>>
  BY DEF CreatorStep, CreatorProgress, CreatorFrame, ResourceEnds,
     UnattendedAuthorize, AllowRelaunch, ExitRequested, InstallReplacesProcess,
     Exited, vars, task

(* The attempt belongs to the task that waits in prepare, to nobody who is  *)
(* about to call it.                                                        *)
LEMMA AttemptStep ==
    ASSUME TypeOK, PermitInv, AttemptInv, [Next]_vars
    PROVE  AttemptInv'
  <1> USE LifecycleAssumption DEF TypeOK, AttemptInv, Goto
  <1>1. ASSUME NEW t \in Tasks, QuietStep(t) PROVE AttemptInv'
    BY <1>1, QuietMoves
  <1>2. ASSUME NEW t \in Tasks, PrepareStart(t) PROVE AttemptInv'
    BY <1>2 DEF PrepareStart, WithoutPermit
  <1>3. ASSUME NEW t \in Tasks, PrepareOk(t) \/ PrepareErr(t) PROVE AttemptInv'
    BY <1>3 DEF PrepareOk, PrepareErr, WithoutPermit
  <1>4. ASSUME NEW t \in Tasks, ReleasePermit(t) \/ CommitPermit(t) PROVE AttemptInv'
    BY <1>4 DEF ReleasePermit, DropToolPermit, CommitPermit
  <1>5. ASSUME NEW t \in Tasks, CancelInstall(t) PROVE AttemptInv'
    BY <1>5 DEF CancelInstall, PermitInv
  <1> QED
    BY <1>1, <1>2, <1>3, <1>4, <1>5, AloneMoves
    DEF Next, TaskStep, CleanerStep, QuietStep

(* Every step of the commands is a step of the permit, or none. *)
LEMMA PermitSimulation ==
    ASSUME IInv, AttemptInv, [Next]_vars
    PROVE  [Permit!Next]_(Permit!vars)
  <1> USE LifecycleAssumption
      DEF IInv, TypeOK, AttemptInv, Goto, PermitStage, Permit!Next, Permit!vars
  <1>1. ASSUME NEW t \in Tasks, QuietStep(t) PROVE UNCHANGED Permit!vars
    BY <1>1, QuietMoves
  <1>2. ASSUME NEW t \in Tasks, PrepareStart(t)
        PROVE  Permit!Ask(t) \/ UNCHANGED Permit!vars
    BY <1>2 DEF PrepareStart, WithoutPermit, Permit!Ask
  <1>3. ASSUME NEW t \in Tasks, PrepareOk(t) PROVE Permit!Grant
    BY <1>3 DEF PrepareOk, Permit!Grant
  <1>4. ASSUME NEW t \in Tasks, PrepareErr(t) PROVE Permit!Release
    BY <1>4 DEF PrepareErr, Permit!Release
  <1>5. ASSUME NEW t \in Tasks, ReleasePermit(t)
        PROVE  Permit!Release \/ UNCHANGED Permit!vars
    BY <1>5 DEF ReleasePermit, DropToolPermit, Permit!Release
  <1>6. ASSUME NEW t \in Tasks, CommitPermit(t)
        PROVE  Permit!Commit \/ UNCHANGED Permit!vars
    BY <1>6 DEF CommitPermit, Permit!Commit
  <1>7. ASSUME NEW t \in Tasks, CancelInstall(t)
        PROVE  Permit!Release \/ UNCHANGED Permit!vars
    BY <1>7 DEF CancelInstall, PermitInv, Permit!Release
  <1>8. ASSUME UNCHANGED <<pc, attempt>> PROVE UNCHANGED Permit!vars
    BY <1>8
  <1> QED
    BY <1>1, <1>2, <1>3, <1>4, <1>5, <1>6, <1>7, <1>8, AloneMoves
    DEF Next, TaskStep, CleanerStep, QuietStep

(* Exit, update and unattended exit use the tool-window permit as           *)
(* ToolWindowExit grants it, for every number of concurrent commands.       *)
THEOREM UsesPermitHolds == Spec => UsesPermit
  <1>1. Init => AttemptInv /\ Permit!Init
    BY LifecycleAssumption DEF Init, AttemptInv, Permit!Init, PermitStage
  <1>2. IInv /\ AttemptInv /\ [Next]_vars => AttemptInv'
    BY AttemptStep DEF IInv
  <1>3. IInv /\ AttemptInv /\ [Next]_vars => [Permit!Next]_(Permit!vars)
    BY PermitSimulation
  <1> QED
    BY <1>1, <1>2, <1>3, Inductive, PTL DEF Spec, UsesPermit, Permit!Safe

=============================================================================
