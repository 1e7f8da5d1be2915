----------------------------- MODULE Lifecycle -----------------------------
(***************************************************************************)
(* The application exit gate of src-tauri/src/lifecycle.rs.                *)
(*                                                                         *)
(* A command that creates a session, transfer, plugin host, ... holds a    *)
(* ResourceCreationPermit while it runs.  A cleaner (application exit,     *)
(* release update, Android exit without a frontend) raises the fence with  *)
(* begin_cleanup, waits until no permit is outstanding, shuts every owner  *)
(* down and then either authorizes the process exit or lowers the fence.   *)
(*                                                                         *)
(* Every access to the atomics phase and active_resource_creators and      *)
(* every call of the Notify is a step of its own, so creators and cleaners *)
(* interleave as the threads of the runtime do.  The atomics are read and  *)
(* written sequentially consistently: each read that matters follows an    *)
(* AcqRel read-modify-write, a full barrier on every target of the build.  *)
(***************************************************************************)
EXTENDS Naturals, FiniteSets

CONSTANTS
    Creators,       \* threads that run resource-creating commands
    Tasks,          \* concurrent invocations of the exit and update commands
    Resources,      \* sessions, transfers, plugin hosts, ... that can be live
    PluginHosts,    \* the plugin hosts among them
    Desktops,       \* the remote-desktop sessions among them
    Android,        \* the Android build has two operations more
    NoTask

ASSUME LifecycleAssumption ==
    /\ IsFiniteSet(Creators)
    /\ PluginHosts \subseteq Resources
    /\ Desktops \subseteq Resources
    /\ PluginHosts \cap Desktops = {}
    /\ Android \in BOOLEAN
    /\ NoTask \notin Tasks

VARIABLES
    phase,          \* LifecycleGateInner.phase
    active,         \* LifecycleGateInner.active_resource_creators
    creator,        \* where each creator is in acquire_resource_creation/drop
    woken,          \* tasks whose Notified future has been notified
    pc,             \* where each task is in its command
    req,            \* the task's command and its disconnect_active_resources
    failed,         \* some owner's shutdown_all of this task reported an error
    attempt,        \* ToolWindowExit: the task whose attempt is pending
    updatePermit,   \* UpdateExitState.permit: the task whose permit is stored
    live,           \* resources the owners would report as exit blockers
    unattended,     \* LifecycleGateInner.unattended_exit and its outer task
    exited          \* the event loop has ended

vars == <<phase, active, creator, woken, pc, req, failed, attempt,
          updatePermit, live, unattended, exited>>
gate == <<phase, active, creator, woken>>
task == <<pc, req, failed>>

Phases == {"idle", "cleaning", "authorized"}
Kinds == {"exit", "update", "unattended"}

(* Resources by the stage of shutdown_all_resources that ends them. *)
Stages == {"plugins", "global", "desktops"}
Owned(stage) ==
    CASE stage = "plugins"  -> PluginHosts
      [] stage = "global"   -> Resources \ (PluginHosts \cup Desktops)
      [] stage = "desktops" -> Desktops

-----------------------------------------------------------------------------
(* Program counters. *)

CreatorPCs == {"out",        \* no acquisition in progress
               "observed",   \* first load saw IDLE
               "counted",    \* fetch_add done, second load not yet
               "holding",    \* permit held, the command runs
               "notify"}     \* fetch_sub returned 1, notify_waiters is due

Counted == {"counted", "holding"}

Draining == {"arm", "check", "await"}

TaskPCs == {"idle", "prepare", "preparing", "authcheck", "begin"}
           \cup Draining
           \cup {"recheck"} \cup Stages
           \cup {"settle", "installing", "cancel", "release", "commit"}

-----------------------------------------------------------------------------
(* What the owners report: exit waits for every resource, an update ignores *)
(* idle plugin hosts (update_readiness_from_exit).                          *)

Blockers(kind, resources) ==
    IF kind = "update" THEN resources \ PluginHosts ELSE resources

CanExit(kind) == Blockers(kind, live) = {}

Init ==
    /\ phase = "idle"
    /\ active = 0
    /\ creator = [c \in Creators |-> "out"]
    /\ woken = {}
    /\ pc = [t \in Tasks |-> "idle"]
    /\ req = [t \in Tasks |-> [kind |-> "exit", consent |-> FALSE]]
    /\ failed = [t \in Tasks |-> FALSE]
    /\ attempt = NoTask
    /\ updatePermit = NoTask
    /\ live = {}
    /\ unattended = "none"
    /\ exited = FALSE

-----------------------------------------------------------------------------
(* Creators: acquire_resource_creation and ResourceCreationPermit::drop. *)

MoveCreator(c, from, to) ==
    /\ creator[c] = from
    /\ creator' = [creator EXCEPT ![c] = to]

(* First load of the phase; not idle is an error return. *)
ObserveIdle(c) ==
    /\ phase = "idle"
    /\ MoveCreator(c, "out", "observed")
    /\ UNCHANGED <<phase, active, woken, live>>

CountCreator(c) ==
    /\ MoveCreator(c, "observed", "counted")
    /\ active' = active + 1
    /\ UNCHANGED <<phase, woken, live>>

(* Mutant: the phase is not loaded a second time. *)
GrantPermitUnchecked(c) ==
    /\ MoveCreator(c, "counted", "holding")
    /\ UNCHANGED <<phase, active, woken, live>>

(* Second load: the permit is granted only while the gate is still idle. *)
GrantPermit(c) ==
    /\ phase = "idle"
    /\ MoveCreator(c, "counted", "holding")
    /\ UNCHANGED <<phase, active, woken, live>>

(* fetch_sub, by the refused acquisition or by dropping the permit; the     *)
(* last one out owes the waiters a notification.                            *)
Uncount(c) ==
    /\ creator' = [creator EXCEPT ![c] = IF active = 1 THEN "notify" ELSE "out"]
    /\ active' = active - 1
    /\ UNCHANGED <<phase, woken, live>>

(* Mutant: a refused acquisition takes itself back but tells nobody. *)
RefusePermitSilently(c) ==
    /\ phase # "idle"
    /\ MoveCreator(c, "counted", "out")
    /\ active' = active - 1
    /\ UNCHANGED <<phase, woken, live>>

RefusePermit(c) ==
    /\ phase # "idle"
    /\ creator[c] = "counted"
    /\ Uncount(c)

DropPermit(c) ==
    /\ creator[c] = "holding"
    /\ Uncount(c)

(* notify_waiters wakes the Notified futures that exist at this moment. *)
NotifyWaiters(c) ==
    /\ MoveCreator(c, "notify", "out")
    /\ woken' = woken \cup {t \in Tasks : pc[t] \in {"check", "await"}}
    /\ UNCHANGED <<phase, active, live>>

(* The command registers the resource with its owner under the permit. *)
CreateResource(c) ==
    /\ creator[c] = "holding"
    /\ \E r \in Resources \ live : live' = live \cup {r}
    /\ UNCHANGED gate

CreatorFrame == ~exited /\ UNCHANGED <<task, attempt, updatePermit, unattended, exited>>

(* Steps a command takes by itself once it has begun. *)
CreatorProgress(c) ==
    /\ \/ CountCreator(c) \/ GrantPermit(c) \/ RefusePermit(c)
       \/ DropPermit(c) \/ NotifyWaiters(c)
    /\ CreatorFrame

CreatorStep(c) ==
    \/ CreatorProgress(c)
    \/ (ObserveIdle(c) \/ CreateResource(c)) /\ CreatorFrame

(* A session closes, a transfer finishes, a plugin host stops by itself. *)
ResourceEnds ==
    /\ ~exited
    /\ \E r \in live : live' = live \ {r}
    /\ UNCHANGED <<gate, task, attempt, updatePermit, unattended, exited>>

-----------------------------------------------------------------------------
(* Cleaners.  Goto keeps the command of the task. *)

Goto(t, from, to) ==
    /\ pc[t] = from
    /\ pc' = [pc EXCEPT ![t] = to]

Keep == UNCHANGED <<active, creator, updatePermit, unattended, exited>>

(* The command starts; without consent it stops at the first blocker.  A    *)
(* task whose permit is committed is spent: a new call is another task.     *)
Request(t, kind, consent) ==
    /\ attempt # t
    /\ CanExit(kind) \/ consent
    /\ Goto(t, "idle", "prepare")
    /\ req' = [req EXCEPT ![t] = [kind |-> kind, consent |-> consent]]
    /\ failed' = [failed EXCEPT ![t] = FALSE]
    /\ UNCHANGED <<phase, woken, attempt, live>> /\ Keep

(* exit_without_frontend, and the task it spawns for the cleanup. *)
StartUnattended(t) ==
    /\ Android /\ unattended = "none" /\ attempt # t
    /\ unattended' = "running"
    /\ Goto(t, "idle", "prepare")
    /\ req' = [req EXCEPT ![t] = [kind |-> "unattended", consent |-> TRUE]]
    /\ failed' = [failed EXCEPT ![t] = FALSE]
    /\ UNCHANGED <<gate, attempt, updatePermit, live, exited>>

(* Where a task goes when ToolWindowExit::prepare gives it no permit. *)
WithoutPermit(t) == IF req[t].kind = "unattended" THEN "authcheck" ELSE "idle"

(* Mutant: a second attempt replaces the pending one. *)
PrepareStartReplaces(t) ==
    /\ Goto(t, "prepare", "preparing")
    /\ attempt' = t
    /\ UNCHANGED <<phase, woken, req, failed, live>> /\ Keep

(* ToolWindowExit::start fences tool windows, one attempt at a time. *)
PrepareStart(t) ==
    /\ IF attempt = NoTask
         THEN /\ Goto(t, "prepare", "preparing")
              /\ attempt' = t
         ELSE /\ Goto(t, "prepare", WithoutPermit(t))
              /\ UNCHANGED attempt
    /\ UNCHANGED <<phase, woken, req, failed, live>> /\ Keep

(* Every editor closed; a refusal or the timeout drops the permit instead. *)
PrepareOk(t) ==
    /\ Goto(t, "preparing",
            IF req[t].kind = "unattended" THEN "authcheck" ELSE "begin")
    /\ UNCHANGED <<phase, woken, req, failed, attempt, live>> /\ Keep

PrepareErr(t) ==
    /\ Goto(t, "preparing", WithoutPermit(t))
    /\ attempt' = NoTask
    /\ UNCHANGED <<phase, woken, req, failed, live>> /\ Keep

(* is_exit_authorized in disconnect_all_unattended. *)
AuthCheck(t) ==
    /\ Goto(t, "authcheck", IF phase = "authorized" THEN "release" ELSE "begin")
    /\ UNCHANGED <<phase, woken, req, failed, attempt, live>> /\ Keep

(* begin_cleanup: compare_exchange; the unattended exit ignores its failure *)
BeginCleanup(t) ==
    /\ IF phase = "idle"
         THEN /\ Goto(t, "begin", "arm")
              /\ phase' = "cleaning"
         ELSE /\ Goto(t, "begin", IF req[t].kind = "unattended"
                                    THEN "plugins" ELSE "release")
              /\ UNCHANGED phase
    /\ UNCHANGED <<woken, req, failed, attempt, live>> /\ Keep

(* begin_cleanup's loop: notified() before the load of the counter. *)
ArmNotified(t) ==
    /\ Goto(t, "arm", "check")
    /\ woken' = woken \ {t}
    /\ UNCHANGED <<phase, req, failed, attempt, live>> /\ Keep

CheckDrained(t) ==
    /\ Goto(t, "check", IF active = 0 THEN "recheck" ELSE "await")
    /\ UNCHANGED <<phase, woken, req, failed, attempt, live>> /\ Keep

AwaitDrained(t) ==
    /\ t \in woken
    /\ Goto(t, "await", "arm")
    /\ UNCHANGED <<phase, woken, req, failed, attempt, live>> /\ Keep

(* Mutant: the first snapshot is taken for consent. *)
RecheckSkipped(t) ==
    /\ Goto(t, "recheck", "plugins")
    /\ UNCHANGED <<phase, woken, req, failed, attempt, live>> /\ Keep

(* The readiness is read again under the fence; consent skips the question. *)
Recheck(t) ==
    /\ Goto(t, "recheck", IF req[t].consent \/ CanExit(req[t].kind)
                            THEN "plugins" ELSE "cancel")
    /\ UNCHANGED <<phase, woken, req, failed, attempt, live>> /\ Keep

(* shutdown_all_resources: plugins, then the session owners, then desktops. *)
(* Each stage runs whatever the one before reported; an owner that reports  *)
(* success has left nothing behind.                                         *)
NextStage(stage) ==
    CASE stage = "plugins"  -> "global"
      [] stage = "global"   -> "desktops"
      [] stage = "desktops" -> "settle"

(* Mutant: a later owner's success hides an earlier owner's error. *)
ShutdownStageForgets(t, stage) ==
    /\ Goto(t, stage, NextStage(stage))
    /\ \E gone \in SUBSET (live \cap Owned(stage)), ok \in BOOLEAN :
         /\ ok => gone = live \cap Owned(stage)
         /\ live' = live \ gone
         /\ failed' = [failed EXCEPT ![t] = ~ok]
    /\ UNCHANGED <<phase, woken, req, attempt>> /\ Keep

ShutdownStage(t, stage) ==
    /\ Goto(t, stage, NextStage(stage))
    /\ \E gone \in SUBSET (live \cap Owned(stage)), ok \in BOOLEAN :
         /\ ok => gone = live \cap Owned(stage)
         /\ live' = live \ gone
         /\ failed' = [failed EXCEPT ![t] = @ \/ ~ok]
    /\ UNCHANGED <<phase, woken, req, attempt>> /\ Keep

(* What follows the shutdown: an error lowers the fence; an exit is         *)
(* authorized; an update stores its permit and stays fenced; the unattended *)
(* cleanup commits its permit or drops it and reports to its outer task.    *)
Settle(t) ==
    /\ pc[t] = "settle"
    /\ \/ /\ failed[t]
          /\ Goto(t, "settle",
                  IF req[t].kind = "unattended" THEN "release" ELSE "cancel")
          /\ UNCHANGED <<phase, updatePermit>>
       \/ /\ ~failed[t] /\ req[t].kind = "exit"
          /\ Goto(t, "settle", "commit")
          /\ phase' = "authorized"
          /\ UNCHANGED updatePermit
       \/ /\ ~failed[t] /\ req[t].kind = "update" /\ updatePermit = NoTask
          /\ Goto(t, "settle", "installing")
          /\ updatePermit' = t
          /\ UNCHANGED phase
       \/ /\ ~failed[t] /\ req[t].kind = "update" /\ updatePermit # NoTask
          /\ Goto(t, "settle", "cancel")
          /\ UNCHANGED <<phase, updatePermit>>
       \/ /\ ~failed[t] /\ req[t].kind = "unattended"
          /\ Goto(t, "settle", "commit")
          /\ UNCHANGED <<phase, updatePermit>>
    /\ UNCHANGED <<active, creator, woken, req, failed, attempt, live,
                   unattended, exited>>

(* cancel_cleanup: compare_exchange CLEANING -> IDLE. *)
LowerFence == phase' = IF phase = "cleaning" THEN "idle" ELSE phase

CancelCleanup(t) ==
    /\ Goto(t, "cancel", "release")
    /\ LowerFence
    /\ UNCHANGED <<woken, req, failed, attempt, live>> /\ Keep

(* Mutant: the permit has no Drop. *)
DropToolPermitLeaks(t) == UNCHANGED attempt

(* ToolWindowExitPermit::drop resets the attempt only if it is its own. *)
DropToolPermit(t) == attempt' = IF attempt = t THEN NoTask ELSE attempt

ReleasePermit(t) ==
    /\ Goto(t, "release", "idle")
    /\ DropToolPermit(t)
    /\ UNCHANGED <<phase, woken, req, failed, live>> /\ Keep

(* commit leaves the attempt pending for good; the command then returns. *)
CommitPermit(t) ==
    /\ Goto(t, "commit", "idle")
    /\ UNCHANGED <<phase, woken, req, failed, attempt, live>> /\ Keep

CleanerStep(t) ==
    \/ PrepareStart(t) \/ PrepareOk(t) \/ PrepareErr(t) \/ AuthCheck(t)
    \/ BeginCleanup(t) \/ ArmNotified(t) \/ CheckDrained(t) \/ AwaitDrained(t)
    \/ Recheck(t) \/ \E stage \in Stages : ShutdownStage(t, stage)
    \/ Settle(t) \/ CancelCleanup(t) \/ ReleasePermit(t) \/ CommitPermit(t)

TaskStep(t) ==
    /\ ~exited
    /\ \/ \E kind \in {"exit", "update"}, consent \in BOOLEAN :
            Request(t, kind, consent)
       \/ StartUnattended(t)
       \/ CleanerStep(t)

-----------------------------------------------------------------------------
(* The end of the process. *)

(* The outer task of exit_without_frontend: when the cleanup has ended, has *)
(* panicked or has not ended within UNATTENDED_EXIT_TIMEOUT, exit anyway.   *)
UnattendedAuthorize ==
    /\ ~exited
    /\ unattended = "running"
    /\ unattended' = "done"
    /\ phase' = "authorized"
    /\ UNCHANGED <<active, creator, woken, task, attempt, updatePermit, live,
                   exited>>

(* release_update_allow_relaunch *)
AllowRelaunch ==
    /\ ~exited
    /\ updatePermit # NoTask
    /\ phase' = "authorized"
    /\ UNCHANGED <<active, creator, woken, task, attempt, updatePermit, live,
                   unattended, exited>>

(* release_update_cancel_install: called by the frontend flow that fenced   *)
(* the update, when the installer reports that it did not replace the app.  *)
(* The stored permit is dropped; CancelCleanup then lowers the fence.       *)
CancelInstall(t) ==
    /\ ~exited /\ Android
    /\ Goto(t, "installing", "cancel")
    /\ updatePermit' = NoTask
    /\ attempt' = IF attempt = updatePermit THEN NoTask ELSE attempt
    /\ UNCHANGED <<gate, req, failed, live, unattended, exited>>

(* RunEvent::ExitRequested is prevented unless the exit is authorized. *)
ExitRequested ==
    /\ ~exited
    /\ phase = "authorized"
    /\ exited' = TRUE
    /\ UNCHANGED <<gate, task, attempt, updatePermit, live, unattended>>

(* A successful install replaces the process of a prepared update. *)
InstallReplacesProcess ==
    /\ ~exited
    /\ updatePermit # NoTask
    /\ exited' = TRUE
    /\ UNCHANGED <<gate, task, attempt, updatePermit, live, unattended>>

Exited == exited /\ UNCHANGED vars

Next ==
    \/ \E c \in Creators : CreatorStep(c)
    \/ ResourceEnds
    \/ \E t \in Tasks : TaskStep(t)
    \/ UnattendedAuthorize
    \/ AllowRelaunch
    \/ \E t \in Tasks : CancelInstall(t)
    \/ ExitRequested
    \/ InstallReplacesProcess
    \/ Exited

(* The runtime keeps polling tasks and commands: a creation command that    *)
(* has not got its permit yet and one that has dropped it go on, a cleanup  *)
(* goes on (ToolWindowExit::prepare and the unattended exit have a timeout  *)
(* of their own).  Nothing is assumed of a command that waits for an owner, *)
(* under a permit or in a stage of shutdown_all_resources: no timeout there *)
(* bounds the wait.  The user need never ask for anything and the event     *)
(* loop need never end.                                                     *)
Fairness ==
    /\ \A c \in Creators : WF_vars(creator[c] # "holding" /\ CreatorProgress(c))
    /\ \A t \in Tasks : WF_vars(~exited /\ pc[t] \notin Stages /\ CleanerStep(t))
    /\ WF_vars(UnattendedAuthorize)

Spec == Init /\ [][Next]_vars
FairSpec == Spec /\ Fairness

-----------------------------------------------------------------------------
(* Properties. *)

TypeOK ==
    /\ phase \in Phases
    /\ active \in Nat
    /\ creator \in [Creators -> CreatorPCs]
    /\ woken \subseteq Tasks
    /\ pc \in [Tasks -> TaskPCs]
    /\ req \in [Tasks -> [kind : Kinds, consent : BOOLEAN]]
    /\ failed \in [Tasks -> BOOLEAN]
    /\ attempt \in Tasks \cup {NoTask}
    /\ updatePermit \in Tasks \cup {NoTask}
    /\ live \subseteq Resources
    /\ unattended \in {"none", "running", "done"}
    /\ exited \in BOOLEAN

(* begin_cleanup has returned true to this exit or update and the fence is  *)
(* not yet lowered.  (The unattended exit also proceeds without the fence.) *)
Drained == {"recheck"} \cup Stages \cup {"settle", "installing"}

(* While an exit or update works behind a drained gate, no command holds a  *)
(* creation permit: the owners it shuts down cannot gain a resource.        *)
NoCreatorBehindFence ==
    \A t \in Tasks :
        pc[t] \in Drained /\ req[t].kind # "unattended"
            => /\ phase # "idle"
               /\ \A c \in Creators : creator[c] # "holding"

(* An exit or update the user did not allow to disconnect anything never    *)
(* ends a blocking resource, not even one created after its first snapshot. *)
ConsentRespected ==
    [][\A t \in Tasks :
         pc[t] \in Stages /\ pc'[t] # pc[t] /\ ~req[t].consent
            => Blockers(req[t].kind, live \ live') = {}]_vars

(* A single residual keeps the application alive: unless Android's          *)
(* unattended exit gave up waiting, the process ends with no live resource. *)
NothingLeftBehind == exited /\ unattended = "none" => live = {}

(* The tool-window fence outlives its command only when an update holds the *)
(* permit or the exit is under way: a failed or cancelled exit never leaves *)
(* tool windows fenced.                                                     *)
NoLeakedToolFence ==
    \A t \in Tasks :
        attempt = t /\ pc[t] = "idle" => phase = "authorized" \/ unattended # "none"

(* An authorized exit is never revoked, also not by another cleaner's       *)
(* cancel_cleanup that was already on its way.                              *)
AuthorizedIsFinal == [][phase = "authorized" => phase' = "authorized"]_vars

(* No command waits for an owner's answer for ever, neither a creation      *)
(* under its permit nor a cleanup in shutdown_all_resources.                *)
OwnersAnswer ==
    /\ \A c \in Creators : []<>(creator[c] # "holding")
    /\ \A t \in Tasks : []<>(pc[t] \notin Stages)

(* A raised fence is resolved: lowered again, turned into an authorized     *)
(* exit, or held by a prepared update waiting for the installer.  Only an   *)
(* owner that never answers can hold it up: no wakeup of begin_cleanup is   *)
(* lost, and every way out of a cleanup sees to the fence.                  *)
FenceResolved ==
    OwnersAnswer =>
        (phase = "cleaning" ~> (phase # "cleaning" \/ updatePermit # NoTask \/ exited))

(* The permit of ToolWindowExit::prepare, as its user holds it. *)
PermitStage ==
    IF attempt = NoTask THEN "free"
    ELSE IF pc[attempt] = "preparing" THEN "asking"
    ELSE IF pc[attempt] = "idle" THEN "committed"
    ELSE "granted"

Permit == INSTANCE ExitPermit WITH
    Editors <- {}, holder <- attempt, stage <- PermitStage, open <- {}

(* The commands use the tool-window permit as ToolWindowExit grants it: a   *)
(* permit is committed only by the task that was granted it, never taken    *)
(* back after that, and dropped on every other way out.                     *)
UsesPermit == Permit!Safe

-----------------------------------------------------------------------------
(* The inductive invariant behind the safety properties. *)

CountedCreators == {c \in Creators : creator[c] \in Counted}

(* The counter counts exactly the creators between fetch_add and fetch_sub. *)
CountInv == active = Cardinality(CountedCreators)

(* An exit or update whose compare_exchange raised the fence owns it until  *)
(* its cancel_cleanup or authorize_exit; there is one owner at a time.      *)
Fenced(t) ==
    /\ req[t].kind # "unattended"
    /\ pc[t] \in Draining \cup Drained \cup {"cancel"}

FenceInv ==
    /\ \A t \in Tasks : Fenced(t) => phase # "idle"
    /\ \A t, u \in Tasks : Fenced(t) /\ Fenced(u) => t = u

(* Behind the fence a task without consent has no blocker left to end; the *)
(* unattended exit needs none and never lowers the fence.                  *)
ConsentInv ==
    \A t \in Tasks :
        /\ req[t].kind = "unattended"
             => req[t].consent /\ unattended # "none" /\ pc[t] # "cancel"
        /\ pc[t] \in Stages /\ ~req[t].consent => CanExit(req[t].kind)

(* What a shutdown without an error so far has already cleared. *)
Cleared(p) ==
    CASE p = "global"                   -> PluginHosts
      [] p = "desktops"                 -> Resources \ Desktops
      [] p \in {"settle", "installing"} -> Resources
      [] OTHER                          -> {}

CleanInv ==
    \A t \in Tasks :
        req[t].kind # "unattended" /\ ~failed[t] => live \cap Cleared(pc[t]) = {}

(* A stored permit belongs to the update that waits for its installer. *)
PermitInv ==
    \A t \in Tasks :
        /\ pc[t] = "installing" => req[t].kind = "update" /\ ~failed[t]
        /\ updatePermit = t => pc[t] = "installing"

(* An authorized exit that is not Android's unattended one is clean. *)
AuthorizedInv ==
    phase = "authorized" /\ unattended = "none"
        => live = {} /\ \A c \in Creators : creator[c] # "holding"

(* The pending attempt is the one of the task that waits in prepare. *)
AttemptInv ==
    \A t \in Tasks :
        /\ pc[t] = "preparing" => attempt = t
        /\ pc[t] = "prepare" => attempt # t

ToolInv ==
    \A t \in Tasks :
        (attempt = t /\ pc[t] \in {"idle", "prepare"}) \/ pc[t] = "commit"
            => phase = "authorized" \/ unattended # "none"

IInv ==
    /\ TypeOK
    /\ CountInv
    /\ FenceInv
    /\ NoCreatorBehindFence
    /\ ConsentInv
    /\ CleanInv
    /\ PermitInv
    /\ AuthorizedInv
    /\ ToolInv
    /\ NothingLeftBehind

=============================================================================
