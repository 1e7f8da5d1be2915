--------------------------- MODULE ToolWindowExit ---------------------------
(***************************************************************************)
(* Tool windows and the draft check before the application exits:          *)
(* tool_window_open and the registry of src-tauri/src/tool_windows.rs,     *)
(* ToolWindowExit of src-tauri/src/tool_window_exit.rs, and the renderer's *)
(* half of the protocol in src/tool-window-exit.ts.                        *)
(*                                                                         *)
(* An exit task takes the permit (which fences tool_window_open), lists    *)
(* the live windows, asks every one of them and waits until all are gone,  *)
(* one refuses, or 120 seconds pass.  Each lock of a mutex is a step.      *)
(*                                                                         *)
(* A window's label is a fresh UUID, so a window is named by the call of   *)
(* tool_window_open that reserves its label.                               *)
(***************************************************************************)
EXTENDS Naturals, FiniteSets

CONSTANTS
    Openers,        \* calls of tool_window_open, and the labels they reserve
    TargetOf,       \* the ToolTarget each call is for
    Tasks,          \* calls of prepare (exit, update, unattended exit)
    MaxAttempts,    \* bound on the number of attempts
    NoTask

ASSUME ToolWindowAssumption ==
    /\ MaxAttempts \in Nat
    /\ NoTask \notin Tasks
    /\ IsFiniteSet(Openers)

VARIABLES
    opener,         \* where each call of tool_window_open is
    registry,       \* ToolWindows: reserved labels
    live,           \* windows the application manager knows
    attached,       \* windows whose on_destroyed callback is registered
    due,            \* destroyed windows whose callback has yet to run
    pc,             \* where each task is in prepare and with its permit
    labels,         \* the task's inventory, then the labels still to ask
    attempt,        \* PendingExit.attempt_id; 0 is None
    windows,        \* PendingExit.windows
    sender,         \* PendingExit.completion is Some
    result,         \* what the attempt's receiver has received
    attempts,       \* attempts made so far
    listening,      \* windows whose renderer has registered its listener
    mail,           \* tool-window-exit-requested events on their way
    current,        \* the renderer's attemptId; 0 is null
    handlers        \* the renderer's running handlers: [id, at]

pending == <<attempt, windows, sender, result>>
native == <<registry, live, attached, due>>
renderer == <<listening, mail, current, handlers>>
task == <<pc, labels, attempts>>
vars == <<opener, native, task, pending, renderer>>

Attempts == 1..MaxAttempts

OpenerPCs == {"idle", "checked", "opening", "opened", "kept", "dropping",
              "done", "refused"}
TaskPCs == {"idle", "snapshot", "filter", "publish", "asking", "waiting",
            "granted", "committed"}
HandlerPCs == {"deciding", "reply", "replied", "closing", "refuse"}

Init ==
    /\ opener = [o \in Openers |-> "idle"]
    /\ registry = {} /\ live = {} /\ attached = {} /\ due = {}
    /\ pc = [t \in Tasks |-> "idle"]
    /\ labels = [t \in Tasks |-> {}]
    /\ attempt = 0 /\ windows = {} /\ sender = FALSE /\ result = "empty"
    /\ attempts = 0
    /\ listening = {} /\ mail = {}
    /\ current = [w \in Openers |-> 0]
    /\ handlers = [w \in Openers |-> {}]

-----------------------------------------------------------------------------
(* ToolWindowExit under its mutex. *)

IsPreparing == attempt # 0

(* completion.take() and send. *)
Complete(approved) ==
    /\ sender' = FALSE
    /\ result' = IF sender THEN approved ELSE result

(* ToolWindowExit::destroyed; the label is of no window waited for, or its  *)
(* removal may be the last.                                                 *)
Destroyed(w) ==
    /\ windows' = windows \ {w}
    /\ IF w \in windows /\ windows = {w}
         THEN Complete("true")
         ELSE UNCHANGED <<sender, result>>
    /\ UNCHANGED attempt

(* ToolWindowExit::reply; only a refusal has an effect. *)
Reply(w, id, approved) ==
    /\ IF attempt = id /\ w \in windows /\ ~approved
         THEN Complete("false")
         ELSE UNCHANGED <<sender, result>>
    /\ UNCHANGED <<attempt, windows>>

(* Whether the command answers Ok: the registry is asked first. *)
ReplyAccepted(w, id) == w \in registry /\ attempt = id /\ w \in windows

Reset ==
    /\ attempt' = 0
    /\ windows' = {}
    /\ sender' = FALSE
    /\ result' = "empty"

(* A call that waited for the registry's mutex is refused there. *)
TellCore(w, id, approved) ==
    IF w \in registry THEN Reply(w, id, approved) ELSE UNCHANGED pending

-----------------------------------------------------------------------------
(* Windows of the platform. *)

(* A window takes its renderer with it. *)
RendererGone(w) ==
    /\ listening' = listening \ {w}
    /\ mail' = {e \in mail : e.to # w}
    /\ current' = [current EXCEPT ![w] = 0]
    /\ handlers' = [handlers EXCEPT ![w] = {}]

Remove(w) ==
    /\ w \in live
    /\ live' = live \ {w}
    /\ due' = due \cup ({w} \cap attached)
    /\ RendererGone(w)

-----------------------------------------------------------------------------
(* tool_window_open. *)

MoveOpener(o, from, to) ==
    /\ opener[o] = from
    /\ opener' = [opener EXCEPT ![o] = to]

(* The first look at the owner and at is_preparing. *)
OpenCheck(o) ==
    /\ \/ ~IsPreparing /\ MoveOpener(o, "idle", "checked")
       \/ MoveOpener(o, "idle", "refused")
    /\ UNCHANGED <<native, task, pending, renderer>>

(* Mutant: the label is reserved without looking for the target. *)
ReserveBlindly(o) ==
    /\ MoveOpener(o, "checked", "opening")
    /\ registry' = registry \cup {o}
    /\ UNCHANGED <<live, attached, due, task, pending, renderer>>

(* One lock of the registry: the window of the target is shown again, or a  *)
(* fresh label is reserved.                                                 *)
Reserve(o) ==
    /\ IF \E w \in registry : TargetOf[w] = TargetOf[o]
         THEN MoveOpener(o, "checked", "done") /\ UNCHANGED registry
         ELSE MoveOpener(o, "checked", "opening") /\ registry' = registry \cup {o}
    /\ UNCHANGED <<live, attached, due, task, pending, renderer>>

(* secure_surface::open; an error takes the reservation back. *)
OpenSurface(o) ==
    /\ \/ /\ MoveOpener(o, "opening", "opened")
          /\ live' = live \cup {o}
          /\ UNCHANGED registry
       \/ /\ MoveOpener(o, "opening", "refused")
          /\ registry' = registry \ {o}
          /\ UNCHANGED live
    /\ UNCHANGED <<attached, due, task, pending, renderer>>

(* Mutant: the fence is looked at only once, before the window is built. *)
SecondLookDropped(o) ==
    /\ MoveOpener(o, "opened", "kept")
    /\ UNCHANGED <<native, task, pending, renderer>>

(* The second look at the owner (it may have closed) and at is_preparing. *)
SecondLook(o) ==
    /\ \/ ~IsPreparing /\ MoveOpener(o, "opened", "kept")
       \/ MoveOpener(o, "opened", "dropping")
    /\ UNCHANGED <<native, task, pending, renderer>>

(* The refused window: unregister, then destroy it. *)
DropUnregister(o) ==
    /\ opener[o] = "dropping" /\ o \in registry
    /\ registry' = registry \ {o}
    /\ UNCHANGED <<opener, live, attached, due, task, pending, renderer>>

DropDestroy(o) ==
    /\ o \notin registry
    /\ MoveOpener(o, "dropping", "refused")
    /\ live' = live \ {o}
    /\ RendererGone(o)
    /\ UNCHANGED <<registry, attached, due, task, pending>>

(* on_destroyed; on a window that is already gone it is never called. *)
Attach(o) ==
    /\ MoveOpener(o, "kept", "done")
    /\ attached' = attached \cup ({o} \cap live)
    /\ UNCHANGED <<registry, live, due, task, pending, renderer>>

-----------------------------------------------------------------------------
(* The life of a window. *)

(* Closed by its user (its own draft dialog has been answered, or it has no *)
(* listener yet), by its save, or by the platform.                          *)
UserClose(w) ==
    /\ Remove(w)
    /\ UNCHANGED <<opener, registry, attached, task, pending>>

(* The on_destroyed callback; both locks are held together. *)
OnDestroyed(w) ==
    /\ w \in due
    /\ due' = due \ {w}
    /\ registry' = registry \ {w}
    /\ Destroyed(w)
    /\ UNCHANGED <<opener, live, attached, task, renderer>>

-----------------------------------------------------------------------------
(* ToolWindowExit::prepare and its permit. *)

MoveTask(t, from, to) ==
    /\ pc[t] = from
    /\ pc' = [pc EXCEPT ![t] = to]

(* start(empty); a pending attempt is an error. *)
Start(t) ==
    /\ attempt = 0 /\ attempts < MaxAttempts
    /\ MoveTask(t, "idle", "snapshot")
    /\ attempts' = attempts + 1
    /\ attempt' = attempts'
    /\ windows' = {} /\ sender' = FALSE /\ result' = "empty"
    /\ UNCHANGED <<opener, native, labels, renderer>>

Snapshot(t) ==
    /\ MoveTask(t, "snapshot", "filter")
    /\ labels' = [labels EXCEPT ![t] = live]
    /\ UNCHANGED <<opener, native, attempts, pending, renderer>>

Filter(t) ==
    /\ MoveTask(t, "filter", "publish")
    /\ labels' = [labels EXCEPT ![t] = @ \cap registry]
    /\ UNCHANGED <<opener, native, attempts, pending, renderer>>

(* The second lock: the inventory becomes what the attempt waits for. *)
Publish(t) ==
    /\ MoveTask(t, "publish", "asking")
    /\ windows' = labels[t]
    /\ sender' = (labels[t] # {})
    /\ result' = IF labels[t] = {} THEN "true" ELSE "empty"
    /\ UNCHANGED <<opener, native, labels, attempts, attempt, renderer>>

NextLabel(t, w) ==
    /\ pc[t] = "asking" /\ w \in labels[t]
    /\ labels' = [labels EXCEPT ![t] = @ \ {w}]

(* Mutant: a window that is gone is passed over. *)
AskGoneForgotten(t, w) ==
    /\ NextLabel(t, w)
    /\ w \notin live
    /\ UNCHANGED <<opener, native, pc, attempts, pending, renderer>>

(* A window that is gone by now counts as destroyed. *)
AskGone(t, w) ==
    /\ NextLabel(t, w)
    /\ w \notin live
    /\ Destroyed(w)
    /\ UNCHANGED <<opener, native, pc, attempts, renderer>>

(* A live window gets the event; without a listener nobody hears it. *)
AskLive(t, w) ==
    /\ NextLabel(t, w)
    /\ w \in live
    /\ mail' = mail \cup ({[to |-> w, id |-> attempt]} \cap [to : listening, id : Attempts])
    /\ UNCHANGED <<opener, native, pc, attempts, pending, listening, current, handlers>>

(* Drop of an uncommitted permit. *)
GiveUp(t, from) ==
    /\ MoveTask(t, from, "idle")
    /\ labels' = [labels EXCEPT ![t] = {}]
    /\ Reset
    /\ UNCHANGED <<opener, native, attempts, renderer>>

(* A window that is not revealed, or a failed show or emit, ends prepare. *)
AskFailed(t) ==
    /\ labels[t] \cap live # {}
    /\ GiveUp(t, "asking")

AskedAll(t) ==
    /\ labels[t] = {}
    /\ MoveTask(t, "asking", "waiting")
    /\ UNCHANGED <<opener, native, labels, attempts, pending, renderer>>

Granted(t) ==
    /\ result = "true"
    /\ MoveTask(t, "waiting", "granted")
    /\ UNCHANGED <<opener, native, labels, attempts, pending, renderer>>

Refused(t) ==
    /\ result = "false"
    /\ GiveUp(t, "waiting")

(* The 120 seconds of prepare, or the shorter limit of the unattended exit. *)
TimedOut(t) ==
    /\ result = "empty"
    /\ GiveUp(t, "waiting")

(* The command fails later on, or the process exit is dispatched. *)
Abandon(t) == GiveUp(t, "granted")

Commit(t) ==
    /\ MoveTask(t, "granted", "committed")
    /\ UNCHANGED <<opener, native, labels, attempts, pending, renderer>>

-----------------------------------------------------------------------------
(* The renderer's controller, registerToolWindowExit. *)

Run(w, h, at) ==
    handlers' = [handlers EXCEPT ![w] = (@ \ {h}) \cup {[h EXCEPT !.at = at]}]
Finish(w, h) == handlers' = [handlers EXCEPT ![w] = @ \ {h}]

(* keepOpen: the refusal of whatever attempt the renderer knows by now. *)
KeepOpen(w, others) ==
    /\ current' = [current EXCEPT ![w] = 0]
    /\ handlers' = [handlers EXCEPT ![w] =
           others \cup (IF current[w] = 0 THEN {}
                        ELSE {[id |-> current[w], at |-> "refuse"]})]

Listen(w) ==
    /\ w \in live \ listening
    /\ listening' = listening \cup {w}
    /\ UNCHANGED <<opener, native, task, pending, mail, current, handlers>>

(* Events reach a window in the order they were emitted. *)
Delivered(w, id) ==
    /\ w \in live
    /\ [to |-> w, id |-> id] \in mail
    /\ \A e \in mail : e.to = w => id <= e.id
    /\ mail' = mail \ {[to |-> w, id |-> id]}

(* Mutant: a renderer whose decision is open does not take the new attempt. *)
ReceiveOnce(w, id) ==
    /\ Delivered(w, id)
    /\ \/ /\ \E h \in handlers[w] : h.at = "deciding"
          /\ UNCHANGED <<current, handlers>>
       \/ /\ \A h \in handlers[w] : h.at # "deciding"
          /\ current' = [current EXCEPT ![w] = id]
          /\ handlers' = [handlers EXCEPT ![w] = @ \cup {[id |-> id, at |-> "deciding"]}]
       \/ /\ current' = [current EXCEPT ![w] = 0]
          /\ handlers' = [handlers EXCEPT ![w] = @ \cup {[id |-> id, at |-> "refuse"]}]
    /\ UNCHANGED <<opener, native, task, pending, listening>>

(* The event arrives; a busy editor refuses at once. *)
Receive(w, id) ==
    /\ Delivered(w, id)
    /\ \/ /\ current' = [current EXCEPT ![w] = id]
          /\ handlers' = [handlers EXCEPT ![w] = @ \cup {[id |-> id, at |-> "deciding"]}]
       \/ /\ current' = [current EXCEPT ![w] = 0]
          /\ handlers' = [handlers EXCEPT ![w] = @ \cup {[id |-> id, at |-> "refuse"]}]
    /\ UNCHANGED <<opener, native, task, pending, listening>>

(* The user decides; every handler that waited shares the decision, and     *)
(* only the one of the latest attempt goes on.                              *)
Decide(w, approved) ==
    LET waiting == {h \in handlers[w] : h.at = "deciding"}
        latest  == {h \in waiting : h.id = current[w]}
    IN  /\ w \in live /\ waiting # {}
        /\ IF approved
             THEN /\ handlers' = [handlers EXCEPT ![w] = (@ \ waiting) \cup
                                    {[h EXCEPT !.at = "reply"] : h \in latest}]
                  /\ UNCHANGED current
             ELSE \/ latest # {} /\ KeepOpen(w, handlers[w] \ waiting)
                  \/ /\ handlers' = [handlers EXCEPT ![w] = @ \ waiting]
                     /\ UNCHANGED current
        /\ UNCHANGED <<opener, native, task, pending, listening, mail>>

(* An event-driven confirmation that stayed visible is dismissed.  (Its     *)
(* other answer is the user's own close.)                                   *)
Dismiss(w) ==
    /\ w \in live /\ current[w] # 0
    /\ KeepOpen(w, handlers[w])
    /\ UNCHANGED <<opener, native, task, pending, listening, mail>>

(* The approval reaches the Core; an error ends in keepOpen. *)
SendApproval(w, h) ==
    /\ w \in live /\ h \in handlers[w] /\ h.at = "reply"
    /\ TellCore(w, h.id, TRUE)
    /\ IF ReplyAccepted(w, h.id)
         THEN Run(w, h, "replied") /\ UNCHANGED current
         ELSE KeepOpen(w, handlers[w] \ {h})
    /\ UNCHANGED <<opener, native, task, listening, mail>>

(* Back from the Core: the window closes unless a newer attempt is known. *)
Approved(w, h) ==
    /\ w \in live /\ h \in handlers[w] /\ h.at = "replied"
    /\ IF current[w] = h.id THEN Run(w, h, "closing") ELSE Finish(w, h)
    /\ UNCHANGED <<opener, native, task, pending, listening, mail, current>>

(* tool_window_close destroys a registered window; another is an error. *)
CloseApproved(w, h) ==
    /\ w \in live /\ h \in handlers[w] /\ h.at = "closing"
    /\ IF w \in registry
         THEN Remove(w)
         ELSE KeepOpen(w, handlers[w] \ {h}) /\ UNCHANGED <<live, due, listening, mail>>
    /\ UNCHANGED <<opener, registry, attached, task, pending>>

SendRefusal(w, h) ==
    /\ w \in live /\ h \in handlers[w] /\ h.at = "refuse"
    /\ TellCore(w, h.id, FALSE)
    /\ Finish(w, h)
    /\ UNCHANGED <<opener, native, task, listening, mail, current>>

-----------------------------------------------------------------------------
OpenerStep(o) ==
    \/ OpenCheck(o) \/ Reserve(o) \/ OpenSurface(o) \/ SecondLook(o)
    \/ DropUnregister(o) \/ DropDestroy(o) \/ Attach(o)

PrepareStep(t) ==
    \/ Snapshot(t) \/ Filter(t) \/ Publish(t)
    \/ \E w \in Openers : AskGone(t, w) \/ AskLive(t, w)
    \/ AskFailed(t) \/ AskedAll(t)
    \/ Granted(t) \/ Refused(t) \/ TimedOut(t)

PermitStep(t) == Abandon(t) \/ Commit(t)

RendererStep(w) ==
    \/ Listen(w)
    \/ \E id \in Attempts : Receive(w, id)
    \/ \E approved \in BOOLEAN : Decide(w, approved)
    \/ Dismiss(w)
    \/ \E h \in handlers[w] :
         SendApproval(w, h) \/ Approved(w, h) \/ CloseApproved(w, h) \/ SendRefusal(w, h)

Next ==
    \/ \E o \in Openers : OpenerStep(o) \/ UserClose(o) \/ OnDestroyed(o) \/ RendererStep(o)
    \/ \E t \in Tasks : Start(t) \/ PrepareStep(t) \/ PermitStep(t)

(* The runtime runs every spawned command and callback; nobody has to close *)
(* a window or to answer.  A granted permit is committed or dropped.        *)
Fairness ==
    /\ \A t \in Tasks : WF_vars(PrepareStep(t)) /\ WF_vars(PermitStep(t))
    /\ \A o \in Openers :
         WF_vars(opener[o] # "idle" /\ OpenerStep(o)) /\ WF_vars(OnDestroyed(o))

Spec == Init /\ [][Next]_vars
FairSpec == Spec /\ Fairness

-----------------------------------------------------------------------------
TypeOK ==
    /\ opener \in [Openers -> OpenerPCs]
    /\ registry \subseteq Openers /\ live \subseteq Openers
    /\ attached \subseteq Openers /\ due \subseteq attached \ live
    /\ pc \in [Tasks -> TaskPCs]
    /\ labels \in [Tasks -> SUBSET Openers]
    /\ attempt \in 0..MaxAttempts /\ attempts \in 0..MaxAttempts
    /\ windows \subseteq Openers
    /\ sender \in BOOLEAN /\ result \in {"empty", "true", "false"}
    /\ listening \subseteq Openers
    /\ mail \subseteq [to : Openers, id : Attempts]
    /\ current \in [Openers -> 0..MaxAttempts]
    /\ handlers \in [Openers -> SUBSET [id : Attempts, at : HandlerPCs]]

(* Two clicks on the same entry never give two editors of the same draft:   *)
(* the reservation in tool_window_open is one critical section.             *)
OneEditorPerTarget ==
    \A v, w \in live \cap registry : TargetOf[v] = TargetOf[w] => v = w

(* A prepare that waits can still be answered: every window it waits for    *)
(* has yet to be asked, is open, has its destruction callback due, or its   *)
(* opener can still see the fence; otherwise the answer is there.  The      *)
(* exception is a window that died before on_destroyed was attached.        *)
WaitIsAnswerable ==
    \A t \in Tasks : pc[t] = "waiting" /\ result = "empty" =>
        /\ sender /\ windows # {}
        /\ windows \cap attached \subseteq live \cup due

(* Secure_surface's promise for on_destroyed, "Runs `callback` once the     *)
(* surface is gone for any reason": a registered label whose opener is done *)
(* is a window that is open or whose callback is due.                       *)
CallbackCoversRegistry ==
    \A o \in registry : opener[o] = "done" => o \in live \cup due

(* Starting the attempt "fences window creation before taking the live      *)
(* inventory": no window that prepare waits for is one whose opener will    *)
(* still tear it down.                                                      *)
InventoryIsFenced ==
    \A o \in windows : opener[o] \notin {"opened", "dropping", "refused"}

(* The permit as lifecycle.rs sees it. *)
Holders == {t \in Tasks : pc[t] # "idle"}
Holder == IF Holders = {} THEN NoTask ELSE CHOOSE t \in Holders : TRUE
Stage ==
    CASE Holders = {}                         -> "free"
      [] \E t \in Tasks : pc[t] = "granted"   -> "granted"
      [] \E t \in Tasks : pc[t] = "committed" -> "committed"
      [] OTHER                                -> "asking"

(* Editors are the windows whose opener has seen that the fence was down. *)
OpenEditors == {o \in live : opener[o] \in {"kept", "done"}}

Permit == INSTANCE ExitPermit WITH
    Editors <- Openers, holder <- Holder, stage <- Stage, open <- OpenEditors

(* The promise to lifecycle.rs: prepare gives one permit at a time, only    *)
(* when no editor is left open, no editor opens while it is held, and it    *)
(* always returns.                                                          *)
PermitSpec == Permit!Spec

(* The renderer of w can still answer for the pending attempt: its event is *)
(* on its way, its controller holds the attempt, or an answer is under way. *)
Questioned(w) ==
    \/ [to |-> w, id |-> attempt] \in mail
    \/ current[w] = attempt
    \/ \E h \in handlers[w] : h.id = attempt

(* A timed-out attempt leaves its dialog, its event or its late reply in    *)
(* the renderer, and none of them uses up the question of the next attempt: *)
(* an editor that was asked keeps the question until the Core has the       *)
(* answer or the editor is gone.                                            *)
RetryIsHeard ==
    [][\A w \in windows' \cap live' \cap registry' :
         attempt # 0 /\ attempt' = attempt /\ result' = "empty" /\ Questioned(w)
            => Questioned(w)']_vars
=============================================================================
