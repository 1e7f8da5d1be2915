-------------------------- MODULE ToolWindowExitProofs --------------------------
(* Proofs about the tool windows and the exit permit of ToolWindowExit, for any   *)
(* set of windows, targets and tasks and any number of attempts.                  *)
EXTENDS ToolWindowExit, TLAPS

(* One task at a time is between Start and the drop of its permit, and the        *)
(* attempt is pending exactly then.                                               *)
OneHolder ==
    /\ \A t, u \in Tasks : pc[t] # "idle" /\ pc[u] # "idle" => t = u
    /\ attempt = 0 <=> \A t \in Tasks : pc[t] = "idle"

(* The registry holds one label for a target. *)
OneLabel == \A v, w \in registry : TargetOf[v] = TargetOf[w] => v = w

(* Where the window of an opener is, as far as the opener has come.               *)
Places ==
    \A o \in Openers :
        /\ opener[o] \in {"idle", "checked", "opening", "refused"} => o \notin live
        /\ opener[o] \in {"opening", "opened", "kept"} => o \in registry
        /\ opener[o] = "done" /\ o \in live => o \in registry
        /\ o \in attached => opener[o] = "done"

(* What task t has established: its inventory covers the open editors, then the   *)
(* windows waited for do; the one-shot channel is used up exactly when there is   *)
(* an answer; and a window waited for can still give one.                         *)
Answer(t) ==
    /\ pc[t] \in {"filter", "publish"} => OpenEditors \subseteq labels[t]
    /\ pc[t] \in {"asking", "waiting"} =>
          /\ sender <=> result = "empty"
          /\ sender => windows # {}
          /\ result = "true" => windows = {}
          /\ OpenEditors \subseteq windows
          /\ windows \cap attached \subseteq live \cup due \cup labels[t]
    /\ pc[t] = "waiting" => labels[t] = {}
    /\ pc[t] \in {"granted", "committed"} => OpenEditors = {}

IInv ==
    /\ TypeOK
    /\ OneHolder
    /\ OneLabel
    /\ Places
    /\ \A t \in Tasks : Answer(t)

(* The types of the Core's state and of the renderers'. *)
CoreTypes ==
    /\ opener \in [Openers -> OpenerPCs]
    /\ registry \subseteq Openers /\ live \subseteq Openers
    /\ attached \subseteq Openers /\ due \subseteq attached \ live
    /\ pc \in [Tasks -> TaskPCs]
    /\ labels \in [Tasks -> SUBSET Openers]
    /\ attempt \in 0..MaxAttempts /\ attempts \in 0..MaxAttempts
    /\ windows \subseteq Openers
    /\ sender \in BOOLEAN /\ result \in {"empty", "true", "false"}

RendererTypes ==
    /\ listening \subseteq Openers
    /\ mail \subseteq [to : Openers, id : Attempts]
    /\ current \in [Openers -> 0..MaxAttempts]
    /\ handlers \in [Openers -> SUBSET [id : Attempts, at : HandlerPCs]]

LEMMA Types == TypeOK <=> CoreTypes /\ RendererTypes
  BY DEF TypeOK, CoreTypes, RendererTypes

LEMMA TypesNext == TypeOK' <=> CoreTypes' /\ RendererTypes'
  BY DEF TypeOK, CoreTypes, RendererTypes

LEMMA Initially == Init => IInv
  <1> SUFFICES ASSUME Init PROVE IInv
    OBVIOUS
  <1>1. TypeOK
    <2>1. CoreTypes
      <3>1. opener \in [Openers -> OpenerPCs] /\ pc \in [Tasks -> TaskPCs]
        BY DEF Init, OpenerPCs, TaskPCs
      <3>2. labels \in [Tasks -> SUBSET Openers]
        BY DEF Init
      <3>3. attempt \in 0..MaxAttempts /\ attempts \in 0..MaxAttempts
        BY ToolWindowAssumption DEF Init
      <3>4. registry = {} /\ live = {} /\ attached = {} /\ due = {} /\ windows = {}
            /\ sender = FALSE /\ result = "empty"
        BY DEF Init
      <3> QED
        BY <3>1, <3>2, <3>3, <3>4 DEF CoreTypes
    <2>2. RendererTypes
      BY ToolWindowAssumption DEF Init, RendererTypes
    <2> QED
      BY <2>1, <2>2, Types
  <1>2. OneHolder /\ OneLabel /\ Places
    BY DEF Init, OneHolder, OneLabel, Places
  <1>3. \A t \in Tasks : Answer(t)
    BY DEF Init, Answer
  <1> QED
    BY <1>1, <1>2, <1>3 DEF IInv

--------------------------------------------------------------------------------
(* Steps that leave the tasks and the attempt alone. *)

(* What such a step may do to the windows: no editor opens during an attempt,     *)
(* and a window with its callback is not lost from sight.                         *)
Fenced ==
    /\ attempt # 0 => OpenEditors' \subseteq OpenEditors
    /\ \A w \in attached' :
          w \in live' \cup due' \/ (w \in attached /\ w \notin live \cup due)

LEMMA WindowsStep ==
    ASSUME IInv, UNCHANGED <<task, pending>>, Fenced,
           TypeOK', OneLabel', Places'
    PROVE  IInv'
  <1> USE DEF task, pending
  <1>1. OneHolder'
    BY DEF IInv, OneHolder
  <1>2. ASSUME NEW t \in Tasks PROVE Answer(t)'
    <2>1. CASE attempt = 0
      BY <2>1 DEF IInv, OneHolder, Answer
    <2>2. CASE attempt # 0
      <3>1. OpenEditors' \subseteq OpenEditors /\ Answer(t)
        BY <2>2 DEF Fenced, IInv
      <3>2. windows \cap attached \subseteq live \cup due \cup labels[t]
              => windows' \cap attached' \subseteq live' \cup due' \cup labels'[t]
        BY DEF Fenced
      <3> HIDE DEF OpenEditors
      <3> QED
        BY <3>1, <3>2 DEF Answer
    <2> QED
      BY <2>1, <2>2
  <1> QED
    BY <1>1, <1>2 DEF IInv

(* The renderers alone. *)
LEMMA RendererOnly ==
    ASSUME IInv, UNCHANGED <<opener, native, task, pending>>, RendererTypes'
    PROVE  IInv'
  <1> USE DEF native, task, pending
  <1>1. TypeOK'
    BY Types, TypesNext DEF IInv, CoreTypes
  <1>2. OneLabel' /\ Places'
    BY DEF IInv, OneLabel, Places
  <1>3. Fenced
    BY DEF Fenced, OpenEditors
  <1> QED
    BY <1>1, <1>2, <1>3, WindowsStep

(* A window goes and takes its renderer with it. *)
LEMMA GoneTypes ==
    ASSUME RendererTypes, NEW w \in Openers, RendererGone(w)
    PROVE  RendererTypes'
  BY ToolWindowAssumption DEF RendererTypes, RendererGone

LEMMA RemoveStep ==
    ASSUME IInv, NEW w \in Openers, Remove(w),
           UNCHANGED <<opener, registry, attached, task, pending>>
    PROVE  IInv' /\ OpenEditors' = OpenEditors \ {w}
  <1>1. TypeOK'
    <2>1. CoreTypes'
      BY Types DEF IInv, CoreTypes, Remove, task, pending
    <2> QED
      BY <2>1, Types, TypesNext, GoneTypes DEF IInv, Remove
  <1>2. OneLabel' /\ Places'
    BY DEF IInv, OneLabel, Places, Remove
  <1>3. OpenEditors' = OpenEditors \ {w}
    BY DEF OpenEditors, Remove
  <1>4. Fenced
    BY <1>3 DEF Fenced, Remove
  <1> QED
    BY <1>1, <1>2, <1>3, <1>4, WindowsStep

--------------------------------------------------------------------------------
(* The openers.  What every step of theirs, of the windows and of the renderers   *)
(* means for the permit: an editor opens while there is no attempt, or one        *)
(* closes, or nothing is seen.                                                    *)
Quiet ==
    /\ UNCHANGED pc
    /\ \/ OpenEditors' = OpenEditors
       \/ \E w \in Openers : OpenEditors' = OpenEditors \ {w}
       \/ attempt = 0 /\ \E w \in Openers : OpenEditors' = OpenEditors \cup {w}

LEMMA OpenCheckStep ==
    ASSUME IInv, NEW o \in Openers, OpenCheck(o)
    PROVE  IInv' /\ Quiet
  <1> USE DEF OpenCheck, MoveOpener, native, task, pending
  <1>1. PICK x \in {"checked", "refused"} :
            opener[o] = "idle" /\ opener' = [opener EXCEPT ![o] = x]
    OBVIOUS
  <1>2. TypeOK'
    <2>1. CoreTypes' /\ RendererTypes'
      BY <1>1, Types DEF IInv, CoreTypes, RendererTypes, OpenerPCs, renderer
    <2> QED
      BY <2>1, TypesNext
  <1>3. OneLabel' /\ Places'
    BY <1>1, Types DEF IInv, OneLabel, Places, CoreTypes
  <1>4. OpenEditors' = OpenEditors
    BY <1>1, Types DEF IInv, OpenEditors, CoreTypes
  <1>5. Fenced
    BY <1>4 DEF Fenced
  <1> QED
    BY <1>2, <1>3, <1>4, <1>5, WindowsStep DEF Quiet

LEMMA ReserveStep ==
    ASSUME IInv, NEW o \in Openers, Reserve(o)
    PROVE  IInv' /\ Quiet
  <1> USE DEF Reserve, MoveOpener, task, pending
  <1>1. PICK x \in {"opening", "done"} :
            opener[o] = "checked" /\ opener' = [opener EXCEPT ![o] = x]
    OBVIOUS
  <1>2. TypeOK'
    <2>1. CoreTypes' /\ RendererTypes'
      BY <1>1, Types DEF IInv, CoreTypes, RendererTypes, OpenerPCs, renderer
    <2> QED
      BY <2>1, TypesNext
  <1>3. OneLabel'
    BY DEF IInv, OneLabel
  <1>4. Places'
    BY Types DEF IInv, Places, CoreTypes
  <1>5. OpenEditors' = OpenEditors
    BY <1>1, Types DEF IInv, OpenEditors, CoreTypes, Places
  <1>6. Fenced
    BY <1>5 DEF Fenced
  <1> QED
    BY <1>2, <1>3, <1>4, <1>5, <1>6, WindowsStep DEF Quiet

LEMMA OpenSurfaceStep ==
    ASSUME IInv, NEW o \in Openers, OpenSurface(o)
    PROVE  IInv' /\ Quiet
  <1> USE DEF OpenSurface, MoveOpener, task, pending
  <1>1. PICK x \in {"opened", "refused"} :
            opener[o] = "opening" /\ opener' = [opener EXCEPT ![o] = x]
    OBVIOUS
  <1>2. o \notin attached /\ o \notin live
    BY <1>1 DEF IInv, Places
  <1>3. TypeOK'
    <2>1. CoreTypes' /\ RendererTypes'
      BY <1>1, <1>2, Types DEF IInv, CoreTypes, RendererTypes, OpenerPCs, renderer
    <2> QED
      BY <2>1, TypesNext
  <1>4. OneLabel'
    BY DEF IInv, OneLabel
  <1>5. Places'
    BY <1>2, Types DEF IInv, Places, CoreTypes
  <1>6. OpenEditors' = OpenEditors
    BY <1>1, <1>2, Types DEF IInv, OpenEditors, CoreTypes
  <1>7. Fenced
    BY <1>2, <1>6 DEF Fenced
  <1> QED
    BY <1>3, <1>4, <1>5, <1>6, <1>7, WindowsStep DEF Quiet

(* The fence: an opener keeps its window only when no attempt is pending. *)
LEMMA SecondLookStep ==
    ASSUME IInv, NEW o \in Openers, SecondLook(o)
    PROVE  IInv' /\ Quiet
  <1> USE DEF SecondLook, MoveOpener, native, task, pending
  <1>1. PICK x \in {"kept", "dropping"} :
            /\ opener[o] = "opened" /\ opener' = [opener EXCEPT ![o] = x]
            /\ x = "kept" => attempt = 0
    BY DEF IsPreparing
  <1>2. TypeOK'
    <2>1. CoreTypes' /\ RendererTypes'
      BY <1>1, Types DEF IInv, CoreTypes, RendererTypes, OpenerPCs, renderer
    <2> QED
      BY <2>1, TypesNext
  <1>3. OneLabel' /\ Places'
    BY <1>1, Types DEF IInv, OneLabel, Places, CoreTypes
  <1>4. CASE x = "kept"
    <2>1. OpenEditors' = OpenEditors \cup ({o} \cap live)
      BY <1>1, <1>4, Types DEF IInv, OpenEditors, CoreTypes
    <2>2. Fenced
      BY <1>1, <1>4 DEF Fenced
    <2>3. Quiet
      BY <1>1, <1>4, <2>1 DEF Quiet
    <2> QED
      BY <1>2, <1>3, <2>2, <2>3, WindowsStep
  <1>5. CASE x = "dropping"
    <2>1. OpenEditors' = OpenEditors
      BY <1>1, <1>5, Types DEF IInv, OpenEditors, CoreTypes
    <2>2. Fenced
      BY <2>1 DEF Fenced
    <2> QED
      BY <1>2, <1>3, <2>1, <2>2, WindowsStep DEF Quiet
  <1> QED
    BY <1>4, <1>5

LEMMA DropUnregisterStep ==
    ASSUME IInv, NEW o \in Openers, DropUnregister(o)
    PROVE  IInv' /\ Quiet
  <1> USE DEF DropUnregister, task, pending
  <1>1. TypeOK'
    <2>1. CoreTypes' /\ RendererTypes'
      BY Types DEF IInv, CoreTypes, RendererTypes, renderer
    <2> QED
      BY <2>1, TypesNext
  <1>2. OneLabel' /\ Places'
    BY DEF IInv, OneLabel, Places
  <1>3. OpenEditors' = OpenEditors
    BY DEF OpenEditors
  <1>4. Fenced
    BY <1>3 DEF Fenced
  <1> QED
    BY <1>1, <1>2, <1>3, <1>4, WindowsStep DEF Quiet

LEMMA DropDestroyStep ==
    ASSUME IInv, NEW o \in Openers, DropDestroy(o)
    PROVE  IInv' /\ Quiet
  <1> USE DEF DropDestroy, MoveOpener, task, pending
  <1>1. opener[o] = "dropping" /\ opener' = [opener EXCEPT ![o] = "refused"]
    OBVIOUS
  <1>2. o \notin attached
    BY <1>1 DEF IInv, Places
  <1>3. TypeOK'
    <2>1. CoreTypes'
      BY <1>1, Types DEF IInv, CoreTypes, OpenerPCs
    <2> QED
      BY <2>1, Types, TypesNext, GoneTypes DEF IInv
  <1>4. OneLabel' /\ Places'
    BY <1>1, <1>2, Types DEF IInv, OneLabel, Places, CoreTypes
  <1>5. OpenEditors' = OpenEditors
    BY <1>1, Types DEF IInv, OpenEditors, CoreTypes
  <1>6. Fenced
    BY <1>2, <1>5 DEF Fenced
  <1> QED
    BY <1>3, <1>4, <1>5, <1>6, WindowsStep DEF Quiet

LEMMA AttachStep ==
    ASSUME IInv, NEW o \in Openers, Attach(o)
    PROVE  IInv' /\ Quiet
  <1> USE DEF Attach, MoveOpener, task, pending
  <1>1. opener[o] = "kept" /\ opener' = [opener EXCEPT ![o] = "done"]
    OBVIOUS
  <1>2. TypeOK'
    <2>1. CoreTypes' /\ RendererTypes'
      BY <1>1, Types DEF IInv, CoreTypes, RendererTypes, OpenerPCs, renderer
    <2> QED
      BY <2>1, TypesNext
  <1>3. OneLabel' /\ Places'
    BY <1>1, Types DEF IInv, OneLabel, Places, CoreTypes
  <1>4. OpenEditors' = OpenEditors
    BY <1>1, Types DEF IInv, OpenEditors, CoreTypes
  <1>5. Fenced
    BY <1>4 DEF Fenced
  <1> QED
    BY <1>2, <1>3, <1>4, <1>5, WindowsStep DEF Quiet

LEMMA UserCloseStep ==
    ASSUME IInv, NEW w \in Openers, UserClose(w)
    PROVE  IInv' /\ Quiet
  BY RemoveStep DEF UserClose, Quiet, task

--------------------------------------------------------------------------------
(* A window that is gone leaves the attempt; the last one answers it. *)
LEMMA DestroyedAnswers ==
    ASSUME IInv, NEW w \in Openers, w \notin live, Destroyed(w),
           UNCHANGED <<opener, live, attached, pc>>, due \ {w} \subseteq due',
           \A t \in Tasks : labels[t] \ {w} \subseteq labels'[t] /\ labels'[t] \subseteq labels[t],
           NEW t \in Tasks, pc[t] \notin {"filter", "publish"}
    PROVE  Answer(t)'
  <1>1. OpenEditors' = OpenEditors /\ w \notin OpenEditors
    BY DEF OpenEditors
  <1>2. Answer(t)
    BY DEF IInv
  <1>3. sender \in BOOLEAN /\ result \in {"empty", "true", "false"} /\ windows' = windows \ {w}
    BY Types DEF IInv, CoreTypes, Destroyed
  <1>4. pc[t] \in {"asking", "waiting"} =>
            windows' \cap attached' \subseteq live' \cup due' \cup labels'[t]
    BY <1>2, <1>3 DEF Answer
  <1> HIDE DEF OpenEditors
  <1>5. CASE windows = {w}
    <2>1. sender' = FALSE /\ result' = IF sender THEN "true" ELSE result
      BY <1>5 DEF Destroyed, Complete
    <2>2. windows' = {}
      BY <1>3, <1>5
    <2> QED
      BY <1>1, <1>2, <1>3, <1>4, <1>5, <2>1, <2>2 DEF Answer
  <1>6. CASE windows # {w}
    <2>1. sender' = sender /\ result' = result
      BY <1>6 DEF Destroyed
    <2>2. windows # {} => windows' # {}
      BY <1>3, <1>6
    <2> QED
      BY <1>1, <1>2, <1>3, <1>4, <2>1, <2>2 DEF Answer
  <1> QED
    BY <1>5, <1>6

LEMMA OnDestroyedStep ==
    ASSUME IInv, NEW w \in Openers, OnDestroyed(w)
    PROVE  IInv' /\ Quiet
  <1> USE DEF OnDestroyed, task
  <1>1. w \notin live /\ opener[w] = "done"
    BY Types DEF IInv, CoreTypes, Places
  <1>2. TypeOK'
    <2>1. /\ windows' \subseteq Openers /\ attempt' = attempt
          /\ sender' \in BOOLEAN /\ result' \in {"empty", "true", "false"}
      BY Types DEF IInv, CoreTypes, Destroyed, Complete
    <2>2. CoreTypes' /\ RendererTypes'
      BY <2>1, Types DEF IInv, CoreTypes, RendererTypes, renderer
    <2> QED
      BY <2>2, TypesNext
  <1>3. OneHolder'
    BY DEF IInv, OneHolder, Destroyed
  <1>4. OneLabel' /\ Places'
    BY <1>1 DEF IInv, OneLabel, Places
  <1>5. OpenEditors' = OpenEditors
    BY DEF OpenEditors
  <1>6. ASSUME NEW t \in Tasks PROVE Answer(t)'
    <2>1. CASE pc[t] \in {"filter", "publish"}
      BY <1>5, <2>1 DEF IInv, Answer
    <2>2. CASE pc[t] \notin {"filter", "publish"}
      BY <1>1, <2>2, DestroyedAnswers
    <2> QED
      BY <2>1, <2>2
  <1> QED
    BY <1>2, <1>3, <1>4, <1>5, <1>6 DEF IInv, Quiet

--------------------------------------------------------------------------------
(* The tasks. *)

(* A task that moves, and the attempt with it, leaves the windows alone. *)
LEMMA TaskStep ==
    ASSUME IInv, NEW t \in Tasks, UNCHANGED <<opener, native>>,
           \A u \in Tasks : u # t => pc'[u] = pc[u], \A u \in Tasks : u # t => pc[u] = "idle",
           CoreTypes', RendererTypes',
           attempt' = 0 <=> pc'[t] = "idle", Answer(t)'
    PROVE  IInv'
  <1>1. OneLabel' /\ Places'
    BY DEF IInv, OneLabel, Places, native
  <1>2. OneHolder'
    BY DEF OneHolder
  <1>3. ASSUME NEW u \in Tasks, u # t PROVE Answer(u)'
    <2>1. pc'[u] = "idle"
      BY <1>3
    <2> QED
      BY <2>1 DEF Answer
  <1> QED
    BY <1>1, <1>2, <1>3, TypesNext DEF IInv

(* The holder of the attempt is alone. *)
LEMMA Alone ==
    ASSUME IInv, NEW t \in Tasks, pc[t] # "idle"
    PROVE  attempt # 0 /\ \A u \in Tasks : u # t => pc[u] = "idle"
  BY DEF IInv, OneHolder

LEMMA StartStep ==
    ASSUME IInv, NEW t \in Tasks, Start(t)
    PROVE  IInv'
  <1>1. pc[t] = "idle" /\ pc' = [pc EXCEPT ![t] = "snapshot"]
    BY DEF Start, MoveTask
  <1>2. pc'[t] = "snapshot" /\ \A u \in Tasks : pc[u] = "idle" /\ (u # t => pc'[u] = pc[u])
    BY <1>1, Types DEF IInv, CoreTypes, OneHolder, Start
  <1>3. attempts' \in 1..MaxAttempts /\ attempt' = attempts'
    BY ToolWindowAssumption, Types DEF Start, IInv, CoreTypes
  <1>4. CoreTypes' /\ RendererTypes'
    <2>1. pc' \in [Tasks -> TaskPCs]
      BY <1>1, Types DEF IInv, CoreTypes, TaskPCs
    <2>2. attempt' \in 0..MaxAttempts /\ attempts' \in 0..MaxAttempts
      BY <1>3, ToolWindowAssumption
    <2>3. windows' = {} /\ sender' = FALSE /\ result' = "empty"
      BY DEF Start
    <2> QED
      BY <2>1, <2>2, <2>3, Types DEF IInv, CoreTypes, RendererTypes, Start, native, renderer
  <1>5. Answer(t)'
    BY <1>2 DEF Answer
  <1>6. attempt' = 0 <=> pc'[t] = "idle"
    BY <1>2, <1>3, ToolWindowAssumption
  <1> QED
    BY <1>2, <1>4, <1>5, <1>6, TaskStep DEF Start

(* A move of the holder that keeps the attempt pending. *)
LEMMA HolderStep ==
    ASSUME IInv, NEW t \in Tasks, pc[t] # "idle", NEW x \in TaskPCs \ {"idle"},
           pc' = [pc EXCEPT ![t] = x], UNCHANGED <<opener, native, attempt, attempts>>,
           labels' \in [Tasks -> SUBSET Openers], windows' \subseteq Openers,
           sender' \in BOOLEAN, result' \in {"empty", "true", "false"},
           RendererTypes',
           pc'[t] = x => Answer(t)'
    PROVE  IInv'
  <1>1. pc'[t] = x /\ \A u \in Tasks : u # t => pc'[u] = pc[u]
    BY Types DEF IInv, CoreTypes
  <1>2. CoreTypes'
    BY Types DEF IInv, CoreTypes, native
  <1>3. attempt' = 0 <=> pc'[t] = "idle"
    BY <1>1, Alone
  <1> QED
    BY <1>1, <1>2, <1>3, Alone, TaskStep

(* The inventory is taken while the fence is up. *)
LEMMA SnapshotStep ==
    ASSUME IInv, NEW t \in Tasks, Snapshot(t)
    PROVE  IInv'
  <1> USE DEF Snapshot, MoveTask, pending
  <1>1. labels' \in [Tasks -> SUBSET Openers] /\ labels'[t] = live
    BY Types DEF IInv, CoreTypes
  <1>2. pc'[t] = "filter" => Answer(t)'
    BY <1>1 DEF Answer, OpenEditors, native
  <1>3. RendererTypes'
    BY Types DEF IInv, RendererTypes, renderer
  <1> QED
    BY <1>1, <1>2, <1>3, Types, HolderStep DEF IInv, CoreTypes, TaskPCs

(* The window of an open editor is registered. *)
LEMMA FilterStep ==
    ASSUME IInv, NEW t \in Tasks, Filter(t)
    PROVE  IInv'
  <1> USE DEF Filter, MoveTask, pending
  <1>1. labels' \in [Tasks -> SUBSET Openers] /\ labels'[t] = labels[t] \cap registry
    BY Types DEF IInv, CoreTypes
  <1>2. OpenEditors \subseteq registry
    BY Types DEF IInv, CoreTypes, Places, OpenEditors
  <1>3. OpenEditors' = OpenEditors /\ OpenEditors \subseteq labels[t]
    BY DEF IInv, Answer, OpenEditors, native
  <1>4. pc'[t] = "publish" => Answer(t)'
    BY <1>1, <1>2, <1>3 DEF Answer
  <1>5. RendererTypes'
    BY Types DEF IInv, RendererTypes, renderer
  <1> QED
    BY <1>1, <1>4, <1>5, Types, HolderStep DEF IInv, CoreTypes, TaskPCs

LEMMA PublishStep ==
    ASSUME IInv, NEW t \in Tasks, Publish(t)
    PROVE  IInv'
  <1> USE DEF Publish, MoveTask
  <1>1. labels[t] \subseteq Openers
    BY Types DEF IInv, CoreTypes
  <1>2. OpenEditors' = OpenEditors /\ OpenEditors \subseteq labels[t]
    BY DEF IInv, Answer, OpenEditors, native
  <1>3. pc'[t] = "asking" => Answer(t)'
    BY <1>2 DEF Answer
  <1>4. RendererTypes'
    BY Types DEF IInv, RendererTypes, renderer
  <1> QED
    BY <1>1, <1>3, <1>4, Types, HolderStep DEF IInv, CoreTypes, TaskPCs

LEMMA AskGoneStep ==
    ASSUME IInv, NEW t \in Tasks, NEW w \in Openers, AskGone(t, w)
    PROVE  IInv'
  <1> USE DEF AskGone, NextLabel
  <1>1. /\ labels' \in [Tasks -> SUBSET Openers] /\ labels'[t] = labels[t] \ {w}
        /\ \A u \in Tasks : u # t => labels'[u] = labels[u]
    BY Types DEF IInv, CoreTypes
  <1>2. /\ windows' \subseteq Openers /\ attempt' = attempt
        /\ sender' \in BOOLEAN /\ result' \in {"empty", "true", "false"}
    BY Types DEF IInv, CoreTypes, Destroyed, Complete
  <1>3. Answer(t)'
    BY <1>1, DestroyedAnswers DEF native
  <1>4. RendererTypes'
    BY Types DEF IInv, RendererTypes, renderer
  <1>5. pc' = [pc EXCEPT ![t] = "asking"]
    BY Types DEF IInv, CoreTypes
  <1> QED
    BY <1>1, <1>2, <1>3, <1>4, <1>5, HolderStep DEF TaskPCs

LEMMA AskLiveStep ==
    ASSUME IInv, NEW t \in Tasks, NEW w \in Openers, AskLive(t, w)
    PROVE  IInv'
  <1> USE DEF AskLive, NextLabel, pending
  <1>1. labels' \in [Tasks -> SUBSET Openers] /\ labels'[t] = labels[t] \ {w}
    BY Types DEF IInv, CoreTypes
  <1>2. Answer(t)'
    <2>1. OpenEditors' = OpenEditors /\ Answer(t)
      BY DEF OpenEditors, native, IInv
    <2>2. windows' \cap attached' \subseteq live' \cup due' \cup labels'[t]
      BY <1>1, <2>1 DEF Answer, native
    <2> HIDE DEF OpenEditors
    <2> QED
      BY <2>1, <2>2 DEF Answer
  <1>3. RendererTypes'
    BY Types DEF IInv, RendererTypes
  <1>4. pc' = [pc EXCEPT ![t] = "asking"]
    BY Types DEF IInv, CoreTypes
  <1> QED
    BY <1>1, <1>2, <1>3, <1>4, Types, HolderStep DEF IInv, CoreTypes, TaskPCs

LEMMA AskedAllStep ==
    ASSUME IInv, NEW t \in Tasks, AskedAll(t)
    PROVE  IInv'
  <1> USE DEF AskedAll, MoveTask, pending
  <1>1. OpenEditors' = OpenEditors /\ Answer(t)
    BY DEF OpenEditors, native, IInv
  <1>2. pc'[t] = "waiting" => Answer(t)'
    BY <1>1 DEF Answer, native
  <1>3. RendererTypes'
    BY Types DEF IInv, RendererTypes, renderer
  <1> QED
    BY <1>2, <1>3, Types, HolderStep DEF IInv, CoreTypes, TaskPCs

(* Nothing is waited for any more, so no editor is open. *)
LEMMA GrantedStep ==
    ASSUME IInv, NEW t \in Tasks, Granted(t)
    PROVE  IInv' /\ OpenEditors = {}
  <1> USE DEF Granted, MoveTask, pending
  <1>1. OpenEditors' = OpenEditors /\ OpenEditors = {}
    BY DEF OpenEditors, native, IInv, Answer
  <1>2. pc'[t] = "granted" => Answer(t)'
    BY <1>1 DEF Answer
  <1>3. RendererTypes'
    BY Types DEF IInv, RendererTypes, renderer
  <1> QED
    BY <1>1, <1>2, <1>3, Types, HolderStep DEF IInv, CoreTypes, TaskPCs

LEMMA CommitStep ==
    ASSUME IInv, NEW t \in Tasks, Commit(t)
    PROVE  IInv'
  <1> USE DEF Commit, MoveTask, pending
  <1>1. OpenEditors' = OpenEditors /\ OpenEditors = {}
    BY DEF OpenEditors, native, IInv, Answer
  <1>2. pc'[t] = "committed" => Answer(t)'
    BY <1>1 DEF Answer
  <1>3. RendererTypes'
    BY Types DEF IInv, RendererTypes, renderer
  <1> QED
    BY <1>2, <1>3, Types, HolderStep DEF IInv, CoreTypes, TaskPCs

(* A permit that is dropped takes the attempt with it. *)
LEMMA GiveUpStep ==
    ASSUME IInv, NEW t \in Tasks, NEW from \in TaskPCs \ {"idle"}, GiveUp(t, from)
    PROVE  IInv'
  <1> USE DEF GiveUp, MoveTask, Reset
  <1>1. pc' = [pc EXCEPT ![t] = "idle"] /\ pc[t] # "idle"
    OBVIOUS
  <1>2. pc'[t] = "idle" /\ \A u \in Tasks : u # t => pc'[u] = pc[u]
    BY <1>1, Types DEF IInv, CoreTypes
  <1>3. CoreTypes' /\ RendererTypes'
    <2>1. labels' \in [Tasks -> SUBSET Openers] /\ pc' \in [Tasks -> TaskPCs]
      BY <1>1, Types DEF IInv, CoreTypes, TaskPCs
    <2>2. /\ attempt' \in 0..MaxAttempts /\ windows' = {}
          /\ sender' = FALSE /\ result' = "empty"
      BY ToolWindowAssumption
    <2> QED
      BY <2>1, <2>2, Types DEF IInv, CoreTypes, RendererTypes, native, renderer
  <1>4. Answer(t)'
    BY <1>2 DEF Answer
  <1> QED
    BY <1>1, <1>2, <1>3, <1>4, Alone, TaskStep

--------------------------------------------------------------------------------
(* The renderers. *)
Handler == [id : Attempts, at : HandlerPCs]

LEMMA HandlerMoves ==
    ASSUME NEW h \in Handler, NEW x \in HandlerPCs
    PROVE  [h EXCEPT !.at = x] \in Handler
  BY DEF Handler

(* keepOpen leaves handlers that were there, and perhaps a refusal. *)
LEMMA KeepOpenTypes ==
    ASSUME RendererTypes, NEW w \in Openers, NEW others, others \subseteq handlers[w],
           KeepOpen(w, others)
    PROVE  /\ current' \in [Openers -> 0..MaxAttempts]
           /\ handlers' \in [Openers -> SUBSET Handler]
  <1>1. current[w] # 0 => current[w] \in Attempts
    BY ToolWindowAssumption DEF RendererTypes, Attempts
  <1>2. current' \in [Openers -> 0..MaxAttempts]
    BY ToolWindowAssumption DEF RendererTypes, KeepOpen
  <1>3. others \cup (IF current[w] = 0 THEN {} ELSE {[id |-> current[w], at |-> "refuse"]})
            \in SUBSET Handler
    BY <1>1 DEF RendererTypes, Handler, HandlerPCs
  <1> QED
    BY <1>2, <1>3 DEF RendererTypes, KeepOpen, Handler

(* A change of handlers and current only. *)
LEMMA RendererFields ==
    ASSUME RendererTypes, UNCHANGED listening, mail' \subseteq mail,
           current' \in [Openers -> 0..MaxAttempts],
           handlers' \in [Openers -> SUBSET Handler]
    PROVE  RendererTypes'
  BY DEF RendererTypes, Handler

LEMMA ListenStep ==
    ASSUME IInv, NEW w \in Openers, Listen(w)
    PROVE  IInv' /\ Quiet
  <1>1. RendererTypes'
    BY Types DEF IInv, RendererTypes, Listen
  <1>2. OpenEditors' = OpenEditors
    BY DEF OpenEditors, Listen, native
  <1> QED
    BY <1>1, <1>2, RendererOnly DEF Listen, Quiet, task

LEMMA ReceiveStep ==
    ASSUME IInv, NEW w \in Openers, NEW id \in Attempts, Receive(w, id)
    PROVE  IInv' /\ Quiet
  <1>1. RendererTypes
    BY Types DEF IInv
  <1>2. PICK x \in HandlerPCs :
            handlers' = [handlers EXCEPT ![w] = @ \cup {[id |-> id, at |-> x]}]
    BY DEF Receive, Delivered, HandlerPCs
  <1>3. handlers[w] \cup {[id |-> id, at |-> x]} \in SUBSET Handler
    BY <1>1 DEF RendererTypes, Handler
  <1>4. handlers' \in [Openers -> SUBSET Handler]
    BY <1>1, <1>2, <1>3 DEF RendererTypes, Handler
  <1>5. id \in 0..MaxAttempts /\ 0 \in 0..MaxAttempts
    BY ToolWindowAssumption DEF Attempts
  <1>6. current' \in [Openers -> 0..MaxAttempts]
    BY <1>1, <1>5 DEF RendererTypes, Receive, Delivered
  <1>7. RendererTypes'
    BY <1>1, <1>4, <1>6, RendererFields DEF Receive, Delivered
  <1>8. OpenEditors' = OpenEditors
    BY DEF OpenEditors, Receive, native
  <1> QED
    BY <1>7, <1>8, RendererOnly DEF Receive, Quiet, task

LEMMA DecideStep ==
    ASSUME IInv, NEW w \in Openers, NEW approved \in BOOLEAN, Decide(w, approved)
    PROVE  IInv' /\ Quiet
  <1> DEFINE waiting == {h \in handlers[w] : h.at = "deciding"}
             latest  == {h \in waiting : h.id = current[w]}
  <1>1. RendererTypes
    BY Types DEF IInv
  <1>2. UNCHANGED <<listening, mail>>
    BY DEF Decide
  <1>3. handlers[w] \subseteq Handler /\ latest \subseteq Handler
    BY <1>1 DEF RendererTypes, Handler
  <1>4. \/ /\ handlers' = [handlers EXCEPT ![w] = (@ \ waiting) \cup
                               {[h EXCEPT !.at = "reply"] : h \in latest}]
           /\ UNCHANGED current
        \/ KeepOpen(w, handlers[w] \ waiting)
        \/ handlers' = [handlers EXCEPT ![w] = @ \ waiting] /\ UNCHANGED current
    BY DEF Decide
  <1>5. RendererTypes'
    <2>1. CASE /\ handlers' = [handlers EXCEPT ![w] = (@ \ waiting) \cup
                                  {[h EXCEPT !.at = "reply"] : h \in latest}]
               /\ UNCHANGED current
      <3>1. "reply" \in HandlerPCs
        BY DEF HandlerPCs
      <3>2. {[h EXCEPT !.at = "reply"] : h \in latest} \subseteq Handler
        BY <1>3, <3>1, HandlerMoves
      <3>3. (handlers[w] \ waiting) \cup {[h EXCEPT !.at = "reply"] : h \in latest}
                \in SUBSET Handler
        BY <1>3, <3>2
      <3> HIDE DEF waiting, latest
      <3>4. handlers' \in [Openers -> SUBSET Handler]
        BY <1>1, <2>1, <3>3 DEF RendererTypes, Handler
      <3> QED
        BY <1>1, <1>2, <2>1, <3>4, RendererFields DEF RendererTypes
    <2>2. CASE KeepOpen(w, handlers[w] \ waiting)
      <3>1. handlers[w] \ waiting \subseteq handlers[w]
        OBVIOUS
      <3> HIDE DEF waiting
      <3> QED
        BY <1>1, <1>2, <2>2, <3>1, KeepOpenTypes, RendererFields
    <2>3. CASE handlers' = [handlers EXCEPT ![w] = @ \ waiting] /\ UNCHANGED current
      <3> HIDE DEF waiting
      <3>1. handlers' \in [Openers -> SUBSET Handler]
        BY <1>1, <2>3 DEF RendererTypes, Handler
      <3> QED
        BY <1>1, <1>2, <2>3, <3>1, RendererFields DEF RendererTypes
    <2> QED
      BY <1>4, <2>1, <2>2, <2>3
  <1>6. OpenEditors' = OpenEditors
    BY DEF OpenEditors, Decide, native
  <1> QED
    BY <1>5, <1>6, RendererOnly DEF Decide, Quiet, task

LEMMA DismissStep ==
    ASSUME IInv, NEW w \in Openers, Dismiss(w)
    PROVE  IInv' /\ Quiet
  <1>1. RendererTypes'
    BY Types, KeepOpenTypes, RendererFields DEF IInv, Dismiss
  <1>2. OpenEditors' = OpenEditors
    BY DEF OpenEditors, Dismiss, native
  <1> QED
    BY <1>1, <1>2, RendererOnly DEF Dismiss, Quiet, task

LEMMA RunTypes ==
    ASSUME RendererTypes, NEW w \in Openers, NEW h \in handlers[w], NEW x \in HandlerPCs,
           Run(w, h, x)
    PROVE  handlers' \in [Openers -> SUBSET Handler]
  <1>1. handlers[w] \subseteq Handler /\ [h EXCEPT !.at = x] \in Handler
    BY HandlerMoves DEF RendererTypes, Handler
  <1>2. (handlers[w] \ {h}) \cup {[h EXCEPT !.at = x]} \in SUBSET Handler
    BY <1>1
  <1> QED
    BY <1>2 DEF RendererTypes, Handler, Run

(* The approval changes nothing of the attempt. *)
LEMMA SendApprovalStep ==
    ASSUME IInv, NEW w \in Openers, NEW h \in handlers[w], SendApproval(w, h)
    PROVE  IInv' /\ Quiet
  <1>1. UNCHANGED pending
    BY DEF SendApproval, TellCore, Reply, pending
  <1>2. RendererTypes
    BY Types DEF IInv
  <1>3. UNCHANGED <<listening, mail>>
    BY DEF SendApproval
  <1>4. (Run(w, h, "replied") /\ UNCHANGED current) \/ KeepOpen(w, handlers[w] \ {h})
    BY DEF SendApproval
  <1>5. RendererTypes'
    <2>1. CASE Run(w, h, "replied") /\ UNCHANGED current
      <3>1. handlers' \in [Openers -> SUBSET Handler]
        BY <1>2, <2>1, RunTypes DEF HandlerPCs
      <3> QED
        BY <1>2, <1>3, <2>1, <3>1, RendererFields DEF RendererTypes
    <2>2. CASE KeepOpen(w, handlers[w] \ {h})
      BY <1>2, <1>3, <2>2, KeepOpenTypes, RendererFields
    <2> QED
      BY <1>4, <2>1, <2>2
  <1>6. OpenEditors' = OpenEditors
    BY DEF OpenEditors, SendApproval, native
  <1> QED
    BY <1>1, <1>5, <1>6, RendererOnly DEF SendApproval, Quiet, task

LEMMA ApprovedStep ==
    ASSUME IInv, NEW w \in Openers, NEW h \in handlers[w], Approved(w, h)
    PROVE  IInv' /\ Quiet
  <1>1. RendererTypes
    BY Types DEF IInv
  <1>2. UNCHANGED <<listening, mail, current>>
    BY DEF Approved
  <1>3. handlers' \in [Openers -> SUBSET Handler]
    <2>1. CASE Run(w, h, "closing")
      BY <1>1, <2>1, RunTypes DEF HandlerPCs
    <2>2. CASE Finish(w, h)
      BY <1>1, <2>2 DEF Finish, RendererTypes, Handler
    <2> QED
      BY <2>1, <2>2 DEF Approved
  <1>4. RendererTypes'
    BY <1>1, <1>2, <1>3, RendererFields DEF RendererTypes
  <1>5. OpenEditors' = OpenEditors
    BY DEF OpenEditors, Approved, native
  <1> QED
    BY <1>4, <1>5, RendererOnly DEF Approved, Quiet, task

LEMMA CloseApprovedStep ==
    ASSUME IInv, NEW w \in Openers, NEW h \in handlers[w], CloseApproved(w, h)
    PROVE  IInv' /\ Quiet
  <1>1. CASE Remove(w)
    BY <1>1, RemoveStep DEF CloseApproved, Quiet, task
  <1>2. CASE KeepOpen(w, handlers[w] \ {h}) /\ UNCHANGED <<live, due, listening, mail>>
    <2>1. RendererTypes'
      BY <1>2, Types, KeepOpenTypes, RendererFields DEF IInv
    <2>2. UNCHANGED <<opener, native, task, pending>>
      BY <1>2 DEF CloseApproved, native
    <2>3. OpenEditors' = OpenEditors
      BY <2>2 DEF OpenEditors, native
    <2> QED
      BY <2>1, <2>2, <2>3, RendererOnly DEF Quiet, task
  <1> QED
    BY <1>1, <1>2 DEF CloseApproved

(* A refusal answers the attempt, if it waits for this window and nobody has. *)
LEMMA SendRefusalStep ==
    ASSUME IInv, NEW w \in Openers, NEW h \in handlers[w], SendRefusal(w, h)
    PROVE  IInv' /\ Quiet
  <1>1. RendererTypes'
    BY Types, RendererFields DEF IInv, SendRefusal, Finish, RendererTypes, Handler
  <1>2. UNCHANGED <<opener, native, task, attempt, windows>>
    BY DEF SendRefusal, TellCore, Reply, pending
  <1>3. OpenEditors' = OpenEditors
    BY <1>2 DEF OpenEditors, native
  <1>4. CASE UNCHANGED <<sender, result>>
    BY <1>1, <1>2, <1>3, <1>4, RendererOnly DEF Quiet, task, pending
  <1>5. CASE w \in windows /\ Complete("false")
    <2>1. sender' = FALSE /\ result' = IF sender THEN "false" ELSE result
      BY <1>5 DEF Complete
    <2>2. TypeOK'
      BY <1>1, <1>2, <2>1, Types, TypesNext DEF IInv, CoreTypes, native, task
    <2>3. OneHolder' /\ OneLabel' /\ Places'
      BY <1>2 DEF IInv, OneHolder, OneLabel, Places, native, task
    <2>4. ASSUME NEW t \in Tasks PROVE Answer(t)'
      <3>1. Answer(t) /\ windows # {} /\ windows' = windows
        BY <1>2, <1>5 DEF IInv
      <3>2. pc'[t] = pc[t] /\ labels'[t] = labels[t] /\ UNCHANGED <<live, due, attached>>
        BY <1>2 DEF native, task
      <3>3. pc[t] \in {"asking", "waiting"} =>
                (sender' <=> result' = "empty") /\ ~sender' /\ result' # "true"
        BY <2>1, <3>1 DEF Answer
      <3> HIDE DEF OpenEditors
      <3> QED
        BY <1>3, <3>1, <3>2, <3>3 DEF Answer
    <2> QED
      BY <1>2, <1>3, <2>2, <2>3, <2>4 DEF IInv, Quiet, task
  <1> QED
    BY <1>2, <1>4, <1>5 DEF SendRefusal, TellCore, Reply, pending

--------------------------------------------------------------------------------
(* A step opens or closes an editor (Quiet), or moves a task and no window. *)
TaskMoves(t) ==
    /\ UNCHANGED OpenEditors
    /\ \/ Start(t) \/ UNCHANGED pc
       \/ pc[t] # "idle" /\ pc' = [pc EXCEPT ![t] = "idle"] /\ pc[t] # "committed"
       \/ /\ pc[t] \in {"snapshot", "filter", "publish", "asking"}
          /\ \E x \in {"filter", "publish", "asking", "waiting"} : pc' = [pc EXCEPT ![t] = x]
       \/ /\ pc[t] = "waiting" /\ pc' = [pc EXCEPT ![t] = "granted"] /\ OpenEditors = {}
       \/ pc[t] = "granted" /\ pc' = [pc EXCEPT ![t] = "committed"]

LEMMA NextPreserves ==
    ASSUME IInv, Next
    PROVE  IInv' /\ (Quiet \/ \E t \in Tasks : TaskMoves(t))
  <1>1. ASSUME NEW o \in Openers, OpenerStep(o) PROVE IInv' /\ Quiet
    BY <1>1, OpenCheckStep, ReserveStep, OpenSurfaceStep, SecondLookStep,
       DropUnregisterStep, DropDestroyStep, AttachStep DEF OpenerStep
  <1>2. ASSUME NEW w \in Openers, UserClose(w) \/ OnDestroyed(w) PROVE IInv' /\ Quiet
    BY <1>2, UserCloseStep, OnDestroyedStep
  <1>3. ASSUME NEW w \in Openers, RendererStep(w) PROVE IInv' /\ Quiet
    BY <1>3, ListenStep, ReceiveStep, DecideStep, DismissStep, SendApprovalStep,
       ApprovedStep, CloseApprovedStep, SendRefusalStep DEF RendererStep
  <1>4. ASSUME NEW t \in Tasks, Start(t) PROVE IInv' /\ TaskMoves(t)
    BY <1>4, StartStep DEF TaskMoves, Start, OpenEditors, native
  <1>5. ASSUME NEW t \in Tasks, PrepareStep(t) \/ PermitStep(t) PROVE IInv' /\ TaskMoves(t)
    <2>1. OpenEditors' = OpenEditors
      BY <1>5 DEF PrepareStep, PermitStep, Snapshot, Filter, Publish, AskGone, AskLive,
         AskFailed, AskedAll, Granted, Refused, TimedOut, Abandon, Commit, GiveUp,
         OpenEditors, native
    <2>2. CASE Snapshot(t) \/ Filter(t) \/ Publish(t) \/ AskedAll(t)
      BY <2>1, <2>2, SnapshotStep, FilterStep, PublishStep, AskedAllStep
      DEF Snapshot, Filter, Publish, AskedAll, MoveTask, TaskMoves
    <2>3. CASE \E w \in Openers : AskGone(t, w) \/ AskLive(t, w)
      BY <2>1, <2>3, AskGoneStep, AskLiveStep DEF AskGone, AskLive, TaskMoves
    <2>4. CASE \E from \in {"asking", "waiting", "granted"} : GiveUp(t, from)
      BY <2>1, <2>4, GiveUpStep DEF GiveUp, MoveTask, TaskMoves, TaskPCs
    <2>5. CASE Granted(t)
      BY <2>1, <2>5, GrantedStep DEF Granted, MoveTask, TaskMoves
    <2>6. CASE Commit(t)
      BY <2>1, <2>6, CommitStep DEF Commit, MoveTask, TaskMoves
    <2> QED
      BY <1>5, <2>2, <2>3, <2>4, <2>5, <2>6
      DEF PrepareStep, PermitStep, AskFailed, Refused, TimedOut, Abandon
  <1> QED
    BY <1>1, <1>2, <1>3, <1>4, <1>5 DEF Next

LEMMA Stuttering ==
    ASSUME IInv, UNCHANGED vars
    PROVE  IInv'
  <1>1. UNCHANGED <<opener, native, task, pending>> /\ RendererTypes'
    BY Types DEF IInv, vars, renderer, RendererTypes
  <1> QED
    BY <1>1, RendererOnly

(* IInv is inductive, for any set of windows and targets, any tasks and any       *)
(* number of attempts.                                                            *)
THEOREM Inductive == Spec => []IInv
  <1>1. IInv /\ [Next]_vars => IInv'
    BY NextPreserves, Stuttering
  <1> QED
    BY <1>1, Initially, PTL DEF Spec

(* The registry, the attempt under ToolWindowExit's mutex and the renderers keep  *)
(* their types.                                                                   *)
THEOREM TypeCorrect == Spec => []TypeOK
  <1>1. IInv => TypeOK
    BY DEF IInv
  <1> QED
    BY <1>1, Inductive, PTL

(* However many calls of tool_window_open race, a target has one editor.          *)
THEOREM OneEditorPerTargetHolds == Spec => []OneEditorPerTarget
  <1>1. IInv => OneEditorPerTarget
    BY DEF IInv, OneLabel, OneEditorPerTarget
  <1> QED
    BY <1>1, Inductive, PTL

(* A prepare that waits has a sender that can answer it, and every window with a  *)
(* destruction callback that it waits for is open or has the callback due.        *)
THEOREM WaitIsAnswerableHolds == Spec => []WaitIsAnswerable
  <1>1. IInv => WaitIsAnswerable
    BY DEF IInv, Answer, WaitIsAnswerable
  <1> QED
    BY <1>1, Inductive, PTL

--------------------------------------------------------------------------------
(* The permit. *)

(* Who holds it, and how far: before a step ... *)
LEMMA HeldBy ==
    ASSUME IInv, NEW t \in Tasks, pc[t] # "idle"
    PROVE  /\ Holder = t
           /\ Stage = IF pc[t] \in {"granted", "committed"} THEN pc[t] ELSE "asking"
  <1>1. Holders = {t}
    BY Alone DEF Holders
  <1>2. Holder = t
    BY <1>1 DEF Holder
  <1>3. \A u \in Tasks : pc[u] # "idle" => u = t
    BY Alone
  <1> HIDE DEF Holders
  <1> QED
    BY <1>1, <1>2, <1>3 DEF Stage

(* ... and after it. *)
LEMMA HeldByNext ==
    ASSUME IInv', NEW t \in Tasks, pc'[t] # "idle"
    PROVE  /\ Holder' = t
           /\ Stage' = IF pc'[t] \in {"granted", "committed"} THEN pc'[t] ELSE "asking"
  <1>1. \A u \in Tasks : pc'[u] # "idle" => u = t
    BY DEF IInv, OneHolder
  <1>2. Holders' = {t}
    BY <1>1 DEF Holders
  <1>3. Holder' = t
    BY <1>2 DEF Holder
  <1> HIDE DEF Holders
  <1> QED
    BY <1>1, <1>2, <1>3 DEF Stage

LEMMA Free ==
    ASSUME \A t \in Tasks : pc[t] = "idle"
    PROVE  Holder = NoTask /\ Stage = "free"
  <1>1. Holders = {}
    BY DEF Holders
  <1>2. ~ \E t \in Tasks : pc[t] \in {"granted", "committed"}
    OBVIOUS
  <1> HIDE DEF Holders
  <1> QED
    BY <1>1, <1>2 DEF Holder, Stage

LEMMA FreeNext ==
    ASSUME \A t \in Tasks : pc'[t] = "idle"
    PROVE  Holder' = NoTask /\ Stage' = "free"
  <1>1. Holders' = {}
    BY DEF Holders
  <1>2. ~ \E t \in Tasks : pc'[t] \in {"granted", "committed"}
    OBVIOUS
  <1> HIDE DEF Holders
  <1> QED
    BY <1>1, <1>2 DEF Holder, Stage

LEMMA SameStage ==
    ASSUME UNCHANGED pc
    PROVE  Holder' = Holder /\ Stage' = Stage
  <1>1. Holders' = Holders
    BY DEF Holders
  <1> QED
    BY <1>1 DEF Holder, Stage

(* Every step is one that ExitPermit allows, or is not seen.                      *)
LEMMA Simulation ==
    ASSUME IInv, [Next]_vars
    PROVE  [Permit!Next]_(Permit!vars)
  <1> USE DEF Permit!vars
  <1>1. CASE UNCHANGED vars
    <2>1. UNCHANGED <<pc, OpenEditors>>
      BY <1>1 DEF vars, task, native, OpenEditors
    <2> QED
      BY <2>1, SameStage
  <1>2. CASE Next /\ Quiet
    <2>1. Holder' = Holder /\ Stage' = Stage
      BY <1>2, SameStage DEF Quiet
    <2>2. CASE OpenEditors' = OpenEditors
      BY <2>1, <2>2
    <2>3. CASE \E w \in Openers : OpenEditors' = OpenEditors \ {w}
      BY <2>1, <2>3 DEF Permit!Next, Permit!Close
    <2>4. CASE attempt = 0 /\ \E w \in Openers : OpenEditors' = OpenEditors \cup {w}
      <3>1. Stage = "free"
        BY <2>4, Free DEF IInv, OneHolder
      <3> QED
        BY <2>1, <2>4, <3>1 DEF Permit!Next, Permit!Open
    <2> QED
      BY <1>2, <2>2, <2>3, <2>4 DEF Quiet
  <1>3. ASSUME NEW t \in Tasks, Next, TaskMoves(t) PROVE [Permit!Next]_(Permit!vars)
    <2>1. IInv' /\ OpenEditors' = OpenEditors /\ pc \in [Tasks -> TaskPCs]
      BY <1>3, NextPreserves DEF TaskMoves, IInv, TypeOK
    <2> HIDE DEF OpenEditors, Stage, Holder
    <2>2. CASE Start(t)
      <3>1. Stage = "free"
        BY <2>2, Free DEF Start, IInv, OneHolder
      <3>2. pc'[t] = "snapshot"
        BY <2>1, <2>2 DEF Start, MoveTask
      <3>3. Holder' = t /\ Stage' = "asking"
        BY <2>1, <3>2, HeldByNext
      <3> QED
        BY <2>1, <3>1, <3>3 DEF Permit!Next, Permit!Ask
    <2>3. CASE UNCHANGED pc
      BY <2>1, <2>3, SameStage
    <2>4. CASE pc[t] # "idle" /\ pc' = [pc EXCEPT ![t] = "idle"] /\ pc[t] # "committed"
      <3>1. Stage \in {"asking", "granted"}
        BY <2>4, HeldBy
      <3>2. \A u \in Tasks : pc'[u] = "idle"
        BY <2>1, <2>4, Alone
      <3>3. Holder' = NoTask /\ Stage' = "free"
        BY <3>2, FreeNext
      <3> QED
        BY <2>1, <3>1, <3>3 DEF Permit!Next, Permit!Release
    <2>5. CASE /\ pc[t] \in {"snapshot", "filter", "publish", "asking"}
               /\ \E x \in {"filter", "publish", "asking", "waiting"} :
                      pc' = [pc EXCEPT ![t] = x]
      <3>1. pc'[t] \in {"filter", "publish", "asking", "waiting"}
        BY <2>1, <2>5
      <3>2. Holder = t /\ Stage = "asking"
        BY <2>5, HeldBy
      <3>3. Holder' = t /\ Stage' = "asking"
        BY <2>1, <3>1, HeldByNext
      <3> QED
        BY <2>1, <3>2, <3>3
    <2>6. CASE pc[t] = "waiting" /\ pc' = [pc EXCEPT ![t] = "granted"] /\ OpenEditors = {}
      <3>1. pc'[t] = "granted"
        BY <2>1, <2>6
      <3>2. Holder = t /\ Stage = "asking"
        BY <2>6, HeldBy
      <3>3. Holder' = t /\ Stage' = "granted"
        BY <2>1, <3>1, HeldByNext
      <3> QED
        BY <2>1, <2>6, <3>2, <3>3 DEF Permit!Next, Permit!Grant
    <2>7. CASE pc[t] = "granted" /\ pc' = [pc EXCEPT ![t] = "committed"]
      <3>1. pc'[t] = "committed"
        BY <2>1, <2>7
      <3>2. Holder = t /\ Stage = "granted"
        BY <2>7, HeldBy
      <3>3. Holder' = t /\ Stage' = "committed"
        BY <2>1, <3>1, HeldByNext
      <3> QED
        BY <2>1, <3>2, <3>3 DEF Permit!Next, Permit!Commit
    <2> QED
      BY <1>3, <2>2, <2>3, <2>4, <2>5, <2>6, <2>7 DEF TaskMoves
  <1> QED
    BY <1>1, <1>2, <1>3, NextPreserves

(* prepare and its permit implement ExitPermit: one permit at a time, granted     *)
(* when no editor is open, no editor opens while it is held, and a committed      *)
(* permit is not taken back.                                                      *)
THEOREM PermitKept == Spec => Permit!Safe
  <1>1. Init => Permit!Init
    <2> SUFFICES ASSUME Init PROVE Permit!Init
      OBVIOUS
    <2>1. OpenEditors = {}
      BY DEF Init, OpenEditors
    <2>2. Holder = NoTask /\ Stage = "free"
      BY Free DEF Init
    <2> QED
      BY <2>1, <2>2 DEF Permit!Init
  <1>2. IInv /\ [Next]_vars => [Permit!Next]_(Permit!vars)
    BY Simulation
  <1> QED
    BY <1>1, <1>2, Inductive, PTL DEF Spec, Permit!Safe

=================================================================================
