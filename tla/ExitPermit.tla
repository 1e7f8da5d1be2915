----------------------------- MODULE ExitPermit -----------------------------
(***************************************************************************)
(* What the exit and update commands of lifecycle.rs rely on when they     *)
(* call ToolWindowExit::prepare: one permit at a time, given only when no  *)
(* editor window is open, and no editor opens until the permit is dropped; *)
(* a committed permit is never taken back.                                 *)
(*                                                                         *)
(* ToolWindowExit implements this specification with the mutexes, the      *)
(* one-shot channel and the renderers; Lifecycle implements it as the user *)
(* of the permit.                                                          *)
(***************************************************************************)
CONSTANTS Tasks, Editors, NoTask

VARIABLES
    holder,     \* the task whose attempt is pending
    stage,      \* how far that attempt is
    open        \* editor windows the user can type into

vars == <<holder, stage, open>>

Stages == {"free", "asking", "granted", "committed"}

Init ==
    /\ holder = NoTask
    /\ stage = "free"
    /\ open = {}

Ask(t) ==
    /\ stage = "free"
    /\ holder' = t
    /\ stage' = "asking"
    /\ UNCHANGED open

Grant ==
    /\ stage = "asking"
    /\ open = {}
    /\ stage' = "granted"
    /\ UNCHANGED <<holder, open>>

Release ==
    /\ stage \in {"asking", "granted"}
    /\ holder' = NoTask
    /\ stage' = "free"
    /\ UNCHANGED open

Commit ==
    /\ stage = "granted"
    /\ stage' = "committed"
    /\ UNCHANGED <<holder, open>>

Open(e) ==
    /\ stage = "free"
    /\ open' = open \cup {e}
    /\ UNCHANGED <<holder, stage>>

Close(e) ==
    /\ open' = open \ {e}
    /\ UNCHANGED <<holder, stage>>

Next ==
    \/ \E t \in Tasks : Ask(t)
    \/ Grant
    \/ Release
    \/ Commit
    \/ \E e \in Editors : Open(e) \/ Close(e)

Safe == Init /\ [][Next]_vars

(* prepare always returns: the attempt is answered or given up. *)
Spec == Safe /\ WF_vars(Grant \/ Release)
=============================================================================
