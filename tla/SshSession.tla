----------------------------- MODULE SshSession -----------------------------
(***************************************************************************)
(* The life of one SSH terminal session of                                 *)
(* src-tauri/src/ssh_session_service.rs.                                   *)
(*                                                                         *)
(* One actor owns the session record and handles one message at a time.    *)
(* Around it run, concurrently: the connect task of each generation        *)
(* (spawn_connect), which dials, asks the actor to verify host keys and to *)
(* answer keyboard-interactive prompts, and hands over a shell; the shell  *)
(* worker of each generation (run_shell), which ends on a stop signal, a   *)
(* remote exit or an error and only then reports its cleanup; and clients, *)
(* whose requests carry the generation and state revision they have seen   *)
(* and may arrive late.  shutdown_all is the application exit's request.   *)
(* Revisions are only compared for equality: a request in flight is fresh  *)
(* until the record is revised.                                            *)
(*                                                                         *)
(* Attachments, input leases and output are not part of this module, nor   *)
(* are the steps of a login automation.                                    *)
(***************************************************************************)
EXTENDS Naturals, Sequences, FiniteSets

CONSTANTS
    MaxGen,         \* generations: one connect and MaxGen - 1 reconnects
    MaxHops,        \* jump hosts of the route
    MaxRounds,      \* keyboard-interactive prompts of one connect task
    MaxRequests     \* client requests in flight

ASSUME SshSessionAssumption ==
    /\ MaxGen \in Nat \ {0}
    /\ MaxHops \in Nat
    /\ MaxRounds \in Nat
    /\ MaxRequests \in Nat

Gens == 1 .. MaxGen

VARIABLES
    state,          \* summary.state, "None" before the session is opened
    gen,            \* summary.generation
    shared,         \* a plugin's terminal on a parent's connection
    shell,          \* record.shell is Some
    stop,           \* record.shell_stop is Some
    live,           \* the session is in live_sessions: it blocks the exit
    challenge,      \* active_challenge is Some
    kbd,            \* active_keyboard_interactive_challenge is Some
    connectTask,    \* generation of the entry in connect_tasks, or 0
    cpc,            \* where the connect task of each generation is
    hop,            \* the host of the route it talks to
    rounds,         \* the prompts it has shown
    reply,          \* the answer in the oneshot it waits for
    aborted,        \* generations whose connect task has been aborted
    worker,         \* where the shell worker of each generation is
    signal,         \* the stop signal sent to it
    mailbox,        \* messages of tasks and workers to the actor
    requests,       \* client requests in flight
    pinned,         \* hosts whose key the known-hosts store trusts
    waiter          \* shutdown_waiter is Some: shutdown_all has not replied

record == <<state, gen, shared, shell, stop, live, challenge, kbd>>
tasks == <<cpc, hop, rounds>>
workers == <<worker, signal>>
vars == <<record, connectTask, tasks, reply, aborted, workers, mailbox,
          requests, pinned, waiter>>

Ended == {"Closed", "Failed"}
Down == Ended \cup {"Disconnecting"}
Transient == {"Resolving", "Connecting", "VerifyingHostKey", "Authenticating",
              "OpeningChannel"}
Up == {"AutomatingLogin", "Running"}
States == {"None", "AwaitingHostKeyDecision"} \cup Transient \cup Up \cup Down

TaskPCs == {"none", "plan", "dial", "verify", "auth", "answer", "open", "done"}
Working == TaskPCs \ {"none", "done"}
WorkerPCs == {"none", "running", "closing", "cleanup", "gone"}
WorkerOver == {"none", "gone"}

Hops == 0 .. MaxHops

Init ==
    /\ state = "None" /\ gen = 0 /\ shared = FALSE
    /\ shell = FALSE /\ stop = FALSE /\ live = FALSE
    /\ challenge = FALSE /\ kbd = FALSE
    /\ connectTask = 0
    /\ cpc = [g \in Gens |-> "none"]
    /\ hop = [g \in Gens |-> 0]
    /\ rounds = [g \in Gens |-> 0]
    /\ reply = [g \in Gens |-> "none"]
    /\ aborted = {}
    /\ worker = [g \in Gens |-> "none"]
    /\ signal = [g \in Gens |-> "none"]
    /\ mailbox = <<>>
    /\ requests = {}
    /\ pinned \in SUBSET Hops
    /\ waiter = FALSE

-----------------------------------------------------------------------------
(* The connect task of generation g (spawn_connect and the orchestrator).   *)
(* An aborted task may still run on until its next suspension.              *)

Message(type, g) == [type |-> type, gen |-> g]
Post(m) == mailbox' = Append(mailbox, m)

TaskGoes(g, from, to) ==
    /\ cpc[g] = from
    /\ cpc' = [cpc EXCEPT ![g] = to]

TaskFrame == UNCHANGED <<record, connectTask, workers, requests, pinned, waiter>>

(* A task that goes on to another wait, and one that has run to its end. *)
GoesOn == UNCHANGED aborted /\ TaskFrame
Returns(g) ==
    /\ cpc' = [cpc EXCEPT ![g] = "done"]
    /\ rounds' = [rounds EXCEPT ![g] = 0]
    /\ reply' = [reply EXCEPT ![g] = "none"]
    /\ aborted' = aborted \ {g}
    /\ UNCHANGED hop /\ TaskFrame

(* phase_changed(Connecting) for the first host, or for the next hop once   *)
(* the jump host has authenticated.                                         *)
Dial(g) ==
    /\ \/ TaskGoes(g, "plan", "dial") /\ UNCHANGED hop
       \/ /\ TaskGoes(g, "auth", "dial")
          /\ hop[g] < MaxHops
          /\ hop' = [hop EXCEPT ![g] = @ + 1]
    /\ Post(Message("Connecting", g))
    /\ UNCHANGED <<rounds, reply>> /\ GoesOn

(* ActorHostKeyVerifier::verify sends the observed key and awaits a reply. *)
VerifyHostKey(g) ==
    /\ TaskGoes(g, "dial", "verify")
    /\ Post([type |-> "HostKeyObserved", gen |-> g, hop |-> hop[g]])
    /\ reply' = [reply EXCEPT ![g] = "none"]
    /\ UNCHANGED <<hop, rounds>> /\ GoesOn

(* Mutant: any reply of the actor counts as a verified host. *)
AuthenticateAnyway(g) ==
    /\ reply[g] # "none"
    /\ TaskGoes(g, "verify", "auth")
    /\ Post(Message("Authenticating", g))
    /\ reply' = [reply EXCEPT ![g] = "none"]
    /\ UNCHANGED <<hop, rounds>> /\ GoesOn

Authenticate(g) ==
    /\ reply[g] = "accepted"
    /\ TaskGoes(g, "verify", "auth")
    /\ Post(Message("Authenticating", g))
    /\ reply' = [reply EXCEPT ![g] = "none"]
    /\ UNCHANGED <<hop, rounds>> /\ GoesOn

(* answer_keyboard_interactive; MaxRounds bounds the rounds. *)
AskKeyboardInteractive(g) ==
    /\ rounds[g] < MaxRounds
    /\ TaskGoes(g, "auth", "answer")
    /\ rounds' = [rounds EXCEPT ![g] = @ + 1]
    /\ Post(Message("KeyboardInteractive", g))
    /\ reply' = [reply EXCEPT ![g] = "none"]
    /\ UNCHANGED hop /\ GoesOn

(* The answers arrive, or a rejection after which the next credential runs. *)
KeyboardAnswered(g) ==
    /\ reply[g] # "none"
    /\ TaskGoes(g, "answer", "auth")
    /\ reply' = [reply EXCEPT ![g] = "none"]
    /\ UNCHANGED <<hop, rounds, mailbox>> /\ GoesOn

OpenChannel(g) ==
    /\ hop[g] = MaxHops
    /\ TaskGoes(g, "auth", "open")
    /\ Post(Message("OpeningChannel", g))
    /\ UNCHANGED <<hop, rounds, reply>> /\ GoesOn

HandOverShell(g) ==
    /\ cpc[g] = "open"
    /\ Post(Message("ShellReady", g))
    /\ Returns(g)

(* Mutant: the attempt ends without a word. *)
HostKeyRefusedSilently(g) ==
    /\ cpc[g] = "verify" /\ reply[g] = "refused"
    /\ UNCHANGED mailbox
    /\ Returns(g)

(* A refused key ends the connection attempt. *)
HostKeyRefused(g) ==
    /\ cpc[g] = "verify" /\ reply[g] = "refused"
    /\ Post(Message("ConnectionFailed", g))
    /\ Returns(g)

(* Vault locked, network, protocol and authentication errors and timeouts;  *)
(* while the user is asked, the round's timeout or the server's own.        *)
ConnectFails(g) ==
    /\ cpc[g] \in Working
    /\ Post(Message("ConnectionFailed", g))
    /\ Returns(g)

AbortTakesEffect(g) ==
    /\ g \in aborted /\ cpc[g] \in Working
    /\ UNCHANGED mailbox
    /\ Returns(g)

(* A user who is asked need not answer, but every other wait of a connect   *)
(* task is bounded by a timeout of the transport.                           *)
TaskProgress(g) ==
    \/ Dial(g) \/ VerifyHostKey(g) \/ Authenticate(g) \/ HostKeyRefused(g)
    \/ AskKeyboardInteractive(g) \/ KeyboardAnswered(g) \/ OpenChannel(g)
    \/ HandOverShell(g) \/ AbortTakesEffect(g)

-----------------------------------------------------------------------------
(* The shell worker of generation g (run_shell).  The loop ends once; what  *)
(* ends it decides which cleanup fact is sent after shell.disconnect().     *)

WorkerFrame == UNCHANGED <<record, connectTask, tasks, reply, aborted, signal,
                           requests, pinned, waiter>>

WorkerGoes(g, from, to) ==
    /\ worker[g] = from
    /\ worker' = [worker EXCEPT ![g] = to]

WorkerStops(g) ==
    /\ signal[g] # "none"
    /\ WorkerGoes(g, "running", IF signal[g] = "disconnect"
                                  THEN "closing" ELSE "cleanup")
    /\ UNCHANGED mailbox /\ WorkerFrame

(* A write, resize or read error: ConnectionFailed, no close reason. *)
WorkerErrors(g) ==
    /\ WorkerGoes(g, "running", "cleanup")
    /\ Post(Message("ConnectionFailed", g))
    /\ WorkerFrame

RemoteExits(g) ==
    /\ WorkerGoes(g, "running", "closing")
    /\ UNCHANGED mailbox /\ WorkerFrame

WorkerEnds(g) ==
    /\ \/ WorkerGoes(g, "closing", "gone") /\ Post(Message("ShellClosed", g))
       \/ /\ WorkerGoes(g, "cleanup", "gone")
          /\ Post(Message("ShellCleanupCompleted", g))
    /\ WorkerFrame

(* A transport keepalive task gives up; its tasks live while the shell is up *)
(* (what one sends while it is aborted is dropped by the handler).  A shared *)
(* terminal has none.                                                        *)
HeartbeatFails ==
    /\ state \in Up /\ ~shared
    /\ Message("TransportHeartbeatFailed", gen) \notin {mailbox[i] : i \in DOMAIN mailbox}
    /\ Post(Message("TransportHeartbeatFailed", gen))
    /\ UNCHANGED worker /\ WorkerFrame

-----------------------------------------------------------------------------
(* What handlers share. *)

(* transition_record, for the state.  It bumps the revision unless nothing  *)
(* changes, as the two handlers of kbd do: every request against the state  *)
(* is then stale, and one against a challenge once that is gone.            *)
MoveTo(s) == state' = s

Outdated(r) ==
    CASE r.op \in {"accept", "reject"} -> ~(challenge /\ challenge')
      [] r.op = "answer"               -> ~(kbd /\ kbd')
      [] OTHER                         -> state' # state \/ kbd' # kbd

Revise(inFlight) ==
    requests' = {[r EXCEPT !.fresh = @ /\ ~Outdated(r)] : r \in inFlight}

(* Mutant: the watch is taken, the signal only queued. *)
SignalShellQueued(sig) == stop' = FALSE /\ UNCHANGED signal

(* request_shell_stop: the first signal goes through the watch channel, a   *)
(* later one can only be queued, in a mailbox that may be full.             *)
SignalShell(sig) ==
    /\ stop' = FALSE
    /\ signal' = IF stop /\ worker[gen] # "gone"
                   THEN [signal EXCEPT ![gen] = sig] ELSE signal
SignalAccepted(ok) == stop /\ worker[gen] # "gone" => ok

(* Mutant: the shell handle is not considered. *)
LeaveLiveAtOnce(s) == live' = (live /\ s \notin Ended)

(* live_sessions.remove at the end of transition. *)
LeaveLive(s) == live' = (live /\ ~(s \in Ended /\ ~shell'))

AbortConnect ==
    IF connectTask = gen
      THEN connectTask' = 0 /\ aborted' = aborted \cup {gen}
      ELSE UNCHANGED <<connectTask, aborted>>

FinishConnect(g) == connectTask' = IF connectTask = g THEN 0 ELSE connectTask

(* Sending into the oneshot of generation g while its task waits at pc. *)
Answer(g, pc, a) ==
    reply' = IF cpc[g] = pc THEN [reply EXCEPT ![g] = a] ELSE reply

(* Pending questions are rejected and forgotten. *)
RejectPending ==
    /\ challenge' = FALSE
    /\ kbd' = FALSE
    /\ reply' = IF \/ challenge /\ cpc[gen] = "verify"
                   \/ kbd /\ cpc[gen] = "answer"
                  THEN [reply EXCEPT ![gen] = "refused"] ELSE reply

KeepPending == UNCHANGED <<challenge, kbd, reply>>

ConnectionActive(g) == g = gen /\ state \notin Down

(* complete_shutdown_if_ready, which ends every handler, replies Ok. *)
CompleteShutdown == waiter' = (waiter /\ live')

-----------------------------------------------------------------------------
(* Messages of tasks and workers, in the order they were sent. *)

Received(type) ==
    /\ mailbox # <<>>
    /\ Head(mailbox).type = type
    /\ mailbox' = Tail(mailbox)
Sender == Head(mailbox).gen

HandlerFrame ==
    UNCHANGED <<gen, shared, tasks>> /\ Revise(requests) /\ CompleteShutdown
NotStopped == UNCHANGED <<shell, stop, live, signal>>

(* ConnectionState *)
HandleState(s) ==
    /\ Received(s)
    /\ UNCHANGED <<challenge, kbd>>
    /\ IF ConnectionActive(Sender) THEN MoveTo(s) ELSE UNCHANGED state
    /\ NotStopped
    /\ UNCHANGED <<connectTask, reply, aborted, worker, pinned>>
    /\ HandlerFrame

(* host_key_observed: a trusted key continues, an unknown one asks the user, *)
(* a mismatch or an unreadable store refuses.                                *)
HandleHostKey ==
    /\ Received("HostKeyObserved")
    /\ UNCHANGED kbd
    /\ LET g == Sender IN
       \/ /\ ~ConnectionActive(g)
          /\ Answer(g, "verify", "refused")
          /\ UNCHANGED <<state, challenge>>
       \/ /\ ConnectionActive(g)
          /\ MoveTo("VerifyingHostKey")
          /\ \/ Head(mailbox).hop \in pinned /\ Answer(g, "verify", "accepted")
             \/ Answer(g, "verify", "refused")
          /\ UNCHANGED challenge
       \/ /\ ConnectionActive(g)
          /\ Head(mailbox).hop \notin pinned /\ ~challenge
          /\ MoveTo("AwaitingHostKeyDecision")
          /\ challenge' = TRUE
          /\ UNCHANGED reply
    /\ NotStopped
    /\ UNCHANGED <<connectTask, aborted, worker, pinned>>
    /\ HandlerFrame

(* keyboard_interactive_challenge_observed *)
HandleKeyboardInteractive ==
    /\ Received("KeyboardInteractive")
    /\ IF Sender = gen /\ state = "Authenticating" /\ ~kbd
         THEN kbd' = TRUE /\ UNCHANGED reply
         ELSE Answer(Sender, "answer", "refused") /\ UNCHANGED kbd
    /\ NotStopped
    /\ UNCHANGED <<state, challenge, connectTask, aborted, worker, pinned>>
    /\ HandlerFrame

(* A shell is adopted only by the connection that waits for it. *)
Adopts(g) == g = gen /\ state = "OpeningChannel"

(* shell_ready; a shell that is not adopted is disconnected on the side. *)
HandleShellReady ==
    /\ Received("ShellReady")
    /\ FinishConnect(Sender)
    /\ UNCHANGED <<challenge, kbd>>
    /\ IF Adopts(Sender)
         THEN /\ \E s \in IF shared THEN {"Running"} ELSE Up : MoveTo(s)
              /\ shell' = TRUE /\ stop' = TRUE
              /\ worker' = [worker EXCEPT ![gen] = "running"]
         ELSE UNCHANGED <<state, shell, stop, worker>>
    /\ UNCHANGED <<live, reply, aborted, signal, pinned>>
    /\ HandlerFrame

(* shell_closed *)
ShellClosed ==
    /\ shell' = FALSE /\ stop' = FALSE
    /\ UNCHANGED <<challenge, kbd, reply, signal>>
    /\ MoveTo("Closed")
    /\ LeaveLive("Closed")

Failed ==
    /\ UNCHANGED shell
    /\ SignalShell("abort")
    /\ MoveTo("Failed")
    /\ LeaveLive("Failed")

(* connection_failed and connection_failure *)
HandleConnectionFailed ==
    /\ Received("ConnectionFailed")
    /\ FinishConnect(Sender)
    /\ \/ /\ Sender = gen /\ state = "Disconnecting"
          /\ ShellClosed
       \/ /\ ConnectionActive(Sender)
          /\ kbd' = FALSE
          /\ reply' = IF kbd /\ cpc[gen] = "answer"
                        THEN [reply EXCEPT ![gen] = "refused"] ELSE reply
          /\ UNCHANGED challenge
          /\ Failed
       \/ /\ Sender # gen \/ state \in Ended
          /\ UNCHANGED <<record, reply, signal>>
    /\ UNCHANGED <<aborted, worker, pinned>>
    /\ HandlerFrame

(* transport_heartbeat_failed *)
HandleHeartbeatFailed ==
    /\ Received("TransportHeartbeatFailed")
    /\ UNCHANGED <<challenge, kbd>>
    /\ IF Sender = gen /\ state \in Up
         THEN Failed
         ELSE UNCHANGED <<state, shell, stop, live, signal>>
    /\ UNCHANGED <<connectTask, reply, aborted, worker, pinned>>
    /\ HandlerFrame

(* Mutant: the generation is not compared. *)
HandleShellClosedUnfenced ==
    /\ Received("ShellClosed")
    /\ ShellClosed
    /\ UNCHANGED <<connectTask, aborted, worker, pinned>>
    /\ HandlerFrame

HandleShellClosed ==
    /\ Received("ShellClosed")
    /\ IF Sender = gen
         THEN ShellClosed
         ELSE UNCHANGED <<state, shell, stop, live, challenge, kbd, reply, signal>>
    /\ UNCHANGED <<connectTask, aborted, worker, pinned>>
    /\ HandlerFrame

(* shell_cleanup_completed *)
HandleCleanupCompleted ==
    /\ Received("ShellCleanupCompleted")
    /\ IF Sender = gen
         THEN /\ shell' = FALSE /\ stop' = FALSE
              /\ live' = (live /\ state \notin Ended)
         ELSE UNCHANGED <<shell, stop, live>>
    /\ UNCHANGED <<state, challenge, kbd, signal, connectTask, reply,
                   aborted, worker, pinned>>
    /\ HandlerFrame

HandleMessage ==
    \/ \E s \in {"Connecting", "Authenticating", "OpeningChannel"} : HandleState(s)
    \/ HandleHostKey \/ HandleKeyboardInteractive \/ HandleShellReady
    \/ HandleConnectionFailed \/ HandleHeartbeatFailed \/ HandleShellClosed
    \/ HandleCleanupCompleted

-----------------------------------------------------------------------------
(* Requests.  Each carries the generation and the state revision its client *)
(* has seen (a decision or an answer: those of its challenge), and is       *)
(* refused unless they are still the record's.                              *)

Ops == {"disconnect", "detach", "reconnect", "accept", "reject", "answer"}

(* A reconnect command holds a creation permit, and a shutdown runs behind  *)
(* the drained gate (module Lifecycle), so the two never overlap.           *)
GateDrained == \A r \in requests : r.op # "reconnect"

SendRequest(op) ==
    /\ gen > 0
    /\ op \in {"accept", "reject"} => challenge
    /\ op = "answer" => kbd
    /\ op = "reconnect" => gen < MaxGen /\ ~waiter
    /\ Cardinality(requests) < MaxRequests
    /\ requests' = requests \cup {[op |-> op, fresh |-> TRUE]}
    /\ UNCHANGED <<record, connectTask, tasks, reply, aborted, workers, mailbox,
                   pinned, waiter>>

Current(r) == r.fresh

Take(r) == Revise(requests \ {r})

RequestFrame == UNCHANGED <<tasks, worker, mailbox>> /\ CompleteShutdown

(* A refusal, and the answers that change nothing. *)
Refuse(r) ==
    /\ UNCHANGED <<record, connectTask, reply, aborted, signal, pinned>>
    /\ Take(r)
    /\ RequestFrame

(* The end of a session that is asked for: with a shell its worker is told   *)
(* and reports later, without one the session is closed at once.  ok tells   *)
(* whether the worker's signal was accepted; an error return otherwise.      *)
EndSession(ok) ==
    /\ AbortConnect
    /\ IF shell
         THEN /\ SignalAccepted(ok)
              /\ SignalShell("disconnect")
              /\ MoveTo(IF ok THEN "Disconnecting" ELSE state)
              /\ UNCHANGED <<shell, live>>
         ELSE /\ MoveTo("Closed")
              /\ live' = FALSE
              /\ UNCHANGED <<shell, stop, signal>>
    /\ UNCHANGED <<gen, shared, pinned>>

(* disconnect_once *)
Disconnect(r) ==
    \/ /\ Current(r) /\ state \notin Ended
       /\ RejectPending
       /\ \E ok \in BOOLEAN : EndSession(ok)
       /\ Take(r)
       /\ RequestFrame
    \/ /\ ~Current(r) \/ state \in Ended
       /\ Refuse(r)

(* detach_once with a confirmed DisconnectAndDetach; it has no state check. *)
Detach(r) ==
    \/ /\ Current(r)
       /\ IF shell THEN KeepPending ELSE RejectPending
       /\ \E ok \in BOOLEAN : EndSession(ok)
       /\ Take(r)
       /\ RequestFrame
    \/ /\ ~Current(r)
       /\ Refuse(r)

(* start_connect: the previous task, if any, is aborted. *)
StartConnect(g) ==
    /\ aborted' = IF connectTask = 0 THEN aborted ELSE aborted \cup {connectTask}
    /\ connectTask' = g
    /\ cpc' = [cpc EXCEPT ![g] = "plan"]

(* reconnect_once; the profile may no longer resolve, which refuses, too. *)
Reconnect(r) ==
    \/ /\ Current(r) /\ state \in Ended /\ ~shared
       /\ RejectPending
       /\ SignalShell("abort")
       /\ shell' = FALSE
       /\ gen' = gen + 1
       /\ MoveTo("Resolving")
       /\ live' = TRUE
       /\ StartConnect(gen + 1)
       /\ Take(r)
       /\ UNCHANGED <<shared, hop, rounds, worker, mailbox, pinned, waiter>>
    \/ Refuse(r)

(* host_key_decide_once.  The store may refuse an accepted key; when it      *)
(* cannot be written the challenge stays.                                    *)
HostKeyDecide(r) ==
    \/ /\ Current(r)
       /\ \/ /\ r.op = "reject"
             /\ Answer(gen, "verify", "refused")
             /\ UNCHANGED pinned
          \/ /\ r.op = "accept"
             /\ \/ /\ Answer(gen, "verify", "accepted")
                   /\ pinned' = pinned \cup {hop[gen]}
                \/ /\ Answer(gen, "verify", "refused")
                   /\ UNCHANGED pinned
       /\ challenge' = FALSE
       /\ UNCHANGED <<state, gen, shared, shell, stop, live, kbd,
                      connectTask, aborted, signal>>
       /\ Take(r)
       /\ RequestFrame
    \/ /\ ~Current(r) \/ r.op = "accept"
       /\ Refuse(r)

(* Mutant: the prompt is left in the record when it is answered. *)
ForgetPromptNot == UNCHANGED kbd

ForgetPrompt == kbd' = FALSE

(* keyboard_interactive_respond; an expired prompt or answers that do not   *)
(* match it are refused and leave the prompt.                               *)
KeyboardRespond(r) ==
    \/ /\ Current(r)
       /\ ForgetPrompt
       /\ Answer(gen, "answer", "accepted")
       /\ UNCHANGED <<state, gen, shared, shell, stop, live, challenge,
                      connectTask, aborted, signal, pinned>>
       /\ Take(r)
       /\ RequestFrame
    \/ Refuse(r)

HandleRequest(r) ==
    \/ r.op = "disconnect" /\ Disconnect(r)
    \/ r.op = "detach" /\ Detach(r)
    \/ r.op = "reconnect" /\ Reconnect(r)
    \/ r.op \in {"accept", "reject"} /\ HostKeyDecide(r)
    \/ r.op = "answer" /\ KeyboardRespond(r)

(* start_shared_terminal: the task opens a channel on the parent's transport. *)
StartSharedTerminal(g) ==
    /\ MoveTo("OpeningChannel")
    /\ connectTask' = g
    /\ cpc' = [cpc EXCEPT ![g] = "open"]
    /\ UNCHANGED aborted

(* open_once *)
Open(isShared) ==
    /\ gen = 0
    /\ gen' = 1 /\ live' = TRUE /\ shared' = isShared
    /\ IF isShared
         THEN StartSharedTerminal(1)
         ELSE MoveTo("Resolving") /\ StartConnect(1)
    /\ UNCHANGED <<shell, stop, challenge, kbd, hop, rounds, reply, workers,
                   mailbox, requests, pinned, waiter>>

(* finish_login_automation *)
FinishLoginAutomation ==
    /\ state = "AutomatingLogin"
    /\ UNCHANGED kbd
    /\ MoveTo("Running")
    /\ UNCHANGED <<gen, shared, shell, stop, live, challenge, connectTask, tasks,
                   reply, aborted, workers, mailbox, pinned, waiter>>
    /\ Revise(requests)

-----------------------------------------------------------------------------
(* shutdown_all: begin_shutdown and its deadline. *)

BeginShutdown ==
    /\ ~waiter /\ GateDrained
    /\ \/ /\ ~live
          /\ UNCHANGED <<record, connectTask, reply, aborted, signal, pinned, waiter>>
       \/ /\ live
          /\ RejectPending
          /\ \E ok \in BOOLEAN : EndSession(ok) /\ waiter' = (live' /\ ok)
    /\ Revise(requests)
    /\ UNCHANGED <<tasks, worker, mailbox>>

ShutdownDeadline ==
    /\ waiter
    /\ waiter' = FALSE
    /\ UNCHANGED <<record, connectTask, tasks, reply, aborted, workers, mailbox,
                   requests, pinned>>

Next ==
    \/ \E isShared \in BOOLEAN : Open(isShared)
    \/ \E g \in Gens : TaskProgress(g) \/ ConnectFails(g)
    \/ \E g \in Gens : WorkerStops(g) \/ WorkerErrors(g) \/ RemoteExits(g)
                       \/ WorkerEnds(g)
    \/ HeartbeatFails
    \/ HandleMessage
    \/ \E op \in Ops : SendRequest(op)
    \/ \E r \in requests : HandleRequest(r)
    \/ FinishLoginAutomation
    \/ BeginShutdown
    \/ ShutdownDeadline

(* The runtime polls every task and the actor; a connect task is bounded by  *)
(* timeouts, a stopped worker by the transport's disconnect timeout.         *)
Fairness ==
    /\ \A g \in Gens : /\ WF_vars(TaskProgress(g))
                       /\ WF_vars(WorkerStops(g))
                       /\ WF_vars(WorkerEnds(g))
    /\ WF_vars(HandleMessage)
    /\ WF_vars(\E r \in requests : HandleRequest(r))

Spec == Init /\ [][Next]_vars
FairSpec == Spec /\ Fairness

-----------------------------------------------------------------------------
(* Properties. *)

InMailbox(type, g) ==
    \E i \in DOMAIN mailbox : mailbox[i].type = type /\ mailbox[i].gen = g

MessageTypes == {"Connecting", "HostKeyObserved", "Authenticating",
                 "KeyboardInteractive", "OpeningChannel", "ShellReady",
                 "ConnectionFailed", "TransportHeartbeatFailed",
                 "ShellClosed", "ShellCleanupCompleted"}

TypeOK ==
    /\ state \in States
    /\ gen \in Gens \cup {0}
    /\ {shared, shell, stop, live, challenge, kbd, waiter} \subseteq BOOLEAN
    /\ connectTask \in Gens \cup {0}
    /\ cpc \in [Gens -> TaskPCs]
    /\ hop \in [Gens -> Hops]
    /\ rounds \in [Gens -> 0 .. MaxRounds]
    /\ reply \in [Gens -> {"none", "accepted", "refused"}]
    /\ aborted \subseteq Gens
    /\ worker \in [Gens -> WorkerPCs]
    /\ signal \in [Gens -> {"none", "disconnect", "abort"}]
    /\ \A i \in DOMAIN mailbox :
         mailbox[i].type \in MessageTypes /\ mailbox[i].gen \in Gens
    /\ requests \subseteq [op : Ops, fresh : BOOLEAN]
    /\ pinned \subseteq Hops

(* No shell is left running unattended: a worker that has not been told to  *)
(* stop is the one whose handle the record of its generation holds.         *)
NoOrphanedShell ==
    \A g \in Gens :
        worker[g] = "running" /\ signal[g] = "none" => g = gen /\ shell /\ stop

(* Whatever the current generation still has at work, a connect task that   *)
(* has not been aborted or a shell handle, keeps the session an exit        *)
(* blocker: exit never sees a clean session that is about to come up.       *)
WorkBlocksExit ==
    gen > 0 /\ (shell \/ (cpc[gen] \in Working /\ gen \notin aborted)) => live

(* A connection that authenticates has had the key of that very host        *)
(* trusted, by the store or by the user, whatever became of the session.    *)
HostVerified ==
    \A g \in Gens : cpc[g] \in {"auth", "answer"} => hop[g] \in pinned

(* A keyboard-interactive prompt is offered only while the session           *)
(* authenticates, to a task that waits for it or has just given up.          *)
PromptIsCurrent ==
    kbd => /\ state = "Authenticating"
           /\ cpc[gen] = "answer" \/ InMailbox("ConnectionFailed", gen)

(* What an earlier generation's task or worker sent, and what a client sent  *)
(* against an older revision, never touches the record.                      *)
StaleIsInert ==
    [][/\ mailbox # <<>> /\ mailbox' = Tail(mailbox) /\ Head(mailbox).gen # gen
            => UNCHANGED record
       /\ \A r \in requests \ requests' : ~r.fresh => UNCHANGED record]_vars

(* A connection attempt does not stall: it comes up, ends, or waits for an   *)
(* answer of the user.                                                       *)
ConnectResolves ==
    (state \in Transient /\ ~kbd) ~> (state \notin Transient \/ kbd)

(* shutdown_all "waits for their generation-fenced cleanup facts": it does   *)
(* not report success while the worker of the current shell still cleans up. *)
ShutdownWaitsForCleanup ==
    [][waiter /\ ~waiter' /\ ~live' => worker[gen] \in WorkerOver]_vars

(* ... and it does not go on waiting once every cleanup fact has arrived. *)
CleanupEndsShutdown ==
    waiter =>
        mailbox # <<>> \/ \E g \in Gens : worker[g] \notin WorkerOver

=============================================================================
