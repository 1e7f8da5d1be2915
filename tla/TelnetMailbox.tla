---------------------------- MODULE TelnetMailbox ---------------------------
(***************************************************************************)
(* Who waits for whom in src-tauri/src/telnet_session_service.rs.          *)
(*                                                                         *)
(* One actor (run_actor) serves every Telnet session from one bounded      *)
(* mailbox.  Each connected session has an owner task (run_owner) that     *)
(* holds the socket: it prefers a command of its own queue to an event of  *)
(* the socket, and hands every event to the actor through the mailbox,     *)
(* waiting when it is full.  Most messages are handled at once; an Input   *)
(* or a Resize makes the actor wait for the owner's acknowledgement, and   *)
(* ShutdownAll makes it wait, with a deadline, for every owner to end.     *)
(* Input and Resize commands run one at a time, inside the terminal focus  *)
(* broker's lock.                                                          *)
(*                                                                         *)
(* Sessions are connected to begin with and are not reconnected here; what *)
(* the messages do to a session record is the subject of TelnetSession.    *)
(* The mailbox is tokio's bounded channel: senders that find it full queue *)
(* up and are admitted in order.                                           *)
(***************************************************************************)
EXTENDS Naturals, Sequences, FiniteSets

CONSTANTS
    Sessions,       \* connected Telnet sessions
    Clients,        \* commands of the frontend in flight
    MailCap,        \* ACTOR_MAILBOX_CAPACITY
    OwnerCap,       \* OWNER_MAILBOX_CAPACITY
    None            \* nobody

ASSUME TelnetMailboxAssumption ==
    /\ MailCap \in Nat \ {0}
    /\ OwnerCap \in Nat \ {0}
    /\ None \notin Sessions \cup Clients
    /\ Sessions \cap Clients = {}

VARIABLES
    mail,           \* the actor's mailbox
    senders,        \* messages whose sender waits for room, in order
    actor,          \* what run_actor does: pc, and whom it waits for and serves
    owner,          \* run_owner of each session: "run", "ending"
    commands,       \* the queue of each owner
    state,          \* record.summary.state; record.owner is Some until it is "Closed"
    ack,            \* the owner's answer in the actor's oneshot
    client,         \* the request each client waits for, or "idle"
    broker          \* the client inside the focus broker's lock

vars == <<mail, senders, actor, owner, commands, state, ack, client, broker>>

Requests == {"Input", "Disconnect", "ShutdownAll", "Other"}
Commands == {"Input", "Disconnect", "DisconnectQuietly"}
Messages ==
    [kind : Requests, from : Clients, session : Sessions]
        \cup [kind : {"OwnerOutput", "OwnerClosed"}, from : Sessions, session : Sessions]
Receiving == [pc |-> "recv", session |-> None, client |-> None]

TypeOK ==
    /\ mail \in Seq(Messages) /\ Len(mail) <= MailCap
    /\ senders \in Seq(Messages)
    /\ actor.pc \in {"recv", "ack", "shutdown"}
    /\ actor.session \in Sessions \cup {None} /\ actor.client \in Clients \cup {None}
    /\ owner \in [Sessions -> {"run", "ending"}]
    /\ commands \in [Sessions -> Seq(Commands)]
    /\ \A s \in Sessions : Len(commands[s]) <= OwnerCap
    /\ state \in [Sessions -> {"Running", "Disconnecting", "Closed"}]
    /\ ack \in {"none", "ok", "failed"}
    /\ client \in [Clients -> Requests \cup {"idle"}]
    /\ broker \in Clients \cup {None}

Init ==
    /\ mail = <<>> /\ senders = <<>>
    /\ actor = Receiving
    /\ owner = [s \in Sessions |-> "run"]
    /\ commands = [s \in Sessions |-> <<>>]
    /\ state = [s \in Sessions |-> "Running"]
    /\ ack = "none"
    /\ client = [c \in Clients |-> "idle"]
    /\ broker = None

-----------------------------------------------------------------------------
(* The bounded channel. *)

\* tx.send(m).await: m enters the mailbox, or its sender queues up.
Send(m) ==
    IF senders = <<>> /\ Len(mail) < MailCap
    THEN mail' = Append(mail, m) /\ UNCHANGED senders
    ELSE senders' = Append(senders, m) /\ UNCHANGED mail

\* rx.recv(): the freed place goes to the sender that has waited longest.
Receive ==
    IF senders = <<>>
    THEN mail' = Tail(mail) /\ UNCHANGED senders
    ELSE mail' = Append(Tail(mail), Head(senders)) /\ senders' = Tail(senders)

\* The owner is inside actor.send(..).await.
Blocked(s) == \E i \in DOMAIN senders : senders[i].from = s

\* The owner task has returned: its queue is closed and its oneshots dropped.
Ended(s) == owner[s] = "ending" /\ ~Blocked(s)

-----------------------------------------------------------------------------
(* The frontend's commands. *)

\* Input and Resize are sent from inside TerminalFocusBroker::linearize.
ClientInput(c, s) ==
    /\ client[c] = "idle" /\ broker = None
    /\ broker' = c
    /\ client' = [client EXCEPT ![c] = "Input"]
    /\ Send([kind |-> "Input", from |-> c, session |-> s])
    /\ UNCHANGED <<actor, owner, commands, state, ack>>

\* Every other command, the reaper's tick included: no lock.
ClientRequest(c, s, k) ==
    /\ client[c] = "idle" /\ k # "Input"
    /\ client' = [client EXCEPT ![c] = k]
    /\ Send([kind |-> k, from |-> c, session |-> s])
    /\ UNCHANGED <<actor, owner, commands, state, ack, broker>>

\* reply.send(..): the client has its answer and leaves the lock.
Reply(c) ==
    /\ client' = [client EXCEPT ![c] = "idle"]
    /\ broker' = IF broker = c THEN None ELSE broker

-----------------------------------------------------------------------------
(* The actor. *)

\* owner.commands.try_send(..)
Accepts(s) == state[s] # "Closed" /\ ~Ended(s) /\ Len(commands[s]) < OwnerCap

Recv(k) == actor.pc = "recv" /\ mail # <<>> /\ Head(mail).kind = k /\ Receive

\* input and resize, refused: a stale fence, not Running, or the queue full.
RefuseInput ==
    /\ Recv("Input")
    /\ Reply(Head(mail).from)
    /\ UNCHANGED <<actor, owner, commands, state, ack>>

\* input and resize, handed to the owner: the actor now waits for it.
ForwardInput ==
    LET m == Head(mail) IN
    /\ Recv("Input") /\ state[m.session] = "Running" /\ Accepts(m.session)
    /\ commands' = [commands EXCEPT ![m.session] = Append(@, "Input")]
    /\ actor' = [pc |-> "ack", session |-> m.session, client |-> m.from]
    /\ UNCHANGED <<owner, state, ack, client, broker>>

\* Mutant: the end of the owner is not noticed.
AcknowledgedByReply ==
    /\ actor.pc = "ack"
    /\ ack # "none"
    /\ Reply(actor.client)
    /\ actor' = Receiving
    /\ ack' = "none"
    /\ UNCHANGED <<mail, senders, owner, commands, state>>

\* owner_response.await: an answer, or an error once the owner is gone.
Acknowledged ==
    /\ actor.pc = "ack"
    /\ ack # "none" \/ Ended(actor.session)
    /\ Reply(actor.client)
    /\ actor' = Receiving
    /\ ack' = "none"
    /\ UNCHANGED <<mail, senders, owner, commands, state>>

\* disconnect, and a detach that disconnects: the owner is told to close ...
HandleDisconnect ==
    LET m == Head(mail) IN
    /\ Recv("Disconnect") /\ Accepts(m.session)
    /\ commands' = [commands EXCEPT ![m.session] = Append(@, "Disconnect")]
    /\ state' = [state EXCEPT ![m.session] = "Disconnecting"]
    /\ Reply(m.from)
    /\ UNCHANGED <<actor, owner, ack>>

\* ... or the request is stale, the session closed or the owner's queue full.
RefuseDisconnect ==
    /\ Recv("Disconnect")
    /\ Reply(Head(mail).from)
    /\ UNCHANGED <<actor, owner, commands, state, ack>>

\* The requests the actor answers without waiting.
HandleOther ==
    /\ Recv("Other")
    /\ Reply(Head(mail).from)
    /\ UNCHANGED <<actor, owner, commands, state, ack>>

\* owner_output
HandleOutput ==
    /\ Recv("OwnerOutput")
    /\ UNCHANGED <<actor, owner, commands, state, ack, client, broker>>

\* owner_closed
HandleClosed ==
    /\ Recv("OwnerClosed")
    /\ state' = [state EXCEPT ![Head(mail).session] = "Closed"]
    /\ UNCHANGED <<actor, owner, commands, ack, client, broker>>

\* Aborting a task drops what it was sending.
AbortOwners(S, waiting) ==
    LET kept == {i \in DOMAIN waiting : waiting[i].from \notin S}
        nth(n) == CHOOSE i \in kept : Cardinality({j \in kept : j <= i}) = n
    IN  [n \in 1..Cardinality(kept) |-> waiting[nth(n)]]

\* shutdown_all: every owner is told to close; one whose queue is full is aborted.
BeginShutdownAll ==
    LET m     == Head(mail)
        told  == {s \in Sessions : Accepts(s)}
        cut   == {s \in Sessions : state[s] # "Closed" /\ ~Accepts(s)}
        room  == Tail(mail)
        after == AbortOwners(cut, senders)
    IN  /\ actor.pc = "recv" /\ mail # <<>> /\ m.kind = "ShutdownAll"
        /\ commands' = [s \in Sessions |->
                          IF s \in told THEN Append(commands[s], "DisconnectQuietly")
                          ELSE commands[s]]
        /\ owner' = [s \in Sessions |-> IF s \in cut THEN "ending" ELSE owner[s]]
        /\ mail' = IF after = <<>> THEN room ELSE Append(room, Head(after))
        /\ senders' = IF after = <<>> THEN after ELSE Tail(after)
        /\ actor' = [pc |-> "shutdown", session |-> None, client |-> m.from]
        /\ state' = [s \in Sessions |->
                       IF state[s] = "Closed" THEN "Closed" ELSE "Disconnecting"]
        /\ UNCHANGED <<ack, client, broker>>

\* wait_for_tasks is satisfied: the owners are dropped.
ShutdownSettles ==
    /\ actor.pc = "shutdown"
    /\ \A s \in Sessions : state[s] = "Closed" \/ Ended(s)
    /\ state' = [s \in Sessions |-> "Closed"]
    /\ Reply(actor.client)
    /\ actor' = Receiving
    /\ UNCHANGED <<mail, senders, owner, commands, ack>>

\* SHUTDOWN_TIMEOUT passes: the owners left are aborted; if they do not end
\* within SHUTDOWN_ABORT_GRACE the answer is CleanupIncomplete.
ShutdownTimesOut ==
    LET left == {s \in Sessions : state[s] # "Closed" /\ ~Ended(s)} IN
    /\ actor.pc = "shutdown" /\ left # {}
    /\ owner' = [s \in Sessions |-> IF s \in left THEN "ending" ELSE owner[s]]
    /\ senders' = AbortOwners(left, senders)
    /\ \/ state' = [s \in Sessions |-> "Closed"]
       \/ UNCHANGED state
    /\ Reply(actor.client)
    /\ actor' = Receiving
    /\ UNCHANGED <<mail, commands, ack>>

-----------------------------------------------------------------------------
(* The owners. *)

Selecting(s) == owner[s] = "run" /\ ~Blocked(s)

\* The biased select finds a command before it looks at the socket.
Takes(s, cmd) ==
    /\ Selecting(s) /\ commands[s] # <<>> /\ Head(commands[s]) = cmd
    /\ commands' = [commands EXCEPT ![s] = Tail(@)]

\* Mutant: the answer is forgotten when the write succeeds.
OwnerWritesSilently(s) ==
    /\ Takes(s, "Input")
    /\ UNCHANGED <<mail, senders, actor, owner, state, ack, client, broker>>

OwnerWrites(s) ==
    /\ Takes(s, "Input")
    /\ ack' = "ok"
    /\ UNCHANGED <<mail, senders, actor, owner, state, client, broker>>

Closes(s) ==
    /\ owner' = [owner EXCEPT ![s] = "ending"]
    /\ Send([kind |-> "OwnerClosed", from |-> s, session |-> s])

\* The write fails: the answer first, then the report, then the end.
OwnerWriteFails(s) ==
    /\ Takes(s, "Input")
    /\ ack' = "failed"
    /\ Closes(s)
    /\ UNCHANGED <<actor, state, client, broker>>

OwnerDisconnects(s) ==
    /\ Takes(s, "Disconnect")
    /\ Closes(s)
    /\ UNCHANGED <<actor, state, ack, client, broker>>

OwnerDisconnectsQuietly(s) ==
    /\ Takes(s, "DisconnectQuietly")
    /\ owner' = [owner EXCEPT ![s] = "ending"]
    /\ UNCHANGED <<mail, senders, actor, state, ack, client, broker>>

\* connection.next_event(): data for the actor ...
OwnerReads(s) ==
    /\ Selecting(s) /\ commands[s] = <<>>
    /\ Send([kind |-> "OwnerOutput", from |-> s, session |-> s])
    /\ UNCHANGED <<actor, owner, commands, state, ack, client, broker>>

\* ... or the end of the connection.
OwnerMeetsEnd(s) ==
    /\ Selecting(s) /\ commands[s] = <<>>
    /\ Closes(s)
    /\ UNCHANGED <<actor, commands, state, ack, client, broker>>

-----------------------------------------------------------------------------
ActorNext ==
    \/ RefuseInput \/ ForwardInput \/ Acknowledged
    \/ HandleDisconnect \/ RefuseDisconnect \/ HandleOther \/ HandleOutput \/ HandleClosed
    \/ BeginShutdownAll \/ ShutdownSettles \/ ShutdownTimesOut

OwnerObeys(s) ==
    OwnerWrites(s) \/ OwnerWriteFails(s) \/ OwnerDisconnects(s) \/ OwnerDisconnectsQuietly(s)

Next ==
    \/ ActorNext
    \/ \E s \in Sessions : OwnerObeys(s) \/ OwnerReads(s) \/ OwnerMeetsEnd(s)
    \/ \E c \in Clients, s \in Sessions :
          ClientInput(c, s) \/ \E k \in Requests : ClientRequest(c, s, k)

\* The runtime keeps polling the actor and the owners; nothing is assumed of
\* the frontend or of the remote hosts.
Fairness == WF_vars(ActorNext) /\ \A s \in Sessions : WF_vars(OwnerObeys(s))

Spec == Init /\ [][Next]_vars /\ Fairness

-----------------------------------------------------------------------------
(* Properties. *)

\* While the actor waits for an acknowledgement somebody can still give it: the
\* answer is there, the command is in the owner's queue, or the owner's end will
\* be noticed (oneshots of input and resize).  What keeps the owner from getting
\* on is at most that the actor's mailbox is full.
AckIsOwed ==
    LET s == actor.session IN
    actor.pc = "ack" =>
        \/ ack # "none"
        \/ /\ \/ owner[s] = "ending"
              \/ \E i \in DOMAIN commands[s] : commands[s][i] = "Input"
           /\ Blocked(s) => Len(mail) = MailCap

\* What the actor has yet to receive, in order.
Line == mail \o senders

\* No request is lost, sent twice or answered twice: a client that waits has one
\* request, in the line or with the actor, and the one that holds the broker's
\* lock is the one with an Input.
RequestIsHeld ==
    /\ \A i, j \in DOMAIN Line :
         Line[i].from = Line[j].from /\ Line[i].from \in Clients => i = j
    /\ \A c \in Clients :
         LET inLine == \E i \in DOMAIN Line : Line[i].from = c
         IN  IF client[c] = "idle" THEN actor.client # c /\ ~inLine
                                   ELSE (actor.client = c) # inLine
    /\ \A c \in Clients : broker = c <=> client[c] = "Input"

\* Every request is answered, unless from some moment on a sender always waits
\* for room in the actor's mailbox: nothing else can hold the service up.
AnsweredUnlessSaturated ==
    \/ \A c \in Clients : (client[c] # "idle") ~> (client[c] = "idle")
    \/ <>[](senders # <<>>)

\* The exit's ShutdownAll is always answered: shutdown_all says that it "cannot
\* wait behind a saturated writer mailbox".
ShutdownAllAnswered ==
    \A c \in Clients : (client[c] = "ShutdownAll") ~> (client[c] = "idle")

=============================================================================
