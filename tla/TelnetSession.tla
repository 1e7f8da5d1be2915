---------------------------- MODULE TelnetSession ---------------------------
(***************************************************************************)
(* The record of one Telnet session in src-tauri/src/                      *)
(* telnet_session_service.rs, the tasks that work for it, and its input    *)
(* lease.                                                                  *)
(*                                                                         *)
(* A generation is dialled by a connect task; when it succeeds the actor   *)
(* starts an owner task for the socket.  Both report to the actor by       *)
(* message, and messages and tasks of earlier generations linger.  The     *)
(* actor handles one message at a time, and none while it is inside        *)
(* shutdown_all.                                                           *)
(*                                                                         *)
(* A request that names another generation or revision than the record's   *)
(* is refused and changes nothing, so only current requests are actions;   *)
(* the same goes for replayed operations.  Running is entered once per     *)
(* generation, so the generation stands for the state revision and the     *)
(* socket id of a lease.  Output, replay and event numbers are left out.   *)
(***************************************************************************)
EXTENDS Naturals, Sequences, FiniteSets

CONSTANTS
    Views,          \* terminal views of the frontend
    MaxGen,         \* bound: generations of the session
    MaxAtt,         \* bound: attachments ever made
    MaxEpoch,       \* bound: focus epochs
    MaxPending      \* bound: focus invalidations not yet taken

ASSUME TelnetSessionAssumption ==
    /\ Views # {}
    /\ {MaxGen, MaxAtt, MaxEpoch, MaxPending} \subseteq Nat \ {0}

VARIABLES
    state,          \* summary.state
    gen,            \* summary.generation
    atts,           \* the attachment of each view, 0 for none
    nextAtt,        \* the next attachment id
    lease,          \* input_lease, or NoLease
    detachAfter,    \* detach_after_close, 0 for none
    connectAbort,   \* connect_abort is Some
    handle,         \* owner is Some
    live,           \* the session is in live_sessions
    dial,           \* the connect task of each generation
    owner,          \* the owner task of each generation
    mail,           \* their messages on the way to the actor
    invalidations,  \* focus_invalidations
    shutting,       \* the actor is inside shutdown_all ...
    waits           \* ... waiting for these of the session's tasks

session == <<state, gen, atts, nextAtt, detachAfter, connectAbort, handle, live>>
tasks == <<dial, owner, mail>>
focus == <<lease, invalidations>>
exit == <<shutting, waits>>
telnet == <<session, tasks, focus, exit>>

Gens == 1..MaxGen
States == {"None", "Connecting", "Running", "Disconnecting", "Closed", "Failed"}
Down == {"Closed", "Failed"}
Returned == {"ended", "silent", "cut"}     \* an owner that is finished
Active == {"Connecting", "Running", "Disconnecting"}
NoLease == [gen |-> 0, att |-> 0, view |-> 0, epoch |-> 0, expired |-> FALSE]
Leases == [gen : Gens, att : 1..MaxAtt, view : Views, epoch : 1..MaxEpoch, expired : BOOLEAN]

TypeOK ==
    /\ state \in States
    /\ gen \in 0..MaxGen
    /\ atts \in [Views -> 0..MaxAtt]
    /\ nextAtt \in 1..(MaxAtt + 1)
    /\ lease \in Leases \cup {NoLease}
    /\ detachAfter \in 0..MaxAtt
    /\ connectAbort \in BOOLEAN /\ handle \in BOOLEAN
    /\ live \in BOOLEAN /\ shutting \in BOOLEAN
    /\ dial \in [Gens -> {"idle", "dialing", "aborted", "cut", "ended"}]
    /\ owner \in [Gens -> {"idle", "run", "told", "quiet", "closing", "aborted"} \cup Returned]
    /\ mail \in SUBSET [kind : {"Connected", "ConnectFailed", "OwnerClosed", "OwnerFailed"},
                        gen : Gens]
    /\ invalidations \in Seq(Leases)
    /\ waits \in SUBSET {"dial", "owner"}

Init ==
    /\ state = "None" /\ gen = 0
    /\ atts = [v \in Views |-> 0] /\ nextAtt = 1
    /\ lease = NoLease
    /\ detachAfter = 0
    /\ connectAbort = FALSE /\ handle = FALSE /\ live = FALSE
    /\ dial = [g \in Gens |-> "idle"]
    /\ owner = [g \in Gens |-> "idle"]
    /\ mail = {}
    /\ invalidations = <<>>
    /\ shutting = FALSE /\ waits = {}

-----------------------------------------------------------------------------
(* What several handlers do. *)

\* take_input_lease(record, true): the focus actor is told.
TakeLease ==
    /\ lease' = NoLease
    /\ invalidations' = IF lease = NoLease THEN invalidations
                        ELSE Append(invalidations, lease)

\* Mutant: the lease outlives its attachment.
RevokeForNone(gone) == UNCHANGED focus

\* revoke_lease_for_attachment
RevokeFor(gone) == IF lease.att \in gone \ {0} THEN TakeLease ELSE UNCHANGED focus

\* remove_attachment, for the attachments of some views
WithoutViews(vs) == [v \in Views |-> IF v \in vs THEN 0 ELSE atts[v]]

\* Mutant: the session is not registered as an exit blocker.
StartDialUnlisted(g) ==
    /\ dial' = [dial EXCEPT ![g] = "dialing"]
    /\ connectAbort' = TRUE
    /\ UNCHANGED live

\* The connect task of a new generation.
StartDial(g) ==
    /\ dial' = [dial EXCEPT ![g] = "dialing"]
    /\ connectAbort' = TRUE
    /\ live' = TRUE

\* owner.commands.try_send(..): refused once the owner has returned.
OwnerListens == handle /\ owner[gen] \notin Returned

\* The owner reads the first Disconnect of its queue and then no more.
Tell(how) == owner' = IF owner[gen] = "run" THEN [owner EXCEPT ![gen] = how] ELSE owner

-----------------------------------------------------------------------------
(* The tasks. *)

Report(kind, g) == mail' = mail \cup {[kind |-> kind, gen |-> g]}

\* Connected or ConnectFailed; an abort may come too late to stop it.
DialReports(g, kind) ==
    /\ dial[g] \in {"dialing", "aborted"}
    /\ dial' = [dial EXCEPT ![g] = "ended"]
    /\ Report(kind, g)
    /\ UNCHANGED <<session, owner, focus, exit>>

DialCut(g) ==
    /\ dial[g] = "aborted"
    /\ dial' = [dial EXCEPT ![g] = "cut"]
    /\ UNCHANGED <<session, owner, mail, focus, exit>>

\* The remote side closes, or a read or a write fails.
OwnerMeetsEnd(g, kind) ==
    /\ owner[g] = "run"
    /\ owner' = [owner EXCEPT ![g] = "closing"]
    /\ Report(kind, g)
    /\ UNCHANGED <<session, dial, focus, exit>>

\* Mutant: the owner closes the connection and tells nobody.
OwnerDisconnectsSilently(g) ==
    /\ owner[g] = "told"
    /\ owner' = [owner EXCEPT ![g] = "closing"]
    /\ UNCHANGED <<session, dial, mail, focus, exit>>

\* OwnerCommand::Disconnect with notify_actor.
OwnerDisconnects(g) ==
    /\ owner[g] = "told"
    /\ owner' = [owner EXCEPT ![g] = "closing"]
    /\ Report("OwnerClosed", g)
    /\ UNCHANGED <<session, dial, focus, exit>>

\* The task returns: after its report, after a Disconnect that wants none, or cut.
OwnerReturns(g) ==
    /\ owner[g] \in {"closing", "quiet", "aborted"}
    /\ owner' = [owner EXCEPT ![g] = CASE @ = "closing" -> "ended"
                                       [] @ = "quiet"   -> "silent"
                                       [] @ = "aborted" -> "cut"]
    /\ UNCHANGED <<session, dial, mail, focus, exit>>

-----------------------------------------------------------------------------
(* The actor: messages of the tasks. *)

Receive(kind, g) ==
    /\ ~shutting
    /\ [kind |-> kind, gen |-> g] \in mail
    /\ mail' = mail \ {[kind |-> kind, gen |-> g]}

\* Mutant: connected does not look at the generation.
ConnectedAnyGeneration(g) ==
    /\ Receive("Connected", g)
    /\ IF state = "Connecting"
       THEN /\ connectAbort' = FALSE
            /\ state' = "Running"
            /\ handle' = TRUE
            /\ owner' = [owner EXCEPT ![g] = "run"]
            /\ UNCHANGED <<gen, atts, nextAtt, detachAfter, live>>
       ELSE UNCHANGED <<session, owner>>
    /\ UNCHANGED <<dial, focus, exit>>

\* connected: adopted, or disconnected at once when it comes too late.
Connected(g) ==
    /\ Receive("Connected", g)
    /\ IF g = gen /\ state = "Connecting"
       THEN /\ connectAbort' = FALSE
            /\ state' = "Running"
            /\ handle' = TRUE
            /\ owner' = [owner EXCEPT ![g] = "run"]
            /\ UNCHANGED <<gen, atts, nextAtt, detachAfter, live>>
       ELSE UNCHANGED <<session, owner>>
    /\ UNCHANGED <<dial, focus, exit>>

\* connect_failed
ConnectFailed(g) ==
    /\ Receive("ConnectFailed", g)
    /\ IF g = gen /\ state = "Connecting"
       THEN /\ connectAbort' = FALSE
            /\ state' = "Failed"
            /\ live' = FALSE
            /\ UNCHANGED <<gen, atts, nextAtt, detachAfter, handle>>
       ELSE UNCHANGED session
    /\ UNCHANGED <<dial, owner, focus, exit>>

\* owner_closed
OwnerClosed(g, kind) ==
    /\ Receive(kind, g)
    /\ IF g = gen /\ state \notin Down
       THEN /\ handle' = FALSE
            /\ state' = IF kind = "OwnerFailed" THEN "Failed" ELSE "Closed"
            /\ atts' = WithoutViews({v \in Views : atts[v] = detachAfter})
            /\ detachAfter' = 0
            /\ live' = FALSE
            /\ TakeLease
            /\ UNCHANGED <<gen, nextAtt, connectAbort>>
       ELSE UNCHANGED <<session, focus>>
    /\ UNCHANGED <<dial, owner, exit>>

-----------------------------------------------------------------------------
(* The actor: requests of the clients. *)

Open(v) ==
    /\ ~shutting /\ state = "None"
    /\ state' = "Connecting" /\ gen' = 1
    /\ atts' = [atts EXCEPT ![v] = nextAtt] /\ nextAtt' = nextAtt + 1
    /\ StartDial(1)
    /\ UNCHANGED <<detachAfter, handle, owner, mail, focus, exit>>

\* attach_once: a view has one attachment, the new one replaces the old.
Attach(v) ==
    /\ ~shutting /\ state # "None"
    /\ nextAtt <= MaxAtt
    /\ RevokeFor({atts[v]})
    /\ atts' = [atts EXCEPT ![v] = nextAtt] /\ nextAtt' = nextAtt + 1
    /\ UNCHANGED <<state, gen, detachAfter, connectAbort, handle, live, tasks, exit>>

\* detach_once by a renderer that goes away, and reap_stale_attachments.
DropViews(vs) ==
    /\ ~shutting
    /\ vs # {} /\ \A v \in vs : atts[v] # 0
    /\ RevokeFor({atts[v] : v \in vs})
    /\ atts' = WithoutViews(vs)
    /\ UNCHANGED <<state, gen, nextAtt, detachAfter, connectAbort, handle, live, tasks, exit>>

\* detach_once by the user: the last attachment of an active session takes the
\* connection with it, at once or (detach_after_close) when the owner has closed.
Detach(v) ==
    LET last == {w \in Views : atts[w] # 0} = {v} /\ state \in Active IN
    /\ ~shutting /\ atts[v] # 0
    /\ \/ /\ ~last
          /\ atts' = WithoutViews({v})
          /\ RevokeFor({atts[v]})
          /\ UNCHANGED <<state, detachAfter, connectAbort, live, dial, owner>>
       \/ /\ last /\ connectAbort
          /\ dial' = [dial EXCEPT ![gen] = IF @ = "dialing" THEN "aborted" ELSE @]
          /\ state' = "Closed" /\ connectAbort' = FALSE /\ live' = FALSE
          /\ atts' = WithoutViews({v}) /\ detachAfter' = 0
          /\ TakeLease
          /\ UNCHANGED owner
       \/ /\ last /\ ~connectAbort
          /\ detachAfter' = atts[v]
          /\ TakeLease
          /\ IF OwnerListens THEN Tell("told") /\ state' = "Disconnecting"
                             ELSE UNCHANGED <<owner, state>>
          /\ UNCHANGED <<atts, connectAbort, live, dial>>
    /\ UNCHANGED <<gen, nextAtt, handle, mail, exit>>

\* disconnect: a dial is aborted, an owner is told.
Disconnect ==
    /\ ~shutting /\ state \in Active
    /\ TakeLease
    /\ \/ /\ connectAbort
          /\ dial' = [dial EXCEPT ![gen] = IF @ = "dialing" THEN "aborted" ELSE @]
          /\ state' = "Closed" /\ connectAbort' = FALSE /\ live' = FALSE
          /\ UNCHANGED owner
       \/ /\ ~connectAbort
          /\ IF OwnerListens THEN Tell("told") /\ state' = "Disconnecting"
                             ELSE UNCHANGED <<owner, state>>
          /\ UNCHANGED <<connectAbort, live, dial>>
    /\ UNCHANGED <<gen, atts, nextAtt, detachAfter, handle, mail, exit>>

\* reconnect_once
Reconnect ==
    /\ ~shutting
    /\ state \in Down /\ ~handle /\ ~connectAbort
    /\ gen < MaxGen
    /\ gen' = gen + 1 /\ state' = "Connecting"
    /\ TakeLease
    /\ StartDial(gen + 1)
    /\ UNCHANGED <<atts, nextAtt, detachAfter, handle, owner, mail, exit>>

-----------------------------------------------------------------------------
(* The input lease. *)

\* grant_input to a target that is still there.
Grantable(t) == state = "Running" /\ t.gen = gen /\ atts[t.view] = t.att

GrantInput(t, e) ==
    /\ ~shutting /\ Grantable(t)
    /\ IF lease = [gen |-> t.gen, att |-> t.att, view |-> t.view, epoch |-> e, expired |-> FALSE]
       THEN UNCHANGED focus
       ELSE /\ invalidations' = IF lease = NoLease THEN invalidations
                                ELSE Append(invalidations, lease)
            /\ lease' = [gen |-> t.gen, att |-> t.att, view |-> t.view,
                         epoch |-> e, expired |-> FALSE]
    /\ UNCHANGED <<session, tasks, exit>>

\* revoke_input: the caller has moved the focus, nobody is told.
RevokeInput(e) ==
    /\ ~shutting /\ lease # NoLease /\ lease.epoch = e
    /\ lease' = NoLease
    /\ UNCHANGED <<session, tasks, invalidations, exit>>

LeaseExpires ==
    /\ lease # NoLease /\ ~lease.expired
    /\ lease' = [lease EXCEPT !.expired = TRUE]
    /\ UNCHANGED <<session, tasks, invalidations, exit>>

-----------------------------------------------------------------------------
(* shutdown_all. *)

BeginShutdown ==
    /\ ~shutting /\ state # "None"
    /\ shutting' = TRUE
    /\ waits' = (IF connectAbort THEN {"dial"} ELSE {}) \cup (IF handle THEN {"owner"} ELSE {})
    /\ dial' = IF connectAbort /\ dial[gen] = "dialing"
               THEN [dial EXCEPT ![gen] = "aborted"] ELSE dial
    /\ connectAbort' = FALSE
    /\ TakeLease
    /\ IF OwnerListens THEN Tell("quiet") ELSE UNCHANGED owner
    /\ state' = IF state \in Down THEN state ELSE "Disconnecting"
    /\ UNCHANGED <<gen, atts, nextAtt, detachAfter, handle, live, mail>>

\* wait_for_tasks
TasksFinished ==
    /\ "dial" \in waits => dial[gen] \in {"cut", "ended"}
    /\ "owner" \in waits => owner[gen] \in Returned

ShutdownSettles ==
    /\ shutting /\ TasksFinished
    /\ shutting' = FALSE /\ waits' = {}
    /\ handle' = FALSE /\ connectAbort' = FALSE
    /\ state' = IF state \in Down THEN state ELSE "Closed"
    /\ live' = FALSE
    /\ UNCHANGED <<gen, atts, nextAtt, detachAfter, tasks, focus>>

\* SHUTDOWN_TIMEOUT: what has not finished is aborted.
ShutdownAborts ==
    /\ shutting /\ ~TasksFinished
    /\ dial' = IF "dial" \in waits /\ dial[gen] = "dialing"
               THEN [dial EXCEPT ![gen] = "aborted"] ELSE dial
    /\ owner' = IF "owner" \in waits /\ owner[gen] \in {"run", "told", "quiet", "closing"}
                THEN [owner EXCEPT ![gen] = "aborted"] ELSE owner
    /\ UNCHANGED <<session, mail, focus, exit>>

\* SHUTDOWN_ABORT_GRACE: a task has not finished, of this session or of another
\* one.  CleanupIncomplete; every record is left as it is, also the one of a
\* session whose own tasks are all gone.
ShutdownGivesUp ==
    /\ shutting
    /\ "dial" \in waits => dial[gen] # "dialing"
    /\ "owner" \in waits => owner[gen] \in {"aborted"} \cup Returned
    /\ shutting' = FALSE /\ waits' = {}
    /\ UNCHANGED <<session, tasks, focus>>

-----------------------------------------------------------------------------
\* The focus coordinator takes the next invalidation.
TakeInvalidation ==
    /\ invalidations # <<>>
    /\ invalidations' = Tail(invalidations)
    /\ UNCHANGED <<session, tasks, lease, exit>>

TaskNext(g) ==
    \/ \E k \in {"Connected", "ConnectFailed"} : DialReports(g, k)
    \/ DialCut(g)
    \/ \E k \in {"OwnerClosed", "OwnerFailed"} : OwnerMeetsEnd(g, k)
    \/ OwnerDisconnects(g) \/ OwnerReturns(g)

ActorNext(g) ==
    \/ Connected(g) \/ ConnectFailed(g)
    \/ \E k \in {"OwnerClosed", "OwnerFailed"} : OwnerClosed(g, k)

ShutdownNext == ShutdownSettles \/ ShutdownAborts \/ ShutdownGivesUp

\* Everything but the focus broker's calls.
LifeNext ==
    \/ \E g \in Gens : TaskNext(g) \/ ActorNext(g)
    \/ \E v \in Views : Open(v) \/ Attach(v) \/ Detach(v)
    \/ \E vs \in SUBSET Views : DropViews(vs)
    \/ Disconnect \/ Reconnect \/ LeaseExpires
    \/ BeginShutdown \/ ShutdownNext

Next ==
    \/ LifeNext
    \/ \E g \in Gens, a \in 1..MaxAtt, v \in Views, e \in 1..MaxEpoch :
          /\ Len(invalidations) + 1 < MaxPending
          /\ GrantInput([gen |-> g, att |-> a, view |-> v], e)
    \/ \E e \in 1..MaxEpoch : RevokeInput(e)
    \/ TakeInvalidation

\* shutdown_all is bounded by its two timeouts.  Nothing is assumed of the rest:
\* an actor that waits for an owner's acknowledgement takes no messages, and a
\* task may wait for room in its mailbox (TelnetMailbox).
Fairness == WF_telnet(ShutdownNext)

Spec == Init /\ [][Next]_telnet /\ Fairness

-----------------------------------------------------------------------------
(* Properties. *)

\* A lease is held only on a running session, in its current generation, by an
\* attachment its view still has (input_lease against every handler that ends
\* a session, drops an attachment or starts a generation).
LeaseAnchored ==
    lease # NoLease => state = "Running" /\ lease.gen = gen /\ atts[lease.view] = lease.att

\* An owner task that nobody has told to stop is the one of the current
\* generation, and the record of the running session has its handle.
NoOrphanedOwner ==
    \A g \in Gens : owner[g] = "run" => g = gen /\ handle /\ state = "Running"

\* Whatever dials or holds a connection keeps the session among the exit blockers.
WorkBlocksExit ==
    /\ \A g \in Gens : dial[g] = "dialing" \/ owner[g] \in {"run", "told", "quiet"} => live
    /\ state \in Active => live

\* The mailbox is served: the actor takes the messages of the tasks (a mailbox is
\* first in, first out, so one shutdown_all after the other does not hold them up
\* for ever), and an owner that is told to disconnect gets its report in.
MailboxServed ==
    \A g \in Gens : SF_telnet(ActorNext(g)) /\ WF_telnet(OwnerDisconnects(g))

\* A shutdown_all that gave up has left the session without a task that would
\* report its end: it was dialling, or its owner was told to be silent or is cut.
Abandoned == ~shutting /\ gen # 0 /\ owner[gen] \in {"idle", "silent", "aborted", "cut"}

\* A session that is being disconnected comes to rest, unless the mailbox is
\* stuck or a shutdown_all has given up: the owner of a disconnect reports its end
\* whatever ended it, and the report counts for the record it is about
\* (disconnect_record, run_owner, owner_closed, shutdown_all).
DisconnectEnds ==
    MailboxServed => (state = "Disconnecting" ~> state \in Down \/ Abandoned)

=============================================================================
