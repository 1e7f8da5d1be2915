---------------------------- MODULE TerminalFocus ---------------------------
(***************************************************************************)
(* Which terminal may write: the process-wide input focus of               *)
(* src-tauri/src/ssh_session_service.rs and terminal_focus_broker.rs       *)
(* together with the Telnet session of TelnetSession and one SSH session.  *)
(*                                                                         *)
(* The SSH actor keeps the focus (epoch and target) and the leases of its  *)
(* own sessions.  A focus change that involves Telnet is a conversation    *)
(* with two actors: commit the focus, revoke the lease of the previous     *)
(* target, grant the new one, roll back if that fails, and compare with    *)
(* the focus once more.  It runs inside the broker's lock, as do Telnet    *)
(* input, the coordinator that clears the focus of a Telnet session that   *)
(* lost its lease, and the SSH actor's own focus commands.  What happens   *)
(* to the sessions themselves takes no lock.                               *)
(*                                                                         *)
(* A client's expected epoch is one it has seen, so it is at most the one  *)
(* the operation finds; an older one is refused and changes nothing.       *)
(***************************************************************************)
EXTENDS TelnetSession

VARIABLES
    epoch,      \* focus_epoch
    target,     \* focused_target
    ssh,        \* the SSH session: "down", "automating" (its login) or "running"
    sshLease,   \* the focus epoch of its input lease, 0 for none
    op          \* the operation inside the broker's lock

broker == <<epoch, target, ssh, sshLease, op>>
vars == <<telnet, broker>>

Nobody == [kind |-> "none", gen |-> 0, att |-> 0, view |-> 0]
Ssh == [kind |-> "ssh", gen |-> 0, att |-> 0, view |-> 0]
Telnet(t) == [kind |-> "telnet", gen |-> t.gen, att |-> t.att, view |-> t.view]
Targets == {Nobody, Ssh} \cup [kind : {"telnet"}, gen : Gens, att : 1..MaxAtt, view : Views]
NoOp == [pc |-> "idle", want |-> Nobody, prev |-> Nobody, at |-> 0]

FocusTypeOK ==
    /\ epoch \in 0..MaxEpoch
    /\ target \in Targets
    /\ ssh \in {"down", "automating", "running"}
    /\ sshLease \in 0..MaxEpoch
    /\ op \in [pc : {"idle", "commit", "revoke", "grant", "rollback", "check", "undo", "write"},
               want : Targets, prev : Targets, at : 0..MaxEpoch]

FocusInit ==
    /\ Init
    /\ epoch = 0 /\ target = Nobody
    /\ ssh = "down" /\ sshLease = 0
    /\ op = NoOp

-----------------------------------------------------------------------------
(* The SSH actor's focus. *)

\* Mutant: a target is cleared without a new epoch.
MoveFocusSameEpoch(t) ==
    /\ epoch < MaxEpoch
    /\ epoch' = IF t = Nobody THEN epoch ELSE epoch + 1
    /\ target' = t
    /\ sshLease' = IF t = Ssh THEN epoch' ELSE IF target = Ssh THEN 0 ELSE sshLease

\* revoke_focused_lease, a new epoch, and the lease of an SSH target.
MoveFocus(t) ==
    /\ epoch < MaxEpoch
    /\ epoch' = epoch + 1
    /\ target' = t
    /\ sshLease' = IF t = Ssh THEN epoch' ELSE IF target = Ssh THEN 0 ELSE sshLease

Unmoved == UNCHANGED <<epoch, target, sshLease>>

\* terminal_focus_change_once: a stale epoch or an SSH target that is not running
\* is refused; a Telnet target is not looked at.
MayMove(t, expected) == epoch = expected /\ (t = Ssh => ssh = "running")

-----------------------------------------------------------------------------
(* terminal_input_focus_change, one step per message to an actor. *)

\* The snapshot of the previous focus.
FocusBegin(t) ==
    /\ op = NoOp
    /\ op' = [pc |-> "commit", want |-> t, prev |-> target, at |-> epoch]
    /\ UNCHANGED <<telnet, epoch, target, ssh, sshLease>>

FocusCommit ==
    /\ op.pc = "commit"
    /\ IF MayMove(op.want, op.at)
       THEN MoveFocus(op.want) /\ op' = [op EXCEPT !.pc = "revoke"]
       ELSE Unmoved /\ op' = NoOp
    /\ UNCHANGED <<telnet, ssh>>

\* telnet.revoke_input of the previous target; another epoch's lease is kept.
FocusRevokePrevious ==
    /\ op.pc = "revoke" /\ ~shutting
    /\ IF op.prev.kind = "telnet" /\ lease # NoLease /\ lease.epoch = op.at
       THEN RevokeInput(op.at)
       ELSE UNCHANGED telnet
    /\ op' = [op EXCEPT !.pc = IF op.want.kind = "telnet" THEN "grant" ELSE "check"]
    /\ UNCHANGED <<epoch, target, ssh, sshLease>>

FocusGrant ==
    /\ op.pc = "grant" /\ ~shutting
    /\ IF Grantable(op.want)
       THEN GrantInput(op.want, op.at + 1) /\ op' = [op EXCEPT !.pc = "check"]
       ELSE UNCHANGED telnet /\ op' = [op EXCEPT !.pc = "rollback"]
    /\ UNCHANGED <<epoch, target, ssh, sshLease>>

\* Mutant: the error is returned without a rollback.
FocusRollbackNot ==
    /\ op.pc = "rollback"
    /\ Unmoved
    /\ op' = NoOp
    /\ UNCHANGED <<telnet, ssh>>

FocusRollback ==
    /\ op.pc = "rollback"
    /\ IF MayMove(Nobody, op.at + 1) THEN MoveFocus(Nobody) ELSE Unmoved
    /\ op' = NoOp
    /\ UNCHANGED <<telnet, ssh>>

\* The canonical snapshot: has the focus moved while the lease was granted?
FocusCheck ==
    /\ op.pc = "check"
    /\ op' = IF (epoch = op.at + 1 /\ target = op.want) \/ op.want.kind # "telnet"
             THEN NoOp ELSE [op EXCEPT !.pc = "undo"]
    /\ UNCHANGED <<telnet, epoch, target, ssh, sshLease>>

FocusUndo ==
    /\ op.pc = "undo" /\ ~shutting
    /\ IF lease # NoLease /\ lease.epoch = op.at + 1 THEN RevokeInput(op.at + 1)
       ELSE UNCHANGED telnet
    /\ op' = NoOp
    /\ UNCHANGED <<epoch, target, ssh, sshLease>>

-----------------------------------------------------------------------------
(* The other operations inside the lock. *)

\* ssh_terminal_input_focus_change: the SSH actor alone.
SshFocusChange(t) ==
    /\ op = NoOp
    /\ t \in {Nobody, Ssh} /\ MayMove(t, epoch)
    /\ MoveFocus(t)
    /\ UNCHANGED <<telnet, ssh, op>>

\* Mutant: the takeover does not enter the broker's lock.
TakeOverUnlocked ==
    /\ ssh = "automating"
    /\ ssh' = "running"
    /\ MoveFocus(Ssh)
    /\ UNCHANGED <<telnet, op>>

\* ssh_terminal_login_automation_takeover: the user stops the automation of a
\* login and types on.
TakeOver ==
    /\ op = NoOp
    /\ ssh = "automating"
    /\ ssh' = "running"
    /\ MoveFocus(Ssh)
    /\ UNCHANGED <<telnet, op>>

\* Mutant: the coordinator compares the attachment and not the epoch.
InvalidatesAnyEpoch(i) == target = Telnet(i)

\* clear_telnet_focus_exact
Invalidates(i) == epoch = i.epoch /\ target = Telnet(i)

\* The coordinator of ensure_focus_coordinator.
Coordinate ==
    /\ op = NoOp
    /\ TakeInvalidation
    /\ IF Invalidates(Head(invalidations)) THEN MoveFocus(Nobody) ELSE Unmoved
    /\ UNCHANGED <<ssh, op>>

\* telnet_terminal_input and _resize: require_wire_focus, ...
InputBegin ==
    /\ op = NoOp /\ target.kind = "telnet"
    /\ op' = [pc |-> "write", want |-> target, prev |-> Nobody, at |-> epoch]
    /\ UNCHANGED <<telnet, epoch, target, ssh, sshLease>>

\* ... and the Telnet actor's own look at the lease.
MayWrite ==
    /\ state = "Running" /\ lease # NoLease /\ ~lease.expired
    /\ lease.epoch = op.at /\ Telnet(lease) = op.want

TelnetWrite ==
    /\ op.pc = "write" /\ ~shutting /\ MayWrite
    /\ op' = NoOp
    /\ UNCHANGED <<telnet, epoch, target, ssh, sshLease>>

TelnetRefuse ==
    /\ op.pc = "write" /\ ~shutting /\ ~MayWrite
    /\ op' = NoOp
    /\ UNCHANGED <<telnet, epoch, target, ssh, sshLease>>

-----------------------------------------------------------------------------
(* Outside the lock. *)

SshStarts(s) ==
    /\ ssh = "down" /\ s \in {"automating", "running"}
    /\ ssh' = s
    /\ Unmoved
    /\ UNCHANGED <<telnet, op>>

SshAutomationEnds ==
    /\ ssh = "automating"
    /\ ssh' = "running"
    /\ Unmoved
    /\ UNCHANGED <<telnet, op>>

\* transition to a state that is not Running, shell_closed, disconnect, reconnect
SshStops ==
    /\ ssh # "down"
    /\ ssh' = "down"
    /\ IF target = Ssh THEN MoveFocus(Nobody) ELSE Unmoved
    /\ UNCHANGED <<telnet, op>>

\* reap_stale_attachments, attach_once and detach_once take the focused view away.
SshViewGoes ==
    /\ target = Ssh
    /\ MoveFocus(Nobody)
    /\ UNCHANGED <<telnet, ssh, op>>

\* begin_shutdown of the SSH actor
SshShutdown ==
    /\ MoveFocus(Nobody)
    /\ ssh' = "down"
    /\ UNCHANGED <<telnet, op>>

-----------------------------------------------------------------------------
FocusNext ==
    \/ LifeNext /\ UNCHANGED broker
    \/ \E t \in Targets : FocusBegin(t) \/ SshFocusChange(t)
    \/ FocusCommit \/ FocusRevokePrevious \/ FocusGrant \/ FocusRollback
    \/ FocusCheck \/ FocusUndo
    \/ TakeOver \/ Coordinate
    \/ InputBegin \/ TelnetWrite \/ TelnetRefuse
    \/ \E s \in {"automating", "running"} : SshStarts(s)
    \/ SshAutomationEnds \/ SshStops \/ SshViewGoes \/ SshShutdown

FocusSpec == FocusInit /\ [][FocusNext]_vars

-----------------------------------------------------------------------------
(* Properties. *)

\* A lease of the current epoch, in whichever actor, belongs to the terminal
\* that has the focus: no two terminals can be written to in one epoch.
OneInputOwner ==
    /\ lease # NoLease /\ lease.epoch = epoch => target = Telnet(lease)
    /\ sshLease # 0 => sshLease = epoch /\ target = Ssh

\* A Telnet session that has the focus still has the lease of this epoch, or the
\* news that it was taken is on its way to the coordinator, or a focus change is at
\* work: the focus never rests on a session whose lease was taken unnoticed.  The
\* lease may have expired (FocusTakesInput).
FocusBacked ==
    target.kind = "telnet" /\ op.pc \notin {"revoke", "grant", "rollback"} =>
        \/ lease.epoch = epoch /\ Telnet(lease) = target
        \/ \E i \in DOMAIN invalidations : Invalidates(invalidations[i])

\* The same of a lease that validate_lease_fields accepts.  It does not hold: a lease
\* that runs out (reap_stale_attachments leaves it in place and tells nobody) keeps
\* the focus on a terminal that refuses input until the next focus change.
FocusTakesInput ==
    target.kind = "telnet" /\ op = NoOp /\ invalidations = <<>> => ~lease.expired

\* Telnet input is written while its session has the focus, or has just lost it
\* to nobody (begin_shutdown): never while another terminal has it.
NoMisdirectedWrite == [][TelnetWrite => target \in {op.want, Nobody}]_vars

\* The coordinator takes the focus only from a session without a current lease:
\* news of an old lease never takes away a newer focus (clear_telnet_focus_exact).
CoordinatorExact ==
    [][Coordinate /\ target' # target => lease.epoch # epoch]_vars

\* The Telnet module says that its lease is revoked "on every global focus
\* change": outside the lock no lease of an older epoch is left.
RevokedOnFocusChange == op = NoOp /\ lease # NoLease => lease.epoch = epoch

=============================================================================
