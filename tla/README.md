# NoriShell, modelled and checked in TLA+

NoriShell is a desktop and Android SSH client: a Rust core under `src-tauri/`
and `crates/`, driven over Tauri commands by a Vue frontend. This directory
holds TLA+ modules of the parts of the core whose correctness depends on the
order in which concurrent things happen, the TLC configurations that check
them, and TLAPS proofs of the results that hold for every size of the system.

Run inside this directory:

    tlc -workers 2 -config MCLifecycle.cfg MCLifecycle
    tlapm LifecycleProofs.tla

`PROJECT.json` lists the runs, the source lines each definition stands for, the
hazards the properties are aimed at, a mutant of the code for every property
(a plausible bug the property would catch) and the theorems.

## 1. The system

| Component | State it keeps | Operations | Talks to |
|---|---|---|---|
| Lifecycle gate (`lifecycle.rs`) | phase, count of creation permits, `Notify` | acquire/drop permit, begin/cancel cleanup, exit, update, unattended exit | every owner of resources (`shutdown_all`, `exit_blockers`), tool windows |
| Tool windows and their exit permit (`tool_windows.rs`, `tool_window_exit.rs`, `tool-window-exit.ts`) | the registry of labels; the pending attempt and the windows it waits for; each renderer's attempt | open, close, destroyed; prepare, reply, commit, drop | lifecycle, renderer |
| SSH session actor (`ssh_session_service.rs`) | one record per session: state, generation, revision, shell, challenges, attachments, lease, output ring, login automation | open, attach, detach, reconnect, disconnect, decide, answer, input, resize, shutdown | connect tasks, shell workers, heartbeats, clients |
| Connection orchestrator (`ssh_connection_orchestrator.rs`) | none | connect over jump hosts, authenticate | transport, host-key verifier, prompt handler |
| Operation ledger (`ssh_operation_ledger.rs`) | bounded FIFO of finished operations | lookup, record | the control commands of the SSH actor |
| Terminal focus broker (`terminal_focus_broker.rs`) | focus epoch and target, write fences | linearize focus changes and input | SSH, telnet and plugin terminals |
| Telnet actor (`telnet_session_service.rs`) | one record per session: state, generation, attachments, input lease, owner and connect handles; one bounded mailbox | open, attach, detach, reconnect, disconnect, grant/revoke lease, input, shutdown | connect and owner tasks, focus coordinator, clients |
| SFTP sessions (`sftp_session_service.rs`) | session records, transfer records, one queue and one channel per session, controls of running transfers | enqueue, start next, run, commit, cancel, restart, retry cleanup, retain, disconnect, reopen, shut down | SSH transport, lifecycle, `SftpView.vue` |
| Forwarding, metrics sessions | listeners, samples | open, run, shut down | SSH transport, lifecycle |
| Vault (`vault_service.rs`, `crates/secret-vault`) | one unlocked instance of the vault file | unlock, lock, insert, delete, persist | hosts, credentials, connect tasks |
| Staged secrets (`host_service.rs`, two tables of `app-persistence`) | one row per staged secret, poison flags | stage, cancel, consume, expire, reconcile | vault, host and profile saves |
| Plugin credentials (`plugin_credential_service.rs`, `api_credentials.rs`) | one row per credential, futures and jobs of the API | create, cancel, revoke, clean up, uninstall, recover | vault, plugin platform |
| Plugins (`plugin_service.rs`, `plugin_resources`, `plugin_task_service.rs`) | installed versions, host processes, grants, leases, tasks | install, activate, call, revoke | nearly everything |
| Profile sync (`crates/ssh-profile-sync`, `ssh_sync_exchange*.rs`) | local base, remote revision | merge, exchange | self-hosted server |
| Persistence (`crates/app-persistence`) | SQLite | transactions, migrations | all services |
| Frontend (`src/`), RDP/VNC codecs, vendored crates | presentation, codecs | | |

Hard behaviours, and where the code meets them:

- *Interleaving threads*: the gate is a pair of atomics and a `Notify`, used by
  every command thread at once.
- *Messages from the past*: connect tasks, shell workers and heartbeats of an
  earlier generation go on sending to the actor after a reconnect; clients act
  on revisions they saw some time ago.
- *Aborts that come too late*: `AbortHandle::abort` takes effect at the task's
  next suspension, a stop signal when the worker gets to it.
- *Conversations between actors*: a focus change commits in the SSH actor,
  revokes and grants in the Telnet actor and rolls back when that fails, while
  both sessions go on living.
- *Waiting in a circle*: the Telnet actor waits for its owner tasks, and they
  for room in its mailbox.
- *Partial failure*: five owners shut down concurrently and each may fail; a
  commit may report an error after it took effect.
- *Timeouts racing answers*: prompts, shutdown deadlines, the unattended exit.
- *Two stores and a crash between them*: a secret is a SQLite row and a vault
  entry. The process may die between any two writes, and a loss of power may undo
  a rename whose directory was not synced.
- *Dropped futures*: an API call may be dropped at any await while the blocking
  jobs it spawned run on.

What makes each part correct:

- gate: behind the drained fence nothing is created; nothing is ended without
  consent; the process ends only when nothing is live; drains terminate.
- tool windows: one editor per target; the permit is given only when no editor
  is open and none opens until it is dropped; `prepare` always returns.
- SSH session: what an earlier generation sends is inert; no shell runs
  that nobody owns; no host is authenticated to before its key is trusted; what
  is at work keeps the application alive; attempts end; shutdown waits for
  exactly the cleanup it started.
- Telnet session: a lease belongs to the current attachment of a running
  generation; no socket is held by a task nobody can stop; late messages are
  inert; every request is answered; disconnecting ends. (The last two have
  exceptions in the code: section 4.)
- terminal focus: in one epoch one terminal can be written to; a terminal that
  has the focus also has its lease, or is about to lose the focus; news of an
  old lease never takes a newer focus away.
- SFTP transfers: completion is true; the one channel has one owner; the queue
  loses no transfer and no wake-up; a final state stays.
- staged secrets and plugin credentials: what a row offers is durably in the
  vault, with the value its caller sent; what is abandoned is cleaned up; nothing
  is taken back that was published.

## 2. Modules

| Module | Models | Role |
|---|---|---|
| `ExitPermit` | what `ToolWindowExit::prepare` promises to the exit commands | abstract specification |
| `Lifecycle` | `lifecycle.rs`, the exit event of `lib.rs`, the update flow of `appUpdate.ts` | specification, properties, inductive invariant; uses `ExitPermit` |
| `ToolWindowExit` | `tool_windows.rs`, `tool_window_exit.rs`, `tool-window-exit.ts` | specification, properties; implements `ExitPermit` |
| `SshSession` | the life of one session of `ssh_session_service.rs` with `ssh_connection_orchestrator.rs` | specification, properties |
| `TelnetMailbox` | who waits for whom in `telnet_session_service.rs` | specification, properties |
| `TelnetSession` | the record of one Telnet session, its tasks and its input lease | specification, properties |
| `TerminalFocus` | the focus of `ssh_session_service.rs` and the lock of `terminal_focus_broker.rs` | extends `TelnetSession` with the broker and one SSH session |
| `SftpActor` | the transfer records of `sftp_session_service.rs`: what each operation makes of one | operators |
| `SftpTransfer` | the service around them: queue, channel, tasks, cancels, retries, shutdown | specification, properties |
| `SecretVault` | the unlocked vault, its file, and what a crash leaves of it | component of the two below |
| `SecretCustody` | what a secret kept as a row and a vault entry promises | abstract specification |
| `SecretStage` | the staged secrets of `host_service.rs` | specification, properties; implements `SecretCustody` |
| `PluginCredential` | the credentials of plugins | specification, properties; implements `SecretCustody` |
| `MC...` | | instances for TLC |
| `...Proofs` | | theorems (section 5) |

A definition called `XyzTwice`, `XyzUnchecked`, ... with a comment that begins
"Mutant:" is a faulty variant of the operation that follows it. It is not part
of the specification; it is what the mutants of `PROJECT.json` put in its place.

### 2.1 Lifecycle

`phase` and `active` are the two atomics, and each load, store, `fetch_add`,
`fetch_sub` and `compare_exchange` is one step. `creator[c]` is the place of a
command thread inside `acquire_resource_creation` or the permit's `Drop`;
`pc[t]` that of an exit, update or unattended-exit command. `woken` are the
tasks whose `Notified` future has been notified: `notify_waiters` wakes the
futures that have been *created*, polled or not, which is why `NotifyWaiters`
reaches a task that has not come to its `await` yet. `attempt` and
`updatePermit` are the tool-window permit in its two homes. `live` are the
resources the owners would report as blockers; the stages of
`shutdown_all_resources` (plugins first, then the session owners, then remote
desktops) remove them, and each stage may fail and leave any of its resources.

Choices worth knowing:

- The atomics are sequentially consistent. Every load that matters follows an
  `AcqRel` read-modify-write, which is a full barrier on the build's targets.
- Android's unattended exit goes on when it does not own the fence and exits
  after 12 s whatever happens. `NothingLeftBehind` and `NoCreatorBehindFence`
  therefore exclude it, explicitly.
- `release_update_cancel_install` lowers the fence without asking who raised
  it; the frontend calls it only in the flow that has fenced (`appUpdate.ts`,
  `if (fenced)`), and so does the model.
- A desktop update that fails to install after it was prepared leaves the phase
  at CLEANING until the next start; the code has no way back on the desktop.
- That an owner's `shutdown_all` reports success only when nothing of its own
  is left is assumed here; section 4 reports where the SSH owner departs from it.

### 2.2 SshSession

One actor, one FIFO mailbox (`mailbox`), one action per message. Beside it run
the connect task (`cpc`, `hop`, `rounds`, `reply`) and the shell worker
(`worker`, `signal`) of *each* generation, so that tasks and workers of earlier
generations go on sending. `requests` are client commands in flight; each was
sent against the record's generation and revision and is `fresh` until either
changes. Only equality of revisions is ever tested by the code, so a number is
not needed. `pinned` is the known-hosts store, `live` membership in
`live_sessions`, `waiter` the pending reply of `shutdown_all`.

- The first stop signal travels through a watch channel and is always
  delivered; a later one can only be queued behind input (`SignalAccepted`).
- An aborted connect task may take more steps before it ends.
- `Detach` is the confirmed *disconnect and detach*; other detaches change
  attachments only. Opening and the client's inputs are those the frontend
  sends (it never confirms a `rendererUnavailable` detach).
- A reconnect holds a creation permit, and `shutdown_all` is called behind the
  drained gate, so the two do not overlap (`GateDrained`; proved of the gate as
  `NoCreatorBehindFenceHolds`).
- Login automation is one choice at `ShellReady` and one step that ends it.

### 2.3 TelnetMailbox

The actor's mailbox is a bounded sequence; `actor` says what the actor waits for
(nothing, the acknowledgement of an owner, the end of all owners) and each
session has an owner task with its own command queue. Who sends to a full
mailbox joins `senders`, the tasks inside `send(..).await`, in order. An
Input or a Resize waits for the owner's oneshot *without* a timeout;
`shutdown_all` waits with one and then aborts. The content of messages, leases
and generations are not in this module; every refusal they can cause is the
choice between forwarding and refusing. Aborting an owner drops the report it was
sending: `AbortOwners` filters the waiting senders, in a closed form that a proof can
use; `MCTelnetMailbox` has TLC compare it with `SelectSeq`.

### 2.4 TelnetSession

The same code seen from the record: `state`, `gen`, the attachment of each view,
the lease, and the connect and owner task of *each* generation, whose messages
(`mail`) arrive in any order. `connectAbort` and `handle` are the two handles of
the record; a task is aborted through them and may still report before the abort
takes effect. `shutting` holds the actor inside `shutdown_all`, where it handles
no message. A request against another generation or revision is refused without
an effect and is not an action. Mailbox bounds are left to `TelnetMailbox`, and
the owner's queue never refuses a Disconnect for want of room here: it holds at
most one input at a time.

### 2.5 TerminalFocus

Extends `TelnetSession` with the focus of the SSH actor (`epoch`, `target`), the
state and lease of one SSH session, and `op`, the operation inside the broker's
lock. `terminal_input_focus_change` is one action per message it sends: snapshot,
commit, revoke the previous lease, grant, roll back or compare again, undo. All
of `LifeNext` (and the SSH session's own life) may happen between any two of
them. The commands that the SSH actor serves alone (`SshFocusChange`,
`TakeOver`) are one step inside the lock; `SshShutdown`, `SshStops` and
`SshViewGoes` move the focus without it.

### 2.6 ExitPermit and ToolWindowExit

Each lock of a mutex, each native call and each message is a step. `opener[o]` is
a call of `tool_window_open`; a label is a fresh UUID, so a window is named by the
call that reserved it. `pc[t]` is a task in `prepare`: it takes the attempt,
snapshots the live labels, filters them, publishes the ones to wait for, asks each
and waits for the one-shot channel or for 120 s. `mail`, `current` and `handlers`
are the renderer's half: an event on its way, its `attemptId`, and its handlers,
which ask the user, reply, and close the window.

`ToolWindowExit` implements `ExitPermit` (`PermitSpec`, liveness included) with the
windows whose opener has seen the fence down as the open editors: a window that
is about to be torn down by its opener's second look is not one the user can type
into. `Lifecycle` uses the same specification from the other side (`UsesPermit`):
its commands ask, release and commit as the permit allows, with no editors of its
own. A second command is refused while an attempt is pending, in both modules, as
`ToolWindowExit::start` does.

### 2.7 SftpActor and SftpTransfer

`SftpActor` says what each operation of the actor makes of one transfer record;
`SftpTransfer` calls it under the service's locks. Each lock of `records` or
`active_transfers` is a step, and so is each request to the server, whose outcome
is a choice. `task[t]` is `run_transfer` from the pop to the release of the
session, `tail[t]` what it does after, `kick` and `looping` the calls of
`start_next_queued_transfer` before and after their look at
`transfer_scheduling_paused`. `tmp` and `pub` are the server's or the local files.

- The user's requests are guarded as `SftpView.vue` offers them in the state he
  sees (cancel, resume, retry, retain); the service has guards of its own, and
  both are in the actions.
- `Without` is the `retain` of a cancel that finds no control, in closed form;
  `MCSftpTransfer` compares it with the filter of a sequence.
- A transfer may be in the queue twice. A restart between the release of the
  session and the removal of the old control lets a cancel find that control and
  leave the entry in the queue; after a reopen, a restart of the failed transfer
  appends another. The second one is refused when its turn comes, so
  `QueuedIsQueued` asks only that a queued transfer is not lost.
- A resume may overtake a cancel that has released the records' lock and not taken
  it again: nothing in `resume_transfer` or the view keeps them apart. The late
  `retain` of that cancel then removes the new entry of a transfer that is queued
  (`QueuedStaysQueued`, section 4), so `QueuedIsQueued` speaks of transfers that were
  never started over, and of all of them while nobody cancels.
- A verified resume of a partly written upload never succeeds
  (`SFTP_V3_HANDLE_STABLE_RESUME_COMMIT` is false). Whether one is attempted depends
  on the bytes sent, which are not modelled: within the prefix limit the resume is
  refused and keeps the partial file, beyond it the upload begins anew (`MayVerify`
  offers both). Every other restart begins anew.
- Left out: sessions that are children of an SSH terminal, transfer intents,
  server-to-server copies, the Android document publish, listings.

### 2.8 SecretVault and SecretCustody

A persist of the vault writes the whole payload and has three outcomes: done,
failed before the rename (rolled back), or renamed with the directory fsync failed,
which poisons the instance until it is reloaded. `file` is what a reader sees,
`synced` what the disk is known to hold; a crash of the process keeps `file`, a
loss of power (`PowerLoss`) may go back to `synced`. A persist whose fsync failed may
or may not have reached the disk, so it leaves `synced` at either version; after two
such persists an intermediate version may come back too. `ReplaceSecret` is
`replace_secret`; `OtherWrite` is a write of another client under a reference of its
own, whose persist also makes these entries durable.

`SecretCustody` is the promise of every saga on top of it: a value is written only
under an intent, erased only during a clean-up, present and fixed for as long as
the row offers it, and gone once the row says so, save that a loss of power may
bring an erased file back. Once a saved record uses the value it is still always
present, but no longer fixed: a change of password replaces it in place. It may be
taken away only after the record gave the reference up.

### 2.9 SecretStage

Both staging protocols of `HostService`: login-automation secrets and passwords of
new hosts. Every call, and each pass of the reconciler, holds one mutex from its
first access to its last; `call` is what holds it, and its transactions and vault
calls are the steps. Between any two the vault may be locked or reloaded, a row may
expire and the process may die. A request that does not match its row is refused
before anything changes and is not an action. The order and the batch limit of the
reconciler are left open. What follows a saved record is modelled as far as it touches
the value: one save may consume several login rows, `replace_password_credential`
overwrites the value under a consumed password row (`ReplacePassword`), and a deletion
that the sync exchange applies gives the reference up (`SyncRelease`) and later erases
the value (`SyncCollect`). A reset or an import of the vault replaces all entries and
all rows and is not modelled.

### 2.10 PluginCredential

`inv[i]` is the future of one API invocation, `jobs` are the `spawn_blocking` jobs
that wait for the mutex, `call` the one that holds it. A future may be dropped at
any of its awaits; its guard then spawns a cancel, except during the prepare, when
no guard exists yet. `alive` are the invocations whose fence holds: it is checked
before the wait for the mutex, inside the transactions and after them. A reference
stands for its row, so two invocations of one reference are a create and its exact
replay. Reading errors are faults, as are commits, which may have taken effect.
Leases of credentials and listings change no row and are left out.

## 3. Runs

| Run | Instance | States | Shows |
|---|---|---|---|
| `lifecycle` | 1 creator, 2 tasks, 1 session and 1 plugin host, Android | 1.0 million | the gate is safe, the permit is used as promised, fences are resolved unless an owner never answers |
| `tool_windows` | 2 clicks on one target, 2 tasks, 2 attempts | 0.1 million | the permit is implemented, waits are answerable, what a timed-out attempt left behind does not swallow the next question |
| `ssh_session` | 2 generations, 1 jump host, 1 prompt, 1 request in flight | 0.6 million | a session is safe against its own past, attempts end |
| `ssh_shutdown_early` | 1 generation | | finding 1 |
| `telnet_mailbox` | 2 sessions, a mailbox of 2 | 0.3 million | requests are answered unless senders queue for the mailbox for ever |
| `telnet_session` | 2 views, 2 generations, 2 attachments | 0.5 million | leases and owner tasks are accounted for, disconnecting ends if the mailbox is served and no shutdown gives up |
| `terminal_focus` | 1 view, 1 generation, 2 attachments, 4 epochs | 3.4 million | one input owner, focus and lease agree |
| `sftp_transfer` | 1 upload, 2 connections, 1 restart, 1 shutdown | 1.6 million | completion is true, the channel has one owner, final states stay |
| `sftp_queue` | 2 downloads, 2 cancels, 1 connection | 1.1 million | the queue loses no transfer and no wake-up |
| `sftp_cancel_closes` | 1 upload, 1 cancel | | finding 2 |
| `secret_stage` | a login row and a password row, 2 values, 1 fault, 1 crash or power loss | 0.4 million | what is offered is stored, custody is kept, clean-ups end |
| `plugin_credential` | 1 reference, 2 invocations, 2 values, 3 faults, 1 crash or power loss | 2.5 million | what is offered is stored and stays, nothing outlives an uninstall, custody is kept |

Why the bounds are enough. One creator beside two cleaners meets every load of the gate;
that several creators add nothing new is what the proofs show for any number of them.
Two tasks are an exit racing an update or the unattended exit. Of the two resources the
session is one an update must not end without consent; the plugin host, which the plugin
stage clears first, does not hold an update up. Two clicks on one target, two tasks and
two attempts are the least for a second window, a busy permit and a retry that meets the
dialog of the first attempt. Two generations give every message and every task an older
sender; one jump host makes host keys of different hosts come up in one attempt; a
request in flight goes stale by the actor's own steps. Two Telnet sessions let one hold
the actor while the other fills the mailbox; two views and two attachments let an
attachment be replaced while another one holds the lease. Four focus epochs are a focus,
a move to the other terminal, a return and a loss: the shortest way for an old
invalidation to meet a newer focus on the same attachment. Two connections and a restart
let a cleanup retry, a late task and a new attempt of the same file overlap; two
downloads are the least for a queue. One upload cannot show that two transfers never
hold the channel together, and `sftp_queue` has neither a restart nor a second
connection (with them it exceeds what TLC can do in minutes): for those, `ChannelOwned`
and `QueuedIsQueued` rest on the theorems. One fault and one crash reach every single
point of failure of a staging call and of its clean-up; three faults are a failed
publish, a failed look at its row and a failed clean-up. The two rows cover both staging
tables and the order of their passes. `sftp_queue` uses symmetry (its downloads are
alike, and it checks no liveness).

Deadlock is checked except where the system may really stop: after the last
modelled attempt, transfer or crash, and in `telnet_mailbox`, where the whole service
can stop (section 4).

Fairness. The runtime polls every task, so commands and cleaners that wait for
nobody make progress; `prepare` and the unattended exit are bounded by timeouts. A
command that waits for an owner, under its permit or in a stage of
`shutdown_all_resources`, is not: `telnet.shutdown_all()` sends and awaits without a
timeout, and section 4 shows it unanswered. The gate has no fairness there, and
`FenceResolved` has the premise `OwnersAnswer`, that nobody waits for an owner for ever;
what it then excludes is a lost wake-up of the drain and a way out that forgets the
fence. In `TelnetSession` only the steps of `shutdown_all`, whose two waits have
deadlines, are fair. That the actor takes the messages of the tasks and a told
owner gets its report in is the premise of `DisconnectEnds` (`MailboxServed`), because
`TelnetMailbox` shows that it may fail; it asks strong fairness of the actor because the
mailbox is first in, first out, and repeated shutdowns do not starve a report. An SSH
connect task is bounded by the transport's
timeouts and a stopped worker by the timeout of its disconnect; so are a Telnet
dial, and an owner's write and close. An SSH actor that has requests waiting handles
one (weak fairness on *some* request, since the mailbox is a queue of commands whose
order does not matter here). The staging call that holds the mutex goes on (weak),
and the reconciler, which asks for the mutex again and again while users pause, gets
it now and then (strong). `CleanupFinishes` assumes that the vault stays open from
some moment on, because nothing can be erased from a locked one.
`AnsweredUnlessSaturated` excludes only the behaviours in which, from some moment on,
somebody always waits for room in the actor's mailbox. Nothing is assumed of users,
servers or the installer: no fairness on requests being sent, on errors happening or
on prompts being answered.

## 4. Findings

Two disagreements between the code and its comments are kept as runs:

1. *Shutdown too early* (`ssh_shutdown_early`). `shutdown_all` of the SSH owner
   "waits for their generation-fenced cleanup facts". A shell worker that meets an
   error queues `ConnectionFailed` and goes on to `shell.disconnect()`. If
   `shutdown_all` is handled first, the session is `Disconnecting` when
   `ConnectionFailed` arrives, and `connection_failure` treats that as the end of the
   shell. The session leaves `live_sessions` and `shutdown_all` replies Ok, with the
   worker still disconnecting.
2. *Cancel ends the session* (`sftp_cancel_closes`). "Cancelling one transfer must
   not end the session ... Only an unresponsive channel is closed." `cancel_transfer`
   writes `Cancelling` first and signals the task after; a task that reports a fact in
   between is refused with `InvalidState`, which becomes `Protocol`, and closes a
   channel that answers.

Others were met while modelling. Their statements stay in the modules; TLC refutes
each when it is put in place of the properties of the named configuration.

| Statement | Configuration | What happens |
|---|---|---|
| `SshSession.CleanupEndsShutdown` | `MCSshSessionCleanup` | `shutdown_all` moves a `Failed` session with a shell to `Disconnecting`; the cleanup fact then clears the handle, but only `Closed` and `Failed` sessions leave `live_sessions`. The shutdown waits until its deadline; a second attempt succeeds |
| `TelnetMailbox.ShutdownAllAnswered` | `MCTelnetMailbox` | the actor waits for the acknowledgement of an input, the owner that owes it waits for room in the actor's mailbox, and `ShutdownAll` is never received |
| `TelnetSession.DisconnectEnds` without `Abandoned` | `MCTelnetSession` | a task of any session outlives both deadlines of `shutdown_all`, which returns `CleanupIncomplete`; a session whose own owner ended without a report, as it was told to, stays in `Disconnecting` |
| `TerminalFocus.FocusTakesInput` | `MCTerminalFocus` | a lease that runs out stays in its record and tells nobody; the focus rests on a terminal that refuses input until the next focus change |
| `TerminalFocus.RevokedOnFocusChange` | `MCTerminalFocus` | focus changes that the SSH actor makes alone leave the Telnet lease of the older epoch in place; it authorises nothing, as `OneInputOwner` and `NoMisdirectedWrite` show |
| `ToolWindowExit.CallbackCoversRegistry` | `MCToolWindowExit` | a window closed before `on_destroyed` was attached stays in the registry, and its target cannot be opened again |
| `ToolWindowExit.InventoryIsFenced` | `MCToolWindowExit` | `prepare` waits 120 s for a window that its own opener tears down without telling it |
| `SftpTransfer.QueuedStaysQueued` | `MCSftpTransferQueue` with 1 download, 1 restart, 1 cancel | a cancel meets a transfer that has just been taken from the queue; its start is refused and the transfer fails, and it is resumed before the cancel takes the records again, whose `retain` removes the new entry; `finish_cancel` is refused, and the transfer is Queued in no queue |
| `SftpTransfer.LeftoverIsReported` | `MCSftpTransferCancel` | a transfer that the actor itself put in `Failed` does not record that the cleanup which followed failed |
| `SftpTransfer.CancelledIsClean` | `MCSftpTransferCancel` | a retried cleanup finds no file because the task has yet to create it, and the transfer ends as Cancelled; with a restart, the wind-up of one attempt also removes the control of the next by transfer id, and a cancel finishes unattended while the task creates its file |
| `SftpTransfer.NotCommittedIsTrue` | `MCSftpTransferCancel` | the requests after a successful hardlink fail and the transfer is reported as not committed |
| `SftpTransfer.CancelResolves` (with `FairSpec`) | `MCSftpTransferCancel` | a cancel signals a task that no longer listens, and nothing moves the record out of `Cancelling` |
| `SftpTransfer.ShutdownWaits` | `MCSftpTransferCancel` with 1 shutdown | a call past its look at `transfer_scheduling_paused` starts a transfer after `shutdown_all` has copied the controls |
| `SecretStage.CancelledIsGone` | `MCSecretStage` | a delete whose fsync failed is retried after a reload, finds nothing and writes nothing; a loss of power brings the secret back under a row that says it is gone |
| `PluginCredential.IntentIsKept` | `MCPluginCredential` | a replay whose fence falls inside its transaction cleans up the intent a live invocation is prompting for |
| `PluginCredential.AbandonedIsReconciled` | `MCPluginCredential` | the row of a future dropped during its prepare stays pending through every unlock until the next start |

After a shutdown that failed, `transfer_scheduling_paused` is lifted but nobody calls
`start_next_queued_transfer`: a call swallowed meanwhile is lost, and a queued
transfer waits for the next one. `WakeupOwed` therefore speaks of behaviours without a
shutdown.

## 5. Proofs

Every theorem is about `Spec` for all values of the constants, from the named
assumptions of the modules only; bounds such as `MaxGen` or `MaxFaults` are
arbitrary numbers. Each proof has the same shape: an invariant `IInv` that is
inductive, checked by TLC before it was proved; one lemma per action; the property
as a conjunct or a consequence.

**`LifecycleProofs`** (any finite set of creators, any tasks and resources).
`TypeCorrect` includes that the counter equals the number of creators between
`fetch_add` and `fetch_sub`, one of whom enters or leaves at a time (`CountStep`,
from `FiniteSetTheorems`). That no permit is held behind the fence needs, where the
drain sees zero, that zero means nobody is counted (`CountInv`, `ZeroMeansNone`), and
where a permit is granted, that the fence of a drained task is still up (`FenceInv`).
That the process ends clean needs what each stage has cleared (`CleanInv`) and that a
stored permit belongs to a prepared update (`PermitInv`). From these:
`NoCreatorBehindFenceHolds`, `NothingLeftBehindHolds`, `NoLeakedToolFenceHolds`, the
action properties `AuthorizedIsFinalHolds` and `ConsentRespectedHolds`, and the
refinement `UsesPermitHolds`.

**`ToolWindowExitProofs`** (any windows, targets and tasks). `OneEditorPerTargetHolds`
rests on the registry alone: it holds one label for a target (`OneLabel`).
`WaitIsAnswerableHolds` and `PermitKept`, the safety of `ExitPermit`, need what a task
has established at each of its steps (`Answer`): while it lists and filters, its
inventory covers every open editor; from the publish on, the windows waited for do;
the one-shot sender is there exactly while there is no answer, and no window is left
when the answer is yes. Between the two looks at the fence this holds because an opener
past its second look is registered (`Places`), and because an attempt is pending
exactly while one task is in `prepare` or has the permit (`OneHolder`). Each action's
lemma also says whether an editor opened (then no attempt is pending) or closed
(`Quiet`), and the refinement reads the permit off that. TLC checks the rest of
`PermitSpec`, that prepare returns.

**`SshSessionProofs`** (any generations, jump hosts, prompts and requests).
`NoOrphanedShellHolds`, `WorkBlocksExitHolds`, `HostVerifiedHolds`,
`PromptIsCurrentHolds`, and the action property `StaleIsInertHolds`. The record is
always behind the tasks by what is in the mailbox, so the invariant says what the mailbox
can hold beside each state of a task, a worker and the record: whoever reported its end
has ended (`EndMail`); a host key that is not yet handled is that of the host its task
waits for (`KeyMail`); a prompt has its task waiting, or the failure of that task is
behind it (`PromptMail`). It speaks of the set of messages; of their order it needs only
that a task which has asked a question can only have sent its failure since
(`InOrder`). `RequestsSeen` is what makes a fresh request harmless, `Keys` that an
accepted key is a trusted one before the task acts on it, and `TaskOrder` and
`ShellOrder` tie the record's handles to the task and the worker of the generation.

**`SftpTransferProofs`** (any uploads, downloads, generations, restarts, cancels and
shutdowns). `ChannelOwnedHolds`, `QueuedIsQueuedHolds`, `WakeupOwedHolds`,
`CompletedIsPublishedHolds`, `UploadKeepsFileHolds`, `FinalStaysHolds`. A task from its
pop to its release is the session's active transfer (`OnlyActive`), which makes it the
only one that can have the channel. What a file needs is said along the steps of the
task (`Published`), and that a retried cleanup is for an upload that failed and stays
failed while it runs (`RetryWaits`), so it never meets a live one. `CancelAhead` says
that a cancel between its two locks keeps a transfer out of the queue that was never
started over, which is where `QueuedIsQueued` needs its exception. What the actor makes
of a record is put once into two relations, `Moves` and `Stops`, shown for each of
`SftpActor`'s operations; an action's lemma then uses the relation and not the record.
The queue needs lemmas about appending, taking the head and removing a transfer
(`AppendKeeps`, `TailKeeps`, `WithoutKeeps`). TLC checked the invariant at two
connections and one cancel: for one download with a restart and a shutdown (5.1 million
states), for one upload with either of the two.

**`TerminalFocusProofs`** (any views, generations, attachments and epochs) begins with
the Telnet session, which `TerminalFocus` extends: `LeaseAnchoredHolds`,
`NoOrphanedOwnerHolds`, `WorkBlocksExitHolds`. A property of the record alone is not
inductive, because a task of an older generation may report at any time. `FutureInv`
says that no generation ahead of the record has a task, `DialInv` and `OwnerInv` that a
task nobody has stopped is the current one and how far the record says it is, `MailInv`
what the sender of a message has done by then (a `Connected` implies a dial that ended),
and `ShutdownInv` what `shutdown_all` has seen to before it waits.

For the focus it has `OneInputOwnerHolds`,
`FocusBackedHolds`, `NoMisdirectedWriteHolds`, `CoordinatorExactHolds`. `EpochInv`
says that the lease and every invalidation on its way carry an epoch the broker has
given out, and never the same one; `OpInv` that after its commit a focus change has the
focus it wanted, or the focus has gone to nobody since, and that until the grant nothing
is of its epoch.

**`TelnetMailboxProofs`** (any sessions, clients and capacities): `TypeCorrect`,
`AckIsOwedHolds` and `RequestIsHeldHolds`. `AckIsOwed` is not inductive: an answer
could be that of an earlier input, whose owner takes it late. `InputAwaited` excludes
it: an Input in the queue of a running owner is the only one, is the one the actor
waits for now, and has no answer yet (`AckFresh`: nobody else has). Together with
`Full` (a sender waits only while the mailbox is full) that leaves one thing that can
hold the owner up, the actor's own mailbox, which is the stall of section 4.
`RequestIsHeld` says of the mailbox and the senders, taken as one line, that each
waiting client is in it once or is being served, and that the broker's lock and the
pending Input go together. A step of the actor takes the head of the line and, when it
aborts owners, some of their reports; `Part` relates the two lines by an injection that
misses no client, and is shown for the abort (`AbortKeeps`), the admission of a sender
(`Admits`) and their combination (`LineMovesUp`). TLC checked the invariant, and
`RequestIsHeld`, on the instance of the run.

Both sagas below use of the vault that an open instance equals its file
(`SecretVault.MemIsFile`) and that an insert or a delete spares the entries of the
others (`Spares`).

**`SecretStageProofs`**: `StagedStored`, `AckedStored`, and `CustodyKept`, the
refinement of `SecretCustody`. Beside the properties, `IInv` has that a row that was
never made has no entry (`NothingYet`), what the call has established at each of its
steps (`CallInv`), and that without a loss of power a cancelled row has nothing left
(`GoneInv`). Each action's lemma
also shows its `Shape`: either the rows move along the protocol and the vault stays, or
an entry changes under a row that is exposed; the refinement is that shape read through
the mapping of the states.

**`PluginCredentialProofs`**: `ReadyStored`, `UninstalledRevoked`, `ReadyKept`,
`CustodyKept`. The hard part is who may write. `HoldInv`: an intent has at most one
holder (a prompted future, a finish job, or the call before its insert), and while it
has one the vault has no entry; so an insert stores the value of its own invocation
even when a replay ran meanwhile. `JobInv` and `CallerInv` say that an invocation
asks for its prepare and its finish once, and where its future can be. `UninstallInv`
says that no fence holds after an uninstall, which is why neither a queued begin nor a
queued publish can bring a row back. Steps that touch only futures and rows are
covered by one lemma (`QuietClaims`), those that touch the vault by another
(`VaultClaims`).

With one exception every invariant and action property of the passing runs is stated by
a theorem. Only model-checked is liveness (the prover does not reason about fairness or
ENABLED): the fair half of `PermitSpec`, `AnsweredUnlessSaturated`, `FenceResolved`,
`ConnectResolves`, `DisconnectEnds` and `CleanupFinishes`. So are, of the safety
properties, `RetryIsHeard` and the two of the findings.

## 6. Not modelled, and the plan

Next, in this order:

1. `OperationLedger`: replay, conflict and eviction of idempotent commands, for the SSH
   control commands and for the broker's focus changes.
2. `LoginAutomation`: the steps of an automated login with its write fences and the
   user's takeover; the SSH session's attachments and leases in the detail that
   `TelnetSession` has.
3. Transfer intents and server-to-server copies of SFTP; forwarding; plugin
   installation and activation with their crash recovery; plugin resource leases; the
   sync exchange with the server's compare-and-swap.

Why these are not here yet. The parts above carry the concurrency and the failure
handling that the rest of the program leans on: the gate every resource passes, the
sessions, the focus, and the sagas between the database and the vault. Most of the
remaining source is not of that kind. `app-persistence` is SQL, each operation one
transaction, with migrations; the profile merge and the sync codecs are sequential
functions over large records, which unit tests reach well; `plugin_service.rs` and the
plugin crates validate manifests and marshal calls. The frontend and window management
beyond the exit and update flows are presentation. RDP and VNC codecs, the SSH
transport and vendored code are wire formats, cryptography is assumed, and parsing of
metrics and localisation have no control worth a model.
