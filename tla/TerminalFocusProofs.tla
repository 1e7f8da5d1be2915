-------------------------- MODULE TerminalFocusProofs --------------------------
(* Proofs about the Telnet session of TelnetSession and about the input focus   *)
(* of TerminalFocus, which extends it, for any set of views and any number of   *)
(* generations, attachments and epochs.                                         *)
EXTENDS TerminalFocus, TLAPS, SequenceTheorems

--------------------------------------------------------------------------------
(* The Telnet session. *)

(* Generations that have not begun have no tasks.                               *)
FutureInv ==
    /\ state = "None" => gen = 0 /\ nextAtt = 1
    /\ state # "None" => gen \in Gens
    /\ \A g \in Gens : g > gen => dial[g] = "idle" /\ owner[g] = "idle"

(* A dial that nobody has aborted is the current one and can be aborted; while  *)
(* it goes on there is no owner.                                                *)
DialInv ==
    /\ \A g \in Gens : dial[g] = "dialing" => g = gen /\ connectAbort
    /\ connectAbort => state = "Connecting"
    /\ state = "Connecting" => \A g \in Gens : g = gen => owner[g] = "idle"

(* An owner that has not yet closed belongs to the current generation, and the  *)
(* record says how far it is.                                                   *)
OwnerInv ==
    \A g \in Gens :
        /\ owner[g] = "run" => g = gen /\ handle /\ state = "Running"
        /\ owner[g] \in {"told", "quiet"} => g = gen /\ handle /\ state = "Disconnecting"

(* What a message on its way says of its sender. *)
MailInv ==
    \A m \in mail :
        IF m.kind \in {"Connected", "ConnectFailed"}
        THEN dial[m.gen] = "ended"
        ELSE owner[m.gen] \in {"closing", "aborted", "cut", "ended"}

(* What shutdown_all has seen to before it waits. *)
ShutdownInv ==
    shutting => /\ state \in Down \cup {"Disconnecting"}
                /\ ~connectAbort
                /\ handle => "owner" \in waits

IInv ==
    /\ TypeOK
    /\ FutureInv
    /\ DialInv
    /\ OwnerInv
    /\ MailInv
    /\ ShutdownInv
    /\ LeaseAnchored
    /\ WorkBlocksExit

--------------------------------------------------------------------------------
(* The bounds, one by one. *)
LEMMA Bounds ==
    /\ MaxGen \in Nat /\ MaxGen >= 1
    /\ MaxAtt \in Nat /\ MaxAtt >= 1
    /\ MaxEpoch \in Nat /\ MaxEpoch >= 1
  BY TelnetSessionAssumption

(* No lease is not a lease. *)
LEMMA NoLeaseIsNone ==
    /\ NoLease \notin Leases
    /\ NoLease.att = 0
    /\ NoLease.epoch = 0
  BY Bounds DEF NoLease, Leases, Gens

(* A lease names an attachment of a view. *)
LEMMA LeaseFacts ==
    ASSUME TypeOK, lease # NoLease
    PROVE  lease \in Leases /\ lease.att \in 1..MaxAtt /\ lease.view \in Views
  BY DEF TypeOK, Leases

(* Without the attachments of some views. *)
LEMMA WithoutViewsType ==
    ASSUME TypeOK, NEW vs
    PROVE  WithoutViews(vs) \in [Views -> 0..MaxAtt]
  BY Bounds DEF TypeOK, WithoutViews

(* Taking the lease or leaving it keeps the types of the focus. *)
LEMMA FocusTypes ==
    ASSUME TypeOK, TakeLease \/ UNCHANGED focus
    PROVE  /\ lease' \in Leases \cup {NoLease}
           /\ invalidations' \in Seq(Leases)
           /\ lease' = lease \/ lease' = NoLease
  <1>1. CASE UNCHANGED focus
    BY <1>1 DEF TypeOK, focus
  <1>2. CASE TakeLease /\ lease = NoLease
    BY <1>2 DEF TypeOK, TakeLease
  <1>3. CASE TakeLease /\ lease # NoLease
    <2>1. lease \in Leases /\ invalidations \in Seq(Leases)
      BY <1>3 DEF TypeOK
    <2>2. Append(invalidations, lease) \in Seq(Leases)
      BY <2>1, AppendProperties
    <2> QED
      BY <1>3, <2>2 DEF TakeLease
  <1> QED
    BY <1>1, <1>2, <1>3

(* One lemma per action: a step of it keeps every part of the invariant. *)
LEMMA DialReportsStep ==
    ASSUME IInv, NEW g \in Gens, NEW k \in {"Connected", "ConnectFailed"},
           DialReports(g, k)
    PROVE  IInv'
  <1> USE Bounds, NoLeaseIsNone DEF IInv, TypeOK, DialReports, Report, session,
      focus, exit
  <1>1. TypeOK'
    BY DEF Gens, States
  <1>2. FutureInv'
    BY DEF FutureInv, Gens
  <1>3. DialInv'
    BY DEF DialInv, Gens
  <1>4. OwnerInv'
    BY DEF OwnerInv, Gens
  <1>5. MailInv'
    BY DEF MailInv
  <1>6. ShutdownInv'
    BY DEF ShutdownInv, Down
  <1>7. LeaseAnchored'
    BY DEF LeaseAnchored
  <1>8. WorkBlocksExit'
    BY DEF WorkBlocksExit, Gens, Active
  <1> QED
    BY <1>1, <1>2, <1>3, <1>4, <1>5, <1>6, <1>7, <1>8

LEMMA DialCutStep ==
    ASSUME IInv, NEW g \in Gens, DialCut(g)
    PROVE  IInv'
  <1> USE Bounds, NoLeaseIsNone DEF IInv, TypeOK, DialCut, session, focus, exit
  <1>1. TypeOK'
    BY DEF Gens, States
  <1>2. FutureInv'
    BY DEF FutureInv, Gens
  <1>3. DialInv'
    BY DEF DialInv, Gens
  <1>4. OwnerInv'
    BY DEF OwnerInv, Gens
  <1>5. MailInv'
    BY DEF MailInv
  <1>6. ShutdownInv'
    BY DEF ShutdownInv, Down
  <1>7. LeaseAnchored'
    BY DEF LeaseAnchored
  <1>8. WorkBlocksExit'
    BY DEF WorkBlocksExit, Gens, Active
  <1> QED
    BY <1>1, <1>2, <1>3, <1>4, <1>5, <1>6, <1>7, <1>8

LEMMA OwnerMeetsEndStep ==
    ASSUME IInv, NEW g \in Gens, NEW k \in {"OwnerClosed", "OwnerFailed"},
           OwnerMeetsEnd(g, k)
    PROVE  IInv'
  <1> USE Bounds, NoLeaseIsNone DEF IInv, TypeOK, OwnerMeetsEnd, Report,
      session, focus, exit
  <1>1. TypeOK'
    BY DEF Gens, States
  <1>2. FutureInv'
    BY DEF FutureInv, Gens
  <1>3. DialInv'
    BY DEF DialInv, Gens
  <1>4. OwnerInv'
    BY DEF OwnerInv, Gens
  <1>5. MailInv'
    BY DEF MailInv
  <1>6. ShutdownInv'
    BY DEF ShutdownInv, Down
  <1>7. LeaseAnchored'
    BY DEF LeaseAnchored
  <1>8. WorkBlocksExit'
    BY DEF WorkBlocksExit, Gens, Active
  <1> QED
    BY <1>1, <1>2, <1>3, <1>4, <1>5, <1>6, <1>7, <1>8

LEMMA OwnerDisconnectsStep ==
    ASSUME IInv, NEW g \in Gens, OwnerDisconnects(g)
    PROVE  IInv'
  <1> USE Bounds, NoLeaseIsNone DEF IInv, TypeOK, OwnerDisconnects, Report,
      session, focus, exit
  <1>1. TypeOK'
    BY DEF Gens, States
  <1>2. FutureInv'
    BY DEF FutureInv, Gens
  <1>3. DialInv'
    BY DEF DialInv, Gens
  <1>4. OwnerInv'
    BY DEF OwnerInv, Gens
  <1>5. MailInv'
    BY DEF MailInv
  <1>6. ShutdownInv'
    BY DEF ShutdownInv, Down
  <1>7. LeaseAnchored'
    BY DEF LeaseAnchored
  <1>8. WorkBlocksExit'
    BY DEF WorkBlocksExit, Gens, Active
  <1> QED
    BY <1>1, <1>2, <1>3, <1>4, <1>5, <1>6, <1>7, <1>8

LEMMA OwnerReturnsStep ==
    ASSUME IInv, NEW g \in Gens, OwnerReturns(g)
    PROVE  IInv'
  <1> USE Bounds, NoLeaseIsNone DEF IInv, TypeOK, OwnerReturns, session, focus,
      exit, Returned
  <1>1. TypeOK'
    BY DEF Gens, States
  <1>2. FutureInv'
    BY DEF FutureInv, Gens
  <1>3. DialInv'
    BY DEF DialInv, Gens
  <1>4. OwnerInv'
    BY DEF OwnerInv, Gens
  <1>5. MailInv'
    BY DEF MailInv
  <1>6. ShutdownInv'
    BY DEF ShutdownInv, Down
  <1>7. LeaseAnchored'
    BY DEF LeaseAnchored
  <1>8. WorkBlocksExit'
    BY DEF WorkBlocksExit, Gens, Active
  <1> QED
    BY <1>1, <1>2, <1>3, <1>4, <1>5, <1>6, <1>7, <1>8

LEMMA ConnectedStep ==
    ASSUME IInv, NEW g \in Gens, Connected(g)
    PROVE  IInv'
  <1> USE Bounds, NoLeaseIsNone DEF IInv, TypeOK, Connected, Receive, session,
      focus, exit
  <1>1. TypeOK'
    BY DEF Gens, States
  <1>2. FutureInv'
    BY DEF FutureInv, Gens
  <1>3. DialInv'
    BY DEF DialInv, MailInv, Gens
  <1>4. OwnerInv'
    BY DEF OwnerInv, DialInv, Gens
  <1>5. MailInv'
    BY DEF MailInv, DialInv, Gens
  <1>6. ShutdownInv'
    BY DEF ShutdownInv, Down
  <1>7. LeaseAnchored'
    BY DEF LeaseAnchored
  <1>8. WorkBlocksExit'
    BY DEF WorkBlocksExit, MailInv, Gens, Active
  <1> QED
    BY <1>1, <1>2, <1>3, <1>4, <1>5, <1>6, <1>7, <1>8

LEMMA ConnectFailedStep ==
    ASSUME IInv, NEW g \in Gens, ConnectFailed(g)
    PROVE  IInv'
  <1> USE Bounds, NoLeaseIsNone DEF IInv, TypeOK, ConnectFailed, Receive,
      session, focus, exit
  <1>1. TypeOK'
    BY DEF Gens, States
  <1>2. FutureInv'
    BY DEF FutureInv, Gens
  <1>3. DialInv'
    BY DEF DialInv, MailInv, Gens
  <1>4. OwnerInv'
    BY DEF OwnerInv, DialInv, Gens
  <1>5. MailInv'
    BY DEF MailInv
  <1>6. ShutdownInv'
    BY DEF ShutdownInv, Down
  <1>7. LeaseAnchored'
    BY DEF LeaseAnchored
  <1>8. WorkBlocksExit'
    BY DEF WorkBlocksExit, DialInv, MailInv, OwnerInv, Gens, Active
  <1> QED
    BY <1>1, <1>2, <1>3, <1>4, <1>5, <1>6, <1>7, <1>8

LEMMA OwnerClosedStep ==
    ASSUME IInv, NEW g \in Gens, NEW k \in {"OwnerClosed", "OwnerFailed"},
           OwnerClosed(g, k)
    PROVE  IInv'
  <1> USE Bounds, NoLeaseIsNone DEF IInv
  <1>0. TakeLease \/ UNCHANGED focus
    BY DEF OwnerClosed
  <1>a. /\ lease' \in Leases \cup {NoLease}
        /\ invalidations' \in Seq(Leases)
        /\ lease' = lease \/ lease' = NoLease
    BY <1>0, FocusTypes
  <1>1. TypeOK'
    <2>1. atts' \in [Views -> 0..MaxAtt] /\ detachAfter' \in 0..MaxAtt
      BY WithoutViewsType DEF TypeOK, OwnerClosed, session
    <2>2. mail' \subseteq mail
      BY DEF OwnerClosed, Receive
    <2> QED
      BY <1>a, <2>1, <2>2 DEF TypeOK, OwnerClosed, session, exit, States
  <1>2. FutureInv'
    BY DEF FutureInv, TypeOK, OwnerClosed, Receive, WithoutViews, session,
      focus, exit, Gens, Down
  <1>3. DialInv'
    BY DEF DialInv, TypeOK, MailInv, OwnerClosed, Receive, WithoutViews,
      session, focus, exit, Gens, Down
  <1>4. OwnerInv'
    BY DEF OwnerInv, TypeOK, MailInv, OwnerClosed, Receive, WithoutViews,
      session, focus, exit, Gens, Down
  <1>5. MailInv'
    BY DEF MailInv, TypeOK, OwnerClosed, Receive, WithoutViews, session, focus,
      exit, Down
  <1>6. ShutdownInv'
    BY DEF ShutdownInv, TypeOK, OwnerClosed, Receive, WithoutViews, session,
      focus, exit, Down
  <1>7. LeaseAnchored'
    BY <1>a, LeaseFacts DEF LeaseAnchored, TypeOK, MailInv, OwnerClosed,
      Receive, WithoutViews, session, focus, exit, Down, TakeLease
  <1>8. WorkBlocksExit'
    BY DEF WorkBlocksExit, TypeOK, DialInv, MailInv, OwnerInv, OwnerClosed,
      Receive, WithoutViews, session, focus, exit, Gens, Down, Active
  <1> QED
    BY <1>1, <1>2, <1>3, <1>4, <1>5, <1>6, <1>7, <1>8

LEMMA OpenStep ==
    ASSUME IInv, NEW v \in Views, Open(v)
    PROVE  IInv'
  <1> USE Bounds, NoLeaseIsNone DEF IInv, TypeOK, DialInv, FutureInv,
      LeaseAnchored, OwnerInv, Open, StartDial, focus, exit, Gens
  <1>1. TypeOK'
    BY DEF States
  <1>2. FutureInv'
    OBVIOUS
  <1>3. DialInv'
    OBVIOUS
  <1>4. OwnerInv'
    OBVIOUS
  <1>5. MailInv'
    BY DEF MailInv
  <1>6. ShutdownInv'
    BY DEF ShutdownInv, Down
  <1>7. LeaseAnchored'
    OBVIOUS
  <1>8. WorkBlocksExit'
    BY DEF WorkBlocksExit, Active
  <1> QED
    BY <1>1, <1>2, <1>3, <1>4, <1>5, <1>6, <1>7, <1>8

LEMMA AttachStep ==
    ASSUME IInv, NEW v \in Views, Attach(v)
    PROVE  IInv'
  <1> USE Bounds, NoLeaseIsNone DEF IInv, Attach, RevokeFor, TypeOK, tasks,
      focus, exit
  <1>0. TakeLease \/ UNCHANGED focus
    OBVIOUS
  <1>a. /\ lease' \in Leases \cup {NoLease}
        /\ invalidations' \in Seq(Leases)
        /\ lease' = lease \/ lease' = NoLease
    BY <1>0, FocusTypes
  <1>1. TypeOK'
    BY <1>a DEF Gens, States
  <1>2. FutureInv'
    BY DEF FutureInv, Gens
  <1>3. DialInv'
    BY DEF DialInv, Gens
  <1>4. OwnerInv'
    BY DEF OwnerInv, Gens
  <1>5. MailInv'
    BY DEF MailInv
  <1>6. ShutdownInv'
    BY DEF ShutdownInv, Down
  <1>7. LeaseAnchored'
    BY <1>a, LeaseFacts DEF LeaseAnchored, TakeLease
  <1>8. WorkBlocksExit'
    BY DEF WorkBlocksExit, Gens, Active
  <1> QED
    BY <1>1, <1>2, <1>3, <1>4, <1>5, <1>6, <1>7, <1>8

LEMMA DropViewsStep ==
    ASSUME IInv, NEW vs \in SUBSET Views, DropViews(vs)
    PROVE  IInv'
  <1> USE Bounds, NoLeaseIsNone DEF IInv, DropViews, RevokeFor, TypeOK,
      WithoutViews, tasks, focus, exit
  <1>0. TakeLease \/ UNCHANGED focus
    OBVIOUS
  <1>a. /\ lease' \in Leases \cup {NoLease}
        /\ invalidations' \in Seq(Leases)
        /\ lease' = lease \/ lease' = NoLease
    BY <1>0, FocusTypes
  <1>1. TypeOK'
    BY <1>a DEF Gens, States
  <1>2. FutureInv'
    BY DEF FutureInv, Gens
  <1>3. DialInv'
    BY DEF DialInv, Gens
  <1>4. OwnerInv'
    BY DEF OwnerInv, Gens
  <1>5. MailInv'
    BY DEF MailInv
  <1>6. ShutdownInv'
    BY DEF ShutdownInv, Down
  <1>7. LeaseAnchored'
    BY <1>a, LeaseFacts DEF LeaseAnchored, TakeLease
  <1>8. WorkBlocksExit'
    BY DEF WorkBlocksExit, Gens, Active
  <1> QED
    BY <1>1, <1>2, <1>3, <1>4, <1>5, <1>6, <1>7, <1>8

LEMMA DetachStep ==
    ASSUME IInv, NEW v \in Views, Detach(v)
    PROVE  IInv'
  <1> USE Bounds, NoLeaseIsNone DEF IInv
  <1>0. TakeLease \/ UNCHANGED focus
    BY DEF Detach, RevokeFor
  <1>a. /\ lease' \in Leases \cup {NoLease}
        /\ invalidations' \in Seq(Leases)
        /\ lease' = lease \/ lease' = NoLease
    BY <1>0, FocusTypes
  <1>1. TypeOK'
    <2>1. atts' \in [Views -> 0..MaxAtt] /\ detachAfter' \in 0..MaxAtt
      BY WithoutViewsType DEF TypeOK, Detach
    <2>2. dial' \in [Gens -> {"idle", "dialing", "aborted", "cut", "ended"}]
      BY DEF TypeOK, Detach
    <2>3. owner' \in [Gens -> {"idle", "run", "told", "quiet", "closing", "aborted"}
                                \cup Returned]
      BY DEF TypeOK, Detach, Tell
    <2> QED
      BY <1>a, <2>1, <2>2, <2>3 DEF TypeOK, Detach, exit, States
  <1>2. FutureInv'
    BY DEF FutureInv, TypeOK, DialInv, OwnerInv, Detach, RevokeFor,
      WithoutViews, OwnerListens, Tell, focus, exit, Gens, Active
  <1>3. DialInv'
    BY DEF DialInv, TypeOK, FutureInv, OwnerInv, Detach, RevokeFor,
      WithoutViews, OwnerListens, Tell, focus, exit, Gens, Active
  <1>4. OwnerInv'
    BY DEF OwnerInv, TypeOK, DialInv, FutureInv, Detach, RevokeFor,
      WithoutViews, OwnerListens, Tell, focus, exit, Gens, Active
  <1>5. MailInv'
    BY DEF MailInv, TypeOK, DialInv, FutureInv, OwnerInv, Detach, RevokeFor,
      WithoutViews, OwnerListens, Tell, focus, exit, Gens, Active
  <1>6. ShutdownInv'
    BY DEF ShutdownInv, TypeOK, DialInv, FutureInv, OwnerInv, Detach, RevokeFor,
      WithoutViews, OwnerListens, Tell, focus, exit, Gens, Down, Active
  <1>7. LeaseAnchored'
    BY <1>a, LeaseFacts DEF LeaseAnchored, TypeOK, DialInv, FutureInv, OwnerInv,
      Detach, RevokeFor, WithoutViews, OwnerListens, Tell, focus, exit, Gens,
      Active, TakeLease
  <1>8. WorkBlocksExit'
    BY DEF WorkBlocksExit, TypeOK, DialInv, FutureInv, OwnerInv, Detach,
      RevokeFor, WithoutViews, OwnerListens, Tell, focus, exit, Gens, Active
  <1> QED
    BY <1>1, <1>2, <1>3, <1>4, <1>5, <1>6, <1>7, <1>8

LEMMA DisconnectStep ==
    ASSUME IInv, Disconnect
    PROVE  IInv'
  <1> USE Bounds, NoLeaseIsNone DEF IInv, Disconnect, TypeOK, DialInv,
      FutureInv, OwnerInv, OwnerListens, Tell, exit, Gens, Active
  <1>0. TakeLease \/ UNCHANGED focus
    OBVIOUS
  <1>a. /\ lease' \in Leases \cup {NoLease}
        /\ invalidations' \in Seq(Leases)
        /\ lease' = lease \/ lease' = NoLease
    BY <1>0, FocusTypes
  <1>1. TypeOK'
    BY <1>a DEF States
  <1>2. FutureInv'
    OBVIOUS
  <1>3. DialInv'
    OBVIOUS
  <1>4. OwnerInv'
    OBVIOUS
  <1>5. MailInv'
    BY DEF MailInv
  <1>6. ShutdownInv'
    BY DEF ShutdownInv, Down
  <1>7. LeaseAnchored'
    BY <1>a, LeaseFacts DEF LeaseAnchored, TakeLease
  <1>8. WorkBlocksExit'
    BY DEF WorkBlocksExit
  <1> QED
    BY <1>1, <1>2, <1>3, <1>4, <1>5, <1>6, <1>7, <1>8

LEMMA ReconnectStep ==
    ASSUME IInv, Reconnect
    PROVE  IInv'
  <1> USE Bounds, NoLeaseIsNone DEF IInv, Reconnect, TypeOK, DialInv, FutureInv,
      OwnerInv, StartDial, exit, Gens, Down
  <1>0. TakeLease \/ UNCHANGED focus
    OBVIOUS
  <1>a. /\ lease' \in Leases \cup {NoLease}
        /\ invalidations' \in Seq(Leases)
        /\ lease' = lease \/ lease' = NoLease
    BY <1>0, FocusTypes
  <1>1. TypeOK'
    BY <1>a DEF States
  <1>2. FutureInv'
    OBVIOUS
  <1>3. DialInv'
    OBVIOUS
  <1>4. OwnerInv'
    OBVIOUS
  <1>5. MailInv'
    BY DEF MailInv
  <1>6. ShutdownInv'
    BY DEF ShutdownInv
  <1>7. LeaseAnchored'
    BY <1>a, LeaseFacts DEF LeaseAnchored, TakeLease
  <1>8. WorkBlocksExit'
    BY DEF WorkBlocksExit, Active
  <1> QED
    BY <1>1, <1>2, <1>3, <1>4, <1>5, <1>6, <1>7, <1>8

LEMMA LeaseExpiresStep ==
    ASSUME IInv, LeaseExpires
    PROVE  IInv'
  <1> USE Bounds, NoLeaseIsNone DEF IInv, TypeOK, LeaseExpires, session, tasks,
      exit
  <1>1. TypeOK'
    BY DEF Leases, Gens, States
  <1>2. FutureInv'
    BY DEF FutureInv, Gens
  <1>3. DialInv'
    BY DEF DialInv, Gens
  <1>4. OwnerInv'
    BY DEF OwnerInv, Gens
  <1>5. MailInv'
    BY DEF MailInv
  <1>6. ShutdownInv'
    BY DEF ShutdownInv, Down
  <1>7. LeaseAnchored'
    BY DEF LeaseAnchored
  <1>8. WorkBlocksExit'
    BY DEF WorkBlocksExit, Gens, Active
  <1> QED
    BY <1>1, <1>2, <1>3, <1>4, <1>5, <1>6, <1>7, <1>8

LEMMA BeginShutdownStep ==
    ASSUME IInv, BeginShutdown
    PROVE  IInv'
  <1> USE Bounds, NoLeaseIsNone DEF IInv, BeginShutdown, TypeOK, DialInv,
      FutureInv, OwnerInv, OwnerListens, Tell, Gens, Down, Returned
  <1>0. TakeLease \/ UNCHANGED focus
    OBVIOUS
  <1>a. /\ lease' \in Leases \cup {NoLease}
        /\ invalidations' \in Seq(Leases)
        /\ lease' = lease \/ lease' = NoLease
    BY <1>0, FocusTypes
  <1>1. TypeOK'
    BY <1>a DEF States
  <1>2. FutureInv'
    OBVIOUS
  <1>3. DialInv'
    OBVIOUS
  <1>4. OwnerInv'
    OBVIOUS
  <1>5. MailInv'
    BY DEF MailInv
  <1>6. ShutdownInv'
    BY DEF ShutdownInv
  <1>7. LeaseAnchored'
    BY <1>a, LeaseFacts DEF LeaseAnchored, TakeLease
  <1>8. WorkBlocksExit'
    BY DEF WorkBlocksExit, Active, States
  <1> QED
    BY <1>1, <1>2, <1>3, <1>4, <1>5, <1>6, <1>7, <1>8

LEMMA ShutdownSettlesStep ==
    ASSUME IInv, ShutdownSettles
    PROVE  IInv'
  <1> USE Bounds, NoLeaseIsNone DEF IInv, TypeOK, DialInv, FutureInv, OwnerInv,
      ShutdownInv, ShutdownSettles, TasksFinished, tasks, focus, Gens, Down, Returned
  <1>1. TypeOK'
    BY DEF States
  <1>2. FutureInv'
    OBVIOUS
  <1>3. DialInv'
    OBVIOUS
  <1>4. OwnerInv'
    OBVIOUS
  <1>5. MailInv'
    BY DEF MailInv
  <1>6. ShutdownInv'
    OBVIOUS
  <1>7. LeaseAnchored'
    BY DEF LeaseAnchored
  <1>8. WorkBlocksExit'
    BY DEF WorkBlocksExit, Active
  <1> QED
    BY <1>1, <1>2, <1>3, <1>4, <1>5, <1>6, <1>7, <1>8

LEMMA ShutdownAbortsStep ==
    ASSUME IInv, ShutdownAborts
    PROVE  IInv'
  <1> USE Bounds, NoLeaseIsNone DEF IInv, TypeOK, DialInv, FutureInv, OwnerInv,
      ShutdownInv, ShutdownAborts, session, focus, exit, Gens, Down
  <1>1. TypeOK'
    BY DEF States
  <1>2. FutureInv'
    OBVIOUS
  <1>3. DialInv'
    OBVIOUS
  <1>4. OwnerInv'
    OBVIOUS
  <1>5. MailInv'
    BY DEF MailInv
  <1>6. ShutdownInv'
    OBVIOUS
  <1>7. LeaseAnchored'
    BY DEF LeaseAnchored
  <1>8. WorkBlocksExit'
    BY DEF WorkBlocksExit, Active
  <1> QED
    BY <1>1, <1>2, <1>3, <1>4, <1>5, <1>6, <1>7, <1>8

LEMMA ShutdownGivesUpStep ==
    ASSUME IInv, ShutdownGivesUp
    PROVE  IInv'
  <1> USE Bounds, NoLeaseIsNone DEF IInv, TypeOK, ShutdownGivesUp, session,
      tasks, focus
  <1>1. TypeOK'
    BY DEF Gens, States
  <1>2. FutureInv'
    BY DEF FutureInv, Gens
  <1>3. DialInv'
    BY DEF DialInv, Gens
  <1>4. OwnerInv'
    BY DEF OwnerInv, Gens
  <1>5. MailInv'
    BY DEF MailInv
  <1>6. ShutdownInv'
    BY DEF ShutdownInv, Down
  <1>7. LeaseAnchored'
    BY DEF LeaseAnchored
  <1>8. WorkBlocksExit'
    BY DEF WorkBlocksExit, Gens, Active
  <1> QED
    BY <1>1, <1>2, <1>3, <1>4, <1>5, <1>6, <1>7, <1>8

--------------------------------------------------------------------------------
(* The grant gives the lease to a target of the running session. *)
LEMMA GrantInputStep ==
    ASSUME IInv, NEW t, NEW e \in 1..MaxEpoch,
           t.gen \in Gens, t.att \in 1..MaxAtt, t.view \in Views,
           GrantInput(t, e)
    PROVE  IInv'
  <1> DEFINE new == [gen |-> t.gen, att |-> t.att, view |-> t.view,
                     epoch |-> e, expired |-> FALSE]
  <1> USE Bounds, NoLeaseIsNone DEF IInv
  <1>1. new \in Leases
    BY DEF Leases
  <1>2. TypeOK'
    <2>1. CASE lease = NoLease \/ lease = new
      BY <1>1, <2>1 DEF GrantInput, TypeOK, session, tasks, focus, exit
    <2>2. CASE lease # NoLease /\ lease # new
      <3>1. Append(invalidations, lease) \in Seq(Leases)
        BY <2>2, LeaseFacts, AppendProperties DEF TypeOK
      <3> QED
        BY <1>1, <2>2, <3>1 DEF GrantInput, TypeOK, session, tasks, exit
    <2> QED
      BY <2>1, <2>2
  <1>3. LeaseAnchored'
    BY DEF GrantInput, Grantable, LeaseAnchored, session, focus
  <1>4. (FutureInv /\ DialInv /\ OwnerInv /\ MailInv /\ ShutdownInv /\ WorkBlocksExit)'
    BY DEF GrantInput, session, tasks, exit, FutureInv, DialInv, OwnerInv, MailInv,
      ShutdownInv, WorkBlocksExit
  <1> QED
    BY <1>2, <1>3, <1>4

(* What only takes the lease or an invalidation away keeps the invariant. *)
LEMMA LessFocusStep ==
    ASSUME IInv, UNCHANGED <<session, tasks, exit>>,
           lease' \in {lease, NoLease}, invalidations' \in Seq(Leases)
    PROVE  IInv'
  BY DEF IInv, TypeOK, FutureInv, DialInv, OwnerInv, MailInv, ShutdownInv,
    LeaseAnchored, WorkBlocksExit, session, tasks, exit

(* A step of the session, its tasks and its clients, without the focus broker. *)
LEMMA LifeStep ==
    ASSUME IInv, LifeNext
    PROVE  IInv'
  <1>1. CASE \E g \in Gens : TaskNext(g)
    BY <1>1, DialReportsStep, DialCutStep, OwnerMeetsEndStep, OwnerDisconnectsStep,
      OwnerReturnsStep DEF TaskNext
  <1>2. CASE \E g \in Gens : ActorNext(g)
    BY <1>2, ConnectedStep, ConnectFailedStep, OwnerClosedStep DEF ActorNext
  <1>3. CASE \E v \in Views : Open(v) \/ Attach(v) \/ Detach(v)
    BY <1>3, OpenStep, AttachStep, DetachStep
  <1>4. CASE \E vs \in SUBSET Views : DropViews(vs)
    BY <1>4, DropViewsStep
  <1>5. CASE Disconnect \/ Reconnect \/ LeaseExpires
    BY <1>5, DisconnectStep, ReconnectStep, LeaseExpiresStep
  <1>6. CASE BeginShutdown \/ ShutdownNext
    BY <1>6, BeginShutdownStep, ShutdownSettlesStep, ShutdownAbortsStep,
      ShutdownGivesUpStep DEF ShutdownNext
  <1> QED
    BY <1>1, <1>2, <1>3, <1>4, <1>5, <1>6 DEF LifeNext

LEMMA InitInv == Init => IInv
  <1> SUFFICES ASSUME Init
               PROVE  IInv
    OBVIOUS
  <1> USE Bounds DEF Init
  <1>1. TypeOK
    <2>1. 0 \in 0..MaxGen /\ 0 \in 0..MaxAtt /\ 1 \in 1..(MaxAtt + 1)
      OBVIOUS
    <2>2. atts \in [Views -> 0..MaxAtt]
      BY <2>1
    <2>3. <<>> \in Seq(Leases)
      OBVIOUS
    <2> QED
      BY <2>1, <2>2, <2>3 DEF TypeOK, States
  <1>2. FutureInv /\ DialInv /\ OwnerInv /\ MailInv /\ ShutdownInv
    BY DEF FutureInv, DialInv, OwnerInv, MailInv, ShutdownInv
  <1>3. LeaseAnchored /\ WorkBlocksExit
    BY DEF LeaseAnchored, WorkBlocksExit, Active
  <1> QED
    BY <1>1, <1>2, <1>3 DEF IInv

(* Every step, and a stutter. *)
LEMMA NextStep == IInv /\ [Next]_telnet => IInv'
  <1> SUFFICES ASSUME IInv, [Next]_telnet
               PROVE  IInv'
    OBVIOUS
  <1>1. CASE LifeNext
    BY <1>1, LifeStep
  <1>2. CASE \E g \in Gens, a \in 1..MaxAtt, v \in Views, e \in 1..MaxEpoch :
                GrantInput([gen |-> g, att |-> a, view |-> v], e)
    BY <1>2, GrantInputStep
  <1>3. CASE \E e \in 1..MaxEpoch : RevokeInput(e)
    BY <1>3, LessFocusStep DEF RevokeInput, IInv, TypeOK
  <1>4. CASE TakeInvalidation
    <2>1. Tail(invalidations) \in Seq(Leases)
      BY <1>4, HeadTailProperties DEF TakeInvalidation, IInv, TypeOK
    <2> QED
      BY <1>4, <2>1, LessFocusStep DEF TakeInvalidation
  <1>5. CASE UNCHANGED telnet
    BY <1>5, LessFocusStep DEF telnet, focus, IInv, TypeOK
  <1> QED
    BY <1>1, <1>2, <1>3, <1>4, <1>5 DEF Next

--------------------------------------------------------------------------------
(* The inductive invariant holds in every reachable state. *)
THEOREM Inductive == Spec => []IInv
  BY InitInv, NextStep, PTL DEF Spec

(* The variables of the record, the tasks and the messages keep their types. *)
THEOREM TypeCorrect == Spec => []TypeOK
  BY Inductive, PTL DEF IInv

(* A lease belongs to the current attachment of a running generation: every     *)
(* handler that ends a session, drops an attachment or starts a generation      *)
(* takes it away.                                                               *)
THEOREM LeaseAnchoredHolds == Spec => []LeaseAnchored
  BY Inductive, PTL DEF IInv

(* An owner task that nobody told to stop is reachable through the record: a    *)
(* late Connected is not adopted, a generation is not replaced under its owner. *)
THEOREM NoOrphanedOwnerHolds == Spec => []NoOrphanedOwner
  <1>1. IInv => NoOrphanedOwner
    BY DEF IInv, OwnerInv, NoOrphanedOwner
  <1> QED
    BY <1>1, Inductive, PTL

(* Whatever dials or holds a connection keeps the session in live_sessions. *)
THEOREM WorkBlocksExitHolds == Spec => []WorkBlocksExit
  BY Inductive, PTL DEF IInv

--------------------------------------------------------------------------------
(* The focus.  What the Telnet session does by itself is taken from above. *)

(* Every lease and every invalidation is of an epoch that the focus has had,    *)
(* and the epoch of an invalidation is not leased again.                        *)
EpochInv ==
    /\ lease.epoch <= epoch
    /\ \A i \in DOMAIN invalidations :
          /\ invalidations[i].epoch <= epoch
          /\ invalidations[i].epoch # lease.epoch

(* After its commit a focus change has the focus it wanted, or the focus has    *)
(* been taken to nobody since; until the grant nothing is of its epoch.         *)
OpInv ==
    /\ op.pc \in {"revoke", "grant", "rollback", "check", "undo"} =>
          /\ op.at + 1 <= epoch
          /\ IF epoch = op.at + 1 THEN target = op.want ELSE target = Nobody
    /\ op.pc \in {"revoke", "grant"} =>
          /\ lease.epoch <= op.at
          /\ \A i \in DOMAIN invalidations : invalidations[i].epoch <= op.at
    /\ op.pc = "grant" => op.want.kind = "telnet"
    /\ op.pc = "undo" => epoch # op.at + 1
    /\ op.pc = "write" => target \in {op.want, Nobody}

FocusIInv ==
    /\ IInv
    /\ FocusTypeOK
    /\ EpochInv
    /\ OpInv
    /\ OneInputOwner
    /\ FocusBacked

--------------------------------------------------------------------------------
(* The targets, and the target a lease stands for. *)
LEMMA TargetFacts ==
    /\ Nobody \in Targets /\ Ssh \in Targets /\ Nobody # Ssh
    /\ Nobody.kind = "none" /\ Ssh.kind = "ssh"
    /\ \A t \in Targets : t.kind = "telnet" =>
          /\ t.gen \in Gens /\ t.att \in 1..MaxAtt /\ t.view \in Views
          /\ Telnet(t) = t
    /\ \A l : Telnet(l).kind = "telnet"
    /\ NoOp.pc = "idle"
  BY DEF Targets, Nobody, Ssh, Telnet, NoOp

(* The lease stays, but for its expiry. *)
SameLease ==
    /\ \/ lease' = lease
       \/ lease # NoLease /\ lease' = [lease EXCEPT !.expired = TRUE]
    /\ invalidations' = invalidations

(* What the session does by itself to its lease: nothing, let it expire, or     *)
(* take it and tell the coordinator.                                            *)
LEMMA LifeLease ==
    ASSUME LifeNext
    PROVE  SameLease \/ TakeLease
  <1> USE DEF focus, SameLease
  <1>1. CASE \E g \in Gens : TaskNext(g)
    BY <1>1 DEF TaskNext, DialReports, DialCut, OwnerMeetsEnd, OwnerDisconnects, OwnerReturns
  <1>2. CASE \E g \in Gens : ActorNext(g)
    BY <1>2 DEF ActorNext, Connected, ConnectFailed, OwnerClosed
  <1>3. CASE \E v \in Views : Open(v) \/ Attach(v) \/ Detach(v)
    BY <1>3 DEF Open, Attach, Detach, RevokeFor
  <1>4. CASE \E vs \in SUBSET Views : DropViews(vs)
    BY <1>4 DEF DropViews, RevokeFor
  <1>5. CASE Disconnect \/ Reconnect \/ LeaseExpires
    BY <1>5 DEF Disconnect, Reconnect, LeaseExpires
  <1>6. CASE BeginShutdown \/ ShutdownNext
    BY <1>6 DEF BeginShutdown, ShutdownNext, ShutdownSettles, ShutdownAborts, ShutdownGivesUp
  <1> QED
    BY <1>1, <1>2, <1>3, <1>4, <1>5, <1>6 DEF LifeNext

(* Nothing of the sessions and their focus is touched. *)
LEMMA SameTelnet ==
    ASSUME UNCHANGED telnet, IInv
    PROVE  /\ IInv'
           /\ lease' = lease /\ invalidations' = invalidations
  BY LessFocusStep DEF telnet, focus, IInv, TypeOK

(* A lease of the session in terms of its epoch and its target. *)
LEMMA LeaseTypes ==
    ASSUME TypeOK
    PROVE  /\ lease.epoch \in Nat
           /\ lease # NoLease => lease.epoch \in 1..MaxEpoch
           /\ [lease EXCEPT !.expired = TRUE].epoch = lease.epoch
           /\ Telnet([lease EXCEPT !.expired = TRUE]) = Telnet(lease)
           /\ \A i \in DOMAIN invalidations : invalidations[i].epoch \in 1..MaxEpoch
  <1> USE Bounds, NoLeaseIsNone
  <1>1. lease \in Leases => lease.epoch \in 1..MaxEpoch
    BY DEF Leases
  <1>2. \A i \in DOMAIN invalidations : invalidations[i] \in Leases
    BY ElementOfSeq DEF TypeOK
  <1>3. \A i \in DOMAIN invalidations : invalidations[i].epoch \in 1..MaxEpoch
    BY <1>2 DEF Leases
  <1>4. /\ [lease EXCEPT !.expired = TRUE].epoch = lease.epoch
        /\ Telnet([lease EXCEPT !.expired = TRUE]) = Telnet(lease)
    BY DEF TypeOK, Leases, NoLease, Telnet
  <1> QED
    BY <1>1, <1>3, <1>4 DEF TypeOK

(* Appending keeps what is there and adds one. *)
LEMMA AppendFacts ==
    ASSUME NEW S, NEW q \in Seq(S), NEW x \in S
    PROVE  /\ \A i \in DOMAIN q : i \in DOMAIN Append(q, x) /\ Append(q, x)[i] = q[i]
           /\ \A i \in DOMAIN Append(q, x) :
                 \/ Append(q, x)[i] = x
                 \/ i \in DOMAIN q /\ Append(q, x)[i] = q[i]
           /\ \E i \in DOMAIN Append(q, x) : Append(q, x)[i] = x
  <1>1. /\ Len(Append(q, x)) = Len(q) + 1
        /\ \A i \in 1..Len(q) : Append(q, x)[i] = q[i]
        /\ Append(q, x)[Len(q) + 1] = x
        /\ Append(q, x) \in Seq(S)
    BY AppendProperties
  <1>2. /\ DOMAIN q = 1..Len(q) /\ Len(q) \in Nat
        /\ DOMAIN Append(q, x) = 1..(Len(q) + 1)
    BY <1>1, LenProperties
  <1> QED
    BY <1>1, <1>2

(* Taking the head leaves the others. *)
LEMMA TailFacts ==
    ASSUME NEW S, NEW q \in Seq(S), q # <<>>
    PROVE  /\ Tail(q) \in Seq(S)
           /\ \A i \in DOMAIN Tail(q) : i + 1 \in DOMAIN q /\ Tail(q)[i] = q[i + 1]
           /\ \A i \in DOMAIN q : i = 1 \/ (i - 1 \in DOMAIN Tail(q) /\ q[i] = Tail(q)[i - 1])
           /\ Head(q) = q[1] /\ 1 \in DOMAIN q
  <1> DEFINE r == Tail(q)
  <1>1. /\ r \in Seq(S) /\ Len(r) = Len(q) - 1
        /\ \A i \in 1..Len(r) : r[i] = q[i + 1]
    BY HeadTailProperties
  <1>2. Head(q) = q[1]
    OBVIOUS
  <1> HIDE DEF r
  <1>3. DOMAIN q = 1..Len(q) /\ Len(q) \in Nat /\ Len(q) # 0
    BY LenProperties, EmptySeq
  <1>4. DOMAIN r = 1..(Len(q) - 1)
    BY <1>1, LenProperties
  <1>5. \A i \in 1..Len(q) : i = 1 \/ (i - 1 \in 1..(Len(q) - 1) /\ q[i] = r[i - 1])
    <2> TAKE i \in 1..Len(q)
    <2>1. CASE i # 1
      <3>1. PICK j \in 1..(Len(q) - 1) : i = j + 1
        BY <1>3, <2>1
      <3>2. i - 1 = j /\ q[i] = r[j]
        BY <1>1, <1>3, <3>1
      <3> QED
        BY <3>2
    <2> QED
      BY <2>1
  <1>6. \A i \in 1..(Len(q) - 1) : i + 1 \in 1..Len(q) /\ r[i] = q[i + 1]
    BY <1>1, <1>3
  <1>7. \A i \in DOMAIN r : i + 1 \in DOMAIN q /\ r[i] = q[i + 1]
    BY <1>3, <1>4, <1>6, Zenon
  <1>8. \A i \in DOMAIN q : i = 1 \/ (i - 1 \in DOMAIN r /\ q[i] = r[i - 1])
    BY <1>3, <1>4, <1>5, Zenon
  <1>9. 1 \in DOMAIN q
    BY <1>3
  <1> QED
    BY <1>1, <1>2, <1>7, <1>8, <1>9, Zenon DEF r

--------------------------------------------------------------------------------
(* The session keeps its lease. *)
LEMMA KeptLeaseStep ==
    ASSUME FocusIInv, IInv', UNCHANGED broker, SameLease
    PROVE  FocusIInv'
  <1> USE DEF FocusIInv, broker, SameLease
  <1>1. lease'.epoch = lease.epoch /\ Telnet(lease') = Telnet(lease)
    <2>1. TypeOK
      BY DEF IInv
    <2> QED
      BY <2>1, LeaseTypes
  <1>2. lease' # NoLease => lease # NoLease
    OBVIOUS
  <1>3. FocusTypeOK' /\ EpochInv' /\ OpInv'
    BY <1>1 DEF FocusTypeOK, EpochInv, OpInv
  <1>4. OneInputOwner'
    BY <1>1, <1>2 DEF OneInputOwner
  <1>5. FocusBacked'
    BY <1>1 DEF FocusBacked, Invalidates
  <1> QED
    BY <1>3, <1>4, <1>5

(* The session takes the lease and tells the coordinator. *)
LEMMA TakenLeaseStep ==
    ASSUME FocusIInv, IInv', UNCHANGED broker, TakeLease
    PROVE  FocusIInv'
  <1>1. CASE lease = NoLease
    <2>1. SameLease
      BY <1>1 DEF TakeLease, SameLease
    <2> QED
      BY <2>1, KeptLeaseStep
  <1>2. CASE lease # NoLease
    <2> USE DEF FocusIInv, broker
    <2> DEFINE q == Append(invalidations, lease)
    <2>1. lease' = NoLease /\ invalidations' = q
      BY <1>2 DEF TakeLease
    <2>2. /\ \A i \in DOMAIN invalidations : i \in DOMAIN q /\ q[i] = invalidations[i]
          /\ \A i \in DOMAIN q :
                \/ q[i] = lease
                \/ i \in DOMAIN invalidations /\ q[i] = invalidations[i]
          /\ \E i \in DOMAIN q : q[i] = lease
      <3>1. lease \in Leases /\ invalidations \in Seq(Leases)
        BY <1>2 DEF IInv, TypeOK
      <3> QED
        BY <3>1, AppendFacts
    <2> HIDE DEF q
    <2>3. FocusTypeOK'
      BY DEF FocusTypeOK
    <2>4. EpochInv'
      <3>1. /\ lease.epoch \in 1..MaxEpoch /\ lease'.epoch = 0
            /\ \A i \in DOMAIN invalidations : invalidations[i].epoch \in 1..MaxEpoch
        BY <1>2, <2>1, LeaseTypes, NoLeaseIsNone DEF IInv
      <3>2. epoch' = epoch /\ epoch \in Nat
        BY Bounds DEF FocusTypeOK
      <3> QED
        BY <2>1, <2>2, <3>1, <3>2, Bounds DEF EpochInv
    <2>5. OpInv'
      BY <2>1, <2>2, NoLeaseIsNone DEF OpInv, FocusTypeOK
    <2>6. OneInputOwner'
      BY <2>1 DEF OneInputOwner
    <2>7. FocusBacked'
      BY <2>1, <2>2 DEF FocusBacked, Invalidates
    <2> QED
      BY <2>3, <2>4, <2>5, <2>6, <2>7
  <1> QED
    BY <1>1, <1>2

(* A step of the session outside the lock. *)
LEMMA LifeFocusStep ==
    ASSUME FocusIInv, LifeNext, UNCHANGED broker
    PROVE  FocusIInv'
  <1>1. IInv'
    BY LifeStep DEF FocusIInv
  <1>2. CASE TakeLease
    BY <1>1, <1>2, TakenLeaseStep
  <1>3. CASE ~TakeLease
    BY <1>1, <1>3, LifeLease, KeptLeaseStep
  <1> QED
    BY <1>2, <1>3

(* A move of the focus begins an epoch of which there is no lease yet. *)
LEMMA MoveFocusFacts ==
    ASSUME FocusIInv, NEW t \in Targets, MoveFocus(t)
    PROVE  /\ epoch' = epoch + 1 /\ target' = t
           /\ epoch' \in 0..MaxEpoch /\ target' \in Targets /\ sshLease' \in 0..MaxEpoch
           /\ sshLease' # 0 => sshLease' = epoch' /\ target' = Ssh
           /\ lease.epoch < epoch'
           /\ \A i \in DOMAIN invalidations :
                 /\ invalidations[i].epoch < epoch'
                 /\ invalidations[i].epoch # lease.epoch
  <1>1. /\ epoch \in Nat /\ lease.epoch \in Nat
        /\ \A i \in DOMAIN invalidations : invalidations[i].epoch \in Nat
    BY LeaseTypes, Bounds DEF FocusIInv, FocusTypeOK, IInv
  <1> QED
    BY <1>1, Bounds DEF FocusIInv, FocusTypeOK, MoveFocus, EpochInv, OneInputOwner

(* The focus goes to nobody, or to the SSH session while the lock is free.      *)
LEMMA MovedStep ==
    ASSUME FocusIInv, UNCHANGED telnet, op' \in {op, NoOp},
           ssh' \in {"down", "automating", "running"},
           NEW t \in {Nobody, Ssh}, t = Ssh => op' = NoOp,
           MoveFocus(t)
    PROVE  FocusIInv'
  <1> USE DEF FocusIInv
  <1>1. IInv' /\ lease' = lease /\ invalidations' = invalidations
    BY SameTelnet
  <1>2. t \in Targets /\ t.kind # "telnet"
    BY TargetFacts
  <1> USE MoveFocusFacts, <1>1, <1>2
  <1>3. FocusTypeOK'
    BY TargetFacts, Bounds DEF FocusTypeOK, NoOp
  <1>4. EpochInv'
    BY LeaseTypes, Bounds DEF EpochInv, FocusTypeOK, IInv
  <1>5. OpInv'
    BY TargetFacts DEF OpInv, FocusTypeOK
  <1>6. OneInputOwner' /\ FocusBacked'
    BY LeaseTypes DEF OneInputOwner, FocusBacked, FocusTypeOK, IInv
  <1> QED
    BY <1>1, <1>3, <1>4, <1>5, <1>6

(* The focus stays; an operation ends, or the SSH session comes up.             *)
LEMMA UnmovedStep ==
    ASSUME FocusIInv, UNCHANGED telnet, Unmoved,
           ssh' \in {"down", "automating", "running"},
           op' \in {op, NoOp},
           op' = op \/ op.pc \notin {"revoke", "grant", "rollback"} \/ target.kind # "telnet"
    PROVE  FocusIInv'
  <1> USE DEF FocusIInv
  <1>1. IInv' /\ lease' = lease /\ invalidations' = invalidations
    BY SameTelnet
  <1>2. UNCHANGED <<epoch, target, sshLease>>
    BY DEF Unmoved
  <1>3. FocusTypeOK'
    BY <1>2, TargetFacts, Bounds DEF FocusTypeOK, NoOp
  <1>4. EpochInv' /\ OneInputOwner'
    BY <1>1, <1>2 DEF EpochInv, OneInputOwner
  <1>5. OpInv'
    BY <1>1, <1>2, TargetFacts DEF OpInv
  <1>6. FocusBacked'
    BY <1>1, <1>2, TargetFacts DEF FocusBacked, Invalidates
  <1> QED
    BY <1>1, <1>3, <1>4, <1>5, <1>6

--------------------------------------------------------------------------------
(* One lemma per operation inside the lock. *)

(* The snapshot of a focus change, and of an input, touch the operation only.   *)
LEMMA BeginStep ==
    ASSUME FocusIInv, UNCHANGED <<telnet, epoch, target, ssh, sshLease>>, op = NoOp,
           \/ \E t \in Targets : FocusBegin(t)
           \/ InputBegin
    PROVE  FocusIInv'
  <1> USE DEF FocusIInv
  <1>1. IInv' /\ lease' = lease /\ invalidations' = invalidations
    BY SameTelnet
  <1>2. /\ op' \in [pc : {"commit", "write"}, want : Targets, prev : Targets, at : 0..MaxEpoch]
        /\ op'.pc = "write" => op'.want = target
    BY TargetFacts DEF FocusBegin, InputBegin, FocusTypeOK
  <1>3. FocusTypeOK' /\ OpInv'
    BY <1>2 DEF FocusTypeOK, OpInv
  <1>4. EpochInv' /\ OneInputOwner'
    BY <1>1 DEF EpochInv, OneInputOwner
  <1>5. FocusBacked'
    BY <1>1, TargetFacts DEF FocusBacked, Invalidates
  <1> QED
    BY <1>1, <1>3, <1>4, <1>5

LEMMA FocusCommitStep ==
    ASSUME FocusIInv, FocusCommit
    PROVE  FocusIInv'
  <1> USE DEF FocusIInv
  <1>1. IInv' /\ lease' = lease /\ invalidations' = invalidations
    BY SameTelnet DEF FocusCommit
  <1>2. CASE MayMove(op.want, op.at)
    <2>1. op.want \in Targets /\ op.at = epoch /\ epoch \in Nat
      BY <1>2, Bounds DEF MayMove, FocusTypeOK
    <2>2. /\ MoveFocus(op.want) /\ op' = [op EXCEPT !.pc = "revoke"] /\ ssh' = ssh
      BY <1>2 DEF FocusCommit
    <2> USE MoveFocusFacts, <1>1, <2>1, <2>2
    <2>3. FocusTypeOK'
      BY DEF FocusTypeOK
    <2>4. EpochInv' /\ OneInputOwner'
      BY LeaseTypes, Bounds DEF EpochInv, OneInputOwner, IInv
    <2>5. OpInv'
      <3>1. /\ op'.pc = "revoke" /\ op'.at = epoch /\ op'.want = op.want
        BY DEF FocusTypeOK
      <3>2. lease.epoch \in Nat /\ \A i \in DOMAIN invalidations : invalidations[i].epoch \in Nat
        BY LeaseTypes, Bounds DEF IInv
      <3> QED
        BY <3>1, <3>2 DEF OpInv
    <2>6. FocusBacked'
      BY DEF FocusBacked, FocusTypeOK
    <2> QED
      BY <1>1, <2>3, <2>4, <2>5, <2>6
  <1>3. CASE ~MayMove(op.want, op.at)
    <2>1. op' = NoOp /\ UNCHANGED <<epoch, target, ssh, sshLease>> /\ op.pc = "commit"
      BY <1>3 DEF FocusCommit, Unmoved
    <2>2. FocusTypeOK'
      BY <2>1, TargetFacts, Bounds DEF FocusTypeOK, NoOp
    <2>3. EpochInv' /\ OpInv' /\ OneInputOwner' /\ FocusBacked'
      BY <1>1, <2>1, TargetFacts DEF EpochInv, OpInv, OneInputOwner, FocusBacked, Invalidates
    <2> QED
      BY <1>1, <2>2, <2>3
  <1> QED
    BY <1>2, <1>3

(* revoke_input of an epoch, inside an operation that goes on or ends. *)
LEMMA RevokedStep ==
    ASSUME FocusIInv, UNCHANGED <<epoch, target, ssh, sshLease>>,
           NEW e, RevokeInput(e) \/ UNCHANGED telnet
    PROVE  /\ IInv' /\ EpochInv' /\ OneInputOwner'
           /\ lease' \in {lease, NoLease} /\ invalidations' = invalidations
  <1> USE DEF FocusIInv
  <1>1. CASE UNCHANGED telnet
    BY <1>1, SameTelnet DEF EpochInv, OneInputOwner
  <1>2. CASE RevokeInput(e)
    <2>1. lease' = NoLease /\ invalidations' = invalidations
      BY <1>2 DEF RevokeInput
    <2>2. IInv'
      BY <1>2, <2>1, LessFocusStep DEF RevokeInput, IInv, TypeOK
    <2>3. EpochInv'
      BY <2>1, LeaseTypes, NoLeaseIsNone, Bounds DEF EpochInv, IInv, FocusTypeOK
    <2>4. OneInputOwner'
      BY <2>1 DEF OneInputOwner
    <2> QED
      BY <2>1, <2>2, <2>3, <2>4
  <1> QED
    BY <1>1, <1>2

LEMMA FocusRevokePreviousStep ==
    ASSUME FocusIInv, FocusRevokePrevious
    PROVE  FocusIInv'
  <1> USE DEF FocusIInv
  <1>1. /\ UNCHANGED <<epoch, target, ssh, sshLease>>
        /\ RevokeInput(op.at) \/ UNCHANGED telnet
        /\ op.pc = "revoke"
        /\ op' = [op EXCEPT !.pc = IF op.want.kind = "telnet" THEN "grant" ELSE "check"]
    BY DEF FocusRevokePrevious
  <1>2. /\ IInv' /\ EpochInv' /\ OneInputOwner'
        /\ lease' \in {lease, NoLease} /\ invalidations' = invalidations
    BY <1>1, RevokedStep
  <1>3. FocusTypeOK'
    BY <1>1 DEF FocusTypeOK
  <1>4. OpInv'
    BY <1>1, <1>2, NoLeaseIsNone DEF OpInv, FocusTypeOK
  <1>5. FocusBacked'
    BY <1>1, TargetFacts DEF FocusBacked, OpInv, FocusTypeOK
  <1> QED
    BY <1>2, <1>3, <1>4, <1>5

LEMMA FocusGrantStep ==
    ASSUME FocusIInv, FocusGrant
    PROVE  FocusIInv'
  <1> USE DEF FocusIInv
  <1>1. UNCHANGED <<epoch, target, ssh, sshLease>> /\ op.pc = "grant"
    BY DEF FocusGrant
  <1>2. /\ op.want \in Targets /\ op.want.kind = "telnet" /\ Telnet(op.want) = op.want
        /\ op.want.gen \in Gens /\ op.want.att \in 1..MaxAtt /\ op.want.view \in Views
        /\ op.at \in Nat /\ op.at + 1 \in 1..MaxEpoch /\ epoch \in Nat
    BY <1>1, TargetFacts, Bounds DEF OpInv, FocusTypeOK
  <1>3. CASE Grantable(op.want)
    <2> DEFINE new == [gen |-> op.want.gen, att |-> op.want.att, view |-> op.want.view,
                       epoch |-> op.at + 1, expired |-> FALSE]
    <2>1. GrantInput(op.want, op.at + 1) /\ op' = [op EXCEPT !.pc = "check"]
      BY <1>3 DEF FocusGrant
    <2>2. IInv'
      BY <1>2, <2>1, GrantInputStep
    <2>3. /\ lease' = new
          /\ invalidations' = IF lease = NoLease THEN invalidations
                              ELSE Append(invalidations, lease)
      <3>1. lease # new
        BY <1>1, <1>2 DEF OpInv
      <3> QED
        BY <2>1, <3>1 DEF GrantInput
    <2>4. lease'.epoch = op.at + 1 /\ Telnet(lease') = op.want
      BY <1>2, <2>3 DEF Telnet
    <2>5. /\ \A i \in DOMAIN invalidations' :
                \/ invalidations'[i] = lease
                \/ i \in DOMAIN invalidations /\ invalidations'[i] = invalidations[i]
      <3>1. CASE lease = NoLease
        BY <2>3, <3>1
      <3>2. CASE lease # NoLease
        <4>1. lease \in Leases /\ invalidations \in Seq(Leases)
          BY <3>2 DEF IInv, TypeOK
        <4> QED
          BY <2>3, <3>2, <4>1, AppendFacts
      <3> QED
        BY <3>1, <3>2
    <2>6. FocusTypeOK'
      BY <1>1, <2>1 DEF FocusTypeOK
    <2>7. EpochInv'
      <3>1. \A i \in DOMAIN invalidations' : invalidations'[i].epoch <= op.at
        BY <1>1, <2>5 DEF OpInv
      <3>2. \A i \in DOMAIN invalidations' : invalidations'[i].epoch \in Nat
        BY <2>2, <2>5, LeaseTypes, Bounds DEF IInv
      <3>3. op.at + 1 <= epoch
        BY <1>1 DEF OpInv
      <3> QED
        BY <1>1, <1>2, <2>4, <3>1, <3>2, <3>3 DEF EpochInv
    <2>8. OpInv'
      BY <1>1, <2>1 DEF OpInv, FocusTypeOK
    <2>9. OneInputOwner'
      BY <1>1, <2>4 DEF OneInputOwner, OpInv
    <2>10. FocusBacked'
      BY <1>1, <1>2, <2>1, <2>4, TargetFacts DEF FocusBacked, OpInv
    <2> QED
      BY <2>2, <2>6, <2>7, <2>8, <2>9, <2>10
  <1>4. CASE ~Grantable(op.want)
    <2>1. UNCHANGED telnet /\ op' = [op EXCEPT !.pc = "rollback"]
      BY <1>4 DEF FocusGrant
    <2>2. IInv' /\ lease' = lease /\ invalidations' = invalidations
      BY <2>1, SameTelnet
    <2>3. FocusTypeOK' /\ EpochInv' /\ OneInputOwner'
      BY <1>1, <2>1, <2>2 DEF FocusTypeOK, EpochInv, OneInputOwner
    <2>4. OpInv' /\ FocusBacked'
      BY <1>1, <2>1, <2>2 DEF OpInv, FocusBacked, FocusTypeOK
    <2> QED
      BY <2>2, <2>3, <2>4
  <1> QED
    BY <1>3, <1>4

LEMMA FocusRollbackStep ==
    ASSUME FocusIInv, FocusRollback
    PROVE  FocusIInv'
  <1>1. /\ UNCHANGED telnet /\ op' = NoOp /\ op.pc = "rollback"
        /\ ssh' \in {"down", "automating", "running"}
    BY DEF FocusRollback, FocusIInv, FocusTypeOK
  <1>2. CASE MayMove(Nobody, op.at + 1)
    <2>1. MoveFocus(Nobody) /\ Nobody # Ssh
      BY <1>2, TargetFacts DEF FocusRollback
    <2> QED
      BY <1>1, <2>1, MovedStep
  <1>3. CASE ~MayMove(Nobody, op.at + 1)
    <2>1. Unmoved
      BY <1>3 DEF FocusRollback
    <2>2. target.kind # "telnet"
      BY <1>1, <1>3, TargetFacts DEF MayMove, FocusIInv, OpInv
    <2> QED
      BY <1>1, <2>1, <2>2, UnmovedStep
  <1> QED
    BY <1>2, <1>3

LEMMA FocusCheckStep ==
    ASSUME FocusIInv, FocusCheck
    PROVE  FocusIInv'
  <1> DEFINE ok == (epoch = op.at + 1 /\ target = op.want) \/ op.want.kind # "telnet"
  <1>1. /\ UNCHANGED telnet /\ op.pc = "check" /\ UNCHANGED <<epoch, target, ssh, sshLease>>
        /\ op' = IF ok THEN NoOp ELSE [op EXCEPT !.pc = "undo"]
    BY DEF FocusCheck
  <1>2. CASE ok
    <2>1. /\ Unmoved /\ op' = NoOp /\ op.pc \notin {"revoke", "grant", "rollback"}
          /\ ssh' \in {"down", "automating", "running"}
      BY <1>1, <1>2 DEF Unmoved, FocusIInv, FocusTypeOK
    <2> QED
      BY <1>1, <2>1, UnmovedStep
  <1>3. CASE ~ok
    <2> USE DEF FocusIInv
    <2>1. IInv' /\ lease' = lease /\ invalidations' = invalidations
      BY <1>1, SameTelnet
    <2>2. FocusTypeOK' /\ EpochInv' /\ OneInputOwner'
      BY <1>1, <1>3, <2>1 DEF FocusTypeOK, EpochInv, OneInputOwner
    <2>3. OpInv'
      BY <1>1, <1>3 DEF OpInv, FocusTypeOK
    <2>4. FocusBacked'
      BY <1>1, <2>1 DEF FocusBacked, Invalidates
    <2> QED
      BY <2>1, <2>2, <2>3, <2>4
  <1> QED
    BY <1>2, <1>3

LEMMA FocusUndoStep ==
    ASSUME FocusIInv, FocusUndo
    PROVE  FocusIInv'
  <1> USE DEF FocusIInv
  <1>1. /\ UNCHANGED <<epoch, target, ssh, sshLease>>
        /\ RevokeInput(op.at + 1) \/ UNCHANGED telnet
        /\ op.pc = "undo" /\ op' = NoOp
    BY DEF FocusUndo
  <1>2. /\ IInv' /\ EpochInv' /\ OneInputOwner'
        /\ lease' \in {lease, NoLease} /\ invalidations' = invalidations
    BY <1>1, RevokedStep
  <1>3. FocusTypeOK' /\ OpInv'
    BY <1>1, TargetFacts, Bounds DEF FocusTypeOK, OpInv, NoOp
  <1>4. FocusBacked'
    BY <1>1, TargetFacts DEF FocusBacked, OpInv
  <1> QED
    BY <1>2, <1>3, <1>4

(* The coordinator takes the focus from the session, or drops old news. *)
LEMMA CoordinateStep ==
    ASSUME FocusIInv, Coordinate
    PROVE  FocusIInv'
  <1> USE DEF FocusIInv
  <1> DEFINE q == invalidations
  <1>1. /\ q \in Seq(Leases) /\ q # <<>> /\ invalidations' = Tail(q) /\ lease' = lease
        /\ UNCHANGED <<ssh, op>> /\ op = NoOp /\ UNCHANGED <<session, tasks, exit>>
    BY DEF Coordinate, TakeInvalidation, IInv, TypeOK
  <1>2. /\ Tail(q) \in Seq(Leases)
        /\ \A i \in DOMAIN Tail(q) : i + 1 \in DOMAIN q /\ Tail(q)[i] = q[i + 1]
        /\ \A i \in DOMAIN q : i = 1 \/ (i - 1 \in DOMAIN Tail(q) /\ q[i] = Tail(q)[i - 1])
        /\ Head(q) = q[1] /\ 1 \in DOMAIN q
    BY <1>1, TailFacts
  <1> HIDE DEF q
  <1>3. IInv'
    BY <1>1, <1>2, LessFocusStep
  <1>4. CASE Invalidates(Head(q))
    <2>1. MoveFocus(Nobody) /\ Nobody \in Targets
      BY <1>4, TargetFacts DEF Coordinate, q
    <2> USE MoveFocusFacts, <2>1
    <2>2. FocusTypeOK'
      BY <1>1 DEF FocusTypeOK
    <2>3. EpochInv'
      <3>1. /\ epoch' \in Nat /\ lease.epoch \in Nat
            /\ \A i \in DOMAIN q : q[i].epoch \in Nat
        BY LeaseTypes, Bounds DEF FocusTypeOK, IInv, q
      <3> QED
        BY <1>1, <1>2, <3>1 DEF EpochInv, q
    <2>4. OpInv' /\ FocusBacked'
      BY <1>1, TargetFacts DEF OpInv, FocusBacked
    <2>5. OneInputOwner'
      BY <1>1, LeaseTypes DEF OneInputOwner, IInv, FocusTypeOK
    <2> QED
      BY <1>3, <2>2, <2>3, <2>4, <2>5
  <1>5. CASE ~Invalidates(Head(q))
    <2>1. UNCHANGED <<epoch, target, sshLease>>
      BY <1>5 DEF Coordinate, Unmoved, q
    <2>2. FocusTypeOK' /\ OneInputOwner' /\ OpInv'
      BY <1>1, <2>1, TargetFacts DEF FocusTypeOK, OneInputOwner, OpInv
    <2>3. EpochInv'
      BY <1>1, <1>2, <2>1 DEF EpochInv, q
    <2>4. FocusBacked'
      BY <1>1, <1>2, <1>5, <2>1, TargetFacts DEF FocusBacked, Invalidates, q
    <2> QED
      BY <1>3, <2>2, <2>3, <2>4
  <1> QED
    BY <1>4, <1>5

(* Every step, and a stutter. *)
LEMMA FocusNextStep == FocusIInv /\ [FocusNext]_vars => FocusIInv'
  <1> SUFFICES ASSUME FocusIInv, [FocusNext]_vars
               PROVE  FocusIInv'
    OBVIOUS
  <1>0. ssh \in {"down", "automating", "running"} /\ Nobody # Ssh
    BY TargetFacts DEF FocusIInv, FocusTypeOK
  <1>1. CASE LifeNext /\ UNCHANGED broker
    BY <1>1, LifeFocusStep
  <1>2. CASE \E t \in Targets : FocusBegin(t)
    <2>1. UNCHANGED <<telnet, epoch, target, ssh, sshLease>> /\ op = NoOp
      BY <1>2 DEF FocusBegin
    <2> QED
      BY <1>2, <2>1, BeginStep
  <1>3. CASE \E t \in Targets : SshFocusChange(t)
    <2>1. PICK t \in {Nobody, Ssh} : MoveFocus(t) /\ UNCHANGED <<telnet, ssh, op>> /\ op = NoOp
      BY <1>3 DEF SshFocusChange
    <2> QED
      BY <1>0, <2>1, MovedStep
  <1>4. CASE \/ FocusCommit \/ FocusRevokePrevious \/ FocusGrant \/ FocusRollback
            \/ FocusCheck \/ FocusUndo \/ Coordinate
    BY <1>4, FocusCommitStep, FocusRevokePreviousStep, FocusGrantStep, FocusRollbackStep,
      FocusCheckStep, FocusUndoStep, CoordinateStep
  <1>5. CASE TakeOver
    BY <1>5, MovedStep DEF TakeOver
  <1>6. CASE InputBegin
    BY <1>6, BeginStep DEF InputBegin
  <1>7. CASE TelnetWrite \/ TelnetRefuse
    <2>1. /\ UNCHANGED telnet /\ Unmoved /\ op' = NoOp /\ ssh' = ssh
          /\ op.pc \notin {"revoke", "grant", "rollback"}
      BY <1>7 DEF TelnetWrite, TelnetRefuse, Unmoved
    <2> QED
      BY <1>0, <2>1, UnmovedStep
  <1>8. CASE SshAutomationEnds \/ \E s \in {"automating", "running"} : SshStarts(s)
    BY <1>8, UnmovedStep DEF SshStarts, SshAutomationEnds
  <1>9. CASE SshStops
    BY <1>0, <1>9, MovedStep, UnmovedStep DEF SshStops
  <1>10. CASE SshViewGoes \/ SshShutdown
    BY <1>0, <1>10, MovedStep DEF SshViewGoes, SshShutdown
  <1>11. CASE UNCHANGED vars
    BY <1>0, <1>11, UnmovedStep DEF vars, broker, Unmoved
  <1> QED
    BY <1>1, <1>2, <1>3, <1>4, <1>5, <1>6, <1>7, <1>8, <1>9, <1>10, <1>11 DEF FocusNext

LEMMA FocusInitInv == FocusInit => FocusIInv
  <1> SUFFICES ASSUME FocusInit
               PROVE  FocusIInv
    OBVIOUS
  <1>1. IInv
    BY InitInv DEF FocusInit
  <1>2. FocusTypeOK
    BY TargetFacts, Bounds DEF FocusInit, FocusTypeOK, NoOp
  <1>3. EpochInv
    <2>1. lease = NoLease /\ invalidations = <<>> /\ epoch = 0
      BY DEF FocusInit, Init
    <2> QED
      BY <2>1, NoLeaseIsNone DEF EpochInv
  <1>4. OpInv /\ OneInputOwner /\ FocusBacked
    BY TargetFacts DEF FocusInit, Init, OpInv, OneInputOwner, FocusBacked
  <1> QED
    BY <1>1, <1>2, <1>3, <1>4 DEF FocusIInv

--------------------------------------------------------------------------------
(* The invariant of the focus and its sessions holds in every reachable state.  *)
THEOREM FocusInductive == FocusSpec => []FocusIInv
  BY FocusInitInv, FocusNextStep, PTL DEF FocusSpec

(* The focus, the operation inside the lock and the SSH lease keep their types. *)
THEOREM FocusTypeCorrect == FocusSpec => []FocusTypeOK
  BY FocusInductive, PTL DEF FocusIInv

(* In one epoch one terminal can be written to: a lease of the current epoch,   *)
(* in whichever actor, belongs to the target (terminal_focus_change_once).      *)
THEOREM OneInputOwnerHolds == FocusSpec => []OneInputOwner
  BY FocusInductive, PTL DEF FocusIInv

(* A focused Telnet session has its lease, or the news of its loss is queued    *)
(* for the coordinator, or the focus change that gave it the focus goes on.     *)
THEOREM FocusBackedHolds == FocusSpec => []FocusBacked
  BY FocusInductive, PTL DEF FocusIInv

(* Input checked inside the broker's lock is never written after another        *)
(* terminal got the focus (telnet_terminal_input).                              *)
THEOREM NoMisdirectedWriteHolds == FocusSpec => NoMisdirectedWrite
  <1>1. FocusIInv /\ [FocusNext]_vars => [TelnetWrite => target \in {op.want, Nobody}]_vars
    BY DEF FocusIInv, OpInv, TelnetWrite
  <1> QED
    BY <1>1, FocusInductive, PTL DEF FocusSpec, NoMisdirectedWrite

(* The coordinator takes the focus only from a session that has no lease of the *)
(* current epoch (clear_telnet_focus_exact).                                    *)
THEOREM CoordinatorExactHolds == FocusSpec => CoordinatorExact
  <1>1. ASSUME FocusIInv, Coordinate, target' # target
        PROVE  lease.epoch # epoch
    <2>1. Invalidates(Head(invalidations))
      BY <1>1 DEF Coordinate, Unmoved
    <2>2. Head(invalidations) = invalidations[1] /\ 1 \in DOMAIN invalidations
      BY <1>1, TailFacts DEF Coordinate, TakeInvalidation, FocusIInv, IInv, TypeOK
    <2> QED
      BY <1>1, <2>1, <2>2 DEF FocusIInv, EpochInv, Invalidates
  <1>2. FocusIInv /\ [FocusNext]_vars
          => [Coordinate /\ target' # target => lease.epoch # epoch]_vars
    BY <1>1
  <1> QED
    BY <1>2, FocusInductive, PTL DEF FocusSpec, CoordinatorExact

================================================================================
