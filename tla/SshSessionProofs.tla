-------------------------- MODULE SshSessionProofs --------------------------
(***************************************************************************)
(* Proofs about module SshSession, for every number of generations, hops,  *)
(* prompts and requests: a shell never runs unattended, a session at work  *)
(* blocks the exit, a host is authenticated to only once its key is        *)
(* trusted, a prompt is current, and stale messages and requests do        *)
(* nothing.                                                                *)
(*                                                                         *)
(* The inductive invariant says what the mailbox can hold beside each      *)
(* state of the tasks, the workers and the record.  It speaks of the SET   *)
(* of messages in the mailbox, and of their order only through Follows,    *)
(* which says what the same generation may have sent after a message.      *)
(***************************************************************************)
EXTENDS SshSession, SequenceTheorems, TLAPS

Slots == 1 .. Len(mailbox)
Mail == {mailbox[i] : i \in Slots}

(* What connect tasks send while no shell worker of theirs exists. *)
TaskTypes == {"Connecting", "HostKeyObserved", "Authenticating",
              "KeyboardInteractive", "OpeningChannel", "ShellReady"}

Messages ==
    [type : MessageTypes \ {"HostKeyObserved"}, gen : Gens]
      \cup [type : {"HostKeyObserved"}, gen : Gens, hop : Hops]

Typed ==
    /\ state \in States
    /\ gen \in Gens \cup {0}
    /\ shared \in BOOLEAN /\ shell \in BOOLEAN /\ stop \in BOOLEAN
    /\ live \in BOOLEAN /\ challenge \in BOOLEAN /\ kbd \in BOOLEAN
    /\ waiter \in BOOLEAN
    /\ connectTask \in Gens \cup {0}
    /\ cpc \in [Gens -> TaskPCs]
    /\ hop \in [Gens -> Hops]
    /\ rounds \in [Gens -> 0 .. MaxRounds]
    /\ reply \in [Gens -> {"none", "accepted", "refused"}]
    /\ aborted \subseteq Gens
    /\ worker \in [Gens -> WorkerPCs]
    /\ signal \in [Gens -> {"none", "disconnect", "abort"}]
    /\ mailbox \in Seq(Messages)
    /\ requests \subseteq [op : Ops, fresh : BOOLEAN]
    /\ pinned \subseteq Hops

(* A task waits for the answer to its question, so after a question it can   *)
(* only have sent its failure; after the shell it sends nothing.             *)
Follows(m, n) ==
    m.gen = n.gen =>
        /\ m.type # "ShellReady"
        /\ m.type \in {"HostKeyObserved", "KeyboardInteractive"}
             => n.type = "ConnectionFailed"

InOrder == \A i, j \in Slots : i < j => Follows(mailbox[i], mailbox[j])

(* A fresh request has seen the record as it is. *)
RequestsSeen ==
    \A r \in requests : r.fresh =>
        /\ r.op = "reconnect" => gen < MaxGen
        /\ r.op \in {"accept", "reject"} => challenge
        /\ r.op = "answer" => kbd

(* Nothing of a generation exists before it is started. *)
NotYet ==
    /\ gen = 0 => /\ state = "None"
                  /\ ~shell /\ ~stop /\ ~live /\ ~challenge /\ ~kbd
                  /\ requests = {} /\ connectTask = 0
    /\ state = "None" => gen = 0
    /\ connectTask <= gen
    /\ \A g \in aborted : g <= gen
    /\ \A g \in Gens : g > gen => cpc[g] = "none" /\ worker[g] = "none"
    /\ \A m \in Mail : m.gen <= gen

(* A worker starts after its task has ended, the task at work is the one in *)
(* connect_tasks, and a session whose task was aborted is going down.       *)
TaskOrder ==
    /\ \A g \in Gens : cpc[g] # "done" => worker[g] = "none"
    /\ gen > 0 => /\ (cpc[gen] \in Working /\ gen \notin aborted)
                       => connectTask = gen
                  /\ gen \in aborted => state \in Down
                  /\ connectTask = gen => ~shell

(* A session is up only with a worker, and is live until it has ended. *)
ShellOrder ==
    /\ gen > 0 => /\ shell => worker[gen] # "none"
                  /\ worker[gen] # "none" => state \in Up \cup Down
                  /\ state \in Up => worker[gen] # "none"
                  /\ state \notin Ended => live
    /\ state = "Disconnecting" => ~stop

(* A task or worker that reported its end has ended. *)
EndMail ==
    \A m \in Mail :
        /\ m.type \in {"ConnectionFailed", "ShellReady"} => cpc[m.gen] = "done"
        /\ m.type \in {"ShellClosed", "ShellCleanupCompleted"}
             => worker[m.gen] = "gone"
        /\ m.type \in TaskTypes => worker[m.gen] = "none"

(* An observed key not yet handled is that of the host the task waits for. *)
KeyMail ==
    \A m \in Mail : m.type = "HostKeyObserved" =>
        \/ cpc[m.gen] = "done"
        \/ /\ cpc[m.gen] = "verify"
           /\ m.hop = hop[m.gen]
           /\ reply[m.gen] = "none"
           /\ m.gen = gen => ~challenge

(* A prompt not yet handled has its task waiting, unless it has given up;    *)
(* then its failure is on the way, or nobody minds.                          *)
PromptMail ==
    \A m \in Mail : m.type = "KeyboardInteractive" =>
        \/ cpc[m.gen] = "answer" /\ reply[m.gen] = "none"
        \/ /\ cpc[m.gen] = "done"
           /\ \/ m.gen # gen
              \/ state \in Down
              \/ Message("ConnectionFailed", gen) \in Mail

(* An accepted key is trusted, and a host-key question has its asker. *)
Keys ==
    /\ HostVerified
    /\ \A g \in Gens :
         cpc[g] = "verify" /\ reply[g] = "accepted" => hop[g] \in pinned
    /\ challenge => /\ cpc[gen] \in {"verify", "done"}
                    /\ cpc[gen] = "verify" => reply[gen] = "none"

Prompts ==
    kbd => /\ state = "Authenticating"
           /\ \/ cpc[gen] = "answer" /\ reply[gen] = "none"
              \/ cpc[gen] = "done" /\ Message("ConnectionFailed", gen) \in Mail
           /\ \A m \in Mail : m.gen = gen => m.type = "ConnectionFailed"

IInv ==
    /\ Typed
    /\ InOrder
    /\ RequestsSeen
    /\ NotYet
    /\ TaskOrder
    /\ ShellOrder
    /\ NoOrphanedShell
    /\ WorkBlocksExit
    /\ EndMail
    /\ KeyMail
    /\ PromptMail
    /\ Keys
    /\ Prompts

-----------------------------------------------------------------------------
(* The mailbox. *)

(* A posted message joins the mail, in order if what the same generation    *)
(* sent before allows it.                                                   *)
LEMMA MailPosted ==
    ASSUME Typed, InOrder, NEW m \in Messages, Post(m),
           \A n \in Mail : Follows(n, m)
    PROVE  /\ mailbox' \in Seq(Messages)
           /\ Mail' = Mail \cup {m}
           /\ InOrder'
<1>1. /\ mailbox \in Seq(Messages)
      /\ mailbox' = Append(mailbox, m)
  BY DEF Typed, Post
<1>2. /\ mailbox' \in Seq(Messages)
      /\ Len(mailbox') = Len(mailbox) + 1
      /\ Len(mailbox) \in Nat
      /\ \A i \in 1 .. Len(mailbox) : mailbox'[i] = mailbox[i]
      /\ mailbox'[Len(mailbox) + 1] = m
  BY <1>1
<1>3. Mail' = Mail \cup {m}
  BY <1>2 DEF Mail, Slots
<1>4. ASSUME NEW i \in Slots', NEW j \in Slots', i < j
      PROVE  Follows(mailbox'[i], mailbox'[j])
  <2>1. i \in Slots /\ mailbox'[i] = mailbox[i] /\ mailbox[i] \in Mail
    BY <1>2, <1>4 DEF Slots, Mail
  <2>2. CASE j \in Slots
    BY <1>2, <1>4, <2>1, <2>2 DEF InOrder, Slots
  <2>3. CASE j \notin Slots
    <3>1. mailbox'[j] = m
      BY <1>2, <2>3 DEF Slots
    <3> QED BY <2>1, <3>1
  <2> QED BY <2>2, <2>3
<1>5. InOrder'
  BY <1>4 DEF InOrder, Follows
<1> QED BY <1>2, <1>3, <1>5

(* The actor takes the oldest message; the others stay, and what is left of *)
(* the same generation follows it.                                          *)
LEMMA MailTaken ==
    ASSUME Typed, InOrder, mailbox # <<>>, mailbox' = Tail(mailbox)
    PROVE  /\ mailbox' \in Seq(Messages)
           /\ Head(mailbox) \in Mail /\ Head(mailbox) \in Messages
           /\ Mail' \subseteq Mail
           /\ Mail \subseteq Mail' \cup {Head(mailbox)}
           /\ \A n \in Mail' : Follows(Head(mailbox), n)
           /\ InOrder'
<1>1. mailbox \in Seq(Messages) /\ Len(mailbox) \in Nat
  BY DEF Typed
<1>2. /\ mailbox' \in Seq(Messages)
      /\ Len(mailbox') = Len(mailbox) - 1 /\ Len(mailbox) > 0
      /\ \A i \in 1 .. Len(mailbox) - 1 : mailbox'[i] = mailbox[i + 1]
      /\ Head(mailbox) = mailbox[1]
      /\ Head(mailbox) \in Messages
  BY <1>1
<1>3. Head(mailbox) \in Mail /\ 1 \in Slots
  BY <1>1, <1>2 DEF Mail, Slots
<1>4. \A i \in Slots' : i + 1 \in Slots /\ mailbox'[i] = mailbox[i + 1]
  BY <1>1, <1>2 DEF Slots
<1>5. Mail' \subseteq Mail
  BY <1>4 DEF Mail
<1>6. \A i \in Slots : i = 1 \/ (i - 1 \in Slots' /\ mailbox[i] = mailbox'[i - 1])
  BY <1>1, <1>2 DEF Slots
<1>7. Mail \subseteq Mail' \cup {Head(mailbox)}
  <2> SUFFICES ASSUME NEW i \in Slots
               PROVE  mailbox[i] \in Mail' \/ mailbox[i] = Head(mailbox)
    BY DEF Mail
  <2>1. CASE i = 1
    BY <1>2, <2>1
  <2>2. CASE i - 1 \in Slots' /\ mailbox[i] = mailbox'[i - 1]
    BY <2>2 DEF Mail
  <2> QED BY <1>6, <2>1, <2>2
<1>8. \A n \in Mail' : Follows(Head(mailbox), n)
  <2> SUFFICES ASSUME NEW i \in Slots'
               PROVE  Follows(Head(mailbox), mailbox'[i])
    BY DEF Mail, Follows
  <2>1. i + 1 \in Slots /\ 1 < i + 1 /\ mailbox'[i] = mailbox[i + 1]
    BY <1>1, <1>2, <1>4 DEF Slots
  <2> QED BY <1>2, <1>3, <2>1 DEF InOrder
<1>9. InOrder'
  <2>1. ASSUME NEW i \in Slots', NEW j \in Slots', i < j
        PROVE  Follows(mailbox'[i], mailbox'[j])
    <3>1. i + 1 < j + 1
      BY <2>1, <1>1, <1>2 DEF Slots
    <3> QED BY <1>4, <3>1 DEF InOrder
  <2> QED BY <2>1 DEF InOrder, Follows
<1> QED BY <1>2, <1>3, <1>5, <1>7, <1>8, <1>9

(* An untouched mailbox holds the same mail. *)
LEMMA MailSame ==
    ASSUME Typed, InOrder, mailbox' = mailbox
    PROVE  mailbox' \in Seq(Messages) /\ Mail' = Mail /\ InOrder'
BY DEF Typed, Mail, InOrder, Slots, Follows

LEMMA MailTyped ==
    ASSUME Typed
    PROVE  \A m \in Mail : /\ m \in Messages /\ m.gen \in Gens
                           /\ m.type \in MessageTypes
                           /\ m.type = "HostKeyObserved" => m.hop \in Hops
BY DEF Typed, Mail, Slots, Messages, MessageTypes

LEMMA PlainMessage ==
    ASSUME NEW t \in MessageTypes \ {"HostKeyObserved"}, NEW g \in Gens
    PROVE  /\ Message(t, g) \in Messages
           /\ Message(t, g).type = t /\ Message(t, g).gen = g
BY DEF Message, Messages

-----------------------------------------------------------------------------
(* Requests in flight. *)

(* Revising leaves requests that have seen the new record: a fresh one that *)
(* is not outdated has seen what has not changed.                           *)
LEMMA Revised ==
    ASSUME Typed, RequestsSeen, NEW inFlight, inFlight \subseteq requests,
           Revise(inFlight), gen' = gen \/ state' # state
    PROVE  /\ requests' \subseteq [op : Ops, fresh : BOOLEAN]
           /\ RequestsSeen'
<1>1. \A r \in inFlight : /\ r \in [op : Ops, fresh : BOOLEAN]
                          /\ r \in requests
  BY DEF Typed
<1>2. \A q \in requests' : \E r \in inFlight :
         q = [r EXCEPT !.fresh = @ /\ ~Outdated(r)]
  BY DEF Revise
<1>3. \A q \in requests' :
         /\ q \in [op : Ops, fresh : BOOLEAN]
         /\ \E r \in inFlight : /\ r.op = q.op
                                /\ q.fresh => r.fresh /\ ~Outdated(r)
  BY <1>1, <1>2
<1>4. ASSUME NEW q \in requests', q.fresh
      PROVE  /\ q.op = "reconnect" => gen' < MaxGen
             /\ q.op \in {"accept", "reject"} => challenge'
             /\ q.op = "answer" => kbd'
  <2>1. PICK r \in inFlight : r.op = q.op /\ r.fresh /\ ~Outdated(r)
    BY <1>3, <1>4
  <2>2. q.op = "reconnect" => gen < MaxGen /\ state' = state
    BY <1>1, <2>1 DEF RequestsSeen, Outdated
  <2>3. q.op \in {"accept", "reject"} => challenge'
    BY <2>1 DEF Outdated
  <2>4. q.op = "answer" => kbd'
    BY <2>1 DEF Outdated
  <2> QED BY <2>2, <2>3, <2>4
<1> QED BY <1>3, <1>4 DEF RequestsSeen

-----------------------------------------------------------------------------
(* Connect tasks. *)

(* What every step of a connect task does: it moves the task on or ends it, *)
(* and answers to nobody but the actor.                                     *)
TaskMoves(g) ==
    /\ TaskFrame
    /\ cpc[g] \in Working
    /\ \E p \in Working \cup {"done"} : cpc' = [cpc EXCEPT ![g] = p]
    /\ \/ aborted' = aborted
       \/ aborted' = aborted \ {g} /\ cpc'[g] = "done"
    /\ \A n \in Mail' : n \in Mail \/ n.gen = g

(* ... which keeps everything but what is said of mail and questions. *)
LEMMA TaskMovesKeeps ==
    ASSUME IInv, NEW g \in Gens, TaskMoves(g)
    PROVE  /\ RequestsSeen' /\ NotYet' /\ TaskOrder' /\ ShellOrder'
           /\ NoOrphanedShell' /\ WorkBlocksExit'
<1> USE SshSessionAssumption
<1>1. /\ UNCHANGED <<state, gen, shared, shell, stop, live, challenge, kbd,
                     connectTask, worker, signal, requests, pinned, waiter>>
      /\ cpc[g] \in Working
      /\ \A n \in Mail' : n \in Mail \/ n.gen = g
  BY DEF TaskMoves, TaskFrame, record, workers
<1>2. /\ cpc'[g] \in Working \cup {"done"}
      /\ \A h \in Gens : h # g => cpc'[h] = cpc[h]
      /\ \A h \in Gens : h # g => (h \in aborted' <=> h \in aborted)
      /\ g \in aborted' => g \in aborted
      /\ g \in aborted => g \in aborted' \/ cpc'[g] = "done"
  BY DEF TaskMoves, IInv, Typed
<1>3. g <= gen /\ gen \in Nat /\ gen > 0 => gen \in Gens
  BY <1>1 DEF IInv, Typed, NotYet, Working, Gens
<1>4. RequestsSeen'
  BY <1>1 DEF IInv, RequestsSeen
<1>5. NotYet'
  <2>1. g <= gen
    BY <1>1 DEF IInv, Typed, NotYet, Working, Gens
  <2>2. \A h \in Gens : h > gen => h # g
    BY <2>1 DEF Gens, IInv, Typed
  <2>3. \A h \in aborted' : h \in aborted
    BY <1>2 DEF TaskMoves
  <2> QED BY <1>1, <1>2, <2>1, <2>2, <2>3 DEF IInv, NotYet
<1>6. TaskOrder'
  BY <1>1, <1>2 DEF IInv, Typed, TaskOrder, Working, TaskPCs, Gens
<1>7. ShellOrder' /\ NoOrphanedShell'
  BY <1>1 DEF IInv, ShellOrder, NoOrphanedShell
<1>8. WorkBlocksExit'
  BY <1>1, <1>2 DEF IInv, Typed, WorkBlocksExit, Working, TaskPCs, Gens
<1> QED BY <1>4, <1>5, <1>6, <1>7, <1>8

(* A task that goes on without a question: phase reports. *)
LEMMA DialStep ==
    ASSUME IInv, NEW g \in Gens, Dial(g)
    PROVE  IInv'
<1> USE SshSessionAssumption
<1> DEFINE m == Message("Connecting", g)
<1>1. /\ m \in Messages /\ m.type = "Connecting" /\ m.gen = g
  BY PlainMessage DEF MessageTypes
<1>2. /\ cpc[g] \in {"plan", "auth"} /\ cpc' = [cpc EXCEPT ![g] = "dial"]
      /\ hop' \in [Gens -> Hops] /\ \A h \in Gens : h # g => hop'[h] = hop[h]
      /\ Post(m)
      /\ UNCHANGED <<rounds, reply, aborted>> /\ TaskFrame
  BY DEF Dial, TaskGoes, GoesOn, IInv, Typed, Hops
<1> HIDE DEF m
<1>3. \A n \in Mail : Follows(n, m)
  BY <1>1, <1>2, MailTyped DEF IInv, EndMail, KeyMail, PromptMail, Follows
<1>4. mailbox' \in Seq(Messages) /\ Mail' = Mail \cup {m} /\ InOrder'
  BY <1>1, <1>2, <1>3, MailPosted DEF IInv
<1>5. TaskMoves(g)
  BY <1>1, <1>2, <1>4 DEF TaskMoves, Working, TaskPCs
<1>6. /\ RequestsSeen' /\ NotYet' /\ TaskOrder' /\ ShellOrder'
      /\ NoOrphanedShell' /\ WorkBlocksExit'
  BY <1>5, TaskMovesKeeps
<1>7. Typed'
  BY <1>2, <1>4 DEF IInv, Typed, TaskFrame, record, workers, TaskPCs
<1>8. EndMail'
  BY <1>1, <1>2, <1>4, MailTyped DEF IInv, Typed, EndMail, TaskFrame, workers, TaskOrder
<1>9. KeyMail'
  BY <1>1, <1>2, <1>4, MailTyped DEF IInv, Typed, KeyMail, TaskFrame, record
<1>10. PromptMail'
  BY <1>1, <1>2, <1>4, MailTyped DEF IInv, Typed, PromptMail, TaskFrame, record
<1>11. Keys'
  BY <1>1, <1>2, <1>4 DEF IInv, Typed, Keys, HostVerified, TaskFrame, record, NotYet, Gens
<1>12. Prompts'
  BY <1>1, <1>2, <1>4 DEF IInv, Typed, Prompts, TaskFrame, record, NotYet, Gens
<1> QED BY <1>4, <1>6, <1>7, <1>8, <1>9, <1>10, <1>11, <1>12 DEF IInv

(* A task asks about a host key; no question of its generation is open. *)
LEMMA VerifyHostKeyStep ==
    ASSUME IInv, NEW g \in Gens, VerifyHostKey(g)
    PROVE  IInv'
<1> USE SshSessionAssumption
<1> DEFINE m == [type |-> "HostKeyObserved", gen |-> g, hop |-> hop[g]]
<1>1. /\ m \in Messages /\ m.type = "HostKeyObserved" /\ m.gen = g
      /\ m.hop = hop[g]
  BY DEF IInv, Typed, Messages
<1>2. /\ cpc[g] = "dial" /\ cpc' = [cpc EXCEPT ![g] = "verify"]
      /\ Post(m)
      /\ reply' = [reply EXCEPT ![g] = "none"]
      /\ UNCHANGED <<hop, rounds, aborted>> /\ TaskFrame
  BY DEF VerifyHostKey, TaskGoes, GoesOn, IInv, Typed
<1> HIDE DEF m
<1>3. \A n \in Mail : Follows(n, m)
  BY <1>1, <1>2, MailTyped
     DEF IInv, EndMail, KeyMail, PromptMail, Follows
<1>4. mailbox' \in Seq(Messages) /\ Mail' = Mail \cup {m} /\ InOrder'
  BY <1>1, <1>2, <1>3, MailPosted DEF IInv
<1>5. TaskMoves(g)
  BY <1>1, <1>2, <1>4 DEF TaskMoves, Working, TaskPCs
<1>6. /\ RequestsSeen' /\ NotYet' /\ TaskOrder' /\ ShellOrder'
      /\ NoOrphanedShell' /\ WorkBlocksExit'
  BY <1>5, TaskMovesKeeps
<1>7. Typed'
  BY <1>2, <1>4 DEF IInv, Typed, TaskFrame, record, workers, TaskPCs
<1>8. EndMail'
  BY <1>1, <1>2, <1>4, MailTyped
     DEF IInv, Typed, EndMail, TaskFrame, workers, TaskOrder
<1>9. KeyMail'
  BY <1>1, <1>2, <1>4, MailTyped DEF IInv, Typed, KeyMail, TaskFrame, record, Keys
<1>10. PromptMail'
  BY <1>1, <1>2, <1>4, MailTyped DEF IInv, Typed, PromptMail, TaskFrame, record
<1>11. Keys'
  BY <1>1, <1>2, <1>4
     DEF IInv, Typed, Keys, HostVerified, TaskFrame, record, NotYet, Gens
<1>12. Prompts'
  BY <1>1, <1>2, <1>4
     DEF IInv, Typed, Prompts, TaskFrame, record, NotYet, Gens
<1> QED BY <1>4, <1>6, <1>7, <1>8, <1>9, <1>10, <1>11, <1>12 DEF IInv

(* A task goes on only with an accepted key, which is trusted. *)
LEMMA AuthenticateStep ==
    ASSUME IInv, NEW g \in Gens, Authenticate(g)
    PROVE  IInv'
<1> USE SshSessionAssumption
<1> DEFINE m == Message("Authenticating", g)
<1>1. /\ m \in Messages /\ m.type = "Authenticating" /\ m.gen = g
  BY PlainMessage DEF MessageTypes
<1>2. /\ cpc[g] = "verify" /\ cpc' = [cpc EXCEPT ![g] = "auth"]
      /\ Post(m)
      /\ reply[g] = "accepted"
      /\ reply' = [reply EXCEPT ![g] = "none"]
      /\ UNCHANGED <<hop, rounds, aborted>> /\ TaskFrame
  BY DEF Authenticate, TaskGoes, GoesOn, IInv, Typed
<1> HIDE DEF m
<1>3. \A n \in Mail : Follows(n, m)
  BY <1>1, <1>2, MailTyped
     DEF IInv, EndMail, KeyMail, PromptMail, Follows
<1>4. mailbox' \in Seq(Messages) /\ Mail' = Mail \cup {m} /\ InOrder'
  BY <1>1, <1>2, <1>3, MailPosted DEF IInv
<1>5. TaskMoves(g)
  BY <1>1, <1>2, <1>4 DEF TaskMoves, Working, TaskPCs
<1>6. /\ RequestsSeen' /\ NotYet' /\ TaskOrder' /\ ShellOrder'
      /\ NoOrphanedShell' /\ WorkBlocksExit'
  BY <1>5, TaskMovesKeeps
<1>7. Typed'
  BY <1>2, <1>4 DEF IInv, Typed, TaskFrame, record, workers, TaskPCs
<1>8. EndMail'
  BY <1>1, <1>2, <1>4, MailTyped
     DEF IInv, Typed, EndMail, TaskFrame, workers, TaskOrder
<1>9. KeyMail'
  BY <1>1, <1>2, <1>4, MailTyped DEF IInv, Typed, KeyMail, TaskFrame, record
<1>10. PromptMail'
  BY <1>1, <1>2, <1>4, MailTyped DEF IInv, Typed, PromptMail, TaskFrame, record
<1>11. Keys'
  BY <1>1, <1>2, <1>4
     DEF IInv, Typed, Keys, HostVerified, TaskFrame, record, NotYet, Gens
<1>12. Prompts'
  BY <1>1, <1>2, <1>4
     DEF IInv, Typed, Prompts, TaskFrame, record, NotYet, Gens
<1> QED BY <1>4, <1>6, <1>7, <1>8, <1>9, <1>10, <1>11, <1>12 DEF IInv

(* A task asks the user for answers. *)
LEMMA AskKeyboardInteractiveStep ==
    ASSUME IInv, NEW g \in Gens, AskKeyboardInteractive(g)
    PROVE  IInv'
<1> USE SshSessionAssumption
<1> DEFINE m == Message("KeyboardInteractive", g)
<1>1. /\ m \in Messages /\ m.type = "KeyboardInteractive" /\ m.gen = g
  BY PlainMessage DEF MessageTypes
<1>2. /\ cpc[g] = "auth" /\ cpc' = [cpc EXCEPT ![g] = "answer"]
      /\ Post(m)
      /\ reply' = [reply EXCEPT ![g] = "none"]
      /\ rounds' \in [Gens -> 0 .. MaxRounds]
      /\ UNCHANGED <<hop, aborted>> /\ TaskFrame
  BY DEF AskKeyboardInteractive, TaskGoes, GoesOn, IInv, Typed
<1> HIDE DEF m
<1>3. \A n \in Mail : Follows(n, m)
  BY <1>1, <1>2, MailTyped
     DEF IInv, EndMail, KeyMail, PromptMail, Follows
<1>4. mailbox' \in Seq(Messages) /\ Mail' = Mail \cup {m} /\ InOrder'
  BY <1>1, <1>2, <1>3, MailPosted DEF IInv
<1>5. TaskMoves(g)
  BY <1>1, <1>2, <1>4 DEF TaskMoves, Working, TaskPCs
<1>6. /\ RequestsSeen' /\ NotYet' /\ TaskOrder' /\ ShellOrder'
      /\ NoOrphanedShell' /\ WorkBlocksExit'
  BY <1>5, TaskMovesKeeps
<1>7. Typed'
  BY <1>2, <1>4 DEF IInv, Typed, TaskFrame, record, workers, TaskPCs
<1>8. EndMail'
  BY <1>1, <1>2, <1>4, MailTyped
     DEF IInv, Typed, EndMail, TaskFrame, workers, TaskOrder
<1>9. KeyMail'
  BY <1>1, <1>2, <1>4, MailTyped DEF IInv, Typed, KeyMail, TaskFrame, record
<1>10. PromptMail'
  BY <1>1, <1>2, <1>4, MailTyped DEF IInv, Typed, PromptMail, TaskFrame, record
<1>11. Keys'
  BY <1>1, <1>2, <1>4
     DEF IInv, Typed, Keys, HostVerified, TaskFrame, record, NotYet, Gens
<1>12. Prompts'
  BY <1>1, <1>2, <1>4
     DEF IInv, Typed, Prompts, TaskFrame, record, NotYet, Gens
<1> QED BY <1>4, <1>6, <1>7, <1>8, <1>9, <1>10, <1>11, <1>12 DEF IInv

(* A task asks for a channel. *)
LEMMA OpenChannelStep ==
    ASSUME IInv, NEW g \in Gens, OpenChannel(g)
    PROVE  IInv'
<1> USE SshSessionAssumption
<1> DEFINE m == Message("OpeningChannel", g)
<1>1. /\ m \in Messages /\ m.type = "OpeningChannel" /\ m.gen = g
  BY PlainMessage DEF MessageTypes
<1>2. /\ cpc[g] = "auth" /\ cpc' = [cpc EXCEPT ![g] = "open"]
      /\ Post(m)
      /\ UNCHANGED <<hop, rounds, reply, aborted>> /\ TaskFrame
  BY DEF OpenChannel, TaskGoes, GoesOn, IInv, Typed
<1> HIDE DEF m
<1>3. \A n \in Mail : Follows(n, m)
  BY <1>1, <1>2, MailTyped
     DEF IInv, EndMail, KeyMail, PromptMail, Follows
<1>4. mailbox' \in Seq(Messages) /\ Mail' = Mail \cup {m} /\ InOrder'
  BY <1>1, <1>2, <1>3, MailPosted DEF IInv
<1>5. TaskMoves(g)
  BY <1>1, <1>2, <1>4 DEF TaskMoves, Working, TaskPCs
<1>6. /\ RequestsSeen' /\ NotYet' /\ TaskOrder' /\ ShellOrder'
      /\ NoOrphanedShell' /\ WorkBlocksExit'
  BY <1>5, TaskMovesKeeps
<1>7. Typed'
  BY <1>2, <1>4 DEF IInv, Typed, TaskFrame, record, workers, TaskPCs
<1>8. EndMail'
  BY <1>1, <1>2, <1>4, MailTyped
     DEF IInv, Typed, EndMail, TaskFrame, workers, TaskOrder
<1>9. KeyMail'
  BY <1>1, <1>2, <1>4, MailTyped DEF IInv, Typed, KeyMail, TaskFrame, record
<1>10. PromptMail'
  BY <1>1, <1>2, <1>4, MailTyped DEF IInv, Typed, PromptMail, TaskFrame, record
<1>11. Keys'
  BY <1>1, <1>2, <1>4
     DEF IInv, Typed, Keys, HostVerified, TaskFrame, record, NotYet, Gens
<1>12. Prompts'
  BY <1>1, <1>2, <1>4
     DEF IInv, Typed, Prompts, TaskFrame, record, NotYet, Gens
<1> QED BY <1>4, <1>6, <1>7, <1>8, <1>9, <1>10, <1>11, <1>12 DEF IInv

(* A task leaves its prompt only with an answer, so the prompt is gone. *)
LEMMA KeyboardAnsweredStep ==
    ASSUME IInv, NEW g \in Gens, KeyboardAnswered(g)
    PROVE  IInv'
<1> USE SshSessionAssumption
<1>1. /\ cpc[g] = "answer" /\ cpc' = [cpc EXCEPT ![g] = "auth"]
      /\ reply[g] # "none" /\ reply' = [reply EXCEPT ![g] = "none"]
      /\ UNCHANGED <<hop, rounds, aborted, mailbox>> /\ TaskFrame
  BY DEF KeyboardAnswered, TaskGoes, GoesOn
<1>2. mailbox' \in Seq(Messages) /\ Mail' = Mail /\ InOrder'
  BY <1>1, MailSame DEF IInv
<1>3. TaskMoves(g)
  BY <1>1, <1>2 DEF TaskMoves, Working, TaskPCs
<1>4. /\ RequestsSeen' /\ NotYet' /\ TaskOrder' /\ ShellOrder'
      /\ NoOrphanedShell' /\ WorkBlocksExit'
  BY <1>3, TaskMovesKeeps
<1>5. Typed'
  BY <1>1, <1>2 DEF IInv, Typed, TaskFrame, record, workers, TaskPCs
<1>6. EndMail'
  BY <1>1, <1>2, MailTyped DEF IInv, Typed, EndMail, TaskFrame, workers
<1>7. KeyMail'
  BY <1>1, <1>2, MailTyped DEF IInv, Typed, KeyMail, TaskFrame, record
<1>8. PromptMail'
  BY <1>1, <1>2, MailTyped DEF IInv, Typed, PromptMail, TaskFrame, record
<1>9. Keys'
  BY <1>1, <1>2
     DEF IInv, Typed, Keys, HostVerified, TaskFrame, record, NotYet, Gens
<1>10. Prompts'
  BY <1>1, <1>2
     DEF IInv, Typed, Prompts, TaskFrame, record, NotYet, Gens
<1> QED BY <1>2, <1>4, <1>5, <1>6, <1>7, <1>8, <1>9, <1>10 DEF IInv

(* A task hands over its shell and ends. *)
LEMMA HandOverShellStep ==
    ASSUME IInv, NEW g \in Gens, HandOverShell(g)
    PROVE  IInv'
<1> USE SshSessionAssumption
<1> DEFINE m == Message("ShellReady", g)
<1>1. m \in Messages /\ m.type = "ShellReady" /\ m.gen = g
  BY PlainMessage DEF MessageTypes
<1>2. /\ cpc[g] = "open" /\ cpc' = [cpc EXCEPT ![g] = "done"]
      /\ Post(m)
      /\ rounds' = [rounds EXCEPT ![g] = 0]
      /\ reply' = [reply EXCEPT ![g] = "none"]
      /\ aborted' = aborted \ {g}
      /\ UNCHANGED hop /\ TaskFrame
  BY DEF HandOverShell, Returns
<1> HIDE DEF m
<1>3. \A n \in Mail : Follows(n, m)
  BY <1>1, <1>2, MailTyped
     DEF IInv, EndMail, KeyMail, PromptMail, Follows
<1>4. mailbox' \in Seq(Messages) /\ Mail' = Mail \cup {m} /\ InOrder'
  BY <1>1, <1>2, <1>3, MailPosted DEF IInv
<1>5. TaskMoves(g)
  BY <1>1, <1>2, <1>4 DEF TaskMoves, Working, TaskPCs, IInv, Typed
<1>6. /\ RequestsSeen' /\ NotYet' /\ TaskOrder' /\ ShellOrder'
      /\ NoOrphanedShell' /\ WorkBlocksExit'
  BY <1>5, TaskMovesKeeps
<1>7. Typed'
  BY <1>2, <1>4 DEF IInv, Typed, TaskFrame, record, workers, TaskPCs
<1>8. EndMail'
  BY <1>1, <1>2, <1>4, MailTyped
     DEF IInv, Typed, EndMail, TaskFrame, workers, TaskOrder
<1>9. KeyMail'
  BY <1>1, <1>2, <1>4, MailTyped DEF IInv, Typed, KeyMail, TaskFrame, record
<1>10. PromptMail'
  BY <1>1, <1>2, <1>4, MailTyped
     DEF IInv, Typed, PromptMail, TaskFrame, record
<1>11. Keys'
  BY <1>1, <1>2, <1>4
     DEF IInv, Typed, Keys, HostVerified, TaskFrame, record, NotYet, Gens
<1>12. Prompts'
  BY <1>1, <1>2, <1>4
     DEF IInv, Typed, Prompts, TaskFrame, record, NotYet, Gens
<1> QED BY <1>4, <1>6, <1>7, <1>8, <1>9, <1>10, <1>11, <1>12 DEF IInv

(* A task that fails reports it, whatever it was waiting for. *)
LEMMA ConnectFailsStep ==
    ASSUME IInv, NEW g \in Gens, ConnectFails(g)
    PROVE  IInv'
<1> USE SshSessionAssumption
<1> DEFINE m == Message("ConnectionFailed", g)
<1>1. m \in Messages /\ m.type = "ConnectionFailed" /\ m.gen = g
  BY PlainMessage DEF MessageTypes
<1>2. /\ cpc[g] \in Working /\ cpc' = [cpc EXCEPT ![g] = "done"]
      /\ Post(m)
      /\ rounds' = [rounds EXCEPT ![g] = 0]
      /\ reply' = [reply EXCEPT ![g] = "none"]
      /\ aborted' = aborted \ {g}
      /\ UNCHANGED hop /\ TaskFrame
  BY DEF ConnectFails, Returns
<1> HIDE DEF m
<1>3. \A n \in Mail : Follows(n, m)
  BY <1>1, <1>2, MailTyped
     DEF IInv, EndMail, KeyMail, PromptMail, Follows, Working, TaskPCs
<1>4. mailbox' \in Seq(Messages) /\ Mail' = Mail \cup {m} /\ InOrder'
  BY <1>1, <1>2, <1>3, MailPosted DEF IInv
<1>5. TaskMoves(g)
  BY <1>1, <1>2, <1>4 DEF TaskMoves, Working, TaskPCs, IInv, Typed
<1>6. /\ RequestsSeen' /\ NotYet' /\ TaskOrder' /\ ShellOrder'
      /\ NoOrphanedShell' /\ WorkBlocksExit'
  BY <1>5, TaskMovesKeeps
<1>7. Typed'
  BY <1>2, <1>4 DEF IInv, Typed, TaskFrame, record, workers, TaskPCs
<1>8. EndMail'
  BY <1>1, <1>2, <1>4, MailTyped
     DEF IInv, Typed, EndMail, TaskFrame, workers, TaskOrder, Working, TaskPCs
<1>9. KeyMail'
  BY <1>1, <1>2, <1>4, MailTyped DEF IInv, Typed, KeyMail, TaskFrame, record
<1>10. PromptMail'
  BY <1>1, <1>2, <1>4, MailTyped
     DEF IInv, Typed, PromptMail, TaskFrame, record, m
<1>11. Keys'
  BY <1>1, <1>2, <1>4
     DEF IInv, Typed, Keys, HostVerified, TaskFrame, record, NotYet, Gens, Working, TaskPCs
<1>12. Prompts'
  BY <1>1, <1>2, <1>4
     DEF IInv, Typed, Prompts, TaskFrame, record, NotYet, Gens, m
<1> QED BY <1>4, <1>6, <1>7, <1>8, <1>9, <1>10, <1>11, <1>12 DEF IInv

(* A refused key is one way to fail. *)
LEMMA HostKeyRefusedStep ==
    ASSUME IInv, NEW g \in Gens, HostKeyRefused(g)
    PROVE  IInv'
<1>1. ConnectFails(g)
  BY DEF HostKeyRefused, ConnectFails, Working, TaskPCs
<1> QED BY <1>1, ConnectFailsStep

(* An aborted task ends without a word: its session is already going down. *)
LEMMA AbortTakesEffectStep ==
    ASSUME IInv, NEW g \in Gens, AbortTakesEffect(g)
    PROVE  IInv'
<1> USE SshSessionAssumption
<1>1. /\ g \in aborted /\ cpc[g] \in Working
      /\ cpc' = [cpc EXCEPT ![g] = "done"]
      /\ rounds' = [rounds EXCEPT ![g] = 0]
      /\ reply' = [reply EXCEPT ![g] = "none"]
      /\ aborted' = aborted \ {g}
      /\ UNCHANGED <<hop, mailbox>> /\ TaskFrame
  BY DEF AbortTakesEffect, Returns
<1>2. mailbox' \in Seq(Messages) /\ Mail' = Mail /\ InOrder'
  BY <1>1, MailSame DEF IInv
<1>3. TaskMoves(g)
  BY <1>1, <1>2 DEF TaskMoves, Working, TaskPCs, IInv, Typed
<1>4. /\ RequestsSeen' /\ NotYet' /\ TaskOrder' /\ ShellOrder'
      /\ NoOrphanedShell' /\ WorkBlocksExit'
  BY <1>3, TaskMovesKeeps
<1>5. g = gen => state \in Down
  BY <1>1 DEF IInv, TaskOrder, Gens
<1>6. Typed'
  BY <1>1, <1>2 DEF IInv, Typed, TaskFrame, record, workers, TaskPCs
<1>7. EndMail'
  BY <1>1, <1>2, MailTyped DEF IInv, Typed, EndMail, TaskFrame, workers
<1>8. KeyMail'
  BY <1>1, <1>2, MailTyped DEF IInv, Typed, KeyMail, TaskFrame, record
<1>9. PromptMail'
  BY <1>1, <1>2, <1>5, MailTyped DEF IInv, Typed, PromptMail, TaskFrame, record
<1>10. Keys'
  BY <1>1, <1>2
     DEF IInv, Typed, Keys, HostVerified, TaskFrame, record, NotYet, Gens
<1>11. Prompts'
  BY <1>1, <1>2, <1>5
     DEF IInv, Typed, Prompts, TaskFrame, record, NotYet, Gens, Down, Ended
<1> QED BY <1>2, <1>4, <1>6, <1>7, <1>8, <1>9, <1>10, <1>11 DEF IInv

-----------------------------------------------------------------------------
(* Shell workers. *)

(* What every step of a worker does: it moves one worker that exists towards *)
(* its end, and reports nothing of the task before it.                       *)
WorkerMoves(g) ==
    /\ WorkerFrame
    /\ worker[g] \notin WorkerOver
    /\ \E w \in {"closing", "cleanup", "gone"} :
         /\ worker' = [worker EXCEPT ![g] = w]
         /\ \/ mailbox' = mailbox
            \/ Post(Message("ConnectionFailed", g))
            \/ /\ w = "gone"
               /\ \E t \in {"ShellClosed", "ShellCleanupCompleted"} :
                    Post(Message(t, g))

LEMMA WorkerMail ==
    ASSUME IInv, NEW g \in Gens, WorkerMoves(g)
    PROVE  /\ mailbox' \in Seq(Messages) /\ InOrder'
           /\ Mail \subseteq Mail'
           /\ \A n \in Mail' :
                \/ n \in Mail
                \/ /\ n.gen = g
                   /\ \/ n.type = "ConnectionFailed"
                      \/ /\ n.type \in {"ShellClosed", "ShellCleanupCompleted"}
                         /\ worker'[g] = "gone"
<1>1. CASE mailbox' = mailbox
  BY <1>1, MailSame DEF IInv
<1>2. CASE \E t \in {"ConnectionFailed", "ShellClosed", "ShellCleanupCompleted"} :
             /\ Post(Message(t, g))
             /\ t # "ConnectionFailed" => worker'[g] = "gone"
  <2>1. PICK t \in {"ConnectionFailed", "ShellClosed", "ShellCleanupCompleted"} :
             /\ Post(Message(t, g))
             /\ t # "ConnectionFailed" => worker'[g] = "gone"
    BY <1>2
  <2> DEFINE m == Message(t, g)
  <2>2. m \in Messages /\ m.type = t /\ m.gen = g
    BY PlainMessage DEF MessageTypes
  <2>3. Post(m)
    BY <2>1
  <2> HIDE DEF m
  <2>4. \A n \in Mail : Follows(n, m)
    BY <2>2, MailTyped
       DEF WorkerMoves, WorkerOver, IInv, EndMail, TaskTypes, Follows
  <2>5. mailbox' \in Seq(Messages) /\ Mail' = Mail \cup {m} /\ InOrder'
    BY <2>2, <2>3, <2>4, MailPosted DEF IInv
  <2> QED BY <2>1, <2>2, <2>5
<1> QED BY <1>1, <1>2 DEF WorkerMoves, IInv, Typed

LEMMA WorkerMovesStep ==
    ASSUME IInv, NEW g \in Gens, WorkerMoves(g)
    PROVE  IInv'
<1> USE SshSessionAssumption
<1>1. /\ worker[g] \notin {"none", "gone"}
      /\ UNCHANGED <<state, gen, shared, shell, stop, live, challenge, kbd,
                     connectTask, cpc, hop, rounds, reply, aborted, signal,
                     requests, pinned, waiter>>
  BY DEF WorkerMoves, WorkerFrame, WorkerOver, record, tasks
<1>2. /\ worker' \in [Gens -> WorkerPCs]
      /\ worker'[g] \in {"closing", "cleanup", "gone"}
      /\ \A h \in Gens : h # g => worker'[h] = worker[h]
  BY DEF WorkerMoves, WorkerPCs, IInv, Typed
<1>3. cpc[g] = "done" /\ g <= gen
  BY <1>1 DEF IInv, Typed, TaskOrder, NotYet, Gens
<1>4. g = gen => ~kbd
  BY <1>1 DEF IInv, Typed, ShellOrder, Prompts, Up, Down, Ended, Gens
<1>5. \A n \in Mail : n.gen = g => n.type \notin TaskTypes
  BY <1>1, MailTyped DEF IInv, EndMail
<1>6. Typed' /\ InOrder'
  BY <1>1, <1>2, WorkerMail DEF IInv, Typed
<1>7. RequestsSeen'
  BY <1>1 DEF IInv, RequestsSeen
<1>8. NotYet'
  BY <1>1, <1>2, <1>3, WorkerMail DEF IInv, Typed, NotYet, Gens
<1>9. TaskOrder'
  BY <1>1, <1>2, <1>3 DEF IInv, TaskOrder
<1>10. ShellOrder'
  BY <1>1, <1>2 DEF IInv, Typed, ShellOrder, Gens
<1>11. NoOrphanedShell' /\ WorkBlocksExit'
  BY <1>1, <1>2 DEF IInv, NoOrphanedShell, WorkBlocksExit
<1>12. EndMail'
  BY <1>1, <1>2, <1>3, <1>5, WorkerMail, MailTyped
     DEF IInv, Typed, EndMail, TaskTypes
<1>13. KeyMail'
  BY <1>1, WorkerMail DEF IInv, KeyMail
<1>14. PromptMail'
  BY <1>1, WorkerMail DEF IInv, PromptMail
<1>15. Keys'
  BY <1>1 DEF IInv, Keys, HostVerified
<1>16. Prompts'
  BY <1>1, <1>4, WorkerMail DEF IInv, Prompts
<1> QED BY <1>6, <1>7, <1>8, <1>9, <1>10, <1>11, <1>12, <1>13, <1>14, <1>15,
           <1>16 DEF IInv

LEMMA WorkerStep ==
    ASSUME IInv, NEW g \in Gens,
           WorkerStops(g) \/ WorkerErrors(g) \/ RemoteExits(g) \/ WorkerEnds(g)
    PROVE  IInv'
<1>1. WorkerStops(g) => WorkerMoves(g)
  BY DEF WorkerStops, WorkerMoves, WorkerGoes, WorkerOver
<1>2. WorkerErrors(g) => WorkerMoves(g)
  BY DEF WorkerErrors, WorkerMoves, WorkerGoes, WorkerOver
<1>3. RemoteExits(g) => WorkerMoves(g)
  BY DEF RemoteExits, WorkerMoves, WorkerGoes, WorkerOver
<1>4. WorkerEnds(g) => WorkerMoves(g)
  BY DEF WorkerEnds, WorkerMoves, WorkerGoes, WorkerOver
<1> QED BY <1>1, <1>2, <1>3, <1>4, WorkerMovesStep

(* A keepalive task reports only while the shell is up. *)
LEMMA HeartbeatFailsStep ==
    ASSUME IInv, HeartbeatFails
    PROVE  IInv'
<1> USE SshSessionAssumption
<1> DEFINE m == Message("TransportHeartbeatFailed", gen)
<1>1. /\ state \in Up /\ Post(m)
      /\ UNCHANGED <<state, gen, shared, shell, stop, live, challenge, kbd,
                     connectTask, cpc, hop, rounds, reply, aborted, worker,
                     signal, requests, pinned, waiter>>
  BY DEF HeartbeatFails, WorkerFrame, record, tasks
<1>2. gen \in Gens /\ worker[gen] # "none" /\ ~kbd
  BY <1>1 DEF IInv, Typed, NotYet, ShellOrder, Prompts, Up, Gens
<1>3. m \in Messages /\ m.type = "TransportHeartbeatFailed" /\ m.gen = gen
  BY <1>2, PlainMessage DEF MessageTypes
<1> HIDE DEF m
<1>4. \A n \in Mail : Follows(n, m)
  BY <1>2, <1>3, MailTyped DEF IInv, EndMail, TaskTypes, Follows
<1>5. mailbox' \in Seq(Messages) /\ Mail' = Mail \cup {m} /\ InOrder'
  BY <1>1, <1>3, <1>4, MailPosted DEF IInv
<1>6. Typed' /\ InOrder' /\ RequestsSeen'
  BY <1>1, <1>5 DEF IInv, Typed, RequestsSeen
<1>7. NotYet' /\ TaskOrder' /\ ShellOrder'
  BY <1>1, <1>2, <1>3, <1>5 DEF IInv, Typed, NotYet, TaskOrder, ShellOrder, Gens
<1>8. NoOrphanedShell' /\ WorkBlocksExit'
  BY <1>1 DEF IInv, NoOrphanedShell, WorkBlocksExit
<1>9. EndMail'
  BY <1>1, <1>3, <1>5 DEF IInv, EndMail, TaskTypes
<1>10. KeyMail' /\ PromptMail'
  BY <1>1, <1>3, <1>5 DEF IInv, KeyMail, PromptMail
<1>11. Keys' /\ Prompts'
  BY <1>1, <1>2 DEF IInv, Keys, HostVerified, Prompts
<1> QED BY <1>6, <1>7, <1>8, <1>9, <1>10, <1>11 DEF IInv

-----------------------------------------------------------------------------
(* The actor handles a message. *)

(* What all handlers share: the message leaves the mailbox, tasks and the    *)
(* generation stay, requests are revised.                                    *)
LEMMA HandlerShares ==
    ASSUME IInv, NEW t, Received(t), HandlerFrame
    PROVE  /\ Head(mailbox) \in Mail /\ Head(mailbox) \in Messages
           /\ Sender \in Gens /\ Head(mailbox).type = t
           /\ gen \in Gens /\ gen > 0
           /\ mailbox' \in Seq(Messages) /\ InOrder'
           /\ Mail' \subseteq Mail
           /\ Mail \subseteq Mail' \cup {Head(mailbox)}
           /\ \A n \in Mail' : Follows(Head(mailbox), n)
           /\ requests' \subseteq [op : Ops, fresh : BOOLEAN]
           /\ RequestsSeen'
           /\ UNCHANGED <<gen, shared, cpc, hop, rounds>>
           /\ waiter' = (waiter /\ live')
<1>1. mailbox # <<>> /\ mailbox' = Tail(mailbox) /\ Head(mailbox).type = t
  BY DEF Received
<1>2. UNCHANGED <<gen, shared, cpc, hop, rounds>> /\ waiter' = (waiter /\ live')
  BY DEF HandlerFrame, tasks, CompleteShutdown
<1>3. Revise(requests)
  BY DEF HandlerFrame
<1>4. Head(mailbox) \in Mail /\ Head(mailbox).gen \in Gens
  BY <1>1, MailTaken, MailTyped DEF IInv
<1>5. requests' \subseteq [op : Ops, fresh : BOOLEAN] /\ RequestsSeen'
  BY <1>2, <1>3, Revised DEF IInv
<1>6. Sender \in Gens /\ gen \in Gens /\ gen > 0
  BY <1>4 DEF Sender, Gens, IInv, Typed, NotYet
<1> QED BY <1>1, <1>2, <1>4, <1>5, <1>6, MailTaken DEF IInv

(* ConnectionState: a phase of the task at work, so no shell and no prompt. *)
LEMMA HandleStateStep ==
    ASSUME IInv, NEW s \in {"Connecting", "Authenticating", "OpeningChannel"},
           HandleState(s)
    PROVE  IInv'
<1> USE SshSessionAssumption
<1> DEFINE m == Head(mailbox)
<1>1. /\ Received(s) /\ HandlerFrame
      /\ UNCHANGED <<challenge, kbd, shell, stop, live, signal, connectTask,
                     reply, aborted, worker, pinned>>
      /\ state' = IF m.gen = gen /\ state \notin Down THEN s ELSE state
  BY DEF HandleState, NotStopped, ConnectionActive, MoveTo, Sender
<1>2. /\ m \in Mail /\ m.gen \in Gens /\ m.type = s
      /\ gen \in Gens /\ gen > 0
      /\ mailbox' \in Seq(Messages) /\ InOrder'
      /\ Mail' \subseteq Mail /\ Mail \subseteq Mail' \cup {m}
      /\ requests' \subseteq [op : Ops, fresh : BOOLEAN] /\ RequestsSeen'
      /\ UNCHANGED <<gen, shared, cpc, hop, rounds>>
      /\ waiter' = (waiter /\ live')
  BY <1>1, HandlerShares DEF Sender
<1> HIDE DEF m
<1>3. worker[m.gen] = "none"
  BY <1>2 DEF IInv, EndMail, TaskTypes
<1>4. m.gen = gen => ~kbd
  BY <1>2 DEF IInv, Prompts
<1>5. Message("ConnectionFailed", gen) \in Mail
        => Message("ConnectionFailed", gen) \in Mail'
  BY <1>2 DEF Message
<1>6. Typed'
  BY <1>1, <1>2 DEF IInv, Typed, States, Transient
<1>7. NotYet'
  BY <1>1, <1>2 DEF IInv, Typed, NotYet
<1>8. TaskOrder'
  BY <1>1, <1>2 DEF IInv, Typed, TaskOrder
<1>9. ShellOrder'
  BY <1>1, <1>2, <1>3 DEF IInv, Typed, ShellOrder, Up, Down, Ended
<1>10. NoOrphanedShell' /\ WorkBlocksExit'
  BY <1>1, <1>2 DEF IInv, NoOrphanedShell, WorkBlocksExit
<1>11. EndMail'
  BY <1>1, <1>2 DEF IInv, EndMail
<1>12. KeyMail'
  BY <1>1, <1>2 DEF IInv, KeyMail
<1>13. PromptMail'
  BY <1>1, <1>2, <1>5 DEF IInv, PromptMail
<1>14. Keys'
  BY <1>1, <1>2 DEF IInv, Keys, HostVerified
<1>15. Prompts'
  BY <1>1, <1>2, <1>4, <1>5 DEF IInv, Prompts
<1> QED BY <1>2, <1>6, <1>7, <1>8, <1>9, <1>10, <1>11, <1>12, <1>13, <1>14,
           <1>15 DEF IInv

(* host_key_observed: the key is that of the host the task waits for, and   *)
(* nothing else of that task is in the mailbox but its failure.             *)
LEMMA HandleHostKeyStep ==
    ASSUME IInv, HandleHostKey
    PROVE  IInv'
<1> USE SshSessionAssumption
<1> DEFINE m == Head(mailbox)
<1>1. /\ Received("HostKeyObserved") /\ HandlerFrame
      /\ UNCHANGED <<kbd, shell, stop, live, signal, connectTask, aborted,
                     worker, pinned>>
  BY DEF HandleHostKey, NotStopped
<1>2. /\ m \in Mail /\ m.gen \in Gens /\ m.type = "HostKeyObserved"
      /\ gen \in Gens /\ gen > 0
      /\ mailbox' \in Seq(Messages) /\ InOrder'
      /\ Mail' \subseteq Mail /\ Mail \subseteq Mail' \cup {m}
      /\ \A n \in Mail' : Follows(m, n)
      /\ requests' \subseteq [op : Ops, fresh : BOOLEAN] /\ RequestsSeen'
      /\ UNCHANGED <<gen, shared, cpc, hop, rounds>>
      /\ waiter' = (waiter /\ live')
  BY <1>1, HandlerShares DEF Sender
<1>3. /\ state' = state \/ (m.gen = gen /\ state \notin Down
                              /\ state' \in {"VerifyingHostKey",
                                             "AwaitingHostKeyDecision"})
      /\ \/ reply' = reply
         \/ /\ cpc[m.gen] = "verify"
            /\ \E a \in {"accepted", "refused"} :
                 /\ reply' = [reply EXCEPT ![m.gen] = a]
                 /\ a = "accepted" => m.hop \in pinned
      /\ \/ challenge' = challenge
         \/ challenge' = TRUE /\ m.gen = gen /\ reply' = reply
  BY DEF HandleHostKey, Answer, MoveTo, ConnectionActive, Sender
<1> HIDE DEF m
<1>4. worker[m.gen] = "none"
  BY <1>2 DEF IInv, EndMail, TaskTypes
<1>5. m.gen = gen => ~kbd
  BY <1>2 DEF IInv, Prompts
<1>6. Message("ConnectionFailed", gen) \in Mail
        => Message("ConnectionFailed", gen) \in Mail'
  BY <1>2 DEF Message
<1>7. cpc[m.gen] = "verify" => /\ m.hop = hop[m.gen] /\ reply[m.gen] = "none"
                               /\ m.gen = gen => ~challenge
  BY <1>2 DEF IInv, KeyMail
<1>8. cpc[m.gen] \in {"verify", "done"}
  BY <1>2 DEF IInv, KeyMail
<1>9. cpc[m.gen] # "done" => \A n \in Mail' : n.gen # m.gen
  BY <1>2 DEF Follows, IInv, EndMail
<1>10. /\ reply' \in [Gens -> {"none", "accepted", "refused"}]
       /\ \A h \in Gens : h # m.gen \/ cpc[h] # "verify" => reply'[h] = reply[h]
       /\ cpc[m.gen] = "verify" /\ reply'[m.gen] = "accepted" => m.hop \in pinned
  BY <1>2, <1>3, <1>7 DEF IInv, Typed
<1>11. Typed'
  BY <1>1, <1>2, <1>3, <1>10 DEF IInv, Typed, States, Transient
<1>12. NotYet'
  BY <1>1, <1>2, <1>3 DEF IInv, Typed, NotYet
<1>13. TaskOrder'
  BY <1>1, <1>2, <1>3 DEF IInv, Typed, TaskOrder
<1>14. ShellOrder'
  BY <1>1, <1>2, <1>3, <1>4 DEF IInv, Typed, ShellOrder, Up, Down, Ended
<1>15. NoOrphanedShell' /\ WorkBlocksExit'
  BY <1>1, <1>2 DEF IInv, NoOrphanedShell, WorkBlocksExit
<1>16. EndMail'
  BY <1>1, <1>2 DEF IInv, EndMail
<1>17. KeyMail'
  BY <1>2, <1>3, <1>9, <1>10, MailTyped DEF IInv, KeyMail
<1>18. PromptMail'
  BY <1>2, <1>3, <1>6, <1>10, MailTyped DEF IInv, PromptMail
<1>19. Keys'
  BY <1>1, <1>2, <1>3, <1>7, <1>8, <1>10
     DEF IInv, Typed, Keys, HostVerified, NotYet, Gens
<1>20. Prompts'
  BY <1>1, <1>2, <1>3, <1>5, <1>6, <1>10
     DEF IInv, Typed, Prompts, NotYet, Gens
<1> QED BY <1>2, <1>11, <1>12, <1>13, <1>14, <1>15, <1>16, <1>17, <1>18, <1>19,
           <1>20 DEF IInv

(* keyboard_interactive_challenge_observed: the task waits, or its failure  *)
(* is all that is left of it in the mailbox.                                *)
LEMMA HandleKeyboardInteractiveStep ==
    ASSUME IInv, HandleKeyboardInteractive
    PROVE  IInv'
<1> USE SshSessionAssumption
<1> DEFINE m == Head(mailbox)
<1>1. /\ Received("KeyboardInteractive") /\ HandlerFrame
      /\ UNCHANGED <<state, challenge, shell, stop, live, signal, connectTask,
                     aborted, worker, pinned>>
  BY DEF HandleKeyboardInteractive, NotStopped
<1>2. /\ m \in Mail /\ m.gen \in Gens /\ m.type = "KeyboardInteractive"
      /\ gen \in Gens /\ gen > 0
      /\ mailbox' \in Seq(Messages) /\ InOrder'
      /\ Mail' \subseteq Mail /\ Mail \subseteq Mail' \cup {m}
      /\ \A n \in Mail' : Follows(m, n)
      /\ requests' \subseteq [op : Ops, fresh : BOOLEAN] /\ RequestsSeen'
      /\ UNCHANGED <<gen, shared, cpc, hop, rounds>>
      /\ waiter' = (waiter /\ live')
  BY <1>1, HandlerShares DEF Sender
<1>3. \/ /\ m.gen = gen /\ state = "Authenticating"
         /\ kbd' = TRUE /\ reply' = reply
      \/ /\ kbd' = kbd
         /\ \/ reply' = reply
            \/ /\ cpc[m.gen] = "answer"
               /\ reply' = [reply EXCEPT ![m.gen] = "refused"]
  BY DEF HandleKeyboardInteractive, Answer, Sender
<1> HIDE DEF m
<1>4. m.gen = gen => ~kbd
  BY <1>2 DEF IInv, Prompts
<1>5. Message("ConnectionFailed", gen) \in Mail
        => Message("ConnectionFailed", gen) \in Mail'
  BY <1>2 DEF Message
<1>6. \/ cpc[m.gen] = "answer" /\ reply[m.gen] = "none"
      \/ /\ cpc[m.gen] = "done"
         /\ \/ m.gen # gen
            \/ state \in Down
            \/ Message("ConnectionFailed", gen) \in Mail
  BY <1>2 DEF IInv, PromptMail
<1>7. cpc[m.gen] # "done" => \A n \in Mail' : n.gen # m.gen
  BY <1>2 DEF Follows, IInv, EndMail
<1>8. /\ reply' \in [Gens -> {"none", "accepted", "refused"}]
      /\ \A h \in Gens : h # m.gen \/ cpc[h] # "answer" => reply'[h] = reply[h]
  BY <1>2, <1>3 DEF IInv, Typed
<1>9. Typed'
  BY <1>1, <1>2, <1>3, <1>8 DEF IInv, Typed
<1>10. NotYet'
  BY <1>1, <1>2, <1>3 DEF IInv, Typed, NotYet
<1>11. TaskOrder' /\ ShellOrder'
  BY <1>1, <1>2 DEF IInv, Typed, TaskOrder, ShellOrder
<1>12. NoOrphanedShell' /\ WorkBlocksExit'
  BY <1>1, <1>2 DEF IInv, NoOrphanedShell, WorkBlocksExit
<1>13. EndMail'
  BY <1>1, <1>2 DEF IInv, EndMail
<1>14. KeyMail'
  BY <1>1, <1>2, <1>8, MailTyped DEF IInv, KeyMail
<1>15. PromptMail'
  BY <1>1, <1>2, <1>5, <1>7, <1>8, MailTyped DEF IInv, PromptMail
<1>16. Keys'
  BY <1>1, <1>2, <1>8 DEF IInv, Typed, Keys, HostVerified, NotYet, Gens
<1>17. Prompts'
  <2>1. CASE m.gen = gen /\ state = "Authenticating" /\ kbd' = TRUE /\ reply' = reply
    <3>1. \A n \in Mail' : n.gen = gen => n.type = "ConnectionFailed"
      BY <1>2, <2>1 DEF Follows
    <3>2. \/ cpc[gen] = "answer" /\ reply[gen] = "none"
          \/ cpc[gen] = "done" /\ Message("ConnectionFailed", gen) \in Mail'
      BY <1>5, <1>6, <2>1 DEF Down, Ended
    <3> QED BY <1>1, <1>2, <2>1, <3>1, <3>2 DEF Prompts
  <2>2. CASE kbd' = kbd
    BY <1>1, <1>2, <1>4, <1>5, <1>8, <2>2 DEF IInv, Typed, Prompts, NotYet, Gens
  <2> QED BY <1>3, <2>1, <2>2
<1> QED BY <1>2, <1>9, <1>10, <1>11, <1>12, <1>13, <1>14, <1>15, <1>16,
           <1>17 DEF IInv

(* shell_ready: a shell is adopted only by its own connection, whose task    *)
(* has ended and sent nothing since.                                         *)
LEMMA HandleShellReadyStep ==
    ASSUME IInv, HandleShellReady
    PROVE  IInv'
<1> USE SshSessionAssumption
<1> DEFINE m == Head(mailbox)
<1>1. /\ Received("ShellReady") /\ HandlerFrame
      /\ connectTask' = IF connectTask = m.gen THEN 0 ELSE connectTask
      /\ UNCHANGED <<challenge, kbd, live, reply, aborted, signal, pinned>>
  BY DEF HandleShellReady, FinishConnect, Sender
<1>2. /\ m \in Mail /\ m.gen \in Gens /\ m.type = "ShellReady"
      /\ gen \in Gens /\ gen > 0
      /\ mailbox' \in Seq(Messages) /\ InOrder'
      /\ Mail' \subseteq Mail /\ Mail \subseteq Mail' \cup {m}
      /\ \A n \in Mail' : Follows(m, n)
      /\ requests' \subseteq [op : Ops, fresh : BOOLEAN] /\ RequestsSeen'
      /\ UNCHANGED <<gen, shared, cpc, hop, rounds>>
      /\ waiter' = (waiter /\ live')
  BY <1>1, HandlerShares DEF Sender
<1>3. \/ /\ m.gen = gen /\ state = "OpeningChannel" /\ state' \in Up
         /\ shell' = TRUE /\ stop' = TRUE
         /\ worker' = [worker EXCEPT ![gen] = "running"]
      \/ UNCHANGED <<state, shell, stop, worker>>
  BY DEF HandleShellReady, Adopts, MoveTo, Sender, Up
<1> HIDE DEF m
<1>4. cpc[m.gen] = "done" /\ worker[m.gen] = "none"
  BY <1>2 DEF IInv, EndMail, TaskTypes
<1>5. \A n \in Mail' : n.gen # m.gen
  BY <1>2 DEF Follows
<1>6. Message("ConnectionFailed", gen) \in Mail
        => Message("ConnectionFailed", gen) \in Mail'
  BY <1>2 DEF Message
<1>7. connectTask' <= gen
  <2>1. gen \in Nat /\ connectTask <= gen
    BY <1>2 DEF IInv, NotYet, Gens
  <2>2. CASE connectTask' = 0
    BY <2>1, <2>2
  <2>3. CASE connectTask' = connectTask
    BY <2>1, <2>3
  <2> QED BY <1>1, <2>2, <2>3
<1>8. CASE UNCHANGED <<state, shell, stop, worker>>
  <2>1. Typed'
    BY <1>1, <1>2, <1>8 DEF IInv, Typed
  <2>2. NotYet'
    BY <1>1, <1>2, <1>8, <1>7 DEF IInv, NotYet
  <2>6. TaskOrder' /\ ShellOrder'
    BY <1>1, <1>2, <1>4, <1>8
       DEF IInv, Typed, TaskOrder, ShellOrder, Working
  <2>3. NoOrphanedShell' /\ WorkBlocksExit'
    BY <1>1, <1>2, <1>8 DEF IInv, NoOrphanedShell, WorkBlocksExit
  <2>4. EndMail' /\ KeyMail' /\ PromptMail'
    BY <1>1, <1>2, <1>6, <1>8 DEF IInv, EndMail, KeyMail, PromptMail
  <2>5. Keys' /\ Prompts'
    BY <1>1, <1>2, <1>6, <1>8 DEF IInv, Keys, HostVerified, Prompts
  <2> QED BY <1>2, <2>1, <2>2, <2>3, <2>4, <2>5, <2>6 DEF IInv
<1>9. CASE /\ m.gen = gen /\ state = "OpeningChannel" /\ state' \in Up
           /\ shell' = TRUE /\ stop' = TRUE
           /\ worker' = [worker EXCEPT ![gen] = "running"]
  <2>1. live /\ gen \notin aborted /\ ~kbd
    BY <1>2, <1>9 DEF IInv, ShellOrder, TaskOrder, Prompts, Ended, Down
  <2>2. /\ worker'[gen] = "running" /\ worker' \in [Gens -> WorkerPCs]
        /\ \A h \in Gens : h # gen => worker'[h] = worker[h]
    BY <1>2, <1>9 DEF IInv, Typed, WorkerPCs
  <2>3. state' \notin Down /\ state' # "None" /\ state' \in States
    BY <1>9 DEF Up, Down, Ended, States
  <2>4. Typed'
    BY <1>1, <1>2, <1>9, <2>2, <2>3 DEF IInv, Typed
  <2>5. NotYet'
    <3>1. \A h \in Gens : h > gen => h # gen
      BY <1>2 DEF Gens
    <3>2. \A h \in Gens : h > gen => cpc[h] = "none" /\ worker'[h] = "none"
      BY <2>2, <3>1 DEF IInv, NotYet
    <3> QED BY <1>1, <1>2, <1>7, <2>3, <3>2 DEF IInv, NotYet
  <2>11. TaskOrder'
    BY <1>1, <1>2, <1>4, <1>9, <2>1, <2>2, <2>3
       DEF IInv, Typed, TaskOrder, Working
  <2>6. ShellOrder'
    BY <1>1, <1>2, <1>9, <2>1, <2>2, <2>3
       DEF IInv, Typed, ShellOrder, Down
  <2>7. NoOrphanedShell' /\ WorkBlocksExit'
    BY <1>1, <1>2, <1>4, <1>9, <2>1, <2>2
       DEF IInv, NoOrphanedShell, WorkBlocksExit
  <2>8. EndMail'
    BY <1>2, <1>5, <1>9, <2>2, MailTyped DEF IInv, EndMail
  <2>9. KeyMail' /\ PromptMail'
    BY <1>1, <1>2, <1>5, <1>9 DEF IInv, KeyMail, PromptMail
  <2>10. Keys' /\ Prompts'
    BY <1>1, <1>2, <2>1 DEF IInv, Keys, HostVerified, Prompts
  <2> QED BY <1>2, <2>4, <2>5, <2>6, <2>7, <2>8, <2>9, <2>10,
              <2>11 DEF IInv
<1> QED BY <1>3, <1>8, <1>9

(* What ends a session, whichever handler does it: the record moves to an   *)
(* end whose task is over and whose worker, unless over, has its signal.    *)
SessionEnds ==
    /\ state' \in Ended /\ state # "None"
    /\ stop' = FALSE
    /\ \/ shell' = shell
       \/ shell' = FALSE
    /\ shell' => live'
    /\ live' \in BOOLEAN
    /\ signal' \in [Gens -> {"none", "disconnect", "abort"}]
    /\ \A g \in Gens : worker[g] = "running" => signal'[g] # "none"
    /\ kbd' = FALSE
    /\ UNCHANGED <<challenge, reply, aborted, worker, pinned>>
    /\ connectTask' \in {0, connectTask}

LEMMA SessionEndsStep ==
    ASSUME IInv, NEW t, Received(t), HandlerFrame, SessionEnds,
           cpc[gen] = "done"
    PROVE  IInv'
<1> USE SshSessionAssumption
<1> DEFINE m == Head(mailbox)
<1>2. /\ gen \in Gens /\ gen > 0
      /\ mailbox' \in Seq(Messages) /\ InOrder'
      /\ Mail' \subseteq Mail
      /\ requests' \subseteq [op : Ops, fresh : BOOLEAN] /\ RequestsSeen'
      /\ UNCHANGED <<gen, shared, cpc, hop, rounds>>
      /\ waiter' = (waiter /\ live')
  BY HandlerShares
<1>3. state' \in Down /\ state' \in States /\ state' # "None"
      /\ state' # "Disconnecting" /\ state' \notin Up
  BY DEF SessionEnds, Ended, Down, States, Up
<1>4. shell' \in BOOLEAN /\ live' \in BOOLEAN /\ (shell' => shell)
  <2>1. shell \in BOOLEAN /\ live' \in BOOLEAN
    BY DEF SessionEnds, IInv, Typed
  <2>2. CASE shell' = shell
    BY <2>1, <2>2
  <2>3. CASE shell' = FALSE
    BY <2>1, <2>3
  <2> QED BY <2>2, <2>3 DEF SessionEnds
<1>5. Typed'
  BY <1>2, <1>3, <1>4 DEF SessionEnds, IInv, Typed
<1>6. NotYet'
  BY <1>2, <1>3 DEF SessionEnds, IInv, Typed, NotYet, Gens
<1>7. TaskOrder'
  BY <1>2, <1>3, <1>4 DEF SessionEnds, IInv, Typed, TaskOrder, Working
<1>8. ShellOrder'
  BY <1>2, <1>3, <1>4 DEF SessionEnds, IInv, ShellOrder
<1>9. NoOrphanedShell' /\ WorkBlocksExit'
  BY <1>2, <1>4 DEF SessionEnds, NoOrphanedShell, WorkBlocksExit, Working
<1>10. EndMail' /\ KeyMail'
  BY <1>2 DEF SessionEnds, IInv, EndMail, KeyMail
<1>11. PromptMail'
  BY <1>2, <1>3 DEF SessionEnds, IInv, PromptMail
<1>12. Keys' /\ Prompts'
  BY <1>2 DEF SessionEnds, IInv, Keys, HostVerified, Prompts
<1> QED BY <1>2, <1>5, <1>6, <1>7, <1>8, <1>9, <1>10, <1>11, <1>12 DEF IInv

(* A message that changes nothing but the mailbox and the entry of a task    *)
(* that has ended.                                                           *)
LEMMA DroppedStep ==
    ASSUME IInv, NEW t, Received(t), HandlerFrame,
           UNCHANGED <<state, shell, stop, live, challenge, kbd, reply, aborted,
                       worker, signal, pinned>>,
           \/ connectTask' = connectTask
           \/ connectTask' = 0 /\ (connectTask = gen => cpc[gen] = "done"),
           Head(mailbox) = Message("ConnectionFailed", gen) => state \in Down
    PROVE  IInv'
<1> USE SshSessionAssumption
<1> DEFINE m == Head(mailbox)
<1>2. /\ gen \in Gens /\ gen > 0
      /\ mailbox' \in Seq(Messages) /\ InOrder'
      /\ Mail' \subseteq Mail /\ Mail \subseteq Mail' \cup {m}
      /\ requests' \subseteq [op : Ops, fresh : BOOLEAN] /\ RequestsSeen'
      /\ UNCHANGED <<gen, shared, cpc, hop, rounds>>
      /\ waiter' = (waiter /\ live')
  BY HandlerShares
<1>3. /\ Message("ConnectionFailed", gen) \in Mail /\ state \notin Down
            => Message("ConnectionFailed", gen) \in Mail'
  BY <1>2
<1> HIDE DEF m
<1>4. Typed'
  BY <1>2 DEF IInv, Typed
<1>5. NotYet'
  <2>1. gen \in Nat /\ connectTask <= gen /\ state # "None"
    BY <1>2 DEF IInv, Typed, NotYet, Gens
  <2>2. connectTask' <= gen
    <3>1. CASE connectTask' = connectTask
      BY <2>1, <3>1
    <3>2. CASE connectTask' = 0
      BY <2>1, <3>2
    <3> QED BY <3>1, <3>2
  <2> QED BY <1>2, <2>1, <2>2 DEF IInv, Typed, NotYet
<1>9. TaskOrder' /\ ShellOrder'
  BY <1>2 DEF IInv, TaskOrder, ShellOrder, Working
<1>6. NoOrphanedShell' /\ WorkBlocksExit'
  BY <1>2 DEF IInv, NoOrphanedShell, WorkBlocksExit
<1>7. EndMail' /\ KeyMail' /\ PromptMail'
  BY <1>2, <1>3 DEF IInv, EndMail, KeyMail, PromptMail
<1>8. Keys' /\ Prompts'
  BY <1>2, <1>3 DEF IInv, Keys, HostVerified, Prompts, Down, Ended
<1> QED BY <1>2, <1>4, <1>5, <1>6, <1>7, <1>8, <1>9 DEF IInv

(* A signalled shell: every worker still running has been told to stop. *)
LEMMA SignalReaches ==
    ASSUME IInv, NEW sig \in {"disconnect", "abort"}, SignalShell(sig)
    PROVE  /\ stop' = FALSE
           /\ signal' \in [Gens -> {"none", "disconnect", "abort"}]
           /\ \A g \in Gens : worker[g] = "running" => signal'[g] # "none"
<1>1. /\ stop' = FALSE
      /\ \/ /\ stop /\ worker[gen] # "gone"
            /\ signal' = [signal EXCEPT ![gen] = sig]
         \/ signal' = signal /\ (~stop \/ worker[gen] = "gone")
  BY DEF SignalShell
<1>2. signal' \in [Gens -> {"none", "disconnect", "abort"}]
  BY <1>1 DEF IInv, Typed
<1>3. ASSUME NEW g \in Gens, worker[g] = "running"
      PROVE  signal'[g] # "none"
  <2>1. signal[g] = "none" => g = gen /\ stop
    BY <1>3 DEF IInv, NoOrphanedShell
  <2>2. signal[g] # "none" => signal'[g] # "none"
    BY <1>1 DEF IInv, Typed
  <2>3. g = gen /\ stop => signal'[g] # "none"
    BY <1>1, <1>3 DEF IInv, Typed
  <2> QED BY <2>1, <2>2, <2>3
<1> QED BY <1>1, <1>2, <1>3

(* connection_failed *)
LEMMA HandleConnectionFailedStep ==
    ASSUME IInv, HandleConnectionFailed
    PROVE  IInv'
<1> USE SshSessionAssumption
<1>1. Received("ConnectionFailed") /\ HandlerFrame /\ FinishConnect(Sender)
      /\ UNCHANGED <<aborted, worker, pinned>>
  BY DEF HandleConnectionFailed
<1>2. /\ Sender \in Gens /\ Head(mailbox).type = "ConnectionFailed"
      /\ gen \in Gens /\ gen > 0 /\ cpc[Sender] = "done"
  BY <1>1, HandlerShares DEF Sender, IInv, EndMail
<1>3. /\ connectTask' \in {0, connectTask}
      /\ \/ connectTask' = connectTask
         \/ connectTask' = 0 /\ (connectTask = gen => cpc[gen] = "done")
  BY <1>1, <1>2 DEF FinishConnect
<1>4. state # "None"
  BY <1>2 DEF IInv, NotYet
<1>5. CASE Sender = gen /\ state = "Disconnecting" /\ ShellClosed
  <2>1. ~kbd /\ ~stop
    BY <1>5 DEF IInv, Prompts, ShellOrder
  <2>2. \A g \in Gens : worker[g] = "running" => signal[g] # "none"
    BY <2>1 DEF IInv, NoOrphanedShell
  <2>3. SessionEnds
    BY <1>1, <1>3, <1>4, <1>5, <2>1, <2>2
       DEF SessionEnds, ShellClosed, MoveTo, LeaveLive, Ended, IInv, Typed
  <2> QED BY <1>1, <1>2, <1>5, <2>3, SessionEndsStep
<1>6. CASE /\ ConnectionActive(Sender) /\ kbd' = FALSE /\ Failed
           /\ reply' = IF kbd /\ cpc[gen] = "answer"
                         THEN [reply EXCEPT ![gen] = "refused"] ELSE reply
           /\ UNCHANGED challenge
  <2>1. cpc[gen] = "done" /\ reply' = reply
    BY <1>2, <1>6 DEF ConnectionActive
  <2>2. shell => live
    BY <1>2 DEF IInv, WorkBlocksExit
  <2>3. /\ SignalShell("abort") /\ shell' = shell /\ state' = "Failed"
        /\ live' = (live /\ ~(state' \in Ended /\ ~shell'))
    BY <1>6 DEF Failed, MoveTo, LeaveLive
  <2>4. SessionEnds
    BY <1>1, <1>3, <1>4, <1>6, <2>1, <2>2, <2>3, SignalReaches
       DEF SessionEnds, Ended, IInv, Typed
  <2> QED BY <1>1, <2>1, <2>4, SessionEndsStep
<1>7. CASE (Sender # gen \/ state \in Ended) /\ UNCHANGED <<record, reply, signal>>
  <2>1. Head(mailbox) = Message("ConnectionFailed", gen) => state \in Down
    BY <1>7 DEF Sender, Message, Down
  <2> QED BY <1>1, <1>3, <1>7, <2>1, DroppedStep DEF record
<1> QED BY <1>5, <1>6, <1>7 DEF HandleConnectionFailed

(* transport_heartbeat_failed *)
LEMMA HandleHeartbeatFailedStep ==
    ASSUME IInv, HandleHeartbeatFailed
    PROVE  IInv'
<1> USE SshSessionAssumption
<1>1. Received("TransportHeartbeatFailed") /\ HandlerFrame
      /\ UNCHANGED <<challenge, kbd, connectTask, reply, aborted, worker, pinned>>
  BY DEF HandleHeartbeatFailed
<1>2. /\ Head(mailbox).type = "TransportHeartbeatFailed"
      /\ gen \in Gens /\ gen > 0
  BY <1>1, HandlerShares
<1>3. CASE Sender = gen /\ state \in Up /\ Failed
  <2>1. cpc[gen] = "done" /\ ~kbd /\ state # "None"
    BY <1>2, <1>3 DEF IInv, ShellOrder, TaskOrder, Prompts, Up
  <2>2. shell => live
    BY <1>2 DEF IInv, WorkBlocksExit
  <2>3. /\ SignalShell("abort") /\ shell' = shell /\ state' = "Failed"
        /\ live' = (live /\ ~(state' \in Ended /\ ~shell'))
    BY <1>3 DEF Failed, MoveTo, LeaveLive
  <2>4. SessionEnds
    BY <1>1, <2>1, <2>2, <2>3, SignalReaches
       DEF SessionEnds, Ended, IInv, Typed
  <2> QED BY <1>1, <2>1, <2>4, SessionEndsStep
<1>4. CASE UNCHANGED <<state, shell, stop, live, signal>>
  <2>1. Head(mailbox) # Message("ConnectionFailed", gen)
    BY <1>2 DEF Message
  <2> QED BY <1>1, <1>4, <2>1, DroppedStep
<1> QED BY <1>3, <1>4 DEF HandleHeartbeatFailed

(* shell_closed *)
LEMMA HandleShellClosedStep ==
    ASSUME IInv, HandleShellClosed
    PROVE  IInv'
<1> USE SshSessionAssumption
<1>1. Received("ShellClosed") /\ HandlerFrame
      /\ UNCHANGED <<connectTask, aborted, worker, pinned>>
  BY DEF HandleShellClosed
<1>2. /\ Head(mailbox).type = "ShellClosed" /\ worker[Sender] = "gone"
      /\ gen \in Gens /\ gen > 0
  BY <1>1, HandlerShares DEF Sender, IInv, EndMail
<1>3. CASE Sender = gen /\ ShellClosed
  <2>1. cpc[gen] = "done" /\ ~kbd /\ state # "None"
    BY <1>2, <1>3
       DEF IInv, ShellOrder, TaskOrder, NotYet, Prompts, Up, Down, Ended
  <2>2. \A g \in Gens : worker[g] = "running" => signal[g] # "none"
    BY <1>2, <1>3 DEF IInv, NoOrphanedShell
  <2>3. SessionEnds
    BY <1>1, <1>3, <2>1, <2>2
       DEF SessionEnds, ShellClosed, MoveTo, LeaveLive, Ended, IInv, Typed
  <2> QED BY <1>1, <2>1, <2>3, SessionEndsStep
<1>4. CASE UNCHANGED <<state, shell, stop, live, challenge, kbd, reply, signal>>
  <2>1. Head(mailbox) # Message("ConnectionFailed", gen)
    BY <1>2 DEF Message
  <2> QED BY <1>1, <1>4, <2>1, DroppedStep
<1> QED BY <1>3, <1>4 DEF HandleShellClosed

(* shell_cleanup_completed: the worker is gone; only an ended session stops  *)
(* blocking the exit.                                                        *)
LEMMA HandleCleanupCompletedStep ==
    ASSUME IInv, HandleCleanupCompleted
    PROVE  IInv'
<1> USE SshSessionAssumption
<1>1. Received("ShellCleanupCompleted") /\ HandlerFrame
      /\ UNCHANGED <<state, challenge, kbd, signal, connectTask, reply,
                     aborted, worker, pinned>>
  BY DEF HandleCleanupCompleted
<1>2. /\ Head(mailbox).type = "ShellCleanupCompleted"
      /\ worker[Sender] = "gone"
      /\ gen \in Gens /\ gen > 0
      /\ mailbox' \in Seq(Messages) /\ InOrder'
      /\ Mail' \subseteq Mail /\ Mail \subseteq Mail' \cup {Head(mailbox)}
      /\ requests' \subseteq [op : Ops, fresh : BOOLEAN] /\ RequestsSeen'
      /\ UNCHANGED <<gen, shared, cpc, hop, rounds>>
      /\ waiter' = (waiter /\ live')
  BY <1>1, HandlerShares DEF Sender, IInv, EndMail
<1>3. Head(mailbox) # Message("ConnectionFailed", gen)
  BY <1>2 DEF Message
<1>4. CASE /\ Sender = gen
           /\ shell' = FALSE /\ stop' = FALSE
           /\ live' = (live /\ state \notin Ended)
  <2>1. cpc[gen] = "done"
    BY <1>2, <1>4 DEF IInv, TaskOrder
  <2>2. Typed'
    BY <1>1, <1>2, <1>4 DEF IInv, Typed
  <2>3. NotYet'
    BY <1>1, <1>2, <1>4 DEF IInv, Typed, NotYet
  <2>4. TaskOrder' /\ ShellOrder'
    BY <1>1, <1>2, <1>4 DEF IInv, TaskOrder, ShellOrder
  <2>5. NoOrphanedShell' /\ WorkBlocksExit'
    BY <1>1, <1>2, <1>4, <2>1 DEF IInv, NoOrphanedShell, WorkBlocksExit, Working
  <2>6. EndMail' /\ KeyMail' /\ PromptMail'
    BY <1>1, <1>2, <1>3 DEF IInv, EndMail, KeyMail, PromptMail
  <2>7. Keys' /\ Prompts'
    BY <1>1, <1>2, <1>3 DEF IInv, Keys, HostVerified, Prompts
  <2> QED BY <1>2, <2>2, <2>3, <2>4, <2>5, <2>6, <2>7 DEF IInv
<1>5. CASE UNCHANGED <<shell, stop, live>>
  BY <1>1, <1>3, <1>5, DroppedStep
<1> QED BY <1>4, <1>5 DEF HandleCleanupCompleted

-----------------------------------------------------------------------------
(* Requests, and what else leaves the mailbox alone. *)

(* An answer sent to the task of a question in the record crosses no         *)
(* question that is still in the mailbox.                                    *)
LEMMA AnsweredMail ==
    ASSUME IInv, gen \in Gens, UNCHANGED <<gen, cpc, hop, worker, mailbox>>,
           \A h \in Gens \ {gen} : reply'[h] = reply[h],
           \/ reply'[gen] = reply[gen]
           \/ challenge /\ cpc[gen] = "verify"
           \/ kbd /\ cpc[gen] = "answer",
           challenge' => challenge, state \in Down => state' \in Down
    PROVE  Mail' = Mail /\ InOrder' /\ EndMail' /\ KeyMail' /\ PromptMail'
<1>1. Mail' = Mail /\ InOrder'
  BY MailSame DEF IInv
<1>2. EndMail'
  BY <1>1 DEF IInv, EndMail
<1>3. KeyMail'
  BY <1>1, MailTyped DEF IInv, KeyMail
<1>4. PromptMail'
  BY <1>1, MailTyped DEF IInv, PromptMail, Prompts
<1> QED BY <1>1, <1>2, <1>3, <1>4

(* Rejecting what is pending answers the question in the record, if any. *)
LEMMA RejectAnswers ==
    ASSUME IInv, gen \in Gens, RejectPending
    PROVE  /\ challenge' = FALSE /\ kbd' = FALSE
           /\ reply' \in [Gens -> {"none", "accepted", "refused"}]
           /\ \A h \in Gens \ {gen} : reply'[h] = reply[h]
           /\ \/ reply'[gen] = reply[gen]
              \/ /\ reply'[gen] = "refused"
                 /\ \/ challenge /\ cpc[gen] = "verify"
                    \/ kbd /\ cpc[gen] = "answer"
BY DEF RejectPending, IInv, Typed

(* The end of a session that is asked for. *)
LEMMA EndSessionStep ==
    ASSUME IInv, gen \in Gens, NEW ok \in BOOLEAN, EndSession(ok),
           RejectPending \/ (KeepPending /\ shell),
           UNCHANGED <<cpc, hop, rounds, worker, mailbox>>,
           requests' \subseteq [op : Ops, fresh : BOOLEAN], RequestsSeen',
           waiter' \in BOOLEAN
    PROVE  IInv'
<1> USE SshSessionAssumption
<1>1. /\ \/ connectTask = gen /\ connectTask' = 0 /\ aborted' = aborted \cup {gen}
         \/ connectTask # gen /\ connectTask' = connectTask /\ aborted' = aborted
      /\ UNCHANGED <<gen, shared, pinned>>
      /\ gen > 0 /\ gen \in Nat
  BY DEF EndSession, AbortConnect, Gens
<1>2. \/ /\ shell /\ SignalShell("disconnect")
         /\ state' \in {"Disconnecting", state}
         /\ shell' = shell /\ live' = live
      \/ /\ ~shell
         /\ state' = "Closed" /\ live' = FALSE
         /\ UNCHANGED <<shell, stop, signal>>
  BY DEF EndSession, MoveTo
<1>3. shell => live /\ ~kbd /\ connectTask # gen
  BY <1>1 DEF IInv, WorkBlocksExit, ShellOrder, TaskOrder, Prompts, Up, Down, Ended
<1>4. state # "None" /\ state' # "None" /\ state' \in States
      /\ (state \in Down => state' \in Down)
      /\ (gen \in aborted' => state' \in Down)
  BY <1>1, <1>2, <1>3
     DEF IInv, Typed, NotYet, TaskOrder, States, Down, Ended
<1>5. /\ reply' \in [Gens -> {"none", "accepted", "refused"}]
      /\ \A h \in Gens \ {gen} : reply'[h] = reply[h]
      /\ \/ reply'[gen] = reply[gen]
         \/ /\ reply'[gen] = "refused"
            /\ \/ challenge /\ cpc[gen] = "verify"
               \/ kbd /\ cpc[gen] = "answer"
      /\ challenge' = FALSE \/ (challenge' = challenge /\ reply' = reply)
      /\ kbd' = FALSE
  <2>1. CASE RejectPending
    BY <2>1, RejectAnswers
  <2>2. CASE KeepPending /\ shell
    BY <1>3, <2>2 DEF KeepPending, IInv, Typed
  <2> QED BY <2>1, <2>2
<1>6. Mail' = Mail /\ InOrder' /\ EndMail' /\ KeyMail' /\ PromptMail'
  BY <1>1, <1>4, <1>5, AnsweredMail
<1>7. /\ stop' \in BOOLEAN /\ (stop' => stop)
      /\ signal' \in [Gens -> {"none", "disconnect", "abort"}]
      /\ NoOrphanedShell'
  <2>1. CASE shell /\ SignalShell("disconnect")
    BY <2>1, SignalReaches DEF NoOrphanedShell
  <2>2. CASE ~shell /\ UNCHANGED <<shell, stop, signal>>
    BY <1>1, <2>2 DEF IInv, Typed, NoOrphanedShell
  <2> QED BY <1>2, <2>1, <2>2
<1>8. Typed'
  <2>1. challenge' \in BOOLEAN /\ shell' \in BOOLEAN /\ live' \in BOOLEAN
    BY <1>2, <1>5 DEF IInv, Typed
  <2>2. mailbox' \in Seq(Messages) /\ aborted' \subseteq Gens
        /\ connectTask' \in Gens \cup {0}
    BY <1>1 DEF IInv, Typed
  <2> QED BY <1>1, <1>4, <1>5, <1>7, <2>1, <2>2 DEF IInv, Typed
<1>9. NotYet'
  <2>1. connectTask <= gen /\ (\A g \in aborted : g <= gen) /\ gen <= gen
    BY <1>1 DEF IInv, NotYet
  <2>2. CASE connectTask' = 0 /\ aborted' = aborted \cup {gen}
    BY <1>1, <1>4, <1>6, <2>1, <2>2 DEF IInv, NotYet
  <2>3. CASE connectTask' = connectTask /\ aborted' = aborted
    BY <1>1, <1>4, <1>6, <2>1, <2>3 DEF IInv, NotYet
  <2> QED BY <1>1, <2>2, <2>3
<1>10. TaskOrder'
  BY <1>1, <1>2, <1>3, <1>4 DEF IInv, TaskOrder
<1>11. ShellOrder'
  <2>1. CASE shell /\ state' \in {"Disconnecting", state} /\ shell' = shell
             /\ live' = live /\ SignalShell("disconnect")
    BY <1>1, <1>3, <2>1 DEF IInv, ShellOrder, SignalShell, Up, Down
  <2>2. CASE ~shell /\ state' = "Closed" /\ UNCHANGED <<shell, stop, signal>>
    BY <1>1, <2>2 DEF IInv, ShellOrder, Up, Down, Ended
  <2> QED BY <1>2, <2>1, <2>2
<1>12. WorkBlocksExit'
  BY <1>1, <1>2, <1>3 DEF IInv, WorkBlocksExit, TaskOrder
<1>13. Keys'
  BY <1>1, <1>5 DEF IInv, Typed, Keys, HostVerified
<1>14. Prompts'
  BY <1>5 DEF Prompts
<1> QED BY <1>6, <1>7, <1>8, <1>9, <1>10, <1>11, <1>12, <1>13, <1>14 DEF IInv

(* A request that is taken: the others are revised. *)
LEMMA Taken ==
    ASSUME IInv, NEW r \in requests, Take(r), gen' = gen \/ state' # state
    PROVE  /\ requests' \subseteq [op : Ops, fresh : BOOLEAN] /\ RequestsSeen'
           /\ gen \in Gens /\ gen > 0
<1>1. requests' \subseteq [op : Ops, fresh : BOOLEAN] /\ RequestsSeen'
  BY Revised DEF Take, IInv
<1>2. gen \in Gens /\ gen > 0
  BY SshSessionAssumption DEF IInv, Typed, NotYet, Gens
<1> QED BY <1>1, <1>2

(* Nothing but requests and the waiter changes. *)
LEMMA QuietStep ==
    ASSUME IInv, UNCHANGED <<record, connectTask, tasks, reply, aborted, workers,
                             mailbox, pinned>>,
           requests' \subseteq [op : Ops, fresh : BOOLEAN], RequestsSeen',
           gen = 0 => requests' = {}, waiter' \in BOOLEAN
    PROVE  IInv'
<1>1. UNCHANGED <<state, gen, shared, shell, stop, live, challenge, kbd,
                  connectTask, cpc, hop, rounds, reply, aborted, worker,
                  signal, mailbox, pinned>>
  BY DEF record, tasks, workers
<1>2. Mail' = Mail /\ InOrder'
  BY <1>1, MailSame DEF IInv
<1>3. Typed'
  BY <1>1 DEF IInv, Typed
<1>4. NotYet' /\ TaskOrder' /\ ShellOrder'
  BY <1>1, <1>2 DEF IInv, NotYet, TaskOrder, ShellOrder
<1>5. NoOrphanedShell' /\ WorkBlocksExit'
  BY <1>1 DEF IInv, NoOrphanedShell, WorkBlocksExit
<1>6. EndMail' /\ KeyMail' /\ PromptMail' /\ Keys' /\ Prompts'
  BY <1>1, <1>2 DEF IInv, EndMail, KeyMail, PromptMail, Keys, HostVerified, Prompts
<1> QED BY <1>2, <1>3, <1>4, <1>5, <1>6 DEF IInv

LEMMA RefuseStep ==
    ASSUME IInv, NEW r \in requests, Refuse(r)
    PROVE  IInv'
<1>1. /\ UNCHANGED <<record, connectTask, tasks, reply, aborted, workers,
                     mailbox, pinned>>
      /\ Take(r) /\ waiter' = (waiter /\ live')
  BY DEF Refuse, RequestFrame, CompleteShutdown, workers
<1>2. gen' = gen /\ waiter' \in BOOLEAN
  BY <1>1 DEF record, IInv, Typed
<1> QED BY <1>1, <1>2, Taken, QuietStep DEF Gens

LEMMA DisconnectStep ==
    ASSUME IInv, NEW r \in requests, Disconnect(r)
    PROVE  IInv'
<1>1. CASE /\ RejectPending /\ \E ok \in BOOLEAN : EndSession(ok)
           /\ Take(r) /\ RequestFrame
  <2>1. PICK ok \in BOOLEAN : EndSession(ok)
    BY <1>1
  <2>2. /\ gen' = gen /\ UNCHANGED <<cpc, hop, rounds, worker, mailbox>>
        /\ waiter' \in BOOLEAN
    BY <1>1, <2>1 DEF EndSession, RequestFrame, tasks, CompleteShutdown
  <2> QED BY <1>1, <2>1, <2>2, Taken, EndSessionStep
<1> QED BY <1>1, RefuseStep DEF Disconnect

LEMMA DetachStep ==
    ASSUME IInv, NEW r \in requests, Detach(r)
    PROVE  IInv'
<1>1. CASE /\ IF shell THEN KeepPending ELSE RejectPending
           /\ \E ok \in BOOLEAN : EndSession(ok)
           /\ Take(r) /\ RequestFrame
  <2>1. PICK ok \in BOOLEAN : EndSession(ok)
    BY <1>1
  <2>2. /\ gen' = gen /\ UNCHANGED <<cpc, hop, rounds, worker, mailbox>>
        /\ waiter' \in BOOLEAN
    BY <1>1, <2>1 DEF EndSession, RequestFrame, tasks, CompleteShutdown
  <2> QED BY <1>1, <2>1, <2>2, Taken, EndSessionStep
<1> QED BY <1>1, RefuseStep DEF Detach

(* reconnect_once: the next generation starts from nothing, and the worker  *)
(* of the previous one has been told to stop.                               *)
LEMMA ReconnectStep ==
    ASSUME IInv, NEW r \in requests, r.op = "reconnect", Reconnect(r)
    PROVE  IInv'
<1> USE SshSessionAssumption
<1>1. CASE Refuse(r)
  BY <1>1, RefuseStep
<1>2. CASE ~Refuse(r)
  <2>1. /\ r.fresh /\ state \in Ended
        /\ RejectPending /\ SignalShell("abort")
        /\ shell' = FALSE /\ gen' = gen + 1 /\ state' = "Resolving"
        /\ live' = TRUE /\ StartConnect(gen + 1) /\ Take(r)
        /\ UNCHANGED <<shared, hop, rounds, worker, mailbox, pinned, waiter>>
    BY <1>2 DEF Reconnect, Current, MoveTo
  <2>2. /\ requests' \subseteq [op : Ops, fresh : BOOLEAN] /\ RequestsSeen'
        /\ gen \in Gens /\ gen > 0
    BY <2>1, Taken DEF Ended
  <2>3. gen \in Nat /\ gen + 1 \in Gens /\ gen + 1 > gen
    BY <2>1, <2>2 DEF IInv, RequestsSeen, Gens
  <2>4. /\ cpc[gen + 1] = "none" /\ worker[gen + 1] = "none"
    BY <2>3 DEF IInv, NotYet
  <2>5. /\ connectTask' = gen + 1 /\ cpc' = [cpc EXCEPT ![gen + 1] = "plan"]
        /\ \A h \in aborted' : h \in aborted \/ h = connectTask
        /\ aborted' \subseteq Gens
    BY <2>1 DEF StartConnect, IInv, Typed
  <2>6. \A h \in aborted' : h <= gen
    BY <2>5 DEF IInv, NotYet
  <2>7. /\ challenge' = FALSE /\ kbd' = FALSE /\ ~kbd
        /\ reply' \in [Gens -> {"none", "accepted", "refused"}]
        /\ \A h \in Gens : reply'[h] = reply[h]
                           \/ (reply'[h] = "refused" /\ h = gen /\ challenge)
    BY <2>1, <2>2, RejectAnswers DEF IInv, Prompts, Ended
  <2>8. Mail' = Mail /\ InOrder'
    BY <2>1, MailSame DEF IInv
  <2>9. \A m \in Mail : m.gen \in Gens /\ m.gen # gen + 1 /\ m.gen <= gen
                        /\ cpc'[m.gen] = cpc[m.gen]
    BY <2>2, <2>3, <2>5, MailTyped DEF IInv, Typed, NotYet, Gens
  <2>10. Typed'
    BY <2>1, <2>2, <2>3, <2>5, <2>7, SignalReaches
       DEF IInv, Typed, States, Transient, TaskPCs
  <2>11. NotYet'
    BY <2>1, <2>2, <2>3, <2>5, <2>6, <2>8, <2>9
       DEF IInv, Typed, NotYet, Gens
  <2>12. TaskOrder'
    BY <2>1, <2>2, <2>3, <2>4, <2>5, <2>6 DEF IInv, Typed, TaskOrder
  <2>13. ShellOrder'
    BY <2>1, <2>3, <2>4 DEF ShellOrder, Up
  <2>14. NoOrphanedShell' /\ WorkBlocksExit'
    BY <2>1, SignalReaches DEF NoOrphanedShell, WorkBlocksExit
  <2>15. EndMail'
    BY <2>1, <2>8, <2>9 DEF IInv, EndMail
  <2>16. KeyMail'
    BY <2>1, <2>7, <2>8, <2>9 DEF IInv, KeyMail
  <2>17. PromptMail'
    BY <2>1, <2>3, <2>7, <2>8, <2>9 DEF IInv, PromptMail, Keys
  <2>18. Keys' /\ Prompts'
    BY <2>1, <2>3, <2>5, <2>7 DEF IInv, Typed, Keys, HostVerified, Prompts
  <2> QED BY <2>2, <2>8, <2>10, <2>11, <2>12, <2>13, <2>14, <2>15, <2>16, <2>17,
             <2>18 DEF IInv
<1> QED BY <1>1, <1>2

(* A question is answered and forgotten; the record is otherwise kept. *)
LEMMA QuestionAnswered ==
    ASSUME IInv, NEW r \in requests, Take(r), RequestFrame,
           UNCHANGED <<state, gen, shared, shell, stop, live, connectTask,
                       aborted, signal>>,
           challenge' \in BOOLEAN, kbd' \in BOOLEAN,
           challenge' => challenge, kbd' => kbd,
           pinned \subseteq pinned', pinned' \subseteq Hops,
           NEW pc \in {"verify", "answer"}, NEW a \in {"accepted", "refused"},
           Answer(gen, pc, a),
           pc = "verify" => challenge /\ ~challenge',
           pc = "answer" => kbd /\ ~kbd',
           pc = "verify" /\ a = "accepted" => hop[gen] \in pinned'
    PROVE  IInv'
<1> USE SshSessionAssumption
<1>1. UNCHANGED <<cpc, hop, rounds, worker, mailbox>> /\ waiter' \in BOOLEAN
  BY DEF RequestFrame, tasks, CompleteShutdown
<1>2. /\ requests' \subseteq [op : Ops, fresh : BOOLEAN] /\ RequestsSeen'
      /\ gen \in Gens /\ gen > 0
  BY Taken
<1>3. /\ reply' \in [Gens -> {"none", "accepted", "refused"}]
      /\ \A h \in Gens \ {gen} : reply'[h] = reply[h]
      /\ cpc[gen] # pc => reply'[gen] = reply[gen]
      /\ cpc[gen] = pc => reply'[gen] = a
  BY <1>2 DEF Answer, IInv, Typed
<1>4. Mail' = Mail /\ InOrder' /\ EndMail' /\ KeyMail' /\ PromptMail'
  BY <1>1, <1>2, <1>3, AnsweredMail
<1>5. Typed'
  BY <1>1, <1>2, <1>3 DEF IInv, Typed
<1>6. NotYet' /\ TaskOrder' /\ ShellOrder'
  BY <1>1, <1>2, <1>4 DEF IInv, NotYet, TaskOrder, ShellOrder
<1>7. NoOrphanedShell' /\ WorkBlocksExit'
  BY <1>1 DEF IInv, NoOrphanedShell, WorkBlocksExit
<1>8. Keys'
  BY <1>1, <1>2, <1>3 DEF IInv, Keys, HostVerified
<1>9. Prompts'
  BY <1>1, <1>2, <1>3, <1>4 DEF IInv, Prompts, Keys
<1> QED BY <1>2, <1>4, <1>5, <1>6, <1>7, <1>8, <1>9 DEF IInv

LEMMA HostKeyDecideStep ==
    ASSUME IInv, NEW r \in requests, r.op \in {"accept", "reject"},
           HostKeyDecide(r)
    PROVE  IInv'
<1>1. CASE Refuse(r)
  BY <1>1, RefuseStep
<1>2. CASE ~Refuse(r)
  <2>1. /\ r.fresh /\ challenge' = FALSE
        /\ UNCHANGED <<state, gen, shared, shell, stop, live, kbd,
                       connectTask, aborted, signal>>
        /\ Take(r) /\ RequestFrame
        /\ \/ Answer(gen, "verify", "refused") /\ UNCHANGED pinned
           \/ /\ Answer(gen, "verify", "accepted")
              /\ pinned' = pinned \cup {hop[gen]}
    BY <1>2 DEF HostKeyDecide, Current
  <2>2. challenge /\ kbd' \in BOOLEAN
    BY <2>1 DEF IInv, Typed, RequestsSeen
  <2>3. gen \in Gens
    BY <2>1, Taken
  <2>4. CASE Answer(gen, "verify", "refused") /\ UNCHANGED pinned
    BY <2>1, <2>2, <2>4, QuestionAnswered DEF IInv, Typed
  <2>5. CASE Answer(gen, "verify", "accepted") /\ pinned' = pinned \cup {hop[gen]}
    <3>1. /\ pinned \subseteq pinned' /\ pinned' \subseteq Hops
          /\ hop[gen] \in pinned'
      BY <2>3, <2>5 DEF IInv, Typed
    <3> QED BY <2>1, <2>2, <2>5, <3>1, QuestionAnswered
  <2> QED BY <2>1, <2>4, <2>5
<1> QED BY <1>1, <1>2

LEMMA KeyboardRespondStep ==
    ASSUME IInv, NEW r \in requests, r.op = "answer", KeyboardRespond(r)
    PROVE  IInv'
<1>1. CASE Refuse(r)
  BY <1>1, RefuseStep
<1>2. CASE ~Refuse(r)
  <2>1. /\ r.fresh /\ kbd' = FALSE
        /\ UNCHANGED <<state, gen, shared, shell, stop, live, challenge,
                       connectTask, aborted, signal, pinned>>
        /\ Take(r) /\ RequestFrame
        /\ Answer(gen, "answer", "accepted")
    BY <1>2 DEF KeyboardRespond, Current, ForgetPrompt
  <2>2. kbd /\ challenge' \in BOOLEAN /\ pinned' \subseteq Hops
    BY <2>1 DEF IInv, Typed, RequestsSeen
  <2> QED BY <2>1, <2>2, QuestionAnswered
<1> QED BY <1>1, <1>2

LEMMA HandleRequestStep ==
    ASSUME IInv, NEW r \in requests, HandleRequest(r)
    PROVE  IInv'
BY DisconnectStep, DetachStep, ReconnectStep, HostKeyDecideStep,
   KeyboardRespondStep DEF HandleRequest

LEMMA SendRequestStep ==
    ASSUME IInv, NEW op \in Ops, SendRequest(op)
    PROVE  IInv'
<1> USE SshSessionAssumption
<1>1. /\ gen > 0 /\ (op \in {"accept", "reject"} => challenge)
      /\ (op = "answer" => kbd) /\ (op = "reconnect" => gen < MaxGen)
      /\ requests' = requests \cup {[op |-> op, fresh |-> TRUE]}
      /\ UNCHANGED <<record, connectTask, tasks, reply, aborted, workers, mailbox,
                     pinned, waiter>>
  BY DEF SendRequest
<1>2. requests' \subseteq [op : Ops, fresh : BOOLEAN]
  <2>1. [op |-> op, fresh |-> TRUE] \in [op : Ops, fresh : BOOLEAN]
    OBVIOUS
  <2>2. requests \subseteq [op : Ops, fresh : BOOLEAN]
    BY DEF IInv, Typed
  <2> HIDE DEF Ops
  <2> QED BY <1>1, <2>1, <2>2
<1>3. RequestsSeen'
  <2>1. UNCHANGED <<gen, challenge, kbd>>
    BY <1>1 DEF record
  <2> QED BY <1>1, <2>1 DEF IInv, RequestsSeen
<1>4. waiter' \in BOOLEAN /\ gen # 0
  BY <1>1 DEF IInv, Typed, Gens
<1> QED BY <1>1, <1>2, <1>3, <1>4, QuietStep

LEMMA ShutdownDeadlineStep ==
    ASSUME IInv, ShutdownDeadline
    PROVE  IInv'
<1>1. /\ waiter' = FALSE
      /\ UNCHANGED <<record, connectTask, tasks, reply, aborted, workers, mailbox,
                     requests, pinned>>
  BY DEF ShutdownDeadline
<1>2. requests' \subseteq [op : Ops, fresh : BOOLEAN] /\ RequestsSeen'
      /\ (gen = 0 => requests' = {})
  BY <1>1 DEF IInv, Typed, NotYet, RequestsSeen, record
<1> QED BY <1>1, <1>2, QuietStep

LEMMA BeginShutdownStep ==
    ASSUME IInv, BeginShutdown
    PROVE  IInv'
<1> USE SshSessionAssumption
<1>1. /\ Revise(requests) /\ UNCHANGED <<cpc, hop, rounds, worker, mailbox>>
      /\ UNCHANGED tasks
  BY DEF BeginShutdown, tasks
<1>2. CASE UNCHANGED <<record, connectTask, reply, aborted, signal, pinned, waiter>>
  <2>1. gen' = gen /\ UNCHANGED workers /\ waiter' \in BOOLEAN
    BY <1>1, <1>2 DEF record, workers, IInv, Typed
  <2>2. requests' \subseteq [op : Ops, fresh : BOOLEAN] /\ RequestsSeen'
    BY <1>1, <2>1, Revised DEF IInv
  <2>3. gen = 0 => requests' = {}
    BY <1>1 DEF IInv, NotYet, Revise
  <2> QED BY <1>1, <1>2, <2>1, <2>2, <2>3, QuietStep
<1>3. CASE /\ live /\ RejectPending
           /\ \E ok \in BOOLEAN : EndSession(ok) /\ waiter' = (live' /\ ok)
  <2>1. PICK ok \in BOOLEAN : EndSession(ok) /\ waiter' = (live' /\ ok)
    BY <1>3
  <2>2. gen' = gen /\ gen \in Gens /\ waiter' \in BOOLEAN
    BY <1>3, <2>1 DEF EndSession, IInv, Typed, NotYet
  <2>3. requests' \subseteq [op : Ops, fresh : BOOLEAN] /\ RequestsSeen'
    BY <1>1, <2>2, Revised DEF IInv
  <2> QED BY <1>1, <1>3, <2>1, <2>2, <2>3, EndSessionStep
<1> QED BY <1>2, <1>3 DEF BeginShutdown

(* finish_login_automation *)
LEMMA FinishLoginAutomationStep ==
    ASSUME IInv, FinishLoginAutomation
    PROVE  IInv'
<1> USE SshSessionAssumption
<1>1. /\ state = "AutomatingLogin" /\ state' = "Running"
      /\ UNCHANGED <<gen, shared, shell, stop, live, challenge, kbd,
                     connectTask, cpc, hop, rounds, reply, aborted, worker,
                     signal, mailbox, pinned, waiter>>
      /\ Revise(requests)
  BY DEF FinishLoginAutomation, MoveTo, tasks, workers
<1>2. requests' \subseteq [op : Ops, fresh : BOOLEAN] /\ RequestsSeen'
  BY <1>1, Revised DEF IInv
<1>3. gen \in Gens /\ gen > 0 /\ ~kbd
  BY <1>1 DEF IInv, Typed, NotYet, Prompts, Gens
<1>4. Mail' = Mail /\ InOrder' /\ EndMail' /\ KeyMail' /\ PromptMail'
  BY <1>1, <1>3, AnsweredMail DEF Down, Ended
<1>5. Typed'
  BY <1>1, <1>2 DEF IInv, Typed, States, Up
<1>6. NotYet' /\ TaskOrder' /\ ShellOrder'
  BY <1>1, <1>3, <1>4
     DEF IInv, NotYet, TaskOrder, ShellOrder, Up, Down, Ended
<1>7. NoOrphanedShell' /\ WorkBlocksExit' /\ Keys' /\ Prompts'
  BY <1>1, <1>3
     DEF IInv, NoOrphanedShell, WorkBlocksExit, Keys, HostVerified, Prompts
<1> QED BY <1>2, <1>4, <1>5, <1>6, <1>7 DEF IInv

(* open_once: the first generation starts from nothing. *)
LEMMA OpenStep ==
    ASSUME IInv, NEW isShared \in BOOLEAN, Open(isShared)
    PROVE  IInv'
<1> USE SshSessionAssumption
<1>1. /\ gen = 0 /\ gen' = 1 /\ live' = TRUE /\ shared' = isShared
      /\ UNCHANGED <<shell, stop, challenge, kbd, hop, rounds, reply, worker,
                     signal, mailbox, requests, pinned, waiter>>
  BY DEF Open, workers
<1>2. /\ ~shell /\ ~stop /\ ~challenge /\ ~kbd /\ requests = {}
      /\ connectTask = 0
  BY <1>1 DEF IInv, NotYet
<1>3. \E p \in {"plan", "open"} : cpc' = [cpc EXCEPT ![1] = p]
  BY DEF Open, StartConnect, StartSharedTerminal
<1>4. connectTask' = 1 /\ aborted' = aborted
      /\ state' \in {"Resolving", "OpeningChannel"}
  BY <1>2 DEF Open, StartConnect, StartSharedTerminal, MoveTo
<1>5. 1 \in Gens /\ \A h \in Gens : h \in Nat /\ h > 0
  BY DEF Gens
<1>6. Mail = {} /\ aborted = {}
  <2>1. \A h \in Gens : ~(h <= gen)
    BY <1>1, <1>5
  <2>2. \A m \in Mail : m.gen \in Gens /\ m.gen <= gen
    BY MailTyped DEF IInv, NotYet
  <2>3. \A h \in aborted : h \in Gens /\ h <= gen
    BY DEF IInv, Typed, NotYet
  <2> QED BY <2>1, <2>2, <2>3
<1>7. Mail' = {} /\ InOrder'
  BY <1>1, <1>6, MailSame DEF IInv
<1>8. \A h \in Gens : cpc[h] = "none" /\ worker[h] = "none"
  BY <1>1, <1>5 DEF IInv, NotYet
<1>9. /\ cpc' \in [Gens -> TaskPCs] /\ cpc'[1] \in {"plan", "open"}
      /\ \A h \in Gens : h # 1 => cpc'[h] = "none"
  BY <1>3, <1>5, <1>8 DEF IInv, Typed, TaskPCs
<1>10. Typed'
  BY <1>1, <1>4, <1>5, <1>9 DEF IInv, Typed, States, Transient
<1>11. NotYet'
  BY <1>1, <1>4, <1>5, <1>6, <1>7, <1>8, <1>9 DEF NotYet
<1>12. TaskOrder' /\ ShellOrder'
  BY <1>1, <1>2, <1>4, <1>5, <1>6, <1>8, <1>9 DEF TaskOrder, ShellOrder, Up
<1>13. NoOrphanedShell' /\ WorkBlocksExit'
  BY <1>1, <1>8 DEF NoOrphanedShell, WorkBlocksExit
<1>14. EndMail' /\ KeyMail' /\ PromptMail'
  BY <1>7 DEF EndMail, KeyMail, PromptMail
<1>15. Keys' /\ Prompts' /\ RequestsSeen'
  BY <1>1, <1>2, <1>9 DEF Keys, HostVerified, Prompts, RequestsSeen
<1> QED BY <1>7, <1>10, <1>11, <1>12, <1>13, <1>14, <1>15 DEF IInv

-----------------------------------------------------------------------------
(* The invariant is inductive. *)

LEMMA InitIInv == Init => IInv
<1> SUFFICES ASSUME Init PROVE IInv
  OBVIOUS
<1> USE SshSessionAssumption
<1>1. Mail = {} /\ InOrder /\ mailbox \in Seq(Messages)
  BY DEF Init, Mail, InOrder, Slots
<1>2. Typed
  <2>1. /\ state \in States /\ gen \in Gens \cup {0}
        /\ connectTask \in Gens \cup {0}
        /\ aborted \subseteq Gens /\ pinned \subseteq Hops
        /\ requests \subseteq [op : Ops, fresh : BOOLEAN]
    BY DEF Init, States
  <2>2. /\ cpc \in [Gens -> TaskPCs] /\ hop \in [Gens -> Hops]
        /\ rounds \in [Gens -> 0 .. MaxRounds]
    BY DEF Init, TaskPCs, Hops
  <2>3. /\ reply \in [Gens -> {"none", "accepted", "refused"}]
        /\ worker \in [Gens -> WorkerPCs]
        /\ signal \in [Gens -> {"none", "disconnect", "abort"}]
    BY DEF Init, WorkerPCs
  <2>4. /\ shared \in BOOLEAN /\ shell \in BOOLEAN /\ stop \in BOOLEAN
        /\ live \in BOOLEAN /\ challenge \in BOOLEAN /\ kbd \in BOOLEAN
        /\ waiter \in BOOLEAN
    BY DEF Init
  <2> QED BY <1>1, <2>1, <2>2, <2>3, <2>4 DEF Typed
<1>3. RequestsSeen /\ NotYet /\ TaskOrder /\ ShellOrder
  BY <1>1 DEF Init, RequestsSeen, NotYet, TaskOrder, ShellOrder
<1>4. NoOrphanedShell /\ WorkBlocksExit /\ Keys /\ Prompts
  BY DEF Init, NoOrphanedShell, WorkBlocksExit, Keys, HostVerified, Prompts
<1>5. EndMail /\ KeyMail /\ PromptMail
  BY <1>1 DEF EndMail, KeyMail, PromptMail
<1> QED BY <1>1, <1>2, <1>3, <1>4, <1>5 DEF IInv

LEMMA TaskStep ==
    ASSUME IInv, NEW g \in Gens, TaskProgress(g) \/ ConnectFails(g)
    PROVE  IInv'
BY DialStep, VerifyHostKeyStep, AuthenticateStep, HostKeyRefusedStep,
   AskKeyboardInteractiveStep, KeyboardAnsweredStep, OpenChannelStep,
   HandOverShellStep, AbortTakesEffectStep, ConnectFailsStep DEF TaskProgress

LEMMA HandleMessageStep ==
    ASSUME IInv, HandleMessage
    PROVE  IInv'
BY HandleStateStep, HandleHostKeyStep, HandleKeyboardInteractiveStep,
   HandleShellReadyStep, HandleConnectionFailedStep, HandleHeartbeatFailedStep,
   HandleShellClosedStep, HandleCleanupCompletedStep DEF HandleMessage

LEMMA NextIInv == IInv /\ [Next]_vars => IInv'
<1> SUFFICES ASSUME IInv, [Next]_vars PROVE IInv'
  OBVIOUS
<1>1. CASE Next
  BY <1>1, OpenStep, TaskStep, WorkerStep, HeartbeatFailsStep,
     HandleMessageStep, SendRequestStep, HandleRequestStep,
     FinishLoginAutomationStep, BeginShutdownStep, ShutdownDeadlineStep DEF Next
<1>2. CASE UNCHANGED vars
  <2>1. /\ UNCHANGED <<record, connectTask, tasks, reply, aborted, workers,
                       mailbox, requests, pinned, waiter>>
    BY <1>2 DEF vars
  <2>2. requests' \subseteq [op : Ops, fresh : BOOLEAN] /\ RequestsSeen'
        /\ (gen = 0 => requests' = {}) /\ waiter' \in BOOLEAN
    BY <2>1 DEF IInv, Typed, NotYet, RequestsSeen, record
  <2> QED BY <2>1, <2>2, QuietStep
<1> QED BY <1>1, <1>2

(* Every reachable state satisfies the inductive invariant. *)
THEOREM Inductive == Spec => []IInv
<1>1. Init => IInv
  BY InitIInv
<1>2. IInv /\ [Next]_vars => IInv'
  BY NextIInv
<1> QED BY <1>1, <1>2, PTL DEF Spec

-----------------------------------------------------------------------------
(* What it shows. *)

(* Every variable keeps its type; a generation beyond the bound is never    *)
(* started, although the bound is only tested when a request is sent.       *)
THEOREM TypeCorrect == Spec => []TypeOK
<1>1. IInv => TypeOK
  <2> SUFFICES ASSUME IInv PROVE TypeOK
    OBVIOUS
  <2>1. \A i \in DOMAIN mailbox :
          mailbox[i].type \in MessageTypes /\ mailbox[i].gen \in Gens
    <3>1. DOMAIN mailbox = Slots
      BY DEF IInv, Typed, Slots
    <3> QED BY <3>1, MailTyped DEF IInv, Mail
  <2>2. {shared, shell, stop, live, challenge, kbd, waiter} \subseteq BOOLEAN
    BY DEF IInv, Typed
  <2> QED BY <2>1, <2>2 DEF IInv, Typed, TypeOK
<1> QED BY <1>1, Inductive, PTL

(* No shell is left running unattended, whatever order its task, its worker *)
(* and the requests of clients are handled in.                              *)
THEOREM NoOrphanedShellHolds == Spec => []NoOrphanedShell
<1>1. IInv => NoOrphanedShell
  BY DEF IInv
<1> QED BY <1>1, Inductive, PTL

(* A session with a shell handle or an unaborted connect task of its         *)
(* current generation blocks the exit.                                       *)
THEOREM WorkBlocksExitHolds == Spec => []WorkBlocksExit
<1>1. IInv => WorkBlocksExit
  BY DEF IInv
<1> QED BY <1>1, Inductive, PTL

(* A connect task authenticates only to a host whose key is trusted, of      *)
(* however many hops the route is made.                                      *)
THEOREM HostVerifiedHolds == Spec => []HostVerified
<1>1. IInv => HostVerified
  BY DEF IInv, Keys
<1> QED BY <1>1, Inductive, PTL

(* A keyboard-interactive prompt in the record belongs to a session that     *)
(* authenticates, and to a task that waits or whose failure is on the way.   *)
THEOREM PromptIsCurrentHolds == Spec => []PromptIsCurrent
<1>1. IInv => PromptIsCurrent
  <2> SUFFICES ASSUME IInv, kbd PROVE PromptIsCurrent
    BY DEF PromptIsCurrent
  <2>1. CASE cpc[gen] = "answer"
    BY <2>1 DEF IInv, Prompts, PromptIsCurrent
  <2>2. CASE Message("ConnectionFailed", gen) \in Mail
    <3>1. PICK i \in Slots : mailbox[i] = Message("ConnectionFailed", gen)
      BY <2>2 DEF Mail
    <3>2. DOMAIN mailbox = Slots
      BY DEF IInv, Typed, Slots
    <3>3. InMailbox("ConnectionFailed", gen)
      BY <3>1, <3>2 DEF InMailbox, Message
    <3> QED BY <3>3 DEF IInv, Prompts, PromptIsCurrent
  <2> QED BY <2>1, <2>2 DEF IInv, Prompts
<1> QED BY <1>1, Inductive, PTL

-----------------------------------------------------------------------------
(* Stale messages and requests. *)

LEMMA AppendGrows ==
    ASSUME NEW s \in Seq(Messages), NEW m \in Messages
    PROVE  Len(Append(s, m)) = Len(s) + 1
OBVIOUS

(* Only a handler takes a message out of the mailbox. *)
LEMMA OnlyHandlersTake ==
    ASSUME IInv, Next, mailbox # <<>>, mailbox' = Tail(mailbox)
    PROVE  HandleMessage
<1>1. mailbox \in Seq(Messages) /\ Len(mailbox) > 0
      /\ Len(mailbox') = Len(mailbox) - 1 /\ Len(mailbox) \in Nat
  BY DEF IInv, Typed
<1>2. mailbox' # mailbox
  <2> SUFFICES ASSUME mailbox' = mailbox PROVE FALSE
    OBVIOUS
  <2>1. Len(mailbox') = Len(mailbox)
    OBVIOUS
  <2>2. \A n \in Nat : n # n - 1
    OBVIOUS
  <2> QED BY <1>1, <2>1, <2>2
<1>3. \A m \in Messages : ~Post(m)
  <2> SUFFICES ASSUME NEW m \in Messages, mailbox' = Append(mailbox, m)
               PROVE  FALSE
    BY DEF Post
  <2>1. Len(mailbox') = Len(mailbox) + 1
    BY <1>1, AppendGrows
  <2>2. \A n \in Nat : n + 1 # n - 1
    OBVIOUS
  <2> QED BY <1>1, <2>1, <2>2
<1>4. ASSUME NEW g \in Gens, TaskProgress(g) \/ ConnectFails(g)
      PROVE  \/ mailbox' = mailbox
             \/ \E m \in Messages : Post(m)
  <2>1. /\ \A t \in MessageTypes \ {"HostKeyObserved"} : Message(t, g) \in Messages
        /\ [type |-> "HostKeyObserved", gen |-> g, hop |-> hop[g]] \in Messages
    BY PlainMessage DEF IInv, Typed, Messages
  <2> QED BY <1>4, <2>1
             DEF TaskProgress, Dial, VerifyHostKey, Authenticate,
                 HostKeyRefused, AskKeyboardInteractive, KeyboardAnswered,
                 OpenChannel, HandOverShell, AbortTakesEffect, ConnectFails,
                 MessageTypes
<1>5. ASSUME NEW g \in Gens, WorkerStops(g) \/ WorkerErrors(g)
                               \/ RemoteExits(g) \/ WorkerEnds(g)
      PROVE  \/ mailbox' = mailbox
             \/ \E m \in Messages : Post(m)
  <2>1. \A t \in MessageTypes \ {"HostKeyObserved"} : Message(t, g) \in Messages
    BY PlainMessage
  <2> QED BY <1>5, <2>1
             DEF WorkerStops, WorkerErrors, RemoteExits, WorkerEnds, MessageTypes
<1>6. ASSUME HeartbeatFails PROVE \E m \in Messages : Post(m)
  <2>1. gen \in Gens
    BY <1>6 DEF HeartbeatFails, IInv, Typed, NotYet, Up
  <2>2. Message("TransportHeartbeatFailed", gen) \in Messages
    BY <2>1, PlainMessage DEF MessageTypes
  <2> QED BY <1>6, <2>2 DEF HeartbeatFails
<1>7. ASSUME NEW r \in requests, HandleRequest(r) PROVE mailbox' = mailbox
  BY <1>7 DEF HandleRequest, Disconnect, Detach, Reconnect, HostKeyDecide,
              KeyboardRespond, Refuse, RequestFrame
<1>8. (\E isShared \in BOOLEAN : Open(isShared)) => mailbox' = mailbox
  BY DEF Open
<1>9. (\E op \in Ops : SendRequest(op)) \/ FinishLoginAutomation
        \/ BeginShutdown \/ ShutdownDeadline => mailbox' = mailbox
  BY DEF SendRequest, FinishLoginAutomation, BeginShutdown, ShutdownDeadline
<1> QED BY <1>2, <1>3, <1>4, <1>5, <1>6, <1>7, <1>8, <1>9 DEF Next

(* What an earlier generation sent changes nothing of the record. *)
LEMMA StaleMessage ==
    ASSUME IInv, HandleMessage, Sender # gen
    PROVE  UNCHANGED record
<1>1. ASSUME NEW s \in {"Connecting", "Authenticating", "OpeningChannel"},
             HandleState(s)
      PROVE  UNCHANGED record
  BY <1>1 DEF HandleState, ConnectionActive, NotStopped, HandlerFrame, record
<1>2. HandleHostKey => UNCHANGED record
  BY DEF HandleHostKey, ConnectionActive, NotStopped, HandlerFrame, record
<1>3. HandleKeyboardInteractive => UNCHANGED record
  BY DEF HandleKeyboardInteractive, NotStopped, HandlerFrame, record
<1>4. HandleShellReady => UNCHANGED record
  BY DEF HandleShellReady, Adopts, HandlerFrame, record
<1>5. HandleConnectionFailed => UNCHANGED record
  BY DEF HandleConnectionFailed, ConnectionActive
<1>6. HandleHeartbeatFailed => UNCHANGED record
  BY DEF HandleHeartbeatFailed, HandlerFrame, record
<1>7. HandleShellClosed => UNCHANGED record
  BY DEF HandleShellClosed, HandlerFrame, record
<1>8. HandleCleanupCompleted => UNCHANGED record
  BY DEF HandleCleanupCompleted, HandlerFrame, record
<1> QED BY <1>1, <1>2, <1>3, <1>4, <1>5, <1>6, <1>7, <1>8 DEF HandleMessage

(* Revising does not touch a request that is stale already. *)
LEMMA StaleStays ==
    ASSUME Typed, NEW inFlight, inFlight \subseteq requests, Revise(inFlight),
           NEW r \in inFlight, ~r.fresh
    PROVE  r \in requests'
<1>1. r \in [op : Ops, fresh : BOOLEAN]
  BY DEF Typed
<1>2. r = [r EXCEPT !.fresh = @ /\ ~Outdated(r)]
  BY <1>1
<1> QED BY <1>2 DEF Revise

(* A request against an older revision is refused. *)
LEMMA StaleRequest ==
    ASSUME IInv, NEW r \in requests, ~r.fresh, HandleRequest(r)
    PROVE  UNCHANGED record
<1>1. Refuse(r)
  BY DEF HandleRequest, Disconnect, Detach, Reconnect, HostKeyDecide,
         KeyboardRespond, Current
<1> QED BY <1>1 DEF Refuse

(* A stale request leaves only by being handled. *)
LEMMA OnlyHandledLeave ==
    ASSUME IInv, Next, NEW r \in requests, r \notin requests', ~r.fresh
    PROVE  HandleRequest(r)
<1>1. ~(requests \subseteq requests')
  OBVIOUS
<1>2. ~Revise(requests)
  BY StaleStays DEF IInv
<1>3. ASSUME NEW q \in requests, HandleRequest(q)
      PROVE  q = r
  <2>1. Take(q)
    BY <1>3 DEF HandleRequest, Disconnect, Detach, Reconnect, HostKeyDecide,
                KeyboardRespond, Refuse
  <2> SUFFICES ASSUME q # r PROVE FALSE
    OBVIOUS
  <2>2. r \in requests \ {q}
    OBVIOUS
  <2>3. Revise(requests \ {q}) /\ requests \ {q} \subseteq requests
    BY <2>1 DEF Take
  <2> QED BY <2>2, <2>3, StaleStays DEF IInv
<1>4. ASSUME NEW g \in Gens, TaskProgress(g) \/ ConnectFails(g)
      PROVE  requests' = requests
  BY <1>4 DEF TaskProgress, Dial, VerifyHostKey, Authenticate,
              HostKeyRefused, AskKeyboardInteractive, KeyboardAnswered,
              OpenChannel, HandOverShell, AbortTakesEffect, ConnectFails,
              GoesOn, Returns, TaskFrame
<1>5. ASSUME NEW g \in Gens, WorkerStops(g) \/ WorkerErrors(g)
                               \/ RemoteExits(g) \/ WorkerEnds(g)
      PROVE  requests' = requests
  BY <1>5 DEF WorkerStops, WorkerErrors, RemoteExits, WorkerEnds, WorkerFrame
<1>6. HandleMessage => Revise(requests)
  BY DEF HandleMessage, HandleState, HandleHostKey, HandleKeyboardInteractive,
         HandleShellReady, HandleConnectionFailed, HandleHeartbeatFailed,
         HandleShellClosed, HandleCleanupCompleted, HandlerFrame
<1>7. HeartbeatFails \/ ShutdownDeadline => requests' = requests
  BY DEF HeartbeatFails, WorkerFrame, ShutdownDeadline
<1>8. (\E isShared \in BOOLEAN : Open(isShared)) => requests' = requests
  BY DEF Open
<1>9. (\E op \in Ops : SendRequest(op)) => requests \subseteq requests'
  BY DEF SendRequest
<1>10. FinishLoginAutomation \/ BeginShutdown => Revise(requests)
  BY DEF FinishLoginAutomation, BeginShutdown
<1> QED BY <1>1, <1>2, <1>3, <1>4, <1>5, <1>6, <1>7, <1>8, <1>9, <1>10 DEF Next

(* Messages of earlier generations and requests against older revisions      *)
(* leave the record as it is.                                                *)
THEOREM StaleIsInertHolds == Spec => StaleIsInert
<1>1. IInv /\ [Next]_vars =>
        [/\ (mailbox # <<>> /\ mailbox' = Tail(mailbox) /\ Head(mailbox).gen # gen)
              => UNCHANGED record
         /\ \A r \in requests \ requests' : ~r.fresh => UNCHANGED record]_vars
  <2> SUFFICES ASSUME IInv, Next
               PROVE  /\ (mailbox # <<>> /\ mailbox' = Tail(mailbox)
                            /\ Head(mailbox).gen # gen) => UNCHANGED record
                      /\ \A r \in requests \ requests' :
                            ~r.fresh => UNCHANGED record
    OBVIOUS
  <2>1. ASSUME mailbox # <<>>, mailbox' = Tail(mailbox), Head(mailbox).gen # gen
        PROVE  UNCHANGED record
    BY <2>1, OnlyHandlersTake, StaleMessage DEF Sender
  <2>2. ASSUME NEW r \in requests \ requests', ~r.fresh
        PROVE  UNCHANGED record
    BY <2>2, OnlyHandledLeave, StaleRequest
  <2> QED BY <2>1, <2>2
<1> QED BY <1>1, Inductive, PTL DEF Spec, StaleIsInert

=============================================================================
