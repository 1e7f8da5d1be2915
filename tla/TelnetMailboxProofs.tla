-------------------------- MODULE TelnetMailboxProofs --------------------------
(* Proofs about who waits for whom in TelnetMailbox, for any sessions, clients    *)
(* and capacities.                                                                *)
EXTENDS TelnetMailbox, FiniteSetTheorems, SequenceTheorems, TLAPS

(* What the actor serves while it waits. *)
Served ==
    /\ actor.pc = "recv" => actor = Receiving
    /\ actor.pc = "ack" => /\ actor.session \in Sessions /\ actor.client \in Clients
                           /\ client[actor.client] = "Input"
    /\ actor.pc = "shutdown" => /\ actor.session = None /\ actor.client \in Clients
                                /\ client[actor.client] = "ShutdownAll"

(* A request in the line is the one its client waits for, and the only one. *)
Requested ==
    \A i \in DOMAIN Line : Line[i].from \in Clients =>
        client[Line[i].from] = Line[i].kind /\ actor.client # Line[i].from
Single ==
    \A i, j \in DOMAIN Line :
        Line[i].from = Line[j].from /\ Line[i].from \in Clients => i = j

(* A client that waits is in the line or is being served. *)
InHand ==
    \A c \in Clients : client[c] # "idle" =>
        actor.client = c \/ \E i \in DOMAIN Line : Line[i].from = c

(* The broker's lock is held by the one client with an Input. *)
Locked == \A c \in Clients : broker = c <=> client[c] = "Input"

(* Senders wait only for a full mailbox. *)
Full == senders # <<>> => Len(mail) = MailCap

(* An Input that a running owner has yet to take is the one the actor waits for,  *)
(* so an answer can only be that of the current request.                          *)
Inputs(s) == {i \in DOMAIN commands[s] : commands[s][i] = "Input"}
InputAwaited ==
    \A s \in Sessions : owner[s] = "run" => \A i \in Inputs(s) :
        /\ actor.pc = "ack" /\ actor.session = s /\ ack = "none"
        /\ \A j \in Inputs(s) : i = j
AckFresh == ack # "none" => actor.pc = "ack"

Owed ==
    actor.pc = "ack" =>
        ack # "none" \/ owner[actor.session] = "ending" \/ Inputs(actor.session) # {}

(* The parts about the clients and about the owners. *)
ClientInv == Served /\ Requested /\ Single /\ InHand /\ Locked
OwnerInv == InputAwaited /\ AckFresh /\ Owed

IInv == TypeOK /\ Full /\ ClientInv /\ OwnerInv

--------------------------------------------------------------------------------
(* The line. *)

LEMMA LineIs ==
    ASSUME TypeOK
    PROVE  /\ Line \in Seq(Messages) /\ Len(mail) \in Nat /\ Len(senders) \in Nat
           /\ Len(Line) = Len(mail) + Len(senders)
           /\ DOMAIN Line = 1..(Len(mail) + Len(senders))
           /\ \A i \in DOMAIN Line :
                Line[i] = IF i <= Len(mail) THEN mail[i] ELSE senders[i - Len(mail)]
  BY ConcatProperties DEF TypeOK, Line

LEMMA LineIsNext ==
    ASSUME TypeOK'
    PROVE  /\ Line' \in Seq(Messages) /\ Len(mail') \in Nat /\ Len(senders') \in Nat
           /\ Len(Line') = Len(mail') + Len(senders')
           /\ DOMAIN Line' = 1..(Len(mail') + Len(senders'))
           /\ \A i \in DOMAIN Line' :
                Line'[i] = IF i <= Len(mail') THEN mail'[i] ELSE senders'[i - Len(mail')]
  BY ConcatProperties DEF TypeOK, Line

(* The types of the two queues. *)
LineTyped ==
    /\ mail \in Seq(Messages) /\ Len(mail) <= MailCap
    /\ senders \in Seq(Messages)

(* A message that is sent joins the line at its end. *)
LEMMA Joins ==
    ASSUME TypeOK, Full, NEW m \in Messages, Send(m)
    PROVE  /\ LineTyped' /\ Full'
           /\ Line' = Append(Line, m)
  <1> USE TelnetMailboxAssumption DEF TypeOK, Send, Line
  <1>1. CASE senders = <<>> /\ Len(mail) < MailCap
    <2>1. mail' = Append(mail, m) /\ senders' = <<>>
      BY <1>1
    <2>2. LineTyped' /\ Full'
      <3>1. mail' \in Seq(Messages) /\ Len(mail') = Len(mail) + 1 /\ Len(mail) \in Nat
        BY <2>1, AppendProperties
      <3> QED
        BY <1>1, <2>1, <3>1 DEF LineTyped, Full
    <2>3. Line' = Append(mail, m) /\ Line = mail
      BY <1>1, <2>1, ConcatEmptySeq, AppendProperties
    <2> QED
      BY <2>2, <2>3
  <1>2. CASE ~(senders = <<>> /\ Len(mail) < MailCap)
    <2>1. senders' = Append(senders, m) /\ mail' = mail /\ Len(mail) = MailCap
      BY <1>2 DEF Full
    <2>2. LineTyped' /\ Full'
      BY <2>1 DEF LineTyped, Full
    <2>3. Line' = Append(Line, m)
      BY <2>1, ConcatProperties, AppendProperties
    <2> QED
      BY <2>2, <2>3
  <1> QED
    BY <1>1, <1>2


(* The head of the mailbox is the head of the line. *)
LEMMA HeadOfLine ==
    ASSUME TypeOK, mail # <<>>
    PROVE  /\ Head(mail) = Line[1] /\ Head(mail) \in Messages
           /\ 1 \in DOMAIN Line
  <1>1. mail \in Seq(Messages) /\ senders \in Seq(Messages)
    BY DEF TypeOK
  <1>2. Len(mail) \in Nat /\ Len(mail) >= 1 /\ Head(mail) = mail[1] /\ Head(mail) \in Messages
    BY <1>1
  <1> QED
    BY <1>2, LineIs

(* A request comes from a client, a report from a session. *)
LEMMA Senders ==
    ASSUME NEW m \in Messages
    PROVE  /\ m.kind \in Requests <=> m.from \in Clients
           /\ m.session \in Sessions
           /\ m.kind # "idle"
  BY TelnetMailboxAssumption DEF Messages, Requests

(* w is v without the places in gone and without some reports of owners. *)
Part(w, v, gone) ==
    \E f \in [DOMAIN w -> DOMAIN v] :
        /\ \A n \in DOMAIN w : w[n] = v[f[n]] /\ f[n] \notin gone
        /\ \A n, k \in DOMAIN w : f[n] = f[k] => n = k
        /\ \A i \in DOMAIN v \ gone : v[i].from \in Clients => \E n \in DOMAIN w : f[n] = i

LEMMA PartOfItself ==
    ASSUME NEW w \in Seq(Messages)
    PROVE  Part(w, w, {})
  <1> DEFINE f == [n \in DOMAIN w |-> n]
  <1>1. f \in [DOMAIN w -> DOMAIN w] /\ \A n \in DOMAIN w : f[n] = n
    OBVIOUS
  <1> HIDE DEF f
  <1> QED
    BY <1>1 DEF Part

LEMMA ConcatIs ==
    ASSUME NEW v \in Seq(Messages), NEW w \in Seq(Messages)
    PROVE  /\ DOMAIN (v \o w) = 1..(Len(v) + Len(w))
           /\ \A n \in 1..(Len(v) + Len(w)) :
                (v \o w)[n] = IF n <= Len(v) THEN v[n] ELSE w[n - Len(v)]
  BY ConcatProperties

(* The line after its front v became u and its rest w became a. *)
LEMMA PartConcat ==
    ASSUME NEW v \in Seq(Messages), NEW u \in Seq(Messages),
           NEW w \in Seq(Messages), NEW a \in Seq(Messages),
           NEW d \in Nat, Len(v) = Len(u) + d, \A n \in 1..Len(u) : u[n] = v[n + d],
           Part(a, w, {})
    PROVE  Part(u \o a, v \o w, 1..d)
  <1>0. Len(u) \in Nat /\ Len(v) \in Nat /\ Len(w) \in Nat /\ Len(a) \in Nat
    OBVIOUS
  <1>1. PICK g \in [1..Len(a) -> 1..Len(w)] :
          /\ \A n \in 1..Len(a) : a[n] = w[g[n]]
          /\ \A n, k \in 1..Len(a) : g[n] = g[k] => n = k
          /\ \A i \in 1..Len(w) : w[i].from \in Clients => \E n \in 1..Len(a) : g[n] = i
    <2>1. PICK g \in [DOMAIN a -> DOMAIN w] :
            /\ \A n \in DOMAIN a : a[n] = w[g[n]] /\ g[n] \notin {}
            /\ \A n, k \in DOMAIN a : g[n] = g[k] => n = k
            /\ \A i \in DOMAIN w \ {} : w[i].from \in Clients => \E n \in DOMAIN a : g[n] = i
      BY Zenon DEF Part
    <2>2. DOMAIN a = 1..Len(a) /\ DOMAIN w = 1..Len(w)
      OBVIOUS
    <2>3. g \in [1..Len(a) -> 1..Len(w)]
      BY <2>1, <2>2
    <2>4. /\ \A n \in 1..Len(a) : a[n] = w[g[n]]
          /\ \A n, k \in 1..Len(a) : g[n] = g[k] => n = k
      BY <2>1, <2>2
    <2>5. \A i \in 1..Len(w) : w[i].from \in Clients => \E n \in 1..Len(a) : g[n] = i
      BY <2>1, <2>2
    <2> QED
      BY <2>3, <2>4, <2>5, Zenon
  <1>2. /\ DOMAIN (u \o a) = 1..(Len(u) + Len(a))
        /\ \A n \in 1..(Len(u) + Len(a)) :
             (u \o a)[n] = IF n <= Len(u) THEN u[n] ELSE a[n - Len(u)]
    BY ConcatIs
  <1>3. /\ DOMAIN (v \o w) = 1..(Len(v) + Len(w))
        /\ \A n \in 1..(Len(v) + Len(w)) :
             (v \o w)[n] = IF n <= Len(v) THEN v[n] ELSE w[n - Len(v)]
    BY ConcatIs
  <1> DEFINE f == [n \in 1..(Len(u) + Len(a)) |->
                     IF n <= Len(u) THEN n + d ELSE Len(v) + g[n - Len(u)]]
  <1>4. /\ \A n \in 1..Len(u) : f[n] = n + d
        /\ \A n \in 1..Len(a) : f[Len(u) + n] = Len(v) + g[n]
    BY <1>0
  <1>5. \A n \in 1..(Len(u) + Len(a)) :
          n \in 1..Len(u) \/ \E k \in 1..Len(a) : n = Len(u) + k
    <2> SUFFICES ASSUME NEW n \in 1..(Len(u) + Len(a)), n \notin 1..Len(u)
                 PROVE  \E k \in 1..Len(a) : n = Len(u) + k
      OBVIOUS
    <2>1. n - Len(u) \in 1..Len(a) /\ n = Len(u) + (n - Len(u))
      BY <1>0
    <2> QED
      BY <2>1
  <1>6. \A n \in 1..Len(a) : g[n] \in 1..Len(w)
    BY <1>1
  <1>7. \A n \in 1..Len(u) :
          /\ f[n] \in 1..(Len(v) + Len(w)) /\ f[n] \notin 1..d /\ f[n] <= Len(v)
          /\ (u \o a)[n] = (v \o w)[f[n]]
    <2> SUFFICES ASSUME NEW n \in 1..Len(u)
                 PROVE  /\ n + d \in 1..(Len(v) + Len(w)) /\ n + d \notin 1..d
                        /\ n + d <= Len(v)
                        /\ (u \o a)[n] = (v \o w)[n + d]
      BY <1>4
    <2>1. n + d \in 1..(Len(v) + Len(w)) /\ n + d \notin 1..d /\ n + d <= Len(v)
      BY <1>0
    <2>2. n \in 1..(Len(u) + Len(a)) /\ n <= Len(u)
      BY <1>0
    <2>3. (u \o a)[n] = u[n] /\ (v \o w)[n + d] = v[n + d]
      BY <1>2, <1>3, <2>1, <2>2
    <2> QED
      BY <2>1, <2>3
  <1>8. \A n \in 1..Len(a) :
          /\ f[Len(u) + n] \in 1..(Len(v) + Len(w)) /\ f[Len(u) + n] \notin 1..d
          /\ f[Len(u) + n] > Len(v)
          /\ (u \o a)[Len(u) + n] = (v \o w)[f[Len(u) + n]]
    <2> SUFFICES ASSUME NEW n \in 1..Len(a)
                 PROVE  /\ Len(v) + g[n] \in 1..(Len(v) + Len(w)) /\ Len(v) + g[n] \notin 1..d
                        /\ Len(v) + g[n] > Len(v)
                        /\ (u \o a)[Len(u) + n] = (v \o w)[Len(v) + g[n]]
      BY <1>4
    <2>1. g[n] \in 1..Len(w) /\ a[n] = w[g[n]]
      BY <1>1, <1>6
    <2>2. /\ Len(v) + g[n] \in 1..(Len(v) + Len(w)) /\ Len(v) + g[n] \notin 1..d
          /\ Len(v) + g[n] > Len(v) /\ Len(v) + g[n] - Len(v) = g[n]
      BY <1>0, <2>1
    <2>3. Len(u) + n \in 1..(Len(u) + Len(a)) /\ ~(Len(u) + n <= Len(u)) /\ Len(u) + n - Len(u) = n
      BY <1>0
    <2>4. (u \o a)[Len(u) + n] = a[n]
      BY <1>2, <2>3
    <2>5. (v \o w)[Len(v) + g[n]] = w[g[n]]
      <3> DEFINE x == Len(v) + g[n]
      <3>1. x \in 1..(Len(v) + Len(w)) /\ ~(x <= Len(v)) /\ x - Len(v) = g[n]
        BY <1>0, <2>1
      <3> HIDE DEF x
      <3>2. (v \o w)[x] = w[g[n]]
        BY <1>3, <3>1
      <3> QED
        BY <3>2 DEF x
    <2> QED
      BY <2>1, <2>2, <2>4, <2>5
  <1>9. f \in [1..(Len(u) + Len(a)) -> 1..(Len(v) + Len(w))]
    <2>1. \A n \in 1..(Len(u) + Len(a)) : f[n] \in 1..(Len(v) + Len(w))
      <3> HIDE DEF f
      <3> QED
        BY <1>5, <1>7, <1>8
    <2> QED
      BY <2>1
  <1>10. ASSUME NEW n \in 1..(Len(u) + Len(a)), NEW k \in 1..(Len(u) + Len(a)), f[n] = f[k]
         PROVE  n = k
    <2> HIDE DEF f
    <2>1. CASE n \in 1..Len(u) /\ k \in 1..Len(u)
      <3>1. n + d = k + d
        BY <1>4, <1>10, <2>1
      <3> QED
        BY <2>1, <3>1
    <2>2. CASE n \in 1..Len(u) /\ k \notin 1..Len(u)
      BY <1>0, <1>5, <1>7, <1>8, <1>9, <1>10, <2>2
    <2>3. CASE n \notin 1..Len(u) /\ k \in 1..Len(u)
      BY <1>0, <1>5, <1>7, <1>8, <1>9, <1>10, <2>3
    <2>4. CASE n \notin 1..Len(u) /\ k \notin 1..Len(u)
      <3>1. PICK x \in 1..Len(a) : n = Len(u) + x
        BY <1>5, <2>4
      <3>2. PICK y \in 1..Len(a) : k = Len(u) + y
        BY <1>5, <2>4
      <3>3. Len(v) + g[x] = Len(v) + g[y] /\ g[x] \in Nat /\ g[y] \in Nat
        BY <1>4, <1>6, <1>10, <3>1, <3>2
      <3>4. g[x] = g[y]
        BY <1>0, <3>3
      <3> QED
        BY <1>1, <3>1, <3>2, <3>4
    <2> QED
      BY <2>1, <2>2, <2>3, <2>4
  <1>11. ASSUME NEW i \in (1..(Len(v) + Len(w))) \ (1..d), (v \o w)[i].from \in Clients
         PROVE  \E n \in 1..(Len(u) + Len(a)) : f[n] = i
    <2>1. CASE i <= Len(v)
      <3>1. i - d \in 1..Len(u) /\ (i - d) + d = i /\ i - d \in 1..(Len(u) + Len(a))
        BY <1>0, <2>1
      <3>2. f[i - d] = i
        <4> HIDE DEF f
        <4> QED
          BY <1>4, <3>1
      <3> QED
        BY <3>1, <3>2
    <2>2. CASE ~(i <= Len(v))
      <3>1. i - Len(v) \in 1..Len(w) /\ Len(v) + (i - Len(v)) = i
        BY <1>0, <2>2
      <3>2. (v \o w)[i] = w[i - Len(v)]
        BY <1>3, <2>2
      <3>3. PICK n \in 1..Len(a) : g[n] = i - Len(v)
        BY <1>1, <1>11, <3>1, <3>2
      <3>4. Len(u) + n \in 1..(Len(u) + Len(a)) /\ f[Len(u) + n] = i
        <4> HIDE DEF f
        <4> QED
          BY <1>0, <1>4, <3>1, <3>3
      <3> QED
        BY <3>4
    <2> QED
      BY <2>1, <2>2
  <1>12. \A n \in 1..(Len(u) + Len(a)) : (u \o a)[n] = (v \o w)[f[n]] /\ f[n] \notin 1..d
    <2> HIDE DEF f
    <2> QED
      BY <1>5, <1>7, <1>8
  <1> HIDE DEF f
  <1> QED
    <2>1. f \in [DOMAIN (u \o a) -> DOMAIN (v \o w)]
      BY <1>2, <1>3, <1>9
    <2>2. \A n \in DOMAIN (u \o a) : (u \o a)[n] = (v \o w)[f[n]] /\ f[n] \notin 1..d
      BY <1>2, <1>12
    <2>3. \A n, k \in DOMAIN (u \o a) : f[n] = f[k] => n = k
      BY <1>2, <1>10
    <2>4. \A i \in DOMAIN (v \o w) \ (1..d) :
            (v \o w)[i].from \in Clients => \E n \in DOMAIN (u \o a) : f[n] = i
      BY <1>2, <1>3, <1>11
    <2> QED
      BY <2>1, <2>2, <2>3, <2>4, Zenon DEF Part

(* The rank of a place among the kept ones numbers them without a gap. *)
LEMMA RankIsOnto ==
    ASSUME NEW n \in Nat, NEW K \in SUBSET (1..n)
    PROVE  LET rank == [i \in K |-> Cardinality({j \in K : j <= i})]
           IN  /\ Cardinality(K) \in Nat
               /\ rank \in [K -> 1..Cardinality(K)]
               /\ \A i, k \in K : rank[i] = rank[k] => i = k
               /\ \A m \in 1..Cardinality(K) : \E i \in K : rank[i] = m
  <1> DEFINE below(i) == {j \in K : j <= i}
           rank == [i \in K |-> Cardinality(below(i))]
  <1>1. IsFiniteSet(K) /\ Cardinality(K) \in Nat
  BY FS_Interval, FS_Subset, FS_CardinalityType, 1 \in Int, n \in Int
  <1>2. ASSUME NEW i \in K
      PROVE  /\ IsFiniteSet(below(i)) /\ Cardinality(below(i)) \in Nat
             /\ Cardinality(below(i)) <= Cardinality(K)
             /\ Cardinality(below(i)) >= 1
    <2>1. below(i) \in SUBSET K /\ i \in below(i)
    OBVIOUS
    <2>2. IsFiniteSet(below(i)) /\ Cardinality(below(i)) <= Cardinality(K)
    BY <1>1, <2>1, FS_Subset
    <2>3. Cardinality(below(i)) \in Nat /\ Cardinality(below(i)) # 0
    BY <2>1, <2>2, FS_CardinalityType, FS_EmptySet
    <2> QED BY <2>2, <2>3
  <1>3. rank \in [K -> 1..Cardinality(K)]
    <2> HIDE DEF below
    <2> QED BY <1>1, <1>2
  <1>4. ASSUME NEW i \in K, NEW k \in K, i < k PROVE rank[i] # rank[k]
    <2>1. below(i) \in SUBSET below(k) /\ k \in below(k) /\ k \notin below(i)
      <3>1. i \in Int /\ k \in Int /\ \A j \in K : j \in Int
      OBVIOUS
      <3>2. \A j \in K : j <= i => j <= k
      BY <1>4, <3>1
      <3>3. k <= k /\ ~(k <= i)
      BY <1>4, <3>1
      <3> QED BY <3>2, <3>3
    <2>2. Cardinality(below(i)) # Cardinality(below(k))
      <3>1. IsFiniteSet(below(k))
      BY <1>2
      <3>2. below(i) # below(k)
      BY <2>1
      <3> HIDE DEF below
      <3> QED BY <2>1, <3>1, <3>2, FS_Subset
    <2> QED BY <2>2
  <1>5. \A i, k \in K : rank[i] = rank[k] => i = k
    <2> SUFFICES ASSUME NEW i \in K, NEW k \in K, i # k PROVE rank[i] # rank[k]
    OBVIOUS
    <2>1. i < k \/ k < i
    OBVIOUS
    <2> HIDE DEF rank
    <2> QED BY <1>4, <2>1
  <1> HIDE DEF rank
  <1>6. rank \in Injection(K, 1..Cardinality(K))
  BY <1>3, <1>5 DEF Injection, IsInjective
  <1>7. IsFiniteSet(1..Cardinality(K)) /\ Cardinality(1..Cardinality(K)) = Cardinality(K)
  BY <1>1, FS_Interval, 1 \in Int
  <1>8. rank \in Surjection(K, 1..Cardinality(K))
  BY <1>6, <1>7, FS_Injection
  <1>9. \A m \in 1..Cardinality(K) : \E i \in K : rank[i] = m
  BY <1>8 DEF Surjection
  <1> QED BY <1>1, <1>3, <1>5, <1>9 DEF rank, below

(* Aborting owners loses no message of anybody else. *)
LEMMA AbortKeeps ==
    ASSUME NEW w \in Seq(Messages), NEW S \in SUBSET Sessions
    PROVE  AbortOwners(S, w) \in Seq(Messages) /\ Part(AbortOwners(S, w), w, {})
  <1> DEFINE K == {i \in DOMAIN w : w[i].from \notin S}
             rank == [i \in K |-> Cardinality({j \in K : j <= i})]
             nth(n) == CHOOSE i \in K : Cardinality({j \in K : j <= i}) = n
             f == [n \in 1..Cardinality(K) |-> nth(n)]
             q == [n \in 1..Cardinality(K) |-> w[nth(n)]]
  <1>1. K \in SUBSET (1..Len(w)) /\ Len(w) \in Nat /\ DOMAIN w = 1..Len(w)
    OBVIOUS
  <1>2. /\ Cardinality(K) \in Nat
        /\ rank \in [K -> 1..Cardinality(K)]
        /\ \A i, k \in K : rank[i] = rank[k] => i = k
        /\ \A m \in 1..Cardinality(K) : \E i \in K : rank[i] = m
    <2> HIDE DEF K
    <2> QED
      BY <1>1, RankIsOnto
  <1>3. \A n \in 1..Cardinality(K) : nth(n) \in K /\ rank[nth(n)] = n
    <2> SUFFICES ASSUME NEW n \in 1..Cardinality(K)
                 PROVE  nth(n) \in K /\ rank[nth(n)] = n
      OBVIOUS
    <2>1. PICK i \in K : rank[i] = n
      BY <1>2
    <2>2. Cardinality({j \in K : j <= i}) = n
      BY <2>1
    <2>3. nth(n) \in K /\ Cardinality({j \in K : j <= nth(n)}) = n
      <3> HIDE DEF K
      <3> QED
        BY <2>2
    <2> QED
      BY <2>3
  <1>4. \A i \in K : rank[i] \in 1..Cardinality(K) /\ nth(rank[i]) = i
    <2> SUFFICES ASSUME NEW i \in K
                 PROVE  rank[i] \in 1..Cardinality(K) /\ nth(rank[i]) = i
      OBVIOUS
    <2> HIDE DEF K, rank, nth
    <2>1. rank[i] \in 1..Cardinality(K)
      BY <1>2
    <2>2. nth(rank[i]) \in K /\ rank[nth(rank[i])] = rank[i]
      BY <1>3, <2>1
    <2> QED
      BY <1>2, <2>1, <2>2
  <1>5. AbortOwners(S, w) = q
    BY DEF AbortOwners
  <1>6. \A n \in 1..Cardinality(K) : f[n] = nth(n) /\ q[n] = w[f[n]]
    <2> HIDE DEF K, nth
    <2> QED
      OBVIOUS
  <1>7. \A n \in 1..Cardinality(K) : f[n] \in K /\ f[n] \in DOMAIN w /\ rank[f[n]] = n
    <2>1. K \in SUBSET DOMAIN w
      OBVIOUS
    <2> HIDE DEF K, nth, rank, f, q
    <2> QED
      BY <1>3, <1>6, <2>1
  <1>8. \A i \in K : rank[i] \in 1..Cardinality(K) /\ f[rank[i]] = i
    <2> HIDE DEF K, nth, rank, f, q
    <2> QED
      BY <1>4, <1>6
  <1>9. DOMAIN q = 1..Cardinality(K)
    OBVIOUS
  <1>10. f \in [1..Cardinality(K) -> DOMAIN w]
    <2> HIDE DEF K, nth, rank
    <2>1. f = [n \in 1..Cardinality(K) |-> f[n]]
      OBVIOUS
    <2> HIDE DEF f, q
    <2> QED
      BY <1>7, <2>1
  <1>11. q \in Seq(Messages)
    <2>1. q = [n \in 1..Cardinality(K) |-> q[n]]
      OBVIOUS
    <2>2. \A n \in 1..Cardinality(K) : q[n] \in Messages
      <3> HIDE DEF K, nth, rank, f, q
      <3> QED
        BY <1>6, <1>7
    <2> HIDE DEF K, nth, rank, f, q
    <2> QED
      BY <1>2, <2>1, <2>2
  <1>12. \A i \in DOMAIN w \ {} : w[i].from \in Clients => \E n \in DOMAIN q : f[n] = i
    <2> SUFFICES ASSUME NEW i \in DOMAIN w, w[i].from \in Clients
                 PROVE  \E n \in DOMAIN q : f[n] = i
      OBVIOUS
    <2>1. i \in K
      BY TelnetMailboxAssumption
    <2> HIDE DEF K, nth, rank, f, q
    <2> QED
      BY <1>8, <1>9, <2>1
  <1> HIDE DEF K, nth, rank, f, q
  <1>13. \A n, k \in DOMAIN q : f[n] = f[k] => n = k
    BY <1>7, <1>9
  <1>14. \A n \in DOMAIN q : q[n] = w[f[n]] /\ f[n] \notin {}
    BY <1>6, <1>9
  <1>15. Part(q, w, {})
    BY <1>9, <1>10, <1>12, <1>13, <1>14 DEF Part
  <1> QED
    BY <1>5, <1>11, <1>15

(* A message of w has its place in v, and a place of a client in v that is not     *)
(* gone has its message in w.                                                      *)
LEMMA PartFacts ==
    ASSUME NEW w, NEW v, NEW gone, Part(w, v, gone),
           \A i, j \in DOMAIN v : v[i].from = v[j].from /\ v[i].from \in Clients => i = j
    PROVE  /\ \A n \in DOMAIN w : \E i \in DOMAIN v \ gone : w[n] = v[i]
           /\ \A n, k \in DOMAIN w : w[n].from = w[k].from /\ w[n].from \in Clients => n = k
           /\ \A i \in DOMAIN v \ gone : v[i].from \in Clients =>
                \E n \in DOMAIN w : w[n] = v[i]
  <1>1. PICK f \in [DOMAIN w -> DOMAIN v] :
          /\ \A n \in DOMAIN w : w[n] = v[f[n]] /\ f[n] \notin gone
          /\ \A n, k \in DOMAIN w : f[n] = f[k] => n = k
          /\ \A i \in DOMAIN v \ gone : v[i].from \in Clients => \E n \in DOMAIN w : f[n] = i
    BY Zenon DEF Part
  <1>2. \A n \in DOMAIN w : f[n] \in DOMAIN v
    BY <1>1
  <1>3. \A n \in DOMAIN w : \E i \in DOMAIN v \ gone : w[n] = v[i]
    BY <1>1, <1>2
  <1>4. ASSUME NEW n \in DOMAIN w, NEW k \in DOMAIN w, w[n].from = w[k].from,
               w[n].from \in Clients
        PROVE  n = k
    <2>1. v[f[n]].from = v[f[k]].from /\ v[f[n]].from \in Clients
      BY <1>1, <1>4
    <2>2. f[n] = f[k]
      BY <1>2, <2>1
    <2> QED
      BY <1>1, <2>2
  <1>5. \A i \in DOMAIN v \ gone : v[i].from \in Clients => \E n \in DOMAIN w : w[n] = v[i]
    BY <1>1
  <1> QED
    BY <1>3, <1>4, <1>5

(* The freed place in the mailbox goes to the first that waits. *)
LEMMA Admits ==
    ASSUME NEW r \in Seq(Messages), NEW a \in Seq(Messages), a # <<>>
    PROVE  /\ Append(r, Head(a)) \in Seq(Messages) /\ Tail(a) \in Seq(Messages)
           /\ Len(Append(r, Head(a))) = Len(r) + 1
           /\ Append(r, Head(a)) \o Tail(a) = r \o a
  <1>1. /\ Head(a) = a[1] /\ Head(a) \in Messages /\ Len(a) \in Nat /\ Len(a) >= 1
        /\ Tail(a) \in Seq(Messages) /\ Len(Tail(a)) = Len(a) - 1 /\ Len(r) \in Nat
        /\ \A n \in 1..(Len(a) - 1) : Tail(a)[n] = a[n + 1]
    OBVIOUS
  <1> DEFINE p == Append(r, Head(a))
  <1>2. /\ p \in Seq(Messages) /\ Len(p) = Len(r) + 1
        /\ \A n \in 1..Len(r) : p[n] = r[n]
        /\ p[Len(r) + 1] = a[1]
    BY <1>1
  <1> HIDE DEF p
  <1>3. /\ DOMAIN (p \o Tail(a)) = 1..(Len(p) + Len(Tail(a)))
        /\ \A n \in 1..(Len(p) + Len(Tail(a))) :
             (p \o Tail(a))[n] = IF n <= Len(p) THEN p[n] ELSE Tail(a)[n - Len(p)]
    BY <1>1, <1>2, ConcatIs
  <1>4. /\ DOMAIN (r \o a) = 1..(Len(r) + Len(a))
        /\ \A n \in 1..(Len(r) + Len(a)) :
             (r \o a)[n] = IF n <= Len(r) THEN r[n] ELSE a[n - Len(r)]
    BY ConcatIs
  <1>5. Len(p) + Len(Tail(a)) = Len(r) + Len(a)
    BY <1>1, <1>2
  <1>6. ASSUME NEW n \in 1..(Len(r) + Len(a))
        PROVE  (p \o Tail(a))[n] = (r \o a)[n]
    <2>1. CASE n <= Len(r)
      BY <1>1, <1>2, <1>3, <1>4, <1>5, <2>1
    <2>2. CASE n = Len(r) + 1
      BY <1>1, <1>2, <1>3, <1>4, <1>5, <2>2
    <2>3. CASE n > Len(r) + 1
      <3>1. n - Len(p) \in 1..(Len(a) - 1) /\ (n - Len(p)) + 1 = n - Len(r)
        BY <1>1, <1>2, <2>3
      <3>2. (p \o Tail(a))[n] = Tail(a)[n - Len(p)]
        BY <1>1, <1>2, <1>3, <1>5, <2>3
      <3>3. (r \o a)[n] = a[n - Len(r)]
        BY <1>1, <1>4, <2>3
      <3> QED
        BY <1>1, <3>1, <3>2, <3>3
    <2>4. n <= Len(r) \/ n = Len(r) + 1 \/ n > Len(r) + 1
      BY <1>1
    <2> QED
      BY <2>1, <2>2, <2>3, <2>4
  <1>7. p \o Tail(a) \in Seq(Messages) /\ r \o a \in Seq(Messages)
    BY <1>1, <1>2, ConcatProperties
  <1>8. p \o Tail(a) = r \o a
    BY <1>3, <1>4, <1>5, <1>6, <1>7
  <1> QED
    BY <1>1, <1>2, <1>8 DEF p

(* The actor takes the head of the line, and only a of those that wait stay. *)
LEMMA LineMovesUp ==
    ASSUME TypeOK, Full, mail # <<>>, NEW a \in Seq(Messages), Part(a, senders, {}),
           mail' = IF a = <<>> THEN Tail(mail) ELSE Append(Tail(mail), Head(a)),
           senders' = IF a = <<>> THEN a ELSE Tail(a)
    PROVE  LineTyped' /\ Full' /\ Part(Line', Line, {1})
  <1> DEFINE r == Tail(mail)
  <1>1. /\ mail \in Seq(Messages) /\ senders \in Seq(Messages) /\ Len(mail) <= MailCap
        /\ r \in Seq(Messages) /\ Len(mail) = Len(r) + 1 /\ Len(r) \in Nat /\ MailCap \in Nat
        /\ \A n \in 1..Len(r) : r[n] = mail[n + 1]
    BY TelnetMailboxAssumption DEF TypeOK
  <1> HIDE DEF r
  <1>2. Part(r \o a, Line, {1})
    <2>1. Part(r \o a, mail \o senders, 1..1)
      BY <1>1, PartConcat, 1 \in Nat
    <2>2. 1..1 = {1}
      OBVIOUS
    <2> QED
      BY <2>1, <2>2 DEF Line
  <1>3. CASE a = <<>>
    <2>1. mail' = r /\ senders' = <<>>
      BY <1>3 DEF r
    <2>2. LineTyped'
      BY <1>1, <2>1 DEF LineTyped
    <2> QED
      BY <1>2, <1>3, <2>1, <2>2 DEF Full, Line
  <1>4. CASE a # <<>>
    <2>1. mail' = Append(r, Head(a)) /\ senders' = Tail(a)
      BY <1>4 DEF r
    <2>2. /\ Append(r, Head(a)) \in Seq(Messages) /\ Tail(a) \in Seq(Messages)
          /\ Len(Append(r, Head(a))) = Len(r) + 1
          /\ Append(r, Head(a)) \o Tail(a) = r \o a
      BY <1>1, <1>4, Admits
    <2>3. senders # <<>>
      <3>1. 1 \in DOMAIN a
        BY <1>4
      <3>2. DOMAIN senders # {}
        BY <3>1 DEF Part
      <3> QED
        BY <3>2
    <2>4. LineTyped'
      BY <1>1, <2>1, <2>2 DEF LineTyped
    <2>5. Full'
      BY <1>1, <2>1, <2>2, <2>3 DEF Full
    <2> QED
      BY <1>2, <2>1, <2>2, <2>4, <2>5 DEF Line
  <1> QED
    BY <1>3, <1>4

LEMMA Received ==
    ASSUME TypeOK, Full, mail # <<>>, Receive
    PROVE  LineTyped' /\ Full' /\ Part(Line', Line, {1})
  <1>1. senders \in Seq(Messages)
    BY DEF TypeOK
  <1>2. Part(senders, senders, {})
    BY <1>1, PartOfItself
  <1>3. /\ mail' = IF senders = <<>> THEN Tail(mail) ELSE Append(Tail(mail), Head(senders))
        /\ senders' = IF senders = <<>> THEN senders ELSE Tail(senders)
    BY DEF Receive
  <1> QED
    BY <1>1, <1>2, <1>3, LineMovesUp

LEMMA TakenForShutdown ==
    ASSUME TypeOK, Full, BeginShutdownAll
    PROVE  LineTyped' /\ Full' /\ Part(Line', Line, {1})
  <1> DEFINE cut == {s \in Sessions : state[s] # "Closed" /\ ~Accepts(s)}
             a == AbortOwners(cut, senders)
  <1>1. /\ mail # <<>>
        /\ mail' = IF a = <<>> THEN Tail(mail) ELSE Append(Tail(mail), Head(a))
        /\ senders' = IF a = <<>> THEN a ELSE Tail(a)
    BY DEF BeginShutdownAll
  <1>2. cut \in SUBSET Sessions /\ senders \in Seq(Messages)
    BY DEF TypeOK
  <1> HIDE DEF cut
  <1>3. a \in Seq(Messages) /\ Part(a, senders, {})
    BY <1>2, AbortKeeps
  <1> HIDE DEF a
  <1> QED
    BY <1>1, <1>3, LineMovesUp

LEMMA LeftAtTimeout ==
    ASSUME TypeOK, Full, ShutdownTimesOut
    PROVE  LineTyped' /\ Full' /\ Part(Line', Line, {})
  <1> DEFINE left == {s \in Sessions : state[s] # "Closed" /\ ~Ended(s)}
             a == AbortOwners(left, senders)
  <1>1. mail' = mail /\ senders' = a
    BY DEF ShutdownTimesOut
  <1>2. left \in SUBSET Sessions /\ senders \in Seq(Messages) /\ mail \in Seq(Messages)
    BY DEF TypeOK
  <1> HIDE DEF left
  <1>3. a \in Seq(Messages) /\ Part(a, senders, {})
    BY <1>2, AbortKeeps
  <1> HIDE DEF a
  <1>4. LineTyped'
    BY <1>1, <1>2, <1>3 DEF LineTyped, TypeOK
  <1>5. Full'
    <2> SUFFICES ASSUME a # <<>> PROVE Len(mail) = MailCap
      BY <1>1 DEF Full
    <2>1. 1 \in DOMAIN a
      BY <1>3
    <2>2. DOMAIN senders # {}
      BY <1>3, <2>1 DEF Part
    <2>3. senders # <<>>
      BY <2>2
    <2> QED
      BY <2>3 DEF Full
  <1>6. Part(Line', Line, {})
    <2>1. Len(mail) = Len(mail) + 0 /\ \A n \in 1..Len(mail) : mail[n] = mail[n + 0]
      BY <1>2
    <2>2. Part(mail \o a, mail \o senders, 1..0)
      BY <1>2, <1>3, <2>1, PartConcat, 0 \in Nat
    <2>3. 1..0 = {}
      OBVIOUS
    <2> QED
      BY <1>1, <2>2, <2>3 DEF Line
  <1> QED
    BY <1>4, <1>5, <1>6

--------------------------------------------------------------------------------
(* The clients. *)

(* The part of the type invariant about them. *)
ClientTyped ==
    /\ client \in [Clients -> Requests \cup {"idle"}]
    /\ broker \in Clients \cup {None}

LEMMA Answered ==
    ASSUME ClientTyped, Locked, NEW c \in Clients, Reply(c)
    PROVE  /\ ClientTyped' /\ Locked' /\ client'[c] = "idle"
           /\ \A d \in Clients \ {c} : client'[d] = client[d]
  <1>1. /\ client'[c] = "idle" /\ client' \in [Clients -> Requests \cup {"idle"}]
        /\ \A d \in Clients \ {c} : client'[d] = client[d]
    BY DEF ClientTyped, Reply
  <1>2. CASE broker = c
    <2>1. broker' = None
      BY <1>2 DEF Reply
    <2> QED
      BY <1>1, <1>2, <2>1, TelnetMailboxAssumption DEF ClientTyped, Locked
  <1>3. CASE broker # c
    <2>1. broker' = broker
      BY <1>3 DEF Reply
    <2> QED
      BY <1>1, <1>3, <2>1 DEF ClientTyped, Locked
  <1> QED
    BY <1>2, <1>3

(* The head of the line is answered at once. *)
LEMMA HeadAnswered ==
    ASSUME TypeOK, ClientInv, actor.pc = "recv", actor' = actor,
           1 \in DOMAIN Line, Line[1].from \in Clients, Part(Line', Line, {1}),
           Reply(Line[1].from)
    PROVE  ClientInv' /\ ClientTyped'
  <1> DEFINE c == Line[1].from
  <1>1. ClientTyped
    BY DEF TypeOK, ClientTyped
  <1>2. /\ ClientTyped' /\ Locked' /\ client'[c] = "idle"
        /\ \A d \in Clients \ {c} : client'[d] = client[d]
    BY <1>1, Answered DEF ClientInv
  <1>3. /\ \A n \in DOMAIN Line' : \E i \in DOMAIN Line \ {1} : Line'[n] = Line[i]
        /\ Single'
        /\ \A i \in DOMAIN Line \ {1} : Line[i].from \in Clients =>
             \E n \in DOMAIN Line' : Line'[n] = Line[i]
    BY PartFacts DEF ClientInv, Single
  <1>4. actor = Receiving /\ actor'.client = None /\ actor.client = None
    BY DEF ClientInv, Served, Receiving
  <1>5. Served'
    BY <1>4 DEF Served, Receiving
  <1>6. \A i \in DOMAIN Line \ {1} : Line[i].from \in Clients => Line[i].from # c
    BY DEF ClientInv, Single
  <1> HIDE DEF c
  <1>7. Requested'
    <2> SUFFICES ASSUME NEW n \in DOMAIN Line', Line'[n].from \in Clients
                 PROVE  /\ client'[Line'[n].from] = Line'[n].kind
                        /\ actor'.client # Line'[n].from
      BY DEF Requested
    <2>1. PICK i \in DOMAIN Line \ {1} : Line'[n] = Line[i]
      BY <1>3
    <2>2. client[Line[i].from] = Line[i].kind
      BY <2>1 DEF ClientInv, Requested
    <2> QED
      BY <1>2, <1>4, <1>6, <2>1, <2>2, TelnetMailboxAssumption
  <1>8. InHand'
    <2> SUFFICES ASSUME NEW d \in Clients, client'[d] # "idle"
                 PROVE  \E n \in DOMAIN Line' : Line'[n].from = d
      BY DEF InHand
    <2>1. d # c /\ client[d] # "idle"
      BY <1>2
    <2>2. PICK i \in DOMAIN Line : Line[i].from = d
      BY <1>4, <2>1, TelnetMailboxAssumption DEF ClientInv, InHand
    <2>3. i # 1
      BY <2>1, <2>2 DEF c
    <2> QED
      BY <1>3, <2>2, <2>3
  <1> QED
    BY <1>2, <1>3, <1>5, <1>7, <1>8 DEF ClientInv

(* The head of the line is served until its answer is there. *)
LEMMA HeadServed ==
    ASSUME TypeOK, ClientInv, actor.pc = "recv",
           1 \in DOMAIN Line, Line[1].from \in Clients, Part(Line', Line, {1}),
           actor'.client = Line[1].from,
           client' = client, broker' = broker,
           \/ /\ Line[1].kind = "Input" /\ actor'.pc = "ack" /\ actor'.session \in Sessions
           \/ /\ Line[1].kind = "ShutdownAll" /\ actor'.pc = "shutdown"
              /\ actor'.session = None
    PROVE  ClientInv'
  <1>1. /\ \A n \in DOMAIN Line' : \E i \in DOMAIN Line \ {1} : Line'[n] = Line[i]
        /\ Single'
        /\ \A i \in DOMAIN Line \ {1} : Line[i].from \in Clients =>
             \E n \in DOMAIN Line' : Line'[n] = Line[i]
    BY PartFacts DEF ClientInv, Single
  <1>2. actor.client = None
    BY DEF ClientInv, Served, Receiving
  <1>3. client[Line[1].from] = Line[1].kind
    BY DEF ClientInv, Requested
  <1>4. Served'
    BY <1>3 DEF Served
  <1>5. Requested'
    <2> SUFFICES ASSUME NEW n \in DOMAIN Line', Line'[n].from \in Clients
                 PROVE  /\ client[Line'[n].from] = Line'[n].kind
                        /\ actor'.client # Line'[n].from
      BY DEF Requested
    <2>1. PICK i \in DOMAIN Line \ {1} : Line'[n] = Line[i]
      BY <1>1
    <2>2. client[Line[i].from] = Line[i].kind
      BY <2>1 DEF ClientInv, Requested
    <2>3. Line[i].from # Line[1].from
      BY <2>1 DEF ClientInv, Single
    <2> QED
      BY <2>1, <2>2, <2>3
  <1>6. InHand'
    <2> SUFFICES ASSUME NEW d \in Clients, client[d] # "idle", d # Line[1].from
                 PROVE  \E n \in DOMAIN Line' : Line'[n].from = d
      BY DEF InHand
    <2>1. PICK i \in DOMAIN Line : Line[i].from = d
      BY <1>2, TelnetMailboxAssumption DEF ClientInv, InHand
    <2>2. i # 1
      BY <2>1
    <2> QED
      BY <1>1, <2>1, <2>2
  <1>7. Locked'
    BY DEF ClientInv, Locked
  <1> QED
    BY <1>1, <1>4, <1>5, <1>6, <1>7 DEF ClientInv

(* The one that is served is answered. *)
LEMMA ServedAnswered ==
    ASSUME TypeOK, ClientInv, actor.pc # "recv", actor' = Receiving,
           Part(Line', Line, {}), Reply(actor.client)
    PROVE  ClientInv' /\ ClientTyped'
  <1> DEFINE c == actor.client
  <1>1. c \in Clients
    BY DEF TypeOK, ClientInv, Served
  <1>2. ClientTyped
    BY DEF TypeOK, ClientTyped
  <1>3. /\ ClientTyped' /\ Locked' /\ client'[c] = "idle"
        /\ \A d \in Clients \ {c} : client'[d] = client[d]
    BY <1>1, <1>2, Answered DEF ClientInv
  <1>4. /\ \A n \in DOMAIN Line' : \E i \in DOMAIN Line \ {} : Line'[n] = Line[i]
        /\ Single'
        /\ \A i \in DOMAIN Line \ {} : Line[i].from \in Clients =>
             \E n \in DOMAIN Line' : Line'[n] = Line[i]
    BY PartFacts DEF ClientInv, Single
  <1>5. Served' /\ actor'.client = None
    BY DEF Served, Receiving
  <1>6. Requested'
    <2> SUFFICES ASSUME NEW n \in DOMAIN Line', Line'[n].from \in Clients
                 PROVE  /\ client'[Line'[n].from] = Line'[n].kind
                        /\ actor'.client # Line'[n].from
      BY DEF Requested
    <2>1. PICK i \in DOMAIN Line : Line'[n] = Line[i]
      BY <1>4
    <2>2. client[Line[i].from] = Line[i].kind /\ Line[i].from # c
      BY <2>1 DEF ClientInv, Requested
    <2> HIDE DEF c
    <2> QED
      BY <1>3, <1>5, <2>1, <2>2, TelnetMailboxAssumption
  <1>7. InHand'
    <2> SUFFICES ASSUME NEW d \in Clients, client'[d] # "idle"
                 PROVE  \E n \in DOMAIN Line' : Line'[n].from = d
      BY DEF InHand
    <2>1. d # c /\ client[d] # "idle"
      <3> HIDE DEF c
      <3> QED
        BY <1>3
    <2>2. PICK i \in DOMAIN Line : Line[i].from = d
      BY <2>1 DEF ClientInv, InHand
    <2> QED
      BY <1>4, <2>2
  <1> QED
    BY <1>3, <1>4, <1>5, <1>6, <1>7 DEF ClientInv

(* A report of an owner leaves the line. *)
LEMMA ReportTaken ==
    ASSUME TypeOK, ClientInv, UNCHANGED <<actor, client, broker>>,
           1 \in DOMAIN Line, Line[1].from \notin Clients, Part(Line', Line, {1})
    PROVE  ClientInv'
  <1>1. /\ \A n \in DOMAIN Line' : \E i \in DOMAIN Line \ {1} : Line'[n] = Line[i]
        /\ Single'
        /\ \A i \in DOMAIN Line \ {1} : Line[i].from \in Clients =>
             \E n \in DOMAIN Line' : Line'[n] = Line[i]
    BY PartFacts DEF ClientInv, Single
  <1>2. Served' /\ Locked'
    BY DEF ClientInv, Served, Locked
  <1>3. Requested'
    BY <1>1 DEF ClientInv, Requested
  <1>4. InHand'
    <2> SUFFICES ASSUME NEW d \in Clients, client[d] # "idle", actor.client # d
                 PROVE  \E n \in DOMAIN Line' : Line'[n].from = d
      BY DEF InHand
    <2>1. PICK i \in DOMAIN Line : Line[i].from = d
      BY DEF ClientInv, InHand
    <2> QED
      BY <1>1, <2>1
  <1> QED
    BY <1>1, <1>2, <1>3, <1>4 DEF ClientInv

(* What joins the line is its last. *)
LEMMA AppendIs ==
    ASSUME NEW v \in Seq(Messages), NEW m \in Messages
    PROVE  /\ Len(v) \in Nat /\ DOMAIN v = 1..Len(v)
           /\ DOMAIN Append(v, m) = 1..(Len(v) + 1)
           /\ \A i \in 1..Len(v) : Append(v, m)[i] = v[i]
           /\ Append(v, m)[Len(v) + 1] = m
           /\ \A i \in 1..(Len(v) + 1) : i \in 1..Len(v) \/ i = Len(v) + 1
  BY AppendProperties

(* A report of an owner joins the line. *)
LEMMA ReportJoins ==
    ASSUME TypeOK, ClientInv, UNCHANGED <<actor, client, broker>>,
           NEW m \in Messages, m.from \notin Clients, Line' = Append(Line, m)
    PROVE  ClientInv'
  <1>1. Line \in Seq(Messages)
    BY LineIs
  <1>2. /\ Len(Line) \in Nat /\ DOMAIN Line = 1..Len(Line)
        /\ DOMAIN Line' = 1..(Len(Line) + 1)
        /\ \A i \in 1..Len(Line) : Line'[i] = Line[i]
        /\ Line'[Len(Line) + 1] = m
        /\ \A i \in 1..(Len(Line) + 1) : i \in 1..Len(Line) \/ i = Len(Line) + 1
    BY <1>1, AppendIs
  <1>3. Served' /\ Locked'
    BY DEF ClientInv, Served, Locked
  <1>4. Requested'
    BY <1>2 DEF ClientInv, Requested
  <1>5. Single'
    BY <1>2 DEF ClientInv, Single
  <1>6. InHand'
    <2> SUFFICES ASSUME NEW d \in Clients, client[d] # "idle", actor.client # d
                 PROVE  \E n \in DOMAIN Line' : Line'[n].from = d
      BY DEF InHand
    <2>1. PICK i \in DOMAIN Line : Line[i].from = d
      BY DEF ClientInv, InHand
    <2>2. i \in 1..Len(Line) /\ i \in 1..(Len(Line) + 1)
      BY <1>2, <2>1
    <2> QED
      BY <1>2, <2>1, <2>2
  <1> QED
    BY <1>3, <1>4, <1>5, <1>6 DEF ClientInv

(* A request joins the line. *)
LEMMA RequestJoins ==
    ASSUME TypeOK, ClientInv, actor' = actor,
           NEW m \in Messages, NEW c \in Clients, m.from = c, Line' = Append(Line, m),
           client[c] = "idle", m.kind \in Requests,
           client' = [client EXCEPT ![c] = m.kind]
    PROVE  Served' /\ Requested' /\ Single' /\ InHand'
  <1>1. Line \in Seq(Messages)
    BY LineIs
  <1>2. /\ Len(Line) \in Nat /\ DOMAIN Line = 1..Len(Line)
        /\ DOMAIN Line' = 1..(Len(Line) + 1)
        /\ \A i \in 1..Len(Line) : Line'[i] = Line[i] /\ Line[i] \in Messages
        /\ Line'[Len(Line) + 1] = m
        /\ \A i \in 1..(Len(Line) + 1) : i \in 1..Len(Line) \/ i = Len(Line) + 1
    BY <1>1, AppendIs
  <1>3. client'[c] = m.kind /\ \A d \in Clients \ {c} : client'[d] = client[d]
    BY DEF TypeOK
  <1>4. \A i \in 1..Len(Line) : Line[i].from # c
    <2> SUFFICES ASSUME NEW i \in 1..Len(Line), Line[i].from = c PROVE FALSE
      OBVIOUS
    <2>1. Line[i] \in Messages /\ Line[i].kind = "idle"
      BY <1>2 DEF ClientInv, Requested
    <2> QED
      BY <2>1, Senders
  <1>5. actor.client # c
    <2> SUFFICES ASSUME actor.client = c PROVE FALSE
      OBVIOUS
    <2>1. CASE actor.pc = "recv"
      BY <2>1, TelnetMailboxAssumption DEF ClientInv, Served, Receiving
    <2>2. CASE actor.pc # "recv"
      <3>1. client[c] \in {"Input", "ShutdownAll"}
        BY <2>2 DEF TypeOK, ClientInv, Served
      <3> QED
        BY <3>1
    <2> QED
      BY <2>1, <2>2
  <1>6. Served'
    <2>1. CASE actor.pc = "recv"
      BY <2>1 DEF ClientInv, Served
    <2>2. CASE actor.pc # "recv"
      <3>1. actor.client \in Clients \ {c}
        BY <1>5, <2>2 DEF TypeOK, ClientInv, Served
      <3>2. client'[actor.client] = client[actor.client]
        BY <1>3, <3>1
      <3> QED
        BY <2>2, <3>2 DEF ClientInv, Served
    <2> QED
      BY <2>1, <2>2
  <1>7. Requested'
    <2> SUFFICES ASSUME NEW n \in DOMAIN Line', Line'[n].from \in Clients
                 PROVE  client'[Line'[n].from] = Line'[n].kind /\ actor.client # Line'[n].from
      BY DEF Requested
    <2>1. CASE n = Len(Line) + 1
      BY <1>2, <1>3, <1>5, <2>1
    <2>2. CASE n \in 1..Len(Line)
      <3>1. Line'[n] = Line[n] /\ Line[n].from # c
        BY <1>2, <1>4, <2>2
      <3>2. client[Line[n].from] = Line[n].kind /\ actor.client # Line[n].from
        BY <1>2, <2>2, <3>1 DEF ClientInv, Requested
      <3> QED
        BY <1>3, <3>1, <3>2
    <2> QED
      BY <1>2, <2>1, <2>2
  <1>8. Single'
    BY <1>2, <1>4 DEF ClientInv, Single
  <1>9. InHand'
    <2> SUFFICES ASSUME NEW d \in Clients, client'[d] # "idle", actor.client # d
                 PROVE  \E n \in DOMAIN Line' : Line'[n].from = d
      BY DEF InHand
    <2>0. Len(Line) + 1 \in DOMAIN Line'
      BY <1>2
    <2>1. CASE d = c
      BY <1>2, <2>0, <2>1
    <2>2. CASE d # c
      <3>1. client[d] # "idle"
        BY <1>3, <2>2
      <3>2. PICK i \in DOMAIN Line : Line[i].from = d
        BY <3>1 DEF ClientInv, InHand
      <3>3. i \in 1..Len(Line) /\ i \in 1..(Len(Line) + 1)
        BY <1>2, <3>2
      <3> QED
        BY <1>2, <3>2, <3>3
    <2> QED
      BY <2>1, <2>2
  <1> QED
    BY <1>6, <1>7, <1>8, <1>9

--------------------------------------------------------------------------------
(* The owners. *)

(* The part of the type invariant about them. *)
OwnerTyped ==
    /\ owner \in [Sessions -> {"run", "ending"}]
    /\ commands \in [Sessions -> Seq(Commands)]
    /\ \A s \in Sessions : Len(commands[s]) <= OwnerCap
    /\ state \in [Sessions -> {"Running", "Disconnecting", "Closed"}]
    /\ ack \in {"none", "ok", "failed"}

ActorTyped ==
    /\ actor.pc \in {"recv", "ack", "shutdown"}
    /\ actor.session \in Sessions \cup {None} /\ actor.client \in Clients \cup {None}

LEMMA Typed == TypeOK <=> LineTyped /\ ActorTyped /\ OwnerTyped /\ ClientTyped
  BY DEF TypeOK, LineTyped, ActorTyped, OwnerTyped, ClientTyped

LEMMA TypedNext == TypeOK' <=> LineTyped' /\ ActorTyped' /\ OwnerTyped' /\ ClientTyped'
  BY DEF TypeOK, LineTyped, ActorTyped, OwnerTyped, ClientTyped

(* A command that is given: only an Input adds to the Inputs. *)
LEMMA Given ==
    ASSUME NEW q \in Seq(Commands), NEW cmd \in Commands, Len(q) < OwnerCap
    PROVE  LET p == Append(q, cmd) IN
           /\ p \in Seq(Commands) /\ Len(p) <= OwnerCap
           /\ cmd # "Input" =>
                {i \in DOMAIN p : p[i] = "Input"} = {i \in DOMAIN q : q[i] = "Input"}
           /\ (cmd = "Input" /\ \A i \in DOMAIN q : q[i] # "Input") =>
                {i \in DOMAIN p : p[i] = "Input"} = {Len(q) + 1}
  <1> DEFINE p == Append(q, cmd)
  <1>1. /\ p \in Seq(Commands) /\ Len(p) = Len(q) + 1 /\ Len(q) \in Nat /\ OwnerCap \in Nat
        /\ DOMAIN q = 1..Len(q) /\ DOMAIN p = 1..(Len(q) + 1)
        /\ \A i \in 1..Len(q) : p[i] = q[i]
        /\ p[Len(q) + 1] = cmd
        /\ \A i \in 1..(Len(q) + 1) : i \in 1..Len(q) \/ i = Len(q) + 1
        /\ \A i \in 1..Len(q) : i \in 1..(Len(q) + 1)
        /\ Len(q) + 1 \in 1..(Len(q) + 1)
    BY TelnetMailboxAssumption, AppendProperties
  <1> HIDE DEF p
  <1>2. Len(p) <= OwnerCap
    BY <1>1
  <1>3. ASSUME cmd # "Input"
        PROVE  {i \in DOMAIN p : p[i] = "Input"} = {i \in DOMAIN q : q[i] = "Input"}
    BY <1>1, <1>3
  <1>4. ASSUME cmd = "Input", \A i \in DOMAIN q : q[i] # "Input"
        PROVE  {i \in DOMAIN p : p[i] = "Input"} = {Len(q) + 1}
    BY <1>1, <1>4
  <1> QED
    BY <1>1, <1>2, <1>3, <1>4 DEF p

(* A command that is taken. *)
LEMMA Taken ==
    ASSUME NEW q \in Seq(Commands), q # <<>>, Len(q) <= OwnerCap
    PROVE  /\ Tail(q) \in Seq(Commands) /\ Len(Tail(q)) <= OwnerCap
           /\ 1 \in DOMAIN q /\ Head(q) = q[1]
           /\ \A i \in DOMAIN Tail(q) :
                i + 1 \in DOMAIN q /\ i + 1 # 1 /\ Tail(q)[i] = q[i + 1]
  <1>1. /\ Tail(q) \in Seq(Commands) /\ Len(Tail(q)) = Len(q) - 1 /\ Len(q) \in Nat
        /\ Len(q) >= 1 /\ OwnerCap \in Nat
        /\ DOMAIN q = 1..Len(q) /\ DOMAIN Tail(q) = 1..(Len(q) - 1) /\ Head(q) = q[1]
        /\ \A i \in 1..(Len(q) - 1) : Tail(q)[i] = q[i + 1]
    BY TelnetMailboxAssumption
  <1> QED
    BY <1>1

(* Owners end and queues keep their Inputs. *)
LEMMA OwnersKeep ==
    ASSUME TypeOK, ClientInv, OwnerInv, actor' = actor, ack' = ack,
           \A s \in Sessions : \/ owner'[s] = "ending"
                               \/ owner'[s] = owner[s] /\ Inputs(s)' = Inputs(s)
    PROVE  OwnerInv'
  <1>1. InputAwaited'
    <2> SUFFICES ASSUME NEW s \in Sessions, owner'[s] = "run", NEW i \in Inputs(s)'
                 PROVE  /\ actor.pc = "ack" /\ actor.session = s /\ ack = "none"
                        /\ \A j \in Inputs(s)' : i = j
      BY DEF InputAwaited
    <2>1. owner[s] = "run" /\ Inputs(s)' = Inputs(s)
      OBVIOUS
    <2> QED
      BY <2>1 DEF OwnerInv, InputAwaited
  <1>2. AckFresh'
    BY DEF OwnerInv, AckFresh
  <1>3. Owed'
    <2> SUFFICES ASSUME actor.pc = "ack", ack = "none", owner'[actor.session] # "ending"
                 PROVE  Inputs(actor.session)' # {}
      BY DEF Owed
    <2>1. PICK s \in Sessions : s = actor.session
      BY DEF ClientInv, Served
    <2>2. owner[s] # "ending" /\ Inputs(s)' = Inputs(s)
      BY <2>1
    <2>3. Inputs(s) # {}
      BY <2>1, <2>2 DEF OwnerInv, Owed
    <2>4. Inputs(s)' # {}
      BY <2>2, <2>3
    <2> QED
      BY <2>1, <2>4 DEF Inputs
  <1> QED
    BY <1>1, <1>2, <1>3 DEF OwnerInv

(* No running owner has an Input while the actor does not wait for one. *)
LEMMA OwnersIdle ==
    ASSUME OwnerInv, actor.pc # "ack", actor'.pc # "ack", ack' = ack,
           \A s \in Sessions : \/ owner'[s] = "ending"
                               \/ owner'[s] = owner[s] /\ Inputs(s)' = Inputs(s)
    PROVE  OwnerInv'
  <1>1. \A s \in Sessions : owner'[s] = "run" => Inputs(s)' = {}
    <2> SUFFICES ASSUME NEW s \in Sessions, owner'[s] = "run"
                 PROVE  Inputs(s)' = {}
      OBVIOUS
    <2>1. owner[s] = "run" /\ Inputs(s)' = Inputs(s)
      OBVIOUS
    <2>2. Inputs(s) = {}
      BY <2>1 DEF OwnerInv, InputAwaited
    <2> QED
      BY <2>1, <2>2
  <1>2. InputAwaited'
    BY <1>1 DEF InputAwaited
  <1>3. AckFresh' /\ Owed'
    BY DEF OwnerInv, AckFresh, Owed
  <1> QED
    BY <1>2, <1>3 DEF OwnerInv

(* The owner takes an Input: it was the one the actor waits for. *)
LEMMA InputTaken ==
    ASSUME TypeOK, ClientInv, OwnerInv, NEW s \in Sessions, Takes(s, "Input"),
           actor' = actor, ack' \in {"ok", "failed"},
           \A t \in Sessions : owner'[t] = "ending" \/ owner'[t] = owner[t]
    PROVE  OwnerInv'
  <1>1. /\ owner[s] = "run" /\ commands[s] # <<>> /\ Head(commands[s]) = "Input"
        /\ commands'[s] = Tail(commands[s])
        /\ \A t \in Sessions \ {s} : commands'[t] = commands[t]
    BY DEF Takes, Selecting, TypeOK
  <1>2. commands[s] \in Seq(Commands) /\ Len(commands[s]) <= OwnerCap
    BY DEF TypeOK
  <1>3. /\ 1 \in DOMAIN commands[s] /\ commands[s][1] = "Input"
        /\ \A i \in DOMAIN commands'[s] :
             /\ i + 1 \in DOMAIN commands[s] /\ i + 1 # 1
             /\ commands'[s][i] = commands[s][i + 1]
    BY <1>1, <1>2, Taken
  <1>4. 1 \in Inputs(s)
    BY <1>3 DEF Inputs
  <1>5. actor.pc = "ack" /\ actor.session = s /\ \A j \in Inputs(s) : j = 1
    BY <1>1, <1>4 DEF OwnerInv, InputAwaited
  <1>6. \A t \in Sessions : owner'[t] = "run" => Inputs(t)' = {}
    <2> SUFFICES ASSUME NEW t \in Sessions, owner'[t] = "run", NEW i \in Inputs(t)'
                 PROVE  FALSE
      OBVIOUS
    <2>0. i \in DOMAIN commands'[t] /\ commands'[t][i] = "Input"
      BY DEF Inputs
    <2>1. CASE t = s
      <3>1. i + 1 \in Inputs(s) /\ i + 1 # 1
        BY <1>3, <2>0, <2>1 DEF Inputs
      <3> QED
        BY <1>5, <3>1
    <2>2. CASE t # s
      <3>1. owner[t] = "run" /\ i \in Inputs(t)
        BY <1>1, <2>0, <2>2 DEF Inputs
      <3> QED
        BY <1>5, <2>2, <3>1 DEF OwnerInv, InputAwaited
    <2> QED
      BY <2>1, <2>2
  <1>7. InputAwaited'
    BY <1>6 DEF InputAwaited
  <1>8. AckFresh' /\ Owed'
    BY <1>5 DEF AckFresh, Owed
  <1> QED
    BY <1>7, <1>8 DEF OwnerInv

--------------------------------------------------------------------------------
(* Every action keeps the invariant. *)

LEMMA Taking ==
    ASSUME IInv, NEW k, Recv(k)
    PROVE  /\ LineTyped' /\ Full' /\ Part(Line', Line, {1})
           /\ actor.pc = "recv" /\ 1 \in DOMAIN Line
           /\ Head(mail) = Line[1] /\ Line[1] \in Messages /\ Line[1].kind = k
           /\ k \in Requests <=> Line[1].from \in Clients
           /\ Line[1].session \in Sessions
  <1>1. TypeOK /\ Full /\ mail # <<>> /\ Receive /\ actor.pc = "recv" /\ Head(mail).kind = k
    BY DEF IInv, Recv
  <1>2. LineTyped' /\ Full' /\ Part(Line', Line, {1})
    BY <1>1, Received
  <1>3. Head(mail) = Line[1] /\ Head(mail) \in Messages /\ 1 \in DOMAIN Line
    BY <1>1, HeadOfLine
  <1>4. k \in Requests <=> Line[1].from \in Clients
    BY <1>1, <1>3, Senders
  <1>5. Line[1].session \in Sessions
    BY <1>3, Senders
  <1> QED
    BY <1>1, <1>2, <1>3, <1>4, <1>5

(* The handlers that only answer: refused requests and the ones without a wait. *)
LEMMA OnlyAnswered ==
    ASSUME IInv, NEW k \in Requests, Recv(k), Reply(Head(mail).from),
           UNCHANGED <<actor, owner, commands, state, ack>>
    PROVE  IInv'
  <1>1. /\ LineTyped' /\ Full' /\ Part(Line', Line, {1})
        /\ actor.pc = "recv" /\ 1 \in DOMAIN Line
        /\ Head(mail) = Line[1] /\ Line[1].from \in Clients
    BY Taking
  <1>2. TypeOK /\ ClientInv /\ OwnerInv
    BY DEF IInv
  <1>3. ClientInv' /\ ClientTyped'
    BY <1>1, <1>2, HeadAnswered
  <1>4. ActorTyped' /\ OwnerTyped'
    BY <1>2 DEF TypeOK, ActorTyped, OwnerTyped
  <1>5. OwnerInv'
    <2>1. \A s \in Sessions : owner'[s] = owner[s] /\ Inputs(s)' = Inputs(s)
      BY DEF Inputs
    <2> QED
      BY <1>2, <2>1, OwnersKeep
  <1> QED
    BY <1>1, <1>3, <1>4, <1>5, TypedNext DEF IInv

LEMMA ForwardInputStep ==
    ASSUME IInv, ForwardInput
    PROVE  IInv'
  <1> DEFINE m == Line[1]
  <1>0. Recv("Input") /\ "Input" \in Requests
    BY DEF ForwardInput, Requests
  <1>1. /\ LineTyped' /\ Full' /\ Part(Line', Line, {1})
        /\ actor.pc = "recv" /\ 1 \in DOMAIN Line
        /\ Head(mail) = m /\ m.from \in Clients /\ m.kind = "Input"
        /\ m.session \in Sessions
    BY <1>0, Taking
  <1>1a. PICK s \in Sessions : s = m.session
    BY <1>1
  <1>2. TypeOK /\ ClientInv /\ OwnerInv
    BY DEF IInv
  <1>3. /\ Len(commands[s]) < OwnerCap
        /\ commands' = [commands EXCEPT ![s] = Append(@, "Input")]
        /\ actor' = [pc |-> "ack", session |-> s, client |-> m.from]
        /\ UNCHANGED <<owner, state, ack, client, broker>>
    BY <1>1, <1>1a DEF ForwardInput, Accepts
  <1>4. actor'.pc = "ack" /\ actor'.session = s /\ actor'.client = m.from
    BY <1>3
  <1>5. ClientInv'
    BY <1>1, <1>2, <1>3, <1>4, HeadServed
  <1>6. ClientTyped' /\ ActorTyped'
    BY <1>1, <1>2, <1>3, <1>4 DEF TypeOK, ActorTyped, ClientTyped
  <1> HIDE DEF m
  <1>7. commands[s] \in Seq(Commands) /\ "Input" \in Commands
    BY <1>1, <1>2 DEF TypeOK, Commands
  <1>8. /\ commands'[s] = Append(commands[s], "Input")
        /\ \A t \in Sessions \ {s} : commands'[t] = commands[t]
        /\ DOMAIN commands' = Sessions
    BY <1>1, <1>2, <1>3 DEF TypeOK
  <1>9. commands'[s] \in Seq(Commands) /\ Len(commands'[s]) <= OwnerCap
    BY <1>3, <1>7, <1>8, Given
  <1>10. OwnerTyped'
    <2>1. commands' \in [Sessions -> Seq(Commands)]
      BY <1>2, <1>3, <1>7, <1>9, <1>8 DEF TypeOK
    <2>2. \A t \in Sessions : Len(commands'[t]) <= OwnerCap
      BY <1>2, <1>8, <1>9 DEF TypeOK
    <2> QED
      BY <1>2, <1>3, <2>1, <2>2 DEF TypeOK, OwnerTyped
  <1>11. \A t \in Sessions : owner[t] = "run" => Inputs(t) = {}
    BY <1>1, <1>2 DEF OwnerInv, InputAwaited
  <1>12. ack = "none"
    BY <1>1, <1>2 DEF OwnerInv, AckFresh
  <1>13. owner[s] = "run" => Inputs(s)' = {Len(commands[s]) + 1}
    <2> SUFFICES ASSUME owner[s] = "run"
                 PROVE  Inputs(s)' = {Len(commands[s]) + 1}
      OBVIOUS
    <2>1. \A i \in DOMAIN commands[s] : commands[s][i] # "Input"
      BY <1>1, <1>11 DEF Inputs
    <2>2. {i \in DOMAIN commands'[s] : commands'[s][i] = "Input"} = {Len(commands[s]) + 1}
      BY <1>3, <1>7, <1>8, <2>1, Given
    <2>3. Inputs(s)' = {i \in DOMAIN commands'[s] : commands'[s][i] = "Input"}
      BY DEF Inputs
    <2> QED
      BY <2>2, <2>3
  <1>14. InputAwaited'
    <2> SUFFICES ASSUME NEW t \in Sessions, owner[t] = "run", NEW i \in Inputs(t)'
                 PROVE  t = s /\ \A j \in Inputs(t)' : i = j
      BY <1>3, <1>4, <1>12 DEF InputAwaited
    <2>1. CASE t # s
      <3>1. Inputs(t)' = Inputs(t)
        BY <1>8, <2>1 DEF Inputs
      <3> QED
        BY <1>11, <3>1
    <2>2. CASE t = s
      BY <1>13, <2>2
    <2> QED
      BY <2>1, <2>2
  <1>15. AckFresh' /\ Owed'
    <2>1. CASE owner[s] = "run"
      BY <1>3, <1>4, <1>13, <2>1 DEF AckFresh, Owed
    <2>2. CASE owner[s] = "ending"
      BY <1>3, <1>4, <2>2 DEF AckFresh, Owed
    <2>3. owner[s] \in {"run", "ending"}
      BY <1>1, <1>2 DEF TypeOK
    <2> QED
      BY <2>1, <2>2, <2>3
  <1> QED
    BY <1>1, <1>5, <1>6, <1>10, <1>14, <1>15, TypedNext DEF IInv, OwnerInv

LEMMA AcknowledgedStep ==
    ASSUME IInv, Acknowledged
    PROVE  IInv'
  <1>1. TypeOK /\ ClientInv /\ OwnerInv /\ Full
    BY DEF IInv
  <1>2. /\ actor.pc = "ack" /\ (ack # "none" \/ owner[actor.session] = "ending")
        /\ Reply(actor.client) /\ actor' = Receiving /\ ack' = "none"
        /\ UNCHANGED <<mail, senders, owner, commands, state>>
    BY DEF Acknowledged, Ended
  <1>3. Line' = Line /\ Part(Line', Line, {})
    BY <1>1, <1>2, LineIs, PartOfItself DEF Line
  <1>4. ClientInv' /\ ClientTyped'
    BY <1>1, <1>2, <1>3, ServedAnswered
  <1>5. LineTyped' /\ Full' /\ ActorTyped' /\ OwnerTyped'
    BY <1>1, <1>2 DEF TypeOK, LineTyped, Full, ActorTyped, OwnerTyped, Receiving
  <1>6. \A s \in Sessions : owner[s] = "run" => Inputs(s) = {}
    BY <1>1, <1>2 DEF OwnerInv, InputAwaited
  <1>7. InputAwaited'
    BY <1>2, <1>6 DEF InputAwaited, Inputs
  <1>8. AckFresh' /\ Owed'
    BY <1>2 DEF AckFresh, Owed, Receiving
  <1> QED
    BY <1>4, <1>5, <1>7, <1>8, TypedNext DEF IInv, OwnerInv

LEMMA HandleDisconnectStep ==
    ASSUME IInv, HandleDisconnect
    PROVE  IInv'
  <1> DEFINE m == Line[1]
             s == m.session
  <1>0. Recv("Disconnect") /\ "Disconnect" \in Requests
    BY DEF HandleDisconnect, Requests
  <1>1. /\ LineTyped' /\ Full' /\ Part(Line', Line, {1})
        /\ actor.pc = "recv" /\ 1 \in DOMAIN Line
        /\ Head(mail) = m /\ m.from \in Clients /\ s \in Sessions
    BY <1>0, Taking
  <1>2. TypeOK /\ ClientInv /\ OwnerInv
    BY DEF IInv
  <1>3. /\ Len(commands[s]) < OwnerCap
        /\ commands' = [commands EXCEPT ![s] = Append(@, "Disconnect")]
        /\ state' = [state EXCEPT ![s] = "Disconnecting"]
        /\ Reply(m.from)
        /\ UNCHANGED <<actor, owner, ack>>
    BY <1>1 DEF HandleDisconnect, Accepts
  <1>4. ClientInv' /\ ClientTyped'
    BY <1>1, <1>2, <1>3, HeadAnswered
  <1> HIDE DEF m, s
  <1>5. commands[s] \in Seq(Commands) /\ "Disconnect" \in Commands
    BY <1>1, <1>2 DEF TypeOK, Commands
  <1>6. /\ commands'[s] = Append(commands[s], "Disconnect")
        /\ \A t \in Sessions \ {s} : commands'[t] = commands[t]
        /\ DOMAIN commands' = Sessions
    BY <1>1, <1>2, <1>3 DEF TypeOK
  <1>7. /\ commands'[s] \in Seq(Commands) /\ Len(commands'[s]) <= OwnerCap
        /\ {i \in DOMAIN commands'[s] : commands'[s][i] = "Input"}
             = {i \in DOMAIN commands[s] : commands[s][i] = "Input"}
    BY <1>3, <1>5, <1>6, Given
  <1>8. OwnerTyped' /\ ActorTyped'
    <2>1. commands' \in [Sessions -> Seq(Commands)]
      BY <1>2, <1>3, <1>6, <1>7 DEF TypeOK
    <2>2. \A t \in Sessions : Len(commands'[t]) <= OwnerCap
      BY <1>2, <1>6, <1>7 DEF TypeOK
    <2>3. state' \in [Sessions -> {"Running", "Disconnecting", "Closed"}]
      BY <1>1, <1>2, <1>3 DEF TypeOK
    <2> QED
      BY <1>2, <1>3, <2>1, <2>2, <2>3 DEF TypeOK, OwnerTyped, ActorTyped
  <1>9. \A t \in Sessions : owner'[t] = owner[t] /\ Inputs(t)' = Inputs(t)
    BY <1>3, <1>6, <1>7 DEF Inputs
  <1>10. OwnerInv'
    BY <1>2, <1>3, <1>9, OwnersKeep
  <1> QED
    BY <1>1, <1>4, <1>8, <1>10, TypedNext DEF IInv

(* The handlers of the owners' reports. *)
LEMMA ReportStep ==
    ASSUME IInv, HandleOutput \/ HandleClosed
    PROVE  IInv'
  <1>1. PICK k \in {"OwnerOutput", "OwnerClosed"} : Recv(k)
    BY DEF HandleOutput, HandleClosed
  <1>2. k \notin Requests
    BY <1>1 DEF Requests
  <1>3. /\ LineTyped' /\ Full' /\ Part(Line', Line, {1}) /\ 1 \in DOMAIN Line
        /\ Head(mail) = Line[1] /\ Line[1].from \notin Clients /\ Line[1].session \in Sessions
    BY <1>1, <1>2, Taking
  <1>4. TypeOK /\ ClientInv /\ OwnerInv
    BY DEF IInv
  <1>5. UNCHANGED <<actor, owner, commands, ack, client, broker>>
    BY DEF HandleOutput, HandleClosed
  <1>6. ClientInv'
    BY <1>3, <1>4, <1>5, ReportTaken
  <1>7. state' \in [Sessions -> {"Running", "Disconnecting", "Closed"}]
    BY <1>4 DEF TypeOK, HandleOutput, HandleClosed
  <1>8. ActorTyped' /\ OwnerTyped' /\ ClientTyped'
    BY <1>4, <1>5, <1>7 DEF TypeOK, ActorTyped, OwnerTyped, ClientTyped
  <1>9. \A s \in Sessions : owner'[s] = owner[s] /\ Inputs(s)' = Inputs(s)
    BY <1>5 DEF Inputs
  <1>10. OwnerInv'
    BY <1>4, <1>5, <1>9, OwnersKeep
  <1> QED
    BY <1>3, <1>6, <1>8, <1>10, TypedNext DEF IInv

LEMMA BeginShutdownAllStep ==
    ASSUME IInv, BeginShutdownAll
    PROVE  IInv'
  <1> DEFINE m == Line[1]
             told == {s \in Sessions : Accepts(s)}
             cut == {s \in Sessions : state[s] # "Closed" /\ ~Accepts(s)}
  <1>1. TypeOK /\ ClientInv /\ OwnerInv /\ Full
    BY DEF IInv
  <1>2. LineTyped' /\ Full' /\ Part(Line', Line, {1})
    BY <1>1, TakenForShutdown
  <1>3. /\ actor.pc = "recv" /\ mail # <<>> /\ Head(mail).kind = "ShutdownAll"
        /\ commands' = [s \in Sessions |->
                          IF s \in told THEN Append(commands[s], "DisconnectQuietly")
                          ELSE commands[s]]
        /\ owner' = [s \in Sessions |-> IF s \in cut THEN "ending" ELSE owner[s]]
        /\ actor' = [pc |-> "shutdown", session |-> None, client |-> Head(mail).from]
        /\ state' = [s \in Sessions |->
                       IF state[s] = "Closed" THEN "Closed" ELSE "Disconnecting"]
        /\ UNCHANGED <<ack, client, broker>>
    BY DEF BeginShutdownAll
  <1>4. 1 \in DOMAIN Line /\ Head(mail) = m /\ m \in Messages
    BY <1>1, <1>3, HeadOfLine
  <1>5. m.kind = "ShutdownAll" /\ m.from \in Clients
    BY <1>3, <1>4, Senders DEF Requests
  <1>6. actor'.pc = "shutdown" /\ actor'.session = None /\ actor'.client = m.from
    BY <1>3, <1>4
  <1>7. ClientInv'
    BY <1>1, <1>2, <1>3, <1>4, <1>5, <1>6, HeadServed
  <1>8. \A s \in Sessions :
          /\ commands'[s] \in Seq(Commands) /\ Len(commands'[s]) <= OwnerCap
          /\ {i \in DOMAIN commands'[s] : commands'[s][i] = "Input"}
               = {i \in DOMAIN commands[s] : commands[s][i] = "Input"}
    <2> SUFFICES ASSUME NEW s \in Sessions
                 PROVE  /\ commands'[s] \in Seq(Commands) /\ Len(commands'[s]) <= OwnerCap
                        /\ {i \in DOMAIN commands'[s] : commands'[s][i] = "Input"}
                             = {i \in DOMAIN commands[s] : commands[s][i] = "Input"}
      OBVIOUS
    <2>1. commands[s] \in Seq(Commands) /\ Len(commands[s]) <= OwnerCap
      BY <1>1 DEF TypeOK
    <2>2. CASE s \in told
      <3>1. commands'[s] = Append(commands[s], "DisconnectQuietly")
        BY <1>3, <2>2
      <3>2. Len(commands[s]) < OwnerCap
        BY <2>2 DEF Accepts
      <3>3. "DisconnectQuietly" \in Commands /\ "DisconnectQuietly" # "Input"
        BY DEF Commands
      <3> QED
        BY <2>1, <3>1, <3>2, <3>3, Given
    <2>3. CASE s \notin told
      <3>1. commands'[s] = commands[s]
        BY <1>3, <2>3
      <3> QED
        BY <2>1, <3>1
    <2> QED
      BY <2>2, <2>3
  <1>9. \A s \in Sessions : \/ owner'[s] = "ending"
                            \/ owner'[s] = owner[s] /\ Inputs(s)' = Inputs(s)
    BY <1>3, <1>8 DEF Inputs
  <1>10. OwnerInv'
    BY <1>1, <1>3, <1>6, <1>9, OwnersIdle
  <1>11. OwnerTyped'
    <2>1. commands' \in [Sessions -> Seq(Commands)]
      <3>1. commands' = [s \in Sessions |-> commands'[s]]
        BY <1>3
      <3> QED
        BY <1>8, <3>1
    <2>2. owner' \in [Sessions -> {"run", "ending"}]
      BY <1>1, <1>3 DEF TypeOK
    <2>3. state' \in [Sessions -> {"Running", "Disconnecting", "Closed"}]
      BY <1>1, <1>3 DEF TypeOK
    <2> QED
      BY <1>1, <1>3, <1>8, <2>1, <2>2, <2>3 DEF TypeOK, OwnerTyped
  <1>12. ActorTyped' /\ ClientTyped'
    BY <1>1, <1>3, <1>5, <1>6 DEF TypeOK, ActorTyped, ClientTyped
  <1> QED
    BY <1>2, <1>7, <1>10, <1>11, <1>12, TypedNext DEF IInv

(* The two ends of a shutdown. *)
LEMMA ShutdownEnds ==
    ASSUME IInv, ShutdownSettles \/ ShutdownTimesOut
    PROVE  IInv'
  <1>1. TypeOK /\ ClientInv /\ OwnerInv /\ Full
    BY DEF IInv
  <1>2. /\ actor.pc = "shutdown" /\ Reply(actor.client) /\ actor' = Receiving
        /\ UNCHANGED <<commands, ack>>
    BY DEF ShutdownSettles, ShutdownTimesOut
  <1>3. LineTyped' /\ Full' /\ Part(Line', Line, {})
    <2>1. CASE ShutdownSettles
      <3>1. mail' = mail /\ senders' = senders
        BY <2>1 DEF ShutdownSettles
      <3>2. Part(Line', Line, {})
        BY <1>1, <3>1, LineIs, PartOfItself DEF Line
      <3> QED
        BY <1>1, <3>1, <3>2 DEF TypeOK, LineTyped, Full
    <2>2. CASE ShutdownTimesOut
      BY <1>1, <2>2, LeftAtTimeout
    <2> QED
      BY <2>1, <2>2
  <1>4. ClientInv' /\ ClientTyped'
    BY <1>1, <1>2, <1>3, ServedAnswered
  <1>5. /\ owner' \in [Sessions -> {"run", "ending"}]
        /\ \A s \in Sessions : owner'[s] = "ending" \/ owner'[s] = owner[s]
    BY <1>1 DEF TypeOK, ShutdownSettles, ShutdownTimesOut
  <1>6. state' \in [Sessions -> {"Running", "Disconnecting", "Closed"}]
    BY <1>1 DEF TypeOK, ShutdownSettles, ShutdownTimesOut
  <1>7. OwnerTyped' /\ ActorTyped'
    BY <1>1, <1>2, <1>5, <1>6 DEF TypeOK, OwnerTyped, ActorTyped, Receiving
  <1>8. OwnerInv'
    <2>1. \A s \in Sessions : Inputs(s)' = Inputs(s)
      BY <1>2 DEF Inputs
    <2>2. actor'.pc = "recv"
      BY <1>2 DEF Receiving
    <2> QED
      BY <1>1, <1>2, <1>5, <2>1, <2>2, OwnersIdle
  <1> QED
    BY <1>3, <1>4, <1>7, <1>8, TypedNext DEF IInv

(* A command is taken from the queue. *)
LEMMA Takings ==
    ASSUME TypeOK, NEW s \in Sessions, NEW cmd, Takes(s, cmd)
    PROVE  /\ commands' \in [Sessions -> Seq(Commands)]
           /\ \A t \in Sessions : Len(commands'[t]) <= OwnerCap
           /\ \A t \in Sessions \ {s} : Inputs(t)' = Inputs(t)
  <1>1. commands[s] \in Seq(Commands) /\ commands[s] # <<>> /\ Len(commands[s]) <= OwnerCap
    BY DEF TypeOK, Takes
  <1>2. Tail(commands[s]) \in Seq(Commands) /\ Len(Tail(commands[s])) <= OwnerCap
    BY <1>1, Taken
  <1>3. commands' = [commands EXCEPT ![s] = Tail(commands[s])]
    BY DEF Takes
  <1>4. /\ commands'[s] = Tail(commands[s])
        /\ \A t \in Sessions \ {s} : commands'[t] = commands[t]
    BY <1>3 DEF TypeOK
  <1>5. commands' \in [Sessions -> Seq(Commands)]
    BY <1>2, <1>3 DEF TypeOK
  <1>6. \A t \in Sessions : Len(commands'[t]) <= OwnerCap
    BY <1>2, <1>4 DEF TypeOK
  <1>7. \A t \in Sessions \ {s} : Inputs(t)' = Inputs(t)
    BY <1>4 DEF Inputs
  <1> QED
    BY <1>5, <1>6, <1>7

(* The end of an owner is reported. *)
LEMMA Closing ==
    ASSUME IInv, NEW s \in Sessions, Closes(s), UNCHANGED <<actor, client, broker>>
    PROVE  /\ LineTyped' /\ Full' /\ ClientInv'
           /\ owner' \in [Sessions -> {"run", "ending"}] /\ owner'[s] = "ending"
           /\ \A t \in Sessions \ {s} : owner'[t] = owner[t]
  <1> DEFINE m == [kind |-> "OwnerClosed", from |-> s, session |-> s]
  <1>1. m \in Messages /\ m.from \notin Clients /\ Send(m)
    BY TelnetMailboxAssumption DEF Messages, Closes
  <1>2. TypeOK /\ Full /\ ClientInv
    BY DEF IInv
  <1> HIDE DEF m
  <1>3. LineTyped' /\ Full' /\ Line' = Append(Line, m)
    BY <1>1, <1>2, Joins
  <1>4. ClientInv'
    BY <1>1, <1>2, <1>3, ReportJoins
  <1>5. /\ owner' \in [Sessions -> {"run", "ending"}] /\ owner'[s] = "ending"
        /\ \A t \in Sessions \ {s} : owner'[t] = owner[t]
    BY <1>2 DEF TypeOK, Closes
  <1> QED
    BY <1>3, <1>4, <1>5

LEMMA OwnerWritesStep ==
    ASSUME IInv, NEW s \in Sessions, OwnerWrites(s) \/ OwnerWriteFails(s)
    PROVE  IInv'
  <1>1. TypeOK /\ ClientInv /\ OwnerInv /\ Full
    BY DEF IInv
  <1>2. /\ Takes(s, "Input") /\ ack' \in {"ok", "failed"}
        /\ UNCHANGED <<actor, state, client, broker>>
    BY DEF OwnerWrites, OwnerWriteFails
  <1>3. /\ LineTyped' /\ Full' /\ ClientInv'
        /\ owner' \in [Sessions -> {"run", "ending"}]
        /\ \A t \in Sessions : owner'[t] = "ending" \/ owner'[t] = owner[t]
    <2>1. CASE OwnerWrites(s)
      <3>1. UNCHANGED <<mail, senders, actor, owner, client, broker>>
        BY <2>1 DEF OwnerWrites
      <3>2. ClientInv'
        BY <1>1, <3>1 DEF ClientInv, Served, Requested, Single, InHand, Locked, Line
      <3> QED
        BY <1>1, <3>1, <3>2 DEF TypeOK, LineTyped, Full
    <2>2. CASE OwnerWriteFails(s)
      <3>1. Closes(s)
        BY <2>2 DEF OwnerWriteFails
      <3> QED
        BY <1>2, <3>1, Closing
    <2> QED
      BY <2>1, <2>2
  <1>4. OwnerInv'
    BY <1>1, <1>2, <1>3, InputTaken
  <1>5. /\ commands' \in [Sessions -> Seq(Commands)]
        /\ \A t \in Sessions : Len(commands'[t]) <= OwnerCap
    BY <1>1, <1>2, Takings
  <1>6. ActorTyped' /\ OwnerTyped' /\ ClientTyped'
    BY <1>1, <1>2, <1>3, <1>5 DEF TypeOK, ActorTyped, OwnerTyped, ClientTyped
  <1> QED
    BY <1>3, <1>4, <1>6, TypedNext DEF IInv

LEMMA OwnerDisconnectsStep ==
    ASSUME IInv, NEW s \in Sessions, OwnerDisconnects(s) \/ OwnerDisconnectsQuietly(s)
    PROVE  IInv'
  <1>1. TypeOK /\ ClientInv /\ OwnerInv /\ Full
    BY DEF IInv
  <1>2. PICK cmd : Takes(s, cmd)
    BY DEF OwnerDisconnects, OwnerDisconnectsQuietly
  <1>3. UNCHANGED <<actor, state, ack, client, broker>>
    BY DEF OwnerDisconnects, OwnerDisconnectsQuietly
  <1>4. /\ LineTyped' /\ Full' /\ ClientInv'
        /\ owner' \in [Sessions -> {"run", "ending"}] /\ owner'[s] = "ending"
        /\ \A t \in Sessions \ {s} : owner'[t] = owner[t]
    <2>1. CASE OwnerDisconnects(s)
      <3>1. Closes(s)
        BY <2>1 DEF OwnerDisconnects
      <3> QED
        BY <1>3, <3>1, Closing
    <2>2. CASE OwnerDisconnectsQuietly(s)
      <3>1. /\ UNCHANGED <<mail, senders, actor, client, broker>>
            /\ owner' = [owner EXCEPT ![s] = "ending"]
        BY <2>2 DEF OwnerDisconnectsQuietly
      <3>2. ClientInv'
        BY <1>1, <3>1 DEF ClientInv, Served, Requested, Single, InHand, Locked, Line
      <3>3. LineTyped' /\ Full'
        BY <1>1, <3>1 DEF TypeOK, LineTyped, Full
      <3> QED
        BY <1>1, <3>1, <3>2, <3>3 DEF TypeOK
    <2> QED
      BY <2>1, <2>2
  <1>5. /\ commands' \in [Sessions -> Seq(Commands)]
        /\ \A t \in Sessions : Len(commands'[t]) <= OwnerCap
        /\ \A t \in Sessions \ {s} : Inputs(t)' = Inputs(t)
    BY <1>1, <1>2, Takings
  <1>6. \A t \in Sessions : \/ owner'[t] = "ending"
                            \/ owner'[t] = owner[t] /\ Inputs(t)' = Inputs(t)
    BY <1>4, <1>5
  <1>7. OwnerInv'
    BY <1>1, <1>3, <1>6, OwnersKeep
  <1>8. ActorTyped' /\ OwnerTyped' /\ ClientTyped'
    BY <1>1, <1>3, <1>4, <1>5 DEF TypeOK, ActorTyped, OwnerTyped, ClientTyped
  <1> QED
    BY <1>4, <1>7, <1>8, TypedNext DEF IInv

(* The events of the socket. *)
LEMMA OwnerEventStep ==
    ASSUME IInv, NEW s \in Sessions, OwnerReads(s) \/ OwnerMeetsEnd(s)
    PROVE  IInv'
  <1>1. TypeOK /\ ClientInv /\ OwnerInv /\ Full
    BY DEF IInv
  <1>2. UNCHANGED <<actor, commands, state, ack, client, broker>>
    BY DEF OwnerReads, OwnerMeetsEnd
  <1>3. /\ LineTyped' /\ Full' /\ ClientInv'
        /\ owner' \in [Sessions -> {"run", "ending"}]
        /\ \A t \in Sessions : owner'[t] = "ending" \/ owner'[t] = owner[t]
    <2>1. CASE OwnerReads(s)
      <3> DEFINE m == [kind |-> "OwnerOutput", from |-> s, session |-> s]
      <3>1. m \in Messages /\ m.from \notin Clients /\ Send(m) /\ owner' = owner
        BY <2>1, TelnetMailboxAssumption DEF Messages, OwnerReads
      <3> HIDE DEF m
      <3>2. LineTyped' /\ Full' /\ Line' = Append(Line, m)
        BY <1>1, <3>1, Joins
      <3>3. ClientInv'
        BY <1>1, <1>2, <3>1, <3>2, ReportJoins
      <3> QED
        BY <1>1, <3>1, <3>2, <3>3 DEF TypeOK
    <2>2. CASE OwnerMeetsEnd(s)
      <3>1. Closes(s)
        BY <2>2 DEF OwnerMeetsEnd
      <3>2. /\ LineTyped' /\ Full' /\ ClientInv'
            /\ owner' \in [Sessions -> {"run", "ending"}] /\ owner'[s] = "ending"
            /\ \A t \in Sessions \ {s} : owner'[t] = owner[t]
        BY <1>2, <3>1, Closing
      <3> QED
        BY <3>2
    <2> QED
      BY <2>1, <2>2
  <1>4. \A t \in Sessions : Inputs(t)' = Inputs(t)
    BY <1>2 DEF Inputs
  <1>5. OwnerInv'
    BY <1>1, <1>2, <1>3, <1>4, OwnersKeep
  <1>6. ActorTyped' /\ OwnerTyped' /\ ClientTyped'
    BY <1>1, <1>2, <1>3 DEF TypeOK, ActorTyped, OwnerTyped, ClientTyped
  <1> QED
    BY <1>3, <1>5, <1>6, TypedNext DEF IInv

(* A client sends its request. *)
LEMMA ClientStep ==
    ASSUME IInv, NEW c \in Clients, NEW s \in Sessions, NEW k \in Requests,
           \/ k = "Input" /\ ClientInput(c, s)
           \/ ClientRequest(c, s, k)
    PROVE  IInv'
  <1> DEFINE m == [kind |-> k, from |-> c, session |-> s]
  <1>1. TypeOK /\ ClientInv /\ OwnerInv /\ Full
    BY DEF IInv
  <1>2. m \in Messages /\ m.from = c /\ m.kind = k
    BY DEF Messages
  <1>3. /\ client[c] = "idle" /\ Send(m) /\ client' = [client EXCEPT ![c] = k]
        /\ UNCHANGED <<actor, owner, commands, state, ack>>
    BY DEF ClientInput, ClientRequest
  <1>4. \/ k = "Input" /\ broker = None /\ broker' = c
        \/ k # "Input" /\ broker' = broker
    BY DEF ClientInput, ClientRequest
  <1> HIDE DEF m
  <1>5. LineTyped' /\ Full' /\ Line' = Append(Line, m)
    BY <1>1, <1>2, <1>3, Joins
  <1>6. Served' /\ Requested' /\ Single' /\ InHand'
    BY <1>1, <1>2, <1>3, <1>5, RequestJoins
  <1>7. client'[c] = k /\ \A d \in Clients \ {c} : client'[d] = client[d]
    BY <1>1, <1>3 DEF TypeOK
  <1>8. Locked'
    <2>1. Locked /\ None \notin Clients
      BY <1>1, TelnetMailboxAssumption DEF ClientInv
    <2>2. CASE k = "Input"
      BY <1>4, <1>7, <2>1, <2>2 DEF Locked
    <2>3. CASE k # "Input"
      BY <1>3, <1>4, <1>7, <2>1, <2>3 DEF Locked
    <2> QED
      BY <2>2, <2>3
  <1>9. ClientTyped'
    BY <1>1, <1>3, <1>4 DEF TypeOK, ClientTyped
  <1>10. ActorTyped' /\ OwnerTyped'
    BY <1>1, <1>3 DEF TypeOK, ActorTyped, OwnerTyped
  <1>11. \A t \in Sessions : owner'[t] = owner[t] /\ Inputs(t)' = Inputs(t)
    BY <1>3 DEF Inputs
  <1>12. OwnerInv'
    BY <1>1, <1>3, <1>11, OwnersKeep
  <1> QED
    BY <1>5, <1>6, <1>8, <1>9, <1>10, <1>12, TypedNext DEF IInv, ClientInv

--------------------------------------------------------------------------------
(* The theorems. *)

LEMMA Initially == Init => IInv
  <1> SUFFICES ASSUME Init PROVE IInv
    OBVIOUS
  <1>1. TypeOK
    BY TelnetMailboxAssumption DEF Init, TypeOK, Receiving, Requests
  <1>2. Full
    BY DEF Init, Full
  <1>3. Line = <<>> /\ DOMAIN Line = {}
    BY ConcatEmptySeq DEF Init, Line
  <1>4. ClientInv
    BY <1>3, TelnetMailboxAssumption
       DEF Init, ClientInv, Served, Requested, Single, InHand, Locked, Receiving
  <1>5. OwnerInv
    BY DEF Init, OwnerInv, InputAwaited, AckFresh, Owed, Inputs, Receiving
  <1> QED
    BY <1>1, <1>2, <1>4, <1>5 DEF IInv

LEMMA Inductive == IInv /\ [Next]_vars => IInv'
  <1> SUFFICES ASSUME IInv, [Next]_vars PROVE IInv'
    OBVIOUS
  <1>1. CASE RefuseInput \/ RefuseDisconnect \/ HandleOther
    <2>1. PICK k \in Requests :
            /\ Recv(k) /\ Reply(Head(mail).from)
            /\ UNCHANGED <<actor, owner, commands, state, ack>>
      BY <1>1 DEF RefuseInput, RefuseDisconnect, HandleOther, Requests
    <2> QED
      BY <2>1, OnlyAnswered
  <1>2. CASE ForwardInput
    BY <1>2, ForwardInputStep
  <1>3. CASE Acknowledged
    BY <1>3, AcknowledgedStep
  <1>4. CASE HandleDisconnect
    BY <1>4, HandleDisconnectStep
  <1>5. CASE HandleOutput \/ HandleClosed
    BY <1>5, ReportStep
  <1>6. CASE BeginShutdownAll
    BY <1>6, BeginShutdownAllStep
  <1>7. CASE ShutdownSettles \/ ShutdownTimesOut
    BY <1>7, ShutdownEnds
  <1>8. CASE \E s \in Sessions : OwnerObeys(s) \/ OwnerReads(s) \/ OwnerMeetsEnd(s)
    BY <1>8, OwnerWritesStep, OwnerDisconnectsStep, OwnerEventStep DEF OwnerObeys
  <1>9. CASE \E c \in Clients, s \in Sessions :
               ClientInput(c, s) \/ \E k \in Requests : ClientRequest(c, s, k)
    <2>1. PICK c \in Clients, s \in Sessions, k \in Requests :
            (k = "Input" /\ ClientInput(c, s)) \/ ClientRequest(c, s, k)
      BY <1>9 DEF Requests
    <2> QED
      BY <2>1, ClientStep
  <1>10. CASE UNCHANGED vars
    <2>1. /\ mail' = mail /\ senders' = senders /\ actor' = actor /\ owner' = owner
          /\ commands' = commands /\ state' = state /\ ack' = ack /\ client' = client
          /\ broker' = broker
      BY <1>10 DEF vars
    <2>2. TypeOK' /\ Full'
      BY <2>1 DEF IInv, TypeOK, Full
    <2>3. ClientInv'
      BY <2>1 DEF IInv, ClientInv, Served, Requested, Single, InHand, Locked, Line
    <2>4. OwnerInv'
      BY <2>1 DEF IInv, OwnerInv, InputAwaited, AckFresh, Owed, Inputs
    <2> QED
      BY <2>2, <2>3, <2>4 DEF IInv
  <1> QED
    BY <1>1, <1>2, <1>3, <1>4, <1>5, <1>6, <1>7, <1>8, <1>9, <1>10 DEF Next, ActorNext

LEMMA Invariantly == Spec => []IInv
  BY Initially, Inductive, PTL DEF Spec

(* The mailbox and every owner's queue stay within their capacities, and the       *)
(* tables of actor, owners and clients stay well formed (run_actor, run_owner).    *)
THEOREM TypeCorrect == Spec => []TypeOK
  <1>1. IInv => TypeOK
    BY DEF IInv
  <1> QED
    BY <1>1, Invariantly, PTL

(* While the actor waits in input or resize, its answer is there, the Input is in  *)
(* the owner's queue or the owner ends; and an owner that cannot get on finds the  *)
(* actor's mailbox full, whatever shutdowns, aborts and write failures came before. *)
THEOREM AckIsOwedHolds == Spec => []AckIsOwed
  <1>1. IInv => AckIsOwed
    <2> SUFFICES ASSUME IInv, actor.pc = "ack", ack = "none"
                 PROVE  LET s == actor.session IN
                        /\ \/ owner[s] = "ending"
                           \/ \E i \in DOMAIN commands[s] : commands[s][i] = "Input"
                        /\ Blocked(s) => Len(mail) = MailCap
      BY DEF AckIsOwed
    <2>1. \/ owner[actor.session] = "ending"
          \/ \E i \in DOMAIN commands[actor.session] : commands[actor.session][i] = "Input"
      BY DEF IInv, OwnerInv, Owed, Inputs
    <2>2. Blocked(actor.session) => Len(mail) = MailCap
      <3> SUFFICES ASSUME Blocked(actor.session) PROVE Len(mail) = MailCap
        OBVIOUS
      <3>1. senders # <<>>
        BY DEF Blocked
      <3> QED
        BY <3>1 DEF IInv, Full
    <2> QED
      BY <2>1, <2>2
  <1> QED
    BY <1>1, Invariantly, PTL

(* The mailbox and the queue of its senders lose, double and answer twice no       *)
(* request, not even when a shutdown aborts owners that wait among them, and the   *)
(* focus broker's lock is held exactly while the Input of its holder is pending.   *)
THEOREM RequestIsHeldHolds == Spec => []RequestIsHeld
  <1>1. IInv => RequestIsHeld
    <2> SUFFICES ASSUME IInv PROVE RequestIsHeld
      OBVIOUS
    <2>0. TypeOK /\ Served /\ Requested /\ Single /\ InHand /\ Locked
      BY DEF IInv, ClientInv
    <2>1. \A i \in DOMAIN Line : Line[i] \in Messages
      BY <2>0, LineIs
    <2>2. ASSUME NEW c \in Clients, client[c] = "idle"
          PROVE  actor.client # c /\ ~\E i \in DOMAIN Line : Line[i].from = c
      <3>1. actor.client # c
        <4>1. CASE actor.pc = "recv"
          BY <2>0, <4>1, TelnetMailboxAssumption DEF Served, Receiving
        <4>2. CASE actor.pc # "recv"
          <5>1. client[actor.client] \in {"Input", "ShutdownAll"}
            BY <2>0, <4>2 DEF TypeOK, Served
          <5> QED
            BY <2>2, <5>1
        <4> QED
          BY <4>1, <4>2
      <3>2. ASSUME NEW i \in DOMAIN Line, Line[i].from = c PROVE FALSE
        <4>1. Line[i].kind = "idle"
          BY <2>0, <2>2, <3>2 DEF Requested
        <4> QED
          BY <2>1, <4>1, Senders
      <3> QED
        BY <3>1, <3>2
    <2>3. ASSUME NEW c \in Clients, client[c] # "idle"
          PROVE  (actor.client = c) # (\E i \in DOMAIN Line : Line[i].from = c)
      <3>1. actor.client = c \/ \E i \in DOMAIN Line : Line[i].from = c
        BY <2>0, <2>3 DEF InHand
      <3>2. ASSUME actor.client = c, NEW i \in DOMAIN Line, Line[i].from = c PROVE FALSE
        BY <2>0, <3>2 DEF Requested
      <3> QED
        BY <3>1, <3>2
    <2>4. \A c \in Clients :
            LET inLine == \E i \in DOMAIN Line : Line[i].from = c
            IN  IF client[c] = "idle" THEN actor.client # c /\ ~inLine
                                      ELSE (actor.client = c) # inLine
      BY <2>2, <2>3
    <2> QED
      BY <2>0, <2>4 DEF RequestIsHeld, Single, Locked
  <1> QED
    BY <1>1, Invariantly, PTL

================================================================================
