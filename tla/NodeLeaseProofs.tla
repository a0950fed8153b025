-------------------------- MODULE NodeLeaseProofs --------------------------
(***************************************************************************)
(* Proofs about NodeLease for every set of clients, every TTL, grace and    *)
(* heartbeat that satisfy TimingAssumption, and every bound.                *)
(*                                                                         *)
(* A lease is known to four parties: etcd, the answer in the heartbeat      *)
(* coroutine, the service, and the clients with the events on their way to  *)
(* them.  LeaseInv says that none of the last three believes in the lease   *)
(* for longer than etcd keeps it, by a margin of Grace.  It is needed for   *)
(* all of them at once, because the belief travels along that chain.        *)
(*                                                                         *)
(* An epoch travels the same way.  HolderInv says that it has one lease and *)
(* one beginning, LossInv that whoever holds one that has ended, a client   *)
(* or an event on its way, has the loss of it behind it.                    *)
(***************************************************************************)
EXTENDS NodeLease, TLAPS

(* What etcd promises to whoever was confirmed at time d + Grace - TTL. *)
Backed(l, d) == d + Grace <= expiry[l]

(* The counters of leases and epochs. *)
EpochInv ==
    /\ beat.started <= now
    /\ svc.epoch <= granted
    /\ beat.pc = "grant" /\ beat.reply = "ok" => svc.epoch < granted
    /\ beat.reply = "ok" => beat.lease # 0

(* No belief in a lease outlives the lease, until shutdown revokes it. *)
ExpiryBound   == \A l \in Leases : expiry[l] <= now + TTL
ReplyBacked   == beat.reply = "ok" => beat.started + TTL <= expiry[beat.lease]
SvcBacked     == svc.lease # 0 => Backed(svc.lease, svc.deadline)
ClientsBacked == \A c \in Clients : cl[c].lease # 0 => Backed(cl[c].lease, cl[c].deadline)
EventsBacked  == \A c \in Clients : \A i \in 1 .. Len(chan[c]) :
                    chan[c][i].type = "alive" => Backed(chan[c][i].lease, chan[c][i].deadline)

LeaseInv == ~svc.closed =>
    ExpiryBound /\ ReplyBacked /\ SvcBacked /\ ClientsBacked /\ EventsBacked

IInv == TypeOK /\ EpochInv /\ LeaseInv

-----------------------------------------------------------------------------
LEMMA ConcatProperties ==
    ASSUME NEW S, NEW s \in Seq(S), NEW t \in Seq(S)
    PROVE  /\ s \o t \in Seq(S) /\ Len(s \o t) = Len(s) + Len(t)
           /\ \A j \in 1 .. Len(s) : (s \o t)[j] = s[j]
           /\ \A j \in 1 .. Len(t) : (s \o t)[Len(s) + j] = t[j]
OBVIOUS

(* Where the elements of a sequence are after an insertion. *)
LEMMA InsertAtPlaces ==
    ASSUME NEW S, NEW s \in Seq(S), NEW e \in S, NEW i \in 1 .. Len(s) + 1
    PROVE  /\ \A j \in DOMAIN InsertAt(s, i, e) :
                \/ j < i /\ j \in DOMAIN s /\ InsertAt(s, i, e)[j] = s[j]
                \/ j = i /\ InsertAt(s, i, e)[j] = e
                \/ j > i /\ j - 1 \in DOMAIN s /\ InsertAt(s, i, e)[j] = s[j - 1]
           /\ \A k \in DOMAIN s : /\ k < i => k \in DOMAIN InsertAt(s, i, e) /\ InsertAt(s, i, e)[k] = s[k]
                                  /\ k >= i => k + 1 \in DOMAIN InsertAt(s, i, e) /\ InsertAt(s, i, e)[k + 1] = s[k]
           /\ DOMAIN InsertAt(s, i, e) \subseteq Nat \ {0} /\ InsertAt(s, i, e) \in Seq(S)
<1> DEFINE front == SubSeq(s, 1, i - 1)
           back  == SubSeq(s, i, Len(s))
           f     == front \o <<e>>
           r     == InsertAt(s, i, e)
           n     == Len(s)
<1>1. /\ front \in Seq(S) /\ Len(front) = i - 1
      /\ \A j \in 1 .. i - 1 : front[j] = s[j]
  OBVIOUS
<1>2. /\ back \in Seq(S) /\ Len(back) = n - i + 1
      /\ \A j \in 1 .. n - i + 1 : back[j] = s[i + j - 1]
  OBVIOUS
<1>3. n \in Nat /\ DOMAIN s = 1 .. n /\ i \in 1 .. n + 1
  OBVIOUS
<1> HIDE DEF front, back
<1>4. f \in Seq(S) /\ Len(f) = i /\ \A j \in 1 .. i : f[j] = IF j = i THEN e ELSE s[j]
  BY <1>1
<1>5. r = f \o back
  BY DEF InsertAt, front, back
<1> HIDE DEF f, r, n
<1>6. /\ Len(r) = n + 1 /\ DOMAIN r = 1 .. n + 1
      /\ \A j \in 1 .. i : r[j] = f[j]
      /\ \A j \in 1 .. n - i + 1 : r[i + j] = back[j]
  <2>1. /\ Len(f \o back) = i + (n - i + 1) /\ f \o back \in Seq(S)
        /\ \A j \in 1 .. i : (f \o back)[j] = f[j]
        /\ \A j \in 1 .. n - i + 1 : (f \o back)[i + j] = back[j]
    BY <1>2, <1>3, <1>4, ConcatProperties
  <2>2. i + (n - i + 1) = n + 1
    BY <1>3
  <2>3. DOMAIN (f \o back) = 1 .. Len(f \o back)
    BY <2>1
  <2> QED BY <1>5, <2>1, <2>2, <2>3
<1>7. /\ \A j \in 1 .. i : j # i => j < i /\ j \in 1 .. n /\ r[j] = s[j]
      /\ r[i] = e
  BY <1>3, <1>4, <1>6
<1>8. ASSUME NEW j \in 1 .. n + 1, j > i
      PROVE  j - 1 \in 1 .. n /\ r[j] = s[j - 1]
  <2>1. j - i \in 1 .. n - i + 1 /\ i + (j - i) - 1 = j - 1 /\ j - 1 \in 1 .. n /\ i + (j - i) = j
    BY <1>3, <1>8
  <2> QED BY <1>2, <1>6, <2>1
<1>9. ASSUME NEW j \in DOMAIN r
      PROVE  \/ j < i /\ j \in DOMAIN s /\ r[j] = s[j]
             \/ j = i /\ r[j] = e
             \/ j > i /\ j - 1 \in DOMAIN s /\ r[j] = s[j - 1]
  <2>1. j \in 1 .. n + 1 /\ (j \in 1 .. i \/ j > i)
    BY <1>3, <1>6
  <2>2. CASE j \in 1 .. i
    BY <1>3, <1>7, <2>2
  <2> QED BY <1>3, <1>8, <2>1, <2>2
<1>10. ASSUME NEW k \in DOMAIN s
       PROVE  /\ k < i => k \in DOMAIN r /\ r[k] = s[k]
              /\ k >= i => k + 1 \in DOMAIN r /\ r[k + 1] = s[k]
  <2>1. k \in Nat /\ k \in 1 .. n /\ k \in 1 .. n + 1 /\ k + 1 \in 1 .. n + 1 /\ (k + 1) - 1 = k
    BY <1>3
  <2>2. CASE k < i
    <3>1. k \in 1 .. i /\ k # i
      BY <1>3, <2>1, <2>2
    <3>2. ~(k >= i)
      BY <1>3, <2>1, <2>2
    <3> QED BY <1>6, <1>7, <2>1, <3>1, <3>2
  <2>3. CASE k >= i
    <3>1. k + 1 > i /\ ~(k < i)
      BY <1>3, <2>1, <2>3
    <3>2. r[k + 1] = s[k]
      BY <1>8, <2>1, <3>1
    <3> QED BY <1>6, <2>1, <3>1, <3>2
  <2>4. k < i \/ k >= i
    BY <1>3, <2>1
  <2> QED BY <2>2, <2>3, <2>4
<1>11. DOMAIN r \subseteq Nat \ {0}
  BY <1>3, <1>6
<1>12. r \in Seq(S)
  BY <1>2, <1>4, <1>5, ConcatProperties
<1> QED BY <1>9, <1>10, <1>11, <1>12 DEF r

LEMMA InsertAtProperties ==
    ASSUME NEW S, NEW s \in Seq(S), NEW e \in S, NEW i \in 1 .. Len(s) + 1
    PROVE  /\ InsertAt(s, i, e) \in Seq(S)
           /\ \A j \in 1 .. Len(InsertAt(s, i, e)) :
                InsertAt(s, i, e)[j] = e \/ \E k \in 1 .. Len(s) : InsertAt(s, i, e)[j] = s[k]
<1> DEFINE r == InsertAt(s, i, e)
<1>a. /\ r \in Seq(S)
      /\ \A j \in DOMAIN r :
            \/ j < i /\ j \in DOMAIN s /\ r[j] = s[j]
            \/ j = i /\ r[j] = e
            \/ j > i /\ j - 1 \in DOMAIN s /\ r[j] = s[j - 1]
  BY InsertAtPlaces
<1> HIDE DEF r
<1>1. /\ r \in Seq(S)
      /\ \A j \in DOMAIN r : r[j] = e \/ \E k \in DOMAIN s : r[j] = s[k]
  BY <1>a
<1>2. DOMAIN s = 1 .. Len(s) /\ DOMAIN r = 1 .. Len(r)
  BY <1>1
<1>3. /\ r \in Seq(S)
      /\ \A j \in 1 .. Len(r) : r[j] = e \/ \E k \in 1 .. Len(s) : r[j] = s[k]
  BY <1>1, <1>2
<1> QED BY <1>3 DEF r

LEMMA PublishProperties ==
    ASSUME TypeOK, NEW e \in Event, Publish(e)
    PROVE  /\ chan' \in [Clients -> Seq(Event)]
           /\ \A c \in Clients : \A i \in 1 .. Len(chan'[c]) :
                chan'[c][i] = e \/ \E k \in 1 .. Len(chan[c]) : chan'[c][i] = chan[c][k]
<1>1. chan \in [Clients -> Seq(Event)]
  BY DEF TypeOK
<1>2. ASSUME NEW c \in Clients
      PROVE  /\ chan'[c] \in Seq(Event)
             /\ \A i \in 1 .. Len(chan'[c]) :
                  chan'[c][i] = e \/ \E k \in 1 .. Len(chan[c]) : chan'[c][i] = chan[c][k]
  <2>1. chan[c] \in Seq(Event)
    BY <1>1
  <2>2. CASE cl[c].phase # "off"
    <3>1. chan'[c] = Append(chan[c], e)
      BY <2>2 DEF Publish
    <3> QED  BY <2>1, <3>1
  <2>3. CASE cl[c].phase = "off"
    <3>1. chan'[c] = chan[c]
      BY <2>3 DEF Publish
    <3> QED  BY <2>1, <3>1
  <2> QED  BY <2>2, <2>3
<1>3. chan' = [c \in Clients |-> chan'[c]]
  BY DEF Publish
<1> QED  BY <1>2, <1>3

(* The new state of the service makes a well-formed event. *)
LEMMA AliveEventType ==
    ASSUME NEW s \in Service, s.lease # 0
    PROVE  AliveEvent(s) \in Alive
BY DEF AliveEvent, Alive, Service, Lease0, Leases

-----------------------------------------------------------------------------
(* Type correctness, with the counters it depends on. *)

USE TimingAssumption

LEMMA InitTypes == Init => TypeOK /\ EpochInv
BY DEF Init, TypeOK, EpochInv, Leases, Lease0, Epochs, Times, Service, Outcome, Beat, Client

LEMMA TypeStep ==
    ASSUME TypeOK, EpochInv, [Next]_vars
    PROVE  TypeOK' /\ EpochInv'
<1>n. now \in 0 .. MaxTime /\ granted \in Lease0 /\ expiry \in [Leases -> Times]
  BY DEF TypeOK
<1>s. svc \in Service
  BY DEF TypeOK
<1>b. beat \in Beat
  BY DEF TypeOK
<1>c. cl \in [Clients -> Client]
  BY DEF TypeOK
<1>h. chan \in [Clients -> Seq(Event)]
  BY DEF TypeOK
<1>f. fired \in [Clients -> SUBSET Epochs]
  BY DEF TypeOK
<1>z. /\ 0 \in Lease0 /\ 0 \in Times /\ 0 \in 0 .. MaxTime
      /\ now + Heartbeat \in Times /\ now + TTL \in Times /\ Leases \subseteq Lease0
  BY <1>n DEF Leases, Lease0, Times
<1>1. CASE Tick
  <2>1. beat.started \in Nat
    BY <1>b DEF Beat
  <2> QED  BY <1>1, <1>n, <2>1 DEF Tick, TypeOK, EpochInv
<1>2. CASE HeartbeatFires
  <2>1. beat' \in Beat /\ beat'.started = now /\ beat'.reply = "none"
    BY <1>2, <1>n, <1>s, <1>b, <1>z DEF HeartbeatFires, Beat, Service, Outcome
  <2> QED  BY <1>2, <1>n, <2>1 DEF HeartbeatFires, TypeOK, EpochInv
<1>3. CASE KeepaliveReturns
  <2>0. UNCHANGED <<now, expiry, granted, cl, fired>> /\ beat.pc = "keepalive"
    BY <1>3 DEF KeepaliveReturns
  <2>1. CASE Renewed
    <3>1. svc' = [svc EXCEPT !.deadline = RenewedDeadline] /\ beat' = [beat EXCEPT !.pc = "after"]
          /\ Publish(AliveEvent(svc')) /\ beat.lease = svc.lease /\ beat.lease # 0
      BY <2>1 DEF Renewed, EpochInv
    <3>2. RenewedDeadline \in Times
      BY <1>n, <1>b DEF RenewedDeadline, EpochInv, Beat, Times
    <3>3. svc' \in Service /\ svc'.lease = svc.lease /\ svc'.epoch = svc.epoch
      BY <1>s, <3>1, <3>2 DEF Service
    <3>4. AliveEvent(svc') \in Event
      BY <3>1, <3>3, AliveEventType DEF Event
    <3>5. chan' \in [Clients -> Seq(Event)]
      BY <3>1, <3>4, PublishProperties
    <3>6. beat' \in Beat /\ beat'.started = beat.started /\ beat'.pc = "after"
          /\ beat'.lease = beat.lease
      BY <1>b, <3>1 DEF Beat
    <3> QED  BY <2>0, <3>1, <3>3, <3>5, <3>6 DEF TypeOK, EpochInv
  <2>2. CASE LeaseGone \/ GraceElapsed
    <3>1. LoseLease /\ beat' = [beat EXCEPT !.pc = "after"]
      BY <2>2 DEF LeaseGone, GraceElapsed
    <3>2. svc' \in Service /\ svc'.epoch = svc.epoch
      BY <1>s, <1>z, <3>1 DEF LoseLease, Service
    <3>3. [type |-> "lost", epoch |-> svc.epoch] \in Event
      BY <1>s DEF Event, Lost, Service
    <3>4. chan' \in [Clients -> Seq(Event)]
      BY <3>1, <3>3, PublishProperties DEF LoseLease
    <3>5. beat' \in Beat /\ beat'.started = beat.started /\ beat'.pc = "after"
          /\ beat'.lease = beat.lease /\ beat'.reply = beat.reply
      BY <1>b, <3>1 DEF Beat
    <3> QED  BY <2>0, <3>2, <3>4, <3>5 DEF TypeOK, EpochInv
  <2>3. CASE Tolerated
    <3>1. beat' = [beat EXCEPT !.pc = "after"] /\ UNCHANGED <<svc, chan>>
      BY <2>3 DEF Tolerated
    <3>2. beat' \in Beat /\ beat'.started = beat.started /\ beat'.pc = "after"
          /\ beat'.lease = beat.lease /\ beat'.reply = beat.reply
      BY <1>b, <3>1 DEF Beat
    <3> QED  BY <2>0, <3>1, <3>2 DEF TypeOK, EpochInv
  <2>4. CASE DeadlineGone
    <3>1. beat' = IdleBeat /\ UNCHANGED <<svc, chan>>
      BY <2>4 DEF DeadlineGone
    <3>2. beat' \in Beat /\ beat'.started = 0 /\ beat'.reply = "none"
      BY <1>z, <3>1 DEF IdleBeat, Beat, Outcome
    <3> QED  BY <1>n, <2>0, <3>1, <3>2 DEF TypeOK, EpochInv
  <2> QED  BY <1>3, <2>1, <2>2, <2>3, <2>4 DEF KeepaliveReturns
<1>4. CASE AfterKeepalive
  <2>1. UNCHANGED <<now, expiry, granted, svc, cl, chan, fired>>
    BY <1>4 DEF AfterKeepalive
  <2>2. beat' \in Beat /\ beat'.started <= now /\ beat'.reply = "none"
    <3>1. CASE svc.lease = 0 /\ ~svc.closed
      <4>1. beat' = [beat EXCEPT !.pc = "grant", !.started = now, !.reply = "none", !.lease = 0]
        BY <1>4, <3>1 DEF AfterKeepalive
      <4>2. beat' \in Beat
        BY <1>n, <1>b, <1>z, <4>1 DEF Beat, Outcome
      <4>3. beat'.started = now /\ beat'.reply = "none"
        BY <1>b, <4>1 DEF Beat
      <4> QED  BY <1>n, <4>2, <4>3
    <3>2. CASE ~(svc.lease = 0 /\ ~svc.closed)
      BY <1>4, <1>n, <1>z, <3>2 DEF AfterKeepalive, IdleBeat, Beat, Outcome
    <3> QED  BY <3>1, <3>2
  <2> QED  BY <2>1, <2>2 DEF TypeOK, EpochInv
<1>5. CASE GrantReturns
  <2>0. UNCHANGED <<now, expiry, granted, cl, fired>> /\ beat.pc = "grant" /\ beat' = IdleBeat
    BY <1>5 DEF GrantReturns
  <2>1. beat' \in Beat /\ beat'.started = 0 /\ beat'.pc = "idle" /\ beat'.reply = "none"
    BY <1>z, <2>0 DEF IdleBeat, Beat, Outcome
  <2>2. CASE beat.reply = "ok"
    <3>1. /\ svc' = [svc EXCEPT !.lease = beat.lease, !.epoch = @ + 1,
                                 !.deadline = RenewedDeadline, !.up = TRUE]
          /\ Publish(AliveEvent(svc'))
      BY <1>5, <2>2 DEF GrantReturns
    <3>2. RenewedDeadline \in Times
      BY <1>n, <1>b DEF RenewedDeadline, EpochInv, Beat, Times
    <3>3. svc.epoch + 1 \in Epochs /\ svc.epoch + 1 <= granted /\ beat.lease \in Leases
      BY <1>n, <1>s, <1>b, <2>0, <2>2 DEF EpochInv, Beat, Service, Leases, Lease0, Epochs
    <3>4. svc' \in Service /\ svc'.lease = beat.lease /\ svc'.epoch = svc.epoch + 1
      BY <1>s, <1>z, <3>1, <3>2, <3>3 DEF Service
    <3>5. AliveEvent(svc') \in Event
      BY <3>3, <3>4, AliveEventType DEF Event, Leases
    <3>6. chan' \in [Clients -> Seq(Event)]
      BY <3>1, <3>5, PublishProperties
    <3> QED  BY <1>n, <2>0, <2>1, <3>3, <3>4, <3>6 DEF TypeOK, EpochInv
  <2>3. CASE beat.reply # "ok"
    <3>1. svc' = [svc EXCEPT !.up = TRUE] /\ chan' = chan
      BY <1>5, <2>3 DEF GrantReturns
    <3>2. svc' \in Service /\ svc'.epoch = svc.epoch
      BY <1>s, <3>1 DEF Service
    <3> QED  BY <1>n, <2>0, <2>1, <3>1, <3>2 DEF TypeOK, EpochInv
  <2> QED  BY <2>2, <2>3
<1>6. CASE Shutdown
  <2>1. PICK ok \in BOOLEAN :
          /\ svc' = [svc EXCEPT !.closed = TRUE, !.lease = 0, !.deadline = 0, !.revoked = ok]
          /\ expiry' = IF ok /\ svc.lease # 0 THEN [expiry EXCEPT ![svc.lease] = 0] ELSE expiry
    BY <1>6 DEF Shutdown
  <2>2. svc' \in Service /\ svc'.epoch = svc.epoch
    BY <1>s, <1>z, <2>1 DEF Service
  <2>3. expiry' \in [Leases -> Times]
    BY <1>n, <1>z, <2>1
  <2> QED  BY <1>6, <2>2, <2>3 DEF Shutdown, TypeOK, EpochInv
<1>7. CASE EtcdKeepalive
  <2>1. beat' \in Beat /\ beat'.started = beat.started /\ beat'.pc = "keepalive"
        /\ (beat'.reply = "ok" => beat'.lease # 0)
    BY <1>7, <1>b DEF EtcdKeepalive, InFlight, LeaseLive, Beat, Outcome
  <2>2. expiry' \in [Leases -> Times]
    BY <1>7, <1>n, <1>z DEF EtcdKeepalive
  <2> QED  BY <1>7, <2>1, <2>2 DEF EtcdKeepalive, TypeOK, EpochInv
<1>8. CASE EtcdGrant
  <2>1. granted' \in Lease0 /\ granted' = granted + 1 /\ granted + 1 \in Leases
    BY <1>8, <1>n DEF EtcdGrant, Leases, Lease0
  <2>2. beat' \in Beat /\ beat'.started = beat.started /\ beat'.lease = granted + 1
    BY <1>8, <1>b, <1>z, <2>1 DEF EtcdGrant, Beat, Outcome, Lease0
  <2>3. expiry' \in [Leases -> Times]
    BY <1>8, <1>n, <1>z DEF EtcdGrant
  <2>4. svc.epoch \in Nat /\ granted \in Nat /\ UNCHANGED svc
    BY <1>8, <1>n, <1>s DEF EtcdGrant, Service, Epochs, Lease0
  <2> QED  BY <1>8, <2>1, <2>2, <2>3, <2>4 DEF EtcdGrant, TypeOK, EpochInv
<1>9. CASE RequestFails
  <2>1. beat' \in Beat /\ beat'.started = beat.started /\ beat'.reply = "failed"
    BY <1>9, <1>b DEF RequestFails, Beat, Outcome
  <2> QED  BY <1>9, <2>1 DEF RequestFails, TypeOK, EpochInv
<1>10. ASSUME NEW c \in Clients, ClientStep(c)
       PROVE  TypeOK' /\ EpochInv'
  <2>0. cl[c] \in Client
    BY <1>c
  <2>1. CASE Subscribe(c)
    <3>1. cl' \in [Clients -> Client]
      BY <1>c, <2>0, <2>1 DEF Subscribe, Client
    <3> QED  BY <2>1, <3>1 DEF Subscribe, TypeOK, EpochInv
  <2>2. CASE GetSnapshot(c)
    <3>1. cl' \in [Clients -> Client]
      BY <1>c, <2>0, <2>2 DEF GetSnapshot, Client
    <3>2. UNCHANGED <<now, expiry, granted, beat, fired>>
      BY <2>2 DEF GetSnapshot
    <3>3. CASE svc.lease # 0 /\ LoseLease
      <4>1. svc' \in Service /\ svc'.epoch = svc.epoch
        BY <1>s, <1>z, <3>3 DEF LoseLease, Service
      <4>2. [type |-> "lost", epoch |-> svc.epoch] \in Event
        BY <1>s DEF Event, Lost, Service
      <4>3. chan' \in [Clients -> Seq(Event)]
        BY <3>3, <4>2, PublishProperties DEF LoseLease
      <4> QED  BY <3>1, <3>2, <4>1, <4>3 DEF TypeOK, EpochInv
    <3>4. ASSUME svc.lease # 0, svc' = svc, NEW i \in 1 .. Len(chan[c]) + 1,
                 chan' = [chan EXCEPT ![c] = InsertAt(@, i, AliveEvent(svc))]
          PROVE  TypeOK' /\ EpochInv'
      <4>1. AliveEvent(svc) \in Event
        BY <1>s, <3>4, AliveEventType DEF Event
      <4>2. InsertAt(chan[c], i, AliveEvent(svc)) \in Seq(Event)
        BY <1>h, <4>1, InsertAtProperties
      <4>3. chan' \in [Clients -> Seq(Event)]
        BY <1>h, <3>4, <4>2
      <4> QED  BY <3>1, <3>2, <3>4, <4>3 DEF TypeOK, EpochInv
    <3>5. CASE svc' = svc /\ chan' = chan
      BY <3>1, <3>2, <3>5 DEF TypeOK, EpochInv
    <3> QED  BY <2>2, <3>3, <3>4, <3>5 DEF GetSnapshot
  <2>3. CASE Deliver(c)
    <3>1. UNCHANGED <<now, expiry, granted, svc, beat>> /\ chan[c] # << >>
          /\ chan' = [chan EXCEPT ![c] = Tail(@)]
      BY <2>3 DEF Deliver
    <3>2. Head(chan[c]) \in Event /\ Tail(chan[c]) \in Seq(Event)
      BY <1>h, <3>1
    <3>3. chan' \in [Clients -> Seq(Event)]
      BY <1>h, <3>1, <3>2
    <3>4. CASE Head(chan[c]).type = "alive"
      <4> DEFINE e == Head(chan[c])
      <4>1. e \in Alive
        BY <3>2, <3>4 DEF Event, Lost
      <4>2. OnAlive(c, e)
        BY <2>3, <3>4 DEF Deliver
      <4>3. e.lease \in Lease0 /\ e.epoch \in Epochs /\ e.deadline \in Times
        BY <4>1, <1>z DEF Alive
      <4> HIDE DEF e
      <4>4. cl' \in [Clients -> Client]
        BY <1>c, <2>0, <4>2, <4>3 DEF OnAlive, Client
      <4>5. fired' \in [Clients -> SUBSET Epochs]
        BY <1>f, <2>0, <4>2 DEF OnAlive, Fire, Client
      <4> QED  BY <3>1, <3>3, <4>4, <4>5 DEF TypeOK, EpochInv
    <3>5. CASE Head(chan[c]).type # "alive"
      <4>1. OnLost(c, Head(chan[c]))
        BY <2>3, <3>5 DEF Deliver
      <4>2. Cleared(c) \in Client
        BY <2>0, <1>z DEF Cleared, Client
      <4>3. cl' \in [Clients -> Client]
        BY <1>c, <4>1, <4>2 DEF OnLost
      <4>4. fired' \in [Clients -> SUBSET Epochs]
        BY <1>f, <2>0, <4>1 DEF OnLost, Fire, Client
      <4> QED  BY <3>1, <3>3, <4>3, <4>4 DEF TypeOK, EpochInv
    <3> QED  BY <3>4, <3>5
  <2>4. CASE ValidFindsElapsed(c)
    <3>1. Cleared(c) \in Client
      BY <2>0, <1>z DEF Cleared, Client
    <3>2. cl' \in [Clients -> Client]
      BY <1>c, <2>4, <3>1 DEF ValidFindsElapsed
    <3>3. fired' \in [Clients -> SUBSET Epochs]
      BY <1>f, <2>0, <2>4 DEF ValidFindsElapsed, Fire, Client
    <3> QED  BY <2>4, <3>2, <3>3 DEF ValidFindsElapsed, TypeOK, EpochInv
  <2> QED  BY <1>10, <2>1, <2>2, <2>3, <2>4 DEF ClientStep
<1>11. CASE UNCHANGED vars
  BY <1>11 DEF vars, TypeOK, EpochInv
<1> QED
  BY <1>1, <1>2, <1>3, <1>4, <1>5, <1>6, <1>7, <1>8, <1>9, <1>10, <1>11
  DEF Next, ServiceStep, EtcdStep

(* Every variable keeps its type: in particular no epoch, lease or deadline *)
(* outgrows the leases etcd has granted and the time that has passed.       *)
THEOREM TypeCorrect == Spec => []TypeOK
<1>1. TypeOK /\ EpochInv /\ [Next]_vars => (TypeOK /\ EpochInv)'
  BY TypeStep
<1> QED  BY InitTypes, <1>1, PTL DEF Spec

-----------------------------------------------------------------------------
(* No belief in a lease outlives the lease. *)

LEMMA InitLease == Init => LeaseInv
BY DEF Init, LeaseInv, ExpiryBound, ReplyBacked, SvcBacked, ClientsBacked, EventsBacked, Leases

(* An event about a lease that etcd holds long enough may be published. *)
LEMMA PublishBacked ==
    ASSUME TypeOK, EventsBacked, expiry' = expiry, NEW e \in Event, Publish(e),
           e.type = "alive" => Backed(e.lease, e.deadline)
    PROVE  EventsBacked'
BY PublishProperties DEF EventsBacked, Backed

(* When etcd's dates only grow, what leant on them still does. *)
LEMMA ExpiryGrows ==
    ASSUME TypeOK, TypeOK', ReplyBacked, SvcBacked, ClientsBacked, EventsBacked, EpochInv,
           \A l \in Leases : expiry[l] <= expiry'[l], UNCHANGED <<svc, cl, chan>>
    PROVE  SvcBacked' /\ ClientsBacked' /\ EventsBacked'
<1>1. expiry \in [Leases -> Nat] /\ expiry' \in [Leases -> Nat]
  BY DEF TypeOK, Times
<1>2. ASSUME NEW l \in Leases, NEW d \in Times, Backed(l, d)
      PROVE  Backed(l, d)'
  BY <1>1, <1>2 DEF Backed, Times
<1>3. SvcBacked'
  <2>1. svc \in Service
    BY DEF TypeOK
  <2> QED  BY <1>2, <2>1 DEF SvcBacked, Service, Lease0, Leases, Backed
<1>4. ClientsBacked'
  <2>1. cl \in [Clients -> Client]
    BY DEF TypeOK
  <2> QED  BY <1>2, <2>1 DEF ClientsBacked, Client, Lease0, Leases, Backed
<1>5. EventsBacked'
  <2>1. SUFFICES ASSUME NEW c \in Clients, NEW i \in 1 .. Len(chan[c]),
                        chan[c][i].type = "alive"
                 PROVE  Backed(chan[c][i].lease, chan[c][i].deadline)'
    BY DEF EventsBacked
  <2>2. chan[c][i] \in Event
    BY DEF TypeOK
  <2>3. chan[c][i] \in Alive
    BY <2>1, <2>2 DEF Event, Lost
  <2> QED  BY <1>2, <2>1, <2>3 DEF EventsBacked, Alive, Backed
<1> QED  BY <1>3, <1>4, <1>5

LEMMA LeaseStep ==
    ASSUME TypeOK, EpochInv, LeaseInv, TypeOK', [Next]_vars
    PROVE  LeaseInv'
<1> SUFFICES ASSUME ~svc'.closed  PROVE LeaseInv'
  BY DEF LeaseInv
<1>n. now \in Nat /\ expiry \in [Leases -> Nat] /\ expiry' \in [Leases -> Nat]
  BY DEF TypeOK, Times
<1>s. svc \in Service /\ svc' \in Service
  BY DEF TypeOK
<1>b. beat \in Beat /\ beat' \in Beat
  BY DEF TypeOK
<1>c. cl \in [Clients -> Client]
  BY DEF TypeOK
<1>h. chan \in [Clients -> Seq(Event)]
  BY DEF TypeOK
<1> DEFINE I == ExpiryBound /\ ReplyBacked /\ SvcBacked /\ ClientsBacked /\ EventsBacked
<1>i. ~svc.closed => I
  BY DEF LeaseInv
<1>j. I' => LeaseInv'
  BY DEF LeaseInv
<1>1. CASE Tick
  <2>1. ~svc.closed
    BY <1>1 DEF Tick
  <2> QED  BY <1>1, <1>n, <1>i, <2>1
           DEF Tick, LeaseInv, ExpiryBound, ReplyBacked, SvcBacked, ClientsBacked, EventsBacked, Backed
<1>2. ASSUME UNCHANGED <<now, expiry, svc, cl, chan>>, beat'.reply # "ok"
      PROVE  LeaseInv'
  BY <1>2, <1>i DEF LeaseInv, ExpiryBound, ReplyBacked, SvcBacked, ClientsBacked, EventsBacked, Backed
<1>3. CASE HeartbeatFires
  BY <1>2, <1>3, <1>b DEF HeartbeatFires, Beat
<1>4. CASE AfterKeepalive
  <2>1. beat'.reply = "none"
    BY <1>4, <1>b DEF AfterKeepalive, IdleBeat, Beat
  <2> QED  BY <1>2, <1>4, <2>1 DEF AfterKeepalive
<1>5. CASE RequestFails
  BY <1>2, <1>5, <1>b DEF RequestFails, Beat
<1>6. ASSUME UNCHANGED <<now, expiry, cl>>, svc'.closed = svc.closed,
             beat'.reply = "ok" => beat' = [beat EXCEPT !.pc = "after"],
             (svc'.lease = svc.lease /\ svc'.deadline = svc.deadline) \/ Backed(svc'.lease, svc'.deadline)
                \/ svc'.lease = 0,
             \/ chan' = chan
             \/ LoseLease
             \/ Publish(AliveEvent(svc')) /\ Backed(svc'.lease, svc'.deadline) /\ svc'.lease # 0
      PROVE  LeaseInv'
  <2>1. I
    BY <1>6, <1>i
  <2>2. ReplyBacked'
    BY <1>6, <1>b, <2>1 DEF ReplyBacked, Beat
  <2>3. SvcBacked'
    BY <1>6, <2>1 DEF SvcBacked, Backed
  <2>4. EventsBacked'
    <3>1. CASE chan' = chan
      BY <1>6, <2>1, <3>1 DEF EventsBacked, Backed
    <3>2. CASE LoseLease
      <4>1. [type |-> "lost", epoch |-> svc.epoch] \in Event
        BY <1>s DEF Event, Lost, Service
      <4> QED  BY <1>6, <2>1, <3>2, <4>1, PublishBacked DEF LoseLease
    <3>3. CASE Publish(AliveEvent(svc')) /\ Backed(svc'.lease, svc'.deadline) /\ svc'.lease # 0
      <4>1. AliveEvent(svc') \in Event
        BY <1>s, <3>3, AliveEventType DEF Event
      <4>2. Backed(AliveEvent(svc').lease, AliveEvent(svc').deadline)
        BY <3>3 DEF AliveEvent
      <4> QED  BY <1>6, <2>1, <3>3, <4>1, <4>2, PublishBacked
    <3> QED  BY <1>6, <3>1, <3>2, <3>3
  <2> QED  BY <1>6, <1>j, <2>1, <2>2, <2>3, <2>4 DEF ExpiryBound, ClientsBacked, Backed
<1>7. ASSUME ~svc.closed, beat.reply = "ok", svc'.lease = beat.lease, svc'.deadline = RenewedDeadline
      PROVE  Backed(svc'.lease, svc'.deadline)
  <2>1. beat.started + TTL <= expiry[beat.lease] /\ beat.lease \in Leases /\ beat.started \in Nat
    BY <1>7, <1>i, <1>b DEF ReplyBacked, EpochInv, Beat, Lease0, Leases
  <2> QED  BY <1>7, <1>n, <2>1 DEF RenewedDeadline, Backed
<1>8. CASE KeepaliveReturns
  <2>0. UNCHANGED <<now, expiry, cl>>
    BY <1>8 DEF KeepaliveReturns
  <2>1. CASE Renewed
    <3>1. /\ svc' = [svc EXCEPT !.deadline = RenewedDeadline] /\ beat.lease = svc.lease
          /\ beat.reply = "ok" /\ beat.lease # 0 /\ beat' = [beat EXCEPT !.pc = "after"]
          /\ Publish(AliveEvent(svc'))
      BY <2>1 DEF Renewed, EpochInv
    <3>2. svc'.lease = svc.lease /\ svc'.deadline = RenewedDeadline /\ svc'.closed = svc.closed
      BY <1>s, <3>1 DEF Service
    <3> QED  BY <1>6, <1>7, <2>0, <3>1, <3>2
  <2>2. CASE LeaseGone \/ GraceElapsed
    <3>1. LoseLease /\ beat' = [beat EXCEPT !.pc = "after"]
      BY <2>2 DEF LeaseGone, GraceElapsed
    <3>2. svc'.lease = 0 /\ svc'.closed = svc.closed
      BY <1>s, <3>1 DEF LoseLease, Service
    <3> QED  BY <1>6, <2>0, <3>1, <3>2
  <2>3. CASE Tolerated
    BY <1>6, <2>0, <2>3 DEF Tolerated
  <2>4. CASE DeadlineGone
    BY <1>2, <2>0, <2>4, <1>b DEF DeadlineGone, IdleBeat
  <2> QED  BY <1>8, <2>1, <2>2, <2>3, <2>4 DEF KeepaliveReturns
<1>9. CASE GrantReturns
  <2>0. UNCHANGED <<now, expiry, cl>> /\ beat.pc = "grant" /\ beat'.reply = "none"
    BY <1>9 DEF GrantReturns, IdleBeat
  <2>1. CASE beat.reply = "ok"
    <3>1. /\ svc' = [svc EXCEPT !.lease = beat.lease, !.epoch = @ + 1,
                                 !.deadline = RenewedDeadline, !.up = TRUE]
          /\ Publish(AliveEvent(svc')) /\ beat.lease # 0
      BY <1>9, <2>1 DEF GrantReturns, EpochInv
    <3>2. svc'.lease = beat.lease /\ svc'.deadline = RenewedDeadline /\ svc'.closed = svc.closed
      BY <1>s, <3>1 DEF Service
    <3> QED  BY <1>6, <1>7, <2>0, <2>1, <3>1, <3>2
  <2>2. CASE beat.reply # "ok"
    <3>1. svc' = [svc EXCEPT !.up = TRUE] /\ chan' = chan
      BY <1>9, <2>2 DEF GrantReturns
    <3>2. svc'.lease = svc.lease /\ svc'.deadline = svc.deadline /\ svc'.closed = svc.closed
      BY <1>s, <3>1 DEF Service
    <3> QED  BY <1>6, <2>0, <3>1, <3>2
  <2> QED  BY <2>1, <2>2
<1>10. CASE Shutdown
  BY <1>10, <1>s DEF Shutdown, Service
<1>11. CASE EtcdKeepalive \/ EtcdGrant
  <2>0. UNCHANGED <<now, svc, cl, chan>> /\ I
    BY <1>11, <1>i DEF EtcdKeepalive, EtcdGrant
  <2>1. /\ \A l \in Leases : expiry[l] <= expiry'[l]
        /\ ExpiryBound'
    BY <1>11, <1>n, <2>0 DEF EtcdKeepalive, EtcdGrant, ExpiryBound
  <2>2. ReplyBacked'
    <3>1. beat.started \in Nat /\ beat.started <= now
      BY <1>b DEF Beat, EpochInv
    <3>2. CASE EtcdKeepalive
      <4>1. beat'.reply = "ok" => /\ LeaseLive(beat.lease) /\ beat' = [beat EXCEPT !.reply = "ok"]
                                  /\ expiry' = [expiry EXCEPT ![beat.lease] = now + TTL]
        BY <1>b, <3>2 DEF EtcdKeepalive, Beat
      <4>2. beat.lease # 0 => beat.lease \in Leases
        BY <1>b DEF Beat, Lease0, Leases
      <4> QED  BY <1>n, <1>b, <3>1, <4>1, <4>2 DEF ReplyBacked, LeaseLive, Beat
    <3>3. CASE EtcdGrant
      <4>1. /\ beat' = [beat EXCEPT !.reply = "ok", !.lease = granted + 1]
            /\ expiry' = [expiry EXCEPT ![granted + 1] = now + TTL] /\ granted + 1 \in Leases
        BY <3>3 DEF EtcdGrant, TypeOK, Lease0, Leases
      <4>2. beat'.lease = granted + 1 /\ beat'.started = beat.started
        BY <1>b, <4>1 DEF Beat
      <4> QED  BY <1>n, <3>1, <4>1, <4>2 DEF ReplyBacked
    <3> QED  BY <1>11, <3>2, <3>3
  <2> QED  BY <1>j, <2>0, <2>1, <2>2, ExpiryGrows
<1>12. ASSUME NEW c \in Clients, ClientStep(c)
       PROVE  LeaseInv'
  <2>c. cl[c] \in Client
    BY <1>c
  <2>1. CASE Subscribe(c)
    <3>1. /\ UNCHANGED <<now, expiry, svc, beat, chan>>
          /\ \A d \in Clients : cl'[d].lease = cl[d].lease /\ cl'[d].deadline = cl[d].deadline
      BY <2>1, <2>c, <1>c DEF Subscribe, Client
    <3> QED  BY <1>i, <1>j, <3>1 DEF ExpiryBound, ReplyBacked, SvcBacked, ClientsBacked, EventsBacked, Backed
  <2>2. CASE GetSnapshot(c)
    <3>1. /\ UNCHANGED <<now, expiry, beat>>
          /\ \A d \in Clients : cl'[d].lease = cl[d].lease /\ cl'[d].deadline = cl[d].deadline
      BY <2>2, <2>c, <1>c DEF GetSnapshot, Client
    <3>2. I /\ svc'.closed = svc.closed
      BY <1>s, <1>i, <2>2 DEF GetSnapshot, LoseLease, Service
    <3>3. ExpiryBound' /\ ReplyBacked' /\ ClientsBacked'
      BY <3>1, <3>2 DEF ExpiryBound, ReplyBacked, ClientsBacked, Backed
    <3>4. CASE LoseLease
      <4>1. svc'.lease = 0
        BY <1>s, <3>4 DEF LoseLease, Service
      <4>2. [type |-> "lost", epoch |-> svc.epoch] \in Event
        BY <1>s DEF Event, Lost, Service
      <4>3. EventsBacked'
        BY <3>1, <3>2, <3>4, <4>2, PublishBacked DEF LoseLease
      <4> QED  BY <1>j, <3>3, <4>1, <4>3 DEF SvcBacked
    <3>5. ASSUME svc.lease # 0, svc' = svc, NEW i \in 1 .. Len(chan[c]) + 1,
                 chan' = [chan EXCEPT ![c] = InsertAt(@, i, AliveEvent(svc))]
          PROVE  LeaseInv'
      <4>1. AliveEvent(svc) \in Event /\ Backed(AliveEvent(svc).lease, AliveEvent(svc).deadline)
        BY <1>s, <3>2, <3>5, AliveEventType DEF Event, SvcBacked, AliveEvent
      <4>2. \A j \in 1 .. Len(chan'[c]) :
              chan'[c][j] = AliveEvent(svc) \/ \E k \in 1 .. Len(chan[c]) : chan'[c][j] = chan[c][k]
        <5>1. chan[c] \in Seq(Event) /\ chan'[c] = InsertAt(chan[c], i, AliveEvent(svc))
          BY <1>h, <3>5
        <5> DEFINE e == AliveEvent(svc)
                   s == chan[c]
        <5>2. e \in Event /\ s \in Seq(Event) /\ i \in 1 .. Len(s) + 1
          BY <3>5, <4>1, <5>1
        <5> HIDE DEF e, s
        <5>3. \A j \in 1 .. Len(InsertAt(s, i, e)) :
                InsertAt(s, i, e)[j] = e \/ \E k \in 1 .. Len(s) : InsertAt(s, i, e)[j] = s[k]
          BY <5>2, InsertAtProperties
        <5> QED BY <5>1, <5>3 DEF e, s
      <4>3. \A d \in Clients : d # c => chan'[d] = chan[d]
        BY <1>h, <3>5
      <4>4. ASSUME NEW d \in Clients, NEW j \in 1 .. Len(chan'[d]), chan'[d][j].type = "alive"
            PROVE  Backed(chan'[d][j].lease, chan'[d][j].deadline)
        <5>1. chan'[d][j] = AliveEvent(svc) \/ \E k \in 1 .. Len(chan[d]) : chan'[d][j] = chan[d][k]
          BY <4>2, <4>3
        <5> QED BY <3>2, <4>1, <4>4, <5>1 DEF EventsBacked
      <4>5. EventsBacked'
        BY <3>1, <4>4 DEF EventsBacked, Backed
      <4> QED  BY <1>j, <3>1, <3>2, <3>3, <3>5, <4>5 DEF SvcBacked, Backed
    <3>6. CASE svc' = svc /\ chan' = chan
      BY <1>j, <3>1, <3>2, <3>3, <3>6 DEF SvcBacked, EventsBacked, Backed
    <3> QED  BY <2>2, <3>4, <3>5, <3>6 DEF GetSnapshot
  <2>3. CASE Deliver(c)
    <3>0. /\ UNCHANGED <<now, expiry, svc, beat>> /\ chan[c] # << >>
          /\ chan' = [chan EXCEPT ![c] = Tail(@)] /\ I
      BY <2>3, <1>i DEF Deliver
    <3>1. EventsBacked'
      <4>1. \A d \in Clients : \A j \in 1 .. Len(chan'[d]) :
              \E k \in 1 .. Len(chan[d]) : chan'[d][j] = chan[d][k]
        <5>1. chan[c] \in Seq(Event) /\ chan'[c] = Tail(chan[c])
          BY <1>h, <3>0
        <5>2. \A j \in 1 .. Len(Tail(chan[c])) :
                /\ Tail(chan[c])[j] = chan[c][j + 1] /\ j + 1 \in 1 .. Len(chan[c])
          BY <3>0, <5>1
        <5>3. \A d \in Clients : d # c => chan'[d] = chan[d]
          BY <1>h, <3>0
        <5> QED  BY <5>1, <5>2, <5>3
      <4> QED  BY <3>0, <4>1 DEF EventsBacked, Backed
    <3>2. ClientsBacked'
      <4>0. \A d \in Clients : d # c => cl'[d] = cl[d]
        BY <2>3, <1>c DEF Deliver, OnAlive, OnLost
      <4>1. CASE Head(chan[c]).type = "alive"
        <5> DEFINE e == Head(chan[c])
        <5>1. e = chan[c][1] /\ 1 \in 1 .. Len(chan[c])
          BY <1>h, <3>0
        <5>2. Backed(e.lease, e.deadline)
          BY <3>0, <4>1, <5>1 DEF EventsBacked
        <5>3. OnAlive(c, e)
          BY <2>3, <4>1 DEF Deliver
        <5> HIDE DEF e
        <5>4. cl'[c].lease = e.lease /\ cl'[c].deadline = e.deadline
          BY <2>c, <1>c, <5>3 DEF OnAlive, Client
        <5> QED  BY <3>0, <4>0, <5>2, <5>4 DEF ClientsBacked, Backed
      <4>2. CASE Head(chan[c]).type # "alive"
        <5>1. OnLost(c, Head(chan[c]))
          BY <2>3, <4>2 DEF Deliver
        <5>2. cl'[c] = cl[c] \/ cl'[c].lease = 0
          BY <2>c, <1>c, <5>1 DEF OnLost, Cleared, Client
        <5> QED  BY <3>0, <4>0, <5>2 DEF ClientsBacked, Backed
      <4> QED  BY <4>1, <4>2
    <3> QED  BY <1>j, <3>0, <3>1, <3>2 DEF ExpiryBound, ReplyBacked, SvcBacked, Backed
  <2>4. CASE ValidFindsElapsed(c)
    <3>1. /\ UNCHANGED <<now, expiry, svc, beat, chan>> /\ I
          /\ \A d \in Clients : cl'[d] = cl[d] \/ cl'[d].lease = 0
      BY <2>4, <2>c, <1>c, <1>i DEF ValidFindsElapsed, Cleared, Client
    <3> QED  BY <1>j, <3>1 DEF ExpiryBound, ReplyBacked, SvcBacked, ClientsBacked, EventsBacked, Backed
  <2> QED  BY <1>12, <2>1, <2>2, <2>3, <2>4 DEF ClientStep
<1>13. CASE UNCHANGED vars
  BY <1>13, <1>i DEF vars, LeaseInv, ExpiryBound, ReplyBacked, SvcBacked, ClientsBacked, EventsBacked, Backed
<1> QED
  BY <1>1, <1>3, <1>4, <1>5, <1>8, <1>9, <1>10, <1>11, <1>12, <1>13
  DEF Next, ServiceStep, EtcdStep

-----------------------------------------------------------------------------
LEMMA Inductive == Spec => []IInv
<1>1. Init => IInv
  BY InitTypes, InitLease DEF IInv
<1>2. IInv /\ [Next]_vars => IInv'
  BY TypeStep, LeaseStep DEF IInv
<1> QED  BY <1>1, <1>2, PTL DEF Spec

(* While the service has not been shut down, a client whose valid() answers *)
(* true holds a lease that etcd still keeps, with Grace to spare.           *)
THEOREM ValidLeaseIsLiveAlways == Spec => []ValidLeaseIsLive
<1>1. IInv => ValidLeaseIsLive
  <2> SUFFICES ASSUME IInv, NEW c \in Clients, Valid(c), ~svc.closed
               PROVE  LeaseLive(cl[c].lease)
    BY DEF ValidLeaseIsLive
  <2>1. cl[c].lease # 0 /\ cl[c].deadline + Grace <= expiry[cl[c].lease]
    BY DEF IInv, LeaseInv, ClientsBacked, Backed, Valid
  <2>2. cl[c] \in Client /\ now \in Nat /\ expiry \in [Leases -> Nat]
    BY DEF IInv, TypeOK, Times
  <2>3. cl[c].deadline \in Nat /\ cl[c].lease \in Leases
    BY <2>1, <2>2 DEF Client, Times, Lease0, Leases
  <2> QED  BY <2>1, <2>2, <2>3 DEF Valid, LeaseLive
<1> QED  BY <1>1, Inductive, PTL

-----------------------------------------------------------------------------
(* Who holds which epoch: the client itself, the events on their way to it,  *)
(* and the service.                                                          *)

Holder(c, i, x, l) ==
    \/ i = 0 /\ cl[c].lease # 0 /\ x = cl[c].epoch /\ l = cl[c].lease
    \/ i \in DOMAIN chan[c] /\ chan[c][i].type = "alive" /\ x = chan[c][i].epoch /\ l = chan[c][i].lease

Holds(c, x, l) == \/ \E i \in Nat : Holder(c, i, x, l)
                  \/ svc.lease # 0 /\ x = svc.epoch /\ l = svc.lease

Ended(x) == x # svc.epoch \/ svc.lease = 0

(* The loss of epoch x is on its way behind the i-th event. *)
LostAfter(c, i, x) ==
    \E j \in DOMAIN chan[c] : j > i /\ chan[c][j].type = "lost" /\ chan[c][j].epoch = x

(* An epoch has one lease, and none is held before the service has begun it. *)
HolderInv ==
    /\ beat.pc = "grant" => svc.lease = 0
    /\ \A c \in Clients : cl[c].phase = "off" => chan[c] = << >> /\ cl[c].lease = 0
    /\ \A c \in Clients : \A x, l : Holds(c, x, l) => x <= svc.epoch
    /\ \A c \in Clients : \A x, l, m : Holds(c, x, l) /\ Holds(c, x, m) => l = m

(* Whoever holds an epoch that has ended will hear of it. *)
LossInv == ~svc.closed =>
    \A c \in Clients : \A i \in Nat : \A x, l : Holder(c, i, x, l) /\ Ended(x) => LostAfter(c, i, x)

(* What a step does to the service, the events and the clients. *)
KeptClients ==
    \A c \in Clients : /\ cl'[c].epoch = cl[c].epoch /\ cl'[c].lease = cl[c].lease
                       /\ cl'[c].phase = "off" => cl[c].phase = "off"

Still ==
    /\ chan' = chan /\ svc'.lease = svc.lease /\ svc'.epoch = svc.epoch /\ svc'.closed = svc.closed
    /\ \A c \in Clients : /\ cl'[c].epoch = cl[c].epoch
                          /\ cl'[c].lease = cl[c].lease \/ (cl'[c].lease = 0 /\ cl[c].epoch \in fired'[c])
                          /\ cl'[c].phase = "off" => cl[c].phase = "off"

Closes == chan' = chan /\ cl' = cl /\ svc'.lease = 0 /\ svc'.epoch = svc.epoch /\ svc'.closed

Loses == LoseLease /\ KeptClients

Takes ==
    /\ Publish(AliveEvent(svc')) /\ cl' = cl /\ svc'.lease # 0 /\ svc'.closed = svc.closed
    /\ \/ svc'.lease = svc.lease /\ svc'.epoch = svc.epoch
       \/ svc.lease = 0 /\ svc'.epoch = svc.epoch + 1

Shows(c) ==
    /\ svc' = svc /\ svc.lease # 0 /\ KeptClients /\ cl[c].phase # "off"
    /\ \E i \in 1 .. Len(chan[c]) + 1 : chan' = [chan EXCEPT ![c] = InsertAt(@, i, AliveEvent(svc))]

LEMMA StepIs ==
    ASSUME TypeOK, EpochInv, HolderInv, [Next]_vars
    PROVE  Still \/ Closes \/ Loses \/ Takes \/ \E c \in Clients : Shows(c) \/ Deliver(c)
<1>0. svc \in Service /\ cl \in [Clients -> Client] /\ beat \in Beat /\ fired \in [Clients -> SUBSET Epochs]
  BY DEF TypeOK
<1>1. CASE Tick \/ EtcdStep \/ HeartbeatFires \/ AfterKeepalive \/ UNCHANGED vars
  BY <1>1 DEF Tick, EtcdStep, EtcdKeepalive, EtcdGrant, RequestFails, HeartbeatFires, AfterKeepalive, vars, Still
<1>2. CASE KeepaliveReturns
  <2>0. cl' = cl
    BY <1>2 DEF KeepaliveReturns
  <2>1. CASE Renewed
    <3>1. svc' = [svc EXCEPT !.deadline = RenewedDeadline] /\ svc.lease # 0 /\ Publish(AliveEvent(svc'))
      BY <2>1 DEF Renewed, EpochInv
    <3>2. svc'.lease = svc.lease /\ svc'.epoch = svc.epoch /\ svc'.closed = svc.closed
      BY <1>0, <3>1 DEF Service
    <3> QED BY <2>0, <3>1, <3>2 DEF Takes
  <2>2. CASE LeaseGone \/ GraceElapsed
    BY <2>0, <2>2 DEF LeaseGone, GraceElapsed, Loses, KeptClients
  <2>3. CASE Tolerated \/ DeadlineGone
    BY <2>0, <2>3 DEF Tolerated, DeadlineGone, Still
  <2> QED BY <1>2, <2>1, <2>2, <2>3 DEF KeepaliveReturns
<1>3. CASE GrantReturns
  <2>0. cl' = cl /\ svc.lease = 0
    BY <1>3 DEF GrantReturns, HolderInv
  <2>1. CASE beat.reply = "ok"
    <3>1. svc' = [svc EXCEPT !.lease = beat.lease, !.epoch = @ + 1, !.deadline = RenewedDeadline, !.up = TRUE]
          /\ beat.lease # 0 /\ Publish(AliveEvent(svc'))
      BY <1>3, <2>1 DEF GrantReturns, EpochInv
    <3>2. svc'.lease = beat.lease /\ svc'.epoch = svc.epoch + 1 /\ svc'.closed = svc.closed
      BY <1>0, <3>1 DEF Service
    <3> QED BY <2>0, <3>1, <3>2 DEF Takes
  <2>2. CASE beat.reply # "ok"
    <3>1. svc' = [svc EXCEPT !.up = TRUE] /\ chan' = chan
      BY <1>3, <2>2 DEF GrantReturns
    <3>2. svc'.lease = svc.lease /\ svc'.epoch = svc.epoch /\ svc'.closed = svc.closed
      BY <1>0, <3>1 DEF Service
    <3> QED BY <2>0, <3>1, <3>2 DEF Still
  <2> QED BY <2>1, <2>2
<1>4. CASE Shutdown
  BY <1>0, <1>4 DEF Shutdown, Closes, Service
<1>5. ASSUME NEW c \in Clients, ClientStep(c)
      PROVE  Still \/ Loses \/ Shows(c) \/ Deliver(c)
  <2>1. CASE Subscribe(c)
    BY <1>0, <2>1 DEF Subscribe, Still, Client
  <2>2. CASE GetSnapshot(c)
    <3>1. KeptClients /\ cl[c].phase # "off"
      BY <1>0, <2>2 DEF GetSnapshot, KeptClients, Client
    <3>2. CASE UNCHANGED <<svc, chan>>
      BY <3>1, <3>2 DEF Still, KeptClients
    <3>3. CASE LoseLease
      BY <3>1, <3>3 DEF Loses
    <3>4. CASE svc.lease # 0 /\ svc' = svc
               /\ \E i \in 1 .. Len(chan[c]) + 1 : chan' = [chan EXCEPT ![c] = InsertAt(@, i, AliveEvent(svc))]
      BY <3>1, <3>4 DEF Shows
    <3> QED BY <2>2, <3>2, <3>3, <3>4 DEF GetSnapshot
  <2>3. CASE ValidFindsElapsed(c)
    <3>1. chan' = chan /\ svc' = svc /\ cl' = [cl EXCEPT ![c] = Cleared(c)]
          /\ fired' = [fired EXCEPT ![c] = @ \cup {cl[c].epoch}]
      BY <2>3 DEF ValidFindsElapsed, Fire
    <3>2. cl[c].epoch \in fired'[c]
      BY <1>0, <3>1
    <3>3. cl'[c] = Cleared(c) /\ \A d \in Clients : d # c => cl'[d] = cl[d]
      BY <1>0, <3>1
    <3>4. Cleared(c).lease = 0 /\ Cleared(c).epoch = cl[c].epoch /\ Cleared(c).phase = cl[c].phase
      BY <1>0 DEF Cleared, Client
    <3> QED BY <3>1, <3>2, <3>3, <3>4 DEF Still
  <2> QED BY <1>5, <2>1, <2>2, <2>3 DEF ClientStep
<1> QED BY <1>1, <1>2, <1>3, <1>4, <1>5 DEF Next, ServiceStep

-----------------------------------------------------------------------------
(* Where the events go. *)

LEMMA PublishPlaces ==
    ASSUME TypeOK, NEW e \in Event, Publish(e), NEW c \in Clients
    PROVE  /\ \A i \in DOMAIN chan'[c] :
                \/ i \in DOMAIN chan[c] /\ chan'[c][i] = chan[c][i]
                \/ i = Len(chan[c]) + 1 /\ chan'[c][i] = e /\ cl[c].phase # "off"
           /\ \A i \in DOMAIN chan[c] : i \in DOMAIN chan'[c] /\ chan'[c][i] = chan[c][i] /\ i < Len(chan[c]) + 1
           /\ cl[c].phase # "off" => Len(chan[c]) + 1 \in DOMAIN chan'[c] /\ chan'[c][Len(chan[c]) + 1] = e
           /\ Len(chan[c]) + 1 \in Nat /\ Len(chan[c]) + 1 > 0
<1>1. chan[c] \in Seq(Event)
  BY DEF TypeOK
<1>2. chan'[c] = IF cl[c].phase # "off" THEN Append(chan[c], e) ELSE chan[c]
  BY DEF Publish
<1> QED BY <1>1, <1>2

LEMMA DeliverPlaces ==
    ASSUME TypeOK, NEW c \in Clients, Deliver(c)
    PROVE  /\ 1 \in DOMAIN chan[c] /\ Head(chan[c]) = chan[c][1] /\ Head(chan[c]) \in Event
           /\ \A i \in DOMAIN chan'[c] : i \in Nat /\ i + 1 \in DOMAIN chan[c] /\ i # 0 /\ chan'[c][i] = chan[c][i + 1]
           /\ \A i \in DOMAIN chan[c] : i \in Nat /\ (i # 1 => i > 1 /\ i - 1 \in DOMAIN chan'[c] /\ i - 1 \in Nat
                                                                 /\ chan'[c][i - 1] = chan[c][i])
           /\ \A d \in Clients : d # c => chan'[d] = chan[d] /\ cl'[d] = cl[d]
           /\ svc' = svc /\ beat' = beat
<1>1. chan \in [Clients -> Seq(Event)] /\ cl \in [Clients -> Client]
  BY DEF TypeOK
<1>2. chan[c] \in Seq(Event) /\ chan[c] # << >> /\ chan' = [chan EXCEPT ![c] = Tail(@)] /\ svc' = svc /\ beat' = beat
  BY <1>1 DEF Deliver
<1>3. chan'[c] = Tail(chan[c]) /\ \A d \in Clients : d # c => chan'[d] = chan[d]
  BY <1>1, <1>2
<1>4. \A d \in Clients : d # c => cl'[d] = cl[d]
  BY <1>1 DEF Deliver, OnAlive, OnLost
<1> DEFINE s == chan[c]
<1>5. /\ 1 \in DOMAIN s /\ Head(s) = s[1] /\ Head(s) \in Event
      /\ \A i \in DOMAIN Tail(s) : i \in Nat /\ i + 1 \in DOMAIN s /\ i # 0 /\ Tail(s)[i] = s[i + 1]
      /\ \A i \in DOMAIN s : i \in Nat /\ (i # 1 => i > 1 /\ i - 1 \in DOMAIN Tail(s) /\ i - 1 \in Nat /\ Tail(s)[i - 1] = s[i])
  <2> HIDE DEF s
  <2>1. s \in Seq(Event) /\ s # << >>
    BY <1>2 DEF s
  <2>2. DOMAIN s = 1 .. Len(s) /\ Len(s) \in Nat /\ Len(s) # 0
    BY <2>1
  <2>3. DOMAIN Tail(s) = 1 .. (Len(s) - 1) /\ \A i \in 1 .. (Len(s) - 1) : Tail(s)[i] = s[i + 1]
    BY <2>1
  <2>4. Head(s) = s[1] /\ Head(s) \in Event
    BY <2>1
  <2>5. \A i \in 1 .. (Len(s) - 1) : i \in Nat /\ i + 1 \in 1 .. Len(s) /\ i # 0
    BY <2>2
  <2>6. \A i \in 1 .. Len(s) : i \in Nat /\ (i # 1 => i > 1 /\ i - 1 \in 1 .. (Len(s) - 1) /\ i - 1 \in Nat /\ (i - 1) + 1 = i)
    BY <2>2
  <2>7. 1 \in 1 .. Len(s)
    BY <2>2
  <2> QED BY <2>2, <2>3, <2>4, <2>5, <2>6, <2>7
<1> QED BY <1>2, <1>3, <1>4, <1>5

-----------------------------------------------------------------------------
(* Epochs are passed on, and begin with a grant. *)

Begins(x, l) == Takes /\ svc.lease = 0 /\ svc'.epoch = svc.epoch + 1 /\ x = svc.epoch + 1 /\ l = svc'.lease

LEMMA AliveEventIs == \A s : /\ AliveEvent(s).type = "alive" /\ AliveEvent(s).epoch = s.epoch /\ AliveEvent(s).lease = s.lease
BY DEF AliveEvent

LEMMA HoldsPass ==
    ASSUME TypeOK, TypeOK', EpochInv, HolderInv, [Next]_vars, NEW c \in Clients, NEW x, NEW l, Holds(c, x, l)'
    PROVE  Holds(c, x, l) \/ Begins(x, l)
<1>0. svc \in Service /\ svc' \in Service /\ chan \in [Clients -> Seq(Event)] /\ cl \in [Clients -> Client]
      /\ chan[c] \in Seq(Event)
  BY DEF TypeOK
<1>1. CASE Still
  <2>1. ASSUME NEW i \in Nat, Holder(c, i, x, l)' PROVE Holder(c, i, x, l)
    BY <1>1, <2>1 DEF Still, Holder
  <2> QED BY <1>1, <2>1 DEF Still, Holds
<1>2. CASE Closes
  <2>1. ASSUME NEW i \in Nat, Holder(c, i, x, l)' PROVE Holder(c, i, x, l)
    BY <1>2, <2>1 DEF Closes, Holder
  <2> QED BY <1>2, <2>1 DEF Closes, Holds
<1>3. CASE Loses
  <2> DEFINE e == [type |-> "lost", epoch |-> svc.epoch]
  <2>1. e \in Event /\ e.type = "lost" /\ Publish(e) /\ svc'.lease = 0 /\ svc'.epoch = svc.epoch
    BY <1>0, <1>3 DEF Loses, LoseLease, Event, Lost, Service
  <2> HIDE DEF e
  <2>2. ASSUME NEW i \in Nat, Holder(c, i, x, l)' PROVE Holder(c, i, x, l)
    <3>1. i \in DOMAIN chan'[c] /\ chan'[c][i].type = "alive" => i \in DOMAIN chan[c] /\ chan'[c][i] = chan[c][i]
      BY <2>1, PublishPlaces
    <3> QED BY <1>3, <2>2, <3>1 DEF Holder, Loses, KeptClients
  <2> QED BY <2>1, <2>2 DEF Holds
<1>4. CASE Takes
  <2> DEFINE e == AliveEvent(svc')
  <2>1. e \in Event /\ Publish(e) /\ e.epoch = svc'.epoch /\ e.lease = svc'.lease
    BY <1>0, <1>4, AliveEventType, AliveEventIs DEF Takes, Event
  <2> HIDE DEF e
  <2>2. ASSUME NEW i \in Nat, Holder(c, i, x, l)' PROVE Holder(c, i, x, l) \/ (x = svc'.epoch /\ l = svc'.lease)
    <3>1. i \in DOMAIN chan'[c] => (i \in DOMAIN chan[c] /\ chan'[c][i] = chan[c][i]) \/ chan'[c][i] = e
      BY <2>1, PublishPlaces
    <3> QED BY <1>4, <2>1, <2>2, <3>1 DEF Holder, Takes
  <2>3. Holds(c, x, l) \/ (x = svc'.epoch /\ l = svc'.lease)
    BY <2>2 DEF Holds
  <2> QED BY <1>4, <2>3 DEF Takes, Begins, Holds
<1>5. ASSUME NEW d \in Clients, Shows(d) PROVE Holds(c, x, l)
  <2>0. svc' = svc /\ svc.lease # 0 /\ KeptClients
    BY <1>5 DEF Shows
  <2> DEFINE e == AliveEvent(svc)
  <2>1. e \in Event /\ e.epoch = svc.epoch /\ e.lease = svc.lease
    BY <1>0, <2>0, AliveEventType, AliveEventIs DEF Event
  <2>2. PICK k \in 1 .. Len(chan[d]) + 1 : chan' = [chan EXCEPT ![d] = InsertAt(@, k, e)]
    BY <1>5 DEF Shows
  <2> HIDE DEF e
  <2>3. ASSUME NEW i \in DOMAIN chan'[c] PROVE chan'[c][i] = e \/ \E j \in DOMAIN chan[c] : chan'[c][i] = chan[c][j]
    <3>1. CASE c = d
      <4>1. chan'[c] = InsertAt(chan[c], k, e) /\ k \in 1 .. Len(chan[c]) + 1
        BY <1>0, <2>2, <3>1
      <4> QED BY <1>0, <2>1, <2>3, <4>1, InsertAtPlaces
    <3>2. CASE c # d
      <4>1. chan'[c] = chan[c]
        BY <1>0, <2>2, <3>2
      <4> QED BY <2>3, <4>1
    <3> QED BY <3>1, <3>2
  <2>4. \A j \in DOMAIN chan[c] : j \in Nat
    BY <1>0
  <2>5. ASSUME NEW i \in Nat, Holder(c, i, x, l)'
        PROVE  (\E j \in Nat : Holder(c, j, x, l)) \/ (x = svc.epoch /\ l = svc.lease)
    <3>1. CASE i = 0 /\ cl'[c].lease # 0 /\ x = cl'[c].epoch /\ l = cl'[c].lease
      BY <2>0, <3>1 DEF Holder, KeptClients
    <3>2. CASE i \in DOMAIN chan'[c] /\ chan'[c][i].type = "alive" /\ x = chan'[c][i].epoch /\ l = chan'[c][i].lease
      BY <2>1, <2>3, <2>4, <3>2 DEF Holder
    <3> QED BY <2>5, <3>1, <3>2 DEF Holder
  <2> QED BY <2>0, <2>5 DEF Holds
<1>6. ASSUME NEW d \in Clients, Deliver(d) PROVE Holds(c, x, l)
  <2>0. svc' = svc
    BY <1>6, DeliverPlaces
  <2>1. ASSUME NEW i \in Nat, Holder(c, i, x, l)' PROVE \E j \in Nat : Holder(c, j, x, l)
    <3>1. CASE c # d
      BY <1>6, <2>1, <3>1, DeliverPlaces DEF Holder
    <3>2. CASE c = d /\ i \in DOMAIN chan'[c] /\ chan'[c][i].type = "alive" /\ x = chan'[c][i].epoch /\ l = chan'[c][i].lease
      <4>1. i + 1 \in DOMAIN chan[c] /\ chan'[c][i] = chan[c][i + 1] /\ i + 1 \in Nat
        BY <1>6, <3>2, DeliverPlaces
      <4> QED BY <3>2, <4>1 DEF Holder
    <3>3. CASE c = d /\ i = 0 /\ cl'[c].lease # 0 /\ x = cl'[c].epoch /\ l = cl'[c].lease
      <4> DEFINE e == Head(chan[c])
      <4>1. 1 \in DOMAIN chan[c] /\ e = chan[c][1] /\ 1 \in Nat /\ cl[c] \in Client
        BY <1>0, <1>6, <3>3, DeliverPlaces
      <4>2. CASE e.type = "alive"
        <5>1. OnAlive(c, e)
          BY <1>6, <3>3, <4>2 DEF Deliver
        <5> HIDE DEF e
        <5>2. cl'[c].lease = e.lease /\ cl'[c].epoch = e.epoch
          BY <1>0, <4>1, <5>1 DEF OnAlive, Client
        <5> QED BY <3>3, <4>1, <4>2, <5>2 DEF Holder
      <4>3. CASE e.type # "alive"
        <5>1. OnLost(c, e)
          BY <1>6, <3>3, <4>3 DEF Deliver
        <5> HIDE DEF e
        <5>2. cl'[c] = cl[c] \/ cl'[c].lease = 0
          BY <1>0, <4>1, <5>1 DEF OnLost, Cleared, Client
        <5> QED BY <3>3, <5>2 DEF Holder
      <4> QED BY <4>2, <4>3
    <3> QED BY <2>1, <3>1, <3>2, <3>3 DEF Holder
  <2> QED BY <2>0, <2>1 DEF Holds
<1> QED BY <1>1, <1>2, <1>3, <1>4, <1>5, <1>6, StepIs

LEMMA HolderStep ==
    ASSUME TypeOK, TypeOK', EpochInv, HolderInv, [Next]_vars
    PROVE  HolderInv'
<1>0. svc \in Service /\ svc' \in Service /\ svc.epoch \in Nat /\ svc'.epoch \in Nat /\ beat \in Beat
      /\ cl \in [Clients -> Client] /\ chan \in [Clients -> Seq(Event)]
  BY DEF TypeOK, Service, Epochs
<1>1. (beat.pc = "grant" => svc.lease = 0)'
  <2>0. beat.pc = "grant" => svc.lease = 0
    BY DEF HolderInv
  <2>1. CASE Tick \/ EtcdStep \/ UNCHANGED vars
    BY <1>0, <2>0, <2>1 DEF Tick, EtcdStep, EtcdKeepalive, EtcdGrant, RequestFails, vars, Beat
  <2>2. CASE HeartbeatFires
    BY <1>0, <2>2 DEF HeartbeatFires, Beat
  <2>3. CASE KeepaliveReturns
    <3>1. beat' = [beat EXCEPT !.pc = "after"] \/ beat' = IdleBeat
      BY <2>3 DEF KeepaliveReturns, Renewed, LeaseGone, GraceElapsed, Tolerated, DeadlineGone
    <3> QED BY <1>0, <3>1 DEF IdleBeat, Beat
  <2>4. CASE AfterKeepalive
    BY <1>0, <2>4 DEF AfterKeepalive, IdleBeat, Beat
  <2>5. CASE GrantReturns
    BY <2>5 DEF GrantReturns, IdleBeat
  <2>6. CASE Shutdown
    BY <1>0, <2>6 DEF Shutdown, Service
  <2>7. ASSUME NEW c \in Clients, ClientStep(c) PROVE (beat.pc = "grant" => svc.lease = 0)'
    <3>1. beat' = beat /\ (svc' = svc \/ svc'.lease = 0)
      BY <1>0, <2>7, DeliverPlaces DEF ClientStep, Subscribe, GetSnapshot, ValidFindsElapsed, LoseLease, Service
    <3> QED BY <2>0, <3>1
  <2> QED BY <2>1, <2>2, <2>3, <2>4, <2>5, <2>6, <2>7 DEF Next, ServiceStep
<1>2. ASSUME NEW c \in Clients, cl'[c].phase = "off" PROVE chan'[c] = << >> /\ cl'[c].lease = 0
  <2>0. cl[c].phase = "off" => chan[c] = << >> /\ cl[c].lease = 0
    BY DEF HolderInv
  <2>1. CASE Still \/ Closes
    BY <1>2, <2>0, <2>1 DEF Still, Closes
  <2>2. CASE Loses \/ Takes
    BY <1>2, <2>0, <2>2 DEF Loses, LoseLease, Takes, KeptClients, Publish
  <2>3. ASSUME NEW d \in Clients, Shows(d) PROVE chan'[c] = << >> /\ cl'[c].lease = 0
    BY <1>0, <1>2, <2>0, <2>3 DEF Shows, KeptClients
  <2>4. ASSUME NEW d \in Clients, Deliver(d) PROVE chan'[c] = << >> /\ cl'[c].lease = 0
    <3>1. CASE c # d
      BY <1>2, <2>0, <2>4, <3>1, DeliverPlaces
    <3>2. CASE c = d
      <4>1. chan[c] # << >>
        BY <2>4, <3>2 DEF Deliver
      <4>2. cl'[c].phase = cl[c].phase
        BY <1>0, <2>4, <3>2 DEF Deliver, OnAlive, OnLost, Cleared, Client
      <4> QED BY <1>2, <2>0, <4>1, <4>2
    <3> QED BY <3>1, <3>2
  <2> QED BY <2>1, <2>2, <2>3, <2>4, StepIs
<1>3. svc.epoch <= svc'.epoch
  <2>1. svc'.epoch = svc.epoch \/ svc'.epoch = svc.epoch + 1
    BY <1>0, StepIs, DeliverPlaces DEF Still, Closes, Loses, LoseLease, Takes, Shows, Service
  <2> QED BY <1>0, <2>1
<1>4. ASSUME NEW c \in Clients, NEW x, NEW l, Holds(c, x, l)' PROVE x <= svc'.epoch
  <2>1. CASE Holds(c, x, l)
    <3>1. x <= svc.epoch
      BY <2>1 DEF HolderInv
    <3>2. x \in Nat
      BY <1>0, <2>1 DEF Holds, Holder, Client, Event, Alive, Lost, Epochs
    <3> QED BY <1>0, <1>3, <3>1, <3>2
  <2>2. CASE Begins(x, l)
    BY <1>0, <2>2 DEF Begins
  <2> QED BY <1>4, <2>1, <2>2, HoldsPass
<1>5. ASSUME NEW c \in Clients, NEW x, NEW l, NEW m, Holds(c, x, l)', Holds(c, x, m)' PROVE l = m
  <2>1. Begins(x, l) => ~Holds(c, x, m)
    BY <1>0 DEF Begins, HolderInv
  <2>2. Begins(x, m) => ~Holds(c, x, l)
    BY <1>0 DEF Begins, HolderInv
  <2>3. (Holds(c, x, l) \/ Begins(x, l)) /\ (Holds(c, x, m) \/ Begins(x, m))
    BY <1>5, HoldsPass
  <2> QED BY <2>1, <2>2, <2>3 DEF HolderInv, Begins
<1> QED BY <1>1, <1>2, <1>4, <1>5 DEF HolderInv

-----------------------------------------------------------------------------
(* The loss of an epoch that has ended is on its way to whoever holds it.    *)

LEMMA LossStep ==
    ASSUME TypeOK, TypeOK', EpochInv, HolderInv, LossInv, [Next]_vars
    PROVE  LossInv'
<1> SUFFICES ASSUME ~svc'.closed, NEW c \in Clients, NEW i \in Nat, NEW x, NEW l, Holder(c, i, x, l)', Ended(x)'
             PROVE  LostAfter(c, i, x)'
  BY DEF LossInv
<1>0. svc \in Service /\ svc' \in Service /\ chan \in [Clients -> Seq(Event)] /\ cl \in [Clients -> Client]
      /\ chan[c] \in Seq(Event) /\ svc.epoch \in Nat
  BY DEF TypeOK, Service, Epochs
<1>h. ASSUME ~svc.closed, NEW j \in Nat, Holder(c, j, x, l), Ended(x) PROVE LostAfter(c, j, x)
  BY <1>h DEF LossInv
<1>d. DOMAIN chan[c] = 1 .. Len(chan[c]) /\ Len(chan[c]) \in Nat
  BY <1>0
<1>1. CASE Still
  <2>1. ~svc.closed /\ Holder(c, i, x, l) /\ Ended(x)
    BY <1>1 DEF Still, Holder, Ended
  <2> QED BY <1>1, <1>h, <2>1 DEF Still, LostAfter
<1>2. CASE Closes
  BY <1>2 DEF Closes
<1>3. CASE Loses
  <2> DEFINE e == [type |-> "lost", epoch |-> svc.epoch]
  <2>1. e \in Event /\ e.type = "lost" /\ e.epoch = svc.epoch /\ Publish(e) /\ svc'.lease = 0 /\ svc'.epoch = svc.epoch
        /\ svc'.closed = svc.closed
    BY <1>0, <1>3 DEF Loses, LoseLease, Event, Lost, Service
  <2> HIDE DEF e
  <2>2. Holder(c, i, x, l) /\ i < Len(chan[c]) + 1 /\ cl[c].phase # "off"
    <3>1. i \in DOMAIN chan'[c] /\ chan'[c][i].type = "alive" => i \in DOMAIN chan[c] /\ chan'[c][i] = chan[c][i]
      BY <2>1, PublishPlaces
    <3>2. Holder(c, i, x, l)
      BY <1>3, <3>1 DEF Holder, Loses, KeptClients
    <3>3. i < Len(chan[c]) + 1
      BY <1>d, <3>2 DEF Holder
    <3>4. cl[c].phase # "off"
      BY <3>2 DEF HolderInv, Holder
    <3> QED BY <3>2, <3>3, <3>4
  <2>3. CASE x = svc.epoch
    BY <2>1, <2>2, <2>3, PublishPlaces DEF LostAfter
  <2>4. CASE x # svc.epoch
    <3>1. LostAfter(c, i, x)
      BY <1>h, <2>1, <2>2, <2>4 DEF Ended
    <3> QED BY <2>1, <3>1, PublishPlaces DEF LostAfter
  <2> QED BY <2>3, <2>4
<1>4. CASE Takes
  <2> DEFINE e == AliveEvent(svc')
  <2>1. e \in Event /\ Publish(e) /\ e.epoch = svc'.epoch /\ svc'.lease # 0 /\ svc'.closed = svc.closed /\ cl' = cl
    BY <1>0, <1>4, AliveEventType, AliveEventIs DEF Takes, Event
  <2> HIDE DEF e
  <2>2. x # svc'.epoch
    BY <2>1 DEF Ended
  <2>3. Holder(c, i, x, l)
    <3>1. i \in DOMAIN chan'[c] => (i \in DOMAIN chan[c] /\ chan'[c][i] = chan[c][i]) \/ chan'[c][i] = e
      BY <2>1, PublishPlaces
    <3> QED BY <2>1, <2>2, <3>1 DEF Holder
  <2>4. Ended(x)
    BY <1>4, <2>2 DEF Takes, Ended
  <2>5. LostAfter(c, i, x)
    BY <1>h, <2>1, <2>3, <2>4
  <2> QED BY <2>1, <2>5, PublishPlaces DEF LostAfter
<1>5. ASSUME NEW d \in Clients, Shows(d) PROVE LostAfter(c, i, x)'
  <2>0. svc' = svc /\ svc.lease # 0 /\ KeptClients /\ Ended(x)
    BY <1>5 DEF Shows, Ended
  <2> DEFINE e == AliveEvent(svc)
  <2>1. e \in Event /\ e.epoch = svc.epoch /\ e.type = "alive"
    BY <1>0, <2>0, AliveEventType, AliveEventIs DEF Event
  <2>2. PICK k \in 1 .. Len(chan[d]) + 1 : chan' = [chan EXCEPT ![d] = InsertAt(@, k, e)]
    BY <1>5 DEF Shows
  <2> HIDE DEF e
  <2>3. CASE c # d
    <3>1. chan'[c] = chan[c]
      BY <1>0, <2>2, <2>3
    <3>2. Holder(c, i, x, l)
      BY <2>0, <3>1 DEF Holder, KeptClients
    <3>3. LostAfter(c, i, x)
      BY <1>h, <2>0, <3>2
    <3> QED BY <3>1, <3>3 DEF LostAfter
  <2>4. CASE c = d
    <3> DEFINE s == chan[c]
               f == InsertAt(s, k, e)
    <3>1. chan'[c] = f /\ k \in 1 .. Len(s) + 1 /\ k \in Nat /\ k > 0
      BY <1>0, <2>2, <2>4
    <3>2. /\ \A j \in DOMAIN f : \/ j < k /\ j \in DOMAIN s /\ f[j] = s[j]
                                 \/ j = k /\ f[j] = e
                                 \/ j > k /\ j - 1 \in DOMAIN s /\ f[j] = s[j - 1]
          /\ \A j \in DOMAIN s : /\ j < k => j \in DOMAIN f /\ f[j] = s[j]
                                 /\ j >= k => j + 1 \in DOMAIN f /\ f[j + 1] = s[j]
          /\ DOMAIN f \subseteq Nat \ {0}
      BY <1>0, <2>1, <3>1, InsertAtPlaces
    <3> HIDE DEF f
    <3>3. i < k => Holder(c, i, x, l)
      BY <2>0, <2>1, <3>1, <3>2 DEF Holder, KeptClients
    <3>4. i > k => i - 1 \in Nat /\ Holder(c, i - 1, x, l)
      <4> SUFFICES ASSUME i > k PROVE i - 1 \in Nat /\ Holder(c, i - 1, x, l)
        OBVIOUS
      <4>1. i # 0 /\ i \in DOMAIN f /\ f[i].type = "alive" /\ x = f[i].epoch /\ l = f[i].lease
        BY <3>1 DEF Holder
      <4>2. i - 1 \in DOMAIN s /\ f[i] = s[i - 1] /\ i - 1 \in Nat
        BY <3>1, <3>2, <4>1
      <4> QED BY <4>1, <4>2 DEF Holder
    <3>5. i < k \/ i > k
      <4>1. CASE i = k
        <5>1. i # 0 /\ i \in DOMAIN f /\ x = f[i].epoch
          BY <3>1, <4>1 DEF Holder
        <5>2. f[i] = e
          BY <3>1, <3>2, <4>1, <5>1
        <5> QED BY <2>0, <2>1, <5>1, <5>2 DEF Ended
      <4> QED BY <3>1, <4>1
    <3>6. ASSUME NEW j \in Nat, Holder(c, j, x, l), (j = i /\ i < k) \/ (i > k /\ j = i - 1)
          PROVE  LostAfter(c, i, x)'
      <4>1. PICK n \in DOMAIN s : n > j /\ s[n].type = "lost" /\ s[n].epoch = x
        BY <1>h, <2>0, <3>6 DEF LostAfter
      <4>2. n \in Nat
        BY <1>0
      <4>3. CASE n < k
        <5>1. n \in DOMAIN f /\ f[n] = s[n]
          BY <3>2, <4>3
        <5>2. n > i
          BY <3>1, <3>6, <4>1, <4>2, <4>3
        <5> QED BY <3>1, <4>1, <5>1, <5>2 DEF LostAfter
      <4>4. CASE n >= k
        <5>1. n + 1 \in DOMAIN f /\ f[n + 1] = s[n]
          BY <3>2, <4>4
        <5>2. n + 1 > i
          BY <3>1, <3>6, <4>1, <4>2, <4>4
        <5> QED BY <3>1, <4>1, <5>1, <5>2 DEF LostAfter
      <4>5. n < k \/ n >= k
        BY <3>1, <4>2
      <4> QED BY <4>3, <4>4, <4>5
    <3> QED BY <3>3, <3>4, <3>5, <3>6
  <2> QED BY <2>3, <2>4
<1>6. ASSUME NEW d \in Clients, Deliver(d) PROVE LostAfter(c, i, x)'
  <2>0. svc' = svc /\ Ended(x) /\ ~svc.closed
    BY <1>6, DeliverPlaces DEF Ended
  <2>1. CASE c # d
    <3>1. Holder(c, i, x, l) /\ chan'[c] = chan[c]
      BY <1>6, <2>1, DeliverPlaces DEF Holder
    <3>2. LostAfter(c, i, x)
      BY <1>h, <2>0, <3>1
    <3> QED BY <3>1, <3>2 DEF LostAfter
  <2>2. CASE c = d
    <3> DEFINE e == Head(chan[c])
    <3>1. 1 \in DOMAIN chan[c] /\ e = chan[c][1] /\ e \in Event /\ cl[c] \in Client
      BY <1>0, <1>6, <2>2, DeliverPlaces
    <3>2. ASSUME NEW j \in Nat, Holder(c, j, x, l), j = i + 1 \/ (i = 0 /\ j = 0 /\ ~(e.type = "lost" /\ e.epoch = x))
          PROVE  LostAfter(c, i, x)'
      <4>1. PICK n \in DOMAIN chan[c] : n > j /\ chan[c][n].type = "lost" /\ chan[c][n].epoch = x
        BY <1>h, <2>0, <3>2 DEF LostAfter
      <4>2. n # 1 /\ n \in Nat
        BY <1>d, <3>1, <3>2, <4>1
      <4>3. n > 1 /\ n - 1 \in DOMAIN chan'[c] /\ chan'[c][n - 1] = chan[c][n]
        BY <1>6, <2>2, <4>2, DeliverPlaces
      <4>4. n - 1 > i
        BY <3>2, <4>1, <4>2, <4>3
      <4> QED BY <4>1, <4>3, <4>4 DEF LostAfter
    <3>3. CASE i # 0
      <4>1. i + 1 \in DOMAIN chan[c] /\ chan'[c][i] = chan[c][i + 1] /\ i + 1 \in Nat /\ chan'[c][i].type = "alive"
            /\ x = chan'[c][i].epoch /\ l = chan'[c][i].lease
        BY <1>6, <2>2, <3>3, DeliverPlaces DEF Holder
      <4>2. Holder(c, i + 1, x, l)
        BY <4>1 DEF Holder
      <4> QED BY <3>2, <4>1, <4>2
    <3>4. CASE i = 0
      <4>0. cl'[c].lease # 0 /\ x = cl'[c].epoch /\ l = cl'[c].lease
        BY <1>6, <2>2, <3>4, DeliverPlaces DEF Holder
      <4>1. CASE e.type = "alive"
        <5>1. OnAlive(c, e)
          BY <1>6, <2>2, <4>1 DEF Deliver
        <5> HIDE DEF e
        <5>2. cl'[c].lease = e.lease /\ cl'[c].epoch = e.epoch
          BY <1>0, <3>1, <5>1 DEF OnAlive, Client
        <5>3. Holder(c, 1, x, l)
          BY <3>1, <4>0, <4>1, <5>2 DEF Holder
        <5> QED BY <3>2, <3>4, <5>3
      <4>2. CASE e.type # "alive"
        <5>1. OnLost(c, e) /\ e.type = "lost"
          BY <1>6, <2>2, <3>1, <4>2 DEF Deliver, Event, Alive, Lost
        <5> HIDE DEF e
        <5>2. cl'[c] = cl[c] /\ ~(e.epoch = cl[c].epoch /\ cl[c].lease # 0)
          <6>1. CASE e.epoch = cl[c].epoch /\ cl[c].lease # 0
            <7>1. cl' = [cl EXCEPT ![c] = Cleared(c)]
              BY <5>1, <6>1 DEF OnLost
            <7>2. Cleared(c).lease = 0
              BY <3>1 DEF Cleared, Client
            <7>3. cl'[c].lease = 0
              BY <1>0, <7>1, <7>2
            <7> QED BY <4>0, <7>3
          <6> QED BY <5>1, <6>1 DEF OnLost
        <5>3. Holder(c, 0, x, l) /\ e.epoch # x
          BY <4>0, <5>2 DEF Holder
        <5> QED BY <3>2, <3>4, <5>3
      <4> QED BY <4>1, <4>2
    <3> QED BY <3>3, <3>4
  <2> QED BY <2>1, <2>2
<1> QED BY <1>1, <1>2, <1>3, <1>4, <1>5, <1>6, StepIs

LEMMA InitHolder == Init => HolderInv /\ LossInv
<1> SUFFICES ASSUME Init PROVE HolderInv /\ LossInv
  OBVIOUS
<1>1. /\ svc.lease = 0 /\ svc.epoch = 0
      /\ \A c \in Clients : cl[c].lease = 0 /\ chan[c] = << >>
  BY DEF Init
<1>2. \A c \in Clients : \A i, x, l : ~Holder(c, i, x, l)
  BY <1>1 DEF Holder
<1> QED BY <1>1, <1>2 DEF HolderInv, LossInv, Holds, Init

EventInv == TypeOK /\ EpochInv /\ HolderInv /\ LossInv

LEMMA EventAlways == Spec => []EventInv
<1>1. Init => EventInv
  BY InitTypes, InitHolder DEF EventInv
<1>2. EventInv /\ [Next]_vars => EventInv'
  <2> SUFFICES ASSUME EventInv, [Next]_vars PROVE EventInv'
    OBVIOUS
  <2>1. TypeOK /\ EpochInv /\ HolderInv /\ LossInv
    BY DEF EventInv
  <2>2. TypeOK' /\ EpochInv'
    BY <2>1, TypeStep
  <2> QED BY <2>1, <2>2, HolderStep, LossStep DEF EventInv
<1> QED BY <1>1, <1>2, PTL DEF Spec

(* A client that has worked off its events holds no lease that the service   *)
(* has given up, although the answer to its get may overtake events that     *)
(* were published before it (skynet.init of the client library, get and      *)
(* lose_lease of the service): whoever holds an epoch that has ended has its *)
(* loss before it.                                                           *)
THEOREM NoLossMissedAlways == Spec => []NoLossMissed
<1>1. EventInv => NoLossMissed
  <2> SUFFICES ASSUME EventInv, NEW c \in Clients, chan[c] = << >>, cl[c].lease # 0, ~svc.closed
               PROVE  cl[c].lease = svc.lease /\ cl[c].epoch = svc.epoch
    BY DEF NoLossMissed
  <2> DEFINE x == cl[c].epoch
             l == cl[c].lease
  <2>1. Holder(c, 0, x, l) /\ 0 \in Nat
    BY DEF Holder
  <2> HIDE DEF x, l
  <2>2. ~LostAfter(c, 0, x)
    BY DEF LostAfter
  <2>3. x = svc.epoch /\ svc.lease # 0
    BY <2>1, <2>2 DEF EventInv, LossInv, Ended
  <2>4. Holds(c, x, l) /\ Holds(c, x, svc.lease)
    BY <2>1, <2>3 DEF Holds
  <2>5. l = svc.lease
    BY <2>4 DEF EventInv, HolderInv
  <2> QED BY <2>3, <2>5 DEF x, l
<1> QED BY <1>1, EventAlways, PTL

(* A client whose lease changes, to none or to another, has told its         *)
(* subscribers that the epoch it held is lost (clear and on_lease_alive):    *)
(* an epoch never gets a second lease, so a new lease comes with a new epoch. *)
THEOREM NoEpochLeftUnreportedAlways == Spec => NoEpochLeftUnreported
<1>1. EventInv /\ [Next]_vars =>
         \A c \in Clients : cl[c].lease # 0 /\ cl'[c].lease # cl[c].lease => cl[c].epoch \in fired'[c]
  <2> SUFFICES ASSUME EventInv, [Next]_vars, NEW c \in Clients, cl[c].lease # 0, cl'[c].lease # cl[c].lease
               PROVE  cl[c].epoch \in fired'[c]
    OBVIOUS
  <2>0. TypeOK /\ EpochInv /\ HolderInv /\ cl \in [Clients -> Client] /\ fired \in [Clients -> SUBSET Epochs]
        /\ \A x : fired' = [fired EXCEPT ![c] = @ \cup {x}] => x \in fired'[c]
    BY DEF EventInv, TypeOK
  <2>1. CASE Still
    BY <2>1 DEF Still
  <2>2. CASE Closes \/ Loses \/ Takes \/ \E d \in Clients : Shows(d)
    BY <2>2 DEF Closes, Loses, Takes, Shows, KeptClients
  <2>3. ASSUME NEW d \in Clients, Deliver(d) PROVE cl[c].epoch \in fired'[c]
    <3> DEFINE e == Head(chan[c])
    <3>1. c = d /\ 1 \in DOMAIN chan[c] /\ e = chan[c][1] /\ 1 \in Nat /\ 0 \in Nat
      BY <2>0, <2>3, DeliverPlaces
    <3>2. CASE e.type = "alive"
      <4>1. OnAlive(c, e)
        BY <2>3, <3>1, <3>2 DEF Deliver
      <4>2. Holder(c, 1, e.epoch, e.lease) /\ Holder(c, 0, cl[c].epoch, cl[c].lease)
        BY <3>1, <3>2 DEF Holder
      <4>3. Holds(c, e.epoch, e.lease) /\ Holds(c, cl[c].epoch, cl[c].lease)
        BY <3>1, <4>2 DEF Holds
      <4> HIDE DEF e
      <4>4. cl'[c].lease = e.lease
        BY <2>0, <4>1 DEF OnAlive, Client
      <4>5. e.epoch # cl[c].epoch
        BY <2>0, <4>3, <4>4 DEF HolderInv
      <4> QED BY <2>0, <4>1, <4>5 DEF OnAlive, Fire
    <3>3. CASE e.type # "alive"
      <4>1. OnLost(c, e)
        BY <2>3, <3>1, <3>3 DEF Deliver
      <4> HIDE DEF e
      <4>2. e.epoch = cl[c].epoch /\ fired' = [fired EXCEPT ![c] = @ \cup {cl[c].epoch}]
        BY <4>1 DEF OnLost, Fire
      <4> QED BY <2>0, <4>2
    <3> QED BY <3>2, <3>3
  <2> QED BY <2>0, <2>1, <2>2, <2>3, StepIs
<1> QED BY <1>1, EventAlways, PTL DEF Spec, NoEpochLeftUnreported
=============================================================================
