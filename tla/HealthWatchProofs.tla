-------------------------- MODULE HealthWatchProofs --------------------------
(***************************************************************************)
(* Proofs about the health registry and its Watch streams, for any number  *)
(* of services, setters, watchers and events, and any channel capacity.    *)
(***************************************************************************)
EXTENDS HealthWatch, SequenceTheorems, TLAPS

USE HealthAssumption

-----------------------------------------------------------------------------
\* Types.

LEMMA CheckType ==
    ASSUME TypeOK, NEW n
    PROVE  Check(n) \in Statuses
BY DEF TypeOK, Check, Aggregate, Registered, Statuses

LEMMA SetterType ==
    ASSUME TypeOK, NEW t \in Setters, SetterNext(t)
    PROVE  TypeOK'
<1>1. ASSUME NEW n \in Names, NEW s \in Statuses, Insert(t, n, s)
      PROVE  TypeOK'
  <2>1. [name |-> n, status |-> s] \in Events
    BY DEF Events
  <2> QED
    BY <1>1, <2>1 DEF Insert, TypeOK, watch
<1>2. CASE Broadcast(t)
  <2>1. pending[t] \in Events
    BY <1>2 DEF Broadcast, TypeOK
  <2>2. Append(sent, pending[t]) \in Seq(Events)
    BY <2>1 DEF TypeOK
  <2> QED
    BY <1>2, <2>2 DEF Broadcast, TypeOK, watch
<1> QED
  BY <1>1, <1>2 DEF SetterNext

LEMMA WatcherType ==
    ASSUME TypeOK, NEW w \in Watchers, WatcherNext(w)
    PROVE  TypeOK'
<1> USE DEF Phases
<1>1. ASSUME NEW n \in Names, Subscribe(w, n)
      PROVE  TypeOK'
  <2>1. Len(sent) \in Nat
    BY DEF TypeOK
  <2> QED
    BY <1>1, <2>1 DEF Subscribe, TypeOK
<1>2. CASE ReadCurrent(w)
  BY <1>2, CheckType DEF ReadCurrent, TypeOK
<1>3. CASE ReportCurrent(w) \/ Lag(w)
  BY <1>3 DEF ReportCurrent, Lag, TypeOK
<1>4. CASE Receive(w)
  <2>1. pos[w] \in Nat /\ Len(sent) \in Nat /\ pos[w] + 1 \in 1..Len(sent)
    BY <1>4 DEF Receive, Unread, TypeOK
  <2>2. sent[pos[w] + 1].status \in Statuses
    <3>1. sent[pos[w] + 1] \in Events
      BY <2>1 DEF TypeOK
    <3> QED
      BY <3>1 DEF Events
  <2>3. pos' = [pos EXCEPT ![w] = pos[w] + 1]
    BY <1>4 DEF Receive
  <2>4. pos' \in [Watchers -> Nat]
    BY <2>1, <2>3 DEF TypeOK
  <2>5. PICK s \in Statuses \cup {None} : reported' = [reported EXCEPT ![w] = s]
    BY <1>4, <2>2 DEF Receive, TypeOK
  <2> QED
    BY <1>4, <2>4, <2>5 DEF Receive, TypeOK
<1> QED
  BY <1>1, <1>2, <1>3, <1>4 DEF WatcherNext, WatcherStep

\* Every variable of the registry and of the streams keeps its type
\* (health.rs:124-300).
THEOREM TypeCorrect == Spec => []TypeOK
<1>1. ASSUME Init
      PROVE  TypeOK
  <2>1. sent \in Seq(Events) /\ sets \in 0..MaxSets
    BY <1>1 DEF Init
  <2> QED
    BY <1>1, <2>1 DEF Init, TypeOK, Phases
<1>2. ASSUME TypeOK, [Next]_vars
      PROVE  TypeOK'
  <2>1. CASE UNCHANGED vars
    BY <1>2, <2>1 DEF vars, watch, TypeOK
  <2> QED
    BY <1>2, <2>1, SetterType, WatcherType DEF Next
<1> QED
  BY <1>1, <1>2, PTL DEF Spec

-----------------------------------------------------------------------------
\* The inductive invariant of the watchers, for services with one owner each.

\* A setter is between its insert and its broadcast.
PendingOn(n) == \E t \in Setters : pending[t] # None /\ pending[t].name = n

\* A pending event is its owner's, and is what the map holds.
PendingIsCurrent ==
    \A t \in Setters : pending[t] # None =>
        /\ pending[t].name \in MaySet[t]
        /\ pending[t].status = map[pending[t].name]

\* Nothing is sent before somebody subscribed, and nothing for "" at all.
ChannelOpened ==
    /\ ~opened => sent = <<>>
    /\ \A i \in 1..Len(sent) : sent[i].name # Overall
    /\ \A w \in Watchers : phase[w] # "idle" => opened /\ pos[w] <= Len(sent)

\* The last event sent for a service holds its status, unless another is pending.
LatestIsCurrent ==
    \A n \in Services : \A i \in 1..Len(sent) :
        /\ sent[i].name = n /\ ~PendingOn(n)
        /\ \A j \in i + 1..Len(sent) : sent[j].name # n
        => sent[i].status = map[n]

\* A watcher with no event for its service before it, on the channel or
\* pending, shows the service's status.
WatcherFollows ==
    \A w \in Watchers :
        /\ phase[w] \in {"current", "following"} /\ watched[w] \in Services
        /\ ~PendingOn(watched[w])
        /\ \A j \in pos[w] + 1..Len(sent) : sent[j].name # watched[w]
        => reported[w] = Check(watched[w])

WatchInv == PendingIsCurrent /\ ChannelOpened /\ LatestIsCurrent /\ WatcherFollows

\* What is known of the position of an event under TypeOK.
LEMMA EventType ==
    ASSUME TypeOK, NEW i \in 1..Len(sent)
    PROVE  sent[i].name \in Names /\ sent[i].status \in Statuses
<1>1. sent[i] \in Events
  BY DEF TypeOK
<1> QED
  BY <1>1 DEF Events

LEMMA SentAfter ==
    ASSUME TypeOK, NEW e \in Events, sent' = Append(sent, e)
    PROVE  /\ Len(sent) \in Nat /\ Len(sent') = Len(sent) + 1
           /\ sent'[Len(sent) + 1] = e
           /\ \A i \in 1..Len(sent) : sent'[i] = sent[i]
BY AppendProperties DEF TypeOK

LEMMA InsertKeeps ==
    ASSUME TypeOK, SingleOwners, WatchInv,
           NEW t \in Setters, NEW n \in Names, NEW s \in Statuses, Insert(t, n, s)
    PROVE  WatchInv'
<1> DEFINE e == [name |-> n, status |-> s]
<1>1. /\ pending[t] = None /\ n \in MaySet[t]
      /\ map' = [map EXCEPT ![n] = s] /\ pending' = [pending EXCEPT ![t] = e]
      /\ UNCHANGED <<opened, sent, phase, watched, pos, reported>>
  BY DEF Insert, watch
<1>2. e \in Events /\ e # None /\ e.name = n /\ e.status = s
  BY DEF Events
<1>3. PendingOn(n)'
  BY <1>1, <1>2 DEF PendingOn, TypeOK
<1>4. \A m : PendingOn(m) => PendingOn(m)'
  BY <1>1, <1>2 DEF PendingOn, TypeOK
<1>5. \A m \in Names : m # n => map'[m] = map[m]
  BY <1>1 DEF TypeOK
<1>6. PendingIsCurrent'
  <2> SUFFICES ASSUME NEW u \in Setters, pending'[u] # None
               PROVE  pending'[u].name \in MaySet[u] /\ pending'[u].status = map'[pending'[u].name]
    BY DEF PendingIsCurrent
  <2>1. CASE u = t
    BY <1>1, <1>2, <2>1 DEF TypeOK
  <2>2. CASE u # t
    <3>1. pending'[u] = pending[u] /\ pending[u].name \in MaySet[u]
          /\ pending[u].status = map[pending[u].name]
      BY <1>1, <2>2 DEF TypeOK, WatchInv, PendingIsCurrent
    <3>2. pending[u].name # n
      BY <1>1, <2>2, <3>1 DEF SingleOwners
    <3>3. pending[u].name \in Names
      BY <3>1 DEF TypeOK, Events
    <3> QED
      BY <1>5, <3>1, <3>2, <3>3
  <2> QED
    BY <2>1, <2>2
<1>7. ChannelOpened'
  BY <1>1 DEF WatchInv, ChannelOpened
<1>8. LatestIsCurrent'
  BY <1>1, <1>3, <1>4, <1>5 DEF WatchInv, LatestIsCurrent, Names
<1>9. WatcherFollows'
  <2>1. ASSUME NEW m \in Services, m # n
        PROVE  Check(m)' = Check(m)
    BY <1>5, <2>1 DEF Check, Registered, Names
  <2> QED
    BY <1>1, <1>3, <1>4, <2>1 DEF WatchInv, WatcherFollows
<1> QED
  BY <1>6, <1>7, <1>8, <1>9 DEF WatchInv

LEMMA BroadcastKeeps ==
    ASSUME TypeOK, SingleOwners, WatchInv, NEW t \in Setters, Broadcast(t)
    PROVE  WatchInv'
<1> DEFINE e == pending[t]
           n == e.name
<1>1. /\ pending[t] # None /\ pending' = [pending EXCEPT ![t] = None]
      /\ sent' = IF opened THEN Append(sent, e) ELSE sent
      /\ UNCHANGED <<map, opened, phase, watched, pos, reported>>
  BY DEF Broadcast, watch
<1>2. /\ e \in Events /\ n \in MaySet[t] /\ e.status = map[n]
      /\ n # Overall
  BY <1>1 DEF TypeOK, WatchInv, PendingIsCurrent, SingleOwners
<1>3. \A u \in Setters : u # t => pending'[u] = pending[u]
  BY <1>1 DEF TypeOK
<1>4. pending'[t] = None
  BY <1>1 DEF TypeOK
<1>5. \A m : m # n => (PendingOn(m)' <=> PendingOn(m))
  BY <1>1, <1>3, <1>4 DEF PendingOn
<1>6. \A m : Check(m)' = Check(m)
  BY <1>1 DEF Check, Aggregate, Has, Registered
<1>7. PendingIsCurrent'
  BY <1>1, <1>3, <1>4 DEF WatchInv, PendingIsCurrent
<1>8. CASE ~opened
  <2>1. sent = <<>> /\ sent' = <<>> /\ ~opened'
    BY <1>1, <1>8 DEF WatchInv, ChannelOpened
  <2>2. \A w \in Watchers : phase'[w] = "idle"
    BY <1>1, <1>8 DEF WatchInv, ChannelOpened
  <2> QED
    BY <1>7, <2>1, <2>2 DEF WatchInv, ChannelOpened, LatestIsCurrent, WatcherFollows
<1>9. CASE opened
  <2>1. /\ Len(sent) \in Nat /\ Len(sent') = Len(sent) + 1
        /\ sent'[Len(sent) + 1] = e
        /\ \A i \in 1..Len(sent) : sent'[i] = sent[i]
    BY <1>1, <1>2, <1>9, SentAfter
  <2>2. ChannelOpened'
    BY <1>1, <1>2, <1>9, <2>1 DEF WatchInv, ChannelOpened, TypeOK
  <2>3. LatestIsCurrent'
    <3> SUFFICES ASSUME NEW m \in Services, NEW i \in 1..Len(sent'),
                        sent'[i].name = m, ~PendingOn(m)',
                        \A j \in i + 1..Len(sent') : sent'[j].name # m
                 PROVE  sent'[i].status = map'[m]
      BY DEF LatestIsCurrent
    <3>1. CASE i = Len(sent) + 1
      BY <1>1, <1>2, <2>1, <3>1
    <3>2. CASE i # Len(sent) + 1
      <4>1. i \in 1..Len(sent) /\ sent'[i] = sent[i]
            /\ \A j \in i + 1..Len(sent) : sent[j].name # m
        BY <2>1, <3>2
      <4>2. m # n
        BY <2>1, <3>2
      <4> QED
        BY <1>1, <1>5, <4>1, <4>2 DEF WatchInv, LatestIsCurrent
    <3> QED
      BY <3>1, <3>2
  <2>4. WatcherFollows'
    <3> SUFFICES ASSUME NEW w \in Watchers,
                        phase[w] \in {"current", "following"}, watched[w] \in Services,
                        ~PendingOn(watched[w])',
                        \A j \in pos[w] + 1..Len(sent') : sent'[j].name # watched[w]
                 PROVE  reported[w] = Check(watched[w])
      BY <1>1, <1>6 DEF WatcherFollows
    <3>1. pos[w] \in Nat /\ pos[w] <= Len(sent)
      BY <1>1 DEF WatchInv, ChannelOpened, TypeOK
    <3>2. watched[w] # n
      BY <1>1, <2>1, <3>1
    <3>3. \A j \in pos[w] + 1..Len(sent) : sent[j].name # watched[w]
      BY <1>1, <2>1, <3>1
    <3> QED
      BY <1>1, <1>5, <1>6, <3>2, <3>3 DEF WatchInv, WatcherFollows
  <2> QED
    BY <1>7, <2>2, <2>3, <2>4 DEF WatchInv
<1> QED
  BY <1>8, <1>9

\* A step of a watcher does not touch the map, the setters or what was sent.
LEMMA WatcherKeeps ==
    ASSUME TypeOK, WatchInv, NEW w \in Watchers, WatcherNext(w)
    PROVE  WatchInv'
<1>1. UNCHANGED <<map, sent, pending>>
  BY DEF WatcherNext, WatcherStep, Subscribe, ReadCurrent, ReportCurrent, Receive, Lag
<1>2. \A n : (PendingOn(n)' <=> PendingOn(n)) /\ Check(n)' = Check(n)
  BY <1>1 DEF PendingOn, Check, Aggregate, Has, Registered
<1>3. PendingIsCurrent' /\ LatestIsCurrent'
  BY <1>1, <1>2 DEF WatchInv, PendingIsCurrent, LatestIsCurrent
<1>4. Len(sent) \in Nat /\ \A v \in Watchers : pos[v] \in Nat
  BY DEF TypeOK
<1>5. ASSUME NEW n \in Names, Subscribe(w, n)
      PROVE  ChannelOpened' /\ WatcherFollows'
  <2>1. /\ opened' /\ phase' = [phase EXCEPT ![w] = "subscribed"]
        /\ pos' = [pos EXCEPT ![w] = Len(sent)] /\ watched' = [watched EXCEPT ![w] = n]
        /\ reported' = reported
    BY <1>5 DEF Subscribe
  <2>2. ChannelOpened'
    BY <1>1, <1>4, <2>1 DEF WatchInv, ChannelOpened, TypeOK
  <2>3. WatcherFollows'
    BY <1>1, <1>2, <2>1 DEF WatchInv, WatcherFollows, TypeOK
  <2> QED
    BY <2>2, <2>3
<1>6. CASE ReadCurrent(w)
  <2>1. /\ phase[w] = "subscribed" /\ phase' = [phase EXCEPT ![w] = "current"]
        /\ reported' = [reported EXCEPT ![w] = Check(watched[w])]
        /\ UNCHANGED <<opened, watched, pos>>
    BY <1>6 DEF ReadCurrent
  <2>2. ChannelOpened'
    BY <1>1, <2>1 DEF WatchInv, ChannelOpened, TypeOK
  <2>3. WatcherFollows'
    BY <1>1, <1>2, <2>1 DEF WatchInv, WatcherFollows, TypeOK
  <2> QED
    BY <1>3, <2>2, <2>3 DEF WatchInv
<1>7. CASE ReportCurrent(w) \/ Lag(w)
  <2>1. /\ phase[w] \in {"current", "following"}
        /\ \/ phase[w] = "current" /\ phase' = [phase EXCEPT ![w] = "following"]
           \/ phase' = [phase EXCEPT ![w] = "ended"]
        /\ UNCHANGED <<opened, watched, pos, reported>>
    BY <1>7 DEF ReportCurrent, Lag
  <2>2. ChannelOpened'
    BY <1>1, <2>1 DEF WatchInv, ChannelOpened, TypeOK
  <2>3. WatcherFollows'
    BY <1>1, <1>2, <2>1 DEF WatchInv, WatcherFollows, TypeOK
  <2> QED
    BY <1>3, <2>2, <2>3 DEF WatchInv
<1>8. CASE Receive(w)
  <2> DEFINE p == pos[w] + 1
             e == sent[p]
  <2>1. p \in 1..Len(sent)
    BY <1>4, <1>8 DEF Receive, Unread
  <2>2. /\ phase[w] = "following" /\ pos' = [pos EXCEPT ![w] = p]
        /\ reported' = [reported EXCEPT ![w] =
                          IF e.name \in {watched[w], Overall} THEN e.status ELSE reported[w]]
        /\ UNCHANGED <<opened, phase, watched>>
    BY <1>8 DEF Receive
  <2>3. e.name # Overall
    BY <2>1 DEF WatchInv, ChannelOpened
  <2>4. ChannelOpened'
    BY <1>1, <1>4, <2>1, <2>2 DEF WatchInv, ChannelOpened, TypeOK
  <2>5. WatcherFollows'
    <3> SUFFICES ASSUME NEW v \in Watchers,
                        phase[v] \in {"current", "following"}, watched[v] \in Services,
                        ~PendingOn(watched[v]),
                        \A j \in pos'[v] + 1..Len(sent) : sent[j].name # watched[v]
                 PROVE  reported'[v] = Check(watched[v])
      BY <1>1, <1>2, <2>2 DEF WatcherFollows
    <3>1. CASE v # w
      <4>1. pos'[v] = pos[v] /\ reported'[v] = reported[v]
        BY <2>2, <3>1 DEF TypeOK
      <4> QED
        BY <4>1 DEF WatchInv, WatcherFollows
    <3>2. CASE v = w
      <4>1. pos'[w] = p /\ \A j \in p + 1..Len(sent) : sent[j].name # watched[w]
        BY <2>2, <3>2 DEF TypeOK
      <4>2. CASE e.name = watched[w]
        <5>1. e.status = map[watched[w]]
          BY <2>1, <3>2, <4>1, <4>2 DEF WatchInv, LatestIsCurrent
        <5>2. e.status \in Statuses
          BY <2>1, EventType
        <5>3. Check(watched[w]) = e.status
          BY <3>2, <5>1, <5>2 DEF Check, Registered, Names
        <5>4. reported'[w] = e.status
          BY <2>2, <4>2 DEF TypeOK
        <5> QED
          BY <3>2, <5>3, <5>4
      <4>3. CASE e.name # watched[w]
        <5>1. reported'[w] = reported[w]
          BY <2>2, <2>3, <4>3 DEF TypeOK
        <5>2. \A j \in pos[w] + 1..Len(sent) : sent[j].name # watched[w]
          BY <1>4, <2>1, <4>1, <4>3
        <5> QED
          BY <3>2, <5>1, <5>2 DEF WatchInv, WatcherFollows
      <4> QED
        BY <4>2, <4>3
    <3> QED
      BY <3>1, <3>2
  <2> QED
    BY <1>3, <2>4, <2>5 DEF WatchInv
<1> QED
  BY <1>3, <1>5, <1>6, <1>7, <1>8 DEF WatcherNext, WatcherStep, WatchInv

LEMMA WatchInvariant == ASSUME SingleOwners PROVE Spec => []WatchInv
<1>1. Init => WatchInv
  BY DEF Init, WatchInv, PendingIsCurrent, ChannelOpened, LatestIsCurrent, WatcherFollows
<1>2. ASSUME TypeOK, WatchInv, [Next]_vars
      PROVE  WatchInv'
  <2>1. CASE UNCHANGED vars
    <3>1. UNCHANGED <<map, opened, sent, pending, phase, watched, pos, reported>>
      BY <2>1 DEF vars, watch
    <3>2. \A n : (PendingOn(n)' <=> PendingOn(n)) /\ Check(n)' = Check(n)
      BY <3>1 DEF PendingOn, Check, Aggregate, Has, Registered
    <3> QED
      BY <1>2, <3>1, <3>2
      DEF WatchInv, PendingIsCurrent, ChannelOpened, LatestIsCurrent, WatcherFollows
  <2> QED
    BY <1>2, <2>1, InsertKeeps, BroadcastKeeps, WatcherKeeps DEF Next, SetterNext
<1> QED
  BY <1>1, <1>2, TypeCorrect, PTL DEF Spec

(***************************************************************************)
(* No lost update: where a service has one owner and nobody sets the       *)
(* overall status, a Watch of it that has read everything shows its status *)
(* (health.rs:152-158, 268-293).                                           *)
(***************************************************************************)
THEOREM NoLostUpdate == ASSUME SingleOwners PROVE Spec => []ServiceWatcherIsCurrent
<1>1. ASSUME TypeOK, WatchInv
      PROVE  ServiceWatcherIsCurrent
  <2> SUFFICES ASSUME NEW w \in Watchers, Settled(w), watched[w] \in Services
               PROVE  reported[w] = Check(watched[w])
    BY DEF ServiceWatcherIsCurrent
  <2>1. phase[w] = "following" /\ ~PendingOn(watched[w])
    BY DEF Settled, PendingOn
  <2>2. \A j \in pos[w] + 1..Len(sent) : FALSE
    BY <1>1 DEF Settled, Unread, TypeOK
  <2> QED
    BY <1>1, <2>1, <2>2 DEF WatchInv, WatcherFollows
<1> QED
  BY <1>1, TypeCorrect, WatchInvariant, PTL
=============================================================================
