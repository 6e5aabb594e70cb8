----------------------------- MODULE HealthWatch -----------------------------
(***************************************************************************)
(* The health registry and the Watch streams of                            *)
(* crates/tpt-proto-grpc/src/health.rs.  set_status() inserts under one    *)
(* lock and broadcasts under another; watch() subscribes and then reads    *)
(* the current status; the stream reports that status and then what it     *)
(* receives.  Setters and watchers are on different threads.               *)
(*                                                                         *)
(* External: tokio's broadcast channel keeps the last Capacity events, a   *)
(* receiver that fell behind by more gets Lagged, and a receiver sees only *)
(* what is sent after it subscribed.                                       *)
(***************************************************************************)
EXTENDS Naturals, Sequences

CONSTANTS Services,   \* service names
          Overall,    \* "", the overall server
          Setters,    \* threads calling set_status()
          MaySet,     \* the names each of them sets
          Watchers,   \* Watch calls
          Capacity,   \* capacity of the broadcast channel
          MaxSets,    \* bound: calls of set_status()
          None        \* nothing: no pending event, no report yet

Names == Services \cup {Overall}
Statuses == {"UNKNOWN", "SERVING", "NOT_SERVING", "SERVICE_UNKNOWN"}
Events == [name : Names, status : Statuses]

ASSUME HealthAssumption ==
    /\ Overall \notin Services
    /\ MaySet \in [Setters -> SUBSET Names]
    /\ Capacity \in Nat \ {0} /\ MaxSets \in Nat
    /\ None \notin Statuses \cup Events \cup Names

VARIABLES map,       \* HealthRegistry::inner; None where there is no entry
          opened,    \* HealthRegistry::watchers holds a sender
          sent,      \* every event sent on the channel so far
          pending,   \* the event a setter has inserted and not yet broadcast
          sets,      \* calls of set_status() so far
          phase,     \* of each Watch call
          watched,   \* the name it watches
          pos,       \* how many events its receiver is past
          reported   \* the last status it reported, or is about to report

vars == <<map, opened, sent, pending, sets, phase, watched, pos, reported>>
watch == <<phase, watched, pos, reported>>

\* "subscribed" to the channel, the current status not read yet; "current"
\* read and not yet reported; "following" the channel; stream "ended".
Phases == {"idle", "subscribed", "current", "following", "ended"}

TypeOK ==
    /\ map \in [Names -> Statuses \cup {None}]
    /\ opened \in BOOLEAN
    /\ sent \in Seq(Events)
    /\ pending \in [Setters -> Events \cup {None}]
    /\ sets \in 0..MaxSets
    /\ phase \in [Watchers -> Phases]
    /\ watched \in [Watchers -> Names \cup {None}]
    /\ pos \in [Watchers -> Nat]
    /\ reported \in [Watchers -> Statuses \cup {None}]

Init ==
    /\ map = [n \in Names |-> None]
    /\ opened = FALSE
    /\ sent = <<>>
    /\ pending = [t \in Setters |-> None]
    /\ sets = 0
    /\ phase = [w \in Watchers |-> "idle"]
    /\ watched = [w \in Watchers |-> None]
    /\ pos = [w \in Watchers |-> 0]
    /\ reported = [w \in Watchers |-> None]

-----------------------------------------------------------------------------

Registered == {n \in Names : map[n] # None}
Has(status) == \E n \in Registered : map[n] = status

\* get_status(""): one service that does not serve is enough.
Aggregate ==
    IF Has("NOT_SERVING") THEN "NOT_SERVING"
    ELSE IF Has("SERVING") THEN "SERVING" ELSE "UNKNOWN"

\* HealthRegistry::check, which answers get_status("") for the empty name.
Check(n) ==
    IF n = Overall THEN Aggregate
    ELSE IF n \in Registered THEN map[n] ELSE "SERVICE_UNKNOWN"

-----------------------------------------------------------------------------
\* set_status: the insert, then the broadcast.

Insert(t, n, s) ==
    /\ pending[t] = None
    /\ n \in MaySet[t] /\ sets < MaxSets
    /\ map' = [map EXCEPT ![n] = s]
    /\ pending' = [pending EXCEPT ![t] = [name |-> n, status |-> s]]
    /\ sets' = sets + 1
    /\ UNCHANGED <<opened, sent, watch>>

\* Faulty variant: a broadcast whoever called, with or without an event.
BroadcastAlways(t) ==
    /\ sent' = IF opened /\ sets < MaxSets THEN Append(sent, pending[t]) ELSE sent
    /\ pending' = [pending EXCEPT ![t] = None]
    /\ UNCHANGED <<map, opened, sets, watch>>

\* Without a sender, nobody has subscribed yet and the event is dropped.
Broadcast(t) ==
    /\ pending[t] # None
    /\ sent' = IF opened THEN Append(sent, pending[t]) ELSE sent
    /\ pending' = [pending EXCEPT ![t] = None]
    /\ UNCHANGED <<map, opened, sets, watch>>

-----------------------------------------------------------------------------
\* Watch.

Subscribe(w, n) ==
    /\ phase[w] = "idle"
    /\ phase' = [phase EXCEPT ![w] = "subscribed"]
    /\ watched' = [watched EXCEPT ![w] = n]
    /\ opened' = TRUE
    /\ pos' = [pos EXCEPT ![w] = Len(sent)]
    /\ UNCHANGED <<map, sent, pending, sets, reported>>

ReadCurrent(w) ==
    /\ phase[w] = "subscribed"
    /\ phase' = [phase EXCEPT ![w] = "current"]
    /\ reported' = [reported EXCEPT ![w] = Check(watched[w])]
    /\ UNCHANGED <<map, opened, sent, pending, sets, watched, pos>>

\* Faulty variant: the receiver is created with the first item.
ReportAndSubscribe(w) ==
    /\ phase[w] = "current"
    /\ phase' = [phase EXCEPT ![w] = "following"]
    /\ pos' = [pos EXCEPT ![w] = Len(sent)]
    /\ UNCHANGED <<map, opened, sent, pending, sets, watched, reported>>

\* The first item of the stream.
ReportCurrent(w) ==
    /\ phase[w] = "current"
    /\ phase' = [phase EXCEPT ![w] = "following"]
    /\ UNCHANGED <<map, opened, sent, pending, sets, watched, pos, reported>>

Unread(w) == Len(sent) - pos[w]

\* Faulty variant: an event for another name stays at the head.
ReceiveMatching(w) ==
    /\ phase[w] = "following"
    /\ Unread(w) \in 1..Capacity
    /\ sent[pos[w] + 1].name \in {watched[w], Overall}
    /\ pos' = [pos EXCEPT ![w] = @ + 1]
    /\ reported' = [reported EXCEPT ![w] = sent[pos[w] + 1].status]
    /\ UNCHANGED <<map, opened, sent, pending, sets, phase, watched>>

\* An event for another name is skipped; one for "" is reported as if it
\* were the watched service's.
Receive(w) ==
    /\ phase[w] = "following"
    /\ Unread(w) \in 1..Capacity
    /\ pos' = [pos EXCEPT ![w] = @ + 1]
    /\ LET e == sent[pos[w] + 1] IN
         reported' = [reported EXCEPT ![w] =
                        IF e.name \in {watched[w], Overall} THEN e.status ELSE @]
    /\ UNCHANGED <<map, opened, sent, pending, sets, phase, watched>>

\* Err(Lagged) ends the stream.
Lag(w) ==
    /\ phase[w] = "following"
    /\ Unread(w) > Capacity
    /\ phase' = [phase EXCEPT ![w] = "ended"]
    /\ UNCHANGED <<map, opened, sent, pending, sets, watched, pos, reported>>

SetterNext(t) == Broadcast(t) \/ \E n \in Names, s \in Statuses : Insert(t, n, s)
WatcherStep(w) == ReadCurrent(w) \/ ReportCurrent(w) \/ Receive(w) \/ Lag(w)
WatcherNext(w) == WatcherStep(w) \/ \E n \in Names : Subscribe(w, n)

Next == (\E t \in Setters : SetterNext(t)) \/ (\E w \in Watchers : WatcherNext(w))

\* set_status() runs to its end; the server polls the stream of a Watch call.
Fairness ==
    /\ \A t \in Setters : WF_vars(Broadcast(t))
    /\ \A w \in Watchers : WF_vars(WatcherStep(w))

Spec == Init /\ [][Next]_vars
FairSpec == Spec /\ Fairness

-----------------------------------------------------------------------------

\* The watcher has nothing left to read and nobody is inside set_status().
Settled(w) ==
    /\ phase[w] = "following" /\ Unread(w) = 0
    /\ \A t \in Setters : pending[t] = None

\* What the application has to see to: a service is set by one thread, and
\* nobody sets the status of the overall server, which every Watch repeats.
SingleOwners ==
    \A t, u \in Setters : /\ Overall \notin MaySet[t]
                          /\ t # u => MaySet[t] \cap MaySet[u] = {}

(***************************************************************************)
(* No lost update: under SingleOwners, a watcher that has caught up shows  *)
(* its service's status, whatever happened between its subscription, its   *)
(* first read and its first report.                                        *)
(* (health.rs:152-158, 268-293)                                            *)
(***************************************************************************)
ServiceWatcherIsCurrent ==
    \A w \in Watchers :
        Settled(w) /\ watched[w] \in Services => reported[w] = Check(watched[w])

(***************************************************************************)
(* Once the statuses stop changing, every Watch of a service either ends   *)
(* (it lagged) or comes to show the final status and keeps showing it: no  *)
(* event stalls the receive loop.  (health.rs:282-290)                     *)
(***************************************************************************)
EventuallyCurrent ==
    \A w \in Watchers :
        <>[](phase[w] = "following" /\ watched[w] \in Services
                => reported[w] = Check(watched[w]))
=============================================================================
