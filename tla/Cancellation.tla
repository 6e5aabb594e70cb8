---------------------------- MODULE Cancellation ----------------------------
(***************************************************************************)
(* The CancellationToken of crates/tpt-proto-grpc/src/cancellation.rs: an  *)
(* AtomicBool beside a tokio Notify.  cancel() stores the flag and then    *)
(* wakes the registered waiters; cancelled() loads the flag and then, when *)
(* it is down, creates the Notified future that registers the waiter.      *)
(* Neither pair is atomic, and the two may interleave: every load, store,  *)
(* registration and wake-up is an action of its own.                       *)
(*                                                                         *)
(* tokio's Notify is external: notify_waiters() releases exactly the       *)
(* Notified futures created before it and stores no permit for later ones. *)
(***************************************************************************)

CONSTANTS AsyncWaiters,  \* tasks that await cancelled()
          SyncWaiters,   \* threads that block in wait()
          Cancellers     \* callers of cancel()

VARIABLES cancelled,     \* CancellationState::cancelled
          waiter,        \* where each waiter stands in cancelled() / wait()
          canceller      \* where each caller stands in cancel()

vars == <<cancelled, waiter, canceller>>

Waiters == AsyncWaiters \cup SyncWaiters

\* "idle"     not waiting
\* "entered"  wait() found the flag down and calls cancelled()
\* "checked"  cancelled() found the flag down, the Notified is not created yet
\* "parked"   the Notified future exists and is awaited
\* "released" cancelled() or wait() has returned
WaiterStates == {"idle", "entered", "checked", "parked", "released"}

\* "stored": the flag is up, notify_waiters() has not run yet.
CancellerStates == {"idle", "stored"}

TypeOK ==
    /\ cancelled \in BOOLEAN
    /\ waiter \in [Waiters -> WaiterStates]
    /\ canceller \in [Cancellers -> CancellerStates]

Init ==
    /\ cancelled = FALSE
    /\ waiter = [w \in Waiters |-> "idle"]
    /\ canceller = [k \in Cancellers |-> "idle"]

-----------------------------------------------------------------------------

\* Faulty variant: cancelled() goes to register without looking at the flag.
LoadFlagUnchecked(w, from, down) ==
    /\ waiter[w] = from
    /\ waiter' = [waiter EXCEPT ![w] = down]
    /\ UNCHANGED <<cancelled, canceller>>

\* The flag load that opens cancelled(), for a waiter standing at `from`.
LoadFlag(w, from, down) ==
    /\ waiter[w] = from
    /\ waiter' = [waiter EXCEPT ![w] = IF cancelled THEN "released" ELSE down]
    /\ UNCHANGED <<cancelled, canceller>>

\* cancelled(): the flag load.
Check(w) == LoadFlag(w, "idle", "checked")

\* wait(): its own load first, then block_on(cancelled()), which loads again.
EnterWait(w) == LoadFlag(w, "idle", "entered")
CheckInWait(w) == LoadFlag(w, "entered", "checked")

\* cancelled(): notify.notified() creates the future and registers it.
Register(w) ==
    /\ waiter[w] = "checked"
    /\ waiter' = [waiter EXCEPT ![w] = "parked"]
    /\ UNCHANGED <<cancelled, canceller>>

\* An async waiter drops its future (another select! branch won) or, once
\* released, goes on and may wait again.
Leave(w) ==
    /\ waiter[w] \in {"parked", "released"}
    /\ waiter' = [waiter EXCEPT ![w] = "idle"]
    /\ UNCHANGED <<cancelled, canceller>>

\* Faulty variant: the wake-up comes before the store.
StoreAfterNotify(k) ==
    /\ canceller[k] = "idle"
    /\ canceller' = [canceller EXCEPT ![k] = "stored"]
    /\ UNCHANGED <<cancelled, waiter>>

\* cancel(): the store.
Store(k) ==
    /\ canceller[k] = "idle"
    /\ cancelled' = TRUE
    /\ canceller' = [canceller EXCEPT ![k] = "stored"]
    /\ UNCHANGED waiter

\* cancel(): notify_waiters().
Notify(k) ==
    /\ canceller[k] = "stored"
    /\ canceller' = [canceller EXCEPT ![k] = "idle"]
    /\ waiter' = [w \in Waiters |->
                    IF waiter[w] = "parked" THEN "released" ELSE waiter[w]]
    /\ UNCHANGED cancelled

AsyncNext == \E w \in AsyncWaiters : Check(w) \/ Register(w) \/ Leave(w)
SyncNext == \E w \in SyncWaiters : EnterWait(w) \/ CheckInWait(w) \/ Register(w)
CancelNext == \E k \in Cancellers : Store(k) \/ Notify(k)

Next == AsyncNext \/ SyncNext \/ CancelNext

\* Whoever entered cancel(), cancelled() or wait() keeps running; nobody has
\* to enter, to cancel or to drop a future.
Fairness ==
    /\ \A w \in Waiters : WF_vars(CheckInWait(w)) /\ WF_vars(Register(w))
    /\ \A k \in Cancellers : WF_vars(Notify(k))

Spec == Init /\ [][Next]_vars
FairSpec == Spec /\ Fairness

-----------------------------------------------------------------------------

(***************************************************************************)
(* cancelled() and wait() return only after cancel() was called, and a     *)
(* cancel() that is about to wake the waiters has raised the flag: no one  *)
(* who is released, or about to be, can find is_cancelled() false.         *)
(* (cancellation.rs:44-64)                                                 *)
(***************************************************************************)
ReleasedOnlyWhenCancelled ==
    /\ (\E w \in Waiters : waiter[w] = "released") => cancelled
    /\ (\E k \in Cancellers : canceller[k] = "stored") => cancelled

(***************************************************************************)
(* Cancellation is permanent: once is_cancelled() has answered true it     *)
(* never answers false again, and whoever begins to wait after that does   *)
(* not park.  (cancellation.rs:51-54, 59-62)                               *)
(***************************************************************************)
LateWaiterNeverParks ==
    [][cancelled => /\ cancelled'
                    /\ \A w \in Waiters :
                         waiter[w] = "idle" => waiter'[w] # "checked"]_vars

(***************************************************************************)
(* The module's promise: "When cancelled, all async waiters are released   *)
(* and synchronous waiters unblock." (cancellation.rs:4-5)                 *)
(***************************************************************************)
AllWaitersReleased ==
    \A w \in Waiters : (cancelled /\ waiter[w] = "parked") ~> (waiter[w] # "parked")
=============================================================================
