------------------------- MODULE CancellationProofs -------------------------
(***************************************************************************)
(* Proofs about the cancellation token, for any number of waiters and of   *)
(* callers of cancel().                                                    *)
(***************************************************************************)
EXTENDS Cancellation, TLAPS

\* Type correctness of the flag, the waiters and the callers of cancel().
THEOREM TypeCorrect == Spec => []TypeOK
<1> USE DEF Waiters, WaiterStates, CancellerStates
<1>1. Init => TypeOK
  BY DEF Init, TypeOK
<1>2. TypeOK /\ [Next]_vars => TypeOK'
  BY DEF TypeOK, Next, AsyncNext, SyncNext, CancelNext, Check, EnterWait,
         CheckInWait, LoadFlag, Register, Leave, Store, Notify, vars
<1> QED
  BY <1>1, <1>2, PTL DEF Spec

(***************************************************************************)
(* cancelled() and wait() return only once the flag is up, and notify runs *)
(* only once it is up (cancellation.rs:44-64).                             *)
(***************************************************************************)
THEOREM NoSpuriousRelease == Spec => []ReleasedOnlyWhenCancelled
<1> USE DEF Waiters, ReleasedOnlyWhenCancelled
<1>1. Init => ReleasedOnlyWhenCancelled
  BY DEF Init
<1>2. ASSUME TypeOK, ReleasedOnlyWhenCancelled, [Next]_vars
      PROVE  ReleasedOnlyWhenCancelled'
  <2> USE <1>2 DEF TypeOK
  <2>1. ASSUME NEW w \in Waiters, NEW from, NEW down,
               down # "released", LoadFlag(w, from, down)
        PROVE  ReleasedOnlyWhenCancelled'
    BY <2>1 DEF LoadFlag
  <2>2. CASE AsyncNext
    BY <2>1, <2>2 DEF AsyncNext, Check, Register, Leave
  <2>3. CASE SyncNext
    BY <2>1, <2>3 DEF SyncNext, EnterWait, CheckInWait, Register
  <2>4. CASE CancelNext
    BY <2>4 DEF CancelNext, Store, Notify
  <2>5. CASE UNCHANGED vars
    BY <2>5 DEF vars
  <2> QED
    BY <1>2, <2>2, <2>3, <2>4, <2>5 DEF Next
<1> QED
  BY <1>1, <1>2, TypeCorrect, PTL DEF Spec

(***************************************************************************)
(* Cancellation is permanent and a late waiter returns at once             *)
(* (cancellation.rs:51-54, 59-62).                                         *)
(***************************************************************************)
THEOREM Permanent == Spec => LateWaiterNeverParks
<1>1. ASSUME TypeOK, [Next]_vars
      PROVE  [cancelled => /\ cancelled'
                           /\ \A w \in Waiters :
                                waiter[w] = "idle" => waiter'[w] # "checked"]_vars
  BY <1>1 DEF TypeOK, Waiters, Next, AsyncNext, SyncNext, CancelNext, Check,
       EnterWait, CheckInWait, LoadFlag, Register, Leave, Store, Notify, vars
<1> QED
  BY <1>1, TypeCorrect, PTL DEF Spec, LateWaiterNeverParks
=============================================================================
