-------------------------- MODULE GrpcServerProofs --------------------------
(***************************************************************************)
(* Proofs about the gRPC server runtime, for any number of connections,    *)
(* RPCs, callers of shutdown() and permits.  TypeCorrect first; then the   *)
(* semaphore: each step of the server either leaves the permits and their  *)
(* holders alone, or requests a permit, or ends a task that holds one.     *)
(***************************************************************************)
EXTENDS GrpcServer, FiniteSetTheorems, SequenceTheorems, TLAPS

USE ServerAssumption

-----------------------------------------------------------------------------
\* Types of the helpers.

LEMMA NewRoundType ==
    ASSUME TypeOK, NEW w \in Tasks, NewRound(w)
    PROVE  Shutdown!TypeOK'
BY DEF TypeOK, NewRound, Shutdown!TypeOK, Shutdown!Waiters, Shutdown!WaiterStates,
       Shutdown!CancellerStates

LEMMA TokenUnchangedType ==
    ASSUME TypeOK, UNCHANGED token
    PROVE  Shutdown!TypeOK'
BY DEF TypeOK, token, Shutdown!TypeOK

LEMMA EndTaskType ==
    ASSUME TypeOK, NEW r \in Rpcs, EndTask(r)
    PROVE  /\ task' \in [Rpcs -> TaskStates]
           /\ permits' \in Nat
           /\ permitQueue' \in Seq(Rpcs)
<1> USE DEF TypeOK, EndTask, TaskStates
<1>1. CASE permitQueue = <<>>
  <2>1. task' = [task EXCEPT ![r] = "done"] /\ permits' = permits + 1
        /\ permitQueue' = permitQueue
    BY <1>1
  <2>2. task' \in [Rpcs -> TaskStates]
    BY <2>1
  <2>3. permits' \in Nat
    BY <2>1
  <2> QED
    BY <2>1, <2>2, <2>3
<1>2. CASE permitQueue # <<>>
  <2>1. Head(permitQueue) \in Rpcs /\ Tail(permitQueue) \in Seq(Rpcs)
    BY <1>2, HeadTailProperties
  <2> QED
    BY <1>2, <2>1
<1> QED
  BY <1>1, <1>2

LEMMA WriteType ==
    ASSUME TypeOK, NEW r \in Rpcs, NEW fs \in Seq(Frames), Write(r, fs)
    PROVE  frames' \in [Rpcs -> Seq(Frames)]
<1>1. frames[r] \o fs \in Seq(Frames)
  BY ConcatProperties DEF TypeOK
<1> QED
  BY <1>1 DEF TypeOK, Write

LEMMA RecordType ==
    ASSUME TypeOK, NEW r \in Rpcs, NEW code \in Codes, Record(r, code)
    PROVE  recorded' \in [Rpcs -> Codes \cup {None}]
BY DEF TypeOK, Record

LEMMA FinishType ==
    ASSUME TypeOK, NEW r \in Rpcs, NEW code \in Codes, NEW fs \in Seq(Frames),
           Finish(r, code, fs)
    PROVE  TypeOK'
<1>1. Shutdown!TypeOK'
  BY NewRoundType DEF Finish, Tasks
<1>2. /\ task' \in [Rpcs -> TaskStates]
      /\ permits' \in Nat
      /\ permitQueue' \in Seq(Rpcs)
  BY EndTaskType DEF Finish
<1>3. frames' \in [Rpcs -> Seq(Frames)]
  BY WriteType DEF Finish
<1>4. recorded' \in [Rpcs -> Codes \cup {None}]
  BY RecordType DEF Finish
<1>5. body' \in [Rpcs -> Bodies]
  BY DEF Finish, TypeOK, Bodies
<1> QED
  BY <1>1, <1>2, <1>3, <1>4, <1>5 DEF Finish, TypeOK

LEMMA FailType ==
    ASSUME TypeOK, NEW r \in Rpcs, NEW code \in Codes, Fail(r, code)
    PROVE  TypeOK'
<1>1. <<"headers", code>> \in Seq(Frames)
  BY DEF Frames, Terminals
<1> QED
  BY <1>1, FinishType DEF Fail

LEMMA CloseConnType ==
    ASSUME TypeOK, NEW c \in Conns, NEW how \in ConnStates, CloseConn(c, how)
    PROVE  TypeOK'
<1>1. Shutdown!TypeOK'
  BY NewRoundType DEF CloseConn, Tasks
<1> QED
  BY <1>1 DEF CloseConn, TypeOK, semaphore

-----------------------------------------------------------------------------
\* Type correctness, one lemma per actor.

LEMMA StopType ==
    ASSUME TypeOK, NEW k \in Stops, Stop(k)
    PROVE  TypeOK'
<1>1. Shutdown!TypeOK'
  BY DEF TypeOK, Stop, Shutdown!Store, Shutdown!Notify, Shutdown!TypeOK,
         Shutdown!Waiters, Shutdown!WaiterStates, Shutdown!CancellerStates
<1> QED
  BY <1>1 DEF Stop, TypeOK, semaphore, stream

LEMMA PollShutdownType ==
    ASSUME TypeOK, NEW w \in Tasks, PollShutdown(w)
    PROVE  TypeOK'
<1>1. Shutdown!TypeOK'
  BY DEF TypeOK, PollShutdown, Shutdown!Check, Shutdown!LoadFlag, Shutdown!Register,
         Shutdown!TypeOK, Shutdown!Waiters, Shutdown!WaiterStates,
         Shutdown!CancellerStates
<1> QED
  BY <1>1 DEF PollShutdown, TypeOK, semaphore, stream

LEMMA BlockType ==
    ASSUME TypeOK, NEW b \in Blockers, Block(b)
    PROVE  TypeOK'
<1>1. Shutdown!TypeOK'
  BY DEF TypeOK, Block, Shutdown!EnterWait, Shutdown!CheckInWait, Shutdown!LoadFlag,
         Shutdown!Register, Shutdown!TypeOK, Shutdown!Waiters, Shutdown!WaiterStates,
         Shutdown!CancellerStates
<1> QED
  BY <1>1 DEF Block, TypeOK, semaphore, stream

LEMMA ListenerType ==
    ASSUME TypeOK, ListenerNext
    PROVE  TypeOK'
<1> USE DEF TypeOK, semaphore, stream
<1>1. CASE AcceptError
  BY <1>1, NewRoundType DEF AcceptError, Tasks
<1>2. CASE StopAccepting
  BY <1>2, NewRoundType DEF StopAccepting, Tasks
<1>3. CASE Return
  BY <1>3, TokenUnchangedType DEF Return
<1> QED
  BY <1>1, <1>2, <1>3 DEF ListenerNext

LEMMA ConnType ==
    ASSUME TypeOK, NEW c \in Conns, ConnNext(c)
    PROVE  TypeOK'
<1> USE DEF TypeOK, semaphore, stream, ConnStates
<1>1. CASE Accept(c)
  BY <1>1, NewRoundType DEF Accept, Tasks
<1>2. CASE Handshake(c)
  BY <1>2, TokenUnchangedType DEF Handshake
<1>3. CASE StreamError(c)
  BY <1>3, NewRoundType DEF StreamError, Tasks
<1>4. CASE StopConn(c)
  BY <1>4, CloseConnType DEF StopConn
<1>5. CASE LoseConn(c)
  BY <1>5, CloseConnType DEF LoseConn
<1>6. CASE AbortConn(c)
  BY <1>6, CloseConnType DEF AbortConn
<1>7. ASSUME NEW r \in Rpcs, NEW q \in Requests, AcceptRpc(c, r, q)
      PROVE  TypeOK'
  <2>1. [conn |-> c, req |-> q] \in Calls
    BY DEF Calls
  <2>2. task' \in [Rpcs -> TaskStates] /\ req' \in [Rpcs -> Calls \cup {None}]
    BY <1>7, <2>1 DEF AcceptRpc, TaskStates
  <2> QED
    BY <1>7, <2>2, NewRoundType DEF AcceptRpc, Tasks
<1> QED
  BY <1>1, <1>2, <1>3, <1>4, <1>5, <1>6, <1>7 DEF ConnNext

LEMMA PeerType ==
    ASSUME TypeOK, NEW r \in Rpcs, PeerNext(r)
    PROVE  TypeOK'
<1> USE TokenUnchangedType DEF TypeOK, semaphore
<1>1. CASE ReceiveBody(r)
  BY <1>1 DEF ReceiveBody, Bodies
<1>2. CASE ResetStream(r)
  BY <1>2 DEF ResetStream
<1>3. CASE Flush(r)
  <2>1. Len(frames[r]) \in Nat
    BY LenProperties
  <2> QED
    BY <1>3, <2>1 DEF Flush
<1> QED
  BY <1>1, <1>2, <1>3 DEF PeerNext

LEMMA TaskType ==
    ASSUME TypeOK, NEW r \in Rpcs, TaskNext(r)
    PROVE  TypeOK'
<1>codes. /\ {"Ok", "Unauthenticated", "PermissionDenied", "Unimplemented",
             "Internal", "Unavailable", "DeadlineExceeded", "Aborted"} \subseteq Codes
          /\ <<>> \in Seq(Frames)
          /\ \A f \in Frames : <<f>> \in Seq(Frames)
          /\ \A f, g \in Frames : <<f, g>> \in Seq(Frames)
          /\ \A f, g, h \in Frames : <<f, g, h>> \in Seq(Frames)
          /\ Codes \subseteq Frames /\ {"headers", "data", "reset"} \subseteq Frames
          /\ "InvalidArgument" \in Frames
  BY DEF Codes, Frames, Terminals
<1>1. CASE RequestPermit(r)
  <2>1. Append(permitQueue, r) \in Seq(Rpcs)
    BY DEF TypeOK
  <2>2. /\ task' \in [Rpcs -> TaskStates]
        /\ permits' \in Nat /\ permitQueue' \in Seq(Rpcs)
    <3>1. CASE permits > 0
      <4>1. /\ permits' = permits - 1 /\ permitQueue' = permitQueue
            /\ task' = [task EXCEPT ![r] = "granted"]
        BY <1>1, <3>1 DEF RequestPermit
      <4> QED
        BY <3>1, <4>1 DEF TypeOK, TaskStates
    <3>2. CASE ~(permits > 0)
      <4>1. /\ permits' = permits /\ permitQueue' = Append(permitQueue, r)
            /\ task' = [task EXCEPT ![r] = "acquiring"]
        BY <1>1, <3>2 DEF RequestPermit
      <4> QED
        BY <2>1, <4>1 DEF TypeOK, TaskStates
    <3> QED
      BY <3>1, <3>2
  <2> QED
    BY <1>1, <2>2, TokenUnchangedType DEF RequestPermit, TypeOK, stream
<1>2. CASE Deny(r)
  BY <1>2, <1>codes, FailType DEF Deny
<1>3. CASE RejectUnknown(r)
  BY <1>3, <1>codes, FailType DEF RejectUnknown
<1>4. CASE Dispatch(r)
  BY <1>4, TokenUnchangedType DEF Dispatch, TypeOK, TaskStates, semaphore, stream
<1>5. CASE ReadMessage(r)
  BY <1>5, TokenUnchangedType DEF ReadMessage, TypeOK, TaskStates, Bodies, semaphore
<1>6. CASE MissingMessage(r)
  BY <1>6, <1>codes, FinishType DEF MissingMessage
<1>7. CASE BadBody(r)
  BY <1>7, <1>codes, FailType DEF BadBody
<1>8. CASE SeeShutdown(r)
  BY <1>8, <1>codes, FailType DEF SeeShutdown
<1>9. CASE SeeDeadline(r)
  BY <1>9, <1>codes, FailType DEF SeeDeadline
<1>10. CASE ReturnMessage(r)
  <2>1. PICK fs \in {<<"headers", "data", "Ok">>, <<"headers", "reset">>} :
             Finish(r, "Ok", fs)
    BY <1>10 DEF ReturnMessage
  <2>2. fs \in Seq(Frames)
    <3>1. <<"headers", "data", "Ok">> \in Seq(Frames)
      BY <1>codes
    <3>2. <<"headers", "reset">> \in Seq(Frames)
      BY <1>codes
    <3> QED
      BY <3>1, <3>2
  <2> QED
    BY <2>1, <2>2, <1>codes, FinishType
<1>11. CASE ReturnStream(r)
  <2>1. CASE dead[r]
    BY <1>11, <2>1, <1>codes, FinishType DEF ReturnStream
  <2>2. CASE ~dead[r]
    <3>1. /\ Record(r, "Ok") /\ Write(r, <<"headers">>) /\ NewRound(r)
          /\ task' = [task EXCEPT ![r] = "streaming"]
          /\ UNCHANGED <<listener, conn, req, semaphore, body, flushed, dead>>
      BY <1>11, <2>2 DEF ReturnStream
    <3>2. frames' \in [Rpcs -> Seq(Frames)]
      BY <3>1, <1>codes, WriteType
    <3>3. recorded' \in [Rpcs -> Codes \cup {None}]
      BY <3>1, <1>codes, RecordType
    <3>4. Shutdown!TypeOK'
      BY <3>1, NewRoundType DEF Tasks
    <3> QED
      BY <3>1, <3>2, <3>3, <3>4 DEF TypeOK, TaskStates, semaphore
  <2> QED
    BY <2>1, <2>2
<1>12. CASE ReturnError(r)
  BY <1>12, <1>codes, FailType DEF ReturnError
<1>13. CASE Panic(r)
  BY <1>13, <1>codes, FinishType DEF Panic
<1>14. CASE StreamItem(r)
  <2>1. CASE \E fs \in {<<>>, <<"reset">>} : Finish(r, "Ok", fs)
    BY <2>1, <1>codes, FinishType
  <2>2. CASE /\ Write(r, <<"data">>)
             /\ UNCHANGED <<listener, conn, task, req, semaphore, body, flushed,
                            dead, recorded, token>>
    <3>1. frames' \in [Rpcs -> Seq(Frames)]
      BY <2>2, <1>codes, WriteType
    <3> QED
      BY <2>2, <3>1, TokenUnchangedType DEF TypeOK, semaphore
  <2> QED
    BY <1>14, <2>1, <2>2 DEF StreamItem
<1>15. CASE StreamEnd(r)
  BY <1>15, <1>codes, FinishType DEF StreamEnd
<1> QED
  BY <1>1, <1>2, <1>3, <1>4, <1>5, <1>6, <1>7, <1>8, <1>9, <1>10, <1>11, <1>12,
     <1>13, <1>14, <1>15 DEF TaskNext

\* Every variable of the server keeps its type (server.rs:365-733).
THEOREM TypeCorrect == Spec => []TypeOK
<1>1. ASSUME Init
      PROVE  TypeOK
  <2>1. Shutdown!TypeOK
    BY <1>1 DEF Init, Shutdown!Init, Shutdown!TypeOK, Shutdown!WaiterStates,
                Shutdown!CancellerStates
  <2>2. frames \in [Rpcs -> Seq(Frames)] /\ permitQueue \in Seq(Rpcs)
    BY <1>1 DEF Init
  <2> QED
    BY <1>1, <2>1, <2>2 DEF Init, TypeOK, ConnStates, TaskStates, Bodies
<1>2. ASSUME TypeOK, [Next]_vars
      PROVE  TypeOK'
  <2>1. CASE UNCHANGED vars
    BY <1>2, <2>1, TokenUnchangedType DEF vars, TypeOK, semaphore, stream
  <2> QED
    BY <1>2, <2>1, StopType, PollShutdownType, BlockType, ListenerType, ConnType, PeerType,
       TaskType DEF Next
<1> QED
  BY <1>1, <1>2, PTL DEF Spec

-----------------------------------------------------------------------------
(***************************************************************************)
(* The shutdown token.  The loops of the server create and drop futures of *)
(* it in many ways, and each is a step of module Cancellation or none; a   *)
(* task awaits cancelled() and never stands inside wait().                 *)
(***************************************************************************)

TasksOnlyAwait == \A w \in Tasks : waiter[w] # "entered"

LEMMA NewRoundStep ==
    ASSUME TypeOK, TasksOnlyAwait, NEW w \in Tasks, NewRound(w)
    PROVE  [Shutdown!Next]_(Shutdown!vars) /\ TasksOnlyAwait'
<1>1. waiter[w] \in {"idle", "parked", "released"}
  BY DEF TypeOK, TasksOnlyAwait, NewRound, Shutdown!TypeOK, Shutdown!Waiters,
         Shutdown!WaiterStates
<1>2. TasksOnlyAwait'
  BY DEF TypeOK, TasksOnlyAwait, NewRound, Shutdown!TypeOK, Shutdown!Waiters
<1>3. CASE waiter[w] = "idle"
  <2>1. waiter' = waiter
    BY <1>3 DEF TypeOK, NewRound, Shutdown!TypeOK
  <2> QED
    BY <1>2, <2>1 DEF NewRound, Shutdown!vars
<1>4. CASE waiter[w] \in {"parked", "released"}
  <2>1. Shutdown!Leave(w)
    BY <1>4 DEF NewRound, Shutdown!Leave
  <2> QED
    BY <1>2, <2>1 DEF Shutdown!Next, Shutdown!AsyncNext
<1> QED
  BY <1>1, <1>3, <1>4

LEMMA TokenStep ==
    ASSUME TypeOK, TasksOnlyAwait, [Next]_vars
    PROVE  [Shutdown!Next]_(Shutdown!vars) /\ TasksOnlyAwait'
<1>1. CASE UNCHANGED token
  BY <1>1 DEF token, TasksOnlyAwait, Shutdown!vars
<1>2. CASE \E w \in Tasks : NewRound(w)
  BY <1>2, NewRoundStep
<1>3. ASSUME NEW k \in Stops, Stop(k)
      PROVE  [Shutdown!Next]_(Shutdown!vars) /\ TasksOnlyAwait'
  <2>1. TasksOnlyAwait'
    BY <1>3 DEF Stop, Shutdown!Store, Shutdown!Notify, TypeOK, TasksOnlyAwait,
                Shutdown!TypeOK, Shutdown!Waiters
  <2> QED
    BY <1>3, <2>1 DEF Stop, Shutdown!Next, Shutdown!CancelNext
<1>4. ASSUME NEW w \in Tasks, PollShutdown(w)
      PROVE  [Shutdown!Next]_(Shutdown!vars) /\ TasksOnlyAwait'
  <2>1. TasksOnlyAwait'
    BY <1>4 DEF PollShutdown, Shutdown!Check, Shutdown!LoadFlag, Shutdown!Register,
                TypeOK, TasksOnlyAwait, Shutdown!TypeOK, Shutdown!Waiters
  <2> QED
    BY <1>4, <2>1 DEF PollShutdown, Shutdown!Next, Shutdown!AsyncNext
<1>5. ASSUME NEW b \in Blockers, Block(b)
      PROVE  [Shutdown!Next]_(Shutdown!vars) /\ TasksOnlyAwait'
  <2>1. TasksOnlyAwait'
    BY <1>5 DEF Block, Shutdown!EnterWait, Shutdown!CheckInWait, Shutdown!LoadFlag,
                Shutdown!Register, TypeOK, TasksOnlyAwait, Tasks, Shutdown!TypeOK,
                Shutdown!Waiters
  <2> QED
    BY <1>5, <2>1 DEF Block, Shutdown!Next, Shutdown!SyncNext
<1>6. CASE ListenerNext
  BY <1>1, <1>2, <1>6 DEF ListenerNext, AcceptError, StopAccepting, Return, Tasks
<1>7. ASSUME NEW c \in Conns, ConnNext(c)
      PROVE  UNCHANGED token \/ \E w \in Tasks : NewRound(w)
  BY <1>7 DEF ConnNext, Accept, Handshake, StreamError, StopConn, LoseConn, AbortConn,
              AcceptRpc, CloseConn, Tasks
<1>8. ASSUME NEW r \in Rpcs, PeerNext(r)
      PROVE  UNCHANGED token
  BY <1>8 DEF PeerNext, ReceiveBody, ResetStream, Flush
<1>9. ASSUME NEW r \in Rpcs, TaskNext(r)
      PROVE  UNCHANGED token \/ \E w \in Tasks : NewRound(w)
  BY <1>9 DEF TaskNext, RequestPermit, Deny, RejectUnknown, Dispatch, ReadMessage,
              MissingMessage, BadBody, SeeShutdown, SeeDeadline, ReturnMessage,
              ReturnStream, ReturnError, Panic, StreamItem, StreamEnd, Fail, Finish, Tasks
<1>10. CASE UNCHANGED vars
  BY <1>1, <1>10 DEF vars
<1> QED
  BY <1>1, <1>2, <1>3, <1>4, <1>5, <1>6, <1>7, <1>8, <1>9, <1>10 DEF Next

\* The invariant TokenStep rests on.
LEMMA TasksAwait == Spec => []TasksOnlyAwait
<1>1. Init => TasksOnlyAwait
  BY DEF Init, TasksOnlyAwait, Shutdown!Init, Shutdown!Waiters
<1> QED
  BY <1>1, TokenStep, TypeCorrect, PTL DEF Spec

(***************************************************************************)
(* The server and whoever blocks on its token use it as module             *)
(* Cancellation has it, so that what is proved there of the token holds in *)
(* the server (server.rs:376, 477, 663; cancellation.rs:44-72).            *)
(***************************************************************************)
THEOREM UsesTheToken == Spec => Shutdown!Spec
<1>1. Init => Shutdown!Init
  BY DEF Init
<1> QED
  BY <1>1, TokenStep, TasksAwait, TypeCorrect, PTL DEF Spec, Shutdown!Spec

(***************************************************************************)
(* Nothing in the server is released by its token, or about to be, before  *)
(* shutdown() has raised the flag (cancellation.rs:45-48).                 *)
(***************************************************************************)
THEOREM NoEarlyShutdown == Spec => []ReleasedOnlyWhenCancelled
<1> USE DEF ReleasedOnlyWhenCancelled, Shutdown!ReleasedOnlyWhenCancelled, Shutdown!Waiters
<1>1. Init => ReleasedOnlyWhenCancelled
  BY DEF Init, Shutdown!Init
<1>2. ASSUME TypeOK, ReleasedOnlyWhenCancelled, [Shutdown!Next]_(Shutdown!vars)
      PROVE  ReleasedOnlyWhenCancelled'
  <2> USE <1>2 DEF TypeOK, Shutdown!TypeOK
  <2>1. CASE Shutdown!AsyncNext
    BY <2>1 DEF Shutdown!AsyncNext, Shutdown!Check, Shutdown!LoadFlag,
                Shutdown!Register, Shutdown!Leave
  <2>2. CASE Shutdown!SyncNext
    BY <2>2 DEF Shutdown!SyncNext, Shutdown!EnterWait, Shutdown!CheckInWait,
                Shutdown!LoadFlag, Shutdown!Register
  <2>3. CASE Shutdown!CancelNext
    BY <2>3 DEF Shutdown!CancelNext, Shutdown!Store, Shutdown!Notify
  <2>4. CASE UNCHANGED Shutdown!vars
    BY <2>4 DEF Shutdown!vars
  <2> QED
    BY <1>2, <2>1, <2>2, <2>3, <2>4 DEF Shutdown!Next
<1> QED
  BY <1>1, <1>2, TypeCorrect, UsesTheToken, PTL DEF Spec, Shutdown!Spec

(***************************************************************************)
(* A shutdown is permanent, and no round of a loop, no select! and no      *)
(* blocked thread that begins to wait after it parks                       *)
(* (cancellation.rs:51-54, 59-62).                                         *)
(***************************************************************************)
THEOREM ShutdownIsPermanent == Spec => LateWaiterNeverParks
<1>1. ASSUME TypeOK, [Shutdown!Next]_(Shutdown!vars)
      PROVE  [cancelled => /\ cancelled'
                           /\ \A w \in Shutdown!Waiters :
                                waiter[w] = "idle" => waiter'[w] # "checked"]_(Shutdown!vars)
  BY <1>1 DEF TypeOK, Shutdown!TypeOK, Shutdown!Waiters, Shutdown!Next, Shutdown!AsyncNext,
       Shutdown!SyncNext, Shutdown!CancelNext, Shutdown!Check, Shutdown!EnterWait,
       Shutdown!CheckInWait, Shutdown!LoadFlag, Shutdown!Register, Shutdown!Leave,
       Shutdown!Store, Shutdown!Notify, Shutdown!vars
<1> QED
  BY <1>1, TypeCorrect, UsesTheToken, PTL DEF Spec, Shutdown!Spec,
       LateWaiterNeverParks, Shutdown!LateWaiterNeverParks

-----------------------------------------------------------------------------
\* The semaphore.

(***************************************************************************)
(* What PermitAccounting rests on, and is inductive with: the semaphore's  *)
(* queue is exactly the parked tasks, each once.                           *)
(***************************************************************************)
QueueIsParkedTasks ==
    /\ \A r \in Rpcs : task[r] = "acquiring" <=> \E i \in DOMAIN permitQueue : permitQueue[i] = r
    /\ \A i, j \in DOMAIN permitQueue : permitQueue[i] = permitQueue[j] => i = j

SemaphoreInv == QueueIsParkedTasks /\ PermitAccounting

\* A step that neither takes, waits for, nor returns a permit.
Quiet ==
    /\ permits' = permits /\ permitQueue' = permitQueue
    /\ \A r \in Rpcs : /\ task'[r] \in HoldsPermit <=> task[r] \in HoldsPermit
                       /\ task'[r] = "acquiring" <=> task[r] = "acquiring"

\* Whatever the server does, the semaphore sees one of three things.
LEMMA StepKinds ==
    ASSUME TypeOK, [Next]_vars
    PROVE  \/ Quiet
           \/ \E r \in Rpcs : RequestPermit(r)
           \/ \E r \in Holders : EndTask(r)
<1> USE DEF Quiet, semaphore, HoldsPermit
<1>1. CASE UNCHANGED vars
  BY <1>1 DEF vars
<1>2. CASE ListenerNext
  BY <1>2 DEF ListenerNext, AcceptError, StopAccepting, Return
<1>3. ASSUME NEW k \in Stops, Stop(k)
      PROVE  Quiet
  BY <1>3 DEF Stop
<1>4. CASE (\E w \in Tasks : PollShutdown(w)) \/ \E b \in Blockers : Block(b)
  BY <1>4 DEF PollShutdown, Block
<1>5. ASSUME NEW c \in Conns, ConnNext(c)
      PROVE  Quiet
  <2>1. ASSUME NEW r \in Rpcs, NEW q \in Requests, AcceptRpc(c, r, q)
        PROVE  Quiet
    BY <2>1 DEF AcceptRpc, TypeOK
  <2>2. CASE Accept(c) \/ Handshake(c) \/ StreamError(c) \/ StopConn(c)
             \/ LoseConn(c) \/ AbortConn(c)
    BY <2>2 DEF Accept, Handshake, StreamError, StopConn, LoseConn, AbortConn,
                CloseConn
  <2> QED
    BY <1>5, <2>1, <2>2 DEF ConnNext
<1>6. ASSUME NEW r \in Rpcs, PeerNext(r)
      PROVE  Quiet
  BY <1>6 DEF PeerNext, ReceiveBody, ResetStream, Flush
<1>7. ASSUME NEW r \in Rpcs, TaskNext(r)
      PROVE  Quiet \/ RequestPermit(r) \/ (r \in Holders /\ EndTask(r))
  <2>1. CASE \/ Deny(r) \/ RejectUnknown(r) \/ MissingMessage(r) \/ BadBody(r)
             \/ SeeShutdown(r) \/ SeeDeadline(r) \/ ReturnMessage(r)
             \/ ReturnError(r) \/ Panic(r) \/ StreamEnd(r)
    BY <2>1 DEF Deny, RejectUnknown, MissingMessage, BadBody, SeeShutdown,
                SeeDeadline, ReturnMessage, ReturnError, Panic, StreamEnd,
                Fail, Finish, Holders, InSelect
  <2>2. CASE Dispatch(r) \/ ReadMessage(r)
    BY <2>2 DEF Dispatch, ReadMessage, TypeOK
  <2>3. CASE ReturnStream(r)
    BY <2>3 DEF ReturnStream, Finish, Holders, TypeOK
  <2>4. CASE StreamItem(r)
    BY <2>4 DEF StreamItem, Finish, Holders
  <2> QED
    BY <1>7, <2>1, <2>2, <2>3, <2>4 DEF TaskNext
<1> QED
  BY <1>1, <1>2, <1>3, <1>4, <1>5, <1>6, <1>7 DEF Next

LEMMA HoldersFinite == IsFiniteSet(Holders) /\ Cardinality(Holders) \in Nat
<1>1. Holders \subseteq Rpcs
  BY DEF Holders
<1> QED
  BY <1>1, FS_Subset, FS_CardinalityType

LEMMA QuietKeeps ==
    ASSUME TypeOK, SemaphoreInv, Quiet
    PROVE  SemaphoreInv'
<1>1. Holders' = Holders
  BY DEF Quiet, Holders
<1>2. PermitAccounting'
  BY <1>1 DEF SemaphoreInv, PermitAccounting, Quiet
<1>3. QueueIsParkedTasks'
  BY DEF SemaphoreInv, QueueIsParkedTasks, Quiet
<1> QED
  BY <1>2, <1>3 DEF SemaphoreInv

\* A new task takes a free permit, or joins the end of the queue.
LEMMA RequestKeeps ==
    ASSUME TypeOK, SemaphoreInv, NEW r \in Rpcs, RequestPermit(r)
    PROVE  SemaphoreInv'
<1> USE DEF HoldsPermit
<1>1. task[r] = "spawned" /\ r \notin Holders
  BY DEF RequestPermit, Holders
<1>2. CASE permits > 0
  <2>1. /\ permits' = permits - 1 /\ permitQueue' = permitQueue
        /\ task' = [task EXCEPT ![r] = "granted"]
    BY <1>2 DEF RequestPermit
  <2>2. Holders' = Holders \cup {r}
    BY <2>1 DEF Holders, TypeOK
  <2>3. Cardinality(Holders') = Cardinality(Holders) + 1
    BY <1>1, <2>2, HoldersFinite, FS_AddElement
  <2>4. PermitAccounting'
    BY <1>2, <2>1, <2>3, HoldersFinite DEF SemaphoreInv, PermitAccounting, TypeOK
  <2>5. QueueIsParkedTasks'
    BY <1>1, <2>1 DEF SemaphoreInv, QueueIsParkedTasks, TypeOK
  <2> QED
    BY <2>4, <2>5 DEF SemaphoreInv
<1>3. CASE ~(permits > 0)
  <2>1. /\ permits' = permits /\ permitQueue' = Append(permitQueue, r)
        /\ task' = [task EXCEPT ![r] = "acquiring"]
    BY <1>3 DEF RequestPermit
  <2>2. Holders' = Holders
    BY <1>1, <2>1 DEF Holders, TypeOK
  <2>3. PermitAccounting'
    BY <1>3, <2>1, <2>2 DEF SemaphoreInv, PermitAccounting
  <2>4. QueueIsParkedTasks'
    <3> DEFINE n == Len(permitQueue)
    <3>1. n \in Nat /\ DOMAIN permitQueue = 1..n
      BY DEF TypeOK
    <3>2. /\ DOMAIN permitQueue' = 1..(n+1)
          /\ permitQueue'[n+1] = r
          /\ \A i \in 1..n : permitQueue'[i] = permitQueue[i]
      BY <2>1, <3>1, AppendProperties DEF TypeOK
    <3>3. \A i \in 1..n : permitQueue[i] # r
      BY <1>1, <3>1 DEF SemaphoreInv, QueueIsParkedTasks
    <3>4. ASSUME NEW s \in Rpcs
          PROVE  (task[s] = "acquiring")' <=> \E i \in DOMAIN permitQueue' : permitQueue'[i] = s
      <4>1. task[s] = "acquiring" <=> \E i \in 1..n : permitQueue[i] = s
        BY <3>1 DEF SemaphoreInv, QueueIsParkedTasks
      <4>2. CASE s = r
        <5>1. task'[s] = "acquiring"
          BY <2>1, <4>2 DEF TypeOK
        <5>2. n+1 \in DOMAIN permitQueue' /\ permitQueue'[n+1] = s
          BY <3>1, <3>2, <4>2
        <5> QED
          BY <5>1, <5>2
      <4>3. CASE s # r
        <5>1. task'[s] = task[s]
          BY <2>1, <4>3 DEF TypeOK
        <5>2. (\E i \in 1..(n+1) : permitQueue'[i] = s) <=> \E i \in 1..n : permitQueue[i] = s
          BY <3>1, <3>2, <4>3
        <5> QED
          BY <3>2, <4>1, <5>1, <5>2
      <4> QED
        BY <4>2, <4>3
    <3>5. \A i, j \in DOMAIN permitQueue' : permitQueue'[i] = permitQueue'[j] => i = j
      BY <3>1, <3>2, <3>3 DEF SemaphoreInv, QueueIsParkedTasks
    <3> QED
      BY <3>4, <3>5 DEF QueueIsParkedTasks
  <2> QED
    BY <2>3, <2>4 DEF SemaphoreInv
<1> QED
  BY <1>2, <1>3

\* A task that ends passes its permit to the head of the queue, or frees it.
LEMMA EndKeeps ==
    ASSUME TypeOK, SemaphoreInv, NEW r \in Holders, EndTask(r)
    PROVE  SemaphoreInv'
<1> USE DEF HoldsPermit
<1>1. r \in Rpcs /\ task[r] \in HoldsPermit
  BY DEF Holders
<1>2. IsFiniteSet(Holders \ {r}) /\ Cardinality(Holders \ {r}) = Cardinality(Holders) - 1
  BY HoldersFinite, FS_RemoveElement
<1>3. CASE permitQueue = <<>>
  <2>1. /\ permits' = permits + 1 /\ permitQueue' = permitQueue
        /\ task' = [task EXCEPT ![r] = "done"]
    BY <1>3 DEF EndTask
  <2>2. Holders' = Holders \ {r}
    BY <1>1, <2>1 DEF Holders, TypeOK
  <2>3. PermitAccounting'
    BY <1>2, <1>3, <2>1, <2>2, HoldersFinite DEF SemaphoreInv, PermitAccounting, TypeOK
  <2>4. QueueIsParkedTasks'
    BY <1>1, <2>1 DEF SemaphoreInv, QueueIsParkedTasks, TypeOK
  <2> QED
    BY <2>3, <2>4 DEF SemaphoreInv
<1>4. CASE permitQueue # <<>>
  <2> DEFINE h == Head(permitQueue)
             n == Len(permitQueue)
  <2>1. /\ permits' = permits /\ permitQueue' = Tail(permitQueue)
        /\ task' = [task EXCEPT ![r] = "done", ![h] = "granted"]
    BY <1>4 DEF EndTask
  <2>2. /\ n \in Nat /\ n > 0 /\ DOMAIN permitQueue = 1..n
        /\ h = permitQueue[1] /\ h \in Rpcs
    BY <1>4, HeadTailProperties, EmptySeq DEF TypeOK
  <2>3. task[h] = "acquiring" /\ h # r /\ h \notin Holders
    BY <1>1, <2>2 DEF SemaphoreInv, QueueIsParkedTasks, Holders
  <2>4. Holders' = (Holders \ {r}) \cup {h}
    BY <1>1, <2>1, <2>2, <2>3 DEF Holders, TypeOK
  <2>5. Cardinality(Holders') = Cardinality(Holders)
    <3>1. Cardinality((Holders \ {r}) \cup {h}) = Cardinality(Holders \ {r}) + 1
      BY <1>2, <2>3, FS_AddElement
    <3> QED
      BY <1>2, <2>4, <3>1, HoldersFinite
  <2>6. PermitAccounting'
    BY <1>4, <2>1, <2>5 DEF SemaphoreInv, PermitAccounting, TypeOK
  <2>7. QueueIsParkedTasks'
    <3>1. /\ DOMAIN permitQueue' = 1..(n-1)
          /\ \A i \in 1..(n-1) : permitQueue'[i] = permitQueue[i+1]
      BY <1>4, <2>1, <2>2, HeadTailProperties DEF TypeOK
    <3>2. ASSUME NEW s \in Rpcs
          PROVE  (task[s] = "acquiring")' <=> \E i \in DOMAIN permitQueue' : permitQueue'[i] = s
      <4>1. task[s] = "acquiring" <=> \E i \in 1..n : permitQueue[i] = s
        BY <2>2 DEF SemaphoreInv, QueueIsParkedTasks
      <4>2. (\E i \in 1..(n-1) : permitQueue'[i] = s) <=> \E i \in 2..n : permitQueue[i] = s
        <5>1. ASSUME NEW i \in 2..n, permitQueue[i] = s
              PROVE  i-1 \in 1..(n-1) /\ permitQueue'[i-1] = s
          BY <2>2, <3>1, <5>1
        <5>2. ASSUME NEW i \in 1..(n-1), permitQueue'[i] = s
              PROVE  i+1 \in 2..n /\ permitQueue[i+1] = s
          BY <2>2, <3>1, <5>2
        <5> QED
          BY <5>1, <5>2
      <4>3. \A i \in 2..n : permitQueue[i] # h
        BY <2>2 DEF SemaphoreInv, QueueIsParkedTasks
      <4>4. CASE s = h
        BY <2>1, <2>2, <2>3, <3>1, <4>2, <4>3, <4>4 DEF TypeOK
      <4>5. CASE s # h
        <5>1. (task[s] = "acquiring")' <=> task[s] = "acquiring"
          BY <1>1, <2>1, <2>3, <4>5 DEF TypeOK
        <5>2. (\E i \in 1..n : permitQueue[i] = s) <=> \E i \in 2..n : permitQueue[i] = s
          BY <2>2, <4>5
        <5> QED
          BY <3>1, <4>1, <4>2, <5>1, <5>2
      <4> QED
        BY <4>4, <4>5
    <3>3. \A i, j \in DOMAIN permitQueue' : permitQueue'[i] = permitQueue'[j] => i = j
      BY <2>2, <3>1 DEF SemaphoreInv, QueueIsParkedTasks
    <3> QED
      BY <3>2, <3>3 DEF QueueIsParkedTasks
  <2> QED
    BY <2>6, <2>7 DEF SemaphoreInv
<1> QED
  BY <1>3, <1>4

\* The inductive invariant of the semaphore.
LEMMA SemaphoreInvariant == Spec => []SemaphoreInv
<1>1. ASSUME Init
      PROVE  SemaphoreInv
  <2>1. Holders = {}
    BY <1>1 DEF Init, Holders, HoldsPermit
  <2>2. PermitAccounting
    BY <1>1, <2>1, FS_EmptySet DEF Init, PermitAccounting
  <2>3. QueueIsParkedTasks
    BY <1>1 DEF Init, QueueIsParkedTasks
  <2> QED
    BY <2>2, <2>3 DEF SemaphoreInv
<1>2. ASSUME TypeOK, SemaphoreInv, [Next]_vars
      PROVE  SemaphoreInv'
  BY <1>2, StepKinds, QuietKeeps, RequestKeeps, EndKeeps
<1> QED
  BY <1>1, <1>2, TypeCorrect, PTL DEF Spec

(***************************************************************************)
(* Every permit is free or held by one task, and nobody queues while one   *)
(* is free (server.rs:490-503).                                            *)
(***************************************************************************)
THEOREM PermitsAccountedFor == Spec => []PermitAccounting
BY SemaphoreInvariant, PTL DEF SemaphoreInv

\* The half of the invariant the later steps use: who is handed a permit.
LEMMA QueueInvariant == Spec => []QueueIsParkedTasks
BY SemaphoreInvariant, PTL DEF SemaphoreInv

(***************************************************************************)
(* max_concurrent_rpcs: at no time are more RPCs than that between the     *)
(* acquire() and the end of their task (server.rs:110).                    *)
(***************************************************************************)
THEOREM ConcurrencyBound == Spec => [](Cardinality(Holders) <= MaxRpcs)
<1>1. TypeOK /\ PermitAccounting => Cardinality(Holders) <= MaxRpcs
  BY HoldersFinite DEF TypeOK, PermitAccounting
<1> QED
  BY <1>1, TypeCorrect, PermitsAccountedFor, PTL

-----------------------------------------------------------------------------
(***************************************************************************)
(* What the server answers and reports.  A lemma says what a step of the   *)
(* whole server may be for one RPC: it stays as it is but for a move of    *)
(* its task, arrives, starts its response stream, sends an item, or ends   *)
(* with one of the outcomes handle_request has.  The invariants are then   *)
(* proved from that list alone.                                            *)
(***************************************************************************)

\* The codes of a denial, and the moves of a task that write nothing.
Denials == {"Unauthenticated", "PermissionDenied"}
Moves == {<<"spawned", "acquiring">>, <<"spawned", "granted">>,
          <<"acquiring", "granted">>, <<"reading", "handling">>}

\* Nothing is written or recorded; a dead stream stays dead.
Silent(r) ==
    /\ frames'[r] = frames[r] /\ recorded'[r] = recorded[r]
    /\ dead[r] => dead'[r]

Stays(r) ==
    /\ Silent(r) /\ req'[r] = req[r]
    /\ \/ task'[r] = task[r]
       \/ <<task[r], task'[r]>> \in Moves
       \/ task[r] = "granted" /\ task'[r] \in InSelect /\ ~req[r].req.denied /\ req[r].req.known

Arrives(r) == Silent(r) /\ task[r] = "none" /\ task'[r] = "spawned" /\ req'[r] \in Calls

\* The stream is alive, and what is written is fs.
Sends(r, fs) ==
    /\ ~dead[r] /\ dead'[r] = dead[r] /\ req'[r] = req[r]
    /\ frames'[r] = frames[r] \o fs

Records(r, code) == recorded'[r] = IF recorded[r] = None THEN code ELSE recorded[r]

Starts(r) ==
    /\ task[r] = "handling" /\ task'[r] = "streaming"
    /\ Sends(r, <<"headers">>) /\ Records(r, "Ok")

Yields(r) ==
    /\ task[r] = "streaming" /\ task'[r] = "streaming"
    /\ Sends(r, <<"data">>) /\ recorded'[r] = recorded[r]

\* What is recorded and what is written when a task in a given state ends.
Outcome(r, code, fs) ==
    \/ /\ task[r] = "granted" /\ req[r].req.denied
       /\ code \in Denials /\ fs = <<"headers", code>>
    \/ /\ task[r] = "granted" /\ ~req[r].req.denied /\ ~req[r].req.known
       /\ code = "Unimplemented" /\ fs = <<"headers", code>>
    \/ /\ task[r] \in InSelect
       /\ code \in Codes /\ fs = <<"headers", code>>
    \/ /\ task[r] \in InSelect /\ code = "Ok"
       /\ fs \in {<<"headers", "InvalidArgument">>, <<"headers", "data", "Ok">>,
                  <<"headers", "reset">>, <<"reset">>}
    \/ /\ task[r] = "streaming" /\ code = "Ok"
       /\ fs \in {<<"reset">>, <<"Ok">>, <<"Aborted">>}
    \/ /\ task[r] \in {"handling", "streaming"} /\ dead[r]
       /\ code = "Ok" /\ fs = <<>>

Ends(r, code, fs) ==
    /\ task'[r] = "done" /\ Records(r, code)
    /\ \/ Sends(r, fs)
       \/ /\ dead[r] /\ dead'[r] /\ req'[r] = req[r] /\ frames'[r] = frames[r]

RpcStep(r) ==
    \/ Stays(r) \/ Arrives(r) \/ Starts(r) \/ Yields(r)
    \/ \E code \in Codes, fs \in Seq(Frames) : Outcome(r, code, fs) /\ Ends(r, code, fs)

-----------------------------------------------------------------------------
\* A step of the server, seen from one RPC.

\* The permit goes to a task that waits for it, or to nobody.
LEMMA EndOfAnother ==
    ASSUME TypeOK, QueueIsParkedTasks, NEW r \in Rpcs, task[r] \in HoldsPermit, EndTask(r)
    PROVE  /\ task'[r] = "done"
           /\ \A s \in Rpcs \ {r} : \/ task'[s] = task[s]
                                    \/ task[s] = "acquiring" /\ task'[s] = "granted"
<1>1. CASE permitQueue = <<>>
  BY <1>1 DEF EndTask, TypeOK
<1>2. CASE permitQueue # <<>>
  <2>1. 1 \in DOMAIN permitQueue /\ Head(permitQueue) = permitQueue[1]
        /\ permitQueue[1] \in Rpcs
    BY <1>2, HeadTailProperties, EmptySeq DEF TypeOK
  <2>2. task[Head(permitQueue)] = "acquiring"
    BY <2>1 DEF QueueIsParkedTasks
  <2> QED
    BY <1>2, <2>1, <2>2 DEF EndTask, TypeOK, HoldsPermit
<1> QED
  BY <1>1, <1>2

\* An RPC that ends, seen from itself and from the others.
LEMMA FinishStep ==
    ASSUME TypeOK, QueueIsParkedTasks, NEW r \in Rpcs, task[r] \in HoldsPermit,
           NEW code \in Codes, NEW fs \in Seq(Frames),
           Outcome(r, code, fs), Finish(r, code, fs), NEW s \in Rpcs
    PROVE  RpcStep(s)
<1>1. CASE s = r
  <2>1. task'[r] = "done"
    BY EndOfAnother DEF Finish
  <2>2. Records(r, code)
    BY DEF Finish, Record, Records, TypeOK
  <2>3. dead'[r] = dead[r] /\ req'[r] = req[r]
    BY DEF Finish
  <2>4. frames'[r] = IF dead[r] THEN frames[r] ELSE frames[r] \o fs
    BY DEF Finish, Write, TypeOK
  <2>5. Ends(r, code, fs)
    BY <2>1, <2>2, <2>3, <2>4 DEF Ends, Sends, TypeOK
  <2> QED
    BY <1>1, <2>5 DEF RpcStep
<1>2. CASE s # r
  <2>1. Silent(s) /\ req'[s] = req[s]
    BY <1>2 DEF Finish, Record, Write, TypeOK, Silent
  <2>2. task'[s] = task[s] \/ <<task[s], task'[s]>> \in Moves
    BY <1>2, EndOfAnother DEF Finish, Moves
  <2> QED
    BY <2>1, <2>2 DEF RpcStep, Stays
<1> QED
  BY <1>1, <1>2

\* Nothing but the streams' deaths, and moves of one task.
LEMMA QuietStep ==
    ASSUME TypeOK, NEW r \in Rpcs, UNCHANGED <<frames, recorded, req>>, dead[r] => dead'[r],
           \/ task'[r] = task[r]
           \/ <<task[r], task'[r]>> \in Moves
           \/ task[r] = "granted" /\ task'[r] \in InSelect /\ ~req[r].req.denied /\ req[r].req.known
    PROVE  RpcStep(r)
BY DEF RpcStep, Stays, Silent

LEMMA ServerStep ==
    ASSUME TypeOK, NEW r \in Rpcs,
           \/ UNCHANGED vars \/ ListenerNext \/ \E k \in Stops : Stop(k)
           \/ \E w \in Tasks : PollShutdown(w)
           \/ \E b \in Blockers : Block(b)
           \/ \E s \in Rpcs : PeerNext(s)
    PROVE  RpcStep(r)
<1> USE DEF stream
<1>1. CASE UNCHANGED vars
  BY <1>1, QuietStep DEF vars
<1>2. CASE ListenerNext
  BY <1>2, QuietStep DEF ListenerNext, AcceptError, StopAccepting, Return
<1>3. CASE \E k \in Stops : Stop(k)
  BY <1>3, QuietStep DEF Stop
<1>4. CASE (\E w \in Tasks : PollShutdown(w)) \/ \E b \in Blockers : Block(b)
  BY <1>4, QuietStep DEF PollShutdown, Block
<1>5. ASSUME NEW s \in Rpcs, PeerNext(s)
      PROVE  RpcStep(r)
  BY <1>5, QuietStep DEF PeerNext, ReceiveBody, ResetStream, Flush, TypeOK
<1> QED
  BY <1>1, <1>2, <1>3, <1>4, <1>5

LEMMA ConnStep ==
    ASSUME TypeOK, NEW r \in Rpcs, NEW c \in Conns, ConnNext(c)
    PROVE  RpcStep(r)
<1> USE DEF stream
<1>1. ASSUME NEW s \in Rpcs, NEW q \in Requests, AcceptRpc(c, s, q)
      PROVE  RpcStep(r)
  <2>1. CASE s = r
    <3>1. Silent(r) /\ task[r] = "none" /\ task'[r] = "spawned"
      BY <1>1, <2>1 DEF AcceptRpc, Silent, TypeOK
    <3>2. req'[r] \in Calls
      BY <1>1, <2>1 DEF AcceptRpc, TypeOK, Calls
    <3> QED
      BY <3>1, <3>2 DEF RpcStep, Arrives
  <2>2. CASE s # r
    BY <1>1, <2>2 DEF AcceptRpc, RpcStep, Stays, Silent, TypeOK
  <2> QED
    BY <2>1, <2>2
<1>2. CASE Accept(c) \/ Handshake(c) \/ StreamError(c)
  BY <1>2, QuietStep DEF Accept, Handshake, StreamError
<1>3. CASE StopConn(c) \/ LoseConn(c) \/ AbortConn(c)
  BY <1>3, QuietStep DEF StopConn, LoseConn, AbortConn, CloseConn
<1> QED
  BY <1>1, <1>2, <1>3 DEF ConnNext

LEMMA TaskStep ==
    ASSUME TypeOK, QueueIsParkedTasks, NEW s \in Rpcs, TaskNext(s), NEW r \in Rpcs
    PROVE  RpcStep(r)
<1> USE DEF HoldsPermit, InSelect
<1>codes. /\ {"Ok", "Unauthenticated", "PermissionDenied", "Unimplemented",
             "Internal", "Unavailable", "DeadlineExceeded", "Aborted"} \subseteq Codes
          /\ <<>> \in Seq(Frames)
          /\ \A f \in Frames : <<f>> \in Seq(Frames)
          /\ \A f, g \in Frames : <<f, g>> \in Seq(Frames)
          /\ \A f, g, h \in Frames : <<f, g, h>> \in Seq(Frames)
          /\ Codes \subseteq Frames /\ {"headers", "data", "reset"} \subseteq Frames
          /\ "InvalidArgument" \in Frames
  BY DEF Codes, Frames, Terminals
<1>fail. ASSUME NEW code \in Codes, Fail(s, code), task[s] \in HoldsPermit,
                Outcome(s, code, <<"headers", code>>)
         PROVE  RpcStep(r)
  <2>1. <<"headers", code>> \in Seq(Frames)
    BY <1>codes
  <2> QED
    BY <1>fail, <2>1, FinishStep DEF Fail
<1>1. CASE RequestPermit(s) \/ Dispatch(s) \/ ReadMessage(s)
  BY <1>1, QuietStep DEF RequestPermit, Dispatch, ReadMessage, Moves, TypeOK, stream
<1>2. CASE Deny(s)
  BY <1>2, <1>fail, <1>codes DEF Deny, Outcome, Denials
<1>3. CASE RejectUnknown(s)
  BY <1>3, <1>fail, <1>codes DEF RejectUnknown, Outcome
<1>4. CASE BadBody(s) \/ SeeShutdown(s) \/ SeeDeadline(s) \/ ReturnError(s)
  BY <1>4, <1>fail, <1>codes DEF BadBody, SeeShutdown, SeeDeadline, ReturnError, Outcome
<1>5. CASE MissingMessage(s)
  <2>1. <<"headers", "InvalidArgument">> \in Seq(Frames)
    BY <1>codes
  <2> QED
    BY <1>5, <1>codes, <2>1, FinishStep DEF MissingMessage, Outcome
<1>6. CASE ReturnMessage(s)
  <2>1. PICK fs \in {<<"headers", "data", "Ok">>, <<"headers", "reset">>} :
             Finish(s, "Ok", fs)
    BY <1>6 DEF ReturnMessage
  <2>2. fs \in Seq(Frames)
    <3>1. <<"headers", "data", "Ok">> \in Seq(Frames)
      BY <1>codes
    <3>2. <<"headers", "reset">> \in Seq(Frames)
      BY <1>codes
    <3> QED
      BY <3>1, <3>2
  <2>3. task[s] = "handling"
    BY <1>6 DEF ReturnMessage
  <2>4. Outcome(s, "Ok", fs)
    BY <2>3 DEF Outcome
  <2> QED
    BY <2>1, <2>2, <2>3, <2>4, <1>codes, FinishStep
<1>7. CASE Panic(s)
  <2>1. Outcome(s, "Ok", <<"reset">>)
    BY <1>7 DEF Panic, Outcome
  <2>2. <<"reset">> \in Seq(Frames)
    BY <1>codes
  <2> QED
    BY <1>7, <2>1, <2>2, <1>codes, FinishStep DEF Panic
<1>8. CASE ReturnStream(s)
  <2>1. task[s] = "handling"
    BY <1>8 DEF ReturnStream
  <2>2. CASE dead[s]
    <3>1. Outcome(s, "Ok", <<>>)
      BY <2>1, <2>2 DEF Outcome
    <3> QED
      BY <1>8, <2>1, <2>2, <3>1, <1>codes, FinishStep DEF ReturnStream
  <2>3. CASE ~dead[s]
    <3>1. /\ Record(s, "Ok") /\ Write(s, <<"headers">>)
          /\ task' = [task EXCEPT ![s] = "streaming"]
          /\ UNCHANGED <<req, dead>>
      BY <1>8, <2>3 DEF ReturnStream
    <3>2. CASE r = s
      BY <2>1, <2>3, <3>1, <3>2 DEF RpcStep, Starts, Sends, Records, Record, Write, TypeOK
    <3>3. CASE r # s
      BY <3>1, <3>3 DEF RpcStep, Stays, Silent, Record, Write, TypeOK
    <3> QED
      BY <3>2, <3>3
  <2> QED
    BY <2>2, <2>3
<1>9. CASE StreamItem(s)
  <2>1. task[s] = "streaming"
    BY <1>9 DEF StreamItem
  <2>2. CASE dead[s] /\ Finish(s, "Ok", <<>>)
    <3>1. Outcome(s, "Ok", <<>>)
      BY <2>1, <2>2 DEF Outcome
    <3> QED
      BY <2>1, <2>2, <3>1, <1>codes, FinishStep
  <2>3. CASE Finish(s, "Ok", <<"reset">>)
    <3>1. Outcome(s, "Ok", <<"reset">>)
      BY <2>1 DEF Outcome
    <3>2. <<"reset">> \in Seq(Frames)
      BY <1>codes
    <3> QED
      BY <2>1, <2>3, <3>1, <3>2, <1>codes, FinishStep
  <2>4. CASE /\ ~dead[s] /\ Write(s, <<"data">>)
             /\ UNCHANGED <<listener, conn, task, req, semaphore, body, flushed,
                            dead, recorded, token>>
    <3>1. CASE r = s
      BY <2>1, <2>4, <3>1 DEF RpcStep, Yields, Sends, Write, TypeOK
    <3>2. CASE r # s
      BY <2>4, <3>2 DEF RpcStep, Stays, Silent, Write, TypeOK
    <3> QED
      BY <3>1, <3>2
  <2> QED
    BY <1>9, <2>2, <2>3, <2>4 DEF StreamItem
<1>10. CASE StreamEnd(s)
  <2>1. PICK code \in {"Ok", "Aborted"} : Finish(s, "Ok", <<code>>)
    BY <1>10 DEF StreamEnd
  <2>2. task[s] = "streaming"
    BY <1>10 DEF StreamEnd
  <2>3. Outcome(s, "Ok", <<code>>)
    BY <2>2 DEF Outcome
  <2>4. <<code>> \in Seq(Frames)
    BY <1>codes
  <2> QED
    BY <2>1, <2>2, <2>3, <2>4, <1>codes, FinishStep
<1> QED
  BY <1>1, <1>2, <1>3, <1>4, <1>5, <1>6, <1>7, <1>8, <1>9, <1>10 DEF TaskNext

\* Whatever the server does is one of the steps listed above for every RPC.
LEMMA StepOfAnRpc ==
    ASSUME TypeOK, QueueIsParkedTasks, [Next]_vars, NEW r \in Rpcs
    PROVE  RpcStep(r)
BY ServerStep, ConnStep, TaskStep DEF Next

-----------------------------------------------------------------------------
\* The response of an RPC.

\* A response under way: nothing yet, or headers and messages; and one that
\* is over.
Begun(fs) == \A i \in 1..Len(fs) : fs[i] = IF i = 1 THEN "headers" ELSE "data"
Complete(fs) ==
    /\ Len(fs) > 0 /\ fs[Len(fs)] \in Terminals
    /\ \A i \in 1..Len(fs) : /\ fs[i] \in Terminals => i = Len(fs)
                             /\ fs[i] = "headers" <=> i = 1 /\ fs[i] # "reset"

(***************************************************************************)
(* The inductive invariant of responses.  Up to the end of the select!     *)
(* nothing was written or recorded; a streaming task is recorded as Ok and *)
(* its response is under way; a task that is over is recorded, and its     *)
(* response is complete unless the stream died under it.                   *)
(***************************************************************************)
ResponseOf(r) ==
    /\ task[r] \notin {"streaming", "done"} => frames[r] = <<>> /\ recorded[r] = None
    /\ task[r] = "streaming" => /\ Len(frames[r]) > 0 /\ Begun(frames[r])
                                /\ recorded[r] = "Ok"
    /\ task[r] = "done" => /\ Complete(frames[r]) \/ (dead[r] /\ Begun(frames[r]))
                           /\ recorded[r] # None
ResponseInv == \A r \in Rpcs : ResponseOf(r)

\* Frames after frames.
LEMMA Appended ==
    ASSUME NEW fs \in Seq(Frames), NEW f \in Frames
    PROVE  /\ Len(fs \o <<f>>) = Len(fs) + 1
           /\ (fs \o <<f>>)[Len(fs) + 1] = f
           /\ \A i \in 1..Len(fs) : (fs \o <<f>>)[i] = fs[i]
<1>1. <<f>> \in Seq(Frames) /\ Len(<<f>>) = 1 /\ <<f>>[1] = f
  OBVIOUS
<1> QED
  BY <1>1, ConcatProperties

LEMMA FrameKinds == {"headers", "data"} \cap Terminals = {} /\ Codes \subseteq Terminals
                    /\ "reset" \in Terminals /\ Terminals \subseteq Frames
BY DEF Terminals, Codes, Frames

\* What a task writes at its end completes its response.
LEMMA OutcomeCompletes ==
    ASSUME TypeOK, NEW r \in Rpcs, ResponseOf(r), NEW code \in Codes, NEW fs \in Seq(Frames),
           Outcome(r, code, fs), ~dead[r]
    PROVE  Complete(frames[r] \o fs)
<1>0. frames[r] \in Seq(Frames)
  BY DEF TypeOK
<1>1. CASE task[r] = "streaming"
  <2>1. PICK f \in {"reset", "Ok", "Aborted"} : fs = <<f>>
    BY <1>1 DEF Outcome, InSelect
  <2>2. f \in Terminals /\ f \in Frames
    BY FrameKinds DEF Codes
  <2>3. Len(frames[r]) > 0 /\ Begun(frames[r])
    BY <1>1 DEF ResponseOf
  <2> QED
    BY <1>0, <2>1, <2>2, <2>3, Appended, FrameKinds DEF Complete, Begun
<1>2. CASE task[r] # "streaming"
  <2>1. frames[r] = <<>>
    BY <1>2 DEF ResponseOf, Outcome, InSelect
  <2>2. frames[r] \o fs = fs
    BY <2>1
  <2>3. \/ \E f \in Codes : fs = <<"headers", f>>
        \/ fs \in {<<"headers", "data", "Ok">>, <<"headers", "reset">>, <<"reset">>}
    BY <1>2 DEF Outcome, Denials, Codes
  <2>4. ASSUME NEW f \in Terminals, fs = <<"headers", f>>
        PROVE  Complete(fs)
    BY <2>4, FrameKinds DEF Complete
  <2>5. ASSUME fs = <<"headers", "data", "Ok">>
        PROVE  Complete(fs)
    <3>1. Len(fs) = 3 /\ fs[1] = "headers" /\ fs[2] = "data" /\ fs[3] = "Ok"
      BY <2>5
    <3>2. ASSUME NEW i \in 1..3
          PROVE  /\ fs[i] \in Terminals => i = 3
                 /\ fs[i] = "headers" <=> i = 1 /\ fs[i] # "reset"
      <4>1. i = 1 \/ i = 2 \/ i = 3
        OBVIOUS
      <4> QED
        BY <3>1, <4>1, FrameKinds
    <3>3. fs[3] \in Terminals
      BY <3>1, FrameKinds DEF Codes
    <3> QED
      BY <3>1, <3>2, <3>3 DEF Complete
  <2>6. ASSUME fs = <<"reset">>
        PROVE  Complete(fs)
    <3>1. Len(fs) = 1 /\ fs[1] = "reset"
      BY <2>6
    <3>2. "reset" # "headers" /\ "reset" \in Terminals
      BY FrameKinds
    <3> QED
      BY <3>1, <3>2 DEF Complete
  <2> QED
    BY <2>2, <2>3, <2>4, <2>5, <2>6, FrameKinds
<1> QED
  BY <1>1, <1>2

LEMMA ResponseStep ==
    ASSUME TypeOK, NEW r \in Rpcs, ResponseOf(r), RpcStep(r)
    PROVE  ResponseOf(r)'
<1>0. frames[r] \in Seq(Frames) /\ recorded[r] \in Codes \cup {None} /\ dead[r] \in BOOLEAN
  BY DEF TypeOK
<1>1. CASE Stays(r)
  BY <1>1 DEF ResponseOf, Stays, Silent, Moves, InSelect
<1>2. CASE Arrives(r)
  BY <1>2 DEF ResponseOf, Arrives, Silent
<1>3. CASE Starts(r)
  <2>1. frames[r] = <<>> /\ recorded[r] = None
    BY <1>3 DEF ResponseOf, Starts
  <2>2. frames'[r] = <<"headers">> /\ recorded'[r] = "Ok" /\ task'[r] = "streaming"
    BY <1>3, <2>1 DEF Starts, Sends, Records
  <2> QED
    BY <2>2 DEF ResponseOf, Begun
<1>4. CASE Yields(r)
  <2>1. Len(frames[r]) > 0 /\ Begun(frames[r]) /\ recorded[r] = "Ok"
    BY <1>4 DEF ResponseOf, Yields
  <2>2. /\ frames'[r] = frames[r] \o <<"data">> /\ recorded'[r] = recorded[r]
        /\ task'[r] = "streaming"
    BY <1>4 DEF Yields, Sends
  <2>3. Len(frames'[r]) > 0 /\ Begun(frames'[r])
    BY <1>0, <2>1, <2>2, Appended DEF Begun, Frames
  <2> QED
    BY <2>1, <2>2, <2>3 DEF ResponseOf
<1>5. ASSUME NEW code \in Codes, NEW fs \in Seq(Frames), Outcome(r, code, fs), Ends(r, code, fs)
      PROVE  ResponseOf(r)'
  <2>1. task'[r] = "done" /\ recorded'[r] # None
    BY <1>5 DEF Ends, Records, ServerAssumption
  <2>2. CASE Sends(r, fs)
    BY <1>5, <2>1, <2>2, OutcomeCompletes DEF ResponseOf, Sends
  <2>3. CASE dead[r] /\ dead'[r] /\ frames'[r] = frames[r]
    <3>1. Begun(frames[r])
      BY <1>5 DEF ResponseOf, Outcome, InSelect, Begun
    <3> QED
      BY <2>1, <2>3, <3>1 DEF ResponseOf
  <2> QED
    BY <1>5, <2>2, <2>3 DEF Ends
<1> QED
  BY <1>1, <1>2, <1>3, <1>4, <1>5 DEF RpcStep

LEMMA ResponseInvariant == Spec => []ResponseInv
<1>1. Init => ResponseInv
  BY DEF Init, ResponseInv, ResponseOf
<1>2. ASSUME TypeOK, QueueIsParkedTasks, ResponseInv, [Next]_vars
      PROVE  ResponseInv'
  BY <1>2, StepOfAnRpc, ResponseStep DEF ResponseInv
<1> QED
  BY <1>1, <1>2, TypeCorrect, QueueInvariant, PTL DEF Spec

(***************************************************************************)
(* On every path handle_request writes headers, messages and one terminal, *)
(* in that order, and leaves no live stream without the terminal           *)
(* (server.rs:604-635, 684-732).                                           *)
(***************************************************************************)
THEOREM ResponsesAreWellFormed == Spec => []ResponseWellFormed
<1>1. ASSUME TypeOK, ResponseInv
      PROVE  ResponseWellFormed
  <2> SUFFICES ASSUME NEW r \in Rpcs
               PROVE  LET n == Len(frames[r]) IN
                      /\ \A i \in 1..n : frames[r][i] \in Terminals => i = n
                      /\ \A i \in 1..n : frames[r][i] = "headers" <=> i = 1 /\ frames[r][i] # "reset"
                      /\ n > 0 /\ frames[r][n] \in Terminals => task[r] = "done"
                      /\ task[r] = "done" /\ ~dead[r] => n > 0 /\ frames[r][n] \in Terminals
    BY DEF ResponseWellFormed
  <2>1. Len(frames[r]) \in Nat /\ ResponseOf(r)
    BY <1>1 DEF TypeOK, ResponseInv
  <2>2. CASE task[r] \notin {"streaming", "done"}
    BY <2>1, <2>2 DEF ResponseOf
  <2>3. CASE Begun(frames[r])
    BY <2>1, <2>3, FrameKinds DEF ResponseOf, Begun, Complete
  <2>4. CASE task[r] = "done" /\ Complete(frames[r])
    BY <2>1, <2>4 DEF Complete
  <2> QED
    BY <2>1, <2>2, <2>3, <2>4 DEF ResponseOf
<1> QED
  BY <1>1, TypeCorrect, ResponseInvariant, PTL

(***************************************************************************)
(* The status of a call is recorded when it leaves its select!, not        *)
(* before, and it is never recorded again (server.rs:673-735).             *)
(***************************************************************************)
THEOREM RecordingIsFinal == Spec => RecordedOnce
<1> DEFINE Recorded == \A r \in Rpcs : recorded[r] # None <=> task[r] \in {"streaming", "done"}
           Kept == \A r \in Rpcs : recorded[r] # None => recorded'[r] = recorded[r]
<1>1. TypeOK /\ ResponseInv => Recorded
  BY DEF ResponseInv, ResponseOf, Codes
<1>2. ASSUME TypeOK, QueueIsParkedTasks, ResponseInv, [Next]_vars
      PROVE  [Kept]_vars
  <2> SUFFICES ASSUME NEW r \in Rpcs, recorded[r] # None
               PROVE  recorded'[r] = recorded[r]
    OBVIOUS
  <2>1. RpcStep(r)
    BY <1>2, StepOfAnRpc
  <2> QED
    BY <2>1 DEF RpcStep, Stays, Arrives, Silent, Starts, Yields, Ends, Records
<1> QED
  BY <1>1, <1>2, TypeCorrect, QueueInvariant, ResponseInvariant, PTL
  DEF Spec, RecordedOnce

-----------------------------------------------------------------------------
\* What is reported.

ReportedOf(r) ==
    \A i \in DOMAIN frames[r] :
        frames[r][i] \in Codes /\ recorded[r] # frames[r][i] => recorded[r] = "Ok"

LEMMA ReportedStep ==
    ASSUME TypeOK, NEW r \in Rpcs, ResponseOf(r), ReportedOf(r), RpcStep(r)
    PROVE  ReportedOf(r)'
<1>1. CASE Stays(r) \/ Arrives(r)
  BY <1>1 DEF Stays, Arrives, Silent, ReportedOf
<1>2. CASE Starts(r) \/ Yields(r)
  BY <1>2 DEF Starts, Yields, Records, ResponseOf, ReportedOf
<1>3. ASSUME NEW code \in Codes, NEW fs \in Seq(Frames), Outcome(r, code, fs), Ends(r, code, fs)
      PROVE  ReportedOf(r)'
  <2>1. CASE task[r] = "streaming"
    BY <1>3, <2>1 DEF ResponseOf, Ends, Records, ReportedOf, ServerAssumption, Codes
  <2>2. CASE task[r] # "streaming"
    <3>1. frames[r] = <<>> /\ recorded[r] = None
      BY <1>3, <2>2 DEF ResponseOf, Outcome, InSelect
    <3>2. recorded'[r] = code /\ (frames'[r] = fs \/ frames'[r] = <<>>)
      BY <1>3, <3>1 DEF Ends, Records, Sends
    <3>3. code = "Ok" \/ fs = <<"headers", code>>
      BY <1>3 DEF Outcome
    <3>4. ASSUME fs = <<"headers", code>>, NEW i \in DOMAIN fs, fs[i] \in Codes
          PROVE  fs[i] = code
      <4>1. DOMAIN fs = {1, 2} /\ fs[1] = "headers" /\ fs[2] = code
        BY <3>4
      <4> QED
        BY <3>4, <4>1, FrameKinds
    <3> QED
      BY <3>2, <3>3, <3>4 DEF ReportedOf
  <2> QED
    BY <2>1, <2>2
<1> QED
  BY <1>1, <1>2, <1>3 DEF RpcStep

(***************************************************************************)
(* An error given to finish_with_status is the status on the wire; only Ok *)
(* may stand for another (server.rs:604-635).                              *)
(***************************************************************************)
THEOREM ReportedErrorsAreSent == Spec => []ReportedErrorIsSent
<1>1. Init => ReportedErrorIsSent
  BY DEF Init, ReportedErrorIsSent
<1>2. ASSUME TypeOK, QueueIsParkedTasks, ResponseInv, ReportedErrorIsSent, [Next]_vars
      PROVE  ReportedErrorIsSent'
  BY <1>2, StepOfAnRpc, ReportedStep DEF ResponseInv, ReportedErrorIsSent, ReportedOf
<1> QED
  BY <1>1, <1>2, TypeCorrect, QueueInvariant, ResponseInvariant, PTL DEF Spec

-----------------------------------------------------------------------------
\* What is denied.

DeniedOf(r) ==
    req[r] # None /\ req[r].req.denied =>
        /\ task[r] \notin InSelect \cup {"streaming"}
        /\ \A i \in DOMAIN frames[r] : frames[r][i] \in {"headers"} \cup Denials
        /\ recorded[r] \in {None} \cup Denials

LEMMA DeniedStep ==
    ASSUME TypeOK, NEW r \in Rpcs, ResponseOf(r), DeniedOf(r), RpcStep(r)
    PROVE  DeniedOf(r)'
<1>1. CASE Stays(r)
  BY <1>1 DEF Stays, Silent, Moves, DeniedOf, InSelect
<1>2. CASE Arrives(r)
  BY <1>2 DEF Arrives, Silent, ResponseOf, DeniedOf, InSelect
<1>3. CASE Starts(r) \/ Yields(r)
  BY <1>3 DEF Starts, Yields, Sends, DeniedOf, InSelect
<1>4. ASSUME NEW code \in Codes, NEW fs \in Seq(Frames), Outcome(r, code, fs), Ends(r, code, fs)
      PROVE  DeniedOf(r)'
  <2> SUFFICES ASSUME req[r] # None, req[r].req.denied
               PROVE  DeniedOf(r)'
    BY <1>4 DEF DeniedOf, Ends, Sends
  <2>1. task[r] = "granted" /\ code \in Denials /\ fs = <<"headers", code>>
    BY <1>4 DEF Outcome, DeniedOf, InSelect
  <2>2. frames[r] = <<>> /\ recorded[r] = None
    BY <2>1 DEF ResponseOf
  <2>3. /\ task'[r] = "done" /\ recorded'[r] = code
        /\ frames'[r] \in {<<>>, <<"headers", code>>}
    BY <1>4, <2>1, <2>2 DEF Ends, Sends, Records
  <2>4. \A i \in DOMAIN frames'[r] : frames'[r][i] \in {"headers"} \cup Denials
    <3>1. CASE frames'[r] = <<"headers", code>>
      BY <2>1, <3>1
    <3> QED
      BY <2>3, <3>1
  <2> QED
    BY <2>1, <2>3, <2>4 DEF DeniedOf, InSelect
<1> QED
  BY <1>1, <1>2, <1>3, <1>4 DEF RpcStep

(***************************************************************************)
(* Nothing of a denied call reaches its handler, and nothing but the       *)
(* denial reaches the peer and the sinks, whether the registry knows the   *)
(* method or not: the policy is asked before the routing result is used    *)
(* (server.rs:586-637).                                                    *)
(***************************************************************************)
THEOREM DenialsHold == Spec => []DeniedNeverServed
<1> DEFINE Inv == \A r \in Rpcs : DeniedOf(r)
<1>1. Init => Inv
  BY DEF Init, DeniedOf
<1>2. ASSUME TypeOK, QueueIsParkedTasks, ResponseInv, Inv, [Next]_vars
      PROVE  Inv'
  BY <1>2, StepOfAnRpc, DeniedStep DEF ResponseInv
<1>3. Inv => DeniedNeverServed
  BY DEF DeniedOf, DeniedNeverServed, Denials
<1> QED
  BY <1>1, <1>2, <1>3, TypeCorrect, QueueInvariant, ResponseInvariant, PTL DEF Spec
=============================================================================
