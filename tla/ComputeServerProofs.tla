-------------------------- MODULE ComputeServerProofs --------------------------
(***************************************************************************)
(* What holds of the compute server and its cancellable futures for all    *)
(* computations, threads, faces and mailboxes.                             *)
(***************************************************************************)
EXTENDS ComputeServer, FiniteSetTheorems, TLAPS

-------------------------------------------------------------------------------
(* Types                                                                   *)

\* A step of Next is one of the actions, and an action of the futures is
\* taken by one computation or by one thread (the cases of every proof below).
LEMMA StepCases ==
  ASSUME [Next]_vars
  PROVE  \/ \E n \in Names, f \in Faces : HandleInterest(f, n)
         \/ \E n \in Names : HandleCancelRequest(n)
         \/ \E n \in Names : HandleResult(n)
         \/ \E n \in Names : ServerStep(n)
         \/ \E n \in Names : WorkerStep(n)
         \/ \E n \in Names : CallableFails(n)
         \/ \E n \in Names : CallableFound(n)
         \/ \E n \in Names : AddFuture(n)
         \/ \E n \in Names : SendResult(n)
         \/ \E n \in Names : RunStep(n) /\ UNCHANGED <<serverVars, workerVars>>
         \/ \E n \in Names : CancelStep(n) /\ UNCHANGED <<serverVars, workerVars>>
         \/ \E t \in Threads : Idle(t) /\ UNCHANGED <<serverVars, workerVars>>
         \/ UNCHANGED vars
BY DEF Next, Calculate, CallableStep

\* A step of the thread that runs a computation keeps the types.
LEMMA RunStepType ==
  ASSUME FutureTypeOK, NEW n \in Names, RunStep(n)
  PROVE  FutureTypeOK'
<1> USE DEF FutureTypeOK, Phases
<1>1. ASSUME NEW t \in Threads, Claim(n, t) PROVE FutureTypeOK'
  BY <1>1 DEF Claim
<1>2. CASE Register(n)
  BY <1>2 DEF Register
<1>3. CASE Begin(n)
  BY <1>3 DEF Begin
<1>4. ASSUME NEW v \in {"content", "nothing"}, EndWork(n, v) PROVE FutureTypeOK'
  BY <1>4 DEF EndWork
<1>5. CASE Unregister(n)
  BY <1>5 DEF Unregister
<1>6. CASE Complete(n)
  BY <1>6 DEF Complete
<1> QED BY <1>1, <1>2, <1>3, <1>4, <1>5, <1>6 DEF RunStep

\* A step of cancel() keeps the types.
LEMMA CancelStepType ==
  ASSUME FutureTypeOK, NEW n \in Names, CancelStep(n)
  PROVE  FutureTypeOK'
<1> USE DEF FutureTypeOK, Phases
<1>1. CASE Interrupt(n)
  BY <1>1 DEF Interrupt
<1>2. CASE TryFailure(n)
  BY <1>2 DEF TryFailure
<1>3. CASE SetCancelled(n)
  BY <1>3 DEF SetCancelled
<1> QED BY <1>1, <1>2, <1>3 DEF CancelStep

\* No step changes the type of a variable.
LEMMA TypeStep ==
  ASSUME TypeOK, [Next]_vars
  PROVE  TypeOK'
<1> USE DEF TypeOK
<1>1. ASSUME NEW n \in Names, NEW f \in Faces, HandleInterest(f, n) PROVE TypeOK'
  <2>1. FutureTypeOK'
    BY <1>1 DEF HandleInterest, futureVars, FutureTypeOK
  <2>2. pit' \in [Names -> SUBSET Faces]
    BY <1>1 DEF HandleInterest
  <2>3. Compute(n) \in Message
    BY DEF Message, Compute
  <2>4. toServer' \in Seq(Message)
    BY <1>1, <2>3 DEF HandleInterest
  <2> QED BY <2>1, <2>2, <2>4, <1>1 DEF HandleInterest, workerVars
<1>2. ASSUME NEW n \in Names, HandleCancelRequest(n) PROVE TypeOK'
  <2>1. Cancel(n) \in Message
    BY DEF Message, Cancel
  <2> QED BY <1>2, <2>1 DEF HandleCancelRequest, workerVars, futureVars, FutureTypeOK
<1>3. ASSUME NEW n \in Names, HandleResult(n) PROVE TypeOK'
  BY <1>3 DEF HandleResult, workerVars, futureVars, FutureTypeOK
<1>4. ASSUME NEW n \in Names, ServerStep(n) PROVE TypeOK'
  <2>1. FutureTypeOK' /\ pit' = pit /\ store' = store /\ results' = results /\ callable' = callable /\ futures' = futures
    BY <1>4 DEF ServerStep, ServerCompute, ServerCancel, ServerCancelUnknown, futureVars, workerVars, FutureTypeOK
  <2>2. toServer' \in Seq(Message)
    <3>1. toServer # << >> /\ toServer' = Tail(toServer)
      BY <1>4 DEF ServerStep, ServerCompute, ServerCancel, ServerCancelUnknown, Received
    <3> QED BY <3>1
  <2>3. computeWorkers' \subseteq Names /\ acked' \subseteq Names
    BY <1>4 DEF ServerStep, ServerCompute, ServerCancel, ServerCancelUnknown, Forget
  <2>4. worker' \in [Names -> {"none", "alive", "stopped"}]
    BY <1>4 DEF ServerStep, ServerCompute, ServerCancel, ServerCancelUnknown, workerVars
  <2>5. toWorker' \in [Names -> Seq({"Compute", "Cancel"})]
    <3>1. \A w \in {"Compute", "Cancel"} : Append(toWorker[n], w) \in Seq({"Compute", "Cancel"})
      OBVIOUS
    <3> QED BY <1>4, <3>1 DEF ServerStep, ServerCompute, ServerCancel, ServerCancelUnknown, workerVars
  <2> QED BY <2>1, <2>2, <2>3, <2>4, <2>5
<1>5. ASSUME NEW n \in Names, WorkerStep(n) PROVE TypeOK'
  <2>1. FutureTypeOK' /\ UNCHANGED serverVars
    BY <1>5 DEF WorkerStep, WorkerCompute, WorkerCancel, WorkerCancelled, WorkerFails, futureVars, FutureTypeOK
  <2>2. toWorker' \in [Names -> Seq({"Compute", "Cancel"})]
    <3>1. /\ << >> \in Seq({"Compute", "Cancel"})
          /\ toWorker[n] # << >> => Tail(toWorker[n]) \in Seq({"Compute", "Cancel"})
      OBVIOUS
    <3> QED BY <1>5, <3>1 DEF WorkerStep, WorkerCompute, WorkerCancel, WorkerCancelled, WorkerFails, workerVars, Reads
  <2>3. /\ worker' \in [Names -> {"none", "alive", "stopped"}]
        /\ callable' \in [Names -> {"none", "asked", "failed", "found", "running"}]
        /\ futures' \subseteq Names
    BY <1>5 DEF WorkerStep, WorkerCompute, WorkerCancel, WorkerCancelled, WorkerFails, workerVars
  <2> QED BY <2>1, <2>2, <2>3 DEF serverVars
<1>6. ASSUME NEW n \in Names, CallableFails(n) PROVE TypeOK'
  BY <1>6 DEF CallableFails, serverVars, futureVars, FutureTypeOK
<1>7. ASSUME NEW n \in Names, CallableFound(n) PROVE TypeOK'
  BY <1>7 DEF CallableFound, Create, serverVars, FutureTypeOK, Phases
<1>8. ASSUME NEW n \in Names, AddFuture(n) PROVE TypeOK'
  BY <1>8 DEF AddFuture, serverVars, futureVars, FutureTypeOK
<1>9. ASSUME NEW n \in Names, SendResult(n) PROVE TypeOK'
  BY <1>9 DEF SendResult, workerVars, FutureTypeOK
<1>10. ASSUME NEW n \in Names, RunStep(n), UNCHANGED <<serverVars, workerVars>> PROVE TypeOK'
  BY <1>10, RunStepType DEF serverVars, workerVars
<1>11. ASSUME NEW n \in Names, CancelStep(n), UNCHANGED <<serverVars, workerVars>> PROVE TypeOK'
  BY <1>11, CancelStepType DEF serverVars, workerVars
<1>12. ASSUME NEW t \in Threads, Idle(t), UNCHANGED <<serverVars, workerVars>> PROVE TypeOK'
  BY <1>12 DEF Idle, serverVars, workerVars, FutureTypeOK
<1>13. CASE UNCHANGED vars
  BY <1>13 DEF vars, serverVars, workerVars, futureVars, FutureTypeOK
<1> QED BY StepCases, <1>1, <1>2, <1>3, <1>4, <1>5, <1>6, <1>7, <1>8, <1>9, <1>10, <1>11, <1>12, <1>13

\* The initial state has the types.
LEMMA TypeInit == Init => TypeOK
BY DEF Init, FutureInit, TypeOK, FutureTypeOK, Phases

\* Every variable of the compute server, its workers and their futures keeps
\* its type.
THEOREM TypeCorrect == Spec => []TypeOK
<1>1. TypeOK /\ [Next]_vars => TypeOK'
  BY TypeStep
<1> QED BY TypeInit, <1>1, PTL DEF Spec

-------------------------------------------------------------------------------
(* Cancellation                                                            *)

Running == {"claimed", "registered", "working", "leaving", "left"}
Unaware == {"registered", "working"}

\* A thread runs one computation at a time.
ThreadsApart == \A m, n \in Names : on[n] # NoThread /\ on[m] = on[n] => m = n

\* What relates the thread that runs a computation with the thread that
\* cancels it: until the interrupt, cancel() finds that thread in `current`;
\* from then on the thread carries the interrupt until its work is over.
Related(n) ==
    /\ phase[n] = "none" => promise[n] = "none"
    /\ phase[n] \in Running <=> on[n] # NoThread
    /\ cancelling[n] = "won" => promise[n] = "cancelled"
    /\ cancelled[n] => cancelling[n] = "done" /\ promise[n] = "cancelled"
    /\ phase[n] \in Unaware /\ cancelling[n] \in {"idle", "called"} => current[n] = on[n]
    /\ phase[n] \in Unaware /\ cancelling[n] \in {"interrupted", "won"} => on[n] \in flagged
    /\ cancelled[n] /\ phase[n] = "working" => on[n] \in flagged

FutureInv == ThreadsApart /\ \A n \in Names : Related(n)


\* A step of the thread that runs a computation keeps the relation, for that
\* computation and for the others, whose threads keep their interrupts.
LEMMA RunStepRelated ==
  ASSUME FutureTypeOK, FutureInv, NEW n \in Names, RunStep(n)
  PROVE  FutureInv'
<1> USE FutureAssumption DEF FutureTypeOK, FutureInv
<1>1. ASSUME NEW t \in Threads, Claim(n, t) PROVE FutureInv'
  <2>1. ThreadsApart'
    BY <1>1 DEF Claim, Free, ThreadsApart
  <2>2. ASSUME NEW m \in Names PROVE Related(m)'
    BY <1>1, <2>2 DEF Claim, Related, Running, Unaware
  <2> QED BY <2>1, <2>2
<1>2. CASE Register(n)
  <2>1. ThreadsApart'
    BY <1>2 DEF Register, ThreadsApart
  <2>2. ASSUME NEW m \in Names PROVE Related(m)'
    BY <1>2, <2>2 DEF Register, LockFree, Related, Running, Unaware
  <2> QED BY <2>1, <2>2
<1>3. CASE Begin(n)
  <2>1. ThreadsApart'
    BY <1>3 DEF Begin, ThreadsApart
  <2>2. ASSUME NEW m \in Names PROVE Related(m)'
    BY <1>3, <2>2 DEF Begin, Related, Running, Unaware
  <2> QED BY <2>1, <2>2
<1>4. ASSUME NEW v \in {"content", "nothing"}, EndWork(n, v) PROVE FutureInv'
  <2>1. ThreadsApart'
    BY <1>4 DEF EndWork, ThreadsApart
  <2>2. ASSUME NEW m \in Names, m # n, on[m] \in flagged PROVE on'[m] \in flagged'
    <3>1. on[m] # NoThread /\ on[m] # on[n]
      BY <2>2 DEF ThreadsApart
    <3> QED BY <1>4, <2>2, <3>1 DEF EndWork
  <2>3. ASSUME NEW m \in Names PROVE Related(m)'
    BY <1>4, <2>2, <2>3 DEF EndWork, Related, Running, Unaware
  <2> QED BY <2>1, <2>3
<1>5. CASE Unregister(n)
  <2>1. ThreadsApart'
    BY <1>5 DEF Unregister, ThreadsApart
  <2>2. ASSUME NEW m \in Names PROVE Related(m)'
    BY <1>5, <2>2 DEF Unregister, LockFree, Related, Running, Unaware
  <2> QED BY <2>1, <2>2
<1>6. CASE Complete(n)
  <2>1. ThreadsApart'
    BY <1>6 DEF Complete, ThreadsApart
  <2>2. ASSUME NEW m \in Names PROVE Related(m)'
    BY <1>6, <2>2 DEF Complete, Related, Running, Unaware
  <2> QED BY <2>1, <2>2
<1> QED BY <1>1, <1>2, <1>3, <1>4, <1>5, <1>6 DEF RunStep

\* A step of cancel() keeps the relation.
LEMMA CancelStepRelated ==
  ASSUME FutureTypeOK, FutureInv, NEW n \in Names, CancelStep(n)
  PROVE  FutureInv'
<1> USE FutureAssumption DEF FutureTypeOK, FutureInv
<1>1. ThreadsApart'
  BY DEF CancelStep, Interrupt, TryFailure, SetCancelled, ThreadsApart
<1>2. CASE Interrupt(n)
  <2>1. ASSUME NEW m \in Names PROVE Related(m)'
    BY <1>2, <2>1 DEF Interrupt, Related, Running, Unaware
  <2> QED BY <1>1, <2>1
<1>3. CASE TryFailure(n)
  <2>1. ASSUME NEW m \in Names PROVE Related(m)'
    BY <1>3, <2>1 DEF TryFailure, Related, Running, Unaware
  <2> QED BY <1>1, <2>1
<1>4. CASE SetCancelled(n)
  <2>1. ASSUME NEW m \in Names PROVE Related(m)'
    BY <1>4, <2>1 DEF SetCancelled, Related, Running, Unaware
  <2> QED BY <1>1, <2>1
<1> QED BY <1>2, <1>3, <1>4 DEF CancelStep

\* What else happens to futures: one is made, one is to be cancelled, its
\* result is sent, or an idle thread loses its interrupt.
LEMMA OtherRelated ==
  ASSUME FutureTypeOK, FutureInv
  PROVE  /\ \A n \in Names : CallableFound(n) \/ WorkerCancel(n) \/ SendResult(n) => FutureInv'
         /\ \A t \in Threads : Idle(t) => FutureInv'
<1> USE FutureAssumption DEF FutureTypeOK, FutureInv
<1>1. ASSUME NEW n \in Names, CallableFound(n) PROVE FutureInv'
  <2>1. ThreadsApart'
    BY <1>1 DEF CallableFound, Create, ThreadsApart
  <2>2. ASSUME NEW m \in Names PROVE Related(m)'
    BY <1>1, <2>2 DEF CallableFound, Create, Related, Running, Unaware
  <2> QED BY <2>1, <2>2
<1>2. ASSUME NEW n \in Names, WorkerCancel(n) PROVE FutureInv'
  <2>1. ThreadsApart'
    BY <1>2 DEF WorkerCancel, ThreadsApart
  <2>2. ASSUME NEW m \in Names PROVE Related(m)'
    BY <1>2, <2>2 DEF WorkerCancel, Related, Running, Unaware
  <2> QED BY <2>1, <2>2
<1>3. ASSUME NEW n \in Names, SendResult(n) PROVE FutureInv'
  <2>1. ThreadsApart'
    BY <1>3 DEF SendResult, ThreadsApart
  <2>2. ASSUME NEW m \in Names PROVE Related(m)'
    BY <1>3, <2>2 DEF SendResult, Related, Running, Unaware
  <2> QED BY <2>1, <2>2
<1>4. ASSUME NEW t \in Threads, Idle(t) PROVE FutureInv'
  <2>1. ThreadsApart'
    BY <1>4 DEF Idle, ThreadsApart
  <2>2. ASSUME NEW m \in Names PROVE Related(m)'
    BY <1>4, <2>2 DEF Idle, Free, Related, Running, Unaware
  <2> QED BY <2>1, <2>2
<1> QED BY <1>1, <1>2, <1>3, <1>4

\* Every step keeps the relation.
LEMMA FutureStep ==
  ASSUME TypeOK, FutureInv, [Next]_vars
  PROVE  FutureInv'
<1> USE DEF TypeOK
<1>1. UNCHANGED futureVars => FutureInv'
  BY DEF futureVars, FutureInv, ThreadsApart, Related, Running, Unaware
<1>2. \A n \in Names, f \in Faces : HandleInterest(f, n) => UNCHANGED futureVars
  BY DEF HandleInterest
<1>3. \A n \in Names :
        HandleCancelRequest(n) \/ HandleResult(n) \/ ServerStep(n) \/ CallableFails(n) \/ AddFuture(n)
        => UNCHANGED futureVars
  BY DEF HandleCancelRequest, HandleResult, ServerStep, ServerCompute, ServerCancel,
         ServerCancelUnknown, CallableFails, AddFuture
<1>4. \A n \in Names : WorkerStep(n) => WorkerCancel(n) \/ UNCHANGED futureVars
  BY DEF WorkerStep, WorkerCompute, WorkerCancelled, WorkerFails
<1>5. UNCHANGED vars => UNCHANGED futureVars
  BY DEF vars
<1> QED BY <1>1, <1>2, <1>3, <1>4, <1>5, StepCases, RunStepRelated, CancelStepRelated, OtherRelated

\* The initial state has the relation.
LEMMA FutureInit0 == Init => FutureInv
BY FutureAssumption DEF Init, FutureInit, FutureInv, ThreadsApart, Related, Running, Unaware

\* In every state the relation holds.
LEMMA FutureInvariant == Spec => [](TypeOK /\ FutureInv)
<1>1. TypeOK /\ FutureInv /\ [Next]_vars => TypeOK' /\ FutureInv'
  BY TypeStep, FutureStep
<1> QED BY TypeInit, FutureInit0, <1>1, PTL DEF Spec

\* The flag of a future says what became of its promise.
THEOREM CancelledOutcome == Spec => []CancelledIsOutcome
<1>1. FutureInv => CancelledIsOutcome
  BY DEF FutureInv, Related, CancelledIsOutcome
<1> QED BY FutureInvariant, <1>1, PTL

\* A computation that is cancelled while it works carries the interrupt.
THEOREM CancelReaches == Spec => []CancelReachesWorker
<1>1. FutureInv => CancelReachesWorker
  BY DEF FutureInv, Related, CancelReachesWorker
<1> QED BY FutureInvariant, <1>1, PTL

\* No work begins once the flag is set.
THEOREM NoneBegunLate == Spec => NeverBegunLate
<1> DEFINE Late(n) == cancelled[n] /\ phase'[n] = "working" => phase[n] = "working"
<1>1. ASSUME TypeOK, [Next]_vars PROVE [\A n \in Names : Late(n)]_futureVars
  <2>1. \A n \in Names : RunStep(n) => \A m \in Names : Late(m)
    BY <1>1 DEF TypeOK, FutureTypeOK, RunStep, Claim, Register, Begin, EndWork, Unregister, Complete
  <2>2. \A n \in Names : CancelStep(n) => \A m \in Names : Late(m)
    BY DEF CancelStep, Interrupt, TryFailure, SetCancelled
  <2>3. \A n \in Names : CallableFound(n) \/ WorkerCancel(n) \/ SendResult(n) => \A m \in Names : Late(m)
    BY <1>1 DEF TypeOK, FutureTypeOK, CallableFound, Create, WorkerCancel, SendResult
  <2>4. \A t \in Threads : Idle(t) => \A m \in Names : Late(m)
    BY DEF Idle
  <2>5. \A n \in Names, f \in Faces : HandleInterest(f, n) => UNCHANGED futureVars
    BY DEF HandleInterest
  <2>6. \A n \in Names :
          HandleCancelRequest(n) \/ HandleResult(n) \/ ServerStep(n) \/ CallableFails(n) \/ AddFuture(n)
          => UNCHANGED futureVars
    BY DEF HandleCancelRequest, HandleResult, ServerStep, ServerCompute, ServerCancel,
           ServerCancelUnknown, CallableFails, AddFuture
  <2>7. \A n \in Names : WorkerStep(n) => WorkerCancel(n) \/ UNCHANGED futureVars
    BY DEF WorkerStep, WorkerCompute, WorkerCancelled, WorkerFails
  <2>8. UNCHANGED vars => UNCHANGED futureVars
    BY DEF vars
  <2> HIDE DEF Late
  <2> QED BY <1>1, <2>1, <2>2, <2>3, <2>4, <2>5, <2>6, <2>7, <2>8, StepCases
<1>2. TypeOK /\ [Next]_vars => [\A n \in Names : Late(n)]_futureVars
  BY <1>1
<1> QED BY TypeCorrect, <1>2, PTL DEF Spec, NeverBegunLate

-------------------------------------------------------------------------------
(* One worker for each computation                                         *)

AsksFor(i, n) == i \in 1 .. Len(toServer) /\ toServer[i] = Compute(n)

\* A computation is asked for once, while no worker has it and its PIT entry
\* stands; from then on the PIT or the content store knows its name.
Asked(n) ==
    /\ \A i, j \in 1 .. Len(toServer) : AsksFor(i, n) /\ AsksFor(j, n) => i = j
    /\ \A i \in 1 .. Len(toServer) : AsksFor(i, n) => worker[n] = "none" /\ pit[n] # {}
    /\ worker[n] # "none" => pit[n] # {} \/ n \in store
    /\ callable[n] # "none" => worker[n] # "none"
    /\ promise[n] # "none" => worker[n] # "none"
    /\ n \in results => worker[n] # "none"

AskedInv == \A n \in Names : Asked(n)

\* Requests for different computations differ, and none is a cancellation.
LEMMA MessagesDiffer ==
  \A m, n \in Names : (Compute(m) = Compute(n) => m = n) /\ Compute(m) # Cancel(n)
BY DEF Compute, Cancel

\* Taking a message moves the others up; it makes no new request.
LEMMA TakenMoves ==
  ASSUME TypeOK, toServer # << >>, toServer' = Tail(toServer)
  PROVE  \A n \in Names, i \in 1 .. Len(toServer') :
            /\ i + 1 \in 1 .. Len(toServer)
            /\ AsksFor(i, n)' => AsksFor(i + 1, n)
BY DEF TypeOK, AsksFor

\* A message that is added is at the end; the others stay where they are.
LEMMA AddedStays ==
  ASSUME TypeOK, NEW c, toServer' = Append(toServer, c), c \in Message
  PROVE  \A n \in Names, i \in 1 .. Len(toServer') :
            /\ AsksFor(i, n)' /\ c # Compute(n) => AsksFor(i, n)
            /\ AsksFor(i, n)' => AsksFor(i, n) \/ i = Len(toServer) + 1
BY DEF TypeOK, AsksFor

\* The steps that leave the mailbox, the PIT, the store and the workers alone
\* can only disturb what is said of callables, promises and results.
LEMMA AskedElsewhere ==
  ASSUME AskedInv, UNCHANGED <<toServer, pit, store, worker>>,
         \A n \in Names : callable'[n] # "none" => worker[n] # "none",
         \A n \in Names : promise'[n] # "none" => worker[n] # "none",
         \A n \in Names : n \in results' => worker[n] # "none"
  PROVE  AskedInv'
BY DEF AskedInv, Asked, AsksFor

\* An interest asks for a computation that nobody knows yet, or for none.
LEMMA InterestAsked ==
  ASSUME TypeOK, AskedInv, NEW n \in Names, NEW f \in Faces, HandleInterest(f, n)
  PROVE  AskedInv'
<1>1. UNCHANGED <<store, results, worker, callable, promise>>
  BY DEF HandleInterest, workerVars, futureVars
<1>2. Compute(n) \in Message
  BY DEF Message, Compute
<1>3. ASSUME NEW m \in Names PROVE pit'[m] = {} => pit[m] = {} /\ (m = n => n \in store)
  BY DEF HandleInterest, TypeOK
<1>4. CASE HasToCompute(n)
  <2>1. toServer' = Append(toServer, Compute(n))
    BY <1>4 DEF HandleInterest
  <2>2. ~(\E i \in 1 .. Len(toServer) : AsksFor(i, n)) /\ worker[n] = "none" /\ n \notin store
    BY <1>4 DEF HasToCompute, AskedInv, Asked
  <2>3. ASSUME NEW m \in Names PROVE Asked(m)'
    <3>1. CASE m = n
      <4>1. \A i \in 1 .. Len(toServer') : AsksFor(i, n)' => i = Len(toServer) + 1
        BY <1>2, <2>1, <2>2, AddedStays DEF AsksFor
      <4>2. pit'[n] # {}
        BY <1>3, <2>2
      <4> QED BY <1>1, <2>2, <3>1, <4>1, <4>2 DEF AskedInv, Asked
    <3>2. CASE m # n
      <4>1. \A i \in 1 .. Len(toServer') : AsksFor(i, m)' => AsksFor(i, m)
        BY <1>2, <2>1, <3>2, AddedStays, MessagesDiffer
      <4>2. \A i : AsksFor(i, m) => i \in 1 .. Len(toServer)
        BY DEF AsksFor
      <4> QED BY <1>1, <1>3, <4>1, <4>2 DEF AskedInv, Asked
    <3> QED BY <3>1, <3>2
  <2> QED BY <2>3 DEF AskedInv
<1>5. CASE ~HasToCompute(n)
  <2>1. toServer' = toServer
    BY <1>5 DEF HandleInterest
  <2> QED BY <1>1, <1>3, <2>1 DEF AskedInv, Asked, AsksFor
<1> QED BY <1>4, <1>5

\* The server takes the one request for a computation and makes its worker; a
\* cancellation makes none.
LEMMA ServerAsked ==
  ASSUME TypeOK, AskedInv, NEW n \in Names, ServerStep(n)
  PROVE  AskedInv'
<1>1. UNCHANGED <<pit, store, results, callable, promise>>
  BY DEF ServerStep, ServerCompute, ServerCancel, ServerCancelUnknown, workerVars, futureVars
<1>2. toServer # << >> /\ toServer' = Tail(toServer)
  BY DEF ServerStep, ServerCompute, ServerCancel, ServerCancelUnknown, Received
<1>3. \A m \in Names, i \in 1 .. Len(toServer') :
         i + 1 \in 1 .. Len(toServer) /\ (AsksFor(i, m)' => AsksFor(i + 1, m))
  BY <1>2, TakenMoves
<1>4. \A m \in Names, i, j \in 1 .. Len(toServer') : AsksFor(i, m)' /\ AsksFor(j, m)' => i = j
  <2> SUFFICES ASSUME NEW m \in Names, NEW i \in 1 .. Len(toServer'), NEW j \in 1 .. Len(toServer'),
                      AsksFor(i, m)', AsksFor(j, m)'
               PROVE  i = j
    OBVIOUS
  <2>1. i + 1 = j + 1
    BY <1>3 DEF AskedInv, Asked
  <2> QED BY <2>1
<1>5. CASE UNCHANGED worker
  BY <1>1, <1>3, <1>4, <1>5 DEF AskedInv, Asked
<1>6. CASE ServerCompute(n) /\ worker' = [worker EXCEPT ![n] = "alive"]
  <2>1. AsksFor(1, n) /\ 1 \in 1 .. Len(toServer)
    <3>1. Len(toServer) \in Nat /\ Len(toServer) >= 1 /\ Head(toServer) = toServer[1]
      BY <1>2 DEF TypeOK
    <3>2. Head(toServer) = Compute(n)
      BY <1>6 DEF ServerCompute, Received, Compute
    <3> QED BY <3>1, <3>2 DEF AsksFor
  <2>2. \A i \in 1 .. Len(toServer') : ~AsksFor(i, n)'
    BY <1>3, <2>1 DEF AskedInv, Asked
  <2>3. pit[n] # {}
    BY <2>1 DEF AskedInv, Asked
  <2>4. worker'[n] = "alive" /\ \A m \in Names : m # n => worker'[m] = worker[m]
    BY <1>6 DEF TypeOK
  <2>5. ASSUME NEW m \in Names PROVE Asked(m)'
    <3>1. CASE m = n
      BY <1>1, <1>4, <2>2, <2>3, <2>4, <3>1 DEF Asked
    <3>2. CASE m # n
      BY <1>1, <1>3, <1>4, <2>4, <3>2 DEF AskedInv, Asked
    <3> QED BY <3>1, <3>2
  <2> QED BY <2>5 DEF AskedInv
<1> QED BY <1>5, <1>6 DEF ServerStep, ServerCompute, ServerCancel, ServerCancelUnknown, workerVars

\* A worker that stops was made before; the rest leaves the workers alone.
LEMMA WorkerAsked ==
  ASSUME TypeOK, AskedInv, NEW n \in Names, WorkerStep(n)
  PROVE  AskedInv'
<1>1. UNCHANGED <<toServer, pit, store, results, promise>>
  BY DEF WorkerStep, WorkerCompute, WorkerCancel, WorkerCancelled, WorkerFails, serverVars, futureVars
<1>2. \A m \in Names : worker'[m] = "none" <=> worker[m] = "none"
  BY DEF WorkerStep, WorkerCompute, WorkerCancel, WorkerCancelled, WorkerFails, workerVars, Reads, TypeOK
<1>3. \A m \in Names : callable'[m] # "none" => worker[m] # "none"
  BY DEF WorkerStep, WorkerCompute, WorkerCancel, WorkerCancelled, WorkerFails, workerVars, Reads,
         TypeOK, AskedInv, Asked
<1> QED BY <1>1, <1>2, <1>3 DEF AskedInv, Asked, AsksFor

\* Every step keeps the invariant.
LEMMA AskedStep ==
  ASSUME TypeOK, AskedInv, [Next]_vars
  PROVE  AskedInv'
<1>1. ASSUME NEW n \in Names, HandleCancelRequest(n) PROVE AskedInv'
  <2>1. Cancel(n) \in Message
    BY DEF Message, Cancel
  <2>2. toServer' = Append(toServer, Cancel(n)) /\ UNCHANGED <<pit, store, results, worker, callable, promise>>
    BY <1>1 DEF HandleCancelRequest, workerVars, futureVars
  <2>3. \A m \in Names, i \in 1 .. Len(toServer') : AsksFor(i, m)' => AsksFor(i, m)
    BY <2>1, <2>2, AddedStays, MessagesDiffer
  <2>4. \A m, i : AsksFor(i, m) => i \in 1 .. Len(toServer)
    BY DEF AsksFor
  <2> QED BY <2>2, <2>3, <2>4 DEF AskedInv, Asked
<1>2. ASSUME NEW n \in Names, HandleResult(n) PROVE AskedInv'
  <2>1. UNCHANGED <<toServer, worker, callable, promise>> /\ results' = results \ {n} /\ n \in results
    BY <1>2 DEF HandleResult, workerVars, futureVars
  <2>2. worker[n] # "none"
    BY <2>1 DEF AskedInv, Asked
  <2>3. \A m \in Names : m # n => pit'[m] = pit[m]
    BY <1>2 DEF HandleResult, TypeOK
  <2>4. store \subseteq store' /\ (pit[n] # {} => n \in store')
    BY <1>2 DEF HandleResult
  <2>5. ASSUME NEW m \in Names PROVE Asked(m)'
    <3>1. CASE m = n
      BY <2>1, <2>2, <2>4, <3>1 DEF AskedInv, Asked, AsksFor
    <3>2. CASE m # n
      BY <2>1, <2>3, <2>4, <3>2 DEF AskedInv, Asked, AsksFor
    <3> QED BY <3>1, <3>2
  <2> QED BY <2>5 DEF AskedInv
<1>3. ASSUME NEW n \in Names, CallableFails(n) PROVE AskedInv'
  BY <1>3, AskedElsewhere DEF CallableFails, serverVars, futureVars, TypeOK, AskedInv, Asked
<1>4. ASSUME NEW n \in Names, CallableFound(n) PROVE AskedInv'
  BY <1>4, AskedElsewhere
  DEF CallableFound, Create, serverVars, TypeOK, FutureTypeOK, AskedInv, Asked
<1>5. ASSUME NEW n \in Names, AddFuture(n) PROVE AskedInv'
  BY <1>5, AskedElsewhere DEF AddFuture, serverVars, futureVars, TypeOK, AskedInv, Asked
<1>6. ASSUME NEW n \in Names, SendResult(n) PROVE AskedInv'
  BY <1>6, AskedElsewhere DEF SendResult, workerVars, TypeOK, FutureTypeOK, AskedInv, Asked
<1>7. ASSUME NEW n \in Names, RunStep(n), UNCHANGED <<serverVars, workerVars>> PROVE AskedInv'
  <2>1. \A m \in Names : promise'[m] # "none" => promise[m] # "none"
    BY <1>7 DEF RunStep, Claim, Register, Begin, EndWork, Unregister, Complete, TypeOK, FutureTypeOK
  <2> QED BY <1>7, <2>1, AskedElsewhere DEF serverVars, workerVars, AskedInv, Asked
<1>8. ASSUME NEW n \in Names, CancelStep(n), UNCHANGED <<serverVars, workerVars>> PROVE AskedInv'
  <2>1. \A m \in Names : promise'[m] # "none" => promise[m] # "none"
    BY <1>8 DEF CancelStep, Interrupt, TryFailure, SetCancelled, TypeOK, FutureTypeOK
  <2> QED BY <1>8, <2>1, AskedElsewhere DEF serverVars, workerVars, AskedInv, Asked
<1>9. ASSUME NEW t \in Threads, Idle(t), UNCHANGED <<serverVars, workerVars>> PROVE AskedInv'
  BY <1>9, AskedElsewhere DEF Idle, serverVars, workerVars, AskedInv, Asked
<1>10. CASE UNCHANGED vars
  BY <1>10, AskedElsewhere DEF vars, serverVars, workerVars, futureVars, AskedInv, Asked
<1> QED BY StepCases, InterestAsked, ServerAsked, WorkerAsked,
           <1>1, <1>2, <1>3, <1>4, <1>5, <1>6, <1>7, <1>8, <1>9, <1>10

\* Before anything is asked for, there is no worker.
LEMMA AskedInit == Init => AskedInv
BY DEF Init, FutureInit, AskedInv, Asked, AsksFor

\* A computation is given to the compute server once, and no second worker is
\* made for it.
THEOREM MadeOnce == Spec => []CreatedOnce
<1>1. ASSUME AskedInv PROVE CreatedOnce
  <2> SUFFICES ASSUME NEW n \in Names
               PROVE  LET asks == {i \in 1 .. Len(toServer) : toServer[i] = Compute(n)} IN
                      /\ Cardinality(asks) <= 1
                      /\ asks # {} => worker[n] = "none"
    BY DEF CreatedOnce
  <2> DEFINE asks == {i \in 1 .. Len(toServer) : toServer[i] = Compute(n)}
  <2>1. \A i, j \in asks : i = j
    BY <1>1 DEF AskedInv, Asked, AsksFor
  <2>2. asks # {} => worker[n] = "none"
    BY <1>1 DEF AskedInv, Asked, AsksFor
  <2>3. CASE asks = {}
    <3>1. Cardinality(asks) = 0
      BY <2>3, FS_EmptySet
    <3> QED BY <2>2, <3>1
  <2>4. CASE asks # {}
    <3>1. PICK i : i \in asks
      BY <2>4
    <3>2. asks = {i}
      BY <2>1, <3>1
    <3>3. Cardinality(asks) = 1
      BY <3>2, FS_Singleton
    <3> QED BY <2>2, <3>3
  <2> QED BY <2>3, <2>4
<1>2. AskedInv => CreatedOnce
  BY <1>1
<1>3. TypeOK /\ AskedInv /\ [Next]_vars => AskedInv'
  BY AskedStep
<1> QED BY TypeCorrect, AskedInit, <1>2, <1>3, PTL DEF Spec

-------------------------------------------------------------------------------
(* The worker and its cancellation                                         *)

CancelAt(i, n) == i \in 1 .. Len(toWorker[n]) /\ toWorker[n][i] = "Cancel"
NoCancel(n) == \A i : ~CancelAt(i, n)

\* A worker is told once to cancel, when the server has forgotten it; what it
\* runs is in its map of futures until then.
Told(n) ==
    /\ worker[n] = "none" => toWorker[n] = << >> /\ n \notin computeWorkers
    /\ \A i, j : CancelAt(i, n) /\ CancelAt(j, n) => i = j
    /\ n \in computeWorkers => NoCancel(n)
    /\ callable[n] = "running" /\ n \notin futures => n \notin computeWorkers /\ NoCancel(n)

ToldInv == \A n \in Names : Told(n)

\* What a message added to a mailbox, or taken from it, does to the
\* cancellations in it.
LEMMA MailboxSteps ==
  ASSUME TypeOK, NEW n \in Names
  PROVE  /\ toWorker'[n] = Append(toWorker[n], "Compute") => \A i : CancelAt(i, n)' => CancelAt(i, n)
         /\ toWorker'[n] = Append(toWorker[n], "Cancel") =>
               \A i : CancelAt(i, n)' => CancelAt(i, n) \/ i = Len(toWorker[n]) + 1
         /\ toWorker[n] # << >> /\ toWorker'[n] = Tail(toWorker[n]) =>
               \A i : CancelAt(i, n)' => i + 1 \in 2 .. Len(toWorker[n]) /\ CancelAt(i + 1, n) /\ i \in Nat
         /\ toWorker'[n] = << >> => NoCancel(n)'
         /\ toWorker[n] # << >> /\ Head(toWorker[n]) = "Cancel" => CancelAt(1, n)
<1>1. toWorker[n] \in Seq({"Compute", "Cancel"})
  BY DEF TypeOK
<1>2. ASSUME toWorker'[n] = Append(toWorker[n], "Compute"), NEW i, CancelAt(i, n)' PROVE CancelAt(i, n)
  BY <1>1, <1>2 DEF CancelAt
<1>3. ASSUME toWorker'[n] = Append(toWorker[n], "Cancel"), NEW i, CancelAt(i, n)'
      PROVE  CancelAt(i, n) \/ i = Len(toWorker[n]) + 1
  BY <1>1, <1>3 DEF CancelAt
<1>4. ASSUME toWorker[n] # << >>, toWorker'[n] = Tail(toWorker[n]), NEW i, CancelAt(i, n)'
      PROVE  i + 1 \in 2 .. Len(toWorker[n]) /\ CancelAt(i + 1, n) /\ i \in Nat
  BY <1>1, <1>4 DEF CancelAt
<1>5. toWorker'[n] = << >> => NoCancel(n)'
  BY DEF CancelAt, NoCancel
<1>6. toWorker[n] # << >> /\ Head(toWorker[n]) = "Cancel" => CancelAt(1, n)
  BY <1>1 DEF CancelAt
<1> QED BY <1>2, <1>3, <1>4, <1>5, <1>6

\* What is said of a computation stays true while its mailbox, its worker and
\* the server's list are left alone.
LEMMA ToldSame ==
  ASSUME NEW n \in Names, Told(n),
         toWorker'[n] = toWorker[n], worker'[n] = worker[n],
         n \in computeWorkers' <=> n \in computeWorkers,
         callable'[n] = "running" /\ n \notin futures' => callable[n] = "running" /\ n \notin futures
  PROVE  Told(n)'
BY DEF Told, NoCancel, CancelAt

\* The server tells a worker of a computation, or of its cancellation.
LEMMA ServerTold ==
  ASSUME TypeOK, AskedInv, ToldInv, NEW n \in Names, ServerStep(n)
  PROVE  ToldInv'
<1>1. UNCHANGED <<callable, futures>>
  BY DEF ServerStep, ServerCompute, ServerCancel, ServerCancelUnknown, workerVars
<1>2. ASSUME NEW m \in Names, m # n PROVE Told(m)'
  <2>1. /\ toWorker'[m] = toWorker[m] /\ worker'[m] = worker[m]
        /\ m \in computeWorkers' <=> m \in computeWorkers
    BY <1>2 DEF ServerStep, ServerCompute, ServerCancel, ServerCancelUnknown, workerVars, Forget, TypeOK
  <2> QED BY <1>1, <2>1, ToldSame DEF ToldInv
<1>3. CASE ServerCompute(n)
  <2>1. worker[n] = "none"
    <3>1. toServer # << >> /\ Head(toServer) = Compute(n)
      BY <1>3 DEF ServerCompute, Received, Compute
    <3>2. 1 \in 1 .. Len(toServer) /\ Head(toServer) = toServer[1]
      <4>1. toServer \in Seq(Message)
        BY DEF TypeOK
      <4> QED BY <3>1, <4>1
    <3> QED BY <3>1, <3>2 DEF AskedInv, Asked, AsksFor
  <2>2. toWorker'[n] = Append(toWorker[n], "Compute") /\ NoCancel(n)
    BY <1>3, <2>1 DEF ServerCompute, TypeOK, ToldInv, Told, NoCancel, CancelAt
  <2>3. NoCancel(n)'
    BY <2>2, MailboxSteps DEF NoCancel
  <2>4. worker'[n] = "alive" /\ callable'[n] = "none"
    BY <1>1, <1>3, <2>1 DEF ServerCompute, TypeOK, ToldInv, Told, AskedInv, Asked
  <2>5. Told(n)'
    BY <2>3, <2>4 DEF Told, NoCancel
  <2> QED BY <1>2, <2>5 DEF ToldInv
<1>4. CASE ServerCancel(n)
  <2>1. /\ n \in computeWorkers /\ n \notin computeWorkers' /\ NoCancel(n) /\ worker' = worker
        /\ worker[n] # "none"
    BY <1>4 DEF ServerCancel, Forget, ToldInv, Told
  <2>2. toWorker'[n] = Append(toWorker[n], "Cancel")
    BY <1>4 DEF ServerCancel, TypeOK
  <2>3. \A i : CancelAt(i, n)' => i = Len(toWorker[n]) + 1
    BY <2>1, <2>2, MailboxSteps DEF NoCancel
  <2>4. callable[n] = "running" => n \in futures
    BY <2>1 DEF ToldInv, Told
  <2>5. Told(n)'
    BY <1>1, <2>1, <2>3, <2>4 DEF Told
  <2> QED BY <1>2, <2>5 DEF ToldInv
<1>5. CASE ServerCancelUnknown(n)
  <2>1. \A m \in Names : Told(m)'
    BY <1>5, ToldSame DEF ServerCancelUnknown, workerVars, ToldInv
  <2> QED BY <2>1 DEF ToldInv
<1> QED BY <1>3, <1>4, <1>5 DEF ServerStep

\* The worker reads its mailbox.
LEMMA WorkerTold ==
  ASSUME TypeOK, ToldInv, NEW n \in Names, WorkerStep(n)
  PROVE  ToldInv'
<1>1. computeWorkers' = computeWorkers
  BY DEF WorkerStep, WorkerCompute, WorkerCancel, WorkerCancelled, WorkerFails, serverVars
<1>2. ASSUME NEW m \in Names, m # n PROVE Told(m)'
  <2>1. /\ toWorker'[m] = toWorker[m] /\ worker'[m] = worker[m] /\ callable'[m] = callable[m]
        /\ m \in futures' <=> m \in futures
    BY <1>2 DEF WorkerStep, WorkerCompute, WorkerCancel, WorkerCancelled, WorkerFails, workerVars, TypeOK
  <2> QED BY <1>1, <2>1, ToldSame DEF ToldInv
<1>3. CASE WorkerCompute(n)
  <2>1. toWorker[n] # << >> /\ toWorker'[n] = Tail(toWorker[n]) /\ worker'[n] = "alive" /\ callable'[n] = "asked"
    BY <1>3 DEF WorkerCompute, Reads, TypeOK
  <2>2. \A i : CancelAt(i, n)' => i \in Nat /\ CancelAt(i + 1, n)
    BY <2>1, MailboxSteps
  <2>3. \A i, j : CancelAt(i, n)' /\ CancelAt(j, n)' => i = j
    <3> SUFFICES ASSUME NEW i, NEW j, CancelAt(i, n)', CancelAt(j, n)' PROVE i = j
      OBVIOUS
    <3>1. i + 1 = j + 1 /\ i \in Nat /\ j \in Nat
      BY <2>2 DEF ToldInv, Told
    <3> QED BY <3>1
  <2>4. Told(n)'
    BY <1>1, <2>1, <2>2, <2>3 DEF ToldInv, Told, NoCancel
  <2> QED BY <1>2, <2>4 DEF ToldInv
<1>4. CASE WorkerCancel(n)
  <2>1. Told(n)'
    BY <1>1, <1>4, ToldSame DEF WorkerCancel, workerVars, ToldInv
  <2> QED BY <1>2, <2>1 DEF ToldInv
<1>5. CASE WorkerCancelled(n)
  <2>1. toWorker[n] # << >> /\ toWorker'[n] = Tail(toWorker[n]) /\ worker'[n] = "alive" /\ CancelAt(1, n)
    BY <1>5, MailboxSteps DEF WorkerCancelled, Reads, TypeOK
  <2>2. NoCancel(n)'
    <3> SUFFICES ASSUME NEW i, CancelAt(i, n)' PROVE FALSE
      BY DEF NoCancel
    <3>1. i \in Nat /\ i + 1 \in 2 .. Len(toWorker[n]) /\ CancelAt(i + 1, n)
      BY <2>1, MailboxSteps
    <3>2. i + 1 = 1
      BY <2>1, <3>1 DEF ToldInv, Told
    <3> QED BY <3>1, <3>2
  <2>3. n \notin computeWorkers
    BY <2>1 DEF ToldInv, Told, NoCancel
  <2>4. Told(n)'
    BY <1>1, <2>1, <2>2, <2>3 DEF Told, NoCancel
  <2> QED BY <1>2, <2>4 DEF ToldInv
<1>6. CASE WorkerFails(n)
  <2>1. worker'[n] = "stopped" /\ toWorker'[n] = << >> /\ UNCHANGED <<callable, futures>>
    BY <1>6 DEF WorkerFails, TypeOK
  <2>2. NoCancel(n)' /\ CancelAt(1, n)
    BY <1>6, <2>1, MailboxSteps DEF WorkerFails, Reads
  <2>3. n \notin computeWorkers
    BY <2>2 DEF ToldInv, Told, NoCancel
  <2>4. Told(n)'
    BY <1>1, <2>1, <2>2, <2>3 DEF Told, NoCancel
  <2> QED BY <1>2, <2>4 DEF ToldInv
<1> QED BY <1>3, <1>4, <1>5, <1>6 DEF WorkerStep

\* Every step keeps the invariant.
LEMMA ToldStep ==
  ASSUME TypeOK, AskedInv, ToldInv, [Next]_vars
  PROVE  ToldInv'
<1> DEFINE Same == /\ UNCHANGED <<toWorker, worker, computeWorkers>>
                   /\ \A m \in Names : callable'[m] = "running" /\ m \notin futures'
                                       => callable[m] = "running" /\ m \notin futures
<1>1. Same => ToldInv'
  BY ToldSame DEF ToldInv
<1>2. \A n \in Names, f \in Faces : HandleInterest(f, n) => Same
  BY DEF HandleInterest, workerVars
<1>3. \A n \in Names :
        HandleCancelRequest(n) \/ HandleResult(n) \/ SendResult(n) => Same
  BY DEF HandleCancelRequest, HandleResult, SendResult, workerVars
<1>4. \A n \in Names : CallableFails(n) \/ CallableFound(n) \/ AddFuture(n) => Same
  BY DEF CallableFails, CallableFound, AddFuture, serverVars, TypeOK
<1>5. UNCHANGED <<serverVars, workerVars>> => Same
  BY DEF serverVars, workerVars
<1>6. UNCHANGED vars => Same
  BY DEF vars, serverVars, workerVars
<1> HIDE DEF Same
<1> QED BY <1>1, <1>2, <1>3, <1>4, <1>5, <1>6, StepCases, ServerTold, WorkerTold

\* At first there are no workers.
LEMMA ToldInit == Init => ToldInv
BY DEF Init, FutureInit, ToldInv, Told, NoCancel, CancelAt

\* A worker that runs a computation is never stopped by its cancellation.
THEOREM WorkersSurvive == Spec => WorkerSurvives
<1> DEFINE Survives == \A n \in Names :
              worker[n] = "alive" /\ worker'[n] = "stopped" => callable[n] # "running"
<1>1. ASSUME TypeOK, ToldInv, [Next]_vars PROVE [Survives]_vars
  <2> SUFFICES ASSUME NEW n \in Names, worker[n] = "alive", worker'[n] = "stopped", callable[n] = "running"
               PROVE  FALSE
    OBVIOUS
  <2>1. WorkerFails(n)
    <3>1. \A m \in Names : ServerStep(m) => worker'[n] # "stopped"
      BY <1>1 DEF ServerStep, ServerCompute, ServerCancel, ServerCancelUnknown, workerVars, TypeOK
    <3>2. \A m \in Names : WorkerStep(m) => WorkerFails(n)
      BY <1>1 DEF WorkerStep, WorkerCompute, WorkerCancel, WorkerCancelled, WorkerFails, workerVars, TypeOK
    <3>3. \A m \in Names, f \in Faces : HandleInterest(f, m) => UNCHANGED worker
      BY DEF HandleInterest, workerVars
    <3>4. \A m \in Names :
            \/ HandleCancelRequest(m) \/ HandleResult(m) \/ SendResult(m)
            \/ CallableFails(m) \/ CallableFound(m) \/ AddFuture(m)
            => UNCHANGED worker
      BY DEF HandleCancelRequest, HandleResult, SendResult, CallableFails, CallableFound, AddFuture, workerVars
    <3>5. UNCHANGED <<serverVars, workerVars>> \/ UNCHANGED vars => UNCHANGED worker
      BY DEF serverVars, workerVars, vars
    <3> QED BY <1>1, <3>1, <3>2, <3>3, <3>4, <3>5, StepCases
  <2>2. n \notin futures /\ CancelAt(1, n)
    BY <1>1, <2>1, MailboxSteps DEF WorkerFails, Reads
  <2> QED BY <1>1, <2>2 DEF ToldInv, Told, NoCancel
<1>2. TypeOK /\ ToldInv /\ [Next]_vars => [Survives]_vars
  BY <1>1
<1>3. TypeOK /\ AskedInv /\ [Next]_vars => AskedInv'
  BY AskedStep
<1>4. TypeOK /\ AskedInv /\ ToldInv /\ [Next]_vars => ToldInv'
  BY ToldStep
<1> QED BY TypeCorrect, AskedInit, ToldInit, <1>2, <1>3, <1>4, PTL DEF Spec, WorkerSurvives
===============================================================================
