----------------------------- MODULE ComputeServer -----------------------------
(***************************************************************************)
(* The compute server of a node, its workers and the part of the NFN       *)
(* server that feeds it: a request for a computation, and a request to     *)
(* cancel one, pass the PIT of the NFN server, the mailbox of the compute  *)
(* server and the mailbox of the worker of that computation.  The worker   *)
(* fetches the service and its arguments, and a CancellableFuture runs it. *)
(*                                                                         *)
(* The actors keep the order of messages between two of them; everything   *)
(* else happens in any order.                                              *)
(***************************************************************************)
EXTENDS CancellableFuture, Naturals, Sequences

CONSTANTS
    Faces,       \* who asks the NFN server for computations
    MaxMailbox   \* bound of the model: messages in the mailbox of the compute server

VARIABLES
    pit,            \* the PIT of the NFN server, for these names
    store,          \* its content store: the results it has
    results,        \* contents on their way to the NFN server
    toServer,       \* the mailbox of the compute server
    computeWorkers, \* the computations it knows a worker for
    worker,         \* the actor made for a computation
    toWorker,       \* its mailbox
    callable,       \* its maybeFutCallable
    futures,        \* the computations whose worker knows their future
    acked           \* cancellations that were confirmed

serverVars == <<pit, store, results, toServer, computeWorkers, acked>>
workerVars == <<worker, toWorker, callable, futures>>
vars == <<futureVars, serverVars, workerVars>>

Message == [what : {"Compute", "Cancel"}, name : Names]
Compute(n) == [what |-> "Compute", name |-> n]
Cancel(n) == [what |-> "Cancel", name |-> n]

-------------------------------------------------------------------------------
(* The NFN server (handleInterest, handleContent)                          *)

\* Seeded fault: the content store is looked up for other names only.
HasToCompute_PitOnly(n) == pit[n] = {}

HasToCompute(n) == n \notin store /\ pit[n] = {}

HandleInterest(f, n) ==
    /\ f \notin pit[n]
    /\ HasToCompute(n) => Len(toServer) < MaxMailbox
    /\ pit' = IF n \in store THEN pit ELSE [pit EXCEPT ![n] = @ \union {f}]
    /\ toServer' = IF HasToCompute(n) THEN Append(toServer, Compute(n)) ELSE toServer
    /\ UNCHANGED <<store, results, computeWorkers, acked, workerVars, futureVars>>

\* A request to cancel makes no entry in the PIT.
HandleCancelRequest(n) ==
    /\ Len(toServer) < MaxMailbox
    /\ toServer' = Append(toServer, Cancel(n))
    /\ UNCHANGED <<pit, store, results, computeWorkers, acked, workerVars, futureVars>>

\* Seeded fault: the faces that wait are kept.
HandleResult_Kept(n) ==
    /\ n \in results
    /\ results' = results \ {n}
    /\ store' = store \union {n}
    /\ UNCHANGED <<pit, toServer, computeWorkers, acked, workerVars, futureVars>>

\* The result of a computation is stored, and sent to the faces that wait.
HandleResult(n) ==
    /\ n \in results
    /\ results' = results \ {n}
    /\ pit' = [pit EXCEPT ![n] = {}]
    /\ store' = IF pit[n] = {} THEN store ELSE store \union {n}
    /\ UNCHANGED <<toServer, computeWorkers, acked, workerVars, futureVars>>

-------------------------------------------------------------------------------
(* The compute server                                                      *)

Received(what, n) == toServer # << >> /\ Head(toServer) = [what |-> what, name |-> n]

\* ComputeServer.Compute.  An actor is created under the hash of the name: a
\* second one would be an error, see CreatedOnce.
ServerCompute(n) ==
    /\ Received("Compute", n)
    /\ toServer' = Tail(toServer)
    /\ computeWorkers' = computeWorkers \union {n}
    /\ worker' = IF n \in computeWorkers THEN worker ELSE [worker EXCEPT ![n] = "alive"]
    /\ toWorker' = [toWorker EXCEPT ![n] = Append(@, "Compute")]
    /\ UNCHANGED <<pit, store, results, acked, callable, futures, futureVars>>

\* Seeded fault: the worker is not forgotten.
Forget_Kept(n) == computeWorkers

Forget(n) == computeWorkers \ {n}

\* RequestToComputation "CANCEL", for a computation the server knows: it is
\* forgotten and its end is confirmed.
ServerCancel(n) ==
    /\ Received("Cancel", n) /\ n \in computeWorkers
    /\ toServer' = Tail(toServer)
    /\ computeWorkers' = Forget(n)
    /\ toWorker' = [toWorker EXCEPT ![n] = Append(@, "Cancel")]
    /\ acked' = acked \union {n}
    /\ UNCHANGED <<pit, store, results, worker, callable, futures, futureVars>>

ServerCancelUnknown(n) ==
    /\ Received("Cancel", n) /\ n \notin computeWorkers
    /\ toServer' = Tail(toServer)
    /\ UNCHANGED <<pit, store, results, computeWorkers, acked, workerVars, futureVars>>

-------------------------------------------------------------------------------
(* The worker of computation n                                             *)

Reads(n, what) == worker[n] = "alive" /\ toWorker[n] # << >> /\ Head(toWorker[n]) = what

\* ComputeServer.Compute: the service and its arguments are asked for, and
\* the computation is to run when they are there (prepareCallable).
WorkerCompute(n) ==
    /\ Reads(n, "Compute")
    /\ toWorker' = [toWorker EXCEPT ![n] = Tail(@)]
    /\ callable' = [callable EXCEPT ![n] = "asked"]
    /\ UNCHANGED <<worker, futures, serverVars, futureVars>>

\* parseAndFindFromName fails, or its asks time out: nothing else happens.
CallableFails(n) ==
    /\ callable[n] = "asked" /\ n \in Failing
    /\ callable' = [callable EXCEPT ![n] = "failed"]
    /\ UNCHANGED <<worker, toWorker, futures, serverVars, futureVars>>

\* executeCallable, in a thread of the pool: the future starts to run, then
\* the worker's map is changed.
CallableFound(n) ==
    /\ callable[n] = "asked"
    /\ callable' = [callable EXCEPT ![n] = "found"]
    /\ Create(n)
    /\ UNCHANGED <<worker, toWorker, futures, serverVars>>

AddFuture(n) ==
    /\ callable[n] = "found"
    /\ callable' = [callable EXCEPT ![n] = "running"]
    /\ futures' = futures \union {n}
    /\ UNCHANGED <<worker, toWorker, serverVars, futureVars>>

\* ComputeWorker.Cancel
WorkerCancel(n) ==
    /\ Reads(n, "Cancel") /\ n \in futures /\ cancelling[n] = "idle"
    /\ cancelling' = [cancelling EXCEPT ![n] = "called"]
    /\ UNCHANGED <<phase, on, current, cancelled, value, promise, flagged>>
    /\ UNCHANGED <<serverVars, workerVars>>

\* cancel() has returned.
WorkerCancelled(n) ==
    /\ Reads(n, "Cancel") /\ n \in futures /\ cancelling[n] = "done"
    /\ toWorker' = [toWorker EXCEPT ![n] = Tail(@)]
    /\ futures' = futures \ {n}
    /\ UNCHANGED <<worker, callable, serverVars, futureVars>>

\* futures(name) throws, and the supervisor stops the worker.
WorkerFails(n) ==
    /\ Reads(n, "Cancel") /\ n \notin futures
    /\ worker' = [worker EXCEPT ![n] = "stopped"]
    /\ toWorker' = [toWorker EXCEPT ![n] = << >>]
    /\ UNCHANGED <<callable, futures, serverVars, futureVars>>

\* The callback of the future: a content is sent to the NFN server.
SendResult(n) ==
    /\ promise[n] = "content"
    /\ promise' = [promise EXCEPT ![n] = "sent"]
    /\ results' = results \union {n}
    /\ UNCHANGED <<phase, on, current, cancelled, value, cancelling, flagged>>
    /\ UNCHANGED <<pit, store, toServer, computeWorkers, acked, workerVars>>

-------------------------------------------------------------------------------
Init ==
    /\ FutureInit
    /\ pit = [n \in Names |-> {}] /\ store = {} /\ results = {}
    /\ toServer = << >> /\ computeWorkers = {} /\ acked = {}
    /\ worker = [n \in Names |-> "none"]
    /\ toWorker = [n \in Names |-> << >>]
    /\ callable = [n \in Names |-> "none"]
    /\ futures = {}

ServerStep(n) == ServerCompute(n) \/ ServerCancel(n) \/ ServerCancelUnknown(n)
WorkerStep(n) == WorkerCompute(n) \/ WorkerCancel(n) \/ WorkerCancelled(n) \/ WorkerFails(n)
CallableStep(n) == CallableFound(n) \/ AddFuture(n)
Calculate(n) == (RunStep(n) \/ CancelStep(n)) /\ UNCHANGED <<serverVars, workerVars>>

Next ==
    \/ \E n \in Names :
          \/ \E f \in Faces : HandleInterest(f, n)
          \/ HandleCancelRequest(n)
          \/ HandleResult(n)
          \/ ServerStep(n)
          \/ WorkerStep(n)
          \/ CallableFails(n)
          \/ CallableStep(n)
          \/ SendResult(n)
          \/ Calculate(n)
    \/ \E t \in Threads : Idle(t) /\ UNCHANGED <<serverVars, workerVars>>

Spec == Init /\ [][Next]_vars

\* Actors read their mailboxes, the pool runs what it is given, and arguments
\* arrive; that computations end is assumed of those that do not fail.
FairSpec ==
    /\ Spec
    /\ \A n \in Names :
          /\ WF_vars(ServerStep(n)) /\ WF_vars(WorkerStep(n)) /\ WF_vars(HandleResult(n))
          /\ WF_vars(CallableStep(n)) /\ WF_vars(SendResult(n))
          /\ WF_vars(CancelStep(n) /\ UNCHANGED <<serverVars, workerVars>>)
    /\ \A n \in Names \ Failing : WF_vars(RunStep(n) /\ UNCHANGED <<serverVars, workerVars>>)

-------------------------------------------------------------------------------
TypeOK ==
    /\ FutureTypeOK
    /\ pit \in [Names -> SUBSET Faces]
    /\ store \subseteq Names /\ results \subseteq Names
    /\ toServer \in Seq(Message)
    /\ computeWorkers \subseteq Names /\ acked \subseteq Names
    /\ worker \in [Names -> {"none", "alive", "stopped"}]
    /\ toWorker \in [Names -> Seq({"Compute", "Cancel"})]
    /\ callable \in [Names -> {"none", "asked", "failed", "found", "running"}]
    /\ futures \subseteq Names

\* A computation is given to the compute server once and for all: its worker
\* is not stopped when it is cancelled, and a second actor of that name, or a
\* second future in that worker, would be an error.  Between the PIT and the
\* content store of the NFN server there is no gap a second request fits in.
CreatedOnce ==
    \A n \in Names :
        LET asks == {i \in 1 .. Len(toServer) : toServer[i] = Compute(n)} IN
        /\ Cardinality(asks) <= 1
        /\ asks # {} => worker[n] = "none"

\* A worker survives the cancellation of a computation that is under way: the
\* map of its futures has that name, and the name is cancelled once.  What a
\* worker does not survive is a cancellation that comes while it still waits
\* for the service or its arguments.
WorkerSurvives ==
    [][\A n \in Names :
          worker[n] = "alive" /\ worker'[n] = "stopped" => callable[n] # "running"]_vars

\* Whoever asks for a computation that does not fail is answered, unless it is
\* cancelled or its thread carries an interrupt meant for another.
Answered ==
    \A n \in Names \ Failing :
        pit[n] # {} ~> pit[n] = {} \/ n \in acked \/ value[n] = "nothing"
===============================================================================
