--------------------------- MODULE CancellableFuture ---------------------------
(***************************************************************************)
(* KlangCancellableFuture: a computation that a thread of a pool runs and  *)
(* that another thread may cancel while it waits, runs or ends.  The flag  *)
(* `cancelled` is read without the lock that guards `currentThread`.       *)
(***************************************************************************)
EXTENDS FiniteSets

CONSTANTS
    Names,     \* the computations
    Threads,   \* the threads of the pool
    NoThread,
    Failing    \* computations that may fail or never end

ASSUME FutureAssumption == NoThread \notin Threads /\ Failing \subseteq Names

VARIABLES
    phase,      \* where the thread that runs it is
    on,         \* that thread
    current,    \* currentThread
    cancelled,  \* the volatile flag
    value,      \* what the work returned
    promise,    \* the promise p: who completed it
    cancelling, \* where cancel() is
    flagged     \* threads whose interrupted status is set

futureVars == <<phase, on, current, cancelled, value, promise, cancelling, flagged>>

Phases == {"none", "queued", "claimed", "registered", "working", "leaving", "left", "over"}
Free(t) == \A n \in Names : on[n] # t
LockFree(n) == cancelling[n] \in {"idle", "called", "done"}

-------------------------------------------------------------------------------
(* The thread that runs the work (run)                                     *)

Create(n) ==
    /\ phase[n] = "none"
    /\ phase' = [phase EXCEPT ![n] = "queued"]
    /\ promise' = [promise EXCEPT ![n] = "open"]
    /\ UNCHANGED <<on, current, cancelled, value, cancelling, flagged>>

\* The first look at the flag.
Claim(n, t) ==
    /\ phase[n] = "queued" /\ Free(t)
    /\ IF cancelled[n] THEN phase' = [phase EXCEPT ![n] = "over"] /\ UNCHANGED on
       ELSE /\ phase' = [phase EXCEPT ![n] = "claimed"]
            /\ on' = [on EXCEPT ![n] = t]
    /\ UNCHANGED <<current, cancelled, value, promise, cancelling, flagged>>

\* Seeded fault: updateCurrentThread is called without the lock.
Register_Unlocked(n) ==
    /\ phase[n] = "claimed"
    /\ phase' = [phase EXCEPT ![n] = "registered"]
    /\ current' = [current EXCEPT ![n] = on[n]]
    /\ UNCHANGED <<on, cancelled, value, promise, cancelling, flagged>>

Register(n) ==
    /\ phase[n] = "claimed" /\ LockFree(n)
    /\ phase' = [phase EXCEPT ![n] = "registered"]
    /\ current' = [current EXCEPT ![n] = on[n]]
    /\ UNCHANGED <<on, cancelled, value, promise, cancelling, flagged>>

\* Seeded fault: the flag is looked at before the thread is known, not after.
Begin_Unchecked(n) ==
    /\ phase[n] = "registered"
    /\ phase' = [phase EXCEPT ![n] = "working"]
    /\ UNCHANGED <<on, current, cancelled, value, promise, cancelling, flagged>>

\* The second look at the flag, then the work begins.
Begin(n) ==
    /\ phase[n] = "registered"
    /\ phase' = [phase EXCEPT ![n] = IF cancelled[n] THEN "leaving" ELSE "working"]
    /\ UNCHANGED <<on, current, cancelled, value, promise, cancelling, flagged>>

\* The work returns its content; or nothing, when it caught an exception of
\* its own or one that the interrupted status of its thread caused.
EndWork(n, v) ==
    /\ phase[n] = "working"
    /\ \/ /\ v = "content" \/ n \in Failing
          /\ UNCHANGED flagged
       \/ /\ v = "nothing" /\ on[n] \in flagged
          /\ flagged' = flagged \ {on[n]}
    /\ phase' = [phase EXCEPT ![n] = "leaving"]
    /\ value' = [value EXCEPT ![n] = v]
    /\ UNCHANGED <<on, current, cancelled, promise, cancelling>>

Unregister(n) ==
    /\ phase[n] = "leaving" /\ LockFree(n)
    /\ phase' = [phase EXCEPT ![n] = "left"]
    /\ current' = [current EXCEPT ![n] = NoThread]
    /\ UNCHANGED <<on, cancelled, value, promise, cancelling, flagged>>

\* Seeded fault: the promise takes the value although it was failed before.
Complete_Anyway(n) ==
    /\ phase[n] = "left"
    /\ phase' = [phase EXCEPT ![n] = "over"]
    /\ on' = [on EXCEPT ![n] = NoThread]
    /\ promise' = [promise EXCEPT ![n] = value[n]]
    /\ UNCHANGED <<current, cancelled, value, cancelling, flagged>>

Complete(n) ==
    /\ phase[n] = "left"
    /\ phase' = [phase EXCEPT ![n] = "over"]
    /\ on' = [on EXCEPT ![n] = NoThread]
    /\ promise' = [promise EXCEPT ![n] = IF @ = "open" THEN value[n] ELSE @]
    /\ UNCHANGED <<current, cancelled, value, cancelling, flagged>>

\* A thread of the pool that waits for work loses its interrupted status.
Idle(t) ==
    /\ Free(t) /\ t \in flagged
    /\ flagged' = flagged \ {t}
    /\ UNCHANGED <<phase, on, current, cancelled, value, promise, cancelling>>

-------------------------------------------------------------------------------
(* cancel(): all of it under the lock                                      *)

\* Seeded fault: the thread is interrupted although none is known.
Interrupt_Unknown(n) ==
    /\ cancelling[n] = "called"
    /\ flagged' = flagged \union {current[n]}
    /\ current' = [current EXCEPT ![n] = NoThread]
    /\ cancelling' = [cancelling EXCEPT ![n] = "interrupted"]
    /\ UNCHANGED <<phase, on, cancelled, value, promise>>

Interrupt(n) ==
    /\ cancelling[n] = "called"
    /\ flagged' = flagged \union ({current[n]} \ {NoThread})
    /\ current' = [current EXCEPT ![n] = NoThread]
    /\ cancelling' = [cancelling EXCEPT ![n] = "interrupted"]
    /\ UNCHANGED <<phase, on, cancelled, value, promise>>

TryFailure(n) ==
    /\ cancelling[n] = "interrupted"
    /\ promise' = [promise EXCEPT ![n] = IF @ = "open" THEN "cancelled" ELSE @]
    /\ cancelling' = [cancelling EXCEPT ![n] = IF promise[n] = "open" THEN "won" ELSE "lost"]
    /\ UNCHANGED <<phase, on, current, cancelled, value, flagged>>

SetCancelled(n) ==
    /\ cancelling[n] \in {"won", "lost"}
    /\ cancelled' = [cancelled EXCEPT ![n] = @ \/ cancelling[n] = "won"]
    /\ cancelling' = [cancelling EXCEPT ![n] = "done"]
    /\ UNCHANGED <<phase, on, current, value, promise, flagged>>

CancelStep(n) == Interrupt(n) \/ TryFailure(n) \/ SetCancelled(n)

RunStep(n) ==
    \/ \E t \in Threads : Claim(n, t)
    \/ Register(n)
    \/ Begin(n)
    \/ \E v \in {"content", "nothing"} : EndWork(n, v)
    \/ Unregister(n)
    \/ Complete(n)

FutureInit ==
    /\ phase = [n \in Names |-> "none"]
    /\ on = [n \in Names |-> NoThread]
    /\ current = [n \in Names |-> NoThread]
    /\ cancelled = [n \in Names |-> FALSE]
    /\ value = [n \in Names |-> "none"]
    /\ promise = [n \in Names |-> "none"]
    /\ cancelling = [n \in Names |-> "idle"]
    /\ flagged = {}

-------------------------------------------------------------------------------
FutureTypeOK ==
    /\ phase \in [Names -> Phases]
    /\ on \in [Names -> Threads \union {NoThread}]
    /\ current \in [Names -> Threads \union {NoThread}]
    /\ cancelled \in [Names -> BOOLEAN]
    /\ value \in [Names -> {"none", "content", "nothing"}]
    /\ promise \in [Names -> {"none", "open", "content", "nothing", "cancelled", "sent"}]
    /\ cancelling \in [Names -> {"idle", "called", "interrupted", "won", "lost", "done"}]
    /\ flagged \subseteq Threads

\* The flag is set only when cancel() completed the promise: a computation that
\* is cancelled has no other outcome, before or after.
CancelledIsOutcome == \A n \in Names : cancelled[n] => promise[n] = "cancelled"

\* Once the flag is set the work does not begin.
NeverBegunLate ==
    [][\A n \in Names : cancelled[n] /\ phase'[n] = "working" => phase[n] = "working"]_futureVars

\* No cancelled computation works on unaware: cancel() interrupts the thread
\* that runs it, however the two interleave.
CancelReachesWorker ==
    \A n \in Names : cancelled[n] /\ phase[n] = "working" => on[n] \in flagged
===============================================================================
