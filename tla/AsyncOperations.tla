--------------------------- MODULE AsyncOperations ---------------------------
(***************************************************************************)
(* One asynchronous proposal creation (POST /advisory/proposals/async) and *)
(* the synchronous creations that carry the same Idempotency-Key, run by   *)
(* the processes of the service over one PostgreSQL database.              *)
(*                                                                         *)
(* The process that accepts a submission stores a PENDING operation and    *)
(* runs it in a background task.  The runner reads the operation, writes   *)
(* RUNNING with a lease, executes the creation and writes the outcome;     *)
(* every write replaces the whole row by the runner's own copy of it       *)
(* (update_operation has no compare-and-set).  A process that starts runs  *)
(* the operations that are PENDING or whose lease has expired, once.       *)
(* Operators may quarantine an operation that no active lease protects.    *)
(*                                                                         *)
(* Routes and background tasks run in the thread pool of their process,    *)
(* recovery in its event loop before any request is served.  What either   *)
(* of them asks of the store may fail, and then ends the run: only errors  *)
(* of the creation itself become an outcome.                               *)
(*                                                                         *)
(* A lease is kept as the time it has left: lease_expires_in is            *)
(* lease_expires_at minus the clock, and Tick lets it run down.  Every     *)
(* write sets the status, lease, result and error anew, so a copy in       *)
(* memory keeps the other fields only.                                     *)
(***************************************************************************)
EXTENDS ProposalCreate

CONSTANTS
    Processes,
    Threads,            \* the threads of their pools
    ProcessOf,          \* the process of each thread
    Operators,          \* principals with the control capability
    max_attempts,       \* ASYNC_DEFAULT_MAX_ATTEMPTS
    LeaseTime,          \* ASYNC_OPERATION_LEASE_SECONDS
    MaxCrashes,         \* bound on the number of crashes
    MaxStoreErrors      \* bound on the number of failed calls to the store

VARIABLES
    operation,  \* the proposal_async_operations row, None before submission
    run,        \* what each worker is doing
    control,    \* the copy each operator has read, None when it is not deciding
    crashes,    \* how often a process has died
    storeErrors \* how often a call to the store has failed

asyncVars == <<operation, run, control, crashes, storeErrors>>
vars == <<createVars, asyncVars>>

ASYNC_TERMINAL_STATUSES == {"SUCCEEDED", "FAILED"}

ErrorCodes == {"LIFECYCLE_ERROR", "ATTEMPTS_EXHAUSTED", "RUNTIME_ERROR",
               "QUARANTINED"}

Operation ==
    [status : {"PENDING", "RUNNING"} \cup ASYNC_TERMINAL_STATUSES,
     payload : Payloads, attempt_count : Nat,
     lease_expires_in : 0 .. LeaseTime \cup {None}, result : Nat \cup {None},
     error : ErrorCodes \cup {None}]

\* What a write takes over from the copy of the operation in memory
Copy == [payload : Payloads, attempt_count : Nat]

CopyOf(op) == [payload |-> op.payload, attempt_count |-> op.attempt_count]

ASSUME AsyncAssumption ==
    /\ max_attempts \in Nat \ {0}
    /\ LeaseTime \in Nat \ {0}
    /\ ProcessOf \in [Threads -> Processes]
    /\ Threads \cap Processes = {}
    /\ MaxCrashes \in Nat /\ MaxStoreErrors \in Nat
    /\ None \notin Operation /\ None \notin Copy

\* The event loop of a process stands for the process.
Workers == Processes \cup Threads

\* down: a process that has not started, or is dead.  up: a process that serves
\* requests, or a thread that is free.  The others are the steps of
\* run_async_operation_until_terminal and of create_proposal_command; copy is
\* None while a synchronous request is served.
Phases == {"down", "up", "loading", "starting", "exhausted", "executing",
           "creating", "finished"}

Outcomes == {"SUCCEEDED", "LIFECYCLE_ERROR", "RUNTIME_ERROR"}

Run ==
    [phase : Phases, copy : Copy \cup {None},
     payload : Payloads \cup {None}, outcome : Outcomes \cup {None},
     result : Nat \cup {None}]

At(phase) == [phase |-> phase, copy |-> None, payload |-> None,
              outcome |-> None, result |-> None]

Init ==
    /\ CreateInit
    /\ operation = None
    /\ run = [w \in Workers |-> At(IF w \in Processes THEN "down" ELSE "up")]
    /\ control = [o \in Operators |-> None]
    /\ crashes = 0
    /\ storeErrors = 0

-----------------------------------------------------------------------------
\* Requests.

\* A thread takes a request once its process serves.
Serves(t) == run[t].phase = "up" /\ run[ProcessOf[t]].phase = "up"

\* The row that is written from a copy
Row(copy, status, lease, result, error) ==
    [status |-> status, payload |-> copy.payload,
     attempt_count |-> copy.attempt_count, lease_expires_in |-> lease,
     result |-> result, error |-> error]

\* build_create_proposal_async_operation
NewOperation(payload) ==
    Row([payload |-> payload, attempt_count |-> 0], "PENDING", None, None, None)

\* accept_create_proposal_async_submission: the insert succeeds for the first
\* submission of the key only, and only that one schedules the execution.
Submit(t) ==
    /\ Serves(t)
    /\ operation = None
    /\ \E payload \in Payloads : operation' = NewOperation(payload)
    /\ run' = [run EXCEPT ![t] = At("loading")]
    /\ UNCHANGED <<createVars, control, crashes, storeErrors>>

\* The insert commits and its answer is lost: nothing is scheduled.  A repeated
\* submission finds the operation and schedules nothing either.
SubmitUnanswered(t) ==
    /\ Serves(t)
    /\ operation = None
    /\ storeErrors < MaxStoreErrors
    /\ storeErrors' = storeErrors + 1
    /\ \E payload \in Payloads : operation' = NewOperation(payload)
    /\ UNCHANGED <<createVars, run, control, crashes>>

\* POST /advisory/proposals under the same key
SyncCreate(t) ==
    /\ Serves(t)
    /\ \E payload \in Payloads :
          run' = [run EXCEPT ![t] = [At("executing") EXCEPT !.payload = payload]]
    /\ UNCHANGED <<createVars, operation, control, crashes, storeErrors>>

-----------------------------------------------------------------------------
\* The runner.

\* has_exhausted_async_attempts with > for >=
HasExhaustedAttemptsLate(op) == op.attempt_count > max_attempts

\* has_exhausted_async_attempts
HasExhaustedAttempts(op) == op.attempt_count >= max_attempts

\* load_proposal_async_operation_read_model, should_skip_async_operation_run
LoadOperation(w) ==
    /\ run[w].phase = "loading"
    /\ run' = [run EXCEPT ![w] =
          IF operation.status \in ASYNC_TERMINAL_STATUSES THEN At("up")
          ELSE [At(IF HasExhaustedAttempts(operation) THEN "exhausted"
                                                      ELSE "starting")
                  EXCEPT !.copy = CopyOf(operation)]]
    /\ UNCHANGED <<createVars, operation, control, crashes, storeErrors>>

\* mark_operation_failed
Failed(copy, code) == Row(copy, "FAILED", None, None, code)

\* PROPOSAL_ASYNC_ATTEMPTS_EXHAUSTED
FailExhausted(w) ==
    /\ run[w].phase = "exhausted"
    /\ operation' = Failed(run[w].copy, "ATTEMPTS_EXHAUSTED")
    /\ run' = [run EXCEPT ![w] = At("up")]
    /\ UNCHANGED <<createVars, control, crashes, storeErrors>>

\* begin_async_attempt that forgets to count
BegunUncounted(copy) == copy

\* begin_async_attempt counts the attempt in the copy
Begun(copy) == [copy EXCEPT !.attempt_count = @ + 1]

\* What persist_async_attempt_started writes of that copy
Started(copy) == Row(copy, "RUNNING", LeaseTime, None, None)

\* persist_async_attempt_started
BeginAttempt(w) ==
    LET copy == Begun(run[w].copy) IN
    /\ run[w].phase = "starting"
    /\ operation' = Started(copy)
    /\ run' = [run EXCEPT ![w].phase = "executing", ![w].copy = copy,
                          ![w].payload = copy.payload]
    /\ UNCHANGED <<createVars, control, crashes, storeErrors>>

\* The executor returns or raises: a background run goes on to store the
\* outcome, a synchronous request is answered.
Finish(w, outcome, result) ==
    run' = [run EXCEPT ![w] =
       IF run[w].copy = None THEN At("up")
       ELSE [run[w] EXCEPT !.phase = "finished", !.outcome = outcome,
                           !.result = result]]

\* create_proposal_command up to its transaction
LookUpKey(w) ==
    /\ run[w].phase = "executing"
    /\ \/ /\ Replays(run[w].payload)
          /\ Finish(w, "SUCCEEDED", idempotency.proposal_id)
       \/ /\ KeyConflicts(run[w].payload)
          /\ Finish(w, "LIFECYCLE_ERROR", None)
       \/ /\ KeyIsFree(run[w].payload)
          /\ run' = [run EXCEPT ![w].phase = "creating"]
    /\ UNCHANGED <<createVars, operation, control, crashes, storeErrors>>

\* The payload is refused (a ProposalLifecycleError), or something breaks
\* before the transaction commits.
RaiseError(w) ==
    /\ run[w].phase \in {"executing", "creating"}
    /\ \E outcome \in {"LIFECYCLE_ERROR", "RUNTIME_ERROR"} :
          Finish(w, outcome, None)
    /\ UNCHANGED <<createVars, operation, control, crashes, storeErrors>>

\* The transaction commits.  The caller may still see an error, when the answer
\* to COMMIT is lost or the response cannot be built.
CommitCreate(w) ==
    /\ run[w].phase = "creating"
    /\ PersistCreatedProposal(run[w].payload)
    /\ \/ Finish(w, "SUCCEEDED", Len(proposals) + 1)
       \/ Finish(w, "RUNTIME_ERROR", None)
    /\ UNCHANGED <<operation, control, crashes, storeErrors>>

\* mark_operation_succeeded
Succeeded(copy, result) == Row(copy, "SUCCEEDED", None, result, None)

\* apply_runtime_exception_outcome: requeue while attempts are left
RuntimeException(copy) ==
    IF copy.attempt_count < max_attempts
      THEN Row(copy, "PENDING", None, None, "RUNTIME_ERROR")
      ELSE Failed(copy, "RUNTIME_ERROR")

\* The row after the attempt, made from the runner's copy.
AttemptedOperation(r) ==
    CASE r.outcome = "SUCCEEDED"       -> Succeeded(r.copy, r.result)
      [] r.outcome = "LIFECYCLE_ERROR" -> Failed(r.copy, "LIFECYCLE_ERROR")
      [] r.outcome = "RUNTIME_ERROR"   -> RuntimeException(r.copy)

\* _run_async_operation_attempt; after a requeue the loop starts again.
StoreOutcome(w) ==
    /\ run[w].phase = "finished"
    /\ operation' = AttemptedOperation(run[w])
    /\ run' = [run EXCEPT ![w] =
                  At(IF operation'.status = "PENDING" THEN "loading" ELSE "up")]
    /\ UNCHANGED <<createVars, control, crashes, storeErrors>>

\* What a run would write next
NextWrite(r) ==
    CASE r.phase = "exhausted" -> Failed(r.copy, "ATTEMPTS_EXHAUSTED")
      [] r.phase = "starting"  -> Started(Begun(r.copy))
      [] r.phase = "finished"  -> AttemptedOperation(r)
      [] r.phase = "loading"   -> operation

\* The load of the operation or a write to it raises, and the write is committed
\* or not.  The error leaves the loop of the runner.  It ends a background task,
\* and the start of a process whose recovery it ends.
StoreError(w) ==
    /\ run[w].phase \in {"loading", "exhausted", "starting", "finished"}
    /\ storeErrors < MaxStoreErrors
    /\ storeErrors' = storeErrors + 1
    /\ operation' \in {operation, NextWrite(run[w])}
    /\ run' = [run EXCEPT ![w] = At(IF w \in Processes THEN "down" ELSE "up")]
    /\ UNCHANGED <<createVars, control, crashes>>

-----------------------------------------------------------------------------
\* Crash, restart and time.

\* A process dies with all its threads.
Crash(p) ==
    /\ run[p].phase # "down"
    /\ crashes < MaxCrashes
    /\ crashes' = crashes + 1
    /\ run' = [w \in Workers |->
                  IF w = p THEN At("down")
                  ELSE IF w \in Threads /\ ProcessOf[w] = p THEN At("up")
                  ELSE run[w]]
    /\ UNCHANGED <<createVars, operation, control, storeErrors>>

LeaseExpired(op) == op.status = "RUNNING" /\ op.lease_expires_in = 0

\* list_recoverable_operations
Recoverable(op) == op.status = "PENDING" \/ LeaseExpired(op)

\* The lifespan hook of the application runs recover_async_operations once,
\* before the process serves requests.
Start(p) ==
    /\ run[p].phase = "down"
    /\ run' = [run EXCEPT ![p] =
                  At(IF operation # None /\ Recoverable(operation)
                       THEN "loading" ELSE "up")]
    /\ UNCHANGED <<createVars, operation, control, crashes, storeErrors>>

Tick ==
    /\ operation # None
    /\ operation.lease_expires_in \notin {None, 0}
    /\ operation' = [operation EXCEPT !.lease_expires_in = @ - 1]
    /\ UNCHANGED <<createVars, run, control, crashes, storeErrors>>

-----------------------------------------------------------------------------
\* Operator control.

\* The control statuses for which _quarantine_reason_code allows a quarantine:
\* PENDING, RECOVERABLE_STUCK and RETRY_EXHAUSTED.
Quarantinable(op) ==
    /\ op.error # "QUARANTINED"
    /\ \/ Recoverable(op)
       \/ op.status = "FAILED" /\ HasExhaustedAttempts(op)

\* quarantine_controlled_operation reads and decides ...
EvaluateQuarantine(o) ==
    /\ control[o] = None
    /\ operation # None
    /\ Quarantinable(operation)
    /\ control' = [control EXCEPT ![o] = CopyOf(operation)]
    /\ UNCHANGED <<createVars, operation, run, crashes, storeErrors>>

\* ... and then writes build_quarantined_async_operation.
Quarantine(o) ==
    /\ control[o] # None
    /\ operation' = Failed(control[o], "QUARANTINED")
    /\ control' = [control EXCEPT ![o] = None]
    /\ UNCHANGED <<createVars, run, crashes, storeErrors>>

-----------------------------------------------------------------------------

\* The steps of a run that has begun, without an error of the store
RunnerStep(w) ==
    \/ LoadOperation(w) \/ FailExhausted(w) \/ BeginAttempt(w)
    \/ LookUpKey(w) \/ RaiseError(w) \/ CommitCreate(w) \/ StoreOutcome(w)

Next ==
    \/ \E t \in Threads : Submit(t) \/ SubmitUnanswered(t) \/ SyncCreate(t)
    \/ \E w \in Workers : RunnerStep(w) \/ StoreError(w)
    \/ \E p \in Processes : Crash(p) \/ Start(p)
    \/ \E o \in Operators : EvaluateQuarantine(o) \/ Quarantine(o)
    \/ Tick

Spec == Init /\ [][Next]_vars

\* A live worker goes on, the supervisor restarts a dead process, and time
\* passes.  Nothing is assumed about requests, operators, crashes and errors of
\* the store: an error may come instead of any step of a run that uses it.
Fairness ==
    /\ \A w \in Workers : WF_vars(RunnerStep(w))
    /\ \A p \in Processes : WF_vars(Start(p))
    /\ WF_vars(Tick)

FairSpec == Spec /\ Fairness

-----------------------------------------------------------------------------
\* Properties.

\* Every variable has its type, and the idempotency row points to a proposal.
TypeOK ==
    /\ proposals \in Seq(Payloads)
    /\ idempotency # None => /\ idempotency \in IdempotencyRecord
                             /\ idempotency.proposal_id \in DOMAIN proposals
    /\ operation \in Operation \cup {None}
    /\ run \in [Workers -> Run]
    /\ control \in [Operators -> Copy \cup {None}]
    /\ crashes \in 0 .. MaxCrashes
    /\ storeErrors \in 0 .. MaxStoreErrors

\* However runners, recovery and operators overwrite each other's rows, the
\* stored attempt counter stays within max_attempts, and while an attempt is
\* stored as running it is between one and that.
AttemptsBounded ==
    operation # None =>
        /\ operation.attempt_count <= max_attempts
        /\ operation.status = "RUNNING" => operation.attempt_count >= 1

\* An operation that reports success names a proposal that exists and that was
\* created from the payload of this operation, also when a synchronous request
\* with another payload used the key at the same time.
SuccessNamesOwnProposal ==
    (operation # None /\ operation.status = "SUCCEEDED") =>
        /\ operation.result \in DOMAIN proposals
        /\ proposals[operation.result] = operation.payload

Submitted == operation # None

Ended == Submitted /\ operation.status \in ASYNC_TERMINAL_STATUSES

\* The background task or the recovery that runs the operation
Runs(w) ==
    \/ run[w].phase \in {"loading", "starting", "exhausted"}
    \/ run[w].copy # None

\* Whoever has begun to run the operation, however often it was interrupted
\* before, brings it to a terminal status, unless a process dies or a call to
\* the store fails again: retries and requeues, stale copies that several
\* runners and operators write back, never keep a run going for ever.
RunsEnd ==
    \A n \in 0 .. MaxCrashes + MaxStoreErrors :
        ((\E w \in Workers : Runs(w)) /\ crashes + storeErrors = n)
            ~> (Ended \/ crashes + storeErrors > n)

\* Async operations are restart-safe: a submitted operation reaches a terminal
\* status even when a process dies and is restarted (RFC-0019).
RestartSafe == Submitted ~> Ended

\* One key and one payload create one proposal (RFC-0013, Idempotency).
CreatedOnce ==
    \A i, j \in DOMAIN proposals : proposals[i] = proposals[j] => i = j

=============================================================================
