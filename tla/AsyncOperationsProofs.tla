------------------------ MODULE AsyncOperationsProofs ------------------------
(***************************************************************************)
(* Theorems of AsyncOperations, for every set of processes, of threads, of *)
(* operators and payloads, and every limit on attempts and errors.         *)
(***************************************************************************)
EXTENDS AsyncOperations, TLAPS

Executing == {"executing", "creating", "finished"}

\* A copy in memory of the stored operation: it is of this operation, and its
\* counter is within the limit.
CopyOK(copy, stored) ==
    /\ stored # None
    /\ copy.payload = stored.payload
    /\ copy.attempt_count <= max_attempts

\* A result names a proposal, of those created, that was made from the payload.
ResultOK(result, payload, created) ==
    result \in DOMAIN created /\ created[result] = payload

\* What a worker holds: a copy that still has an attempt left when it is about
\* to begin one, that has counted one once it executes, and a result that is
\* its own when it has succeeded.
RunOK(r, stored, created) ==
    /\ r.phase = "loading" => stored # None
    /\ r.phase \in {"starting", "exhausted"} => r.copy # None
    /\ r.copy # None => CopyOK(r.copy, stored)
    /\ r.phase = "starting" => r.copy.attempt_count < max_attempts
    /\ r.phase \in Executing =>
          /\ r.payload \in Payloads
          /\ r.copy # None => /\ r.copy.attempt_count >= 1
                              /\ r.copy.payload = r.payload
    /\ r.phase = "finished" =>
          /\ r.copy # None
          /\ r.outcome \in Outcomes
          /\ r.outcome = "SUCCEEDED" => ResultOK(r.result, r.payload, created)

\* The stored operation: absent, or with a counter and a result that are right.
StoredOK(stored, created) ==
    stored # None =>
        /\ stored \in Operation
        /\ stored.attempt_count <= max_attempts
        /\ stored.status = "RUNNING" => stored.attempt_count >= 1
        /\ stored.status = "SUCCEEDED" =>
              ResultOK(stored.result, stored.payload, created)

\* The row of the key names a proposal of its own payload, and there is none
\* before the first proposal.
KeyRowOK ==
    IF idempotency = None THEN proposals = <<>>
    ELSE ResultOK(idempotency.proposal_id, idempotency.request_hash, proposals)

\* The inductive invariant.
AsyncInv ==
    /\ TypeOK
    /\ StoredOK(operation, proposals)
    /\ \A w \in Workers : RunOK(run[w], operation, proposals)
    /\ \A o \in Operators : control[o] # None => CopyOK(control[o], operation)
    /\ KeyRowOK

\* What a step does to the counters of crashes and errors
BoundsKept ==
    crashes' \in 0 .. MaxCrashes /\ storeErrors' \in 0 .. MaxStoreErrors

-----------------------------------------------------------------------------
\* Lemmas that every step uses.

\* From one stored operation to the next: it stays, or is replaced by one of
\* the same payload.
SameOperation(stored, next) ==
    \/ next = stored
    \/ next # None /\ (stored # None => next.payload = stored.payload)

\* A copy stays right when the stored operation is replaced.
LEMMA CopyStays ==
    ASSUME NEW copy, NEW stored, NEW next, SameOperation(stored, next),
           CopyOK(copy, stored)
    PROVE  CopyOK(copy, next)
BY DEF SameOperation, CopyOK

\* What a worker holds stays right when the stored operation is replaced and
\* when further proposals are created.
LEMMA RunStays ==
    ASSUME NEW r, NEW stored, NEW next, SameOperation(stored, next),
           NEW created, NEW created2, DOMAIN created \subseteq DOMAIN created2,
           \A i \in DOMAIN created : created2[i] = created[i],
           RunOK(r, stored, created)
    PROVE  RunOK(r, next, created2)
<1>1. r.copy # None => CopyOK(r.copy, next)
  BY CopyStays DEF RunOK
<1>2. r.phase = "loading" => next # None
  BY DEF RunOK, SameOperation
<1>3. ASSUME r.phase = "finished", r.outcome = "SUCCEEDED"
      PROVE  ResultOK(r.result, r.payload, created2)
  BY <1>3 DEF RunOK, ResultOK
<1> QED
  BY <1>1, <1>2, <1>3 DEF RunOK

\* A step that creates no proposal keeps the invariant if what the workers hold
\* afterwards, where it changes, and what is stored are right.
LEMMA WorkersStep ==
    ASSUME AsyncInv, run' \in [Workers -> Run],
           UNCHANGED <<createVars, control>>, BoundsKept,
           SameOperation(operation, operation'),
           StoredOK(operation', proposals),
           \A w \in Workers :
               run'[w] = run[w] \/ RunOK(run'[w], operation', proposals)
    PROVE  AsyncInv'
<1>1. /\ proposals' = proposals /\ idempotency' = idempotency
      /\ control' = control
  BY DEF createVars
<1>2. TypeOK'
  BY <1>1 DEF AsyncInv, TypeOK, StoredOK, BoundsKept
<1>3. StoredOK(operation, proposals)'
  BY <1>1
<1>4. \A w \in Workers : RunOK(run'[w], operation', proposals')
  <2> TAKE w \in Workers
  <2>1. CASE run'[w] = run[w]
    <3>1. RunOK(run[w], operation, proposals)
      BY DEF AsyncInv
    <3> QED
      BY <2>1, <3>1, <1>1, RunStays
  <2>2. CASE RunOK(run'[w], operation', proposals)
    BY <2>2, <1>1
  <2> QED
    BY <2>1, <2>2
<1>5. \A o \in Operators :
         control'[o] # None => CopyOK(control'[o], operation')
  BY <1>1, CopyStays DEF AsyncInv
<1>6. KeyRowOK'
  BY <1>1 DEF AsyncInv, KeyRowOK
<1> QED
  BY <1>2, <1>3, <1>4, <1>5, <1>6 DEF AsyncInv

\* A step of one worker.
LEMMA WorkerStep ==
    ASSUME AsyncInv, NEW w \in Workers, NEW r \in Run,
           run' = [run EXCEPT ![w] = r],
           UNCHANGED <<createVars, control>>, BoundsKept,
           SameOperation(operation, operation'),
           StoredOK(operation', proposals),
           RunOK(r, operation', proposals)
    PROVE  AsyncInv'
<1>1. run \in [Workers -> Run]
  BY DEF AsyncInv, TypeOK
<1>2. /\ run' \in [Workers -> Run]
      /\ \A v \in Workers :
            run'[v] = run[v] \/ RunOK(run'[v], operation', proposals)
  BY <1>1
<1> QED
  BY <1>2, WorkersStep

-----------------------------------------------------------------------------
\* The steps of one worker.

\* A worker that holds nothing has a run of the right type, and it is right as
\* long as it does not go on to load an operation that is absent.
LEMMA AtOK ==
    ASSUME NEW phase \in {"down", "up", "loading", "executing"},
           NEW stored, NEW created, phase = "loading" => stored # None,
           NEW payload \in Payloads
    PROVE  /\ phase # "executing" =>
                 At(phase) \in Run /\ RunOK(At(phase), stored, created)
           /\ [At("executing") EXCEPT !.payload = payload] \in Run
           /\ RunOK([At("executing") EXCEPT !.payload = payload], stored, created)
BY DEF At, Run, Phases, RunOK, Executing

\* A thread is a worker, and so is a process.
LEMMA ThreadsWork == Threads \subseteq Workers /\ Processes \subseteq Workers
BY DEF Workers

\* A new operation has attempted nothing.
LEMMA NewOperationOK ==
    ASSUME NEW payload \in Payloads, NEW created, operation = None,
           operation' = NewOperation(payload)
    PROVE  /\ operation' # None /\ StoredOK(operation', created)
           /\ SameOperation(operation, operation')
<1>1. NewOperation(payload) \in Operation
  BY DEF NewOperation, Row, Operation
<1>2. /\ NewOperation(payload).attempt_count = 0
      /\ NewOperation(payload).status = "PENDING"
  BY DEF NewOperation, Row
<1> QED
  BY <1>1, <1>2, AsyncAssumption DEF StoredOK, SameOperation

\* The first submission stores an operation and begins to run it.
LEMMA SubmitStep ==
    ASSUME AsyncInv, NEW t \in Threads, Submit(t)
    PROVE  AsyncInv'
<1>1. PICK payload \in Payloads : operation' = NewOperation(payload)
  BY DEF Submit
<1>2. /\ operation' # None /\ StoredOK(operation', proposals)
      /\ SameOperation(operation, operation')
  BY <1>1, NewOperationOK DEF Submit
<1>3. At("loading") \in Run /\ RunOK(At("loading"), operation', proposals)
  BY <1>2 DEF At, Run, Phases, RunOK, Executing
<1>4. /\ run' = [run EXCEPT ![t] = At("loading")]
      /\ UNCHANGED <<createVars, control>> /\ BoundsKept
  BY DEF Submit, AsyncInv, TypeOK, BoundsKept
<1> QED
  BY <1>2, <1>3, <1>4, WorkerStep, ThreadsWork

\* A submission whose answer is lost stores an operation only.
LEMMA SubmitUnansweredStep ==
    ASSUME AsyncInv, NEW t \in Threads, SubmitUnanswered(t)
    PROVE  AsyncInv'
<1>1. PICK payload \in Payloads : operation' = NewOperation(payload)
  BY DEF SubmitUnanswered
<1>2. /\ operation' # None /\ StoredOK(operation', proposals)
      /\ SameOperation(operation, operation')
  BY <1>1, NewOperationOK DEF SubmitUnanswered
<1>3. UNCHANGED <<createVars, run, control>> /\ BoundsKept
  BY AsyncAssumption DEF SubmitUnanswered, AsyncInv, TypeOK, BoundsKept
<1>4. run' \in [Workers -> Run] /\ \A w \in Workers : run'[w] = run[w]
  BY <1>3 DEF AsyncInv, TypeOK
<1> QED
  BY <1>2, <1>3, <1>4, WorkersStep

\* A step of w that changes only what w holds.
LEMMA RunStep ==
    ASSUME AsyncInv, NEW w \in Workers, NEW r \in Run,
           run' = [run EXCEPT ![w] = r],
           UNCHANGED <<createVars, operation, control>>, BoundsKept,
           RunOK(r, operation, proposals)
    PROVE  AsyncInv'
<1>1. SameOperation(operation, operation')
  BY DEF SameOperation
<1>2. StoredOK(operation', proposals) /\ RunOK(r, operation', proposals)
  BY DEF AsyncInv
<1> QED
  BY <1>1, <1>2, WorkerStep

\* A synchronous request brings one of the payloads.
LEMMA SyncCreateStep ==
    ASSUME AsyncInv, NEW t \in Threads, SyncCreate(t)
    PROVE  AsyncInv'
<1>1. PICK payload \in Payloads :
         run' = [run EXCEPT
                    ![t] = [At("executing") EXCEPT !.payload = payload]]
  BY DEF SyncCreate
<1> DEFINE r == [At("executing") EXCEPT !.payload = payload]
<1>2. r \in Run /\ RunOK(r, operation, proposals)
  BY AtOK
<1>3. UNCHANGED <<createVars, operation, control>> /\ BoundsKept
  BY DEF SyncCreate, AsyncInv, TypeOK, BoundsKept
<1> HIDE DEF r
<1>4. run' = [run EXCEPT ![t] = r]
  BY <1>1 DEF r
<1> QED
  BY <1>2, <1>3, <1>4, RunStep, ThreadsWork

\* Reading the operation: its copy has an attempt left when it is to begin one.
LEMMA LoadOperationStep ==
    ASSUME AsyncInv, NEW w \in Workers, LoadOperation(w)
    PROVE  AsyncInv'
<1>1. operation # None /\ operation \in Operation /\ StoredOK(operation, proposals)
  BY DEF AsyncInv, LoadOperation, RunOK, StoredOK
<1> DEFINE next == IF HasExhaustedAttempts(operation) THEN "exhausted"
                                                      ELSE "starting"
           copy == CopyOf(operation)
           r == IF operation.status \in ASYNC_TERMINAL_STATUSES THEN At("up")
                ELSE [At(next) EXCEPT !.copy = copy]
<1>2. /\ copy \in Copy /\ copy # None /\ CopyOK(copy, operation)
      /\ copy.attempt_count = operation.attempt_count
  BY <1>1, AsyncAssumption DEF CopyOf, Copy, Operation, CopyOK, StoredOK
<1>3. run' = [run EXCEPT ![w] = r]
  BY DEF LoadOperation
<1>4. next = "starting" => copy.attempt_count < max_attempts
  BY <1>1, <1>2, AsyncAssumption DEF HasExhaustedAttempts, Operation
<1>5. next \in {"exhausted", "starting"}
  OBVIOUS
<1> HIDE DEF next, copy
<1>6. r \in Run
  BY <1>2, <1>5 DEF At, Run, Phases
<1>7. RunOK(r, operation, proposals)
  BY <1>2, <1>4, <1>5 DEF At, RunOK, Executing
<1>8. UNCHANGED <<createVars, operation, control>> /\ BoundsKept
  BY DEF LoadOperation, AsyncInv, TypeOK, BoundsKept
<1> HIDE DEF r
<1> QED
  BY <1>3, <1>6, <1>7, <1>8, RunStep

\* A process that dies takes its threads with it.
LEMMA CrashStep ==
    ASSUME AsyncInv, NEW p \in Processes, Crash(p)
    PROVE  AsyncInv'
<1>1. /\ At("down") \in Run /\ RunOK(At("down"), operation, proposals)
      /\ At("up") \in Run /\ RunOK(At("up"), operation, proposals)
  BY AtOK, CreateAssumption
<1>2. UNCHANGED <<createVars, operation, control>> /\ BoundsKept
  BY AsyncAssumption DEF Crash, AsyncInv, TypeOK, BoundsKept
<1>3. run \in [Workers -> Run]
  BY DEF AsyncInv, TypeOK
<1>4. run' = [w \in Workers |->
                 IF w = p THEN At("down")
                 ELSE IF w \in Threads /\ ProcessOf[w] = p THEN At("up")
                 ELSE run[w]]
  BY DEF Crash
<1>5. \A w \in Workers : run'[w] \in {run[w], At("down"), At("up")}
  BY <1>4
<1>6. run' \in [Workers -> Run]
  BY <1>1, <1>3, <1>4, <1>5
<1>7. \A w \in Workers : run'[w] = run[w] \/ RunOK(run'[w], operation', proposals)
  BY <1>1, <1>2, <1>5
<1>8. SameOperation(operation, operation') /\ StoredOK(operation', proposals)
  BY <1>2 DEF SameOperation, AsyncInv
<1> QED
  BY <1>2, <1>6, <1>7, <1>8, WorkersStep

\* A process that starts loads the operation only when one is stored.
LEMMA StartStep ==
    ASSUME AsyncInv, NEW p \in Processes, Start(p)
    PROVE  AsyncInv'
<1> DEFINE phase == IF operation # None /\ Recoverable(operation)
                      THEN "loading" ELSE "up"
<1>1. At(phase) \in Run /\ RunOK(At(phase), operation, proposals)
  BY AtOK, CreateAssumption
<1>2. /\ run' = [run EXCEPT ![p] = At(phase)]
      /\ UNCHANGED <<createVars, operation, control>> /\ BoundsKept
  BY DEF Start, AsyncInv, TypeOK, BoundsKept
<1> HIDE DEF phase
<1> QED
  BY <1>1, <1>2, RunStep, ThreadsWork

\* A step of w that stores `next` and goes back to a run without a copy.
LEMMA StoreStep ==
    ASSUME AsyncInv, NEW w \in Workers, NEW next \in Operation,
           operation' = next, NEW phase \in {"up", "loading", "down"},
           run' = [run EXCEPT ![w] = At(phase)],
           UNCHANGED <<createVars, control>>, BoundsKept,
           operation # None => next.payload = operation.payload,
           StoredOK(next, proposals)
    PROVE  AsyncInv'
<1>1. next # None
  BY AsyncAssumption
<1>2. SameOperation(operation, operation')
  BY <1>1 DEF SameOperation
<1>3. At(phase) \in Run /\ RunOK(At(phase), operation', proposals)
  BY <1>1 DEF At, Run, Phases, RunOK, Executing
<1>4. StoredOK(operation', proposals)
  OBVIOUS
<1> QED
  BY <1>2, <1>3, <1>4, WorkerStep

\* A row that is not a success keeps the payload and the counter of its copy.
LEMMA RowOK ==
    ASSUME NEW copy \in Copy, copy.attempt_count <= max_attempts,
           NEW status \in {"PENDING", "RUNNING", "FAILED"},
           NEW lease \in 0 .. LeaseTime \cup {None},
           NEW error \in ErrorCodes \cup {None}, NEW created,
           status = "RUNNING" => copy.attempt_count >= 1
    PROVE  /\ Row(copy, status, lease, None, error) \in Operation
           /\ StoredOK(Row(copy, status, lease, None, error), created)
           /\ Row(copy, status, lease, None, error).payload = copy.payload
<1> DEFINE row == Row(copy, status, lease, None, error)
<1>1. /\ row.status = status /\ row.payload = copy.payload
      /\ row.attempt_count = copy.attempt_count
  BY DEF Row
<1>2. row \in Operation
  BY DEF Row, Copy, Operation, ASYNC_TERMINAL_STATUSES
<1> HIDE DEF row
<1>3. StoredOK(row, created)
  BY <1>1, <1>2 DEF StoredOK
<1> QED
  BY <1>1, <1>2, <1>3 DEF row

\* A failed operation is stored with the counter and the payload of its copy.
LEMMA FailedOK ==
    ASSUME NEW copy \in Copy, NEW code \in ErrorCodes,
           copy.attempt_count <= max_attempts, NEW created
    PROVE  /\ Failed(copy, code) \in Operation
           /\ StoredOK(Failed(copy, code), created)
           /\ Failed(copy, code).payload = copy.payload
BY RowOK DEF Failed

\* What a worker with a copy holds.
LEMMA CopyHeld ==
    ASSUME AsyncInv, NEW w \in Workers, run[w].copy # None
    PROVE  /\ run[w] \in Run /\ run[w].copy \in Copy
           /\ RunOK(run[w], operation, proposals)
           /\ CopyOK(run[w].copy, operation)
BY DEF AsyncInv, TypeOK, Run, RunOK

\* What a worker is about to write is right, and of the same operation.
NextWriteOK(w) ==
    /\ NextWrite(run[w]) \in Operation
    /\ StoredOK(NextWrite(run[w]), proposals)
    /\ operation # None => NextWrite(run[w]).payload = operation.payload

LEMMA ExhaustedWriteOK ==
    ASSUME AsyncInv, NEW w \in Workers, run[w].phase = "exhausted"
    PROVE  NextWriteOK(w)
<1>1. run[w].copy # None
  BY DEF AsyncInv, RunOK
<1>2. run[w].copy \in Copy /\ CopyOK(run[w].copy, operation)
  BY <1>1, CopyHeld
<1>3. NextWrite(run[w]) = Failed(run[w].copy, "ATTEMPTS_EXHAUSTED")
  BY DEF NextWrite
<1>4. "ATTEMPTS_EXHAUSTED" \in ErrorCodes /\ run[w].copy.attempt_count <= max_attempts
  BY <1>2 DEF ErrorCodes, CopyOK
<1> QED
  BY <1>2, <1>3, <1>4, FailedOK DEF NextWriteOK, CopyOK

\* An operation without attempts left fails.
LEMMA FailExhaustedStep ==
    ASSUME AsyncInv, NEW w \in Workers, FailExhausted(w)
    PROVE  AsyncInv'
<1>1. NextWriteOK(w) /\ NextWrite(run[w]) = Failed(run[w].copy, "ATTEMPTS_EXHAUSTED")
  BY ExhaustedWriteOK DEF FailExhausted, NextWrite
<1>2. /\ operation' = NextWrite(run[w])
      /\ run' = [run EXCEPT ![w] = At("up")]
      /\ UNCHANGED <<createVars, control>> /\ BoundsKept
  BY <1>1 DEF FailExhausted, AsyncInv, TypeOK, BoundsKept
<1> QED
  BY <1>1, <1>2, StoreStep DEF NextWriteOK

\* An operation with an attempt left stays within the limit when one begins.
LEMMA BegunOK ==
    ASSUME NEW copy \in Copy, copy.attempt_count < max_attempts
    PROVE  /\ Begun(copy) \in Copy
           /\ Begun(copy).payload = copy.payload
           /\ Begun(copy).attempt_count <= max_attempts
           /\ Begun(copy).attempt_count >= 1
<1>1. copy.attempt_count \in Nat /\ max_attempts \in Nat
  BY AsyncAssumption DEF Copy
<1>2. /\ Begun(copy) \in Copy /\ Begun(copy).payload = copy.payload
      /\ Begun(copy).attempt_count = copy.attempt_count + 1
  BY <1>1 DEF Begun, Copy
<1> QED
  BY <1>1, <1>2

LEMMA StartedWriteOK ==
    ASSUME AsyncInv, NEW w \in Workers, run[w].phase = "starting"
    PROVE  /\ NextWriteOK(w)
           /\ NextWrite(run[w]) = Started(Begun(run[w].copy))
           /\ Begun(run[w].copy) \in Copy
           /\ Begun(run[w].copy).attempt_count >= 1
           /\ Begun(run[w].copy).payload = run[w].copy.payload
           /\ run[w].copy.payload \in Payloads
           /\ CopyOK(Begun(run[w].copy), Started(Begun(run[w].copy)))
<1>1. run[w].copy # None /\ run[w].copy.attempt_count < max_attempts
  BY DEF AsyncInv, RunOK
<1>2. run[w].copy \in Copy /\ CopyOK(run[w].copy, operation)
  BY <1>1, CopyHeld
<1> DEFINE copy == Begun(run[w].copy)
<1>3. /\ copy \in Copy /\ copy.payload = run[w].copy.payload
      /\ copy.attempt_count <= max_attempts /\ copy.attempt_count >= 1
  BY <1>1, <1>2, BegunOK
<1>4. NextWrite(run[w]) = Started(copy)
  BY DEF NextWrite
<1> HIDE DEF copy
<1>5. LeaseTime \in 0 .. LeaseTime \cup {None}
  BY AsyncAssumption
<1>6. /\ Started(copy) \in Operation /\ StoredOK(Started(copy), proposals)
      /\ Started(copy).payload = copy.payload
  BY <1>3, <1>5, RowOK DEF Started
<1>7. CopyOK(copy, Started(copy))
  BY <1>3, <1>6, AsyncAssumption DEF CopyOK
<1>8. operation # None => Started(copy).payload = operation.payload
  BY <1>2, <1>3, <1>6 DEF CopyOK
<1>9. run[w].copy.payload \in Payloads
  BY <1>2 DEF Copy
<1> QED
  BY <1>3, <1>4, <1>6, <1>7, <1>8, <1>9 DEF copy, NextWriteOK

\* Beginning an attempt counts it, and one was left.
LEMMA BeginAttemptStep ==
    ASSUME AsyncInv, NEW w \in Workers, BeginAttempt(w)
    PROVE  AsyncInv'
<1> DEFINE copy == Begun(run[w].copy)
           next == Started(copy)
           r == [run[w] EXCEPT !.phase = "executing", !.copy = copy,
                               !.payload = copy.payload]
<1>1. run[w].phase = "starting" /\ run[w] \in Run
  BY DEF BeginAttempt, AsyncInv, TypeOK
<1>2. /\ next \in Operation /\ StoredOK(next, proposals)
      /\ operation # None => next.payload = operation.payload
      /\ copy \in Copy /\ copy.attempt_count >= 1
      /\ copy.payload \in Payloads /\ CopyOK(copy, next)
  BY <1>1, StartedWriteOK DEF NextWriteOK
<1>3. run' = [run EXCEPT ![w] = r] /\ operation' = next
  BY <1>1 DEF BeginAttempt, AsyncInv, TypeOK, Run
<1> HIDE DEF copy, next
<1>4. r \in Run
  BY <1>1, <1>2 DEF Run, Phases
<1>5. r.phase = "executing" /\ r.copy = copy /\ r.payload = copy.payload
  BY <1>1 DEF Run
<1> HIDE DEF r
<1>6. RunOK(r, next, proposals)
  BY <1>2, <1>5 DEF RunOK, Executing
<1>7. SameOperation(operation, operation')
  BY <1>2, <1>3, AsyncAssumption DEF SameOperation
<1>8. UNCHANGED <<createVars, control>> /\ BoundsKept
  BY DEF BeginAttempt, AsyncInv, TypeOK, BoundsKept
<1> QED
  BY <1>2, <1>3, <1>4, <1>6, <1>7, <1>8, WorkerStep

\* A run that goes on to store an outcome
Finished(r, outcome, result) ==
    [r EXCEPT !.phase = "finished", !.outcome = outcome, !.result = result]

\* A run that ends keeps its copy, and its result names a proposal of its payload.
LEMMA FinishedOK ==
    ASSUME NEW r \in Run, NEW stored, NEW created,
           RunOK(r, stored, created), r.phase \in {"executing", "creating"},
           r.copy # None, NEW outcome \in Outcomes,
           NEW result \in Nat \cup {None},
           outcome = "SUCCEEDED" => ResultOK(result, r.payload, created)
    PROVE  /\ Finished(r, outcome, result) \in Run
           /\ RunOK(Finished(r, outcome, result), stored, created)
<1> DEFINE f == Finished(r, outcome, result)
<1>1. /\ f.phase = "finished" /\ f.copy = r.copy /\ f.payload = r.payload
      /\ f.outcome = outcome /\ f.result = result
  BY DEF Run, Finished
<1>2. f \in Run
  BY DEF Run, Phases, Finished
<1> HIDE DEF f
<1>3. RunOK(f, stored, created)
  BY <1>1, <1>2 DEF RunOK, Executing
<1> QED
  BY <1>2, <1>3 DEF f

\* The same for both kinds of callers.
LEMMA FinishOK ==
    ASSUME AsyncInv, NEW w \in Workers,
           run[w].phase \in {"executing", "creating"},
           NEW outcome \in Outcomes, NEW result \in Nat \cup {None},
           NEW created, DOMAIN proposals \subseteq DOMAIN created,
           \A i \in DOMAIN proposals : created[i] = proposals[i],
           outcome = "SUCCEEDED" => ResultOK(result, run[w].payload, created),
           Finish(w, outcome, result)
    PROVE  \E r \in Run : /\ run' = [run EXCEPT ![w] = r]
                          /\ RunOK(r, operation, created)
<1>1. run[w] \in Run /\ RunOK(run[w], operation, created)
  BY RunStays DEF AsyncInv, TypeOK, SameOperation
<1>2. CASE run[w].copy = None
  <2>1. At("up") \in Run /\ RunOK(At("up"), operation, created)
    BY DEF At, Run, Phases, RunOK, Executing
  <2> QED
    BY <1>2, <2>1 DEF Finish
<1>3. CASE run[w].copy # None
  <2> DEFINE f == Finished(run[w], outcome, result)
  <2>1. f \in Run /\ RunOK(f, operation, created)
    BY <1>1, <1>3, FinishedOK
  <2>2. run' = [run EXCEPT ![w] = f]
    BY <1>3 DEF Finish, Finished
  <2> HIDE DEF f
  <2> QED
    BY <2>1, <2>2
<1> QED
  BY <1>2, <1>3

\* Who ends without creating anything holds something right afterwards.
LEMMA FinishWithoutCreation ==
    ASSUME AsyncInv, NEW w \in Workers,
           run[w].phase \in {"executing", "creating"},
           NEW outcome \in Outcomes, NEW result \in Nat \cup {None},
           outcome = "SUCCEEDED" =>
              ResultOK(result, run[w].payload, proposals),
           Finish(w, outcome, result)
    PROVE  \E r \in Run : /\ run' = [run EXCEPT ![w] = r]
                          /\ RunOK(r, operation, proposals)
<1>1. /\ DOMAIN proposals \subseteq DOMAIN proposals
      /\ \A i \in DOMAIN proposals : proposals[i] = proposals[i]
  OBVIOUS
<1> QED
  BY <1>1, FinishOK

\* An error carries no result.
LEMMA FinishWithError ==
    ASSUME AsyncInv, NEW w \in Workers,
           run[w].phase \in {"executing", "creating"},
           NEW outcome \in Outcomes \ {"SUCCEEDED"}, Finish(w, outcome, None)
    PROVE  \E r \in Run : /\ run' = [run EXCEPT ![w] = r]
                          /\ RunOK(r, operation, proposals)
<1>1. /\ outcome \in Outcomes /\ outcome # "SUCCEEDED"
      /\ None \in Nat \cup {None}
  OBVIOUS
<1> QED
  BY <1>1, FinishWithoutCreation

\* Looking the key up: a replay answers with the proposal of the same payload,
\* and who finds it free goes on to create.
LEMMA LookUpKeyStep ==
    ASSUME AsyncInv, NEW w \in Workers, LookUpKey(w)
    PROVE  AsyncInv'
<1>1. /\ UNCHANGED <<createVars, operation, control>>
      /\ BoundsKept
      /\ run[w].phase = "executing" /\ run[w] \in Run
      /\ RunOK(run[w], operation, proposals)
  BY DEF LookUpKey, AsyncInv, TypeOK, BoundsKept
<1>2. CASE Replays(run[w].payload) /\ Finish(w, "SUCCEEDED", idempotency.proposal_id)
  <2>1. ResultOK(idempotency.proposal_id, run[w].payload, proposals)
    BY <1>2 DEF Replays, AsyncInv, KeyRowOK
  <2>2. idempotency.proposal_id \in Nat /\ "SUCCEEDED" \in Outcomes
    BY <2>1 DEF ResultOK, AsyncInv, TypeOK, Outcomes
  <2>3. \E r \in Run : /\ run' = [run EXCEPT ![w] = r]
                       /\ RunOK(r, operation, proposals)
    BY <1>1, <1>2, <2>1, <2>2, FinishWithoutCreation
  <2> QED
    BY <1>1, <2>3, RunStep
<1>3. CASE KeyConflicts(run[w].payload) /\ Finish(w, "LIFECYCLE_ERROR", None)
  <2>1. "LIFECYCLE_ERROR" \in Outcomes \ {"SUCCEEDED"}
    BY DEF Outcomes
  <2>2. \E r \in Run : /\ run' = [run EXCEPT ![w] = r]
                       /\ RunOK(r, operation, proposals)
    BY <1>1, <1>3, <2>1, FinishWithError
  <2> QED
    BY <1>1, <2>2, RunStep
<1>4. CASE /\ KeyIsFree(run[w].payload)
           /\ run' = [run EXCEPT ![w].phase = "creating"]
  <2> DEFINE r == [run[w] EXCEPT !.phase = "creating"]
  <2>1. r \in Run
    BY <1>1 DEF Run, Phases
  <2>2. RunOK(r, operation, proposals)
    BY <1>1 DEF Run, RunOK, Executing
  <2>3. run' = [run EXCEPT ![w] = r]
    BY <1>4
  <2> HIDE DEF r
  <2> QED
    BY <1>1, <2>1, <2>2, <2>3, RunStep
<1> QED
  BY <1>2, <1>3, <1>4 DEF LookUpKey

\* An error before the transaction carries no result.
LEMMA RaiseErrorStep ==
    ASSUME AsyncInv, NEW w \in Workers, RaiseError(w)
    PROVE  AsyncInv'
<1>1. /\ UNCHANGED <<createVars, operation, control>>
      /\ BoundsKept
      /\ run[w].phase \in {"executing", "creating"}
  BY DEF RaiseError, AsyncInv, TypeOK, BoundsKept
<1>2. PICK outcome \in {"LIFECYCLE_ERROR", "RUNTIME_ERROR"} :
         Finish(w, outcome, None)
  BY DEF RaiseError
<1>3. outcome \in Outcomes \ {"SUCCEEDED"}
  BY DEF Outcomes
<1>4. \E r \in Run : /\ run' = [run EXCEPT ![w] = r]
                     /\ RunOK(r, operation, proposals)
  BY <1>1, <1>2, <1>3, FinishWithError
<1> QED
  BY <1>1, <1>4, RunStep

\* The creating transaction: the new proposal is of the payload of its worker,
\* which stops creating, and everything else in the system stays right.
LEMMA CommitCreateStep ==
    ASSUME AsyncInv, NEW w \in Workers, CommitCreate(w)
    PROVE  AsyncInv'
<1> DEFINE payload == run[w].payload
           n == Len(proposals) + 1
<1>1. /\ run \in [Workers -> Run] /\ run[w] \in Run
      /\ run[w].phase = "creating" /\ payload \in Payloads
      /\ proposals \in Seq(Payloads) /\ n \in Nat
  BY DEF CommitCreate, AsyncInv, TypeOK, RunOK, Executing
<1>2. /\ proposals' = Append(proposals, payload)
      /\ idempotency' = [request_hash |-> payload, proposal_id |-> n]
      /\ UNCHANGED <<operation, control, crashes, storeErrors>>
  BY DEF CommitCreate, PersistCreatedProposal
<1>3. /\ proposals' \in Seq(Payloads) /\ Len(proposals') = n
      /\ DOMAIN proposals \subseteq DOMAIN proposals'
      /\ \A i \in DOMAIN proposals : proposals'[i] = proposals[i]
      /\ ResultOK(n, payload, proposals')
  BY <1>1, <1>2 DEF ResultOK
<1>4. PICK r \in Run : /\ run' = [run EXCEPT ![w] = r]
                       /\ RunOK(r, operation, proposals')
  <2>1. CASE Finish(w, "SUCCEEDED", n)
    <3>1. "SUCCEEDED" \in Outcomes
      BY DEF Outcomes
    <3> QED
      BY <1>1, <1>3, <2>1, <3>1, FinishOK
  <2>2. CASE Finish(w, "RUNTIME_ERROR", None)
    <3>1. /\ "RUNTIME_ERROR" \in Outcomes /\ None \in Nat \cup {None}
          /\ run[w].phase \in {"executing", "creating"}
          /\ "RUNTIME_ERROR" = "SUCCEEDED" =>
                ResultOK(None, run[w].payload, proposals')
      BY <1>1 DEF Outcomes
    <3> QED
      BY <1>1, <1>3, <2>2, <3>1, FinishOK
  <2>3. Finish(w, "SUCCEEDED", n) \/ Finish(w, "RUNTIME_ERROR", None)
    BY DEF CommitCreate
  <2> QED
    BY <2>1, <2>2, <2>3, Zenon
<1>5. idempotency' # None /\ idempotency' \in IdempotencyRecord
  BY <1>1, <1>2, CreateAssumption DEF IdempotencyRecord
<1>6. TypeOK'
  <2>1. idempotency'.proposal_id \in DOMAIN proposals'
    BY <1>2, <1>3 DEF ResultOK
  <2>2. run' \in [Workers -> Run]
    BY <1>1, <1>4
  <2> QED
    BY <1>2, <1>3, <1>5, <2>1, <2>2 DEF AsyncInv, TypeOK
<1>7. KeyRowOK'
  BY <1>2, <1>3, <1>5 DEF KeyRowOK
<1>8. StoredOK(operation, proposals)'
  BY <1>2, <1>3 DEF AsyncInv, StoredOK, ResultOK
<1>9. \A v \in Workers : RunOK(run'[v], operation', proposals')
  <2> TAKE v \in Workers
  <2>1. CASE v = w
    BY <2>1, <1>1, <1>2, <1>4
  <2>2. CASE v # w
    <3>1. run'[v] = run[v] /\ RunOK(run[v], operation, proposals)
      BY <2>2, <1>1, <1>4 DEF AsyncInv
    <3>2. SameOperation(operation, operation) /\ operation' = operation
      BY <1>2 DEF SameOperation
    <3> QED
      BY <3>1, <3>2, <1>3, RunStays
  <2> QED
    BY <2>1, <2>2
<1>10. \A o \in Operators :
          control'[o] # None => CopyOK(control'[o], operation')
  BY <1>2 DEF AsyncInv
<1> QED
  BY <1>6, <1>7, <1>8, <1>9, <1>10 DEF AsyncInv

\* What an attempt makes of its copy.
LEMMA AttemptedOK ==
    ASSUME NEW r \in Run, NEW created, r.copy \in Copy,
           r.copy.attempt_count <= max_attempts, r.copy.attempt_count >= 1,
           r.copy.payload = r.payload, r.outcome \in Outcomes,
           r.outcome = "SUCCEEDED" => ResultOK(r.result, r.payload, created)
    PROVE  /\ AttemptedOperation(r) \in Operation
           /\ AttemptedOperation(r).payload = r.copy.payload
           /\ StoredOK(AttemptedOperation(r), created)
<1>1. CASE r.outcome = "SUCCEEDED"
  <2> DEFINE row == Succeeded(r.copy, r.result)
  <2>1. AttemptedOperation(r) = row
    BY <1>1 DEF AttemptedOperation
  <2>2. r.result \in Nat \cup {None}
    BY DEF Run
  <2>3. /\ row \in Operation /\ row.payload = r.copy.payload
        /\ row.attempt_count = r.copy.attempt_count
        /\ row.result = r.result /\ row.status = "SUCCEEDED"
    BY <2>2 DEF Succeeded, Row, Copy, Operation, ASYNC_TERMINAL_STATUSES
  <2> HIDE DEF row
  <2>4. StoredOK(row, created)
    BY <1>1, <2>3 DEF StoredOK
  <2> QED
    BY <2>1, <2>3, <2>4
<1>2. CASE r.outcome = "LIFECYCLE_ERROR"
  <2>1. AttemptedOperation(r) = Failed(r.copy, "LIFECYCLE_ERROR")
    BY <1>2 DEF AttemptedOperation
  <2>2. "LIFECYCLE_ERROR" \in ErrorCodes
    BY DEF ErrorCodes
  <2> QED
    BY <2>1, <2>2, FailedOK
<1>3. CASE r.outcome = "RUNTIME_ERROR"
  <2>1. AttemptedOperation(r) = RuntimeException(r.copy)
    BY <1>3 DEF AttemptedOperation
  <2>2. "RUNTIME_ERROR" \in ErrorCodes
    BY DEF ErrorCodes
  <2>3. CASE r.copy.attempt_count < max_attempts
    <3>1. AttemptedOperation(r) = Row(r.copy, "PENDING", None, None, "RUNTIME_ERROR")
      BY <2>1, <2>3 DEF RuntimeException
    <3>2. /\ "PENDING" \in {"PENDING", "RUNNING", "FAILED"}
          /\ None \in 0 .. LeaseTime \cup {None}
          /\ "RUNTIME_ERROR" \in ErrorCodes \cup {None}
          /\ "PENDING" = "RUNNING" => r.copy.attempt_count >= 1
      BY <2>2
    <3>3. /\ Row(r.copy, "PENDING", None, None, "RUNTIME_ERROR") \in Operation
          /\ StoredOK(Row(r.copy, "PENDING", None, None, "RUNTIME_ERROR"), created)
          /\ Row(r.copy, "PENDING", None, None, "RUNTIME_ERROR").payload
                = r.copy.payload
      BY <3>2, RowOK
    <3> QED
      BY <3>1, <3>3
  <2>4. CASE ~(r.copy.attempt_count < max_attempts)
    <3>1. AttemptedOperation(r) = Failed(r.copy, "RUNTIME_ERROR")
      BY <2>1, <2>4 DEF RuntimeException
    <3> QED
      BY <2>2, <3>1, FailedOK
  <2> QED
    BY <2>3, <2>4
<1> QED
  BY <1>1, <1>2, <1>3 DEF Outcomes

LEMMA OutcomeWriteOK ==
    ASSUME AsyncInv, NEW w \in Workers, run[w].phase = "finished"
    PROVE  NextWriteOK(w) /\ NextWrite(run[w]) = AttemptedOperation(run[w])
<1>1. run[w].copy # None
  BY DEF AsyncInv, RunOK
<1>2. /\ run[w] \in Run /\ run[w].copy \in Copy
      /\ RunOK(run[w], operation, proposals) /\ CopyOK(run[w].copy, operation)
  BY <1>1, CopyHeld
<1>3. /\ run[w].copy.attempt_count >= 1 /\ run[w].copy.payload = run[w].payload
      /\ run[w].copy.attempt_count <= max_attempts
      /\ run[w].outcome \in Outcomes
      /\ run[w].outcome = "SUCCEEDED" =>
            ResultOK(run[w].result, run[w].payload, proposals)
  BY <1>1, <1>2 DEF RunOK, Executing, CopyOK
<1>4. /\ AttemptedOperation(run[w]) \in Operation
      /\ AttemptedOperation(run[w]).payload = run[w].copy.payload
      /\ StoredOK(AttemptedOperation(run[w]), proposals)
  BY <1>2, <1>3, AttemptedOK
<1>5. NextWrite(run[w]) = AttemptedOperation(run[w])
  BY DEF NextWrite
<1> QED
  BY <1>2, <1>4, <1>5 DEF NextWriteOK, CopyOK

\* Storing the outcome of an attempt.
LEMMA StoreOutcomeStep ==
    ASSUME AsyncInv, NEW w \in Workers, StoreOutcome(w)
    PROVE  AsyncInv'
<1> DEFINE next == AttemptedOperation(run[w])
           phase == IF next.status = "PENDING" THEN "loading" ELSE "up"
<1>1. /\ operation' = next /\ run' = [run EXCEPT ![w] = At(phase)]
      /\ UNCHANGED <<createVars, control>> /\ BoundsKept
  BY DEF StoreOutcome, AsyncInv, TypeOK, BoundsKept
<1>2. /\ next \in Operation /\ StoredOK(next, proposals)
      /\ operation # None => next.payload = operation.payload
  BY OutcomeWriteOK DEF StoreOutcome, NextWriteOK
<1>3. phase \in {"up", "loading", "down"}
  OBVIOUS
<1> HIDE DEF next, phase
<1> QED
  BY <1>1, <1>2, <1>3, StoreStep

\* A call to the store that fails: what it wrote, if it did, is what the run
\* would have written, and the run is over.
LEMMA StoreErrorStep ==
    ASSUME AsyncInv, NEW w \in Workers, StoreError(w)
    PROVE  AsyncInv'
<1> DEFINE phase == IF w \in Processes THEN "down" ELSE "up"
<1>1. /\ run' = [run EXCEPT ![w] = At(phase)]
      /\ UNCHANGED <<createVars, control>> /\ BoundsKept
      /\ operation' \in {operation, NextWrite(run[w])}
      /\ run[w].phase \in {"loading", "exhausted", "starting", "finished"}
  BY AsyncAssumption DEF StoreError, AsyncInv, TypeOK, BoundsKept
<1>2. phase \in {"up", "loading", "down"} /\ phase # "loading"
  OBVIOUS
<1> HIDE DEF phase
<1>3. CASE operation' = operation
  <2>1. At(phase) \in Run /\ RunOK(At(phase), operation, proposals)
    BY <1>2, AtOK, CreateAssumption
  <2> QED
    BY <1>1, <1>3, <2>1, RunStep
<1>4. CASE operation' = NextWrite(run[w]) /\ operation' # operation
  <2>1. run[w].phase # "loading"
    BY <1>4 DEF NextWrite
  <2>2. NextWriteOK(w)
    BY <1>1, <2>1, ExhaustedWriteOK, StartedWriteOK, OutcomeWriteOK
  <2> QED
    BY <1>1, <1>2, <1>4, <2>2, StoreStep DEF NextWriteOK
<1> QED
  BY <1>1, <1>3, <1>4

-----------------------------------------------------------------------------
\* Time and operators.

\* A step that leaves the workers and the proposals alone keeps the invariant
\* if what is stored and what the operators hold afterwards is right.
LEMMA ControlStep ==
    ASSUME AsyncInv, UNCHANGED <<createVars, run, crashes, storeErrors>>,
           SameOperation(operation, operation'),
           StoredOK(operation', proposals),
           control' \in [Operators -> Copy \cup {None}],
           \A o \in Operators : control'[o] # None =>
               CopyOK(control'[o], operation')
    PROVE  AsyncInv'
<1>1. /\ proposals' = proposals /\ idempotency' = idempotency /\ run' = run
      /\ crashes' = crashes /\ storeErrors' = storeErrors
  BY DEF createVars
<1>2. TypeOK'
  BY <1>1 DEF AsyncInv, TypeOK, StoredOK
<1>3. StoredOK(operation, proposals)'
  BY <1>1
<1>4. \A w \in Workers : RunOK(run'[w], operation', proposals')
  BY <1>1, RunStays DEF AsyncInv
<1>5. KeyRowOK'
  BY <1>1 DEF AsyncInv, KeyRowOK
<1> QED
  BY <1>2, <1>3, <1>4, <1>5 DEF AsyncInv

\* A lease that runs down.
LEMMA TickStep ==
    ASSUME AsyncInv, Tick
    PROVE  AsyncInv'
<1> DEFINE next == [operation EXCEPT !.lease_expires_in = @ - 1]
<1>1. /\ operation # None /\ operation \in Operation
      /\ StoredOK(operation, proposals)
      /\ operation.lease_expires_in \in 1 .. LeaseTime
  BY AsyncAssumption DEF Tick, AsyncInv, StoredOK, Operation
<1>2. next \in Operation
  BY <1>1, AsyncAssumption DEF Operation
<1>3. /\ next.payload = operation.payload /\ next.status = operation.status
      /\ next.attempt_count = operation.attempt_count
      /\ next.result = operation.result
  BY <1>1 DEF Operation
<1>4. next # None /\ StoredOK(next, proposals)
  BY <1>1, <1>2, <1>3, AsyncAssumption DEF StoredOK
<1>5. operation' = next /\ UNCHANGED <<createVars, run, control, crashes, storeErrors>>
  BY DEF Tick
<1> HIDE DEF next
<1>6. SameOperation(operation, operation')
  BY <1>3, <1>4, <1>5 DEF SameOperation
<1>7. /\ control' \in [Operators -> Copy \cup {None}]
      /\ \A o \in Operators : control'[o] # None =>
            CopyOK(control'[o], operation')
  BY <1>5, <1>6, CopyStays DEF AsyncInv, TypeOK
<1> QED
  BY <1>4, <1>5, <1>6, <1>7, ControlStep

\* An operator reads and decides.
LEMMA EvaluateStep ==
    ASSUME AsyncInv, NEW o \in Operators, EvaluateQuarantine(o)
    PROVE  AsyncInv'
<1>1. /\ operation' = operation /\ control' = [control EXCEPT ![o] = CopyOf(operation)]
      /\ operation # None /\ UNCHANGED <<createVars, run, crashes, storeErrors>>
  BY DEF EvaluateQuarantine
<1>2. StoredOK(operation, proposals) /\ operation \in Operation
  BY <1>1 DEF AsyncInv, StoredOK
<1>3. CopyOf(operation) \in Copy /\ CopyOK(CopyOf(operation), operation)
  BY <1>1, <1>2 DEF CopyOf, Copy, Operation, CopyOK, StoredOK
<1>4. /\ control \in [Operators -> Copy \cup {None}]
      /\ \A other \in Operators : control[other] # None =>
            CopyOK(control[other], operation)
  BY DEF AsyncInv, TypeOK
<1>5. /\ control' \in [Operators -> Copy \cup {None}]
      /\ \A other \in Operators : control'[other] # None =>
            CopyOK(control'[other], operation')
  BY <1>1, <1>3, <1>4
<1> QED
  BY <1>1, <1>2, <1>5, ControlStep DEF SameOperation

\* A quarantine stores the operator's copy as failed.
LEMMA QuarantineStep ==
    ASSUME AsyncInv, NEW o \in Operators, Quarantine(o)
    PROVE  AsyncInv'
<1> DEFINE next == Failed(control[o], "QUARANTINED")
<1>1. control[o] \in Copy /\ CopyOK(control[o], operation)
  BY DEF Quarantine, AsyncInv, TypeOK
<1>2. /\ next \in Operation /\ StoredOK(next, proposals)
      /\ next.payload = operation.payload
  BY <1>1, FailedOK DEF ErrorCodes, CopyOK
<1>3. /\ operation' = next /\ control' = [control EXCEPT ![o] = None]
      /\ UNCHANGED <<createVars, run, crashes, storeErrors>>
  BY DEF Quarantine
<1> HIDE DEF next
<1>4. SameOperation(operation, operation')
  BY <1>2, <1>3, AsyncAssumption DEF SameOperation
<1>5. /\ control' \in [Operators -> Copy \cup {None}]
      /\ \A other \in Operators : control'[other] # None =>
            /\ CopyOK(control[other], operation)
            /\ control'[other] = control[other]
  BY <1>3 DEF AsyncInv, TypeOK
<1>6. \A other \in Operators : control'[other] # None =>
         CopyOK(control'[other], operation')
  BY <1>4, <1>5, CopyStays
<1> QED
  BY <1>2, <1>3, <1>4, <1>5, <1>6, ControlStep

-----------------------------------------------------------------------------
\* The theorems.

\* The invariant holds in every state, whatever runs, crashes and is restarted.
THEOREM AsyncInvariant == Spec => []AsyncInv
<1>1. Init => AsyncInv
  <2> SUFFICES ASSUME Init PROVE AsyncInv
    OBVIOUS
  <2>1. run = [w \in Workers |-> At(IF w \in Processes THEN "down" ELSE "up")]
    BY DEF Init
  <2>2. run \in [Workers -> Run]
    BY <2>1, AtOK, CreateAssumption DEF At, Run, Phases
  <2>3. \A w \in Workers : RunOK(run[w], operation, proposals)
    BY <2>1 DEF At, RunOK, Executing
  <2>4. TypeOK /\ KeyRowOK
    BY <2>2, AsyncAssumption DEF Init, CreateInit, TypeOK, KeyRowOK
  <2>5. StoredOK(operation, proposals)
    BY DEF Init, StoredOK
  <2>6. \A o \in Operators : control[o] # None => CopyOK(control[o], operation)
    BY DEF Init
  <2> QED
    BY <2>3, <2>4, <2>5, <2>6 DEF AsyncInv
<1>2. AsyncInv /\ [Next]_vars => AsyncInv'
  <2> SUFFICES ASSUME AsyncInv, [Next]_vars PROVE AsyncInv'
    OBVIOUS
  <2>1. ASSUME NEW t \in Threads, Submit(t) \/ SubmitUnanswered(t) PROVE AsyncInv'
    BY <2>1, SubmitStep, SubmitUnansweredStep
  <2>2. ASSUME NEW t \in Threads, SyncCreate(t) PROVE AsyncInv'
    BY <2>2, SyncCreateStep
  <2>3. ASSUME NEW w \in Workers, RunnerStep(w) \/ StoreError(w) PROVE AsyncInv'
    BY <2>3, LoadOperationStep, FailExhaustedStep, BeginAttemptStep,
       LookUpKeyStep, RaiseErrorStep, CommitCreateStep, StoreOutcomeStep,
       StoreErrorStep DEF RunnerStep
  <2>4. ASSUME NEW p \in Processes, Crash(p) \/ Start(p) PROVE AsyncInv'
    BY <2>4, CrashStep, StartStep
  <2>5. ASSUME NEW o \in Operators, EvaluateQuarantine(o) \/ Quarantine(o)
        PROVE  AsyncInv'
    BY <2>5, EvaluateStep, QuarantineStep
  <2>6. CASE Tick
    BY <2>6, TickStep
  <2>7. CASE UNCHANGED vars
    BY <2>7 DEF vars, asyncVars, createVars, AsyncInv, TypeOK, KeyRowOK
  <2> QED
    BY <2>1, <2>2, <2>3, <2>4, <2>5, <2>6, <2>7 DEF Next
<1> QED
  BY <1>1, <1>2, PTL DEF Spec

\* Rows, copies and runs have their types, and the key names a proposal.
THEOREM AsyncTypeCorrect == Spec => []TypeOK
<1>1. AsyncInv => TypeOK
  BY DEF AsyncInv
<1> QED
  BY <1>1, AsyncInvariant, PTL

\* No interleaving of runners, recoveries and operators stores an attempt
\* counter above max_attempts, or a running attempt that was not counted.
THEOREM AttemptsCorrect == Spec => []AttemptsBounded
<1>1. AsyncInv => AttemptsBounded
  BY DEF AsyncInv, StoredOK, AttemptsBounded
<1> QED
  BY <1>1, AsyncInvariant, PTL

\* An operation that reports success names a proposal made from its payload.
THEOREM SuccessCorrect == Spec => []SuccessNamesOwnProposal
<1>1. AsyncInv => SuccessNamesOwnProposal
  BY DEF AsyncInv, StoredOK, ResultOK, SuccessNamesOwnProposal
<1> QED
  BY <1>1, AsyncInvariant, PTL

-----------------------------------------------------------------------------
\* When a key creates one proposal.

\* Workers that found the key free take their creation one after the other.
CreationsApart ==
    \A v, w \in Workers :
        run[v].phase = "creating" /\ run[w].phase = "creating" => v = w

\* Whoever found the key free creates the first proposal.
FirstCreation ==
    /\ Len(proposals) <= 1
    /\ \A w \in Workers : run[w].phase = "creating" => proposals = <<>>

\* A worker is left alone, takes a step of its run, or has none afterwards that
\* is past its beginning.
LEMMA OwnStep ==
    ASSUME AsyncInv, [Next]_vars, NEW v \in Workers
    PROVE  \/ run'[v] = run[v]
           \/ RunnerStep(v)
           \/ run'[v].phase \in {"down", "up", "loading", "executing"}
<1>1. run \in [Workers -> Run]
  BY DEF AsyncInv, TypeOK
<1>2. \A phase : At(phase).phase = phase
  BY DEF At
<1>3. ASSUME NEW t \in Threads, Submit(t) \/ SubmitUnanswered(t)
      PROVE  run'[v] = run[v] \/ run'[v].phase = "loading"
  <2>1. run' = run \/ run' = [run EXCEPT ![t] = At("loading")]
    BY <1>3 DEF Submit, SubmitUnanswered
  <2> QED
    BY <2>1, <1>1, <1>2
<1>4. ASSUME NEW t \in Threads, SyncCreate(t)
      PROVE  run'[v] = run[v] \/ run'[v].phase = "executing"
  <2>1. PICK payload \in Payloads :
           run' = [run EXCEPT ![t] = [At("executing") EXCEPT !.payload = payload]]
    BY <1>4 DEF SyncCreate
  <2>2. [At("executing") EXCEPT !.payload = payload].phase = "executing"
    BY DEF At
  <2> QED
    BY <2>1, <2>2, <1>1
<1>5. ASSUME NEW w \in Workers, StoreError(w)
      PROVE  run'[v] = run[v] \/ run'[v].phase \in {"down", "up"}
  <2>1. run' = [run EXCEPT ![w] = At(IF w \in Processes THEN "down" ELSE "up")]
    BY <1>5 DEF StoreError
  <2> QED
    BY <2>1, <1>1, <1>2
<1>6. ASSUME NEW p \in Processes, Crash(p)
      PROVE  run'[v] = run[v] \/ run'[v].phase \in {"down", "up"}
  <2>1. run'[v] \in {run[v], At("down"), At("up")}
    BY <1>6 DEF Crash
  <2> QED
    BY <2>1, <1>2
<1>7. ASSUME NEW p \in Processes, Start(p)
      PROVE  run'[v] = run[v] \/ run'[v].phase \in {"up", "loading"}
  <2>1. \/ run' = [run EXCEPT ![p] = At("loading")]
        \/ run' = [run EXCEPT ![p] = At("up")]
    BY <1>7 DEF Start
  <2> QED
    BY <2>1, <1>1, <1>2
<1>8. ASSUME NEW w \in Workers, RunnerStep(w), w # v
      PROVE  run'[v] = run[v]
  <2>1. ASSUME NEW outcome, NEW result, Finish(w, outcome, result)
        PROVE  run'[v] = run[v]
    BY <1>1, <1>8, <2>1 DEF Finish
  <2>2. CASE LookUpKey(w) \/ RaiseError(w) \/ CommitCreate(w)
    BY <1>1, <1>8, <2>1, <2>2 DEF LookUpKey, RaiseError, CommitCreate
  <2>3. CASE LoadOperation(w) \/ FailExhausted(w) \/ BeginAttempt(w)
             \/ StoreOutcome(w)
    BY <1>1, <1>8, <2>3 DEF LoadOperation, FailExhausted, BeginAttempt,
                            StoreOutcome
  <2> QED
    BY <1>8, <2>2, <2>3 DEF RunnerStep
<1>9. CASE \/ Tick \/ UNCHANGED vars
           \/ \E o \in Operators : EvaluateQuarantine(o) \/ Quarantine(o)
  BY <1>9 DEF Tick, EvaluateQuarantine, Quarantine, vars, asyncVars
<1> QED
  BY <1>3, <1>4, <1>5, <1>6, <1>7, <1>8, <1>9 DEF Next

\* What a worker creates or is about to create it looked up before.
LEMMA CreatingBefore ==
    ASSUME AsyncInv, [Next]_vars, NEW v \in Workers,
           run'[v].phase = "creating"
    PROVE  \/ run[v].phase = "creating" /\ ~CommitCreate(v)
           \/ idempotency = None /\ UNCHANGED createVars
<1>1. run \in [Workers -> Run] /\ run[v] \in Run
  BY DEF AsyncInv, TypeOK
<1>2. CASE run'[v] = run[v] /\ ~CommitCreate(v)
  BY <1>2
<1>3. ASSUME NEW outcome, NEW result, Finish(v, outcome, result)
      PROVE  FALSE
  <2>1. run'[v].phase \in {"up", "finished"}
    BY <1>1, <1>3 DEF Finish, At, Run
  <2> QED
    BY <2>1
<1>4. CASE CommitCreate(v) \/ RaiseError(v)
  BY <1>3, <1>4 DEF CommitCreate, RaiseError
<1>5. CASE LookUpKey(v)
  BY <1>3, <1>5 DEF LookUpKey, KeyIsFree
<1>6. CASE LoadOperation(v)
  BY <1>1, <1>6 DEF LoadOperation, At
<1>7. CASE FailExhausted(v) \/ BeginAttempt(v) \/ StoreOutcome(v)
  BY <1>1, <1>7 DEF FailExhausted, BeginAttempt, StoreOutcome, At, Run
<1> QED
  BY <1>2, <1>4, <1>5, <1>6, <1>7, OwnStep DEF RunnerStep

\* Only a commit creates a proposal.
LEMMA OnlyCommitsCreate ==
    ASSUME [Next]_vars, \A w \in Workers : ~CommitCreate(w)
    PROVE  UNCHANGED createVars
<1>1. ASSUME NEW t \in Threads, Submit(t) \/ SubmitUnanswered(t) \/ SyncCreate(t)
      PROVE  UNCHANGED createVars
  BY <1>1 DEF Submit, SubmitUnanswered, SyncCreate
<1>2. ASSUME NEW w \in Workers, RunnerStep(w) \/ StoreError(w)
      PROVE  UNCHANGED createVars
  BY <1>2 DEF RunnerStep, StoreError, LoadOperation, FailExhausted,
              BeginAttempt, LookUpKey, RaiseError, StoreOutcome
<1>3. ASSUME NEW p \in Processes, Crash(p) \/ Start(p)
      PROVE  UNCHANGED createVars
  BY <1>3 DEF Crash, Start
<1>4. CASE \/ Tick \/ UNCHANGED vars
           \/ \E o \in Operators : EvaluateQuarantine(o) \/ Quarantine(o)
  BY <1>4 DEF Tick, EvaluateQuarantine, Quarantine, vars
<1> QED
  BY <1>1, <1>2, <1>3, <1>4 DEF Next

\* FirstCreation is kept as long as no two workers are creating at once.
LEMMA FirstCreationStep ==
    ASSUME AsyncInv, CreationsApart, FirstCreation, [Next]_vars
    PROVE  FirstCreation'
<1>1. CASE \A w \in Workers : ~CommitCreate(w)
  <2>1. proposals' = proposals
    BY <1>1, OnlyCommitsCreate DEF createVars
  <2>2. ASSUME NEW v \in Workers, run'[v].phase = "creating"
        PROVE  proposals' = <<>>
    BY <2>1, <2>2, CreatingBefore DEF FirstCreation, AsyncInv, KeyRowOK
  <2> QED
    BY <2>1, <2>2 DEF FirstCreation
<1>2. ASSUME NEW w \in Workers, CommitCreate(w)
      PROVE  FirstCreation'
  <2>1. /\ run[w].phase = "creating"
        /\ proposals' = Append(proposals, run[w].payload)
    BY <1>2 DEF CommitCreate, PersistCreatedProposal
  <2>2. proposals = <<>>
    BY <2>1 DEF FirstCreation
  <2>3. Len(proposals') = 1
    BY <2>1, <2>2
  <2>4. proposals' # proposals
    BY <2>2, <2>3
  <2>5. ASSUME NEW v \in Workers
        PROVE  run'[v].phase # "creating"
    <3>1. SUFFICES ASSUME run'[v].phase = "creating" PROVE FALSE
      OBVIOUS
    <3>2. run[v].phase = "creating" /\ ~CommitCreate(v)
      BY <2>4, <3>1, CreatingBefore DEF createVars
    <3> QED
      BY <1>2, <2>1, <3>2 DEF CreationsApart
  <2> QED
    BY <2>3, <2>5 DEF FirstCreation
<1> QED
  BY <1>1, <1>2

\* One key creates a second proposal only if two workers, of one process or of
\* two, have found it free at the same time: neither the retries of an operation,
\* nor its recovery after a crash or an error of the store, nor a repeated request
\* creates one alone.
THEOREM OneProposalUnlessRace == Spec /\ []CreationsApart => []CreatedOnce
<1>1. Init => FirstCreation
  <2> SUFFICES ASSUME Init PROVE FirstCreation
    OBVIOUS
  <2>1. proposals = <<>>
    BY DEF Init, CreateInit
  <2> QED
    BY <2>1 DEF FirstCreation
<1>2. AsyncInv /\ FirstCreation => CreatedOnce
  <2> SUFFICES ASSUME AsyncInv, FirstCreation,
                      NEW i \in DOMAIN proposals, NEW j \in DOMAIN proposals
               PROVE  i = j
    BY DEF CreatedOnce
  <2>1. DOMAIN proposals = 1 .. Len(proposals) /\ Len(proposals) \in Nat
    BY DEF AsyncInv, TypeOK
  <2> QED
    BY <2>1 DEF FirstCreation
<1> QED
  BY <1>1, <1>2, FirstCreationStep, AsyncInvariant, PTL DEF Spec

=============================================================================
