------------------------ MODULE DocumentReviewProofs ------------------------
(***************************************************************************)
(* Theorems of the two documents of a proposal that people review.         *)
(*                                                                         *)
(* Of ProposalMemos, for every set of workers, versions, keys and          *)
(* requests, and every number of requests.                                 *)
(*                                                                         *)
(* Of AdvisoryCopilot, for every finite set of workers, every set of       *)
(* packets, requesters, reviewers, keys and reviews, and every number of   *)
(* slots and attempts.                                                     *)
(***************************************************************************)
EXTENDS ProposalMemos, AdvisoryCopilot, FiniteSetTheorems, TLAPS

-----------------------------------------------------------------------------
\* The memo of a proposal

ReservedTypes == {"review", "report", "ai"}

MemoEvent ==
    [type : ReservedTypes \cup {"created"}, request : MemoRequests, at : Nat]

CreationPhases == {"key", "memo", "mapping", "inserting"}

\* Before and after the reservation of a keyed request
UnreservedPhases == {"finding", "reserving"}

ReservedPhases == {"calling", "findingAgain", "reservingAgain", "appending"}

EventPhases == {"check"} \cup UnreservedPhases \cup ReservedPhases

MemoJob ==
    [phase : {"idle"} \cup CreationPhases \cup EventPhases,
     request : MemoRequests \cup {None}, at : Nat]

\* What a worker holds: a request for what it does, of a memo that exists when
\* its key is to be mapped, and reserved once a service may have been called.
MemoJobOK(job, stored, reserved) ==
    LET request == job.request IN
    /\ job \in MemoJob
    /\ job.phase # "idle" => request \in MemoRequests
    /\ job.phase \in CreationPhases => request.op = "create"
    /\ job.phase \in EventPhases => request.op # "create"
    /\ job.phase = "mapping" => request.version \in stored
    /\ job.phase \in UnreservedPhases => request.key # None
    /\ job.phase \in ReservedPhases /\ request.key # None =>
          reserved[ReservationOf(request)] = request

\* The rows have their types.
MemoTablesOK ==
    /\ memos \subseteq MemoVersions
    /\ memoEvents \in Seq(MemoEvent)
    /\ memoKeys \in [MemoKeys -> MemoRequests \cup {None}]
    /\ reservations \in [ReservedTypes \X MemoVersions \X MemoKeys ->
                             MemoRequests \cup {None}]
    /\ memoJob \in [MemoWorkers -> MemoJob]
    /\ memoArrivals \in Nat

\* The places of the creation events of a version
Created(events, version) ==
    {i \in DOMAIN events : /\ events[i].request.version = version
                           /\ events[i].type = "created"}

CreationsOK(stored, events) ==
    \A v \in MemoVersions :
        IF v \in stored THEN \E i : Created(events, v) = {i}
                        ELSE Created(events, v) = {}

MemoKeysOK(keys, stored) ==
    \A k \in MemoKeys : keys[k] # None => keys[k].version \in stored

\* A keyed event has its request in the row that its key reserves.
EventsReserved(events, reserved) ==
    \A i \in DOMAIN events :
        events[i].type # "created" /\ events[i].request.key # None =>
            reserved[<<events[i].type, events[i].request.version,
                       events[i].request.key>>] = events[i].request

MemoReportsOK(reports) ==
    \A r \in reports :
        /\ r = [version |-> r.version, key |-> r.key, id |-> r.id]
        /\ r.key # None => r.id = r.key

\* The inductive invariant.
MemoInv ==
    /\ MemoTablesOK
    /\ \A w \in MemoWorkers : MemoJobOK(memoJob[w], memos, reservations)
    /\ CreationsOK(memos, memoEvents)
    /\ MemoKeysOK(memoKeys, memos)
    /\ EventsReserved(memoEvents, reservations)
    /\ MemoReportsOK(memoReports)

-----------------------------------------------------------------------------
\* Lemmas about single tables.

\* Rows of reservations are added, never changed.
Grows(reserved, next) ==
    \A r \in ReservedTypes \X MemoVersions \X MemoKeys :
        reserved[r] # None => next[r] = reserved[r]

\* The row that a keyed request reserves is one of the table.
LEMMA ReservationIsRow ==
    ASSUME NEW request \in MemoRequests, request.op # "create",
           request.key # None
    PROVE  /\ ReservationOf(request) \in ReservedTypes \X MemoVersions \X MemoKeys
           /\ MemoEventType(request.op) # "created"
BY MemoAssumption DEF MemoAssumption, MemoRequest, MemoOps, ReservationOf,
   MemoEventType, ReservedTypes

\* The type of the event of a request
LEMMA EventTypeOfRequest ==
    ASSUME NEW request \in MemoRequests
    PROVE  /\ MemoEventType(request.op) \in ReservedTypes \cup {"created"}
           /\ MemoEventType(request.op) = "created" <=> request.op = "create"
BY MemoAssumption DEF MemoAssumption, MemoRequest, MemoOps, MemoEventType,
   ReservedTypes

\* What a worker holds stays right while tables grow.
LEMMA MemoJobStays ==
    ASSUME NEW job, NEW stored, NEW stored2, NEW reserved, NEW reserved2,
           MemoJobOK(job, stored, reserved),
           stored \subseteq stored2, Grows(reserved, reserved2)
    PROVE  MemoJobOK(job, stored2, reserved2)
<1>1. ASSUME job.phase \in ReservedPhases, job.request.key # None
      PROVE  reserved2[ReservationOf(job.request)] = job.request
  <2>1. job.request \in MemoRequests /\ job.request.op # "create"
        /\ reserved[ReservationOf(job.request)] = job.request
    BY <1>1 DEF MemoJobOK, EventPhases, ReservedPhases
  <2>2. job.request # None
    BY <2>1, MemoAssumption DEF MemoAssumption
  <2> QED
    BY <1>1, <2>1, <2>2, ReservationIsRow DEF Grows
<1> QED
  BY <1>1 DEF MemoJobOK

\* One worker goes on with a job that is right, the tables may have grown.
LEMMA MemoJobsStep ==
    ASSUME MemoInv, NEW w \in MemoWorkers, NEW job,
           memoJob' = [memoJob EXCEPT ![w] = job],
           memos \subseteq memos', Grows(reservations, reservations'),
           MemoJobOK(job, memos', reservations')
    PROVE  /\ memoJob' \in [MemoWorkers -> MemoJob]
           /\ \A u \in MemoWorkers : MemoJobOK(memoJob'[u], memos', reservations')
<1>1. \A u \in MemoWorkers : memoJob'[u] = IF u = w THEN job ELSE memoJob[u]
  BY DEF MemoInv, MemoTablesOK
<1>2. job \in MemoJob
  BY DEF MemoJobOK
<1>3. memoJob' \in [MemoWorkers -> MemoJob]
  BY <1>2 DEF MemoInv, MemoTablesOK
<1>4. ASSUME NEW u \in MemoWorkers
      PROVE  MemoJobOK(memoJob'[u], memos', reservations')
  <2>1. CASE u = w
    BY <1>1, <2>1
  <2>2. CASE u # w
    <3>1. MemoJobOK(memoJob[u], memos, reservations)
      BY DEF MemoInv
    <3> QED
      BY <1>1, <2>2, <3>1, MemoJobStays
  <2> QED
    BY <2>1, <2>2
<1> QED
  BY <1>3, <1>4

\* A worker that ends holds nothing.
LEMMA IdleMemoJobOK == ASSUME NEW stored, NEW reserved
                       PROVE  MemoJobOK(IdleMemoJob, stored, reserved)
BY DEF MemoJobOK, IdleMemoJob, MemoJob, CreationPhases, EventPhases,
   UnreservedPhases, ReservedPhases

\* A step that leaves the tables alone and gives one worker a job that is right
\* preserves the invariant.
LEMMA MemoJobStep ==
    ASSUME MemoInv, NEW w \in MemoWorkers, NEW job,
           memoJob' = [memoJob EXCEPT ![w] = job],
           UNCHANGED <<memoTables, memoReports>>, memoArrivals' \in Nat,
           MemoJobOK(job, memos, reservations)
    PROVE  MemoInv'
<1>1. /\ memos' = memos /\ memoEvents' = memoEvents /\ memoKeys' = memoKeys
      /\ reservations' = reservations /\ memoReports' = memoReports
  BY DEF memoTables
<1>2. Grows(reservations, reservations') /\ memos \subseteq memos'
  BY <1>1 DEF Grows
<1>3. /\ memoJob' \in [MemoWorkers -> MemoJob]
      /\ \A u \in MemoWorkers : MemoJobOK(memoJob'[u], memos', reservations')
  BY <1>1, <1>2, MemoJobsStep
<1> QED
  BY <1>1, <1>3 DEF MemoInv, MemoTablesOK

\* The same for a worker that ends.
LEMMA MemoEndStep ==
    ASSUME MemoInv, NEW w \in MemoWorkers, MemoEnds(w),
           UNCHANGED <<memoTables, memoReports, memoArrivals>>
    PROVE  MemoInv'
<1>1. memoArrivals' \in Nat
  BY DEF MemoInv, MemoTablesOK
<1> QED
  BY <1>1, IdleMemoJobOK, MemoJobStep DEF MemoEnds

\* The same for a worker that goes on to another phase.
LEMMA MemoPhaseStep ==
    ASSUME MemoInv, NEW w \in MemoWorkers, NEW phase, MemoPhase(w, phase),
           UNCHANGED <<memoTables, memoReports, memoArrivals>>,
           MemoJobOK([memoJob[w] EXCEPT !.phase = phase], memos, reservations)
    PROVE  MemoInv'
<1>1. memoArrivals' \in Nat
  BY DEF MemoInv, MemoTablesOK
<1>2. memoJob' = [memoJob EXCEPT ![w] = [memoJob[w] EXCEPT !.phase = phase]]
  BY DEF MemoPhase
<1> QED
  BY <1>1, <1>2, MemoJobStep

\* The job of a worker that only changes its phase
LEMMA PhaseFields ==
    ASSUME NEW job \in MemoJob, NEW phase
    PROVE  LET next == [job EXCEPT !.phase = phase]
           IN  /\ next.phase = phase /\ next.request = job.request
               /\ phase \in {"idle"} \cup CreationPhases \cup EventPhases =>
                      next \in MemoJob
BY DEF MemoJob

-----------------------------------------------------------------------------
\* One lemma per group of actions.

LEMMA MemoInitOK == ASSUME MemoInit PROVE MemoInv
<1>1. MemoTablesOK
  BY MemoAssumption DEF MemoInit, MemoTablesOK, IdleMemoJob, MemoJob, ReservedTypes
<1>2. \A w \in MemoWorkers : MemoJobOK(memoJob[w], memos, reservations)
  BY IdleMemoJobOK DEF MemoInit
<1>3. CreationsOK(memos, memoEvents)
  BY DEF MemoInit, CreationsOK, Created
<1> QED
  BY <1>1, <1>2, <1>3 DEF MemoInit, MemoInv, MemoKeysOK, EventsReserved,
     MemoReportsOK

\* A request that comes in
LEMMA ReceiveMemoOK ==
    ASSUME MemoInv, NEW w \in MemoWorkers, ReceiveMemoRequest(w)
    PROVE  MemoInv'
<1>1. PICK request \in MemoRequests :
          memoJob' = [memoJob EXCEPT ![w] =
              [phase |-> IF request.op = "create" THEN "key" ELSE "check",
               request |-> request, at |-> memoArrivals']]
  BY DEF ReceiveMemoRequest
<1>2. memoArrivals' \in Nat
  BY DEF ReceiveMemoRequest, MemoInv, MemoTablesOK
<1> DEFINE job == [phase |-> IF request.op = "create" THEN "key" ELSE "check",
                   request |-> request, at |-> memoArrivals']
<1>3. MemoJobOK(job, memos, reservations)
  BY <1>2 DEF MemoJobOK, MemoJob, CreationPhases, EventPhases, UnreservedPhases,
     ReservedPhases
<1> QED
  BY <1>1, <1>2, <1>3, MemoJobStep DEF ReceiveMemoRequest

\* Reads of a creation
LEMMA CreationReadsOK ==
    ASSUME MemoInv, NEW w \in MemoWorkers,
           \/ AnswerByMemoKey(w) \/ MemoKeyIsFree(w) \/ LookUpMemo(w)
           \/ CreateMemoFails(w)
    PROVE  MemoInv'
<1>1. MemoJobOK(memoJob[w], memos, reservations) /\ memoJob[w] \in MemoJob
  BY DEF MemoInv, MemoTablesOK
<1>2. CASE AnswerByMemoKey(w) \/ CreateMemoFails(w)
  BY <1>2, MemoEndStep DEF AnswerByMemoKey, CreateMemoFails
<1>3. CASE MemoKeyIsFree(w)
  <2>1. MemoJobOK([memoJob[w] EXCEPT !.phase = "memo"], memos, reservations)
    BY <1>1, <1>3, PhaseFields DEF MemoKeyIsFree, MemoJobOK, CreationPhases,
       EventPhases, UnreservedPhases, ReservedPhases
  <2> QED
    BY <1>3, <2>1, MemoPhaseStep DEF MemoKeyIsFree
<1>4. CASE LookUpMemo(w)
  <2> DEFINE phase == IF memoJob[w].request.version \in memos THEN "mapping"
                      ELSE "inserting"
  <2>1. MemoJobOK([memoJob[w] EXCEPT !.phase = phase], memos, reservations)
    BY <1>1, <1>4, PhaseFields DEF LookUpMemo, MemoJobOK, CreationPhases,
       EventPhases, UnreservedPhases, ReservedPhases
  <2> QED
    BY <1>4, <2>1, MemoPhaseStep DEF LookUpMemo
<1> QED
  BY <1>2, <1>3, <1>4


\* Reads of an event, and a worker that dies
LEMMA EventReadsOK ==
    ASSUME MemoInv, NEW w \in MemoWorkers,
           CheckMemo(w) \/ FindMemoEvent(w) \/ MemoWorkerDies(w)
    PROVE  MemoInv'
<1>1. MemoJobOK(memoJob[w], memos, reservations) /\ memoJob[w] \in MemoJob
  BY DEF MemoInv, MemoTablesOK
<1>2. CASE MemoEnds(w)
  BY <1>2, MemoEndStep DEF CheckMemo, FindMemoEvent, MemoWorkerDies
<1>3. CASE CheckMemo(w) /\ ~MemoEnds(w)
  <2> DEFINE phase == IF memoJob[w].request.key # None THEN "finding"
                      ELSE IF memoJob[w].request.op \in {"report", "ai"}
                      THEN "calling" ELSE "appending"
  <2>1. MemoJobOK([memoJob[w] EXCEPT !.phase = phase], memos, reservations)
    BY <1>1, <1>3, PhaseFields DEF CheckMemo, MemoJobOK, CreationPhases,
       EventPhases, UnreservedPhases, ReservedPhases
  <2>2. MemoPhase(w, phase) /\ UNCHANGED <<memoTables, memoReports, memoArrivals>>
    BY <1>3 DEF CheckMemo
  <2> QED
    BY <2>1, <2>2, MemoPhaseStep
<1>4. CASE FindMemoEvent(w) /\ ~MemoEnds(w)
  <2> DEFINE phase == IF memoJob[w].phase = "finding" THEN "reserving"
                      ELSE "reservingAgain"
  <2>1. MemoJobOK([memoJob[w] EXCEPT !.phase = phase], memos, reservations)
    BY <1>1, <1>4, PhaseFields DEF FindMemoEvent, MemoJobOK, CreationPhases,
       EventPhases, UnreservedPhases, ReservedPhases
  <2>2. MemoPhase(w, phase) /\ UNCHANGED <<memoTables, memoReports, memoArrivals>>
    BY <1>4 DEF FindMemoEvent
  <2> QED
    BY <2>1, <2>2, MemoPhaseStep
<1> QED
  BY <1>2, <1>3, <1>4 DEF MemoWorkerDies

\* The event a worker is about to append has its type.
LEMMA EventOfJob ==
    ASSUME MemoInv, NEW w \in MemoWorkers, memoJob[w].phase # "idle"
    PROVE  /\ EventOf(w) \in MemoEvent
           /\ EventOf(w).request = memoJob[w].request
           /\ EventOf(w).type = MemoEventType(memoJob[w].request.op)
           /\ memoJob[w].request \in MemoRequests
           /\ memoJob[w].request.version \in MemoVersions
<1>1. memoJob[w].request \in MemoRequests /\ memoJob[w].at \in Nat
  BY DEF MemoInv, MemoJobOK, MemoJob
<1>2. memoJob[w].request.version \in MemoVersions
  BY <1>1, MemoAssumption DEF MemoAssumption, MemoRequest
<1> QED
  BY <1>1, <1>2, EventTypeOfRequest DEF EventOf, MemoEvent

\* An event that is appended leaves the creations of the versions alone, or
\* adds itself to those of its version.
LEMMA CreatedAfterAppend ==
    ASSUME NEW events \in Seq(MemoEvent), NEW event \in MemoEvent, NEW version
    PROVE  Created(Append(events, event), version) =
               Created(events, version) \cup
               IF event.type = "created" /\ event.request.version = version
               THEN {Len(events) + 1} ELSE {}
<1>1. DOMAIN Append(events, event) = DOMAIN events \cup {Len(events) + 1}
  OBVIOUS
<1>2. \A i \in DOMAIN events : Append(events, event)[i] = events[i]
  OBVIOUS
<1>3. Append(events, event)[Len(events) + 1] = event
  OBVIOUS
<1> QED
  BY <1>1, <1>2, <1>3 DEF Created

\* The events stay reserved when one that is reserved is appended and rows are
\* added.
LEMMA ReservedAfterAppend ==
    ASSUME NEW events \in Seq(MemoEvent), NEW event \in MemoEvent,
           EventsReserved(events, reservations),
           event.type # "created" /\ event.request.key # None =>
               reservations[<<event.type, event.request.version,
                              event.request.key>>] = event.request
    PROVE  EventsReserved(Append(events, event), reservations)
<1>1. DOMAIN Append(events, event) = DOMAIN events \cup {Len(events) + 1}
  OBVIOUS
<1>2. \A i \in DOMAIN events : Append(events, event)[i] = events[i]
  OBVIOUS
<1>3. Append(events, event)[Len(events) + 1] = event
  OBVIOUS
<1> QED
  BY <1>1, <1>2, <1>3 DEF EventsReserved

\* The key of a creation is mapped to a version that is stored.
LEMMA KeyMappedOK ==
    ASSUME MemoInv, NEW request \in MemoRequests, NEW stored,
           memos \subseteq stored, request.version \in stored
    PROVE  /\ KeyMapped(request) \in [MemoKeys -> MemoRequests \cup {None}]
           /\ MemoKeysOK(KeyMapped(request), stored)
BY DEF MemoInv, MemoTablesOK, MemoKeysOK, KeyMapped

\* insert_memo_idempotency for a memo that exists
LEMMA MapMemoKeyOK ==
    ASSUME MemoInv, NEW w \in MemoWorkers, MapMemoKey(w)
    PROVE  MemoInv'
<1>1. /\ memoJob[w].request \in MemoRequests
      /\ memoJob[w].request.version \in memos
  BY DEF MapMemoKey, MemoInv, MemoJobOK
<1>2. /\ memoKeys' \in [MemoKeys -> MemoRequests \cup {None}]
      /\ MemoKeysOK(memoKeys', memos)
  BY <1>1, KeyMappedOK DEF MapMemoKey
<1>3. Grows(reservations, reservations') /\ memos \subseteq memos'
  BY DEF Grows, MapMemoKey
<1>4. /\ memoJob' \in [MemoWorkers -> MemoJob]
      /\ \A u \in MemoWorkers : MemoJobOK(memoJob'[u], memos', reservations')
  BY <1>3, IdleMemoJobOK, MemoJobsStep DEF MapMemoKey, MemoEnds
<1> QED
  BY <1>2, <1>4 DEF MapMemoKey, MemoInv, MemoTablesOK

\* create_memo_with_idempotency_event
LEMMA CreateMemoOK ==
    ASSUME MemoInv, NEW w \in MemoWorkers, CreateMemo(w)
    PROVE  MemoInv'
<1> DEFINE version == memoJob[w].request.version
<1>1. /\ EventOf(w) \in MemoEvent /\ EventOf(w).request = memoJob[w].request
      /\ EventOf(w).type = MemoEventType(memoJob[w].request.op)
      /\ memoJob[w].request \in MemoRequests /\ version \in MemoVersions
  BY EventOfJob DEF CreateMemo
<1>2. EventOf(w).type = "created"
  <2>1. memoJob[w].request.op = "create"
    BY DEF CreateMemo, MemoInv, MemoJobOK, CreationPhases
  <2> QED
    BY <1>1, <2>1, EventTypeOfRequest
<1>3. /\ memos' = memos \cup {version} /\ version \notin memos
      /\ memoEvents' = Append(memoEvents, EventOf(w))
      /\ memoKeys' = KeyMapped(memoJob[w].request)
      /\ memoJob' = [memoJob EXCEPT ![w] = IdleMemoJob]
      /\ UNCHANGED <<reservations, memoReports, memoArrivals>>
  BY DEF CreateMemo, MemoInsertable, MemoEnds
<1>4. CreationsOK(memos', memoEvents')
  <2> SUFFICES ASSUME NEW v \in MemoVersions
               PROVE  IF v \in memos' THEN \E i : Created(memoEvents', v) = {i}
                                      ELSE Created(memoEvents', v) = {}
    BY DEF CreationsOK
  <2>1. Created(memoEvents', v) = Created(memoEvents, v) \cup
            IF v = version THEN {Len(memoEvents) + 1} ELSE {}
    BY <1>1, <1>2, <1>3, CreatedAfterAppend DEF MemoInv, MemoTablesOK
  <2>2. IF v \in memos THEN \E i : Created(memoEvents, v) = {i}
                       ELSE Created(memoEvents, v) = {}
    BY DEF MemoInv, CreationsOK
  <2>3. CASE v = version
    <3>1. Created(memoEvents', v) = {Len(memoEvents) + 1}
      BY <1>3, <2>1, <2>2, <2>3
    <3> QED
      BY <1>3, <2>3, <3>1
  <2>4. CASE v # version
    <3>1. Created(memoEvents', v) = Created(memoEvents, v)
      BY <2>1, <2>4
    <3> QED
      BY <1>3, <2>2, <2>4, <3>1
  <2> QED
    BY <2>3, <2>4
<1>5. /\ memoKeys' \in [MemoKeys -> MemoRequests \cup {None}]
      /\ MemoKeysOK(memoKeys', memos')
  BY <1>1, <1>3, KeyMappedOK
<1>6. EventsReserved(memoEvents', reservations)
  BY <1>1, <1>2, <1>3, ReservedAfterAppend DEF MemoInv, MemoTablesOK
<1>7. Grows(reservations, reservations') /\ memos \subseteq memos'
  BY <1>3 DEF Grows
<1>8. /\ memoJob' \in [MemoWorkers -> MemoJob]
      /\ \A u \in MemoWorkers : MemoJobOK(memoJob'[u], memos', reservations')
  BY <1>3, <1>7, IdleMemoJobOK, MemoJobsStep
<1>9. memoEvents' \in Seq(MemoEvent)
  BY <1>1, <1>3 DEF MemoInv, MemoTablesOK
<1> QED
  BY <1>1, <1>3, <1>4, <1>5, <1>6, <1>8, <1>9 DEF MemoInv, MemoTablesOK

\* _persist_memo_event_reservation
LEMMA ReserveMemoOK ==
    ASSUME MemoInv, NEW w \in MemoWorkers, ReserveMemoEvent(w)
    PROVE  MemoInv'
<1> DEFINE request == memoJob[w].request
           place == ReservationOf(request)
           row == reservations[place]
<1>1. /\ MemoJobOK(memoJob[w], memos, reservations) /\ memoJob[w] \in MemoJob
      /\ request \in MemoRequests /\ request.op # "create"
      /\ memoJob[w].phase \in {"reserving", "reservingAgain"}
  BY DEF ReserveMemoEvent, MemoInv, MemoTablesOK, MemoJobOK, EventPhases,
     UnreservedPhases, ReservedPhases
<1>2. /\ reservations' = [reservations EXCEPT ![place] =
                              IF row = None THEN request ELSE row]
      /\ UNCHANGED <<memos, memoEvents, memoKeys, memoReports, memoArrivals>>
  BY DEF ReserveMemoEvent
<1>3. Grows(reservations, reservations')
  BY <1>2 DEF Grows, MemoInv, MemoTablesOK
<1>4. reservations' \in [ReservedTypes \X MemoVersions \X MemoKeys ->
                             MemoRequests \cup {None}]
  BY <1>1, <1>2 DEF MemoInv, MemoTablesOK
<1>5. EventsReserved(memoEvents, reservations')
  <2> SUFFICES ASSUME NEW i \in DOMAIN memoEvents,
                      memoEvents[i].type # "created",
                      memoEvents[i].request.key # None
               PROVE  reservations'[<<memoEvents[i].type,
                          memoEvents[i].request.version,
                          memoEvents[i].request.key>>] = memoEvents[i].request
    BY DEF EventsReserved
  <2>1. /\ memoEvents[i] \in MemoEvent
        /\ reservations[<<memoEvents[i].type, memoEvents[i].request.version,
                          memoEvents[i].request.key>>] = memoEvents[i].request
    BY DEF MemoInv, MemoTablesOK, EventsReserved
  <2>2. /\ memoEvents[i].request \in MemoRequests
        /\ <<memoEvents[i].type, memoEvents[i].request.version,
             memoEvents[i].request.key>>
               \in ReservedTypes \X MemoVersions \X MemoKeys
    BY <2>1, MemoAssumption DEF MemoEvent, MemoAssumption, MemoRequest
  <2> QED
    BY <1>3, <2>1, <2>2, MemoAssumption DEF Grows, MemoAssumption
<1>6. PICK job : /\ memoJob' = [memoJob EXCEPT ![w] = job]
                 /\ MemoJobOK(job, memos', reservations')
  <2>1. CASE ~Reserves(request)
    BY <2>1, IdleMemoJobOK DEF ReserveMemoEvent, MemoEnds
  <2>2. CASE Reserves(request)
    <3> DEFINE phase == IF /\ memoJob[w].phase = "reserving"
                           /\ request.op \in {"report", "ai"}
                        THEN "calling" ELSE "appending"
               job == [memoJob[w] EXCEPT !.phase = phase]
    <3>1. memoJob' = [memoJob EXCEPT ![w] = job]
      BY <2>2 DEF ReserveMemoEvent, MemoPhase
    <3>2. ASSUME request.key # None PROVE reservations'[place] = request
      <4>1. place \in ReservedTypes \X MemoVersions \X MemoKeys
        BY <1>1, <3>2, ReservationIsRow
      <4> QED
        BY <1>2, <2>2, <4>1 DEF Reserves, MemoInv, MemoTablesOK
    <3>3. /\ job \in MemoJob /\ job.request = request /\ job.phase = phase
      BY <1>1, PhaseFields DEF EventPhases, ReservedPhases
    <3>4. MemoJobOK(job, memos', reservations')
      BY <1>1, <3>2, <3>3 DEF MemoJobOK, CreationPhases, EventPhases,
         UnreservedPhases, ReservedPhases
    <3> QED
      BY <3>1, <3>4
  <2> QED
    BY <2>1, <2>2
<1>7. /\ memoJob' \in [MemoWorkers -> MemoJob]
      /\ \A u \in MemoWorkers : MemoJobOK(memoJob'[u], memos', reservations')
  BY <1>2, <1>3, <1>6, MemoJobsStep
<1> QED
  BY <1>2, <1>4, <1>5, <1>7 DEF MemoInv, MemoTablesOK

\* The call of the report or AI service
LEMMA CallMemoOK ==
    ASSUME MemoInv, NEW w \in MemoWorkers, CallMemoService(w)
    PROVE  MemoInv'
<1> DEFINE phase == IF memoJob[w].request.key = None THEN "appending"
                    ELSE "findingAgain"
           job == [memoJob[w] EXCEPT !.phase = phase]
<1>1. /\ MemoJobOK(memoJob[w], memos, reservations) /\ memoJob[w] \in MemoJob
      /\ memoJob[w].phase = "calling"
  BY DEF CallMemoService, MemoInv, MemoTablesOK
<1>2. /\ memoJob' = [memoJob EXCEPT ![w] = job]
      /\ UNCHANGED <<memos, memoEvents, memoKeys, reservations, memoArrivals>>
  BY DEF CallMemoService, MemoPhase, memoTables
<1>3. MemoJobOK(job, memos, reservations)
  BY <1>1, PhaseFields DEF MemoJobOK, CreationPhases, EventPhases,
     UnreservedPhases, ReservedPhases
<1>4. MemoReportsOK(memoReports')
  BY DEF CallMemoService, MemoReportsOK, ReportRequestId, MemoInv
<1>5. Grows(reservations, reservations') /\ memos \subseteq memos'
  BY <1>2 DEF Grows
<1>6. /\ memoJob' \in [MemoWorkers -> MemoJob]
      /\ \A u \in MemoWorkers : MemoJobOK(memoJob'[u], memos', reservations')
  BY <1>2, <1>3, <1>5, MemoJobsStep
<1> QED
  BY <1>2, <1>4, <1>6 DEF MemoInv, MemoTablesOK

\* append_memo_event
LEMMA AppendMemoOK ==
    ASSUME MemoInv, NEW w \in MemoWorkers, AppendMemoEvent(w)
    PROVE  MemoInv'
<1> DEFINE request == memoJob[w].request
<1>1. /\ EventOf(w) \in MemoEvent /\ EventOf(w).request = request
      /\ EventOf(w).type = MemoEventType(request.op)
      /\ request \in MemoRequests
  BY EventOfJob DEF AppendMemoEvent
<1>2. /\ EventOf(w).type # "created"
      /\ request.key # None => reservations[ReservationOf(request)] = request
  <2>1. request.op # "create"
    BY DEF AppendMemoEvent, MemoInv, MemoJobOK, EventPhases, ReservedPhases
  <2> QED
    BY <1>1, <2>1, EventTypeOfRequest
       DEF AppendMemoEvent, MemoInv, MemoJobOK, ReservedPhases
<1>3. /\ memoEvents' = Append(memoEvents, EventOf(w))
      /\ memoJob' = [memoJob EXCEPT ![w] = IdleMemoJob]
      /\ UNCHANGED <<memos, memoKeys, reservations, memoReports, memoArrivals>>
  BY DEF AppendMemoEvent, MemoEnds
<1>4. CreationsOK(memos, memoEvents')
  <2>1. ASSUME NEW v \in MemoVersions
        PROVE  Created(memoEvents', v) = Created(memoEvents, v)
    <3>1. memoEvents \in Seq(MemoEvent)
      BY DEF MemoInv, MemoTablesOK
    <3>2. Created(memoEvents', v) = Created(memoEvents, v) \cup
              IF /\ EventOf(w).type = "created"
                 /\ EventOf(w).request.version = v
              THEN {Len(memoEvents) + 1} ELSE {}
      BY <1>1, <1>3, <3>1, CreatedAfterAppend
    <3> QED
      BY <1>2, <3>2
  <2> QED
    BY <2>1 DEF MemoInv, CreationsOK
<1>5. EventsReserved(memoEvents', reservations)
  BY <1>1, <1>2, <1>3, ReservedAfterAppend
     DEF MemoInv, MemoTablesOK, ReservationOf
<1>6. Grows(reservations, reservations') /\ memos \subseteq memos'
  BY <1>3 DEF Grows
<1>7. /\ memoJob' \in [MemoWorkers -> MemoJob]
      /\ \A u \in MemoWorkers : MemoJobOK(memoJob'[u], memos', reservations')
  BY <1>3, <1>6, IdleMemoJobOK, MemoJobsStep
<1>8. memoEvents' \in Seq(MemoEvent)
  BY <1>1, <1>3 DEF MemoInv, MemoTablesOK
<1> QED
  BY <1>3, <1>4, <1>5, <1>7, <1>8 DEF MemoInv, MemoTablesOK

-----------------------------------------------------------------------------
\* Theorems.

\* Whatever the workers do, the tables and what each worker holds fit together:
\* see MemoInv.
THEOREM MemoInvariant == MemoSpec => []MemoInv
<1>1. MemoInit => MemoInv
  BY MemoInitOK
<1>2. ASSUME MemoInv, [MemoNext]_memoVars PROVE MemoInv'
  <2>1. ASSUME NEW w \in MemoWorkers, ReceiveMemoRequest(w) PROVE MemoInv'
    BY <1>2, <2>1, ReceiveMemoOK
  <2>2. ASSUME NEW w \in MemoWorkers,
               \/ AnswerByMemoKey(w) \/ MemoKeyIsFree(w) \/ LookUpMemo(w)
               \/ CreateMemoFails(w)
        PROVE  MemoInv'
    BY <1>2, <2>2, CreationReadsOK
  <2>3. ASSUME NEW w \in MemoWorkers, MapMemoKey(w) PROVE MemoInv'
    BY <1>2, <2>3, MapMemoKeyOK
  <2>4. ASSUME NEW w \in MemoWorkers, CreateMemo(w) PROVE MemoInv'
    BY <1>2, <2>4, CreateMemoOK
  <2>5. ASSUME NEW w \in MemoWorkers,
               CheckMemo(w) \/ FindMemoEvent(w) \/ MemoWorkerDies(w)
        PROVE  MemoInv'
    BY <1>2, <2>5, EventReadsOK
  <2>6. ASSUME NEW w \in MemoWorkers, ReserveMemoEvent(w) PROVE MemoInv'
    BY <1>2, <2>6, ReserveMemoOK
  <2>7. ASSUME NEW w \in MemoWorkers, CallMemoService(w) PROVE MemoInv'
    BY <1>2, <2>7, CallMemoOK
  <2>8. ASSUME NEW w \in MemoWorkers, AppendMemoEvent(w) PROVE MemoInv'
    BY <1>2, <2>8, AppendMemoOK
  <2>9. CASE UNCHANGED memoVars
    BY <1>2, <2>9 DEF memoVars, MemoInv, MemoTablesOK
  <2> QED
    BY <1>2, <2>1, <2>2, <2>3, <2>4, <2>5, <2>6, <2>7, <2>8, <2>9 DEF MemoNext
<1> QED
  BY <1>1, <1>2, PTL DEF MemoSpec

\* However many creations overlap, a version has one memo with one creation
\* event, and no key names a memo that does not exist.
THEOREM MemosCreatedOnce == MemoSpec => []MemoCreatedOnce
<1>1. ASSUME MemoInv PROVE MemoCreatedOnce
  <2>1. ASSUME NEW v \in MemoVersions
        PROVE  Cardinality({i \in EventsFor(v) : memoEvents[i].type = "created"})
                   = IF v \in memos THEN 1 ELSE 0
    <3>1. {i \in EventsFor(v) : memoEvents[i].type = "created"}
              = Created(memoEvents, v)
      BY DEF EventsFor, Created
    <3>2. CASE v \in memos
      <4>1. PICK i : Created(memoEvents, v) = {i}
        BY <1>1, <3>2 DEF MemoInv, CreationsOK
      <4> QED
        BY <3>1, <3>2, <4>1, FS_Singleton
    <3>3. CASE v \notin memos
      <4>1. Created(memoEvents, v) = {}
        BY <1>1, <3>3 DEF MemoInv, CreationsOK
      <4> QED
        BY <3>1, <3>3, <4>1, FS_EmptySet
    <3> QED
      BY <3>2, <3>3
  <2>2. \A k \in MemoKeys : memoKeys[k] # None => memoKeys[k].version \in memos
    BY <1>1 DEF MemoInv, MemoKeysOK
  <2> QED
    BY <2>1, <2>2 DEF MemoCreatedOnce
<1> QED
  BY <1>1, MemoInvariant, PTL

\* Two events of one type that a memo records under one key carry the same
\* request: both are the one that the key reserves.
THEOREM MemoKeysBindRequests == MemoSpec => []MemoKeyBindsRequest
<1>1. ASSUME MemoInv PROVE MemoKeyBindsRequest
  BY <1>1 DEF MemoInv, EventsReserved, MemoKeyBindsRequest
<1> QED
  BY <1>1, MemoInvariant, PTL

\* The report service sees one request id for a memo and key.
THEOREM MemoReportsOnce == MemoSpec => []OneReportPerMemoKey
<1>1. ASSUME MemoInv PROVE OneReportPerMemoKey
  <2> SUFFICES ASSUME NEW a \in memoReports, NEW b \in memoReports,
                      a.version = b.version, a.key = b.key, a.key # None
               PROVE  a = b
    BY DEF OneReportPerMemoKey
  <2>1. /\ a = [version |-> a.version, key |-> a.key, id |-> a.key]
        /\ b = [version |-> b.version, key |-> b.key, id |-> b.key]
    BY <1>1 DEF MemoInv, MemoReportsOK
  <2> QED
    BY <2>1
<1> QED
  BY <1>1, MemoInvariant, PTL

-----------------------------------------------------------------------------
\* The runs of the copilot

\* What a draft can be
Drafts == {"UNAVAILABLE", "OUTPUT_REJECTED", "REVIEW_REQUIRED", "UNSUPPORTED"}

RunRow == [posture : Drafts \cup ReviewPostures, draft : Drafts]

RunPhases == {"replay", "slot"}
DraftPhases == {"persist", "insert", "refresh"}
ReviewPhases == {"review", "append", "update"}

\* What a worker holds in each phase
CopilotJob ==
    {IdleCopilotJob}
    \cup [phase : {"packet"}, packet : Packets, content : PacketContents,
          found : PacketContents \cup {None}]
    \cup [phase : RunPhases, key : RunKeys \cup {None}, run : RunId]
    \cup [phase : {"posting"}, key : RunKeys \cup {None}, run : RunId,
          attempts : Nat]
    \cup [phase : DraftPhases, key : RunKeys \cup {None}, run : RunId,
          row : RunRow]
    \cup [phase : ReviewPhases, run : RunId, row : RunRow,
          request : ReviewRequests]

\* The packet of a run that is not a projection has the content of the run.
EvidenceOK(r, stored) ==
    r.packet \notin ProjectedPackets => stored[r.packet] = r.content

\* A row is a draft as it was made, or one that a stored review by another
\* actor has given its posture.
RowOK(r, row, recorded) ==
    /\ row \in RunRow
    /\ \/ row.posture \in Drafts /\ row.draft = row.posture
       \/ /\ row.posture \in ReviewPostures /\ row.draft = "REVIEW_REQUIRED"
          /\ \E review \in recorded :
                /\ review.run = r /\ review.request.posture = row.posture
                /\ review.request.actor # r.by

\* What a worker holds is right for the packets and reviews that are stored.
CopilotJobOK(job, stored, recorded) ==
    /\ job \in CopilotJob
    /\ job.phase = "packet" /\ job.packet \notin ProjectedPackets =>
          /\ job.found \in {None, job.content}
          /\ job.found # None => stored[job.packet] = job.found
    /\ job.phase \in RunPhases \cup {"posting"} \cup DraftPhases \cup ReviewPhases =>
          EvidenceOK(job.run, stored)
    /\ job.phase = "posting" => job.attempts < AiAttempts
    /\ job.phase \in DraftPhases =>
          job.row.posture \in Drafts /\ job.row.draft = job.row.posture
    /\ job.phase \in ReviewPhases =>
          job.request.actor # job.run.by /\ RowOK(job.run, job.row, recorded)
    /\ job.phase \in {"append", "update"} => job.row.posture = "REVIEW_REQUIRED"
    /\ job.phase = "update" =>
          [run |-> job.run, request |-> job.request] \in recorded

Posting == {w \in CopilotWorkers : copilotJob[w].phase = "posting"}

CopilotTablesOK ==
    /\ packets \in [Packets -> PacketContents \cup {None}]
    /\ DOMAIN runs = RunId /\ runs = [r \in RunId |-> runs[r]]
    /\ DOMAIN copilotJob = CopilotWorkers
    /\ copilotJob = [w \in CopilotWorkers |-> copilotJob[w]]

RunsOK(rows, stored, recorded) ==
    \A r \in RunId : rows[r] # None =>
        EvidenceOK(r, stored) /\ RowOK(r, rows[r], recorded)

\* The inductive invariant.
CopilotInv ==
    /\ CopilotTablesOK
    /\ \A w \in CopilotWorkers : CopilotJobOK(copilotJob[w], packets, reviews)
    /\ RunsOK(runs, packets, reviews)
    /\ freeSlots \in Nat
    /\ freeSlots + Cardinality(Posting) = AiSlots

-----------------------------------------------------------------------------
\* Lemmas about what is stored.

\* A packet that is not a projection is written once.
Kept(stored, next) ==
    \A p \in Packets \ ProjectedPackets : stored[p] # None => next[p] = stored[p]

\* Evidence stays while packets are kept.
LEMMA EvidenceStays ==
    ASSUME NEW r \in RunId, NEW stored, NEW next, EvidenceOK(r, stored),
           Kept(stored, next)
    PROVE  EvidenceOK(r, next)
BY CopilotAssumption DEF CopilotAssumption, EvidenceOK, Kept, RunId

\* A row stays right while reviews are added.
LEMMA RowStays ==
    ASSUME NEW r, NEW row, NEW recorded, NEW next, RowOK(r, row, recorded),
           recorded \subseteq next
    PROVE  RowOK(r, row, next)
BY DEF RowOK

\* Rows stay right.
LEMMA RunsStay ==
    ASSUME NEW rows, NEW stored, NEW stored2, NEW recorded, NEW recorded2,
           RunsOK(rows, stored, recorded), Kept(stored, stored2),
           recorded \subseteq recorded2
    PROVE  RunsOK(rows, stored2, recorded2)
BY EvidenceStays, RowStays DEF RunsOK

\* The phase of a job tells what it holds.
LEMMA JobByPhase ==
    ASSUME NEW job \in CopilotJob
    PROVE  /\ job.phase = "packet" =>
                  job \in [phase : {"packet"}, packet : Packets,
                           content : PacketContents,
                           found : PacketContents \cup {None}]
           /\ job.phase \in RunPhases =>
                  job \in [phase : RunPhases, key : RunKeys \cup {None}, run : RunId]
           /\ job.phase = "posting" =>
                  job \in [phase : {"posting"}, key : RunKeys \cup {None},
                           run : RunId, attempts : Nat]
           /\ job.phase \in DraftPhases =>
                  job \in [phase : DraftPhases, key : RunKeys \cup {None},
                           run : RunId, row : RunRow]
           /\ job.phase \in ReviewPhases =>
                  job \in [phase : ReviewPhases, run : RunId, row : RunRow,
                           request : ReviewRequests]
BY DEF CopilotJob, IdleCopilotJob, RunPhases, DraftPhases, ReviewPhases

\* What a worker holds stays right.
LEMMA CopilotJobStays ==
    ASSUME NEW job, NEW stored, NEW stored2, NEW recorded, NEW recorded2,
           CopilotJobOK(job, stored, recorded), Kept(stored, stored2),
           recorded \subseteq recorded2
    PROVE  CopilotJobOK(job, stored2, recorded2)
<1>1. job \in CopilotJob
  BY DEF CopilotJobOK
<1>2. job.phase \in RunPhases \cup {"posting"} \cup DraftPhases \cup ReviewPhases
          => job.run \in RunId
  BY <1>1, JobByPhase
<1>3. job.phase \in RunPhases \cup {"posting"} \cup DraftPhases \cup ReviewPhases
          => EvidenceOK(job.run, stored2)
  BY <1>2, EvidenceStays DEF CopilotJobOK
<1>4. job.phase \in ReviewPhases => RowOK(job.run, job.row, recorded2)
  BY RowStays DEF CopilotJobOK
<1>5. job.phase = "packet" => job.packet \in Packets
  BY <1>1, JobByPhase
<1>6. job.phase = "packet" /\ job.packet \notin ProjectedPackets =>
          /\ job.found \in {None, job.content}
          /\ job.found # None => stored2[job.packet] = job.found
  BY <1>5 DEF CopilotJobOK, Kept
<1> QED
  BY <1>1, <1>3, <1>4, <1>6 DEF CopilotJobOK

\* A worker that ends holds nothing.
LEMMA IdleCopilotJobOK ==
    ASSUME NEW stored, NEW recorded
    PROVE  CopilotJobOK(IdleCopilotJob, stored, recorded)
BY DEF CopilotJobOK, IdleCopilotJob, CopilotJob, RunPhases, DraftPhases,
   ReviewPhases

\* One worker goes on with a job that is right.
LEMMA CopilotJobsStep ==
    ASSUME CopilotInv, NEW w \in CopilotWorkers, NEW job, CopilotGoesOn(w, job),
           Kept(packets, packets'), reviews \subseteq reviews',
           CopilotJobOK(job, packets', reviews')
    PROVE  /\ DOMAIN copilotJob' = CopilotWorkers
           /\ copilotJob' = [u \in CopilotWorkers |-> copilotJob'[u]]
           /\ \A u \in CopilotWorkers : CopilotJobOK(copilotJob'[u], packets', reviews')
           /\ \A u \in CopilotWorkers :
                 copilotJob'[u] = IF u = w THEN job ELSE copilotJob[u]
<1>1. /\ DOMAIN copilotJob' = CopilotWorkers
      /\ copilotJob' = [u \in CopilotWorkers |-> copilotJob'[u]]
      /\ \A u \in CopilotWorkers :
            copilotJob'[u] = IF u = w THEN job ELSE copilotJob[u]
  BY DEF CopilotInv, CopilotTablesOK, CopilotGoesOn
<1>2. ASSUME NEW u \in CopilotWorkers
      PROVE  CopilotJobOK(copilotJob'[u], packets', reviews')
  <2>1. CASE u = w
    BY <1>1, <2>1
  <2>2. CASE u # w
    <3>1. CopilotJobOK(copilotJob[u], packets, reviews)
      BY DEF CopilotInv
    <3> QED
      BY <1>1, <2>2, <3>1, CopilotJobStays
  <2> QED
    BY <2>1, <2>2
<1> QED
  BY <1>1, <1>2

\* The slots are right when the worker that goes on neither starts nor ends a
\* call and no slot is taken or given.
LEMMA SlotsStay ==
    ASSUME CopilotInv, NEW w \in CopilotWorkers, NEW job,
           \A u \in CopilotWorkers :
               copilotJob'[u] = IF u = w THEN job ELSE copilotJob[u],
           copilotJob[w].phase = "posting" <=> job.phase = "posting",
           freeSlots' = freeSlots
    PROVE  freeSlots' \in Nat /\ freeSlots' + Cardinality(Posting') = AiSlots
<1>1. Posting' = Posting
  BY DEF Posting
<1> QED
  BY <1>1 DEF CopilotInv

\* A worker takes a slot and starts to call, or ends its call and gives it back.
LEMMA SlotsMove ==
    ASSUME CopilotInv, NEW w \in CopilotWorkers, NEW job,
           \A u \in CopilotWorkers :
               copilotJob'[u] = IF u = w THEN job ELSE copilotJob[u],
           \/ /\ copilotJob[w].phase # "posting" /\ job.phase = "posting"
              /\ freeSlots > 0 /\ freeSlots' = freeSlots - 1
           \/ /\ copilotJob[w].phase = "posting" /\ job.phase # "posting"
              /\ freeSlots' = freeSlots + 1
    PROVE  freeSlots' \in Nat /\ freeSlots' + Cardinality(Posting') = AiSlots
<1>1. IsFiniteSet(Posting) /\ Cardinality(Posting) \in Nat
  <2>1. IsFiniteSet(CopilotWorkers) /\ Posting \subseteq CopilotWorkers
    BY CopilotAssumption DEF CopilotAssumption, Posting
  <2> QED
    BY <2>1, FS_Subset, FS_CardinalityType
<1>2. AiSlots \in Nat /\ freeSlots \in Nat
      /\ freeSlots + Cardinality(Posting) = AiSlots
  BY CopilotAssumption DEF CopilotAssumption, CopilotInv
<1>3. CASE copilotJob[w].phase # "posting" /\ job.phase = "posting"
  <2>1. Posting' = Posting \cup {w} /\ w \notin Posting
    BY <1>3 DEF Posting
  <2>2. Cardinality(Posting') = Cardinality(Posting) + 1
    BY <1>1, <2>1, FS_AddElement
  <2> QED
    BY <1>1, <1>2, <1>3, <2>2
<1>4. CASE copilotJob[w].phase = "posting" /\ job.phase # "posting"
  <2>1. Posting' = Posting \ {w} /\ w \in Posting
    BY <1>4 DEF Posting
  <2>2. Cardinality(Posting') = Cardinality(Posting) - 1
    BY <1>1, <2>1, FS_RemoveElement
  <2> QED
    BY <1>1, <1>2, <1>4, <2>2
<1> QED
  BY <1>3, <1>4

\* A step of one worker that leaves the tables alone
LEMMA CopilotJobStep ==
    ASSUME CopilotInv, NEW w \in CopilotWorkers, NEW job, CopilotGoesOn(w, job),
           UNCHANGED copilotTables, CopilotJobOK(job, packets, reviews),
           \/ /\ copilotJob[w].phase = "posting" <=> job.phase = "posting"
              /\ freeSlots' = freeSlots
           \/ /\ copilotJob[w].phase # "posting" /\ job.phase = "posting"
              /\ freeSlots > 0 /\ freeSlots' = freeSlots - 1
           \/ /\ copilotJob[w].phase = "posting" /\ job.phase # "posting"
              /\ freeSlots' = freeSlots + 1
    PROVE  CopilotInv'
<1>1. packets' = packets /\ runs' = runs /\ reviews' = reviews
  BY DEF copilotTables
<1>2. Kept(packets, packets') /\ reviews \subseteq reviews'
  BY <1>1 DEF Kept
<1>3. /\ DOMAIN copilotJob' = CopilotWorkers
      /\ copilotJob' = [u \in CopilotWorkers |-> copilotJob'[u]]
      /\ \A u \in CopilotWorkers : CopilotJobOK(copilotJob'[u], packets', reviews')
      /\ \A u \in CopilotWorkers :
            copilotJob'[u] = IF u = w THEN job ELSE copilotJob[u]
  BY <1>1, <1>2, CopilotJobsStep
<1>4. freeSlots' \in Nat /\ freeSlots' + Cardinality(Posting') = AiSlots
  BY <1>3, SlotsStay, SlotsMove
<1> QED
  BY <1>1, <1>3, <1>4 DEF CopilotInv, CopilotTablesOK

\* A step of one worker that changes packets, runs or reviews, and ends or goes
\* on without a call
LEMMA CopilotTableStep ==
    ASSUME CopilotInv, NEW w \in CopilotWorkers, NEW job, CopilotGoesOn(w, job),
           Kept(packets, packets'), reviews \subseteq reviews',
           CopilotJobOK(job, packets', reviews'),
           packets' \in [Packets -> PacketContents \cup {None}],
           DOMAIN runs' = RunId, runs' = [r \in RunId |-> runs'[r]],
           RunsOK(runs', packets', reviews'),
           copilotJob[w].phase # "posting", job.phase # "posting",
           freeSlots' = freeSlots
    PROVE  CopilotInv'
<1>1. /\ DOMAIN copilotJob' = CopilotWorkers
      /\ copilotJob' = [u \in CopilotWorkers |-> copilotJob'[u]]
      /\ \A u \in CopilotWorkers : CopilotJobOK(copilotJob'[u], packets', reviews')
      /\ \A u \in CopilotWorkers :
            copilotJob'[u] = IF u = w THEN job ELSE copilotJob[u]
  BY CopilotJobsStep
<1>2. freeSlots' \in Nat /\ freeSlots' + Cardinality(Posting') = AiSlots
  BY <1>1, SlotsStay
<1> QED
  BY <1>1, <1>2 DEF CopilotInv, CopilotTablesOK

-----------------------------------------------------------------------------
\* One lemma per action.

LEMMA CopilotInitOK == ASSUME CopilotInit PROVE CopilotInv
<1>1. CopilotTablesOK
  BY DEF CopilotInit, CopilotTablesOK
<1>2. \A w \in CopilotWorkers : CopilotJobOK(copilotJob[w], packets, reviews)
  BY IdleCopilotJobOK DEF CopilotInit
<1>3. RunsOK(runs, packets, reviews)
  BY DEF CopilotInit, RunsOK
<1>4. Posting = {}
  BY DEF CopilotInit, Posting, IdleCopilotJob
<1>5. freeSlots \in Nat /\ freeSlots + Cardinality(Posting) = AiSlots
  BY <1>4, FS_EmptySet, CopilotAssumption DEF CopilotAssumption, CopilotInit
<1> QED
  BY <1>1, <1>2, <1>3, <1>5 DEF CopilotInv

LEMMA ReadPacketOK ==
    ASSUME CopilotInv, NEW w \in CopilotWorkers, ReadPacket(w) PROVE CopilotInv'
<1>1. PICK p \in Packets, content \in PacketContents :
          /\ packets[p] \in {None, content} \/ Refreshable(p)
          /\ CopilotGoesOn(w, [phase |-> "packet", packet |-> p,
                               content |-> content, found |-> packets[p]])
  BY DEF ReadPacket
<1> DEFINE job == [phase |-> "packet", packet |-> p, content |-> content,
                   found |-> packets[p]]
<1>2. job \in CopilotJob
  BY DEF CopilotJob, CopilotInv, CopilotTablesOK
<1>3. CopilotJobOK(job, packets, reviews)
  BY <1>1, <1>2 DEF CopilotJobOK, Refreshable, RunPhases, DraftPhases, ReviewPhases
<1> QED
  BY <1>1, <1>3, CopilotJobStep DEF ReadPacket, IdleCopilotJob

LEMMA WritePacketOK ==
    ASSUME CopilotInv, NEW w \in CopilotWorkers, WritePacket(w) PROVE CopilotInv'
<1> DEFINE job == copilotJob[w]
<1>1. CopilotJobOK(job, packets, reviews) /\ job.phase = "packet"
  BY DEF WritePacket, CopilotInv
<1>2. job.packet \in Packets /\ job.content \in PacketContents
  BY <1>1, JobByPhase DEF CopilotJobOK
<1>3. /\ packets' = [packets EXCEPT ![job.packet] =
             IF job.found = None /\ packets[job.packet] # None
             THEN packets[job.packet] ELSE job.content]
      /\ runs' = runs /\ reviews' = reviews /\ freeSlots' = freeSlots
      /\ CopilotGoesOn(w, IdleCopilotJob)
  BY DEF WritePacket, CopilotEnds, CopilotGoesOn
<1>4. packets' \in [Packets -> PacketContents \cup {None}]
  BY <1>2, <1>3 DEF CopilotInv, CopilotTablesOK
<1>5. Kept(packets, packets')
  BY <1>1, <1>2, <1>3 DEF Kept, CopilotJobOK, CopilotInv, CopilotTablesOK
<1>6. RunsOK(runs', packets', reviews')
  BY <1>3, <1>5, RunsStay DEF CopilotInv
<1>7. DOMAIN runs' = RunId /\ runs' = [r \in RunId |-> runs'[r]]
  BY <1>3 DEF CopilotInv, CopilotTablesOK
<1>8. IdleCopilotJob.phase # "posting" /\ reviews \subseteq reviews'
  BY <1>3 DEF IdleCopilotJob
<1> QED
  BY <1>1, <1>3, <1>4, <1>5, <1>6, <1>7, <1>8, IdleCopilotJobOK, CopilotTableStep

LEMMA LoadPacketOK ==
    ASSUME CopilotInv, NEW w \in CopilotWorkers, LoadPacket(w) PROVE CopilotInv'
<1>1. PICK p \in {p \in Packets : packets[p] # None}, user \in Requesters,
           key \in RunKeys \cup {None} :
          CopilotGoesOn(w,
              [phase |-> IF key = None THEN "slot" ELSE "replay", key |-> key,
               run |-> [packet |-> p, content |-> packets[p], by |-> user]])
  BY DEF LoadPacket
<1> DEFINE r == [packet |-> p, content |-> packets[p], by |-> user]
           job == [phase |-> IF key = None THEN "slot" ELSE "replay",
                   key |-> key, run |-> r]
<1>2. r \in RunId
  BY DEF RunId, CopilotInv, CopilotTablesOK
<1>3. job \in CopilotJob /\ job.phase \in RunPhases
  BY <1>2 DEF CopilotJob, RunPhases
<1>4. CopilotJobOK(job, packets, reviews)
  BY <1>3 DEF CopilotJobOK, EvidenceOK, RunPhases, DraftPhases, ReviewPhases
<1> QED
  BY <1>1, <1>3, <1>4, CopilotJobStep DEF LoadPacket, IdleCopilotJob, RunPhases

\* What is known of a worker in a run
LEMMA RunningJob ==
    ASSUME CopilotInv, NEW w \in CopilotWorkers,
           copilotJob[w].phase \in RunPhases \cup {"posting"} \cup DraftPhases
    PROVE  /\ copilotJob[w].run \in RunId
           /\ copilotJob[w].key \in RunKeys \cup {None}
           /\ EvidenceOK(copilotJob[w].run, packets)
<1>1. CopilotJobOK(copilotJob[w], packets, reviews) /\ copilotJob[w] \in CopilotJob
  BY DEF CopilotInv, CopilotJobOK
<1> QED
  BY <1>1, JobByPhase DEF CopilotJobOK

\* A worker that ends outside a call leaves everything right.
LEMMA CopilotEndStep ==
    ASSUME CopilotInv, NEW w \in CopilotWorkers, CopilotEnds(w),
           UNCHANGED <<copilotTables, freeSlots>>, copilotJob[w].phase # "posting"
    PROVE  CopilotInv'
BY IdleCopilotJobOK, CopilotJobStep DEF CopilotEnds, CopilotGoesOn, IdleCopilotJob

LEMMA ResolveReplayOK ==
    ASSUME CopilotInv, NEW w \in CopilotWorkers, ResolveReplay(w) PROVE CopilotInv'
<1> DEFINE job == [copilotJob[w] EXCEPT !.phase = "slot"]
<1>1. CopilotJobOK(copilotJob[w], packets, reviews) /\ copilotJob[w].phase = "replay"
  BY DEF ResolveReplay, CopilotInv
<1>2. copilotJob[w] \in [phase : RunPhases, key : RunKeys \cup {None}, run : RunId]
  BY <1>1, JobByPhase DEF CopilotJobOK, RunPhases
<1>3. job \in [phase : RunPhases, key : RunKeys \cup {None}, run : RunId]
      /\ job.phase = "slot" /\ job.run = copilotJob[w].run
  BY <1>2 DEF RunPhases
<1>4. job \in CopilotJob
  BY <1>3 DEF CopilotJob
<1>5. CopilotJobOK(job, packets, reviews)
  BY <1>1, <1>3, <1>4, RunningJob
     DEF CopilotJobOK, RunPhases, DraftPhases, ReviewPhases
<1>6. CASE CopilotGoesOn(w, job)
  BY <1>1, <1>3, <1>5, <1>6, CopilotJobStep DEF ResolveReplay
<1>7. CASE CopilotEnds(w)
  BY <1>1, <1>7, CopilotEndStep DEF ResolveReplay
<1> QED
  BY <1>6, <1>7 DEF ResolveReplay

\* A draft that is given to be stored is right.
LEMMA DraftedOK ==
    ASSUME CopilotInv, NEW w \in CopilotWorkers, NEW posture \in Drafts,
           copilotJob[w].phase \in RunPhases \cup {"posting"}
    PROVE  /\ CopilotJobOK(Drafted(copilotJob[w], posture), packets, reviews)
           /\ Drafted(copilotJob[w], posture).phase # "posting"
<1> DEFINE job == Drafted(copilotJob[w], posture)
<1>1. /\ copilotJob[w].run \in RunId /\ copilotJob[w].key \in RunKeys \cup {None}
      /\ EvidenceOK(copilotJob[w].run, packets)
  BY RunningJob
<1>2. job \in [phase : DraftPhases, key : RunKeys \cup {None}, run : RunId,
               row : RunRow]
  BY <1>1 DEF Drafted, DraftPhases, RunRow
<1>3. /\ job \in CopilotJob /\ job.phase \in DraftPhases
      /\ job.run = copilotJob[w].run /\ job.phase \in {"insert", "persist"}
      /\ job.row.posture = posture /\ job.row.draft = posture
  BY <1>2 DEF CopilotJob, Drafted
<1> QED
  BY <1>1, <1>3 DEF CopilotJobOK, RunPhases, DraftPhases, ReviewPhases

LEMMA TakeSlotOK ==
    ASSUME CopilotInv, NEW w \in CopilotWorkers, TakeSlot(w) PROVE CopilotInv'
<1>1. copilotJob[w].phase = "slot" /\ copilotJob[w].phase \in RunPhases
  BY DEF TakeSlot, RunPhases
<1>2. CASE CopilotGoesOn(w, Drafted(copilotJob[w], "UNAVAILABLE"))
           /\ freeSlots' = freeSlots
  <2>1. "UNAVAILABLE" \in Drafts
    BY DEF Drafts
  <2>2. /\ CopilotJobOK(Drafted(copilotJob[w], "UNAVAILABLE"), packets, reviews)
        /\ Drafted(copilotJob[w], "UNAVAILABLE").phase # "posting"
    BY <1>1, <2>1, DraftedOK
  <2> QED
    BY <1>1, <1>2, <2>2, CopilotJobStep DEF TakeSlot
<1>3. CASE /\ freeSlots > 0 /\ freeSlots' = freeSlots - 1
           /\ CopilotGoesOn(w, [phase |-> "posting", key |-> copilotJob[w].key,
                               run |-> copilotJob[w].run, attempts |-> 0])
  <2> DEFINE job == [phase |-> "posting", key |-> copilotJob[w].key,
                     run |-> copilotJob[w].run, attempts |-> 0]
  <2>1. job \in CopilotJob
    BY <1>1, RunningJob DEF CopilotJob
  <2>2. CopilotJobOK(job, packets, reviews)
    BY <1>1, <2>1, RunningJob, CopilotAssumption
       DEF CopilotJobOK, CopilotAssumption, RunPhases, DraftPhases, ReviewPhases
  <2> QED
    BY <1>1, <1>3, <2>2, CopilotJobStep DEF TakeSlot
<1> QED
  BY <1>2, <1>3 DEF TakeSlot

LEMMA AnswerPostOK ==
    ASSUME CopilotInv, NEW w \in CopilotWorkers, AnswerPost(w) PROVE CopilotInv'
<1>1. PICK posture \in DraftPostures : CopilotGoesOn(w, Drafted(copilotJob[w], posture))
  BY DEF AnswerPost
<1>2. posture \in Drafts
  BY DEF DraftPostures, DraftStatus, ClaimedStates, Drafts
<1>3. copilotJob[w].phase = "posting" /\ freeSlots' = freeSlots + 1
      /\ UNCHANGED copilotTables
  BY DEF AnswerPost, SlotsAfter
<1>4. /\ CopilotJobOK(Drafted(copilotJob[w], posture), packets, reviews)
      /\ Drafted(copilotJob[w], posture).phase # "posting"
  BY <1>2, <1>3, DraftedOK
<1> QED
  BY <1>1, <1>3, <1>4, CopilotJobStep

LEMMA RetryPostOK ==
    ASSUME CopilotInv, NEW w \in CopilotWorkers, RetryPost(w) PROVE CopilotInv'
<1> DEFINE job == [copilotJob[w] EXCEPT !.attempts = copilotJob[w].attempts + 1]
<1>1. CopilotJobOK(copilotJob[w], packets, reviews) /\ copilotJob[w].phase = "posting"
  BY DEF RetryPost, CopilotInv
<1>2. copilotJob[w] \in [phase : {"posting"}, key : RunKeys \cup {None},
                         run : RunId, attempts : Nat]
  BY <1>1, JobByPhase DEF CopilotJobOK
<1>3. /\ job \in [phase : {"posting"}, key : RunKeys \cup {None}, run : RunId,
                  attempts : Nat]
      /\ job.phase = "posting" /\ job.run = copilotJob[w].run
      /\ job.attempts = copilotJob[w].attempts + 1
  BY <1>2
<1>4. job \in CopilotJob
  BY <1>3 DEF CopilotJob
<1>5. CopilotJobOK(job, packets, reviews)
  BY <1>1, <1>3, <1>4, RunningJob
     DEF CopilotJobOK, RetryPost, RunPhases, DraftPhases, ReviewPhases
<1>6. CopilotGoesOn(w, job)
  BY DEF RetryPost, CopilotGoesOn
<1> QED
  BY <1>1, <1>3, <1>5, <1>6, CopilotJobStep DEF RetryPost

LEMMA PersistRunOK ==
    ASSUME CopilotInv, NEW w \in CopilotWorkers, PersistRun(w) PROVE CopilotInv'
<1>1. CopilotJobOK(copilotJob[w], packets, reviews) /\ copilotJob[w].phase = "persist"
  BY DEF PersistRun, CopilotInv
<1>2. copilotJob[w] \in [phase : DraftPhases, key : RunKeys \cup {None},
                         run : RunId, row : RunRow]
  BY <1>1, JobByPhase DEF CopilotJobOK, DraftPhases
<1>3. ASSUME NEW phase \in {"insert", "refresh"},
             CopilotGoesOn(w, [copilotJob[w] EXCEPT !.phase = phase])
      PROVE  CopilotInv'
  <2> DEFINE job == [copilotJob[w] EXCEPT !.phase = phase]
  <2>1. /\ job \in [phase : DraftPhases, key : RunKeys \cup {None}, run : RunId,
                    row : RunRow]
        /\ job.phase = phase /\ job.run = copilotJob[w].run
        /\ job.row = copilotJob[w].row
    BY <1>2, <1>3 DEF DraftPhases
  <2>2. job \in CopilotJob
    BY <2>1 DEF CopilotJob
  <2>3. CopilotJobOK(job, packets, reviews)
    BY <1>1, <1>3, <2>1, <2>2
       DEF CopilotJobOK, RunPhases, DraftPhases, ReviewPhases
  <2> QED
    BY <1>1, <1>3, <2>1, <2>3, CopilotJobStep DEF PersistRun
<1>4. CASE CopilotEnds(w)
  BY <1>1, <1>4, CopilotEndStep DEF PersistRun
<1> QED
  BY <1>3, <1>4 DEF PersistRun

\* A row is stored, or kept, in a table that is right.
LEMMA RunStored ==
    ASSUME CopilotInv, NEW r \in RunId, NEW row, EvidenceOK(r, packets),
           RowOK(r, row, reviews)
    PROVE  LET next == [runs EXCEPT ![r] = row]
           IN  /\ DOMAIN next = RunId /\ next = [q \in RunId |-> next[q]]
               /\ RunsOK(next, packets, reviews)
BY DEF CopilotInv, CopilotTablesOK, RunsOK

\* The draft of a worker that stores it is a right row.
LEMMA DraftRowOK ==
    ASSUME CopilotInv, NEW w \in CopilotWorkers, copilotJob[w].phase \in DraftPhases
    PROVE  RowOK(copilotJob[w].run, copilotJob[w].row, reviews)
<1>1. CopilotJobOK(copilotJob[w], packets, reviews) /\ copilotJob[w] \in CopilotJob
  BY DEF CopilotInv, CopilotJobOK
<1>2. copilotJob[w].row \in RunRow
  BY <1>1, JobByPhase
<1> QED
  BY <1>1, <1>2 DEF CopilotJobOK, RowOK

LEMMA InsertRunOK ==
    ASSUME CopilotInv, NEW w \in CopilotWorkers, InsertRun(w) PROVE CopilotInv'
<1> DEFINE job == copilotJob[w]
<1>1. /\ job.phase = "insert" /\ job.phase \in DraftPhases
      /\ packets' = packets /\ reviews' = reviews /\ freeSlots' = freeSlots
      /\ CopilotGoesOn(w, IdleCopilotJob)
      /\ runs' = [runs EXCEPT ![job.run] =
                      IF runs[job.run] = None THEN job.row ELSE runs[job.run]]
  BY DEF InsertRun, DraftPhases, CopilotEnds, CopilotGoesOn
<1>2. job.run \in RunId /\ EvidenceOK(job.run, packets)
  BY <1>1, RunningJob
<1>3. RowOK(job.run, IF runs[job.run] = None THEN job.row ELSE runs[job.run],
            reviews)
  BY <1>1, <1>2, DraftRowOK DEF CopilotInv, RunsOK
<1>4. /\ DOMAIN runs' = RunId /\ runs' = [r \in RunId |-> runs'[r]]
      /\ RunsOK(runs', packets, reviews)
  BY <1>1, <1>2, <1>3, RunStored
<1>5. Kept(packets, packets')
  BY <1>1 DEF Kept
<1> QED
  BY <1>1, <1>4, <1>5, IdleCopilotJobOK, CopilotTableStep
     DEF CopilotInv, CopilotTablesOK, IdleCopilotJob

LEMMA RefreshRunOK ==
    ASSUME CopilotInv, NEW w \in CopilotWorkers, RefreshRun(w) PROVE CopilotInv'
<1> DEFINE job == copilotJob[w]
<1>1. /\ job.phase = "refresh" /\ job.phase \in DraftPhases
      /\ packets' = packets /\ reviews' = reviews /\ freeSlots' = freeSlots
      /\ CopilotGoesOn(w, IdleCopilotJob)
      /\ runs' = [runs EXCEPT ![job.run] = job.row]
  BY DEF RefreshRun, DraftPhases, CopilotEnds, CopilotGoesOn
<1>2. job.run \in RunId /\ EvidenceOK(job.run, packets)
  BY <1>1, RunningJob
<1>3. /\ DOMAIN runs' = RunId /\ runs' = [r \in RunId |-> runs'[r]]
      /\ RunsOK(runs', packets, reviews)
  BY <1>1, <1>2, DraftRowOK, RunStored
<1>4. Kept(packets, packets')
  BY <1>1 DEF Kept
<1> QED
  BY <1>1, <1>3, <1>4, IdleCopilotJobOK, CopilotTableStep
     DEF CopilotInv, CopilotTablesOK, IdleCopilotJob

LEMMA ReadRunOK ==
    ASSUME CopilotInv, NEW w \in CopilotWorkers, ReadRun(w) PROVE CopilotInv'
<1>1. PICK r \in {q \in RunId : runs[q] # None}, request \in ReviewRequests :
          /\ MayReview(r, request.actor)
          /\ CopilotGoesOn(w, [phase |-> "review", run |-> r, row |-> runs[r],
                               request |-> request])
  BY DEF ReadRun
<1> DEFINE job == [phase |-> "review", run |-> r, row |-> runs[r],
                   request |-> request]
<1>2. EvidenceOK(r, packets) /\ RowOK(r, runs[r], reviews)
  BY DEF CopilotInv, RunsOK
<1>3. job \in CopilotJob
  BY <1>2 DEF CopilotJob, RowOK, ReviewPhases
<1>4. CopilotJobOK(job, packets, reviews)
  BY <1>1, <1>2, <1>3
     DEF CopilotJobOK, MayReview, RunPhases, DraftPhases, ReviewPhases
<1> QED
  BY <1>1, <1>4, CopilotJobStep DEF ReadRun, IdleCopilotJob

\* What is known of a worker in a review
LEMMA ReviewingJob ==
    ASSUME CopilotInv, NEW w \in CopilotWorkers, copilotJob[w].phase \in ReviewPhases
    PROVE  /\ copilotJob[w] \in [phase : ReviewPhases, run : RunId, row : RunRow,
                                 request : ReviewRequests]
           /\ EvidenceOK(copilotJob[w].run, packets)
           /\ copilotJob[w].request.actor # copilotJob[w].run.by
           /\ RowOK(copilotJob[w].run, copilotJob[w].row, reviews)
           /\ copilotJob[w].request.posture \in ReviewPostures
<1>1. CopilotJobOK(copilotJob[w], packets, reviews) /\ copilotJob[w] \in CopilotJob
  BY DEF CopilotInv, CopilotJobOK
<1>2. copilotJob[w] \in [phase : ReviewPhases, run : RunId, row : RunRow,
                         request : ReviewRequests]
  BY <1>1, JobByPhase
<1>3. copilotJob[w].request.posture \in ReviewPostures
  BY <1>2, CopilotAssumption DEF CopilotAssumption, ReviewRequest
<1> QED
  BY <1>1, <1>2, <1>3 DEF CopilotJobOK

\* A worker in a review that goes on to the next phase is right.
LEMMA ReviewGoesOn ==
    ASSUME CopilotInv, NEW w \in CopilotWorkers,
           copilotJob[w].phase \in ReviewPhases,
           copilotJob[w].row.posture = "REVIEW_REQUIRED",
           NEW phase \in {"append", "update"}, NEW recorded,
           reviews \subseteq recorded,
           phase = "update" => [run |-> copilotJob[w].run,
                                request |-> copilotJob[w].request] \in recorded
    PROVE  LET job == [copilotJob[w] EXCEPT !.phase = phase]
           IN  CopilotJobOK(job, packets, recorded) /\ job.phase = phase
<1> DEFINE job == [copilotJob[w] EXCEPT !.phase = phase]
<1>1. /\ copilotJob[w] \in [phase : ReviewPhases, run : RunId, row : RunRow,
                            request : ReviewRequests]
      /\ EvidenceOK(copilotJob[w].run, packets)
      /\ copilotJob[w].request.actor # copilotJob[w].run.by
      /\ RowOK(copilotJob[w].run, copilotJob[w].row, reviews)
  BY ReviewingJob
<1>2. /\ job \in [phase : ReviewPhases, run : RunId, row : RunRow,
                  request : ReviewRequests]
      /\ job.phase = phase /\ job.run = copilotJob[w].run
      /\ job.row = copilotJob[w].row /\ job.request = copilotJob[w].request
  BY <1>1 DEF ReviewPhases
<1>3. job \in CopilotJob /\ RowOK(job.run, job.row, recorded)
  BY <1>1, <1>2, RowStays DEF CopilotJob
<1> QED
  BY <1>1, <1>2, <1>3 DEF CopilotJobOK, RunPhases, DraftPhases, ReviewPhases

LEMMA CheckReviewOK ==
    ASSUME CopilotInv, NEW w \in CopilotWorkers, CheckReview(w) PROVE CopilotInv'
<1>1. copilotJob[w].phase = "review" /\ copilotJob[w].phase \in ReviewPhases
  BY DEF CheckReview, ReviewPhases
<1>2. CASE /\ copilotJob[w].row.posture = "REVIEW_REQUIRED"
           /\ CopilotGoesOn(w, [copilotJob[w] EXCEPT !.phase = "append"])
  <2>1. /\ CopilotJobOK([copilotJob[w] EXCEPT !.phase = "append"], packets, reviews)
        /\ [copilotJob[w] EXCEPT !.phase = "append"].phase = "append"
    BY <1>1, <1>2, ReviewGoesOn
  <2> QED
    BY <1>1, <1>2, <2>1, CopilotJobStep DEF CheckReview
<1>3. CASE CopilotEnds(w)
  BY <1>1, <1>3, CopilotEndStep DEF CheckReview
<1> QED
  BY <1>2, <1>3 DEF CheckReview

LEMMA AppendReviewOK ==
    ASSUME CopilotInv, NEW w \in CopilotWorkers, AppendReview(w) PROVE CopilotInv'
<1> DEFINE review == [run |-> copilotJob[w].run, request |-> copilotJob[w].request]
           job == [copilotJob[w] EXCEPT !.phase = "update"]
<1>1. /\ copilotJob[w].phase = "append" /\ copilotJob[w].phase \in ReviewPhases
      /\ copilotJob[w].row.posture = "REVIEW_REQUIRED"
      /\ packets' = packets /\ runs' = runs /\ runKeys' = runKeys
      /\ freeSlots' = freeSlots
  BY DEF AppendReview, ReviewPhases, CopilotInv, CopilotJobOK
<1>2. CASE CopilotEnds(w) /\ reviews' = reviews
  BY <1>1, <1>2, CopilotEndStep DEF copilotTables
<1>3. CASE reviews' = reviews \cup {review} /\ CopilotGoesOn(w, job)
  <2>1. CopilotJobOK(job, packets, reviews') /\ job.phase = "update"
    <3> DEFINE recorded == reviews \cup {review}
    <3>1. reviews \subseteq recorded /\ review \in recorded
      OBVIOUS
    <3>2. CopilotJobOK(job, packets, recorded) /\ job.phase = "update"
      <4> HIDE DEF recorded
      <4> QED
        BY <1>1, <3>1, ReviewGoesOn
    <3> QED
      BY <1>3, <3>2
  <2>2. Kept(packets, packets') /\ reviews \subseteq reviews'
    BY <1>1, <1>3 DEF Kept
  <2>3. RunsOK(runs', packets', reviews')
    BY <1>1, <2>2, RunsStay DEF CopilotInv
  <2>4. /\ packets' \in [Packets -> PacketContents \cup {None}]
        /\ DOMAIN runs' = RunId /\ runs' = [r \in RunId |-> runs'[r]]
    BY <1>1 DEF CopilotInv, CopilotTablesOK
  <2> QED
    BY <1>1, <1>3, <2>1, <2>2, <2>3, <2>4, CopilotTableStep
<1> QED
  BY <1>2, <1>3 DEF AppendReview

LEMMA UpdateReviewedOK ==
    ASSUME CopilotInv, NEW w \in CopilotWorkers, UpdateReviewedRun(w)
    PROVE  CopilotInv'
<1> DEFINE job == copilotJob[w]
           row == [job.row EXCEPT !.posture = job.request.posture]
<1>1. /\ job.phase = "update" /\ job.phase \in ReviewPhases
      /\ job.row.posture = "REVIEW_REQUIRED"
      /\ [run |-> job.run, request |-> job.request] \in reviews
      /\ packets' = packets /\ reviews' = reviews /\ freeSlots' = freeSlots
      /\ CopilotGoesOn(w, IdleCopilotJob)
      /\ runs' = [runs EXCEPT ![job.run] = row]
  BY DEF UpdateReviewedRun, Reviewed, ReviewPhases, CopilotInv, CopilotJobOK,
     CopilotEnds, CopilotGoesOn
<1>2. /\ job.run \in RunId /\ job.row \in RunRow /\ EvidenceOK(job.run, packets)
      /\ job.request.actor # job.run.by /\ RowOK(job.run, job.row, reviews)
      /\ job.request.posture \in ReviewPostures
  BY <1>1, ReviewingJob
<1>3. job.row.draft = "REVIEW_REQUIRED"
  BY <1>1, <1>2 DEF RowOK, ReviewPostures
<1>4. row \in RunRow /\ row.posture = job.request.posture
      /\ row.draft = "REVIEW_REQUIRED"
  BY <1>2, <1>3 DEF RunRow
<1>5. RowOK(job.run, row, reviews)
  BY <1>1, <1>2, <1>4 DEF RowOK
<1>6. /\ DOMAIN runs' = RunId /\ runs' = [r \in RunId |-> runs'[r]]
      /\ RunsOK(runs', packets, reviews)
  BY <1>1, <1>2, <1>5, RunStored
<1>7. Kept(packets, packets')
  BY <1>1 DEF Kept
<1> QED
  BY <1>1, <1>6, <1>7, IdleCopilotJobOK, CopilotTableStep
     DEF CopilotInv, CopilotTablesOK, IdleCopilotJob

LEMMA CopilotDiesOK ==
    ASSUME CopilotInv, NEW w \in CopilotWorkers, CopilotWorkerDies(w)
    PROVE  CopilotInv'
BY IdleCopilotJobOK, CopilotJobStep
   DEF CopilotWorkerDies, CopilotEnds, CopilotGoesOn, IdleCopilotJob, SlotsAfter

-----------------------------------------------------------------------------
\* Theorems.

\* Whatever the workers do, packets, rows, reviews, slots and what each worker
\* holds fit together: see CopilotInv.
THEOREM CopilotInvariant == CopilotSpec => []CopilotInv
<1>1. CopilotInit => CopilotInv
  BY CopilotInitOK
<1>2. ASSUME CopilotInv, [CopilotNext]_copilotVars PROVE CopilotInv'
  <2>1. ASSUME NEW w \in CopilotWorkers, ReadPacket(w) \/ WritePacket(w)
        PROVE  CopilotInv'
    BY <1>2, <2>1, ReadPacketOK, WritePacketOK
  <2>2. ASSUME NEW w \in CopilotWorkers,
               \/ LoadPacket(w) \/ ResolveReplay(w) \/ TakeSlot(w)
               \/ AnswerPost(w) \/ RetryPost(w)
        PROVE  CopilotInv'
    BY <1>2, <2>2, LoadPacketOK, ResolveReplayOK, TakeSlotOK, AnswerPostOK,
       RetryPostOK
  <2>3. ASSUME NEW w \in CopilotWorkers,
               PersistRun(w) \/ InsertRun(w) \/ RefreshRun(w)
        PROVE  CopilotInv'
    BY <1>2, <2>3, PersistRunOK, InsertRunOK, RefreshRunOK
  <2>4. ASSUME NEW w \in CopilotWorkers,
               \/ ReadRun(w) \/ CheckReview(w) \/ AppendReview(w)
               \/ UpdateReviewedRun(w)
        PROVE  CopilotInv'
    BY <1>2, <2>4, ReadRunOK, CheckReviewOK, AppendReviewOK, UpdateReviewedOK
  <2>5. ASSUME NEW w \in CopilotWorkers, CopilotWorkerDies(w) PROVE CopilotInv'
    BY <1>2, <2>5, CopilotDiesOK
  <2>6. CASE UNCHANGED copilotVars
    BY <1>2, <2>6
       DEF copilotVars, CopilotInv, CopilotTablesOK, Posting
  <2> QED
    BY <1>2, <2>1, <2>2, <2>3, <2>4, <2>5, <2>6 DEF CopilotNext
<1> QED
  BY <1>1, <1>2, PTL DEF CopilotSpec

\* A reviewed posture always has its review, by another actor, and stands on a
\* draft that asked for one.
THEOREM CopilotReviewsCorrect == CopilotSpec => []ReviewsStandOnDrafts
<1>1. ASSUME CopilotInv PROVE ReviewsStandOnDrafts
  <2> SUFFICES ASSUME NEW r \in RunId, runs[r] # None,
                      runs[r].posture \in ReviewPostures
               PROVE  /\ runs[r].draft = "REVIEW_REQUIRED"
                      /\ \E review \in reviews :
                            /\ review.run = r
                            /\ review.request.posture = runs[r].posture
                            /\ review.request.actor # r.by
    BY DEF ReviewsStandOnDrafts
  <2>1. RowOK(r, runs[r], reviews)
    BY <1>1 DEF CopilotInv, RunsOK
  <2>2. runs[r].posture \notin Drafts
    BY DEF ReviewPostures, Drafts
  <2> QED
    BY <2>1, <2>2 DEF RowOK
<1> QED
  BY <1>1, CopilotInvariant, PTL

\* The packet of a run that is not a projection keeps the content of the run.
THEOREM CopilotEvidenceKept == CopilotSpec => []RunsKeepTheirEvidence
<1>1. ASSUME CopilotInv PROVE RunsKeepTheirEvidence
  BY <1>1 DEF CopilotInv, RunsOK, EvidenceOK, RunsKeepTheirEvidence
<1> QED
  BY <1>1, CopilotInvariant, PTL

\* The slots that are not free are held by calls under way.
THEOREM CopilotSlotsReturned == CopilotSpec => []SlotsAreReturned
<1>1. ASSUME CopilotInv PROVE SlotsAreReturned
  <2>1. freeSlots + Cardinality(Posting) = AiSlots
    BY <1>1 DEF CopilotInv
  <2>2. \A w \in Posting : copilotJob[w].attempts < AiAttempts
    BY <1>1 DEF CopilotInv, CopilotJobOK, Posting
  <2> QED
    BY <2>1, <2>2 DEF SlotsAreReturned, Posting
<1> QED
  BY <1>1, CopilotInvariant, PTL

=============================================================================
