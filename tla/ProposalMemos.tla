---------------------------- MODULE ProposalMemos ----------------------------
(***************************************************************************)
(* The memos of a proposal: their creation under an Idempotency-Key, and   *)
(* the reviews, report packages and AI commentaries recorded for them      *)
(* (core/proposals/memo_persistence.py, memo_api.py,                       *)
(* memo_external_request_operations.py, memo_event_recording.py).          *)
(*                                                                         *)
(* A memo is kept as what it is unique by, its proposal version.  Before a *)
(* keyed event is appended its request is reserved: the reservation row is *)
(* inserted unless it exists and then has to say the same.  Between the    *)
(* reservation and the event the report or AI service is called.           *)
(*                                                                         *)
(* Events are listed by occurred_at, the time at which the request came    *)
(* in: here its number.                                                    *)
(***************************************************************************)
EXTENDS Values, Naturals, Sequences, FiniteSets

CONSTANTS
    MemoWorkers,
    MemoVersions,       \* proposal versions
    MemoKeys,           \* idempotency keys
    MemoContents,       \* what a request says beside version and key
    MemoRequests,       \* the requests that are sent
    MaxMemoRequests     \* bound on the requests that come in

ReviewActions == {"APPROVE_FOR_ADVISOR_USE", "REQUEST_CHANGES", "REJECT"}

MemoOps == {"create", "review", "record", "report", "ai"}

\* A creation needs a key; a review is told apart by its action.
MemoRequest ==
    [op : MemoOps, version : MemoVersions, key : MemoKeys \cup {None},
     content : MemoContents \cup ReviewActions]

ASSUME MemoAssumption ==
    /\ MaxMemoRequests \in Nat
    /\ None \notin MemoKeys /\ None \notin MemoVersions /\ None \notin MemoRequests
    /\ MemoRequests \subseteq MemoRequest
    /\ \A r \in MemoRequests :
          /\ r.op = "create" => r.key # None
          /\ r.op = "review" <=> r.content \in ReviewActions

VARIABLES
    memos,          \* the versions that have a proposal_memos row
    memoEvents,     \* proposal_memo_events, in commit order
    memoKeys,       \* creation rows of proposal_memo_idempotency
    reservations,   \* event rows of proposal_memo_idempotency
    memoJob,        \* what each worker is doing
    memoReports,    \* packages the report service accepted, by request id
    memoArrivals    \* how many requests have come in

memoVars == <<memos, memoEvents, memoKeys, reservations, memoJob, memoReports,
              memoArrivals>>

\* MEMO_DRAFT_CREATED or MEMO_FINALIZED, MEMO_REVIEW_RECORDED,
\* MEMO_REPORT_PACKAGE_RECORDED, MEMO_AI_REFERENCE_RECORDED
MemoEventType(op) ==
    CASE op = "create" -> "created"
      [] op = "review" -> "review"
      [] op \in {"record", "report"} -> "report"
      [] op = "ai" -> "ai"

IdleMemoJob == [phase |-> "idle", request |-> None, at |-> 0]

MemoInit ==
    /\ memos = {}
    /\ memoEvents = <<>>
    /\ memoKeys = [k \in MemoKeys |-> None]
    /\ reservations = [r \in {"review", "report", "ai"} \X MemoVersions \X MemoKeys
                          |-> None]
    /\ memoJob = [w \in MemoWorkers |-> IdleMemoJob]
    /\ memoReports = {}
    /\ memoArrivals = 0

MemoPhase(w, phase) == memoJob' = [memoJob EXCEPT ![w].phase = phase]

MemoEnds(w) == memoJob' = [memoJob EXCEPT ![w] = IdleMemoJob]

\* The tables of the memos
memoTables == <<memos, memoEvents, memoKeys, reservations>>

ReceiveMemoRequest(w) ==
    /\ memoJob[w].phase = "idle"
    /\ memoArrivals < MaxMemoRequests
    /\ memoArrivals' = memoArrivals + 1
    /\ \E request \in MemoRequests :
          memoJob' = [memoJob EXCEPT ![w] =
              [phase |-> IF request.op = "create" THEN "key" ELSE "check",
               request |-> request, at |-> memoArrivals']]
    /\ UNCHANGED <<memoTables, memoReports>>

-----------------------------------------------------------------------------
\* create_or_replay_proposal_memo

\* The key was used: its memo answers a request for the same version and
\* content, another request is refused.
AnswerByMemoKey(w) ==
    /\ memoJob[w].phase = "key" /\ memoKeys[memoJob[w].request.key] # None
    /\ MemoEnds(w)
    /\ UNCHANGED <<memoTables, memoReports, memoArrivals>>

MemoKeyIsFree(w) ==
    /\ memoJob[w].phase = "key" /\ memoKeys[memoJob[w].request.key] = None
    /\ MemoPhase(w, "memo")
    /\ UNCHANGED <<memoTables, memoReports, memoArrivals>>

LookUpMemo(w) ==
    /\ memoJob[w].phase = "memo"
    /\ MemoPhase(w, IF memoJob[w].request.version \in memos THEN "mapping"
                    ELSE "inserting")
    /\ UNCHANGED <<memoTables, memoReports, memoArrivals>>

\* insert_memo_idempotency: ON CONFLICT DO NOTHING
KeyMapped(request) ==
    IF memoKeys[request.key] = None
    THEN [memoKeys EXCEPT ![request.key] = request] ELSE memoKeys

\* _existing_memo_result: the new key is mapped to the memo that exists.
MapMemoKey(w) ==
    /\ memoJob[w].phase = "mapping"
    /\ memoKeys' = KeyMapped(memoJob[w].request)
    /\ MemoEnds(w)
    /\ UNCHANGED <<memos, memoEvents, reservations, memoReports, memoArrivals>>

\* A table without the unique constraint
MemoAlwaysInsertable(version) == TRUE

\* UNIQUE (proposal_id, proposal_version_no)
MemoInsertable(version) == version \notin memos

EventOf(w) ==
    LET request == memoJob[w].request
    IN  [type |-> MemoEventType(request.op), request |-> request,
         at |-> memoJob[w].at]

\* create_memo_with_idempotency_event: one transaction
CreateMemo(w) ==
    LET request == memoJob[w].request IN
    /\ memoJob[w].phase = "inserting" /\ MemoInsertable(request.version)
    /\ memos' = memos \cup {request.version}
    /\ memoKeys' = KeyMapped(request)
    /\ memoEvents' = Append(memoEvents, EventOf(w))
    /\ MemoEnds(w)
    /\ UNCHANGED <<reservations, memoReports, memoArrivals>>

\* The insert violates the constraint and is rolled back.
CreateMemoFails(w) ==
    /\ memoJob[w].phase = "inserting"
    /\ ~MemoInsertable(memoJob[w].request.version)
    /\ MemoEnds(w)
    /\ UNCHANGED <<memoTables, memoReports, memoArrivals>>

-----------------------------------------------------------------------------
\* Events of a memo

EventsFor(version) ==
    {i \in DOMAIN memoEvents : memoEvents[i].request.version = version}

\* require_advisor_use_review: the review listed last is an approval.
ApprovedForUse(version) ==
    LET reviews == {i \in EventsFor(version) : memoEvents[i].type = "review"}
    IN  \E i \in reviews :
            /\ memoEvents[i].request.content = "APPROVE_FOR_ADVISOR_USE"
            /\ \A j \in reviews : memoEvents[j].at <= memoEvents[i].at

\* The first reads: the memo exists, and a package or a commentary needs an
\* approved review.
MemoCheckPasses(request) ==
    /\ request.version \in memos
    /\ request.op \in {"report", "ai"} => ApprovedForUse(request.version)

CheckMemo(w) ==
    LET request == memoJob[w].request IN
    /\ memoJob[w].phase = "check"
    /\ IF ~MemoCheckPasses(request) THEN MemoEnds(w)
       ELSE MemoPhase(w, IF request.key # None THEN "finding"
                         ELSE IF request.op \in {"report", "ai"} THEN "calling"
                         ELSE "appending")
    /\ UNCHANGED <<memoTables, memoReports, memoArrivals>>

\* find_or_reserve_memo_event: an event of the memo that carries the key is
\* the answer, or a conflict.
KeyFound(request) ==
    \E i \in EventsFor(request.version) : memoEvents[i].request.key = request.key

FindMemoEvent(w) ==
    LET request == memoJob[w].request IN
    /\ memoJob[w].phase \in {"finding", "findingAgain"}
    /\ IF KeyFound(request) THEN MemoEnds(w)
       ELSE MemoPhase(w, IF memoJob[w].phase = "finding" THEN "reserving"
                         ELSE "reservingAgain")
    /\ UNCHANGED <<memoTables, memoReports, memoArrivals>>

ReservationOf(request) ==
    <<MemoEventType(request.op), request.version, request.key>>

\* The row is not read back
ReservesAnyway(request) == TRUE

\* _persist_memo_event_reservation: the row that is read back says the same.
Reserves(request) == reservations[ReservationOf(request)] \in {None, request}

ReserveMemoEvent(w) ==
    LET request == memoJob[w].request
        row == reservations[ReservationOf(request)]
    IN
    /\ memoJob[w].phase \in {"reserving", "reservingAgain"}
    /\ reservations' = [reservations EXCEPT ![ReservationOf(request)] =
                            IF row = None THEN request ELSE row]
    /\ IF ~Reserves(request) THEN MemoEnds(w)
       ELSE MemoPhase(w, IF memoJob[w].phase = "reserving"
                            /\ request.op \in {"report", "ai"}
                         THEN "calling" ELSE "appending")
    /\ UNCHANGED <<memos, memoEvents, memoKeys, memoReports, memoArrivals>>

\* A new id for every request
FreshReportRequestId(request, at) == at

\* _memo_downstream_operation_identity: fixed by memo and key, when there is
\* a key.
ReportRequestId(request, at) == IF request.key = None THEN at ELSE request.key

\* The service accepts the request.  A report service that fails ends the
\* request (MemoWorkerDies); an AI service that fails is recorded as such.
CallMemoService(w) ==
    LET request == memoJob[w].request IN
    /\ memoJob[w].phase = "calling"
    /\ memoReports' = IF request.op = "ai" THEN memoReports
                      ELSE memoReports \cup
                        {[version |-> request.version, key |-> request.key,
                          id |-> ReportRequestId(request, memoJob[w].at)]}
    /\ MemoPhase(w, IF request.key = None THEN "appending" ELSE "findingAgain")
    /\ UNCHANGED <<memoTables, memoArrivals>>

AppendMemoEvent(w) ==
    /\ memoJob[w].phase = "appending"
    /\ memoEvents' = Append(memoEvents, EventOf(w))
    /\ MemoEnds(w)
    /\ UNCHANGED <<memos, memoKeys, reservations, memoReports, memoArrivals>>

MemoWorkerDies(w) ==
    /\ memoJob[w].phase # "idle"
    /\ MemoEnds(w)
    /\ UNCHANGED <<memoTables, memoReports, memoArrivals>>

MemoNext ==
    \E w \in MemoWorkers :
        \/ ReceiveMemoRequest(w) \/ AnswerByMemoKey(w) \/ MemoKeyIsFree(w)
        \/ LookUpMemo(w) \/ MapMemoKey(w) \/ CreateMemo(w) \/ CreateMemoFails(w)
        \/ CheckMemo(w) \/ FindMemoEvent(w) \/ ReserveMemoEvent(w)
        \/ CallMemoService(w) \/ AppendMemoEvent(w) \/ MemoWorkerDies(w)

MemoSpec == MemoInit /\ [][MemoNext]_memoVars

-----------------------------------------------------------------------------
\* Properties.

\* A version has one memo and one creation event, both or neither, however
\* many creations overlap; and a key that was mapped names a memo that exists,
\* so that MEMO_IDEMPOTENCY_RECORD_ORPHANED is never raised.
MemoCreatedOnce ==
    /\ \A v \in MemoVersions :
          Cardinality({i \in EventsFor(v) : memoEvents[i].type = "created"})
              = IF v \in memos THEN 1 ELSE 0
    /\ \A k \in MemoKeys : memoKeys[k] # None => memoKeys[k].version \in memos

\* Events of one type that a memo records under one key all carry the same
\* request, also when requests overlap and one of them was retried.
MemoKeyBindsRequest ==
    \A i, j \in DOMAIN memoEvents :
        LET a == memoEvents[i]
            b == memoEvents[j]
        IN  (/\ a.type = b.type /\ a.type # "created"
             /\ a.request.version = b.request.version
             /\ a.request.key = b.request.key /\ a.request.key # None)
            => a.request = b.request

\* However often a report package is requested under one key, and whichever
\* attempt dies after the call, the report service sees one request id.
OneReportPerMemoKey ==
    \A a, b \in memoReports :
        (a.version = b.version /\ a.key = b.key /\ a.key # None) => a = b

=============================================================================
