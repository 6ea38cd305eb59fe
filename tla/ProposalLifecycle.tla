-------------------------- MODULE ProposalLifecycle --------------------------
(***************************************************************************)
(* The lifecycle commands of core/proposals, as served concurrently by     *)
(* API worker threads of several processes over one PostgreSQL repository. *)
(*                                                                         *)
(* A command takes its timestamp, reads the proposal, reads its history,   *)
(* decides, and commits with a compare-and-set on the state and version it *)
(* read.  Each of these is a step of its own, because the commands of      *)
(* other workers run in between.  A new version is stored by a first       *)
(* transaction and published by a second.  A worker may die between any    *)
(* two steps; what it committed stays.                                     *)
(*                                                                         *)
(* A request carries its Idempotency-Key header.  Its hash is the request  *)
(* itself: hash_canonical_payload is taken to be injective, and hashes are *)
(* compared under one key only.  Of the free reason or details of a        *)
(* request the model keeps the idempotency_key that may be noted there: an *)
(* event takes it over when there is no header, without a request hash.    *)
(* An execution_request_id stands for the pair of request id and provider  *)
(* that a handoff records.                                                 *)
(***************************************************************************)
EXTENDS ProposalRepository, FiniteSets

CONSTANTS
    Clients,                \* API workers, each serving one command at a time
    Keys,                   \* Idempotency-Key header values
    UpdateIds,              \* update_id values of execution updates
    RequestIds,             \* execution request ids
    GeneratedRequestIds,    \* those that new_execution_request_id may return
    Times,                  \* occurred_at values an execution update supplies
    Requests,               \* the requests that clients send
    RequireExpectedState    \* require_expected_state of the service

-----------------------------------------------------------------------------
\* Requests.

TransitionRequest ==
    [op : {"transition"}, idempotency_key : Keys \cup {None},
     noted_key : Keys \cup {None},
     related_version_no : VersionNumbers \cup {None},
     event_type : WorkflowEventTypes,
     expected_state : WorkflowStates \cup {None}]

ApprovalRequest ==
    [op : {"approval"}, idempotency_key : Keys \cup {None},
     noted_key : Keys \cup {None},
     related_version_no : VersionNumbers \cup {None},
     approval_type : ApprovalTypes, approved : BOOLEAN,
     expected_state : WorkflowStates \cup {None}]

VersionRequest ==
    [op : {"version"}, expected_current_version_no : VersionNumbers \cup {None}]

HandoffRequest ==
    [op : {"handoff"}, idempotency_key : Keys \cup {None},
     related_version_no : VersionNumbers \cup {None},
     external_request_id : RequestIds \cup {None},
     expected_state : WorkflowStates \cup {None}]

UpdateRequest ==
    [op : {"update"}, update_id : UpdateIds, execution_request_id : RequestIds,
     related_version_no : VersionNumbers \cup {None},
     update_status : ExecutionUpdateStatuses, occurred_at : Times \cup {None}]

ReviewRequest ==
    [op : {"review"}, idempotency_key : Keys \cup {None},
     version_no : VersionNumbers]

ReportRequest ==
    [op : {"report"}, related_version_no : VersionNumbers \cup {None}]

LifecycleRequest ==
    UNION {TransitionRequest, ApprovalRequest, VersionRequest, HandoffRequest,
           UpdateRequest, ReviewRequest, ReportRequest}

ASSUME LifecycleAssumption ==
    /\ Requests \subseteq LifecycleRequest /\ None \notin Requests
    /\ GeneratedRequestIds \subseteq RequestIds
    /\ None \notin Keys \cup UpdateIds \cup RequestIds
    /\ Keys \cap UpdateIds = {}
    /\ Times \subseteq Nat
    /\ None \notin Nat
    /\ RequireExpectedState \in BOOLEAN

IdempotencyKeys == Keys \cup UpdateIds

WorkflowEvent ==
    [event_type : WorkflowEventTypes, from_state : WorkflowStates \cup {None},
     to_state : WorkflowStates, occurred_at : Nat,
     related_version_no : VersionNumbers \cup {None},
     execution_request_id : RequestIds \cup {None},
     idempotency_key : IdempotencyKeys \cup {None},
     request_hash : Requests \cup {None}]

Approval ==
    [approval_type : ApprovalTypes, approved : BOOLEAN, occurred_at : Nat,
     related_version_no : VersionNumbers \cup {None},
     idempotency_key : IdempotencyKeys \cup {None},
     request_hash : Requests \cup {None}]

\* A row is never taken for an absent one.
ASSUME RowAssumption == None \notin Approval

VARIABLE cmd    \* what the worker of each client holds in memory

vars == <<proposal, versions, events, approvals, cmd>>

Phases == {"idle", "received", "loaded", "built", "stored"}

Command ==
    [phase : Phases, request : Requests \cup {None}, now : Nat,
     read : ProposalRecord \cup {None}, event : WorkflowEvent \cup {None},
     approval : Approval \cup {None}, row : VersionIds \cup {None}]

Idle == [phase |-> "idle", request |-> None, now |-> 0, read |-> None,
         event |-> None, approval |-> None, row |-> None]

Init ==
    /\ RepositoryInit
    /\ cmd = [c \in Clients |-> Idle]

-----------------------------------------------------------------------------
\* Receiving a request and reading the proposal.

\* The optional header for commands that take one; an execution update brings
\* its key itself (build_execution_update_idempotency_key); new versions and
\* report requests have none.
KeyOf(request) ==
    CASE request.op \in {"transition", "approval", "handoff", "review"}
           -> request.idempotency_key
      [] request.op = "update" -> request.update_id
      [] OTHER -> None

\* The key in the event and the approval that a request records: a header
\* replaces the key noted in their JSON, which stays otherwise.
RecordedKey(request) ==
    IF KeyOf(request) = None /\ request.op \in {"transition", "approval"}
      THEN request.noted_key ELSE KeyOf(request)

\* The hash is recorded with the header only.
RecordedHash(request) == IF KeyOf(request) = None THEN None ELSE request

\* The route hands a request to the service, which takes utc_now() before it
\* reads anything.  The clock is the number of events committed so far.
Receive(c) ==
    /\ cmd[c].phase = "idle"
    /\ cmd' = [cmd EXCEPT ![c] =
                  [Idle EXCEPT !.phase = "received", !.now = Len(events)]]
    /\ UNCHANGED repositoryVars

\* load_proposal_command_read_model and its siblings.  What the request is
\* matters from here on.
Load(c) ==
    /\ cmd[c].phase = "received"
    /\ \E request \in Requests :
          cmd' = [cmd EXCEPT ![c].phase = "loaded", ![c].read = proposal,
                             ![c].request = request]
    /\ UNCHANGED repositoryVars

Loaded(c, op) == cmd[c].phase = "loaded" /\ cmd[c].request.op = op

-----------------------------------------------------------------------------
\* Idempotent replay.

\* _metadata_matches_replay for a row under the key of the command: it answers
\* the request unless it was recorded with the hash of another one.
MatchesReplay(cm, row) == row.request_hash \in {None, cm.request}

\* The history that a command searches for its key.
KeyedHistory(cm) ==
    IF cm.request.op = "review"
      THEN {i \in KeyedEvents(KeyOf(cm.request)) :
                events[i].event_type = "NARRATIVE_REVIEWED"}
      ELSE KeyedEvents(KeyOf(cm.request))

\* Has the command been recorded before, or does its key belong to another?
\* An approval looks for its key among the approvals only.
KeyTaken(cm) ==
    IF cm.request.op = "approval" THEN KeyedApprovals(KeyOf(cm.request)) # {}
                                  ELSE KeyedHistory(cm) # {}

HandoffEvents ==
    {i \in DOMAIN events : events[i].event_type = "EXECUTION_REQUESTED"}

\* validate_execution_update_handoff_identity against the latest handoff h
IdentifiesHandoff(cm, h) ==
    /\ h \in LatestEvents(HandoffEvents)
    /\ events[h].execution_request_id = cm.request.execution_request_id

\* find_replayed_approval, find_replayed_event: the latest rows with the key
\* answer the request.  The response is built from them; nothing is written.
Replay(c) ==
    /\ cmd[c].phase = "loaded"
    /\ KeyTaken(cmd[c])
    /\ cmd[c].request.op = "approval" =>
          \E a \in LatestApprovals(KeyedApprovals(KeyOf(cmd[c].request))) :
              MatchesReplay(cmd[c], approvals[a])
    /\ cmd[c].request.op = "update" =>
          \E h \in DOMAIN events : IdentifiesHandoff(cmd[c], h)
    /\ \E i \in LatestEvents(KeyedHistory(cmd[c])) :
          MatchesReplay(cmd[c], events[i])
    /\ cmd' = [cmd EXCEPT ![c] = Idle]
    /\ UNCHANGED repositoryVars

-----------------------------------------------------------------------------
\* Deciding and building the rows to commit.

ExpectedStateHolds(cm) ==
    /\ RequireExpectedState => cm.request.expected_state # None
    /\ cm.request.expected_state \in {None, cm.read.state}

\* payload.related_version_no or a default
RelatedVersion(cm, default) ==
    IF cm.request.related_version_no = None THEN default
                                            ELSE cm.request.related_version_no

\* The event a command records for the state it has read.
BuildEvent(cm, event_type, to_state, at, related, execution_request_id) ==
    [event_type |-> event_type, from_state |-> cm.read.state,
     to_state |-> to_state, occurred_at |-> at,
     related_version_no |-> related,
     execution_request_id |-> execution_request_id,
     idempotency_key |-> RecordedKey(cm.request),
     request_hash |-> RecordedHash(cm.request)]

Build(c, event, approval, row) ==
    /\ cmd' = [cmd EXCEPT ![c].phase = "built", ![c].event = event,
                          ![c].approval = approval, ![c].row = row]
    /\ UNCHANGED repositoryVars

TransitionAdmitted(cm) ==
    /\ ExpectedStateHolds(cm)
    /\ \E to_state \in WorkflowStates :
          ResolvesTransition(cm.read.state, cm.request.event_type, to_state)

\* transition_proposal_state
BuildTransition(c) ==
    /\ Loaded(c, "transition")
    /\ ~KeyTaken(cmd[c])
    /\ TransitionAdmitted(cmd[c])
    /\ \E to_state \in WorkflowStates :
          /\ ResolvesTransition(cmd[c].read.state, cmd[c].request.event_type,
                                to_state)
          /\ Build(c, BuildEvent(cmd[c], cmd[c].request.event_type, to_state,
                                 cmd[c].now, cmd[c].request.related_version_no,
                                 None),
                   None, None)

ApprovalAdmitted(cm) ==
    /\ ExpectedStateHolds(cm)
    /\ \E event_type \in WorkflowEventTypes, to_state \in WorkflowStates :
          ResolvesApproval(cm.read.state, cm.request.approval_type,
                           cm.request.approved, event_type, to_state)

BuildApprovalRecord(cm) ==
    [approval_type |-> cm.request.approval_type,
     approved |-> cm.request.approved, occurred_at |-> cm.now,
     related_version_no |-> cm.request.related_version_no,
     idempotency_key |-> RecordedKey(cm.request),
     request_hash |-> RecordedHash(cm.request)]

\* record_proposal_approval
BuildApproval(c) ==
    /\ Loaded(c, "approval")
    /\ ~KeyTaken(cmd[c])
    /\ ApprovalAdmitted(cmd[c])
    /\ \E event_type \in WorkflowEventTypes, to_state \in WorkflowStates :
          /\ ResolvesApproval(cmd[c].read.state, cmd[c].request.approval_type,
                              cmd[c].request.approved, event_type, to_state)
          /\ Build(c, BuildEvent(cmd[c], event_type, to_state, cmd[c].now,
                                 cmd[c].request.related_version_no, None),
                   BuildApprovalRecord(cmd[c]), None)

\* validate_create_version_state without the terminal check
VersionAdmittedAnyState(cm) ==
    cm.request.expected_current_version_no \in {None, cm.read.version}

\* validate_create_version_state
VersionAdmitted(cm) ==
    /\ cm.read.state \notin TERMINAL_STATES
    /\ cm.request.expected_current_version_no \in {None, cm.read.version}

\* A fresh proposal_version_id: none that a row or a worker has.
FreshVersionIds ==
    {row \in VersionIds :
        /\ \A n \in VersionNumbers : versions[n] # row
        /\ \A c \in Clients : cmd[c].row # row}

\* create_proposal_version, up to the first write
BuildVersion(c) ==
    /\ Loaded(c, "version")
    /\ VersionAdmitted(cmd[c])
    /\ cmd[c].read.version < MaxVersions
    /\ FreshVersionIds # {}
    /\ Build(c, BuildEvent(cmd[c], "NEW_VERSION_CREATED", "DRAFT", cmd[c].now,
                           cmd[c].read.version + 1, None),
             None, CHOOSE row \in FreshVersionIds : TRUE)

\* validate_execution_handoff_ready
HandoffAdmitted(cm) ==
    /\ ExpectedStateHolds(cm)
    /\ cm.read.state = "EXECUTION_READY"

\* payload.external_request_id or new_execution_request_id()
ExecutionRequestIds(cm) ==
    IF cm.request.external_request_id # None
      THEN {cm.request.external_request_id}
      ELSE {id \in GeneratedRequestIds :
              /\ \A i \in DOMAIN events : events[i].execution_request_id # id
              /\ \A c \in Clients : cmd[c].event # None =>
                    cmd[c].event.execution_request_id # id}

\* request_proposal_execution_handoff
BuildHandoff(c) ==
    /\ Loaded(c, "handoff")
    /\ ~KeyTaken(cmd[c])
    /\ HandoffAdmitted(cmd[c])
    /\ \E id \in ExecutionRequestIds(cmd[c]) :
          Build(c, BuildEvent(cmd[c], "EXECUTION_REQUESTED", "EXECUTION_READY",
                              cmd[c].now,
                              RelatedVersion(cmd[c], cmd[c].read.version), id),
                None, None)

\* resolve_execution_update_occurred_at
UpdateOccurredAt(cm) ==
    IF cm.request.occurred_at = None THEN cm.now ELSE cm.request.occurred_at

\* the admission of an update that does not look at the proposal's state
UpdateAdmittedAnyState(cm, h) == UpdateOccurredAt(cm) >= events[h].occurred_at

\* the admission of an update that does not look at the handoff's time
UpdateAdmittedAnyTime(cm, h) == cm.read.state \notin TERMINAL_STATES

\* validate_execution_update_state and ..._occurred_after_handoff
UpdateAdmitted(cm, h) ==
    /\ cm.read.state \notin TERMINAL_STATES
    /\ UpdateOccurredAt(cm) >= events[h].occurred_at

\* record_proposal_execution_update
BuildUpdate(c) ==
    /\ Loaded(c, "update")
    /\ ~KeyTaken(cmd[c])
    /\ \E h \in DOMAIN events :
          /\ IdentifiesHandoff(cmd[c], h)
          /\ UpdateAdmitted(cmd[c], h)
          /\ \E event_type \in WorkflowEventTypes, to_state \in WorkflowStates :
                /\ ResolvesExecutionUpdate(cmd[c].request.update_status,
                                           event_type, to_state)
                /\ Build(c, BuildEvent(cmd[c], event_type, to_state,
                                       UpdateOccurredAt(cmd[c]),
                                       RelatedVersion(cmd[c],
                                          events[h].related_version_no),
                                       cmd[c].request.execution_request_id),
                         None, None)

\* record_narrative_review_event: a version of the proposal, in any state; the
\* timestamp is taken after the reads.
BuildReview(c) ==
    /\ Loaded(c, "review")
    /\ ~KeyTaken(cmd[c])
    /\ versions[cmd[c].request.version_no] # None
    /\ Build(c, BuildEvent(cmd[c], "NARRATIVE_REVIEWED", cmd[c].read.state,
                           Len(events), cmd[c].request.version_no, None),
             None, None)

\* _related_version_no: the version asked for, else the current one
ReportedVersion(cm) == RelatedVersion(cm, cm.read.version)

\* the admission of a report for any version that has a row
ReportAdmittedIfStored(cm) == versions[ReportedVersion(cm)] # None

ReportAdmitted(cm) ==
    /\ ReportedVersion(cm) <= cm.read.version
    /\ versions[ReportedVersion(cm)] # None

\* request_proposal_report, record_proposal_report_request: the report is for a
\* version chosen from the first read, the event for the proposal read again
\* after the call to the report service.
BuildReport(c) ==
    /\ Loaded(c, "report")
    /\ ReportAdmitted(cmd[c])
    /\ cmd' = [cmd EXCEPT
          ![c].phase = "built", ![c].read = proposal,
          ![c].event = BuildEvent([cmd[c] EXCEPT !.read = proposal],
                                  "REPORT_REQUESTED", proposal.state,
                                  Len(events), ReportedVersion(cmd[c]), None)]
    /\ UNCHANGED repositoryVars

\* The key was used for another payload.
KeyConflict(cm) ==
    \/ /\ cm.request.op = "approval"
       /\ \E a \in LatestApprovals(KeyedApprovals(KeyOf(cm.request))) :
             ~MatchesReplay(cm, approvals[a])
    \/ /\ KeyTaken(cm)
       /\ \E i \in LatestEvents(KeyedHistory(cm)) : ~MatchesReplay(cm, events[i])

\* The update names no handoff, or not the latest one.
UnidentifiedUpdate(cm) ==
    /\ cm.request.op = "update"
    /\ \/ HandoffEvents = {}
       \/ \E h \in LatestEvents(HandoffEvents) : ~IdentifiesHandoff(cm, h)

Admitted(cm) ==
    CASE cm.request.op = "transition" -> TransitionAdmitted(cm)
      [] cm.request.op = "approval"   -> ApprovalAdmitted(cm)
      [] cm.request.op = "version"    -> VersionAdmitted(cm)
      [] cm.request.op = "handoff"    -> HandoffAdmitted(cm)
      [] cm.request.op = "update"     ->
            \A h \in LatestEvents(HandoffEvents) : UpdateAdmitted(cm, h)
      [] cm.request.op = "review"     -> versions[cm.request.version_no] # None
      [] cm.request.op = "report"     -> ReportAdmitted(cm)

\* The error answers: the command writes nothing.
Refuse(c) ==
    /\ cmd[c].phase = "loaded"
    /\ \/ KeyConflict(cmd[c])
       \/ UnidentifiedUpdate(cmd[c])
       \/ ~KeyTaken(cmd[c]) /\ ~Admitted(cmd[c])
    /\ cmd' = [cmd EXCEPT ![c] = Idle]
    /\ UNCHANGED repositoryVars

-----------------------------------------------------------------------------
\* Committing.

\* the record with the event type where the state belongs
UpdatedRecordMixedUp(cm) ==
    [state |-> cm.event.event_type, version |-> cm.read.version]

\* the record of a command that applies the new-version state whatever it is
UpdatedRecordNextVersion(cm) ==
    [state |-> cm.event.to_state, version |-> cm.read.version + 1]

\* The record that the command writes: a new version moves the version number
\* (apply_new_version_lifecycle_state), the others only the state.
UpdatedRecord(cm) ==
    [state |-> cm.event.to_state,
     version |-> IF cm.request.op = "version" THEN cm.read.version + 1
                                              ELSE cm.read.version]

\* persist_created_proposal_version, first transaction
StoreVersion(c) ==
    /\ cmd[c].phase = "built"
    /\ cmd[c].request.op = "version"
    /\ CreateVersion(cmd[c].read.version + 1, cmd[c].row)
    /\ cmd' = [cmd EXCEPT ![c].phase = "stored"]

\* PROPOSAL_VERSION_IDENTITY_CONFLICT: the number has a row already.
LoseVersion(c) ==
    /\ cmd[c].phase = "built"
    /\ cmd[c].request.op = "version"
    /\ versions[cmd[c].read.version + 1] # None
    /\ cmd' = [cmd EXCEPT ![c] = Idle]
    /\ UNCHANGED repositoryVars

ReadyToCommit(c) ==
    cmd[c].phase = IF cmd[c].request # None /\ cmd[c].request.op = "version"
                     THEN "stored" ELSE "built"

\* persist_proposal_transition and its siblings
Commit(c) ==
    /\ ReadyToCommit(c)
    /\ TransitionProposal(cmd[c].read, UpdatedRecord(cmd[c]), cmd[c].event,
                          cmd[c].approval)
    /\ cmd' = [cmd EXCEPT ![c] = Idle]

\* The transaction is rolled back: STATE_CONFLICT, because the proposal aggregate
\* changed during the transition, or a violation of the foreign key.
LoseCommit(c) ==
    /\ ReadyToCommit(c)
    /\ \/ proposal # cmd[c].read
       \/ ~ReferencesStoredVersion(cmd[c].event)
    /\ cmd' = [cmd EXCEPT ![c] = Idle]
    /\ UNCHANGED repositoryVars

\* The worker dies with what it holds in memory, or an earlier step of it
\* raises an error that nothing handles.
Crash(c) ==
    /\ cmd[c].phase # "idle"
    /\ cmd' = [cmd EXCEPT ![c] = Idle]
    /\ UNCHANGED repositoryVars

Next ==
    \E c \in Clients :
        \/ Receive(c) \/ Load(c)
        \/ Replay(c) \/ Refuse(c)
        \/ BuildTransition(c) \/ BuildApproval(c) \/ BuildVersion(c)
        \/ BuildHandoff(c) \/ BuildUpdate(c) \/ BuildReview(c) \/ BuildReport(c)
        \/ StoreVersion(c) \/ LoseVersion(c)
        \/ Commit(c) \/ LoseCommit(c)
        \/ Crash(c)

Spec == Init /\ [][Next]_vars

-----------------------------------------------------------------------------
\* Properties.

\* Every variable and every command in flight has its type: the rows satisfy
\* the CHECK constraints of migration 0010.
TypeOK ==
    /\ proposal \in ProposalRecord
    /\ versions \in [VersionNumbers -> VersionIds \cup {None}]
    /\ events \in Seq(WorkflowEvent)
    /\ approvals \in Seq(Approval)
    /\ cmd \in [Clients -> Command]

\* In commit order the audit trail is an unbroken chain of states that ends in
\* the state of the proposal, whatever commands raced: no event of a command
\* that lost its compare-and-set is in it, and no transition is without one.
HistoryMatchesState ==
    /\ events # <<>>
    /\ events[1].from_state = None
    /\ \A i \in 2 .. Len(events) : events[i].from_state = events[i-1].to_state
    /\ proposal.state = events[Len(events)].to_state

MovesState(event) == event.from_state # event.to_state

\* Two commands that carry one Idempotency-Key move the proposal at most once,
\* however they interleave.  The one exception is an approval, which looks for
\* its key among the approvals only and so may follow another kind of command.
KeyMovesOnce ==
    \A i, j \in DOMAIN events :
        /\ i < j
        /\ events[i].request_hash # None /\ events[j].request_hash # None
        /\ events[i].idempotency_key = events[j].idempotency_key
        /\ MovesState(events[i])
        /\ MovesState(events[j])
        => /\ events[j].request_hash.op = "approval"
           /\ events[i].request_hash.op # "approval"

\* Every version number up to the current one has its row, so that the current
\* version can be read; at most one more row exists, the one of a new version
\* that is stored and not (or never) published.
VersionRowsBackProposal ==
    /\ \A n \in 1 .. proposal.version : versions[n] # None
    /\ \A n \in VersionNumbers :
          n > proposal.version + 1 => versions[n] = None

\* A version row is never replaced or removed once it is stored, also when two
\* workers create the same version number.
VersionRowsImmutable ==
    [][\A n \in VersionNumbers :
          versions[n] # None => versions'[n] = versions[n]]_vars

\* No step takes a proposal out of a terminal state or gives it a new version
\* there, including the steps of commands that read it before it got there.
TerminalIsFinal ==
    [][proposal.state \in TERMINAL_STATES => proposal' = proposal]_vars

\* The events since the last new version.
CurrentVersionEvents ==
    {i \in DOMAIN events :
        \A j \in DOMAIN events :
            j > i => events[j].event_type # "NEW_VERSION_CREATED"}

\* A proposal that is ready for execution, or executed, has had a risk or
\* compliance approval and then the client's consent, both for its current
\* version (RFC-0013 section 7, transition rules).
ConsentForCurrentVersion ==
    proposal.state \in {"EXECUTION_READY", "EXECUTED", "EXPIRED"} =>
        \E i, j \in CurrentVersionEvents :
            /\ i < j
            /\ events[i].event_type \in {"RISK_APPROVED", "COMPLIANCE_APPROVED"}
            /\ events[j].event_type = "CLIENT_CONSENT_RECORDED"

\* An approval row exists only together with an event of its own that records
\* the decision: the transaction of a command that lost leaves no approval.
ApprovalsAreRecorded ==
    \E recordedBy \in [DOMAIN approvals -> DOMAIN events] :
        /\ \A a, b \in DOMAIN approvals : a < b => recordedBy[a] < recordedBy[b]
        /\ \A a \in DOMAIN approvals :
              /\ events[recordedBy[a]].occurred_at = approvals[a].occurred_at
              /\ ResolvesApproval(events[recordedBy[a]].from_state,
                                  approvals[a].approval_type,
                                  approvals[a].approved,
                                  events[recordedBy[a]].event_type,
                                  events[recordedBy[a]].to_state)

\* Every downstream update in the trail answers a handoff that was committed
\* before it under the same request id, and does not claim to have happened
\* earlier than that handoff.
UpdatesFollowHandoff ==
    \A i \in DOMAIN events :
        events[i].idempotency_key \in UpdateIds =>
            \E h \in 1 .. i - 1 :
                /\ events[h].event_type = "EXECUTION_REQUESTED"
                /\ events[h].execution_request_id = events[i].execution_request_id
                /\ events[h].occurred_at <= events[i].occurred_at

OutcomeEventTypes ==
    {"EXECUTED", "EXECUTION_REJECTED", "EXECUTION_CANCELLED",
     "EXECUTION_EXPIRED"}

\* Execution ends once: two final outcomes reported at the same time, or one
\* reported twice, leave one of them in the trail.
OneExecutionOutcome ==
    \A i, j \in DOMAIN events :
        /\ events[i].event_type \in OutcomeEventTypes
        /\ events[j].event_type \in OutcomeEventTypes
        => i = j

\* An update_id is ingested at most once.
UpdateRecordedOnce ==
    \A i, j \in DOMAIN events :
        /\ events[i].idempotency_key \in UpdateIds
        /\ events[i].idempotency_key = events[j].idempotency_key
        => i = j

\* A downstream update is recorded for the version that was handed over under
\* its request id (RFC-0017: inconsistent updates surface as exceptions).
UpdatesNameHandedVersion ==
    \A i \in DOMAIN events :
        events[i].idempotency_key \in UpdateIds =>
            \E h \in 1 .. i - 1 :
                /\ events[h].event_type = "EXECUTION_REQUESTED"
                /\ events[h].execution_request_id = events[i].execution_request_id
                /\ events[h].related_version_no = events[i].related_version_no

CreatesVersion(i) ==
    events[i].event_type \in {"CREATED", "NEW_VERSION_CREATED"}

\* In commit order the trail announces the versions 1, 2, 3 ... without a gap or
\* a repetition, and the proposal is at the last one announced: neither two
\* racing new versions nor a review, report or transition that read the proposal
\* before a new version was published sets the number back.
VersionMatchesTrail ==
    /\ \A i, j \in DOMAIN events :
          /\ i < j /\ CreatesVersion(i) /\ CreatesVersion(j)
          /\ \A k \in i + 1 .. j - 1 : ~CreatesVersion(k)
          => events[j].related_version_no = events[i].related_version_no + 1
    /\ \E i \in DOMAIN events :
          /\ CreatesVersion(i)
          /\ events[i].related_version_no = proposal.version
          /\ \A k \in i + 1 .. Len(events) : ~CreatesVersion(k)

\* The version that the proposal had when event i was recorded
PublishedVersion(i) ==
    1 + Cardinality({j \in 1 .. i : events[j].event_type = "NEW_VERSION_CREATED"})

\* A report is recorded for a version that was published by then, never for one
\* that is stored but belongs to a command which did not commit.
ReportsNamePublishedVersions ==
    \A i \in DOMAIN events :
        events[i].event_type = "REPORT_REQUESTED" =>
            events[i].related_version_no <= PublishedVersion(i)

\* When no worker is between its two transactions, the latest version row is
\* the version that the proposal and its trail call current.
NoOrphanVersion ==
    (\A c \in Clients : cmd[c].phase # "stored") =>
        CurrentVersionNo = proposal.version

\* The trail as the abstract specification sees it.
AuditTrail ==
    [i \in DOMAIN events |-> [event_type |-> events[i].event_type,
                              from_state |-> events[i].from_state,
                              to_state   |-> events[i].to_state]]

Aggregate ==
    INSTANCE ProposalAggregate WITH current <- proposal, trail <- AuditTrail

\* However commands interleave, the committed state, version and trail move as
\* if one legal command ran at a time: each commit is a legal step from the
\* state that is current when it commits, not from the one the worker read.
ImplementsAggregate == Aggregate!Spec

=============================================================================
