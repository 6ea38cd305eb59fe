----------------------- MODULE ProposalLifecycleProofs -----------------------
(***************************************************************************)
(* Theorems of ProposalLifecycle, for every set of clients, keys, requests *)
(* and rows and for every bound: types, history and rows, what a step may  *)
(* never do, and that ProposalLifecycle implements ProposalAggregate.      *)
(***************************************************************************)
EXTENDS ProposalLifecycle, TLAPS, SequenceTheorems

Deciding == {"loaded", "built", "stored"}
Holding == {"built", "stored"}

\* What a worker holds is coherent: the event it is about to commit starts in
\* the state it read, leaves a terminal state alone, and belongs to a new
\* version exactly when the request asks for one.
CommandCoherent(cm) ==
    /\ cm.phase \in Deciding =>
          cm.request \in Requests /\ cm.read \in ProposalRecord
    /\ cm.phase \in Holding =>
          /\ cm.event \in WorkflowEvent
          /\ cm.event.from_state = cm.read.state
          /\ cm.read.state \in TERMINAL_STATES =>
                cm.event.to_state = cm.read.state /\ cm.request.op # "version"
          /\ cm.request.op = "version" =>
                cm.read.version < MaxVersions /\ cm.row \in VersionIds
    /\ cm.phase = "stored" => cm.request.op = "version"

\* What a worker has read is not ahead of the repository, and a version that it
\* has stored has its row.
CommandBehind(cm) ==
    /\ cm.phase \in Deciding => cm.read.version <= proposal.version
    /\ cm.phase = "stored" => versions[cm.read.version + 1] # None

\* The inductive invariant.
LifecycleInv ==
    /\ TypeOK
    /\ \A c \in Clients : CommandCoherent(cmd[c])
    /\ \A c \in Clients : CommandBehind(cmd[c])
    /\ HistoryMatchesState
    /\ VersionRowsBackProposal

-----------------------------------------------------------------------------
\* Lemmas about the operators that build what a command commits.

\* The key of every request is a key, or absent.
LEMMA KeyOfType ==
    ASSUME NEW request \in LifecycleRequest
    PROVE  KeyOf(request) \in IdempotencyKeys \cup {None}
BY DEF LifecycleRequest, TransitionRequest, ApprovalRequest, VersionRequest,
       HandoffRequest, UpdateRequest, ReviewRequest, ReportRequest, KeyOf,
       IdempotencyKeys

\* So is the key that a request records, and the hash is of a request.
LEMMA RecordedType ==
    ASSUME NEW request \in Requests
    PROVE  /\ RecordedKey(request) \in IdempotencyKeys \cup {None}
           /\ RecordedHash(request) \in Requests \cup {None}
<1>1. request \in LifecycleRequest
  BY LifecycleAssumption
<1>2. KeyOf(request) \in IdempotencyKeys \cup {None}
  BY <1>1, KeyOfType
<1>3. request.op \in {"transition", "approval"} =>
         request.noted_key \in IdempotencyKeys \cup {None}
  BY <1>1 DEF LifecycleRequest, TransitionRequest, ApprovalRequest,
       VersionRequest, HandoffRequest, UpdateRequest, ReviewRequest,
       ReportRequest, IdempotencyKeys
<1> QED
  BY <1>2, <1>3 DEF RecordedKey, RecordedHash

\* An event built from well-typed parts is a row that the table accepts.
LEMMA BuildEventType ==
    ASSUME NEW cm, cm.request \in Requests, cm.read \in ProposalRecord,
           NEW event_type \in WorkflowEventTypes,
           NEW to_state \in WorkflowStates, NEW at \in Nat,
           NEW related \in VersionNumbers \cup {None},
           NEW id \in RequestIds \cup {None}
    PROVE  /\ BuildEvent(cm, event_type, to_state, at, related, id)
                 \in WorkflowEvent
           /\ BuildEvent(cm, event_type, to_state, at, related, id).from_state
                 = cm.read.state
<1>1. /\ RecordedKey(cm.request) \in IdempotencyKeys \cup {None}
      /\ RecordedHash(cm.request) \in Requests \cup {None}
  BY RecordedType
<1>2. cm.read.state \in WorkflowStates
  BY DEF ProposalRecord
<1> QED
  BY <1>1, <1>2 DEF BuildEvent, WorkflowEvent

\* No workflow rule applies in a terminal state.
LEMMA RulesLeaveTerminalStates ==
    /\ \A s, e, t : ResolvesTransition(s, e, t) => s \notin TERMINAL_STATES
    /\ \A s, a, b, e, t : ResolvesApproval(s, a, b, e, t) =>
          s \notin TERMINAL_STATES
BY DEF ResolvesTransition, ResolvesApproval, TRANSITION_MAP,
       APPROVAL_TRANSITION_RULES, TERMINAL_STATES, WorkflowStates

\* A step of one worker that leaves the database alone keeps the invariant if
\* what the worker holds afterwards is well typed, coherent and not ahead.
LEMMA CommandStep ==
    ASSUME LifecycleInv, NEW c \in Clients, UNCHANGED repositoryVars,
           cmd' = [cmd EXCEPT ![c] = cmd'[c]], cmd'[c] \in Command,
           CommandCoherent(cmd'[c]), CommandBehind(cmd'[c])
    PROVE  LifecycleInv'
<1>1. TypeOK'
  BY DEF LifecycleInv, TypeOK, repositoryVars
<1>2. \A d \in Clients : CommandCoherent(cmd'[d])
  BY DEF LifecycleInv, TypeOK
<1>3. \A d \in Clients : CommandBehind(cmd[d])'
  BY DEF LifecycleInv, TypeOK, CommandBehind, repositoryVars
<1>4. HistoryMatchesState' /\ VersionRowsBackProposal'
  BY DEF LifecycleInv, HistoryMatchesState, VersionRowsBackProposal,
         repositoryVars
<1> QED
  BY <1>1, <1>2, <1>3, <1>4 DEF LifecycleInv

\* Back to idle: after an error, a crash, or a lost race.
LEMMA ToIdle ==
    ASSUME LifecycleInv, NEW c \in Clients, UNCHANGED repositoryVars,
           cmd' = [cmd EXCEPT ![c] = Idle]
    PROVE  LifecycleInv'
<1>1. cmd'[c] = Idle /\ cmd' = [cmd EXCEPT ![c] = cmd'[c]]
  BY DEF LifecycleInv, TypeOK
<1>2. Idle \in Command
  BY DEF Idle, Command, Phases
<1>3. CommandCoherent(Idle) /\ CommandBehind(Idle)
  BY DEF Idle, CommandCoherent, CommandBehind, Deciding, Holding
<1> QED
  BY <1>1, <1>2, <1>3, CommandStep

-----------------------------------------------------------------------------
\* The steps of one worker.

\* A decision that starts in the state that was read, moves no terminal state
\* and, for a new version, stays within the bound keeps the invariant.
LEMMA BuildStep ==
    ASSUME LifecycleInv, NEW c \in Clients, cmd[c].phase = "loaded",
           NEW event \in WorkflowEvent, event.from_state = cmd[c].read.state,
           NEW approval \in Approval \cup {None},
           NEW row \in VersionIds \cup {None},
           cmd[c].read.state \in TERMINAL_STATES =>
              event.to_state = cmd[c].read.state /\ cmd[c].request.op # "version",
           cmd[c].request.op = "version" =>
              cmd[c].read.version < MaxVersions /\ row \in VersionIds,
           Build(c, event, approval, row)
    PROVE  LifecycleInv'
<1> DEFINE cm == [cmd[c] EXCEPT !.phase = "built", !.event = event,
                                !.approval = approval, !.row = row]
<1>1. cmd[c] \in Command /\ CommandCoherent(cmd[c]) /\ CommandBehind(cmd[c])
  BY DEF LifecycleInv, TypeOK
<1>2. cm \in Command
  BY <1>1 DEF Command, Phases
<1>3. cmd' = [cmd EXCEPT ![c] = cm] /\ cmd'[c] = cm
  BY <1>1 DEF Build, LifecycleInv, TypeOK, Command
<1>4. CommandCoherent(cm)
  BY <1>1 DEF CommandCoherent, Command, Deciding, Holding
<1>5. CommandBehind(cm)
  BY <1>1 DEF CommandBehind, Command, Deciding
<1>6. UNCHANGED repositoryVars
  BY DEF Build
<1> QED
  BY <1>2, <1>3, <1>4, <1>5, <1>6, CommandStep

\* A worker that takes a request keeps the invariant: it holds nothing yet.
LEMMA ReceiveStep ==
    ASSUME LifecycleInv, NEW c \in Clients, Receive(c)
    PROVE  LifecycleInv'
<1> DEFINE cm == [Idle EXCEPT !.phase = "received", !.now = Len(events)]
<1>1. cmd' = [cmd EXCEPT ![c] = cm] /\ cmd'[c] = cm
  BY DEF Receive, LifecycleInv, TypeOK
<1>2. Len(events) \in Nat
  BY DEF LifecycleInv, TypeOK
<1>3. cm \in Command
  BY <1>2 DEF Idle, Command, Phases
<1>4. CommandCoherent(cm) /\ CommandBehind(cm)
  BY DEF Idle, CommandCoherent, CommandBehind, Deciding, Holding
<1> QED
  BY <1>1, <1>3, <1>4, CommandStep DEF Receive

\* Reading the proposal keeps the invariant: what is read is current.
LEMMA LoadStep ==
    ASSUME LifecycleInv, NEW c \in Clients, Load(c)
    PROVE  LifecycleInv'
<1>1. PICK request \in Requests :
         cmd' = [cmd EXCEPT ![c].phase = "loaded", ![c].read = proposal,
                            ![c].request = request]
  BY DEF Load
<1> DEFINE cm == [cmd[c] EXCEPT !.phase = "loaded", !.read = proposal,
                                !.request = request]
<1>2. cmd[c] \in Command /\ proposal \in ProposalRecord
  BY DEF LifecycleInv, TypeOK
<1>3. cmd' = [cmd EXCEPT ![c] = cm] /\ cmd'[c] = cm
  BY <1>1, <1>2 DEF LifecycleInv, TypeOK, Command
<1>4. cm \in Command
  BY <1>2 DEF Command, Phases
<1>5. CommandCoherent(cm) /\ CommandBehind(cm)
  BY <1>2 DEF Command, CommandCoherent, CommandBehind, Deciding, Holding,
              ProposalRecord, VersionNumbers
<1> QED
  BY <1>3, <1>4, <1>5, CommandStep DEF Load

\* A command that ends without a write keeps the invariant.
LEMMA GiveUpStep ==
    ASSUME LifecycleInv, NEW c \in Clients,
           \/ Replay(c) \/ Refuse(c)
           \/ LoseVersion(c) \/ LoseCommit(c) \/ Crash(c)
    PROVE  LifecycleInv'
BY ToIdle DEF Replay, Refuse, LoseVersion, LoseCommit, Crash

\* What every deciding step may use of the request, the read and the clock.
LEMMA Decided ==
    ASSUME LifecycleInv, NEW c \in Clients, cmd[c].phase = "loaded"
    PROVE  /\ cmd[c].request \in Requests
           /\ cmd[c].request \in LifecycleRequest
           /\ cmd[c].read \in ProposalRecord
           /\ cmd[c].now \in Nat
           /\ Len(events) \in Nat
           /\ None \in VersionNumbers \cup {None}
           /\ None \in RequestIds \cup {None}
BY LifecycleAssumption
DEF LifecycleInv, TypeOK, Command, CommandCoherent, Deciding

\* Building a transition keeps the invariant: its event starts at the state read.
LEMMA BuildTransitionStep ==
    ASSUME LifecycleInv, NEW c \in Clients, BuildTransition(c)
    PROVE  LifecycleInv'
<1>1. cmd[c].phase = "loaded" /\ cmd[c].request.op = "transition"
  BY DEF BuildTransition, Loaded
<1>2. PICK to_state \in WorkflowStates :
         /\ ResolvesTransition(cmd[c].read.state, cmd[c].request.event_type,
                               to_state)
         /\ Build(c, BuildEvent(cmd[c], cmd[c].request.event_type, to_state,
                                cmd[c].now, cmd[c].request.related_version_no,
                                None),
                  None, None)
  BY DEF BuildTransition
<1>3. /\ cmd[c].request.event_type \in WorkflowEventTypes
      /\ cmd[c].request.related_version_no \in VersionNumbers \cup {None}
  BY <1>1, Decided
  DEF LifecycleRequest, TransitionRequest, ApprovalRequest, VersionRequest,
      HandoffRequest, UpdateRequest, ReviewRequest, ReportRequest
<1>4. cmd[c].read.state \notin TERMINAL_STATES
  BY <1>2, RulesLeaveTerminalStates
<1> DEFINE event == BuildEvent(cmd[c], cmd[c].request.event_type, to_state,
                               cmd[c].now, cmd[c].request.related_version_no,
                               None)
<1>5. event \in WorkflowEvent /\ event.from_state = cmd[c].read.state
  <2>1. /\ cmd[c].request \in Requests
        /\ cmd[c].read \in ProposalRecord
        /\ cmd[c].now \in Nat
        /\ None \in RequestIds \cup {None}
    BY <1>1, Decided
  <2>2. /\ to_state \in WorkflowStates
        /\ cmd[c].request.event_type \in WorkflowEventTypes
        /\ cmd[c].request.related_version_no \in VersionNumbers \cup {None}
    BY <1>2, <1>3
  <2> QED
    BY <2>1, <2>2, BuildEventType
<1> HIDE DEF event
<1>6. Build(c, event, None, None)
  BY <1>2 DEF event
<1> QED
  BY <1>1, <1>4, <1>5, <1>6, BuildStep

\* Building an approval and its event keeps the invariant.
LEMMA BuildApprovalStep ==
    ASSUME LifecycleInv, NEW c \in Clients, BuildApproval(c)
    PROVE  LifecycleInv'
<1>1. cmd[c].phase = "loaded" /\ cmd[c].request.op = "approval"
  BY DEF BuildApproval, Loaded
<1>2. PICK event_type \in WorkflowEventTypes, to_state \in WorkflowStates :
         /\ ResolvesApproval(cmd[c].read.state, cmd[c].request.approval_type,
                             cmd[c].request.approved, event_type, to_state)
         /\ Build(c, BuildEvent(cmd[c], event_type, to_state, cmd[c].now,
                                cmd[c].request.related_version_no, None),
                  BuildApprovalRecord(cmd[c]), None)
  BY DEF BuildApproval
<1>3. /\ cmd[c].request.approval_type \in ApprovalTypes
      /\ cmd[c].request.approved \in BOOLEAN
      /\ cmd[c].request.related_version_no \in VersionNumbers \cup {None}
  BY <1>1, Decided
  DEF LifecycleRequest, TransitionRequest, ApprovalRequest, VersionRequest,
      HandoffRequest, UpdateRequest, ReviewRequest, ReportRequest
<1>4. /\ RecordedKey(cmd[c].request) \in IdempotencyKeys \cup {None}
      /\ RecordedHash(cmd[c].request) \in Requests \cup {None}
  BY <1>1, Decided, RecordedType
<1>5. BuildApprovalRecord(cmd[c]) \in Approval
  BY <1>1, <1>3, <1>4, Decided DEF BuildApprovalRecord, Approval
<1>6. cmd[c].read.state \notin TERMINAL_STATES
  BY <1>2, RulesLeaveTerminalStates
<1> DEFINE event == BuildEvent(cmd[c], event_type, to_state, cmd[c].now,
                               cmd[c].request.related_version_no, None)
<1>7. event \in WorkflowEvent /\ event.from_state = cmd[c].read.state
  <2>1. /\ cmd[c].request \in Requests
        /\ cmd[c].read \in ProposalRecord
        /\ cmd[c].now \in Nat
        /\ None \in RequestIds \cup {None}
    BY <1>1, Decided
  <2>2. event_type \in WorkflowEventTypes /\ to_state \in WorkflowStates
    BY <1>2
  <2> QED
    BY <1>3, <2>1, <2>2, BuildEventType
<1> HIDE DEF event
<1>8. Build(c, event, BuildApprovalRecord(cmd[c]), None)
  BY <1>2 DEF event
<1>9. /\ BuildApprovalRecord(cmd[c]) \in Approval \cup {None}
      /\ None \in VersionIds \cup {None}
      /\ cmd[c].request.op # "version"
  BY <1>1, <1>5
<1> QED
  BY <1>1, <1>6, <1>7, <1>8, <1>9, BuildStep

\* Building a new version keeps the invariant: it stays within MaxVersions.
LEMMA BuildVersionStep ==
    ASSUME LifecycleInv, NEW c \in Clients, BuildVersion(c)
    PROVE  LifecycleInv'
<1> DEFINE row == CHOOSE r \in FreshVersionIds : TRUE
           event == BuildEvent(cmd[c], "NEW_VERSION_CREATED", "DRAFT",
                               cmd[c].now, cmd[c].read.version + 1, None)
<1>1. cmd[c].phase = "loaded" /\ cmd[c].request.op = "version"
  BY DEF BuildVersion, Loaded
<1>2. /\ cmd[c].read.state \notin TERMINAL_STATES
      /\ cmd[c].read.version < MaxVersions
      /\ Build(c, event, None, row)
  BY DEF BuildVersion, VersionAdmitted
<1>3. row \in VersionIds
  BY DEF BuildVersion, FreshVersionIds
<1>4. cmd[c].read.version + 1 \in VersionNumbers
  BY <1>1, <1>2, Decided, RepositoryAssumption DEF ProposalRecord, VersionNumbers
<1>5. event \in WorkflowEvent /\ event.from_state = cmd[c].read.state
  BY <1>1, <1>4, Decided, BuildEventType DEF WorkflowEventTypes, WorkflowStates
<1> QED
  BY <1>1, <1>2, <1>3, <1>5, BuildStep

\* Building a handoff keeps the invariant.
LEMMA BuildHandoffStep ==
    ASSUME LifecycleInv, NEW c \in Clients, BuildHandoff(c)
    PROVE  LifecycleInv'
<1>1. cmd[c].phase = "loaded" /\ cmd[c].request.op = "handoff"
  BY DEF BuildHandoff, Loaded
<1>2. PICK id \in ExecutionRequestIds(cmd[c]) :
         Build(c, BuildEvent(cmd[c], "EXECUTION_REQUESTED", "EXECUTION_READY",
                             cmd[c].now,
                             RelatedVersion(cmd[c], cmd[c].read.version), id),
               None, None)
  BY DEF BuildHandoff
<1>3. /\ cmd[c].request.external_request_id \in RequestIds \cup {None}
      /\ cmd[c].request.related_version_no \in VersionNumbers \cup {None}
  BY <1>1, Decided
  DEF LifecycleRequest, TransitionRequest, ApprovalRequest, VersionRequest,
      HandoffRequest, UpdateRequest, ReviewRequest, ReportRequest
<1>4. id \in RequestIds \cup {None}
  BY <1>2, <1>3, LifecycleAssumption DEF ExecutionRequestIds
<1>5. RelatedVersion(cmd[c], cmd[c].read.version) \in VersionNumbers \cup {None}
  BY <1>1, <1>3, Decided DEF RelatedVersion, ProposalRecord
<1>6. cmd[c].read.state \notin TERMINAL_STATES
  BY DEF BuildHandoff, HandoffAdmitted, TERMINAL_STATES
<1> DEFINE event == BuildEvent(cmd[c], "EXECUTION_REQUESTED", "EXECUTION_READY",
                               cmd[c].now,
                               RelatedVersion(cmd[c], cmd[c].read.version), id)
<1>7. /\ "EXECUTION_REQUESTED" \in WorkflowEventTypes
      /\ "EXECUTION_READY" \in WorkflowStates
  BY DEF WorkflowEventTypes, WorkflowStates
<1>8. event \in WorkflowEvent /\ event.from_state = cmd[c].read.state
  BY <1>1, <1>4, <1>5, <1>7, Decided, BuildEventType
<1> HIDE DEF event
<1>9. Build(c, event, None, None)
  BY <1>2 DEF event
<1> QED
  BY <1>1, <1>6, <1>8, <1>9, BuildStep

\* Building an execution update keeps the invariant, at the time it reports.
LEMMA BuildUpdateStep ==
    ASSUME LifecycleInv, NEW c \in Clients, BuildUpdate(c)
    PROVE  LifecycleInv'
<1>1. cmd[c].phase = "loaded" /\ cmd[c].request.op = "update"
  BY DEF BuildUpdate, Loaded
<1>2. PICK h \in DOMAIN events, event_type \in WorkflowEventTypes,
           to_state \in WorkflowStates :
         /\ UpdateAdmitted(cmd[c], h)
         /\ Build(c, BuildEvent(cmd[c], event_type, to_state,
                                UpdateOccurredAt(cmd[c]),
                                RelatedVersion(cmd[c],
                                               events[h].related_version_no),
                                cmd[c].request.execution_request_id),
                  None, None)
  BY DEF BuildUpdate
<1>3. /\ cmd[c].request.execution_request_id \in RequestIds \cup {None}
      /\ cmd[c].request.occurred_at \in Times \cup {None}
      /\ cmd[c].request.related_version_no \in VersionNumbers \cup {None}
  BY <1>1, Decided
  DEF LifecycleRequest, TransitionRequest, ApprovalRequest, VersionRequest,
      HandoffRequest, UpdateRequest, ReviewRequest, ReportRequest
<1>4. UpdateOccurredAt(cmd[c]) \in Nat
  BY <1>1, <1>3, Decided, LifecycleAssumption DEF UpdateOccurredAt
<1>5. RelatedVersion(cmd[c], events[h].related_version_no)
         \in VersionNumbers \cup {None}
  <2>1. events[h] \in WorkflowEvent
    BY <1>2 DEF LifecycleInv, TypeOK
  <2> QED
    BY <1>3, <2>1 DEF WorkflowEvent, RelatedVersion
<1>6. cmd[c].read.state \notin TERMINAL_STATES
  BY <1>2 DEF UpdateAdmitted
<1> DEFINE event == BuildEvent(cmd[c], event_type, to_state,
                               UpdateOccurredAt(cmd[c]),
                               RelatedVersion(cmd[c],
                                              events[h].related_version_no),
                               cmd[c].request.execution_request_id)
<1>7. event \in WorkflowEvent /\ event.from_state = cmd[c].read.state
  BY <1>1, <1>2, <1>3, <1>4, <1>5, Decided, BuildEventType
<1> HIDE DEF event
<1>8. Build(c, event, None, None)
  BY <1>2 DEF event
<1> QED
  BY <1>1, <1>6, <1>7, <1>8, BuildStep

\* Building a narrative review keeps the invariant: it leaves the state alone.
LEMMA BuildReviewStep ==
    ASSUME LifecycleInv, NEW c \in Clients, BuildReview(c)
    PROVE  LifecycleInv'
<1> DEFINE event == BuildEvent(cmd[c], "NARRATIVE_REVIEWED",
                               cmd[c].read.state, Len(events),
                               cmd[c].request.version_no, None)
<1>1. cmd[c].phase = "loaded" /\ cmd[c].request.op = "review"
  BY DEF BuildReview, Loaded
<1>2. cmd[c].request.version_no \in VersionNumbers \cup {None}
  BY <1>1, Decided
  DEF LifecycleRequest, TransitionRequest, ApprovalRequest, VersionRequest,
      HandoffRequest, UpdateRequest, ReviewRequest, ReportRequest
<1>3. /\ "NARRATIVE_REVIEWED" \in WorkflowEventTypes
      /\ cmd[c].read.state \in WorkflowStates
  BY <1>1, Decided DEF WorkflowEventTypes, ProposalRecord
<1>4. event \in WorkflowEvent /\ event.from_state = cmd[c].read.state
  BY <1>1, <1>2, <1>3, Decided, BuildEventType
<1>5. event.to_state = cmd[c].read.state
  BY DEF BuildEvent
<1> HIDE DEF event
<1>6. Build(c, event, None, None)
  BY DEF BuildReview, event
<1> QED
  BY <1>1, <1>4, <1>5, <1>6, BuildStep

\* A report request reads the proposal again, so what its worker held before
\* does not matter.
LEMMA BuildReportStep ==
    ASSUME LifecycleInv, NEW c \in Clients, BuildReport(c)
    PROVE  LifecycleInv'
<1> DEFINE again == [cmd[c] EXCEPT !.read = proposal]
           event == BuildEvent(again, "REPORT_REQUESTED", proposal.state,
                               Len(events), ReportedVersion(cmd[c]), None)
           cm == [cmd[c] EXCEPT !.phase = "built", !.read = proposal,
                                !.event = event]
<1>1. cmd[c].phase = "loaded" /\ cmd[c].request.op = "report"
  BY DEF BuildReport, Loaded
<1>2. /\ cmd[c] \in Command /\ proposal \in ProposalRecord
      /\ cmd[c].request \in Requests
  BY <1>1, Decided DEF LifecycleInv, TypeOK
<1>3. /\ again.request = cmd[c].request /\ again.request \in Requests
      /\ again.read = proposal /\ again.read \in ProposalRecord
  BY <1>2 DEF Command
<1>4. ReportedVersion(cmd[c]) \in VersionNumbers \cup {None}
  <2>1. cmd[c].request.related_version_no \in VersionNumbers \cup {None}
    BY <1>1, Decided
    DEF LifecycleRequest, TransitionRequest, ApprovalRequest, VersionRequest,
        HandoffRequest, UpdateRequest, ReviewRequest, ReportRequest
  <2> QED
    BY <1>1, <2>1, Decided DEF ReportedVersion, RelatedVersion, ProposalRecord
<1>5. "REPORT_REQUESTED" \in WorkflowEventTypes /\ proposal.state \in WorkflowStates
  BY <1>2 DEF WorkflowEventTypes, ProposalRecord
<1>6. event \in WorkflowEvent /\ event.from_state = again.read.state
  <2> HIDE DEF again
  <2> QED
    BY <1>1, <1>3, <1>4, <1>5, Decided, BuildEventType
<1>7. event.to_state = proposal.state
  BY DEF BuildEvent
<1>8. cmd' = [cmd EXCEPT ![c] = cm] /\ cmd'[c] = cm
  BY <1>2 DEF BuildReport, LifecycleInv, TypeOK, Command
<1> HIDE DEF event
<1>9. cm \in Command
  BY <1>2, <1>6 DEF Command, Phases
<1>10. CommandCoherent(cm)
  BY <1>1, <1>2, <1>3, <1>6, <1>7
  DEF CommandCoherent, Command, Deciding, Holding
<1>11. CommandBehind(cm)
  BY <1>2 DEF CommandBehind, Command, Deciding, ProposalRecord, VersionNumbers
<1> QED
  BY <1>8, <1>9, <1>10, <1>11, CommandStep DEF BuildReport

-----------------------------------------------------------------------------
\* The steps that write.

\* The first transaction of a new version adds the row of the next number only.
LEMMA StoreVersionStep ==
    ASSUME LifecycleInv, NEW c \in Clients, StoreVersion(c)
    PROVE  LifecycleInv'
<1> DEFINE n == cmd[c].read.version + 1
           cm == [cmd[c] EXCEPT !.phase = "stored"]
<1>1. /\ cmd[c].phase = "built" /\ cmd[c].request.op = "version"
      /\ versions[n] = None
      /\ versions' = [versions EXCEPT ![n] = cmd[c].row]
      /\ UNCHANGED <<proposal, events, approvals>>
  BY DEF StoreVersion, CreateVersion
<1>2. cmd[c] \in Command /\ CommandCoherent(cmd[c]) /\ CommandBehind(cmd[c])
  BY DEF LifecycleInv, TypeOK
<1>3. /\ cmd[c].read \in ProposalRecord /\ cmd[c].row \in VersionIds
      /\ cmd[c].read.version < MaxVersions
      /\ cmd[c].read.version <= proposal.version
  BY <1>1, <1>2 DEF CommandCoherent, CommandBehind, Deciding, Holding
<1>4. n \in VersionNumbers
  BY <1>3, RepositoryAssumption DEF ProposalRecord, VersionNumbers
<1>5. cmd' = [cmd EXCEPT ![c] = cm] /\ cm \in Command
  BY <1>2 DEF StoreVersion, LifecycleInv, TypeOK, Command, Phases
<1>6. /\ versions \in [VersionNumbers -> VersionIds \cup {None}]
      /\ versions' \in [VersionNumbers -> VersionIds \cup {None}]
      /\ \A m \in VersionNumbers : versions[m] # None => versions'[m] # None
      /\ versions'[n] # None
  BY <1>1, <1>3, <1>4, RepositoryAssumption DEF LifecycleInv, TypeOK
<1>7. TypeOK'
  BY <1>1, <1>5, <1>6 DEF LifecycleInv, TypeOK
<1>8. ASSUME NEW d \in Clients
      PROVE  CommandCoherent(cmd'[d])
  BY <1>1, <1>2, <1>5
  DEF LifecycleInv, TypeOK, Command, CommandCoherent, Deciding, Holding
<1>9. ASSUME NEW d \in Clients
      PROVE  CommandBehind(cmd[d])'
  <2>1. CASE d = c
    <3>1. cmd'[d] = cm /\ proposal' = proposal
      BY <1>1, <1>5, <2>1 DEF LifecycleInv, TypeOK
    <3> QED
      BY <1>1, <1>2, <1>3, <1>6, <3>1 DEF CommandBehind, Command
  <2>2. CASE d # c
    <3>1. cmd'[d] = cmd[d] /\ proposal' = proposal
      BY <1>1, <1>5, <2>2 DEF LifecycleInv, TypeOK
    <3>2. cmd[d] \in Command /\ CommandCoherent(cmd[d]) /\ CommandBehind(cmd[d])
      BY DEF LifecycleInv, TypeOK
    <3>3. cmd[d].phase = "stored" => cmd[d].read.version + 1 \in VersionNumbers
      BY <3>2, RepositoryAssumption
      DEF CommandCoherent, Deciding, Holding, ProposalRecord, VersionNumbers
    <3> QED
      BY <1>6, <3>1, <3>2, <3>3 DEF CommandBehind
  <2> QED
    BY <2>1, <2>2
<1>10. HistoryMatchesState'
  BY <1>1 DEF LifecycleInv, HistoryMatchesState
<1>11. VersionRowsBackProposal'
  <2>1. proposal \in ProposalRecord
    BY DEF LifecycleInv, TypeOK
  <2>2. \A m \in 1 .. proposal.version : versions'[m] # None
    <3>1. 1 .. proposal.version \subseteq VersionNumbers
      BY <2>1, RepositoryAssumption DEF ProposalRecord, VersionNumbers
    <3> QED
      BY <1>6, <3>1 DEF LifecycleInv, VersionRowsBackProposal
  <2>3. \A m \in VersionNumbers : m > proposal.version + 1 => versions'[m] = None
    BY <1>1, <1>3, <1>4, <1>6, <2>1
    DEF LifecycleInv, VersionRowsBackProposal, ProposalRecord, VersionNumbers
  <2> QED
    BY <1>1, <2>2, <2>3 DEF VersionRowsBackProposal
<1> QED
  BY <1>7, <1>8, <1>9, <1>10, <1>11 DEF LifecycleInv

\* The second transaction: what the worker read is still current, so its event
\* continues the trail; a version that it publishes has been stored.
LEMMA CommitStep ==
    ASSUME LifecycleInv, NEW c \in Clients, Commit(c)
    PROVE  LifecycleInv'
<1> DEFINE record == UpdatedRecord(cmd[c])
           event == cmd[c].event
<1>1. cmd[c] \in Command /\ CommandCoherent(cmd[c]) /\ CommandBehind(cmd[c])
  BY DEF LifecycleInv, TypeOK
<1>2. cmd[c].phase \in Holding
  BY DEF Commit, ReadyToCommit, Holding
<1>3. /\ cmd[c].request \in Requests /\ cmd[c].read \in ProposalRecord
      /\ event \in WorkflowEvent /\ event.from_state = cmd[c].read.state
      /\ cmd[c].request.op = "version" => cmd[c].read.version < MaxVersions
  BY <1>1, <1>2 DEF CommandCoherent, Deciding, Holding
<1>4. cmd[c].request.op = "version" => versions[cmd[c].read.version + 1] # None
  BY <1>1, <1>3, LifecycleAssumption DEF Commit, ReadyToCommit, CommandBehind
<1>5. /\ proposal = cmd[c].read /\ proposal' = record
      /\ events' = Append(events, event)
      /\ approvals' = IF cmd[c].approval = None
                        THEN approvals ELSE Append(approvals, cmd[c].approval)
      /\ versions' = versions /\ cmd' = [cmd EXCEPT ![c] = Idle]
  BY DEF Commit, TransitionProposal, UpdateProposalIfCurrent, InsertEvent,
         InsertApproval
<1>6. /\ record \in ProposalRecord /\ record.state = event.to_state
      /\ record.version = IF cmd[c].request.op = "version"
                            THEN proposal.version + 1 ELSE proposal.version
  BY <1>3, <1>5, RepositoryAssumption
  DEF UpdatedRecord, ProposalRecord, VersionNumbers, WorkflowEvent
<1> HIDE DEF record, event
<1>7. TypeOK'
  <2>1. events' \in Seq(WorkflowEvent)
    BY <1>3, <1>5 DEF LifecycleInv, TypeOK
  <2>2. approvals' \in Seq(Approval)
    BY <1>1, <1>5 DEF LifecycleInv, TypeOK, Command
  <2>3. Idle \in Command
    BY DEF Idle, Command, Phases
  <2> QED
    BY <1>5, <1>6, <2>1, <2>2, <2>3 DEF LifecycleInv, TypeOK
<1>8. ASSUME NEW d \in Clients
      PROVE  CommandCoherent(cmd'[d]) /\ CommandBehind(cmd[d])'
  <2>1. CASE d = c
    <3>1. cmd'[d] = Idle
      BY <1>5, <2>1 DEF LifecycleInv, TypeOK
    <3> QED
      BY <3>1 DEF Idle, CommandCoherent, CommandBehind, Deciding, Holding
  <2>2. CASE d # c
    <3>1. cmd'[d] = cmd[d] /\ CommandCoherent(cmd[d]) /\ CommandBehind(cmd[d])
      BY <1>5, <2>2 DEF LifecycleInv, TypeOK
    <3>2. proposal.version \in Nat /\ proposal.version <= proposal'.version
      BY <1>3, <1>5, <1>6 DEF ProposalRecord, VersionNumbers
    <3>3. cmd[d].phase \in Deciding => cmd[d].read.version \in Nat
      BY <3>1 DEF CommandCoherent, ProposalRecord, VersionNumbers
    <3>4. proposal'.version \in Nat
      BY <1>5, <1>6 DEF ProposalRecord, VersionNumbers
    <3> QED
      BY <1>5, <3>1, <3>2, <3>3, <3>4 DEF CommandBehind
  <2> QED
    BY <2>1, <2>2
<1>9. HistoryMatchesState'
  <2>1. events \in Seq(WorkflowEvent) /\ Len(events) \in Nat /\ Len(events) >= 1
    BY DEF LifecycleInv, TypeOK, HistoryMatchesState
  <2>2. /\ Len(events') = Len(events) + 1
        /\ \A i \in 1 .. Len(events) : events'[i] = events[i]
        /\ events'[Len(events) + 1] = event
    BY <1>5, <2>1
  <2>3. event.from_state = events[Len(events)].to_state
    BY <1>3, <1>5 DEF LifecycleInv, HistoryMatchesState
  <2>4. \A i \in 2 .. Len(events') : events'[i].from_state = events'[i-1].to_state
    BY <2>1, <2>2, <2>3 DEF LifecycleInv, HistoryMatchesState
  <2>5. events' # <<>> /\ events'[1].from_state = None
    BY <2>1, <2>2 DEF LifecycleInv, HistoryMatchesState
  <2> QED
    BY <1>5, <1>6, <2>2, <2>4, <2>5 DEF HistoryMatchesState
<1>10. VersionRowsBackProposal'
  <2>1. proposal.version \in VersionNumbers /\ record.version \in VersionNumbers
    BY <1>3, <1>5, <1>6 DEF ProposalRecord
  <2>2. \A n \in 1 .. record.version : versions[n] # None
    BY <1>4, <1>5, <1>6, <2>1
    DEF LifecycleInv, VersionRowsBackProposal, VersionNumbers
  <2>3. \A n \in VersionNumbers : n > record.version + 1 => versions[n] = None
    BY <1>6, <2>1 DEF LifecycleInv, VersionRowsBackProposal, VersionNumbers
  <2> QED
    BY <1>5, <2>2, <2>3 DEF VersionRowsBackProposal
<1> QED
  BY <1>7, <1>8, <1>9, <1>10 DEF LifecycleInv

-----------------------------------------------------------------------------
\* The invariant holds.

\* It holds of a proposal that has just been created.
LEMMA InvInitially == Init => LifecycleInv
<1> SUFFICES ASSUME Init PROVE LifecycleInv
  OBVIOUS
<1>1. /\ proposal = [state |-> "DRAFT", version |-> 1]
      /\ versions = [n \in VersionNumbers |->
                        IF n = 1 THEN CHOOSE row \in VersionIds : TRUE ELSE None]
      /\ events = <<ProposalCreatedEvent>> /\ approvals = <<>>
      /\ cmd = [c \in Clients |-> Idle]
  BY DEF Init, RepositoryInit
<1>2. 1 \in VersionNumbers /\ proposal \in ProposalRecord
  BY <1>1, RepositoryAssumption DEF VersionNumbers, ProposalRecord, WorkflowStates
<1>3. (CHOOSE row \in VersionIds : TRUE) \in VersionIds
  BY RepositoryAssumption
<1>4. ProposalCreatedEvent \in WorkflowEvent
  BY <1>2
  DEF ProposalCreatedEvent, WorkflowEvent, WorkflowEventTypes, WorkflowStates
<1>5. Idle \in Command
  BY DEF Idle, Command, Phases
<1>6. /\ events \in Seq(WorkflowEvent) /\ approvals \in Seq(Approval)
      /\ Len(events) = 1 /\ events[1] = ProposalCreatedEvent
  BY <1>1, <1>4
<1>7. TypeOK
  BY <1>1, <1>2, <1>3, <1>5, <1>6 DEF TypeOK
<1>8. \A c \in Clients : CommandCoherent(cmd[c]) /\ CommandBehind(cmd[c])
  BY <1>1 DEF Idle, CommandCoherent, CommandBehind, Deciding, Holding
<1>9. HistoryMatchesState
  BY <1>1, <1>6 DEF HistoryMatchesState, ProposalCreatedEvent
<1>10. VersionRowsBackProposal
  <2>1. proposal.version = 1 /\ versions[1] # None
    BY <1>1, <1>2, <1>3, RepositoryAssumption
  <2>2. \A n \in VersionNumbers : n > 2 => versions[n] = None
    BY <1>1 DEF VersionNumbers
  <2> QED
    BY <2>1, <2>2 DEF VersionRowsBackProposal
<1> QED
  BY <1>7, <1>8, <1>9, <1>10 DEF LifecycleInv

\* Every step, and every stuttering step, preserves it.
LEMMA InvPreserved == LifecycleInv /\ [Next]_vars => LifecycleInv'
<1> SUFFICES ASSUME LifecycleInv, [Next]_vars PROVE LifecycleInv'
  OBVIOUS
<1>1. CASE UNCHANGED vars
  BY <1>1
  DEF vars, LifecycleInv, TypeOK, CommandBehind, HistoryMatchesState,
      VersionRowsBackProposal
<1>2. ASSUME NEW c \in Clients,
             \/ Receive(c) \/ Load(c) \/ Replay(c) \/ Refuse(c)
             \/ BuildTransition(c) \/ BuildApproval(c) \/ BuildVersion(c)
             \/ BuildHandoff(c) \/ BuildUpdate(c)
             \/ BuildReview(c) \/ BuildReport(c)
             \/ StoreVersion(c) \/ LoseVersion(c)
             \/ Commit(c) \/ LoseCommit(c) \/ Crash(c)
      PROVE  LifecycleInv'
  BY <1>2, ReceiveStep, LoadStep, GiveUpStep,
     BuildTransitionStep, BuildApprovalStep, BuildVersionStep,
     BuildHandoffStep, BuildUpdateStep, BuildReviewStep, BuildReportStep,
     StoreVersionStep, CommitStep
<1> QED
  BY <1>1, <1>2 DEF Next

\* LifecycleInv is an invariant of the specification.
THEOREM LifecycleInvariant == Spec => []LifecycleInv
BY InvInitially, InvPreserved, PTL DEF Spec

\* The rows of the repository always satisfy the CHECK constraints, and what a
\* worker holds in memory has its type.
THEOREM TypeCorrect == Spec => []TypeOK
<1>1. LifecycleInv => TypeOK
  BY DEF LifecycleInv
<1> QED
  BY <1>1, LifecycleInvariant, PTL

\* The audit trail is an unbroken chain of states that ends in the state of the
\* proposal: transition_proposal commits the record and its event together,
\* and only if nobody has moved the proposal since it was read.
THEOREM HistoryCorrect == Spec => []HistoryMatchesState
<1>1. LifecycleInv => HistoryMatchesState
  BY DEF LifecycleInv
<1> QED
  BY <1>1, LifecycleInvariant, PTL

\* The current version and all before it can always be read, and no more than
\* one row is ahead of it: create_proposal_version stores the row first.
THEOREM VersionRowsCorrect == Spec => []VersionRowsBackProposal
<1>1. LifecycleInv => VersionRowsBackProposal
  BY DEF LifecycleInv
<1> QED
  BY <1>1, LifecycleInvariant, PTL

-----------------------------------------------------------------------------
\* What a step may never do.

\* A terminal state is final, and so is the version of a proposal in it: a
\* command that read the proposal before fails its compare-and-set, and one
\* that read it in the terminal state does not move it.
THEOREM TerminalFinal == Spec => TerminalIsFinal
<1>1. ASSUME LifecycleInv, Next, proposal.state \in TERMINAL_STATES
      PROVE  proposal' = proposal
  <2>1. PICK c \in Clients :
           \/ Receive(c) \/ Load(c) \/ Replay(c) \/ Refuse(c)
           \/ BuildTransition(c) \/ BuildApproval(c) \/ BuildVersion(c)
           \/ BuildHandoff(c) \/ BuildUpdate(c)
           \/ BuildReview(c) \/ BuildReport(c)
           \/ StoreVersion(c) \/ LoseVersion(c)
           \/ Commit(c) \/ LoseCommit(c) \/ Crash(c)
    BY <1>1 DEF Next
  <2>2. CASE Commit(c)
    <3>1. /\ proposal = cmd[c].read /\ proposal' = UpdatedRecord(cmd[c])
          /\ cmd[c].phase \in Holding
      BY <2>2
      DEF Commit, TransitionProposal, UpdateProposalIfCurrent, ReadyToCommit,
          Holding
    <3>2. /\ cmd[c].read \in ProposalRecord
          /\ cmd[c].event.to_state = cmd[c].read.state
          /\ cmd[c].request.op # "version"
      BY <1>1, <3>1 DEF LifecycleInv, CommandCoherent, Deciding, Holding
    <3> QED
      BY <3>1, <3>2 DEF UpdatedRecord, ProposalRecord
  <2>3. CASE StoreVersion(c)
    BY <2>3 DEF StoreVersion, CreateVersion
  <2>4. CASE ~Commit(c) /\ ~StoreVersion(c)
    BY <2>1, <2>4
    DEF Receive, Load, Replay, Refuse, BuildTransition, BuildApproval,
        BuildVersion, BuildHandoff, BuildUpdate, BuildReview, BuildReport,
        LoseVersion, LoseCommit, Crash, Build, repositoryVars
  <2> QED
    BY <2>2, <2>3, <2>4
<1>2. LifecycleInv /\ [Next]_vars
         => [proposal.state \in TERMINAL_STATES => proposal' = proposal]_vars
  BY <1>1
<1> QED
  BY <1>2, LifecycleInvariant, PTL DEF Spec, TerminalIsFinal

\* A stored version row is never replaced: create_version inserts a row only
\* where there is none.
THEOREM RowsImmutable == Spec => VersionRowsImmutable
<1> DEFINE Kept == \A n \in VersionNumbers :
                      versions[n] # None => versions'[n] = versions[n]
<1>1. ASSUME LifecycleInv, Next
      PROVE  Kept
  <2>1. PICK c \in Clients :
           \/ Receive(c) \/ Load(c) \/ Replay(c) \/ Refuse(c)
           \/ BuildTransition(c) \/ BuildApproval(c) \/ BuildVersion(c)
           \/ BuildHandoff(c) \/ BuildUpdate(c)
           \/ BuildReview(c) \/ BuildReport(c)
           \/ StoreVersion(c) \/ LoseVersion(c)
           \/ Commit(c) \/ LoseCommit(c) \/ Crash(c)
    BY <1>1 DEF Next
  <2>2. CASE StoreVersion(c)
    BY <1>1, <2>2 DEF StoreVersion, CreateVersion, LifecycleInv, TypeOK
  <2>3. CASE Commit(c)
    BY <2>3 DEF Commit, TransitionProposal
  <2>4. CASE ~Commit(c) /\ ~StoreVersion(c)
    BY <2>1, <2>4
    DEF Receive, Load, Replay, Refuse, BuildTransition, BuildApproval,
        BuildVersion, BuildHandoff, BuildUpdate, BuildReview, BuildReport,
        LoseVersion, LoseCommit, Crash, Build, repositoryVars
  <2> QED
    BY <2>2, <2>3, <2>4
<1>2. LifecycleInv /\ [Next]_vars => [Kept]_vars
  BY <1>1
<1> QED
  BY <1>2, LifecycleInvariant, PTL DEF Spec, VersionRowsImmutable

-----------------------------------------------------------------------------
\* The refinement: although a command decides on a proposal that it read some
\* time ago, every commit is a legal step of the abstract aggregate from the
\* state it is in when the commit happens.

\* The rules of the several commands.

LegalTransition(state, event) ==
    \/ <<state, event.event_type, event.to_state>> \in TRANSITION_MAP
    \/ /\ state \notin TERMINAL_STATES
       /\ event.event_type = "CANCELLED" /\ event.to_state = "CANCELLED"

LegalUpdate(state, event) ==
    /\ state \notin TERMINAL_STATES
    /\ \E rule \in EXECUTION_UPDATE_EVENT_MAP :
          rule[2] = event.event_type /\ rule[3] = event.to_state

LegalReview(state, event) ==
    event.event_type = "NARRATIVE_REVIEWED" /\ event.to_state = state

LegalReport(read, event) ==
    /\ event.event_type = "REPORT_REQUESTED" /\ event.to_state = read.state
    /\ event.related_version_no <= read.version

\* The event announces the version after version_no.
LegalNewVersion(state, version_no, event) ==
    /\ state \notin TERMINAL_STATES
    /\ event.event_type = "NEW_VERSION_CREATED" /\ event.to_state = "DRAFT"
    /\ event.related_version_no = version_no + 1

Legal(request, read, event) ==
    \/ /\ request.op \in {"transition", "approval", "handoff"}
       /\ LegalTransition(read.state, event)
    \/ request.op = "update"  /\ LegalUpdate(read.state, event)
    \/ request.op = "review"  /\ LegalReview(read.state, event)
    \/ request.op = "report"  /\ LegalReport(read, event)
    \/ request.op = "version" /\ LegalNewVersion(read.state, read.version, event)

\* The event leads from the state by a rule other than a new version.
LegalEvent(state, event) ==
    \/ LegalTransition(state, event)
    \/ LegalUpdate(state, event)
    \/ /\ event.event_type \in {"NARRATIVE_REVIEWED", "REPORT_REQUESTED"}
       /\ event.to_state = state

\* What a worker is about to commit is a legal step from what it has read.
LegalInv ==
    \A c \in Clients : cmd[c].phase \in Holding =>
        Legal(cmd[c].request, cmd[c].read, cmd[c].event)

-----------------------------------------------------------------------------
\* The decisions are legal.

\* A decision that is legal from the state that was read keeps LegalInv.
LEMMA BuildLegal ==
    ASSUME LifecycleInv, LegalInv, NEW c \in Clients, NEW event, NEW approval,
           NEW row, Legal(cmd[c].request, cmd[c].read, event),
           Build(c, event, approval, row)
    PROVE  LegalInv'
<1>1. cmd[c] \in Command
  BY DEF LifecycleInv, TypeOK
<1>2. /\ cmd'[c].request = cmd[c].request /\ cmd'[c].read = cmd[c].read
      /\ cmd'[c].event = event
      /\ \A d \in Clients : d # c => cmd'[d] = cmd[d]
  BY <1>1 DEF Build, LifecycleInv, TypeOK, Command
<1> QED
  BY <1>2 DEF LegalInv

\* A transition builds an event that the abstract proposal allows.
LEMMA TransitionLegal ==
    ASSUME LifecycleInv, LegalInv, NEW c \in Clients, BuildTransition(c)
    PROVE  LegalInv'
<1>1. cmd[c].request.op = "transition"
  BY DEF BuildTransition, Loaded
<1>2. PICK to_state \in WorkflowStates :
         /\ ResolvesTransition(cmd[c].read.state, cmd[c].request.event_type,
                               to_state)
         /\ Build(c, BuildEvent(cmd[c], cmd[c].request.event_type, to_state,
                                cmd[c].now, cmd[c].request.related_version_no,
                                None),
                  None, None)
  BY DEF BuildTransition
<1> DEFINE event == BuildEvent(cmd[c], cmd[c].request.event_type, to_state,
                               cmd[c].now, cmd[c].request.related_version_no,
                               None)
<1>3. /\ event.event_type = cmd[c].request.event_type
      /\ event.to_state = to_state
  BY DEF BuildEvent
<1> HIDE DEF event
<1>4. LegalTransition(cmd[c].read.state, event)
  BY <1>2, <1>3 DEF LegalTransition, ResolvesTransition
<1>5. Build(c, event, None, None)
  BY <1>2 DEF event
<1> QED
  BY <1>1, <1>4, <1>5, BuildLegal DEF Legal

\* An approval moves the proposal as the transition of the same name would.
LEMMA ApprovalLegal ==
    ASSUME LifecycleInv, LegalInv, NEW c \in Clients, BuildApproval(c)
    PROVE  LegalInv'
<1>1. cmd[c].request.op = "approval"
  BY DEF BuildApproval, Loaded
<1>2. PICK event_type \in WorkflowEventTypes, to_state \in WorkflowStates :
         /\ ResolvesApproval(cmd[c].read.state, cmd[c].request.approval_type,
                             cmd[c].request.approved, event_type, to_state)
         /\ Build(c, BuildEvent(cmd[c], event_type, to_state, cmd[c].now,
                                cmd[c].request.related_version_no, None),
                  BuildApprovalRecord(cmd[c]), None)
  BY DEF BuildApproval
<1> DEFINE event == BuildEvent(cmd[c], event_type, to_state, cmd[c].now,
                               cmd[c].request.related_version_no, None)
<1>3. event.event_type = event_type /\ event.to_state = to_state
  BY DEF BuildEvent
<1> HIDE DEF event
<1>4. <<cmd[c].read.state, event_type, to_state>> \in TRANSITION_MAP
  BY <1>2 DEF ResolvesApproval, APPROVAL_TRANSITION_RULES, TRANSITION_MAP
<1>5. Build(c, event, BuildApprovalRecord(cmd[c]), None)
  BY <1>2 DEF event
<1> QED
  BY <1>1, <1>3, <1>4, <1>5, BuildLegal DEF Legal, LegalTransition

\* A new version builds an event that the abstract proposal allows.
LEMMA VersionLegal ==
    ASSUME LifecycleInv, LegalInv, NEW c \in Clients, BuildVersion(c)
    PROVE  LegalInv'
<1> DEFINE row == CHOOSE r \in FreshVersionIds : TRUE
           event == BuildEvent(cmd[c], "NEW_VERSION_CREATED", "DRAFT",
                               cmd[c].now, cmd[c].read.version + 1, None)
<1>1. /\ cmd[c].request.op = "version"
      /\ cmd[c].read.state \notin TERMINAL_STATES
      /\ Build(c, event, None, row)
  BY DEF BuildVersion, Loaded, VersionAdmitted
<1>2. LegalNewVersion(cmd[c].read.state, cmd[c].read.version, event)
  BY <1>1 DEF LegalNewVersion, BuildEvent
<1> HIDE DEF event, row
<1> QED
  BY <1>1, <1>2, BuildLegal DEF Legal

\* A handoff builds an event that the abstract proposal allows.
LEMMA HandoffLegal ==
    ASSUME LifecycleInv, LegalInv, NEW c \in Clients, BuildHandoff(c)
    PROVE  LegalInv'
<1>1. /\ cmd[c].request.op = "handoff"
      /\ cmd[c].read.state = "EXECUTION_READY"
  BY DEF BuildHandoff, Loaded, HandoffAdmitted
<1>2. PICK id \in ExecutionRequestIds(cmd[c]) :
         Build(c, BuildEvent(cmd[c], "EXECUTION_REQUESTED", "EXECUTION_READY",
                             cmd[c].now,
                             RelatedVersion(cmd[c], cmd[c].read.version), id),
               None, None)
  BY DEF BuildHandoff
<1> DEFINE event == BuildEvent(cmd[c], "EXECUTION_REQUESTED", "EXECUTION_READY",
                               cmd[c].now,
                               RelatedVersion(cmd[c], cmd[c].read.version), id)
<1>3. LegalTransition(cmd[c].read.state, event)
  BY <1>1 DEF LegalTransition, BuildEvent, TRANSITION_MAP
<1> HIDE DEF event
<1>4. Build(c, event, None, None)
  BY <1>2 DEF event
<1> QED
  BY <1>1, <1>3, <1>4, BuildLegal DEF Legal

\* An execution update builds an event that the abstract proposal allows.
LEMMA UpdateLegal ==
    ASSUME LifecycleInv, LegalInv, NEW c \in Clients, BuildUpdate(c)
    PROVE  LegalInv'
<1>1. cmd[c].request.op = "update"
  BY DEF BuildUpdate, Loaded
<1>2. PICK h \in DOMAIN events, event_type \in WorkflowEventTypes,
           to_state \in WorkflowStates :
         /\ UpdateAdmitted(cmd[c], h)
         /\ ResolvesExecutionUpdate(cmd[c].request.update_status,
                                    event_type, to_state)
         /\ Build(c, BuildEvent(cmd[c], event_type, to_state,
                                UpdateOccurredAt(cmd[c]),
                                RelatedVersion(cmd[c],
                                               events[h].related_version_no),
                                cmd[c].request.execution_request_id),
                  None, None)
  BY DEF BuildUpdate
<1> DEFINE event == BuildEvent(cmd[c], event_type, to_state,
                               UpdateOccurredAt(cmd[c]),
                               RelatedVersion(cmd[c],
                                              events[h].related_version_no),
                               cmd[c].request.execution_request_id)
<1>3. event.event_type = event_type /\ event.to_state = to_state
  BY DEF BuildEvent
<1> HIDE DEF event
<1>4. \E rule \in EXECUTION_UPDATE_EVENT_MAP :
         rule[2] = event_type /\ rule[3] = to_state
  BY <1>2 DEF ResolvesExecutionUpdate
<1>5. cmd[c].read.state \notin TERMINAL_STATES
  BY <1>2 DEF UpdateAdmitted
<1>6. Build(c, event, None, None)
  BY <1>2 DEF event
<1> QED
  BY <1>1, <1>3, <1>4, <1>5, <1>6, BuildLegal DEF Legal, LegalUpdate

\* A review builds an event that the abstract proposal allows.
LEMMA ReviewLegal ==
    ASSUME LifecycleInv, LegalInv, NEW c \in Clients, BuildReview(c)
    PROVE  LegalInv'
<1> DEFINE event == BuildEvent(cmd[c], "NARRATIVE_REVIEWED",
                               cmd[c].read.state, Len(events),
                               cmd[c].request.version_no, None)
<1>1. cmd[c].request.op = "review" /\ Build(c, event, None, None)
  BY DEF BuildReview, Loaded
<1>2. LegalReview(cmd[c].read.state, event)
  BY DEF LegalReview, BuildEvent
<1> HIDE DEF event
<1> QED
  BY <1>1, <1>2, BuildLegal DEF Legal

\* A report builds an event that the abstract proposal allows, from its second read.
LEMMA ReportLegal ==
    ASSUME LifecycleInv, LegalInv, NEW c \in Clients, BuildReport(c)
    PROVE  LegalInv'
<1> DEFINE event == BuildEvent([cmd[c] EXCEPT !.read = proposal],
                               "REPORT_REQUESTED", proposal.state, Len(events),
                               ReportedVersion(cmd[c]), None)
<1>1. cmd[c].request.op = "report" /\ cmd[c] \in Command
  BY DEF BuildReport, Loaded, LifecycleInv, TypeOK
<1>2. /\ cmd'[c].request = cmd[c].request /\ cmd'[c].read = proposal
      /\ cmd'[c].event = event
      /\ \A d \in Clients : d # c => cmd'[d] = cmd[d]
  BY <1>1 DEF BuildReport, LifecycleInv, TypeOK, Command
<1>3. LegalReport(proposal, event)
  <2>1. /\ event.event_type = "REPORT_REQUESTED"
        /\ event.to_state = proposal.state
        /\ event.related_version_no = ReportedVersion(cmd[c])
    BY DEF BuildEvent
  <2>2. ReportedVersion(cmd[c]) <= cmd[c].read.version
    BY DEF BuildReport, ReportAdmitted
  <2>3. /\ cmd[c].read \in ProposalRecord /\ proposal \in ProposalRecord
        /\ cmd[c].read.version <= proposal.version
        /\ cmd[c].request \in LifecycleRequest
    BY Decided DEF BuildReport, Loaded, LifecycleInv, TypeOK, CommandBehind, Deciding
  <2>4. ReportedVersion(cmd[c]) \in Nat
    <3>1. cmd[c].request.related_version_no \in VersionNumbers \cup {None}
      BY <1>1, <2>3
      DEF LifecycleRequest, TransitionRequest, ApprovalRequest, VersionRequest,
          HandoffRequest, UpdateRequest, ReviewRequest, ReportRequest
    <3> QED
      BY <2>3, <3>1 DEF ReportedVersion, RelatedVersion, ProposalRecord, VersionNumbers
  <2> HIDE DEF event
  <2> QED
    BY <2>1, <2>2, <2>3, <2>4 DEF LegalReport, ProposalRecord, VersionNumbers
<1> HIDE DEF event
<1> QED
  BY <1>1, <1>2, <1>3 DEF LegalInv, Legal

\* Every other step keeps what workers hold or lets go of it.
LEMMA OtherStepsLegal ==
    ASSUME LifecycleInv, LegalInv, NEW c \in Clients,
           \/ Receive(c) \/ Load(c) \/ Replay(c) \/ Refuse(c)
           \/ StoreVersion(c) \/ LoseVersion(c)
           \/ Commit(c) \/ LoseCommit(c) \/ Crash(c)
    PROVE  LegalInv'
<1>1. cmd \in [Clients -> Command] /\ cmd[c] \in Command
  BY DEF LifecycleInv, TypeOK
<1>2. /\ \A d \in Clients : d # c => cmd'[d] = cmd[d]
      /\ \/ cmd'[c].phase \notin Holding
         \/ /\ cmd[c].phase \in Holding /\ cmd'[c].request = cmd[c].request
            /\ cmd'[c].read = cmd[c].read /\ cmd'[c].event = cmd[c].event
  <2>1. CASE Receive(c)
    BY <1>1, <2>1 DEF Receive, Idle, Holding
  <2>2. CASE Load(c)
    <3>1. PICK request \in Requests :
             cmd' = [cmd EXCEPT ![c].phase = "loaded", ![c].read = proposal,
                                ![c].request = request]
      BY <2>2 DEF Load
    <3> QED
      BY <1>1, <3>1 DEF Holding, Command
  <2>3. CASE Replay(c)
    BY <1>1, <2>3 DEF Replay, Idle, Holding
  <2>4. CASE StoreVersion(c)
    BY <1>1, <2>4 DEF StoreVersion, Holding, Command
  <2>5. CASE Refuse(c) \/ LoseVersion(c) \/ Commit(c) \/ LoseCommit(c) \/ Crash(c)
    BY <1>1, <2>5
    DEF Refuse, LoseVersion, Commit, LoseCommit, Crash, Idle, Holding
  <2> QED
    BY <2>1, <2>2, <2>3, <2>4, <2>5
<1> QED
  BY <1>2 DEF LegalInv

\* LegalInv holds initially and is preserved.
LEMMA LegalInvariant == Spec => []LegalInv
<1>1. Init => LegalInv
  BY DEF Init, Idle, LegalInv, Holding
<1>2. LifecycleInv /\ LegalInv /\ [Next]_vars => LegalInv'
  <2> SUFFICES ASSUME LifecycleInv, LegalInv, [Next]_vars PROVE LegalInv'
    OBVIOUS
  <2>1. CASE UNCHANGED vars
    BY <2>1 DEF vars, LegalInv
  <2>2. ASSUME NEW c \in Clients,
               \/ Receive(c) \/ Load(c) \/ Replay(c) \/ Refuse(c)
               \/ BuildTransition(c) \/ BuildApproval(c) \/ BuildVersion(c)
               \/ BuildHandoff(c) \/ BuildUpdate(c)
               \/ BuildReview(c) \/ BuildReport(c)
               \/ StoreVersion(c) \/ LoseVersion(c)
               \/ Commit(c) \/ LoseCommit(c) \/ Crash(c)
        PROVE  LegalInv'
    BY <2>2, TransitionLegal, ApprovalLegal, VersionLegal, HandoffLegal,
       UpdateLegal, ReviewLegal, ReportLegal, OtherStepsLegal
  <2> QED
    BY <2>1, <2>2 DEF Next
<1> QED
  BY <1>1, <1>2, LifecycleInvariant, PTL DEF Spec

-----------------------------------------------------------------------------
\* What a commit does.

\* Whatever is not a new version follows one of the other rules.
LEMMA LegalOthers ==
    ASSUME NEW request, NEW read, NEW event, Legal(request, read, event),
           request.op # "version"
    PROVE  LegalEvent(read.state, event)
BY DEF Legal, LegalEvent, LegalReview, LegalReport

\* A commit appends an event that is legal from the proposal as it is now.
LEMMA CommitIsLegal ==
    ASSUME LifecycleInv, LegalInv, NEW c \in Clients, Commit(c)
    PROVE  /\ cmd[c].event \in WorkflowEvent
           /\ cmd[c].event.from_state = proposal.state
           /\ Legal(cmd[c].request, proposal, cmd[c].event)
           /\ proposal \in ProposalRecord
           /\ proposal' = [state |-> cmd[c].event.to_state,
                           version |-> IF cmd[c].request.op = "version"
                                         THEN proposal.version + 1
                                         ELSE proposal.version]
           /\ events' = Append(events, cmd[c].event)
<1>1. cmd[c].phase \in Holding
  BY DEF Commit, ReadyToCommit, Holding
<1>2. /\ proposal = cmd[c].read /\ proposal' = UpdatedRecord(cmd[c])
      /\ events' = Append(events, cmd[c].event)
  BY DEF Commit, TransitionProposal, UpdateProposalIfCurrent, InsertEvent
<1>3. /\ cmd[c].event \in WorkflowEvent
      /\ cmd[c].event.from_state = cmd[c].read.state
      /\ proposal \in ProposalRecord
  BY <1>1 DEF LifecycleInv, TypeOK, CommandCoherent, Holding
<1>4. Legal(cmd[c].request, cmd[c].read, cmd[c].event)
  BY <1>1 DEF LegalInv
<1> QED
  BY <1>2, <1>3, <1>4 DEF UpdatedRecord

\* No other step touches the proposal, its trail or its approvals.
LEMMA OnlyCommitsMove ==
    ASSUME [Next]_vars, \A c \in Clients : ~Commit(c)
    PROVE  UNCHANGED <<proposal, events, approvals>>
<1>1. CASE UNCHANGED vars
  BY <1>1 DEF vars
<1>2. ASSUME NEW c \in Clients,
             \/ Receive(c) \/ Load(c) \/ Replay(c) \/ Refuse(c)
             \/ BuildTransition(c) \/ BuildApproval(c) \/ BuildVersion(c)
             \/ BuildHandoff(c) \/ BuildUpdate(c)
             \/ BuildReview(c) \/ BuildReport(c)
             \/ StoreVersion(c) \/ LoseVersion(c)
             \/ LoseCommit(c) \/ Crash(c)
      PROVE  UNCHANGED <<proposal, events, approvals>>
  BY <1>2
  DEF Receive, Load, Replay, Refuse, BuildTransition, BuildApproval,
      BuildVersion, BuildHandoff, BuildUpdate, BuildReview, BuildReport,
      StoreVersion, CreateVersion, LoseVersion, LoseCommit, Crash, Build,
      repositoryVars
<1> QED
  BY <1>1, <1>2 DEF Next

-----------------------------------------------------------------------------
\* The refinement.

AuditRecord ==
    [event_type : WorkflowEventTypes, from_state : WorkflowStates \cup {None},
     to_state : WorkflowStates]

\* What the abstract trail keeps of an event
Audit(event) ==
    [event_type |-> event.event_type, from_state |-> event.from_state,
     to_state |-> event.to_state]

\* Appending an event appends its abstraction.
LEMMA AuditTrailAppend ==
    ASSUME events \in Seq(WorkflowEvent), NEW event \in WorkflowEvent,
           events' = Append(events, event)
    PROVE  AuditTrail' = Append(AuditTrail, Audit(event))
<1> DEFINE n == Len(events)
<1>1. /\ n \in Nat /\ DOMAIN events = 1 .. n
      /\ \A i \in 1 .. n : events[i] \in WorkflowEvent
  OBVIOUS
<1>2. /\ DOMAIN events' = 1 .. n + 1 /\ events'[n + 1] = event
      /\ \A i \in 1 .. n : events'[i] = events[i]
  BY <1>1
<1>3. \A e \in WorkflowEvent : Audit(e) \in AuditRecord
  BY DEF Audit, AuditRecord, WorkflowEvent
<1>4. AuditTrail = [i \in 1 .. n |-> Audit(events[i])]
  BY <1>1 DEF AuditTrail, Audit
<1>5. AuditTrail' = [i \in 1 .. n + 1 |-> Audit(events'[i])]
  BY <1>2 DEF AuditTrail, Audit
<1>6. AuditTrail \in Seq(AuditRecord) /\ Len(AuditTrail) = n
  BY <1>1, <1>3, <1>4, IsASeq
<1>7. AuditTrail' \in Seq(AuditRecord) /\ Len(AuditTrail') = n + 1
  <2>1. \A i \in 1 .. n + 1 : Audit(events'[i]) \in AuditRecord
    BY <1>1, <1>2, <1>3
  <2> QED
    BY <1>1, <1>5, <2>1, IsASeq
<1>8. Append(AuditTrail, Audit(event)) \in Seq(AuditRecord)
  BY <1>3, <1>6, AppendProperties
<1>9. \A i \in 1 .. n + 1 : AuditTrail'[i] = Append(AuditTrail, Audit(event))[i]
  BY <1>1, <1>2, <1>3, <1>4, <1>5, <1>6
<1>10. Len(Append(AuditTrail, Audit(event))) = n + 1
  BY <1>3, <1>6, AppendProperties
<1> QED
  BY <1>7, <1>8, <1>9, <1>10, SeqEqual

\* ProposalLifecycle implements ProposalAggregate: a commit is an abstract step
\* from the current state, every other step a stutter.
THEOREM Refinement == Spec => ImplementsAggregate
<1>1. Init => Aggregate!Init
  <2> SUFFICES ASSUME Init PROVE Aggregate!Init
    OBVIOUS
  <2>1. /\ proposal = [state |-> "DRAFT", version |-> 1]
        /\ events = <<ProposalCreatedEvent>>
    BY DEF Init, RepositoryInit
  <2>2. DOMAIN events = 1 .. 1 /\ events[1] = ProposalCreatedEvent
    BY <2>1
  <2>3. AuditTrail = [i \in 1 .. 1 |-> Audit(ProposalCreatedEvent)]
    BY <2>2 DEF AuditTrail, Audit
  <2>4. Audit(ProposalCreatedEvent) = Aggregate!Created
    BY DEF Audit, ProposalCreatedEvent, Aggregate!Created
  <2>5. AuditTrail = <<Aggregate!Created>>
    BY <2>3, <2>4
  <2> QED
    BY <2>1, <2>5 DEF Aggregate!Init
<1>2. LifecycleInv /\ LegalInv /\ [Next]_vars
         => [Aggregate!Next]_<<proposal, AuditTrail>>
  <2> SUFFICES ASSUME LifecycleInv, LegalInv, [Next]_vars
               PROVE  [Aggregate!Next]_<<proposal, AuditTrail>>
    OBVIOUS
  <2>1. ASSUME NEW c \in Clients, Commit(c)
        PROVE  Aggregate!Next
    <3> DEFINE event == cmd[c].event
    <3>1. /\ event \in WorkflowEvent /\ event.from_state = proposal.state
          /\ Legal(cmd[c].request, proposal, event)
          /\ proposal' = [state |-> event.to_state,
                          version |-> IF cmd[c].request.op = "version"
                                        THEN proposal.version + 1
                                        ELSE proposal.version]
          /\ events' = Append(events, event)
      BY <2>1, CommitIsLegal
    <3>2. AuditTrail' = Append(AuditTrail, Audit(event))
      BY <3>1, AuditTrailAppend DEF LifecycleInv, TypeOK
    <3> HIDE DEF event
    <3>3. CASE cmd[c].request.op = "version"
      <4>1. LegalNewVersion(proposal.state, proposal.version, event)
        BY <3>1, <3>3 DEF Legal
      <4> QED
        BY <3>1, <3>2, <3>3, <4>1
        DEF LegalNewVersion, Audit, Aggregate!Next, Aggregate!NewVersion,
            Aggregate!Take, Aggregate!Open, Aggregate!TERMINAL_STATES,
            TERMINAL_STATES
    <3>4. CASE cmd[c].request.op # "version"
      <4>1. /\ LegalEvent(proposal.state, event)
            /\ proposal' = [state |-> event.to_state,
                            version |-> proposal.version]
        BY <3>1, <3>4, LegalOthers
      <4>2. event.event_type # "NEW_VERSION_CREATED"
        BY <4>1 DEF LegalEvent, LegalTransition, LegalUpdate, TRANSITION_MAP,
                    EXECUTION_UPDATE_EVENT_MAP
      <4>3. Aggregate!Take(event.event_type, event.to_state)
        BY <3>1, <3>2, <4>1, <4>2 DEF Audit, Aggregate!Take
      <4>4. CASE <<proposal.state, event.event_type, event.to_state>>
                    \in TRANSITION_MAP
        <5> DEFINE rule == <<proposal.state, event.event_type, event.to_state>>
        <5>1. rule \in Aggregate!TRANSITION_MAP
          BY <4>4 DEF TRANSITION_MAP, Aggregate!TRANSITION_MAP
        <5>2. /\ rule[1] = proposal.state
              /\ Aggregate!Take(rule[2], rule[3])
          BY <4>3
        <5>3. Aggregate!Transition
          BY <5>1, <5>2 DEF Aggregate!Transition
        <5> QED
          BY <5>3 DEF Aggregate!Next
      <4>5. CASE /\ proposal.state \notin TERMINAL_STATES
                 /\ event.event_type = "CANCELLED"
                 /\ event.to_state = "CANCELLED"
        BY <4>3, <4>5
        DEF Aggregate!Next, Aggregate!Cancel, Aggregate!Open,
            Aggregate!TERMINAL_STATES, TERMINAL_STATES
      <4>6. CASE /\ proposal.state \notin TERMINAL_STATES
                 /\ \E rule \in EXECUTION_UPDATE_EVENT_MAP :
                       rule[2] = event.event_type /\ rule[3] = event.to_state
        <5>1. PICK rule \in EXECUTION_UPDATE_EVENT_MAP :
                 rule[2] = event.event_type /\ rule[3] = event.to_state
          BY <4>6
        <5>2. rule \in Aggregate!EXECUTION_UPDATE_EVENT_MAP
          BY DEF EXECUTION_UPDATE_EVENT_MAP, Aggregate!EXECUTION_UPDATE_EVENT_MAP
        <5>3. Aggregate!Open
          BY <4>6 DEF Aggregate!Open, Aggregate!TERMINAL_STATES, TERMINAL_STATES
        <5>4. Aggregate!Take(rule[2], rule[3])
          BY <4>3, <5>1
        <5>5. Aggregate!ExecutionUpdate
          BY <5>2, <5>3, <5>4 DEF Aggregate!ExecutionUpdate
        <5> QED
          BY <5>5 DEF Aggregate!Next
      <4>7. CASE /\ event.event_type \in {"NARRATIVE_REVIEWED", "REPORT_REQUESTED"}
                 /\ event.to_state = proposal.state
        BY <4>3, <4>7 DEF Aggregate!Next, Aggregate!Annotate
      <4> QED
        BY <4>1, <4>4, <4>5, <4>6, <4>7
        DEF LegalEvent, LegalTransition, LegalUpdate
    <3> QED
      BY <3>3, <3>4
  <2>2. CASE \A c \in Clients : ~Commit(c)
    BY <2>2, OnlyCommitsMove DEF AuditTrail
  <2> QED
    BY <2>1, <2>2
<1> QED
  BY <1>1, <1>2, LifecycleInvariant, LegalInvariant, PTL
  DEF Spec, ImplementsAggregate, Aggregate!Spec

-----------------------------------------------------------------------------
\* The versions that the trail announces.

\* A commit continues the numbering: a new version is announced by the next
\* number and nothing else announces one.
LEMMA CommitContinuesVersions ==
    ASSUME LifecycleInv, LegalInv, VersionMatchesTrail,
           NEW c \in Clients, Commit(c)
    PROVE  VersionMatchesTrail'
<1> DEFINE event == cmd[c].event
<1>0. PICK n \in Nat : n = Len(events)
  BY DEF LifecycleInv, TypeOK
<1>1. /\ Legal(cmd[c].request, proposal, event)
      /\ proposal'.version = IF cmd[c].request.op = "version"
                               THEN proposal.version + 1 ELSE proposal.version
      /\ events' = Append(events, event)
  BY CommitIsLegal
<1>2. /\ n \in Nat /\ DOMAIN events = 1 .. n
      /\ DOMAIN events' = 1 .. n + 1 /\ Len(events') = n + 1
      /\ events'[n + 1] = event
      /\ \A i \in 1 .. n : events'[i] = events[i]
  BY <1>0, <1>1 DEF LifecycleInv, TypeOK
<1>3. \A i \in 1 .. n : CreatesVersion(i)' <=> CreatesVersion(i)
  BY <1>2 DEF CreatesVersion
<1>4. PICK last \in 1 .. n :
         /\ CreatesVersion(last)
         /\ events[last].related_version_no = proposal.version
         /\ \A k \in last + 1 .. n : ~CreatesVersion(k)
  BY <1>0, <1>2 DEF VersionMatchesTrail
<1> HIDE DEF event
<1>5. CASE cmd[c].request.op = "version"
  <2>1. /\ CreatesVersion(n + 1)'
        /\ event.related_version_no = proposal.version + 1
        /\ proposal'.version = proposal.version + 1
    BY <1>1, <1>2, <1>5 DEF Legal, LegalNewVersion, CreatesVersion
  <2>2. ASSUME NEW i \in 1 .. n + 1, NEW j \in 1 .. n + 1, i < j,
               CreatesVersion(i)', CreatesVersion(j)',
               \A k \in i + 1 .. j - 1 : ~CreatesVersion(k)'
        PROVE  events'[j].related_version_no = events'[i].related_version_no + 1
    <3>1. CASE j <= n
      <4>1. /\ i \in DOMAIN events /\ j \in DOMAIN events
            /\ CreatesVersion(i) /\ CreatesVersion(j)
            /\ \A k \in i + 1 .. j - 1 : ~CreatesVersion(k)
        BY <1>2, <1>3, <2>2, <3>1
      <4> QED
        BY <1>2, <2>2, <3>1, <4>1 DEF VersionMatchesTrail
    <3>2. CASE j = n + 1
      <4>1. /\ i \in 1 .. n /\ CreatesVersion(i)
            /\ \A k \in i + 1 .. n : ~CreatesVersion(k)
        BY <1>2, <1>3, <2>2, <3>2
      <4>2. i = last
        BY <1>2, <1>4, <4>1
      <4> QED
        BY <1>2, <1>4, <2>1, <3>2, <4>1, <4>2
    <3> QED
      BY <1>2, <3>1, <3>2
  <2>3. \A k \in n + 2 .. n + 1 : ~CreatesVersion(k)'
    BY <1>2
  <2> QED
    BY <1>2, <2>1, <2>2, <2>3 DEF VersionMatchesTrail
<1>6. CASE cmd[c].request.op # "version"
  <2>1. ~CreatesVersion(n + 1)' /\ proposal'.version = proposal.version
    BY <1>1, <1>2, <1>6, LegalOthers
    DEF LegalEvent, LegalTransition, LegalUpdate, TRANSITION_MAP,
        EXECUTION_UPDATE_EVENT_MAP, CreatesVersion
  <2>2. ASSUME NEW i \in 1 .. n + 1, NEW j \in 1 .. n + 1, i < j,
               CreatesVersion(i)', CreatesVersion(j)',
               \A k \in i + 1 .. j - 1 : ~CreatesVersion(k)'
        PROVE  events'[j].related_version_no = events'[i].related_version_no + 1
    <3>1. i \in 1 .. n /\ j \in 1 .. n
      BY <1>2, <2>1, <2>2
    <3>2. /\ i \in DOMAIN events /\ j \in DOMAIN events
          /\ CreatesVersion(i) /\ CreatesVersion(j)
          /\ \A k \in i + 1 .. j - 1 : ~CreatesVersion(k)
      BY <1>2, <1>3, <2>2, <3>1
    <3> QED
      BY <1>2, <2>2, <3>1, <3>2 DEF VersionMatchesTrail
  <2>3. /\ last \in DOMAIN events' /\ CreatesVersion(last)'
        /\ events'[last].related_version_no = proposal'.version
        /\ \A k \in last + 1 .. Len(events') : ~CreatesVersion(k)'
    <3>1. \A k \in last + 1 .. n : ~CreatesVersion(k)'
      BY <1>2, <1>3, <1>4
    <3> QED
      BY <1>2, <1>3, <1>4, <2>1, <3>1
  <2> QED
    BY <1>2, <2>2, <2>3 DEF VersionMatchesTrail
<1> QED
  BY <1>5, <1>6

\* The trail announces the versions 1, 2, 3 ... and the proposal is at the last
\* one: apply_new_version_lifecycle_state is the only writer of the number, and
\* the compare-and-set of every other command includes it.
THEOREM VersionNumbersCorrect == Spec => []VersionMatchesTrail
<1>1. Init => VersionMatchesTrail
  <2> SUFFICES ASSUME Init PROVE VersionMatchesTrail
    OBVIOUS
  <2>1. /\ proposal.version = 1 /\ events = <<ProposalCreatedEvent>>
    BY DEF Init, RepositoryInit
  <2>2. /\ DOMAIN events = 1 .. 1 /\ Len(events) = 1
        /\ events[1] = ProposalCreatedEvent
    BY <2>1
  <2>3. CreatesVersion(1) /\ events[1].related_version_no = 1
    BY <2>2 DEF CreatesVersion, ProposalCreatedEvent
  <2> QED
    BY <2>1, <2>2, <2>3 DEF VersionMatchesTrail
<1>2. LifecycleInv /\ LegalInv /\ VersionMatchesTrail /\ [Next]_vars
         => VersionMatchesTrail'
  <2> SUFFICES ASSUME LifecycleInv, LegalInv, VersionMatchesTrail, [Next]_vars
               PROVE  VersionMatchesTrail'
    OBVIOUS
  <2>1. CASE \A c \in Clients : ~Commit(c)
    BY <2>1, OnlyCommitsMove DEF VersionMatchesTrail, CreatesVersion
  <2> QED
    BY <2>1, CommitContinuesVersions
<1> QED
  BY <1>1, <1>2, LifecycleInvariant, LegalInvariant, PTL DEF Spec

=============================================================================
