------------------------- MODULE ProposalTrailProofs -------------------------
(***************************************************************************)
(* What the trail of a proposal says: keys, handoffs and outcomes,         *)
(* approvals, reports, consent and status.  It rests on two facts.  A      *)
(* command in flight holds what it decided, and a proposal never returns   *)
(* to a state it has left within one version, so that a compare-and-set    *)
(* on state and version fails once anything has moved since the read.      *)
(***************************************************************************)
EXTENDS ProposalLifecycleProofs, ExecutionPosture, FiniteSetTheorems

-----------------------------------------------------------------------------
\* The steps of one worker.

Decides(c) ==
    \/ BuildTransition(c) \/ BuildApproval(c) \/ BuildVersion(c)
    \/ BuildHandoff(c) \/ BuildUpdate(c) \/ BuildReview(c) \/ BuildReport(c)

Keeps(c) ==
    \/ Receive(c) \/ Load(c) \/ Replay(c) \/ Refuse(c)
    \/ StoreVersion(c) \/ LoseVersion(c)
    \/ Commit(c) \/ LoseCommit(c) \/ Crash(c)

\* A worker moves by its own steps only.
LEMMA OwnStep ==
    ASSUME LifecycleInv, [Next]_vars, NEW d \in Clients
    PROVE  cmd'[d] = cmd[d] \/ Decides(d) \/ Keeps(d)
<1>1. CASE UNCHANGED vars
  BY <1>1 DEF vars
<1>2. ASSUME NEW c \in Clients, Decides(c) \/ Keeps(c), d # c
      PROVE  cmd'[d] = cmd[d]
  <2>1. cmd \in [Clients -> Command]
    BY DEF LifecycleInv, TypeOK
  <2>2. CASE Decides(c)
    BY <1>2, <2>1, <2>2
    DEF Decides, BuildTransition, BuildApproval, BuildVersion, BuildHandoff,
        BuildUpdate, BuildReview, BuildReport, Build
  <2>3. CASE Keeps(c)
    BY <1>2, <2>1, <2>3
    DEF Keeps, Receive, Load, Replay, Refuse, StoreVersion, LoseVersion, Commit,
        LoseCommit, Crash
  <2> QED
    BY <1>2, <2>2, <2>3
<1>3. PICK c \in Clients : Decides(c) \/ Keeps(c) \/ UNCHANGED vars
  BY DEF Next, Decides, Keeps
<1> QED
  BY <1>1, <1>2, <1>3

Same(cm, dm) ==
    /\ cm.phase \in Holding
    /\ dm.request = cm.request /\ dm.read = cm.read
    /\ dm.event = cm.event /\ dm.approval = cm.approval

\* What a worker holds after a step it held before, or has just decided.
LEMMA HeldBefore ==
    ASSUME LifecycleInv, [Next]_vars, NEW d \in Clients, cmd'[d].phase \in Holding
    PROVE  Same(cmd[d], cmd'[d]) \/ Decides(d)
<1>1. cmd \in [Clients -> Command] /\ cmd[d] \in Command
  BY DEF LifecycleInv, TypeOK
<1>2. CASE cmd'[d] = cmd[d]
  BY <1>2 DEF Same
<1>3. ASSUME Keeps(d)
      PROVE  Same(cmd[d], cmd'[d])
  <2>1. CASE Receive(d)
    BY <1>1, <2>1 DEF Receive, Idle, Holding
  <2>2. CASE Load(d)
    <3>1. PICK request \in Requests :
             cmd' = [cmd EXCEPT ![d].phase = "loaded", ![d].read = proposal,
                                ![d].request = request]
      BY <2>2 DEF Load
    <3> QED
      BY <1>1, <3>1 DEF Holding, Command
  <2>3. CASE StoreVersion(d)
    BY <1>1, <2>3 DEF StoreVersion, Holding, Command, Same
  <2>4. CASE \/ Replay(d) \/ Refuse(d) \/ LoseVersion(d)
             \/ Commit(d) \/ LoseCommit(d) \/ Crash(d)
    BY <1>1, <2>4
    DEF Replay, Refuse, LoseVersion, Commit, LoseCommit, Crash, Idle, Holding
  <2> QED
    BY <1>3, <2>1, <2>2, <2>3, <2>4 DEF Keeps
<1> QED
  BY <1>2, <1>3, OwnStep

\* What a decision leaves alone, and what every event that it builds carries.
LEMMA DecisionMade ==
    ASSUME LifecycleInv, NEW d \in Clients, Decides(d)
    PROVE  /\ UNCHANGED repositoryVars
           /\ cmd[d].phase = "loaded"
           /\ cmd[d].request \in Requests
           /\ cmd[d].request \in LifecycleRequest
           /\ cmd[d].read \in ProposalRecord
           /\ cmd'[d].request = cmd[d].request
           /\ cmd'[d].read = IF cmd[d].request.op = "report"
                               THEN proposal ELSE cmd[d].read
           /\ cmd'[d].event.idempotency_key = RecordedKey(cmd[d].request)
           /\ cmd'[d].event.request_hash = RecordedHash(cmd[d].request)
           /\ cmd'[d].event.from_state = cmd'[d].read.state
<1>1. cmd \in [Clients -> Command] /\ cmd[d] \in Command
  BY DEF LifecycleInv, TypeOK
<1>2. cmd[d].phase = "loaded" /\ UNCHANGED repositoryVars
  BY DEF Decides, BuildTransition, BuildApproval, BuildVersion, BuildHandoff,
         BuildUpdate, BuildReview, BuildReport, Build, Loaded
<1>3. ASSUME NEW event, NEW approval, NEW row, NEW e, NEW t, NEW at, NEW v, NEW id,
             event = BuildEvent(cmd[d], e, t, at, v, id),
             Build(d, event, approval, row)
      PROVE  /\ cmd'[d].request = cmd[d].request
             /\ cmd'[d].read = cmd[d].read
             /\ cmd'[d].event.idempotency_key = RecordedKey(cmd[d].request)
             /\ cmd'[d].event.request_hash = RecordedHash(cmd[d].request)
             /\ cmd'[d].event.from_state = cmd'[d].read.state
  BY <1>1, <1>3 DEF Build, Command, BuildEvent
<1>4. CASE cmd[d].request.op # "report"
  <2>1. ~BuildReport(d)
    BY <1>4 DEF BuildReport, Loaded
  <2>2. \E event, approval, row, e, t, at, v, id :
           /\ event = BuildEvent(cmd[d], e, t, at, v, id)
           /\ Build(d, event, approval, row)
    BY <2>1 DEF Decides, BuildTransition, BuildApproval, BuildVersion,
                BuildHandoff, BuildUpdate, BuildReview
  <2> QED
    BY <1>2, <1>3, <1>4, <2>2, Decided
<1>5. CASE BuildReport(d)
  <2> DEFINE event == BuildEvent([cmd[d] EXCEPT !.read = proposal],
                                 "REPORT_REQUESTED", proposal.state, Len(events),
                                 ReportedVersion(cmd[d]), None)
  <2>1. /\ cmd'[d].request = cmd[d].request /\ cmd'[d].read = proposal
        /\ cmd'[d].event = event /\ cmd[d].request.op = "report"
    BY <1>1, <1>5 DEF BuildReport, Command, Loaded
  <2>2. /\ event.idempotency_key = RecordedKey(cmd[d].request)
        /\ event.request_hash = RecordedHash(cmd[d].request)
        /\ event.from_state = proposal.state
    BY <1>1 DEF BuildEvent, Command
  <2> HIDE DEF event
  <2> QED
    BY <1>2, <2>1, <2>2, Decided
<1>6. cmd[d].request.op = "report" => BuildReport(d)
  BY DEF Decides, BuildTransition, BuildApproval, BuildVersion, BuildHandoff,
         BuildUpdate, BuildReview, Loaded
<1> QED
  BY <1>4, <1>5, <1>6

-----------------------------------------------------------------------------
\* A proposal never returns.

\* How far a proposal is on the way of one version
Rank(state) ==
    IF state = "DRAFT" THEN 0
    ELSE IF state \in {"RISK_REVIEW", "COMPLIANCE_REVIEW"} THEN 1
    ELSE IF state = "AWAITING_CLIENT_CONSENT" THEN 2
    ELSE IF state = "EXECUTION_READY" THEN 3
    ELSE 4

Advances(from, to) ==
    \/ from.version < to.version
    \/ from.version = to.version /\ Rank(from.state) < Rank(to.state)

\* What a worker has read is the proposal as it is, or one that it has left for
\* good.
ReadBehind ==
    \A c \in Clients : cmd[c].phase \in Deciding =>
        cmd[c].read = proposal \/ Advances(cmd[c].read, proposal)

\* Nothing advances to itself, and advances add up.
LEMMA AdvancesOrders ==
    /\ \A p \in ProposalRecord : ~Advances(p, p)
    /\ \A p, q, r \in ProposalRecord :
          Advances(p, q) /\ Advances(q, r) => Advances(p, r)
<1>1. \A p \in ProposalRecord : p.version \in Nat /\ Rank(p.state) \in Nat
  BY DEF ProposalRecord, VersionNumbers, Rank
<1> QED
  BY <1>1 DEF Advances

\* A legal event that changes the state leads forward.
LEMMA LegalEventsAdvance ==
    ASSUME NEW state \in WorkflowStates, NEW event \in WorkflowEvent,
           LegalEvent(state, event), event.to_state # state
    PROVE  Rank(state) < Rank(event.to_state)
<1>1. CASE <<state, event.event_type, event.to_state>> \in TRANSITION_MAP
  BY <1>1 DEF TRANSITION_MAP, Rank
<1>2. CASE /\ state \notin TERMINAL_STATES
           /\ event.to_state \in {"CANCELLED", "EXECUTION_READY", "REJECTED",
                                  "EXPIRED", "EXECUTED"}
  BY <1>2 DEF TERMINAL_STATES, Rank, WorkflowStates
<1> QED
  BY <1>1, <1>2
  DEF LegalEvent, LegalTransition, LegalUpdate, EXECUTION_UPDATE_EVENT_MAP,
      TERMINAL_STATES, Rank

\* A commit leaves the proposal as it is or advances it; the former only if its
\* event does not move the state.
LEMMA CommitAdvances ==
    ASSUME LifecycleInv, LegalInv, NEW c \in Clients, Commit(c)
    PROVE  /\ proposal' = proposal \/ Advances(proposal, proposal')
           /\ MovesState(cmd[c].event) => Advances(proposal, proposal')
           /\ proposal \in ProposalRecord /\ proposal' \in ProposalRecord
<1> DEFINE event == cmd[c].event
<1>1. /\ event \in WorkflowEvent /\ event.from_state = proposal.state
      /\ Legal(cmd[c].request, proposal, event)
      /\ proposal \in ProposalRecord
      /\ proposal' = [state |-> event.to_state,
                      version |-> IF cmd[c].request.op = "version"
                                    THEN proposal.version + 1
                                    ELSE proposal.version]
  BY CommitIsLegal
<1>2. proposal' \in ProposalRecord
  BY CommitStep DEF LifecycleInv, TypeOK
<1> HIDE DEF event
<1>3. CASE cmd[c].request.op = "version"
  BY <1>1, <1>2, <1>3 DEF Advances, ProposalRecord, VersionNumbers, event
<1>4. CASE cmd[c].request.op # "version"
  <2>1. /\ LegalEvent(proposal.state, event) /\ proposal.state \in WorkflowStates
        /\ proposal' = [state |-> event.to_state, version |-> proposal.version]
    BY <1>1, <1>4, LegalOthers DEF ProposalRecord
  <2>2. event.to_state # proposal.state => Advances(proposal, proposal')
    BY <1>1, <2>1, LegalEventsAdvance DEF Advances
  <2>3. event.to_state = proposal.state => proposal' = proposal
    BY <1>1, <2>1 DEF ProposalRecord
  <2> QED
    BY <1>1, <1>2, <2>2, <2>3 DEF MovesState, event
<1> QED
  BY <1>3, <1>4

\* ReadBehind is an invariant: the compare-and-set has no ABA problem.
LEMMA ReadBehindStep ==
    ASSUME LifecycleInv, LegalInv, ReadBehind, [Next]_vars
    PROVE  ReadBehind'
<1> SUFFICES ASSUME NEW d \in Clients, cmd'[d].phase \in Deciding
             PROVE  cmd'[d].read = proposal' \/ Advances(cmd'[d].read, proposal')
  BY DEF ReadBehind
<1>1. LifecycleInv'
  BY InvPreserved
<1>2. /\ proposal \in ProposalRecord /\ proposal' \in ProposalRecord
      /\ cmd \in [Clients -> Command] /\ cmd[d] \in Command
      /\ cmd[d].phase \in Deciding => cmd[d].read \in ProposalRecord
  BY <1>1 DEF LifecycleInv, TypeOK, CommandCoherent
<1>3. proposal' = proposal \/ Advances(proposal, proposal')
  BY CommitAdvances, OnlyCommitsMove
<1>4. \/ cmd'[d].read = proposal /\ proposal' = proposal
      \/ cmd[d].phase \in Deciding /\ cmd'[d].read = cmd[d].read
  <2>1. CASE Load(d)
    <3>1. PICK request \in Requests :
             cmd' = [cmd EXCEPT ![d].phase = "loaded", ![d].read = proposal,
                                ![d].request = request]
      BY <2>1 DEF Load
    <3>2. cmd'[d].read = proposal
      BY ONLY <1>2, <3>1 DEF Command
    <3>3. proposal' = proposal
      BY ONLY <2>1, Zenon DEF Load, repositoryVars
    <3> QED
      BY <3>2, <3>3
  <2>2. CASE Decides(d)
    BY <2>2, DecisionMade DEF repositoryVars, Deciding
  <2>3. CASE Receive(d)
    BY <1>2, <2>3 DEF Receive, Idle, Deciding, Command
  <2>4. CASE StoreVersion(d)
    BY <1>2, <2>4 DEF StoreVersion, Deciding, Command
  <2>5. CASE \/ Replay(d) \/ Refuse(d) \/ LoseVersion(d)
             \/ Commit(d) \/ LoseCommit(d) \/ Crash(d)
    <3>1. cmd'[d] = Idle
      BY <1>2, <2>5 DEF Replay, Refuse, LoseVersion, Commit, LoseCommit, Crash
    <3> QED
      BY <3>1 DEF Idle, Deciding
  <2>6. CASE cmd'[d] = cmd[d]
    BY <2>6
  <2> QED
    BY <2>1, <2>2, <2>3, <2>4, <2>5, <2>6, OwnStep DEF Keeps
<1> QED
  BY <1>2, <1>3, <1>4, AdvancesOrders DEF ReadBehind

\* What a worker has read is still so or gone for good: when the compare-and-set
\* of update_proposal_if_current succeeds neither the state nor the version has
\* changed since the read.
THEOREM ReadsAreBehind == Spec => []ReadBehind
<1>1. Init => ReadBehind
  BY DEF Init, Idle, ReadBehind, Deciding
<1> QED
  BY <1>1, ReadBehindStep, LifecycleInvariant, LegalInvariant, PTL DEF Spec


-----------------------------------------------------------------------------
\* What a commit appends.

\* A commit appends the event that the worker holds, for the proposal as the
\* worker read it, and the approval if it holds one.
LEMMA CommitAppends ==
    ASSUME LifecycleInv, LegalInv, NEW c \in Clients, Commit(c),
           NEW n, n = Len(events)
    PROVE  /\ n \in Nat
           /\ DOMAIN events = 1 .. n
           /\ DOMAIN events' = 1 .. n + 1
           /\ events'[n + 1] = cmd[c].event
           /\ \A i \in 1 .. n : events'[i] = events[i] /\ events[i] \in WorkflowEvent
           /\ cmd[c].phase \in Holding
           /\ cmd[c].request \in Requests
           /\ cmd[c].event \in WorkflowEvent
           /\ cmd[c].approval \in Approval \cup {None}
           /\ proposal = cmd[c].read
           /\ cmd'[c] = Idle
           /\ approvals' = IF cmd[c].approval = None
                             THEN approvals ELSE Append(approvals, cmd[c].approval)
<1>1. cmd[c].event \in WorkflowEvent /\ events' = Append(events, cmd[c].event)
  BY CommitIsLegal
<1>2. events \in Seq(WorkflowEvent)
  BY DEF LifecycleInv, TypeOK
<1>3. /\ cmd[c].phase \in Holding /\ proposal = cmd[c].read
      /\ cmd' = [cmd EXCEPT ![c] = Idle]
      /\ approvals' = IF cmd[c].approval = None
                        THEN approvals ELSE Append(approvals, cmd[c].approval)
  BY DEF Commit, ReadyToCommit, Holding, TransitionProposal,
         UpdateProposalIfCurrent, InsertApproval
<1>4. cmd \in [Clients -> Command] /\ CommandCoherent(cmd[c])
  BY DEF LifecycleInv, TypeOK
<1>5. cmd[c].request \in Requests
  BY <1>3, <1>4 DEF CommandCoherent, Holding, Deciding
<1> QED
  BY <1>1, <1>2, <1>3, <1>4, <1>5 DEF Command

\* No step changes or removes a committed event.
LEMMA TrailKept ==
    ASSUME LifecycleInv, LegalInv, [Next]_vars
    PROVE  \A i \in DOMAIN events : i \in DOMAIN events' /\ events'[i] = events[i]
<1>1. CASE \A c \in Clients : ~Commit(c)
  BY <1>1, OnlyCommitsMove
<1>2. ASSUME NEW c \in Clients, Commit(c)
      PROVE  \A i \in DOMAIN events : i \in DOMAIN events' /\ events'[i] = events[i]
  <2>0. PICK n : n = Len(events)
    OBVIOUS
  <2> QED
    BY <1>2, <2>0, CommitAppends
<1> QED
  BY <1>1, <1>2

-----------------------------------------------------------------------------
\* Keys.

\* An event carries the key and the hash of the request it was decided for.
HeldKey(cm) ==
    /\ cm.event.idempotency_key = RecordedKey(cm.request)
    /\ cm.event.request_hash = RecordedHash(cm.request)

\* Approval commands hold an approval that their event records; others none.
HeldApproval(cm) ==
    IF cm.request.op = "approval"
    THEN /\ cm.approval # None
         /\ cm.approval.idempotency_key = RecordedKey(cm.request)
         /\ cm.approval.occurred_at = cm.event.occurred_at
         /\ ResolvesApproval(cm.event.from_state, cm.approval.approval_type,
                             cm.approval.approved, cm.event.event_type,
                             cm.event.to_state)
    ELSE cm.approval = None

\* The key of an event that carries a request is the header of that request; one
\* without a request has at most a key that was noted in its JSON.
Keyed(event) ==
    IF event.request_hash = None
      THEN event.idempotency_key \in Keys \cup {None}
      ELSE /\ event.request_hash \in Requests
           /\ event.idempotency_key = KeyOf(event.request_hash)
           /\ event.idempotency_key # None

TrailKeys == \A i \in DOMAIN events : Keyed(events[i])

\* The header of an approval is among the keys of the approvals.
ApprovalKeys ==
    \A i \in DOMAIN events :
        /\ events[i].request_hash # None
        /\ events[i].request_hash.op = "approval"
        => KeyedApprovals(events[i].idempotency_key) # {}

KeyInv ==
    /\ \A c \in Clients :
          cmd[c].phase \in {"received", "loaded"} => cmd[c].approval = None
    /\ \A c \in Clients : cmd[c].phase \in Holding =>
          HeldKey(cmd[c]) /\ HeldApproval(cmd[c])
    /\ TrailKeys
    /\ ApprovalKeys

\* A request is recorded with its header, or without a hash.
LEMMA RecordedKeyed ==
    ASSUME NEW request \in Requests, request \in LifecycleRequest
    PROVE  IF RecordedHash(request) = None
             THEN RecordedKey(request) \in Keys \cup {None}
             ELSE /\ RecordedHash(request) = request
                  /\ RecordedKey(request) = KeyOf(request)
                  /\ KeyOf(request) # None
<1>1. request # None
  BY LifecycleAssumption
<1>2. CASE KeyOf(request) # None
  BY <1>1, <1>2 DEF RecordedHash, RecordedKey
<1>3. CASE KeyOf(request) = None
  <2>1. request.op \in {"transition", "approval"} =>
           request.noted_key \in Keys \cup {None}
    BY DEF LifecycleRequest, TransitionRequest, ApprovalRequest, VersionRequest,
           HandoffRequest, UpdateRequest, ReviewRequest, ReportRequest
  <2> QED
    BY <1>3, <2>1 DEF RecordedHash, RecordedKey
<1> QED
  BY <1>2, <1>3

\* A decision on what was read first; only an approval holds an approval.
LEMMA DecidesBuilds ==
    ASSUME NEW d \in Clients, Decides(d), ~BuildReport(d)
    PROVE  \E event, approval, row :
              /\ Build(d, event, approval, row)
              /\ BuildApproval(d) \/ approval = None
<1>1. CASE BuildTransition(d)
  BY <1>1 DEF BuildTransition
<1>2. CASE BuildApproval(d)
  BY <1>2 DEF BuildApproval
<1>3. CASE BuildVersion(d)
  BY <1>3 DEF BuildVersion
<1>4. CASE BuildHandoff(d)
  BY <1>4 DEF BuildHandoff
<1>5. CASE BuildUpdate(d)
  BY <1>5 DEF BuildUpdate
<1>6. CASE BuildReview(d)
  BY <1>6 DEF BuildReview
<1> QED
  BY <1>1, <1>2, <1>3, <1>4, <1>5, <1>6 DEF Decides

\* A command that is not an approval takes none into its decision.
LEMMA ReceivedNoApproval ==
    ASSUME LifecycleInv, KeyInv, [Next]_vars, NEW d \in Clients,
           cmd'[d].phase \in {"received", "loaded"}
    PROVE  cmd'[d].approval = None
<1>1. cmd \in [Clients -> Command] /\ cmd[d] \in Command
  BY DEF LifecycleInv, TypeOK
<1>2. CASE Load(d)
  <2>1. PICK request \in Requests :
           cmd' = [cmd EXCEPT ![d].phase = "loaded", ![d].read = proposal,
                              ![d].request = request]
    BY <1>2 DEF Load
  <2> QED
    BY <1>1, <1>2, <2>1 DEF Load, Command, KeyInv
<1>3. CASE Receive(d)
  BY <1>1, <1>3 DEF Receive, Idle
<1>4. CASE Decides(d)
  <2>1. CASE BuildReport(d)
    BY <1>1, <2>1 DEF BuildReport, Command
  <2>2. CASE ~BuildReport(d)
    <3>1. PICK event, approval, row : Build(d, event, approval, row)
      BY <1>4, <2>2, DecidesBuilds
    <3> QED
      BY <1>1, <3>1 DEF Build, Command
  <2> QED
    BY <2>1, <2>2
<1>5. CASE StoreVersion(d)
  BY <1>1, <1>5 DEF StoreVersion, Command
<1>6. CASE \/ Replay(d) \/ Refuse(d) \/ LoseVersion(d)
           \/ Commit(d) \/ LoseCommit(d) \/ Crash(d)
  BY <1>1, <1>6 DEF Replay, Refuse, LoseVersion, Commit, LoseCommit, Crash, Idle
<1>7. CASE cmd'[d] = cmd[d]
  BY <1>7 DEF KeyInv
<1> QED
  BY <1>2, <1>3, <1>4, <1>5, <1>6, <1>7, OwnStep DEF Keeps

\* What is decided carries its key, and its approval if it is one.
LEMMA DecidedKeyed ==
    ASSUME LifecycleInv, KeyInv, NEW d \in Clients, Decides(d)
    PROVE  HeldKey(cmd'[d]) /\ HeldApproval(cmd'[d])
<1>1. cmd \in [Clients -> Command] /\ cmd[d] \in Command
  BY DEF LifecycleInv, TypeOK
<1>2. HeldKey(cmd'[d])
  BY DecisionMade DEF HeldKey
<1>3. CASE BuildApproval(d)
  <2>1. PICK event_type \in WorkflowEventTypes, to_state \in WorkflowStates :
           /\ ResolvesApproval(cmd[d].read.state, cmd[d].request.approval_type,
                               cmd[d].request.approved, event_type, to_state)
           /\ Build(d, BuildEvent(cmd[d], event_type, to_state, cmd[d].now,
                                  cmd[d].request.related_version_no, None),
                    BuildApprovalRecord(cmd[d]), None)
    BY <1>3 DEF BuildApproval
  <2> DEFINE event == BuildEvent(cmd[d], event_type, to_state, cmd[d].now,
                                 cmd[d].request.related_version_no, None)
             approval == BuildApprovalRecord(cmd[d])
  <2>2. /\ event.from_state = cmd[d].read.state /\ event.event_type = event_type
        /\ event.to_state = to_state /\ event.occurred_at = cmd[d].now
    BY DEF BuildEvent
  <2>3. /\ approval.approval_type = cmd[d].request.approval_type
        /\ approval.approved = cmd[d].request.approved
        /\ approval.occurred_at = cmd[d].now
        /\ approval.idempotency_key = RecordedKey(cmd[d].request)
    BY DEF BuildApprovalRecord
  <2>4. approval # None
    <3>1. cmd[d].phase = "loaded" /\ cmd[d].request.op = "approval"
      BY <1>3 DEF BuildApproval, Loaded
    <3>2. /\ cmd[d].request.approval_type \in ApprovalTypes
          /\ cmd[d].request.approved \in BOOLEAN
          /\ cmd[d].request.related_version_no \in VersionNumbers \cup {None}
      BY <3>1, Decided
      DEF LifecycleRequest, TransitionRequest, ApprovalRequest, VersionRequest,
          HandoffRequest, UpdateRequest, ReviewRequest, ReportRequest
    <3>3. /\ RecordedKey(cmd[d].request) \in IdempotencyKeys \cup {None}
          /\ RecordedHash(cmd[d].request) \in Requests \cup {None}
      BY <3>1, Decided, RecordedType
    <3>4. approval \in Approval
      BY <3>1, <3>2, <3>3, Decided DEF BuildApprovalRecord, Approval
    <3> QED
      BY <3>4, RowAssumption
  <2> HIDE DEF event, approval
  <2>5. Build(d, event, approval, None)
    BY <2>1 DEF event, approval
  <2>6. /\ cmd'[d].event = event /\ cmd'[d].approval = approval
        /\ cmd'[d].request = cmd[d].request /\ cmd[d].request.op = "approval"
    BY <1>1, <1>3, <2>5 DEF Build, Command, BuildApproval, Loaded
  <2>7. ResolvesApproval(event.from_state, approval.approval_type,
                         approval.approved, event.event_type, event.to_state)
    BY <2>1, <2>2, <2>3
  <2> QED
    BY <1>2, <2>2, <2>3, <2>4, <2>6, <2>7 DEF HeldApproval
<1>4. CASE ~BuildApproval(d)
  <2>1. cmd[d].request.op # "approval" /\ cmd'[d].request = cmd[d].request
    <3>1. cmd'[d].request = cmd[d].request
      BY DecisionMade
    <3> QED
      BY <1>4, <3>1
      DEF Decides, BuildTransition, BuildVersion, BuildHandoff, BuildUpdate,
          BuildReview, BuildReport, Loaded
  <2>2. cmd'[d].approval = None
    <3>1. CASE BuildReport(d)
      BY <1>1, <3>1 DEF BuildReport, Command, KeyInv, Loaded
    <3>2. CASE ~BuildReport(d)
      <4>1. PICK event, row : Build(d, event, None, row)
        BY <1>4, <3>2, DecidesBuilds
      <4> QED
        BY <1>1, <4>1 DEF Build, Command
    <3> QED
      BY <3>1, <3>2
  <2> QED
    BY <1>2, <2>1, <2>2 DEF HeldApproval
<1> QED
  BY <1>3, <1>4

\* A commit writes the key of its request, with its approval if it is one.
LEMMA CommitKeyed ==
    ASSUME LifecycleInv, LegalInv, KeyInv, NEW c \in Clients, Commit(c)
    PROVE  TrailKeys' /\ ApprovalKeys'
<1> DEFINE event == cmd[c].event
<1>0. PICK n : n = Len(events)
  OBVIOUS
<1>1. /\ n \in Nat
      /\ DOMAIN events = 1 .. n /\ DOMAIN events' = 1 .. n + 1
      /\ events'[n + 1] = event
      /\ \A i \in 1 .. n : events'[i] = events[i]
      /\ cmd[c].request \in Requests
      /\ cmd[c].phase \in Holding
      /\ cmd[c].approval \in Approval \cup {None}
      /\ approvals' = IF cmd[c].approval = None
                        THEN approvals ELSE Append(approvals, cmd[c].approval)
  BY <1>0, CommitAppends
<1>2. HeldKey(cmd[c]) /\ HeldApproval(cmd[c])
  BY <1>1 DEF KeyInv
<1>3. approvals \in Seq(Approval)
  BY DEF LifecycleInv, TypeOK
<1>4. /\ \A i \in DOMAIN approvals :
            i \in DOMAIN approvals' /\ approvals'[i] = approvals[i]
      /\ cmd[c].approval # None =>
            /\ Len(approvals) + 1 \in DOMAIN approvals'
            /\ approvals'[Len(approvals) + 1] = cmd[c].approval
  BY <1>1, <1>3
<1> HIDE DEF event
<1>5. TrailKeys'
  <2>1. Keyed(event)
    BY <1>1, <1>2, RecordedKeyed, LifecycleAssumption DEF HeldKey, Keyed, event
  <2> QED
    BY <1>1, <2>1 DEF KeyInv, TrailKeys, Keyed
<1>6. ApprovalKeys'
  <2> SUFFICES ASSUME NEW i \in 1 .. n + 1, events'[i].request_hash # None,
                      events'[i].request_hash.op = "approval"
               PROVE  \E a \in DOMAIN approvals' :
                         approvals'[a].idempotency_key = events'[i].idempotency_key
    BY <1>1, <1>5 DEF ApprovalKeys, KeyedApprovals, TrailKeys, Keyed
  <2>1. CASE i \in 1 .. n
    <3>1. KeyedApprovals(events[i].idempotency_key) # {}
      BY <1>1, <2>1 DEF KeyInv, ApprovalKeys
    <3> QED
      BY <1>1, <1>4, <2>1, <3>1 DEF KeyedApprovals
  <2>2. CASE i = n + 1
    <3>1. cmd[c].request.op = "approval"
          /\ event.idempotency_key = RecordedKey(cmd[c].request)
      BY <1>1, <1>2, <2>2 DEF HeldKey, RecordedHash, event
    <3> QED
      BY <1>1, <1>2, <1>4, <2>2, <3>1 DEF HeldApproval
  <2> QED
    BY <1>1, <2>1, <2>2
<1> QED
  BY <1>5, <1>6

\* KeyInv is an invariant.
LEMMA KeyInvariant == Spec => []KeyInv
<1>1. Init => KeyInv
  <2> SUFFICES ASSUME Init PROVE KeyInv
    OBVIOUS
  <2>1. events = <<ProposalCreatedEvent>> /\ cmd = [c \in Clients |-> Idle]
    BY DEF Init, RepositoryInit
  <2>2. DOMAIN events = {1} /\ events[1] = ProposalCreatedEvent
    BY <2>1
  <2>3. TrailKeys /\ ApprovalKeys
    BY <2>2 DEF TrailKeys, ApprovalKeys, Keyed, ProposalCreatedEvent
  <2> QED
    BY <2>1, <2>3 DEF KeyInv, Idle, Holding
<1>2. LifecycleInv /\ LegalInv /\ KeyInv /\ [Next]_vars => KeyInv'
  <2> SUFFICES ASSUME LifecycleInv, LegalInv, KeyInv, [Next]_vars PROVE KeyInv'
    OBVIOUS
  <2>1. ASSUME NEW d \in Clients, cmd'[d].phase \in Holding
        PROVE  HeldKey(cmd'[d]) /\ HeldApproval(cmd'[d])
    <3>1. CASE Same(cmd[d], cmd'[d])
      BY <3>1 DEF Same, KeyInv, HeldKey, HeldApproval
    <3> QED
      BY <2>1, <3>1, HeldBefore, DecidedKeyed
  <2>2. TrailKeys' /\ ApprovalKeys'
    <3>1. CASE \A c \in Clients : ~Commit(c)
      BY <3>1, OnlyCommitsMove
      DEF KeyInv, TrailKeys, Keyed, ApprovalKeys, KeyedApprovals
    <3> QED
      BY <3>1, CommitKeyed
  <2> QED
    BY <2>1, <2>2, ReceivedNoApproval DEF KeyInv
<1> QED
  BY <1>1, <1>2, LifecycleInvariant, LegalInvariant, PTL DEF Spec

\* A moving event of the trail under the key does not stand in the way of the
\* command: the compare-and-set will fail, or the command is an approval and
\* the event is not.
Harmless(cm, event) ==
    \/ Advances(cm.read, proposal)
    \/ cm.request.op = "approval" /\ event.request_hash.op # "approval"

KeyFree ==
    \A c \in Clients : cmd[c].phase \in Holding =>
        \A i \in DOMAIN events :
            /\ cmd[c].event.request_hash # None /\ events[i].request_hash # None
            /\ events[i].idempotency_key = cmd[c].event.idempotency_key
            /\ MovesState(cmd[c].event) /\ MovesState(events[i])
            => Harmless(cmd[c], events[i])

\* A command that decides to move the proposal has looked its key up.
LEMMA DecidedKeyFree ==
    ASSUME LifecycleInv, KeyInv, NEW d \in Clients, Decides(d),
           NEW i \in DOMAIN events, cmd'[d].event.request_hash # None,
           events[i].request_hash # None,
           events[i].idempotency_key = cmd'[d].event.idempotency_key,
           MovesState(cmd'[d].event)
    PROVE  cmd'[d].request.op = "approval" /\ events[i].request_hash.op # "approval"
<1>1. /\ cmd'[d].event.idempotency_key = KeyOf(cmd[d].request)
      /\ KeyOf(cmd[d].request) # None
      /\ cmd'[d].event.from_state = cmd'[d].read.state
      /\ cmd'[d].request = cmd[d].request
      /\ cmd[d].phase = "loaded"
  BY DecisionMade DEF RecordedKey, RecordedHash
<1>2. i \in KeyedEvents(KeyOf(cmd[d].request))
  BY <1>1 DEF KeyedEvents
<1>3. CASE BuildReview(d)
  <2>1. cmd \in [Clients -> Command] /\ cmd[d] \in Command
    BY DEF LifecycleInv, TypeOK
  <2>2. /\ cmd'[d].event.to_state = cmd[d].read.state
        /\ cmd'[d].read = cmd[d].read
    BY <1>3, <2>1 DEF BuildReview, Build, BuildEvent, Command
  <2> QED
    BY <1>1, <2>2 DEF MovesState
<1>4. CASE BuildVersion(d) \/ BuildReport(d)
  BY <1>1, <1>4 DEF BuildVersion, BuildReport, Loaded, KeyOf
<1>5. CASE BuildTransition(d) \/ BuildHandoff(d) \/ BuildUpdate(d)
  BY <1>2, <1>5
  DEF BuildTransition, BuildHandoff, BuildUpdate, Loaded, KeyTaken, KeyedHistory
<1>6. CASE BuildApproval(d)
  <2>1. cmd[d].request.op = "approval" /\ ~KeyTaken(cmd[d])
    BY <1>6 DEF BuildApproval, Loaded
  <2>2. KeyedApprovals(events[i].idempotency_key) = {}
    BY <1>1, <2>1 DEF KeyTaken
  <2> QED
    BY <1>1, <2>1, <2>2 DEF KeyInv, ApprovalKeys
<1> QED
  BY <1>3, <1>4, <1>5, <1>6 DEF Decides

\* A commit moves the proposal away from whatever the others have read.
LEMMA KeyFreeStep ==
    ASSUME LifecycleInv, LegalInv, KeyInv, ReadBehind, KeyFree, [Next]_vars
    PROVE  KeyFree'
<1> SUFFICES ASSUME NEW d \in Clients, cmd'[d].phase \in Holding,
                    NEW i \in DOMAIN events',
                    cmd'[d].event.request_hash # None,
                    events'[i].request_hash # None,
                    events'[i].idempotency_key = cmd'[d].event.idempotency_key,
                    MovesState(cmd'[d].event), MovesState(events'[i])
             PROVE  \/ Advances(cmd'[d].read, proposal')
                    \/ /\ cmd'[d].request.op = "approval"
                       /\ events'[i].request_hash.op # "approval"
  BY DEF KeyFree, Harmless
<1>1. CASE Decides(d)
  BY <1>1, DecisionMade, DecidedKeyFree DEF repositoryVars
<1>2. CASE Same(cmd[d], cmd'[d]) /\ \A c \in Clients : ~Commit(c)
  BY <1>2, OnlyCommitsMove DEF Same, KeyFree, Harmless
<1>3. ASSUME NEW c \in Clients, Commit(c), Same(cmd[d], cmd'[d])
      PROVE  \/ Advances(cmd'[d].read, proposal')
             \/ /\ cmd'[d].request.op = "approval"
                /\ events'[i].request_hash.op # "approval"
  <2>0. PICK n : n = Len(events)
    OBVIOUS
  <2>1. /\ DOMAIN events = 1 .. n /\ DOMAIN events' = 1 .. n + 1 /\ n \in Nat
        /\ events'[n + 1] = cmd[c].event
        /\ \A j \in 1 .. n : events'[j] = events[j]
    BY <1>3, <2>0, CommitAppends
  <2>2. /\ proposal \in ProposalRecord /\ proposal' \in ProposalRecord
        /\ proposal' = proposal \/ Advances(proposal, proposal')
        /\ MovesState(cmd[c].event) => Advances(proposal, proposal')
    BY <1>3, CommitAdvances
  <2>3. /\ cmd[d].read \in ProposalRecord
        /\ cmd[d].read = proposal \/ Advances(cmd[d].read, proposal)
    BY <1>3 DEF Same, Holding, Deciding, ReadBehind, LifecycleInv, CommandCoherent
  <2>4. CASE i = n + 1
    BY <1>3, <2>1, <2>2, <2>3, <2>4, AdvancesOrders DEF Same
  <2>5. CASE i \in 1 .. n
    <3>1. Harmless(cmd[d], events[i])
      BY <1>3, <2>1, <2>5 DEF Same, KeyFree
    <3>2. Advances(cmd[d].read, proposal) => Advances(cmd[d].read, proposal')
      BY <2>2, <2>3, AdvancesOrders
    <3> QED
      BY <1>3, <2>1, <2>5, <3>1, <3>2 DEF Harmless, Same
  <2> QED
    BY <2>1, <2>4, <2>5
<1> QED
  BY <1>1, <1>2, <1>3, HeldBefore

\* KeyFree is an invariant.
LEMMA KeyFreeInvariant == Spec => []KeyFree
<1>1. Init => KeyFree
  BY DEF Init, Idle, KeyFree, Holding
<1> QED
  BY <1>1, KeyFreeStep, LifecycleInvariant, LegalInvariant, KeyInvariant,
     ReadsAreBehind, PTL DEF Spec

\* One key moves the proposal once, but for an approval that follows another
\* kind of command: a command that finds its key unused loses its compare-and-set
\* if a command with the same key moves the proposal before it commits.
THEOREM KeysMoveOnce == Spec => []KeyMovesOnce
<1>1. Init => KeyMovesOnce
  <2> SUFFICES ASSUME Init PROVE KeyMovesOnce
    OBVIOUS
  <2>1. DOMAIN events = {1} /\ events[1] = ProposalCreatedEvent
    BY DEF Init, RepositoryInit
  <2> QED
    BY <2>1 DEF KeyMovesOnce, ProposalCreatedEvent
<1>2. LifecycleInv /\ LegalInv /\ KeyInv /\ KeyFree /\ KeyMovesOnce /\ [Next]_vars
         => KeyMovesOnce'
  <2> SUFFICES ASSUME LifecycleInv, LegalInv, KeyInv, KeyFree, KeyMovesOnce,
                      [Next]_vars
               PROVE  KeyMovesOnce'
    OBVIOUS
  <2>1. CASE \A c \in Clients : ~Commit(c)
    BY <2>1, OnlyCommitsMove DEF KeyMovesOnce, MovesState
  <2>2. ASSUME NEW c \in Clients, Commit(c)
        PROVE  KeyMovesOnce'
    <3> DEFINE event == cmd[c].event
    <3>0. PICK n : n = Len(events)
      OBVIOUS
    <3>1. /\ DOMAIN events = 1 .. n /\ DOMAIN events' = 1 .. n + 1 /\ n \in Nat
          /\ events'[n + 1] = event
          /\ \A j \in 1 .. n : events'[j] = events[j]
          /\ cmd[c].phase \in Holding /\ proposal = cmd[c].read
      BY <2>2, <3>0, CommitAppends
    <3>2. ~Advances(cmd[c].read, proposal)
      BY <3>1, AdvancesOrders DEF LifecycleInv, TypeOK
    <3>3. event.request_hash # None => event.request_hash = cmd[c].request
      BY <3>1 DEF KeyInv, HeldKey, RecordedHash
    <3>4. ASSUME NEW i \in 1 .. n, event.request_hash # None,
                 events[i].request_hash # None,
                 events[i].idempotency_key = event.idempotency_key,
                 MovesState(events[i]), MovesState(event)
          PROVE  /\ event.request_hash.op = "approval"
                 /\ events[i].request_hash.op # "approval"
      BY <3>1, <3>2, <3>3, <3>4 DEF KeyFree, Harmless
    <3> HIDE DEF event
    <3>5. ASSUME NEW i \in 1 .. n + 1, NEW j \in 1 .. n + 1, i < j,
                 events'[i].request_hash # None, events'[j].request_hash # None,
                 events'[i].idempotency_key = events'[j].idempotency_key,
                 MovesState(events'[i]), MovesState(events'[j])
          PROVE  /\ events'[j].request_hash.op = "approval"
                 /\ events'[i].request_hash.op # "approval"
      <4>1. i \in 1 .. n
        BY <3>1, <3>5
      <4>2. CASE j = n + 1
        BY <3>1, <3>4, <3>5, <4>1, <4>2
      <4>3. CASE j \in 1 .. n
        BY <3>1, <3>5, <4>1, <4>3 DEF KeyMovesOnce
      <4> QED
        BY <3>1, <4>2, <4>3
    <3> QED
      BY <3>1, <3>5 DEF KeyMovesOnce, MovesState
  <2> QED
    BY <2>1, <2>2
<1> QED
  BY <1>1, <1>2, LifecycleInvariant, LegalInvariant, KeyInvariant,
     KeyFreeInvariant, PTL DEF Spec

-----------------------------------------------------------------------------
\* Outcomes.

\* Once an outcome is recorded the proposal has ended.
OutcomesEnd ==
    \A i \in DOMAIN events :
        events[i].event_type \in OutcomeEventTypes =>
            proposal.state \in TERMINAL_STATES

\* An outcome is legal while the proposal is open and ends it; what is ended
\* takes annotations only.
LEMMA LegalOutcome ==
    ASSUME NEW request, NEW read, NEW event, Legal(request, read, event)
    PROVE  /\ event.event_type \in OutcomeEventTypes =>
                /\ read.state \notin TERMINAL_STATES
                /\ event.to_state \in TERMINAL_STATES
           /\ read.state \in TERMINAL_STATES => event.to_state = read.state
<1>1. CASE LegalTransition(read.state, event)
  BY <1>1 DEF LegalTransition, TRANSITION_MAP, OutcomeEventTypes, TERMINAL_STATES
<1>2. CASE LegalUpdate(read.state, event)
  BY <1>2 DEF LegalUpdate, EXECUTION_UPDATE_EVENT_MAP, OutcomeEventTypes,
              TERMINAL_STATES
<1>3. CASE \/ LegalReview(read.state, event) \/ LegalReport(read, event)
          \/ LegalNewVersion(read.state, read.version, event)
  BY <1>3 DEF LegalReview, LegalReport, LegalNewVersion, OutcomeEventTypes
<1> QED
  BY <1>1, <1>2, <1>3 DEF Legal

\* Every outcome was recorded by a commit that found the proposal open.
LEMMA OutcomeInvariant == Spec => [](OutcomesEnd /\ OneExecutionOutcome)
<1>1. Init => OutcomesEnd /\ OneExecutionOutcome
  <2> SUFFICES ASSUME Init PROVE OutcomesEnd /\ OneExecutionOutcome
    OBVIOUS
  <2>1. DOMAIN events = {1} /\ events[1] = ProposalCreatedEvent
    BY DEF Init, RepositoryInit
  <2> QED
    BY <2>1
    DEF OutcomesEnd, OneExecutionOutcome, ProposalCreatedEvent, OutcomeEventTypes
<1>2. LifecycleInv /\ LegalInv /\ OutcomesEnd /\ OneExecutionOutcome /\ [Next]_vars
         => OutcomesEnd' /\ OneExecutionOutcome'
  <2> SUFFICES ASSUME LifecycleInv, LegalInv, OutcomesEnd, OneExecutionOutcome,
                      [Next]_vars
               PROVE  OutcomesEnd' /\ OneExecutionOutcome'
    OBVIOUS
  <2>1. CASE \A c \in Clients : ~Commit(c)
    BY <2>1, OnlyCommitsMove DEF OutcomesEnd, OneExecutionOutcome
  <2>2. ASSUME NEW c \in Clients, Commit(c)
        PROVE  OutcomesEnd' /\ OneExecutionOutcome'
    <3>0. PICK n : n = Len(events)
      OBVIOUS
    <3>1. /\ DOMAIN events = 1 .. n /\ DOMAIN events' = 1 .. n + 1 /\ n \in Nat
          /\ events'[n + 1] = cmd[c].event
          /\ \A j \in 1 .. n : events'[j] = events[j]
      BY <2>2, <3>0, CommitAppends
    <3>2. /\ Legal(cmd[c].request, proposal, cmd[c].event)
          /\ proposal'.state = cmd[c].event.to_state
      BY <2>2, CommitIsLegal
    <3>3. /\ cmd[c].event.event_type \in OutcomeEventTypes =>
               /\ proposal.state \notin TERMINAL_STATES
               /\ proposal'.state \in TERMINAL_STATES
          /\ proposal.state \in TERMINAL_STATES =>
               proposal'.state \in TERMINAL_STATES
      BY <3>2, LegalOutcome
    <3>4. \A i \in 1 .. n + 1 : i = n + 1 \/ i \in 1 .. n
      BY <3>1
    <3> QED
      BY <3>1, <3>3, <3>4 DEF OutcomesEnd, OneExecutionOutcome
  <2> QED
    BY <2>1, <2>2
<1> QED
  BY <1>1, <1>2, LifecycleInvariant, LegalInvariant, PTL DEF Spec

\* Execution ends once: an outcome ends the proposal, and nothing reopens it for a
\* second one.
THEOREM OutcomeOnce == Spec => []OneExecutionOutcome
BY OutcomeInvariant, PTL

-----------------------------------------------------------------------------
\* Handoffs.

\* The handoff went out under the request id of the update, and not later.
Answers(event, handoff) ==
    /\ handoff.event_type = "EXECUTION_REQUESTED"
    /\ handoff.execution_request_id = event.execution_request_id
    /\ handoff.occurred_at <= event.occurred_at

\* An update that a worker is about to record answers a handoff in the trail.
HeldUpdates ==
    \A c \in Clients :
        /\ cmd[c].phase \in Holding
        /\ cmd[c].event.idempotency_key \in UpdateIds
        => \E h \in DOMAIN events : Answers(cmd[c].event, events[h])

\* Only an update carries an update id.
LEMMA UpdateIdsAreUpdates ==
    ASSUME NEW request \in LifecycleRequest, RecordedKey(request) \in UpdateIds
    PROVE  request.op = "update" /\ KeyOf(request) = RecordedKey(request)
BY LifecycleAssumption
DEF LifecycleRequest, TransitionRequest, ApprovalRequest, VersionRequest,
    HandoffRequest, UpdateRequest, ReviewRequest, ReportRequest, KeyOf, RecordedKey

\* An update is decided for a handoff that the trail has.
LEMMA UpdateDecided ==
    ASSUME LifecycleInv, NEW d \in Clients, Decides(d),
           cmd'[d].event.idempotency_key \in UpdateIds
    PROVE  \E h \in DOMAIN events : Answers(cmd'[d].event, events[h])
<1>1. cmd \in [Clients -> Command] /\ cmd[d] \in Command
  BY DEF LifecycleInv, TypeOK
<1>2. cmd[d].request.op = "update"
  BY DecisionMade, UpdateIdsAreUpdates
<1>3. BuildUpdate(d)
  BY <1>2 DEF Decides, BuildTransition, BuildApproval, BuildVersion, BuildHandoff,
              BuildReview, BuildReport, Loaded
<1>4. PICK h \in DOMAIN events, event_type \in WorkflowEventTypes,
           to_state \in WorkflowStates :
         /\ IdentifiesHandoff(cmd[d], h)
         /\ UpdateAdmitted(cmd[d], h)
         /\ Build(d, BuildEvent(cmd[d], event_type, to_state,
                                UpdateOccurredAt(cmd[d]),
                                RelatedVersion(cmd[d],
                                               events[h].related_version_no),
                                cmd[d].request.execution_request_id),
                  None, None)
  BY <1>3 DEF BuildUpdate
<1> DEFINE event == BuildEvent(cmd[d], event_type, to_state,
                               UpdateOccurredAt(cmd[d]),
                               RelatedVersion(cmd[d],
                                              events[h].related_version_no),
                               cmd[d].request.execution_request_id)
<1>5. /\ event.execution_request_id = cmd[d].request.execution_request_id
      /\ event.occurred_at = UpdateOccurredAt(cmd[d])
  BY DEF BuildEvent
<1> HIDE DEF event
<1>6. cmd'[d].event = event
  <2>1. Build(d, event, None, None)
    BY <1>4 DEF event
  <2> QED
    BY <1>1, <2>1 DEF Build, Command
<1>7. /\ events[h].event_type = "EXECUTION_REQUESTED"
      /\ events[h].execution_request_id = event.execution_request_id
  BY <1>4, <1>5 DEF IdentifiesHandoff, LatestEvents, HandoffEvents
<1>8. events[h].occurred_at <= event.occurred_at
  <2>1. events[h].occurred_at \in Nat
    <3>1. events \in Seq(WorkflowEvent) /\ h \in DOMAIN events
      BY <1>4 DEF LifecycleInv, TypeOK
    <3>2. events[h] \in WorkflowEvent
      BY <3>1
    <3> QED
      BY <3>2 DEF WorkflowEvent
  <2>2. UpdateOccurredAt(cmd[d]) \in Nat
    <3>1. /\ cmd[d].request.occurred_at \in Times \cup {None}
          /\ cmd[d].now \in Nat
      BY <1>2, DecisionMade, Decided
      DEF LifecycleRequest, TransitionRequest, ApprovalRequest, VersionRequest,
          HandoffRequest, UpdateRequest, ReviewRequest, ReportRequest
    <3> QED
      BY <3>1, LifecycleAssumption DEF UpdateOccurredAt
  <2> QED
    BY <1>4, <1>5, <2>1, <2>2 DEF UpdateAdmitted
<1> QED
  BY <1>4, <1>6, <1>7, <1>8 DEF Answers

\* HeldUpdates is an invariant: the trail loses no handoff.
LEMMA HeldUpdatesStep ==
    ASSUME LifecycleInv, LegalInv, HeldUpdates, [Next]_vars
    PROVE  HeldUpdates'
<1> SUFFICES ASSUME NEW d \in Clients, cmd'[d].phase \in Holding,
                    cmd'[d].event.idempotency_key \in UpdateIds
             PROVE  \E h \in DOMAIN events' : Answers(cmd'[d].event, events'[h])
  BY DEF HeldUpdates
<1>1. \E h \in DOMAIN events : Answers(cmd'[d].event, events[h])
  BY HeldBefore, UpdateDecided DEF HeldUpdates, Same
<1>2. \A h \in DOMAIN events : h \in DOMAIN events' /\ events'[h] = events[h]
  BY TrailKept
<1> QED
  BY <1>1, <1>2 DEF Answers

\* Updates in the trail and updates about to be recorded answer a handoff.
LEMMA UpdatesInvariant == Spec => [](HeldUpdates /\ UpdatesFollowHandoff)
<1>1. Init => HeldUpdates /\ UpdatesFollowHandoff
  <2> SUFFICES ASSUME Init PROVE HeldUpdates /\ UpdatesFollowHandoff
    OBVIOUS
  <2>1. /\ DOMAIN events = {1} /\ events[1] = ProposalCreatedEvent
        /\ cmd = [c \in Clients |-> Idle]
    BY DEF Init, RepositoryInit
  <2> QED
    BY <2>1, LifecycleAssumption
    DEF HeldUpdates, UpdatesFollowHandoff, ProposalCreatedEvent, Idle, Holding
<1>2. LifecycleInv /\ LegalInv /\ HeldUpdates /\ UpdatesFollowHandoff /\ [Next]_vars
         => UpdatesFollowHandoff'
  <2> SUFFICES ASSUME LifecycleInv, LegalInv, HeldUpdates, UpdatesFollowHandoff,
                      [Next]_vars
               PROVE  UpdatesFollowHandoff'
    OBVIOUS
  <2>1. CASE \A c \in Clients : ~Commit(c)
    BY <2>1, OnlyCommitsMove DEF UpdatesFollowHandoff
  <2>2. ASSUME NEW c \in Clients, Commit(c)
        PROVE  UpdatesFollowHandoff'
    <3>0. PICK n : n = Len(events)
      OBVIOUS
    <3>1. /\ DOMAIN events = 1 .. n /\ DOMAIN events' = 1 .. n + 1 /\ n \in Nat
          /\ events'[n + 1] = cmd[c].event
          /\ \A j \in 1 .. n : events'[j] = events[j]
          /\ cmd[c].phase \in Holding
      BY <2>2, <3>0, CommitAppends
    <3> SUFFICES ASSUME NEW i \in 1 .. n + 1,
                        events'[i].idempotency_key \in UpdateIds
                 PROVE  \E h \in 1 .. i - 1 : Answers(events'[i], events'[h])
      BY <3>1 DEF UpdatesFollowHandoff, Answers
    <3>2. CASE i \in 1 .. n
      <4>1. PICK h \in 1 .. i - 1 : Answers(events[i], events[h])
        BY <3>1, <3>2 DEF UpdatesFollowHandoff, Answers
      <4>2. h \in 1 .. n
        BY <3>1, <3>2
      <4> QED
        BY <3>1, <3>2, <4>1, <4>2 DEF Answers
    <3>3. CASE i = n + 1
      <4>1. PICK h \in 1 .. n : Answers(cmd[c].event, events[h])
        BY <3>1, <3>3 DEF HeldUpdates
      <4> QED
        BY <3>1, <3>3, <4>1 DEF Answers
    <3> QED
      BY <3>1, <3>2, <3>3
  <2> QED
    BY <2>1, <2>2
<1> QED
  BY <1>1, <1>2, HeldUpdatesStep, LifecycleInvariant, LegalInvariant, PTL DEF Spec

\* An update in the trail follows the handoff that it answers: it was decided
\* for one that had been committed, and committed events stay where they are.
THEOREM UpdatesAnswer == Spec => []UpdatesFollowHandoff
BY UpdatesInvariant, PTL

-----------------------------------------------------------------------------
\* Repeated updates.

\* No two workers hold decisions on one update at the same time.
UpdatesApart ==
    \A c, d \in Clients :
        /\ c # d
        /\ cmd[c].phase \in Holding /\ cmd[d].phase \in Holding
        /\ cmd[c].event.idempotency_key \in UpdateIds
        => cmd[d].event.idempotency_key # cmd[c].event.idempotency_key

\* The trail does not have the update that a worker is about to record.
HeldUpdatesNew ==
    \A c \in Clients :
        /\ cmd[c].phase \in Holding
        /\ cmd[c].event.idempotency_key \in UpdateIds
        => \A i \in DOMAIN events :
              events[i].idempotency_key # cmd[c].event.idempotency_key

\* An update is decided on when its key is found nowhere in the trail.
LEMMA DecidedUpdateNew ==
    ASSUME LifecycleInv, NEW d \in Clients, Decides(d),
           cmd'[d].event.idempotency_key \in UpdateIds,
           NEW i \in DOMAIN events
    PROVE  events[i].idempotency_key # cmd'[d].event.idempotency_key
<1>1. /\ cmd'[d].event.idempotency_key = RecordedKey(cmd[d].request)
      /\ cmd[d].request \in LifecycleRequest
  BY DecisionMade
<1>2. /\ cmd[d].request.op = "update"
      /\ KeyOf(cmd[d].request) = RecordedKey(cmd[d].request)
  BY <1>1, UpdateIdsAreUpdates
<1>3. BuildUpdate(d)
  BY <1>2 DEF Decides, BuildTransition, BuildApproval, BuildVersion, BuildHandoff,
              BuildReview, BuildReport, Loaded
<1>4. ~KeyTaken(cmd[d])
  BY <1>3 DEF BuildUpdate
<1>5. KeyedEvents(KeyOf(cmd[d].request)) = {}
  BY <1>2, <1>4 DEF KeyTaken, KeyedHistory
<1>6. KeyOf(cmd[d].request) # None
  BY <1>1, <1>2, LifecycleAssumption
<1> QED
  BY <1>1, <1>2, <1>5, <1>6 DEF KeyedEvents

\* HeldUpdatesNew is kept by every step that does not commit an update that
\* another worker holds, too.
LEMMA HeldUpdatesNewStep ==
    ASSUME LifecycleInv, LegalInv, UpdatesApart, HeldUpdatesNew, [Next]_vars
    PROVE  HeldUpdatesNew'
<1> SUFFICES ASSUME NEW d \in Clients, cmd'[d].phase \in Holding,
                    cmd'[d].event.idempotency_key \in UpdateIds,
                    NEW i \in DOMAIN events'
             PROVE  events'[i].idempotency_key # cmd'[d].event.idempotency_key
  BY DEF HeldUpdatesNew
<1>1. CASE Decides(d)
  BY <1>1, DecisionMade, DecidedUpdateNew DEF repositoryVars
<1>2. CASE Same(cmd[d], cmd'[d]) /\ \A c \in Clients : ~Commit(c)
  BY <1>2, OnlyCommitsMove DEF Same, HeldUpdatesNew
<1>3. ASSUME NEW c \in Clients, Commit(c), Same(cmd[d], cmd'[d])
      PROVE  events'[i].idempotency_key # cmd'[d].event.idempotency_key
  <2>0. PICK n : n = Len(events)
    OBVIOUS
  <2>1. /\ DOMAIN events = 1 .. n /\ DOMAIN events' = 1 .. n + 1 /\ n \in Nat
        /\ events'[n + 1] = cmd[c].event
        /\ \A j \in 1 .. n : events'[j] = events[j]
        /\ cmd[c].phase \in Holding /\ cmd'[c] = Idle
    BY <1>3, <2>0, CommitAppends
  <2>2. c # d
    BY <2>1 DEF Idle, Holding
  <2>3. CASE i = n + 1
    BY <1>3, <2>1, <2>2, <2>3 DEF UpdatesApart, Same
  <2>4. CASE i \in 1 .. n
    BY <1>3, <2>1, <2>4 DEF HeldUpdatesNew, Same
  <2> QED
    BY <2>1, <2>3, <2>4
<1> QED
  BY <1>1, <1>2, <1>3, HeldBefore

\* An update is recorded twice only if two workers decide on it before either
\* commits: the retry of a delivery that has ended, in an answer, a refusal or a
\* crash, never records it again.
THEOREM UpdatesRecordedOnce == Spec /\ []UpdatesApart => []UpdateRecordedOnce
<1>1. Init => HeldUpdatesNew /\ UpdateRecordedOnce
  <2> SUFFICES ASSUME Init PROVE HeldUpdatesNew /\ UpdateRecordedOnce
    OBVIOUS
  <2>1. /\ DOMAIN events = {1}
        /\ cmd = [c \in Clients |-> Idle]
    BY DEF Init, RepositoryInit
  <2> QED
    BY <2>1 DEF HeldUpdatesNew, UpdateRecordedOnce, Idle, Holding
<1>2. LifecycleInv /\ LegalInv /\ HeldUpdatesNew /\ UpdateRecordedOnce /\ [Next]_vars
         => UpdateRecordedOnce'
  <2> SUFFICES ASSUME LifecycleInv, LegalInv, HeldUpdatesNew, UpdateRecordedOnce,
                      [Next]_vars
               PROVE  UpdateRecordedOnce'
    OBVIOUS
  <2>1. CASE \A c \in Clients : ~Commit(c)
    BY <2>1, OnlyCommitsMove DEF UpdateRecordedOnce
  <2>2. ASSUME NEW c \in Clients, Commit(c)
        PROVE  UpdateRecordedOnce'
    <3>0. PICK n : n = Len(events)
      OBVIOUS
    <3>1. /\ DOMAIN events = 1 .. n /\ DOMAIN events' = 1 .. n + 1 /\ n \in Nat
          /\ events'[n + 1] = cmd[c].event
          /\ \A j \in 1 .. n : events'[j] = events[j]
          /\ cmd[c].phase \in Holding
      BY <2>2, <3>0, CommitAppends
    <3>2. ASSUME NEW j \in 1 .. n,
                 events'[n + 1].idempotency_key \in UpdateIds
          PROVE  events'[j].idempotency_key # events'[n + 1].idempotency_key
      BY <3>1, <3>2 DEF HeldUpdatesNew
    <3>3. ASSUME NEW i \in 1 .. n, NEW j \in 1 .. n,
                 events'[i].idempotency_key \in UpdateIds,
                 events'[i].idempotency_key = events'[j].idempotency_key
          PROVE  i = j
      BY <3>1, <3>3 DEF UpdateRecordedOnce
    <3>4. \A i \in 1 .. n + 1 : i \in 1 .. n \/ i = n + 1
      BY <3>1
    <3> QED
      BY <3>1, <3>2, <3>3, <3>4 DEF UpdateRecordedOnce
  <2> QED
    BY <2>1, <2>2
<1> QED
  BY <1>1, <1>2, HeldUpdatesNewStep, LifecycleInvariant, LegalInvariant, PTL
     DEF Spec

-----------------------------------------------------------------------------
\* Orphan versions.

\* A worker that has stored a version ends by committing it: it neither dies nor
\* loses the second transaction.
StoredVersionsCommit ==
    \A c \in Clients :
        cmd[c].phase = "stored" => cmd'[c].phase = "stored" \/ Commit(c)

\* A row ahead of the proposal belongs to a worker that is about to publish it.
RowsAheadAreHeld ==
    \A n \in VersionNumbers :
        /\ n > proposal.version
        /\ versions[n] # None
        => \E c \in Clients : cmd[c].phase = "stored" /\ cmd[c].read.version + 1 = n

\* RowsAheadAreHeld is kept where stored versions are committed.
LEMMA RowsAheadAreHeldStep ==
    ASSUME LifecycleInv, LegalInv, RowsAheadAreHeld, StoredVersionsCommit, Next
    PROVE  RowsAheadAreHeld'
<1> SUFFICES ASSUME NEW n \in VersionNumbers,
                    n > proposal'.version, versions'[n] # None
             PROVE  \E d \in Clients : /\ cmd'[d].phase = "stored"
                                       /\ cmd'[d].read.version + 1 = n
  BY DEF RowsAheadAreHeld
<1> DEFINE Quiet(c) == \/ Receive(c) \/ Load(c) \/ Replay(c) \/ Refuse(c)
                       \/ BuildTransition(c) \/ BuildApproval(c)
                       \/ BuildVersion(c) \/ BuildHandoff(c)
                       \/ BuildUpdate(c) \/ BuildReview(c) \/ BuildReport(c)
                       \/ LoseVersion(c) \/ LoseCommit(c) \/ Crash(c)
<1>1. /\ cmd \in [Clients -> Command] /\ proposal \in ProposalRecord
      /\ versions \in [VersionNumbers -> VersionIds \cup {None}]
      /\ \A c \in Clients : cmd[c] \in Command /\ CommandCoherent(cmd[c])
  BY DEF LifecycleInv, TypeOK
<1>2. ASSUME NEW c \in Clients, Commit(c)
      PROVE  \E d \in Clients : /\ cmd'[d].phase = "stored"
                                /\ cmd'[d].read.version + 1 = n
  <2>1. /\ versions' = versions /\ cmd' = [cmd EXCEPT ![c] = Idle]
        /\ proposal = cmd[c].read /\ proposal' = UpdatedRecord(cmd[c])
    BY <1>2 DEF Commit, TransitionProposal, UpdateProposalIfCurrent
  <2>2. /\ proposal.version \in Nat /\ n \in Nat
        /\ proposal'.version = IF cmd[c].request.op = "version"
                                 THEN proposal.version + 1 ELSE proposal.version
    BY <1>1, <2>1, RepositoryAssumption
    DEF UpdatedRecord, ProposalRecord, VersionNumbers
  <2>3. n > proposal.version
    BY <2>2
  <2>4. PICK d \in Clients : cmd[d].phase = "stored" /\ cmd[d].read.version + 1 = n
    BY <2>1, <2>3 DEF RowsAheadAreHeld
  <2>5. d # c
    <3>1. SUFFICES ASSUME d = c PROVE FALSE
      OBVIOUS
    <3>2. cmd[c].request.op = "version"
      BY <1>1, <2>4, <3>1 DEF CommandCoherent
    <3>3. proposal'.version = n
      BY <2>1, <2>2, <2>4, <3>1, <3>2
    <3> QED
      BY <2>2, <3>3
  <2> QED
    BY <1>1, <2>1, <2>4, <2>5
<1>3. ASSUME NEW c \in Clients, StoreVersion(c)
      PROVE  \E d \in Clients : /\ cmd'[d].phase = "stored"
                                /\ cmd'[d].read.version + 1 = n
  <2>1. /\ cmd[c].phase = "built" /\ cmd' = [cmd EXCEPT ![c].phase = "stored"]
        /\ proposal' = proposal
        /\ versions' = [versions EXCEPT ![cmd[c].read.version + 1] = cmd[c].row]
    BY <1>3 DEF StoreVersion, CreateVersion
  <2>2. CASE n = cmd[c].read.version + 1
    <3>1. cmd'[c].phase = "stored" /\ cmd'[c].read = cmd[c].read
      BY <1>1, <2>1 DEF Command
    <3> QED
      BY <2>2, <3>1
  <2>3. CASE n # cmd[c].read.version + 1
    <3>1. versions[n] # None
      BY <1>1, <2>1, <2>3
    <3>2. PICK d \in Clients : /\ cmd[d].phase = "stored"
                               /\ cmd[d].read.version + 1 = n
      BY <2>1, <3>1 DEF RowsAheadAreHeld
    <3>3. cmd'[d] = cmd[d]
      BY <1>1, <2>1, <3>2
    <3> QED
      BY <3>2, <3>3
  <2> QED
    BY <2>2, <2>3
<1>4. ASSUME NEW c \in Clients, Quiet(c), \A e \in Clients : ~Commit(e)
      PROVE  \E d \in Clients : /\ cmd'[d].phase = "stored"
                                /\ cmd'[d].read.version + 1 = n
  <2>1. versions' = versions
    BY <1>4
    DEF Receive, Load, Replay, Refuse, BuildTransition, BuildApproval,
        BuildVersion, BuildHandoff, BuildUpdate, BuildReview, BuildReport,
        LoseVersion, LoseCommit, Crash, Build, repositoryVars
  <2>2. proposal' = proposal
    BY <1>4, OnlyCommitsMove
  <2>3. PICK d \in Clients : cmd[d].phase = "stored" /\ cmd[d].read.version + 1 = n
    BY <2>1, <2>2 DEF RowsAheadAreHeld
  <2>4. cmd'[d].phase = "stored"
    BY <1>4, <2>3 DEF StoredVersionsCommit
  <2>5. ~Decides(d)
    BY <2>3
    DEF Decides, BuildTransition, BuildApproval, BuildVersion, BuildHandoff,
        BuildUpdate, BuildReview, BuildReport, Loaded
  <2>6. Same(cmd[d], cmd'[d])
    BY <2>4, <2>5, HeldBefore DEF Holding
  <2> QED
    BY <2>3, <2>4, <2>6 DEF Same
<1>5. \E c \in Clients : Commit(c) \/ StoreVersion(c) \/ Quiet(c)
  BY DEF Next
<1> QED
  BY <1>2, <1>3, <1>4, <1>5

\* The latest version row is the proposal's when no row is ahead of it.
LEMMA NoRowAhead ==
    ASSUME LifecycleInv, RowsAheadAreHeld
    PROVE  NoOrphanVersion
<1> SUFFICES ASSUME \A c \in Clients : cmd[c].phase # "stored"
             PROVE  CurrentVersionNo = proposal.version
  BY DEF NoOrphanVersion
<1>1. /\ proposal.version \in VersionNumbers
      /\ versions[proposal.version] # None
  <2>1. proposal \in ProposalRecord
    BY DEF LifecycleInv, TypeOK
  <2>2. proposal.version \in 1 .. proposal.version
    BY <2>1, RepositoryAssumption DEF ProposalRecord, VersionNumbers
  <2> QED
    BY <2>1, <2>2 DEF LifecycleInv, VersionRowsBackProposal, ProposalRecord
<1>2. VersionNumbers \subseteq Nat
  BY RepositoryAssumption DEF VersionNumbers
<1>3. ASSUME NEW m \in VersionNumbers, versions[m] # None
      PROVE  m <= proposal.version
  <2>1. m \in Nat /\ proposal.version \in Nat
    BY <1>1, <1>2
  <2>2. ~(m > proposal.version)
    BY <1>3 DEF RowsAheadAreHeld
  <2> QED
    BY <2>1, <2>2
<1> DEFINE Latest(n) == /\ versions[n] # None
                        /\ \A m \in VersionNumbers : versions[m] # None => m <= n
<1>4. Latest(proposal.version)
  BY <1>1, <1>3
<1>5. ASSUME NEW n \in VersionNumbers, Latest(n)
      PROVE  n = proposal.version
  <2>1. n \in Nat /\ proposal.version \in Nat
    BY <1>1, <1>2
  <2>2. n <= proposal.version /\ proposal.version <= n
    BY <1>1, <1>3, <1>5
  <2> QED
    BY <2>1, <2>2
<1>6. CurrentVersionNo = CHOOSE n \in VersionNumbers : Latest(n)
  BY DEF CurrentVersionNo
<1> HIDE DEF Latest
<1> QED
  BY <1>1, <1>4, <1>5, <1>6

\* A version row is left ahead of its proposal only by a worker that stored it
\* and then died or lost the transaction that publishes it: no other
\* interleaving separates the two.
THEOREM NoOrphanUnlessAbandoned ==
    Spec /\ [][StoredVersionsCommit]_vars => []NoOrphanVersion
<1>1. Init => RowsAheadAreHeld
  <2> SUFFICES ASSUME Init PROVE RowsAheadAreHeld
    OBVIOUS
  <2>1. /\ proposal.version = 1
        /\ \A n \in VersionNumbers : n # 1 => versions[n] = None
    BY DEF Init, RepositoryInit
  <2> QED
    BY <2>1 DEF RowsAheadAreHeld
<1>2. LifecycleInv /\ LegalInv /\ RowsAheadAreHeld
         /\ [StoredVersionsCommit]_vars /\ [Next]_vars
         => RowsAheadAreHeld'
  <2> SUFFICES ASSUME LifecycleInv, LegalInv, RowsAheadAreHeld,
                      [StoredVersionsCommit]_vars, [Next]_vars
               PROVE  RowsAheadAreHeld'
    OBVIOUS
  <2>1. CASE UNCHANGED vars
    BY <2>1 DEF vars, RowsAheadAreHeld
  <2>2. CASE Next /\ StoredVersionsCommit
    BY <2>2, RowsAheadAreHeldStep
  <2> QED
    BY <2>1, <2>2
<1>3. LifecycleInv /\ RowsAheadAreHeld => NoOrphanVersion
  BY NoRowAhead
<1> QED
  BY <1>1, <1>2, <1>3, LifecycleInvariant, LegalInvariant, PTL DEF Spec

-----------------------------------------------------------------------------
\* The execution status.

\* The trail is committed in the order of the times that its events carry.
TrailInTimeOrder ==
    \A i, j \in DOMAIN events :
        i < j => events[i].occurred_at <= events[j].occurred_at

StatusEventTypes ==
    {"EXECUTION_REQUESTED", "EXECUTION_ACCEPTED", "EXECUTION_PARTIALLY_EXECUTED",
     "EXECUTION_REJECTED", "EXECUTION_CANCELLED", "EXECUTION_EXPIRED", "EXECUTED"}

\* The events that the status is taken from.
LEMMA StatusTable ==
    /\ DOMAIN ExecutionStatusByEventType = StatusEventTypes
    /\ ExecutionStatusByEventType["EXECUTED"] = "EXECUTED"
BY DEF ExecutionStatusByEventType, StatusEventTypes

\* The event at i is the last one that bears on the execution status.
LastStatusEvent(i) ==
    \A j \in DOMAIN events : j > i => events[j].event_type \notin StatusEventTypes

\* A proposal that was executed has that event last among those of its execution.
ExecutedLast ==
    proposal.state = "EXECUTED" =>
        \E i \in DOMAIN events :
            events[i].event_type = "EXECUTED" /\ LastStatusEvent(i)

\* Only the event of that name executes a proposal, and an executed one records
\* no further event of its execution.
LEMMA LegalExecution ==
    ASSUME NEW request, NEW read, NEW event, Legal(request, read, event),
           event.to_state = "EXECUTED"
    PROVE  IF read.state = "EXECUTED" THEN event.event_type \notin StatusEventTypes
                                      ELSE event.event_type = "EXECUTED"
<1>1. CASE LegalTransition(read.state, event)
  BY <1>1 DEF LegalTransition, TRANSITION_MAP, TERMINAL_STATES
<1>2. CASE LegalUpdate(read.state, event)
  BY <1>2 DEF LegalUpdate, EXECUTION_UPDATE_EVENT_MAP, TERMINAL_STATES
<1>3. CASE \/ LegalReview(read.state, event) \/ LegalReport(read, event)
          \/ LegalNewVersion(read.state, read.version, event)
  BY <1>3 DEF LegalReview, LegalReport, LegalNewVersion, StatusEventTypes
<1> QED
  BY <1>1, <1>2, <1>3 DEF Legal

\* ExecutedLast is kept by every step.
LEMMA ExecutedLastStep ==
    ASSUME LifecycleInv, LegalInv, ExecutedLast, [Next]_vars
    PROVE  ExecutedLast'
<1>1. CASE \A c \in Clients : ~Commit(c)
  BY <1>1, OnlyCommitsMove DEF ExecutedLast, LastStatusEvent
<1>2. ASSUME NEW c \in Clients, Commit(c)
      PROVE  ExecutedLast'
  <2>0. PICK n : n = Len(events)
    OBVIOUS
  <2>1. /\ DOMAIN events = 1 .. n /\ DOMAIN events' = 1 .. n + 1 /\ n \in Nat
        /\ events'[n + 1] = cmd[c].event
        /\ \A j \in 1 .. n : events'[j] = events[j]
    BY <1>2, <2>0, CommitAppends
  <2>2. /\ Legal(cmd[c].request, proposal, cmd[c].event)
        /\ proposal'.state = cmd[c].event.to_state
    BY <1>2, CommitIsLegal
  <2> SUFFICES ASSUME proposal'.state = "EXECUTED"
               PROVE  \E i \in 1 .. n + 1 :
                         /\ events'[i].event_type = "EXECUTED"
                         /\ \A j \in 1 .. n + 1 : j > i =>
                               events'[j].event_type \notin StatusEventTypes
    BY <2>1 DEF ExecutedLast, LastStatusEvent
  <2>3. CASE proposal.state = "EXECUTED"
    <3>1. events'[n + 1].event_type \notin StatusEventTypes
      BY <2>1, <2>2, <2>3, LegalExecution
    <3>2. PICK i \in 1 .. n :
             /\ events[i].event_type = "EXECUTED"
             /\ \A j \in 1 .. n : j > i =>
                   events[j].event_type \notin StatusEventTypes
      BY <2>1, <2>3 DEF ExecutedLast, LastStatusEvent
    <3>3. \A j \in 1 .. n + 1 : j = n + 1 \/ j \in 1 .. n
      BY <2>1
    <3>4. i \in 1 .. n + 1 /\ events'[i].event_type = "EXECUTED"
      BY <2>1, <3>2
    <3>5. ASSUME NEW j \in 1 .. n + 1, j > i
          PROVE  events'[j].event_type \notin StatusEventTypes
      BY <2>1, <3>1, <3>2, <3>3, <3>5
    <3> QED
      BY <3>4, <3>5
  <2>4. CASE proposal.state # "EXECUTED"
    <3>1. n + 1 \in 1 .. n + 1 /\ \A j \in 1 .. n + 1 : ~(j > n + 1)
      BY <2>1
    <3>2. events'[n + 1].event_type = "EXECUTED"
      BY <2>1, <2>2, <2>4, LegalExecution
    <3> QED
      BY <3>1, <3>2
  <2> QED
    BY <2>3, <2>4
<1> QED
  BY <1>1, <1>2

\* In a trail in time order the last event of the execution is the latest.
LEMMA LastIsShown ==
    ASSUME LifecycleInv, ExecutedLast, TrailInTimeOrder
    PROVE  ExecutedProposalShowsExecuted
<1> SUFFICES ASSUME proposal.state = "EXECUTED"
             PROVE  \E response \in ExecutionStatusResponses :
                       /\ response.handoff_status = "EXECUTED"
                       /\ response.executed_at # None
  BY DEF ExecutedProposalShowsExecuted
<1>1. PICK i \in DOMAIN events :
         events[i].event_type = "EXECUTED" /\ LastStatusEvent(i)
  BY DEF ExecutedLast
<1>2. /\ DOMAIN events \subseteq Nat
      /\ \A j \in DOMAIN events : events[j].occurred_at \in Nat
  <2>1. events \in Seq(WorkflowEvent)
    BY DEF LifecycleInv, TypeOK
  <2>2. ASSUME NEW j \in DOMAIN events
        PROVE  j \in Nat /\ events[j] \in WorkflowEvent
    BY <2>1
  <2> QED
    BY <2>2 DEF WorkflowEvent
<1>3. ASSUME NEW j \in DOMAIN events, events[j].event_type \in StatusEventTypes
      PROVE  events[j].occurred_at <= events[i].occurred_at
  <2>1. i \in Nat /\ j \in Nat /\ events[i].occurred_at \in Nat
    BY <1>2
  <2>2. ~(j > i)
    BY <1>1, <1>3 DEF LastStatusEvent
  <2>3. CASE j = i
    BY <2>1, <2>3
  <2>4. CASE j < i
    BY <2>4 DEF TrailInTimeOrder
  <2> QED
    BY <2>1, <2>2, <2>3, <2>4
<1>4. i \in LatestStatusEvents
  <2>1. events[i].event_type \in StatusEventTypes
    BY <1>1 DEF StatusEventTypes
  <2> QED
    BY <1>3, <2>1, StatusTable DEF LatestStatusEvents, LatestEvents
<1> DEFINE shown == [handoff_status |-> ExecutionStatusByEventType[events[i].event_type],
                     executed_at |-> IF events[i].event_type = "EXECUTED"
                                     THEN events[i].occurred_at ELSE None]
<1>5. shown \in ExecutionStatusResponses
  BY <1>4 DEF ExecutionStatusResponses
<1>6. shown.handoff_status = "EXECUTED" /\ shown.executed_at # None
  <2>1. events[i].occurred_at # None
    BY <1>2, LifecycleAssumption
  <2> QED
    BY <1>1, <2>1, StatusTable
<1> QED
  BY <1>5, <1>6

\* An executed proposal fails to show that only if its trail is out of time
\* order, through the time that an update brings or through commands that commit
\* in another order than they arrived in: the events themselves are committed in
\* the order of the execution.
THEOREM ExecutedShownInOrder ==
    Spec /\ []TrailInTimeOrder => []ExecutedProposalShowsExecuted
<1>1. Init => ExecutedLast
  BY DEF Init, RepositoryInit, ExecutedLast
<1>2. LifecycleInv /\ ExecutedLast /\ TrailInTimeOrder => ExecutedProposalShowsExecuted
  BY LastIsShown
<1> QED
  BY <1>1, <1>2, ExecutedLastStep, LifecycleInvariant, LegalInvariant, PTL DEF Spec

-----------------------------------------------------------------------------
\* Reports.

\* The proposal has the version that its trail has published.
VersionIsPublished == proposal.version = PublishedVersion(Len(events))

\* A commit publishes a version if it is one, and leaves the earlier numbers.
LEMMA CommitPublishes ==
    ASSUME LifecycleInv, LegalInv, NEW c \in Clients, Commit(c),
           NEW n, n = Len(events)
    PROVE  /\ \A i \in 1 .. n : PublishedVersion(i)' = PublishedVersion(i)
           /\ PublishedVersion(n) \in Nat
           /\ PublishedVersion(n + 1)' =
                 IF cmd[c].event.event_type = "NEW_VERSION_CREATED"
                   THEN PublishedVersion(n) + 1 ELSE PublishedVersion(n)
<1> DEFINE New == {j \in 1 .. n : events[j].event_type = "NEW_VERSION_CREATED"}
           NewNext == {j \in 1 .. n + 1 :
                          events'[j].event_type = "NEW_VERSION_CREATED"}
<1>1. /\ n \in Nat
      /\ events'[n + 1] = cmd[c].event
      /\ \A i \in 1 .. n : events'[i] = events[i]
  BY CommitAppends
<1>2. \A i \in 1 .. n : PublishedVersion(i)' = PublishedVersion(i)
  <2> SUFFICES ASSUME NEW i \in 1 .. n
               PROVE  PublishedVersion(i)' = PublishedVersion(i)
    OBVIOUS
  <2>1. \A j \in 1 .. i : events'[j] = events[j]
    BY <1>1
  <2>2. {j \in 1 .. i : events'[j].event_type = "NEW_VERSION_CREATED"}
           = {j \in 1 .. i : events[j].event_type = "NEW_VERSION_CREATED"}
    BY <2>1
  <2> QED
    BY <2>2 DEF PublishedVersion
<1>3. IsFiniteSet(New) /\ Cardinality(New) \in Nat /\ n + 1 \notin New
  <2>1. IsFiniteSet(1 .. n)
    BY <1>1, FS_Interval
  <2>2. IsFiniteSet(New)
    BY <2>1, FS_Subset
  <2>3. Cardinality(New) \in Nat
    BY <2>2, FS_CardinalityType
  <2>4. n + 1 \notin New
    BY <1>1
  <2> QED
    BY <2>2, <2>3, <2>4
<1>4. PublishedVersion(n) = 1 + Cardinality(New)
  BY DEF PublishedVersion
<1>5. PublishedVersion(n + 1)' = 1 + Cardinality(NewNext)
  BY DEF PublishedVersion
<1>6. CASE cmd[c].event.event_type = "NEW_VERSION_CREATED"
  <2>1. NewNext = New \cup {n + 1}
    BY <1>1, <1>6
  <2>2. Cardinality(New \cup {n + 1}) = Cardinality(New) + 1
    BY <1>3, FS_AddElement
  <2> HIDE DEF New, NewNext
  <2> QED
    BY <1>2, <1>3, <1>4, <1>5, <1>6, <2>1, <2>2
<1>7. CASE cmd[c].event.event_type # "NEW_VERSION_CREATED"
  <2>1. NewNext = New
    BY <1>1, <1>7
  <2> HIDE DEF New, NewNext
  <2> QED
    BY <1>2, <1>3, <1>4, <1>5, <1>7, <2>1
<1> QED
  BY <1>6, <1>7

\* What a report event may be, and that new versions alone announce one.
LEMMA LegalKinds ==
    ASSUME NEW request, NEW read, NEW event, Legal(request, read, event)
    PROVE  /\ event.event_type = "NEW_VERSION_CREATED" <=> request.op = "version"
           /\ event.event_type = "REPORT_REQUESTED" =>
                 event.related_version_no <= read.version
<1>1. CASE LegalTransition(read.state, event) /\ request.op # "version"
  BY <1>1 DEF LegalTransition, TRANSITION_MAP
<1>2. CASE LegalUpdate(read.state, event) /\ request.op # "version"
  BY <1>2 DEF LegalUpdate, EXECUTION_UPDATE_EVENT_MAP
<1>3. CASE LegalReview(read.state, event) /\ request.op # "version"
  BY <1>3 DEF LegalReview
<1>4. CASE LegalReport(read, event) /\ request.op # "version"
  BY <1>4 DEF LegalReport
<1>5. CASE LegalNewVersion(read.state, read.version, event)
           /\ request.op = "version"
  BY <1>5 DEF LegalNewVersion
<1> QED
  BY <1>1, <1>2, <1>3, <1>4, <1>5 DEF Legal

\* The version of the proposal is the one that its trail has published.
LEMMA ReportsInvariant == Spec => [](VersionIsPublished /\ ReportsNamePublishedVersions)
<1>1. Init => VersionIsPublished /\ ReportsNamePublishedVersions
  <2> SUFFICES ASSUME Init PROVE VersionIsPublished /\ ReportsNamePublishedVersions
    OBVIOUS
  <2>1. /\ DOMAIN events = {1} /\ events[1] = ProposalCreatedEvent
        /\ Len(events) = 1 /\ proposal.version = 1
    BY DEF Init, RepositoryInit
  <2>2. {j \in 1 .. 1 : events[j].event_type = "NEW_VERSION_CREATED"} = {}
    BY <2>1 DEF ProposalCreatedEvent
  <2>3. PublishedVersion(1) = 1
    BY <2>2, FS_EmptySet DEF PublishedVersion
  <2> QED
    BY <2>1, <2>3
    DEF VersionIsPublished, ReportsNamePublishedVersions, ProposalCreatedEvent
<1>2. LifecycleInv /\ LegalInv /\ VersionIsPublished /\ ReportsNamePublishedVersions
         /\ [Next]_vars => VersionIsPublished' /\ ReportsNamePublishedVersions'
  <2> SUFFICES ASSUME LifecycleInv, LegalInv, VersionIsPublished,
                      ReportsNamePublishedVersions, [Next]_vars
               PROVE  VersionIsPublished' /\ ReportsNamePublishedVersions'
    OBVIOUS
  <2>1. CASE \A c \in Clients : ~Commit(c)
    BY <2>1, OnlyCommitsMove
    DEF VersionIsPublished, ReportsNamePublishedVersions, PublishedVersion
  <2>2. ASSUME NEW c \in Clients, Commit(c)
        PROVE  VersionIsPublished' /\ ReportsNamePublishedVersions'
    <3>0. PICK n : n = Len(events)
      OBVIOUS
    <3>1. /\ DOMAIN events = 1 .. n /\ DOMAIN events' = 1 .. n + 1 /\ n \in Nat
          /\ events'[n + 1] = cmd[c].event
          /\ \A j \in 1 .. n : events'[j] = events[j]
      BY <2>2, <3>0, CommitAppends
    <3>2. Len(events') = n + 1
      <4>1. events' \in Seq(WorkflowEvent)
        BY <2>2, CommitStep DEF LifecycleInv, TypeOK
      <4> QED
        BY <3>1, <4>1
    <3>3. /\ proposal'.version = IF cmd[c].request.op = "version"
                                   THEN proposal.version + 1 ELSE proposal.version
          /\ cmd[c].event.event_type = "NEW_VERSION_CREATED"
                <=> cmd[c].request.op = "version"
          /\ cmd[c].event.event_type = "REPORT_REQUESTED" =>
                cmd[c].event.related_version_no <= proposal.version
      BY <2>2, CommitIsLegal, LegalKinds
    <3>4. /\ \A i \in 1 .. n : PublishedVersion(i)' = PublishedVersion(i)
          /\ PublishedVersion(n + 1)' =
                IF cmd[c].event.event_type = "NEW_VERSION_CREATED"
                  THEN PublishedVersion(n) + 1 ELSE PublishedVersion(n)
      BY <2>2, <3>0, CommitPublishes
    <3>5. proposal.version = PublishedVersion(n)
      BY <3>0 DEF VersionIsPublished
    <3>6. VersionIsPublished'
      BY <3>2, <3>3, <3>4, <3>5 DEF VersionIsPublished
    <3>7. ASSUME NEW i \in 1 .. n + 1, events'[i].event_type = "REPORT_REQUESTED"
          PROVE  events'[i].related_version_no <= PublishedVersion(i)'
      <4>1. CASE i \in 1 .. n
        BY <3>1, <3>4, <3>7, <4>1 DEF ReportsNamePublishedVersions
      <4>2. CASE i = n + 1
        BY <3>1, <3>3, <3>4, <3>5, <3>7, <4>2
      <4> QED
        BY <3>1, <4>1, <4>2
    <3>8. ReportsNamePublishedVersions'
      BY <3>1, <3>7 DEF ReportsNamePublishedVersions
    <3> QED
      BY <3>6, <3>8
  <2> QED
    BY <2>1, <2>2
<1> QED
  BY <1>1, <1>2, LifecycleInvariant, LegalInvariant, PTL DEF Spec

\* A report names a version that is published when it is recorded: the version
\* was at most the one of the first read, and no read is ahead of the trail.
THEOREM ReportsPublished == Spec => []ReportsNamePublishedVersions
BY ReportsInvariant, PTL

-----------------------------------------------------------------------------
\* Approvals.

\* Every approval has been recorded by an event, in order: the row and the event
\* are of one transaction.
THEOREM ApprovalsRecorded == Spec => []ApprovalsAreRecorded
<1>1. Init => ApprovalsAreRecorded
  <2> SUFFICES ASSUME Init PROVE ApprovalsAreRecorded
    OBVIOUS
  <2>1. DOMAIN approvals = {}
    BY DEF Init, RepositoryInit
  <2>2. [a \in {} |-> 1] \in [DOMAIN approvals -> DOMAIN events]
    BY <2>1
  <2> QED
    BY <2>1, <2>2 DEF ApprovalsAreRecorded
<1>2. LifecycleInv /\ LegalInv /\ KeyInv /\ ApprovalsAreRecorded /\ [Next]_vars
         => ApprovalsAreRecorded'
  <2> SUFFICES ASSUME LifecycleInv, LegalInv, KeyInv, ApprovalsAreRecorded,
                      [Next]_vars
               PROVE  ApprovalsAreRecorded'
    OBVIOUS
  <2>1. CASE \A c \in Clients : ~Commit(c)
    BY <2>1, OnlyCommitsMove DEF ApprovalsAreRecorded
  <2>2. ASSUME NEW c \in Clients, Commit(c)
        PROVE  ApprovalsAreRecorded'
    <3> DEFINE Records(event, approval) ==
                  /\ event.occurred_at = approval.occurred_at
                  /\ ResolvesApproval(event.from_state, approval.approval_type,
                                      approval.approved, event.event_type,
                                      event.to_state)
    <3>0. PICK n, m : n = Len(events) /\ m = Len(approvals)
      OBVIOUS
    <3>1. /\ DOMAIN events = 1 .. n /\ DOMAIN events' = 1 .. n + 1 /\ n \in Nat
          /\ events'[n + 1] = cmd[c].event
          /\ \A j \in 1 .. n : events'[j] = events[j]
          /\ approvals' = IF cmd[c].approval = None
                            THEN approvals ELSE Append(approvals, cmd[c].approval)
          /\ cmd[c].phase \in Holding
      BY <2>2, <3>0, CommitAppends
    <3>2. approvals \in Seq(Approval) /\ m \in Nat /\ DOMAIN approvals = 1 .. m
      BY <3>0 DEF LifecycleInv, TypeOK
    <3>3. PICK recordedBy \in [1 .. m -> 1 .. n] :
             /\ \A a, b \in 1 .. m : a < b => recordedBy[a] < recordedBy[b]
             /\ \A a \in 1 .. m : Records(events[recordedBy[a]], approvals[a])
      BY <3>1, <3>2 DEF ApprovalsAreRecorded
    <3> SUFFICES \E f \in [DOMAIN approvals' -> 1 .. n + 1] :
                    /\ \A a, b \in DOMAIN approvals' : a < b => f[a] < f[b]
                    /\ \A a \in DOMAIN approvals' :
                          Records(events'[f[a]], approvals'[a])
      BY <3>1 DEF ApprovalsAreRecorded
    <3>4. CASE cmd[c].approval = None
      <4>1. recordedBy \in [1 .. m -> 1 .. n + 1]
        BY <3>1
      <4>2. \A a \in 1 .. m : events'[recordedBy[a]] = events[recordedBy[a]]
        BY <3>1
      <4>3. approvals' = approvals /\ DOMAIN approvals' = 1 .. m
        BY <3>1, <3>2, <3>4
      <4>4. \A a \in 1 .. m : Records(events'[recordedBy[a]], approvals'[a])
        BY <3>3, <4>2, <4>3
      <4> HIDE DEF Records
      <4> QED
        BY <3>3, <4>1, <4>3, <4>4
    <3>5. CASE cmd[c].approval # None
      <4> DEFINE next == [a \in 1 .. m + 1 |-> IF a = m + 1 THEN n + 1
                                                           ELSE recordedBy[a]]
      <4>1. Records(cmd[c].event, cmd[c].approval)
        BY <3>1, <3>5 DEF KeyInv, HeldApproval
      <4>2. /\ DOMAIN approvals' = 1 .. m + 1
            /\ approvals'[m + 1] = cmd[c].approval
            /\ \A a \in 1 .. m : approvals'[a] = approvals[a]
        BY <3>0, <3>1, <3>2, <3>5
      <4>3. next \in [1 .. m + 1 -> 1 .. n + 1]
        BY <3>1, <3>2
      <4>4. \A a, b \in 1 .. m + 1 : a < b => next[a] < next[b]
        BY <3>1, <3>2, <3>3
      <4>5. ASSUME NEW a \in 1 .. m + 1
            PROVE  Records(events'[next[a]], approvals'[a])
        <5>1. CASE a = m + 1
          BY <3>1, <4>1, <4>2, <5>1
        <5>2. CASE a \in 1 .. m
          <6>1. next[a] = recordedBy[a] /\ recordedBy[a] \in 1 .. n
            BY <3>2, <5>2
          <6> HIDE DEF Records, next
          <6> QED
            BY <3>1, <3>3, <4>2, <5>2, <6>1
        <5> QED
          BY <3>2, <5>1, <5>2
      <4> HIDE DEF next, Records
      <4> QED
        BY <4>2, <4>3, <4>4, <4>5
    <3> QED
      BY <3>4, <3>5
  <2> QED
    BY <2>1, <2>2
<1> QED
  BY <1>1, <1>2, LifecycleInvariant, LegalInvariant, KeyInvariant, PTL DEF Spec

-----------------------------------------------------------------------------
\* Consent.

\* An update was recorded for a version that had not been handed over.
StaleUpdate ==
    \E i \in CurrentVersionEvents :
        /\ events[i].idempotency_key \in UpdateIds
        /\ \A h \in CurrentVersionEvents :
              h < i => events[h].event_type # "EXECUTION_REQUESTED"

\* A version that was handed over is ready for execution or past that.
HandedOver ==
    \A h \in CurrentVersionEvents :
        events[h].event_type = "EXECUTION_REQUESTED" => Rank(proposal.state) >= 3

ApprovedInVersion ==
    \E i \in CurrentVersionEvents :
        events[i].event_type \in {"RISK_APPROVED", "COMPLIANCE_APPROVED"}

ConsentedInVersion ==
    \E i, j \in CurrentVersionEvents :
        /\ i < j
        /\ events[i].event_type \in {"RISK_APPROVED", "COMPLIANCE_APPROVED"}
        /\ events[j].event_type = "CLIENT_CONSENT_RECORDED"

ConsentInv ==
    /\ HandedOver
    /\ \/ StaleUpdate
       \/ /\ proposal.state \in {"AWAITING_CLIENT_CONSENT", "EXECUTION_READY",
                                 "EXECUTED", "EXPIRED"} => ApprovedInVersion
          /\ ConsentForCurrentVersion

\* The current version gains the event of a commit, or starts with it.
LEMMA CommitInVersion ==
    ASSUME LifecycleInv, LegalInv, NEW c \in Clients, Commit(c),
           NEW n, n = Len(events)
    PROVE  /\ CurrentVersionEvents \subseteq 1 .. n
           /\ \A i \in 1 .. n : events'[i] = events[i]
           /\ events'[n + 1] = cmd[c].event
           /\ n \in Nat
           /\ CurrentVersionEvents' =
                 IF cmd[c].event.event_type = "NEW_VERSION_CREATED"
                   THEN {n + 1} ELSE CurrentVersionEvents \cup {n + 1}
<1>1. /\ DOMAIN events = 1 .. n /\ DOMAIN events' = 1 .. n + 1 /\ n \in Nat
      /\ events'[n + 1] = cmd[c].event
      /\ \A j \in 1 .. n : events'[j] = events[j]
  BY CommitAppends
<1>2. CurrentVersionEvents \subseteq 1 .. n
  BY <1>1 DEF CurrentVersionEvents
<1>3. CurrentVersionEvents' =
         {i \in 1 .. n + 1 :
             \A j \in 1 .. n + 1 :
                 j > i => events'[j].event_type # "NEW_VERSION_CREATED"}
  BY <1>1 DEF CurrentVersionEvents
<1>4. CurrentVersionEvents =
         {i \in 1 .. n :
             \A j \in 1 .. n :
                 j > i => events[j].event_type # "NEW_VERSION_CREATED"}
  BY <1>1 DEF CurrentVersionEvents
<1>5. CASE cmd[c].event.event_type = "NEW_VERSION_CREATED"
  <2>1. \A i \in 1 .. n + 1 : i \in CurrentVersionEvents' <=> i = n + 1
    <3>1. \A i \in 1 .. n : i \notin CurrentVersionEvents'
      <4>1. \A i \in 1 .. n : n + 1 \in 1 .. n + 1 /\ n + 1 > i
        BY <1>1
      <4> QED
        BY <1>1, <1>3, <1>5, <4>1
    <3>2. n + 1 \in CurrentVersionEvents'
      <4>1. n + 1 \in 1 .. n + 1 /\ \A j \in 1 .. n + 1 : ~(j > n + 1)
        BY <1>1
      <4> QED
        BY <1>3, <4>1
    <3>3. \A i \in 1 .. n + 1 : i = n + 1 \/ i \in 1 .. n
      BY <1>1
    <3> QED
      BY <3>1, <3>2, <3>3
  <2>2. CurrentVersionEvents' \subseteq 1 .. n + 1 /\ n + 1 \in 1 .. n + 1
    BY <1>1, <1>3
  <2>3. CurrentVersionEvents' = {n + 1}
    BY <2>1, <2>2, Zenon
  <2> QED
    BY <1>1, <1>2, <1>5, <2>3
<1>6. CASE cmd[c].event.event_type # "NEW_VERSION_CREATED"
  <2>1. \A i \in 1 .. n : i \in CurrentVersionEvents' <=> i \in CurrentVersionEvents
    BY <1>1, <1>3, <1>4, <1>6
  <2>2. n + 1 \in CurrentVersionEvents' /\ CurrentVersionEvents' \subseteq 1 .. n + 1
    BY <1>1, <1>3
  <2>3. \A i \in 1 .. n + 1 : i = n + 1 \/ i \in 1 .. n
    BY <1>1
  <2>4. CurrentVersionEvents' = CurrentVersionEvents \cup {n + 1}
    BY <1>2, <2>1, <2>2, <2>3, Zenon
  <2> QED
    BY <1>1, <1>2, <1>6, <2>4
<1> QED
  BY <1>5, <1>6

\* Within one version the rank of the state does not fall, a handoff happens
\* when it is 3, and what leads to consent is in the table.
LEMMA LegalInVersion ==
    ASSUME NEW request, NEW read \in ProposalRecord, NEW event \in WorkflowEvent,
           Legal(request, read, event), request.op # "version"
    PROVE  /\ Rank(read.state) <= Rank(event.to_state)
           /\ event.event_type = "EXECUTION_REQUESTED" => Rank(event.to_state) = 3
           /\ \/ event.to_state \notin {"AWAITING_CLIENT_CONSENT",
                                        "EXECUTION_READY", "EXECUTED", "EXPIRED"}
              \/ event.to_state = read.state
              \/ /\ event.to_state = "AWAITING_CLIENT_CONSENT"
                 /\ event.event_type \in {"RISK_APPROVED", "COMPLIANCE_APPROVED"}
              \/ /\ event.to_state = "EXECUTION_READY"
                 /\ read.state = "AWAITING_CLIENT_CONSENT"
                 /\ event.event_type = "CLIENT_CONSENT_RECORDED"
              \/ read.state = "EXECUTION_READY"
              \/ request.op = "update" /\ Rank(read.state) < 3
<1>1. LegalEvent(read.state, event) /\ read.state \in WorkflowStates
  BY LegalOthers DEF ProposalRecord
<1>2. Rank(read.state) \in Nat /\ Rank(event.to_state) \in Nat
  BY DEF Rank
<1>3. Rank(read.state) <= Rank(event.to_state)
  <2>1. CASE event.to_state # read.state
    BY <1>1, <1>2, <2>1, LegalEventsAdvance
  <2>2. CASE event.to_state = read.state
    BY <1>2, <2>2
  <2> QED
    BY <2>1, <2>2
<1>4. CASE LegalTransition(read.state, event)
  BY <1>3, <1>4 DEF LegalTransition, TRANSITION_MAP, Rank
<1>5. CASE LegalUpdate(read.state, event) /\ request.op = "update"
  BY <1>1, <1>3, <1>5
  DEF LegalUpdate, EXECUTION_UPDATE_EVENT_MAP, TERMINAL_STATES, WorkflowStates, Rank
<1>6. CASE LegalReview(read.state, event) \/ LegalReport(read, event)
  BY <1>3, <1>6 DEF LegalReview, LegalReport
<1> QED
  BY <1>4, <1>5, <1>6 DEF Legal

\* A commit keeps the proposal on the way to consent, unless it is an update for
\* a version that has not been handed over.
LEMMA CommitConsent ==
    ASSUME LifecycleInv, LegalInv, KeyInv, ConsentInv, NEW c \in Clients, Commit(c)
    PROVE  ConsentInv'
<1> DEFINE event == cmd[c].event
<1>0. PICK n : n = Len(events)
  OBVIOUS
<1>1. /\ Legal(cmd[c].request, proposal, event)
      /\ event \in WorkflowEvent /\ proposal \in ProposalRecord
      /\ proposal'.state = event.to_state
      /\ event.event_type = "NEW_VERSION_CREATED" <=> cmd[c].request.op = "version"
  BY CommitIsLegal, LegalKinds
<1>2. /\ CurrentVersionEvents \subseteq 1 .. n
      /\ \A i \in CurrentVersionEvents : events'[i] = events[i]
      /\ events'[n + 1] = event
      /\ n \in Nat
      /\ CurrentVersionEvents' =
            IF event.event_type = "NEW_VERSION_CREATED"
              THEN {n + 1} ELSE CurrentVersionEvents \cup {n + 1}
  BY <1>0, CommitInVersion
<1>3. cmd[c].request.op = "update" => event.idempotency_key \in UpdateIds
  <2>1. /\ cmd[c].phase \in Holding /\ cmd[c].request \in LifecycleRequest
    BY <1>0, CommitAppends, LifecycleAssumption
  <2>2. cmd[c].request.op = "update" => RecordedKey(cmd[c].request) \in UpdateIds
    BY <2>1
    DEF LifecycleRequest, TransitionRequest, ApprovalRequest, VersionRequest,
        HandoffRequest, UpdateRequest, ReviewRequest, ReportRequest, KeyOf,
        RecordedKey
  <2> QED
    BY <2>1, <2>2 DEF KeyInv, HeldKey
<1> HIDE DEF event
<1>4. CASE cmd[c].request.op = "version"
  <2>1. proposal'.state = "DRAFT"
    BY <1>1, <1>4 DEF Legal, LegalNewVersion
  <2>2. CurrentVersionEvents' = {n + 1} /\ events'[n + 1].event_type = "NEW_VERSION_CREATED"
    BY <1>1, <1>2, <1>4
  <2>3. HandedOver'
    BY <2>2 DEF HandedOver
  <2> QED
    BY <2>1, <2>3 DEF ConsentInv, ConsentForCurrentVersion
<1>5. CASE cmd[c].request.op # "version"
  <2>1. CurrentVersionEvents' = CurrentVersionEvents \cup {n + 1}
    BY <1>1, <1>2, <1>5
  <2>2. /\ Rank(proposal.state) <= Rank(proposal'.state)
        /\ event.event_type = "EXECUTION_REQUESTED" => Rank(proposal'.state) = 3
        /\ \/ proposal'.state \notin {"AWAITING_CLIENT_CONSENT",
                                      "EXECUTION_READY", "EXECUTED", "EXPIRED"}
           \/ proposal'.state = proposal.state
           \/ /\ proposal'.state = "AWAITING_CLIENT_CONSENT"
              /\ event.event_type \in {"RISK_APPROVED", "COMPLIANCE_APPROVED"}
           \/ /\ proposal'.state = "EXECUTION_READY"
              /\ proposal.state = "AWAITING_CLIENT_CONSENT"
              /\ event.event_type = "CLIENT_CONSENT_RECORDED"
           \/ proposal.state = "EXECUTION_READY"
           \/ cmd[c].request.op = "update" /\ Rank(proposal.state) < 3
    BY <1>1, <1>5, LegalInVersion
  <2>3. HandedOver'
    <3> SUFFICES ASSUME NEW h \in CurrentVersionEvents',
                        events'[h].event_type = "EXECUTION_REQUESTED"
                 PROVE  Rank(proposal'.state) >= 3
      BY DEF HandedOver
    <3>1. Rank(proposal.state) \in Nat /\ Rank(proposal'.state) \in Nat
      BY DEF Rank
    <3>2. CASE h \in CurrentVersionEvents
      BY <1>2, <2>2, <3>1, <3>2 DEF ConsentInv, HandedOver
    <3>3. CASE h = n + 1
      BY <1>2, <2>2, <3>3
    <3> QED
      BY <2>1, <3>2, <3>3
  <2>4. StaleUpdate => StaleUpdate'
    <3> SUFFICES ASSUME NEW i \in CurrentVersionEvents,
                        events[i].idempotency_key \in UpdateIds,
                        \A h \in CurrentVersionEvents :
                           h < i => events[h].event_type # "EXECUTION_REQUESTED"
                 PROVE  StaleUpdate'
      BY DEF StaleUpdate
    <3>1. i \in CurrentVersionEvents' /\ events'[i].idempotency_key \in UpdateIds
      BY <1>2, <2>1
    <3>2. \A h \in CurrentVersionEvents' :
             h < i => events'[h].event_type # "EXECUTION_REQUESTED"
      BY <1>2, <2>1
    <3> QED
      BY <3>1, <3>2 DEF StaleUpdate
  <2>5. ApprovedInVersion => ApprovedInVersion'
    BY <1>2, <2>1 DEF ApprovedInVersion
  <2>6. ConsentedInVersion => ConsentedInVersion'
    BY <1>2, <2>1 DEF ConsentedInVersion
  <2>7. /\ ConsentForCurrentVersion <=>
              (proposal.state \in {"EXECUTION_READY", "EXECUTED", "EXPIRED"} =>
                  ConsentedInVersion)
        /\ ConsentForCurrentVersion' <=>
              (proposal'.state \in {"EXECUTION_READY", "EXECUTED", "EXPIRED"} =>
                  ConsentedInVersion')
    BY DEF ConsentForCurrentVersion, ConsentedInVersion
  <2>8. CASE proposal'.state = "AWAITING_CLIENT_CONSENT"
             /\ event.event_type \in {"RISK_APPROVED", "COMPLIANCE_APPROVED"}
    <3>1. ApprovedInVersion'
      BY <1>2, <2>1, <2>8 DEF ApprovedInVersion
    <3> QED
      BY <2>3, <2>7, <2>8, <3>1 DEF ConsentInv
  <2>9. CASE /\ proposal'.state = "EXECUTION_READY"
             /\ proposal.state = "AWAITING_CLIENT_CONSENT"
             /\ event.event_type = "CLIENT_CONSENT_RECORDED"
    <3>1. ApprovedInVersion => ConsentedInVersion'
      <4> SUFFICES ASSUME NEW i \in CurrentVersionEvents,
                          events[i].event_type \in {"RISK_APPROVED",
                                                    "COMPLIANCE_APPROVED"}
                   PROVE  ConsentedInVersion'
        BY DEF ApprovedInVersion
      <4>1. /\ i \in CurrentVersionEvents' /\ n + 1 \in CurrentVersionEvents'
            /\ i < n + 1 /\ events'[i] = events[i]
            /\ events'[n + 1].event_type = "CLIENT_CONSENT_RECORDED"
        BY <1>2, <2>1, <2>9
      <4> QED
        BY <4>1 DEF ConsentedInVersion
    <3> QED
      BY <2>3, <2>4, <2>5, <2>7, <2>9, <3>1 DEF ConsentInv
  <2>10. CASE cmd[c].request.op = "update" /\ Rank(proposal.state) < 3
    <3>1. \A h \in CurrentVersionEvents :
             events[h].event_type # "EXECUTION_REQUESTED"
      <4>1. Rank(proposal.state) \in Nat
        BY DEF Rank
      <4> QED
        BY <2>10, <4>1 DEF ConsentInv, HandedOver
    <3>2. /\ n + 1 \in CurrentVersionEvents'
          /\ events'[n + 1].idempotency_key \in UpdateIds
      BY <1>2, <1>3, <2>1, <2>10
    <3>3. \A h \in CurrentVersionEvents' :
             h < n + 1 => events'[h].event_type # "EXECUTION_REQUESTED"
      BY <1>2, <2>1, <3>1
    <3>4. StaleUpdate'
      BY <3>2, <3>3 DEF StaleUpdate
    <3> QED
      BY <2>3, <3>4 DEF ConsentInv
  <2>11. CASE proposal.state = "EXECUTION_READY" \/ proposal'.state = proposal.state
    BY <2>3, <2>4, <2>5, <2>6, <2>7, <2>11 DEF ConsentInv
  <2>12. CASE proposal'.state \notin {"AWAITING_CLIENT_CONSENT", "EXECUTION_READY",
                                      "EXECUTED", "EXPIRED"}
    BY <2>3, <2>7, <2>12 DEF ConsentInv
  <2> QED
    BY <2>2, <2>8, <2>9, <2>10, <2>11, <2>12
<1> QED
  BY <1>4, <1>5

\* ConsentInv is an invariant.
LEMMA ConsentInvariant == Spec => []ConsentInv
<1>1. Init => ConsentInv
  <2> SUFFICES ASSUME Init PROVE ConsentInv
    OBVIOUS
  <2>1. /\ DOMAIN events = {1} /\ events[1] = ProposalCreatedEvent
        /\ proposal.state = "DRAFT"
    BY DEF Init, RepositoryInit
  <2>2. HandedOver
    BY <2>1 DEF HandedOver, CurrentVersionEvents, ProposalCreatedEvent
  <2> QED
    BY <2>1, <2>2 DEF ConsentInv, ConsentForCurrentVersion
<1>2. LifecycleInv /\ LegalInv /\ KeyInv /\ ConsentInv /\ [Next]_vars => ConsentInv'
  <2> SUFFICES ASSUME LifecycleInv, LegalInv, KeyInv, ConsentInv, [Next]_vars
               PROVE  ConsentInv'
    OBVIOUS
  <2>1. CASE \A c \in Clients : ~Commit(c)
    BY <2>1, OnlyCommitsMove
    DEF ConsentInv, HandedOver, StaleUpdate, ApprovedInVersion,
        ConsentForCurrentVersion, CurrentVersionEvents
  <2> QED
    BY <2>1, CommitConsent
<1> QED
  BY <1>1, <1>2, LifecycleInvariant, LegalInvariant, KeyInvariant, PTL DEF Spec

\* A proposal that is ready for execution or executed lacks an approval or the
\* client's consent for its current version only if an execution update was
\* recorded for that version although it had not been handed over: the update
\* was for an earlier version (validate_execution_update_state looks at the
\* state, not at the version).
THEOREM ConsentUnlessStaleUpdate == Spec => [](ConsentForCurrentVersion \/ StaleUpdate)
<1>1. ConsentInv => ConsentForCurrentVersion \/ StaleUpdate
  BY DEF ConsentInv
<1> QED
  BY <1>1, ConsentInvariant, PTL

\* Where no updates arrive every proposal that is ready has its consent.
LEMMA NoUpdatesNoStaleOnes ==
    ASSUME KeyInv, \A request \in Requests : request.op # "update"
    PROVE  ~StaleUpdate
<1> SUFFICES ASSUME NEW i \in DOMAIN events, events[i].idempotency_key \in UpdateIds
             PROVE  FALSE
  BY DEF StaleUpdate, CurrentVersionEvents
<1>1. /\ events[i].request_hash \in Requests
      /\ KeyOf(events[i].request_hash) \in UpdateIds
  BY LifecycleAssumption DEF KeyInv, TrailKeys, Keyed
<1>2. events[i].request_hash \in LifecycleRequest
  BY <1>1, LifecycleAssumption
<1>3. RecordedKey(events[i].request_hash) = KeyOf(events[i].request_hash)
  BY <1>1, LifecycleAssumption DEF RecordedKey
<1> QED
  BY <1>1, <1>2, <1>3, UpdateIdsAreUpdates

\* Where a proposal keeps its first version an update finds its handoff in it.
LEMMA OneVersionNoStaleUpdates ==
    ASSUME UpdatesFollowHandoff, events \in Seq(WorkflowEvent),
           \A i \in DOMAIN events : events[i].event_type # "NEW_VERSION_CREATED"
    PROVE  ~StaleUpdate
<1>1. CurrentVersionEvents = DOMAIN events
  BY DEF CurrentVersionEvents
<1> SUFFICES ASSUME NEW i \in DOMAIN events,
                    events[i].idempotency_key \in UpdateIds,
                    \A h \in DOMAIN events :
                       h < i => events[h].event_type # "EXECUTION_REQUESTED"
             PROVE  FALSE
  BY <1>1 DEF StaleUpdate
<1>2. PICK h \in 1 .. i - 1 : events[h].event_type = "EXECUTION_REQUESTED"
  BY DEF UpdatesFollowHandoff
<1>3. h \in DOMAIN events /\ h < i
  <2>1. PICK n \in Nat : DOMAIN events = 1 .. n
    OBVIOUS
  <2> QED
    BY <2>1
<1> QED
  BY <1>2, <1>3

\* Where no new versions are created the trail announces none.
LEMMA NoNewVersions ==
    ASSUME \A request \in Requests : request.op # "version"
    PROVE  Spec => [](\A i \in DOMAIN events :
                         events[i].event_type # "NEW_VERSION_CREATED")
<1> DEFINE OneVersion == \A i \in DOMAIN events :
                              events[i].event_type # "NEW_VERSION_CREATED"
<1>1. Init => OneVersion
  <2> SUFFICES ASSUME Init PROVE OneVersion
    OBVIOUS
  <2>1. DOMAIN events = {1} /\ events[1] = ProposalCreatedEvent
    BY DEF Init, RepositoryInit
  <2> QED
    BY <2>1 DEF ProposalCreatedEvent
<1>2. LifecycleInv /\ LegalInv /\ OneVersion /\ [Next]_vars => OneVersion'
  <2> SUFFICES ASSUME LifecycleInv, LegalInv, OneVersion, [Next]_vars
               PROVE  OneVersion'
    OBVIOUS
  <2>1. CASE \A c \in Clients : ~Commit(c)
    BY <2>1, OnlyCommitsMove
  <2>2. ASSUME NEW c \in Clients, Commit(c)
        PROVE  OneVersion'
    <3>0. PICK n : n = Len(events)
      OBVIOUS
    <3>1. /\ DOMAIN events = 1 .. n /\ DOMAIN events' = 1 .. n + 1 /\ n \in Nat
          /\ events'[n + 1] = cmd[c].event
          /\ \A j \in 1 .. n : events'[j] = events[j]
          /\ cmd[c].request \in Requests
      BY <2>2, <3>0, CommitAppends
    <3>2. cmd[c].event.event_type # "NEW_VERSION_CREATED"
      BY <2>2, <3>1, CommitIsLegal, LegalKinds
    <3> QED
      BY <3>1, <3>2
  <2> QED
    BY <2>1, <2>2
<1> QED
  BY <1>1, <1>2, LifecycleInvariant, LegalInvariant, PTL DEF Spec

\* Without updates, or without new versions, a proposal that is ready for
\* execution, or executed, has its approval and the client's consent.
THEOREM ConsentCorrect ==
    ASSUME \/ \A request \in Requests : request.op # "update"
           \/ \A request \in Requests : request.op # "version"
    PROVE  Spec => []ConsentForCurrentVersion
<1>1. CASE \A request \in Requests : request.op # "update"
  <2>1. KeyInv => ~StaleUpdate
    BY <1>1, NoUpdatesNoStaleOnes
  <2> QED
    BY <2>1, KeyInvariant, ConsentUnlessStaleUpdate, PTL
<1>2. CASE \A request \in Requests : request.op # "version"
  <2> DEFINE OneVersion == \A i \in DOMAIN events :
                                events[i].event_type # "NEW_VERSION_CREATED"
  <2>1. Spec => []OneVersion
    BY <1>2, NoNewVersions
  <2>2. LifecycleInv /\ UpdatesFollowHandoff /\ OneVersion => ~StaleUpdate
    BY OneVersionNoStaleUpdates DEF LifecycleInv, TypeOK
  <2> QED
    BY <2>1, <2>2, UpdatesAnswer, LifecycleInvariant, ConsentUnlessStaleUpdate, PTL
<1> QED
  BY <1>1, <1>2

=============================================================================
