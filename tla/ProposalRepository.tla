------------------------- MODULE ProposalRepository -------------------------
(***************************************************************************)
(* The PostgreSQL repository of one proposal: its row in proposal_records, *)
(* its rows in proposal_versions, proposal_workflow_events and             *)
(* proposal_approvals, and the transactions the lifecycle commands run on  *)
(* them.  An operator that constrains primed variables is one committed    *)
(* transaction: it happens completely or not at all.                       *)
(*                                                                         *)
(* Rows keep the columns the workflow reads.  A version row is reduced to  *)
(* its identity: two commands that build the same version number build     *)
(* different rows (a fresh proposal_version_id each), and rows are only    *)
(* ever compared.                                                          *)
(***************************************************************************)
EXTENDS ProposalWorkflowRules, Naturals, Sequences

CONSTANTS
    MaxVersions,    \* bound on version numbers
    MaxEvents,      \* bound on the length of the audit trail
    VersionIds      \* identities of version rows

ASSUME RepositoryAssumption ==
    /\ MaxVersions \in Nat \ {0}
    /\ MaxEvents \in Nat \ {0}
    /\ VersionIds # {} /\ None \notin VersionIds
    /\ None \notin WorkflowStates

VARIABLES
    proposal,   \* the proposal_records row: [state, version]
    versions,   \* version number -> version row, None where there is no row
    events,     \* workflow events in commit order
    approvals   \* approval rows in commit order

repositoryVars == <<proposal, versions, events, approvals>>

VersionNumbers == 1 .. MaxVersions

ProposalRecord == [state : WorkflowStates, version : VersionNumbers]

\* build_proposal_created_event
ProposalCreatedEvent ==
    [event_type |-> "CREATED", from_state |-> None, to_state |-> "DRAFT",
     occurred_at |-> 0, related_version_no |-> 1,
     execution_request_id |-> None,
     idempotency_key |-> None, request_hash |-> None]

\* The proposal has just been created: its record, first version and CREATED
\* event were committed in one transaction.
RepositoryInit ==
    /\ proposal = [state |-> "DRAFT", version |-> 1]
    /\ versions = [n \in VersionNumbers |->
                      IF n = 1 THEN CHOOSE row \in VersionIds : TRUE ELSE None]
    /\ events = <<ProposalCreatedEvent>>
    /\ approvals = <<>>

-----------------------------------------------------------------------------
\* Reads.

\* The events with occurred_at largest among those of S.  list_events orders
\* by occurred_at and breaks ties by a random event id, so a scan that takes
\* "the latest" may take any of these.
LatestEvents(S) ==
    {i \in S : \A j \in S : events[j].occurred_at <= events[i].occurred_at}

LatestApprovals(S) ==
    {a \in S : \A b \in S : approvals[b].occurred_at <= approvals[a].occurred_at}

KeyedEvents(key) ==
    {i \in DOMAIN events : key # None /\ events[i].idempotency_key = key}

KeyedApprovals(key) ==
    {i \in DOMAIN approvals : key # None /\ approvals[i].idempotency_key = key}

\* get_current_version: the row with the greatest version number
CurrentVersionNo ==
    CHOOSE n \in VersionNumbers :
        /\ versions[n] # None
        /\ \A m \in VersionNumbers : versions[m] # None => m <= n

-----------------------------------------------------------------------------
\* Transactions.

\* without the WHERE clause on state and version
UpdateProposalBlindly(expected, record) == proposal' = record

\* with a WHERE clause on the state only
UpdateProposalByState(expected, record) ==
    proposal.state = expected.state /\ proposal' = record

\* update_proposal_if_current: UPDATE ... WHERE the state and version are the
\* expected ones; no row means that the transaction is rolled back.
UpdateProposalIfCurrent(expected, record) ==
    proposal = expected /\ proposal' = record

\* The foreign key (proposal_id, related_version_no) of events and approvals
ReferencesStoredVersion(row) ==
    row.related_version_no # None => versions[row.related_version_no] # None

\* insert_event: event ids are random, so every event is a new row.
InsertEvent(event) ==
    /\ ReferencesStoredVersion(event)
    /\ Len(events) < MaxEvents
    /\ events' = Append(events, event)

\* insert_approval, for the commands that have one; it names the version that
\* its event names.
InsertApproval(approval) ==
    approvals' = IF approval = None THEN approvals
                                    ELSE Append(approvals, approval)

\* transition_proposal with the approval in a transaction of its own, which
\* survives the rollback of a lost compare-and-set
TransitionProposalApprovalFirst(expected, record, event, approval) ==
    /\ InsertApproval(approval)
    /\ \/ UpdateProposalIfCurrent(expected, record) /\ InsertEvent(event)
       \/ proposal # expected /\ UNCHANGED <<proposal, events>>
    /\ UNCHANGED versions

\* transition_proposal: the record, the event and the approval in one
\* transaction
TransitionProposal(expected, record, event, approval) ==
    /\ UpdateProposalIfCurrent(expected, record)
    /\ InsertEvent(event)
    /\ InsertApproval(approval)
    /\ UNCHANGED versions

\* insert_version with DO UPDATE instead of DO NOTHING
OverwriteVersion(n, row) ==
    /\ versions' = [versions EXCEPT ![n] = row]
    /\ UNCHANGED <<proposal, events, approvals>>

\* create_version: INSERT ... ON CONFLICT DO NOTHING, then compare.  It commits
\* on its own, before the transition that publishes the version.
CreateVersion(n, row) ==
    /\ versions[n] = None
    /\ versions' = [versions EXCEPT ![n] = row]
    /\ UNCHANGED <<proposal, events, approvals>>

=============================================================================
