--------------------------- MODULE ExecutionPosture ---------------------------
(***************************************************************************)
(* The execution status of a proposal (core/proposals/execution_status.py):*)
(* a projection of its trail, which is listed by occurred_at.  Where two   *)
(* events have the same time either may come last.                         *)
(***************************************************************************)
EXTENDS ProposalLifecycle

\* EXECUTION_STATUS_BY_EVENT_TYPE; its domain is EXECUTION_STATUS_EVENT_TYPES.
ExecutionStatusByEventType ==
    [EXECUTION_REQUESTED          |-> "REQUESTED",
     EXECUTION_ACCEPTED           |-> "ACCEPTED",
     EXECUTION_PARTIALLY_EXECUTED |-> "PARTIALLY_EXECUTED",
     EXECUTION_REJECTED           |-> "REJECTED",
     EXECUTION_CANCELLED          |-> "CANCELLED",
     EXECUTION_EXPIRED            |-> "EXPIRED",
     EXECUTED                     |-> "EXECUTED"]

\* latest_execution_status_event
LatestStatusEvents ==
    LatestEvents({i \in DOMAIN events :
        events[i].event_type \in DOMAIN ExecutionStatusByEventType})

\* build_execution_status_response: the status, and the time of execution if
\* the event that it is taken from gives one
ExecutionStatusResponses ==
    IF LatestStatusEvents = {}
    THEN {[handoff_status |-> "NOT_REQUESTED", executed_at |-> None]}
    ELSE {[handoff_status |-> ExecutionStatusByEventType[events[i].event_type],
           executed_at |-> IF events[i].event_type = "EXECUTED"
                           THEN events[i].occurred_at ELSE None] :
          i \in LatestStatusEvents}

\* The status of a proposal that was executed says so and gives the time,
\* whatever times the downstream system put into its updates (executed_at is
\* documented as the time when execution completed, when known).
ExecutedProposalShowsExecuted ==
    proposal.state = "EXECUTED" =>
        \E response \in ExecutionStatusResponses :
            /\ response.handoff_status = "EXECUTED"
            /\ response.executed_at # None

=============================================================================
