------------------------ MODULE ProposalWorkflowRules ------------------------
(***************************************************************************)
(* The lifecycle vocabulary of an advisory proposal and its pure workflow  *)
(* rules (core/proposals/contract_types.py and workflow_rules.py).  Each   *)
(* rule is a relation: the Python function returns the one related value,  *)
(* or raises when nothing is related.                                      *)
(***************************************************************************)
EXTENDS Values

WorkflowStates ==
    {"DRAFT", "RISK_REVIEW", "COMPLIANCE_REVIEW", "AWAITING_CLIENT_CONSENT",
     "EXECUTION_READY", "EXECUTED", "REJECTED", "CANCELLED", "EXPIRED"}

TERMINAL_STATES == {"EXECUTED", "REJECTED", "CANCELLED", "EXPIRED"}

WorkflowEventTypes ==
    {"CREATED", "NEW_VERSION_CREATED",
     "SUBMITTED_FOR_RISK_REVIEW", "RISK_APPROVED",
     "SUBMITTED_FOR_COMPLIANCE_REVIEW", "COMPLIANCE_APPROVED",
     "CLIENT_CONSENT_RECORDED",
     "EXECUTION_REQUESTED", "EXECUTION_ACCEPTED",
     "EXECUTION_PARTIALLY_EXECUTED", "EXECUTION_REJECTED",
     "EXECUTION_CANCELLED", "EXECUTION_EXPIRED",
     "NARRATIVE_REVIEWED", "REPORT_REQUESTED",
     "EXECUTED", "REJECTED", "EXPIRED", "CANCELLED"}

ApprovalTypes == {"RISK", "COMPLIANCE", "CLIENT_CONSENT"}

ExecutionUpdateStatuses ==
    {"ACCEPTED", "PARTIALLY_EXECUTED", "REJECTED", "CANCELLED", "EXPIRED",
     "EXECUTED"}

-----------------------------------------------------------------------------
\* The tables.

TRANSITION_MAP ==
    {<<"DRAFT", "SUBMITTED_FOR_RISK_REVIEW", "RISK_REVIEW">>,
     <<"DRAFT", "SUBMITTED_FOR_COMPLIANCE_REVIEW", "COMPLIANCE_REVIEW">>,
     <<"RISK_REVIEW", "RISK_APPROVED", "AWAITING_CLIENT_CONSENT">>,
     <<"RISK_REVIEW", "REJECTED", "REJECTED">>,
     <<"COMPLIANCE_REVIEW", "COMPLIANCE_APPROVED", "AWAITING_CLIENT_CONSENT">>,
     <<"COMPLIANCE_REVIEW", "REJECTED", "REJECTED">>,
     <<"AWAITING_CLIENT_CONSENT", "CLIENT_CONSENT_RECORDED", "EXECUTION_READY">>,
     <<"AWAITING_CLIENT_CONSENT", "REJECTED", "REJECTED">>,
     <<"EXECUTION_READY", "EXECUTION_REQUESTED", "EXECUTION_READY">>,
     <<"EXECUTION_READY", "EXECUTED", "EXECUTED">>,
     <<"EXECUTION_READY", "EXPIRED", "EXPIRED">>}

\* approval type, state it is given in, event it records, state it leads to
APPROVAL_TRANSITION_RULES ==
    {<<"RISK", "RISK_REVIEW", "RISK_APPROVED", "AWAITING_CLIENT_CONSENT">>,
     <<"COMPLIANCE", "COMPLIANCE_REVIEW", "COMPLIANCE_APPROVED",
       "AWAITING_CLIENT_CONSENT">>,
     <<"CLIENT_CONSENT", "AWAITING_CLIENT_CONSENT", "CLIENT_CONSENT_RECORDED",
       "EXECUTION_READY">>}

EXECUTION_UPDATE_EVENT_MAP ==
    {<<"ACCEPTED", "EXECUTION_ACCEPTED", "EXECUTION_READY">>,
     <<"PARTIALLY_EXECUTED", "EXECUTION_PARTIALLY_EXECUTED", "EXECUTION_READY">>,
     <<"REJECTED", "EXECUTION_REJECTED", "REJECTED">>,
     <<"CANCELLED", "EXECUTION_CANCELLED", "CANCELLED">>,
     <<"EXPIRED", "EXECUTION_EXPIRED", "EXPIRED">>,
     <<"EXECUTED", "EXECUTED", "EXECUTED">>}

-----------------------------------------------------------------------------
\* The rules.

\* resolve_transition_state: cancellation from every state that is not
\* terminal, everything else by the table.
ResolvesTransition(current_state, event_type, to_state) ==
    \/ /\ event_type = "CANCELLED"
       /\ current_state \notin TERMINAL_STATES
       /\ to_state = "CANCELLED"
    \/ <<current_state, event_type, to_state>> \in TRANSITION_MAP

\* resolve_approval_transition: a refused approval rejects the proposal.
ResolvesApproval(current_state, approval_type, approved, event_type, to_state) ==
    \E rule \in APPROVAL_TRANSITION_RULES :
        /\ rule[1] = approval_type
        /\ rule[2] = current_state
        /\ \/ approved /\ event_type = rule[3] /\ to_state = rule[4]
           \/ ~approved /\ event_type = "REJECTED" /\ to_state = "REJECTED"

\* resolve_execution_update_event
ResolvesExecutionUpdate(update_status, event_type, to_state) ==
    <<update_status, event_type, to_state>> \in EXECUTION_UPDATE_EVENT_MAP

=============================================================================
