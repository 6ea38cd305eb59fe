------------------------ MODULE MC_ProposalLifecycle ------------------------
(***************************************************************************)
(* Instances of ProposalLifecycle.  A scenario is a set of requests; the   *)
(* initial state picks one, and the clients send nothing else.             *)
(***************************************************************************)
EXTENDS ExecutionPosture, TLC

CONSTANTS
    c1, c2, v1, v2, v3, k1, k2, u1, u2, r1, g1,
    MC_Scenarios    \* the scenarios to check

VARIABLE scenario   \* the one that is checked

MC_Symmetry == Permutations(Clients)

MC_Transition(key, type, state) ==
    [op |-> "transition", idempotency_key |-> key, noted_key |-> None,
     related_version_no |-> None,
     event_type |-> type, expected_state |-> state]

MC_Approval(key, type, approved, state) ==
    [op |-> "approval", idempotency_key |-> key, noted_key |-> None,
     related_version_no |-> None,
     approval_type |-> type, approved |-> approved, expected_state |-> state]

MC_For(version_no, request) ==
    [request EXCEPT !.related_version_no = version_no]

MC_Noting(key, request) ==
    [request EXCEPT !.noted_key = key]

MC_NewVersion == [op |-> "version", expected_current_version_no |-> None]

MC_Handoff(key, id) ==
    [op |-> "handoff", idempotency_key |-> key, related_version_no |-> None,
     external_request_id |-> id, expected_state |-> "EXECUTION_READY"]

MC_Update(id, status, at) ==
    [op |-> "update", update_id |-> id, execution_request_id |-> r1,
     related_version_no |-> None, update_status |-> status, occurred_at |-> at]

\* From draft to consent, with refusal, cancellation and new versions
MC_WorkflowRequests ==
    {MC_Transition(None, "SUBMITTED_FOR_RISK_REVIEW", "DRAFT"),
     MC_Approval(None, "RISK", TRUE, "RISK_REVIEW"),
     MC_Approval(None, "RISK", FALSE, "RISK_REVIEW"),
     MC_For(1, MC_Approval(None, "CLIENT_CONSENT", TRUE,
                           "AWAITING_CLIENT_CONSENT")),
     MC_Transition(None, "CANCELLED", "DRAFT"),
     MC_NewVersion}

\* Reviews and reports, while versions are created and a transition happens for
\* a version that may not exist yet
MC_EvidenceRequests ==
    {MC_For(2, MC_Transition(k1, "SUBMITTED_FOR_RISK_REVIEW", "DRAFT")),
     MC_NewVersion}
    \cup {[op |-> "review", idempotency_key |-> k1, version_no |-> n] : n \in 1 .. 2}
    \cup {[op |-> "report", related_version_no |-> n] : n \in {None, 1, 2}}

\* The shortest way to EXECUTION_READY
MC_ReadyRequests ==
    {MC_Transition(k1, "SUBMITTED_FOR_RISK_REVIEW", "DRAFT"),
     MC_Approval(k1, "RISK", TRUE, "RISK_REVIEW"),
     MC_Noting(k1, MC_Approval(None, "CLIENT_CONSENT", TRUE,
                               "AWAITING_CLIENT_CONSENT"))}

\* Handoffs under a key and without one, updates that repeat, contradict and
\* predate, and an execution that an operator records by hand, noting the handoff's key
MC_ExecutionRequests ==
    MC_ReadyRequests \cup
    {MC_Handoff(k2, r1), MC_Handoff(None, None),
     MC_Update(u1, "PARTIALLY_EXECUTED", None),
     MC_For(1, MC_Update(u1, "EXECUTED", 9)),
     MC_Update(u2, "EXECUTED", 1),
     MC_Noting(k2, MC_Transition(None, "EXECUTED", "EXECUTION_READY"))}

\* An update that arrives after the handed-off version was replaced
MC_StaleUpdateRequests ==
    MC_ReadyRequests \cup
    {MC_Handoff(None, r1), MC_NewVersion, MC_Update(u1, "ACCEPTED", None)}

\* An update for another version than the one handed over
MC_OtherVersionRequests ==
    MC_ReadyRequests \cup
    {MC_NewVersion, MC_Handoff(None, r1),
     MC_For(1, MC_Update(u1, "EXECUTED", None))}

\* One update delivered twice
MC_DuplicateUpdateRequests ==
    MC_ReadyRequests \cup
    {MC_Handoff(None, r1), MC_Update(u1, "PARTIALLY_EXECUTED", None)}

\* A new version and a submission
MC_OrphanVersionRequests ==
    {MC_Transition(None, "SUBMITTED_FOR_RISK_REVIEW", "DRAFT"), MC_NewVersion}

\* Two updates, of which the second brings its own, earlier time
MC_PostureRequests ==
    MC_ReadyRequests \cup
    {MC_Handoff(None, r1), MC_Update(u1, "ACCEPTED", None),
     MC_Update(u2, "EXECUTED", 4)}

MC_RequestsOf(s) ==
    CASE s = "workflow"         -> MC_WorkflowRequests
      [] s = "evidence"         -> MC_EvidenceRequests
      [] s = "execution"        -> MC_ExecutionRequests
      [] s = "stale update"     -> MC_StaleUpdateRequests
      [] s = "other version"    -> MC_OtherVersionRequests
      [] s = "duplicate update" -> MC_DuplicateUpdateRequests
      [] s = "orphan version"   -> MC_OrphanVersionRequests
      [] s = "posture"          -> MC_PostureRequests

MC_Requests == UNION {MC_RequestsOf(s) : s \in MC_Scenarios}

\* The longest trail of a scenario: reviews and reports may come at any time and
\* repeat, so their trails are kept shorter.  When a trail is full, commands in
\* hand go on, and no other one is loaded.
MC_EventsOf(s) ==
    CASE s = "evidence" -> 4 [] s = "workflow" -> 6 [] OTHER -> MaxEvents

MC_Init == Init /\ scenario \in MC_Scenarios

MC_Next ==
    /\ Next
    /\ \A c \in Clients :
          cmd'[c].request \in MC_RequestsOf(scenario) \cup {None}
    /\ Len(events') <= MC_EventsOf(scenario)
    /\ \A c \in Clients :
          cmd'[c].phase = "loaded" /\ cmd[c].phase # "loaded" =>
              Len(events) < MC_EventsOf(scenario)
    /\ UNCHANGED scenario

MC_Spec == MC_Init /\ [][MC_Next]_<<vars, scenario>>

=============================================================================
