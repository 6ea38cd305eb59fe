-------------------------- MODULE ProposalAggregate --------------------------
(***************************************************************************)
(* What the lifecycle promises about one proposal, with no workers, reads  *)
(* or races: a state, a version number and an append-only trail, changed   *)
(* together by one legal step at a time.  ProposalLifecycle implements it. *)
(***************************************************************************)
EXTENDS ProposalWorkflowRules, Naturals, Sequences

VARIABLES
    current,    \* [state, version]
    trail       \* the sequence of [event_type, from_state, to_state]

Created ==
    [event_type |-> "CREATED", from_state |-> None, to_state |-> "DRAFT"]

Init ==
    /\ current = [state |-> "DRAFT", version |-> 1]
    /\ trail = <<Created>>

\* One event takes effect: the state, the version and the trail together.
Take(event_type, to_state) ==
    /\ current' = [state |-> to_state,
                   version |-> IF event_type = "NEW_VERSION_CREATED"
                                 THEN current.version + 1
                                 ELSE current.version]
    /\ trail' = Append(trail, [event_type |-> event_type,
                               from_state |-> current.state,
                               to_state |-> to_state])

Open == current.state \notin TERMINAL_STATES

\* A workflow transition, by itself, by an approval or by a handoff
Transition ==
    \E rule \in TRANSITION_MAP :
        rule[1] = current.state /\ Take(rule[2], rule[3])

Cancel == Open /\ Take("CANCELLED", "CANCELLED")

NewVersion == Open /\ Take("NEW_VERSION_CREATED", "DRAFT")

\* The downstream system reports; accepted in every state that is not terminal.
ExecutionUpdate ==
    Open /\ \E rule \in EXECUTION_UPDATE_EVENT_MAP : Take(rule[2], rule[3])

\* Evidence that leaves the state alone, in any state
Annotate ==
    \E event_type \in {"NARRATIVE_REVIEWED", "REPORT_REQUESTED"} :
        Take(event_type, current.state)

Next == Transition \/ Cancel \/ NewVersion \/ ExecutionUpdate \/ Annotate

Spec == Init /\ [][Next]_<<current, trail>>

=============================================================================
