--------------------------- MODULE IdeaRealization ---------------------------
(***************************************************************************)
(* The intake of conversion intents from the idea engine and their         *)
(* realization by a proposal (core/proposals/idea_proposal_intake.py,      *)
(* idea_realization_commands.py, infrastructure/proposals/                 *)
(* postgres_idea_intakes.py).                                              *)
(*                                                                         *)
(* An intent is a conversion intent in its scope: it names the realization.*)
(* An intake is what else the request says; its fingerprint and its        *)
(* intake_id are taken to be injective.  Proposals move on their own, as   *)
(* the lifecycle lets them: open until they reach a terminal state.        *)
(***************************************************************************)
EXTENDS ProposalWorkflowRules, Naturals, Sequences, FiniteSets, SequencesExt

CONSTANTS
    IdeaWorkers,
    Intents,
    Intakes,            \* what a request says beside the intent
    RefusedIntakes,     \* those that do not ask for a review
    IntakeKeys,         \* registry keys: scope and Idempotency-Key
    LinkableProposals,  \* proposals of the portfolio of the intents
    Endings,            \* the terminal states that they reach
    MaxIdeaRequests     \* bound on the requests that come in

\* IdeaProposalRealizationStatus
RealizationStatuses ==
    {"ACCEPTED_FOR_REVIEW", "REJECTED_BEFORE_WORK", "PROPOSAL_LINKED",
     "ADVISORY_REJECTED", "ADVISORY_CANCELLED", "ADVISORY_EXPIRED",
     "ADVISORY_COMPLETED"}

\* IdeaProposalRealizationRecord.  older: the proposals that it may not be
\* linked to, since they existed when it was created.
Realization ==
    [intake : Intakes, status : RealizationStatuses, version : 1 .. 3,
     proposal : LinkableProposals \cup {None}, older : SUBSET LinkableProposals]

ASSUME IdeaAssumption ==
    /\ RefusedIntakes \subseteq Intakes
    /\ Endings \subseteq TERMINAL_STATES
    /\ MaxIdeaRequests \in Nat
    /\ None \notin LinkableProposals /\ None \notin Realization

VARIABLES
    intakes,        \* proposal_idea_intakes, by registry key
    realizations,   \* proposal_idea_review_realizations, by intent
    outcomes,       \* proposal_idea_realization_outcomes, by intent
    linkable,       \* the states of the proposals, None before they exist
    ideaJob,        \* what each worker is doing
    ideaRequests    \* how many requests have come in

ideaVars == <<intakes, realizations, outcomes, linkable, ideaJob, ideaRequests>>

ideaTables == <<intakes, realizations, outcomes>>

\* _TERMINAL_PROPOSAL_OUTCOMES and _target_status
TargetStatus(proposal_state) ==
    CASE proposal_state = "REJECTED" -> "ADVISORY_REJECTED"
      [] proposal_state = "CANCELLED" -> "ADVISORY_CANCELLED"
      [] proposal_state = "EXPIRED" -> "ADVISORY_EXPIRED"
      [] proposal_state = "EXECUTED" -> "ADVISORY_COMPLETED"
      [] OTHER -> "PROPOSAL_LINKED"

IdleIdeaJob == [phase |-> "idle"]

IdeaInit ==
    /\ intakes = [k \in IntakeKeys |-> None]
    /\ realizations = [i \in Intents |-> None]
    /\ outcomes = [i \in Intents |-> <<>>]
    /\ linkable = [p \in LinkableProposals |-> None]
    /\ ideaJob = [w \in IdeaWorkers |-> IdleIdeaJob]
    /\ ideaRequests = 0

IdeaWorkEnds(w) == ideaJob' = [ideaJob EXCEPT ![w] = IdleIdeaJob]

-----------------------------------------------------------------------------
\* What happens around the component.

\* A proposal is created, changes state, or ends, by lifecycle commands.
LinkableMoves(p) ==
    /\ linkable[p] \notin TERMINAL_STATES
    /\ \E state \in IF linkable[p] = None THEN {"DRAFT"} ELSE Endings :
          linkable' = [linkable EXCEPT ![p] = state]
    /\ UNCHANGED <<ideaTables, ideaJob, ideaRequests>>

\* The replay window of a registry row passes.
IntakeExpires(k) ==
    /\ intakes[k] # None /\ ~intakes[k].expired
    /\ intakes' = [intakes EXCEPT ![k].expired = TRUE]
    /\ UNCHANGED <<realizations, outcomes, linkable, ideaJob, ideaRequests>>

-----------------------------------------------------------------------------
\* claim_idea_proposal_intake: one transaction.

InitialStatus(intake) ==
    IF intake \in RefusedIntakes THEN "REJECTED_BEFORE_WORK"
                                 ELSE "ACCEPTED_FOR_REVIEW"

\* _realization_record; proposals that exist already precede the review work.
NewRealization(intake) ==
    [intake |-> intake, status |-> InitialStatus(intake), version |-> 1,
     proposal |-> None,
     older |-> {p \in LinkableProposals : linkable[p] # None}]

Outcome(status, p) == [status |-> status, proposal |-> p]

\* The rows that expired are purged first, a batch that is larger than any
\* number of rows here.
Unexpired ==
    [k \in IntakeKeys |->
        IF intakes[k] # None /\ intakes[k].expired THEN None ELSE intakes[k]]

IntakeRow(i, intake) == [intent |-> i, intake |-> intake, expired |-> FALSE]

\* ON CONFLICT DO NOTHING, then the row that is read back must be the
\* request's: otherwise everything is rolled back, the purge too.
ClaimAdmitted(k, i, intake) ==
    /\ Unexpired[k] \in {None, IntakeRow(i, intake)}
    /\ realizations[i] # None => realizations[i].intake = intake

\* ON CONFLICT DO UPDATE
ClaimedRealizationAnew(i, intake) == NewRealization(intake)

\* _claim_realization inserts unless the realization exists.
ClaimedRealization(i, intake) ==
    IF realizations[i] = None THEN NewRealization(intake) ELSE realizations[i]

ClaimIntake(k, i, intake) ==
    /\ ideaRequests < MaxIdeaRequests
    /\ ideaRequests' = ideaRequests + 1
    /\ ClaimAdmitted(k, i, intake)
    /\ intakes' = [Unexpired EXCEPT ![k] = IntakeRow(i, intake)]
    /\ realizations' = [realizations EXCEPT ![i] = ClaimedRealization(i, intake)]
    /\ outcomes' = [outcomes EXCEPT ![i] =
            IF @ = <<>> THEN <<Outcome(InitialStatus(intake), None)>> ELSE @]
    /\ UNCHANGED <<linkable, ideaJob>>

-----------------------------------------------------------------------------
\* reconcile_idea_proposal_realization

\* The caller names the intake, a proposal and the version it has seen.
ReceiveReconciliation(w) ==
    /\ ideaJob[w].phase = "idle"
    /\ ideaRequests < MaxIdeaRequests
    /\ ideaRequests' = ideaRequests + 1
    /\ \E i \in Intents, p \in LinkableProposals : \E expected \in 1 .. 3 :
          /\ realizations[i] # None
          /\ ideaJob' = [ideaJob EXCEPT ![w] =
                [phase |-> "history", intent |-> i, proposal |-> p,
                 expected |-> expected]]
    /\ UNCHANGED <<ideaTables, linkable>>

\* _load_reconciliation_context reads the history and then the proposal.
LoadHistory(w) ==
    LET job == ideaJob[w] IN
    /\ job.phase = "history"
    /\ ideaJob' = [ideaJob EXCEPT ![w] =
          [phase |-> "proposal", intent |-> job.intent,
           proposal |-> job.proposal, expected |-> job.expected,
           seen |-> realizations[job.intent]]]
    /\ UNCHANGED <<ideaTables, linkable, ideaRequests>>

\* _already_reconciled
AlreadyReconciled(realization, p, target) ==
    realization.proposal = p /\ realization.status = target

\* _load_reconciliation_context and _validate_progression_request
ProgressionRequested(job, seen, state) ==
    /\ state # None /\ job.proposal \notin seen.older
    /\ ~AlreadyReconciled(seen, job.proposal, TargetStatus(state))
    /\ seen.status # "REJECTED_BEFORE_WORK"
    /\ seen.proposal \in {None, job.proposal}
    /\ job.expected = seen.version

\* _build_progression: the outcomes that are appended
NewOutcomes(seen, p, state) ==
    (IF seen.proposal = None THEN <<Outcome("PROPOSAL_LINKED", p)>> ELSE <<>>)
      \o (IF state \in TERMINAL_STATES THEN <<Outcome(TargetStatus(state), p)>>
                                       ELSE <<>>)

LoadProposal(w) ==
    LET job == ideaJob[w]
        state == linkable[job.proposal]
    IN
    /\ job.phase = "proposal"
    /\ IF ProgressionRequested(job, job.seen, state)
       THEN ideaJob' = [ideaJob EXCEPT ![w] =
                [phase |-> "advance", intent |-> job.intent,
                 proposal |-> job.proposal, expected |-> job.expected,
                 seen |-> job.seen, state |-> state]]
       ELSE IdeaWorkEnds(w)
    /\ UNCHANGED <<ideaTables, linkable, ideaRequests>>

\* No compare-and-set
ProgressionAlwaysAdmitted(current, expected) == TRUE

\* validate_realization_progression and UPDATE ... WHERE the version is the
\* expected one
ProgressionAdmitted(current, expected) == current.version = expected

\* No unique constraint
ProposalMayBeLinked(i, p) == TRUE

\* uq_proposal_idea_realization_proposal
ProposalUnlinked(i, p) ==
    \A other \in Intents \ {i} :
        realizations[other] # None => realizations[other].proposal # p

\* advance_idea_proposal_realization: one transaction on the locked row.
Advance(w) ==
    LET job == ideaJob[w]
        appended == NewOutcomes(job.seen, job.proposal, job.state)
    IN
    /\ job.phase = "advance"
    /\ ProgressionAdmitted(realizations[job.intent], job.seen.version)
    /\ ProposalUnlinked(job.intent, job.proposal)
    /\ realizations' = [realizations EXCEPT ![job.intent] =
          [job.seen EXCEPT !.proposal = job.proposal,
                           !.status = TargetStatus(job.state),
                           !.version = @ + Len(appended)]]
    /\ outcomes' = [outcomes EXCEPT ![job.intent] = @ \o appended]
    /\ IdeaWorkEnds(w)
    /\ UNCHANGED <<intakes, linkable, ideaRequests>>

\* It is rolled back; the reload answers, or the conflict is raised.
AdvanceLost(w) ==
    LET job == ideaJob[w] IN
    /\ job.phase = "advance"
    /\ ~(/\ ProgressionAdmitted(realizations[job.intent], job.seen.version)
         /\ ProposalUnlinked(job.intent, job.proposal))
    /\ IdeaWorkEnds(w)
    /\ UNCHANGED <<ideaTables, linkable, ideaRequests>>

IdeaWorkerDies(w) ==
    /\ ideaJob[w].phase # "idle"
    /\ IdeaWorkEnds(w)
    /\ UNCHANGED <<ideaTables, linkable, ideaRequests>>

IdeaNext ==
    \/ \E p \in LinkableProposals : LinkableMoves(p)
    \/ \E k \in IntakeKeys : IntakeExpires(k)
    \/ \E k \in IntakeKeys, i \in Intents, intake \in Intakes :
          ClaimIntake(k, i, intake)
    \/ \E w \in IdeaWorkers :
          \/ ReceiveReconciliation(w) \/ LoadHistory(w) \/ LoadProposal(w)
          \/ Advance(w) \/ AdvanceLost(w) \/ IdeaWorkerDies(w)

IdeaSpec == IdeaInit /\ [][IdeaNext]_ideaVars

-----------------------------------------------------------------------------
\* Properties.

\* A realization says what its history says: the version counts the outcomes,
\* status and proposal are those of the last one, and the proposal was linked
\* by exactly one outcome.
RealizationMatchesHistory ==
    \A i \in Intents : realizations[i] # None =>
        LET history == outcomes[i] IN
        /\ Len(history) = realizations[i].version
        /\ Last(history) = Outcome(realizations[i].status,
                                   realizations[i].proposal)
        /\ Cardinality({n \in DOMAIN history :
                            history[n].status = "PROPOSAL_LINKED"})
              = IF realizations[i].proposal = None THEN 0 ELSE 1

\* A proposal realizes at most one intent, and it did not exist when the
\* review work was created.
OneRealizationPerProposal ==
    \A i, j \in Intents :
        /\ realizations[i] # None /\ realizations[j] # None
        /\ realizations[i].proposal # None
        => /\ realizations[i].proposal = realizations[j].proposal => i = j
           /\ realizations[i].proposal \notin realizations[i].older

\* A realization is closed by the terminal state its proposal really has, and
\* stays closed whatever is claimed or reconciled later.
ClosedAsProposalEnded ==
    \A i \in Intents : \A n \in DOMAIN outcomes[i] :
        outcomes[i][n].status \notin
              {"ACCEPTED_FOR_REVIEW", "REJECTED_BEFORE_WORK", "PROPOSAL_LINKED"}
        => /\ n = Len(outcomes[i])
           /\ outcomes[i][n].status = TargetStatus(linkable[outcomes[i][n].proposal])
           /\ realizations[i].status = outcomes[i][n].status

=============================================================================
