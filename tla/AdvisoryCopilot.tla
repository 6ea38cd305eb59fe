--------------------------- MODULE AdvisoryCopilot ---------------------------
(***************************************************************************)
(* Evidence packets, AI drafts and their human review                      *)
(* (core/advisory_copilot over infrastructure/advisory_copilot/postgres.py *)
(* and integrations/lotus_ai/advisory_copilot.py).                         *)
(*                                                                         *)
(* A run is identified by what was asked: the packet with its content and  *)
(* who asks.  Its row keeps the posture and the draft, which is told by    *)
(* the posture it was made with.  A run that ended without a usable draft  *)
(* is drafted anew when it is asked for again under its key, and a review  *)
(* sets the posture of a draft; both write the whole row, from a copy.     *)
(*                                                                         *)
(* The workers are the threads of one process, which share the slots for   *)
(* calls of the AI service.  Requests that the guardrails refuse before a  *)
(* call are left out: their run is written once and never changes.         *)
(***************************************************************************)
EXTENDS Values, Naturals, FiniteSets

CONSTANTS
    CopilotWorkers,
    Packets,
    ProjectedPackets,   \* those that are projections of a proposal version
    PacketContents,
    Requesters,         \* who asks for runs
    Reviewers,          \* who reviews them
    RunKeys,            \* idempotency keys of runs
    ReviewRequests,     \* the reviews that are sent
    AiSlots,            \* max_concurrent_requests
    AiAttempts,         \* max_attempts
    MaxCopilotCalls     \* bound on the requests that come in

\* What a run is identified by; its run_id is a hash of it.
RunId == [packet : Packets, content : PacketContents, by : Requesters]

ReviewPostures ==
    {"APPROVED_FOR_INTERNAL_USE", "REJECTED", "SUPERSEDED", "EXPIRED"}

\* A review, named by the posture its action leads to; the correlation is part
\* of its request hash.
ReviewRequest == [posture : ReviewPostures, actor : Reviewers,
                  correlation : Nat, key : RunKeys]

ASSUME CopilotAssumption ==
    /\ ProjectedPackets \subseteq Packets
    /\ ReviewRequests \subseteq ReviewRequest
    /\ AiSlots \in Nat \ {0} /\ AiAttempts \in Nat \ {0}
    /\ MaxCopilotCalls \in Nat
    /\ None \notin PacketContents \cup RunKeys
    /\ IsFiniteSet(CopilotWorkers)

VARIABLES
    packets,        \* advisory_copilot_evidence_packets
    runs,           \* advisory_copilot_runs
    runKeys,        \* advisory_copilot_run_idempotency
    reviews,        \* advisory_copilot_reviews
    freeSlots,      \* _CONCURRENCY_LIMITS
    copilotJob,     \* what each worker is doing
    copilotCalls    \* how many requests have come in

copilotVars == <<packets, runs, runKeys, reviews, freeSlots, copilotJob,
                 copilotCalls>>

copilotTables == <<packets, runs, runKeys, reviews>>

IdleCopilotJob == [phase |-> "idle"]

CopilotInit ==
    /\ packets = [p \in Packets |-> None]
    /\ runs = [r \in RunId |-> None]
    /\ runKeys = [k \in RunKeys |-> None]
    /\ reviews = {}
    /\ freeSlots = AiSlots
    /\ copilotJob = [w \in CopilotWorkers |-> IdleCopilotJob]
    /\ copilotCalls = 0

CopilotEnds(w) == copilotJob' = [copilotJob EXCEPT ![w] = IdleCopilotJob]

CopilotGoesOn(w, job) == copilotJob' = [copilotJob EXCEPT ![w] = job]

-----------------------------------------------------------------------------
\* save_evidence_packet: a SELECT, then an INSERT or an UPDATE.

\* A packet that may always be replaced
AlwaysRefreshable(p) == TRUE

\* can_refresh_source_projection_packet
Refreshable(p) == p \in ProjectedPackets

ReadPacket(w) ==
    /\ copilotJob[w].phase = "idle"
    /\ copilotCalls < MaxCopilotCalls
    /\ \E p \in Packets, content \in PacketContents :
          /\ packets[p] \in {None, content} \/ Refreshable(p)
          /\ CopilotGoesOn(w, [phase |-> "packet", packet |-> p,
                               content |-> content, found |-> packets[p]])
    /\ copilotCalls' = copilotCalls + 1
    /\ UNCHANGED <<copilotTables, freeSlots>>

\* The INSERT does nothing when another came first.
WritePacket(w) ==
    LET job == copilotJob[w] IN
    /\ job.phase = "packet"
    /\ packets' = [packets EXCEPT ![job.packet] =
          IF job.found = None /\ @ # None THEN @ ELSE job.content]
    /\ CopilotEnds(w)
    /\ UNCHANGED <<runs, runKeys, reviews, freeSlots, copilotCalls>>

-----------------------------------------------------------------------------
\* run_action

\* The packet is loaded, and with it the request is known.
LoadPacket(w) ==
    /\ copilotJob[w].phase = "idle"
    /\ copilotCalls < MaxCopilotCalls
    /\ \E p \in {p \in Packets : packets[p] # None},
          user \in Requesters, key \in RunKeys \cup {None} :
          CopilotGoesOn(w,
              [phase |-> IF key = None THEN "slot" ELSE "replay", key |-> key,
               run |-> [packet |-> p, content |-> packets[p], by |-> user]])
    /\ copilotCalls' = copilotCalls + 1
    /\ UNCHANGED <<copilotTables, freeSlots>>

\* can_attempt_advisory_copilot_run_refresh; OUTPUT_REJECTED is the posture
\* GUARDRAIL_REJECTED with the fallback reason COPILOT_OUTPUT_GUARDRAIL_REJECTED.
Retryable(row) == row.posture \in {"UNAVAILABLE", "OUTPUT_REJECTED"}

\* can_refresh_retryable_copilot_run
Refreshes(row, posture) ==
    \/ row.posture = "UNAVAILABLE" /\ posture # "UNAVAILABLE"
    \/ row.posture = "OUTPUT_REJECTED" /\ posture = "REVIEW_REQUIRED"

\* resolve_advisory_copilot_run_replay: a key of another request conflicts, the
\* run of the key is the answer unless it can be tried again.
ResolveReplay(w) ==
    LET job == copilotJob[w] IN
    /\ job.phase = "replay"
    /\ IF runKeys[job.key] = None
          \/ (runKeys[job.key] = job.run /\ Retryable(runs[job.run]))
       THEN CopilotGoesOn(w, [job EXCEPT !.phase = "slot"])
       ELSE CopilotEnds(w)
    /\ UNCHANGED <<copilotTables, freeSlots, copilotCalls>>

\* The draft that persist_advisory_copilot_run is given
Drafted(job, posture) ==
    [phase |-> IF job.key = None THEN "insert" ELSE "persist", key |-> job.key,
     run |-> job.run, row |-> [posture |-> posture, draft |-> posture]]

\* _advisory_copilot_capacity does not wait: without a slot the draft is
\* unavailable.  So it is when the request is over its budget.
TakeSlot(w) ==
    LET job == copilotJob[w] IN
    /\ job.phase = "slot"
    /\ \/ /\ freeSlots > 0
          /\ freeSlots' = freeSlots - 1
          /\ CopilotGoesOn(w, [phase |-> "posting", key |-> job.key,
                               run |-> job.run, attempts |-> 0])
       \/ /\ CopilotGoesOn(w, Drafted(job, "UNAVAILABLE"))
          /\ UNCHANGED freeSlots
    /\ UNCHANGED <<copilotTables, copilotCalls>>

\* The state the service claims for its output, which may be any text
ClaimedStates == {"REVIEW_REQUIRED", "APPROVED_FOR_INTERNAL_USE"}

\* _draft_from_completed_workflow_output: only a grounded output whose state is
\* REVIEW_REQUIRED passes the evaluation.
DraftStatus(state, grounded) ==
    IF grounded /\ state = "REVIEW_REQUIRED" THEN state ELSE "UNSUPPORTED"

\* What the service answers
DraftPostures ==
    {"UNAVAILABLE", "OUTPUT_REJECTED"}
        \cup {DraftStatus(state, grounded) :
                 state \in ClaimedStates, grounded \in BOOLEAN}

\* It is given back only by a call that returns
SlotsKept(free) == free

\* The slot is given back, whatever the outcome.
SlotsAfter(free) == free + 1

\* _post_workflow_pack_with_budget returns or raises: the slot is free again.
AnswerPost(w) ==
    LET job == copilotJob[w] IN
    /\ job.phase = "posting"
    /\ \E posture \in DraftPostures :
          CopilotGoesOn(w, Drafted(job, posture))
    /\ freeSlots' = SlotsAfter(freeSlots)
    /\ UNCHANGED <<copilotTables, copilotCalls>>

\* A transport error is retried within max_attempts.
RetryPost(w) ==
    /\ copilotJob[w].phase = "posting"
    /\ copilotJob[w].attempts + 1 < AiAttempts
    /\ copilotJob' = [copilotJob EXCEPT ![w].attempts = @ + 1]
    /\ UNCHANGED <<copilotTables, freeSlots, copilotCalls>>

\* persist_advisory_copilot_run: the key is looked up again.  (It is once more
\* in the transaction that inserts; a run that is found there is the answer.)
PersistRun(w) ==
    LET job == copilotJob[w] IN
    /\ job.phase = "persist"
    /\ IF runKeys[job.key] = None
       THEN CopilotGoesOn(w, [job EXCEPT !.phase = "insert"])
       ELSE IF /\ runKeys[job.key] = job.run /\ Retryable(runs[job.run])
               /\ Refreshes(runs[job.run], job.row.posture)
       THEN CopilotGoesOn(w, [job EXCEPT !.phase = "refresh"])
       ELSE CopilotEnds(w)
    /\ UNCHANGED <<copilotTables, freeSlots, copilotCalls>>

\* Both inserts do nothing when the row exists.
InsertRun(w) ==
    LET job == copilotJob[w] IN
    /\ job.phase = "insert"
    /\ runs' = [runs EXCEPT ![job.run] = IF @ = None THEN job.row ELSE @]
    /\ runKeys' = [k \in RunKeys |->
          IF k = job.key /\ runKeys[k] = None THEN job.run ELSE runKeys[k]]
    /\ CopilotEnds(w)
    /\ UNCHANGED <<packets, reviews, freeSlots, copilotCalls>>

\* update_run of a draft that is made anew
RefreshRun(w) ==
    /\ copilotJob[w].phase = "refresh"
    /\ runs' = [runs EXCEPT ![copilotJob[w].run] = copilotJob[w].row]
    /\ CopilotEnds(w)
    /\ UNCHANGED <<packets, runKeys, reviews, freeSlots, copilotCalls>>

-----------------------------------------------------------------------------
\* record_advisory_copilot_review

\* validate_copilot_review_authority, of a principal in scope
MayReview(run, actor) == actor # run.by

ReadRun(w) ==
    /\ copilotJob[w].phase = "idle"
    /\ copilotCalls < MaxCopilotCalls
    /\ \E run \in {r \in RunId : runs[r] # None}, request \in ReviewRequests :
          /\ MayReview(run, request.actor)
          /\ CopilotGoesOn(w, [phase |-> "review", run |-> run,
                               row |-> runs[run], request |-> request])
    /\ copilotCalls' = copilotCalls + 1
    /\ UNCHANGED <<copilotTables, freeSlots>>

\* A review under the same key answers or conflicts; the run that was read has
\* to be reviewable.
CheckReview(w) ==
    LET job == copilotJob[w] IN
    /\ job.phase = "review"
    /\ IF /\ \A review \in reviews :
                review.run = job.run => review.request.key # job.request.key
          /\ job.row.posture = "REVIEW_REQUIRED"
       THEN CopilotGoesOn(w, [job EXCEPT !.phase = "append"])
       ELSE CopilotEnds(w)
    /\ UNCHANGED <<copilotTables, freeSlots, copilotCalls>>

\* append_review commits on its own: the same review again does nothing,
\* another one under the same key violates the unique index.
AppendReview(w) ==
    LET job == copilotJob[w]
        review == [run |-> job.run, request |-> job.request]
    IN
    /\ job.phase = "append"
    /\ IF \E other \in reviews : /\ other.run = job.run /\ other # review
                                 /\ other.request.key = job.request.key
       THEN CopilotEnds(w) /\ UNCHANGED reviews
       ELSE /\ reviews' = reviews \cup {review}
            /\ CopilotGoesOn(w, [job EXCEPT !.phase = "update"])
    /\ UNCHANGED <<packets, runs, runKeys, freeSlots, copilotCalls>>

\* Only the posture is updated
PostureReviewed(job) == [runs[job.run] EXCEPT !.posture = job.request.posture]

\* _run_with_review_posture: the row that was read, with another posture
Reviewed(job) == [job.row EXCEPT !.posture = job.request.posture]

UpdateReviewedRun(w) ==
    LET job == copilotJob[w] IN
    /\ job.phase = "update"
    /\ runs' = [runs EXCEPT ![job.run] = Reviewed(job)]
    /\ CopilotEnds(w)
    /\ UNCHANGED <<packets, runKeys, reviews, freeSlots, copilotCalls>>

\* A step raises, or the process dies (then all workers do): a slot that is
\* held is given back.
CopilotWorkerDies(w) ==
    /\ copilotJob[w].phase # "idle"
    /\ freeSlots' = IF copilotJob[w].phase = "posting"
                    THEN SlotsAfter(freeSlots) ELSE freeSlots
    /\ CopilotEnds(w)
    /\ UNCHANGED <<copilotTables, copilotCalls>>

CopilotNext ==
    \E w \in CopilotWorkers :
        \/ ReadPacket(w) \/ WritePacket(w)
        \/ LoadPacket(w) \/ ResolveReplay(w) \/ TakeSlot(w) \/ AnswerPost(w)
        \/ RetryPost(w) \/ PersistRun(w) \/ InsertRun(w) \/ RefreshRun(w)
        \/ ReadRun(w) \/ CheckReview(w) \/ AppendReview(w)
        \/ UpdateReviewedRun(w) \/ CopilotWorkerDies(w)

CopilotSpec == CopilotInit /\ [][CopilotNext]_copilotVars

-----------------------------------------------------------------------------
\* Properties.

\* A run is in a reviewed posture only by a review that is recorded, of that
\* posture and by someone other than who asked for the run, and only on a draft
\* that could be reviewed, neither unsupported nor a fallback - whatever state
\* the AI service claims, and however a refresh overlaps with the review.
ReviewsStandOnDrafts ==
    \A r \in RunId :
        runs[r] # None /\ runs[r].posture \in ReviewPostures =>
            /\ runs[r].draft = "REVIEW_REQUIRED"
            /\ \E review \in reviews :
                  /\ review.run = r /\ review.request.posture = runs[r].posture
                  /\ review.request.actor # r.by

\* A run and the evidence it names agree: the packet of a run that is not a
\* projection still has the content that the run was made from.
RunsKeepTheirEvidence ==
    \A r \in RunId :
        runs[r] # None /\ r.packet \notin ProjectedPackets =>
            packets[r.packet] = r.content

\* No outcome of a call loses a slot: those that are not free are held by
\* calls under way, each within its attempts.
SlotsAreReturned ==
    LET calling == {w \in CopilotWorkers : copilotJob[w].phase = "posting"}
    IN  /\ freeSlots + Cardinality(calling) = AiSlots
        /\ \A w \in calling : copilotJob[w].attempts < AiAttempts

=============================================================================
