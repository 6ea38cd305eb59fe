-------------------------- MODULE PolicyEvaluations --------------------------
(***************************************************************************)
(* Policy evaluation records: finalization, sign-off decisions, reviews,   *)
(* report packages and AI evidence (core/policy_packs/persistence_store.py,*)
(* workflow.py, reporting.py, ai.py over                                   *)
(* infrastructure/policy_packs/postgres_state.py).                         *)
(*                                                                         *)
(* An evaluation id is the hash of what was evaluated, so two              *)
(* finalizations of the same evidence build the same id.  As in the        *)
(* catalog, a command loads the tables with one statement each, changes    *)
(* the copy and saves all of it; the first upsert of a save waits for the  *)
(* savers before it and counts events from before the wait.                *)
(*                                                                         *)
(* What a record says beside its maker and its event lists is a function   *)
(* of its id.  The requirements of an approval are taken as satisfied: a   *)
(* decision that leaves one open is refused and changes nothing.           *)
(*                                                                         *)
(* Before the server filled in the legal entity of the evidence, a request *)
(* without one was evaluated as BLOCKED.  Sent again under its key, such a *)
(* request is evaluated anew and its key is bound to the new evaluation.   *)
(***************************************************************************)
EXTENDS SnapshotStore

CONSTANTS
    EvalWorkers,
    MaxEvaluation,      \* evaluations are 1 .. MaxEvaluation, in upsert order
    Officers,           \* who finalizes, decides and requests reports
    EvalKeys,           \* idempotency keys
    EvalCommands,       \* the commands that are sent
    MaxEvalCommands,    \* bound on the commands that start
    BlockedCommands,    \* the finalizations that ended BLOCKED for the entity
    Repaired            \* the evaluation of each of them with the entity

EvaluationIds == 1 .. MaxEvaluation

\* FINALIZED, REVIEW_RECORDED (a decision other than approval),
\* SIGN_OFF_RECORDED (an approval), REPORT_ARCHIVE_RECORDED and
\* AI_EVIDENCE_RECORDED
EvalEventTypes == {"FINALIZED", "REVIEW", "SIGN_OFF", "REPORT_ARCHIVE",
                   "AI_EVIDENCE"}

\* The events that attach_policy_evaluation_event adds to a list of the record
ListedTypes == {"REVIEW", "SIGN_OFF", "REPORT_ARCHIVE"}

\* A command asks for the event of its type; key is None when none was sent.
EvalCommand ==
    [type : EvalEventTypes, evaluation : EvaluationIds, actor : Officers,
     key : EvalKeys \cup {None}]

\* PolicyEvaluationRecord: who created it, and the ids of the events that are
\* attached to it (review_events_json, sign_off_events_json,
\* report_archive_refs_json).
EvalRecord == [created_by : Officers, attached : SUBSET (Nat \ {0})]

\* PolicyEvaluationAuditEvent; occurred_at is kept as the worker and the place
\* of its command, which tells two events apart.
EvalEvent ==
    [type : EvalEventTypes, actor : Officers, key : EvalKeys \cup {None},
     at : (EvalWorkers \cup {None}) \X Nat]

Blocked == {command.evaluation : command \in BlockedCommands}

ASSUME EvalAssumption ==
    /\ MaxEvaluation \in Nat \ {0}
    /\ MaxEvalCommands \in Nat
    /\ EvalCommands \subseteq EvalCommand
    /\ None \notin EvalKeys /\ None \notin EvalRecord /\ None \notin EvalWorkers
    /\ BlockedCommands \subseteq EvalCommand
    /\ \A command \in BlockedCommands :
          /\ command.type = "FINALIZED" /\ command.key # None
          /\ \A other \in BlockedCommands :
                other.evaluation = command.evaluation \/ other.key = command.key
                    => other = command
    /\ Repaired \in [Blocked -> EvaluationIds \ Blocked]
    \* A request for evidence without an entity is now completed.
    /\ \A command \in EvalCommands :
          command.type = "FINALIZED" => command.evaluation \notin Blocked

\* Records are upserted in the order in which they were made, so the blocked ones
\* come first.
ASSUME BlockedAssumption ==
    \A b \in Blocked, e \in EvaluationIds \ Blocked : b < e

VARIABLES
    evalRecords,    \* policy_evaluation_records, None where there is none
    evalEvents,     \* policy_evaluation_audit_events
    evalKeys,       \* policy_evaluation_idempotency
    evalJob,        \* what each worker is doing, and its copy of the tables
    evalQueue,      \* the savers, in the order of their first upsert
    evalReports,    \* evaluations the report service accepted a package for
    evalCommands    \* how many commands have started

evalVars == <<evalRecords, evalEvents, evalKeys, evalJob, evalQueue,
              evalReports, evalCommands>>

IdleEvalJob ==
    [phase |-> "idle", command |-> None, records |-> None, events |-> None,
     keys |-> None, counted |-> 0, at |-> 0]

BlockedCommandOf(e) == CHOOSE command \in BlockedCommands : command.evaluation = e

EvalInit ==
    /\ evalRecords = [e \in EvaluationIds |->
           IF e \in Blocked
           THEN [created_by |-> BlockedCommandOf(e).actor, attached |-> {}]
           ELSE None]
    /\ evalEvents = [e \in EvaluationIds |->
           IF e \in Blocked
           THEN <<[type |-> "FINALIZED", actor |-> BlockedCommandOf(e).actor,
                   key |-> BlockedCommandOf(e).key, at |-> <<None, 0>>]>>
           ELSE <<>>]
    /\ evalKeys = [k \in EvalKeys |->
           IF \E command \in BlockedCommands : command.key = k
           THEN [request |-> CHOOSE command \in BlockedCommands : command.key = k,
                 event_id |-> 1]
           ELSE None]
    /\ evalJob = [w \in EvalWorkers |-> IdleEvalJob]
    /\ evalQueue = <<>>
    /\ evalReports = {}
    /\ evalCommands = 0

-----------------------------------------------------------------------------
\* A command starts.  A decision and a report first read the evaluation.

StartEvalCommand(w) ==
    /\ evalJob[w].phase = "idle"
    /\ evalCommands < MaxEvalCommands
    /\ \E command \in EvalCommands :
          evalJob' = [evalJob EXCEPT ![w] =
              [IdleEvalJob EXCEPT
                  !.phase = IF command.type = "FINALIZED" THEN "loading"
                            ELSE "checking",
                  !.command = command, !.at = evalCommands]]
    /\ evalCommands' = evalCommands + 1
    /\ UNCHANGED <<evalRecords, evalEvents, evalKeys, evalQueue, evalReports>>

\* sign_off_status = SIGNED_OFF: an approval is in the trail.  A later decision
\* of another kind is a review and does not withdraw it.
SignedOff(events) == \E i \in DOMAIN events : events[i].type = "SIGN_OFF"

\* Any actor may approve
AnyoneChecks(record, command) == TRUE

\* The first comparison of validate_policy_sign_off_decision
MakerChecks(record, command) == record.created_by # command.actor

\* Any evaluation may be reported
ReportableAtOnce(events) == TRUE

\* _validate_report_request
Reportable(events) == SignedOff(events)

\* _find_replayed_report_event and _find_replayed_ai_event look for the key in
\* the events of the evaluation; an event they find is replayed or a conflict.
KeyRecorded(command) ==
    command.key # None /\ \E i \in DOMAIN evalEvents[command.evaluation] :
        evalEvents[command.evaluation][i].key = command.key

\* record_policy_evaluation_sign_off_decision,
\* request_policy_evaluation_report_package and
\* request_policy_evaluation_ai_evidence up to the first write.  The AI service
\* is asked in between; without an answer a fixed text is recorded.
CheckPasses(command) ==
    /\ evalRecords[command.evaluation] # None
    /\ CASE command.type = "SIGN_OFF" ->
                /\ MakerChecks(evalRecords[command.evaluation], command)
                /\ command.evaluation \notin Blocked
         [] command.type = "REVIEW" -> TRUE
         [] command.type = "REPORT_ARCHIVE" ->
                /\ Reportable(evalEvents[command.evaluation])
                /\ ~KeyRecorded(command)
         [] command.type = "AI_EVIDENCE" -> ~KeyRecorded(command)

CheckEvaluation(w) ==
    LET job == evalJob[w] IN
    /\ job.phase = "checking" /\ CheckPasses(job.command)
    /\ evalJob' = [evalJob EXCEPT ![w].phase =
                      IF job.command.type = "REPORT_ARCHIVE" THEN "reporting"
                      ELSE "loading"]
    /\ UNCHANGED <<evalRecords, evalEvents, evalKeys, evalQueue, evalReports,
                   evalCommands>>

\* The evaluation is unknown, the maker would approve its own evaluation, the
\* report has no sign-off, or its event is already recorded.
EndAtCheck(w) ==
    /\ evalJob[w].phase = "checking" /\ ~CheckPasses(evalJob[w].command)
    /\ evalJob' = [evalJob EXCEPT ![w] = IdleEvalJob]
    /\ UNCHANGED <<evalRecords, evalEvents, evalKeys, evalQueue, evalReports,
                   evalCommands>>

\* The report service accepts the package; when it fails the command ends
\* (EvalWorkerDies).
RequestPolicyReport(w) ==
    /\ evalJob[w].phase = "reporting"
    /\ evalReports' = evalReports \cup {evalJob[w].command.evaluation}
    /\ evalJob' = [evalJob EXCEPT ![w].phase = "loading"]
    /\ UNCHANGED <<evalRecords, evalEvents, evalKeys, evalQueue, evalCommands>>

-----------------------------------------------------------------------------
\* load_snapshot, then the command on the copy

LoadRecords(w) ==
    /\ evalJob[w].phase = "loading"
    /\ evalJob' = [evalJob EXCEPT ![w].phase = "events",
                                  ![w].records = evalRecords]
    /\ UNCHANGED <<evalRecords, evalEvents, evalKeys, evalQueue, evalReports,
                   evalCommands>>

LoadEvalEvents(w) ==
    /\ evalJob[w].phase = "events"
    /\ evalJob' = [evalJob EXCEPT ![w].phase = "deciding",
                                  ![w].events = evalEvents]
    /\ UNCHANGED <<evalRecords, evalEvents, evalKeys, evalQueue, evalReports,
                   evalCommands>>

\* The request hash covers who sends it.  That of a report also covers the id of
\* the package, so no two of them are the same; that of AI evidence covers the
\* draft, which may come out the same or not.
SameEvalRequest(stored, command) ==
    stored = command /\ command.type # "REPORT_ARCHIVE"

EvalKeyUsed(command) == command.key # None /\ evalKeys[command.key] # None

\* _load_replayed_event: the copy holds the event that the key is mapped to.
MappedEventLoaded(job) ==
    LET stored == evalKeys[job.command.key] IN
    /\ job.records[stored.request.evaluation] # None
    /\ stored.event_id \in DOMAIN job.events[stored.request.evaluation]

\* _find_replayed_event
ReplaysEvalEvent(job) ==
    /\ EvalKeyUsed(job.command)
    /\ SameEvalRequest(evalKeys[job.command.key].request, job.command)
    /\ MappedEventLoaded(job)

\* _can_repair_trusted_legal_entity_gap: the key is mapped to an evaluation of
\* the same evidence without its legal entity, made by the same principal.
RepairsEntity(job) ==
    LET stored == evalKeys[job.command.key] IN
    /\ EvalKeyUsed(job.command) /\ job.command.type = "FINALIZED"
    /\ stored.request.evaluation \in Blocked
    /\ Repaired[stored.request.evaluation] = job.command.evaluation
    /\ MappedEventLoaded(job)
    /\ job.records[stored.request.evaluation].created_by = job.command.actor

\* _event: events are numbered on from those that were loaded.
NextEventId(job) == Len(job.events[job.command.evaluation]) + 1

\* append_policy_evaluation_event adds to the list of the copy; a finalization,
\* since the identity index is never stored, replaces the list by its event.
EventsWith(job, w) ==
    LET command == job.command
        event == [type |-> command.type, actor |-> command.actor,
                  key |-> command.key, at |-> <<w, job.at>>]
    IN  IF command.type = "FINALIZED" THEN [i \in {NextEventId(job)} |-> event]
        ELSE Append(job.events[command.evaluation], event)

\* The last list takes whatever the others do not.
RecordListingAll(job) ==
    IF job.command.type = "FINALIZED"
    THEN [created_by |-> job.command.actor, attached |-> {}]
    ELSE [job.records[job.command.evaluation] EXCEPT
             !.attached = @ \cup {NextEventId(job)}]

\* build_policy_evaluation_record, attach_policy_evaluation_event
RecordWith(job) ==
    IF job.command.type = "FINALIZED"
    THEN [created_by |-> job.command.actor, attached |-> {}]
    ELSE [job.records[job.command.evaluation] EXCEPT
             !.attached = @ \cup IF job.command.type \in ListedTypes
                                 THEN {NextEventId(job)} ELSE {}]

\* A replay saves the copy unchanged.
ReplayEvalCommand(w) ==
    /\ evalJob[w].phase = "deciding" /\ ReplaysEvalEvent(evalJob[w])
    /\ evalJob' = [evalJob EXCEPT ![w].phase = "saving", ![w].keys = evalKeys]
    /\ UNCHANGED <<evalRecords, evalEvents, evalKeys, evalQueue, evalReports,
                   evalCommands>>

RecordEvalEvent(w) ==
    LET job == evalJob[w]
        e == job.command.evaluation
    IN
    /\ job.phase = "deciding"
    /\ ~EvalKeyUsed(job.command) \/ RepairsEntity(job)
    /\ evalJob' = [evalJob EXCEPT ![w] =
           [job EXCEPT
               !.phase = "saving", !.events[e] = EventsWith(job, w),
               !.records[e] = RecordWith(job),
               !.keys = IF job.command.key = None THEN evalKeys
                        ELSE [evalKeys EXCEPT ![job.command.key] =
                                 [request |-> job.command,
                                  event_id |-> NextEventId(job)]]]]
    /\ UNCHANGED <<evalRecords, evalEvents, evalKeys, evalQueue, evalReports,
                   evalCommands>>

\* POLICY_EVALUATION_IDEMPOTENCY_KEY_CONFLICT, or an event not loaded
RefuseEvalCommand(w) ==
    LET job == evalJob[w] IN
    /\ job.phase = "deciding"
    /\ EvalKeyUsed(job.command) /\ ~RepairsEntity(job)
    /\ ~ReplaysEvalEvent(job) \/ job.command.type = "AI_EVIDENCE"
    /\ evalJob' = [evalJob EXCEPT ![w] = IdleEvalJob]
    /\ UNCHANGED <<evalRecords, evalEvents, evalKeys, evalQueue, evalReports,
                   evalCommands>>

-----------------------------------------------------------------------------
\* save_snapshot

\* The record that the first upsert of a save writes
FirstSaved(job) ==
    CHOOSE e \in EvaluationIds :
        /\ job.records[e] # None
        /\ \A d \in 1 .. (e - 1) : job.records[d] = None

StartEvalSave(w) ==
    /\ evalJob[w].phase = "saving"
    /\ evalJob' = [evalJob EXCEPT ![w].phase = "waiting",
                      ![w].counted = Len(evalEvents[FirstSaved(evalJob[w])])]
    /\ evalQueue' = Append(evalQueue, w)
    /\ UNCHANGED <<evalRecords, evalEvents, evalKeys, evalReports, evalCommands>>

\* A key goes to whoever saves last
EvalKeysAlwaysAdmitted(job) == TRUE

\* The WHERE EXISTS of _upsert_policy_evaluation_idempotency lets a key move
\* from a blocked evaluation to its repair.
EvalKeysAdmitted(job) ==
    \A k \in EvalKeys :
        evalKeys[k] # None /\ job.keys[k] \notin {None, evalKeys[k]} =>
            /\ evalKeys[k].request.evaluation \in Blocked
            /\ job.keys[k].request.evaluation =
                   Repaired[evalKeys[k].request.evaluation]

EvalSaveable(job) ==
    /\ \A e \in EvaluationIds :
          /\ (job.records[e] # None /\ evalRecords[e] # None) =>
                 RowAdmitted(IF e = FirstSaved(job) THEN job.counted
                             ELSE Len(evalEvents[e]), job.events[e])
          /\ EventsAdmitted(evalEvents[e], job.events[e])
    /\ EvalKeysAdmitted(job)

CommitEvalSave(w) ==
    LET job == evalJob[w] IN
    /\ job.phase = "waiting" /\ Head(evalQueue) = w
    /\ EvalSaveable(job)
    /\ evalRecords' = [e \in EvaluationIds |->
           IF job.records[e] = None THEN evalRecords[e] ELSE job.records[e]]
    /\ evalEvents' = [e \in EvaluationIds |->
                          EventsAfter(evalEvents[e], job.events[e])]
    /\ evalKeys' = KeysAfter(evalKeys, job.keys)
    /\ evalJob' = [evalJob EXCEPT ![w] = IdleEvalJob]
    /\ evalQueue' = Tail(evalQueue)
    /\ UNCHANGED <<evalReports, evalCommands>>

RollBackEvalSave(w) ==
    /\ evalJob[w].phase = "waiting" /\ Head(evalQueue) = w
    /\ ~EvalSaveable(evalJob[w])
    /\ evalJob' = [evalJob EXCEPT ![w] = IdleEvalJob]
    /\ evalQueue' = Tail(evalQueue)
    /\ UNCHANGED <<evalRecords, evalEvents, evalKeys, evalReports, evalCommands>>

\* The worker dies, or a call it makes fails.
EvalWorkerDies(w) ==
    /\ evalJob[w].phase # "idle"
    /\ evalJob' = [evalJob EXCEPT ![w] = IdleEvalJob]
    /\ evalQueue' = SelectSeq(evalQueue, LAMBDA x : x # w)
    /\ UNCHANGED <<evalRecords, evalEvents, evalKeys, evalReports, evalCommands>>

EvalNext ==
    \E w \in EvalWorkers :
        \/ StartEvalCommand(w) \/ CheckEvaluation(w) \/ EndAtCheck(w)
        \/ RequestPolicyReport(w) \/ LoadRecords(w) \/ LoadEvalEvents(w)
        \/ ReplayEvalCommand(w) \/ RecordEvalEvent(w) \/ RefuseEvalCommand(w)
        \/ StartEvalSave(w) \/ CommitEvalSave(w) \/ RollBackEvalSave(w)
        \/ EvalWorkerDies(w)

EvalSpec == EvalInit /\ [][EvalNext]_evalVars

-----------------------------------------------------------------------------
\* Properties.

\* FINALIZED events of a trail
Finalizations(events) == {i \in DOMAIN events : events[i].type = "FINALIZED"}

\* The record and the audit trail agree, however often the same evidence is
\* finalized and whatever copies are saved: the trail starts with a
\* finalization, the record names the maker of one, and what the record lists is
\* in the trail, as an event of a type that it lists.
RecordMatchesTrail ==
    \A e \in EvaluationIds :
        LET events == evalEvents[e] IN
        IF evalRecords[e] = None THEN events = <<>>
        ELSE /\ 1 \in Finalizations(events)
             /\ \E i \in Finalizations(events) :
                   events[i].actor = evalRecords[e].created_by
             /\ \A i \in evalRecords[e].attached :
                   i \in DOMAIN events /\ events[i].type \in ListedTypes

\* "Stale snapshots cannot overwrite newer record state after additional events
\* are present": the record lists every review, sign-off and report of its
\* trail.  The code does not guarantee it: the records are loaded before the
\* events, so a command that another one commits between has the new events,
\* passes the comparison of the counts and writes the old record back.
RecordListsItsEvents ==
    \A e \in EvaluationIds :
        evalRecords[e] # None =>
            \A i \in DOMAIN evalEvents[e] :
                evalEvents[e][i].type \in ListedTypes =>
                    i \in evalRecords[e].attached

\* Maker-checker sign-off is enforced: no approval in the trail is by one who
\* finalized the evaluation.  The code does not guarantee it: while only its
\* finalization is recorded, a second finalization of the same evidence replaces
\* the maker that the check compares with.
SignOffsByOthers ==
    \A e \in EvaluationIds :
        \A i \in DOMAIN evalEvents[e], j \in Finalizations(evalEvents[e]) :
            evalEvents[e][i].type = "SIGN_OFF" =>
                evalEvents[e][i].actor # evalEvents[e][j].actor

\* What does hold of makers and checkers: nobody approves an evaluation that
\* nobody else has finalized before, whatever is finalized, or written back,
\* between the check of an approval and its commit.
SignOffsHaveAnotherMaker ==
    \A e \in EvaluationIds : \A i \in DOMAIN evalEvents[e] :
        evalEvents[e][i].type = "SIGN_OFF" =>
            \E j \in Finalizations(evalEvents[e]) :
                j < i /\ evalEvents[e][j].actor # evalEvents[e][i].actor

\* Whatever the report service was sent, and whatever reports the trail
\* records, was signed off before: no save of a stale copy and no second
\* finalization takes a sign-off away under a report.
ReportsFollowSignOff ==
    /\ \A e \in evalReports : SignedOff(evalEvents[e])
    /\ \A e \in EvaluationIds : \A i \in DOMAIN evalEvents[e] :
          evalEvents[e][i].type = "REPORT_ARCHIVE" =>
              SignedOff(SubSeq(evalEvents[e], 1, i))

\* A key and the event recorded under it name each other, whatever commands use
\* the key at the same time.  Only a key of an evaluation that was blocked for
\* its legal entity moves on, and only to the repair of that evaluation: with
\* the repair itself, or when commands of the two overlap under one key.
EvalKeysNameTheirEvents ==
    /\ \A k \in EvalKeys : evalKeys[k] # None =>
          LET request == evalKeys[k].request
              trail == evalEvents[request.evaluation]
              id == evalKeys[k].event_id
          IN  /\ id \in DOMAIN trail
              /\ trail[id].key = k /\ trail[id].type = request.type
              /\ trail[id].actor = request.actor
    /\ \A e \in EvaluationIds : \A i \in DOMAIN evalEvents[e] :
          LET event == evalEvents[e][i]
              request == evalKeys[event.key].request
          IN  event.key # None =>
                  \/ request.evaluation = e /\ evalKeys[event.key].event_id = i
                  \/ e \in Blocked /\ request.evaluation = Repaired[e]

=============================================================================
