---------------------------- MODULE PolicyCatalog ----------------------------
(***************************************************************************)
(* The catalog of one policy pack (core/policy_packs/catalog.py over       *)
(* infrastructure/policy_packs/postgres_state.py): the activation state of *)
(* its versions, the audit events of each and the idempotency keys, worked *)
(* on by concurrent requests.                                              *)
(*                                                                         *)
(* Every command loads the three tables with three statements (READ        *)
(* COMMITTED: each sees what is committed when it starts), decides on the  *)
(* copy and writes it back.  The first upsert of every save locks the row  *)
(* of the first version, so savers queue there; the event count of that    *)
(* row is taken from the snapshot of the statement, before the wait.       *)
(*                                                                         *)
(* A content hash never changes here: a command that presents another one  *)
(* is refused and changes nothing, so requests carry none.  occurred_at is *)
(* kept as the worker that wrote the event, which tells two concurrent     *)
(* events apart.                                                           *)
(***************************************************************************)
EXTENDS SnapshotStore

CONSTANTS
    PolicyWorkers,
    MaxPolicyVersion,   \* the versions of the pack are 1 .. MaxPolicyVersion
    MakerCheckerVersions, \* those whose definition requires maker and checker
    Actors,
    PolicyKeys,         \* idempotency keys
    PolicyCommands,     \* the commands that are sent
    MaxPolicyCommands   \* bound on the commands that start

\* The versions, in the order of the upserts
PolicyVersions == 1 .. MaxPolicyVersion

\* The hash of a command; its reason is part of being the same request.
PolicyRequest ==
    [op : {"POLICY_PACK_VALIDATED", "POLICY_PACK_ACTIVATED"},
     version : PolicyVersions, actor : Actors]

\* A row of the idempotency table: the request and the event it recorded
PolicyKeyRow ==
    [request : PolicyRequest, version : PolicyVersions, event_id : Nat \ {0}]

ASSUME PolicyAssumption ==
    /\ MaxPolicyVersion \in Nat \ {0}
    /\ MaxPolicyCommands \in Nat
    /\ PolicyCommands \subseteq PolicyRequest
    /\ None \notin PolicyKeyRow

VARIABLES
    activationState,    \* policy_pack_catalog_versions: DRAFT, ACTIVE, SUPERSEDED
    policyEvents,       \* policy_pack_catalog_audit_events
    policyKeys,         \* policy_pack_catalog_idempotency
    policyJob,          \* what each worker is doing, and its copy of the tables
    policyQueue,        \* the savers that wait for the first row, in order
    policyCommands      \* how many commands have started

policyVars == <<activationState, policyEvents, policyKeys, policyJob,
                policyQueue, policyCommands>>

IdlePolicyJob ==
    [phase |-> "idle", request |-> None, key |-> None, state |-> None,
     events |-> None, keys |-> None, counted |-> 0]

\* Every version was validated by its maker before; some are active.
PolicyInit(makers, makerKeys, active) ==
    /\ activationState = [v \in PolicyVersions |->
                              IF v \in active THEN "ACTIVE" ELSE "DRAFT"]
    /\ policyEvents = [v \in PolicyVersions |->
           <<[request |-> [op |-> "POLICY_PACK_VALIDATED", version |-> v,
                           actor |-> makers[v]],
              key |-> makerKeys[v], at |-> None]>>]
    /\ policyKeys = [k \in PolicyKeys |->
           IF \E v \in PolicyVersions : makerKeys[v] = k
           THEN LET v == CHOOSE v \in PolicyVersions : makerKeys[v] = k
                IN  [request |-> policyEvents[v][1].request, version |-> v,
                     event_id |-> 1]
           ELSE None]
    /\ policyJob = [w \in PolicyWorkers |-> IdlePolicyJob]
    /\ policyQueue = <<>>
    /\ policyCommands = 0

-----------------------------------------------------------------------------
\* load_snapshot: three statements.

LoadDefinitions(w) ==
    /\ policyJob[w].phase = "idle"
    /\ policyCommands < MaxPolicyCommands
    /\ \E request \in PolicyCommands, key \in PolicyKeys :
          policyJob' = [policyJob EXCEPT ![w] =
              [IdlePolicyJob EXCEPT !.phase = "events", !.request = request,
                                    !.key = key, !.state = activationState]]
    /\ policyCommands' = policyCommands + 1
    /\ UNCHANGED <<activationState, policyEvents, policyKeys, policyQueue>>

LoadEvents(w) ==
    /\ policyJob[w].phase = "events"
    /\ policyJob' = [policyJob EXCEPT ![w].phase = "deciding",
                                      ![w].events = policyEvents]
    /\ UNCHANGED <<activationState, policyEvents, policyKeys, policyQueue,
                   policyCommands>>

-----------------------------------------------------------------------------
\* The third statement and the command on the copy.  The copy of the keys is
\* what is stored when the command decides.

\* from_snapshot finds the event of every key, or raises KeyError.
Loadable(job) ==
    \A k \in PolicyKeys :
        policyKeys[k] # None =>
            policyKeys[k].event_id \in DOMAIN job.events[policyKeys[k].version]

\* find_replayed_policy_pack_catalog_event
ReplaysPolicyEvent(job) ==
    policyKeys[job.key] # None /\ policyKeys[job.key].request = job.request

ActiveVersions(state) == {v \in PolicyVersions : state[v] = "ACTIVE"}

\* latest_policy_pack_validation_event
ValidatedBy(events) ==
    LET validations == {i \in DOMAIN events :
                           events[i].request.op = "POLICY_PACK_VALIDATED"}
    IN  IF validations = {} THEN None
        ELSE events[CHOOSE i \in validations :
                        \A j \in validations : j <= i].request.actor

\* The maker is any validator but the latest
ActivationCheckedByAnyone(job) == job.state[job.request.version] # "ACTIVE"

\* The validation that an activation of the version needs: any, or one by another
\* actor where the definition requires maker and checker
ValidationSuffices(version, maker, checker) ==
    /\ maker # None
    /\ version \in MakerCheckerVersions => maker # checker

\* _validated_activation_event: the version is not active yet, and its latest
\* validation suffices.
ActivationChecked(job) ==
    LET v == job.request.version
    IN  /\ job.state[v] # "ACTIVE"
        /\ ValidationSuffices(v, ValidatedBy(job.events[v]), job.request.actor)

\* append_policy_pack_catalog_event
WithPolicyEvent(job, w) ==
    LET v  == job.request.version
        id == Len(job.events[v]) + 1
    IN  [job EXCEPT
            !.phase = "saving",
            !.events[v] = Append(@, [request |-> job.request, key |-> job.key,
                                     at |-> w]),
            !.keys = [policyKeys EXCEPT ![job.key] =
                         [request |-> job.request, version |-> v,
                          event_id |-> id]]]

\* activate_policy_pack_version: the prior active version is superseded.
Superseding(job) ==
    [v \in PolicyVersions |->
        IF v = job.request.version THEN "ACTIVE"
        ELSE IF job.state[v] = "ACTIVE" THEN "SUPERSEDED" ELSE job.state[v]]

\* The prior version is superseded on a replay as well
SupersedingOnReplay(job) ==
    [v \in PolicyVersions |->
        IF v # job.request.version /\ job.state[v] = "ACTIVE"
        THEN "SUPERSEDED" ELSE job.state[v]]

\* A replay leaves the definitions alone.
ReplayedState(job) == job.state

\* A mapped key whose request differs, an unknown event, an activation that is
\* not allowed or more than one active version: the command raises.
Proceeds(job) ==
    /\ Loadable(job)
    /\ job.request.op = "POLICY_PACK_ACTIVATED" =>
           Cardinality(ActiveVersions(job.state)) <= 1
    /\ \/ ReplaysPolicyEvent(job)
       \/ /\ policyKeys[job.key] = None
          /\ job.request.op = "POLICY_PACK_ACTIVATED" => ActivationChecked(job)

\* A replay also saves the copy.
ReplayPolicyCommand(w) ==
    LET job == policyJob[w] IN
    /\ job.phase = "deciding" /\ Proceeds(job) /\ ReplaysPolicyEvent(job)
    /\ policyJob' = [policyJob EXCEPT ![w] =
           [job EXCEPT !.phase = "saving", !.keys = policyKeys,
                       !.state = ReplayedState(job)]]
    /\ UNCHANGED <<activationState, policyEvents, policyKeys, policyQueue,
                   policyCommands>>

ValidatePolicyPack(w) ==
    LET job == policyJob[w] IN
    /\ job.phase = "deciding" /\ Proceeds(job) /\ ~ReplaysPolicyEvent(job)
    /\ job.request.op = "POLICY_PACK_VALIDATED"
    /\ policyJob' = [policyJob EXCEPT ![w] = WithPolicyEvent(job, w)]
    /\ UNCHANGED <<activationState, policyEvents, policyKeys, policyQueue,
                   policyCommands>>

ActivatePolicyPack(w) ==
    LET job == policyJob[w] IN
    /\ job.phase = "deciding" /\ Proceeds(job) /\ ~ReplaysPolicyEvent(job)
    /\ job.request.op = "POLICY_PACK_ACTIVATED"
    /\ policyJob' = [policyJob EXCEPT ![w] =
           [WithPolicyEvent(job, w) EXCEPT !.state = Superseding(job)]]
    /\ UNCHANGED <<activationState, policyEvents, policyKeys, policyQueue,
                   policyCommands>>

RefusePolicyCommand(w) ==
    /\ policyJob[w].phase = "deciding" /\ ~Proceeds(policyJob[w])
    /\ policyJob' = [policyJob EXCEPT ![w] = IdlePolicyJob]
    /\ UNCHANGED <<activationState, policyEvents, policyKeys, policyQueue,
                   policyCommands>>

-----------------------------------------------------------------------------
\* save_snapshot

\* The first upsert starts: its count of events is taken here.
StartSave(w) ==
    /\ policyJob[w].phase = "saving"
    /\ policyJob' = [policyJob EXCEPT ![w].phase = "waiting",
                                      ![w].counted = Len(policyEvents[1])]
    /\ policyQueue' = Append(policyQueue, w)
    /\ UNCHANGED <<activationState, policyEvents, policyKeys, policyCommands>>

\* ux_policy_pack_catalog_one_active_version, checked after every upsert
OneActiveThroughout(job) ==
    \A v \in PolicyVersions :
        Cardinality({u \in 1 .. v : job.state[u] = "ACTIVE"}
                    \cup {u \in PolicyVersions : u > v /\ activationState[u] = "ACTIVE"})
            <= 1

Saveable(job) ==
    /\ \A v \in PolicyVersions :
          /\ RowAdmitted(IF v = 1 THEN job.counted ELSE Len(policyEvents[v]),
                         job.events[v])
          /\ EventsAdmitted(policyEvents[v], job.events[v])
    /\ OneActiveThroughout(job)
    /\ KeysAdmitted(policyKeys, job.keys)

CommitSave(w) ==
    LET job == policyJob[w] IN
    /\ job.phase = "waiting" /\ Head(policyQueue) = w
    /\ Saveable(job)
    /\ activationState' = job.state
    /\ policyEvents' = [v \in PolicyVersions |->
                            EventsAfter(policyEvents[v], job.events[v])]
    /\ policyKeys' = KeysAfter(policyKeys, job.keys)
    /\ policyJob' = [policyJob EXCEPT ![w] = IdlePolicyJob]
    /\ policyQueue' = Tail(policyQueue)
    /\ UNCHANGED policyCommands

RollBackSave(w) ==
    /\ policyJob[w].phase = "waiting" /\ Head(policyQueue) = w
    /\ ~Saveable(policyJob[w])
    /\ policyJob' = [policyJob EXCEPT ![w] = IdlePolicyJob]
    /\ policyQueue' = Tail(policyQueue)
    /\ UNCHANGED <<activationState, policyEvents, policyKeys, policyCommands>>

\* The worker dies, or its connection; an open transaction is rolled back.
PolicyWorkerDies(w) ==
    /\ policyJob[w].phase # "idle"
    /\ policyJob' = [policyJob EXCEPT ![w] = IdlePolicyJob]
    /\ policyQueue' = SelectSeq(policyQueue, LAMBDA x : x # w)
    /\ UNCHANGED <<activationState, policyEvents, policyKeys, policyCommands>>

PolicyNext ==
    \E w \in PolicyWorkers :
        \/ LoadDefinitions(w) \/ LoadEvents(w)
        \/ ReplayPolicyCommand(w) \/ ValidatePolicyPack(w)
        \/ ActivatePolicyPack(w) \/ RefusePolicyCommand(w)
        \/ StartSave(w) \/ CommitSave(w) \/ RollBackSave(w)
        \/ PolicyWorkerDies(w)

-----------------------------------------------------------------------------
\* Properties.

\* The audit events of a version are only ever appended to, whatever copies
\* overlapping commands write back.
PolicyAuditAppendOnly ==
    [][\A v \in PolicyVersions :
          /\ Len(policyEvents[v]) <= Len(policyEvents'[v])
          /\ \A i \in DOMAIN policyEvents[v] :
                policyEvents'[v][i] = policyEvents[v][i]]_policyVars

\* A key that is used by overlapping commands records one event, over all
\* versions, and keeps naming it.
PolicyKeyNamesOneEvent ==
    \A v \in PolicyVersions : \A i \in DOMAIN policyEvents[v] :
        LET event == policyEvents[v][i]
        IN  policyKeys[event.key] =
                [request |-> event.request, version |-> v, event_id |-> i]

\* Every recorded activation has a validation of that version before it, and the
\* last one before it in the stored trail is by another actor where maker and
\* checker are required, also when a further validation was committed while the
\* activation was being decided.
ActivationsAreChecked ==
    \A v \in PolicyVersions : \A i \in DOMAIN policyEvents[v] :
        LET event == policyEvents[v][i]
        IN  event.request.op = "POLICY_PACK_ACTIVATED" =>
                ValidationSuffices(v, ValidatedBy(SubSeq(policyEvents[v], 1, i - 1)),
                                   event.request.actor)

\* Once a version of the pack is active, exactly one is, through activations,
\* replays and saves of stale copies.
PackStaysActive ==
    [][ActiveVersions(activationState) # {} =>
          Cardinality(ActiveVersions(activationState')) = 1]_policyVars

=============================================================================
