-------------------------- MODULE PolicyPackProofs --------------------------
(***************************************************************************)
(* Theorems of PolicyCatalog and of PolicyEvaluations, for every set of    *)
(* workers, actors, keys and commands, and every number of versions,       *)
(* evaluations and commands.  Both work on copies of tables that are       *)
(* written back as a whole: an invariant says of each event of a copy that *)
(* it is stored or the one that the worker has added.                      *)
(***************************************************************************)
EXTENDS PolicyCatalog, PolicyEvaluations, TLAPS, FiniteSetTheorems

\* An event of a copy that is stored too
IsStored(trail, copy, i) == i \in DOMAIN trail /\ trail[i] = copy[i]

-----------------------------------------------------------------------------
\* The catalog of a policy pack.

ActivationStates == {"DRAFT", "ACTIVE", "SUPERSEDED"}

PolicyEvent ==
    [request : PolicyRequest, key : PolicyKeys, at : PolicyWorkers \cup {None}]

\* Event i of the trail of v is not an activation, or it is one that was checked.
CheckedAt(v, trail, i) ==
    trail[i].request.op = "POLICY_PACK_ACTIVATED" =>
        ValidationSuffices(v, ValidatedBy(SubSeq(trail, 1, i - 1)),
                           trail[i].request.actor)

\* The event that a worker has appended to its copy: the last one of the version
\* it works on, named by its key, and checked.
IsOwnPolicyEvent(job, v, i) ==
    LET copy == job.events[v] IN
    /\ v = job.request.version /\ i = Len(copy)
    /\ job.keys[job.key] = [request |-> job.request, version |-> v, event_id |-> i]
    /\ copy[i].request = job.request /\ copy[i].key = job.key
    /\ CheckedAt(v, copy, i)

\* What a worker holds, against the stored trails
PolicyJobOK(job, trails) ==
    /\ job.phase \in {"idle", "events", "deciding", "saving", "waiting"}
    /\ job.phase # "idle" =>
          /\ job.request \in PolicyRequest /\ job.key \in PolicyKeys
          /\ job.state \in [PolicyVersions -> ActivationStates]
    /\ job.phase \in {"deciding", "saving", "waiting"} =>
          job.events \in [PolicyVersions -> Seq(PolicyEvent)]
    /\ job.phase = "deciding" =>
          \A v \in PolicyVersions : \A i \in DOMAIN job.events[v] :
              IsStored(trails[v], job.events[v], i)
    /\ job.phase \in {"saving", "waiting"} =>
          /\ job.keys \in [PolicyKeys -> PolicyKeyRow \cup {None}]
          /\ \A v \in PolicyVersions : \A i \in DOMAIN job.events[v] :
                \/ IsStored(trails[v], job.events[v], i)
                \/ IsOwnPolicyEvent(job, v, i)

CatalogTablesOK ==
    /\ activationState \in [PolicyVersions -> ActivationStates]
    /\ policyEvents \in [PolicyVersions -> Seq(PolicyEvent)]
    /\ policyKeys \in [PolicyKeys -> PolicyKeyRow \cup {None}]

CatalogJobsOK ==
    /\ policyJob = [w \in PolicyWorkers |-> policyJob[w]]
    /\ \A w \in PolicyWorkers : PolicyJobOK(policyJob[w], policyEvents)

CatalogInv ==
    /\ CatalogTablesOK
    /\ PolicyKeyNamesOneEvent
    /\ ActivationsAreChecked
    /\ CatalogJobsOK

\* A trail that has kept its events
TrailKept(trail, trail2) ==
    /\ Len(trail) <= Len(trail2)
    /\ \A i \in DOMAIN trail : trail2[i] = trail[i]

-----------------------------------------------------------------------------
\* Lemmas on trails and copies.

\* The upserts keep every stored event, and the rest of the trail is the copy's.
LEMMA TrailAfterUpserts ==
    ASSUME NEW trail \in Seq(PolicyEvent), NEW copy \in Seq(PolicyEvent),
           EventsAdmitted(trail, copy)
    PROVE  LET trail2 == EventsAfter(trail, copy) IN
           /\ trail2 \in Seq(PolicyEvent)
           /\ TrailKept(trail, trail2) /\ TrailKept(copy, trail2)
           /\ DOMAIN trail2 = DOMAIN trail \cup DOMAIN copy
<1> DEFINE n == IF Len(copy) > Len(trail) THEN Len(copy) ELSE Len(trail)
           trail2 == EventsAfter(trail, copy)
<1>1. /\ DOMAIN trail = 1 .. Len(trail) /\ DOMAIN copy = 1 .. Len(copy)
      /\ Len(trail) \in Nat /\ Len(copy) \in Nat /\ n \in Nat
      /\ \A i \in 1 .. Len(trail) : trail[i] \in PolicyEvent
      /\ \A i \in 1 .. Len(copy) : copy[i] \in PolicyEvent
  OBVIOUS
<1>2. trail2 = [i \in 1 .. n |-> IF i <= Len(copy) THEN copy[i] ELSE trail[i]]
  <2>1. DOMAIN trail \cup DOMAIN copy = 1 .. n
    BY <1>1
  <2>2. \A i \in 1 .. n : i \in DOMAIN copy <=> i <= Len(copy)
    BY <1>1
  <2> QED
    BY <2>1, <2>2 DEF EventsAfter
<1>3. \A i \in 1 .. n :
          (IF i <= Len(copy) THEN copy[i] ELSE trail[i]) \in PolicyEvent
  BY <1>1
<1>4. trail2 \in [1 .. n -> PolicyEvent]
  BY <1>2, <1>3
<1>5. trail2 \in Seq(PolicyEvent) /\ Len(trail2) = n /\ DOMAIN trail2 = 1 .. n
  BY <1>1, <1>4
<1>6. \A i \in DOMAIN trail : trail2[i] = trail[i]
  BY <1>1, <1>2 DEF EventsAdmitted
<1>7. \A i \in DOMAIN copy : trail2[i] = copy[i]
  BY <1>1, <1>2
<1>8. DOMAIN trail2 = DOMAIN trail \cup DOMAIN copy
  BY <1>1, <1>5
<1>9. Len(trail) <= Len(trail2) /\ Len(copy) <= Len(trail2)
  BY <1>1, <1>5
<1> QED
  BY <1>5, <1>6, <1>7, <1>8, <1>9 DEF TrailKept

\* What was checked stays checked in a trail that kept its events.
LEMMA CheckedStays ==
    ASSUME NEW v, NEW trail \in Seq(PolicyEvent), NEW trail2 \in Seq(PolicyEvent),
           TrailKept(trail, trail2), NEW i \in DOMAIN trail, CheckedAt(v, trail, i)
    PROVE  CheckedAt(v, trail2, i)
<1>1. /\ DOMAIN trail = 1 .. Len(trail) /\ i \in Nat /\ i >= 1
      /\ Len(trail) \in Nat /\ Len(trail2) \in Nat /\ i <= Len(trail)
      /\ Len(trail) <= Len(trail2)
  BY DEF TrailKept
<1>2. SubSeq(trail, 1, i - 1) = [j \in 1 .. i - 1 |-> trail[j]]
  BY <1>1
<1>3. SubSeq(trail2, 1, i - 1) = [j \in 1 .. i - 1 |-> trail2[j]]
  BY <1>1
<1>4. \A j \in 1 .. i - 1 : trail2[j] = trail[j]
  BY <1>1 DEF TrailKept
<1>5. SubSeq(trail2, 1, i - 1) = SubSeq(trail, 1, i - 1)
  BY <1>2, <1>3, <1>4
<1>6. trail2[i] = trail[i]
  BY DEF TrailKept
<1> QED
  BY <1>5, <1>6 DEF CheckedAt

\* A trail with one more event
LEMMA PolicyTrailAppended ==
    ASSUME NEW trail \in Seq(PolicyEvent), NEW event \in PolicyEvent,
           NEW trail2, trail2 = Append(trail, event)
    PROVE  /\ trail2 \in Seq(PolicyEvent) /\ Len(trail2) = Len(trail) + 1
           /\ DOMAIN trail2 = DOMAIN trail \cup {Len(trail) + 1}
           /\ trail2[Len(trail) + 1] = event
           /\ \A i \in DOMAIN trail : trail2[i] = trail[i]
           /\ SubSeq(trail2, 1, (Len(trail) + 1) - 1) = trail
<1>1. /\ trail2 \in Seq(PolicyEvent) /\ Len(trail2) = Len(trail) + 1
      /\ trail2[Len(trail) + 1] = event
      /\ \A i \in DOMAIN trail : trail2[i] = trail[i]
      /\ Len(trail) \in Nat /\ (Len(trail) + 1) - 1 = Len(trail)
      /\ DOMAIN trail = 1 .. Len(trail) /\ DOMAIN trail2 = 1 .. Len(trail2)
  OBVIOUS
<1>2. DOMAIN trail2 = DOMAIN trail \cup {Len(trail) + 1}
  BY <1>1
<1>3. SubSeq(trail2, 1, Len(trail)) = [i \in 1 .. Len(trail) |-> trail2[i]]
  BY <1>1
<1>4. trail = [i \in 1 .. Len(trail) |-> trail[i]]
  OBVIOUS
<1> QED
  BY <1>1, <1>2, <1>3, <1>4

\* A job is right when the trails have grown under it.
LEMMA PolicyJobStays ==
    ASSUME NEW job,
           NEW trails \in [PolicyVersions -> Seq(PolicyEvent)],
           NEW trails2 \in [PolicyVersions -> Seq(PolicyEvent)],
           \A v \in PolicyVersions : TrailKept(trails[v], trails2[v]),
           PolicyJobOK(job, trails)
    PROVE  PolicyJobOK(job, trails2)
<1>1. ASSUME NEW v \in PolicyVersions, NEW i, IsStored(trails[v], job.events[v], i)
      PROVE  IsStored(trails2[v], job.events[v], i)
  <2>1. /\ trails[v] \in Seq(PolicyEvent) /\ trails2[v] \in Seq(PolicyEvent)
        /\ TrailKept(trails[v], trails2[v])
    OBVIOUS
  <2>2. i \in DOMAIN trails2[v]
    BY <1>1, <2>1 DEF IsStored, TrailKept
  <2> QED
    BY <1>1, <2>1, <2>2 DEF IsStored, TrailKept
<1> QED
  BY <1>1 DEF PolicyJobOK

-----------------------------------------------------------------------------
\* Every step keeps the invariant.

\* The part of the invariant about the tables
CatalogTables == <<activationState, policyEvents, policyKeys>>

\* A step that leaves the tables alone keeps it when the worker that moves holds
\* what it should afterwards.
LEMMA CatalogJobStep ==
    ASSUME CatalogInv, UNCHANGED CatalogTables, NEW w \in PolicyWorkers, NEW job2,
           policyJob' = [policyJob EXCEPT ![w] = job2],
           PolicyJobOK(job2, policyEvents)
    PROVE  CatalogInv'
<1>1. CatalogTablesOK' /\ PolicyKeyNamesOneEvent' /\ ActivationsAreChecked'
  BY DEF CatalogInv, CatalogTables, CatalogTablesOK, PolicyKeyNamesOneEvent,
         ActivationsAreChecked
<1>2. policyJob' = [u \in PolicyWorkers |-> policyJob'[u]]
  BY DEF CatalogInv, CatalogJobsOK
<1>3. \A u \in PolicyWorkers : policyJob'[u] = IF u = w THEN job2 ELSE policyJob[u]
  BY DEF CatalogInv, CatalogJobsOK
<1>4. \A u \in PolicyWorkers : PolicyJobOK(policyJob'[u], policyEvents)
  BY <1>3 DEF CatalogInv, CatalogJobsOK
<1>5. policyEvents' = policyEvents
  BY DEF CatalogTables
<1> QED
  BY <1>1, <1>2, <1>4, <1>5 DEF CatalogInv, CatalogJobsOK

LEMMA IdlePolicyJobOK ==
    ASSUME NEW trails
    PROVE  PolicyJobOK(IdlePolicyJob, trails)
BY DEF PolicyJobOK, IdlePolicyJob

\* A worker that is refused, rolled back or dies leaves nothing behind.
LEMMA PolicyJobEnds ==
    ASSUME CatalogInv, NEW w \in PolicyWorkers,
           RefusePolicyCommand(w) \/ RollBackSave(w) \/ PolicyWorkerDies(w)
    PROVE  CatalogInv'
<1>1. /\ UNCHANGED CatalogTables
      /\ policyJob' = [policyJob EXCEPT ![w] = IdlePolicyJob]
  BY DEF RefusePolicyCommand, RollBackSave, PolicyWorkerDies, CatalogTables
<1> QED
  BY <1>1, IdlePolicyJobOK, CatalogJobStep

LEMMA LoadDefinitionsOK ==
    ASSUME CatalogInv, NEW w \in PolicyWorkers, LoadDefinitions(w)
    PROVE  CatalogInv'
<1>1. PICK request \in PolicyCommands, key \in PolicyKeys :
          policyJob' = [policyJob EXCEPT ![w] =
              [IdlePolicyJob EXCEPT !.phase = "events", !.request = request,
                                    !.key = key, !.state = activationState]]
  BY DEF LoadDefinitions
<1> DEFINE job2 == [IdlePolicyJob EXCEPT !.phase = "events", !.request = request,
                                         !.key = key, !.state = activationState]
<1>2. /\ job2.phase = "events" /\ job2.request = request /\ job2.key = key
      /\ job2.state = activationState
  BY DEF IdlePolicyJob
<1>3. request \in PolicyRequest
  BY PolicyAssumption DEF PolicyAssumption
<1> HIDE DEF job2
<1>4. PolicyJobOK(job2, policyEvents)
  BY <1>2, <1>3 DEF PolicyJobOK, CatalogInv, CatalogTablesOK
<1>5. UNCHANGED CatalogTables
  BY DEF LoadDefinitions, CatalogTables
<1>6. policyJob' = [policyJob EXCEPT ![w] = job2]
  BY <1>1 DEF job2
<1> QED
  BY <1>4, <1>5, <1>6, CatalogJobStep

LEMMA LoadEventsOK ==
    ASSUME CatalogInv, NEW w \in PolicyWorkers, LoadEvents(w)
    PROVE  CatalogInv'
<1> DEFINE job == policyJob[w]
           job2 == [job EXCEPT !.phase = "deciding", !.events = policyEvents]
<1>1. /\ job.phase = "events" /\ PolicyJobOK(job, policyEvents)
      /\ UNCHANGED CatalogTables
  BY DEF LoadEvents, CatalogInv, CatalogJobsOK, CatalogTables
<1>2. policyJob' = [policyJob EXCEPT ![w] = job2]
  BY DEF LoadEvents, CatalogInv, CatalogJobsOK
<1>3. /\ job2.phase = "deciding" /\ job2.request = job.request
      /\ job2.key = job.key /\ job2.state = job.state /\ job2.events = policyEvents
  OBVIOUS
<1> HIDE DEF job2
<1>4. PolicyJobOK(job2, policyEvents)
  BY <1>1, <1>3 DEF PolicyJobOK, CatalogInv, CatalogTablesOK, IsStored
<1> QED
  BY <1>1, <1>2, <1>4, CatalogJobStep

LEMMA ReplayPolicyCommandOK ==
    ASSUME CatalogInv, NEW w \in PolicyWorkers, ReplayPolicyCommand(w)
    PROVE  CatalogInv'
<1> DEFINE job == policyJob[w]
           job2 == [job EXCEPT !.phase = "saving", !.keys = policyKeys,
                               !.state = ReplayedState(job)]
<1>1. /\ job.phase = "deciding" /\ PolicyJobOK(job, policyEvents)
      /\ UNCHANGED CatalogTables /\ policyJob' = [policyJob EXCEPT ![w] = job2]
  BY DEF ReplayPolicyCommand, CatalogInv, CatalogJobsOK, CatalogTables
<1>2. /\ job2.phase = "saving" /\ job2.request = job.request
      /\ job2.key = job.key /\ job2.events = job.events
  OBVIOUS
<1>3. job2.state \in [PolicyVersions -> ActivationStates]
  BY <1>1 DEF ReplayedState, PolicyJobOK
<1>4. job2.keys \in [PolicyKeys -> PolicyKeyRow \cup {None}]
  BY DEF CatalogInv, CatalogTablesOK
<1> HIDE DEF job2
<1>5. PolicyJobOK(job2, policyEvents)
  BY <1>1, <1>2, <1>3, <1>4 DEF PolicyJobOK
<1> QED
  BY <1>1, <1>5, CatalogJobStep

LEMMA StartSaveOK ==
    ASSUME CatalogInv, NEW w \in PolicyWorkers, StartSave(w)
    PROVE  CatalogInv'
<1> DEFINE job == policyJob[w]
           job2 == [job EXCEPT !.phase = "waiting", !.counted = Len(policyEvents[1])]
<1>1. /\ job.phase = "saving" /\ PolicyJobOK(job, policyEvents)
      /\ UNCHANGED CatalogTables
  BY DEF StartSave, CatalogInv, CatalogJobsOK, CatalogTables
<1>2. policyJob' = [policyJob EXCEPT ![w] = job2]
  BY DEF StartSave, CatalogInv, CatalogJobsOK
<1>3. /\ job2.phase = "waiting" /\ job2.request = job.request
      /\ job2.key = job.key /\ job2.events = job.events
      /\ job2.state = job.state /\ job2.keys = job.keys
  OBVIOUS
<1> HIDE DEF job2
<1>4. PolicyJobOK(job2, policyEvents)
  BY <1>1, <1>3 DEF PolicyJobOK, IsOwnPolicyEvent
<1> QED
  BY <1>1, <1>2, <1>4, CatalogJobStep

\* What append_policy_pack_catalog_event does to the job of a worker
EventAddedTo(job, job2, v, event, row) ==
    /\ job2.phase = "saving" /\ job2.request = job.request /\ job2.key = job.key
    /\ job2.state \in [PolicyVersions -> ActivationStates]
    /\ job2.events = [job.events EXCEPT ![v] = Append(job.events[v], event)]
    /\ job2.keys = [policyKeys EXCEPT ![job.key] = row]

\* The event that it adds is the worker's own, also in the sense that it was
\* checked.
LEMMA OwnPolicyEventAdded ==
    ASSUME CatalogTablesOK, NEW job, NEW job2, NEW v, NEW event, NEW row, NEW id,
           PolicyJobOK(job, policyEvents), job.phase = "deciding",
           v = job.request.version, id = Len(job.events[v]) + 1,
           event \in PolicyEvent,
           event.request = job.request, event.key = job.key,
           row = [request |-> job.request, version |-> v, event_id |-> id],
           job.request.op = "POLICY_PACK_ACTIVATED" => ActivationChecked(job),
           EventAddedTo(job, job2, v, event, row)
    PROVE  PolicyJobOK(job2, policyEvents)
<1>1. /\ job.request \in PolicyRequest /\ job.key \in PolicyKeys
      /\ job.events \in [PolicyVersions -> Seq(PolicyEvent)]
      /\ \A u \in PolicyVersions : \A i \in DOMAIN job.events[u] :
            IsStored(policyEvents[u], job.events[u], i)
  BY DEF PolicyJobOK
<1>2. v \in PolicyVersions /\ job.events[v] \in Seq(PolicyEvent)
  BY <1>1 DEF PolicyRequest
<1>3. id \in Nat \ {0} /\ row \in PolicyKeyRow
  BY <1>1, <1>2 DEF PolicyKeyRow
<1>4. /\ job2.keys \in [PolicyKeys -> PolicyKeyRow \cup {None}]
      /\ job2.keys[job.key] = row
  BY <1>1, <1>3 DEF EventAddedTo, CatalogTablesOK
<1>5. Append(job.events[v], event) \in Seq(PolicyEvent)
  BY <1>2
<1>6. /\ job2.events \in [PolicyVersions -> Seq(PolicyEvent)]
      /\ job2.events[v] = Append(job.events[v], event)
      /\ \A u \in PolicyVersions : u # v => job2.events[u] = job.events[u]
  <2>1. job2.events = [job.events EXCEPT ![v] = Append(job.events[v], event)]
    BY DEF EventAddedTo
  <2> QED
    BY ONLY <1>1, <1>2, <1>5, <2>1
<1>7. /\ Len(job2.events[v]) = id /\ job2.events[v][id] = event
      /\ \A i \in DOMAIN job.events[v] : job2.events[v][i] = job.events[v][i]
      /\ DOMAIN job2.events[v] = DOMAIN job.events[v] \cup {id}
      /\ SubSeq(job2.events[v], 1, id - 1) = job.events[v]
  <2>1. PICK trail \in Seq(PolicyEvent) : trail = job.events[v]
    BY <1>2
  <2>2. PICK trail2 : trail2 = job2.events[v]
    OBVIOUS
  <2>3. trail2 = Append(trail, event)
    BY <1>6, <2>1, <2>2
  <2>4. /\ Len(trail2) = Len(trail) + 1
        /\ DOMAIN trail2 = DOMAIN trail \cup {Len(trail) + 1}
        /\ trail2[Len(trail) + 1] = event
        /\ \A i \in DOMAIN trail : trail2[i] = trail[i]
        /\ SubSeq(trail2, 1, (Len(trail) + 1) - 1) = trail
    BY <2>3, PolicyTrailAppended
  <2> QED
    BY <2>1, <2>2, <2>4
<1>8. CheckedAt(v, job2.events[v], id)
  BY <1>7 DEF CheckedAt, ActivationChecked
<1>9. IsOwnPolicyEvent(job2, v, id)
  BY <1>4, <1>7, <1>8 DEF IsOwnPolicyEvent, EventAddedTo
<1>10. ASSUME NEW u \in PolicyVersions, NEW i \in DOMAIN job2.events[u]
       PROVE  IsStored(policyEvents[u], job2.events[u], i) \/ IsOwnPolicyEvent(job2, u, i)
  <2>1. CASE u # v
    BY <1>1, <1>6, <2>1
  <2>2. CASE u = v /\ i \in DOMAIN job.events[v]
    <3>1. IsStored(policyEvents[v], job.events[v], i)
      BY <1>1, <2>2
    <3> QED
      BY <1>7, <2>2, <3>1 DEF IsStored
  <2>3. CASE u = v /\ i = id
    BY <1>9, <2>3
  <2>4. CASE u = v
    <3>1. i \in DOMAIN job.events[v] \cup {id}
      BY ONLY <1>7, <2>4, i \in DOMAIN job2.events[u]
    <3> QED
      BY ONLY <2>2, <2>3, <2>4, <3>1
  <2> QED
    BY ONLY <2>1, <2>4
<1>11. /\ job2.phase = "saving" /\ job2.request \in PolicyRequest
       /\ job2.key \in PolicyKeys
       /\ job2.state \in [PolicyVersions -> ActivationStates]
  BY <1>1 DEF EventAddedTo
<1>12. job2.phase # "deciding" /\ job2.phase \in {"saving", "waiting"}
  BY <1>11
<1>13. \A u \in PolicyVersions : \A i \in DOMAIN job2.events[u] :
          IsStored(policyEvents[u], job2.events[u], i) \/ IsOwnPolicyEvent(job2, u, i)
  BY <1>10
<1>14. /\ job2.keys \in [PolicyKeys -> PolicyKeyRow \cup {None}]
       /\ job2.events \in [PolicyVersions -> Seq(PolicyEvent)]
  BY <1>4, <1>6
<1> QED
  BY ONLY <1>11, <1>12, <1>13, <1>14 DEF PolicyJobOK

LEMMA ValidatePolicyPackOK ==
    ASSUME CatalogInv, NEW w \in PolicyWorkers, ValidatePolicyPack(w)
    PROVE  CatalogInv'
<1> DEFINE job == policyJob[w]
           v == job.request.version
           event == [request |-> job.request, key |-> job.key, at |-> w]
           row == [request |-> job.request, version |-> v,
                   event_id |-> Len(job.events[v]) + 1]
           job2 == WithPolicyEvent(job, w)
<1>1. /\ job.phase = "deciding" /\ job.request.op = "POLICY_PACK_VALIDATED"
      /\ UNCHANGED CatalogTables /\ policyJob' = [policyJob EXCEPT ![w] = job2]
  BY DEF ValidatePolicyPack, CatalogTables
<1>2. CatalogTablesOK /\ PolicyJobOK(job, policyEvents)
  BY DEF CatalogInv, CatalogJobsOK
<1>3. event \in PolicyEvent
  BY <1>1, <1>2 DEF PolicyJobOK, PolicyEvent
<1>4. EventAddedTo(job, job2, v, event, row)
  BY <1>1, <1>2 DEF WithPolicyEvent, EventAddedTo, PolicyJobOK
<1> HIDE DEF job2
<1>5. PolicyJobOK(job2, policyEvents)
  BY <1>1, <1>2, <1>3, <1>4, OwnPolicyEventAdded
<1> QED
  BY <1>1, <1>5, CatalogJobStep

LEMMA ActivatePolicyPackOK ==
    ASSUME CatalogInv, NEW w \in PolicyWorkers, ActivatePolicyPack(w)
    PROVE  CatalogInv'
<1> DEFINE job == policyJob[w]
           v == job.request.version
           event == [request |-> job.request, key |-> job.key, at |-> w]
           row == [request |-> job.request, version |-> v,
                   event_id |-> Len(job.events[v]) + 1]
           job2 == [WithPolicyEvent(job, w) EXCEPT !.state = Superseding(job)]
<1>1. /\ job.phase = "deciding" /\ ActivationChecked(job)
      /\ UNCHANGED CatalogTables /\ policyJob' = [policyJob EXCEPT ![w] = job2]
  BY DEF ActivatePolicyPack, CatalogTables, Proceeds
<1>2. CatalogTablesOK /\ PolicyJobOK(job, policyEvents)
  BY DEF CatalogInv, CatalogJobsOK
<1>3. event \in PolicyEvent
  BY <1>1, <1>2 DEF PolicyJobOK, PolicyEvent
<1>4. Superseding(job) \in [PolicyVersions -> ActivationStates]
  BY <1>1, <1>2 DEF Superseding, ActivationStates, PolicyJobOK
<1>5. EventAddedTo(job, job2, v, event, row)
  BY <1>4 DEF WithPolicyEvent, EventAddedTo
<1> HIDE DEF job2
<1>6. PolicyJobOK(job2, policyEvents)
  BY <1>1, <1>2, <1>3, <1>5, OwnPolicyEventAdded
<1> QED
  BY <1>1, <1>6, CatalogJobStep

\* A save that is committed keeps every stored event and every key.
LEMMA CommitKeeps ==
    ASSUME CatalogInv, NEW w \in PolicyWorkers, CommitSave(w)
    PROVE  /\ CatalogTablesOK'
           /\ \A v \in PolicyVersions :
                 /\ TrailKept(policyEvents[v], policyEvents'[v])
                 /\ TrailKept(policyJob[w].events[v], policyEvents'[v])
                 /\ DOMAIN policyEvents'[v] =
                        DOMAIN policyEvents[v] \cup DOMAIN policyJob[w].events[v]
           /\ \A k \in PolicyKeys :
                 /\ policyKeys[k] # None => policyKeys'[k] = policyKeys[k]
                 /\ policyJob[w].keys[k] # None => policyKeys'[k] = policyJob[w].keys[k]
<1> DEFINE job == policyJob[w]
<1>1. /\ Saveable(job) /\ job.phase = "waiting"
      /\ activationState' = job.state
      /\ policyEvents' = [v \in PolicyVersions |->
                             EventsAfter(policyEvents[v], job.events[v])]
      /\ policyKeys' = KeysAfter(policyKeys, job.keys)
  BY DEF CommitSave
<1>2. /\ job.state \in [PolicyVersions -> ActivationStates]
      /\ job.events \in [PolicyVersions -> Seq(PolicyEvent)]
      /\ job.keys \in [PolicyKeys -> PolicyKeyRow \cup {None}]
  BY <1>1 DEF CatalogInv, CatalogJobsOK, PolicyJobOK
<1>3. CatalogTablesOK
  BY DEF CatalogInv
<1>4. ASSUME NEW v \in PolicyVersions
      PROVE  /\ policyEvents'[v] \in Seq(PolicyEvent)
             /\ TrailKept(policyEvents[v], policyEvents'[v])
             /\ TrailKept(job.events[v], policyEvents'[v])
             /\ DOMAIN policyEvents'[v] = DOMAIN policyEvents[v] \cup DOMAIN job.events[v]
  <2>1. /\ policyEvents[v] \in Seq(PolicyEvent) /\ job.events[v] \in Seq(PolicyEvent)
        /\ EventsAdmitted(policyEvents[v], job.events[v])
        /\ policyEvents'[v] = EventsAfter(policyEvents[v], job.events[v])
    BY <1>1, <1>2, <1>3 DEF Saveable, CatalogTablesOK
  <2> QED
    BY <2>1, TrailAfterUpserts
<1>5. policyEvents' \in [PolicyVersions -> Seq(PolicyEvent)]
  BY <1>1, <1>4
<1>6. KeysAdmitted(policyKeys, job.keys)
  BY <1>1 DEF Saveable
<1>7. /\ policyKeys' = [k \in PolicyKeys |->
                           IF job.keys[k] = None THEN policyKeys[k] ELSE job.keys[k]]
      /\ \A k \in PolicyKeys :
            job.keys[k] # None => policyKeys[k] \in {None, job.keys[k]}
  BY <1>1, <1>3, <1>6 DEF KeysAfter, KeysAdmitted, CatalogTablesOK
<1>8. policyKeys' \in [PolicyKeys -> PolicyKeyRow \cup {None}]
  BY <1>2, <1>3, <1>7 DEF CatalogTablesOK
<1> QED
  BY <1>1, <1>2, <1>4, <1>5, <1>7, <1>8 DEF CatalogTablesOK

LEMMA CommitSaveOK ==
    ASSUME CatalogInv, NEW w \in PolicyWorkers, CommitSave(w)
    PROVE  CatalogInv'
<1> DEFINE job == policyJob[w]
<1>1. /\ CatalogTablesOK /\ CatalogTablesOK' /\ PolicyJobOK(job, policyEvents)
      /\ job.phase = "waiting"
  BY CommitKeeps DEF CatalogInv, CatalogJobsOK, CommitSave
<1>2. \A v \in PolicyVersions :
          /\ policyEvents[v] \in Seq(PolicyEvent) /\ policyEvents'[v] \in Seq(PolicyEvent)
          /\ job.events[v] \in Seq(PolicyEvent)
          /\ TrailKept(policyEvents[v], policyEvents'[v])
          /\ TrailKept(job.events[v], policyEvents'[v])
  BY <1>1, CommitKeeps DEF CatalogTablesOK, PolicyJobOK
<1>3. ASSUME NEW v \in PolicyVersions, NEW i \in DOMAIN policyEvents'[v]
      PROVE  \/ i \in DOMAIN policyEvents[v]
                /\ policyEvents'[v][i] = policyEvents[v][i]
             \/ /\ i \in DOMAIN job.events[v] /\ IsOwnPolicyEvent(job, v, i)
                /\ policyEvents'[v][i] = job.events[v][i]
  <2>1. \/ i \in DOMAIN policyEvents[v]
        \/ /\ i \in DOMAIN job.events[v]
           /\ IsStored(policyEvents[v], job.events[v], i) \/ IsOwnPolicyEvent(job, v, i)
    BY <1>1, CommitKeeps DEF PolicyJobOK
  <2> QED
    BY <1>2, <2>1 DEF TrailKept, IsStored
<1>4. ASSUME NEW v \in PolicyVersions, NEW i \in DOMAIN policyEvents'[v]
      PROVE  policyKeys'[policyEvents'[v][i].key] =
                 [request |-> policyEvents'[v][i].request, version |-> v,
                  event_id |-> i]
  <2> DEFINE event == policyEvents'[v][i]
             row == [request |-> event.request, version |-> v, event_id |-> i]
  <2>1. /\ event \in PolicyEvent /\ event.key \in PolicyKeys
        /\ row \in PolicyKeyRow
    <3>1. event \in PolicyEvent /\ i \in Nat \ {0}
      BY <1>2
    <3> QED
      BY <3>1 DEF PolicyEvent, PolicyKeyRow
  <2>2. row # None
    BY <2>1, PolicyAssumption DEF PolicyAssumption
  <2>3. CASE i \in DOMAIN policyEvents[v] /\ event = policyEvents[v][i]
    <3>1. policyKeys[event.key] = row
      BY <2>3 DEF CatalogInv, PolicyKeyNamesOneEvent
    <3> QED
      BY <2>1, <2>2, <3>1, CommitKeeps
  <2>4. CASE IsOwnPolicyEvent(job, v, i) /\ event = job.events[v][i]
    <3>1. job.keys[event.key] = row
      BY <2>4 DEF IsOwnPolicyEvent
    <3> QED
      BY <2>1, <2>2, <3>1, CommitKeeps
  <2> QED
    BY <1>3, <2>3, <2>4
<1>5. ASSUME NEW v \in PolicyVersions, NEW i \in DOMAIN policyEvents'[v]
      PROVE  CheckedAt(v, policyEvents'[v], i)
  <2>1. CASE i \in DOMAIN policyEvents[v]
    <3>1. CheckedAt(v, policyEvents[v], i)
      BY <2>1 DEF CatalogInv, ActivationsAreChecked, CheckedAt
    <3> QED
      BY <1>2, <2>1, <3>1, CheckedStays
  <2>2. CASE i \in DOMAIN job.events[v] /\ IsOwnPolicyEvent(job, v, i)
    <3>1. CheckedAt(v, job.events[v], i)
      BY <2>2 DEF IsOwnPolicyEvent
    <3> QED
      BY <1>2, <2>2, <3>1, CheckedStays
  <2> QED
    BY <1>3, <2>1, <2>2
<1>6. policyJob' = [u \in PolicyWorkers |-> policyJob'[u]]
  BY DEF CommitSave, CatalogInv, CatalogJobsOK
<1>7. ASSUME NEW u \in PolicyWorkers
      PROVE  PolicyJobOK(policyJob'[u], policyEvents')
  <2>1. CASE u = w
    BY <2>1, IdlePolicyJobOK DEF CommitSave, CatalogInv, CatalogJobsOK
  <2>2. CASE u # w
    <3>1. policyJob'[u] = policyJob[u] /\ PolicyJobOK(policyJob[u], policyEvents)
      BY <2>2 DEF CommitSave, CatalogInv, CatalogJobsOK
    <3>2. /\ policyEvents \in [PolicyVersions -> Seq(PolicyEvent)]
          /\ policyEvents' \in [PolicyVersions -> Seq(PolicyEvent)]
      BY <1>1 DEF CatalogTablesOK
    <3> QED
      BY <1>2, <3>1, <3>2, PolicyJobStays
  <2> QED
    BY <2>1, <2>2
<1> QED
  BY <1>1, <1>4, <1>5, <1>6, <1>7
     DEF CatalogInv, CatalogJobsOK, PolicyKeyNamesOneEvent, ActivationsAreChecked,
         CheckedAt

\* In the initial state each version has the validation by its maker, under a
\* key of its own.
LEMMA PolicyInitOK ==
    ASSUME NEW makers \in [PolicyVersions -> Actors],
           NEW makerKeys \in [PolicyVersions -> PolicyKeys],
           \A u, v \in PolicyVersions : makerKeys[u] = makerKeys[v] => u = v,
           NEW active, PolicyInit(makers, makerKeys, active)
    PROVE  CatalogInv
<1> DEFINE first(v) ==
               [request |-> [op |-> "POLICY_PACK_VALIDATED", version |-> v,
                             actor |-> makers[v]],
                key |-> makerKeys[v], at |-> None]
           row(v) == [request |-> first(v).request, version |-> v, event_id |-> 1]
<1>1. \A v \in PolicyVersions :
          /\ first(v) \in PolicyEvent /\ row(v) \in PolicyKeyRow
          /\ first(v).key = makerKeys[v]
          /\ first(v).request.op = "POLICY_PACK_VALIDATED"
          /\ row(v) = [request |-> first(v).request, version |-> v, event_id |-> 1]
  BY DEF PolicyEvent, PolicyRequest, PolicyKeyRow
<1>2. policyEvents = [v \in PolicyVersions |-> <<first(v)>>]
  BY DEF PolicyInit
<1>3. ASSUME NEW v \in PolicyVersions
      PROVE  /\ policyEvents[v] \in Seq(PolicyEvent)
             /\ DOMAIN policyEvents[v] = {1} /\ policyEvents[v][1] = first(v)
  <2>1. PICK event \in PolicyEvent : event = first(v)
    BY <1>1
  <2>2. policyEvents[v] = <<event>>
    BY <1>2, <2>1
  <2> QED
    BY <2>1, <2>2
<1>4. \A k \in PolicyKeys :
          policyKeys[k] = IF \E v \in PolicyVersions : makerKeys[v] = k
                          THEN row(CHOOSE v \in PolicyVersions : makerKeys[v] = k)
                          ELSE None
  BY <1>3 DEF PolicyInit
<1>5. \A v \in PolicyVersions :
          (CHOOSE u \in PolicyVersions : makerKeys[u] = makerKeys[v]) = v
  OBVIOUS
<1> HIDE DEF first, row
<1>6. policyKeys \in [PolicyKeys -> PolicyKeyRow \cup {None}]
  <2>1. policyKeys = [k \in PolicyKeys |-> policyKeys[k]]
    BY DEF PolicyInit
  <2>2. \A k \in PolicyKeys : policyKeys[k] \in PolicyKeyRow \cup {None}
    <3>1. ASSUME NEW k \in PolicyKeys, \E v \in PolicyVersions : makerKeys[v] = k
          PROVE  (CHOOSE v \in PolicyVersions : makerKeys[v] = k) \in PolicyVersions
      BY <3>1
    <3>2. ASSUME NEW k \in PolicyKeys
          PROVE  policyKeys[k] \in PolicyKeyRow \cup {None}
      BY <1>1, <1>4, <3>1
    <3> QED
      BY <3>2
  <2> QED
    BY <2>1, <2>2
<1>7. CatalogTablesOK
  <2>1. activationState \in [PolicyVersions -> ActivationStates]
    BY DEF PolicyInit, ActivationStates
  <2>2. policyEvents \in [PolicyVersions -> Seq(PolicyEvent)]
    BY <1>2, <1>3
  <2> QED
    BY <1>6, <2>1, <2>2 DEF CatalogTablesOK
<1>8. PolicyKeyNamesOneEvent
  <2>1. ASSUME NEW v \in PolicyVersions
        PROVE  policyKeys[makerKeys[v]] = row(v)
    BY <1>4, <1>5
  <2>2. ASSUME NEW v \in PolicyVersions, NEW i \in DOMAIN policyEvents[v]
        PROVE  /\ i = 1 /\ policyEvents[v][i].key = makerKeys[v]
               /\ policyEvents[v][i].request = first(v).request
    BY <1>1, <1>3
  <2> QED
    BY <1>1, <2>1, <2>2 DEF PolicyKeyNamesOneEvent
<1>9. ActivationsAreChecked
  <2>1. ASSUME NEW v \in PolicyVersions, NEW i \in DOMAIN policyEvents[v]
        PROVE  policyEvents[v][i].request.op = "POLICY_PACK_VALIDATED"
    BY <1>1, <1>3
  <2> QED
    BY <2>1 DEF ActivationsAreChecked
<1>10. CatalogJobsOK
  BY IdlePolicyJobOK DEF PolicyInit, CatalogJobsOK
<1> QED
  BY <1>7, <1>8, <1>9, <1>10 DEF CatalogInv

LEMMA PolicyNextOK ==
    ASSUME CatalogInv, [PolicyNext]_policyVars
    PROVE  CatalogInv'
<1>1. CASE UNCHANGED policyVars
  BY <1>1 DEF policyVars, CatalogInv, CatalogTablesOK, PolicyKeyNamesOneEvent,
              ActivationsAreChecked, CatalogJobsOK
<1>2. CASE PolicyNext
  BY <1>2, LoadDefinitionsOK, LoadEventsOK, ReplayPolicyCommandOK,
     ValidatePolicyPackOK, ActivatePolicyPackOK, StartSaveOK, CommitSaveOK,
     PolicyJobEnds DEF PolicyNext
<1> QED
  BY <1>1, <1>2

\* The trails change with a commit only.
LEMMA TrailsKept ==
    ASSUME CatalogInv, [PolicyNext]_policyVars, NEW v \in PolicyVersions
    PROVE  TrailKept(policyEvents[v], policyEvents'[v])
<1>1. CASE \E w \in PolicyWorkers : CommitSave(w)
  BY <1>1, CommitKeeps
<1>2. CASE UNCHANGED policyEvents
  <2>1. policyEvents[v] \in Seq(PolicyEvent)
    BY DEF CatalogInv, CatalogTablesOK
  <2> QED
    BY <1>2, <2>1 DEF TrailKept
<1> QED
  BY <1>1, <1>2
     DEF PolicyNext, policyVars, LoadDefinitions, LoadEvents, ReplayPolicyCommand,
         ValidatePolicyPack, ActivatePolicyPack, RefusePolicyCommand, StartSave,
         RollBackSave, PolicyWorkerDies

\* What an activated pack has, stored and in every copy: an active version
HasActive(state) == \E v \in PolicyVersions : state[v] = "ACTIVE"

ActiveInv ==
    /\ Cardinality(ActiveVersions(activationState)) = 1
    /\ \A w \in PolicyWorkers :
          policyJob[w].phase # "idle" => HasActive(policyJob[w].state)

\* The unique index, checked after the last upsert, leaves at most one.
LEMMA IndexLeavesOne ==
    ASSUME NEW job, OneActiveThroughout(job), HasActive(job.state)
    PROVE  Cardinality(ActiveVersions(job.state)) = 1
<1> DEFINE last == MaxPolicyVersion
           actives == ActiveVersions(job.state)
<1>1. last \in PolicyVersions /\ PolicyVersions = 1 .. last /\ last \in Nat
  BY PolicyAssumption DEF PolicyAssumption, PolicyVersions
<1>2. /\ {u \in 1 .. last : job.state[u] = "ACTIVE"} = actives
      /\ {u \in PolicyVersions : u > last /\ activationState[u] = "ACTIVE"} = {}
  BY <1>1 DEF ActiveVersions
<1>3. Cardinality(actives) <= 1
  <2>1. Cardinality({u \in 1 .. last : job.state[u] = "ACTIVE"}
                    \cup {u \in PolicyVersions : u > last /\ activationState[u] = "ACTIVE"})
            <= 1
    BY <1>1 DEF OneActiveThroughout
  <2>2. {u \in 1 .. last : job.state[u] = "ACTIVE"}
            \cup {u \in PolicyVersions : u > last /\ activationState[u] = "ACTIVE"}
        = actives
    BY <1>2
  <2> QED
    BY <2>1, <2>2
<1>4. IsFiniteSet(actives) /\ Cardinality(actives) \in Nat
  <2>1. IsFiniteSet(PolicyVersions) /\ actives \subseteq PolicyVersions
    BY <1>1, FS_Interval DEF ActiveVersions
  <2> QED
    BY <2>1, FS_Subset, FS_CardinalityType
<1>5. actives # {}
  BY DEF HasActive, ActiveVersions
<1> QED
  BY <1>3, <1>4, <1>5, FS_EmptySet

LEMMA ActiveInitOK ==
    ASSUME NEW makers, NEW makerKeys, NEW first \in PolicyVersions,
           PolicyInit(makers, makerKeys, {first})
    PROVE  ActiveInv
<1>1. ActiveVersions(activationState) = {first}
  BY DEF PolicyInit, ActiveVersions
<1>2. \A w \in PolicyWorkers : policyJob[w].phase = "idle"
  BY DEF PolicyInit, IdlePolicyJob
<1> QED
  BY <1>1, <1>2, FS_Singleton DEF ActiveInv

LEMMA ActiveNextOK ==
    ASSUME CatalogInv, ActiveInv, [PolicyNext]_policyVars
    PROVE  ActiveInv'
<1>1. \A w \in PolicyWorkers :
          /\ policyJob = [u \in PolicyWorkers |-> policyJob[u]]
          /\ PolicyJobOK(policyJob[w], policyEvents)
  BY DEF CatalogInv, CatalogJobsOK
<1>2. HasActive(activationState)
  <2>1. ActiveVersions(activationState) # {}
    BY FS_EmptySet DEF ActiveInv
  <2> QED
    BY <2>1 DEF ActiveVersions, HasActive
<1>3. ASSUME NEW w \in PolicyWorkers, NEW job2,
             policyJob' = [policyJob EXCEPT ![w] = job2],
             job2.phase # "idle" => HasActive(job2.state)
      PROVE  \A u \in PolicyWorkers :
                 policyJob'[u].phase # "idle" => HasActive(policyJob'[u].state)
  <2>1. \A u \in PolicyWorkers : policyJob'[u] = IF u = w THEN job2 ELSE policyJob[u]
    BY <1>1, <1>3
  <2> QED
    BY <1>3, <2>1 DEF ActiveInv
<1>4. CASE UNCHANGED policyVars
  BY <1>4 DEF policyVars, ActiveInv
<1>5. ASSUME NEW w \in PolicyWorkers, LoadDefinitions(w)
      PROVE  ActiveInv'
  <2>1. PICK request \in PolicyCommands, key \in PolicyKeys :
            policyJob' = [policyJob EXCEPT ![w] =
                [IdlePolicyJob EXCEPT !.phase = "events", !.request = request,
                                      !.key = key, !.state = activationState]]
    BY <1>5 DEF LoadDefinitions
  <2>2. [IdlePolicyJob EXCEPT !.phase = "events", !.request = request,
                              !.key = key, !.state = activationState].state
            = activationState
    BY DEF IdlePolicyJob
  <2>3. UNCHANGED activationState
    BY <1>5 DEF LoadDefinitions
  <2> QED
    BY <1>2, <1>3, <2>1, <2>2, <2>3 DEF ActiveInv
<1>6. ASSUME NEW w \in PolicyWorkers, LoadEvents(w) \/ StartSave(w)
      PROVE  ActiveInv'
  <2>1. /\ policyJob[w].phase # "idle" /\ UNCHANGED activationState
        /\ \A u \in PolicyWorkers : policyJob'[u].state = policyJob[u].state
        /\ \A u \in PolicyWorkers :
              policyJob'[u].phase # "idle" => policyJob[u].phase # "idle"
    <3>1. CASE LoadEvents(w)
      BY <1>1, <3>1 DEF LoadEvents
    <3>2. CASE StartSave(w)
      BY <1>1, <3>2 DEF StartSave
    <3> QED
      BY <1>6, <3>1, <3>2
  <2> QED
    BY <2>1 DEF ActiveInv
<1>7. ASSUME NEW w \in PolicyWorkers, ReplayPolicyCommand(w)
      PROVE  ActiveInv'
  <2>1. /\ policyJob[w].phase # "idle" /\ UNCHANGED activationState
        /\ \A u \in PolicyWorkers : policyJob'[u].state = policyJob[u].state
        /\ \A u \in PolicyWorkers :
              policyJob'[u].phase # "idle" => policyJob[u].phase # "idle"
    BY <1>1, <1>7 DEF ReplayPolicyCommand, ReplayedState
  <2> QED
    BY <2>1 DEF ActiveInv
<1>8. ASSUME NEW w \in PolicyWorkers, ValidatePolicyPack(w)
      PROVE  ActiveInv'
  <2>1. /\ policyJob[w].phase # "idle" /\ UNCHANGED activationState
        /\ \A u \in PolicyWorkers : policyJob'[u].state = policyJob[u].state
        /\ \A u \in PolicyWorkers :
              policyJob'[u].phase # "idle" => policyJob[u].phase # "idle"
    BY <1>1, <1>8 DEF ValidatePolicyPack, WithPolicyEvent
  <2> QED
    BY <2>1 DEF ActiveInv
<1>9. ASSUME NEW w \in PolicyWorkers, ActivatePolicyPack(w)
      PROVE  ActiveInv'
  <2> DEFINE job == policyJob[w]
             job2 == [WithPolicyEvent(job, w) EXCEPT !.state = Superseding(job)]
  <2>1. /\ job.phase = "deciding" /\ UNCHANGED activationState
        /\ policyJob' = [policyJob EXCEPT ![w] = job2]
    BY <1>9 DEF ActivatePolicyPack
  <2>2. job2.state = Superseding(job)
    OBVIOUS
  <2>3. job.request.version \in PolicyVersions
    BY <1>1, <2>1 DEF PolicyJobOK, PolicyRequest
  <2>4. HasActive(Superseding(job))
    BY <2>3 DEF HasActive, Superseding
  <2> HIDE DEF job2
  <2> QED
    BY <1>3, <2>1, <2>2, <2>4 DEF ActiveInv
<1>10. ASSUME NEW w \in PolicyWorkers,
              RefusePolicyCommand(w) \/ RollBackSave(w) \/ PolicyWorkerDies(w)
       PROVE  ActiveInv'
  <2>1. /\ UNCHANGED activationState
        /\ policyJob' = [policyJob EXCEPT ![w] = IdlePolicyJob]
    BY <1>10 DEF RefusePolicyCommand, RollBackSave, PolicyWorkerDies
  <2>2. IdlePolicyJob.phase = "idle"
    BY DEF IdlePolicyJob
  <2> QED
    BY <1>3, <2>1, <2>2 DEF ActiveInv
<1>11. ASSUME NEW w \in PolicyWorkers, CommitSave(w)
       PROVE  ActiveInv'
  <2>1. /\ activationState' = policyJob[w].state
        /\ policyJob' = [policyJob EXCEPT ![w] = IdlePolicyJob]
        /\ policyJob[w].phase = "waiting" /\ OneActiveThroughout(policyJob[w])
    BY <1>11 DEF CommitSave, Saveable
  <2>2. HasActive(policyJob[w].state)
    BY <2>1 DEF ActiveInv
  <2>3. Cardinality(ActiveVersions(policyJob[w].state)) = 1
    BY <2>1, <2>2, IndexLeavesOne
  <2>4. IdlePolicyJob.phase = "idle"
    BY DEF IdlePolicyJob
  <2> QED
    BY <1>3, <2>1, <2>3, <2>4 DEF ActiveInv
<1> QED
  BY <1>4, <1>5, <1>6, <1>7, <1>8, <1>9, <1>10, <1>11 DEF PolicyNext

-----------------------------------------------------------------------------
\* The theorems.

\* A pack whose versions were validated by their makers under different keys
PolicyStart(active) ==
    \E makers \in [PolicyVersions -> Actors],
       makerKeys \in [PolicyVersions -> PolicyKeys] :
        /\ \A u, v \in PolicyVersions : makerKeys[u] = makerKeys[v] => u = v
        /\ PolicyInit(makers, makerKeys, active)

\* The behaviours of a pack, and of one that starts with an active version
PolicySpec ==
    (\E active \in SUBSET PolicyVersions : PolicyStart(active))
        /\ [][PolicyNext]_policyVars

ActivePolicySpec ==
    (\E first \in PolicyVersions : PolicyStart({first})) /\ [][PolicyNext]_policyVars

\* In every reachable state of the catalog the tables are well formed, and a copy
\* holds stored events and at most one event of the worker, which has its key.
THEOREM CatalogInvariant == PolicySpec => []CatalogInv
<1>1. (\E active \in SUBSET PolicyVersions : PolicyStart(active)) => CatalogInv
  BY PolicyInitOK DEF PolicyStart
<1> QED
  BY <1>1, PolicyNextOK, PTL DEF PolicySpec

\* A key records one event over all versions of the pack and keeps naming it,
\* however commands that use it overlap.
THEOREM CatalogKeysUnique == PolicySpec => []PolicyKeyNamesOneEvent
<1>1. CatalogInv => PolicyKeyNamesOneEvent
  BY DEF CatalogInv
<1> QED
  BY <1>1, CatalogInvariant, PTL

\* Every activation follows a validation of its version in the stored trail, and
\* the last one before it is by another actor where the version requires that.
THEOREM CatalogMakerChecker == PolicySpec => []ActivationsAreChecked
<1>1. CatalogInv => ActivationsAreChecked
  BY DEF CatalogInv
<1> QED
  BY <1>1, CatalogInvariant, PTL

\* No save of a copy drops or changes an audit event that is stored.
THEOREM CatalogTrailsKept == PolicySpec => PolicyAuditAppendOnly
<1>1. CatalogInv /\ [PolicyNext]_policyVars =>
          [\A v \in PolicyVersions :
              /\ Len(policyEvents[v]) <= Len(policyEvents'[v])
              /\ \A i \in DOMAIN policyEvents[v] :
                    policyEvents'[v][i] = policyEvents[v][i]]_policyVars
  BY TrailsKept DEF TrailKept
<1> QED
  BY <1>1, CatalogInvariant, PTL DEF PolicySpec, PolicyAuditAppendOnly

\* A pack that starts with an active version keeps exactly one: no save of a
\* stale copy leaves the pack with none or with two.
THEOREM CatalogStaysActive == ActivePolicySpec => PackStaysActive
<1>1. (\E first \in PolicyVersions : PolicyStart({first})) => CatalogInv /\ ActiveInv
  BY PolicyInitOK, ActiveInitOK DEF PolicyStart
<1>2. CatalogInv /\ ActiveInv /\ [PolicyNext]_policyVars => (CatalogInv /\ ActiveInv)'
  BY PolicyNextOK, ActiveNextOK
<1>3. CatalogInv /\ ActiveInv /\ [PolicyNext]_policyVars =>
          [ActiveVersions(activationState) # {} =>
              Cardinality(ActiveVersions(activationState')) = 1]_policyVars
  BY ActiveNextOK DEF ActiveInv
<1> QED
  BY <1>1, <1>2, <1>3, PTL DEF ActivePolicySpec, PackStaysActive

-----------------------------------------------------------------------------
\* The evaluations of a policy pack.

EvalPhases == {"idle", "checking", "reporting", "loading", "events",
               "deciding", "saving", "waiting"}

\* The phases in which a worker holds the records, and the events too
LoadedPhases == {"events", "deciding", "saving", "waiting"}
CopyPhases == {"deciding", "saving", "waiting"}

\* The event that a worker adds to its copy
OwnEvent(w, job) ==
    [type |-> job.command.type, actor |-> job.command.actor,
     key |-> job.command.key, at |-> <<w, job.at>>]

\* No event has the time of the worker's command.
FreshIn(w, job, trail) ==
    \A i \in DOMAIN trail : trail[i].at # <<w, job.at>>

\* Somebody, or somebody else, has finalized in a trail.
MadeBy(trail, actor) ==
    \E i \in DOMAIN trail : trail[i].type = "FINALIZED" /\ trail[i].actor = actor

MadeByAnother(trail, actor) ==
    \E i \in DOMAIN trail : trail[i].type = "FINALIZED" /\ trail[i].actor # actor

ListedIn(trail, i) == i \in DOMAIN trail /\ trail[i].type \in ListedTypes

\* A record whose maker and lists are found in a trail
RecordIn(record, trail) ==
    /\ record \in EvalRecord
    /\ MadeBy(trail, record.created_by)
    /\ \A i \in record.attached : ListedIn(trail, i)

\* The event has what it needs in the trail before it.
Founded(trail, i) ==
    /\ trail[i].type = "SIGN_OFF" =>
          \E j \in DOMAIN trail : /\ j < i /\ trail[j].type = "FINALIZED"
                                  /\ trail[j].actor # trail[i].actor
    /\ trail[i].type = "REPORT_ARCHIVE" =>
          \E j \in DOMAIN trail : j < i /\ trail[j].type = "SIGN_OFF"

\* A stored record and its audit trail; n commands have started.
TrailOK(row, trail, n) ==
    IF row = None THEN trail = <<>>
    ELSE /\ trail \in Seq(EvalEvent) /\ trail # <<>>
         /\ trail[1].type = "FINALIZED"
         /\ RecordIn(row, trail)
         /\ \A i \in DOMAIN trail :
               /\ Founded(trail, i)
               /\ trail[i].at[1] = None \/ trail[i].at[2] < n

\* A copy of an evaluation to which nothing has been added
StoredCopy(job, e, trail) ==
    /\ \A i \in DOMAIN job.events[e] : IsStored(trail, job.events[e], i)
    /\ job.records[e] # None => RecordIn(job.records[e], trail)

\* A copy with event n of the worker: of a finalization it holds that event
\* only, of another command all events before it, too.
OwnCopy(w, job, e, trail, n) ==
    LET record == job.records[e]
        copy == job.events[e]
    IN
    /\ 1 .. n - 1 \subseteq DOMAIN trail
    /\ DOMAIN copy = IF job.command.type = "FINALIZED" THEN {n} ELSE 1 .. n
    /\ copy[n] = OwnEvent(w, job)
    /\ \A i \in DOMAIN copy : i # n => IsStored(trail, copy, i)
    /\ record \in EvalRecord
    /\ IF job.command.type = "FINALIZED"
         THEN record.created_by = job.command.actor
         ELSE MadeBy(trail, record.created_by)
    /\ \A i \in record.attached :
          ListedIn(trail, i) \/ (i = n /\ job.command.type \in ListedTypes)

\* An evaluation as a worker holds it
CopyOK(w, job, e, trail) ==
    \/ StoredCopy(job, e, trail)
    \/ /\ e = job.command.evaluation
       /\ \E n \in Nat \ {0} : OwnCopy(w, job, e, trail, n)

\* What holds of an evaluation while a command that does not finalize it is
\* under way
NamedOK(command, row, trail) ==
    /\ row # None
    /\ command.type = "SIGN_OFF" => MadeByAnother(trail, command.actor)
    /\ command.type = "REPORT_ARCHIVE" => SignedOff(trail)

\* What a worker holds is right for the records and events that are stored.
EvalJobOK(w, job, rows, trails) ==
    /\ job \in [phase : EvalPhases, command : {job.command},
                records : {job.records}, events : {job.events},
                keys : {job.keys}, counted : {job.counted}, at : Nat]
    /\ job.phase # "idle" =>
          /\ job.command \in EvalCommand
          /\ \A e \in EvaluationIds : FreshIn(w, job, trails[e])
    /\ job.phase = "reporting" => job.command.type = "REPORT_ARCHIVE"
    /\ job.phase \notin {"idle", "checking"} /\ job.command.type # "FINALIZED" =>
          NamedOK(job.command, rows[job.command.evaluation],
                  trails[job.command.evaluation])
    /\ job.phase \in LoadedPhases =>
          /\ job.records = [e \in EvaluationIds |-> job.records[e]]
          /\ job.command.type # "FINALIZED" =>
                job.records[job.command.evaluation] # None
    /\ job.phase = "events" =>
          \A e \in EvaluationIds :
              job.records[e] # None => RecordIn(job.records[e], trails[e])
    /\ job.phase \in CopyPhases =>
          job.events = [e \in EvaluationIds |-> job.events[e]]
    /\ job.phase = "deciding" =>
          \A e \in EvaluationIds :
              job.events[e] \in Seq(EvalEvent) /\ StoredCopy(job, e, trails[e])
    /\ job.phase \in {"saving", "waiting"} =>
          \A e \in EvaluationIds : CopyOK(w, job, e, trails[e])

EvalTablesOK ==
    /\ evalRecords = [e \in EvaluationIds |-> evalRecords[e]]
    /\ evalEvents = [e \in EvaluationIds |-> evalEvents[e]]
    /\ evalJob = [w \in EvalWorkers |-> evalJob[w]]
    /\ evalCommands \in Nat
    /\ evalReports \subseteq EvaluationIds

\* The inductive invariant.
EvalInv ==
    /\ EvalTablesOK
    /\ \A e \in EvaluationIds :
          TrailOK(evalRecords[e], evalEvents[e], evalCommands)
    /\ \A e \in evalReports : SignedOff(evalEvents[e])
    /\ \A w \in EvalWorkers :
          /\ EvalJobOK(w, evalJob[w], evalRecords, evalEvents)
          /\ evalJob[w].phase # "idle" => evalJob[w].at < evalCommands

-----------------------------------------------------------------------------
\* Lemmas about what is stored.

\* A trail that keeps the events of another
Extends(trail2, trail) == \A i \in DOMAIN trail : IsStored(trail2, trail, i)

LEMMA TrailIsSeq ==
    ASSUME NEW row, NEW trail, NEW n, TrailOK(row, trail, n)
    PROVE  trail \in Seq(EvalEvent)
<1>1. CASE row = None
  BY <1>1 DEF TrailOK
<1>2. CASE row # None
  BY <1>2 DEF TrailOK
<1> QED
  BY <1>1, <1>2

\* What is found in a trail is found in a longer one.
LEMMA FoundLater ==
    ASSUME NEW trail, NEW trail2, Extends(trail2, trail)
    PROVE  /\ \A actor : MadeBy(trail, actor) => MadeBy(trail2, actor)
           /\ \A actor : MadeByAnother(trail, actor) => MadeByAnother(trail2, actor)
           /\ \A i : ListedIn(trail, i) => ListedIn(trail2, i)
           /\ \A record : RecordIn(record, trail) => RecordIn(record, trail2)
           /\ SignedOff(trail) => SignedOff(trail2)
           /\ \A i \in DOMAIN trail : Founded(trail, i) => Founded(trail2, i)
<1>1. \A actor : MadeBy(trail, actor) => MadeBy(trail2, actor)
  BY DEF MadeBy, Extends, IsStored
<1>2. \A actor : MadeByAnother(trail, actor) => MadeByAnother(trail2, actor)
  BY DEF MadeByAnother, Extends, IsStored
<1>3. \A i : ListedIn(trail, i) => ListedIn(trail2, i)
  BY DEF ListedIn, Extends, IsStored
<1>4. \A record : RecordIn(record, trail) => RecordIn(record, trail2)
  BY <1>1, <1>3 DEF RecordIn
<1>5. SignedOff(trail) => SignedOff(trail2)
  BY DEF SignedOff, Extends, IsStored
<1>6. \A i \in DOMAIN trail : Founded(trail, i) => Founded(trail2, i)
  BY DEF Founded, Extends, IsStored
<1> QED
  BY <1>1, <1>2, <1>3, <1>4, <1>5, <1>6

\* A copy stays right.
LEMMA CopyStays ==
    ASSUME NEW w, NEW job, NEW e, NEW trail, NEW trail2, Extends(trail2, trail)
    PROVE  /\ StoredCopy(job, e, trail) => StoredCopy(job, e, trail2)
           /\ CopyOK(w, job, e, trail) => CopyOK(w, job, e, trail2)
<1>1. \A i : IsStored(trail, job.events[e], i) => IsStored(trail2, job.events[e], i)
  BY DEF Extends, IsStored
<1>2. StoredCopy(job, e, trail) => StoredCopy(job, e, trail2)
  BY <1>1, FoundLater DEF StoredCopy
<1>3. ASSUME NEW n, OwnCopy(w, job, e, trail, n)
      PROVE  OwnCopy(w, job, e, trail2, n)
  <2>1. DOMAIN trail \subseteq DOMAIN trail2
    BY DEF Extends, IsStored
  <2> QED
    BY <1>1, <1>3, <2>1, FoundLater DEF OwnCopy
<1> QED
  BY <1>2, <1>3 DEF CopyOK

\* What a worker holds stays right.
LEMMA EvalJobStays ==
    ASSUME NEW w, NEW job, NEW rows, NEW rows2, NEW trails, NEW trails2,
           EvalJobOK(w, job, rows, trails),
           \A e \in EvaluationIds : Extends(trails2[e], trails[e]),
           \A e \in EvaluationIds : rows[e] # None => rows2[e] # None,
           job.phase # "idle" =>
               \A e \in EvaluationIds : FreshIn(w, job, trails2[e])
    PROVE  EvalJobOK(w, job, rows2, trails2)
<1>1. ASSUME job.phase \notin {"idle", "checking"}, job.command.type # "FINALIZED"
      PROVE  NamedOK(job.command, rows2[job.command.evaluation],
                     trails2[job.command.evaluation])
  <2>1. job.command.evaluation \in EvaluationIds
    BY <1>1 DEF EvalJobOK, EvalCommand
  <2>2. NamedOK(job.command, rows[job.command.evaluation],
                trails[job.command.evaluation])
    BY <1>1 DEF EvalJobOK
  <2> QED
    BY <2>1, <2>2, FoundLater DEF NamedOK
<1>2. job.phase = "events" =>
          \A e \in EvaluationIds :
              job.records[e] # None => RecordIn(job.records[e], trails2[e])
  BY FoundLater DEF EvalJobOK
<1>3. job.phase = "deciding" =>
          \A e \in EvaluationIds :
              job.events[e] \in Seq(EvalEvent) /\ StoredCopy(job, e, trails2[e])
  BY CopyStays DEF EvalJobOK
<1>4. job.phase \in {"saving", "waiting"} =>
          \A e \in EvaluationIds : CopyOK(w, job, e, trails2[e])
  BY CopyStays DEF EvalJobOK
<1> QED
  BY <1>1, <1>2, <1>3, <1>4 DEF EvalJobOK

\* The upserts of a copy to which nothing was added leave the trail as it is.
LEMMA StoredTrail ==
    ASSUME NEW trail \in Seq(EvalEvent), NEW saved,
           \A i \in DOMAIN saved : IsStored(trail, saved, i)
    PROVE  EventsAfter(trail, saved) = trail
<1>1. DOMAIN trail \cup DOMAIN saved = DOMAIN trail
  BY DEF IsStored
<1>2. EventsAfter(trail, saved) = [i \in DOMAIN trail |-> trail[i]]
  BY <1>1 DEF EventsAfter, IsStored
<1>3. trail = [i \in DOMAIN trail |-> trail[i]]
  OBVIOUS
<1> QED
  BY <1>2, <1>3

\* Those of a worker's own copy append its event: the id is the next one, since
\* an event that is stored under it refuses the save.
LEMMA OwnTrail ==
    ASSUME NEW w, NEW job, NEW e, NEW trail \in Seq(EvalEvent), NEW n \in Nat \ {0},
           OwnCopy(w, job, e, trail, n), FreshIn(w, job, trail),
           EventsAdmitted(trail, job.events[e]), OwnEvent(w, job) \in EvalEvent,
           NEW trail2, trail2 = EventsAfter(trail, job.events[e])
    PROVE  /\ n = Len(trail) + 1 /\ Len(trail) \in Nat
           /\ trail2 \in Seq(EvalEvent)
           /\ DOMAIN trail = 1 .. n - 1 /\ DOMAIN trail2 = 1 .. n
           /\ trail2[n] = OwnEvent(w, job)
           /\ Extends(trail2, trail)
<1> DEFINE own == OwnEvent(w, job)
           saved == job.events[e]
<1>1. /\ DOMAIN trail = 1 .. Len(trail) /\ Len(trail) \in Nat
      /\ \A i \in DOMAIN trail : trail[i] \in EvalEvent
  OBVIOUS
<1>2. /\ 1 .. n - 1 \subseteq DOMAIN trail
      /\ DOMAIN saved \in {{n}, 1 .. n}
      /\ saved[n] = own
      /\ \A i \in DOMAIN saved : i # n => IsStored(trail, saved, i)
  BY DEF OwnCopy
<1>3. n \in DOMAIN saved
  BY <1>2
<1>4. n \notin DOMAIN trail
  <2>1. own.at = <<w, job.at>>
    BY DEF OwnEvent
  <2>2. n \in DOMAIN trail => trail[n] = own
    BY <1>2, <1>3 DEF EventsAdmitted
  <2> QED
    BY <2>1, <2>2 DEF FreshIn
<1> HIDE DEF own
<1>5. n = Len(trail) + 1
  <2>1. n > Len(trail)
    BY <1>1, <1>4
  <2>2. n - 1 <= Len(trail)
    <3>1. CASE n = 1
      BY <1>1, <3>1
    <3>2. CASE n # 1
      <4>1. n - 1 \in 1 .. n - 1
        BY <3>2
      <4> QED
        BY <1>1, <1>2, <4>1
    <3> QED
      BY <3>1, <3>2
  <2> QED
    BY <1>1, <2>1, <2>2
<1>6. DOMAIN trail \cup DOMAIN saved = 1 .. n
  BY <1>1, <1>2, <1>5
<1>7. trail2 = [i \in 1 .. n |-> IF i \in DOMAIN saved THEN saved[i] ELSE trail[i]]
  BY <1>6 DEF EventsAfter
<1>8. \A i \in DOMAIN trail : trail2[i] = trail[i]
  BY <1>4, <1>6, <1>7, <1>2 DEF IsStored
<1>9. trail2[n] = own
  BY <1>2, <1>3, <1>7
<1>10. \A i \in 1 .. n : trail2[i] \in EvalEvent
  <2>1. \A i \in 1 .. n : i \in DOMAIN trail \/ i = n
    BY <1>1, <1>5
  <2> QED
    BY <1>1, <1>8, <1>9, <2>1 DEF own
<1>11. trail2 \in [1 .. n -> EvalEvent]
  BY <1>7, <1>10
<1>12. trail2 \in Seq(EvalEvent) /\ DOMAIN trail2 = 1 .. n
  BY <1>11
<1>13. DOMAIN trail = 1 .. n - 1 /\ DOMAIN trail \subseteq DOMAIN trail2
  BY <1>1, <1>5, <1>12
<1> QED
  BY <1>1, <1>5, <1>8, <1>9, <1>12, <1>13 DEF Extends, IsStored, own

\* The record after an upsert of a copy
RowAfter(copy, row) == IF copy = None THEN row ELSE copy

\* What a save by w may make of a record and its trail
SavedOK(w, job, n, row, row2, trail, trail2) ==
    /\ TrailOK(row2, trail2, n)
    /\ Extends(trail2, trail)
    /\ row # None => row2 # None
    /\ \A i \in DOMAIN trail2 :
          IsStored(trail, trail2, i) \/ trail2[i].at = <<w, job.at>>

\* Where there is an event there is a record.
LEMMA EventHasRecord ==
    ASSUME NEW row, NEW trail, NEW n, TrailOK(row, trail, n), NEW i \in DOMAIN trail
    PROVE  row # None
BY DEF TrailOK

\* A save of a copy to which nothing was added
LEMMA StoredCopySaved ==
    ASSUME NEW w, NEW job, NEW n, NEW e, NEW row, NEW trail,
           TrailOK(row, trail, n), StoredCopy(job, e, trail)
    PROVE  SavedOK(w, job, n, row, RowAfter(job.records[e], row),
                   trail, EventsAfter(trail, job.events[e]))
<1> DEFINE record == job.records[e]
           row2 == RowAfter(record, row)
<1>1. EventsAfter(trail, job.events[e]) = trail
  BY TrailIsSeq, StoredTrail DEF StoredCopy
<1>2. row2 = IF record = None THEN row ELSE record
  BY DEF RowAfter
<1>3. record # None => row # None /\ RecordIn(record, trail)
  BY EventHasRecord DEF StoredCopy, RecordIn, MadeBy
<1> HIDE DEF record, row2
<1>4. TrailOK(row2, trail, n)
  <2>1. CASE record = None
    BY <1>2, <2>1
  <2>2. CASE record # None
    BY <1>2, <1>3, <2>2 DEF TrailOK
  <2> QED
    BY <2>1, <2>2
<1>5. Extends(trail, trail) /\ \A i \in DOMAIN trail : IsStored(trail, trail, i)
  BY DEF Extends, IsStored
<1>6. row # None => row2 # None
  BY <1>2
<1> QED
  BY <1>1, <1>4, <1>5, <1>6 DEF SavedOK, row2, record

\* A save that adds an event
LEMMA OwnCopySaved ==
    ASSUME NEW w \in EvalWorkers, NEW job, job.command \in EvalCommand,
           NEW n \in Nat, job.at \in Nat, job.at < n,
           NEW e, NEW row, NEW trail, TrailOK(row, trail, n),
           NEW m \in Nat \ {0}, OwnCopy(w, job, e, trail, m),
           FreshIn(w, job, trail),
           job.command.type # "FINALIZED" => NamedOK(job.command, row, trail),
           EventsAdmitted(trail, job.events[e])
    PROVE  SavedOK(w, job, n, row, RowAfter(job.records[e], row),
                   trail, EventsAfter(trail, job.events[e]))
<1> DEFINE own == OwnEvent(w, job)
           record == job.records[e]
           trail2 == EventsAfter(trail, job.events[e])
<1>1. own \in EvalEvent
  BY DEF OwnEvent, EvalEvent, EvalCommand
<1>2. /\ own.type = job.command.type /\ own.actor = job.command.actor
      /\ own.at = <<w, job.at>> /\ own.at[2] < n
  BY DEF OwnEvent
<1>3. /\ trail2 \in Seq(EvalEvent)
      /\ DOMAIN trail = 1 .. m - 1 /\ DOMAIN trail2 = 1 .. m
      /\ trail2[m] = own /\ Extends(trail2, trail)
  <2>1. trail \in Seq(EvalEvent)
    BY TrailIsSeq
  <2>2. OwnEvent(w, job) \in EvalEvent
    BY <1>1
  <2> HIDE DEF own
  <2>3. own = OwnEvent(w, job)
    BY DEF own
  <2>4. trail2 = EventsAfter(trail, job.events[e])
    OBVIOUS
  <2> HIDE DEF trail2
  <2> QED
    BY <2>1, <2>2, <2>3, <2>4, OwnTrail
<1>4. /\ record \in EvalRecord
      /\ IF job.command.type = "FINALIZED"
           THEN record.created_by = job.command.actor
           ELSE MadeBy(trail, record.created_by)
      /\ \A i \in record.attached :
            ListedIn(trail, i) \/ (i = m /\ job.command.type \in ListedTypes)
  BY DEF OwnCopy
<1>5. record # None /\ RowAfter(record, row) = record
  BY <1>4, EvalAssumption DEF EvalAssumption, RowAfter
<1> HIDE DEF own, record, trail2
<1>6. \A i \in DOMAIN trail2 : i \in DOMAIN trail \/ i = m
  BY <1>3
<1>7. /\ m \in DOMAIN trail2 /\ trail2 # <<>>
      /\ \A i \in DOMAIN trail : i < m
  BY <1>3
<1>8. \A i \in DOMAIN trail : i \in DOMAIN trail2 /\ trail2[i] = trail[i]
  BY <1>3 DEF Extends, IsStored
<1>9. trail2[1].type = "FINALIZED"
  <2>1. CASE row = None
    <3>1. trail = <<>> /\ job.command.type = "FINALIZED"
      BY <2>1 DEF TrailOK, NamedOK
    <3>2. m = 1
      <4>1. DOMAIN trail = {}
        BY <3>1
      <4> QED
        BY <1>3, <4>1
    <3> QED
      BY <1>2, <1>3, <3>1, <3>2
  <2>2. CASE row # None
    <3>1. trail # <<>> /\ trail[1].type = "FINALIZED" /\ trail \in Seq(EvalEvent)
      BY <2>2 DEF TrailOK
    <3>2. 1 \in DOMAIN trail
      BY <3>1
    <3> QED
      BY <1>8, <3>1, <3>2
  <2> QED
    BY <2>1, <2>2
<1>10. MadeBy(trail2, record.created_by)
  <2>1. CASE job.command.type = "FINALIZED"
    BY <1>2, <1>3, <1>4, <1>7, <2>1 DEF MadeBy
  <2>2. CASE job.command.type # "FINALIZED"
    BY <1>3, <1>4, <2>2, FoundLater
  <2> QED
    BY <2>1, <2>2
<1>11. \A i \in record.attached : ListedIn(trail2, i)
  <2>1. \A i : ListedIn(trail, i) => ListedIn(trail2, i)
    BY <1>3, FoundLater
  <2>2. job.command.type \in ListedTypes => ListedIn(trail2, m)
    BY <1>2, <1>3, <1>7 DEF ListedIn
  <2> QED
    BY <1>4, <2>1, <2>2
<1>12. Founded(trail2, m)
  <2>1. ASSUME trail2[m].type = "SIGN_OFF"
        PROVE  \E j \in DOMAIN trail2 : /\ j < m /\ trail2[j].type = "FINALIZED"
                                        /\ trail2[j].actor # trail2[m].actor
    <3>1. MadeByAnother(trail, job.command.actor)
      BY <1>2, <1>3, <2>1 DEF NamedOK
    <3>2. PICK j \in DOMAIN trail :
             trail[j].type = "FINALIZED" /\ trail[j].actor # job.command.actor
      BY <3>1 DEF MadeByAnother
    <3> QED
      BY <1>2, <1>3, <1>7, <1>8, <3>2
  <2>2. ASSUME trail2[m].type = "REPORT_ARCHIVE"
        PROVE  \E j \in DOMAIN trail2 : j < m /\ trail2[j].type = "SIGN_OFF"
    <3>1. SignedOff(trail)
      BY <1>2, <1>3, <2>2 DEF NamedOK
    <3> QED
      BY <1>7, <1>8, <3>1 DEF SignedOff
  <2> QED
    BY <2>1, <2>2 DEF Founded
<1>13. ASSUME NEW i \in DOMAIN trail2
       PROVE  Founded(trail2, i) /\ (trail2[i].at[1] = None \/ trail2[i].at[2] < n)
  <2>1. CASE i = m
    BY <1>2, <1>3, <1>12, <2>1
  <2>2. CASE i \in DOMAIN trail
    <3>1. row # None
      BY <2>2, EventHasRecord
    <3>2. Founded(trail, i) /\ (trail[i].at[1] = None \/ trail[i].at[2] < n)
      BY <2>2, <3>1 DEF TrailOK
    <3>3. Founded(trail2, i)
      BY <1>3, <2>2, <3>2, FoundLater
    <3> QED
      BY <1>8, <2>2, <3>2, <3>3
  <2> QED
    BY <1>6, <2>1, <2>2
<1>14. RecordIn(record, trail2)
  BY <1>4, <1>10, <1>11 DEF RecordIn
<1>15. TrailOK(record, trail2, n)
  BY <1>3, <1>5, <1>7, <1>9, <1>13, <1>14 DEF TrailOK
<1>16. ASSUME NEW i \in DOMAIN trail2
       PROVE  IsStored(trail, trail2, i) \/ trail2[i].at = <<w, job.at>>
  BY <1>2, <1>3, <1>6, <1>8 DEF IsStored
<1> QED
  BY <1>3, <1>5, <1>15, <1>16 DEF SavedOK, record, trail2

\* One evaluation after a save that is admitted
LEMMA EvaluationSaved ==
    ASSUME NEW w \in EvalWorkers, NEW job, job.command \in EvalCommand,
           NEW n \in Nat, job.at \in Nat, job.at < n,
           NEW e, NEW row, NEW trail, TrailOK(row, trail, n),
           CopyOK(w, job, e, trail), FreshIn(w, job, trail),
           e = job.command.evaluation /\ job.command.type # "FINALIZED" =>
               NamedOK(job.command, row, trail),
           EventsAdmitted(trail, job.events[e])
    PROVE  SavedOK(w, job, n, row, RowAfter(job.records[e], row),
                   trail, EventsAfter(trail, job.events[e]))
<1>1. CASE StoredCopy(job, e, trail)
  BY <1>1, StoredCopySaved
<1>2. CASE /\ e = job.command.evaluation
           /\ \E m \in Nat \ {0} : OwnCopy(w, job, e, trail, m)
  <2>1. PICK m \in Nat \ {0} : OwnCopy(w, job, e, trail, m)
    BY <1>2
  <2> QED
    BY <1>2, <2>1, OwnCopySaved
<1> QED
  BY <1>1, <1>2 DEF CopyOK

-----------------------------------------------------------------------------
\* One lemma per action.

LEMMA IdleEvalJobOK ==
    ASSUME NEW w, NEW rows, NEW trails
    PROVE  EvalJobOK(w, IdleEvalJob, rows, trails) /\ IdleEvalJob.phase = "idle"
BY DEF EvalJobOK, IdleEvalJob, EvalPhases, LoadedPhases, CopyPhases

\* Nothing that is stored changes, and one worker goes on, or ends.
LEMMA EvalJobStep ==
    ASSUME EvalInv, NEW w \in EvalWorkers, NEW job,
           evalJob' = [evalJob EXCEPT ![w] = job],
           EvalJobOK(w, job, evalRecords, evalEvents),
           job.phase # "idle" =>
               job.at = evalJob[w].at /\ evalJob[w].phase # "idle",
           UNCHANGED <<evalRecords, evalEvents, evalReports, evalCommands>>
    PROVE  EvalInv'
<1>1. \A u \in EvalWorkers : evalJob'[u] = IF u = w THEN job ELSE evalJob[u]
  BY DEF EvalInv, EvalTablesOK
<1>2. evalJob' = [u \in EvalWorkers |-> evalJob'[u]]
  BY DEF EvalInv, EvalTablesOK
<1>3. ASSUME NEW u \in EvalWorkers
      PROVE  /\ EvalJobOK(u, evalJob'[u], evalRecords, evalEvents)
             /\ evalJob'[u].phase # "idle" => evalJob'[u].at < evalCommands
  BY <1>1 DEF EvalInv
<1> QED
  BY <1>2, <1>3 DEF EvalInv, EvalTablesOK

LEMMA EvalEndStep ==
    ASSUME EvalInv, NEW w \in EvalWorkers,
           evalJob' = [evalJob EXCEPT ![w] = IdleEvalJob],
           UNCHANGED <<evalRecords, evalEvents, evalReports, evalCommands>>
    PROVE  EvalInv'
BY IdleEvalJobOK, EvalJobStep

\* What a worker that is not idle holds
LEMMA EvalJobFacts ==
    ASSUME EvalInv, NEW w \in EvalWorkers
    PROVE  LET job == evalJob[w] IN
           /\ EvalJobOK(w, job, evalRecords, evalEvents)
           /\ job.at \in Nat
           /\ job.phase # "idle" =>
                 /\ job.command \in EvalCommand
                 /\ job.command.evaluation \in EvaluationIds
                 /\ job.at < evalCommands
BY DEF EvalInv, EvalJobOK, EvalCommand

\* An evaluation that was blocked, as it is stored at first
LEMMA BlockedTrailOK ==
    ASSUME NEW command \in EvalCommand,
           NEW row, row = [created_by |-> command.actor, attached |-> {}],
           NEW trail, trail = <<[type |-> "FINALIZED", actor |-> command.actor,
                                 key |-> command.key, at |-> <<None, 0>>]>>
    PROVE  TrailOK(row, trail, 0)
<1> DEFINE event == [type |-> "FINALIZED", actor |-> command.actor,
                     key |-> command.key, at |-> <<None, 0>>]
<1>1. event \in EvalEvent
  BY DEF EvalEvent, EvalEventTypes, EvalCommand
<1>2. /\ event.type = "FINALIZED" /\ event.actor = command.actor
      /\ event.at[1] = None
  OBVIOUS
<1>3. /\ row \in EvalRecord /\ row.created_by = command.actor /\ row.attached = {}
  BY DEF EvalRecord, EvalCommand
<1>4. trail = <<event>>
  OBVIOUS
<1> HIDE DEF event
<1>5. /\ trail \in Seq(EvalEvent) /\ trail # <<>>
      /\ 1 \in DOMAIN trail /\ trail[1] = event
      /\ \A i \in DOMAIN trail : trail[i] = event
  BY <1>1, <1>4
<1>6. RecordIn(row, trail)
  BY <1>2, <1>3, <1>5 DEF RecordIn, MadeBy
<1>7. \A i \in DOMAIN trail : Founded(trail, i)
  BY <1>2, <1>5 DEF Founded
<1>8. row # None
  BY <1>3, EvalAssumption DEF EvalAssumption
<1> QED
  BY <1>2, <1>5, <1>6, <1>7, <1>8 DEF TrailOK

LEMMA EvalInitOK == ASSUME EvalInit PROVE EvalInv
<1>1. ASSUME NEW e \in EvaluationIds
      PROVE  TrailOK(evalRecords[e], evalEvents[e], 0)
  <2>1. CASE e \notin Blocked
    BY <2>1 DEF EvalInit, TrailOK
  <2>2. CASE e \in Blocked
    <3> DEFINE command == BlockedCommandOf(e)
    <3>1. command \in BlockedCommands
      BY <2>2 DEF Blocked, BlockedCommandOf
    <3>2. command \in EvalCommand
      BY <3>1, EvalAssumption DEF EvalAssumption
    <3>3. /\ evalRecords[e] = [created_by |-> command.actor, attached |-> {}]
          /\ evalEvents[e] = <<[type |-> "FINALIZED", actor |-> command.actor,
                                key |-> command.key, at |-> <<None, 0>>]>>
      BY <2>2 DEF EvalInit
    <3> HIDE DEF command
    <3> QED
      BY <3>2, <3>3, BlockedTrailOK
  <2> QED
    BY <2>1, <2>2
<1>2. /\ evalRecords = [e \in EvaluationIds |-> evalRecords[e]]
      /\ evalEvents = [e \in EvaluationIds |-> evalEvents[e]]
      /\ evalJob = [w \in EvalWorkers |-> evalJob[w]]
      /\ evalCommands = 0 /\ evalReports = {}
  BY DEF EvalInit
<1>3. \A w \in EvalWorkers : evalJob[w] = IdleEvalJob
  BY DEF EvalInit
<1> QED
  BY <1>1, <1>2, <1>3, IdleEvalJobOK DEF EvalInv, EvalTablesOK

LEMMA StartEvalCommandOK ==
    ASSUME EvalInv, NEW w \in EvalWorkers, StartEvalCommand(w)
    PROVE  EvalInv'
<1> DEFINE n == evalCommands
<1>1. PICK command \in EvalCommands :
          evalJob' = [evalJob EXCEPT ![w] =
              [IdleEvalJob EXCEPT
                  !.phase = IF command.type = "FINALIZED" THEN "loading"
                            ELSE "checking",
                  !.command = command, !.at = n]]
  BY DEF StartEvalCommand
<1> DEFINE phase == IF command.type = "FINALIZED" THEN "loading" ELSE "checking"
           job == [IdleEvalJob EXCEPT !.phase = phase, !.command = command,
                                      !.at = n]
<1>2. /\ evalRecords' = evalRecords /\ evalEvents' = evalEvents
      /\ evalReports' = evalReports /\ evalCommands' = n + 1 /\ n \in Nat
      /\ command \in EvalCommand
  BY EvalAssumption DEF StartEvalCommand, EvalInv, EvalTablesOK, EvalAssumption
<1>3. ASSUME NEW e \in EvaluationIds
      PROVE  /\ TrailOK(evalRecords[e], evalEvents[e], n + 1)
             /\ FreshIn(w, job, evalEvents[e])
  <2> DEFINE trail == evalEvents[e]
             row == evalRecords[e]
  <2>1. TrailOK(row, trail, n)
    BY DEF EvalInv
  <2> HIDE DEF trail, row
  <2>2. ASSUME NEW i \in DOMAIN trail
        PROVE  /\ row # None /\ trail[i].at[2] \in Nat
               /\ trail[i].at[1] = None \/ trail[i].at[2] < n
    <3>1. row # None
      BY <2>1, EventHasRecord
    <3>2. trail \in Seq(EvalEvent)
      BY <2>1, TrailIsSeq
    <3>3. trail[i] \in EvalEvent
      BY <3>2
    <3>4. trail[i].at[2] \in Nat
      BY <3>3 DEF EvalEvent
    <3> QED
      BY <2>1, <3>1, <3>4 DEF TrailOK
  <2>3. TrailOK(row, trail, n + 1)
    <3>1. \A i \in DOMAIN trail :
              trail[i].at[1] = None \/ trail[i].at[2] < n + 1
      BY <1>2, <2>2
    <3> QED
      BY <2>1, <3>1 DEF TrailOK
  <2>4. job.at = n
    BY DEF IdleEvalJob
  <2> HIDE DEF job
  <2>5. FreshIn(w, job, trail)
    <3>1. w # None
      BY EvalAssumption DEF EvalAssumption
    <3>2. ASSUME NEW i \in DOMAIN trail, trail[i].at = <<w, n>> PROVE FALSE
      <4>1. trail[i].at[1] = w /\ trail[i].at[2] = n
        BY <3>2
      <4> QED
        BY <1>2, <2>2, <3>1, <4>1
    <3> QED
      BY <2>4, <3>2 DEF FreshIn
  <2> QED
    BY <2>3, <2>5 DEF trail, row
<1>4. job \in [phase : {phase}, command : {command}, records : {None},
               events : {None}, keys : {None}, counted : {0}, at : {n}]
  BY DEF IdleEvalJob
<1>5. phase \in EvalPhases /\ phase \notin LoadedPhases \cup CopyPhases
      /\ phase # "idle" /\ (phase # "checking" => command.type = "FINALIZED")
  BY DEF EvalPhases, LoadedPhases, CopyPhases
<1>6. phase \notin {"reporting", "events", "deciding", "saving", "waiting"}
  OBVIOUS
<1> HIDE DEF phase, job
<1>7. EvalJobOK(w, job, evalRecords, evalEvents)
  BY <1>2, <1>3, <1>4, <1>5, <1>6 DEF EvalJobOK
<1>8. \A u \in EvalWorkers : evalJob'[u] = IF u = w THEN job ELSE evalJob[u]
  BY <1>1 DEF EvalInv, EvalTablesOK, job, phase
<1>9. evalJob' = [u \in EvalWorkers |-> evalJob'[u]]
  BY <1>1 DEF EvalInv, EvalTablesOK
<1>10. ASSUME NEW u \in EvalWorkers
       PROVE  /\ EvalJobOK(u, evalJob'[u], evalRecords, evalEvents)
              /\ evalJob'[u].phase # "idle" => evalJob'[u].at < n + 1
  <2>1. CASE u = w
    BY <1>2, <1>4, <1>7, <1>8, <2>1
  <2>2. CASE u # w
    <3>1. evalJob[u].at \in Nat
      BY EvalJobFacts
    <3> QED
      BY <1>2, <1>8, <2>2, <3>1 DEF EvalInv
  <2> QED
    BY <2>1, <2>2
<1> QED
  BY <1>2, <1>3, <1>9, <1>10 DEF EvalInv, EvalTablesOK

\* What a command that passes its check has found
LEMMA CheckPassed ==
    ASSUME NEW command \in EvalCommand, CheckPasses(command),
           NEW e, e = command.evaluation, NEW n,
           TrailOK(evalRecords[e], evalEvents[e], n)
    PROVE  NamedOK(command, evalRecords[e], evalEvents[e])
<1>1. evalRecords[e] # None
  BY DEF CheckPasses
<1>2. command.type = "SIGN_OFF" => MadeByAnother(evalEvents[e], command.actor)
  <2> SUFFICES ASSUME command.type = "SIGN_OFF"
               PROVE  MadeByAnother(evalEvents[e], command.actor)
    OBVIOUS
  <2>1. evalRecords[e].created_by # command.actor
    BY DEF CheckPasses, MakerChecks
  <2>2. MadeBy(evalEvents[e], evalRecords[e].created_by)
    BY <1>1 DEF TrailOK, RecordIn
  <2> QED
    BY <2>1, <2>2 DEF MadeBy, MadeByAnother
<1>3. command.type = "REPORT_ARCHIVE" => SignedOff(evalEvents[e])
  BY DEF CheckPasses, Reportable
<1> QED
  BY <1>1, <1>2, <1>3 DEF NamedOK

LEMMA CheckEvaluationOK ==
    ASSUME EvalInv, NEW w \in EvalWorkers, CheckEvaluation(w)
    PROVE  EvalInv'
<1> DEFINE old == evalJob[w]
           e == old.command.evaluation
           phase == IF old.command.type = "REPORT_ARCHIVE" THEN "reporting"
                    ELSE "loading"
           job == [old EXCEPT !.phase = phase]
<1>1. /\ old.phase = "checking" /\ CheckPasses(old.command)
      /\ evalJob' = [evalJob EXCEPT ![w] = job]
      /\ UNCHANGED <<evalRecords, evalEvents, evalReports, evalCommands>>
  BY DEF CheckEvaluation
<1>2. /\ EvalJobOK(w, old, evalRecords, evalEvents) /\ old.command \in EvalCommand
      /\ e \in EvaluationIds
  BY <1>1, EvalJobFacts
<1>3. NamedOK(old.command, evalRecords[e], evalEvents[e])
  <2>1. TrailOK(evalRecords[e], evalEvents[e], evalCommands)
    BY <1>2 DEF EvalInv
  <2> QED
    BY <1>1, <1>2, <2>1, CheckPassed
<1>4. job \in [phase : {phase}, command : {old.command}, records : {old.records},
               events : {old.events}, keys : {old.keys}, counted : {old.counted},
               at : {old.at}]
  BY <1>2 DEF EvalJobOK
<1>5. /\ phase \in EvalPhases /\ phase \in {"reporting", "loading"}
      /\ phase = "reporting" => old.command.type = "REPORT_ARCHIVE"
      /\ old.at \in Nat
  BY EvalJobFacts DEF EvalPhases
<1> HIDE DEF job, phase
<1>6. EvalJobOK(w, job, evalRecords, evalEvents)
  BY <1>1, <1>2, <1>3, <1>4, <1>5
     DEF EvalJobOK, LoadedPhases, CopyPhases, FreshIn
<1> QED
  BY <1>1, <1>4, <1>6, EvalJobStep

LEMMA RequestPolicyReportOK ==
    ASSUME EvalInv, NEW w \in EvalWorkers, RequestPolicyReport(w)
    PROVE  EvalInv'
<1> DEFINE old == evalJob[w]
           e == old.command.evaluation
           job == [old EXCEPT !.phase = "loading"]
<1>1. /\ old.phase = "reporting" /\ evalJob' = [evalJob EXCEPT ![w] = job]
      /\ evalReports' = evalReports \cup {e}
      /\ UNCHANGED <<evalRecords, evalEvents, evalCommands>>
  BY DEF RequestPolicyReport
<1>2. /\ EvalJobOK(w, old, evalRecords, evalEvents) /\ old.at < evalCommands
      /\ e \in EvaluationIds /\ old.at \in Nat
  BY <1>1, EvalJobFacts
<1>3. job \in [phase : {"loading"}, command : {old.command}, records : {old.records},
               events : {old.events}, keys : {old.keys}, counted : {old.counted},
               at : {old.at}]
  BY <1>2 DEF EvalJobOK
<1>4. \A u \in EvalWorkers : evalJob'[u] = IF u = w THEN job ELSE evalJob[u]
  BY <1>1 DEF EvalInv, EvalTablesOK
<1>5. evalJob' = [u \in EvalWorkers |-> evalJob'[u]]
  BY <1>1 DEF EvalInv, EvalTablesOK
<1> HIDE DEF job
<1>6. EvalJobOK(w, job, evalRecords, evalEvents)
  BY <1>1, <1>2, <1>3
     DEF EvalJobOK, EvalPhases, LoadedPhases, CopyPhases, FreshIn
<1>7. SignedOff(evalEvents[e])
  BY <1>1, <1>2 DEF EvalJobOK, NamedOK
<1>8. ASSUME NEW u \in EvalWorkers
      PROVE  /\ EvalJobOK(u, evalJob'[u], evalRecords, evalEvents)
             /\ evalJob'[u].phase # "idle" => evalJob'[u].at < evalCommands
  BY <1>2, <1>3, <1>4, <1>6 DEF EvalInv
<1> QED
  BY <1>1, <1>2, <1>5, <1>7, <1>8 DEF EvalInv, EvalTablesOK

LEMMA LoadRecordsOK ==
    ASSUME EvalInv, NEW w \in EvalWorkers, LoadRecords(w)
    PROVE  EvalInv'
<1> DEFINE old == evalJob[w]
           job == [old EXCEPT !.phase = "events", !.records = evalRecords]
<1>1. /\ old.phase = "loading" /\ evalJob' = [evalJob EXCEPT ![w] = job]
      /\ UNCHANGED <<evalRecords, evalEvents, evalReports, evalCommands>>
  BY DEF LoadRecords
<1>2. /\ EvalJobOK(w, old, evalRecords, evalEvents) /\ old.at \in Nat
      /\ old.command \in EvalCommand
  BY <1>1, EvalJobFacts
<1>3. job \in [phase : {"events"}, command : {old.command}, records : {evalRecords},
               events : {old.events}, keys : {old.keys}, counted : {old.counted},
               at : {old.at}]
  BY <1>2 DEF EvalJobOK
<1>4. \A e \in EvaluationIds :
          evalRecords[e] # None => RecordIn(evalRecords[e], evalEvents[e])
  BY DEF EvalInv, TrailOK
<1>5. evalRecords = [e \in EvaluationIds |-> evalRecords[e]]
  BY DEF EvalInv, EvalTablesOK
<1>6. old.command.type # "FINALIZED" => evalRecords[old.command.evaluation] # None
  BY <1>1, <1>2 DEF EvalJobOK, NamedOK
<1> HIDE DEF job
<1>7. EvalJobOK(w, job, evalRecords, evalEvents)
  BY <1>1, <1>2, <1>3, <1>4, <1>5, <1>6
     DEF EvalJobOK, EvalPhases, LoadedPhases, CopyPhases, FreshIn
<1> QED
  BY <1>1, <1>3, <1>7, EvalJobStep

LEMMA LoadEvalEventsOK ==
    ASSUME EvalInv, NEW w \in EvalWorkers, LoadEvalEvents(w)
    PROVE  EvalInv'
<1> DEFINE old == evalJob[w]
           job == [old EXCEPT !.phase = "deciding", !.events = evalEvents]
<1>1. /\ old.phase = "events" /\ evalJob' = [evalJob EXCEPT ![w] = job]
      /\ UNCHANGED <<evalRecords, evalEvents, evalReports, evalCommands>>
  BY DEF LoadEvalEvents
<1>2. /\ EvalJobOK(w, old, evalRecords, evalEvents) /\ old.at \in Nat
      /\ old.command \in EvalCommand
  BY <1>1, EvalJobFacts
<1>3. job \in [phase : {"deciding"}, command : {old.command},
               records : {old.records}, events : {evalEvents}, keys : {old.keys},
               counted : {old.counted}, at : {old.at}]
  BY <1>2 DEF EvalJobOK
<1>4. evalEvents = [e \in EvaluationIds |-> evalEvents[e]]
  BY DEF EvalInv, EvalTablesOK
<1>5. /\ job.phase = "deciding" /\ job.command = old.command
      /\ job.records = old.records /\ job.events = evalEvents /\ job.at = old.at
  BY <1>3
<1> HIDE DEF job
<1>6. ASSUME NEW e \in EvaluationIds
      PROVE  job.events[e] \in Seq(EvalEvent) /\ StoredCopy(job, e, evalEvents[e])
  <2>1. evalEvents[e] \in Seq(EvalEvent)
    BY TrailIsSeq DEF EvalInv
  <2>2. \A i \in DOMAIN evalEvents[e] : IsStored(evalEvents[e], evalEvents[e], i)
    BY DEF IsStored
  <2>3. old.records[e] # None => RecordIn(old.records[e], evalEvents[e])
    BY <1>1, <1>2 DEF EvalJobOK
  <2> QED
    BY <1>5, <2>1, <2>2, <2>3 DEF StoredCopy
<1>7. /\ \A e \in EvaluationIds : FreshIn(w, job, evalEvents[e])
      /\ job.command.type # "FINALIZED" =>
            /\ NamedOK(job.command, evalRecords[job.command.evaluation],
                       evalEvents[job.command.evaluation])
            /\ job.records[job.command.evaluation] # None
      /\ job.records = [e \in EvaluationIds |-> job.records[e]]
  BY <1>1, <1>2, <1>5 DEF EvalJobOK, LoadedPhases, FreshIn
<1>8. job.events = [e \in EvaluationIds |-> job.events[e]]
  BY <1>4, <1>5
<1>9. EvalJobOK(w, job, evalRecords, evalEvents)
  BY <1>2, <1>3, <1>5, <1>6, <1>7, <1>8
     DEF EvalJobOK, EvalPhases, LoadedPhases, CopyPhases
<1> QED
  BY <1>1, <1>5, <1>9, EvalJobStep

\* A worker goes on to save what it holds.
LEMMA CopyKeptOK ==
    ASSUME NEW w, NEW old, NEW job, NEW rows, NEW trails,
           EvalJobOK(w, old, rows, trails), old.phase \in {"deciding", "saving"},
           job \in [phase : {"saving", "waiting"}, command : {old.command},
                    records : {old.records}, events : {old.events},
                    keys : {job.keys}, counted : {job.counted}, at : {old.at}]
    PROVE  EvalJobOK(w, job, rows, trails)
<1>1. /\ job.phase \in EvalPhases /\ job.phase \in CopyPhases
      /\ job.phase \in LoadedPhases
      /\ job.phase \notin {"idle", "checking", "reporting", "events", "deciding"}
      /\ old.phase \in LoadedPhases /\ old.phase \in CopyPhases
      /\ old.phase \notin {"idle", "checking"}
  BY DEF EvalPhases, LoadedPhases, CopyPhases
<1>2. /\ job.command = old.command /\ job.records = old.records
      /\ job.events = old.events /\ job.at = old.at
  OBVIOUS
<1>3. ASSUME NEW e \in EvaluationIds
      PROVE  CopyOK(w, job, e, trails[e]) /\ FreshIn(w, job, trails[e])
  <2>1. CopyOK(w, old, e, trails[e])
    BY DEF EvalJobOK, CopyOK
  <2>2. FreshIn(w, old, trails[e])
    BY <1>1 DEF EvalJobOK
  <2> QED
    BY <1>2, <2>1, <2>2 DEF CopyOK, StoredCopy, OwnCopy, OwnEvent, FreshIn
<1>4. old.at \in Nat
  BY DEF EvalJobOK
<1>5. job.command.type # "FINALIZED" =>
          NamedOK(job.command, rows[job.command.evaluation],
                  trails[job.command.evaluation])
  BY <1>1, <1>2 DEF EvalJobOK
<1> QED
  BY <1>1, <1>2, <1>3, <1>4, <1>5 DEF EvalJobOK

LEMMA ReplayEvalCommandOK ==
    ASSUME EvalInv, NEW w \in EvalWorkers, ReplayEvalCommand(w)
    PROVE  EvalInv'
<1> DEFINE old == evalJob[w]
           job == [old EXCEPT !.phase = "saving", !.keys = evalKeys]
<1>1. /\ old.phase = "deciding" /\ evalJob' = [evalJob EXCEPT ![w] = job]
      /\ UNCHANGED <<evalRecords, evalEvents, evalReports, evalCommands>>
  BY DEF ReplayEvalCommand
<1>2. EvalJobOK(w, old, evalRecords, evalEvents)
  BY EvalJobFacts
<1>3. job \in [phase : {"saving"}, command : {old.command},
               records : {old.records}, events : {old.events}, keys : {evalKeys},
               counted : {old.counted}, at : {old.at}]
  BY <1>2 DEF EvalJobOK
<1> HIDE DEF job
<1>4. EvalJobOK(w, job, evalRecords, evalEvents)
  BY <1>1, <1>2, <1>3, CopyKeptOK
<1> QED
  BY <1>1, <1>3, <1>4, EvalJobStep

LEMMA StartEvalSaveOK ==
    ASSUME EvalInv, NEW w \in EvalWorkers, StartEvalSave(w)
    PROVE  EvalInv'
<1> DEFINE old == evalJob[w]
           counted == Len(evalEvents[FirstSaved(evalJob[w])])
           job == [old EXCEPT !.phase = "waiting", !.counted = counted]
<1>1. /\ old.phase = "saving" /\ evalJob' = [evalJob EXCEPT ![w] = job]
      /\ UNCHANGED <<evalRecords, evalEvents, evalReports, evalCommands>>
  BY DEF StartEvalSave
<1>2. EvalJobOK(w, old, evalRecords, evalEvents)
  BY EvalJobFacts
<1> HIDE DEF counted
<1>3. job \in [phase : {"waiting"}, command : {old.command},
               records : {old.records}, events : {old.events}, keys : {old.keys},
               counted : {counted}, at : {old.at}]
  BY <1>2 DEF EvalJobOK
<1> HIDE DEF job
<1>4. EvalJobOK(w, job, evalRecords, evalEvents)
  BY <1>1, <1>2, <1>3, CopyKeptOK
<1> QED
  BY <1>1, <1>3, <1>4, EvalJobStep

\* What an event appended to a list makes of it
LEMMA AppendedAtEnd ==
    ASSUME NEW S, NEW copy \in Seq(S), NEW event \in S,
           NEW n, n = Len(copy) + 1
    PROVE  /\ n \in Nat \ {0} /\ n - 1 = Len(copy) /\ DOMAIN copy = 1 .. n - 1
           /\ DOMAIN Append(copy, event) = 1 .. n
           /\ Append(copy, event)[n] = event
           /\ \A i \in 1 .. n :
                 i # n => i \in DOMAIN copy /\ Append(copy, event)[i] = copy[i]
<1> DEFINE longer == Append(copy, event)
<1>1. PICK m \in Nat : m = Len(copy)
  OBVIOUS
<1>2. /\ n \in Nat \ {0} /\ n - 1 = m /\ n = m + 1
      /\ DOMAIN copy = 1 .. m
  BY <1>1
<1>3. /\ DOMAIN longer = 1 .. m + 1 /\ longer[m + 1] = event
      /\ \A i \in 1 .. m : longer[i] = copy[i]
  BY <1>1
<1> HIDE DEF longer
<1>4. \A i \in 1 .. n : i # n => i \in 1 .. m
  BY <1>2
<1> QED
  BY <1>1, <1>2, <1>3, <1>4 DEF longer

\* The list of a copy after event n is added to it
Adds(job, copy, events, n, event) ==
    /\ n \in Nat \ {0} /\ DOMAIN copy = 1 .. n - 1
    /\ DOMAIN events = IF job.command.type = "FINALIZED" THEN {n} ELSE 1 .. n
    /\ events[n] = event
    /\ \A i \in DOMAIN events : i # n => i \in DOMAIN copy /\ events[i] = copy[i]

\* What the event of a worker makes of the list that it has loaded
LEMMA EventsOfCommand ==
    ASSUME NEW w, NEW job, job.events[job.command.evaluation] \in Seq(EvalEvent),
           OwnEvent(w, job) \in EvalEvent
    PROVE  Adds(job, job.events[job.command.evaluation], EventsWith(job, w),
                NextEventId(job), OwnEvent(w, job))
<1> DEFINE own == OwnEvent(w, job)
           copy == job.events[job.command.evaluation]
           events == EventsWith(job, w)
           n == NextEventId(job)
           longer == Append(copy, own)
<1> SUFFICES Adds(job, copy, events, n, own)
  OBVIOUS
<1>0. copy \in Seq(EvalEvent)
  OBVIOUS
<1>1. n = Len(copy) + 1 /\ own \in EvalEvent
  BY DEF NextEventId
<1>2. /\ n \in Nat \ {0} /\ n - 1 = Len(copy) /\ DOMAIN copy = 1 .. n - 1
      /\ DOMAIN longer = 1 .. n /\ longer[n] = own
      /\ \A i \in 1 .. n : i # n => i \in DOMAIN copy /\ longer[i] = copy[i]
  BY ONLY <1>0, <1>1, AppendedAtEnd
<1>3. events = IF job.command.type = "FINALIZED" THEN [i \in {n} |-> own]
               ELSE longer
  BY DEF EventsWith, OwnEvent
<1> HIDE DEF own, copy, events, n, longer
<1>5. CASE job.command.type = "FINALIZED"
  <2>1. DOMAIN events = {n} /\ events[n] = own
    BY <1>3, <1>5
  <2>2. \A i \in DOMAIN events : i = n
    BY <2>1
  <2> QED
    BY ONLY <1>2, <1>5, <2>1, <2>2 DEF Adds
<1>6. CASE job.command.type # "FINALIZED"
  <2>1. events = longer
    BY <1>3, <1>6
  <2>2. /\ DOMAIN events = 1 .. n /\ events[n] = own
        /\ \A i \in DOMAIN events : i # n => i \in DOMAIN copy /\ events[i] = copy[i]
    BY ONLY <1>2, <2>1
  <2> QED
    BY ONLY <1>2, <1>6, <2>2 DEF Adds
<1> QED
  BY <1>5, <1>6

\* What a worker adds is right in its copy.
LEMMA EventAdded ==
    ASSUME NEW w \in EvalWorkers, NEW old, NEW rows, NEW trails,
           EvalJobOK(w, old, rows, trails), old.phase = "deciding",
           NEW e \in EvaluationIds, e = old.command.evaluation,
           NEW job, job.command = old.command, job.at = old.at,
           job.records[e] = RecordWith(old), job.events[e] = EventsWith(old, w)
    PROVE  CopyOK(w, job, e, trails[e]) /\ job.records[e] # None
<1> DEFINE own == OwnEvent(w, old)
           copy == old.events[e]
           before == old.records[e]
           record == job.records[e]
           events == job.events[e]
           trail == trails[e]
           n == NextEventId(old)
<1>1. /\ old.command \in EvalCommand /\ old.at \in Nat
      /\ old.command.type # "FINALIZED" => before # None
      /\ copy \in Seq(EvalEvent) /\ StoredCopy(old, e, trail)
  BY DEF EvalJobOK, LoadedPhases
<1>2. own \in EvalEvent /\ OwnEvent(w, job) = own
  BY <1>1 DEF OwnEvent, EvalEvent, EvalCommand
<1>3. /\ n \in Nat \ {0} /\ DOMAIN copy = 1 .. n - 1
      /\ DOMAIN events = IF old.command.type = "FINALIZED" THEN {n} ELSE 1 .. n
      /\ events[n] = own
      /\ \A i \in DOMAIN events : i # n => i \in DOMAIN copy /\ events[i] = copy[i]
  <2>1. Adds(old, old.events[old.command.evaluation], EventsWith(old, w),
             NextEventId(old), OwnEvent(w, old))
    BY <1>1, <1>2, EventsOfCommand
  <2>2. Adds(old, copy, events, n, own)
    BY <2>1
  <2> HIDE DEF copy, events, n, own
  <2> QED
    BY <2>2 DEF Adds
<1>4. /\ \A i \in DOMAIN copy : IsStored(trail, copy, i)
      /\ before # None => RecordIn(before, trail)
  BY <1>1 DEF StoredCopy
<1>5. record = RecordWith(old)
  OBVIOUS
<1>6. /\ record \in EvalRecord
      /\ IF old.command.type = "FINALIZED"
           THEN record.created_by = old.command.actor
           ELSE MadeBy(trail, record.created_by)
      /\ \A i \in record.attached :
            ListedIn(trail, i) \/ (i = n /\ old.command.type \in ListedTypes)
  <2>1. CASE old.command.type = "FINALIZED"
    <3>1. record = [created_by |-> old.command.actor, attached |-> {}]
      BY <1>5, <2>1 DEF RecordWith
    <3> QED
      BY <1>1, <2>1, <3>1 DEF EvalRecord, EvalCommand
  <2>2. CASE old.command.type # "FINALIZED"
    <3> DEFINE added == IF old.command.type \in ListedTypes THEN {n} ELSE {}
    <3>1. record = [before EXCEPT !.attached = @ \cup added]
      BY <1>5, <2>2 DEF RecordWith
    <3>2. RecordIn(before, trail)
      BY <1>1, <1>4, <2>2
    <3>3. added \subseteq Nat \ {0} /\ added \subseteq {n}
          /\ (added # {} => old.command.type \in ListedTypes)
      BY <1>3
    <3> HIDE DEF added, record, before, n, trail
    <3>4. before \in EvalRecord /\ MadeBy(trail, before.created_by)
          /\ \A i \in before.attached : ListedIn(trail, i)
      BY <3>2 DEF RecordIn
    <3>5. /\ record.created_by = before.created_by
          /\ record.attached = before.attached \cup added
          /\ record \in EvalRecord
      BY <3>1, <3>3, <3>4 DEF EvalRecord
    <3>6. \A i \in added : i = n /\ old.command.type \in ListedTypes
      BY <3>3
    <3>7. MadeBy(trail, record.created_by)
      BY <3>4, <3>5
    <3>8. \A i \in record.attached :
              ListedIn(trail, i) \/ (i = n /\ old.command.type \in ListedTypes)
      <4>1. \A i \in record.attached : i \in before.attached \/ i \in added
        BY <3>5
      <4> QED
        BY <3>4, <3>6, <4>1
    <3> QED
      BY <2>2, <3>5, <3>7, <3>8
  <2> QED
    BY <2>1, <2>2
<1>7. record # None
  BY <1>6, EvalAssumption DEF EvalAssumption
<1>8. \A i \in DOMAIN events : i # n => IsStored(trail, events, i)
  BY <1>3, <1>4 DEF IsStored
<1>9. 1 .. n - 1 \subseteq DOMAIN trail
  BY <1>3, <1>4 DEF IsStored
<1> HIDE DEF own, copy, before, record, events, n, trail
<1>10. OwnCopy(w, job, e, trail, n)
  BY <1>2, <1>3, <1>6, <1>8, <1>9 DEF OwnCopy, record, events
<1> QED
  BY <1>3, <1>7, <1>10 DEF CopyOK, record, trail

LEMMA RecordEvalEventOK ==
    ASSUME EvalInv, NEW w \in EvalWorkers, RecordEvalEvent(w)
    PROVE  EvalInv'
<1> DEFINE old == evalJob[w]
           e == old.command.evaluation
           events == EventsWith(old, w)
           record == RecordWith(old)
<1>1. PICK keys :
         evalJob' = [evalJob EXCEPT ![w] =
             [old EXCEPT !.phase = "saving", !.events[e] = events,
                         !.records[e] = record, !.keys = keys]]
  BY DEF RecordEvalEvent
<1> DEFINE job == [old EXCEPT !.phase = "saving", !.events[e] = events,
                              !.records[e] = record, !.keys = keys]
<1>2. /\ old.phase = "deciding" /\ evalJob' = [evalJob EXCEPT ![w] = job]
      /\ UNCHANGED <<evalRecords, evalEvents, evalReports, evalCommands>>
  BY <1>1 DEF RecordEvalEvent
<1>3. /\ EvalJobOK(w, old, evalRecords, evalEvents) /\ e \in EvaluationIds
      /\ old.command \in EvalCommand /\ old.at \in Nat
  BY <1>2, EvalJobFacts
<1>4. /\ old.events = [d \in EvaluationIds |-> old.events[d]]
      /\ old.records = [d \in EvaluationIds |-> old.records[d]]
  BY <1>2, <1>3 DEF EvalJobOK, CopyPhases, LoadedPhases
<1> HIDE DEF events, record
<1>5. job \in [phase : {"saving"}, command : {old.command},
               records : {[old.records EXCEPT ![e] = record]},
               events : {[old.events EXCEPT ![e] = events]}, keys : {keys},
               counted : {old.counted}, at : {old.at}]
  BY <1>3 DEF EvalJobOK
<1> HIDE DEF job
<1>6. /\ job.command = old.command /\ job.at = old.at /\ job.phase = "saving"
      /\ job.records = [old.records EXCEPT ![e] = record]
      /\ job.events = [old.events EXCEPT ![e] = events]
  BY <1>5
<1>7. /\ \A d \in EvaluationIds :
            /\ job.records[d] = IF d = e THEN record ELSE old.records[d]
            /\ job.events[d] = IF d = e THEN events ELSE old.events[d]
      /\ job.events = [d \in EvaluationIds |-> job.events[d]]
      /\ job.records = [d \in EvaluationIds |-> job.records[d]]
  BY <1>4, <1>6
<1>8. CopyOK(w, job, e, evalEvents[e]) /\ job.records[e] # None
  <2>1. job.records[e] = RecordWith(old) /\ job.events[e] = EventsWith(old, w)
    BY <1>3, <1>7 DEF events, record
  <2>2. e = old.command.evaluation
    OBVIOUS
  <2>3. /\ EvalJobOK(w, old, evalRecords, evalEvents) /\ old.phase = "deciding"
        /\ e \in EvaluationIds /\ job.command = old.command /\ job.at = old.at
    BY <1>2, <1>3, <1>6
  <2> HIDE DEF old, e
  <2> QED
    BY ONLY w \in EvalWorkers, <2>1, <2>2, <2>3, EventAdded
<1>9. ASSUME NEW d \in EvaluationIds
      PROVE  CopyOK(w, job, d, evalEvents[d])
  <2>1. CASE d = e
    BY <1>8, <2>1
  <2>2. CASE d # e
    <3>1. StoredCopy(old, d, evalEvents[d])
      BY <1>2, <1>3 DEF EvalJobOK
    <3>2. job.records[d] = old.records[d] /\ job.events[d] = old.events[d]
      BY <1>7, <2>2
    <3> QED
      BY <3>1, <3>2 DEF CopyOK, StoredCopy
  <2> QED
    BY <2>1, <2>2
<1>10. EvalJobOK(w, job, evalRecords, evalEvents)
  <2>1. /\ job.phase \in EvalPhases
        /\ job.phase \notin {"idle", "checking", "reporting", "events", "deciding"}
        /\ old.phase \notin {"idle", "checking"}
    BY <1>2, <1>6 DEF EvalPhases
  <2>2. \A d \in EvaluationIds : FreshIn(w, job, evalEvents[d])
    <3>1. \A d \in EvaluationIds : FreshIn(w, old, evalEvents[d])
      BY <1>2, <1>3 DEF EvalJobOK
    <3>2. job.at = old.at
      BY <1>6
    <3> QED
      BY <3>1, <3>2 DEF FreshIn
  <2>3. job.command.type # "FINALIZED" =>
            NamedOK(job.command, evalRecords[e], evalEvents[e])
    BY <1>3, <1>6, <2>1 DEF EvalJobOK
  <2>4. job \in [phase : EvalPhases, command : {job.command},
                 records : {job.records}, events : {job.events},
                 keys : {job.keys}, counted : {job.counted}, at : Nat]
    BY <1>3, <1>5 DEF EvalPhases
  <2> HIDE DEF old
  <2> QED
    BY <1>3, <1>6, <1>7, <1>8, <1>9, <2>1, <2>2, <2>3, <2>4 DEF EvalJobOK
<1> QED
  BY <1>2, <1>6, <1>10, EvalJobStep

LEMMA CommitEvalSaveOK ==
    ASSUME EvalInv, NEW w \in EvalWorkers, CommitEvalSave(w)
    PROVE  EvalInv'
<1> DEFINE old == evalJob[w]
<1>1. /\ old.phase = "waiting" /\ EvalSaveable(old)
      /\ evalRecords' = [e \in EvaluationIds |->
             IF old.records[e] = None THEN evalRecords[e] ELSE old.records[e]]
      /\ evalEvents' = [e \in EvaluationIds |->
             EventsAfter(evalEvents[e], old.events[e])]
      /\ evalJob' = [evalJob EXCEPT ![w] = IdleEvalJob]
      /\ evalReports' = evalReports /\ evalCommands' = evalCommands
  BY DEF CommitEvalSave
<1>2. /\ EvalJobOK(w, old, evalRecords, evalEvents) /\ old.at \in Nat
      /\ old.command \in EvalCommand /\ old.at < evalCommands
  BY <1>1, EvalJobFacts
<1>3. evalCommands \in Nat
  BY DEF EvalInv, EvalTablesOK
<1>4. ASSUME NEW e \in EvaluationIds
      PROVE  SavedOK(w, old, evalCommands, evalRecords[e], evalRecords'[e],
                     evalEvents[e], evalEvents'[e])
  <2>1. TrailOK(evalRecords[e], evalEvents[e], evalCommands)
    BY DEF EvalInv
  <2>2. /\ CopyOK(w, old, e, evalEvents[e])
        /\ FreshIn(w, old, evalEvents[e])
    BY <1>1, <1>2 DEF EvalJobOK
  <2>3. e = old.command.evaluation /\ old.command.type # "FINALIZED" =>
            NamedOK(old.command, evalRecords[e], evalEvents[e])
    BY <1>1, <1>2 DEF EvalJobOK
  <2>4. EventsAdmitted(evalEvents[e], old.events[e])
    BY <1>1 DEF EvalSaveable
  <2>5. /\ evalRecords'[e] = RowAfter(old.records[e], evalRecords[e])
        /\ evalEvents'[e] = EventsAfter(evalEvents[e], old.events[e])
    BY <1>1 DEF RowAfter
  <2> HIDE DEF old
  <2>6. SavedOK(w, old, evalCommands, evalRecords[e],
                RowAfter(old.records[e], evalRecords[e]), evalEvents[e],
                EventsAfter(evalEvents[e], old.events[e]))
    BY <1>2, <1>3, <2>1, <2>2, <2>3, <2>4, EvaluationSaved
  <2> QED
    BY <2>5, <2>6
<1>5. \A e \in EvaluationIds :
          /\ Extends(evalEvents'[e], evalEvents[e])
          /\ evalRecords[e] # None => evalRecords'[e] # None
  BY <1>4 DEF SavedOK
<1>6. \A u \in EvalWorkers :
          evalJob'[u] = IF u = w THEN IdleEvalJob ELSE evalJob[u]
  BY <1>1 DEF EvalInv, EvalTablesOK
<1>7. ASSUME NEW u \in EvalWorkers
      PROVE  /\ EvalJobOK(u, evalJob'[u], evalRecords', evalEvents')
             /\ evalJob'[u].phase # "idle" => evalJob'[u].at < evalCommands
  <2>1. CASE u = w
    BY <1>6, <2>1, IdleEvalJobOK
  <2>2. CASE u # w
    <3>1. evalJob'[u] = evalJob[u]
      BY <1>6, <2>2
    <3>2. EvalJobOK(u, evalJob[u], evalRecords, evalEvents)
      BY EvalJobFacts
    <3>3. ASSUME evalJob[u].phase # "idle", NEW e \in EvaluationIds
          PROVE  FreshIn(u, evalJob[u], evalEvents'[e])
      <4>1. FreshIn(u, evalJob[u], evalEvents[e])
        BY <3>2, <3>3 DEF EvalJobOK
      <4> QED
        BY <1>4, <2>2, <4>1 DEF FreshIn, IsStored, SavedOK
    <3>4. EvalJobOK(u, evalJob[u], evalRecords', evalEvents')
      BY <1>5, <3>2, <3>3, EvalJobStays
    <3>5. evalJob[u].phase # "idle" => evalJob[u].at < evalCommands
      BY DEF EvalInv
    <3> QED
      BY <3>1, <3>4, <3>5
  <2> QED
    BY <2>1, <2>2
<1>8. \A e \in evalReports : SignedOff(evalEvents'[e])
  BY <1>5, FoundLater DEF EvalInv, EvalTablesOK
<1>9. /\ evalRecords' = [e \in EvaluationIds |-> evalRecords'[e]]
      /\ evalEvents' = [e \in EvaluationIds |-> evalEvents'[e]]
      /\ evalJob' = [u \in EvalWorkers |-> evalJob'[u]]
      /\ evalReports \subseteq EvaluationIds
  BY <1>1 DEF EvalInv, EvalTablesOK
<1> QED
  BY <1>1, <1>3, <1>4, <1>7, <1>8, <1>9 DEF EvalInv, EvalTablesOK, SavedOK

LEMMA EvalNextOK ==
    ASSUME EvalInv, [EvalNext]_evalVars
    PROVE  EvalInv'
<1>1. CASE UNCHANGED evalVars
  BY <1>1 DEF evalVars, EvalInv, EvalTablesOK
<1>2. ASSUME NEW w \in EvalWorkers,
             EndAtCheck(w) \/ RefuseEvalCommand(w) \/ RollBackEvalSave(w)
                \/ EvalWorkerDies(w)
      PROVE  EvalInv'
  BY <1>2, EvalEndStep
     DEF EndAtCheck, RefuseEvalCommand, RollBackEvalSave, EvalWorkerDies
<1> QED
  BY <1>1, <1>2, StartEvalCommandOK, CheckEvaluationOK, RequestPolicyReportOK,
     LoadRecordsOK, LoadEvalEventsOK, ReplayEvalCommandOK, RecordEvalEventOK,
     StartEvalSaveOK, CommitEvalSaveOK DEF EvalNext

-----------------------------------------------------------------------------
\* The theorems.

\* In every reachable state the stored evaluations are well formed and what a
\* worker holds is a copy of them, with at most one event of its own.
THEOREM EvalInvariant == EvalSpec => []EvalInv
<1> QED
  BY EvalInitOK, EvalNextOK, PTL DEF EvalSpec

\* However often the same evidence is finalized, by whomever, the audit trail
\* starts with a finalization, the record names the maker of one, and it lists
\* only reviews, sign-offs and reports of the trail.
THEOREM EvaluationTrailsCorrect == EvalSpec => []RecordMatchesTrail
<1>1. ASSUME EvalInv, NEW e \in EvaluationIds, evalRecords[e] = None
      PROVE  evalEvents[e] = <<>>
  BY <1>1 DEF EvalInv, TrailOK
<1>2. ASSUME EvalInv, NEW e \in EvaluationIds, evalRecords[e] # None
      PROVE  /\ 1 \in Finalizations(evalEvents[e])
             /\ \E i \in Finalizations(evalEvents[e]) :
                   evalEvents[e][i].actor = evalRecords[e].created_by
             /\ \A i \in evalRecords[e].attached :
                   /\ i \in DOMAIN evalEvents[e]
                   /\ evalEvents[e][i].type \in ListedTypes
  <2> DEFINE trail == evalEvents[e]
             record == evalRecords[e]
  <2>1. /\ trail \in Seq(EvalEvent) /\ trail # <<>>
        /\ trail[1].type = "FINALIZED" /\ RecordIn(record, trail)
    BY <1>2 DEF EvalInv, TrailOK
  <2> HIDE DEF trail, record
  <2>2. 1 \in DOMAIN trail
    BY <2>1
  <2> QED
    BY <2>1, <2>2 DEF RecordIn, MadeBy, ListedIn, Finalizations, trail, record
<1>3. EvalInv => RecordMatchesTrail
  BY <1>1, <1>2 DEF RecordMatchesTrail
<1> QED
  BY <1>3, EvalInvariant, PTL

\* An approval in an audit trail stands after a finalization by somebody else,
\* though its actor may have finalized the same evidence, too.
THEOREM EvaluationSignOffsChecked == EvalSpec => []SignOffsHaveAnotherMaker
<1>1. ASSUME EvalInv, NEW e \in EvaluationIds, NEW i \in DOMAIN evalEvents[e],
             evalEvents[e][i].type = "SIGN_OFF"
      PROVE  \E j \in Finalizations(evalEvents[e]) :
                 j < i /\ evalEvents[e][j].actor # evalEvents[e][i].actor
  <2>1. TrailOK(evalRecords[e], evalEvents[e], evalCommands)
    BY <1>1 DEF EvalInv
  <2>2. Founded(evalEvents[e], i)
    BY <2>1, EventHasRecord DEF TrailOK
  <2> QED
    BY <1>1, <2>2 DEF Founded, Finalizations
<1>2. EvalInv => SignOffsHaveAnotherMaker
  BY <1>1 DEF SignOffsHaveAnotherMaker
<1> QED
  BY <1>2, EvalInvariant, PTL

\* No report is sent, and none is recorded, without a sign-off before it.
THEOREM EvaluationReportsSignedOff == EvalSpec => []ReportsFollowSignOff
<1>1. ASSUME EvalInv, NEW e \in EvaluationIds, NEW i \in DOMAIN evalEvents[e],
             evalEvents[e][i].type = "REPORT_ARCHIVE"
      PROVE  SignedOff(SubSeq(evalEvents[e], 1, i))
  <2> DEFINE trail == evalEvents[e]
  <2>1. TrailOK(evalRecords[e], trail, evalCommands)
    BY <1>1 DEF EvalInv
  <2>2. trail \in Seq(EvalEvent)
    BY <2>1, TrailIsSeq
  <2>3. Founded(trail, i)
    BY <2>1, EventHasRecord DEF TrailOK
  <2>4. PICK j \in DOMAIN trail : j < i /\ trail[j].type = "SIGN_OFF"
    BY <1>1, <2>3 DEF Founded
  <2> HIDE DEF trail
  <2>5. i \in 1 .. Len(trail) /\ j \in 1 .. Len(trail) /\ Len(trail) \in Nat
    BY <1>1, <2>2, <2>4 DEF trail
  <2>6. /\ j \in DOMAIN SubSeq(trail, 1, i)
        /\ SubSeq(trail, 1, i)[j] = trail[j]
    BY <2>2, <2>4, <2>5
  <2> QED
    BY <2>4, <2>6 DEF SignedOff, trail
<1>2. EvalInv => ReportsFollowSignOff
  BY <1>1 DEF EvalInv, ReportsFollowSignOff
<1> QED
  BY <1>2, EvalInvariant, PTL

-----------------------------------------------------------------------------
\* When records list their events.

\* The record of a trail, if there is one, lists the reviews, sign-offs and
\* reports of the trail.
Lists(record, trail) ==
    record # None =>
        \A i \in DOMAIN trail : trail[i].type \in ListedTypes => i \in record.attached

\* A worker's records list their events, and the count that its save compares
\* with is the one that is stored.
ListsJobOK(job, trails) ==
    /\ job.phase = "events" =>
          \A e \in EvaluationIds : Lists(job.records[e], trails[e])
    /\ job.phase \in CopyPhases =>
          \A e \in EvaluationIds : Lists(job.records[e], job.events[e])
    /\ job.phase = "waiting" => job.counted = Len(trails[FirstSaved(job)])

ListsInv ==
    /\ RecordListsItsEvents
    /\ \A w \in EvalWorkers : ListsJobOK(evalJob[w], evalEvents)

\* No other worker adds an event while one is between its two loads, or waits
\* for the savers before it.
SnapshotsUndisturbed ==
    \A w \in EvalWorkers :
        evalJob[w].phase \in {"events", "waiting"} /\ evalJob'[w] = evalJob[w] =>
            UNCHANGED evalEvents

\* Nothing that is stored changes, and one worker goes on, or ends.
LEMMA ListsStep ==
    ASSUME EvalInv, ListsInv, NEW w \in EvalWorkers, NEW job,
           evalJob' = [evalJob EXCEPT ![w] = job],
           UNCHANGED <<evalRecords, evalEvents>>,
           ListsJobOK(job, evalEvents)
    PROVE  ListsInv'
<1>1. \A u \in EvalWorkers : evalJob'[u] = IF u = w THEN job ELSE evalJob[u]
  BY DEF EvalInv, EvalTablesOK
<1>2. \A u \in EvalWorkers : ListsJobOK(evalJob'[u], evalEvents)
  BY <1>1 DEF ListsInv
<1>3. RecordListsItsEvents'
  BY DEF ListsInv, RecordListsItsEvents
<1> QED
  BY <1>2, <1>3 DEF ListsInv

\* Before a worker has loaded the records it holds nothing.
LEMMA NothingListed ==
    ASSUME NEW job, NEW trails, job.phase \notin LoadedPhases
    PROVE  ListsJobOK(job, trails)
BY DEF ListsJobOK, LoadedPhases, CopyPhases

\* Steps of a worker that has no records, or gives them up
LEMMA ListsBeforeLoad ==
    ASSUME EvalInv, ListsInv, NEW w \in EvalWorkers,
           \/ StartEvalCommand(w) \/ CheckEvaluation(w) \/ EndAtCheck(w)
           \/ RequestPolicyReport(w) \/ RefuseEvalCommand(w)
           \/ RollBackEvalSave(w) \/ EvalWorkerDies(w)
    PROVE  ListsInv'
<1> DEFINE job == evalJob'[w]
<1>1. /\ evalJob = [u \in EvalWorkers |-> evalJob[u]]
      /\ EvalJobOK(w, evalJob[w], evalRecords, evalEvents)
  BY DEF EvalInv, EvalTablesOK
<1>2. /\ evalJob' = [evalJob EXCEPT ![w] = job]
      /\ job.phase \in {"idle", "loading", "checking", "reporting"}
  <2>1. CASE StartEvalCommand(w)
    BY <1>1, <2>1 DEF StartEvalCommand, IdleEvalJob
  <2>2. CASE CheckEvaluation(w)
    BY <1>1, <2>2 DEF CheckEvaluation, EvalJobOK
  <2>3. CASE RequestPolicyReport(w)
    BY <1>1, <2>3 DEF RequestPolicyReport, EvalJobOK
  <2>4. CASE \/ EndAtCheck(w) \/ RefuseEvalCommand(w) \/ RollBackEvalSave(w)
             \/ EvalWorkerDies(w)
    BY <1>1, <2>4 DEF EndAtCheck, RefuseEvalCommand, RollBackEvalSave,
                      EvalWorkerDies, IdleEvalJob
  <2> QED
    BY <2>1, <2>2, <2>3, <2>4
<1>3. UNCHANGED <<evalRecords, evalEvents>>
  BY DEF StartEvalCommand, CheckEvaluation, EndAtCheck, RequestPolicyReport,
         RefuseEvalCommand, RollBackEvalSave, EvalWorkerDies
<1> HIDE DEF job
<1>4. ListsJobOK(job, evalEvents)
  BY <1>2, NothingListed DEF LoadedPhases
<1> QED
  BY <1>2, <1>3, <1>4, ListsStep

\* The first saved evaluation depends on the records only.
LEMMA FirstSavedOfRecords ==
    ASSUME NEW job, NEW other, job.records = other.records
    PROVE  FirstSaved(job) = FirstSaved(other)
BY DEF FirstSaved

\* Loads, replays and the start of a save take the copy as it is.
LEMMA ListsCopied ==
    ASSUME EvalInv, ListsInv, NEW w \in EvalWorkers,
           \/ LoadRecords(w) \/ LoadEvalEvents(w)
           \/ ReplayEvalCommand(w) \/ StartEvalSave(w)
    PROVE  ListsInv'
<1> DEFINE old == evalJob[w]
           job == evalJob'[w]
<1>1. /\ evalJob = [u \in EvalWorkers |-> evalJob[u]]
      /\ EvalJobOK(w, old, evalRecords, evalEvents)
      /\ ListsJobOK(old, evalEvents)
  BY DEF EvalInv, EvalTablesOK, ListsInv
<1>2. UNCHANGED <<evalRecords, evalEvents>>
  BY DEF LoadRecords, LoadEvalEvents, ReplayEvalCommand, StartEvalSave
<1>3. CASE LoadRecords(w)
  <2>1. /\ evalJob' = [evalJob EXCEPT ![w] = job]
        /\ job.phase = "events" /\ job.records = evalRecords
    BY <1>1, <1>3 DEF LoadRecords, EvalJobOK
  <2> HIDE DEF job
  <2>2. ListsJobOK(job, evalEvents)
    BY <2>1 DEF ListsJobOK, Lists, CopyPhases, ListsInv, RecordListsItsEvents
  <2> QED
    BY <1>2, <2>1, <2>2, ListsStep
<1>4. CASE LoadEvalEvents(w)
  <2>1. /\ evalJob' = [evalJob EXCEPT ![w] = job]
        /\ job.phase = "deciding" /\ job.records = old.records
        /\ job.events = evalEvents /\ old.phase = "events"
    BY <1>1, <1>4 DEF LoadEvalEvents, EvalJobOK
  <2> HIDE DEF job, old
  <2>2. ListsJobOK(job, evalEvents)
    BY <1>1, <2>1 DEF ListsJobOK
  <2> QED
    BY <1>2, <2>1, <2>2, ListsStep
<1>5. CASE ReplayEvalCommand(w)
  <2>1. /\ evalJob' = [evalJob EXCEPT ![w] = job]
        /\ job.phase = "saving" /\ job.records = old.records
        /\ job.events = old.events /\ old.phase = "deciding"
    BY <1>1, <1>5 DEF ReplayEvalCommand, EvalJobOK
  <2> HIDE DEF job, old
  <2>2. ListsJobOK(job, evalEvents)
    BY <1>1, <2>1 DEF ListsJobOK, CopyPhases
  <2> QED
    BY <1>2, <2>1, <2>2, ListsStep
<1>6. CASE StartEvalSave(w)
  <2>1. /\ evalJob' = [evalJob EXCEPT ![w] = job]
        /\ job.phase = "waiting" /\ job.records = old.records
        /\ job.events = old.events /\ old.phase = "saving"
        /\ job.counted = Len(evalEvents[FirstSaved(old)])
    BY <1>1, <1>6 DEF StartEvalSave, EvalJobOK
  <2> HIDE DEF job, old
  <2>2. FirstSaved(job) = FirstSaved(old)
    BY <2>1, FirstSavedOfRecords
  <2>3. ListsJobOK(job, evalEvents)
    BY <1>1, <2>1, <2>2 DEF ListsJobOK, CopyPhases
  <2> QED
    BY <1>2, <2>1, <2>3, ListsStep
<1> QED
  BY <1>3, <1>4, <1>5, <1>6

\* A recorded event is listed by the record that it is recorded with.
LEMMA EventListed ==
    ASSUME NEW w \in EvalWorkers, NEW old, NEW rows, NEW trails,
           EvalJobOK(w, old, rows, trails), old.phase = "deciding",
           NEW e \in EvaluationIds, e = old.command.evaluation,
           Lists(old.records[e], old.events[e])
    PROVE  Lists(RecordWith(old), EventsWith(old, w))
<1> DEFINE own == OwnEvent(w, old)
           copy == old.events[e]
           before == old.records[e]
           record == RecordWith(old)
           events == EventsWith(old, w)
           n == NextEventId(old)
<1> SUFFICES ASSUME NEW i \in DOMAIN events, events[i].type \in ListedTypes
             PROVE  i \in record.attached
  BY DEF Lists
<1>1. /\ old.command \in EvalCommand /\ old.at \in Nat
      /\ old.command.type # "FINALIZED" => before # None
      /\ copy \in Seq(EvalEvent) /\ StoredCopy(old, e, trails[e])
  BY DEF EvalJobOK, LoadedPhases
<1>2. own \in EvalEvent /\ own.type = old.command.type
  BY <1>1 DEF OwnEvent, EvalEvent, EvalCommand
<1>3. Adds(old, copy, events, n, own)
  BY <1>1, <1>2, EventsOfCommand
<1> HIDE DEF own, copy, events, n
<1>4. CASE old.command.type = "FINALIZED"
  <2>1. events[i] = own
    BY <1>3, <1>4 DEF Adds
  <2> QED
    BY <1>2, <1>4, <2>1 DEF ListedTypes
<1>5. CASE old.command.type # "FINALIZED"
  <2> DEFINE added == IF old.command.type \in ListedTypes THEN {n} ELSE {}
  <2>1. record = [before EXCEPT !.attached = @ \cup added]
    BY <1>5 DEF RecordWith, n
  <2>2. before \in EvalRecord
    BY <1>1, <1>5 DEF StoredCopy, RecordIn
  <2> HIDE DEF record, before, added
  <2>3. record.attached = before.attached \cup added
    BY <2>1, <2>2 DEF EvalRecord
  <2>4. CASE i = n
    <3>1. old.command.type \in ListedTypes
      BY <1>2, <1>3, <2>4 DEF Adds
    <3> QED
      BY <2>3, <2>4, <3>1 DEF added
  <2>5. CASE i # n
    <3>1. i \in DOMAIN copy /\ copy[i] = events[i]
      BY <1>3, <2>5 DEF Adds
    <3>2. Lists(before, copy) /\ before # None
      BY <1>1, <1>5 DEF before, copy
    <3>3. i \in before.attached
      BY <3>1, <3>2 DEF Lists
    <3> QED
      BY <2>3, <3>3
  <2> QED
    BY <2>4, <2>5
<1> QED
  BY <1>4, <1>5

LEMMA ListsRecorded ==
    ASSUME EvalInv, ListsInv, NEW w \in EvalWorkers, RecordEvalEvent(w)
    PROVE  ListsInv'
<1> DEFINE old == evalJob[w]
           e == old.command.evaluation
           events == EventsWith(old, w)
           record == RecordWith(old)
           job == evalJob'[w]
<1>1. /\ evalJob = [u \in EvalWorkers |-> evalJob[u]]
      /\ EvalJobOK(w, old, evalRecords, evalEvents)
      /\ ListsJobOK(old, evalEvents)
  BY DEF EvalInv, EvalTablesOK, ListsInv
<1>2. /\ old.phase = "deciding" /\ UNCHANGED <<evalRecords, evalEvents>>
  BY DEF RecordEvalEvent
<1>3. e \in EvaluationIds
  BY <1>2, EvalJobFacts
<1>4. /\ old.events = [d \in EvaluationIds |-> old.events[d]]
      /\ old.records = [d \in EvaluationIds |-> old.records[d]]
  BY <1>1, <1>2, <1>3 DEF EvalJobOK, CopyPhases, LoadedPhases
<1>5. \A d \in EvaluationIds : Lists(old.records[d], old.events[d])
  BY <1>1, <1>2 DEF ListsJobOK, CopyPhases
<1>6. Lists(record, events)
  <2>1. e = old.command.evaluation
    OBVIOUS
  <2>2. Lists(old.records[e], old.events[e])
    BY <1>3, <1>5
  <2> HIDE DEF old, e
  <2> QED
    BY <1>1, <1>2, <1>3, <2>1, <2>2, EventListed
<1>7. /\ evalJob' = [evalJob EXCEPT ![w] = job] /\ job.phase = "saving"
      /\ job.records = [old.records EXCEPT ![e] = record]
      /\ job.events = [old.events EXCEPT ![e] = events]
  <2> HIDE DEF events, record
  <2>1. PICK keys :
           evalJob' = [evalJob EXCEPT ![w] =
               [old EXCEPT !.phase = "saving", !.events[e] = events,
                           !.records[e] = record, !.keys = keys]]
    BY DEF RecordEvalEvent, events, record
  <2> QED
    BY <1>1, <2>1 DEF EvalJobOK
<1> HIDE DEF job, events, record, old
<1>8. ASSUME NEW d \in EvaluationIds
      PROVE  Lists(job.records[d], job.events[d])
  <2>1. /\ job.records[d] = IF d = e THEN record ELSE old.records[d]
        /\ job.events[d] = IF d = e THEN events ELSE old.events[d]
    BY <1>4, <1>7
  <2> QED
    BY <1>5, <1>6, <2>1
<1>9. ListsJobOK(job, evalEvents)
  BY <1>7, <1>8 DEF ListsJobOK
<1> QED
  BY <1>2, <1>7, <1>9, ListsStep

\* A stored copy that has as many events as the trail has all of them.
LEMMA StoredCopyLists ==
    ASSUME NEW w, NEW job, NEW e, NEW row, NEW trail, NEW n, TrailOK(row, trail, n),
           Lists(row, trail), StoredCopy(job, e, trail),
           NEW record, record = job.records[e],
           NEW saved, saved = job.events[e], Lists(record, saved),
           record # None /\ row # None => Len(trail) <= Cardinality(DOMAIN saved)
    PROVE  Lists(RowAfter(record, row), EventsAfter(trail, saved))
<1>1. trail \in Seq(EvalEvent)
  BY TrailIsSeq
<1>2. EventsAfter(trail, saved) = trail
  BY <1>1, StoredTrail DEF StoredCopy
<1>3. CASE record = None
  BY <1>2, <1>3 DEF RowAfter
<1>4. CASE record # None
  <2>1. row # None
    BY <1>4, EventHasRecord DEF StoredCopy, RecordIn, MadeBy
  <2>2. PICK m \in Nat : m = Len(trail) /\ DOMAIN trail = 1 .. m
    BY <1>1
  <2>3. IsFiniteSet(1 .. m) /\ Cardinality(1 .. m) = m
    <3>1. /\ IsFiniteSet(1 .. m)
          /\ Cardinality(1 .. m) = IF 1 > m THEN 0 ELSE m - 1 + 1
      <4>1. 1 \in Int /\ m \in Int
        OBVIOUS
      <4> QED
        BY ONLY <4>1, FS_Interval
    <3> QED
      BY <3>1
  <2> DEFINE S == DOMAIN trail
             T == DOMAIN saved
  <2>4. IsFiniteSet(S) /\ Cardinality(S) = m /\ T \in SUBSET S
    BY <2>2, <2>3 DEF StoredCopy, IsStored
  <2>5. m <= Cardinality(T)
    BY <1>4, <2>1, <2>2
  <2> HIDE DEF S, T
  <2>6. /\ IsFiniteSet(T) /\ Cardinality(T) <= Cardinality(S)
        /\ Cardinality(S) = Cardinality(T) => S = T
    BY <2>4, FS_Subset
  <2>7. Cardinality(T) \in Nat
    BY <2>6, FS_CardinalityType
  <2>8. S = T
    BY <2>4, <2>5, <2>6, <2>7
  <2>9. \A i \in S : saved[i] = trail[i]
    BY <2>8 DEF S, T, StoredCopy, IsStored
  <2>10. Lists(record, trail)
    BY <2>8, <2>9 DEF Lists, S, T
  <2> QED
    BY <1>2, <1>4, <2>10 DEF RowAfter
<1> QED
  BY <1>3, <1>4

\* A copy with an event of its own that is saved lists what is stored then.
LEMMA OwnCopyLists ==
    ASSUME NEW w \in EvalWorkers, NEW job, job.command \in EvalCommand,
           job.at \in Nat, NEW e, NEW row, NEW trail, NEW n, TrailOK(row, trail, n),
           NEW m \in Nat \ {0}, OwnCopy(w, job, e, trail, m), FreshIn(w, job, trail),
           NEW record, record = job.records[e],
           NEW saved, saved = job.events[e], Lists(record, saved),
           row # None => Len(trail) <= Cardinality(DOMAIN saved),
           EventsAdmitted(trail, saved)
    PROVE  Lists(RowAfter(record, row), EventsAfter(trail, saved))
<1> DEFINE trail2 == EventsAfter(trail, saved)
<1>1. OwnEvent(w, job) \in EvalEvent
  BY DEF OwnEvent, EvalEvent, EvalCommand
<1>2. trail2 = EventsAfter(trail, saved)
  OBVIOUS
<1>3. trail \in Seq(EvalEvent)
  BY TrailIsSeq
<1>4. \A i \in DOMAIN saved : trail2[i] = saved[i]
  BY DEF EventsAfter
<1> HIDE DEF trail2
<1>5. /\ m = Len(trail) + 1 /\ Len(trail) \in Nat
      /\ DOMAIN trail = 1 .. m - 1 /\ DOMAIN trail2 = 1 .. m
      /\ trail2[m] = OwnEvent(w, job) /\ Extends(trail2, trail)
  BY <1>1, <1>2, <1>3, OwnTrail
<1>6. record # None
  BY EvalAssumption DEF OwnCopy, EvalAssumption
<1>7. DOMAIN saved = IF job.command.type = "FINALIZED" THEN {m} ELSE 1 .. m
  BY DEF OwnCopy
<1>8. CASE job.command.type # "FINALIZED"
  <2>1. DOMAIN saved = DOMAIN trail2
    BY <1>5, <1>7, <1>8
  <2>2. Lists(record, trail2)
    BY <1>4, <2>1 DEF Lists
  <2> QED
    BY <1>2, <1>6, <2>2 DEF RowAfter
<1>9. CASE job.command.type = "FINALIZED"
  <2>1. Cardinality(DOMAIN saved) = 1
    BY <1>7, <1>9, FS_Singleton
  <2>2. ASSUME NEW i \in DOMAIN trail2 PROVE trail2[i].type \notin ListedTypes
    <3>1. CASE i = m
      BY <1>5, <1>9, <3>1 DEF OwnEvent, ListedTypes
    <3>2. CASE i # m
      <4>1. i \in DOMAIN trail
        BY <1>5, <2>2, <3>2
      <4>2. row # None
        BY <4>1, EventHasRecord
      <4>3. i = 1
        <5>1. Len(trail) <= 1
          BY <2>1, <4>2
        <5> QED
          BY <1>5, <4>1, <5>1
      <4>4. trail[1].type = "FINALIZED"
        BY <4>2 DEF TrailOK
      <4>5. trail2[i] = trail[1]
        BY <1>5, <4>1, <4>3 DEF Extends, IsStored
      <4> QED
        BY <4>4, <4>5 DEF ListedTypes
    <3> QED
      BY <3>1, <3>2
  <2>3. Lists(record, trail2)
    BY <2>2 DEF Lists
  <2> QED
    BY <1>2, <1>6, <2>3 DEF RowAfter
<1> QED
  BY <1>8, <1>9

\* A save whose count is right writes no record over a newer one.
LEMMA ListsSaved ==
    ASSUME EvalInv, ListsInv, SnapshotsUndisturbed,
           NEW w \in EvalWorkers, CommitEvalSave(w)
    PROVE  ListsInv'
<1> DEFINE old == evalJob[w]
<1>1. /\ old.phase = "waiting" /\ EvalSaveable(old)
      /\ evalRecords' = [e \in EvaluationIds |->
             IF old.records[e] = None THEN evalRecords[e] ELSE old.records[e]]
      /\ evalEvents' = [e \in EvaluationIds |->
             EventsAfter(evalEvents[e], old.events[e])]
      /\ evalJob' = [evalJob EXCEPT ![w] = IdleEvalJob]
  BY DEF CommitEvalSave
<1>2. /\ EvalJobOK(w, old, evalRecords, evalEvents)
      /\ ListsJobOK(old, evalEvents)
  BY EvalJobFacts DEF ListsInv
<1>3. ASSUME NEW e \in EvaluationIds
      PROVE  Lists(evalRecords'[e], evalEvents'[e])
  <2> DEFINE row == evalRecords[e]
             trail == evalEvents[e]
             record == old.records[e]
             saved == old.events[e]
  <2>1. /\ TrailOK(row, trail, evalCommands) /\ Lists(row, trail)
        /\ CopyOK(w, old, e, trail) /\ FreshIn(w, old, trail)
        /\ Lists(record, saved)
    BY <1>1, <1>2 DEF EvalInv, EvalJobOK, CopyPhases, ListsInv, ListsJobOK,
                      RecordListsItsEvents, Lists
  <2>2. EventsAdmitted(trail, saved)
    BY <1>1 DEF EvalSaveable
  <2>3. record # None /\ row # None => Len(trail) <= Cardinality(DOMAIN saved)
    <3>1. record # None /\ row # None =>
              RowAdmitted(IF e = FirstSaved(old) THEN old.counted ELSE Len(trail),
                          saved)
      BY <1>1 DEF EvalSaveable
    <3>2. old.counted = Len(evalEvents[FirstSaved(old)])
      BY <1>1, <1>2 DEF ListsJobOK
    <3> QED
      BY <3>1, <3>2 DEF RowAdmitted
  <2>4. /\ evalEvents'[e] = EventsAfter(trail, saved)
        /\ evalRecords'[e] = RowAfter(record, row)
    BY <1>1 DEF RowAfter
  <2>5. old.command \in EvalCommand /\ old.at \in Nat
    BY <1>1, EvalJobFacts
  <2>6. record = old.records[e] /\ saved = old.events[e]
    OBVIOUS
  <2> HIDE DEF row, trail, record, saved, old
  <2>7. CASE StoredCopy(old, e, trail)
    BY <2>1, <2>3, <2>4, <2>6, <2>7, StoredCopyLists
  <2>8. CASE \E m \in Nat \ {0} : OwnCopy(w, old, e, trail, m)
    <3>1. PICK m \in Nat \ {0} : OwnCopy(w, old, e, trail, m)
      BY <2>8
    <3>2. record # None
      BY <2>6, <3>1, EvalAssumption DEF OwnCopy, EvalAssumption
    <3> QED
      BY <2>1, <2>2, <2>3, <2>4, <2>5, <2>6, <3>1, <3>2, OwnCopyLists
  <2> QED
    BY <2>1, <2>7, <2>8 DEF CopyOK
<1>4. RecordListsItsEvents'
  BY <1>3 DEF RecordListsItsEvents, Lists
<1>5. ASSUME NEW u \in EvalWorkers
      PROVE  ListsJobOK(evalJob'[u], evalEvents')
  <2>1. CASE u = w
    <3>1. evalJob'[u] = IdleEvalJob
      BY <1>1, <2>1 DEF EvalInv, EvalTablesOK
    <3>2. IdleEvalJob.phase \notin LoadedPhases
      BY DEF IdleEvalJob, LoadedPhases
    <3> QED
      BY <3>1, <3>2, NothingListed
  <2>2. CASE u # w
    <3>1. evalJob'[u] = evalJob[u]
      BY <1>1, <2>2 DEF EvalInv, EvalTablesOK
    <3>2. ListsJobOK(evalJob[u], evalEvents)
      BY DEF ListsInv
    <3>3. evalJob[u].phase \in {"events", "waiting"} => evalEvents' = evalEvents
      BY <3>1 DEF SnapshotsUndisturbed
    <3> QED
      BY <3>1, <3>2, <3>3 DEF ListsJobOK
  <2> QED
    BY <2>1, <2>2
<1> QED
  BY <1>4, <1>5 DEF ListsInv

\* A record lacks a review, a sign-off or a report of its trail only if an event
\* was added while a worker was between its two loads, or waited with a count
\* that had become stale: every save of a consistent and counted copy is either
\* refused or writes a record that lists all of them, and a second finalization
\* replaces only a record that lists nothing.
THEOREM RecordsListUnlessDisturbed ==
    EvalSpec /\ [][SnapshotsUndisturbed]_evalVars => []RecordListsItsEvents
<1>1. EvalInit => ListsInv
  <2> SUFFICES ASSUME EvalInit PROVE ListsInv
    OBVIOUS
  <2>1. IdleEvalJob.phase \notin LoadedPhases
    BY DEF IdleEvalJob, LoadedPhases
  <2>2. ASSUME NEW e \in EvaluationIds, NEW i \in DOMAIN evalEvents[e]
        PROVE  evalEvents[e][i].type \notin ListedTypes
    <3>1. evalEvents[e] # <<>>
      BY <2>2
    <3>2. PICK event : evalEvents[e] = <<event>> /\ event.type = "FINALIZED"
      BY <3>1 DEF EvalInit
    <3>3. evalEvents[e][i] = event
      BY <2>2, <3>2
    <3> QED
      BY <3>2, <3>3 DEF ListedTypes
  <2>3. RecordListsItsEvents
    BY <2>2 DEF RecordListsItsEvents
  <2>4. \A w \in EvalWorkers : evalJob[w] = IdleEvalJob
    BY DEF EvalInit
  <2> QED
    BY <2>1, <2>3, <2>4, NothingListed DEF ListsInv
<1>2. EvalInv /\ ListsInv /\ [EvalNext]_evalVars /\ [SnapshotsUndisturbed]_evalVars
         => ListsInv'
  <2> SUFFICES ASSUME EvalInv, ListsInv, [EvalNext]_evalVars,
                      [SnapshotsUndisturbed]_evalVars
               PROVE  ListsInv'
    OBVIOUS
  <2>1. CASE UNCHANGED evalVars
    BY <2>1 DEF evalVars, ListsInv, RecordListsItsEvents
  <2>2. ASSUME NEW w \in EvalWorkers, CommitEvalSave(w)
        PROVE  ListsInv'
    <3>1. CASE SnapshotsUndisturbed
      BY <2>2, <3>1, ListsSaved
    <3> QED
      BY <2>1, <3>1
  <2> QED
    BY <2>1, <2>2, ListsBeforeLoad, ListsCopied, ListsRecorded DEF EvalNext
<1>3. ListsInv => RecordListsItsEvents
  BY DEF ListsInv
<1> QED
  BY <1>1, <1>2, <1>3, EvalInvariant, PTL DEF EvalSpec

=============================================================================
