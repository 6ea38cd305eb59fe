------------------------ MODULE IdeaRealizationProofs ------------------------
(***************************************************************************)
(* Theorems of IdeaRealization, for every set of workers, intents, intakes *)
(* and proposals, and every number of requests.                            *)
(***************************************************************************)
EXTENDS IdeaRealization, FiniteSetTheorems, SequenceTheorems, TLAPS

\* The statuses that close a realization
Closings == {"ADVISORY_REJECTED", "ADVISORY_CANCELLED", "ADVISORY_EXPIRED",
             "ADVISORY_COMPLETED"}

\* A realization, stored or loaded: it is new, linked, or closed as its
\* proposal has ended.
RecordOK(r, states) ==
    /\ r \in Realization
    /\ r.version = 1 => r.proposal = None /\ r.status = InitialStatus(r.intake)
    /\ r.version # 1 => r.proposal \in LinkableProposals \ r.older
    /\ r.version = 2 => r.status = "PROPOSAL_LINKED"
    /\ r.version = 3 => /\ states[r.proposal] \in TERMINAL_STATES
                        /\ r.status = TargetStatus(states[r.proposal])

\* The outcomes of a realization: what is stored of them follows from it.
HistoryOf(r) ==
    IF r.version = 1 THEN <<Outcome(InitialStatus(r.intake), None)>>
    ELSE IF r.version = 2
    THEN <<Outcome(InitialStatus(r.intake), None),
           Outcome("PROPOSAL_LINKED", r.proposal)>>
    ELSE <<Outcome(InitialStatus(r.intake), None),
           Outcome("PROPOSAL_LINKED", r.proposal),
           Outcome(r.status, r.proposal)>>

RealizationOK(row, history, states) ==
    IF row = None THEN history = <<>>
    ELSE RecordOK(row, states) /\ history = HistoryOf(row)

\* What was loaded is what is stored, or older.
SeenOK(seen, row) == seen = row \/ seen.version < row.version

\* What a reconciliation holds; one that advances has a proposal it may link,
\* and a terminal state it has seen is the one the proposal keeps.
IdeaJobOK(job, rows, states) ==
    /\ job.phase \in {"idle", "history", "proposal", "advance"}
    /\ job.phase # "idle" =>
          /\ job.intent \in Intents /\ job.proposal \in LinkableProposals
          /\ rows[job.intent] # None
    /\ job.phase \in {"proposal", "advance"} =>
          RecordOK(job.seen, states) /\ SeenOK(job.seen, rows[job.intent])
    /\ job.phase = "advance" =>
          /\ job.seen.version # 3 /\ job.proposal \notin job.seen.older
          /\ job.seen.proposal \in {None, job.proposal}
          /\ job.seen.version = 2 => job.state \in TERMINAL_STATES
          /\ job.state \in TERMINAL_STATES => states[job.proposal] = job.state

LinkedOnce(rows) ==
    \A i, j \in Intents :
        /\ rows[i] # None /\ rows[j] # None
        /\ rows[i].proposal # None /\ rows[i].proposal = rows[j].proposal
        => i = j

IdeaTablesOK ==
    /\ realizations = [i \in Intents |-> realizations[i]]
    /\ outcomes = [i \in Intents |-> outcomes[i]]
    /\ linkable = [p \in LinkableProposals |-> linkable[p]]
    /\ ideaJob = [w \in IdeaWorkers |-> ideaJob[w]]

\* The inductive invariant.
IdeaInv ==
    /\ IdeaTablesOK
    /\ \A i \in Intents : RealizationOK(realizations[i], outcomes[i], linkable)
    /\ LinkedOnce(realizations)
    /\ \A w \in IdeaWorkers : IdeaJobOK(ideaJob[w], realizations, linkable)

-----------------------------------------------------------------------------
\* Lemmas about statuses and what is stored.

\* A terminal state closes, every other state links.
LEMMA TargetFacts ==
    ASSUME NEW state
    PROVE  /\ state \in TERMINAL_STATES => TargetStatus(state) \in Closings
           /\ state \notin TERMINAL_STATES => TargetStatus(state) = "PROPOSAL_LINKED"
BY DEF TERMINAL_STATES, TargetStatus, Closings

\* The first outcome neither links nor closes.
LEMMA InitialFacts ==
    ASSUME NEW intake
    PROVE  InitialStatus(intake) \in {"ACCEPTED_FOR_REVIEW", "REJECTED_BEFORE_WORK"}
BY DEF InitialStatus

\* Concatenations of short tuples
LEMMA ConcatOneOne == ASSUME NEW a, NEW b PROVE <<a>> \o <<b>> = <<a, b>>
<1> DEFINE S == {a, b}
           s == <<a>>
           t == <<b>>
           u == <<a, b>>
<1>1. /\ s \in Seq(S) /\ t \in Seq(S) /\ u \in Seq(S)
      /\ Len(s) = 1 /\ Len(t) = 1 /\ Len(u) = 2
      /\ s[1] = a /\ t[1] = b /\ u[1] = a /\ u[2] = b
  OBVIOUS
<1> HIDE DEF S, s, t, u
<1>2. /\ s \o t \in Seq(S) /\ Len(s \o t) = 2
      /\ (s \o t)[1] = a /\ (s \o t)[2] = b
  BY <1>1, ConcatProperties
<1>3. s \o t = u
  BY <1>1, <1>2, SeqEqual
<1> QED
  BY <1>3 DEF s, t, u

LEMMA ThreeEqual ==
    ASSUME NEW S, NEW s \in Seq(S), NEW t \in Seq(S), Len(s) = 3, Len(t) = 3,
           s[1] = t[1], s[2] = t[2], s[3] = t[3]
    PROVE  s = t
<1>1. \A i \in 1 .. 3 : i = 1 \/ i = 2 \/ i = 3
  OBVIOUS
<1>2. \A i \in 1 .. Len(s) : s[i] = t[i]
  BY <1>1
<1> QED
  BY <1>2, SeqEqual

LEMMA ConcatThree ==
    ASSUME NEW a, NEW b, NEW c
    PROVE  <<a>> \o <<b, c>> = <<a, b, c>> /\ <<a, b>> \o <<c>> = <<a, b, c>>
<1> DEFINE S == {a, b, c}
           s == <<a>>
           t == <<b, c>>
           v == <<a, b>>
           w == <<c>>
           u == <<a, b, c>>
<1>1. /\ s \in Seq(S) /\ t \in Seq(S) /\ u \in Seq(S)
      /\ v \in Seq(S) /\ w \in Seq(S)
      /\ Len(s) = 1 /\ Len(t) = 2 /\ Len(u) = 3 /\ Len(v) = 2 /\ Len(w) = 1
      /\ s[1] = a /\ t[1] = b /\ t[2] = c /\ v[1] = a /\ v[2] = b /\ w[1] = c
      /\ u[1] = a /\ u[2] = b /\ u[3] = c
  OBVIOUS
<1> HIDE DEF S, s, t, u, v, w
<1>2. /\ s \o t \in Seq(S) /\ Len(s \o t) = 3
      /\ (s \o t)[1] = a /\ (s \o t)[2] = b /\ (s \o t)[3] = c
  <2>1. /\ s \o t \in Seq(S) /\ Len(s \o t) = Len(s) + Len(t)
        /\ \A i \in 1 .. Len(s) + Len(t) : (s \o t)[i] =
                IF i <= Len(s) THEN s[i] ELSE t[i - Len(s)]
    BY <1>1, ConcatProperties
  <2>2. (s \o t)[1] = s[1] /\ (s \o t)[2] = t[2 - 1] /\ (s \o t)[3] = t[3 - 1]
    BY <1>1, <2>1
  <2> QED
    BY <1>1, <2>1, <2>2
<1>3. /\ v \o w \in Seq(S) /\ Len(v \o w) = 3
      /\ (v \o w)[1] = a /\ (v \o w)[2] = b /\ (v \o w)[3] = c
  <2>1. /\ v \o w \in Seq(S) /\ Len(v \o w) = Len(v) + Len(w)
        /\ \A i \in 1 .. Len(v) + Len(w) : (v \o w)[i] =
                IF i <= Len(v) THEN v[i] ELSE w[i - Len(v)]
    BY <1>1, ConcatProperties
  <2>2. (v \o w)[1] = v[1] /\ (v \o w)[2] = v[2] /\ (v \o w)[3] = w[3 - 2]
    BY <1>1, <2>1
  <2> QED
    BY <1>1, <2>1, <2>2
<1>4. s \o t = u
  BY <1>1, <1>2, ThreeEqual
<1>5. v \o w = u
  BY <1>1, <1>3, ThreeEqual
<1> QED
  BY <1>4, <1>5 DEF s, t, u, v, w

LEMMA ConcatNone ==
    ASSUME NEW a PROVE <<a>> \o <<>> = <<a>> /\ <<>> \o <<a>> = <<a>>
<1>1. <<a>> \in Seq({a})
  OBVIOUS
<1> QED
  BY <1>1, ConcatEmptySeq

\* Terminal states stay.
EndsKept(states, states2) ==
    \A p \in LinkableProposals :
        states[p] \in TERMINAL_STATES => states2[p] = states[p]

LEMMA RecordStays ==
    ASSUME NEW r, NEW states, NEW states2, RecordOK(r, states),
           EndsKept(states, states2)
    PROVE  RecordOK(r, states2)
BY DEF RecordOK, EndsKept

\* A realization stays as it is, or its version grows.
RowsGrow(rows, rows2) ==
    \A i \in Intents : rows[i] # None =>
        /\ rows2[i] # None /\ rows[i] \in Realization /\ rows2[i] \in Realization
        /\ rows2[i] = rows[i] \/ rows[i].version < rows2[i].version

\* What a reconciliation holds stays right.
LEMMA IdeaJobStays ==
    ASSUME NEW job, NEW rows, NEW rows2, NEW states, NEW states2,
           IdeaJobOK(job, rows, states), EndsKept(states, states2),
           RowsGrow(rows, rows2)
    PROVE  IdeaJobOK(job, rows2, states2)
<1>1. job.phase \in {"proposal", "advance"} => RecordOK(job.seen, states2)
  BY RecordStays DEF IdeaJobOK
<1>2. job.phase \in {"proposal", "advance"} => SeenOK(job.seen, rows2[job.intent])
  <2> SUFFICES ASSUME job.phase \in {"proposal", "advance"}
               PROVE  SeenOK(job.seen, rows2[job.intent])
    OBVIOUS
  <2> DEFINE old == rows[job.intent]
             new == rows2[job.intent]
  <2>1. /\ old \in Realization /\ new \in Realization /\ SeenOK(job.seen, old)
        /\ new = old \/ old.version < new.version
        /\ job.seen \in Realization
    BY DEF IdeaJobOK, RowsGrow, RecordOK
  <2>2. old.version \in Nat /\ new.version \in Nat /\ job.seen.version \in Nat
    BY <2>1 DEF Realization
  <2> QED
    BY <2>1, <2>2 DEF SeenOK
<1>3. job.phase # "idle" => rows2[job.intent] # None
  BY DEF IdeaJobOK, RowsGrow
<1>4. job.phase = "advance" /\ job.state \in TERMINAL_STATES =>
          states2[job.proposal] = job.state
  BY DEF IdeaJobOK, EndsKept
<1> QED
  BY <1>1, <1>2, <1>3, <1>4 DEF IdeaJobOK

\* Nothing that is stored changes, and one reconciliation goes on.
LEMMA IdeaJobStep ==
    ASSUME IdeaInv, NEW w \in IdeaWorkers, NEW job,
           ideaJob' = [ideaJob EXCEPT ![w] = job],
           IdeaJobOK(job, realizations, linkable),
           UNCHANGED <<ideaTables, linkable>>
    PROVE  IdeaInv'
<1>1. /\ realizations' = realizations /\ outcomes' = outcomes
      /\ linkable' = linkable
  BY DEF ideaTables
<1>2. \A u \in IdeaWorkers :
          ideaJob'[u] = IF u = w THEN job ELSE ideaJob[u]
  BY DEF IdeaInv, IdeaTablesOK
<1>3. ideaJob' = [u \in IdeaWorkers |-> ideaJob'[u]]
  BY DEF IdeaInv, IdeaTablesOK
<1>4. \A u \in IdeaWorkers : IdeaJobOK(ideaJob'[u], realizations, linkable)
  BY <1>2 DEF IdeaInv
<1> QED
  BY <1>1, <1>3, <1>4 DEF IdeaInv, IdeaTablesOK

LEMMA IdleIdeaJobOK ==
    ASSUME NEW rows, NEW states PROVE IdeaJobOK(IdleIdeaJob, rows, states)
BY DEF IdeaJobOK, IdleIdeaJob

LEMMA IdeaEndStep ==
    ASSUME IdeaInv, NEW w \in IdeaWorkers, IdeaWorkEnds(w),
           UNCHANGED <<ideaTables, linkable>>
    PROVE  IdeaInv'
BY IdleIdeaJobOK, IdeaJobStep DEF IdeaWorkEnds

\* A realization that exists is a record, and None is none.
LEMMA RealizationFacts ==
    ASSUME IdeaInv, NEW i \in Intents
    PROVE  /\ realizations[i] # None =>
                 /\ RecordOK(realizations[i], linkable)
                 /\ realizations[i] \in Realization
                 /\ outcomes[i] = HistoryOf(realizations[i])
           /\ realizations[i] = None => outcomes[i] = <<>>
           /\ None \notin Realization /\ None \notin LinkableProposals
BY IdeaAssumption DEF IdeaAssumption, IdeaInv, RealizationOK, RecordOK

\* A row is replaced by a newer one with its history.
LEMMA RowReplaced ==
    ASSUME IdeaInv, NEW i \in Intents, NEW row, NEW history,
           realizations' = [realizations EXCEPT ![i] = row],
           outcomes' = [outcomes EXCEPT ![i] = history], linkable' = linkable,
           RecordOK(row, linkable), history = HistoryOf(row),
           realizations[i] # None =>
               row = realizations[i] \/ realizations[i].version < row.version
    PROVE  /\ \A j \in Intents :
                 RealizationOK(realizations'[j], outcomes'[j], linkable')
           /\ RowsGrow(realizations, realizations')
           /\ realizations' = [j \in Intents |-> realizations'[j]]
           /\ outcomes' = [j \in Intents |-> outcomes'[j]]
<1>1. \A j \in Intents :
          /\ realizations'[j] = IF j = i THEN row ELSE realizations[j]
          /\ outcomes'[j] = IF j = i THEN history ELSE outcomes[j]
  BY DEF IdeaInv, IdeaTablesOK
<1>2. row \in Realization /\ row # None
  BY RealizationFacts DEF RecordOK
<1>3. ASSUME NEW j \in Intents
      PROVE  RealizationOK(realizations'[j], outcomes'[j], linkable')
  BY <1>1, <1>2 DEF IdeaInv, RealizationOK
<1>4. RowsGrow(realizations, realizations')
  BY <1>1, <1>2, RealizationFacts DEF RowsGrow
<1>5. /\ realizations' = [j \in Intents |-> realizations'[j]]
      /\ outcomes' = [j \in Intents |-> outcomes'[j]]
  BY DEF IdeaInv, IdeaTablesOK
<1> QED
  BY <1>3, <1>4, <1>5

-----------------------------------------------------------------------------
\* One lemma per action.

LEMMA IdeaInitOK == ASSUME IdeaInit PROVE IdeaInv
<1>1. \A i \in Intents : RealizationOK(realizations[i], outcomes[i], linkable)
  BY DEF IdeaInit, RealizationOK
<1>2. LinkedOnce(realizations)
  BY DEF IdeaInit, LinkedOnce
<1> QED
  BY <1>1, <1>2, IdleIdeaJobOK DEF IdeaInit, IdeaInv, IdeaTablesOK

LEMMA LinkableMovesOK ==
    ASSUME IdeaInv, NEW p \in LinkableProposals, LinkableMoves(p)
    PROVE  IdeaInv'
<1>1. PICK state : linkable' = [linkable EXCEPT ![p] = state]
  BY DEF LinkableMoves
<1>2. /\ realizations' = realizations /\ outcomes' = outcomes
      /\ ideaJob' = ideaJob /\ linkable[p] \notin TERMINAL_STATES
  BY DEF LinkableMoves, ideaTables
<1>3. EndsKept(linkable, linkable') /\ linkable' = [q \in LinkableProposals |-> linkable'[q]]
  BY <1>1, <1>2 DEF IdeaInv, IdeaTablesOK, EndsKept
<1>4. RowsGrow(realizations, realizations)
  BY RealizationFacts DEF RowsGrow
<1>5. \A w \in IdeaWorkers : IdeaJobOK(ideaJob[w], realizations, linkable')
  BY <1>3, <1>4, IdeaJobStays DEF IdeaInv
<1>6. ASSUME NEW i \in Intents
      PROVE  RealizationOK(realizations[i], outcomes[i], linkable')
  BY <1>3, RecordStays DEF IdeaInv, RealizationOK
<1> QED
  BY <1>2, <1>3, <1>5, <1>6 DEF IdeaInv, IdeaTablesOK

LEMMA IntakeExpiresOK ==
    ASSUME IdeaInv, NEW k \in IntakeKeys, IntakeExpires(k)
    PROVE  IdeaInv'
BY DEF IntakeExpires, IdeaInv, IdeaTablesOK

LEMMA ClaimIntakeOK ==
    ASSUME IdeaInv, NEW k \in IntakeKeys, NEW i \in Intents,
           NEW intake \in Intakes, ClaimIntake(k, i, intake)
    PROVE  IdeaInv'
<1> DEFINE row == ClaimedRealization(i, intake)
           history == IF outcomes[i] = <<>>
                      THEN <<Outcome(InitialStatus(intake), None)>>
                      ELSE outcomes[i]
<1>1. /\ realizations' = [realizations EXCEPT ![i] = row]
      /\ outcomes' = [outcomes EXCEPT ![i] = history]
      /\ linkable' = linkable /\ ideaJob' = ideaJob
  BY DEF ClaimIntake
<1>2. /\ RecordOK(row, linkable) /\ history = HistoryOf(row)
      /\ realizations[i] # None => row = realizations[i]
      /\ realizations[i] = None => row.proposal = None
  <2>1. CASE realizations[i] = None
    <3>1. /\ NewRealization(intake) \in Realization
          /\ NewRealization(intake).version = 1
          /\ NewRealization(intake).proposal = None
          /\ NewRealization(intake).intake = intake
          /\ NewRealization(intake).status = InitialStatus(intake)
      BY InitialFacts DEF NewRealization, Realization, RealizationStatuses
    <3>2. row = NewRealization(intake) /\ outcomes[i] = <<>>
      BY <2>1, RealizationFacts DEF ClaimedRealization
    <3> QED
      BY <2>1, <3>1, <3>2 DEF RecordOK, HistoryOf
  <2>2. CASE realizations[i] # None
    <3>1. row = realizations[i] /\ RecordOK(realizations[i], linkable)
          /\ outcomes[i] = HistoryOf(realizations[i])
      BY <2>2, RealizationFacts DEF ClaimedRealization
    <3>2. HistoryOf(realizations[i]) # <<>>
      BY DEF HistoryOf
    <3> QED
      BY <2>2, <3>1, <3>2
  <2> QED
    BY <2>1, <2>2
<1> HIDE DEF row, history
<1>3. /\ \A j \in Intents :
            RealizationOK(realizations'[j], outcomes'[j], linkable')
      /\ RowsGrow(realizations, realizations')
      /\ realizations' = [j \in Intents |-> realizations'[j]]
      /\ outcomes' = [j \in Intents |-> outcomes'[j]]
  BY <1>1, <1>2, RowReplaced
<1>4. LinkedOnce(realizations')
  BY <1>1, <1>2 DEF IdeaInv, IdeaTablesOK, LinkedOnce
<1>5. EndsKept(linkable, linkable')
  BY <1>1 DEF EndsKept
<1>6. \A w \in IdeaWorkers : IdeaJobOK(ideaJob'[w], realizations', linkable')
  BY <1>1, <1>3, <1>5, IdeaJobStays DEF IdeaInv
<1> QED
  BY <1>1, <1>3, <1>4, <1>6 DEF IdeaInv, IdeaTablesOK

LEMMA ReceiveReconciliationOK ==
    ASSUME IdeaInv, NEW w \in IdeaWorkers, ReceiveReconciliation(w)
    PROVE  IdeaInv'
<1>1. PICK i \in Intents, p \in LinkableProposals, expected \in 1 .. 3 :
          /\ realizations[i] # None
          /\ ideaJob' = [ideaJob EXCEPT ![w] =
                [phase |-> "history", intent |-> i, proposal |-> p,
                 expected |-> expected]]
  BY DEF ReceiveReconciliation
<1>2. IdeaJobOK([phase |-> "history", intent |-> i, proposal |-> p,
                 expected |-> expected], realizations, linkable)
  BY <1>1 DEF IdeaJobOK
<1>3. UNCHANGED <<ideaTables, linkable>>
  BY DEF ReceiveReconciliation
<1> QED
  BY <1>1, <1>2, <1>3, IdeaJobStep

LEMMA LoadHistoryOK ==
    ASSUME IdeaInv, NEW w \in IdeaWorkers, LoadHistory(w)
    PROVE  IdeaInv'
<1> DEFINE old == ideaJob[w]
           job == [phase |-> "proposal", intent |-> old.intent,
                   proposal |-> old.proposal, expected |-> old.expected,
                   seen |-> realizations[old.intent]]
<1>1. /\ old.phase = "history" /\ ideaJob' = [ideaJob EXCEPT ![w] = job]
      /\ UNCHANGED <<ideaTables, linkable>>
  BY DEF LoadHistory
<1>2. IdeaJobOK(old, realizations, linkable)
  BY DEF IdeaInv
<1>3. RecordOK(realizations[old.intent], linkable)
  BY <1>1, <1>2, RealizationFacts DEF IdeaJobOK
<1>4. IdeaJobOK(job, realizations, linkable)
  BY <1>1, <1>2, <1>3 DEF IdeaJobOK, SeenOK
<1> QED
  BY <1>1, <1>4, IdeaJobStep

LEMMA LoadProposalOK ==
    ASSUME IdeaInv, NEW w \in IdeaWorkers, LoadProposal(w)
    PROVE  IdeaInv'
<1> DEFINE old == ideaJob[w]
           seen == old.seen
           state == linkable[old.proposal]
           job == [phase |-> "advance", intent |-> old.intent,
                   proposal |-> old.proposal, expected |-> old.expected,
                   seen |-> seen, state |-> state]
<1>1. old.phase = "proposal" /\ UNCHANGED <<ideaTables, linkable>>
  BY DEF LoadProposal
<1>2. CASE ~ProgressionRequested(old, seen, state)
  BY <1>1, <1>2, IdeaEndStep DEF LoadProposal
<1>3. CASE ProgressionRequested(old, seen, state)
  <2>1. ideaJob' = [ideaJob EXCEPT ![w] = job]
    BY <1>3 DEF LoadProposal
  <2>2. /\ IdeaJobOK(old, realizations, linkable) /\ RecordOK(seen, linkable)
        /\ seen \in Realization
    BY <1>1 DEF IdeaInv, IdeaJobOK, RecordOK
  <2>3. /\ old.proposal \notin seen.older
        /\ seen.proposal \in {None, old.proposal}
        /\ ~(seen.proposal = old.proposal /\ seen.status = TargetStatus(state))
    BY <1>3 DEF ProgressionRequested, AlreadyReconciled
  <2>4. seen.version # 1 => seen.proposal = old.proposal
    BY <2>2, <2>3, IdeaAssumption DEF RecordOK, IdeaAssumption
  <2>5. seen.version # 3
    BY <2>2, <2>3, <2>4 DEF RecordOK
  <2>6. seen.version = 2 => state \in TERMINAL_STATES
    BY <2>2, <2>3, <2>4, TargetFacts DEF RecordOK
  <2>7. IdeaJobOK(job, realizations, linkable)
    BY <1>1, <2>2, <2>3, <2>5, <2>6 DEF IdeaJobOK
  <2> QED
    BY <1>1, <2>1, <2>7, IdeaJobStep
<1> QED
  BY <1>2, <1>3

\* The realization a reconciliation writes is the one that follows what it has
\* loaded, and the outcomes it appends are those of its history.
LEMMA AdvancedOK ==
    ASSUME IdeaInv, NEW job, job.phase = "advance",
           IdeaJobOK(job, realizations, linkable),
           NEW appended, appended = NewOutcomes(job.seen, job.proposal, job.state),
           NEW row \in [intake : {job.seen.intake},
                        status : {TargetStatus(job.state)},
                        version : {job.seen.version + Len(appended)},
                        proposal : {job.proposal}, older : {job.seen.older}]
    PROVE  /\ RecordOK(row, linkable) /\ job.seen.version < row.version
           /\ row.proposal = job.proposal
           /\ HistoryOf(job.seen) \o appended = HistoryOf(row)
<1> DEFINE seen == job.seen
           p == job.proposal
           target == TargetStatus(job.state)
<1>1. /\ RecordOK(seen, linkable) /\ seen \in Realization
      /\ p \in LinkableProposals \ seen.older
      /\ seen.version # 3 /\ seen.proposal \in {None, p}
      /\ seen.version = 2 => job.state \in TERMINAL_STATES
      /\ job.state \in TERMINAL_STATES => linkable[p] = job.state
  BY DEF IdeaJobOK, RecordOK
<1>2. seen.version \in {1, 2} /\ p # None
  BY <1>1, IdeaAssumption DEF Realization, IdeaAssumption
<1>3. /\ row = [intake |-> seen.intake, status |-> target,
                version |-> seen.version + Len(appended), proposal |-> p,
                older |-> seen.older]
  OBVIOUS
<1>4. target \in RealizationStatuses
  BY TargetFacts DEF Closings, RealizationStatuses
<1>5. CASE seen.version = 1 /\ job.state \notin TERMINAL_STATES
  <2>1. appended = <<Outcome("PROPOSAL_LINKED", p)>>
    <3>1. appended = <<Outcome("PROPOSAL_LINKED", p)>> \o <<>>
      BY <1>1, <1>5 DEF NewOutcomes, RecordOK
    <3> QED
      BY <3>1, ConcatNone
  <2>2. row.version = 2 /\ target = "PROPOSAL_LINKED"
    BY <1>3, <1>5, <2>1, TargetFacts
  <2>3. HistoryOf(seen) \o appended = HistoryOf(row)
    BY <1>3, <1>5, <2>1, <2>2, ConcatOneOne DEF HistoryOf
  <2>4. RecordOK(row, linkable)
    BY <1>1, <1>3, <1>4, <2>2 DEF RecordOK, Realization
  <2> QED
    BY <1>3, <1>5, <2>2, <2>3, <2>4
<1>6. CASE seen.version = 1 /\ job.state \in TERMINAL_STATES
  <2>1. appended = <<Outcome("PROPOSAL_LINKED", p), Outcome(target, p)>>
    <3>1. appended = <<Outcome("PROPOSAL_LINKED", p)>> \o <<Outcome(target, p)>>
      BY <1>1, <1>6 DEF NewOutcomes, RecordOK
    <3> QED
      BY <3>1, ConcatOneOne
  <2>2. row.version = 3
    BY <1>3, <1>6, <2>1
  <2>3. HistoryOf(seen) \o appended = HistoryOf(row)
    <3> DEFINE first == Outcome(InitialStatus(seen.intake), None)
               link == Outcome("PROPOSAL_LINKED", p)
               last == Outcome(target, p)
    <3>1. HistoryOf(seen) = <<first>>
      BY <1>6 DEF HistoryOf
    <3>2. HistoryOf(row) = <<first, link, last>>
      BY <1>3, <2>2 DEF HistoryOf
    <3> HIDE DEF first, link, last
    <3>3. <<first>> \o <<link, last>> = <<first, link, last>>
      BY ConcatThree
    <3> QED
      BY <2>1, <3>1, <3>2, <3>3 DEF link, last
  <2>4. RecordOK(row, linkable)
    BY <1>1, <1>3, <1>4, <1>6, <2>2 DEF RecordOK, Realization
  <2> QED
    BY <1>3, <1>6, <2>2, <2>3, <2>4
<1>7. CASE seen.version = 2
  <2>1. seen.proposal = p /\ job.state \in TERMINAL_STATES
    BY <1>1, <1>7, IdeaAssumption DEF RecordOK, IdeaAssumption
  <2>2. appended = <<Outcome(target, p)>>
    <3>1. appended = <<>> \o <<Outcome(target, p)>>
      BY <1>2, <2>1 DEF NewOutcomes
    <3> QED
      BY <3>1, ConcatNone
  <2>3. row.version = 3
    BY <1>3, <1>7, <2>2
  <2>4. HistoryOf(seen) \o appended = HistoryOf(row)
    <3> DEFINE first == Outcome(InitialStatus(seen.intake), None)
               link == Outcome("PROPOSAL_LINKED", p)
               last == Outcome(target, p)
    <3>1. HistoryOf(seen) = <<first, link>>
      BY <1>7, <2>1 DEF HistoryOf
    <3>2. HistoryOf(row) = <<first, link, last>>
      BY <1>3, <2>3 DEF HistoryOf
    <3> HIDE DEF first, link, last
    <3>3. <<first, link>> \o <<last>> = <<first, link, last>>
      BY ConcatThree
    <3> QED
      BY <2>2, <3>1, <3>2, <3>3 DEF last
  <2>5. RecordOK(row, linkable)
    BY <1>1, <1>3, <1>4, <2>1, <2>3 DEF RecordOK, Realization
  <2> QED
    BY <1>3, <1>7, <2>3, <2>4, <2>5
<1> QED
  BY <1>2, <1>5, <1>6, <1>7

LEMMA AdvanceOK ==
    ASSUME IdeaInv, NEW w \in IdeaWorkers, Advance(w)
    PROVE  IdeaInv'
<1> DEFINE job == ideaJob[w]
           i == job.intent
           appended == NewOutcomes(job.seen, job.proposal, job.state)
           row == [job.seen EXCEPT !.proposal = job.proposal,
                                   !.status = TargetStatus(job.state),
                                   !.version = @ + Len(appended)]
           history == outcomes[i] \o appended
<1>1. /\ job.phase = "advance" /\ realizations[i].version = job.seen.version
      /\ ProposalUnlinked(i, job.proposal)
      /\ realizations' = [realizations EXCEPT ![i] = row]
      /\ outcomes' = [outcomes EXCEPT ![i] = history]
      /\ ideaJob' = [ideaJob EXCEPT ![w] = IdleIdeaJob] /\ linkable' = linkable
  BY DEF Advance, ProgressionAdmitted, IdeaWorkEnds
<1>2. /\ IdeaJobOK(job, realizations, linkable) /\ i \in Intents
      /\ realizations[i] # None /\ SeenOK(job.seen, realizations[i])
      /\ job.seen \in Realization
  BY <1>1 DEF IdeaInv, IdeaJobOK, RecordOK
<1>3. job.seen = realizations[i]
  <2>1. job.seen.version \in Nat
    BY <1>2 DEF Realization
  <2> QED
    BY <1>1, <1>2, <2>1 DEF SeenOK
<1>4. outcomes[i] = HistoryOf(job.seen)
  BY <1>2, <1>3, RealizationFacts
<1>5. /\ RecordOK(row, linkable) /\ job.seen.version < row.version
      /\ row.proposal = job.proposal /\ history = HistoryOf(row)
  <2>1. row \in [intake : {job.seen.intake}, status : {TargetStatus(job.state)},
                 version : {job.seen.version + Len(appended)},
                 proposal : {job.proposal}, older : {job.seen.older}]
    BY <1>2 DEF Realization
  <2>2. appended = NewOutcomes(job.seen, job.proposal, job.state)
    OBVIOUS
  <2> HIDE DEF row, appended, job
  <2>3. /\ RecordOK(row, linkable) /\ job.seen.version < row.version
        /\ row.proposal = job.proposal
        /\ HistoryOf(job.seen) \o appended = HistoryOf(row)
    BY <1>1, <1>2, <2>1, <2>2, AdvancedOK
  <2> QED
    BY <1>4, <2>3
<1> HIDE DEF row, history, appended
<1>6. /\ \A j \in Intents :
            RealizationOK(realizations'[j], outcomes'[j], linkable')
      /\ RowsGrow(realizations, realizations')
      /\ realizations' = [j \in Intents |-> realizations'[j]]
      /\ outcomes' = [j \in Intents |-> outcomes'[j]]
  BY <1>1, <1>2, <1>3, <1>5, RowReplaced
<1>7. LinkedOnce(realizations')
  <2>1. \A j \in Intents : realizations'[j] = IF j = i THEN row ELSE realizations[j]
    BY <1>1, <1>2 DEF IdeaInv, IdeaTablesOK
  <2>2. \A j \in Intents \ {i} :
            realizations[j] # None => realizations[j].proposal # row.proposal
    BY <1>1, <1>5 DEF ProposalUnlinked
  <2> QED
    BY <1>2, <2>1, <2>2 DEF IdeaInv, LinkedOnce
<1>8. EndsKept(linkable, linkable')
  BY <1>1 DEF EndsKept
<1>9. ASSUME NEW u \in IdeaWorkers
      PROVE  IdeaJobOK(ideaJob'[u], realizations', linkable')
  <2>1. ideaJob'[u] = IF u = w THEN IdleIdeaJob ELSE ideaJob[u]
    BY <1>1 DEF IdeaInv, IdeaTablesOK
  <2>2. IdeaJobOK(ideaJob[u], realizations', linkable')
    BY <1>6, <1>8, IdeaJobStays DEF IdeaInv
  <2> QED
    BY <2>1, <2>2, IdleIdeaJobOK
<1>10. ideaJob' = [u \in IdeaWorkers |-> ideaJob'[u]]
  BY <1>1 DEF IdeaInv, IdeaTablesOK
<1> QED
  BY <1>1, <1>6, <1>7, <1>9, <1>10 DEF IdeaInv, IdeaTablesOK

-----------------------------------------------------------------------------
\* Theorems

\* In every reachable state the outcomes of a realization are those its record
\* implies, no proposal is linked twice, and what a reconciliation has loaded is
\* an earlier version of what is stored, or the same.
THEOREM IdeaInvariant == IdeaSpec => []IdeaInv
<1>1. IdeaInit => IdeaInv
  BY IdeaInitOK
<1>2. IdeaInv /\ [IdeaNext]_ideaVars => IdeaInv'
  <2> SUFFICES ASSUME IdeaInv, [IdeaNext]_ideaVars
               PROVE  IdeaInv'
    OBVIOUS
  <2>1. ASSUME NEW p \in LinkableProposals, LinkableMoves(p) PROVE IdeaInv'
    BY <2>1, LinkableMovesOK
  <2>2. ASSUME NEW k \in IntakeKeys, IntakeExpires(k) PROVE IdeaInv'
    BY <2>2, IntakeExpiresOK
  <2>3. ASSUME NEW k \in IntakeKeys, NEW i \in Intents, NEW intake \in Intakes,
               ClaimIntake(k, i, intake)
        PROVE  IdeaInv'
    BY <2>3, ClaimIntakeOK
  <2>4. ASSUME NEW w \in IdeaWorkers, ReceiveReconciliation(w) PROVE IdeaInv'
    BY <2>4, ReceiveReconciliationOK
  <2>5. ASSUME NEW w \in IdeaWorkers, LoadHistory(w) PROVE IdeaInv'
    BY <2>5, LoadHistoryOK
  <2>6. ASSUME NEW w \in IdeaWorkers, LoadProposal(w) PROVE IdeaInv'
    BY <2>6, LoadProposalOK
  <2>7. ASSUME NEW w \in IdeaWorkers, Advance(w) PROVE IdeaInv'
    BY <2>7, AdvanceOK
  <2>8. ASSUME NEW w \in IdeaWorkers, AdvanceLost(w) PROVE IdeaInv'
    BY <2>8, IdeaEndStep DEF AdvanceLost
  <2>9. ASSUME NEW w \in IdeaWorkers, IdeaWorkerDies(w) PROVE IdeaInv'
    BY <2>9, IdeaEndStep DEF IdeaWorkerDies
  <2>10. CASE UNCHANGED ideaVars
    BY <2>10 DEF ideaVars, IdeaInv, IdeaTablesOK
  <2> QED
    BY <2>1, <2>2, <2>3, <2>4, <2>5, <2>6, <2>7, <2>8, <2>9, <2>10 DEF IdeaNext
<1> QED
  BY <1>1, <1>2, PTL DEF IdeaSpec

\* A realization says what its history says, and its proposal was linked by one
\* outcome, whoever reconciles at the same time or from an old version.
THEOREM RealizationsFollowHistory == IdeaSpec => []RealizationMatchesHistory
<1>1. ASSUME IdeaInv, NEW i \in Intents, realizations[i] # None
      PROVE  LET history == outcomes[i] IN
             /\ Len(history) = realizations[i].version
             /\ Last(history) = Outcome(realizations[i].status,
                                        realizations[i].proposal)
             /\ Cardinality({n \in DOMAIN history :
                                 history[n].status = "PROPOSAL_LINKED"})
                   = IF realizations[i].proposal = None THEN 0 ELSE 1
  <2> DEFINE r == realizations[i]
             first == Outcome(InitialStatus(r.intake), None)
             link == Outcome("PROPOSAL_LINKED", r.proposal)
             last == Outcome(r.status, r.proposal)
             history == outcomes[i]
             links == {n \in DOMAIN history : history[n].status = "PROPOSAL_LINKED"}
  <2>1. RecordOK(r, linkable) /\ history = HistoryOf(r) /\ None \notin LinkableProposals
    BY <1>1, RealizationFacts
  <2>2. r.version \in {1, 2, 3}
    BY <2>1 DEF RecordOK, Realization
  <2>3. first.status # "PROPOSAL_LINKED" /\ link.status = "PROPOSAL_LINKED"
    BY InitialFacts DEF Outcome
  <2>4. CASE r.version = 1
    <3>1. history = <<first>> /\ r.proposal = None /\ last = first
      BY <2>1, <2>4 DEF RecordOK, HistoryOf
    <3> HIDE DEF first, link, last, r, history
    <3>2. links = {}
      BY <2>3, <3>1
    <3>3. Len(history) = 1 /\ Last(history) = last
      BY <3>1 DEF Last
    <3> QED
      BY <2>4, <3>1, <3>2, <3>3, FS_EmptySet DEF r, history, last
  <2>5. CASE r.version = 2
    <3>1. history = <<first, link>> /\ r.proposal # None /\ last = link
      BY <2>1, <2>5 DEF RecordOK, HistoryOf
    <3> HIDE DEF first, link, last, r, history
    <3>2. links = {2}
      BY <2>3, <3>1
    <3>3. Len(history) = 2 /\ Last(history) = last
      BY <3>1 DEF Last
    <3> QED
      BY <2>5, <3>1, <3>2, <3>3, FS_Singleton DEF r, history, last
  <2>6. CASE r.version = 3
    <3>1. history = <<first, link, last>> /\ r.proposal # None
      BY <2>1, <2>6 DEF RecordOK, HistoryOf
    <3>2. last.status # "PROPOSAL_LINKED"
      BY <2>1, <2>6, TargetFacts DEF RecordOK, Outcome, Closings
    <3> HIDE DEF first, link, last, r, history
    <3>3. links = {2}
      BY <2>3, <3>1, <3>2
    <3>4. Len(history) = 3 /\ Last(history) = last
      BY <3>1 DEF Last
    <3> QED
      BY <2>6, <3>1, <3>3, <3>4, FS_Singleton DEF r, history, last
  <2> QED
    BY <2>2, <2>4, <2>5, <2>6
<1>2. IdeaInv => RealizationMatchesHistory
  BY <1>1 DEF RealizationMatchesHistory
<1> QED
  BY <1>2, IdeaInvariant, PTL

\* No proposal realizes two intents, nor an intent that came in after it.
THEOREM ProposalsRealizeOnce == IdeaSpec => []OneRealizationPerProposal
<1>1. ASSUME IdeaInv, NEW i \in Intents, realizations[i] # None,
             realizations[i].proposal # None
      PROVE  realizations[i].proposal \notin realizations[i].older
  BY <1>1, RealizationFacts DEF RecordOK
<1>2. IdeaInv => OneRealizationPerProposal
  BY <1>1 DEF IdeaInv, LinkedOnce, OneRealizationPerProposal
<1> QED
  BY <1>2, IdeaInvariant, PTL

\* A realization is closed by the terminal state its proposal really has, and
\* nothing is appended after that.
THEOREM RealizationsCloseOnce == IdeaSpec => []ClosedAsProposalEnded
<1>1. ASSUME IdeaInv, NEW i \in Intents, NEW n \in DOMAIN outcomes[i],
             outcomes[i][n].status \notin
                 {"ACCEPTED_FOR_REVIEW", "REJECTED_BEFORE_WORK", "PROPOSAL_LINKED"}
      PROVE  /\ n = Len(outcomes[i])
             /\ outcomes[i][n].status
                   = TargetStatus(linkable[outcomes[i][n].proposal])
             /\ realizations[i].status = outcomes[i][n].status
  <2> DEFINE r == realizations[i]
             first == Outcome(InitialStatus(r.intake), None)
             link == Outcome("PROPOSAL_LINKED", r.proposal)
             last == Outcome(r.status, r.proposal)
             history == outcomes[i]
  <2>1. r # None
    BY <1>1, RealizationFacts
  <2>2. RecordOK(r, linkable) /\ history = HistoryOf(r)
    BY <1>1, <2>1, RealizationFacts
  <2>3. /\ first.status \in {"ACCEPTED_FOR_REVIEW", "REJECTED_BEFORE_WORK"}
        /\ link.status = "PROPOSAL_LINKED"
    BY InitialFacts DEF Outcome
  <2>4. history \in {<<first>>, <<first, link>>, <<first, link, last>>}
    BY <2>2 DEF HistoryOf
  <2>5. history = <<first, link, last>> /\ n = 3
    <3> HIDE DEF first, link, last
    <3>1. CASE history = <<first>>
      BY <1>1, <2>3, <3>1
    <3>2. CASE history = <<first, link>>
      BY <1>1, <2>3, <3>2
    <3>3. CASE history = <<first, link, last>>
      BY <1>1, <2>3, <3>3
    <3> QED
      BY <2>4, <3>1, <3>2, <3>3
  <2>6. r.version = 3
    <3> HIDE DEF first, link, last
    <3>1. Len(history) = 3
      BY <2>5
    <3>2. r.version \in {1, 2, 3}
      BY <2>2 DEF RecordOK, Realization
    <3>3. r.version = 1 => Len(history) = 1
      BY <2>2 DEF HistoryOf
    <3>4. r.version = 2 => Len(history) = 2
      BY <2>2 DEF HistoryOf
    <3> QED
      BY <3>1, <3>2, <3>3, <3>4
  <2>7. r.status = TargetStatus(linkable[r.proposal])
    BY <2>2, <2>6 DEF RecordOK
  <2>8. /\ Len(history) = 3 /\ history[n].status = r.status
        /\ history[n].proposal = r.proposal
    BY <2>5 DEF Outcome
  <2> QED
    BY <2>5, <2>7, <2>8
<1>2. IdeaInv => ClosedAsProposalEnded
  BY <1>1 DEF ClosedAsProposalEnded
<1> QED
  BY <1>2, IdeaInvariant, PTL

=============================================================================
