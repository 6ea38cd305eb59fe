----------------------- MODULE WorkspaceSessionsProofs -----------------------
(***************************************************************************)
(* Theorems of WorkspaceSessions, for every set of workers, drafts and     *)
(* keys, and every number of commands.                                     *)
(***************************************************************************)
EXTENDS WorkspaceSessions, TLAPS

\* A row of the saved versions
SavedRow == [id : Nat, number : Nat, draft : Drafts, evidence : Drafts]

\* A session row, stored or copied; its link may be anything.
CopyOK(copy) ==
    copy \in [draft : Drafts, evidence : Drafts \cup {None}, link : {copy.link}]

\* Saved versions, stored or copied: numbered, with distinct ids of commands
\* that have come in.
SavedOK(saved, n) ==
    /\ saved \in Seq(SavedRow)
    /\ \A i, j \in DOMAIN saved :
          /\ saved[i].number = i /\ saved[i].id <= n
          /\ saved[i].id = saved[j].id => i = j

Unused(id, saved) == \A i \in DOMAIN saved : saved[i].id # id

\* The phases in which a worker holds a copy of the saved versions
HoldingPhases == {"evaluate", "handoff", "store"}

Fields(phase) ==
    IF phase = "session" THEN {"phase", "op", "arg", "at"}
    ELSE IF phase = "versions" THEN {"phase", "op", "arg", "at", "copy"}
    ELSE {"phase", "op", "arg", "at", "copy", "saved"}

\* What a worker holds
WorkspaceJobOK(job, n) ==
    /\ job.phase \in {"idle", "session", "versions"} \cup HoldingPhases
    /\ job.phase # "idle" =>
          /\ job = [field \in Fields(job.phase) |-> job[field]]
          /\ job.at \in 1 .. n
          /\ job.op = "draft" => job.arg \in Drafts
    /\ job.phase = "versions" => CopyOK(job.copy)
    /\ job.phase \in HoldingPhases => CopyOK(job.copy) /\ SavedOK(job.saved, n)

\* A worker that will save, or has saved in its copy only: nobody else has its
\* id.
SavingOK(jobs, stored) ==
    \A w, u \in WorkspaceUsers :
        jobs[w].phase # "idle" =>
            /\ jobs[u].phase # "idle" /\ u # w => jobs[u].at # jobs[w].at
            /\ jobs[w].op = "save" =>
                  /\ Unused(jobs[w].at, stored)
                  /\ jobs[u].phase \in HoldingPhases /\ u # w =>
                        Unused(jobs[w].at, jobs[u].saved)

\* The inductive invariant.
WorkspaceInv ==
    /\ CopyOK(session)
    /\ workspaceCommands \in Nat
    /\ SavedOK(savedVersions, workspaceCommands)
    /\ workspaceJob = [w \in WorkspaceUsers |-> workspaceJob[w]]
    /\ \A w \in WorkspaceUsers : WorkspaceJobOK(workspaceJob[w], workspaceCommands)
    /\ SavingOK(workspaceJob, savedVersions)

-----------------------------------------------------------------------------
\* Lemmas

\* One worker goes on with the command it has, or ends; what is stored may be
\* replaced by what is unused by the others.
LEMMA WorkspaceJobStep ==
    ASSUME WorkspaceInv, NEW w \in WorkspaceUsers, NEW job,
           workspaceJob' = [workspaceJob EXCEPT ![w] = job],
           workspaceCommands' = workspaceCommands,
           CopyOK(session'), SavedOK(savedVersions', workspaceCommands),
           WorkspaceJobOK(job, workspaceCommands),
           job.phase # "idle" =>
               /\ workspaceJob[w].phase # "idle" /\ job.at = workspaceJob[w].at
               /\ job.op = "save" =>
                     workspaceJob[w].op = "save" /\ savedVersions' = savedVersions,
           \A u \in WorkspaceUsers \ {w} :
               workspaceJob[u].phase # "idle" /\ workspaceJob[u].op = "save" =>
                   /\ Unused(workspaceJob[u].at, savedVersions')
                   /\ job.phase \in HoldingPhases =>
                         Unused(workspaceJob[u].at, job.saved)
    PROVE  WorkspaceInv'
<1>1. /\ workspaceJob' = [u \in WorkspaceUsers |-> workspaceJob'[u]]
      /\ \A u \in WorkspaceUsers :
            workspaceJob'[u] = IF u = w THEN job ELSE workspaceJob[u]
  BY DEF WorkspaceInv
<1>2. \A u \in WorkspaceUsers : WorkspaceJobOK(workspaceJob'[u], workspaceCommands)
  BY <1>1 DEF WorkspaceInv
<1>3. SavingOK(workspaceJob', savedVersions')
  <2> SUFFICES ASSUME NEW u \in WorkspaceUsers, NEW v \in WorkspaceUsers,
                      workspaceJob'[u].phase # "idle"
               PROVE  /\ workspaceJob'[v].phase # "idle" /\ v # u =>
                             workspaceJob'[v].at # workspaceJob'[u].at
                      /\ workspaceJob'[u].op = "save" =>
                            /\ Unused(workspaceJob'[u].at, savedVersions')
                            /\ workspaceJob'[v].phase \in HoldingPhases /\ v # u =>
                                  Unused(workspaceJob'[u].at, workspaceJob'[v].saved)
    BY DEF SavingOK
  <2>1. CASE u = w
    BY <1>1, <2>1 DEF WorkspaceInv, SavingOK
  <2>2. CASE u # w
    BY <1>1, <2>2 DEF WorkspaceInv, SavingOK
  <2> QED
    BY <2>1, <2>2
<1> QED
  BY <1>1, <1>2, <1>3 DEF WorkspaceInv

\* A worker that ends holds nothing.
LEMMA IdleWorkspaceJobOK ==
    ASSUME NEW n
    PROVE  WorkspaceJobOK(IdleWorkspaceJob, n) /\ IdleWorkspaceJob.phase = "idle"
BY DEF WorkspaceJobOK, IdleWorkspaceJob, HoldingPhases

\* A worker ends without a write.
LEMMA WorkspaceEndStep ==
    ASSUME WorkspaceInv, NEW w \in WorkspaceUsers, WorkspaceJobEnds(w),
           UNCHANGED <<workspaceTables, workspaceCommands>>
    PROVE  WorkspaceInv'
<1>1. /\ CopyOK(session') /\ SavedOK(savedVersions', workspaceCommands)
      /\ savedVersions' = savedVersions /\ workspaceCommands' = workspaceCommands
  BY DEF WorkspaceInv, workspaceTables
<1>2. \A u \in WorkspaceUsers :
          workspaceJob[u].phase # "idle" /\ workspaceJob[u].op = "save" =>
              Unused(workspaceJob[u].at, savedVersions')
  BY <1>1 DEF WorkspaceInv, SavingOK
<1>3. IdleWorkspaceJob.phase \notin HoldingPhases
  BY DEF IdleWorkspaceJob, HoldingPhases
<1> QED
  BY <1>1, <1>2, <1>3, IdleWorkspaceJobOK, WorkspaceJobStep DEF WorkspaceJobEnds

\* Saved versions do not have the id of a command that has not come in.
LEMMA SavedStaysOK ==
    ASSUME NEW n \in Nat, NEW saved, SavedOK(saved, n)
    PROVE  SavedOK(saved, n + 1) /\ Unused(n + 1, saved)
<1>1. \A i \in DOMAIN saved : saved[i].id \in Nat /\ saved[i].id <= n
  <2>1. \A i \in DOMAIN saved : saved[i] \in SavedRow
    BY DEF SavedOK
  <2> QED
    BY <2>1 DEF SavedOK, SavedRow
<1>2. \A i \in DOMAIN saved : saved[i].id <= n + 1 /\ saved[i].id # n + 1
  BY <1>1
<1> QED
  BY <1>2 DEF SavedOK, Unused

\* The version that is saved of a copy
LEMMA SavedVersionOK ==
    ASSUME NEW copy, CopyOK(copy), NEW id \in Nat, NEW number \in Nat
    PROVE  /\ SavedVersion(id, number, copy) \in SavedRow
           /\ SavedVersion(id, number, copy).id = id
           /\ SavedVersion(id, number, copy).number = number
BY WorkspaceAssumption
   DEF WorkspaceAssumption, SavedVersion, SavedRow, CopyOK

\* A version that is added to a copy with an id nobody else has
LEMMA SaveInCopy ==
    ASSUME NEW saved, NEW n \in Nat, SavedOK(saved, n), NEW row \in SavedRow,
           row.id <= n, row.number = Len(saved) + 1, Unused(row.id, saved),
           NEW next, next = Append(saved, row)
    PROVE  /\ SavedOK(next, n)
           /\ \A other :
                 Unused(other, saved) /\ other # row.id => Unused(other, next)
<1>1. saved \in Seq(SavedRow) /\ Len(saved) \in Nat
  BY DEF SavedOK
<1>2. /\ next \in Seq(SavedRow) /\ DOMAIN next = 1 .. Len(saved) + 1
      /\ \A i \in DOMAIN saved : next[i] = saved[i]
      /\ next[Len(saved) + 1] = row
      /\ DOMAIN saved = 1 .. Len(saved)
  BY <1>1
<1>3. ASSUME NEW i \in DOMAIN next
      PROVE  next[i].number = i /\ next[i].id <= n
  BY <1>1, <1>2 DEF SavedOK
<1>4. ASSUME NEW i \in DOMAIN next, NEW j \in DOMAIN next,
             next[i].id = next[j].id
      PROVE  i = j
  BY <1>1, <1>2, <1>4 DEF SavedOK, Unused
<1>5. ASSUME NEW other, Unused(other, saved), other # row.id
      PROVE  Unused(other, next)
  BY <1>1, <1>2, <1>5 DEF Unused
<1> QED
  BY <1>2, <1>3, <1>4, <1>5 DEF SavedOK

-----------------------------------------------------------------------------
\* One lemma per action.

LEMMA WorkspaceInitOK == ASSUME WorkspaceInit PROVE WorkspaceInv
<1>1. CopyOK(session)
  BY WorkspaceAssumption DEF WorkspaceInit, CopyOK, WorkspaceAssumption
<1>2. SavedOK(savedVersions, workspaceCommands)
  BY DEF WorkspaceInit, SavedOK
<1>3. SavingOK(workspaceJob, savedVersions)
  BY DEF WorkspaceInit, SavingOK, IdleWorkspaceJob
<1> QED
  BY <1>1, <1>2, <1>3, IdleWorkspaceJobOK DEF WorkspaceInit, WorkspaceInv

LEMMA ReceiveWorkspaceOK ==
    ASSUME WorkspaceInv, NEW w \in WorkspaceUsers, ReceiveWorkspaceCommand(w)
    PROVE  WorkspaceInv'
<1> DEFINE n == workspaceCommands
<1>1. PICK command \in [op : {"draft"}, arg : Drafts]
                       \cup [op : {"evaluate", "save"}, arg : {None}]
                       \cup [op : {"resume"}, arg : 1 .. Len(savedVersions)]
                       \cup [op : {"handoff"}, arg : HandoffKeys] :
          workspaceJob' = [workspaceJob EXCEPT ![w] =
              [phase |-> "session", op |-> command.op, arg |-> command.arg,
               at |-> workspaceCommands']]
  BY DEF ReceiveWorkspaceCommand
<1> DEFINE job == [phase |-> "session", op |-> command.op, arg |-> command.arg,
                   at |-> n + 1]
<1>2. command.op = "draft" => command.arg \in Drafts
  <2>1. CASE command \in [op : {"draft"}, arg : Drafts]
    BY <2>1
  <2>2. CASE command \in [op : {"evaluate", "save"}, arg : {None}]
    BY <2>2
  <2>3. CASE command \in [op : {"resume"}, arg : 1 .. Len(savedVersions)]
    BY <2>3
  <2>4. CASE command \in [op : {"handoff"}, arg : HandoffKeys]
    BY <2>4
  <2> QED
    BY <2>1, <2>2, <2>3, <2>4
<1>3. /\ n \in Nat /\ workspaceCommands' = n + 1
      /\ session' = session /\ savedVersions' = savedVersions
  BY DEF ReceiveWorkspaceCommand, WorkspaceInv, workspaceTables
<1>4. \A u \in WorkspaceUsers :
          workspaceJob'[u] = IF u = w THEN job ELSE workspaceJob[u]
  BY <1>1, <1>3 DEF WorkspaceInv
<1>5. ASSUME NEW saved, SavedOK(saved, n)
      PROVE  SavedOK(saved, n + 1) /\ Unused(n + 1, saved)
  BY <1>3, <1>5, SavedStaysOK
<1>6. WorkspaceJobOK(job, n + 1)
  BY <1>2, <1>3 DEF WorkspaceJobOK, Fields, HoldingPhases
<1>7. \A u \in WorkspaceUsers : WorkspaceJobOK(workspaceJob[u], n)
  BY DEF WorkspaceInv
<1>8. ASSUME NEW u \in WorkspaceUsers PROVE WorkspaceJobOK(workspaceJob'[u], n + 1)
  <2>1. CASE u = w
    BY <1>4, <1>6, <2>1
  <2>2. CASE u # w
    <3>1. WorkspaceJobOK(workspaceJob[u], n + 1)
      BY <1>3, <1>5, <1>7 DEF WorkspaceJobOK
    <3> QED
      BY <1>4, <2>2, <3>1
  <2> QED
    BY <2>1, <2>2
<1>9. \A u \in WorkspaceUsers :
           workspaceJob[u].phase # "idle" => workspaceJob[u].at \in 1 .. n
  BY <1>7 DEF WorkspaceJobOK
<1>10. SavingOK(workspaceJob', savedVersions)
  <2> SUFFICES ASSUME NEW u \in WorkspaceUsers, NEW v \in WorkspaceUsers,
                      workspaceJob'[u].phase # "idle"
               PROVE  /\ workspaceJob'[v].phase # "idle" /\ v # u =>
                             workspaceJob'[v].at # workspaceJob'[u].at
                      /\ workspaceJob'[u].op = "save" =>
                            /\ Unused(workspaceJob'[u].at, savedVersions)
                            /\ workspaceJob'[v].phase \in HoldingPhases /\ v # u =>
                                  Unused(workspaceJob'[u].at, workspaceJob'[v].saved)
    BY DEF SavingOK
  <2>1. CASE u = w
    <3>1. workspaceJob'[u].at = n + 1
      BY <1>4, <2>1
    <3>2. Unused(n + 1, savedVersions)
      BY <1>5 DEF WorkspaceInv
    <3>3. workspaceJob'[v].phase \in HoldingPhases /\ v # u =>
              Unused(n + 1, workspaceJob'[v].saved)
      BY <1>4, <1>5, <1>7, <2>1 DEF WorkspaceJobOK
    <3>4. workspaceJob'[v].phase # "idle" /\ v # u => workspaceJob'[v].at # n + 1
      BY <1>3, <1>4, <1>9, <2>1
    <3> QED
      BY <3>1, <3>2, <3>3, <3>4
  <2>2. CASE u # w /\ v # w
    BY <1>4, <2>2 DEF WorkspaceInv, SavingOK
  <2>3. CASE u # w /\ v = w
    <3>1. workspaceJob'[v].at = n + 1 /\ workspaceJob'[v].phase \notin HoldingPhases
      BY <1>4, <2>3 DEF HoldingPhases
    <3>2. workspaceJob'[u] = workspaceJob[u] /\ workspaceJob[u].at # n + 1
      BY <1>3, <1>4, <1>9, <2>3
    <3>3. workspaceJob[u].op = "save" => Unused(workspaceJob[u].at, savedVersions)
      BY <3>2 DEF WorkspaceInv, SavingOK
    <3> QED
      BY <3>1, <3>2, <3>3
  <2> QED
    BY <2>1, <2>2, <2>3
<1>11. workspaceJob' = [u \in WorkspaceUsers |-> workspaceJob'[u]]
  BY <1>1 DEF WorkspaceInv
<1> QED
  BY <1>3, <1>5, <1>8, <1>10, <1>11 DEF WorkspaceInv

LEMMA ReadSessionOK ==
    ASSUME WorkspaceInv, NEW w \in WorkspaceUsers, ReadSession(w)
    PROVE  WorkspaceInv'
<1> DEFINE old == workspaceJob[w]
           job == [phase |-> "versions", op |-> old.op, arg |-> old.arg,
                   at |-> old.at, copy |-> session]
<1>1. /\ old.phase = "session" /\ workspaceJob' = [workspaceJob EXCEPT ![w] = job]
      /\ session' = session /\ savedVersions' = savedVersions
      /\ workspaceCommands' = workspaceCommands
  BY DEF ReadSession, workspaceTables
<1>2. WorkspaceJobOK(old, workspaceCommands) /\ CopyOK(session)
  BY DEF WorkspaceInv
<1>3. WorkspaceJobOK(job, workspaceCommands)
  BY <1>1, <1>2 DEF WorkspaceJobOK, Fields, HoldingPhases
<1>4. \A u \in WorkspaceUsers :
          workspaceJob[u].phase # "idle" /\ workspaceJob[u].op = "save" =>
              Unused(workspaceJob[u].at, savedVersions)
  BY DEF WorkspaceInv, SavingOK
<1>5. SavedOK(savedVersions', workspaceCommands) /\ job.phase \notin HoldingPhases
  BY <1>1 DEF WorkspaceInv, HoldingPhases
<1> QED
  BY <1>1, <1>2, <1>3, <1>4, <1>5, WorkspaceJobStep

\* What a command makes of a copy is a copy, and only a save adds a version.
LEMMA AppliedOK ==
    ASSUME WorkspaceInv, NEW w \in WorkspaceUsers, NEW job, job = workspaceJob[w],
           job.phase = "versions",
           job.op = "resume" => job.arg \in DOMAIN savedVersions
    PROVE  /\ CopyOK(Applied(job, savedVersions).copy)
           /\ SavedOK(Applied(job, savedVersions).saved, workspaceCommands)
           /\ \A other : Unused(other, savedVersions) /\ other # job.at =>
                 Unused(other, Applied(job, savedVersions).saved)
<1>1. /\ CopyOK(job.copy)
      /\ job.op = "draft" => job.arg \in Drafts
      /\ job.at \in 1 .. workspaceCommands
      /\ SavedOK(savedVersions, workspaceCommands) /\ workspaceCommands \in Nat
  BY DEF WorkspaceInv, WorkspaceJobOK
<1>2. CASE job.op = "draft"
  <2>1. CopyOK([job.copy EXCEPT !.draft = job.arg])
    BY <1>1, <1>2 DEF CopyOK
  <2>2. /\ Applied(job, savedVersions).copy = [job.copy EXCEPT !.draft = job.arg]
        /\ Applied(job, savedVersions).saved = savedVersions
    BY <1>2 DEF Applied
  <2> QED
    BY <1>1, <2>1, <2>2
<1>3. CASE job.op = "save"
  <2>1. Unused(job.at, savedVersions)
    BY <1>3 DEF WorkspaceInv, SavingOK
  <2> DEFINE row == SavedVersion(job.at, Len(savedVersions) + 1, job.copy)
             next == Append(savedVersions, row)
  <2>2. /\ Applied(job, savedVersions).copy = job.copy
        /\ Applied(job, savedVersions).saved = next
    BY <1>3 DEF Applied
  <2>3. Len(savedVersions) + 1 \in Nat /\ job.at \in Nat
    BY <1>1 DEF SavedOK
  <2>4. /\ row \in SavedRow /\ row.id = job.at
        /\ row.number = Len(savedVersions) + 1
    BY <1>1, <2>3, SavedVersionOK
  <2> HIDE DEF row
  <2>5. row.id <= workspaceCommands /\ Unused(row.id, savedVersions)
    BY <1>1, <2>1, <2>4
  <2>6. /\ SavedOK(next, workspaceCommands)
        /\ \A other : Unused(other, savedVersions) /\ other # row.id =>
              Unused(other, next)
    BY <1>1, <2>4, <2>5, SaveInCopy
  <2> HIDE DEF next
  <2> QED
    BY <1>1, <2>2, <2>4, <2>6
<1>4. CASE job.op = "resume"
  <2> DEFINE version == savedVersions[job.arg]
             copy == [job.copy EXCEPT !.draft = version.draft,
                                      !.evidence = version.evidence]
  <2>1. version \in SavedRow
    BY <1>1, <1>4 DEF SavedOK
  <2>2. version.draft \in Drafts /\ version.evidence \in Drafts
    BY <2>1 DEF SavedRow
  <2>3. copy \in [draft : {version.draft}, evidence : {version.evidence},
                  link : {job.copy.link}]
    BY <1>1 DEF CopyOK
  <2>4. /\ Applied(job, savedVersions).copy = copy
        /\ Applied(job, savedVersions).saved = savedVersions
    BY <1>4 DEF Applied
  <2> HIDE DEF copy, version
  <2>5. CopyOK(copy)
    BY <2>2, <2>3 DEF CopyOK
  <2> QED
    BY <1>1, <2>4, <2>5
<1>5. CASE job.op \notin {"draft", "save", "resume"}
  <2>1. /\ Applied(job, savedVersions).copy = job.copy
        /\ Applied(job, savedVersions).saved = savedVersions
    BY <1>5 DEF Applied
  <2> QED
    BY <1>1, <2>1
<1> QED
  BY <1>2, <1>3, <1>4, <1>5

LEMMA ReadVersionsOK ==
    ASSUME WorkspaceInv, NEW w \in WorkspaceUsers, ReadVersions(w)
    PROVE  WorkspaceInv'
<1> DEFINE old == workspaceJob[w]
           next == Applied(old, savedVersions)
           phase == CASE old.op = "evaluate" -> "evaluate"
                      [] old.op = "handoff" -> "handoff"
                      [] OTHER -> "store"
           job == [phase |-> phase, op |-> old.op, arg |-> old.arg,
                   at |-> old.at, copy |-> next.copy, saved |-> next.saved]
<1>1. /\ old.phase = "versions"
      /\ session' = session /\ savedVersions' = savedVersions
      /\ workspaceCommands' = workspaceCommands
  BY DEF ReadVersions, workspaceTables
<1>2. CASE old.op = "resume" /\ old.arg \notin DOMAIN savedVersions
  <2>1. WorkspaceJobEnds(w)
    BY <1>2 DEF ReadVersions
  <2> QED
    BY <1>1, <2>1, WorkspaceEndStep DEF workspaceTables
<1>3. CASE ~(old.op = "resume" /\ old.arg \notin DOMAIN savedVersions)
  <2>1. workspaceJob' = [workspaceJob EXCEPT ![w] = job]
    BY <1>3 DEF ReadVersions
  <2>2. /\ CopyOK(next.copy) /\ SavedOK(next.saved, workspaceCommands)
        /\ \A other : Unused(other, savedVersions) /\ other # old.at =>
              Unused(other, next.saved)
    BY <1>1, <1>3, AppliedOK
  <2>3. WorkspaceJobOK(old, workspaceCommands) /\ CopyOK(session)
        /\ SavedOK(savedVersions, workspaceCommands)
    BY DEF WorkspaceInv
  <2>4. /\ job.phase \in HoldingPhases /\ job.phase \notin {"idle", "session", "versions"}
        /\ job.op = old.op /\ job.arg = old.arg /\ job.at = old.at
        /\ job.copy = next.copy /\ job.saved = next.saved
    BY DEF HoldingPhases
  <2>5. job = [field \in Fields(job.phase) |-> job[field]]
    BY DEF Fields
  <2> HIDE DEF next
  <2>6. WorkspaceJobOK(job, workspaceCommands)
    BY <1>1, <2>2, <2>3, <2>4, <2>5 DEF WorkspaceJobOK
  <2>7. \A u \in WorkspaceUsers \ {w} :
            workspaceJob[u].phase # "idle" /\ workspaceJob[u].op = "save" =>
                /\ Unused(workspaceJob[u].at, savedVersions)
                /\ Unused(workspaceJob[u].at, job.saved)
    BY <1>1, <2>2, <2>4 DEF WorkspaceInv, SavingOK
  <2> HIDE DEF job
  <2> QED
    BY <1>1, <2>1, <2>3, <2>4, <2>6, <2>7, WorkspaceJobStep
<1> QED
  BY <1>2, <1>3

\* A worker that holds a copy changes the session in it and goes on.
LEMMA ChangeCopyStep ==
    ASSUME WorkspaceInv, NEW w \in WorkspaceUsers,
           workspaceJob[w].phase \in HoldingPhases, NEW copy, CopyOK(copy),
           workspaceJob' = [workspaceJob EXCEPT
               ![w] = [@ EXCEPT !.copy = copy, !.phase = "store"]],
           UNCHANGED <<workspaceTables, workspaceCommands>>
    PROVE  WorkspaceInv'
<1> DEFINE old == workspaceJob[w]
           job == [old EXCEPT !.copy = copy, !.phase = "store"]
<1>1. /\ workspaceJob' = [workspaceJob EXCEPT ![w] = job]
      /\ session' = session /\ savedVersions' = savedVersions
      /\ workspaceCommands' = workspaceCommands
  BY DEF workspaceTables
<1>2. /\ WorkspaceJobOK(old, workspaceCommands) /\ CopyOK(session)
      /\ SavedOK(savedVersions, workspaceCommands)
  BY DEF WorkspaceInv
<1>3. /\ old = [field \in {"phase", "op", "arg", "at", "copy", "saved"} |-> old[field]]
      /\ old.phase # "idle" /\ SavedOK(old.saved, workspaceCommands)
  BY <1>2 DEF WorkspaceJobOK, HoldingPhases, Fields
<1>4. /\ old \in [phase : {old.phase}, op : {old.op}, arg : {old.arg},
                 at : {old.at}, copy : {old.copy}, saved : {old.saved}]
      /\ old.phase # "idle"
  BY <1>3
<1>5. job \in [phase : {"store"}, op : {old.op}, arg : {old.arg},
               at : {old.at}, copy : {copy}, saved : {old.saved}]
  BY <1>4
<1> HIDE DEF job
<1>6. WorkspaceJobOK(job, workspaceCommands)
  BY <1>2, <1>3, <1>5 DEF WorkspaceJobOK, HoldingPhases, Fields
<1>7. \A u \in WorkspaceUsers \ {w} :
          workspaceJob[u].phase # "idle" /\ workspaceJob[u].op = "save" =>
              /\ Unused(workspaceJob[u].at, savedVersions)
              /\ Unused(workspaceJob[u].at, old.saved)
  BY DEF WorkspaceInv, SavingOK
<1>8. /\ job.phase # "idle" /\ job.at = old.at /\ job.op = old.op
      /\ job.saved = old.saved
  BY <1>5
<1> QED
  BY <1>1, <1>2, <1>3, <1>6, <1>7, <1>8, WorkspaceJobStep DEF job

LEMMA EvaluateOK ==
    ASSUME WorkspaceInv, NEW w \in WorkspaceUsers, Evaluate(w)
    PROVE  WorkspaceInv'
<1> DEFINE old == workspaceJob[w]
           copy == [old.copy EXCEPT !.evidence = old.copy.draft]
<1>1. old.phase \in HoldingPhases /\ WorkspaceJobOK(old, workspaceCommands)
  BY DEF WorkspaceInv, Evaluate, HoldingPhases
<1>2. CopyOK(copy)
  BY <1>1 DEF WorkspaceJobOK, CopyOK
<1>3. workspaceJob' = [workspaceJob EXCEPT
          ![w] = [@ EXCEPT !.copy = copy, !.phase = "store"]]
  BY DEF Evaluate
<1>4. UNCHANGED <<workspaceTables, workspaceCommands>>
  BY DEF Evaluate
<1> HIDE DEF copy
<1> QED
  BY <1>1, <1>2, <1>3, <1>4, ChangeCopyStep

\* A handoff that has made or found its version
LEMMA LinkedOK ==
    ASSUME WorkspaceInv, NEW w \in WorkspaceUsers,
           workspaceJob[w].phase = "handoff", NEW p, NEW version,
           Linked(w, p, version), UNCHANGED <<workspaceTables, workspaceCommands>>
    PROVE  WorkspaceInv'
<1> DEFINE old == workspaceJob[w]
           copy == [old.copy EXCEPT !.link = [proposal |-> p, version |-> version]]
<1>1. old.phase \in HoldingPhases /\ WorkspaceJobOK(old, workspaceCommands)
  BY DEF WorkspaceInv, HoldingPhases
<1>2. CopyOK(copy)
  BY <1>1 DEF WorkspaceJobOK, CopyOK
<1>3. workspaceJob' = [workspaceJob EXCEPT
          ![w] = [@ EXCEPT !.copy = copy, !.phase = "store"]]
  BY DEF Linked
<1> HIDE DEF copy
<1> QED
  BY <1>1, <1>2, <1>3, ChangeCopyStep

LEMMA HandOffProposalOK ==
    ASSUME WorkspaceInv, NEW w \in WorkspaceUsers, HandOffProposal(w)
    PROVE  WorkspaceInv'
<1>1. /\ workspaceJob[w].phase = "handoff"
      /\ UNCHANGED <<workspaceTables, workspaceCommands>>
  BY DEF HandOffProposal
<1>2. WorkspaceJobEnds(w) \/ \E p, version : Linked(w, p, version)
  BY DEF HandOffProposal
<1> QED
  BY <1>1, <1>2, LinkedOK, WorkspaceEndStep

LEMMA HandOffVersionOK ==
    ASSUME WorkspaceInv, NEW w \in WorkspaceUsers, HandOffVersion(w)
    PROVE  WorkspaceInv'
<1>1. /\ workspaceJob[w].phase = "handoff"
      /\ UNCHANGED <<workspaceTables, workspaceCommands>>
  BY DEF HandOffVersion
<1>2. WorkspaceJobEnds(w) \/ \E p, version : Linked(w, p, version)
  BY DEF HandOffVersion
<1> QED
  BY <1>1, <1>2, LinkedOK, WorkspaceEndStep

LEMMA StoreSessionOK ==
    ASSUME WorkspaceInv, NEW w \in WorkspaceUsers, StoreSession(w)
    PROVE  WorkspaceInv'
<1> DEFINE old == workspaceJob[w]
           again == [phase |-> "session", op |-> "evaluate", arg |-> None,
                     at |-> old.at]
<1>1. /\ old.phase = "store" /\ session' = old.copy
      /\ savedVersions' = old.saved /\ workspaceCommands' = workspaceCommands
      /\ \/ WorkspaceJobEnds(w)
         \/ workspaceJob' = [workspaceJob EXCEPT ![w] = again]
  BY DEF StoreSession, VersionsAfter
<1>2. WorkspaceJobOK(old, workspaceCommands)
  BY DEF WorkspaceInv
<1>3. CopyOK(session') /\ SavedOK(savedVersions', workspaceCommands)
  BY <1>1, <1>2 DEF WorkspaceJobOK, HoldingPhases
<1>4. \A u \in WorkspaceUsers \ {w} :
          workspaceJob[u].phase # "idle" /\ workspaceJob[u].op = "save" =>
              Unused(workspaceJob[u].at, savedVersions')
  BY <1>1 DEF WorkspaceInv, SavingOK, HoldingPhases
<1>5. CASE WorkspaceJobEnds(w)
  <2>1. IdleWorkspaceJob.phase \notin HoldingPhases
    BY DEF IdleWorkspaceJob, HoldingPhases
  <2> QED
    BY <1>1, <1>3, <1>4, <1>5, <2>1, IdleWorkspaceJobOK, WorkspaceJobStep
       DEF WorkspaceJobEnds
<1>6. CASE workspaceJob' = [workspaceJob EXCEPT ![w] = again]
  <2>1. WorkspaceJobOK(again, workspaceCommands)
    BY <1>1, <1>2 DEF WorkspaceJobOK, Fields, HoldingPhases
  <2>2. /\ again.phase \notin HoldingPhases /\ again.op # "save"
        /\ again.at = old.at /\ old.phase # "idle"
    BY <1>1 DEF HoldingPhases
  <2> HIDE DEF again
  <2> QED
    BY <1>1, <1>3, <1>4, <1>6, <2>1, <2>2, WorkspaceJobStep
<1> QED
  BY <1>1, <1>5, <1>6

-----------------------------------------------------------------------------
\* Theorems

\* In every reachable state the session and every copy of it are well formed,
\* and a worker that saves a version has an id that is in no list of saved
\* versions but its own.
THEOREM WorkspaceInvariant == WorkspaceSpec => []WorkspaceInv
<1>1. WorkspaceInit => WorkspaceInv
  BY WorkspaceInitOK
<1>2. WorkspaceInv /\ [WorkspaceNext]_workspaceVars => WorkspaceInv'
  <2> SUFFICES ASSUME WorkspaceInv, [WorkspaceNext]_workspaceVars
               PROVE  WorkspaceInv'
    OBVIOUS
  <2>1. ASSUME NEW w \in WorkspaceUsers, ReceiveWorkspaceCommand(w)
        PROVE  WorkspaceInv'
    BY <2>1, ReceiveWorkspaceOK
  <2>2. ASSUME NEW w \in WorkspaceUsers, ReadSession(w) PROVE WorkspaceInv'
    BY <2>2, ReadSessionOK
  <2>3. ASSUME NEW w \in WorkspaceUsers, ReadVersions(w) PROVE WorkspaceInv'
    BY <2>3, ReadVersionsOK
  <2>4. ASSUME NEW w \in WorkspaceUsers, Evaluate(w) PROVE WorkspaceInv'
    BY <2>4, EvaluateOK
  <2>5. ASSUME NEW w \in WorkspaceUsers, HandOffProposal(w) PROVE WorkspaceInv'
    BY <2>5, HandOffProposalOK
  <2>6. ASSUME NEW w \in WorkspaceUsers, HandOffVersion(w) PROVE WorkspaceInv'
    BY <2>6, HandOffVersionOK
  <2>7. ASSUME NEW w \in WorkspaceUsers, StoreSession(w) PROVE WorkspaceInv'
    BY <2>7, StoreSessionOK
  <2>8. ASSUME NEW w \in WorkspaceUsers, WorkspaceWorkerDies(w)
        PROVE  WorkspaceInv'
    BY <2>8, WorkspaceEndStep DEF WorkspaceWorkerDies, workspaceTables
  <2>9. ASSUME NEW p \in DOMAIN handedOff, CreateForeignVersion(p)
        PROVE  WorkspaceInv'
    BY <2>9 DEF CreateForeignVersion, WorkspaceInv, workspaceTables
  <2>10. CASE UNCHANGED workspaceVars
    BY <2>10 DEF workspaceVars, WorkspaceInv
  <2> QED
    BY <2>1, <2>2, <2>3, <2>4, <2>5, <2>6, <2>7, <2>8, <2>9, <2>10
       DEF WorkspaceNext
<1> QED
  BY <1>1, <1>2, PTL DEF WorkspaceSpec

\* Whatever the workers that save, resume, edit and hand off overwrite of each
\* other, the saved versions are numbered from 1 and have distinct ids.
THEOREM SavedVersionsCorrect == WorkspaceSpec => []SavedVersionsNumbered
<1>1. WorkspaceInv => SavedVersionsNumbered
  BY DEF WorkspaceInv, SavedOK, SavedVersionsNumbered
<1> QED
  BY <1>1, WorkspaceInvariant, PTL

=============================================================================
