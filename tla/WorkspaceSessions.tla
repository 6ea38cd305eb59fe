-------------------------- MODULE WorkspaceSessions --------------------------
(***************************************************************************)
(* An advisory workspace: its draft is changed and evaluated, versions of  *)
(* it are saved and resumed, and it is handed off to a proposal            *)
(* (core/workspace/application.py, infrastructure/workspace/postgres.py).  *)
(*                                                                         *)
(* A command reads the session row and then the saved versions, changes    *)
(* the copy, and writes row and versions back, whatever is stored then.    *)
(* Replay evidence is the draft that it was captured for.                  *)
(*                                                                         *)
(* Creation under a key is one step here; ProposalCreate has the           *)
(* interleavings within it.                                                *)
(***************************************************************************)
EXTENDS Values, Naturals, Sequences

CONSTANTS
    WorkspaceUsers,         \* API workers
    Drafts,
    InitialDraft,           \* build_draft_state_from_simulate_request
    HandoffKeys,
    MaxWorkspaceCommands,   \* bound on the commands that come in
    MaxForeignVersions      \* bound on versions created by others

ASSUME WorkspaceAssumption ==
    /\ InitialDraft \in Drafts /\ None \notin Drafts
    /\ MaxWorkspaceCommands \in Nat /\ MaxForeignVersions \in Nat

VARIABLES
    session,            \* the row of advisory_workspace_sessions
    savedVersions,      \* the rows of advisory_workspace_saved_versions
    handedOff,          \* proposals created from the workspace
    workspaceJob,       \* what each worker is doing
    workspaceCommands,  \* how many commands have come in
    foreignVersions     \* how many versions others have created

workspaceVars == <<session, savedVersions, handedOff, workspaceJob,
                   workspaceCommands, foreignVersions>>

workspaceTables == <<session, savedVersions>>

IdleWorkspaceJob == [phase |-> "idle"]

\* create_session has saved a workspace with nothing but its draft.
WorkspaceInit ==
    /\ session = [draft |-> InitialDraft, evidence |-> None, link |-> None]
    /\ savedVersions = <<>>
    /\ handedOff = <<>>
    /\ workspaceJob = [w \in WorkspaceUsers |-> IdleWorkspaceJob]
    /\ workspaceCommands = 0
    /\ foreignVersions = 0

WorkspaceJobEnds(w) ==
    workspaceJob' = [workspaceJob EXCEPT ![w] = IdleWorkspaceJob]

ReceiveWorkspaceCommand(w) ==
    /\ workspaceJob[w].phase = "idle"
    /\ workspaceCommands < MaxWorkspaceCommands
    /\ workspaceCommands' = workspaceCommands + 1
    /\ \E command \in [op : {"draft"}, arg : Drafts]
                 \cup [op : {"evaluate", "save"}, arg : {None}]
                 \cup [op : {"resume"}, arg : 1 .. Len(savedVersions)]
                 \cup [op : {"handoff"}, arg : HandoffKeys] :
          workspaceJob' = [workspaceJob EXCEPT ![w] =
              [phase |-> "session", op |-> command.op, arg |-> command.arg,
               at |-> workspaceCommands']]
    /\ UNCHANGED <<workspaceTables, handedOff, foreignVersions>>

\* A version or a saved version, with its number
SavedVersion(id, number, copy) ==
    [id |-> id, number |-> number, draft |-> copy.draft,
     evidence |-> IF copy.evidence = None THEN copy.draft ELSE copy.evidence]

\* get: the session row, in a statement of its own
ReadSession(w) ==
    LET job == workspaceJob[w] IN
    /\ job.phase = "session"
    /\ workspaceJob' = [workspaceJob EXCEPT ![w] =
          [phase |-> "versions", op |-> job.op, arg |-> job.arg,
           at |-> job.at, copy |-> session]]
    /\ UNCHANGED <<workspaceTables, handedOff, workspaceCommands, foreignVersions>>

\* What a command makes of the copy: an edit of the draft that succeeds,
\* build_saved_workspace_version, apply_saved_workspace_version
Applied(job, saved) ==
    CASE job.op = "draft" ->
            [copy |-> [job.copy EXCEPT !.draft = job.arg], saved |-> saved]
      [] job.op = "save" ->
            [copy |-> job.copy,
             saved |-> Append(saved,
                          SavedVersion(job.at, Len(saved) + 1, job.copy))]
      [] job.op = "resume" ->
            [copy |-> [job.copy EXCEPT !.draft = saved[job.arg].draft,
                                       !.evidence = saved[job.arg].evidence],
             saved |-> saved]
      [] OTHER -> [copy |-> job.copy, saved |-> saved]

\* get: the saved versions; then the command changes the copy.
ReadVersions(w) ==
    LET job == workspaceJob[w] IN
    /\ job.phase = "versions"
    /\ IF job.op = "resume" /\ job.arg \notin DOMAIN savedVersions
       THEN WorkspaceJobEnds(w)     \* WORKSPACE_SAVED_VERSION_NOT_FOUND
       ELSE workspaceJob' = [workspaceJob EXCEPT ![w] =
                [phase |-> CASE job.op = "evaluate" -> "evaluate"
                             [] job.op = "handoff" -> "handoff"
                             [] OTHER -> "store",
                 op |-> job.op, arg |-> job.arg, at |-> job.at,
                 copy |-> Applied(job, savedVersions).copy,
                 saved |-> Applied(job, savedVersions).saved]]
    /\ UNCHANGED <<workspaceTables, handedOff, workspaceCommands, foreignVersions>>

\* reevaluate_session; an evaluation that fails is WorkspaceWorkerDies.
Evaluate(w) ==
    /\ workspaceJob[w].phase = "evaluate"
    /\ workspaceJob' = [workspaceJob EXCEPT
          ![w].copy.evidence = workspaceJob[w].copy.draft, ![w].phase = "store"]
    /\ UNCHANGED <<workspaceTables, handedOff, workspaceCommands, foreignVersions>>

\* complete_workspace_lifecycle_handoff
Linked(w, p, version) ==
    workspaceJob' = [workspaceJob EXCEPT
        ![w].copy.link = [proposal |-> p, version |-> version],
        ![w].phase = "store"]

\* handoff_to_proposal_lifecycle without a link: create_proposal under the key.
HandOffProposal(w) ==
    LET job == workspaceJob[w] IN
    /\ job.phase = "handoff" /\ job.copy.link = None
    /\ \/ /\ \A p \in DOMAIN handedOff : handedOff[p].key # job.arg
          /\ handedOff' = Append(handedOff, [key |-> job.arg, version |-> 1,
                                             payload |-> job.copy.draft])
          /\ Linked(w, Len(handedOff'), 1)
       \/ \E p \in DOMAIN handedOff :
             /\ handedOff[p].key = job.arg
             /\ IF handedOff[p].payload = job.copy.draft
                THEN Linked(w, p, 1) ELSE WorkspaceJobEnds(w)
             /\ UNCHANGED handedOff
    /\ UNCHANGED <<workspaceTables, workspaceCommands, foreignVersions>>

\* With a link: create_version, if the proposal has the version of the link.
HandOffVersion(w) ==
    LET link == workspaceJob[w].copy.link IN
    /\ workspaceJob[w].phase = "handoff" /\ link # None
    /\ IF handedOff[link.proposal].version = link.version
       THEN /\ handedOff' = [handedOff EXCEPT ![link.proposal].version = @ + 1]
            /\ Linked(w, link.proposal, link.version + 1)
       ELSE WorkspaceJobEnds(w) /\ UNCHANGED handedOff
    /\ UNCHANGED <<workspaceTables, workspaceCommands, foreignVersions>>

\* A version of the proposal that does not come from the workspace
CreateForeignVersion(p) ==
    /\ foreignVersions < MaxForeignVersions
    /\ foreignVersions' = foreignVersions + 1
    /\ handedOff' = [handedOff EXCEPT ![p].version = @ + 1]
    /\ UNCHANGED <<workspaceTables, workspaceJob, workspaceCommands>>

\* UNIQUE (workspace_id, version_no)
VersionsInsertable(saved) ==
    \A i, j \in DOMAIN saved : saved[i].number = saved[j].number => i = j

\* An upsert of the versions of the copy, without the DELETE
VersionsAdded(saved) ==
    savedVersions \o SelectSeq(saved, LAMBDA version :
        \A i \in DOMAIN savedVersions : savedVersions[i].id # version.id)

\* The versions after the DELETE and the inserts
VersionsAfter(saved) == saved

\* save: upsert of the row, then the versions are deleted and inserted anew.
\* A draft action goes on with the evaluation, on what it reads again.
StoreSession(w) ==
    LET job == workspaceJob[w] IN
    /\ job.phase = "store" /\ VersionsInsertable(job.saved)
    /\ session' = job.copy
    /\ savedVersions' = VersionsAfter(job.saved)
    /\ IF job.op # "draft" THEN WorkspaceJobEnds(w)
       ELSE workspaceJob' = [workspaceJob EXCEPT ![w] =
                [phase |-> "session", op |-> "evaluate", arg |-> None,
                 at |-> job.at]]
    /\ UNCHANGED <<handedOff, workspaceCommands, foreignVersions>>

\* The process dies, or an earlier step raises.
WorkspaceWorkerDies(w) ==
    /\ workspaceJob[w].phase # "idle"
    /\ WorkspaceJobEnds(w)
    /\ UNCHANGED <<workspaceTables, handedOff, workspaceCommands, foreignVersions>>

WorkspaceNext ==
    \/ \E w \in WorkspaceUsers :
          \/ ReceiveWorkspaceCommand(w) \/ ReadSession(w) \/ ReadVersions(w)
          \/ Evaluate(w) \/ HandOffProposal(w) \/ HandOffVersion(w)
          \/ StoreSession(w) \/ WorkspaceWorkerDies(w)
    \/ \E p \in DOMAIN handedOff : CreateForeignVersion(p)

WorkspaceSpec == WorkspaceInit /\ [][WorkspaceNext]_workspaceVars

-----------------------------------------------------------------------------
\* Properties.

\* Saved versions are numbered from 1 without gaps and have distinct ids,
\* although every save replaces all of them by the copy of its worker.
SavedVersionsNumbered ==
    \A i, j \in DOMAIN savedVersions :
        /\ savedVersions[i].number = i
        /\ savedVersions[i].id = savedVersions[j].id => i = j

=============================================================================
