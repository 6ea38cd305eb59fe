---------------------------- MODULE ProposalCreate ----------------------------
(***************************************************************************)
(* The creation of a proposal under one Idempotency-Key                    *)
(* (create_proposal_command): look the key up, and when it is new create   *)
(* the proposal, its first version, its CREATED event and the idempotency  *)
(* row in one transaction.  The lookup and the transaction are two steps.  *)
(*                                                                         *)
(* A payload stands for its request hash, and a proposal is the payload it *)
(* was created from: its id is its place in the order of creation.  That a *)
(* payload also matches the rows of an older hashing scheme                *)
(* (_is_matching_legacy_replay) is part of being the same payload.         *)
(***************************************************************************)
EXTENDS Naturals, Sequences

CONSTANTS
    None,
    Payloads        \* the payloads that callers send under the key

\* ProposalIdempotencyRecord
IdempotencyRecord == [request_hash : Payloads, proposal_id : Nat]

ASSUME CreateAssumption ==
    /\ Payloads # {}
    /\ None \notin Payloads \cup Nat
    /\ None \notin IdempotencyRecord

VARIABLES
    proposals,      \* the proposals created under the key, in commit order
    idempotency     \* the row of the key: [request_hash, proposal_id] or None

createVars == <<proposals, idempotency>>

CreateInit == proposals = <<>> /\ idempotency = None

\* The lookup without the comparison of request hashes
ReplaysAnyPayload(payload) == idempotency # None

\* The key was used for the same payload: answer with its proposal.
Replays(payload) ==
    idempotency # None /\ idempotency.request_hash = payload

\* Nothing was created under the key yet.
KeyIsFree(payload) == idempotency = None

\* IDEMPOTENCY_KEY_CONFLICT: request hash mismatch
KeyConflicts(payload) == ~Replays(payload) /\ ~KeyIsFree(payload)

\* A row that names the proposal created before
PersistKeyOfPredecessor(payload) ==
    /\ proposals' = Append(proposals, payload)
    /\ idempotency' = [request_hash |-> payload, proposal_id |-> Len(proposals)]

\* create_proposal_with_version_event_idempotency: the proposal and its key in
\* one transaction; the idempotency row is an upsert.
PersistCreatedProposal(payload) ==
    /\ proposals' = Append(proposals, payload)
    /\ idempotency' = [request_hash |-> payload,
                       proposal_id |-> Len(proposals) + 1]

=============================================================================
