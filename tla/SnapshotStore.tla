---------------------------- MODULE SnapshotStore ----------------------------
(***************************************************************************)
(* What the PostgreSQL state stores of the policy packs do with a snapshot *)
(* (infrastructure/policy_packs/postgres_state.py).  A command loads every *)
(* table with one SELECT each, changes the copy in memory and writes the   *)
(* whole copy back with one upsert per row, in one transaction.  An upsert *)
(* that its WHERE clause refuses rolls the transaction back.               *)
(*                                                                         *)
(* The audit events of a record are a sequence, the event id its position. *)
(* The list that a copy holds is a function from event ids to events: all  *)
(* that were loaded, and what the command adds, or only the latter.        *)
(***************************************************************************)
EXTENDS Values, Naturals, Sequences, FiniteSets

\* The row of a record or definition is replaced unless the table already has
\* more events of it than the snapshot.
RowAdmitted(counted, saved) == counted <= Cardinality(DOMAIN saved)

\* ON CONFLICT DO UPDATE SET event_json = excluded.event_json
EventsAlwaysAdmitted(stored, saved) == TRUE

\* An event id that is stored already must carry the same event.
EventsAdmitted(stored, saved) ==
    \A i \in DOMAIN stored \cap DOMAIN saved : stored[i] = saved[i]

\* The events after the upserts
EventsAfter(stored, saved) ==
    [i \in DOMAIN stored \cup DOMAIN saved |->
        IF i \in DOMAIN saved THEN saved[i] ELSE stored[i]]

\* A key that may be taken over
KeysAlwaysAdmitted(stored, saved) == TRUE

\* An idempotency key that is stored already must name the same event.
KeysAdmitted(stored, saved) ==
    \A k \in DOMAIN stored :
        saved[k] # None => stored[k] \in {None, saved[k]}

\* The keys after the upserts
KeysAfter(stored, saved) ==
    [k \in DOMAIN stored |-> IF saved[k] = None THEN stored[k] ELSE saved[k]]

=============================================================================
