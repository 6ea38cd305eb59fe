-------------------------- MODULE MC_AsyncOperations --------------------------
(***************************************************************************)
(* Instances of AsyncOperations: a process whose threads serve requests,   *)
(* and, in one of them, a second one that starts and recovers beside it.   *)
(***************************************************************************)
EXTENDS AsyncOperations, TLC

CONSTANTS s1, s2, t1, t2, o1, p, q

MC_ProcessOf == [t \in Threads |-> s1]

\* Who does what, where it makes no difference but for the names: the payload
\* that is submitted is p, the first thread takes the submission and the second
\* one the synchronous requests.  An operator decides while the second process
\* is down, and that process starts when no operator is deciding.
MC_Choices ==
    /\ operation' # None => operation'.payload = p
    /\ \A t \in Threads : run[t].phase = "up" =>
          /\ run'[t].phase = "loading" => t = t1
          /\ run'[t].phase = "executing" => t = t2
    /\ s2 \in Processes /\ "down" \notin {run[s2].phase, run'[s2].phase} =>
          \A o \in Operators : control'[o] = None

MC_FairSpec == Init /\ [][Next /\ MC_Choices]_vars /\ Fairness

=============================================================================
