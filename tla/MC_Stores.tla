------------------------------ MODULE MC_Stores ------------------------------
(***************************************************************************)
(* Instances of the components that keep a store of their own and share    *)
(* nothing with each other.  A behaviour is one of the component that its  *)
(* initial state picks; the others stay as they start.                     *)
(***************************************************************************)
EXTENDS PolicyCatalog, PolicyEvaluations, ProposalMemos, IdeaRealization,
        WorkspaceSessions, AdvisoryCopilot, AdvisorySimulation, AdvisoryDecision,
        TLC

CONSTANTS
    w1, w2,             \* workers of every component
    a1, a2,             \* actors
    k1, k2, k3,         \* idempotency keys
    x, y,               \* contents of memos and of intakes
    d1, d2,             \* drafts
    q1, q2,             \* evidence packets
    p1, p2,             \* proposals
    n1, n2,             \* two of a kind: intents, keys of handoffs, contents
                        \* of packets, unused keys of the policy catalog
    MC_Components       \* the components to check

VARIABLE component      \* the one that moves

MC_Symmetry ==
    Permutations({w1, w2}) \cup Permutations({p1, p2}) \cup Permutations({n1, n2})

\* Of three versions the first is active; the maker of all is a1, and the third
\* may be activated by its maker.
MC_Validate(version, actor) ==
    [op |-> "POLICY_PACK_VALIDATED", version |-> version, actor |-> actor]

MC_Activate(version, actor) ==
    [op |-> "POLICY_PACK_ACTIVATED", version |-> version, actor |-> actor]

MC_PolicyCommands ==
    {MC_Validate(1, a1), MC_Validate(2, a2), MC_Activate(2, a1),
     MC_Activate(2, a2), MC_Activate(3, a1)}

MC_PolicyInit ==
    PolicyInit([v \in PolicyVersions |-> a1], <<k1, k2, k3>>, {1})

\* The first evaluation was blocked for its legal entity; the second one is its
\* repair, which two makers finalize, decide on and report.
MC_EvalCommand(type, evaluation, actor, key) ==
    [type |-> type, evaluation |-> evaluation, actor |-> actor, key |-> key]

MC_EvalCommands ==
    {MC_EvalCommand("FINALIZED", 2, a1, k1), MC_EvalCommand("FINALIZED", 2, a2, k2),
     MC_EvalCommand("FINALIZED", 2, a1, k3), MC_EvalCommand("SIGN_OFF", 2, a1, None),
     MC_EvalCommand("SIGN_OFF", 2, a2, None), MC_EvalCommand("SIGN_OFF", 1, a2, None),
     MC_EvalCommand("REVIEW", 1, a2, k2),
     MC_EvalCommand("REPORT_ARCHIVE", 2, a1, k2),
     MC_EvalCommand("AI_EVIDENCE", 2, a1, k1)}

MC_BlockedCommands == {MC_EvalCommand("FINALIZED", 1, a1, k3)}

MC_Repaired == 1 :> 2

MC_Memo(op, version, key, content) ==
    [op |-> op, version |-> version, key |-> key, content |-> content]

MC_MemoRequests ==
    {MC_Memo("create", 1, k1, x), MC_Memo("create", 1, k2, x),
     MC_Memo("create", 2, k1, x),
     MC_Memo("review", 1, None, "APPROVE_FOR_ADVISOR_USE"),
     MC_Memo("review", 1, k1, "APPROVE_FOR_ADVISOR_USE"),
     MC_Memo("review", 1, None, "REQUEST_CHANGES"),
     MC_Memo("report", 1, k1, x), MC_Memo("record", 1, k1, y),
     MC_Memo("ai", 1, None, x)}

MC_Review(posture, actor, correlation, key) ==
    [posture |-> posture, actor |-> actor, correlation |-> correlation,
     key |-> key]

MC_ReviewRequests ==
    {MC_Review("APPROVED_FOR_INTERNAL_USE", a2, 1, k1),
     MC_Review("REJECTED", a1, 1, k2), MC_Review("REJECTED", a2, 2, k1)}

\* Three currencies, of which the second is the base, and four instruments: two
\* that are bought and sold in the first currency, one in the third, and one
\* without a price.
MC_Trade(side, instrument, quantity) ==
    [side |-> side, instrument |-> instrument, quantity |-> quantity,
     comparable |-> TRUE]

MC_Trades ==
    {<<MC_Trade("BUY", 1, 3)>>,
     <<MC_Trade("BUY", 1, 3), MC_Trade("BUY", 3, 2)>>,
     <<MC_Trade("BUY", 3, 1), MC_Trade("SELL", 2, 1), MC_Trade("BUY", 1, 4)>>,
     <<MC_Trade("SELL", 2, 1), MC_Trade("SELL", 1, 1), MC_Trade("BUY", 4, 1),
       MC_Trade("BUY", 2, 2)>>,
     <<MC_Trade("BUY", 2, 1),
       [MC_Trade("BUY", 3, 1) EXCEPT !.comparable = FALSE]>>}

MC_Quotes ==
    {<<1, 2>> :> 2 @@ <<3, 2>> :> 3, <<1, 2>> :> 1, <<2, 3>> :> 2,
     <<1, 3>> :> 1 @@ <<3, 2>> :> 1, <<1, 3>> :> 2 @@ <<2, 1>> :> 2}

\* any_cash, block_on_missing_fx, auto_funding, allow_restricted
MC_Options ==
    {<<TRUE, TRUE, TRUE, FALSE>>, <<TRUE, FALSE, TRUE, TRUE>>,
     <<FALSE, FALSE, TRUE, TRUE>>, <<TRUE, FALSE, FALSE, TRUE>>}

MC_SimInputs ==
    {[cash |-> cash, holdings |-> 1 :> 1 @@ 2 :> 1,
      prices |-> 1 :> [amount |-> 3, currency |-> 1]
                 @@ 2 :> [amount |-> 5, currency |-> 1]
                 @@ 3 :> [amount |-> 4, currency |-> 3] @@ 4 :> None,
      shelf |-> <<"APPROVED", "RESTRICTED", "APPROVED", "APPROVED">>,
      quotes |-> quotes, flows |-> flows, trades |-> trades,
      options |-> [any_cash |-> o[1], block_on_missing_fx |-> o[2],
                   auto_funding |-> o[3], allow_restricted |-> o[4],
                   link_sells |-> TRUE, block_negative_cash |-> o[2],
                   block_on_missing_prices |-> o[2]]] :
        cash \in {2 :> 0, 2 :> 40, 1 :> 2 @@ 2 :> 6, 2 :> 20 @@ 3 :> 4,
                  1 :> 9 @@ 2 :> 9 @@ 3 :> 9},
        flows \in {<<>>, <<[currency |-> 1, amount |-> -4]>>,
                   <<[currency |-> 2, amount |-> -8],
                     [currency |-> 2, amount |-> 12]>>},
        quotes \in MC_Quotes, trades \in MC_Trades, o \in MC_Options}

\* Three products, of which the first two have one issuer; the portfolios are
\* at the limits, just over one of them, or far over.
MC_Weights ==
    {<<40, 20, 30>>, <<45, 20, 30>>, <<55, 10, 30>>, <<40, 35, 20>>,
     <<30, 40, 29>>, <<30, 20, 40>>, <<0, 30, 40>>,
     <<20, 27, 46>>}

MC_Listing(status, issuer, tier, complex) ==
    [status |-> status, issuer |-> issuer, tier |-> tier, complex |-> complex]

MC_Shelves ==
    LET usual == <<MC_Listing("APPROVED", 1, 1, FALSE),
                   MC_Listing("APPROVED", 1, 4, FALSE)>>
    IN  {Append(usual, MC_Listing("APPROVED", 2, 1, TRUE)),
         Append(usual, MC_Listing("RESTRICTED", 2, 4, FALSE)),
         Append(usual, MC_Listing("RESTRICTED", 2, 4, TRUE)),
         Append(usual, MC_Listing("SELL_ONLY", None, None, FALSE)),
         <<MC_Listing("BANNED", 1, 1, FALSE),
           MC_Listing("SUSPENDED", 1, 4, FALSE), None>>}

\* allow_restricted, scanner, gates, consent_obtained
MC_DecisionOptions ==
    {<<TRUE, TRUE, TRUE, FALSE>>, <<TRUE, TRUE, TRUE, TRUE>>,
     <<FALSE, TRUE, TRUE, FALSE>>, <<TRUE, TRUE, FALSE, FALSE>>,
     <<TRUE, FALSE, TRUE, FALSE>>}

\* A hard rule fails on whatever is bought against its shelf.  The severity of
\* missing data is of no interest where none is missing.
MC_DecisionInputs ==
    {input \in
        {[before |-> before, after |-> after, shelf |-> shelf, buys |-> buys,
          context |-> context, fails |-> f[1], missing |-> f[2],
          options |-> [allow_restricted |-> o[1], scanner |-> o[2], gates |-> o[3],
                       consent_obtained |-> o[4], data_quality |-> severity,
                       caps |-> [position |-> 40, issuer |-> 60, tier |-> 4 :> 30,
                                 cash_min |-> 2, cash_max |-> 20]]] :
            before \in {<<40, 20, 30>>, <<55, 10, 30>>, <<0, 30, 40>>},
            after \in MC_Weights, shelf \in MC_Shelves,
            buys \in {{}, {1, 3}},
            context \in {None, [client |-> TRUE, mandate |-> FALSE],
                         [client |-> FALSE, mandate |-> TRUE]},
            f \in {<<{}, {}>>, <<{"SOFT"}, {"MISSING_REQUIRED_MARKET_PRICE"}>>,
                   <<{"HARD"}, {"MISSING_REQUIRED_FX_DATA"}>>},
            o \in MC_DecisionOptions, severity \in {"MEDIUM", "HIGH"}} :
        /\ input.options.data_quality = "HIGH" =>
              \E i \in Products : input.shelf[i] = None \/ input.shelf[i].tier = None
        /\ "HARD" \in input.fails \/
              \A i \in input.buys :
                  /\ input.shelf[i] # None
                  /\ input.shelf[i].status \in
                        {"APPROVED"} \cup
                            IF input.options.allow_restricted THEN {"RESTRICTED"} ELSE {}}

-----------------------------------------------------------------------------
\* Which requests are sent, where it is not all of them all the time.

\* The first command is no decision on what is not finalized yet; the last one
\* approves or reports an evaluation.
MC_EvalSender ==
    \A w \in EvalWorkers :
        evalJob[w].phase = "idle" /\ evalJob'[w].phase # "idle" =>
            /\ evalCommands = 0 =>
                  \/ /\ evalJob'[w].command.type = "FINALIZED"
                     /\ evalJob'[w].command.actor = a1
                  \/ evalJob'[w].command.evaluation = 1
            /\ evalCommands' = MaxEvalCommands =>
                  evalJob'[w].command.type \in {"SIGN_OFF", "REPORT_ARCHIVE"}

\* A reconciliation names the first version or the stored one.
MC_IdeaSender ==
    \A w \in IdeaWorkers :
        ideaJob[w].phase = "idle" /\ ideaJob'[w].phase = "history" =>
            ideaJob'[w].expected \in {1, realizations[ideaJob'[w].intent].version}

\* The last call comes where there are no projections, and brings no packet.
MC_CopilotSender ==
    copilotCalls < MaxCopilotCalls /\ copilotCalls' = MaxCopilotCalls =>
        /\ \A p \in ProjectedPackets : packets[p] = None
        /\ \A w \in CopilotWorkers : copilotJob'[w].phase # "packet"

MC_vars == <<component, policyVars, evalVars, memoVars, ideaVars,
             workspaceVars, copilotVars, simVars, decisionVars>>

MC_Init ==
    /\ component \in MC_Components
    /\ MC_PolicyInit /\ EvalInit /\ MemoInit /\ IdeaInit /\ WorkspaceInit
    /\ CopilotInit /\ SimInit /\ DecisionInit

MC_Next ==
    /\ UNCHANGED component
    /\ \/ /\ component = "policy catalog" /\ PolicyNext
          /\ UNCHANGED <<evalVars, memoVars, ideaVars, workspaceVars,
                         copilotVars, simVars, decisionVars>>
       \/ /\ component = "policy evaluations" /\ EvalNext /\ MC_EvalSender
          /\ UNCHANGED <<policyVars, memoVars, ideaVars, workspaceVars,
                         copilotVars, simVars, decisionVars>>
       \/ /\ component = "memos" /\ MemoNext
          /\ UNCHANGED <<policyVars, evalVars, ideaVars, workspaceVars,
                         copilotVars, simVars, decisionVars>>
       \/ /\ component = "ideas" /\ IdeaNext /\ MC_IdeaSender
          /\ UNCHANGED <<policyVars, evalVars, memoVars, workspaceVars,
                         copilotVars, simVars, decisionVars>>
       \/ /\ component = "workspace" /\ WorkspaceNext
          /\ UNCHANGED <<policyVars, evalVars, memoVars, ideaVars,
                         copilotVars, simVars, decisionVars>>
       \/ /\ component = "copilot" /\ CopilotNext /\ MC_CopilotSender
          /\ UNCHANGED <<policyVars, evalVars, memoVars, ideaVars,
                         workspaceVars, simVars, decisionVars>>
       \/ /\ component = "simulation" /\ SimNext
          /\ UNCHANGED <<policyVars, evalVars, memoVars, ideaVars,
                         workspaceVars, copilotVars, decisionVars>>
       \/ /\ component = "decision" /\ DecisionNext
          /\ UNCHANGED <<policyVars, evalVars, memoVars, ideaVars,
                         workspaceVars, copilotVars, simVars>>

MC_Spec == MC_Init /\ [][MC_Next]_MC_vars

=============================================================================
