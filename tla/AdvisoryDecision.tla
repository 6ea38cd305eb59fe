-------------------------- MODULE AdvisoryDecision --------------------------
(***************************************************************************)
(* What a simulated proposal needs before it goes to the client: the       *)
(* suitability scan compares the portfolio before and after, the workflow  *)
(* gate ranks what the rules and the scan found, the risk service is asked *)
(* for its lens, and the decision summary derives the status, the missing  *)
(* evidence and the approvals from all of it.                              *)
(*                                                                         *)
(* Weights are percents of the portfolio; products, issuers and liquidity  *)
(* tiers are numbers.  Which rules of the simulation failed is an input;   *)
(* the risk service adds its lens and changes nothing else.                *)
(***************************************************************************)
EXTENDS Values, Integers, FiniteSets, FiniteSetsExt

CONSTANTS
    Products,
    DecisionInputs      \* the simulated proposals

ASSUME DecisionAssumption ==
    /\ IsFiniteSet(Products)
    /\ None # "CLIENT_CONSENT_REQUIRED"
    /\ \A input \in DecisionInputs :
          /\ input.fails \subseteq {"HARD", "SOFT"}
          /\ \A i \in Products : input.before[i] \in Nat /\ input.after[i] \in Nat

VARIABLES
    simulated,      \* the simulated proposal, its rules and options
    stage,          \* the last step that was taken
    suitability,    \* the issues that were found
    gate,           \* None where gates are not enabled
    riskAuthority,  \* "lotus_risk" or "unavailable"
    decision

decisionVars == <<simulated, stage, suitability, gate, riskAuthority, decision>>

DecisionInit ==
    /\ simulated = None /\ stage = "idle"
    /\ suitability = {} /\ gate = None /\ riskAuthority = None /\ decision = None

ReceiveSimulated ==
    /\ stage = "idle"
    /\ simulated' \in DecisionInputs
    /\ stage' = "simulated"
    /\ UNCHANGED <<suitability, gate, riskAuthority, decision>>

Options == simulated.options

\* derive_status_from_rules
ResultStatus ==
    IF "HARD" \in simulated.fails THEN "BLOCKED"
    ELSE IF "SOFT" \in simulated.fails THEN "PENDING_REVIEW"
    ELSE "READY"

-----------------------------------------------------------------------------
\* The suitability scan

Shelf(i) == simulated.shelf[i]

Listed == {i \in Products : Shelf(i) # None}

Held(w) == {i \in Products : w[i] > 0}

WeightOf(w, S) == MapThenSumSet(LAMBDA i : w[i], S)

\* to_cash_weight
CashWeight(w) == 100 - WeightOf(w, Products)

\* The limits on a position, on an issuer and on a liquidity tier
LimitedExposures ==
    ({"SINGLE_POSITION_MAX"} \X Products)
      \cup {<<"ISSUER_MAX", Shelf(i).issuer>> : i \in Listed}
      \cup {<<"LIQUIDITY_MAX", t>> : t \in DOMAIN Options.caps.tier}

Exposure(w, limit) ==
    CASE limit[1] = "SINGLE_POSITION_MAX" -> w[limit[2]]
      [] limit[1] = "ISSUER_MAX" ->
            WeightOf(w, {i \in Listed : Shelf(i).issuer = limit[2]})
      [] limit[1] = "LIQUIDITY_MAX" ->
            WeightOf(w, {i \in Listed : Shelf(i).tier = limit[2]})

Cap(limit) ==
    CASE limit[1] = "SINGLE_POSITION_MAX" -> Options.caps.position
      [] limit[1] = "ISSUER_MAX" -> Options.caps.issuer
      [] limit[1] = "LIQUIDITY_MAX" -> Options.caps.tier[limit[2]]

\* What has no issuer or no tier counts to none.
Exceeded(w) ==
    {limit \in LimitedExposures : limit[2] # None /\ Exposure(w, limit) > Cap(limit)}

OutsideCashBand(w) ==
    CashWeight(w) < Options.caps.cash_min \/ CashWeight(w) > Options.caps.cash_max

Candidate(key, dimension, severity, implication) ==
    [key |-> key, dimension |-> dimension, severity |-> severity,
     implication |-> implication]

ReviewFor(severity) ==
    IF severity = "HIGH" THEN "COMPLIANCE_REVIEW" ELSE "RISK_REVIEW"

\* severity_for_concentration
Concentration(w, limit) ==
    LET severity == IF 4 * Exposure(w, limit) > 5 * Cap(limit)
                    THEN "HIGH" ELSE "MEDIUM"
    IN  Candidate(limit, "LIMIT", severity,
                  IF limit[1] = "LIQUIDITY_MAX" THEN "RISK_REVIEW"
                  ELSE ReviewFor(severity))

DataQuality(kind, i) ==
    Candidate(<<kind, i>>, "DATA_QUALITY", Options.data_quality, "DATA_REMEDIATION")

UnenrichedIssues(w) ==
    {DataQuality("MISSING_SHELF", i) : i \in Held(w) \ Listed} \cup
    {DataQuality("MISSING_ISSUER", i) :
        i \in {i \in Held(w) \cap Listed : Shelf(i).issuer = None}} \cup
    {DataQuality("MISSING_LIQUIDITY_TIER", i) :
        i \in {i \in Held(w) \cap Listed : Shelf(i).tier = None}}

Grows(i, w) == w[i] > simulated.before[i]

\* _governance_holding_issue and _governance_trade_attempt_issue agree on what
\* they say of a product.
Governance(i) ==
    LET severity == IF Shelf(i).status = "RESTRICTED" /\ Options.allow_restricted
                    THEN "MEDIUM" ELSE "HIGH"
    IN  Candidate(<<Shelf(i).status, i>>, "GOVERNANCE", severity, ReviewFor(severity))

GovernedHoldings(w) ==
    {i \in Listed : \/ Shelf(i).status \in {"BANNED", "SUSPENDED"} /\ w[i] > 0
                    \/ Shelf(i).status \in {"SELL_ONLY", "RESTRICTED"} /\ Grows(i, w)}

\* scan_state_issues: growth is measured from the portfolio before the trades,
\* also in the scan of that portfolio.
StateIssues(w) ==
    {Concentration(w, limit) : limit \in Exceeded(w)}
      \cup UnenrichedIssues(w)
      \cup {Governance(i) : i \in GovernedHoldings(w)}
      \cup IF OutsideCashBand(w)
           THEN {Candidate(<<"CASH_BAND", 0>>, "CASH", "MEDIUM", "RISK_REVIEW")}
           ELSE {}

ClientContext == simulated.context # None /\ simulated.context.client
MandateContext == simulated.context # None /\ simulated.context.mandate

\* append_governance_trade_attempt_issues
GovernedBuys ==
    {i \in simulated.buys \cap Listed : Shelf(i).status \in {"SELL_ONLY", "RESTRICTED"}}

\* append_product_complexity_issues
ComplexAdditions ==
    {i \in Listed : /\ Shelf(i).complex
                    /\ i \in simulated.buys \/ Grows(i, simulated.after)}

\* append_restricted_product_mandate_context_issues
RestrictedBuys ==
    {i \in simulated.buys \cap Listed : Shelf(i).status = "RESTRICTED"}

TradeIssues ==
    {Governance(i) : i \in GovernedBuys}
      \cup {Candidate(<<"MISSING_CLIENT_PRODUCT_COMPLEXITY_EVIDENCE", i>>, "PRODUCT",
                      "HIGH", "CLIENT_CONTEXT_REQUIRED") :
               i \in IF ClientContext THEN {} ELSE ComplexAdditions}
      \cup {Candidate(<<"MISSING_MANDATE_RESTRICTED_PRODUCT_EVIDENCE", i>>, "PRODUCT",
                      "HIGH", "MANDATE_EXCEPTION_APPROVAL") :
               i \in IF simulated.context = None \/ MandateContext
                     THEN {} ELSE RestrictedBuys}

\* The issues of a kind are taken for one.
StatusChangeByKind(key, before, after) ==
    IF key \notin after THEN "RESOLVED"
    ELSE IF \E k \in before : k[1] = key[1] THEN "PERSISTENT"
    ELSE "NEW"

\* _issue_status_change
StatusChange(key, before, after) ==
    IF key \notin after THEN "RESOLVED"
    ELSE IF key \in before THEN "PERSISTENT"
    ELSE "NEW"

Keys(candidates) == {c.key : c \in candidates}

\* classify_issues: a resolved issue is described as it was before
ClassifiedIssues ==
    LET before == StateIssues(simulated.before)
        after == StateIssues(simulated.after) \cup TradeIssues
    IN  {[issue |-> c, change |-> StatusChange(c.key, Keys(before), Keys(after))] :
            c \in after \cup {c \in before : c.key \notin Keys(after)}}

ScanSuitability ==
    /\ stage = "simulated"
    /\ suitability' = IF Options.scanner THEN ClassifiedIssues ELSE {}
    /\ stage' = "scanned"
    /\ UNCHANGED <<simulated, gate, riskAuthority, decision>>

-----------------------------------------------------------------------------
\* The workflow gate

HasNew(severity) ==
    \E s \in suitability : s.change = "NEW" /\ s.issue.severity = severity

RequiresRiskReview == "SOFT" \in simulated.fails \/ HasNew("MEDIUM")

\* _resolve_gate_outcome, with the client's consent required by default
GateOutcome ==
    IF ResultStatus = "BLOCKED" THEN "BLOCKED"
    ELSE IF HasNew("HIGH") THEN "COMPLIANCE_REVIEW_REQUIRED"
    ELSE IF RequiresRiskReview THEN "RISK_REVIEW_REQUIRED"
    ELSE IF Options.consent_obtained THEN "EXECUTION_READY"
    ELSE "CLIENT_CONSENT_REQUIRED"

DecideGate ==
    /\ stage = "scanned"
    /\ gate' = IF Options.gates THEN GateOutcome ELSE None
    /\ stage' = "gated"
    /\ UNCHANGED <<simulated, suitability, riskAuthority, decision>>

\* _resolve_risk_enrichment: the service answers, or is not to be had
EnrichRisk ==
    /\ stage = "gated"
    /\ riskAuthority' \in {"lotus_risk", "unavailable"}
    /\ stage' = "enriched"
    /\ UNCHANGED <<simulated, suitability, gate, decision>>

-----------------------------------------------------------------------------
\* The decision summary

MarketDataGaps == {"MISSING_REQUIRED_MARKET_PRICE", "MISSING_REQUIRED_FX_DATA"}

Gap(reason, blocking) == [reason |-> reason, blocking |-> blocking]

\* An issue about data quality blocks only a proposal that is blocked.
IssueGaps ==
    {Gap("SUIT_DATA_QUALITY", ResultStatus = "BLOCKED" /\ s.issue.severity = "HIGH") :
        s \in {s \in suitability : s.issue.dimension = "DATA_QUALITY"}}
      \cup {Gap(s.issue.key[1], TRUE) :
               s \in {s \in suitability : s.issue.dimension = "PRODUCT"}}

\* _build_missing_evidence
MissingEvidence ==
    {Gap(reason, ResultStatus = "BLOCKED") : reason \in simulated.missing}
      \cup (IF riskAuthority = "unavailable" THEN {Gap("MISSING_RISK_LENS", TRUE)}
            ELSE {})
      \cup IssueGaps

\* derive_decision_status
DecisionStatus ==
    IF ResultStatus = "BLOCKED" THEN "BLOCKED_REMEDIATION_REQUIRED"
    ELSE IF \E gap \in MissingEvidence : gap.blocking THEN "INSUFFICIENT_EVIDENCE"
    ELSE CASE gate = "COMPLIANCE_REVIEW_REQUIRED" -> "REQUIRES_COMPLIANCE_REVIEW"
           [] gate = "RISK_REVIEW_REQUIRED" -> "REQUIRES_RISK_REVIEW"
           [] gate = "CLIENT_CONSENT_REQUIRED" -> "REQUIRES_CLIENT_CONSENT"
           [] OTHER -> IF ResultStatus = "PENDING_REVIEW"
                       THEN "REVISION_RECOMMENDED" ELSE "READY_FOR_CLIENT_REVIEW"

\* _insufficient_evidence_next_action: the issues about a mandate are listed
\* before those about the client's knowledge.
EvidenceAction ==
    LET reasons == {gap.reason : gap \in MissingEvidence}
    IN  IF "MISSING_MANDATE_RESTRICTED_PRODUCT_EVIDENCE" \in reasons
        THEN "REQUEST_MANDATE_CONTEXT"
        ELSE IF "MISSING_CLIENT_PRODUCT_COMPLEXITY_EVIDENCE" \in reasons
        THEN "REQUEST_CLIENT_CONTEXT"
        ELSE "REVISE_PROPOSAL"

NextAction ==
    CASE DecisionStatus = "INSUFFICIENT_EVIDENCE" -> EvidenceAction
      [] DecisionStatus = "BLOCKED_REMEDIATION_REQUIRED" -> "FIX_INPUT"
      [] DecisionStatus = "REQUIRES_COMPLIANCE_REVIEW" -> "REVIEW_COMPLIANCE"
      [] DecisionStatus = "REQUIRES_RISK_REVIEW" -> "REVIEW_RISK"
      [] DecisionStatus = "REVISION_RECOMMENDED" -> "REVISE_PROPOSAL"
      [] OTHER -> "DISCUSS_WITH_CLIENT"

Approval(type, reason) == [type |-> type, reason |-> reason]

GateApprovals ==
    CASE gate = "COMPLIANCE_REVIEW_REQUIRED" -> {Approval("COMPLIANCE_REVIEW", gate)}
      [] gate = "RISK_REVIEW_REQUIRED" -> {Approval("RISK_REVIEW", gate)}
      [] gate = "CLIENT_CONSENT_REQUIRED" -> {Approval("CLIENT_CONSENT", gate)}
      [] OTHER -> {}

ApprovalForImplication(implication) ==
    IF implication = "CLIENT_CONTEXT_REQUIRED" THEN "DATA_REMEDIATION" ELSE implication

\* The approvals for what is missing of the issues are those of the issues.
DecisionApprovals ==
    GateApprovals
      \cup {Approval("DATA_REMEDIATION", gap.reason) :
               gap \in {gap \in MissingEvidence :
                           gap.blocking /\ gap.reason \in MarketDataGaps}}
      \cup {Approval(ApprovalForImplication(s.issue.implication),
                     IF s.issue.dimension = "DATA_QUALITY" THEN "SUIT_DATA_QUALITY"
                     ELSE s.issue.key[1]) :
               s \in {s \in suitability : s.change \in {"NEW", "PERSISTENT"}}}

\* blocking_until_approved
BlockingApprovals(approvals) ==
    {a \in approvals : a.type \in {"DATA_REMEDIATION", "MANDATE_EXCEPTION_APPROVAL"}}

Confidence ==
    CASE MissingEvidence # {} ->
            IF ResultStatus = "BLOCKED" THEN "INSUFFICIENT" ELSE "LOW"
      [] OTHER -> IF ResultStatus = "PENDING_REVIEW" THEN "MEDIUM" ELSE "HIGH"

\* build_proposal_decision_summary
SummarizeDecision ==
    /\ stage = "enriched"
    /\ decision' = [status |-> DecisionStatus, next |-> NextAction,
                    confidence |-> Confidence, missing |-> MissingEvidence,
                    approvals |-> DecisionApprovals]
    /\ stage' = "decided"
    /\ UNCHANGED <<simulated, suitability, gate, riskAuthority>>

DecisionNext ==
    \/ ReceiveSimulated \/ ScanSuitability \/ DecideGate \/ EnrichRisk
    \/ SummarizeDecision

DecisionSpec == DecisionInit /\ [][DecisionNext]_decisionVars

-----------------------------------------------------------------------------
\* Properties.

ForClient ==
    {"READY_FOR_CLIENT_REVIEW", "REQUIRES_CLIENT_CONSENT"}

\* A proposal goes to the client only if its simulation has neither failed nor
\* asked for a review, the risk lens is there, and no approval blocks it, but
\* for one about missing enrichment.  Where gates and scanner are enabled its
\* trades have put nothing over a limit that was within it, nor the cash
\* outside its band, and have added nothing that is governed; with the scanner
\* alone, no product whose client or mandate context is missing.
ClientStatusIsEarned ==
    stage = "decided" /\ decision.status \in ForClient =>
        /\ simulated.fails = {} /\ riskAuthority = "lotus_risk"
        /\ \A a \in BlockingApprovals(decision.approvals) : a.reason = "SUIT_DATA_QUALITY"
        /\ Options.scanner =>
              /\ ComplexAdditions = {} \/ ClientContext
              /\ RestrictedBuys = {} \/ MandateContext \/ simulated.context = None
        /\ Options.scanner /\ Options.gates =>
              /\ Exceeded(simulated.after) \subseteq Exceeded(simulated.before)
              /\ OutsideCashBand(simulated.after) => OutsideCashBand(simulated.before)
              /\ GovernedBuys = {}
              /\ \A i \in GovernedHoldings(simulated.after) :
                    Shelf(i).status \in {"BANNED", "SUSPENDED"} /\ simulated.before[i] > 0

=============================================================================
