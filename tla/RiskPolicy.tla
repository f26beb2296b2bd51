----------------------------- MODULE RiskPolicy -----------------------------
(***************************************************************************)
(* The judgement of one analysis in src/src/commerce_agent/intelligence:   *)
(* evidence.py (how far the document bears the analysis out), the sources  *)
(* repository.py counts as corroborating it, and risk.py (its risk, and    *)
(* whether a group with a risk profile is alerted).  Pure operators: a     *)
(* judgement depends on these arguments alone.                             *)
(***************************************************************************)
EXTENDS Integers, FiniteSets

RiskLevels == {"low", "medium", "high"}
EventTypes == {"policy", "fees", "tax_compliance", "logistics", "listing_restriction",
               "account_enforcement", "api_payment_incident", "market_update"}
Profiles   == {"conservative", "default", "aggressive"}
Tiers      == {"official", "media"}
Qualifications == {"none", "verified", "early_signal"}

RiskRank == [r \in RiskLevels |-> CASE r = "low" -> 0 [] r = "medium" -> 1 [] r = "high" -> 2]

----------------------------------------------------------------------------
(***************************************************************************)
(* Evidence.                                                               *)
(***************************************************************************)

\* A document counts under its publisher if it is media and under its source if it is
\* official, so one publisher's feeds are one witness.
EvidenceIdentity(d) == IF d.tier = "media" THEN <<"media", d.publisher>> ELSE <<"official", d.source>>

CorroboratingSources(docs) == Cardinality({EvidenceIdentity(d) : d \in docs})

\* EvidenceScorer.score.  anchored: every quote is in the body; extracted: a long body in
\* a language detected for sure; regional, dated: the analysis names regions and a date.
Score(facts, corroborating) ==
  LET sum == (IF facts.tier = "official" THEN 30 ELSE 20)
               + (IF facts.anchored THEN 25 ELSE 0)
               + (IF facts.extracted THEN 15 ELSE 10)
               + (IF facts.regional THEN 5 ELSE 0)
               + (IF facts.dated THEN 5 ELSE 0)
               + (IF corroborating >= 2 THEN 10 ELSE 0)
               + 10
      cap == IF facts.tier = "media" /\ corroborating < 2 THEN 70 ELSE 100
  IN IF sum > cap THEN cap ELSE sum

----------------------------------------------------------------------------
(***************************************************************************)
(* Risk.                                                                   *)
(***************************************************************************)
Floor(type) ==
  IF type \in {"account_enforcement", "listing_restriction"} THEN "high"
  ELSE IF type \in {"fees", "tax_compliance", "logistics", "api_payment_incident"} THEN "medium"
  ELSE "low"

\* RiskPolicy.resolve: the model's level raised to the floor of the event type; a low
\* level on a type that is always high is a contradiction left to review.
Resolve(type, level) ==
  [risk   |-> IF RiskRank[level] >= RiskRank[Floor(type)] THEN level ELSE Floor(type),
   review |-> level = "low" /\ Floor(type) = "high"]

\* _qualification.
Qualify(profile, risk, score) ==
  CASE risk = "low" -> "none"
    [] risk # "low" /\ profile = "conservative" ->
         IF risk = "high" /\ score >= 85 THEN "verified" ELSE "none"
    [] risk # "low" /\ profile = "default" ->
         IF score >= 75 THEN "verified" ELSE "none"
    [] risk # "low" /\ profile = "aggressive" ->
         IF score >= 75 THEN "verified" ELSE IF score >= 60 THEN "early_signal" ELSE "none"

\* RiskPolicy.assess.
Assess(type, level, score, profile) ==
  LET resolution == Resolve(type, level)
  IN [risk          |-> resolution.risk,
      qualification |-> IF resolution.review THEN "none"
                        ELSE Qualify(profile, resolution.risk, score)]
=============================================================================
