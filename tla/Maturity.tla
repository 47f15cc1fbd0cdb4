------------------------------ MODULE Maturity ------------------------------
(***************************************************************************)
(* The maturity of a scenario (orchestrator/scenario_maturity.py): a score  *)
(* and a label computed from the scenario, its techniques and its entry in  *)
(* the evidence file, here while an author works on the three.              *)
(*                                                                          *)
(* Scores are in units of 1/10000, so that 0.18 points for a hundredth of a *)
(* percent are a whole number; the error of binary floats is left out.      *)
(***************************************************************************)
EXTENDS Integers, FiniteSets, FiniteSetsExt

CONSTANTS
    Drafts,      \* the scenarios an author begins with
    MaxGrowth    \* bound on the steps, and on the edges, added to one

ASSUME GrowthBound == MaxGrowth \in Nat

\* The tags that the kind and the score look at.
Tags == {"validated", "variant", "ael_import", "source_ael"}

\* A step has one tactic, which it may share with others, and at most one rule.
ASSUME DraftsAssumption ==
    \A s \in Drafts :
        /\ s \in [actor : BOOLEAN, tags : SUBSET Tags, platforms : Nat,
                  steps : Nat, ruled : Nat, edges : Nat, tactics : Nat]
        /\ s.ruled <= s.steps /\ s.tactics <= s.steps

VARIABLES
    scen,     \* what is scored of the scenario
    proof,    \* its entry in the evidence file: the fields filled in, or NoEvidence
    grown     \* how many steps and edges were added

matVars == <<scen, proof, grown>>

NoEvidence == {"no_entry"}
EvidenceFields ==
    {"runbook", "success_criteria", "sigma_matches", "siem_fields", "detection_latency_seconds"}

-----------------------------------------------------------------------------
\* _scenario_kind.
Kind(s) ==
    IF "validated" \in s.tags THEN "validated"
    ELSE CASE "variant" \in s.tags -> "generated"
           [] "variant" \notin s.tags /\ {"ael_import", "source_ael"} \cap s.tags # {} -> "emulation"
           [] OTHER -> "static"

\* round: to the nearest whole, a half to the even one.
Rounded(num, den) ==
    LET q == num \div den
        r == 2 * (num % den)
    IN  IF r > den \/ (r = den /\ q % 2 = 1) THEN q + 1 ELSE q

\* detection_percent, in hundredths of a percent.
DetectionPercent(s) == IF s.steps = 0 THEN 0 ELSE Rounded(10000 * s.ruled, s.steps)

FieldPoints(e) ==
      (IF "runbook" \in e THEN 5 ELSE 0) + (IF "success_criteria" \in e THEN 5 ELSE 0)
    + (IF "sigma_matches" \in e THEN 3 ELSE 0) + (IF "siem_fields" \in e THEN 3 ELSE 0)
    + (IF "detection_latency_seconds" \in e THEN 2 ELSE 0)
\* A mutation of EvidencePoints: the entry counts only while it is empty.
EvidencePointsOrFields(e) ==
    CASE e = NoEvidence -> 0
      [] e = {} -> 22
      [] OTHER -> FieldPoints(e)
EvidencePoints(e) == IF e = NoEvidence THEN 0 ELSE 22 + FieldPoints(e)

\* The points before the caps.
Points(s, e) ==
    10000 * (  (IF s.actor THEN 8 ELSE 0)
             + (IF "validated" \in s.tags THEN 12 ELSE 0)
             + Min({s.steps, 12}) + Min({s.edges, 12}) + Min({3 * s.tactics, 18})
             + EvidencePoints(e)
             + (IF s.platforms > 1 THEN 6 ELSE 0))
    + 18 * DetectionPercent(s)

\* _score_scenario's caps.  An emulation plan without evidence has 74 points at
\* most, so that the second one never bites.
Capped(points, kind, e) ==
    CASE kind = "generated" -> Min({points, 550000})
      [] kind = "emulation" /\ e = NoEvidence -> Min({points, 750000})
      [] OTHER -> points

\* _score_scenario.
Score(s, e) == Min({Rounded(Capped(Points(s, e), Kind(s), e), 10000), 100})

\* _maturity_label.
Label(s, e) ==
    LET score == Score(s, e)
        backed == score >= 85 /\ e # NoEvidence
    IN  IF Kind(s) = "generated" THEN "variant"
        ELSE CASE backed -> "fixture-backed"
               [] score >= 70 /\ ~backed -> "operational"
               [] score \in 50 .. 69 -> "coverage"
               [] OTHER -> "draft"

-----------------------------------------------------------------------------
(* What an author may improve. *)

\* A step whose technique is registered and has a Sigma rule, of a tactic the
\* scenario has or has not yet.
AddRuledStep ==
    /\ grown.steps < MaxGrowth
    /\ \E new \in IF scen.tactics = 0 THEN {1} ELSE {0, 1} :
         scen' = [scen EXCEPT !.steps = @ + 1, !.ruled = @ + 1, !.tactics = @ + new]
    /\ grown' = [grown EXCEPT !.steps = @ + 1]
    /\ UNCHANGED proof

\* A rule for the technique of a step that had none.
AddRule ==
    /\ scen.ruled < scen.steps
    /\ scen' = [scen EXCEPT !.ruled = @ + 1]
    /\ UNCHANGED <<proof, grown>>

AddEdge ==
    /\ grown.edges < MaxGrowth
    /\ 2 * scen.edges < scen.steps * (scen.steps - 1)
    /\ scen' = [scen EXCEPT !.edges = @ + 1]
    /\ grown' = [grown EXCEPT !.edges = @ + 1]
    /\ UNCHANGED proof

AddPlatform ==
    /\ scen.platforms < 2
    /\ scen' = [scen EXCEPT !.platforms = @ + 1]
    /\ UNCHANGED <<proof, grown>>

NameActor ==
    /\ ~scen.actor
    /\ scen' = [scen EXCEPT !.actor = TRUE]
    /\ UNCHANGED <<proof, grown>>

MarkValidated ==
    /\ "validated" \notin scen.tags
    /\ scen' = [scen EXCEPT !.tags = @ \cup {"validated"}]
    /\ UNCHANGED <<proof, grown>>

\* An entry in the evidence file, or a field of it that was empty.
AddEvidence ==
    /\ \/ proof = NoEvidence /\ proof' = {}
       \/ proof # NoEvidence /\ \E f \in EvidenceFields \ proof : proof' = proof \cup {f}
    /\ UNCHANGED <<scen, grown>>

MatInit ==
    /\ scen \in Drafts
    /\ proof = NoEvidence
    /\ grown = [steps |-> 0, edges |-> 0]

MatNext ==
    \/ AddRuledStep \/ AddRule \/ AddEdge \/ AddPlatform \/ NameActor \/ MarkValidated
    \/ AddEvidence

-----------------------------------------------------------------------------
MatTypeOK ==
    /\ scen.ruled \in 0 .. scen.steps
    /\ scen.tactics <= scen.steps
    /\ proof = NoEvidence \/ proof \subseteq EvidenceFields
    /\ Score(scen, proof) \in 0 .. 100

Rank(label) ==
    CASE label = "draft" -> 1
      [] label = "coverage" -> 2
      [] label = "operational" -> 3
      [] label = "fixture-backed" -> 4

\* No improvement lowers the score, whatever the rounding of the two averages
\* and the caps that depend on the kind and the evidence do; nor the label, as
\* long as the scenario is not a generated variant.
MaturityNeverDrops ==
    [][<<scen, proof>>' # <<scen, proof>> =>
         /\ Score(scen, proof)' >= Score(scen, proof)
         /\ Kind(scen) # "generated" =>
              Rank(Label(scen, proof)') >= Rank(Label(scen, proof))]_matVars
=============================================================================
