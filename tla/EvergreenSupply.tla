---------------------------- MODULE EvergreenSupply ----------------------------
(***************************************************************************)
(* Where an update comes from and what is made sure of before and after    *)
(* it: the releases that are issued, the catalog that lists them, the      *)
(* composition that is planned from it, the stage that is filled and       *)
(* selected, the audits of what is staged, and the evidence for the        *)
(* recovery of an update that the witness has signed.                      *)
(*                                                                         *)
(* What one hands to the next is a value that is verified afresh by        *)
(* whoever takes it, and they change no file in common but those of        *)
(* PlanPreparation, so that a behaviour is one part's.                     *)
(***************************************************************************)
EXTENDS ReleaseIssuance, CompositionReview, CandidateAudit, PlanPreparation, RecoveryEvidence

CONSTANTS
  Part             \* the parts that are explored

ASSUME PartAssumption ==
  Part \subseteq {"issuance", "catalog", "composition", "preparation", "audit", "evidence"}

VARIABLES part     \* the one that is at work

supplyVars == <<catalogVars, issuanceVars, planning, preparationVars, auditVars, evidenceVars, part>>

\* The candidate that is there while nothing audits it.
AtRest ==
  /\ selection = 1
  /\ \A f \in StagedFile : content[f] = CHOOSE form \in Form[f] : TRUE

SupplyInit ==
  /\ CatalogInit /\ IssuanceInit /\ ReviewInit /\ PreparationInit /\ AuditInit /\ EvidenceInit
  /\ part \in Part
  /\ part # "audit" => AtRest

Releases ==
  /\ part \in {"issuance", "catalog"}
  /\ part = "issuance" => IssuanceNext
  /\ part = "catalog" => CatalogNext /\ UNCHANGED issuanceVars
  /\ UNCHANGED <<planning, preparationVars, auditVars, evidenceVars>>

Compositions ==
  /\ part = "composition" /\ ReviewNext
  /\ UNCHANGED <<catalogVars, issuanceVars, preparationVars, auditVars, evidenceVars>>

Preparations ==
  /\ part = "preparation" /\ PreparationNext
  /\ UNCHANGED <<catalogVars, issuanceVars, planning, auditVars, evidenceVars>>

Audits ==
  /\ part = "audit" /\ AuditNext
  /\ UNCHANGED <<catalogVars, issuanceVars, planning, preparationVars, evidenceVars>>

Evidence ==
  /\ part = "evidence" /\ EvidenceNext
  /\ UNCHANGED <<catalogVars, issuanceVars, planning, preparationVars, auditVars>>

SupplyNext ==
  /\ UNCHANGED part
  /\ Releases \/ Compositions \/ Preparations \/ Audits \/ Evidence

SupplySpec == SupplyInit /\ [][SupplyNext]_supplyVars

\* The files, calls and reports of all six parts stay well formed.
SupplyTypeOK ==
  /\ IssuanceTypeOK /\ CatalogTypeOK /\ ReviewTypeOK
  /\ PreparationTypeOK /\ AuditTypeOK /\ EvidenceTypeOK
=============================================================================
