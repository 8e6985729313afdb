----------------------------- MODULE MCEvidence -----------------------------
(***************************************************************************)
(* The instance of Evidence for TLC: the books over time, the lists with   *)
(* little time and nothing earned.                                         *)
(***************************************************************************)
EXTENDS Evidence

MCInit == EvidenceInit /\ (studied # "audits" => auditor = "page")

\* A second settlement of the yield is studied until both batches have gone.
LateOrFar == now' = MaxTime => Len(joins') + Len(unwinds') < 2 * MaxBatches

\* The lists do not depend on time and gifts: one of either, before any join.
FewGifts == now' + pot' > 0 => now' + pot' = 1 /\ interest' = 0 /\ joined' = {}

MCNext ==
  \/ Books /\ LateOrFar
  \/ Lists /\ FewGifts
  \/ Audits

MCSpec == MCInit /\ [][MCNext]_evidenceVars

=============================================================================
