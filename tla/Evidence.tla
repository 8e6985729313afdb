------------------------------ MODULE Evidence ------------------------------
(***************************************************************************)
(* What the site shows as evidence, in three parts that share no state:    *)
(* the replica source's books, its lists with their readers, and the       *)
(* audits of the draws.                                                    *)
(***************************************************************************)
EXTENDS VaultViews, Audit

VARIABLE studied    \* which part a behaviour belongs to

evidenceVars == <<vars, views, auditVars, studied>>

EvidenceInit == ViewInit /\ AuditInit /\ studied \in {"books", "views", "audits"}

Books == studied = "books" /\ Next /\ UNCHANGED <<views, auditVars, studied>>

Lists == studied = "views" /\ ViewNext /\ UNCHANGED <<auditVars, studied>>

Audits == studied = "audits" /\ AuditNext /\ UNCHANGED <<vars, views, studied>>

EvidenceSpec == EvidenceInit /\ [][Books \/ Lists \/ Audits]_evidenceVars

\* The lists are kept in the second part only.
ListsAreComplete == studied = "views" => WhatIsOutIsListed

=============================================================================
