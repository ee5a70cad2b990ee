-------------------------- MODULE MCCatalogExport ---------------------------
(* One export, two workers, room for two operations.                       *)
EXTENDS CatalogExportRefinement

CONSTANTS e1, p1, w1, w2, o1, o2
=============================================================================
