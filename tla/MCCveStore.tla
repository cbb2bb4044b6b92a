----------------------------- MODULE MCCveStore -----------------------------
(* CveStore with three CVEs, numbered in the order of the EPSS listing.    *)
EXTENDS CveStore

MCCVE == 1..3
=============================================================================
