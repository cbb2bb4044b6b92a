----------------------------- MODULE MCScanRun -----------------------------
(* ScanRun for TLC: one scan of two hosts next to a sync of two pages that *)
(* share a CVE; CVE 2 has no verdict.                                      *)
EXTENDS ScanRun

MCPage      == {{1, 2, 3}}
MCPages     == {{1, 2}, {2, 3}}
MCMalformed == {2}
============================================================================
