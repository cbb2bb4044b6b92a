----------------------------- MODULE MCNvdFetch -----------------------------
(* NvdFetch for TLC: two retries, a body of at most five bytes in pieces   *)
(* of one to three, delays large enough to have a jitter.                  *)
EXTENDS NvdFetch
=============================================================================
