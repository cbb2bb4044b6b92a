----------------------------- MODULE CveMirror -----------------------------
(***************************************************************************)
(* What the NVD synchronisation promises, without windows, pages, locks or *)
(* failures: a mirror of a growing set of revised records, and a watermark *)
(* before which the mirror is exact.                                       *)
(***************************************************************************)
EXTENDS Integers

CONSTANTS CVE, Malformed

VARIABLES clock, rev, mod, db, watermark

vars == <<clock, rev, mod, db, watermark>>

Init ==
  /\ clock = 0
  /\ rev = [c \in CVE |-> 0] /\ mod = [c \in CVE |-> 0] /\ db = [c \in CVE |-> 0]
  /\ watermark = -1

(* The feed: time passes; a record gets a new revision, dated now.         *)
Tick == clock' = clock + 1 /\ UNCHANGED <<rev, mod, db, watermark>>

Publish(c) ==
  /\ rev' = [rev EXCEPT ![c] = @ + 1]
  /\ mod' = [mod EXCEPT ![c] = clock]
  /\ UNCHANGED <<clock, db, watermark>>

(* Some records are brought nearer to the feed, none further from it.      *)
Copied == \A c \in CVE : db'[c] = db[c] \/ (db[c] <= db'[c] /\ db'[c] <= rev[c])

(* All that was modified before instant w is stored after the step.        *)
ExactBefore(w) == \A c \in CVE \ Malformed : rev[c] > 0 /\ mod[c] < w => db'[c] = rev[c]

Mirror ==
  /\ Copied
  /\ \/ watermark' = watermark
     \/ watermark' > watermark /\ watermark' <= clock /\ ExactBefore(watermark')
  /\ UNCHANGED <<clock, rev, mod>>

Next == Tick \/ (\E c \in CVE : Publish(c)) \/ Mirror

Spec == Init /\ [][Next]_vars
============================================================================
