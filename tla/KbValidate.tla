----------------------------- MODULE KbValidate -----------------------------
(***************************************************************************)
(* What may enter the knowledge base (src/kb/kb_validate.c and the checks  *)
(* of a value in cytadel_kb_set_str_n, src/kb/kb.c).  A key is a sequence  *)
(* of characters: a slash, one that is allowed in a segment, or one that   *)
(* is not.  A value is a sequence of bytes.                                *)
(***************************************************************************)
EXTENDS Integers, Sequences

CONSTANTS
    KeyMaxLen,    \* CYTADEL_KB_KEY_MAX_LEN
    ValueMaxLen   \* CYTADEL_KB_VALUE_MAX_LEN

ASSUME KbValidateAssumption == KeyMaxLen \in Nat \ {0} /\ ValueMaxLen \in Nat

-----------------------------------------------------------------------------
(* The length of the segment that ends at each character. *)
SegmentLength(key) ==
    LET seg[i \in 0 .. Len(key)] ==
            IF i = 0 \/ key[i] = "slash" THEN 0 ELSE seg[i - 1] + 1
    IN  seg

ValidateKey(key) ==
    /\ Len(key) \in 1 .. KeyMaxLen
    /\ key[1] # "slash" /\ key[Len(key)] # "slash"
    /\ \A i \in DOMAIN key :
          /\ key[i] \in {"slash", "ok"}
          /\ key[i] = "slash" => SegmentLength(key)[i - 1] # 0
    /\ SegmentLength(key)[Len(key)] > 0
(* Mutant: the surrogates are not left out. *)
FollowSurrogates(b) ==
    CASE b \in 194 .. 223 -> [extra |-> 1, lo |-> 128, hi |-> 191]
      [] b = 224          -> [extra |-> 2, lo |-> 160, hi |-> 191]
      [] b \in 225 .. 239 -> [extra |-> 2, lo |-> 128, hi |-> 191]
      [] b = 240          -> [extra |-> 3, lo |-> 144, hi |-> 191]
      [] b \in 241 .. 243 -> [extra |-> 3, lo |-> 128, hi |-> 191]
      [] b = 244          -> [extra |-> 3, lo |-> 128, hi |-> 143]
      [] OTHER            -> [extra |-> 0, lo |-> 1, hi |-> 0]

(* The bytes that follow a lead byte: how many, and the range of the first. *)
Follow(b) ==
    CASE b \in 194 .. 223 -> [extra |-> 1, lo |-> 128, hi |-> 191]
      [] b = 224          -> [extra |-> 2, lo |-> 160, hi |-> 191]
      [] b \in 225 .. 236 -> [extra |-> 2, lo |-> 128, hi |-> 191]
      [] b = 237          -> [extra |-> 2, lo |-> 128, hi |-> 159]
      [] b \in 238 .. 239 -> [extra |-> 2, lo |-> 128, hi |-> 191]
      [] b = 240          -> [extra |-> 3, lo |-> 144, hi |-> 191]
      [] b \in 241 .. 243 -> [extra |-> 3, lo |-> 128, hi |-> 191]
      [] b = 244          -> [extra |-> 3, lo |-> 128, hi |-> 143]
      [] OTHER            -> [extra |-> 0, lo |-> 1, hi |-> 0]

ValidateUtf8(buf) ==
    LET valid[i \in 1 .. Len(buf) + 1] ==
            IF i > Len(buf) THEN TRUE
            ELSE IF buf[i] < 128 THEN valid[i + 1]
            ELSE LET f == Follow(buf[i])
                 IN  /\ f.extra > 0
                     /\ i + f.extra <= Len(buf)
                     /\ buf[i + 1] \in f.lo .. f.hi
                     /\ \A k \in 2 .. f.extra : buf[i + k] \in 128 .. 191
                     /\ valid[i + f.extra + 1]
    IN  valid[1]

NoEmbeddedNul(buf) == \A i \in DOMAIN buf : buf[i] # 0

(* The checks of a value before it is copied and stored. *)
ValidateValue(buf) ==
    /\ Len(buf) <= ValueMaxLen
    /\ NoEmbeddedNul(buf)
    /\ ValidateUtf8(buf)

=============================================================================
