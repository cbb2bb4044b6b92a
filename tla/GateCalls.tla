------------------------------ MODULE GateCalls ------------------------------
(***************************************************************************)
(* The checks of the keys and values of the knowledge base, called with    *)
(* any keys and bytes and compared with what a path and what UTF-8 is.     *)
(***************************************************************************)
EXTENDS KbValidate, Calls

CONSTANTS
    LeadBytes, OtherBytes,   \* the first byte of a text, and the others
    MaxBytes,                \* bytes of a text (bound of the model)
    KeyChars                 \* characters of a key

ASSUME GateCallsAssumption ==
    /\ LeadBytes \cup OtherBytes \subseteq 0 .. 255 /\ MaxBytes \in Nat
    /\ KeyChars \subseteq {"slash", "ok", "other"}

CheckValue ==
    /\ call = Idle
    /\ \E n \in 1 .. MaxBytes : \E b \in LeadBytes, more \in [1 .. n - 1 -> OtherBytes] :
           Called([op |-> "value", buf |-> <<b>> \o more], ValidateValue(<<b>> \o more))

CheckKey ==
    /\ call = Idle
    /\ \E key \in SeqsUpTo(KeyChars, KeyMaxLen + 1) :
           Called([op |-> "key", key |-> key], ValidateKey(key))

GateNext == CheckValue \/ CheckKey

(* Whatever else is called, keys and texts are checked this way. *)
GateSpec == CallInit /\ [][GateNext \/ call'.op \notin {"value", "key"}]_<<call, result>>

-----------------------------------------------------------------------------
(* One encoded character of a text, by RFC 3629: its length by its first    *)
(* byte, and its number.                                                    *)
Units(b) == CASE b < 128 -> 1 [] b \in 192 .. 223 -> 2 [] b \in 224 .. 239 -> 3
              [] b \in 240 .. 247 -> 4 [] OTHER -> 0
LeastCodePoint(n) == CASE n = 1 -> 0 [] n = 2 -> 128 [] n = 3 -> 2048 [] n = 4 -> 65536
CodePoint(buf, i, n) ==
    LET low(k) == buf[i + k] % 64
    IN  CASE n = 1 -> buf[i]
          [] n = 2 -> (buf[i] % 32) * 64 + low(1)
          [] n = 3 -> (buf[i] % 16) * 4096 + low(1) * 64 + low(2)
          [] n = 4 -> (buf[i] % 8) * 262144 + low(1) * 4096 + low(2) * 64 + low(3)
IsCharacter(buf, i, n) ==
    /\ n = Units(buf[i]) /\ n # 0 /\ i + n <= Len(buf) + 1
    /\ \A k \in 1 .. n - 1 : buf[i + k] \div 64 = 2
    /\ LeastCodePoint(n) <= CodePoint(buf, i, n) /\ CodePoint(buf, i, n) <= 1114111
    /\ ~(55296 <= CodePoint(buf, i, n) /\ CodePoint(buf, i, n) <= 57343)

(* A text can be cut into characters: each starts where the one before      *)
(* ends.                                                                    *)
IsUtf8(buf) ==
    \E starts \in SUBSET (1 .. Len(buf) + 1) :
        /\ 1 \in starts
        /\ \A i \in starts : i <= Len(buf) =>
               \E n \in 1 .. 4 : IsCharacter(buf, i, n) /\ i + n \in starts

(* A value is accepted exactly when it is UTF-8 of at most the allowed      *)
(* bytes and without the byte 0, where the C string stored would end: the   *)
(* table of byte ranges leaves out the overlong forms, the surrogates and   *)
(* what is beyond the last code point, and nothing else.                    *)
ValueIsExact ==
    call.op = "value" =>
        (result <=> /\ IsUtf8(call.buf) /\ Len(call.buf) <= ValueMaxLen
                    /\ \A i \in DOMAIN call.buf : call.buf[i] # 0)

(* A key is accepted exactly when it is one or more non-empty segments of   *)
(* allowed characters between single slashes, within the length limit.      *)
KeyIsAPath ==
    call.op = "key" =>
        (result <=> /\ call.key # <<>> /\ Len(call.key) <= KeyMaxLen
                    /\ \A i \in DOMAIN call.key : call.key[i] # "other"
                    /\ \A i \in {i \in DOMAIN call.key : call.key[i] = "slash"} :
                          /\ i > 1 /\ i < Len(call.key)
                          /\ call.key[i + 1] = "ok")

(* The knowledge base takes all keys and values it should and no others     *)
(* (kb_validate.c and the checks of cytadel_kb_set_str_n, the gate of every *)
(* write).                                                                  *)
GateIsExact == ValueIsExact /\ KeyIsAPath

=============================================================================
