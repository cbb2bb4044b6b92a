-------------------------------- MODULE Calls --------------------------------
(***************************************************************************)
(* The calls of pure functions, one at a time: the function called with    *)
(* its arguments, and what it returned.                                    *)
(***************************************************************************)
EXTENDS Integers, Sequences

VARIABLES call, result

Idle == [op |-> "idle"]

CallInit == call = Idle /\ result = <<>>

Called(arguments, value) == call' = arguments /\ result' = value

SeqsUpTo(S, n) == UNION {[1 .. k -> S] : k \in 0 .. n}

=============================================================================
