------------------------------- MODULE MCDesk -------------------------------
(***************************************************************************)
(* Instances of Desk for TLC.                                              *)
(***************************************************************************)
EXTENDS Desk, TLC

CONSTANTS w1, w2, owner, q1, q2, k1, k2, ann

Command(k, t) == [kind |-> "command", key |-> k, actor |-> ann, text |-> t]
Response(k) == [kind |-> "response", key |-> k, actor |-> ann, text |-> "a"]

\* Two commands, one of them a validate, and a response; none is retried.
WorkIntents == {Command(k1, "a"), Command(k2, "v"), Response(None)}
\* Commands of one actor: a retry, a reused key, another command.
KeyIntents == {Command(k1, "a"), Command(k1, "b"), Command(k2, "a")}
\* A response that is retried, and a lone command.
OneResponse == {Response(k1)}
OneCommand == {Command(k1, "a")}

Interchangeable == Permutations({w1, w2}) \cup Permutations({q1, q2})
===============================================================================
