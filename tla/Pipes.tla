--------------------------------- MODULE Pipes --------------------------------
(* What a sequence of lines holds, for the modules that have one. *)
EXTENDS Integers, Sequences

\* The lines in s.
Lines(s) == {s[i] : i \in 1..Len(s)}

\* e is in s in one place at most.
AtMostOnce(s, e) == \A i, j \in 1..Len(s): s[i] = e /\ s[j] = e => i = j
===============================================================================
