----------------------------- MODULE Iteration -----------------------------
(***************************************************************************)
(* A loop that runs its body once for each of the numbers 1, 2, ..., n.    *)
(***************************************************************************)
EXTENDS Naturals

CONSTANT Round(_, _, _)    \* Round(given, s, i): what round i makes of s, given
                           \* what no round changes

\* What the loop has at its start and after each of its rounds.
Run(given, start, n) ==
    LET after[i \in 0..n] == IF i = 0 THEN start ELSE Round(given, after[i - 1], i)
    IN after

After(given, start, n) == Run(given, start, n)[n]
=============================================================================
