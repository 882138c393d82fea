----------------------------- MODULE MCSessions -----------------------------
(* Sessions with small sets of browsers, sessions, credentials and calls.  *)
EXTENDS Sessions, TLC

Symmetric == Permutations(SessionIds) \cup Permutations(Tokens)
                 \cup Permutations(Calls) \cup Permutations(Browsers)

=============================================================================
