--------------------------- MODULE MCPolicyManager ---------------------------
(* PolicyManager on small instances.                                        *)
EXTENDS PolicyManager, TLC

\* Policies, clients, calls of the handler and timeouts are interchangeable.
Symmetry == Permutations(Pids) \cup Permutations(Clients)
            \cup Permutations(Handlers) \cup Permutations(Timers)

\* Bound: a crash, and a handler that outruns its 60 s, only where the app does
\* two things at most in all; a third where nothing fails.
FewOnFailure == timeouts + crashes > 0 => ops <= 2
=============================================================================
