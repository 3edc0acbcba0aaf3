--------------------------- MODULE MCProfilePool ---------------------------
\* Two processes and three commands over a pool of two labels that was not
\* used for a while: no cooldown, no selection yet.
EXTENDS ProfilePool, TLC

MCInit == Init /\ registry.last = None /\ registry.cooling = {}
MCSpec == MCInit /\ [][Next]_vars

Symmetry == Permutations(Proc) \cup Permutations(Profile) \cup Permutations(Dir)
              \cup Permutations(Archive)
=============================================================================
