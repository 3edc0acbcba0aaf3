-------------------------- MODULE MCLaunchSession --------------------------
\* Two launches and a `sagy use', over two accounts.
EXTENDS LaunchSession, TLC

\* The two launches are told apart by nothing.
Symmetry == Permutations(Launchers)
============================================================================
