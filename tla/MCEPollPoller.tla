--------------------------- MODULE MCEPollPoller ---------------------------
\* A small instance of EPollPoller for TLC.
EXTENDS EPollPoller, TLC

Symmetry == Permutations(Channels)
=============================================================================
