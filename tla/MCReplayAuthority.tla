-------------------------- MODULE MCReplayAuthority -------------------------
\* Two threads submit two messages, fresh or stale, and may empty the registry.
EXTENDS ReplayAuthority

MCAges == {0, 2}

MCSymmetry == Permutations(Threads) \cup Permutations(Msgs)
=============================================================================
