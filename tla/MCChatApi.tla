----------------------------- MODULE MCChatApi -----------------------------
EXTENDS ChatApi, TLC

\* Requests are interchangeable; the safety runs use it.
RequestSymmetry == Permutations(Requests)
=============================================================================
