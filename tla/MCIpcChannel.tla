---------------------------- MODULE MCIpcChannel ----------------------------
\* Lcores, buffers and messages are interchangeable.
EXTENDS IpcChannel, TLC

Interchangeable ==
    Permutations(Lcores) \cup Permutations(Bufs) \cup Permutations(Msgs)

=============================================================================
