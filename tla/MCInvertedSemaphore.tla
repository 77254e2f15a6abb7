----------------------------- MODULE MCInvertedSemaphore -----------------------------
EXTENDS InvertedSemaphore

=============================================================================
