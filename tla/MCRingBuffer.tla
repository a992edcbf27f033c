---------------------------- MODULE MCRingBuffer ----------------------------
\* RingBuffer for TLC.
EXTENDS RingBuffer
=============================================================================
