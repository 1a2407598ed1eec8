---------------------------- MODULE MCImportPort ----------------------------
(* ImportPort on small instances.  Bps is the size of a sample frame.        *)
EXTENDS ImportPort, Bitwise

CONSTANT Bps

\* c->currentSize & ~(c->bytesPerSample - 1), on sizes below 256.
MCWholeSamples(n) == n & (256 - Bps)
=============================================================================
