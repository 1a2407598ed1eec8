--------------------------- MODULE MCSoundStream ---------------------------
(* SoundStream on small instances.  Bps is the size of a sample frame.       *)
EXTENDS SoundStream, Bitwise

CONSTANTS Bps,
          Totals,     \* lengths played with any interleaving
          Short,      \* lengths whose last write is short, see MCCases
          Long        \* lengths played by a client that keeps up

\* With any latency the end of a sound may be missed (see the README): by the
\* race of the interrupt with the eof flag, which "mark" excludes, and when the
\* sound ends exactly with what was asked for, which a short last write excludes.
MCCases == (Totals \X {"any"}) \cup (Short \X {"mark"}) \cup (Long \X {"none"})

\* c->currentSize & ~(c->bytesPerSample - 1), on sizes below 256.
MCWholeSamples(n) == n & (256 - Bps)
=============================================================================
