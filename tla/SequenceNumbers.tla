--------------------------- MODULE SequenceNumbers ---------------------------
(* Request numbers (lib/audio/Alibint.c): a client counts its requests; the  *)
(* packets of the server carry only the low 16 bits of the number of the     *)
(* last request that it has executed.                                        *)
EXTENDS Integers

CONSTANT Wrap    \* 2^16: how many numbers packets tell apart

ASSUME WrapAssumption == Wrap \in Nat \ {0}

\* Mutant: the number of the last request itself is not reached.
WidenedTooLow(last, request, seq) ==
    LET newseq == (last \div Wrap) * Wrap + seq
    IN  IF newseq >= last \/ newseq + Wrap >= request THEN newseq ELSE newseq + Wrap

(* _AuSetLastRequestRead: the number of a request from its low bits, the     *)
(* last number read and that of the last request made.  (The code's loop     *)
(* adds 2^16 at most once before it meets either bound.)                     *)
Widened(last, request, seq) ==
    LET newseq == (last \div Wrap) * Wrap + seq
    IN  IF newseq >= last \/ newseq + Wrap > request THEN newseq ELSE newseq + Wrap
=============================================================================
