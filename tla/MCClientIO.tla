------------------------------ MODULE MCClientIO ------------------------------
\* ClientIO for TLC: the asker's first request is larger than an input buffer,
\* and the reply to its second larger than an output buffer; the quiet client
\* wants no replies, and most of what it sends fits in a buffer.
EXTENDS ClientIO

CONSTANTS asker, quiet

Auths == (asker :> 5) @@ (quiet :> 1)
Asked == (asker :> <<[len |-> 1, reply |-> <<1, 2>>]>>)
            @@ (quiet :> <<[len |-> 1, reply |-> <<>>], [len |-> 2, reply |-> <<>>]>>)
Answer == <<1>>
===============================================================================
