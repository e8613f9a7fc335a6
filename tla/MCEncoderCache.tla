--------------------------- MODULE MCEncoderCache ---------------------------
(* Instances of EncoderCache for TLC.                                       *)
EXTENDS EncoderCache

\* One prompt shows two items, another one item twice; the cache does not hold the
\* items of both.
Competing == [r \in Requests |-> IF r = 1 THEN <<1, 2>> ELSE <<3, 3>>]

\* The third item is the large one.
OneLarge == [h \in Items |-> IF h = 3 THEN 2 ELSE 1]

=============================================================================
