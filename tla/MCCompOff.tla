----------------------------- MODULE MCCompOff -----------------------------
EXTENDS CompOff

\* Two accruals that no single one of the larger leaves fits in, one of which
\* expires, and leaves of one, two and three half days
CONSTANTS l1, l2, l3
Accruals3 == 1..3
Units3 == <<2, 1, 2>>
Expires3 == <<0, 1, 3>>
Leaves3 == {l1, l2, l3}
Asked3 == [l \in Leaves3 |-> IF l = l1 THEN 1 ELSE IF l = l2 THEN 2 ELSE 3]
=============================================================================
