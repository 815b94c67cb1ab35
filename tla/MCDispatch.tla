---- MODULE MCDispatch ----
EXTENDS Dispatch

CONSTANTS r1, r2, pa, pb, pz, m1, m2

\* Two requests may rank the same providers differently; a strategy may
\* exclude all of them.
OneRanking == {<<pa, pb>>}
TwoRankings == {<<pa, pb>>, <<pb, pa>>}
ThreeRankings == {<<pa, pb, pz>>, <<>>}

\* pa has a chain of two models, the others one.
ChainOfTwo == [p \in Provider |-> IF p = pa THEN <<m1, m2>> ELSE <<m1>>]
====
