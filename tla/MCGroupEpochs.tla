--------------------------- MODULE MCGroupEpochs ---------------------------
(* Small instances of GroupEpochs: devices are model values, the roster is  *)
(* given in leaf order.                                                     *)
EXTENDS GroupEpochs

CONSTANTS d1, d2, d3

PairRoster == <<d1, d2>>
TrioRoster == <<d1, d2, d3>>

Solo == {d1}
Duo == {d1, d2}
Trio == {d1, d2, d3}

============================================================================
