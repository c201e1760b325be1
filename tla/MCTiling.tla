------------------------------ MODULE MCTiling ------------------------------
EXTENDS Tiling
MCSizes == {PerDir(5, 4), PerDir(3, 5)}
MCHints == {PerDir(1, 2)}
Rq(m, g, w) == [move |-> m, grow |-> g, weak |-> w]
MCRequests ==
  {Rq(0, 1, TRUE), Rq(0, -2, TRUE), Rq(-1, 2, FALSE), Rq(1, -1, FALSE)}
=============================================================================
