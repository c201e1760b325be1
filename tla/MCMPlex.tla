------------------------------ MODULE MCMPlex ------------------------------
EXTENDS MPlex, TLC, SequencesExt

Symmetry == {p @@ q : p \in Permutations(Regions), q \in Permutations(Frames \ Floating)}
MCIndices == {AFTER_CURRENT_ACT, LAST, 0}
MCFlags == {{}, {"SWITCHTO"}, {"HIDDEN"}, {"UNNUMBERED"}}

\* All frames are there, and all regions but perhaps one in one of them
Occupied(t, m, rs) ==
  FoldLeft(LAMBDA u, r : DoAttach(u, m, r, {}, TRUE, LastItem(MxList(u, m)),
                                  CHOOSE h \in Phs : TRUE, FALSE), t, rs)
MCInit ==
  /\ \E m \in Frames, rs \in SetToSeqs(Regions), n \in {1, 2} :
       s = Occupied(Start(Frames), m, SubSeq(rs, n, Len(rs)))
  /\ left = MaxOps
MCSpec == MCInit /\ [][Next]_vars
=============================================================================
