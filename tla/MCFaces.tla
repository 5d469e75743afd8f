------------------------------ MODULE MCFaces ------------------------------
EXTENDS Faces, TLC

CONSTANTS c1, c2, p1, p2, t1, k1, s1, s2

MCCamLinks == (c1 :> t1) @@ (c2 :> NoTerminal)
\* A doubtful match before a good one; no plausible match; a person whose id
\* is not a number.
MCAnswers ==
  {<<[who |-> p2, score |-> 101], [who |-> p1, score |-> 90], [who |-> p2, score |-> 60]>>,
   <<[who |-> Nobody, score |-> 90]>>,
   <<[who |-> p2, score |-> 70]>>}
MCIdLength == (p1 :> 3) @@ (p2 :> 16)
MCSymmetry == Permutations(Sessions)
=============================================================================
