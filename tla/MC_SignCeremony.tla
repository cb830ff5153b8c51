--------------------------- MODULE MC_SignCeremony ----------------------------
(* A ceremony that may begin in the middle: with a link that was sent and of *)
(* which a part is lost (a whole one the request page makes on the way), and *)
(* with a signature file that was received with another message, or another  *)
(* document, than was signed (one as it should be the sign page makes).      *)
EXTENDS SignCeremony

CONSTANTS d1, d2

MCLinked == {[h |-> d1, e |-> None], [h |-> None, e |-> 0]}

SignedOf(d) ==
    ArtifactOf([at |-> "jades", env |-> [id |-> 0, doc |-> d], n |-> 0,
                anchor |-> None])

MCFiles == {[SignedOf(d1) EXCEPT !.message.n = 1],
            [SignedOf(d2) EXCEPT !.env.doc = d1]}
=============================================================================
