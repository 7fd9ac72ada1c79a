------------------------- MODULE MCCommitteeSession -------------------------
(***************************************************************************)
(* A small instance for TLC.  Two fetches bring the same content with two  *)
(* tiers; whichever is stored first decides what may be said on it with    *)
(* confidence.  A second content becomes available later.                  *)
(***************************************************************************)
EXTENDS CommitteeSession

CONSTANTS f1, f2, macro, event

Filing(tier) == [content |-> "filing", source |-> "exchange", tier |-> tier, available |-> 0]
News == [content |-> "news", source |-> "press", tier |-> "OTHER", available |-> 1]

MCArtifacts == {Filing("PRIMARY"), Filing("OTHER"), News}
MCBatch == [f \in Fetches |-> IF f = f1 THEN <<Filing("PRIMARY")>> ELSE <<Filing("OTHER"), News>>]

Says(stance, cited, confidence) == [stance |-> stance, cited |-> cited, confidence |-> confidence]

MCOutputs ==
    {Says("none", {}, 0), Says("POSITIVE", {"filing"}, 90),
     Says("NEGATIVE", {"filing", "news"}, 90)}

=============================================================================
