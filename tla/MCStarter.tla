------------------------------ MODULE MCStarter ------------------------------
(* Instance of Starter for TLC: a prefix lists nothing, or every document.  *)
EXTENDS Starter, SequencesExt, TLC

MCListings == {<< >>} \cup SetToSeqs(Docs)

\* Command lines that await nothing may trade places.
MCSymmetry == Permutations(Clis \ Waiting)
=============================================================================
