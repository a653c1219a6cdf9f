------------------------------ MODULE MCFacade ------------------------------
(***************************************************************************)
(* Instances of Facade for TLC: the files of an upload and the formats     *)
(* they are exported in, and the symmetry of the calls in the runs without *)
(* liveness.                                                               *)
(***************************************************************************)
EXTENDS Facade, TLC

OneFile == << <<"a", "pdf">> >>
TwoFiles == << <<"a", "pdf">>, <<"a", "v1", "pdf">> >>
SameStem == << <<"a", "pdf">>, <<"a", "docx">> >>

Markdown == {<<"md">>}
\* One extension that ends with another, and one the facade has no field for.
Mixed == {<<"doctags", "txt">>, <<"yaml">>}

CallSymmetry == Permutations(Calls)
=============================================================================
