------------------------------ MODULE MCSystem ------------------------------
(* A prefix with one document, for TLC. *)
EXTENDS System

CONSTANT d1

MCListings == {<<d1>>}
=============================================================================
