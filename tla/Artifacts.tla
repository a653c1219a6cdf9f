------------------------------ MODULE Artifacts ------------------------------
(***************************************************************************)
(* How the facade recognises in S3 what a conversion exported: by the      *)
(* leaf of the key, whose extension names the format and whose stem names  *)
(* the file (src/facade/utils.py).                                         *)
(*                                                                         *)
(* A name is the sequence of its dot-separated pieces: "a.v1.pdf" is       *)
(* <<"a", "v1", "pdf">>.  Directories above the leaf are never looked at.  *)
(***************************************************************************)
EXTENDS Integers, Sequences

\* Variant: not the longest first.
ExtensionsShortFirst ==
  << <<"txt">>, <<"doctags", "txt">>, <<"json">>, <<"md">>, <<"html">>,
     <<"dclg">> >>

\* EXTENSION_TO_FIELD, in its order.  Each extension has a field of the
\* response to itself, so it stands for the field, too.
Extensions ==
  << <<"doctags", "txt">>, <<"json">>, <<"md">>, <<"html">>, <<"dclg">>,
     <<"txt">> >>

KnownExtensions == {Extensions[i] : i \in DOMAIN Extensions}

\* What an unlisted extension is read as: the key is skipped.
Unknown == << >>

\* name.endswith("." + extension), and name[: -len(extension)].
EndsWith(name, extension) ==
  /\ Len(extension) < Len(name)
  /\ SubSeq(name, Len(name) - Len(extension) + 1, Len(name)) = extension
Without(name, extension) == SubSeq(name, 1, Len(name) - Len(extension))

\* parse_artifact_key: the first extension of the table the leaf ends with.
Extension(leaf) ==
  LET matching == {i \in DOMAIN Extensions : EndsWith(leaf, Extensions[i])}
  IN  IF matching = {}
      THEN Unknown
      ELSE Extensions[CHOOSE i \in matching : \A j \in matching : i <= j]

Readable(keys) == {k \in keys : Extension(k.leaf) # Unknown}

\* The stem an artifact is grouped under.
ArtifactStem(leaf) == Without(leaf, Extension(leaf))

\* The stem of an uploaded file: filename.rsplit(".", 1)[0].
Stem(filename) ==
  IF Len(filename) > 1 THEN SubSeq(filename, 1, Len(filename) - 1) ELSE filename

\* What is filed in grouped[stem] for an uploaded file.
Found(keys, filename) ==
  {k \in Readable(keys) : ArtifactStem(k.leaf) = Stem(filename)}
=============================================================================
