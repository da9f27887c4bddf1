------------------------- MODULE MCUploadCompletion -------------------------
(***************************************************************************)
(* Instances of UploadCompletion for TLC: two uploads of the same picture, *)
(* with or without its EXIF data, one of them completed twice.             *)
(***************************************************************************)
EXTENDS UploadCompletion, TLC

CONSTANTS r1, r2, k1, k2, c1, c2, exif, bare, junk

\* k1 is completed twice, by any request but r2.
Again  == [r \in Request |-> IF r = r2 THEN k2 ELSE k1]

\* Two API processes, each with one connection: c2 serves r2, c1 the others.
TwoProcesses == [r \in Request |-> IF r = r2 THEN c2 ELSE c1]

\* One API process.
OneProcess == [r \in Request |-> c1]

OneSubject == [k \in Key |-> "seller"]

\* The same picture, with and without its EXIF data.
Picture     == k1 :> exif @@ k2 :> bare
WithoutExif == exif :> bare @@ bare :> bare @@ junk :> junk
=============================================================================
