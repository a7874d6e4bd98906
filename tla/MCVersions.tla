----------------------------- MODULE MCVersions -----------------------------
(***************************************************************************)
(* A small instance of Versions in which requests may be cancelled.        *)
(***************************************************************************)
EXTENDS Versions

Sizes == "d1" :> 1 @@ "d2" :> 2
=============================================================================
