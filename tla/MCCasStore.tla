----------------------------- MODULE MCCasStore -----------------------------
(* Small instances of CasStore.                                            *)
EXTENDS CasStore, TLC

CONSTANTS c1, c2, A, B

\* Content B is chunk c1 twice, as a file of repeated blocks is, and another
\* client's chunker makes one large chunk c2 of the same bytes.  Content A is c1
\* followed by c2.
MCChunk == {c1, c2}
MCContent == {A, B}
MCList == {<<c1, c2>>, <<c1, c1>>, <<c2>>}
MCSplit == A :> <<c1, c2>> @@ B :> <<c1, c1>>
MCPlain == <<c1, c2>> :> A @@ <<c1, c1>> :> B @@ <<c2>> :> B

\* The same with one list less.
SmallList == {<<c1, c2>>, <<c1, c1>>}
SmallSplit == MCSplit
SmallPlain == <<c1, c2>> :> A @@ <<c1, c1>> :> B

Symmetry == Permutations(Writer) \cup Permutations(Manifest)
              \cup Permutations(Version)
=============================================================================
