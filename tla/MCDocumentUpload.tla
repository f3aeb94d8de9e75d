-------------------------- MODULE MCDocumentUpload --------------------------
(* Small instances of DocumentUpload for TLC. *)
EXTENDS DocumentUpload, TLC, FiniteSetsExt

CONSTANTS u1, u2, u3, p1, p2, x1, n1, n2, n3

\* Two uploads of the same file: a document and its replacement.
PairUploads == {u1, u2}
OneProject  == {p1}
OneUser     == {x1}
OneName     == {n1}
PairProject == [u \in PairUploads |-> p1]
PairUser    == [u \in PairUploads |-> x1]
PairName    == [u \in PairUploads |-> n1]
PairKind    == [u \in PairUploads |-> "document"]
PairSize    == u1 :> 1 @@ u2 :> 2

\* One upload of each kind, two of them in one project; with their limits each of
\* the three binds for some order of the requests.
TrioUploads == {u1, u2, u3}
TwoProjects == {p1, p2}
ThreeNames  == {n1, n2, n3}
TrioProject == u1 :> p1 @@ u2 :> p1 @@ u3 :> p2
TrioUser    == [u \in TrioUploads |-> x1]
TrioName    == u1 :> n1 @@ u2 :> n2 @@ u3 :> n3
TrioKind    == u1 :> "document" @@ u2 :> "audio" @@ u3 :> "git"
TrioSize    == u1 :> 1 @@ u2 :> 2 @@ u3 :> 2

\* SUM(size_bytes) over a set of uploads.
SumSizes(S) == FoldSet(LAMBDA u, acc : Size[u] + acc, 0, S)
=============================================================================
