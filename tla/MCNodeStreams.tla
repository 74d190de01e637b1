--------------------------- MODULE MCNodeStreams ---------------------------
(***************************************************************************)
(* NodeStreams for TLC: two readers, of every unordered pair of kinds.     *)
(***************************************************************************)
EXTENDS NodeStreams, TLC

CONSTANTS r1, r2

KindOrder == <<"session", "toolrun", "tunnel", "proxy", "call", "upload">>
OrderedPairs ==
    {(r1 :> KindOrder[i] @@ r2 :> KindOrder[j]) :
        <<i, j>> \in {<<a, b>> \in (1 .. 6) \X (1 .. 6) : a <= b}}

=============================================================================
