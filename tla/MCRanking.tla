----------------------------- MODULE MCRanking -----------------------------
(* An instance of Ranking: the hot board and that of one category. *)
EXTENDS Ranking

HotOnly == <<"hot">>
OneCategory == <<"tech">>
=============================================================================
