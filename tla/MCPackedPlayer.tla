---------------------------- MODULE MCPackedPlayer ----------------------------
(***************************************************************************)
(* PackedPlayer with a vector of two words that is a property of both the  *)
(* local and the other players' table, as m_vecOrigin is, a property of    *)
(* one word, and one that is not compared.                                 *)
(***************************************************************************)
EXTENDS PackedPlayer

MCWordsOf == <<{1, 2}, {1, 2}, {3}, {4}>>
MCPropsAt == <<<<1, 2>>, <<1, 2>>, <<3>>>>
=============================================================================
