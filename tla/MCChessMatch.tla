---------------------------- MODULE MCChessMatch ----------------------------
(* ChessMatch with one of the games of ChessGames as the constant Partia.    *)
EXTENDS ChessMatch, ChessGames
=============================================================================
