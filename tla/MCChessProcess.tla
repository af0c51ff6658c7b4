--------------------------- MODULE MCChessProcess ---------------------------
(* ChessProcess with one of the games of ChessGames as the constant Partia.  *)
EXTENDS ChessProcess, ChessGames
=============================================================================
