----------------------------- MODULE ChessGames -----------------------------
(***************************************************************************)
(* The games played in the checked instances of the chess modules: for     *)
(* each ply the moves that may be typed, some of which the program accepts *)
(* and some of which it rejects.  A square is written as the number        *)
(* 10 * row + column.                                                      *)
(***************************************************************************)
EXTENDS Integers

Pole(n) == <<n \div 10, n % 10>>
T(a, b) == <<Pole(a), Pole(b)>>

\* Whatever the player may type.
Volny == ((0..7) \X (0..7)) \X ((0..7) \X (0..7))

\* Openings: quiet moves, forced captures, a check by the bishop or the queen
\* along the king's diagonal, pinned pawns that must not move; then any move.
Otvorenie ==
  << { T(14,34), T(13,33), T(17,27), T(14,44), T(4,13) },
     { T(64,54), T(62,42), T(72,57) },
     { T(3,47), T(5,32), T(12,32), T(3,15) },
     { T(73,37), T(75,31), T(76,55), T(55,46) },
     { T(13,23), T(15,25), T(16,26), T(32,65), T(4,14), T(4,13) },
     Volny >>

\* White pawns march to the last row and are exchanged for every kind of piece,
\* which then moves as what it has become.
Premena ==
  << { T(10,30), T(11,31) },
     { T(61,41) },
     { T(30,41), T(31,41) },
     { T(60,50) },
     { T(41,50), T(41,51) },
     { T(67,57), T(66,56) },
     { T(50,60), T(51,61), T(4,13) },
     { T(57,47), T(71,50), T(76,55), T(70,60) },
     { T(60,71), T(61,70), T(61,72) },
     { T(47,37), T(70,71), T(77,67), T(74,75) },
     { T(71,72), T(70,72), T(71,61), T(72,73), T(72,54) } >>

\* A few openings with rejected attempts, captures and announced ends.
KratkeOtvorenie ==
  << { T(14,34), T(13,33), T(14,44) },
     { T(64,54), T(62,42) },
     { T(17,27), T(3,47), T(3,15) },
     { T(75,31), T(76,55) },
     { T(13,23), T(12,22), T(4,13), T(4,14) } >>

\* The white king walks to the fourth row; an attempt to step beside a pawn that
\* never moved is rejected, and later that pawn goes two squares.
Spor ==
  << { T(14,34) }, { T(71,50), T(60,50) }, { T(4,14) }, { T(50,71), T(50,40) },
     { T(14,24) }, { T(71,50), T(40,30) }, { T(24,33) }, { T(50,71), T(61,51) },
     { T(33,43) }, { T(71,50), T(60,50) }, { T(43,54), T(10,20) },
     { T(65,45), T(66,56) } >>

\* A black pawn marches to the first row and is exchanged for every kind of piece,
\* which then moves.
CiernaPremena ==
  << { T(10,20) }, { T(67,47) }, { T(20,30) }, { T(47,37) }, { T(11,21) }, { T(37,27) },
     { T(12,22) }, { T(27,16) }, { T(30,40) }, { T(16,5) }, { T(4,5), T(22,32) },
     { T(5,6), T(5,16), T(5,17) } >>

\* A white pawn that is pinned must not capture; another may.
Vazba ==
  << { T(17,27) }, { T(64,44) }, { T(27,37) }, { T(75,31) }, { T(37,47) }, { T(44,34) },
     { T(47,57) }, { T(34,24) }, { T(13,24), T(15,24) }, { T(31,13) }, { T(4,13) } >>

\* The four in one: at each ply a move of any of them.
Pochody == [n \in 1..12 |-> CiernaPremena[n] \cup Spor[n]
                             \cup (IF n <= 11 THEN Premena[n] \cup Vazba[n] ELSE {})]
=============================================================================
