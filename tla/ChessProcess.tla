---------------------------- MODULE ChessProcess ----------------------------
(***************************************************************************)
(* The game loop of one process of the chess program (chess.c): vytvorHru  *)
(* calls precitajTah, which either reads moves from the keyboard until one *)
(* is accepted and sends it, or receives one move of the peer; then        *)
(* checkMat looks at the side now on move.  Once gameOver is set, cleanUP  *)
(* frees the board.                                                        *)
(*                                                                         *)
(* The peer is the environment: it sends a move of its own colour, whether *)
(* or not this replica accepts it, or the connection is lost.  An attempt  *)
(* that fails before move is called (bad coordinates, a piece of the other *)
(* colour) changes nothing and is not an action.                           *)
(***************************************************************************)
EXTENDS ChessRules

CONSTANTS
  cisloHraca,   \* 0: the host, who plays white; 1: the client
  Partia,       \* bound: Partia[n] is the set of moves that may be typed as the n-th
  ChybySiete    \* bound: how many times in a row posliData may fail

\* The retry budget of precitajTah: i starts at 10 and the loop leaves it at 0
\* after ten failures and a success, at -1 after eleven failures.
POKUSY == 10

Tahy == Policka \X Policka

ASSUME CisloHracaAssumption == cisloHraca \in {0, 1}
ASSUME PartiaAssumption     == Partia \in Seq(SUBSET Tahy)
ASSUME ChybyAssumption      == ChybySiete \subseteq 0..(POKUSY + 1)

VARIABLES
  hraciePole,   \* the replica of the board
  tahHraca1,    \* is white on move?
  gameOver,
  verdikt,      \* what vytvorHru printed last: "ziadny", "mat" or "pat"
  uvolnene,     \* has cleanUP run?
  poradie       \* the number of the ply being played

vars == <<hraciePole, tahHraca1, gameOver, verdikt, uvolnene, poradie>>

TypeOK ==
  /\ hraciePole \in Board
  /\ tahHraca1 \in BOOLEAN
  /\ gameOver \in BOOLEAN
  /\ verdikt \in {"ziadny", "mat", "pat"}
  /\ uvolnene \in BOOLEAN
  /\ poradie \in 1..(Len(Partia) + 1)

Init ==
  /\ hraciePole = initBoard
  /\ tahHraca1  = TRUE
  /\ gameOver   = FALSE
  /\ verdikt    = "ziadny"
  /\ uvolnene   = FALSE
  /\ poradie    = 1

NaTahu == (cisloHraca = 1) = ~tahHraca1

\* The rest of the loop body after precitajTah left the board b: checkMat for
\* the side now on move, and whether the loop goes on.
PoKontrole(b, biely, koniec) ==
  \E m \in checkMat(b, KralHraca(biely)) :
    /\ hraciePole' = m.b
    /\ tahHraca1'  = biely
    /\ gameOver'   = (koniec \/ m.koniec)
    /\ verdikt'    = (IF ~m.koniec THEN verdikt ELSE IF m.mat THEN "mat" ELSE "pat")

\* The moves that may be typed, here or at the peer, as the next ply.
Zadane == IF poradie \in DOMAIN Partia THEN Partia[poradie] ELSE {}

\* The player types a move that move accepts, chooses the piece a pawn on the
\* last row becomes, and the move is sent after some failed attempts.
MojTah(from, to) ==
  /\ ~gameOver
  /\ NaTahu
  /\ Moja(hraciePole, from, tahHraca1)
  /\ \E r \in move(hraciePole, from, to), volba \in Volby, chyby \in ChybySiete :
       /\ r.ok
       /\ PoKontrole(zmenPesiaka(r.b, to, volba), ~tahHraca1, chyby = POKUSY)
  /\ poradie' = poradie + 1
  /\ UNCHANGED uvolnene

\* The player types a move that move rejects, and is asked again.
NepovolenyPohyb(from, to) ==
  /\ ~gameOver
  /\ NaTahu
  /\ Moja(hraciePole, from, tahHraca1)
  /\ \E r \in move(hraciePole, from, to) : ~r.ok /\ hraciePole' = r.b
  /\ UNCHANGED <<tahHraca1, gameOver, verdikt, uvolnene, poradie>>

\* A move of the peer arrives and is accepted; the type of the piece that moved
\* is overwritten with the type the peer sent.
PrijmiTah(from, to) ==
  /\ ~gameOver
  /\ ~NaTahu
  /\ Moja(hraciePole, from, tahHraca1)
  /\ \E r \in move(hraciePole, from, to), volba \in Volby :
       /\ r.ok
       /\ PoKontrole(zmenPesiaka(r.b, to, volba), ~tahHraca1, FALSE)
  /\ poradie' = poradie + 1
  /\ UNCHANGED uvolnene

\* A move of the peer arrives and is rejected: the game is over.
PrijmiZlyTah(from, to) ==
  /\ ~gameOver
  /\ ~NaTahu
  /\ Moja(hraciePole, from, tahHraca1)
  /\ \E r \in move(hraciePole, from, to) :
       ~r.ok /\ PoKontrole(r.b, tahHraca1, TRUE)
  /\ UNCHANGED <<uvolnene, poradie>>

\* recv returns nothing: the peer has closed the connection or it is lost.
NezaslalTah ==
  /\ ~gameOver
  /\ ~NaTahu
  /\ PoKontrole(hraciePole, tahHraca1, TRUE)
  /\ UNCHANGED <<uvolnene, poradie>>

cleanUP ==
  /\ gameOver
  /\ ~uvolnene
  /\ uvolnene' = TRUE
  /\ hraciePole' = [hraciePole EXCEPT !.live = @ \ Uvolni(hraciePole)]
  /\ UNCHANGED <<tahHraca1, gameOver, verdikt, poradie>>

Next ==
  \/ \E t \in Zadane : MojTah(t[1], t[2])
  \/ \E t \in Zadane : NepovolenyPohyb(t[1], t[2])
  \/ \E t \in Zadane : PrijmiTah(t[1], t[2])
  \/ \E t \in Zadane : PrijmiZlyTah(t[1], t[2])
  \/ NezaslalTah
  \/ cleanUP

Spec == Init /\ [][Next]_vars

-----------------------------------------------------------------------------
(* Safety. *)

\* No object of the board leaks, is freed twice or is used after it was freed:
\* until cleanUP every allocated object has one owner, and cleanUP, which frees
\* what policka and the lost lists own, leaves nothing allocated (vyhod callocs
\* and frees squares, cleanUP frees by those tables).
PamatVlastnena == IF uvolnene THEN hraciePole.live = {} ELSE JedinyVlastnik(hraciePole)

\* The coordinates and flags that vyhod writes into the pieces agree with the
\* squares whose pointers it exchanges, through accepted and retracted moves.
SuradniceFigurok == SuradniceSedia(hraciePole)

\* zmenPesiaka runs before a pawn's arrival on the last row can be observed, and
\* only a pawn that never moved may go two squares.
PesiaciNaMieste == PesiaciSedia(hraciePole)

\* A move that vyhod retracts puts back what was there: no piece has changed its
\* square, type or coordinates, no piece is lost and no object stays allocated.
\* (movedAlready and the coordinates of empty squares are not put back.)
OdmietnutyTahVrateny ==
  [][ tahHraca1' = tahHraca1 /\ uvolnene' = uvolnene =>
        TaIstaPozicia(hraciePole, hraciePole') ]_vars

\* Was a piece of the side on move captured by this step?
StratilVlastnu ==
  IF tahHraca1 THEN hraciePole'.lostWhite # hraciePole.lostWhite
               ELSE hraciePole'.lostBlack # hraciePole.lostBlack

\* After an accepted move the king of the player who moved is not in check,
\* unless the move captured a piece of that player.
VlastnyKralVBezpeci ==
  [][ tahHraca1' # tahHraca1 /\ ~StratilVlastnu =>
        ~checkForChess(hraciePole', KralHraca(tahHraca1), FALSE, 3).sach ]_vars

\* Claims of the comments that the code does not keep.
\* moves.c: vyhod checks that a move does not put one's own king in check.
NikdyDoSachu ==
  [][ tahHraca1' # tahHraca1 =>
        ~checkForChess(hraciePole', KralHraca(tahHraca1), FALSE, 3).sach ]_vars

\* moves.c: checkMat says whether there is mate or stalemate; either way the
\* side on move has no move left.
KoniecJeSkutocny ==
  verdikt # "ziadny" /\ ~uvolnene => ~MaTah(hraciePole, tahHraca1)

=============================================================================
