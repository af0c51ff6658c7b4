----------------------------- MODULE ChessRules -----------------------------
(***************************************************************************)
(* The board of the chess program (pieces.h, pieces.c) and the functions   *)
(* that read and change it (moves.c), as operators on a board value.       *)
(*                                                                         *)
(* A square is a pair <<xPos, yPos>>, the row and the column of policka.   *)
(* A PIECE object is a number: 0..63 are the objects initBoard allocates,  *)
(* row by row, and 64 + q is the empty square vyhod callocs while piece q  *)
(* is being captured (a piece is captured at most once, so the name is     *)
(* fresh).  The colour of an object never changes and is computed from its *)
(* number.  Only the fields some function reads are kept: movedAlready and *)
(* onBoard are read for the 32 coloured pieces alone and are the sets of   *)
(* the pieces that have them.  live is the set of allocated objects.       *)
(*                                                                         *)
(* vyhod, move and checkMat are given as the set of their outcomes, which  *)
(* has one element for every board: an action binds it with \E.            *)
(***************************************************************************)
EXTENDS Integers, Sequences

PESIAK   == "p"
VEZA     == "v"
JAZDEC   == "j"
STRELEC  == "s"
KRALOVNA == "q"
KRAL     == "k"
BLOK     == " "

Typy    == {PESIAK, VEZA, JAZDEC, STRELEC, KRALOVNA, KRAL, BLOK}
Volby   == {KRALOVNA, STRELEC, JAZDEC, VEZA}   \* the choices of precitajTypPesiaka

Riadky  == 0..7
Policka == Riadky \X Riadky

Id        == 0..127
whiteP    == 0..15                 \* whitePieces[k] is k
blackP    == 48..63                \* blackPieces[k] is 48 + k
Figurky   == whiteP \cup blackP
whiteKing == 4
blackKing == 60
NovyBlok(q) == 64 + q

color(p) == IF p \in whiteP THEN 1 ELSE IF p \in blackP THEN 0 ELSE 3

Board == [ policka      : [Policka -> Id],
           pos          : [Id -> Policka],
           type         : [Id -> Typy],
           movedAlready : SUBSET Figurky,
           onBoard      : SUBSET Figurky,
           lostBlack    : Seq(blackP),
           lostWhite    : Seq(whiteP),
           live         : SUBSET Id ]

ZakladnyRad == << VEZA, JAZDEC, STRELEC, KRALOVNA, KRAL, STRELEC, JAZDEC, VEZA >>

initBoard ==
  [ policka      |-> [s \in Policka |-> 8 * s[1] + s[2]],
    pos          |-> [p \in Id |-> IF p < 64 THEN <<p \div 8, p % 8>> ELSE <<0, 0>>],
    type         |-> [p \in Id |-> IF p \notin Figurky THEN BLOK
                                   ELSE IF p \in 8..55 THEN PESIAK
                                   ELSE ZakladnyRad[(p % 8) + 1]],
    movedAlready |-> {},
    onBoard      |-> Figurky,
    lostBlack    |-> << >>,
    lostWhite    |-> << >>,
    live         |-> 0..63 ]

-----------------------------------------------------------------------------
(* Reachability of a square: the conditions of the six move functions.      *)

Abs(n) == IF n < 0 THEN -n ELSE n
Sgn(n) == IF n < 0 THEN -1 ELSE IF n = 0 THEN 0 ELSE 1
dX(from, to) == to[1] - from[1]      \* rows
dY(from, to) == to[2] - from[2]      \* columns

Farba(b, s)  == color(b.policka[s])
JeBlok(b, s) == b.type[b.policka[s]] = BLOK

\* The squares strictly between two squares of a line, all of them empty.
Volna(b, from, to) ==
  LET n == IF Abs(dX(from, to)) > Abs(dY(from, to)) THEN Abs(dX(from, to))
                                                    ELSE Abs(dY(from, to))
  IN  \A k \in 1..(n - 1) :
        Farba(b, <<from[1] + k * Sgn(dX(from, to)),
                   from[2] + k * Sgn(dY(from, to))>>) = 3

\* A piece of colour f stands d columns beside square s.
Vedla(b, s, d, f) == /\ s[2] + d \in Riadky
                     /\ Farba(b, <<s[1], s[2] + d>>) = f

\* A pawn steps one square forward only when no enemy stands diagonally ahead
\* of it ("musis vyhadzovat"), two squares only from where it never moved, and
\* captures diagonally: white to both sides, black towards column 0 only.
skontrolujPohybPesiaka(b, p, from, to, checkOnly) ==
  LET biely  == color(p) = 1
      smer   == IF biely THEN 1 ELSE -1
      nep    == IF biely THEN 0 ELSE 1
      oKolko == smer * dX(from, to)
      stred  == <<to[1] - smer, to[2]>>
  IN  /\ b.type[p] = PESIAK
      /\ \/ /\ oKolko = 1
            /\ \/ /\ ~checkOnly
                  /\ dY(from, to) = 0
                  /\ JeBlok(b, to)
                  /\ ~Vedla(b, to, -1, nep)
                  /\ ~Vedla(b, to, 1, nep)
               \/ /\ dY(from, to) \in (IF biely THEN {-1, 1} ELSE {-1})
                  /\ Farba(b, to) = nep
         \/ /\ oKolko = 2
            /\ p \notin b.movedAlready
            /\ dY(from, to) = 0
            /\ JeBlok(b, to)
            /\ JeBlok(b, stred)
            /\ ~(Vedla(b, stred, -1, nep) /\ Vedla(b, stred, 1, nep))

colorOK(b, p, to, ignoreColor) == ignoreColor \/ color(p) # Farba(b, to)

moveJazdec(b, p, from, to, ignoreColor) ==
  /\ b.type[p] = JAZDEC
  /\ {Abs(dX(from, to)), Abs(dY(from, to))} = {1, 2}
  /\ colorOK(b, p, to, ignoreColor)

\* With ignoreColor a rook or queen also "reaches" the square it stands on.
moveVeza(b, p, from, to, ignoreColor) ==
  /\ b.type[p] \in {VEZA, KRALOVNA}
  /\ dX(from, to) = 0 \/ dY(from, to) = 0
  /\ colorOK(b, p, to, ignoreColor)
  /\ Volna(b, from, to)

moveStrelec(b, p, from, to, ignoreColor) ==
  /\ b.type[p] \in {STRELEC, KRALOVNA}
  /\ colorOK(b, p, to, ignoreColor)
  /\ Abs(dX(from, to)) = Abs(dY(from, to))
  /\ dX(from, to) # 0
  /\ Volna(b, from, to)

\* The diagonal steps do not look at colorOK.
moveKral(b, p, from, to, ignoreColor) ==
  /\ b.type[p] = KRAL
  /\ \/ /\ Abs(dX(from, to)) + Abs(dY(from, to)) = 1
        /\ colorOK(b, p, to, ignoreColor)
     \/ /\ Abs(dX(from, to)) = 1
        /\ Abs(dY(from, to)) = 1

\* The switch of move, on the type of the object that stands on from.
Dosiahne(b, p, from, to, checkOnly, ignoreColor) ==
  LET t == b.type[b.policka[from]]
  IN  \/ t = PESIAK  /\ skontrolujPohybPesiaka(b, p, from, to, checkOnly)
      \/ t = STRELEC /\ moveStrelec(b, p, from, to, ignoreColor)
      \/ t = JAZDEC  /\ moveJazdec(b, p, from, to, ignoreColor)
      \/ t = VEZA    /\ moveVeza(b, p, from, to, ignoreColor)
      \/ /\ t = KRALOVNA
         /\ IF dX(from, to) = 0 \/ dY(from, to) = 0
            THEN moveVeza(b, p, from, to, ignoreColor)
            ELSE moveStrelec(b, p, from, to, ignoreColor)
      \/ t = KRAL    /\ moveKral(b, p, from, to, ignoreColor)

-----------------------------------------------------------------------------
(* Check: the first enemy piece, in the order of the array, that reaches    *)
(* the coordinates the object ciel remembers.  move is called with          *)
(* checkOnly, and movePawn then still sets movedAlready of a pawn that      *)
(* reaches the square.                                                      *)

Utocnici(b, ciel, ignoreColor, kingColor) ==
  LET cierny == (IF ignoreColor THEN kingColor ELSE color(ciel)) = 0
  IN  { q \in (IF cierny THEN whiteP ELSE blackP) \cap b.onBoard :
          Dosiahne(b, q, b.pos[q], b.pos[ciel], TRUE, ignoreColor) }

checkForChess(b, ciel, ignoreColor, kingColor) ==
  LET u    == Utocnici(b, ciel, ignoreColor, kingColor)
      prvy == { q \in u : \A r \in u : q <= r }
  IN  [ sach |-> u # {},
        b    |-> [b EXCEPT !.movedAlready = @ \cup { q \in prvy : b.type[q] = PESIAK }] ]

-----------------------------------------------------------------------------
(* vyhod: make the move, look whether the king is then in check, take the   *)
(* move back if it is.                                                      *)

\* Mutant of Vzatie: the captured piece is still on the board for checkForChess.
VzatieBezVyradenia(b, p, q, from, to) ==
  [b EXCEPT !.policka = [@ EXCEPT ![to] = p, ![from] = NovyBlok(q)],
            !.pos     = [@ EXCEPT ![p] = to, ![NovyBlok(q)] = from],
            !.live    = @ \cup {NovyBlok(q)}]

\* The board with q captured on to, and a new empty square on from.
Vzatie(b, p, q, from, to) ==
  [b EXCEPT !.policka = [@ EXCEPT ![to] = p, ![from] = NovyBlok(q)],
            !.pos     = [@ EXCEPT ![p] = to, ![NovyBlok(q)] = from],
            !.onBoard = @ \ {q},
            !.live    = @ \cup {NovyBlok(q)}]

\* The board with p and the empty square q exchanged.
Presun(b, p, q, from, to) ==
  [b EXCEPT !.policka = [@ EXCEPT ![to] = p, ![from] = q],
            !.pos     = [@ EXCEPT ![p] = to, ![q] = from]]

\* Mutant of Vratenie: after a capture the captured piece is not put back on the
\* board.
VratenieBezFigurky(c, p, q, from, to) ==
  LET v == [c EXCEPT !.policka = [@ EXCEPT ![to] = q, ![from] = p]]
  IN  IF c.type[q] # BLOK
      THEN [v EXCEPT !.pos     = [@ EXCEPT ![p] = from],
                     !.live    = @ \ {NovyBlok(q)}]
      ELSE [v EXCEPT !.pos     = [@ EXCEPT ![p] = from, ![q] = <<to[2], to[1]>>]]

\* The branch of vyhod that takes the move back from the board c: the new empty
\* square is freed, and the coordinates of an old one come back exchanged.
Vratenie(c, p, q, from, to) ==
  LET v == [c EXCEPT !.policka = [@ EXCEPT ![to] = q, ![from] = p]]
  IN  IF c.type[q] # BLOK
      THEN [v EXCEPT !.pos     = [@ EXCEPT ![p] = from],
                     !.onBoard = @ \cup {q},
                     !.live    = @ \ {NovyBlok(q)}]
      ELSE [v EXCEPT !.pos     = [@ EXCEPT ![p] = from, ![q] = <<to[2], to[1]>>]]

\* Mutant of StrazenyKral: the two kings are exchanged in a quiet move.
StrazenyKralSupera(b, p, q) ==
  IF b.type[q] # BLOK THEN (IF color(q) = 0 THEN whiteKing ELSE blackKing)
                      ELSE (IF color(p) = 0 THEN whiteKing ELSE blackKing)

\* The king whose check forbids the move: in a capture the king of the colour
\* opposite to the captured piece, otherwise the mover's own.
StrazenyKral(b, p, q) ==
  IF b.type[q] # BLOK THEN (IF color(q) = 0 THEN whiteKing ELSE blackKing)
                      ELSE (IF color(p) = 0 THEN blackKing ELSE whiteKing)

\* Mutants of Zapis: the lists of lost pieces exchanged; a black piece that was
\* captured forgotten; the moved piece not marked.
ZapisDoCudzieho(b, p, q) ==
  LET m == [b EXCEPT !.movedAlready = @ \cup {p}]
  IN  IF b.type[q] = BLOK  THEN m
      ELSE IF color(q) = 1 THEN [m EXCEPT !.lostBlack = Append(@, q)]
                           ELSE [m EXCEPT !.lostWhite = Append(@, q)]

ZapisBezZoznamu(b, p, q) ==
  LET m == [b EXCEPT !.movedAlready = @ \cup {p}]
  IN  IF b.type[q] = BLOK \/ color(q) = 0 THEN m
                                          ELSE [m EXCEPT !.lostWhite = Append(@, q)]

ZapisBezPohybu(b, p, q) ==
  IF b.type[q] = BLOK  THEN b
  ELSE IF color(q) = 0 THEN [b EXCEPT !.lostBlack = Append(@, q)]
                       ELSE [b EXCEPT !.lostWhite = Append(@, q)]

\* What vyhod writes down of an accepted move.
Zapis(b, p, q) ==
  LET m == [b EXCEPT !.movedAlready = @ \cup {p}]
  IN  IF b.type[q] = BLOK  THEN m
      ELSE IF color(q) = 0 THEN [m EXCEPT !.lostBlack = Append(@, q)]
                           ELSE [m EXCEPT !.lostWhite = Append(@, q)]

vyhod(b, p, from, to) ==
  LET q     == b.policka[to]
      c     == IF b.type[q] # BLOK THEN Vzatie(b, p, q, from, to)
                                   ELSE Presun(b, p, q, from, to)
      kral  == StrazenyKral(b, p, q)
      druhy == IF kral = whiteKing THEN blackKing ELSE whiteKing
  IN  { IF s.sach
        THEN [ok |-> FALSE, b |-> Vratenie(s.b, p, q, from, to)]
        ELSE [ok |-> TRUE,  b |-> checkForChess(Zapis(s.b, p, q), druhy, FALSE, 3).b]
        : s \in {checkForChess(c, kral, FALSE, 3)} }

\* move with checkOnly = false, as precitajTah calls it.
move(b, from, to) ==
  LET p == b.policka[from]
  IN  IF Dosiahne(b, p, from, to, FALSE, FALSE)
      THEN vyhod(b, p, from, to)
      ELSE {[ok |-> FALSE, b |-> b]}

-----------------------------------------------------------------------------
(* Promotion, the end of the game and the release of the board.             *)

\* Mutant of NaKonci: the last rows exchanged.
NaKonciSupera(b, s) == LET p == b.policka[s]
                       IN  /\ b.type[p] = PESIAK
                           /\ b.pos[p][1] = (IF color(p) = 1 THEN 0 ELSE 7)

NaKonci(b, s) == LET p == b.policka[s]
                 IN  /\ b.type[p] = PESIAK
                     /\ b.pos[p][1] = (IF color(p) = 1 THEN 7 ELSE 0)

zmenPesiaka(b, s, volba) ==
  IF NaKonci(b, s) THEN [b EXCEPT !.type = [@ EXCEPT ![b.policka[s]] = volba]] ELSE b

\* One of the eight probes of checkMat: if the square d beside the king is not
\* held by its own colour, is it attacked?  v.stoji and v.volne say whether every
\* such square so far is attacked and whether there was one.
Unik(v, kral, d) ==
  LET s == <<v.b.pos[kral][1] + d[1], v.b.pos[kral][2] + d[2]>>
  IN  IF s \in Policka /\ Farba(v.b, s) # color(kral)
      THEN { [stoji |-> v.stoji /\ r.sach, volne |-> TRUE, b |-> r.b] :
               r \in {checkForChess(v.b, v.b.policka[s], TRUE, color(kral))} }
      ELSE {v}

checkMat(b, kral) ==
  LET V0 == {[stoji |-> TRUE, volne |-> FALSE, b |-> b]}
      V1 == UNION { Unik(v, kral, <<1, 0>>)   : v \in V0 }
      V2 == UNION { Unik(v, kral, <<-1, 0>>)  : v \in V1 }
      V3 == UNION { Unik(v, kral, <<0, 1>>)   : v \in V2 }
      V4 == UNION { Unik(v, kral, <<0, -1>>)  : v \in V3 }
      V5 == UNION { Unik(v, kral, <<1, 1>>)   : v \in V4 }
      V6 == UNION { Unik(v, kral, <<-1, -1>>) : v \in V5 }
      V7 == UNION { Unik(v, kral, <<1, -1>>)  : v \in V6 }
      V8 == UNION { Unik(v, kral, <<-1, 1>>)  : v \in V7 }
      vyrok(v) == { [koniec |-> TRUE, mat |-> r.sach, b |-> r.b] :
                      r \in {checkForChess(v.b, v.b.policka[v.b.pos[kral]], TRUE, color(kral))} }
  IN  UNION { IF v.stoji /\ v.volne THEN vyrok(v)
                                    ELSE {[koniec |-> FALSE, mat |-> FALSE, b |-> v.b]}
              : v \in V8 }

\* The objects cleanUP frees.
Uvolni(b) == { b.policka[s] : s \in Policka }
             \cup { b.lostBlack[i] : i \in DOMAIN b.lostBlack }
             \cup { b.lostWhite[i] : i \in DOMAIN b.lostWhite }

KralHraca(biely) == IF biely THEN whiteKing ELSE blackKing

\* The square s holds a piece of the side on move.
Moja(b, s, biely) == Farba(b, s) = (IF biely THEN 1 ELSE 0)

-----------------------------------------------------------------------------
(* What makes a board sound.  initBoard, vyhod and zmenPesiaka keep the     *)
(* pointers of policka, the lists of lost pieces, the coordinates and the   *)
(* flags in the objects by separate assignments; these say they agree.      *)

\* Every allocated object has exactly one owner: a square of policka or an entry
\* of a list of lost pieces.
JedinyVlastnik(b) ==
  /\ \A s, t \in Policka : b.policka[s] = b.policka[t] => s = t
  /\ \A i, j \in DOMAIN b.lostBlack : b.lostBlack[i] = b.lostBlack[j] => i = j
  /\ \A i, j \in DOMAIN b.lostWhite : b.lostWhite[i] = b.lostWhite[j] => i = j
  /\ \A s \in Policka : /\ \A i \in DOMAIN b.lostBlack : b.lostBlack[i] # b.policka[s]
                        /\ \A i \in DOMAIN b.lostWhite : b.lostWhite[i] # b.policka[s]
  /\ b.live = Uvolni(b)

\* onBoard, the coordinates and policka agree on where the pieces stand, and a
\* square is BLOK exactly when no piece stands on it.
SuradniceSedia(b) ==
  /\ \A s \in Policka : Farba(b, s) # 3 => /\ b.pos[b.policka[s]] = s
                                           /\ b.policka[s] \in b.onBoard
  /\ \A p \in b.onBoard : b.policka[b.pos[p]] = p
  /\ \A s \in Policka : JeBlok(b, s) <=> Farba(b, s) = 3

\* A pawn is never left on the last row, and one that may still go two squares
\* forward stands where initBoard put it.
PesiaciSedia(b) ==
  \A p \in b.onBoard : b.type[p] = PESIAK =>
    /\ b.pos[p][1] \in 1..6
    /\ p \notin b.movedAlready => b.pos[p] = initBoard.pos[p]

\* The same pieces of the same type on the same squares, the same pieces lost and
\* the same objects allocated.
TaIstaPozicia(b, c) ==
  /\ c.policka = b.policka
  /\ c.type = b.type
  /\ c.onBoard = b.onBoard
  /\ c.lostBlack = b.lostBlack
  /\ c.lostWhite = b.lostWhite
  /\ c.live = b.live
  /\ \A p \in Figurky : c.pos[p] = b.pos[p]

\* Can the side on move make any move at all?
MaTah(b, biely) == \E from, to \in Policka : 
                 Moja(b, from, biely) /\ \E r \in move(b, from, to) : r.ok

=============================================================================
