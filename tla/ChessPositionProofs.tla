------------------------ MODULE ChessPositionProofs ------------------------
(***************************************************************************)
(* What an accepted move makes of a position, for every board: the board   *)
(* vyhod leaves, the rows of the pawns and the safety of the own king; and *)
(* that two replicas of a position make the same of a move.                *)
(***************************************************************************)
EXTENDS ChessRulesProofs

\* The board after the move, whatever the checks of the kings mark on it.
Potiahnute(b, p, q, from, to) ==
  IF b.type[q] # BLOK THEN Vzatie(b, p, q, from, to) ELSE Presun(b, p, q, from, to)

PoTahu(b, from, to) ==
  LET p == b.policka[from]
      q == b.policka[to]
  IN  Zapis(Potiahnute(b, p, q, from, to), p, q)

\* A board before the lists are extended is a board.
LEMMA PotiahnuteJeBoard ==
  ASSUME NEW b, NEW p, NEW q, NEW from, NEW to, Zdrava(b), Pohyb(b, p, q, from, to)
  PROVE  Potiahnute(b, p, q, from, to) \in Board
BY PohybFakty, VzatieJeBoard, PresunJeBoard DEF Potiahnute

\* The lists are extended on a sound board, marked or not.
LEMMA PotiahnuteZapisane ==
  ASSUME NEW b, NEW p, NEW q, NEW from, NEW to, NEW c,
         Zdrava(b), Pohyb(b, p, q, from, to),
         LenOznacene(Potiahnute(b, p, q, from, to), c)
  PROVE  Zdrava(Zapis(c, p, q))
<1>1. CASE q \in Figurky
  <2>1. Potiahnute(b, p, q, from, to) = Vzatie(b, p, q, from, to)
    BY <1>1, PohybFakty DEF Potiahnute
  <2> QED BY <1>1, <2>1, VzatieZapisane
<1>2. CASE q \notin Figurky
  <2>1. Potiahnute(b, p, q, from, to) = Presun(b, p, q, from, to)
    BY <1>2, PohybFakty DEF Potiahnute
  <2> QED BY <1>2, <2>1, PresunZapisany
<1> QED BY <1>1, <1>2

\* Marks made before the lists are extended stay marks.
LEMMA ZapisOznacene ==
  ASSUME NEW c, NEW d, NEW p, NEW q, c \in Board, LenOznacene(c, d), Zapis(d, p, q) \in Board
  PROVE  LenOznacene(Zapis(c, p, q), Zapis(d, p, q))
BY DEF LenOznacene, Zapis, Board

\* A move that vyhod accepts leaves PoTahu, but for marks, and the king vyhod looks
\* at was not in check before the lists were extended.
LEMMA VyhodPrijal ==
  ASSUME NEW b, NEW p, NEW q, NEW from, NEW to,
         Zdrava(b), Pohyb(b, p, q, from, to),
         NEW r \in vyhod(b, p, from, to), r.ok
  PROVE  /\ Zdrava(PoTahu(b, from, to))
         /\ LenOznacene(PoTahu(b, from, to), r.b)
         /\ ~checkForChess(Potiahnute(b, p, q, from, to), StrazenyKral(b, p, q), FALSE, 3).sach
<1> DEFINE c     == Potiahnute(b, p, q, from, to)
           kral  == StrazenyKral(b, p, q)
           druhy == IF kral = whiteKing THEN blackKing ELSE whiteKing
           s     == checkForChess(c, kral, FALSE, 3)
           z     == Zapis(s.b, p, q)
           w     == checkForChess(z, druhy, FALSE, 3).b
           v     == Vratenie(s.b, p, q, from, to)
<1>1. p = b.policka[from] /\ q = b.policka[to]
  BY DEF Pohyb
<1>2. r = IF s.sach THEN [ok |-> FALSE, b |-> v] ELSE [ok |-> TRUE, b |-> w]
  BY <1>1 DEF vyhod, Potiahnute
<1>3. c \in Board
  BY PotiahnuteJeBoard
<1>4. LenOznacene(c, s.b)
  BY <1>3, CheckForChessOznacuje
<1>5. LenOznacene(c, c)
  BY <1>3 DEF LenOznacene
<1>6. PoTahu(b, from, to) = Zapis(c, p, q)
  BY <1>1 DEF PoTahu
<1> HIDE DEF s, c, druhy, kral
<1>7. Zdrava(z) /\ Zdrava(Zapis(c, p, q))
  BY <1>4, <1>5, PotiahnuteZapisane DEF c
<1>8. LenOznacene(Zapis(c, p, q), z)
  BY <1>3, <1>4, <1>7, ZapisOznacene DEF Zdrava
<1> HIDE DEF z
<1>9. LenOznacene(z, w)
  BY <1>7, CheckForChessOznacuje DEF Zdrava
<1> HIDE DEF w, v
<1>10. ~s.sach /\ r.b = w
  BY <1>2
<1>11. LenOznacene(Zapis(c, p, q), w)
  BY <1>8, <1>9, LenOznaceneTranzitivne
<1> QED BY <1>6, <1>7, <1>10, <1>11 DEF s, c, kral

\* The same of move: the piece on from can reach to, and the board is PoTahu.
LEMMA MovePrijal ==
  ASSUME NEW b, NEW from \in Policka, NEW to \in Policka, Zdrava(b),
         NEW r \in move(b, from, to), r.ok,
         NEW p, NEW q, p = b.policka[from], q = b.policka[to]
  PROVE  /\ Dosiahne(b, p, from, to, FALSE, FALSE)
         /\ Pohyb(b, p, q, from, to)
         /\ Zdrava(PoTahu(b, from, to))
         /\ LenOznacene(PoTahu(b, from, to), r.b)
         /\ ~checkForChess(Potiahnute(b, p, q, from, to), StrazenyKral(b, p, q), FALSE, 3).sach
<1>1. Dosiahne(b, p, from, to, FALSE, FALSE) /\ r \in vyhod(b, p, from, to)
  <2>1. CASE Dosiahne(b, p, from, to, FALSE, FALSE)
    BY <2>1 DEF move
  <2>2. CASE ~Dosiahne(b, p, from, to, FALSE, FALSE)
    <3>1. r = [ok |-> FALSE, b |-> b]
      BY <2>2 DEF move
    <3> QED BY <3>1
  <2> QED BY <2>1, <2>2
<1>2. Pohyb(b, p, q, from, to)
  BY <1>1, DosiahneIne DEF Pohyb
<1> QED BY <1>1, <1>2, VyhodPrijal

\* A move that is rejected takes no mark back.
LEMMA MoveOdmietol ==
  ASSUME NEW b, NEW from \in Policka, NEW to \in Policka, Zdrava(b),
         NEW r \in move(b, from, to), ~r.ok
  PROVE  b.movedAlready \subseteq r.b.movedAlready
<1> DEFINE p     == b.policka[from]
           q     == b.policka[to]
           c     == Potiahnute(b, p, q, from, to)
           kral  == StrazenyKral(b, p, q)
           druhy == IF kral = whiteKing THEN blackKing ELSE whiteKing
           s     == checkForChess(c, kral, FALSE, 3)
           z     == Zapis(s.b, p, q)
           w     == checkForChess(z, druhy, FALSE, 3).b
           v     == Vratenie(s.b, p, q, from, to)
<1>1. CASE Dosiahne(b, p, from, to, FALSE, FALSE)
  <2>1. Pohyb(b, p, q, from, to)
    BY <1>1, DosiahneIne DEF Pohyb
  <2>2. r \in vyhod(b, p, from, to)
    BY <1>1 DEF move
  <2>3. r = IF s.sach THEN [ok |-> FALSE, b |-> v] ELSE [ok |-> TRUE, b |-> w]
    BY <2>2 DEF vyhod, Potiahnute
  <2>4. c \in Board
    BY <2>1, PotiahnuteJeBoard
  <2>5. c.movedAlready = b.movedAlready
    BY DEF Potiahnute, Vzatie, Presun, Zdrava, Board
  <2>6. LenOznacene(c, s.b)
    BY <2>4, CheckForChessOznacuje
  <2> HIDE DEF s, c, w, p, q
  <2>7. v.movedAlready = s.b.movedAlready
    BY <2>6 DEF LenOznacene, Vratenie, Board
  <2> HIDE DEF v
  <2>8. r.b = v
    BY <2>3
  <2> QED BY <2>5, <2>6, <2>7, <2>8 DEF LenOznacene
<1>2. CASE ~Dosiahne(b, p, from, to, FALSE, FALSE)
  <2>1. r = [ok |-> FALSE, b |-> b]
    BY <1>2 DEF move
  <2> QED BY <2>1
<1> QED BY <1>1, <1>2

\* The object left on the square the piece came from.
Zostane(q) == IF q \in Figurky THEN NovyBlok(q) ELSE q

\* The position z after an accepted move, field by field.
NovaPozicia(b, p, q, from, to, z) ==
  /\ z.policka = [[b.policka EXCEPT ![to] = p] EXCEPT ![from] = Zostane(q)]
  /\ z.pos = [[b.pos EXCEPT ![p] = to] EXCEPT ![Zostane(q)] = from]
  /\ z.type = b.type
  /\ z.onBoard = b.onBoard \ {q}
  /\ z.movedAlready = b.movedAlready \cup {p}
  /\ z.lostBlack = IF q \in blackP THEN Append(b.lostBlack, q) ELSE b.lostBlack
  /\ z.lostWhite = IF q \in whiteP THEN Append(b.lostWhite, q) ELSE b.lostWhite

\* So is the one PoTahu makes.
LEMMA PoTahuPolia ==
  ASSUME NEW b, NEW p, NEW q, NEW from, NEW to, NEW z,
         Zdrava(b), Pohyb(b, p, q, from, to), z = PoTahu(b, from, to)
  PROVE  NovaPozicia(b, p, q, from, to, z)
<1> DEFINE c == Potiahnute(b, p, q, from, to)
<1>1. /\ b.type[q] = BLOK <=> q \notin Figurky
      /\ z = Zapis(c, p, q) /\ c \in Board /\ b \in Board
  BY PohybFakty, PotiahnuteJeBoard DEF PoTahu, Pohyb, Zdrava
<1>2. b.onBoard \subseteq Figurky
  BY <1>1 DEF Board
<1>3. /\ c.policka = [[b.policka EXCEPT ![to] = p] EXCEPT ![from] = Zostane(q)]
      /\ c.pos = [[b.pos EXCEPT ![p] = to] EXCEPT ![Zostane(q)] = from]
      /\ c.type = b.type
      /\ c.onBoard = b.onBoard \ {q}
      /\ c.movedAlready = b.movedAlready
      /\ c.lostBlack = b.lostBlack
      /\ c.lostWhite = b.lostWhite
  <2>1. CASE q \in Figurky
    <3>1. c = Vzatie(b, p, q, from, to)
      BY <1>1, <2>1 DEF Potiahnute
    <3> HIDE DEF c
    <3> QED BY <1>1, <2>1, <3>1 DEF Vzatie, Board, Zostane
  <2>2. CASE q \notin Figurky
    <3>1. c = Presun(b, p, q, from, to)
      BY <1>1, <2>2 DEF Potiahnute
    <3>2. b.onBoard = b.onBoard \ {q}
      BY <1>2, <2>2
    <3> HIDE DEF c
    <3> QED BY <1>1, <2>2, <3>1, <3>2 DEF Presun, Board, Zostane
  <2> QED BY <2>1, <2>2
<1> HIDE DEF c
<1>4. /\ color(q) = 0 <=> q \in blackP
      /\ color(q) = 1 <=> q \in whiteP
      /\ q \in Figurky <=> q \in blackP \/ q \in whiteP
      /\ ~(q \in blackP /\ q \in whiteP)
  BY FarbaFigurky DEF Figurky, blackP, whiteP
<1>5. /\ z.policka = c.policka /\ z.pos = c.pos /\ z.type = c.type /\ z.onBoard = c.onBoard
      /\ z.movedAlready = c.movedAlready \cup {p}
      /\ z.lostBlack = IF q \in blackP THEN Append(c.lostBlack, q) ELSE c.lostBlack
      /\ z.lostWhite = IF q \in whiteP THEN Append(c.lostWhite, q) ELSE c.lostWhite
  BY <1>1, <1>3, <1>4 DEF Zapis, Board
<1> QED BY <1>3, <1>5 DEF NovaPozicia

\* Where the pieces are after an accepted move.
LEMMA PoTahuStoja ==
  ASSUME NEW b, NEW p, NEW q, NEW from, NEW to, NEW z,
         Zdrava(b), Pohyb(b, p, q, from, to), z = PoTahu(b, from, to),
         NEW x \in Figurky
  PROVE  z.pos[x] = IF x = p THEN to ELSE b.pos[x]
<1>1. z.pos = [[b.pos EXCEPT ![p] = to] EXCEPT ![Zostane(q)] = from]
  <2>1. NovaPozicia(b, p, q, from, to, z)
    BY PoTahuPolia
  <2> QED BY <2>1 DEF NovaPozicia
<1>2. b.pos \in [Id -> Policka] /\ x \in Id /\ p \in Id
  BY FigurkySuId DEF Zdrava, Board, Pohyb
<1>3. Zostane(q) # x
  BY FigurkySuId DEF Zostane
<1> QED BY <1>1, <1>2, <1>3

-----------------------------------------------------------------------------
(* The rows of the pawns.                                                   *)

\* The rows a pawn p may have come to, the last one of its own colour among them.
RiadkyPo(p) == IF color(p) = 1 THEN 2..7 ELSE 0..5

\* The pawns after an accepted move of p, before zmenPesiaka.
PesiaciPoTahu(b, p) ==
  \A x \in b.onBoard : b.type[x] = PESIAK =>
    /\ x = p  => b.pos[x][1] \in RiadkyPo(p)
    /\ x # p  => b.pos[x][1] \in 1..6
    /\ x \notin b.movedAlready => b.pos[x] = initBoard.pos[x]

\* The white and the black pawns that never moved stand on the rows 1 and 6.
LEMMA PesiakovRiadok ==
  \A p \in Figurky :
    /\ initBoard.pos[p] \in Policka
    /\ initBoard.pos[p][1] \in 1..6 => initBoard.pos[p][1] = IF color(p) = 1 THEN 1 ELSE 6
<1> SUFFICES ASSUME NEW p \in Figurky
             PROVE  /\ initBoard.pos[p] \in Policka
                    /\ initBoard.pos[p][1] \in 1..6 =>
                         initBoard.pos[p][1] = IF color(p) = 1 THEN 1 ELSE 6
  OBVIOUS
<1>1. p \in Id /\ p \in 0..63 /\ (p \in 0..15 \/ p \in 48..63)
  BY DEF Figurky, whiteP, blackP, Id
<1>2. initBoard.pos[p] = <<p \div 8, p % 8>>
  BY <1>1 DEF initBoard
<1>3. p \div 8 \in 0..7 /\ p % 8 \in 0..7
  BY <1>1
<1>4. CASE p \in 0..15
  BY <1>2, <1>3, <1>4 DEF color, whiteP, Policka, Riadky
<1>5. CASE p \in 48..63
  BY <1>2, <1>3, <1>5 DEF color, whiteP, blackP, Policka, Riadky
<1> QED BY <1>1, <1>4, <1>5

\* A pawn moves one row ahead, or two if it was never moved.
LEMMA PesiakIde ==
  ASSUME NEW b, NEW p \in Figurky, NEW from \in Policka, NEW to \in Policka,
         skontrolujPohybPesiaka(b, p, from, to, FALSE),
         from[1] \in 1..6,
         p \notin b.movedAlready => from = initBoard.pos[p]
  PROVE  to[1] \in RiadkyPo(p)
<1>1. from[1] \in 0..7 /\ to[1] \in 0..7
  BY DEF Policka, Riadky
<1>2. p \notin b.movedAlready => from[1] = IF color(p) = 1 THEN 1 ELSE 6
  BY PesiakovRiadok
<1>3. CASE color(p) = 1
  BY <1>1, <1>2, <1>3 DEF skontrolujPohybPesiaka, dX, RiadkyPo
<1>4. CASE color(p) # 1
  BY <1>1, <1>2, <1>4 DEF skontrolujPohybPesiaka, dX, RiadkyPo
<1> QED BY <1>3, <1>4

\* The only kind of piece that moves as a pawn is a pawn.
LEMMA PesiakDosiahne ==
  ASSUME NEW b, NEW p, NEW from, NEW to, p = b.policka[from], b.type[p] = PESIAK,
         Dosiahne(b, p, from, to, FALSE, FALSE)
  PROVE  skontrolujPohybPesiaka(b, p, from, to, FALSE)
BY DEF Dosiahne, PESIAK, STRELEC, JAZDEC, VEZA, KRALOVNA, KRAL

\* An accepted move takes at most its own pawn to a last row.
LEMMA PoTahuPesiaci ==
  ASSUME NEW b, NEW p, NEW q, NEW from, NEW to, NEW z,
         Zdrava(b), PesiaciSedia(b), Pohyb(b, p, q, from, to),
         Dosiahne(b, p, from, to, FALSE, FALSE), z = PoTahu(b, from, to)
  PROVE  PesiaciPoTahu(z, p)
<1>1. b.onBoard \subseteq Figurky /\ p \in Figurky /\ p \in b.onBoard /\ b.pos[p] = from
  <2>1. p \in b.onBoard /\ b.pos[p] = from
    BY PohybFakty
  <2> QED BY <2>1 DEF Zdrava, Board, Pohyb
<1>2. /\ z.type = b.type /\ z.onBoard = b.onBoard \ {q}
      /\ z.movedAlready = b.movedAlready \cup {p}
  <2>1. NovaPozicia(b, p, q, from, to, z)
    BY PoTahuPolia
  <2> QED BY <2>1 DEF NovaPozicia
<1> SUFFICES ASSUME NEW x \in z.onBoard, z.type[x] = PESIAK
             PROVE  /\ x = p  => z.pos[x][1] \in RiadkyPo(p)
                    /\ x # p  => z.pos[x][1] \in 1..6
                    /\ x \notin z.movedAlready => z.pos[x] = initBoard.pos[x]
  BY DEF PesiaciPoTahu
<1>3. x \in b.onBoard /\ x \in Figurky /\ b.type[x] = PESIAK
  BY <1>1, <1>2
<1>4. /\ b.pos[x][1] \in 1..6
      /\ x \notin b.movedAlready => b.pos[x] = initBoard.pos[x]
  BY <1>3 DEF PesiaciSedia
<1>5. z.pos[x] = IF x = p THEN to ELSE b.pos[x]
  BY <1>3, PoTahuStoja
<1>6. CASE x = p
  <2>1. skontrolujPohybPesiaka(b, p, from, to, FALSE)
    BY <1>3, <1>6, PesiakDosiahne DEF Pohyb
  <2>2. to[1] \in RiadkyPo(p)
    BY <1>1, <1>4, <1>6, <2>1, PesiakIde DEF Pohyb
  <2> QED BY <1>2, <1>5, <1>6, <2>2
<1>7. CASE x # p
  BY <1>2, <1>4, <1>5, <1>7
<1> QED BY <1>6, <1>7

\* Marks and the coordinates of empty squares do not move a pawn.
LEMMA PesiaciVrateni ==
  ASSUME NEW b, NEW c, Zdrava(b), PesiaciSedia(b), TaIstaPozicia(b, c),
         b.movedAlready \subseteq c.movedAlready
  PROVE  PesiaciSedia(c)
<1>1. b.onBoard \subseteq Figurky
  BY DEF Zdrava, Board
<1> QED BY <1>1 DEF PesiaciSedia, TaIstaPozicia

\* zmenPesiaka leaves no pawn on a last row.
LEMMA ZmenPesiakaPesiaci ==
  ASSUME NEW b, NEW s \in Policka, NEW volba \in Volby, NEW p \in Figurky, p = b.policka[s],
         Zdrava(b), PesiaciPoTahu(b, p)
  PROVE  PesiaciSedia(zmenPesiaka(b, s, volba))
<1> DEFINE z == zmenPesiaka(b, s, volba)
<1>1. volba # PESIAK
  BY DEF Volby, KRALOVNA, STRELEC, JAZDEC, VEZA, PESIAK
<1>2. /\ z.pos = b.pos /\ z.onBoard = b.onBoard /\ z.movedAlready = b.movedAlready
      /\ z.type = IF NaKonci(b, s) THEN [b.type EXCEPT ![p] = volba] ELSE b.type
  BY DEF zmenPesiaka, Zdrava, Board
<1> HIDE DEF z
<1>3. /\ b.onBoard \subseteq Figurky /\ Figurky \subseteq Id
      /\ b.type \in [Id -> Typy]
  BY FigurkySuId DEF Zdrava, Board
<1> SUFFICES ASSUME NEW x \in b.onBoard, z.type[x] = PESIAK
             PROVE  /\ b.pos[x][1] \in 1..6
                    /\ x \notin b.movedAlready => b.pos[x] = initBoard.pos[x]
  BY <1>2 DEF PesiaciSedia, z
<1>4. x \in Id /\ x \in Figurky
  BY <1>3
<1>5. b.type[x] = PESIAK /\ (x = p => ~NaKonci(b, s))
  BY <1>1, <1>2, <1>3, <1>4
<1>6. /\ x = p  => b.pos[x][1] \in RiadkyPo(p)
      /\ x # p  => b.pos[x][1] \in 1..6
      /\ x \notin b.movedAlready => b.pos[x] = initBoard.pos[x]
  BY <1>5 DEF PesiaciPoTahu
<1>7. CASE x = p
  <2>1. b.pos[p][1] # (IF color(p) = 1 THEN 7 ELSE 0)
    BY <1>5, <1>7 DEF NaKonci
  <2>2. b.pos[p][1] \in 1..6
    BY <1>6, <1>7, <2>1 DEF RiadkyPo
  <2> QED BY <1>6, <1>7, <2>2
<1>8. CASE x # p
  BY <1>6, <1>8
<1> QED BY <1>7, <1>8

\* setUpGame puts the pawns where PesiaciSedia wants them.
LEMMA InitBoardPesiaci == PesiaciSedia(initBoard)
<1> SUFFICES ASSUME NEW p \in Figurky, initBoard.type[p] = PESIAK
             PROVE  initBoard.pos[p][1] \in 1..6
  BY DEF PesiaciSedia, initBoard
<1>1. p \in Id /\ p \in 0..63
  BY DEF Figurky, whiteP, blackP, Id
<1>2. initBoard.pos[p][1] = p \div 8
  BY <1>1 DEF initBoard
<1>3. p \in 8..55
  <2>1. initBoard.type[p] = IF p \in 8..55 THEN PESIAK ELSE ZakladnyRad[(p % 8) + 1]
    BY <1>1 DEF initBoard
  <2>2. (p % 8) + 1 \in 1..8
    BY <1>1
  <2>3. \A i \in 1..8 : ZakladnyRad[i] # PESIAK
    <3> SUFFICES ASSUME NEW i \in 1..8 PROVE ZakladnyRad[i] # PESIAK
      OBVIOUS
    <3>1. i = 1 \/ i = 2 \/ i = 3 \/ i = 4 \/ i = 5 \/ i = 6 \/ i = 7 \/ i = 8
      OBVIOUS
    <3>2. CASE i \in {1, 2, 3, 4}
      BY <3>2 DEF ZakladnyRad, VEZA, JAZDEC, STRELEC, KRALOVNA, KRAL, PESIAK
    <3>3. CASE i \in {5, 6, 7, 8}
      BY <3>3 DEF ZakladnyRad, VEZA, JAZDEC, STRELEC, KRALOVNA, KRAL, PESIAK
    <3> QED BY <3>1, <3>2, <3>3
  <2> QED BY <2>1, <2>2, <2>3
<1> QED BY <1>2, <1>3

\* move and zmenPesiaka keep the pawns where they may be.
LEMMA MovePesiaci ==
  ASSUME NEW b, NEW from \in Policka, NEW to \in Policka, Zdrava(b), PesiaciSedia(b),
         NEW r \in move(b, from, to)
  PROVE  /\ r.ok => \A volba \in Volby : PesiaciSedia(zmenPesiaka(r.b, to, volba))
         /\ ~r.ok => PesiaciSedia(r.b)
<1> DEFINE p == b.policka[from]
           q == b.policka[to]
           z == PoTahu(b, from, to)
<1>1. CASE r.ok
  <2>1. /\ Dosiahne(b, p, from, to, FALSE, FALSE) /\ Pohyb(b, p, q, from, to)
        /\ LenOznacene(z, r.b)
    BY <1>1, MovePrijal
  <2>2. Zdrava(r.b)
    BY MoveZachova
  <2>3. NovaPozicia(b, p, q, from, to, z)
    BY <2>1, PoTahuPolia
  <2>4. PesiaciPoTahu(z, p)
    BY <2>1, PoTahuPesiaci
  <2> HIDE DEF z, p, q
  <2>5. PesiaciPoTahu(r.b, p)
    BY <2>1, <2>4 DEF LenOznacene, PesiaciPoTahu
  <2>6. r.b.policka[to] = p /\ p \in Figurky
    BY <2>1, <2>3 DEF NovaPozicia, LenOznacene, Pohyb, Zdrava, Board
  <2> QED BY <1>1, <2>2, <2>5, <2>6, ZmenPesiakaPesiaci
<1>2. CASE ~r.ok
  <2>1. Vratena(b, r.b) /\ b.movedAlready \subseteq r.b.movedAlready
    BY <1>2, MoveZachova, MoveOdmietol
  <2>2. PesiaciSedia(r.b)
    BY <2>1, PesiaciVrateni DEF Vratena
  <2> QED BY <1>2, <2>2
<1> QED BY <1>1, <1>2

\* So does checkMat.
LEMMA CheckMatPesiaci ==
  ASSUME NEW b, NEW kral, NEW m \in checkMat(b, kral), Zdrava(b), PesiaciSedia(b)
  PROVE  PesiaciSedia(m.b)
<1>1. LenOznacene(b, m.b)
  BY CheckMatOznacuje DEF Zdrava
<1> QED BY <1>1, PesiaciVrateni DEF LenOznacene, TaIstaPozicia

-----------------------------------------------------------------------------
(* The own king.  vyhod looks for check before it writes the move down; the *)
(* marks, the promotion and checkMat that follow give no enemy a new reach. *)

\* d is the board c after further marks and another type of the piece p.
Doplnena(c, d, p) ==
  /\ d.policka = c.policka
  /\ d.onBoard = c.onBoard
  /\ \A x \in Figurky : d.pos[x] = c.pos[x]
  /\ \A x \in Id \ {p} : d.type[x] = c.type[x]
  /\ d.type[p] # BLOK /\ c.type[p] # BLOK
  /\ c.movedAlready \subseteq d.movedAlready

\* What a piece other than p reaches on d, it reaches on c.
LEMMA DosiahneNepribudlo ==
  ASSUME NEW c \in Board, NEW d, NEW p, Doplnena(c, d, p),
         NEW x \in Figurky, x # p, NEW from \in Policka, NEW to \in Policka,
         c.policka[from] = x, Dosiahne(d, x, from, to, TRUE, FALSE)
  PROVE  Dosiahne(c, x, from, to, TRUE, FALSE)
<1>1. /\ d.policka = c.policka /\ d.type[x] = c.type[x] /\ d.policka[from] = x
      /\ x \notin d.movedAlready => x \notin c.movedAlready
  BY FigurkySuId DEF Doplnena
<1>2. \A s : Farba(d, s) = Farba(c, s)
  BY <1>1 DEF Farba
<1>3. \A s \in Policka : JeBlok(d, s) <=> JeBlok(c, s)
  <2> SUFFICES ASSUME NEW s \in Policka PROVE JeBlok(d, s) <=> JeBlok(c, s)
    OBVIOUS
  <2>1. c.policka[s] \in Id
    BY DEF Board
  <2> QED BY <1>1, <2>1 DEF JeBlok, Doplnena
<1>4. \A s, k, f : Vedla(d, s, k, f) <=> Vedla(c, s, k, f)
  BY <1>2 DEF Vedla
<1>5. Volna(d, from, to) <=> Volna(c, from, to)
  BY <1>2 DEF Volna
<1>6. colorOK(d, x, to, FALSE) <=> colorOK(c, x, to, FALSE)
  BY <1>2 DEF colorOK
<1>7. skontrolujPohybPesiaka(d, x, from, to, TRUE) => skontrolujPohybPesiaka(c, x, from, to, TRUE)
  <2> DEFINE smer  == IF color(x) = 1 THEN 1 ELSE -1
             stred == <<to[1] - smer, to[2]>>
  <2>1. smer * dX(from, to) = 2 => stred \in Policka
    BY DEF dX, Policka, Riadky
  <2>2. smer * dX(from, to) = 2 => (JeBlok(d, stred) <=> JeBlok(c, stred))
    BY <1>3, <2>1
  <2>3. JeBlok(d, to) <=> JeBlok(c, to)
    BY <1>3
  <2> QED BY <1>1, <1>2, <1>4, <2>2, <2>3 DEF skontrolujPohybPesiaka
<1>8. moveStrelec(d, x, from, to, FALSE) <=> moveStrelec(c, x, from, to, FALSE)
  BY <1>1, <1>5, <1>6 DEF moveStrelec
<1>9. moveVeza(d, x, from, to, FALSE) <=> moveVeza(c, x, from, to, FALSE)
  BY <1>1, <1>5, <1>6 DEF moveVeza
<1>10. moveJazdec(d, x, from, to, FALSE) <=> moveJazdec(c, x, from, to, FALSE)
  BY <1>1, <1>6 DEF moveJazdec
<1>11. moveKral(d, x, from, to, FALSE) <=> moveKral(c, x, from, to, FALSE)
  BY <1>1, <1>6 DEF moveKral
<1> QED BY <1>1, <1>7, <1>8, <1>9, <1>10, <1>11 DEF Dosiahne

\* An enemy that attacks the king on d attacks it on c.
LEMMA SachNepribudol ==
  ASSUME NEW c \in Board, NEW d, NEW p, Doplnena(c, d, p),
         NEW kral \in Figurky, color(p) = color(kral),
         \A x \in c.onBoard : c.policka[c.pos[x]] = x,
         checkForChess(d, kral, FALSE, 3).sach
  PROVE  checkForChess(c, kral, FALSE, 3).sach
<1>1. Utocnici(d, kral, FALSE, 3) # {}
  BY DEF checkForChess
<1>2. PICK x \in (IF color(kral) = 0 THEN whiteP ELSE blackP) \cap d.onBoard :
        Dosiahne(d, x, d.pos[x], d.pos[kral], TRUE, FALSE)
  BY <1>1 DEF Utocnici
<1>3. /\ x \in c.onBoard /\ x \in Figurky /\ x # p
      /\ d.pos[x] = c.pos[x] /\ d.pos[kral] = c.pos[kral]
      /\ c.pos[x] \in Policka /\ c.pos[kral] \in Policka
  <2>1. x \in c.onBoard /\ x \in Figurky
    BY <1>2 DEF Doplnena, Figurky
  <2>2. x # p
    BY <1>2 DEF color, whiteP, blackP, Figurky
  <2> QED BY <2>1, <2>2, FigurkySuId DEF Doplnena, Board
<1>4. Dosiahne(c, x, c.pos[x], c.pos[kral], TRUE, FALSE)
  BY <1>2, <1>3, DosiahneNepribudlo
<1>5. x \in (IF color(kral) = 0 THEN whiteP ELSE blackP) \cap c.onBoard
  BY <1>2, <1>3
<1>6. Utocnici(c, kral, FALSE, 3) # {}
  BY <1>4, <1>5 DEF Utocnici
<1> QED BY <1>6 DEF checkForChess

\* Writing the move down changes lists and marks only.
LEMMA ZapisPolia ==
  ASSUME NEW c \in Board, NEW p, NEW q, NEW z, z = Zapis(c, p, q)
  PROVE  /\ z.policka = c.policka /\ z.pos = c.pos /\ z.type = c.type
         /\ z.onBoard = c.onBoard /\ c.movedAlready \subseteq z.movedAlready
BY DEF Zapis, Board

\* zmenPesiaka changes the type of the piece on s at most.
LEMMA ZmenPesiakaPolia ==
  ASSUME NEW b \in Board, NEW s, NEW volba, NEW z, z = zmenPesiaka(b, s, volba)
  PROVE  /\ z.policka = b.policka /\ z.pos = b.pos /\ z.onBoard = b.onBoard
         /\ z.movedAlready = b.movedAlready
         /\ z.lostBlack = b.lostBlack /\ z.lostWhite = b.lostWhite
         /\ z.type = IF NaKonci(b, s) THEN [b.type EXCEPT ![b.policka[s]] = volba] ELSE b.type
BY DEF zmenPesiaka, Board

\* A list that was not extended.
LEMMA PredlzenyZoznam ==
  ASSUME NEW S, NEW lost \in Seq(S), NEW q \in S
  PROVE  Append(lost, q) # lost
<1>1. Len(Append(lost, q)) = Len(lost) + 1 /\ Len(lost) \in Nat
  OBVIOUS
<1> QED BY <1>1

\* The king vyhod looks at is the mover's own, unless an own piece is captured.
LEMMA StrazenyJeVlastny ==
  ASSUME NEW b, NEW p, NEW q, NEW from, NEW to, NEW z, NEW biely \in BOOLEAN,
         Zdrava(b), Pohyb(b, p, q, from, to), NovaPozicia(b, p, q, from, to, z),
         Moja(b, from, biely),
         biely  => z.lostWhite = b.lostWhite,
         ~biely => z.lostBlack = b.lostBlack
  PROVE  /\ StrazenyKral(b, p, q) = KralHraca(biely)
         /\ KralHraca(biely) \in Figurky
         /\ color(p) = color(KralHraca(biely))
<1>1. color(p) = IF biely THEN 1 ELSE 0
  BY DEF Pohyb, Moja, Farba
<1>2. /\ biely  => q \notin whiteP
      /\ ~biely => q \notin blackP
  <2>1. b.lostWhite \in Seq(whiteP) /\ b.lostBlack \in Seq(blackP)
    BY DEF Zdrava, Board
  <2>2. q \in whiteP => Append(b.lostWhite, q) # b.lostWhite
    BY <2>1, PredlzenyZoznam
  <2>3. q \in blackP => Append(b.lostBlack, q) # b.lostBlack
    BY <2>1, PredlzenyZoznam
  <2> QED BY <2>2, <2>3 DEF NovaPozicia
<1>3. b.type[q] # BLOK <=> q \in Figurky
  BY PohybFakty
<1>4. /\ KralHraca(biely) = IF biely THEN whiteKing ELSE blackKing
      /\ KralHraca(biely) \in Figurky
      /\ color(KralHraca(biely)) = IF biely THEN 1 ELSE 0
  BY DEF KralHraca, whiteKing, blackKing, color, Figurky, whiteP, blackP
<1>5. color(q) = 0 <=> q \in blackP
  BY FarbaFigurky
<1>6. StrazenyKral(b, p, q) = IF biely THEN whiteKing ELSE blackKing
  <2>1. CASE q \in Figurky
    BY <1>2, <1>3, <1>5, <2>1 DEF StrazenyKral, Figurky
  <2>2. CASE q \notin Figurky
    BY <1>1, <1>3, <2>2 DEF StrazenyKral
  <2> QED BY <2>1, <2>2
<1> QED BY <1>1, <1>4, <1>6

\* After an accepted move, the promotion and the marks of checkMat, the king of the
\* player who moved is not in check, unless the player captured an own piece.
LEMMA MoveVlastnyKral ==
  ASSUME NEW b, NEW from \in Policka, NEW to \in Policka, NEW biely \in BOOLEAN,
         Zdrava(b), Moja(b, from, biely),
         NEW r \in move(b, from, to), r.ok, NEW volba \in Volby,
         NEW d, LenOznacene(zmenPesiaka(r.b, to, volba), d),
         biely  => d.lostWhite = b.lostWhite,
         ~biely => d.lostBlack = b.lostBlack
  PROVE  ~checkForChess(d, KralHraca(biely), FALSE, 3).sach
<1> DEFINE p == b.policka[from]
           q == b.policka[to]
           z == PoTahu(b, from, to)
           c == Potiahnute(b, p, q, from, to)
           w == zmenPesiaka(r.b, to, volba)
           kral == KralHraca(biely)
<1>1. /\ Pohyb(b, p, q, from, to)
      /\ Zdrava(z) /\ LenOznacene(z, r.b)
      /\ ~checkForChess(c, StrazenyKral(b, p, q), FALSE, 3).sach
  BY MovePrijal
<1>2. NovaPozicia(b, p, q, from, to, z)
  BY <1>1, PoTahuPolia
<1>3. c \in Board
  BY <1>1, PotiahnuteJeBoard
<1>4. /\ z.policka = c.policka /\ z.pos = c.pos /\ z.type = c.type
      /\ z.onBoard = c.onBoard /\ c.movedAlready \subseteq z.movedAlready
  <2>1. z = Zapis(c, p, q)
    BY DEF PoTahu
  <2> HIDE DEF z, c, p, q
  <2> QED BY <1>3, <2>1, ZapisPolia
<1>5. Zdrava(r.b) /\ Zdrava(w)
  BY MoveZachova, ZmenPesiakaZachova
<1>6. LenOznacene(w, d)
  OBVIOUS
<1>7. /\ w.policka = r.b.policka /\ w.pos = r.b.pos /\ w.onBoard = r.b.onBoard
      /\ w.movedAlready = r.b.movedAlready
      /\ w.lostBlack = r.b.lostBlack /\ w.lostWhite = r.b.lostWhite
      /\ w.type = IF NaKonci(r.b, to) THEN [r.b.type EXCEPT ![r.b.policka[to]] = volba]
                                      ELSE r.b.type
  <2>1. r.b \in Board
    BY <1>5 DEF Zdrava
  <2>2. w = zmenPesiaka(r.b, to, volba)
    OBVIOUS
  <2> HIDE DEF w
  <2> QED BY <2>1, <2>2, ZmenPesiakaPolia
<1> HIDE DEF w, c, z, p, q, kral
<1>8. p \in Figurky /\ p \in Id
  BY <1>1, FigurkySuId DEF Pohyb
<1>9. r.b.policka[to] = p
  <2>1. z.policka[to] = p
    BY <1>1, <1>2 DEF NovaPozicia, Pohyb, Zdrava, Board
  <2> QED BY <1>1, <2>1 DEF LenOznacene
<1>10. /\ biely  => z.lostWhite = b.lostWhite
       /\ ~biely => z.lostBlack = b.lostBlack
  BY <1>1, <1>6, <1>7 DEF LenOznacene
<1>11. /\ StrazenyKral(b, p, q) = kral /\ kral \in Figurky /\ color(p) = color(kral)
  BY <1>1, <1>2, <1>10, StrazenyJeVlastny DEF kral
<1>12. Doplnena(c, d, p)
  <2>1. d.policka = c.policka /\ d.onBoard = c.onBoard /\ d.pos = c.pos
        /\ c.movedAlready \subseteq d.movedAlready /\ d.type = w.type
    BY <1>1, <1>4, <1>6, <1>7 DEF LenOznacene
  <2>2. \A x \in Id \ {p} : w.type[x] = c.type[x]
    <3>1. r.b.type = c.type /\ r.b.type \in [Id -> Typy]
      BY <1>1, <1>4, <1>5 DEF LenOznacene, Zdrava, Board
    <3>2. w.type = [r.b.type EXCEPT ![p] = volba] \/ w.type = r.b.type
      BY <1>7, <1>9
    <3> QED BY <3>1, <3>2
  <2>3. w.type[p] # BLOK /\ c.type[p] # BLOK
    BY <1>1, <1>4, <1>5, <1>8 DEF Zdrava, BlokJeBezFigury
  <2> QED BY <2>1, <2>2, <2>3 DEF Doplnena
<1>13. \A x \in c.onBoard : c.policka[c.pos[x]] = x
  BY <1>1, <1>4 DEF Zdrava, KdeStoja
<1>14. ~checkForChess(c, kral, FALSE, 3).sach
  BY <1>1, <1>11
<1>15. ~checkForChess(d, kral, FALSE, 3).sach
  BY <1>3, <1>11, <1>12, <1>13, <1>14, SachNepribudol
<1> QED BY <1>15 DEF kral

-----------------------------------------------------------------------------
(* Two replicas of a position.  The marks, the coordinates of empty squares *)
(* and the list of allocated objects may differ between them.               *)

Zhodne(b, c) ==
  /\ c.policka = b.policka
  /\ c.type = b.type
  /\ c.onBoard = b.onBoard
  /\ c.lostBlack = b.lostBlack
  /\ c.lostWhite = b.lostWhite
  /\ \A p \in Figurky : c.pos[p] = b.pos[p]

\* What the receiver of a move makes of it: the type of the piece comes with it.
SpravaZmeni(z, to, typ) == [z EXCEPT !.type = [@ EXCEPT ![z.policka[to]] = typ]]

PoSprave(b, from, to, typ) == SpravaZmeni(PoTahu(b, from, to), to, typ)

\* The type a message may carry: a choice for a pawn on the last row, and the type
\* the piece has for any other.
TypVSprave(z, to, typ) == IF NaKonci(z, to) THEN typ \in Volby
                                            ELSE typ = z.type[z.policka[to]]

LEMMA ZhodneSymetricke == \A b, c : Zhodne(b, c) => Zhodne(c, b)
BY DEF Zhodne

LEMMA ZhodneTranzitivne == \A a, b, c : Zhodne(a, b) /\ Zhodne(b, c) => Zhodne(a, c)
BY DEF Zhodne

LEMMA OznacenaJeZhodna == \A b, c : LenOznacene(b, c) => Zhodne(b, c)
BY DEF Zhodne, LenOznacene

LEMMA VratenaJeZhodna == \A b, c : TaIstaPozicia(b, c) => Zhodne(b, c)
BY DEF Zhodne, TaIstaPozicia

\* After an accepted move the piece stands on the square it went to.
LEMMA PoTahuNaCieli ==
  ASSUME NEW b, NEW p, NEW q, NEW from, NEW to, Zdrava(b), Pohyb(b, p, q, from, to),
         NEW z, z = PoTahu(b, from, to)
  PROVE  z.policka[to] = p /\ z.pos[p] = to /\ z.type[p] = b.type[p] /\ z.type[p] # BLOK
<1>1. NovaPozicia(b, p, q, from, to, z)
  BY PoTahuPolia
<1>2. z.pos[p] = to
  BY PoTahuStoja DEF Pohyb
<1>3. z.policka[to] = p
  BY <1>1 DEF NovaPozicia, Pohyb, Zdrava, Board
<1>4. b.type[p] # BLOK
  BY FigurkySuId DEF Zdrava, BlokJeBezFigury, Pohyb
<1> QED BY <1>1, <1>2, <1>3, <1>4 DEF NovaPozicia

\* The same move makes the same position of two replicas.
LEMMA PoTahuZhodne ==
  ASSUME NEW b, NEW c, NEW p, NEW q, NEW from, NEW to,
         Zdrava(b), Zdrava(c), Zhodne(b, c), Pohyb(b, p, q, from, to),
         NEW y, NEW z, y = PoTahu(b, from, to), z = PoTahu(c, from, to)
  PROVE  Pohyb(c, p, q, from, to) /\ Zhodne(y, z)
<1>1. Pohyb(c, p, q, from, to)
  BY DEF Pohyb, Zhodne
<1>2. NovaPozicia(b, p, q, from, to, y)
  BY PoTahuPolia
<1>3. NovaPozicia(c, p, q, from, to, z)
  BY <1>1, PoTahuPolia
<1>4. \A x \in Figurky : z.pos[x] = y.pos[x]
  <2> SUFFICES ASSUME NEW x \in Figurky PROVE z.pos[x] = y.pos[x]
    OBVIOUS
  <2>1. y.pos[x] = IF x = p THEN to ELSE b.pos[x]
    BY PoTahuStoja
  <2>2. z.pos[x] = IF x = p THEN to ELSE c.pos[x]
    BY <1>1, PoTahuStoja
  <2> QED BY <2>1, <2>2 DEF Zhodne
<1>5. /\ z.policka = y.policka /\ z.type = y.type /\ z.onBoard = y.onBoard
      /\ z.lostBlack = y.lostBlack /\ z.lostWhite = y.lostWhite
  BY <1>2, <1>3 DEF NovaPozicia, Zhodne
<1> QED BY <1>1, <1>4, <1>5 DEF Zhodne

\* The same pawn is on the last row of two replicas.
LEMMA NaKonciZhodne ==
  ASSUME NEW b, NEW c, NEW s, Zhodne(b, c), b.policka[s] \in Figurky
  PROVE  NaKonci(b, s) <=> NaKonci(c, s)
BY DEF NaKonci, Zhodne

\* Promoting a piece of two replicas to the same type.
LEMMA SpravaZmeniZhodne ==
  ASSUME NEW b \in Board, NEW c \in Board, NEW to, NEW typ, Zhodne(b, c)
  PROVE  Zhodne(SpravaZmeni(b, to, typ), SpravaZmeni(c, to, typ))
<1> DEFINE y == SpravaZmeni(b, to, typ)
           z == SpravaZmeni(c, to, typ)
<1>1. /\ y.policka = b.policka /\ y.pos = b.pos /\ y.onBoard = b.onBoard
      /\ y.lostBlack = b.lostBlack /\ y.lostWhite = b.lostWhite
      /\ y.type = [b.type EXCEPT ![b.policka[to]] = typ]
  BY DEF SpravaZmeni, Board
<1>2. /\ z.policka = c.policka /\ z.pos = c.pos /\ z.onBoard = c.onBoard
      /\ z.lostBlack = c.lostBlack /\ z.lostWhite = c.lostWhite
      /\ z.type = [c.type EXCEPT ![c.policka[to]] = typ]
  BY DEF SpravaZmeni, Board
<1> HIDE DEF y, z
<1> QED BY <1>1, <1>2 DEF Zhodne, y, z

\* Writing the type that is already there changes nothing.
LEMMA RovnakyTyp ==
  ASSUME NEW b \in Board, NEW to \in Policka
  PROVE  SpravaZmeni(b, to, b.type[b.policka[to]]) = b
<1>1. b.type \in [Id -> Typy] /\ b.policka[to] \in Id
  BY DEF Board
<1>2. [b.type EXCEPT ![b.policka[to]] = b.type[b.policka[to]]] = b.type
  BY <1>1
<1> QED BY <1>2 DEF SpravaZmeni, Board

\* For a type a message may carry, that is what zmenPesiaka does.
LEMMA SpravaJeVolba ==
  ASSUME NEW b \in Board, NEW to \in Policka, NEW typ, TypVSprave(b, to, typ)
  PROVE  \E volba \in Volby : SpravaZmeni(b, to, typ) = zmenPesiaka(b, to, volba)
<1>1. CASE NaKonci(b, to)
  BY <1>1 DEF TypVSprave, SpravaZmeni, zmenPesiaka
<1>2. CASE ~NaKonci(b, to)
  BY <1>2, RovnakyTyp DEF TypVSprave, zmenPesiaka, Volby
<1> QED BY <1>1, <1>2

\* zmenPesiaka leaves what a receiver makes of the message with the type it chose.
LEMMA ZmenenyTyp ==
  ASSUME NEW b \in Board, NEW to \in Policka, NEW volba \in Volby, NEW typ,
         NEW z, z = zmenPesiaka(b, to, volba), typ = z.type[z.policka[to]]
  PROVE  z = SpravaZmeni(b, to, typ) /\ TypVSprave(b, to, typ)
<1>1. b.type \in [Id -> Typy] /\ b.policka[to] \in Id
  BY DEF Board
<1>2. CASE NaKonci(b, to)
  <2>1. z.policka = b.policka /\ z.type = [b.type EXCEPT ![b.policka[to]] = volba]
    BY <1>2, ZmenPesiakaPolia
  <2>2. typ = volba
    BY <1>1, <2>1
  <2>3. z = SpravaZmeni(b, to, volba)
    BY <1>2 DEF zmenPesiaka, SpravaZmeni
  <2> QED BY <1>2, <2>2, <2>3 DEF TypVSprave
<1>3. CASE ~NaKonci(b, to)
  <2>1. z = b
    BY <1>3 DEF zmenPesiaka
  <2>2. typ = b.type[b.policka[to]]
    BY <2>1
  <2> QED BY <1>3, <2>1, <2>2, RovnakyTyp DEF TypVSprave
<1> QED BY <1>2, <1>3

\* The sender: after an accepted move from the same position, the receiver's replica
\* is a PoSprave away from the sender's, and the message says what it needs.
LEMMA MojTahSprava ==
  ASSUME NEW b, NEW c, NEW from \in Policka, NEW to \in Policka,
         Zdrava(b), Zdrava(c), Zhodne(b, c),
         NEW r \in move(b, from, to), r.ok, NEW volba \in Volby,
         NEW z, z = zmenPesiaka(r.b, to, volba),
         NEW typ, typ = z.type[z.policka[to]]
  PROVE  /\ from # to /\ typ \in Typy
         /\ TypVSprave(PoTahu(c, from, to), to, typ)
         /\ Zhodne(PoSprave(c, from, to, typ), z)
<1> DEFINE p == b.policka[from]
           q == b.policka[to]
           y == PoTahu(b, from, to)
           x == PoTahu(c, from, to)
<1>1. Pohyb(b, p, q, from, to) /\ Zdrava(y) /\ LenOznacene(y, r.b)
  BY MovePrijal
<1>2. Zdrava(r.b) /\ Zdrava(z)
  BY MoveZachova, ZmenPesiakaZachova
<1>3. Pohyb(c, p, q, from, to) /\ Zhodne(y, x)
  BY <1>1, PoTahuZhodne
<1>4. x.policka[to] = p
  BY <1>3, PoTahuNaCieli
<1>5. x \in Board
  <2>1. LenOznacene(Potiahnute(c, p, q, from, to), Potiahnute(c, p, q, from, to))
    BY <1>3, PotiahnuteJeBoard DEF LenOznacene
  <2>2. Zdrava(Zapis(Potiahnute(c, p, q, from, to), p, q))
    BY <1>3, <2>1, PotiahnuteZapisane
  <2>3. x = Zapis(Potiahnute(c, p, q, from, to), p, q)
    BY <1>3 DEF PoTahu, Pohyb
  <2> HIDE DEF x
  <2> QED BY <2>2, <2>3 DEF Zdrava
<1> HIDE DEF p, q, x, y
<1>6. Zhodne(r.b, x)
  BY <1>1, <1>3, OznacenaJeZhodna, ZhodneSymetricke, ZhodneTranzitivne
<1>7. z = SpravaZmeni(r.b, to, typ) /\ TypVSprave(r.b, to, typ)
  BY <1>2, ZmenenyTyp DEF Zdrava
<1>8. Zhodne(SpravaZmeni(x, to, typ), z)
  <2>1. r.b \in Board /\ z \in Board /\ Zhodne(x, r.b)
    BY <1>2, <1>6, ZhodneSymetricke DEF Zdrava
  <2> QED BY <1>5, <1>7, <2>1, SpravaZmeniZhodne
<1>9. TypVSprave(x, to, typ)
  <2>1. x.policka = r.b.policka /\ x.type = r.b.type
    BY <1>6 DEF Zhodne
  <2>2. r.b.policka[to] \in Figurky
    BY <1>1, <1>4, <2>1 DEF Pohyb
  <2>3. NaKonci(r.b, to) <=> NaKonci(x, to)
    BY <1>6, <2>2, NaKonciZhodne
  <2> QED BY <1>7, <2>1, <2>3 DEF TypVSprave
<1>10. typ \in Typy
  BY <1>2 DEF Zdrava, Board
<1>11. from # to
  BY <1>1 DEF Pohyb
<1> QED BY <1>8, <1>9, <1>10, <1>11 DEF PoSprave, x

\* The receiver: if move accepts what arrived, overwriting the type is a choice of
\* zmenPesiaka, and the board is PoSprave, but for the marks.
LEMMA PrijataZmenena ==
  ASSUME NEW c, NEW from \in Policka, NEW to \in Policka, NEW typ, Zdrava(c),
         TypVSprave(PoTahu(c, from, to), to, typ),
         NEW r \in move(c, from, to), r.ok
  PROVE  /\ \E volba \in Volby : SpravaZmeni(r.b, to, typ) = zmenPesiaka(r.b, to, volba)
         /\ Zhodne(PoSprave(c, from, to, typ), SpravaZmeni(r.b, to, typ))
<1> DEFINE p == c.policka[from]
           q == c.policka[to]
           x == PoTahu(c, from, to)
<1>1. Pohyb(c, p, q, from, to) /\ Zdrava(x) /\ LenOznacene(x, r.b)
  BY MovePrijal
<1>2. Zdrava(r.b)
  BY MoveZachova
<1>3. x.policka[to] = p
  BY <1>1, PoTahuNaCieli
<1> HIDE DEF p, q, x
<1>4. Zhodne(x, r.b)
  BY <1>1, OznacenaJeZhodna
<1>5. TypVSprave(r.b, to, typ)
  <2>1. r.b.policka = x.policka /\ r.b.type = x.type
    BY <1>4 DEF Zhodne
  <2>2. NaKonci(x, to) <=> NaKonci(r.b, to)
    BY <1>1, <1>3, <1>4, NaKonciZhodne DEF Pohyb
  <2>3. TypVSprave(x, to, typ)
    BY DEF x
  <2> QED BY <2>1, <2>2, <2>3 DEF TypVSprave
<1>6. \E volba \in Volby : SpravaZmeni(r.b, to, typ) = zmenPesiaka(r.b, to, volba)
  BY <1>2, <1>5, SpravaJeVolba DEF Zdrava
<1>7. Zhodne(SpravaZmeni(x, to, typ), SpravaZmeni(r.b, to, typ))
  BY <1>1, <1>2, <1>4, SpravaZmeniZhodne DEF Zdrava
<1> QED BY <1>6, <1>7 DEF PoSprave, x

\* Two replicas stay the same while a message is on its way, whatever changes the
\* sender's marks.
LEMMA ZhodneSOznacenou ==
  ASSUME NEW a, NEW b, NEW c, Zhodne(a, b), LenOznacene(b, c) \/ TaIstaPozicia(b, c)
  PROVE  Zhodne(a, c) /\ Zhodne(b, c)
BY OznacenaJeZhodna, VratenaJeZhodna, ZhodneTranzitivne

=============================================================================
