------------------------- MODULE ChessProcessProofs -------------------------
(***************************************************************************)
(* The safety of ChessProcess for every game, every player and every       *)
(* pattern of send failures.                                               *)
(***************************************************************************)
EXTENDS ChessProcess, ChessPositionProofs

\* What holds of the board before and after cleanUP.
PostavenieZdrave ==
  /\ BlokJeBezFigury(hraciePole)
  /\ KdeStoja(hraciePole)
  /\ StrateneSuPrec(hraciePole.lostBlack, hraciePole)
  /\ StrateneSuPrec(hraciePole.lostWhite, hraciePole)

\* The inductive invariant.  PamatVlastnena alone is not inductive: that a capture
\* finds NovyBlok(q) free and a lost piece is not captured again needs KdeStoja
\* and StrateneSuPrec, and that no move follows cleanUP needs gameOver.
IInv ==
  /\ TypeOK
  /\ PostavenieZdrave
  /\ uvolnene => gameOver /\ hraciePole.live = {}
  /\ ~uvolnene => hraciePole.live = Uvolni(hraciePole)

\* Until cleanUP the invariant says that the board is sound.
LEMMA IInvZdrava == IInv /\ ~uvolnene => Zdrava(hraciePole)
BY DEF IInv, TypeOK, PostavenieZdrave, Zdrava

\* A step of the loop that keeps the board sound keeps the invariant.
LEMMA ZdravaIInv ==
  ASSUME IInv, ~uvolnene, Zdrava(hraciePole'), UNCHANGED uvolnene,
         tahHraca1' \in BOOLEAN, gameOver' \in BOOLEAN,
         verdikt' \in {"ziadny", "mat", "pat"},
         poradie' \in 1..(Len(Partia) + 1)
  PROVE  IInv'
BY DEF IInv, TypeOK, PostavenieZdrave, Zdrava

\* setUpGame establishes the invariant.
LEMMA InitIInv == Init => IInv
<1> SUFFICES ASSUME Init PROVE IInv
  OBVIOUS
<1>1. Zdrava(hraciePole)
  BY InitBoardZdrava DEF Init
<1>2. poradie \in 1..(Len(Partia) + 1)
  <2>1. Len(Partia) \in Nat
    BY PartiaAssumption
  <2> QED BY <2>1 DEF Init
<1> QED BY <1>1, <1>2 DEF Init, IInv, TypeOK, PostavenieZdrave, Zdrava

\* The end of the loop body: checkMat on a sound board.
LEMMA PoKontroleZachova ==
  ASSUME NEW b, NEW biely \in BOOLEAN, NEW koniec \in BOOLEAN, Zdrava(b),
         IInv, PoKontrole(b, biely, koniec)
  PROVE  /\ Zdrava(hraciePole')
         /\ TaIstaPozicia(b, hraciePole')
         /\ tahHraca1' = biely
         /\ gameOver' \in BOOLEAN
         /\ verdikt' \in {"ziadny", "mat", "pat"}
<1>1. PICK m \in checkMat(b, KralHraca(biely)) :
        /\ hraciePole' = m.b
        /\ tahHraca1'  = biely
        /\ gameOver'   = (koniec \/ m.koniec)
        /\ verdikt'    = (IF ~m.koniec THEN verdikt ELSE IF m.mat THEN "mat" ELSE "pat")
  BY Zenon DEF PoKontrole
<1>2. Zdrava(m.b) /\ Vratena(b, m.b)
  BY CheckMatZachova
<1>3. verdikt \in {"ziadny", "mat", "pat"}
  BY DEF IInv, TypeOK
<1>4. gameOver' \in BOOLEAN
  BY <1>1, Zenon
<1> QED BY <1>1, <1>2, <1>3, <1>4 DEF Vratena

\* What may be typed is a pair of squares.
LEMMA ZadaneSuTahy == \A t \in Zadane : /\ t[1] \in Policka /\ t[2] \in Policka
                                        /\ poradie \in DOMAIN Partia
BY PartiaAssumption DEF Zadane, Tahy

\* The ply stays in its range.
LEMMA PoradieRastie == IInv /\ poradie \in DOMAIN Partia => poradie + 1 \in 1..(Len(Partia) + 1)
BY PartiaAssumption DEF IInv, TypeOK

\* Each action keeps the invariant; a step that leaves tahHraca1 and uvolnene
\* alone leaves the position alone.
LEMMA MojTahZachova ==
  ASSUME IInv, NEW from \in Policka, NEW to \in Policka, poradie \in DOMAIN Partia,
         MojTah(from, to)
  PROVE  IInv' /\ tahHraca1' # tahHraca1
<1>1. ~uvolnene /\ Zdrava(hraciePole) /\ tahHraca1 \in BOOLEAN
  BY IInvZdrava DEF IInv, TypeOK, MojTah
<1>2. PICK r \in move(hraciePole, from, to), volba \in Volby, chyby \in ChybySiete :
        PoKontrole(zmenPesiaka(r.b, to, volba), ~tahHraca1, chyby = POKUSY)
  BY DEF MojTah
<1>3. Zdrava(zmenPesiaka(r.b, to, volba))
  BY <1>1, MoveZachova, ZmenPesiakaZachova
<1>4. /\ Zdrava(hraciePole') /\ tahHraca1' = ~tahHraca1
      /\ gameOver' \in BOOLEAN /\ verdikt' \in {"ziadny", "mat", "pat"}
  BY <1>1, <1>2, <1>3, PoKontroleZachova
<1>5. poradie' \in 1..(Len(Partia) + 1) /\ UNCHANGED uvolnene
  BY PoradieRastie DEF MojTah
<1> QED BY <1>1, <1>4, <1>5, ZdravaIInv

\* An accepted move of the peer.
LEMMA PrijmiTahZachova ==
  ASSUME IInv, NEW from \in Policka, NEW to \in Policka, poradie \in DOMAIN Partia,
         PrijmiTah(from, to)
  PROVE  IInv' /\ tahHraca1' # tahHraca1
<1>1. ~uvolnene /\ Zdrava(hraciePole) /\ tahHraca1 \in BOOLEAN
  BY IInvZdrava DEF IInv, TypeOK, PrijmiTah
<1>2. PICK r \in move(hraciePole, from, to), volba \in Volby :
        PoKontrole(zmenPesiaka(r.b, to, volba), ~tahHraca1, FALSE)
  BY DEF PrijmiTah
<1>3. Zdrava(zmenPesiaka(r.b, to, volba))
  BY <1>1, MoveZachova, ZmenPesiakaZachova
<1>4. /\ Zdrava(hraciePole') /\ tahHraca1' = ~tahHraca1
      /\ gameOver' \in BOOLEAN /\ verdikt' \in {"ziadny", "mat", "pat"}
  BY <1>1, <1>2, <1>3, PoKontroleZachova
<1>5. poradie' \in 1..(Len(Partia) + 1) /\ UNCHANGED uvolnene
  BY PoradieRastie DEF PrijmiTah
<1> QED BY <1>1, <1>4, <1>5, ZdravaIInv

\* A rejected move of the player.
LEMMA NepovolenyPohybZachova ==
  ASSUME IInv, NEW from \in Policka, NEW to \in Policka, NepovolenyPohyb(from, to)
  PROVE  IInv' /\ TaIstaPozicia(hraciePole, hraciePole')
<1>1. ~uvolnene /\ Zdrava(hraciePole)
  BY IInvZdrava DEF IInv, NepovolenyPohyb
<1>2. PICK r \in move(hraciePole, from, to) : ~r.ok /\ hraciePole' = r.b
  BY DEF NepovolenyPohyb
<1>3. Zdrava(hraciePole') /\ Vratena(hraciePole, hraciePole')
  BY <1>1, <1>2, MoveZachova
<1> QED BY <1>1, <1>3, ZdravaIInv DEF NepovolenyPohyb, IInv, TypeOK, Vratena

\* A rejected move of the peer.
LEMMA PrijmiZlyTahZachova ==
  ASSUME IInv, NEW from \in Policka, NEW to \in Policka, PrijmiZlyTah(from, to)
  PROVE  IInv' /\ TaIstaPozicia(hraciePole, hraciePole')
<1>1. ~uvolnene /\ Zdrava(hraciePole) /\ tahHraca1 \in BOOLEAN
  BY IInvZdrava DEF IInv, TypeOK, PrijmiZlyTah
<1>2. PICK r \in move(hraciePole, from, to) : ~r.ok /\ PoKontrole(r.b, tahHraca1, TRUE)
  BY DEF PrijmiZlyTah
<1>3. Zdrava(r.b) /\ Vratena(hraciePole, r.b)
  BY <1>1, <1>2, MoveZachova
<1>4. /\ Zdrava(hraciePole') /\ TaIstaPozicia(r.b, hraciePole') /\ tahHraca1' \in BOOLEAN
      /\ gameOver' \in BOOLEAN /\ verdikt' \in {"ziadny", "mat", "pat"}
  BY <1>1, <1>2, <1>3, PoKontroleZachova
<1>5. TaIstaPozicia(hraciePole, hraciePole')
  BY <1>3, <1>4 DEF Vratena, TaIstaPozicia
<1>6. UNCHANGED uvolnene /\ poradie' \in 1..(Len(Partia) + 1)
  BY DEF PrijmiZlyTah, IInv, TypeOK
<1> QED BY <1>1, <1>4, <1>5, <1>6, ZdravaIInv

\* The end of the connection.
LEMMA NezaslalTahZachova ==
  ASSUME IInv, NezaslalTah
  PROVE  IInv' /\ TaIstaPozicia(hraciePole, hraciePole')
<1>1. ~uvolnene /\ Zdrava(hraciePole) /\ tahHraca1 \in BOOLEAN
  BY IInvZdrava DEF IInv, TypeOK, NezaslalTah
<1>2. /\ Zdrava(hraciePole') /\ TaIstaPozicia(hraciePole, hraciePole')
      /\ tahHraca1' \in BOOLEAN
      /\ gameOver' \in BOOLEAN /\ verdikt' \in {"ziadny", "mat", "pat"}
  BY <1>1, PoKontroleZachova DEF NezaslalTah
<1>3. UNCHANGED uvolnene /\ poradie' \in 1..(Len(Partia) + 1)
  BY DEF NezaslalTah, IInv, TypeOK
<1> QED BY <1>1, <1>2, <1>3, ZdravaIInv

\* cleanUP frees what the board owns.
LEMMA CleanUPZachova ==
  ASSUME IInv, cleanUP
  PROVE  IInv' /\ uvolnene' # uvolnene
<1>1. /\ ~uvolnene /\ gameOver /\ hraciePole.live = Uvolni(hraciePole)
      /\ hraciePole \in Board
  BY DEF IInv, TypeOK, cleanUP
<1>2. /\ hraciePole' \in Board /\ hraciePole'.live = {}
      /\ hraciePole'.policka = hraciePole.policka /\ hraciePole'.pos = hraciePole.pos
      /\ hraciePole'.type = hraciePole.type /\ hraciePole'.onBoard = hraciePole.onBoard
      /\ hraciePole'.lostBlack = hraciePole.lostBlack
      /\ hraciePole'.lostWhite = hraciePole.lostWhite
  BY <1>1 DEF cleanUP, Board
<1>3. PostavenieZdrave'
  BY <1>2 DEF IInv, PostavenieZdrave, BlokJeBezFigury, KdeStoja, StrateneSuPrec
<1>4. TypeOK'
  BY <1>2 DEF IInv, TypeOK, cleanUP
<1> QED BY <1>1, <1>2, <1>3, <1>4 DEF IInv, cleanUP

\* Every step of the game loop keeps the invariant.
LEMMA NextIInv ==
  ASSUME IInv, [Next]_vars
  PROVE  /\ IInv'
         /\ tahHraca1' = tahHraca1 /\ uvolnene' = uvolnene
              => TaIstaPozicia(hraciePole, hraciePole')
<1>1. CASE \E t \in Zadane : MojTah(t[1], t[2])
  BY <1>1, ZadaneSuTahy, MojTahZachova
<1>2. CASE \E t \in Zadane : NepovolenyPohyb(t[1], t[2])
  BY <1>2, ZadaneSuTahy, NepovolenyPohybZachova
<1>3. CASE \E t \in Zadane : PrijmiTah(t[1], t[2])
  BY <1>3, ZadaneSuTahy, PrijmiTahZachova
<1>4. CASE \E t \in Zadane : PrijmiZlyTah(t[1], t[2])
  BY <1>4, ZadaneSuTahy, PrijmiZlyTahZachova
<1>5. CASE NezaslalTah
  BY <1>5, NezaslalTahZachova
<1>6. CASE cleanUP
  BY <1>6, CleanUPZachova
<1>7. CASE UNCHANGED vars
  BY <1>7 DEF vars, IInv, TypeOK, PostavenieZdrave, BlokJeBezFigury, KdeStoja,
              StrateneSuPrec, Uvolni, TaIstaPozicia
<1> QED BY <1>1, <1>2, <1>3, <1>4, <1>5, <1>6, <1>7 DEF Next

\* The inductive invariant: through any sequence of moves typed and received, the
\* objects, lists and coordinates of the board stay as vyhod and cleanUP expect.
THEOREM Invariant == Spec => []IInv
BY InitIInv, NextIInv, PTL DEF Spec

\* Every variable of the game loop stays in its type, whatever is typed, received
\* or lost: in particular every pointer of policka and every entry of the lists of
\* lost pieces is an object of the right colour.
THEOREM TypSpravny == Spec => []TypeOK
<1>1. IInv => TypeOK
  BY DEF IInv
<1> QED BY <1>1, Invariant, PTL

\* No object of the board leaks, is freed twice or is used after it was freed.
THEOREM PamatSpravna == Spec => []PamatVlastnena
<1>1. IInv => PamatVlastnena
  <2> SUFFICES ASSUME IInv PROVE PamatVlastnena
    OBVIOUS
  <2>1. CASE uvolnene
    BY <2>1 DEF IInv, PamatVlastnena
  <2>2. CASE ~uvolnene
    <3> DEFINE b == hraciePole
    <3>1. Zdrava(b)
      BY <2>2, IInvZdrava
    <3>2. /\ \A i \in DOMAIN b.lostBlack : b.lostBlack[i] \in Figurky
          /\ \A i \in DOMAIN b.lostWhite : b.lostWhite[i] \in Figurky
      BY <3>1 DEF Zdrava, Board, Figurky
    <3>3. JedinyVlastnik(b)
      BY <3>1, <3>2 DEF Zdrava, KdeStoja, StrateneSuPrec, JedinyVlastnik
    <3> QED BY <2>2, <3>3 DEF PamatVlastnena
  <2> QED BY <2>1, <2>2
<1> QED BY <1>1, Invariant, PTL

\* The coordinates and flags in the pieces agree with the squares that point to
\* them.
THEOREM SuradniceSpravne == Spec => []SuradniceFigurok
<1>1. IInv => SuradniceFigurok
  <2> SUFFICES ASSUME IInv PROVE SuradniceSedia(hraciePole)
    BY DEF SuradniceFigurok
  <2>1. \A s \in Policka : hraciePole.policka[s] \in Id
    BY DEF IInv, TypeOK, Board
  <2> QED BY <2>1, FarbaFigurky DEF IInv, PostavenieZdrave, KdeStoja, BlokJeBezFigury,
                                    SuradniceSedia, Farba, JeBlok
<1> QED BY <1>1, Invariant, PTL

\* A rejected move, typed here or received, leaves the position as it was.
THEOREM OdmietnutySaVrati == Spec => OdmietnutyTahVrateny
<1>1. IInv /\ [Next]_vars =>
        [ tahHraca1' = tahHraca1 /\ uvolnene' = uvolnene =>
            TaIstaPozicia(hraciePole, hraciePole') ]_vars
  BY NextIInv
<1> QED BY <1>1, Invariant, PTL DEF Spec, OdmietnutyTahVrateny

-----------------------------------------------------------------------------
(* The pawns and the own king.                                              *)

\* After precitajTah the loop only marks pieces.
LEMMA PoKontroleOznaci ==
  ASSUME NEW b, NEW biely, NEW koniec, Zdrava(b), PoKontrole(b, biely, koniec)
  PROVE  LenOznacene(b, hraciePole') /\ tahHraca1' = biely
<1>1. PICK m \in checkMat(b, KralHraca(biely)) : hraciePole' = m.b /\ tahHraca1' = biely
  BY Zenon DEF PoKontrole
<1>2. LenOznacene(b, m.b)
  BY CheckMatOznacuje DEF Zdrava
<1> QED BY <1>1, <1>2

\* Marks do not move a pawn.
LEMMA PesiaciOznaceni ==
  ASSUME NEW b, NEW c, Zdrava(b), PesiaciSedia(b), LenOznacene(b, c)
  PROVE  PesiaciSedia(c)
BY PesiaciVrateni DEF LenOznacene, TaIstaPozicia

\* A move accepted from a player, of the keyboard or of the peer: what both steps
\* do to the board.
Prijaty(from, to) ==
  /\ Moja(hraciePole, from, tahHraca1)
  /\ \E r \in move(hraciePole, from, to), volba \in Volby, koniec \in BOOLEAN :
       r.ok /\ PoKontrole(zmenPesiaka(r.b, to, volba), ~tahHraca1, koniec)

LEMMA PrijatyZachova ==
  ASSUME IInv, ~uvolnene, PesiaciNaMieste, NEW from \in Policka, NEW to \in Policka,
         Prijaty(from, to)
  PROVE  /\ PesiaciNaMieste'
         /\ ~StratilVlastnu => ~checkForChess(hraciePole', KralHraca(tahHraca1), FALSE, 3).sach
<1>1. Zdrava(hraciePole) /\ PesiaciSedia(hraciePole) /\ tahHraca1 \in BOOLEAN
  BY IInvZdrava DEF IInv, TypeOK, PesiaciNaMieste
<1>2. PICK r \in move(hraciePole, from, to), volba \in Volby, koniec \in BOOLEAN :
        r.ok /\ PoKontrole(zmenPesiaka(r.b, to, volba), ~tahHraca1, koniec)
  BY DEF Prijaty
<1>3. Zdrava(zmenPesiaka(r.b, to, volba)) /\ PesiaciSedia(zmenPesiaka(r.b, to, volba))
  BY <1>1, <1>2, MoveZachova, MovePesiaci, ZmenPesiakaZachova
<1>4. LenOznacene(zmenPesiaka(r.b, to, volba), hraciePole')
  BY <1>2, <1>3, PoKontroleOznaci
<1>5. PesiaciSedia(hraciePole')
  BY <1>3, <1>4, PesiaciOznaceni
<1>6. ~StratilVlastnu => /\ tahHraca1  => hraciePole'.lostWhite = hraciePole.lostWhite
                         /\ ~tahHraca1 => hraciePole'.lostBlack = hraciePole.lostBlack
  BY DEF StratilVlastnu
<1>7. Moja(hraciePole, from, tahHraca1)
  BY DEF Prijaty
<1> HIDE DEF StratilVlastnu
<1>8. ~StratilVlastnu => ~checkForChess(hraciePole', KralHraca(tahHraca1), FALSE, 3).sach
  BY <1>1, <1>2, <1>4, <1>6, <1>7, MoveVlastnyKral
<1> QED BY <1>5, <1>8 DEF PesiaciNaMieste

\* A move rejected, typed here or received, moves no pawn.
LEMMA OdmietnutyPesiaci ==
  ASSUME IInv, ~uvolnene, PesiaciNaMieste, NEW from \in Policka, NEW to \in Policka,
         NEW r \in move(hraciePole, from, to), ~r.ok,
         hraciePole' = r.b \/ \E biely, koniec : PoKontrole(r.b, biely, koniec)
  PROVE  PesiaciNaMieste'
<1>1. Zdrava(hraciePole) /\ PesiaciSedia(hraciePole)
  BY IInvZdrava DEF PesiaciNaMieste
<1>2. Zdrava(r.b) /\ PesiaciSedia(r.b)
  BY <1>1, MoveZachova, MovePesiaci
<1>3. CASE hraciePole' = r.b
  BY <1>2, <1>3 DEF PesiaciNaMieste
<1>4. CASE \E biely, koniec : PoKontrole(r.b, biely, koniec)
  BY <1>2, <1>4, PoKontroleOznaci, PesiaciOznaceni DEF PesiaciNaMieste
<1> QED BY <1>3, <1>4

\* Every step keeps the pawns in place, and one that hands the turn over leaves the
\* mover's king out of check.
LEMMA NextPesiaci ==
  ASSUME IInv, PesiaciNaMieste, [Next]_vars
  PROVE  /\ PesiaciNaMieste'
         /\ tahHraca1' # tahHraca1 /\ ~StratilVlastnu
              => ~checkForChess(hraciePole', KralHraca(tahHraca1), FALSE, 3).sach
<1> USE DEF PesiaciNaMieste
<1>1. ~gameOver => ~uvolnene
  BY DEF IInv
<1>2. ASSUME NEW t \in Zadane, MojTah(t[1], t[2]) \/ PrijmiTah(t[1], t[2])
      PROVE  /\ PesiaciNaMieste'
             /\ ~StratilVlastnu
                  => ~checkForChess(hraciePole', KralHraca(tahHraca1), FALSE, 3).sach
  <2>1. t[1] \in Policka /\ t[2] \in Policka
    BY <1>2, ZadaneSuTahy
  <2>2. ~gameOver
    BY <1>2 DEF MojTah, PrijmiTah
  <2>3. Prijaty(t[1], t[2])
    <3>1. ASSUME MojTah(t[1], t[2]) PROVE Prijaty(t[1], t[2])
      <4>1. PICK r \in move(hraciePole, t[1], t[2]), volba \in Volby, chyby \in ChybySiete :
              r.ok /\ PoKontrole(zmenPesiaka(r.b, t[2], volba), ~tahHraca1, chyby = POKUSY)
        BY <3>1 DEF MojTah
      <4>2. (chyby = POKUSY) \in BOOLEAN
        OBVIOUS
      <4>3. Moja(hraciePole, t[1], tahHraca1)
        BY <3>1 DEF MojTah
      <4> QED BY <4>1, <4>2, <4>3 DEF Prijaty
    <3>2. ASSUME PrijmiTah(t[1], t[2]) PROVE Prijaty(t[1], t[2])
      BY <3>2 DEF PrijmiTah, Prijaty
    <3> QED BY <1>2, <3>1, <3>2
  <2> QED BY <1>1, <2>1, <2>2, <2>3, PrijatyZachova
<1>3. ASSUME NEW t \in Zadane, NepovolenyPohyb(t[1], t[2]) \/ PrijmiZlyTah(t[1], t[2])
      PROVE  PesiaciNaMieste' /\ tahHraca1' = tahHraca1
  <2>1. t[1] \in Policka /\ t[2] \in Policka
    BY <1>3, ZadaneSuTahy
  <2>2. ~gameOver
    BY <1>3 DEF NepovolenyPohyb, PrijmiZlyTah
  <2>3. PICK r \in move(hraciePole, t[1], t[2]) :
          /\ ~r.ok
          /\ \/ hraciePole' = r.b /\ tahHraca1' = tahHraca1
             \/ PoKontrole(r.b, tahHraca1, TRUE)
    BY <1>3 DEF NepovolenyPohyb, PrijmiZlyTah
  <2>4. PesiaciNaMieste'
    BY <1>1, <2>1, <2>2, <2>3, OdmietnutyPesiaci
  <2>5. tahHraca1' = tahHraca1
    BY <2>3 DEF PoKontrole
  <2> QED BY <2>4, <2>5
<1>4. ASSUME NezaslalTah PROVE PesiaciNaMieste' /\ tahHraca1' = tahHraca1
  <2>1. Zdrava(hraciePole) /\ PoKontrole(hraciePole, tahHraca1, TRUE)
    BY <1>1, <1>4, IInvZdrava DEF NezaslalTah
  <2> QED BY <2>1, PoKontroleOznaci, PesiaciOznaceni
<1>5. ASSUME cleanUP PROVE PesiaciNaMieste' /\ tahHraca1' = tahHraca1
  <2>1. /\ hraciePole'.type = hraciePole.type /\ hraciePole'.pos = hraciePole.pos
        /\ hraciePole'.onBoard = hraciePole.onBoard
        /\ hraciePole'.movedAlready = hraciePole.movedAlready
    BY <1>5 DEF cleanUP, IInv, TypeOK, Board
  <2> QED BY <1>5, <2>1 DEF cleanUP, PesiaciSedia
<1>6. CASE UNCHANGED vars
  BY <1>6 DEF vars
<1> QED BY <1>2, <1>3, <1>4, <1>5, <1>6 DEF Next

\* vyhod, zmenPesiaka and the retraction of moves never leave a pawn on the last row
\* when a step of the loop ends, and a pawn that moved never counts as unmoved.
THEOREM PesiaciStoja == Spec => []PesiaciNaMieste
<1>1. Init => PesiaciNaMieste
  BY InitBoardPesiaci DEF Init, PesiaciNaMieste
<1>2. IInv /\ PesiaciNaMieste /\ [Next]_vars => PesiaciNaMieste'
  BY NextPesiaci
<1> QED BY <1>1, <1>2, Invariant, PTL DEF Spec

\* After an accepted move the king of the player who moved is not in check, for any
\* board the game reaches, unless the move captured a piece of that player.
THEOREM KralVBezpeci == Spec => VlastnyKralVBezpeci
<1>1. IInv /\ PesiaciNaMieste /\ [Next]_vars =>
        [ tahHraca1' # tahHraca1 /\ ~StratilVlastnu =>
            ~checkForChess(hraciePole', KralHraca(tahHraca1), FALSE, 3).sach ]_vars
  BY NextPesiaci
<1> QED BY <1>1, Invariant, PesiaciStoja, PTL DEF Spec, VlastnyKralVBezpeci

=============================================================================
