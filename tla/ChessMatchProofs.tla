-------------------------- MODULE ChessMatchProofs --------------------------
(***************************************************************************)
(* A match of two processes, for every game and every pattern of send      *)
(* failures.  First how the two loops stay in step, in which the contents  *)
(* of the boards play no part; then that the two replicas stay the same    *)
(* position; and last that each process plays a ChessProcess.              *)
(***************************************************************************)
EXTENDS ChessMatch, ChessPositionProofs

\* The two turns and the two queues.  tahHraca1 alone does not say who is on
\* move: after a move and before its arrival the processes disagree, and then
\* neither is.
Striedanie ==
  /\ tahHraca1 \in [Hraci -> BOOLEAN]
  /\ spojenie = [h \in Hraci |-> spojenie[h]]
  /\ \A h \in Hraci : spojenie[h] = << >> \/ \E m : spojenie[h] = <<m>>
  /\ tahHraca1[0] => tahHraca1[1]
  /\ \A h \in Hraci : spojenie[h] # << >> =>
       ~tahHraca1[0] /\ tahHraca1[1] /\ spojenie[Super(h)] = << >>

\* While neither is on move and nothing is on its way, a game has ended.
Nezaseknute ==
  /\ gameOver \in [Hraci -> BOOLEAN]
  /\ uvolnene \in [Hraci -> BOOLEAN]
  /\ \A h \in Hraci : uvolnene[h] => gameOver[h]
  /\ \/ tahHraca1[0]
     \/ ~tahHraca1[1]
     \/ \E h \in Hraci : gameOver[h] \/ spojenie[h] # << >>

-----------------------------------------------------------------------------
(* The queues. *)

\* Sending into an empty queue.
LEMMA JednaVlozena == \A m : Append(<< >>, m) = <<m>> /\ <<m>> # << >> /\ Len(<<m>>) = 1
OBVIOUS

\* Receiving the only message.
LEMMA JednaVybrata == \A m : Tail(<<m>>) = << >>
OBVIOUS

\* The peer of the peer.
LEMMA SuperFakty == /\ Super(0) = 1 /\ Super(1) = 0
                    /\ \A h \in Hraci : Super(h) \in Hraci /\ Super(Super(h)) = h
BY DEF Super, Hraci

\* After recv nothing is on its way.
LEMMA PrijataVyprazdni ==
  ASSUME Striedanie, NEW h \in Hraci, spojenie[h] # << >>,
         spojenie' = [spojenie EXCEPT ![h] = Tail(@)]
  PROVE  spojenie'[h] = << >> /\ spojenie'[Super(h)] = << >>
<1>1. PICK m : spojenie[h] = <<m>>
  BY DEF Striedanie
<1>2. Tail(spojenie[h]) = << >>
  BY <1>1, JednaVybrata
<1>3. spojenie = [g \in Hraci |-> spojenie[g]]
  BY DEF Striedanie
<1>4. spojenie'[h] = Tail(spojenie[h])
  BY <1>3
<1>5. spojenie'[Super(h)] = spojenie[Super(h)]
  BY <1>3, SuperFakty DEF Hraci
<1>6. spojenie[Super(h)] = << >>
  BY DEF Striedanie
<1> QED BY <1>2, <1>4, <1>5, <1>6

-----------------------------------------------------------------------------
(* Each action keeps Striedanie. *)

\* A move typed hands the turn over, whether or not it is delivered.
LEMMA MojTahStriedanie ==
  ASSUME Striedanie, NEW h \in Hraci, NEW from, NEW to, MojTah(h, from, to)
  PROVE  Striedanie'
<1>1. tahHraca1' = [tahHraca1 EXCEPT ![h] = ~tahHraca1[h]]
  BY DEF MojTah, PoKontrole
<1>2. NaTahu(h)
  BY DEF MojTah
<1>3. \/ spojenie' = spojenie
      \/ \E m : spojenie' = [spojenie EXCEPT ![Super(h)] = Append(@, m)]
  BY DEF MojTah, Posli
<1>4. \A g \in Hraci : spojenie[g] = << >>
  BY <1>2, SuperFakty DEF Striedanie, NaTahu, Hraci
<1> QED BY <1>1, <1>2, <1>3, <1>4, SuperFakty, JednaVlozena DEF Striedanie, NaTahu, Hraci

\* The move received hands the turn to the receiver.
LEMMA PrijmiTahStriedanie ==
  ASSUME Striedanie, NEW h \in Hraci, PrijmiTah(h)
  PROVE  Striedanie'
<1>1. tahHraca1' = [tahHraca1 EXCEPT ![h] = ~tahHraca1[h]]
  BY DEF PrijmiTah, PoKontrole
<1>2. ~NaTahu(h) /\ spojenie[h] # << >> /\ spojenie' = [spojenie EXCEPT ![h] = Tail(@)]
  BY DEF PrijmiTah, Prijmi
<1>3. spojenie'[h] = << >> /\ spojenie'[Super(h)] = << >>
  BY <1>2, PrijataVyprazdni
<1> QED BY <1>1, <1>2, <1>3, SuperFakty DEF Striedanie, NaTahu, Hraci

\* A bad move is received and nobody gets the turn.
LEMMA PrijmiZlyTahStriedanie ==
  ASSUME Striedanie, NEW h \in Hraci, PrijmiZlyTah(h)
  PROVE  Striedanie'
<1>1. tahHraca1' = tahHraca1
  BY DEF PrijmiZlyTah, PoKontrole, Striedanie
<1>2. spojenie[h] # << >> /\ spojenie' = [spojenie EXCEPT ![h] = Tail(@)]
  BY DEF PrijmiZlyTah, Prijmi
<1>3. spojenie'[h] = << >> /\ spojenie'[Super(h)] = << >>
  BY <1>2, PrijataVyprazdni
<1> QED BY <1>1, <1>2, <1>3, SuperFakty DEF Striedanie, Hraci

\* A process that leaves drops what it was sent.
LEMMA CleanUPStriedanie ==
  ASSUME Striedanie, NEW h \in Hraci, cleanUP(h)
  PROVE  Striedanie'
<1>1. tahHraca1' = tahHraca1 /\ spojenie' = [spojenie EXCEPT ![h] = << >>]
  BY DEF cleanUP
<1> QED BY <1>1, SuperFakty DEF Striedanie, Hraci

\* Every step of a match keeps Striedanie.
LEMMA NextStriedanie == Striedanie /\ [Next]_vars => Striedanie'
<1> SUFFICES ASSUME Striedanie, [Next]_vars PROVE Striedanie'
  OBVIOUS
<1>1. ASSUME NEW h \in Hraci, NEW t \in Zadane(h), MojTah(h, t[1], t[2]) PROVE Striedanie'
  BY <1>1, MojTahStriedanie
<1>2. ASSUME NEW h \in Hraci, NEW t \in Zadane(h), NepovolenyPohyb(h, t[1], t[2])
      PROVE  Striedanie'
  BY <1>2 DEF NepovolenyPohyb, Striedanie
<1>3. ASSUME NEW h \in Hraci, PrijmiTah(h) PROVE Striedanie'
  BY <1>3, PrijmiTahStriedanie
<1>4. ASSUME NEW h \in Hraci, PrijmiZlyTah(h) PROVE Striedanie'
  BY <1>4, PrijmiZlyTahStriedanie
<1>5. ASSUME NEW h \in Hraci, NezaslalTah(h) PROVE Striedanie'
  <2>1. tahHraca1' = tahHraca1 /\ spojenie' = spojenie
    BY <1>5 DEF NezaslalTah, PoKontrole, Striedanie
  <2> QED BY <2>1 DEF Striedanie
<1>6. ASSUME NEW h \in Hraci, cleanUP(h) PROVE Striedanie'
  BY <1>6, CleanUPStriedanie
<1>7. CASE UNCHANGED vars
  BY <1>7 DEF vars, Striedanie
<1> QED BY <1>1, <1>2, <1>3, <1>4, <1>5, <1>6, <1>7 DEF Next

\* White, the host, is on move and nothing is on its way.
LEMMA InitStriedanie == Init => Striedanie
BY DEF Init, Striedanie, Hraci

\* The two copies of tahHraca1, which precitajTah flips independently, never put
\* both players on move, and while a move is on its way neither is on move and
\* nothing else is on its way, whatever is typed, lost or rejected.
THEOREM StriedanieTrva == Spec => []Striedanie
BY InitStriedanie, NextStriedanie, PTL DEF Spec

\* At most one process reads the keyboard, whatever is sent, lost or rejected.
THEOREM JedenHra == Spec => []JedenNaTahu
<1>1. Striedanie => JedenNaTahu
  BY DEF Striedanie, JedenNaTahu, NaTahu, Hraci
<1> QED BY <1>1, StriedanieTrva, PTL

\* recv never finds two messages, nor one while a player is to type.
THEOREM JednaSpravaNaCeste == Spec => []JednaSprava
<1>1. Striedanie => JednaSprava
  <2> SUFFICES ASSUME Striedanie, NEW h \in Hraci
               PROVE  /\ Len(spojenie[h]) <= 1
                      /\ spojenie[h] # << >> => \A g \in Hraci : ~NaTahu(g)
    BY DEF JednaSprava
  <2>1. Len(spojenie[h]) <= 1
    <3>1. Len(<< >>) = 0
      OBVIOUS
    <3>2. CASE spojenie[h] = << >>
      BY <3>1, <3>2
    <3>3. CASE \E m : spojenie[h] = <<m>>
      <4>1. PICK m : spojenie[h] = <<m>>
        BY <3>3
      <4>2. Len(spojenie[h]) = 1
        BY <4>1, JednaVlozena
      <4> QED BY <4>2
    <3> QED BY <3>2, <3>3 DEF Striedanie
  <2>2. spojenie[h] # << >> => \A g \in Hraci : ~NaTahu(g)
    BY DEF Striedanie, NaTahu, Hraci
  <2> QED BY <2>1, <2>2
<1> QED BY <1>1, StriedanieTrva, PTL

-----------------------------------------------------------------------------
(* Without a move that is given up after POKUSY failures, the two loops     *)
(* never wait for each other.                                               *)

IbaDorucene == \A n \in ChybySiete : n <= POKUSY

\* The end of the loop body touches the flag of its own process only.
LEMMA PoKontroleKonci ==
  ASSUME Nezaseknute, NEW h \in Hraci, NEW b, NEW biely, NEW koniec \in BOOLEAN,
         PoKontrole(h, b, biely, koniec)
  PROVE  /\ gameOver' \in [Hraci -> BOOLEAN]
         /\ \A g \in Hraci : gameOver[g] /\ g # h => gameOver'[g]
         /\ koniec => gameOver'[h]
<1>1. PICK m \in checkMat(b, KralHraca(biely)) :
        gameOver' = [gameOver EXCEPT ![h] = koniec \/ m.koniec]
  BY DEF PoKontrole
<1>2. (koniec \/ m.koniec) \in BOOLEAN
  BY Zenon
<1> QED BY <1>1, <1>2 DEF Nezaseknute

\* Every step of a match keeps Nezaseknute, if each move sent is delivered.
LEMMA NextNezaseknute ==
  IbaDorucene /\ Striedanie /\ Nezaseknute /\ [Next]_vars => Nezaseknute'
<1> SUFFICES ASSUME IbaDorucene, Striedanie, Nezaseknute, [Next]_vars PROVE Nezaseknute'
  OBVIOUS
<1>1. ASSUME NEW h \in Hraci, NEW t \in Zadane(h), MojTah(h, t[1], t[2]) PROVE Nezaseknute'
  <2>1. PICK r \in move(hraciePole[h], t[1], t[2]), volba \in Volby, chyby \in ChybySiete :
          LET b == zmenPesiaka(r.b, t[2], volba)
          IN  /\ Posli(h, [from |-> t[1], to |-> t[2], typ |-> b.type[b.policka[t[2]]]], chyby)
              /\ PoKontrole(h, b, ~tahHraca1[h], chyby = POKUSY)
    BY <1>1 DEF MojTah
  <2>2. /\ gameOver' \in [Hraci -> BOOLEAN]
        /\ \A g \in Hraci : gameOver[g] /\ g # h => gameOver'[g]
    BY <2>1, PoKontroleKonci
  <2>3. ~gameOver[h] /\ NaTahu(h) /\ uvolnene' = uvolnene
    BY <1>1 DEF MojTah
  <2>4. \A g \in Hraci : spojenie[g] = << >>
    BY <2>3, SuperFakty DEF Striedanie, NaTahu, Hraci
  <2>5. CASE uvolnene[Super(h)]
    BY <2>2, <2>3, <2>5, SuperFakty DEF Nezaseknute, Hraci
  <2>6. CASE ~uvolnene[Super(h)]
    <3>1. ~(chyby > POKUSY)
      BY ChybyAssumption DEF IbaDorucene, POKUSY
    <3>2. PICK m : spojenie' = [spojenie EXCEPT ![Super(h)] = Append(@, m)]
      BY <2>1, <2>6, <3>1 DEF Posli
    <3>3. spojenie'[Super(h)] # << >>
      BY <2>4, <3>2, SuperFakty, JednaVlozena DEF Striedanie
    <3> QED BY <2>2, <2>3, <3>3, SuperFakty DEF Nezaseknute, Hraci
  <2> QED BY <2>5, <2>6
<1>2. ASSUME NEW h \in Hraci, NEW t \in Zadane(h), NepovolenyPohyb(h, t[1], t[2])
      PROVE  Nezaseknute'
  BY <1>2 DEF NepovolenyPohyb, Nezaseknute
<1>3. ASSUME NEW h \in Hraci, PrijmiTah(h) PROVE Nezaseknute'
  <2>1. PICK b : PoKontrole(h, b, ~tahHraca1[h], FALSE)
    BY <1>3 DEF PrijmiTah
  <2>2. gameOver' \in [Hraci -> BOOLEAN] /\ \A g \in Hraci : gameOver[g] /\ g # h => gameOver'[g]
    BY <2>1, PoKontroleKonci
  <2>3. ~gameOver[h] /\ ~NaTahu(h) /\ spojenie[h] # << >> /\ uvolnene' = uvolnene
    BY <1>3 DEF PrijmiTah, Prijmi
  <2>4. tahHraca1' = [tahHraca1 EXCEPT ![h] = ~tahHraca1[h]]
    BY <1>3 DEF PrijmiTah, PoKontrole
  <2>5. tahHraca1'[0] \/ ~tahHraca1'[1]
    BY <2>3, <2>4 DEF Striedanie, Hraci
  <2> QED BY <2>2, <2>3, <2>5 DEF Nezaseknute, Hraci
<1>4. ASSUME NEW h \in Hraci, PrijmiZlyTah(h) PROVE Nezaseknute'
  <2>1. PICK b : PoKontrole(h, b, tahHraca1[h], TRUE)
    BY <1>4 DEF PrijmiZlyTah
  <2>2. /\ gameOver' \in [Hraci -> BOOLEAN] /\ gameOver'[h]
        /\ \A g \in Hraci : gameOver[g] /\ g # h => gameOver'[g]
    BY <2>1, PoKontroleKonci
  <2>3. uvolnene' = uvolnene
    BY <1>4 DEF PrijmiZlyTah, Prijmi
  <2> QED BY <2>2, <2>3 DEF Nezaseknute
<1>5. ASSUME NEW h \in Hraci, NezaslalTah(h) PROVE Nezaseknute'
  <2>1. PoKontrole(h, hraciePole[h], tahHraca1[h], TRUE) /\ uvolnene' = uvolnene
    BY <1>5 DEF NezaslalTah
  <2>2. /\ gameOver' \in [Hraci -> BOOLEAN] /\ gameOver'[h]
        /\ \A g \in Hraci : gameOver[g] /\ g # h => gameOver'[g]
    BY <2>1, PoKontroleKonci
  <2> QED BY <2>1, <2>2 DEF Nezaseknute
<1>6. ASSUME NEW h \in Hraci, cleanUP(h) PROVE Nezaseknute'
  <2>1. gameOver[h] /\ gameOver' = gameOver /\ uvolnene' = [uvolnene EXCEPT ![h] = TRUE]
    BY <1>6 DEF cleanUP
  <2> QED BY <2>1 DEF Nezaseknute
<1>7. CASE UNCHANGED vars
  BY <1>7 DEF vars, Nezaseknute
<1> QED BY <1>1, <1>2, <1>3, <1>4, <1>5, <1>6, <1>7 DEF Next

\* If every send succeeds within the budget of precitajTah, the two processes are
\* never both waiting with nothing on its way.
THEOREM NikdyNecakaju == IbaDorucene => (Spec => []NikdyNecakajuObaja)
<1>1. Init => Nezaseknute
  BY DEF Init, Nezaseknute, Hraci
<1>2. Nezaseknute => NikdyNecakajuObaja
  BY DEF Nezaseknute, NikdyNecakajuObaja, NaTahu, Hraci
<1> SUFFICES ASSUME IbaDorucene PROVE Spec => []NikdyNecakajuObaja
  OBVIOUS
<1>3. Striedanie /\ Nezaseknute /\ [Next]_vars => Nezaseknute'
  BY NextNezaseknute
<1> QED BY <1>1, <1>2, <1>3, StriedanieTrva, PTL DEF Spec

-----------------------------------------------------------------------------
(* The two replicas.                                                        *)

\* What holds of each board before and after its process ran cleanUP.
Postavenie(b) ==
  /\ BlokJeBezFigury(b)
  /\ KdeStoja(b)
  /\ StrateneSuPrec(b.lostBlack, b)
  /\ StrateneSuPrec(b.lostWhite, b)
  /\ PesiaciSedia(b)

HryZdrave ==
  \A h \in Hraci :
    /\ Postavenie(hraciePole[h])
    /\ uvolnene[h] => gameOver[h]
    /\ ~uvolnene[h] => hraciePole[h].live = Uvolni(hraciePole[h])

\* A message on its way to h is a move of the side on move that may be the next ply
\* of h, and it is what separates the replica of h from the sender's.
SpravaSedi(h, s) ==
  /\ s \in Spravy
  /\ <<s.from, s.to>> \in Zadane(h)
  /\ Moja(hraciePole[h], s.from, tahHraca1[h])
  /\ TypVSprave(PoTahu(hraciePole[h], s.from, s.to), s.to, s.typ)
  /\ Zhodne(PoSprave(hraciePole[h], s.from, s.to, s.typ), hraciePole[Super(h)])
  /\ poradie[Super(h)] = poradie[h] + 1

NaCeste == \A h \in Hraci : spojenie[h] # << >> => SpravaSedi(h, Head(spojenie[h]))

\* While the two copies of tahHraca1 agree, so do the plies and the positions; a
\* process that typed a move the other has not taken over is ahead.
RovnakaHra ==
  IF tahHraca1[0] = tahHraca1[1]
  THEN poradie[0] = poradie[1] /\ Zhodne(hraciePole[0], hraciePole[1])
  ELSE poradie[0] # poradie[1]

\* The inductive invariant.  ZhodaPostavenia alone is not inductive: that a message
\* makes the replicas agree needs NaCeste, and NaCeste needs that the sender and the
\* receiver agreed when the move was typed, that no other message was on its way
\* (Striedanie) and that both boards were sound.
IInv == TypeOK /\ Striedanie /\ HryZdrave /\ NaCeste /\ RovnakaHra

LEMMA HlavaJednej == \A m : Head(<<m>>) = m
OBVIOUS

\* Until cleanUP a process has a sound board.
LEMMA ZdravaHra ==
  ASSUME IInv, NEW h \in Hraci, ~uvolnene[h]
  PROVE  Zdrava(hraciePole[h]) /\ PesiaciSedia(hraciePole[h])
BY DEF IInv, TypeOK, HryZdrave, Postavenie, Zdrava

\* A process whose game goes on has not run cleanUP.
LEMMA HraSaNeuvolnena ==
  ASSUME IInv, NEW h \in Hraci, ~gameOver[h]
  PROVE  ~uvolnene[h]
BY DEF IInv, HryZdrave

\* A step of the loop of h touches the flags and the board of h only.
KrokHry(h) ==
  /\ uvolnene' = uvolnene
  /\ hraciePole' \in [Hraci -> Board]
  /\ hraciePole'[Super(h)] = hraciePole[Super(h)]
  /\ Zdrava(hraciePole'[h])
  /\ PesiaciSedia(hraciePole'[h])
  /\ tahHraca1' \in [Hraci -> BOOLEAN]
  /\ gameOver' \in [Hraci -> BOOLEAN]
  /\ gameOver'[Super(h)] = gameOver[Super(h)]
  /\ verdikt' \in [Hraci -> {"ziadny", "mat", "pat"}]

\* The boards stay sound.
LEMMA KrokHryZachova ==
  ASSUME IInv, NEW h \in Hraci, ~uvolnene[h], KrokHry(h)
  PROVE  HryZdrave'
<1> SUFFICES ASSUME NEW g \in Hraci
             PROVE  /\ Postavenie(hraciePole'[g])
                    /\ uvolnene[g] => gameOver'[g]
                    /\ ~uvolnene[g] => hraciePole'[g].live = Uvolni(hraciePole'[g])
  BY DEF HryZdrave, KrokHry
<1>1. CASE g = h
  BY <1>1 DEF KrokHry, Postavenie, Zdrava
<1>2. CASE g # h
  <2>1. g = Super(h)
    BY <1>2 DEF Super, Hraci
  <2> QED BY <2>1 DEF KrokHry, IInv, HryZdrave
<1> QED BY <1>1, <1>2

\* The end of the loop body, on a sound board.
LEMMA PoKontroleHry ==
  ASSUME IInv, NEW h \in Hraci, NEW b, NEW biely \in BOOLEAN, NEW koniec \in BOOLEAN,
         Zdrava(b), PesiaciSedia(b), PoKontrole(h, b, biely, koniec), uvolnene' = uvolnene
  PROVE  /\ KrokHry(h)
         /\ LenOznacene(b, hraciePole'[h])
         /\ tahHraca1' = [tahHraca1 EXCEPT ![h] = biely]
<1>1. PICK m \in checkMat(b, KralHraca(biely)) :
        /\ hraciePole' = [hraciePole EXCEPT ![h] = m.b]
        /\ tahHraca1'  = [tahHraca1 EXCEPT ![h] = biely]
        /\ gameOver'   = [gameOver EXCEPT ![h] = koniec \/ m.koniec]
        /\ verdikt'    = [verdikt EXCEPT ![h] = IF ~m.koniec THEN @
                                                ELSE IF m.mat THEN "mat" ELSE "pat"]
  BY Zenon DEF PoKontrole
<1>2. Zdrava(m.b) /\ LenOznacene(b, m.b) /\ PesiaciSedia(m.b)
  BY CheckMatZachova, CheckMatOznacuje, CheckMatPesiaci DEF Zdrava
<1>3. m.b \in Board
  BY <1>2 DEF Zdrava
<1>4. /\ hraciePole \in [Hraci -> Board] /\ tahHraca1 \in [Hraci -> BOOLEAN]
      /\ gameOver \in [Hraci -> BOOLEAN]
      /\ verdikt \in [Hraci -> {"ziadny", "mat", "pat"}]
  BY DEF IInv, TypeOK
<1>5. Super(h) \in Hraci /\ Super(h) # h
  BY DEF Super, Hraci
<1>6. /\ hraciePole' \in [Hraci -> Board] /\ hraciePole'[h] = m.b
      /\ hraciePole'[Super(h)] = hraciePole[Super(h)]
  BY <1>1, <1>3, <1>4, <1>5
<1>7. tahHraca1' \in [Hraci -> BOOLEAN]
  BY <1>1, <1>4
<1>8. gameOver' \in [Hraci -> BOOLEAN] /\ gameOver'[Super(h)] = gameOver[Super(h)]
  <2>1. (koniec \/ m.koniec) \in BOOLEAN
    BY Zenon
  <2> QED BY <1>1, <1>4, <1>5, <2>1
<1>9. verdikt' \in [Hraci -> {"ziadny", "mat", "pat"}]
  BY <1>1, <1>4
<1> QED BY <1>1, <1>2, <1>6, <1>7, <1>8, <1>9 DEF KrokHry

\* What may be typed is a pair of squares.
LEMMA ZadaneTahy ==
  ASSUME NEW h \in Hraci, NEW t \in Zadane(h)
  PROVE  /\ t[1] \in Policka /\ t[2] \in Policka /\ t = <<t[1], t[2]>>
         /\ poradie[h] \in DOMAIN Partia
BY PartiaAssumption DEF Zadane, Tahy

\* The next ply is in its range.
LEMMA DalsiePoradie ==
  ASSUME IInv, NEW h \in Hraci, poradie[h] \in DOMAIN Partia,
         poradie' = [poradie EXCEPT ![h] = @ + 1]
  PROVE  /\ poradie' \in [Hraci -> 1..(Len(Partia) + 1)]
         /\ poradie'[h] = poradie[h] + 1 /\ poradie'[Super(h)] = poradie[Super(h)]
         /\ poradie[h] \in Nat
<1>1. Len(Partia) \in Nat /\ DOMAIN Partia = 1..Len(Partia)
  BY PartiaAssumption
<1>2. poradie \in [Hraci -> 1..(Len(Partia) + 1)]
  BY DEF IInv, TypeOK
<1>3. Super(h) \in Hraci /\ Super(h) # h
  BY DEF Super, Hraci
<1> QED BY <1>1, <1>2, <1>3

\* A step of h that makes no move: the positions, the turns and the plies stay, and
\* nothing is left on its way to h.
BezTahu(h) ==
  /\ Zhodne(hraciePole[h], hraciePole'[h])
  /\ hraciePole'[Super(h)] = hraciePole[Super(h)]
  /\ tahHraca1' = tahHraca1
  /\ poradie' = poradie
  /\ spojenie'[h] = << >>
  /\ spojenie'[Super(h)] = spojenie[Super(h)]

\* It keeps the replicas in agreement.
LEMMA BezTahuZachova ==
  ASSUME IInv, NEW h \in Hraci, BezTahu(h)
  PROVE  NaCeste' /\ RovnakaHra'
<1> DEFINE g == Super(h)
<1>1. g \in Hraci /\ g # h /\ Super(g) = h /\ Hraci = {g, h} /\ {0, 1} = {g, h}
  BY DEF Super, Hraci
<1> HIDE DEF g
<1>2. /\ Zhodne(hraciePole[h], hraciePole'[h]) /\ hraciePole'[g] = hraciePole[g]
      /\ tahHraca1' = tahHraca1 /\ poradie' = poradie
      /\ spojenie'[h] = << >> /\ spojenie'[g] = spojenie[g]
  BY DEF BezTahu, g
<1>3. NaCeste'
  <2> SUFFICES ASSUME spojenie[g] # << >>, NEW s, s = Head(spojenie[g])
               PROVE  SpravaSedi(g, s)'
    BY <1>1, <1>2 DEF NaCeste
  <2>1. SpravaSedi(g, s)
    BY <1>1 DEF IInv, NaCeste
  <2>2. Zadane(g)' = Zadane(g)
    BY <1>2 DEF Zadane
  <2>3. Zhodne(PoSprave(hraciePole[g], s.from, s.to, s.typ), hraciePole'[h])
    BY <1>1, <1>2, <2>1, ZhodneTranzitivne DEF SpravaSedi
  <2> QED BY <1>1, <1>2, <2>1, <2>2, <2>3 DEF SpravaSedi
<1>4. RovnakaHra'
  <2>1. CASE tahHraca1[0] = tahHraca1[1]
    <3>1. poradie[0] = poradie[1] /\ Zhodne(hraciePole[0], hraciePole[1])
      BY <2>1 DEF IInv, RovnakaHra
    <3>2. Zhodne(hraciePole[g], hraciePole[h])
      BY <1>1, <3>1, ZhodneSymetricke
    <3>3. Zhodne(hraciePole'[g], hraciePole'[h]) /\ Zhodne(hraciePole'[h], hraciePole'[g])
      BY <1>2, <3>2, ZhodneTranzitivne, ZhodneSymetricke
    <3>4. Zhodne(hraciePole'[0], hraciePole'[1])
      BY <1>1, <3>3
    <3> QED BY <1>2, <2>1, <3>1, <3>4 DEF RovnakaHra
  <2>2. CASE tahHraca1[0] # tahHraca1[1]
    BY <1>2, <2>2 DEF IInv, RovnakaHra
  <2> QED BY <2>1, <2>2
<1> QED BY <1>3, <1>4

\* Together with the rest of what a step of the loop does.
LEMMA KrokZachova ==
  ASSUME IInv, NEW h \in Hraci, ~uvolnene[h], KrokHry(h), Striedanie',
         NaCeste', RovnakaHra',
         poradie' \in [Hraci -> 1..(Len(Partia) + 1)],
         kontumacia' \in [Hraci -> {"nie", "zly tah", "nezaslal"}],
         spojenie' \in [Hraci -> Seq(Spravy)]
  PROVE  IInv'
<1>1. HryZdrave'
  BY KrokHryZachova
<1>2. TypeOK'
  BY DEF IInv, TypeOK, KrokHry
<1> QED BY <1>1, <1>2 DEF IInv

\* On move, a player has the whole game to itself: nothing is on its way.
LEMMA NaTahuNicNaCeste ==
  ASSUME Striedanie, NEW h \in Hraci, NaTahu(h)
  PROVE  /\ \A g \in Hraci : spojenie[g] = << >>
         /\ tahHraca1[0] = tahHraca1[1]
BY DEF Striedanie, NaTahu, Hraci, Super

\* A message received was the only one, and the two turns differ.
LEMMA JednaPrijata ==
  ASSUME IInv, NEW h \in Hraci, Prijmi(h)
  PROVE  /\ SpravaSedi(h, Head(spojenie[h]))
         /\ spojenie' \in [Hraci -> Seq(Spravy)]
         /\ \A g \in Hraci : spojenie'[g] = << >>
         /\ spojenie[Super(h)] = << >>
         /\ ~tahHraca1[0] /\ tahHraca1[1]
         /\ ~gameOver[h] /\ uvolnene' = uvolnene
<1>1. /\ ~gameOver[h] /\ uvolnene' = uvolnene /\ spojenie[h] # << >>
      /\ spojenie' = [spojenie EXCEPT ![h] = Tail(@)]
  BY DEF Prijmi
<1>2. Striedanie
  BY DEF IInv
<1>3. spojenie'[h] = << >> /\ spojenie'[Super(h)] = << >>
  BY <1>1, <1>2, PrijataVyprazdni
<1>4. \A g \in Hraci : spojenie'[g] = << >>
  BY <1>3 DEF Super, Hraci
<1>5. spojenie' = [g \in Hraci |-> spojenie'[g]]
  BY <1>1 DEF IInv, TypeOK
<1>6. << >> \in Seq(Spravy)
  OBVIOUS
<1>7. spojenie' \in [Hraci -> Seq(Spravy)]
  BY <1>4, <1>5, <1>6
<1>8. SpravaSedi(h, Head(spojenie[h]))
  BY <1>1 DEF IInv, NaCeste
<1>9. ~tahHraca1[0] /\ tahHraca1[1] /\ spojenie[Super(h)] = << >>
  BY <1>1, <1>2 DEF Striedanie
<1> QED BY <1>1, <1>4, <1>7, <1>8, <1>9

\* A move typed and accepted: the sender goes one ply ahead, and what it sends, if
\* anything, is what takes the receiver after it.
LEMMA MojTahZachova ==
  ASSUME IInv, NEW h \in Hraci, NEW t \in Zadane(h), MojTah(h, t[1], t[2])
  PROVE  IInv'
<1> DEFINE g == Super(h)
           from == t[1]
           to == t[2]
<1>1. g \in Hraci /\ g # h /\ Super(g) = h /\ Hraci = {g, h}
      /\ \/ g = 0 /\ h = 1
         \/ g = 1 /\ h = 0
  BY DEF Super, Hraci
<1>2. /\ from \in Policka /\ to \in Policka /\ t = <<from, to>>
      /\ poradie[h] \in DOMAIN Partia
  BY ZadaneTahy
<1> HIDE DEF g, from, to
<1>3. /\ ~gameOver[h] /\ NaTahu(h) /\ Moja(hraciePole[h], from, tahHraca1[h])
      /\ poradie' = [poradie EXCEPT ![h] = @ + 1]
      /\ uvolnene' = uvolnene /\ kontumacia' = kontumacia
  BY DEF MojTah, from, to
<1>4. PICK r \in move(hraciePole[h], from, to), volba \in Volby, chyby \in ChybySiete :
        LET b == zmenPesiaka(r.b, to, volba)
        IN  /\ r.ok
            /\ Posli(h, [from |-> from, to |-> to, typ |-> b.type[b.policka[to]]], chyby)
            /\ PoKontrole(h, b, ~tahHraca1[h], chyby = POKUSY)
  BY DEF MojTah, from, to
<1> DEFINE b   == zmenPesiaka(r.b, to, volba)
           typ == b.type[b.policka[to]]
           s   == [from |-> from, to |-> to, typ |-> typ]
<1>5. r.ok /\ Posli(h, s, chyby) /\ PoKontrole(h, b, ~tahHraca1[h], chyby = POKUSY)
  BY <1>4
<1>6. ~uvolnene[h] /\ Zdrava(hraciePole[h]) /\ PesiaciSedia(hraciePole[h])
  BY <1>3, HraSaNeuvolnena, ZdravaHra
<1>7. Zdrava(b) /\ PesiaciSedia(b)
  BY <1>2, <1>5, <1>6, MoveZachova, MovePesiaci, ZmenPesiakaZachova
<1>8. Striedanie' /\ Striedanie /\ tahHraca1 \in [Hraci -> BOOLEAN]
  <2>1. [Next]_vars
    BY DEF Next
  <2>2. Striedanie /\ tahHraca1 \in [Hraci -> BOOLEAN]
    BY DEF IInv, TypeOK
  <2> QED BY <2>1, <2>2, NextStriedanie
<1>9. /\ \A k \in Hraci : spojenie[k] = << >>
      /\ tahHraca1[0] = tahHraca1[1] /\ tahHraca1[g] = tahHraca1[h]
  BY <1>1, <1>3, <1>8, NaTahuNicNaCeste
<1>10. poradie[0] = poradie[1] /\ poradie[g] = poradie[h]
       /\ Zhodne(hraciePole[h], hraciePole[g])
  <2>1. poradie[0] = poradie[1] /\ Zhodne(hraciePole[0], hraciePole[1])
    BY <1>9 DEF IInv, RovnakaHra
  <2> QED BY <1>1, <2>1, ZhodneSymetricke
<1> HIDE DEF b
<1>11. /\ KrokHry(h) /\ LenOznacene(b, hraciePole'[h])
       /\ tahHraca1' = [tahHraca1 EXCEPT ![h] = ~tahHraca1[h]]
  <2>1. (chyby = POKUSY) \in BOOLEAN /\ (~tahHraca1[h]) \in BOOLEAN
    BY Zenon
  <2> QED BY <1>3, <1>5, <1>7, <2>1, PoKontroleHry
<1>12. hraciePole'[g] = hraciePole[g]
  BY <1>11 DEF KrokHry, g
<1>13. /\ poradie' \in [Hraci -> 1..(Len(Partia) + 1)]
       /\ poradie'[h] = poradie[h] + 1 /\ poradie'[g] = poradie[g] /\ poradie[h] \in Nat
  BY <1>2, <1>3, DalsiePoradie DEF g
<1>14. /\ tahHraca1'[h] = ~tahHraca1[h] /\ tahHraca1'[g] = tahHraca1[g]
       /\ tahHraca1'[0] # tahHraca1'[1]
  BY <1>1, <1>8, <1>9, <1>11
<1>15. RovnakaHra'
  <2>1. poradie'[0] # poradie'[1]
    BY <1>1, <1>10, <1>13
  <2> QED BY <1>14, <2>1 DEF RovnakaHra
<1>16. typ \in Typy
  <2>1. b.type \in [Id -> Typy] /\ b.policka[to] \in Id
    BY <1>2, <1>7 DEF Zdrava, Board
  <2> QED BY <2>1
<1> HIDE DEF typ
<1>17. s \in Spravy /\ s.from = from /\ s.to = to /\ s.typ = typ
  BY <1>2, <1>16 DEF Spravy
<1>18. \/ spojenie' = spojenie
       \/ ~uvolnene[g] /\ spojenie' = [spojenie EXCEPT ![g] = Append(@, s)]
  BY <1>5 DEF Posli, g
<1> HIDE DEF s
<1>19. \/ spojenie' = spojenie
       \/ ~uvolnene[g] /\ spojenie'[g] = <<s>> /\ spojenie'[h] = << >>
  <2>1. spojenie \in [Hraci -> Seq(Spravy)]
    BY DEF IInv, TypeOK
  <2>2. Append(spojenie[g], s) = <<s>>
    BY <1>1, <1>9, JednaVlozena
  <2> QED BY <1>1, <1>9, <1>18, <2>1, <2>2
<1>20. spojenie' \in [Hraci -> Seq(Spravy)]
  <2>1. spojenie \in [Hraci -> Seq(Spravy)]
    BY DEF IInv, TypeOK
  <2>2. \A k \in Hraci : Append(spojenie[k], s) \in Seq(Spravy)
    BY <1>17, <2>1
  <2> QED BY <1>1, <1>18, <2>1, <2>2
<1>21. NaCeste'
  <2> SUFFICES ASSUME NEW k \in Hraci, spojenie'[k] # << >>,
                      NEW m, m = Head(spojenie'[k])
               PROVE  SpravaSedi(k, m)'
    BY DEF NaCeste
  <2>1. k = g /\ m = s /\ ~uvolnene[g]
    BY <1>1, <1>9, <1>19, HlavaJednej
  <2>2. Zdrava(hraciePole[g])
    BY <1>1, <2>1, ZdravaHra
  <2>3. /\ TypVSprave(PoTahu(hraciePole[g], from, to), to, typ)
        /\ Zhodne(PoSprave(hraciePole[g], from, to, typ), b)
    BY <1>2, <1>5, <1>6, <1>10, <2>2, MojTahSprava DEF b, typ
  <2>4. Zhodne(PoSprave(hraciePole[g], from, to, typ), hraciePole'[h])
    BY <1>11, <2>3, ZhodneSOznacenou
  <2>5. Moja(hraciePole[g], from, tahHraca1'[g])
    BY <1>3, <1>9, <1>10, <1>14 DEF Moja, Farba, Zhodne
  <2>6. <<from, to>> \in Zadane(g)'
    <3>1. t \in Zadane(h)
      OBVIOUS
    <3>2. Zadane(g)' = Zadane(h)
      BY <1>10, <1>13 DEF Zadane
    <3> QED BY <1>2, <3>1, <3>2
  <2>7. poradie'[h] = poradie'[g] + 1
    BY <1>10, <1>13
  <2> QED BY <1>1, <1>12, <1>17, <2>1, <2>3, <2>4, <2>5, <2>6, <2>7 DEF SpravaSedi
<1>22. kontumacia' \in [Hraci -> {"nie", "zly tah", "nezaslal"}]
  BY <1>3 DEF IInv, TypeOK
<1> QED BY <1>6, <1>8, <1>11, <1>13, <1>15, <1>20, <1>21, <1>22, KrokZachova

\* A move received and accepted: the replicas agree again.
LEMMA PrijmiTahZachova ==
  ASSUME IInv, NEW h \in Hraci, PrijmiTah(h)
  PROVE  IInv'
<1> DEFINE g == Super(h)
           s == Head(spojenie[h])
<1>1. g \in Hraci /\ g # h /\ Super(g) = h /\ Hraci = {g, h}
      /\ \/ g = 0 /\ h = 1
         \/ g = 1 /\ h = 0
  BY DEF Super, Hraci
<1>2. /\ SpravaSedi(h, s)
      /\ spojenie' \in [Hraci -> Seq(Spravy)]
      /\ \A k \in Hraci : spojenie'[k] = << >>
      /\ ~tahHraca1[0] /\ tahHraca1[1]
      /\ ~gameOver[h] /\ uvolnene' = uvolnene
  BY JednaPrijata DEF PrijmiTah
<1>3. PICK r \in move(hraciePole[h], s.from, s.to) :
        r.ok /\ PoKontrole(h, SpravaZmeni(r.b, s.to, s.typ), ~tahHraca1[h], FALSE)
  BY DEF PrijmiTah, SpravaZmeni
<1>4. poradie' = [poradie EXCEPT ![h] = @ + 1] /\ kontumacia' = kontumacia
  BY DEF PrijmiTah
<1> HIDE DEF g, s
<1>5. ~uvolnene[h] /\ Zdrava(hraciePole[h]) /\ PesiaciSedia(hraciePole[h])
  BY <1>2, HraSaNeuvolnena, ZdravaHra
<1>6. /\ s.from \in Policka /\ s.to \in Policka /\ poradie[h] \in DOMAIN Partia
      /\ TypVSprave(PoTahu(hraciePole[h], s.from, s.to), s.to, s.typ)
      /\ Zhodne(PoSprave(hraciePole[h], s.from, s.to, s.typ), hraciePole[g])
      /\ poradie[g] = poradie[h] + 1
  BY <1>2 DEF SpravaSedi, Spravy, Zadane, g
<1> DEFINE b == SpravaZmeni(r.b, s.to, s.typ)
<1>7. /\ \E volba \in Volby : b = zmenPesiaka(r.b, s.to, volba)
      /\ Zhodne(PoSprave(hraciePole[h], s.from, s.to, s.typ), b)
  BY <1>3, <1>5, <1>6, PrijataZmenena
<1>8. Zdrava(b) /\ PesiaciSedia(b)
  <2>1. PICK volba \in Volby : b = zmenPesiaka(r.b, s.to, volba)
    BY <1>7
  <2>2. /\ Zdrava(zmenPesiaka(r.b, s.to, volba))
        /\ PesiaciSedia(zmenPesiaka(r.b, s.to, volba))
    BY <1>3, <1>5, <1>6, MoveZachova, MovePesiaci, ZmenPesiakaZachova
  <2> HIDE DEF b
  <2> QED BY <2>1, <2>2
<1> HIDE DEF b
<1>9. PoKontrole(h, b, ~tahHraca1[h], FALSE)
  BY <1>3 DEF b
<1>10. /\ KrokHry(h) /\ LenOznacene(b, hraciePole'[h])
       /\ tahHraca1' = [tahHraca1 EXCEPT ![h] = ~tahHraca1[h]]
  <2>1. FALSE \in BOOLEAN /\ (~tahHraca1[h]) \in BOOLEAN
    BY Zenon
  <2> QED BY <1>2, <1>8, <1>9, <2>1, PoKontroleHry
<1>11. hraciePole'[g] = hraciePole[g]
  BY <1>10 DEF KrokHry, g
<1>12. Striedanie' /\ tahHraca1 \in [Hraci -> BOOLEAN]
  BY PrijmiTahStriedanie DEF IInv, TypeOK
<1>13. tahHraca1'[0] = tahHraca1'[1]
  BY <1>1, <1>2, <1>10, <1>12 DEF Hraci
<1>14. /\ poradie' \in [Hraci -> 1..(Len(Partia) + 1)]
       /\ poradie'[h] = poradie[h] + 1 /\ poradie'[g] = poradie[g]
  BY <1>4, <1>6, DalsiePoradie DEF g
<1>15. RovnakaHra'
  <2>1. poradie'[0] = poradie'[1]
    BY <1>1, <1>6, <1>14
  <2>2. Zhodne(hraciePole'[h], hraciePole'[g]) /\ Zhodne(hraciePole'[g], hraciePole'[h])
    BY <1>6, <1>7, <1>10, <1>11, ZhodneSOznacenou, ZhodneSymetricke, ZhodneTranzitivne
  <2>3. Zhodne(hraciePole'[0], hraciePole'[1])
    BY <1>1, <2>2
  <2> QED BY <1>13, <2>1, <2>3 DEF RovnakaHra
<1>16. NaCeste'
  BY <1>2 DEF NaCeste
<1>17. kontumacia' \in [Hraci -> {"nie", "zly tah", "nezaslal"}]
  BY <1>4 DEF IInv, TypeOK
<1> QED BY <1>2, <1>5, <1>10, <1>12, <1>14, <1>15, <1>16, <1>17, KrokZachova

\* A move typed and rejected: only marks and empty squares differ.
LEMMA NepovolenyPohybZachova ==
  ASSUME IInv, NEW h \in Hraci, NEW t \in Zadane(h), NepovolenyPohyb(h, t[1], t[2])
  PROVE  IInv'
<1>1. t[1] \in Policka /\ t[2] \in Policka
  BY ZadaneTahy
<1>2. PICK r \in move(hraciePole[h], t[1], t[2]) :
        ~r.ok /\ hraciePole' = [hraciePole EXCEPT ![h] = r.b]
  BY DEF NepovolenyPohyb
<1>3. /\ ~gameOver[h] /\ NaTahu(h)
      /\ tahHraca1' = tahHraca1 /\ gameOver' = gameOver /\ verdikt' = verdikt
      /\ uvolnene' = uvolnene /\ poradie' = poradie /\ kontumacia' = kontumacia
      /\ spojenie' = spojenie
  BY DEF NepovolenyPohyb
<1>4. ~uvolnene[h] /\ Zdrava(hraciePole[h]) /\ PesiaciSedia(hraciePole[h])
  BY <1>3, HraSaNeuvolnena, ZdravaHra
<1>5. Zdrava(r.b) /\ Vratena(hraciePole[h], r.b) /\ PesiaciSedia(r.b)
  BY <1>1, <1>2, <1>4, MoveZachova, MovePesiaci
<1>6. /\ hraciePole' \in [Hraci -> Board] /\ hraciePole'[h] = r.b
      /\ hraciePole'[Super(h)] = hraciePole[Super(h)]
  <2>1. r.b \in Board /\ hraciePole \in [Hraci -> Board]
    BY <1>5 DEF IInv, TypeOK, Zdrava
  <2>2. Super(h) # h /\ Super(h) \in Hraci
    BY DEF Super, Hraci
  <2> QED BY <1>2, <2>1, <2>2
<1>7. KrokHry(h)
  BY <1>3, <1>5, <1>6 DEF KrokHry, IInv, TypeOK
<1>8. Striedanie /\ Striedanie'
  BY <1>3 DEF IInv, Striedanie
<1>9. \A g \in Hraci : spojenie[g] = << >>
  BY <1>3, <1>8, NaTahuNicNaCeste
<1>10. Zhodne(hraciePole[h], hraciePole'[h])
  BY <1>5, <1>6, VratenaJeZhodna DEF Vratena
<1>11. BezTahu(h)
  BY <1>3, <1>6, <1>9, <1>10 DEF BezTahu
<1>12. NaCeste' /\ RovnakaHra'
  BY <1>11, BezTahuZachova
<1> QED BY <1>3, <1>4, <1>7, <1>8, <1>12, KrokZachova DEF IInv, TypeOK

\* A move received and rejected.
LEMMA PrijmiZlyTahZachova ==
  ASSUME IInv, NEW h \in Hraci, PrijmiZlyTah(h)
  PROVE  IInv'
<1> DEFINE s == Head(spojenie[h])
<1>1. /\ SpravaSedi(h, s)
      /\ spojenie' \in [Hraci -> Seq(Spravy)]
      /\ \A k \in Hraci : spojenie'[k] = << >>
      /\ spojenie[Super(h)] = << >>
      /\ ~gameOver[h] /\ uvolnene' = uvolnene
  BY JednaPrijata DEF PrijmiZlyTah
<1>2. PICK r \in move(hraciePole[h], s.from, s.to) :
        ~r.ok /\ PoKontrole(h, r.b, tahHraca1[h], TRUE)
  BY DEF PrijmiZlyTah
<1>3. poradie' = poradie /\ kontumacia' = [kontumacia EXCEPT ![h] = "zly tah"]
  BY DEF PrijmiZlyTah
<1> HIDE DEF s
<1>4. ~uvolnene[h] /\ Zdrava(hraciePole[h]) /\ PesiaciSedia(hraciePole[h])
  BY <1>1, HraSaNeuvolnena, ZdravaHra
<1>5. s.from \in Policka /\ s.to \in Policka
  BY <1>1 DEF SpravaSedi, Spravy
<1>6. Zdrava(r.b) /\ Vratena(hraciePole[h], r.b) /\ PesiaciSedia(r.b)
  BY <1>2, <1>4, <1>5, MoveZachova, MovePesiaci
<1>7. tahHraca1 \in [Hraci -> BOOLEAN] /\ tahHraca1[h] \in BOOLEAN
  BY DEF IInv, TypeOK
<1>8. /\ KrokHry(h) /\ LenOznacene(r.b, hraciePole'[h])
      /\ tahHraca1' = [tahHraca1 EXCEPT ![h] = tahHraca1[h]]
  BY <1>1, <1>2, <1>6, <1>7, PoKontroleHry
<1>9. tahHraca1' = tahHraca1
  BY <1>7, <1>8
<1>10. Zhodne(hraciePole[h], hraciePole'[h])
  BY <1>6, <1>8, VratenaJeZhodna, ZhodneSOznacenou DEF Vratena
<1>11. BezTahu(h)
  BY <1>1, <1>3, <1>8, <1>9, <1>10, SuperFakty DEF BezTahu, KrokHry
<1>12. NaCeste' /\ RovnakaHra'
  BY <1>11, BezTahuZachova
<1>13. Striedanie'
  BY PrijmiZlyTahStriedanie DEF IInv
<1>14. poradie' \in [Hraci -> 1..(Len(Partia) + 1)]
  BY <1>3 DEF IInv, TypeOK
<1>15. kontumacia' \in [Hraci -> {"nie", "zly tah", "nezaslal"}]
  BY <1>3 DEF IInv, TypeOK
<1> QED BY <1>1, <1>4, <1>8, <1>12, <1>13, <1>14, <1>15, KrokZachova

\* The end of the connection.
LEMMA NezaslalTahZachova ==
  ASSUME IInv, NEW h \in Hraci, NezaslalTah(h)
  PROVE  IInv'
<1>1. /\ ~gameOver[h] /\ spojenie[h] = << >>
      /\ PoKontrole(h, hraciePole[h], tahHraca1[h], TRUE)
      /\ kontumacia' = [kontumacia EXCEPT ![h] = "nezaslal"]
      /\ uvolnene' = uvolnene /\ poradie' = poradie /\ spojenie' = spojenie
  BY DEF NezaslalTah
<1>2. ~uvolnene[h] /\ Zdrava(hraciePole[h]) /\ PesiaciSedia(hraciePole[h])
  BY <1>1, HraSaNeuvolnena, ZdravaHra
<1>3. tahHraca1 \in [Hraci -> BOOLEAN] /\ tahHraca1[h] \in BOOLEAN
  BY DEF IInv, TypeOK
<1>4. /\ KrokHry(h) /\ LenOznacene(hraciePole[h], hraciePole'[h])
      /\ tahHraca1' = [tahHraca1 EXCEPT ![h] = tahHraca1[h]]
  BY <1>1, <1>2, <1>3, PoKontroleHry
<1>5. tahHraca1' = tahHraca1
  BY <1>3, <1>4
<1>6. BezTahu(h)
  BY <1>1, <1>4, <1>5, OznacenaJeZhodna DEF BezTahu, KrokHry
<1>7. NaCeste' /\ RovnakaHra'
  BY <1>6, BezTahuZachova
<1>8. Striedanie'
  BY <1>1, <1>5 DEF IInv, Striedanie
<1>9. /\ poradie' \in [Hraci -> 1..(Len(Partia) + 1)]
      /\ spojenie' \in [Hraci -> Seq(Spravy)]
  BY <1>1 DEF IInv, TypeOK
<1>10. kontumacia' \in [Hraci -> {"nie", "zly tah", "nezaslal"}]
  BY <1>1 DEF IInv, TypeOK
<1> QED BY <1>2, <1>4, <1>7, <1>8, <1>9, <1>10, KrokZachova

\* Freed objects leave the other fields of a board alone.
LEMMA UvolnenyBoard ==
  ASSUME NEW c \in Board, NEW S
  PROVE  LET b == [c EXCEPT !.live = @ \ S]
         IN  /\ b \in Board /\ b.policka = c.policka /\ b.pos = c.pos
             /\ b.type = c.type /\ b.onBoard = c.onBoard
             /\ b.movedAlready = c.movedAlready
             /\ b.lostBlack = c.lostBlack /\ b.lostWhite = c.lostWhite
BY DEF Board

\* cleanUP frees the objects and drops what was received.
LEMMA CleanUPZachova ==
  ASSUME IInv, NEW h \in Hraci, cleanUP(h)
  PROVE  IInv'
<1> DEFINE g == Super(h)
           b == [hraciePole[h] EXCEPT !.live = @ \ Uvolni(hraciePole[h])]
<1>1. g \in Hraci /\ g # h /\ Hraci = {g, h}
  BY DEF Super, Hraci
<1>2. TypeOK /\ HryZdrave
  BY DEF IInv
<1>3. /\ gameOver[h] /\ ~uvolnene[h]
      /\ uvolnene' = [uvolnene EXCEPT ![h] = TRUE]
      /\ hraciePole' = [hraciePole EXCEPT ![h] = b]
      /\ spojenie' = [spojenie EXCEPT ![h] = << >>]
      /\ tahHraca1' = tahHraca1 /\ gameOver' = gameOver /\ verdikt' = verdikt
      /\ poradie' = poradie /\ kontumacia' = kontumacia
  BY DEF cleanUP
<1>4. /\ b \in Board /\ b.policka = hraciePole[h].policka /\ b.pos = hraciePole[h].pos
      /\ b.type = hraciePole[h].type /\ b.onBoard = hraciePole[h].onBoard
      /\ b.movedAlready = hraciePole[h].movedAlready
      /\ b.lostBlack = hraciePole[h].lostBlack /\ b.lostWhite = hraciePole[h].lostWhite
  <2>1. hraciePole[h] \in Board
    BY <1>2 DEF TypeOK
  <2> QED BY <2>1, UvolnenyBoard
<1> HIDE DEF b, g
<1>5. /\ hraciePole' \in [Hraci -> Board] /\ hraciePole'[h] = b
      /\ hraciePole'[g] = hraciePole[g]
  BY <1>1, <1>2, <1>3, <1>4 DEF TypeOK
<1>6. /\ uvolnene' \in [Hraci -> BOOLEAN] /\ uvolnene'[h] /\ uvolnene'[g] = uvolnene[g]
  BY <1>1, <1>2, <1>3 DEF TypeOK
<1>7. /\ spojenie' \in [Hraci -> Seq(Spravy)] /\ spojenie'[h] = << >>
      /\ spojenie'[g] = spojenie[g]
  <2>1. << >> \in Seq(Spravy)
    OBVIOUS
  <2> QED BY <1>1, <1>2, <1>3, <2>1 DEF TypeOK
<1>8. Postavenie(hraciePole'[h])
  <2>1. Postavenie(hraciePole[h])
    BY <1>2 DEF HryZdrave
  <2> QED BY <1>4, <1>5, <2>1 DEF Postavenie, BlokJeBezFigury, KdeStoja,
                                  StrateneSuPrec, PesiaciSedia
<1>9. HryZdrave'
  <2> SUFFICES ASSUME NEW k \in Hraci
               PROVE  /\ Postavenie(hraciePole'[k])
                      /\ uvolnene'[k] => gameOver'[k]
                      /\ ~uvolnene'[k] => hraciePole'[k].live = Uvolni(hraciePole'[k])
    BY DEF HryZdrave
  <2>1. CASE k = h
    BY <1>3, <1>6, <1>8, <2>1
  <2>2. CASE k = g
    BY <1>1, <1>2, <1>3, <1>5, <1>6, <2>2 DEF HryZdrave
  <2> QED BY <1>1, <2>1, <2>2
<1>10. TypeOK'
  BY <1>2, <1>3, <1>5, <1>6, <1>7 DEF TypeOK
<1>11. Zhodne(hraciePole[h], hraciePole'[h])
  BY <1>4, <1>5 DEF Zhodne
<1>12. NaCeste' /\ RovnakaHra'
  <2>1. BezTahu(h)
    BY <1>3, <1>5, <1>7, <1>11 DEF BezTahu, g
  <2> QED BY <2>1, BezTahuZachova
<1>13. Striedanie'
  BY CleanUPStriedanie DEF IInv
<1> QED BY <1>9, <1>10, <1>12, <1>13 DEF IInv

\* setUpGame and the connection establish the invariant.
LEMMA InitIInv == Init => IInv
<1> SUFFICES ASSUME Init PROVE IInv
  OBVIOUS
<1>1. Zdrava(initBoard) /\ PesiaciSedia(initBoard)
  BY InitBoardZdrava, InitBoardPesiaci
<1>2. /\ \A h \in Hraci : /\ hraciePole[h] = initBoard /\ ~uvolnene[h]
                          /\ spojenie[h] = << >> /\ poradie[h] = 1
      /\ tahHraca1[0] /\ tahHraca1[1] /\ 0 \in Hraci /\ 1 \in Hraci
  BY DEF Init, Hraci
<1>3. HryZdrave
  BY <1>1, <1>2 DEF HryZdrave, Postavenie, Zdrava
<1>4. TypeOK
  <2>1. 1 \in 1..(Len(Partia) + 1)
    <3>1. Len(Partia) \in Nat
      BY PartiaAssumption
    <3> QED BY <3>1
  <2>2. << >> \in Seq(Spravy) /\ initBoard \in Board
    BY <1>1 DEF Zdrava
  <2> QED BY <2>1, <2>2 DEF Init, TypeOK
<1>5. NaCeste /\ RovnakaHra
  BY <1>2 DEF NaCeste, RovnakaHra, Zhodne
<1> QED BY <1>3, <1>4, <1>5, InitStriedanie DEF IInv

\* Every step of a match keeps the invariant.
LEMMA NextIInv == IInv /\ [Next]_vars => IInv'
<1> SUFFICES ASSUME IInv, [Next]_vars PROVE IInv'
  OBVIOUS
<1>1. ASSUME NEW h \in Hraci, NEW t \in Zadane(h), MojTah(h, t[1], t[2]) PROVE IInv'
  BY <1>1, MojTahZachova
<1>2. ASSUME NEW h \in Hraci, NEW t \in Zadane(h), NepovolenyPohyb(h, t[1], t[2])
      PROVE  IInv'
  BY <1>2, NepovolenyPohybZachova
<1>3. ASSUME NEW h \in Hraci, PrijmiTah(h) PROVE IInv'
  BY <1>3, PrijmiTahZachova
<1>4. ASSUME NEW h \in Hraci, PrijmiZlyTah(h) PROVE IInv'
  BY <1>4, PrijmiZlyTahZachova
<1>5. ASSUME NEW h \in Hraci, NezaslalTah(h) PROVE IInv'
  BY <1>5, NezaslalTahZachova
<1>6. ASSUME NEW h \in Hraci, cleanUP(h) PROVE IInv'
  BY <1>6, CleanUPZachova
<1>7. CASE UNCHANGED vars
  BY <1>7 DEF vars, IInv, TypeOK, Striedanie, HryZdrave, NaCeste, SpravaSedi, Zadane,
              RovnakaHra
<1> QED BY <1>1, <1>2, <1>3, <1>4, <1>5, <1>6, <1>7 DEF Next

\* The inductive invariant of a match: sound boards, turns in step, and a message
\* on its way that is exactly the difference between the two replicas.
THEOREM Invariant == Spec => []IInv
BY InitIInv, NextIInv, PTL DEF Spec

\* Every variable of both processes stays in its type, and every message is one
\* the sender's move could have made.
THEOREM TypSpravny == Spec => []TypeOK
<1>1. IInv => TypeOK
  BY DEF IInv
<1> QED BY <1>1, Invariant, PTL

\* Two processes that have played the same plies have the same pieces of the same
\* type on the same squares and the same pieces lost, in any game, although each
\* keeps its own marks, promotes on its own and may lose the connection.
THEOREM ReplikySaZhoduju == Spec => []ZhodaPostavenia
<1>1. IInv => ZhodaPostavenia
  BY DEF IInv, RovnakaHra, Zhodne, ZhodaPostavenia
<1> QED BY <1>1, Invariant, PTL

\* On neither replica is a pawn left on the last row, although the receiver of a
\* promotion takes the type from the message instead of running zmenPesiaka.
THEOREM PesiaciStoja == Spec => []PesiaciNaMieste
<1>1. IInv => PesiaciNaMieste
  BY DEF IInv, HryZdrave, Postavenie, PesiaciNaMieste
<1> QED BY <1>1, Invariant, PTL

-----------------------------------------------------------------------------
(* Each process of a match plays a ChessProcess.  First the steps of one    *)
(* process, whatever the other does: what ChessProcess says of its variables. *)

PoKontroleSam(h, b, biely, koniec) ==
  \E m \in checkMat(b, KralHraca(biely)) :
    /\ hraciePole'[h] = m.b
    /\ tahHraca1'[h]  = biely
    /\ gameOver'[h]   = (koniec \/ m.koniec)
    /\ verdikt'[h]    = (IF ~m.koniec THEN verdikt[h] ELSE IF m.mat THEN "mat" ELSE "pat")

MojTahSam(h, from, to) ==
  /\ ~gameOver[h] /\ NaTahu(h) /\ Moja(hraciePole[h], from, tahHraca1[h])
  /\ \E r \in move(hraciePole[h], from, to), volba \in Volby, chyby \in ChybySiete :
       /\ r.ok
       /\ PoKontroleSam(h, zmenPesiaka(r.b, to, volba), ~tahHraca1[h], chyby = POKUSY)
  /\ poradie'[h] = poradie[h] + 1 /\ uvolnene'[h] = uvolnene[h]

NepovolenyPohybSam(h, from, to) ==
  /\ ~gameOver[h] /\ NaTahu(h) /\ Moja(hraciePole[h], from, tahHraca1[h])
  /\ \E r \in move(hraciePole[h], from, to) : ~r.ok /\ hraciePole'[h] = r.b
  /\ tahHraca1'[h] = tahHraca1[h] /\ gameOver'[h] = gameOver[h]
  /\ verdikt'[h] = verdikt[h] /\ uvolnene'[h] = uvolnene[h] /\ poradie'[h] = poradie[h]

PrijmiTahSam(h, from, to) ==
  /\ ~gameOver[h] /\ ~NaTahu(h) /\ Moja(hraciePole[h], from, tahHraca1[h])
  /\ \E r \in move(hraciePole[h], from, to), volba \in Volby :
       /\ r.ok
       /\ PoKontroleSam(h, zmenPesiaka(r.b, to, volba), ~tahHraca1[h], FALSE)
  /\ poradie'[h] = poradie[h] + 1 /\ uvolnene'[h] = uvolnene[h]

PrijmiZlyTahSam(h, from, to) ==
  /\ ~gameOver[h] /\ ~NaTahu(h) /\ Moja(hraciePole[h], from, tahHraca1[h])
  /\ \E r \in move(hraciePole[h], from, to) :
       ~r.ok /\ PoKontroleSam(h, r.b, tahHraca1[h], TRUE)
  /\ uvolnene'[h] = uvolnene[h] /\ poradie'[h] = poradie[h]

NezaslalTahSam(h) ==
  /\ ~gameOver[h] /\ ~NaTahu(h)
  /\ PoKontroleSam(h, hraciePole[h], tahHraca1[h], TRUE)
  /\ uvolnene'[h] = uvolnene[h] /\ poradie'[h] = poradie[h]

cleanUPSam(h) ==
  /\ gameOver[h] /\ ~uvolnene[h] /\ uvolnene'[h] = TRUE
  /\ hraciePole'[h] = [hraciePole[h] EXCEPT !.live = @ \ Uvolni(hraciePole[h])]
  /\ tahHraca1'[h] = tahHraca1[h] /\ gameOver'[h] = gameOver[h]
  /\ verdikt'[h] = verdikt[h] /\ poradie'[h] = poradie[h]

NextSam(h) ==
  \/ \E t \in Zadane(h) : \/ MojTahSam(h, t[1], t[2])
                          \/ NepovolenyPohybSam(h, t[1], t[2])
                          \/ PrijmiTahSam(h, t[1], t[2])
                          \/ PrijmiZlyTahSam(h, t[1], t[2])
  \/ NezaslalTahSam(h)
  \/ cleanUPSam(h)

BezZmeny(h) ==
  /\ hraciePole'[h] = hraciePole[h] /\ tahHraca1'[h] = tahHraca1[h]
  /\ gameOver'[h] = gameOver[h] /\ verdikt'[h] = verdikt[h]
  /\ uvolnene'[h] = uvolnene[h] /\ poradie'[h] = poradie[h]

\* The end of the loop body of h is the end of the loop body of its process, and
\* leaves the other process alone.
LEMMA PoKontroleJeSam ==
  ASSUME TypeOK, NEW h \in Hraci, NEW b, NEW biely, NEW koniec,
         PoKontrole(h, b, biely, koniec)
  PROVE  /\ PoKontroleSam(h, b, biely, koniec)
         /\ \A k \in Hraci \ {h} :
              /\ hraciePole'[k] = hraciePole[k] /\ tahHraca1'[k] = tahHraca1[k]
              /\ gameOver'[k] = gameOver[k] /\ verdikt'[k] = verdikt[k]
<1>1. PICK m \in checkMat(b, KralHraca(biely)) :
        /\ hraciePole' = [hraciePole EXCEPT ![h] = m.b]
        /\ tahHraca1'  = [tahHraca1 EXCEPT ![h] = biely]
        /\ gameOver'   = [gameOver EXCEPT ![h] = koniec \/ m.koniec]
        /\ verdikt'    = [verdikt EXCEPT ![h] = IF ~m.koniec THEN @
                                                ELSE IF m.mat THEN "mat" ELSE "pat"]
  BY Zenon DEF PoKontrole
<1>2. /\ hraciePole \in [Hraci -> Board] /\ tahHraca1 \in [Hraci -> BOOLEAN]
      /\ gameOver \in [Hraci -> BOOLEAN]
      /\ verdikt \in [Hraci -> {"ziadny", "mat", "pat"}]
  BY DEF TypeOK
<1>3. hraciePole'[h] = m.b /\ tahHraca1'[h] = biely
  BY <1>1, <1>2
<1>4. gameOver'[h] = (koniec \/ m.koniec)
  BY <1>1, <1>2
<1>5. verdikt'[h] = (IF ~m.koniec THEN verdikt[h] ELSE IF m.mat THEN "mat" ELSE "pat")
  BY <1>1, <1>2
<1>6. \A k \in Hraci \ {h} :
        /\ hraciePole'[k] = hraciePole[k] /\ tahHraca1'[k] = tahHraca1[k]
        /\ gameOver'[k] = gameOver[k] /\ verdikt'[k] = verdikt[k]
  BY <1>1, <1>2
<1>7. PoKontroleSam(h, b, biely, koniec)
  BY <1>3, <1>4, <1>5, Zenon DEF PoKontroleSam
<1> QED BY <1>6, <1>7

\* Another ply of h is no ply of the other process.
LEMMA PoradieSam ==
  ASSUME TypeOK, NEW h \in Hraci, poradie' = [poradie EXCEPT ![h] = @ + 1]
  PROVE  /\ poradie'[h] = poradie[h] + 1
         /\ \A k \in Hraci \ {h} : poradie'[k] = poradie[k]
BY DEF TypeOK

\* A move typed.
LEMMA MojTahJeSam ==
  ASSUME TypeOK, NEW h \in Hraci, NEW from, NEW to, MojTah(h, from, to)
  PROVE  MojTahSam(h, from, to) /\ \A k \in Hraci \ {h} : BezZmeny(k)
<1>1. PICK r \in move(hraciePole[h], from, to), volba \in Volby, chyby \in ChybySiete :
        r.ok /\ PoKontrole(h, zmenPesiaka(r.b, to, volba), ~tahHraca1[h], chyby = POKUSY)
  BY DEF MojTah
<1>2. /\ PoKontroleSam(h, zmenPesiaka(r.b, to, volba), ~tahHraca1[h], chyby = POKUSY)
      /\ \A k \in Hraci \ {h} :
           /\ hraciePole'[k] = hraciePole[k] /\ tahHraca1'[k] = tahHraca1[k]
           /\ gameOver'[k] = gameOver[k] /\ verdikt'[k] = verdikt[k]
  BY <1>1, PoKontroleJeSam
<1>3. /\ ~gameOver[h] /\ NaTahu(h) /\ Moja(hraciePole[h], from, tahHraca1[h])
      /\ poradie' = [poradie EXCEPT ![h] = @ + 1] /\ uvolnene' = uvolnene
  BY DEF MojTah
<1> QED BY <1>1, <1>2, <1>3, PoradieSam DEF MojTahSam, BezZmeny

\* A move typed and rejected.
LEMMA NepovolenyPohybJeSam ==
  ASSUME TypeOK, NEW h \in Hraci, NEW from, NEW to, NepovolenyPohyb(h, from, to)
  PROVE  NepovolenyPohybSam(h, from, to) /\ \A k \in Hraci \ {h} : BezZmeny(k)
<1>1. PICK r \in move(hraciePole[h], from, to) :
        ~r.ok /\ hraciePole' = [hraciePole EXCEPT ![h] = r.b]
  BY DEF NepovolenyPohyb
<1>2. hraciePole'[h] = r.b /\ \A k \in Hraci \ {h} : hraciePole'[k] = hraciePole[k]
  BY <1>1 DEF TypeOK
<1> QED BY <1>1, <1>2 DEF NepovolenyPohyb, NepovolenyPohybSam, BezZmeny

\* A message received and accepted is a move of the peer accepted: it is one the peer
\* may make, of the side on move, and its type is a choice of zmenPesiaka.
LEMMA PrijmiTahJeSam ==
  ASSUME IInv, NEW h \in Hraci, PrijmiTah(h)
  PROVE  /\ \E t \in Zadane(h) : PrijmiTahSam(h, t[1], t[2])
         /\ \A k \in Hraci \ {h} : BezZmeny(k)
<1> DEFINE s == Head(spojenie[h])
<1>1. SpravaSedi(h, s) /\ ~gameOver[h] /\ uvolnene' = uvolnene
  BY JednaPrijata DEF PrijmiTah
<1>2. PICK r \in move(hraciePole[h], s.from, s.to) :
        r.ok /\ PoKontrole(h, SpravaZmeni(r.b, s.to, s.typ), ~tahHraca1[h], FALSE)
  BY DEF PrijmiTah, SpravaZmeni
<1>3. poradie' = [poradie EXCEPT ![h] = @ + 1] /\ ~NaTahu(h)
  BY DEF PrijmiTah, Prijmi
<1> HIDE DEF s
<1>4. /\ s.from \in Policka /\ s.to \in Policka /\ <<s.from, s.to>> \in Zadane(h)
      /\ Moja(hraciePole[h], s.from, tahHraca1[h])
      /\ TypVSprave(PoTahu(hraciePole[h], s.from, s.to), s.to, s.typ)
  BY <1>1 DEF SpravaSedi, Spravy
<1>5. Zdrava(hraciePole[h]) /\ TypeOK
  BY <1>1, HraSaNeuvolnena, ZdravaHra DEF IInv
<1>6. PICK volba \in Volby : SpravaZmeni(r.b, s.to, s.typ) = zmenPesiaka(r.b, s.to, volba)
  BY <1>2, <1>4, <1>5, PrijataZmenena
<1>7. /\ PoKontroleSam(h, zmenPesiaka(r.b, s.to, volba), ~tahHraca1[h], FALSE)
      /\ \A k \in Hraci \ {h} :
           /\ hraciePole'[k] = hraciePole[k] /\ tahHraca1'[k] = tahHraca1[k]
           /\ gameOver'[k] = gameOver[k] /\ verdikt'[k] = verdikt[k]
  BY <1>2, <1>5, <1>6, PoKontroleJeSam
<1>8. PrijmiTahSam(h, s.from, s.to)
  BY <1>1, <1>2, <1>3, <1>4, <1>5, <1>7, PoradieSam DEF PrijmiTahSam
<1>9. \A k \in Hraci \ {h} : BezZmeny(k)
  BY <1>1, <1>3, <1>5, <1>7, PoradieSam DEF BezZmeny
<1>10. \E t \in Zadane(h) : t[1] = s.from /\ t[2] = s.to
  BY <1>4
<1> QED BY <1>8, <1>9, <1>10

\* A message received and rejected.
LEMMA PrijmiZlyTahJeSam ==
  ASSUME IInv, NEW h \in Hraci, PrijmiZlyTah(h)
  PROVE  /\ \E t \in Zadane(h) : PrijmiZlyTahSam(h, t[1], t[2])
         /\ \A k \in Hraci \ {h} : BezZmeny(k)
<1> DEFINE s == Head(spojenie[h])
<1>1. SpravaSedi(h, s) /\ ~gameOver[h] /\ uvolnene' = uvolnene /\ TypeOK
  BY JednaPrijata DEF PrijmiZlyTah, IInv
<1>2. PICK r \in move(hraciePole[h], s.from, s.to) :
        ~r.ok /\ PoKontrole(h, r.b, tahHraca1[h], TRUE)
  BY DEF PrijmiZlyTah
<1>3. poradie' = poradie /\ ~NaTahu(h)
  BY DEF PrijmiZlyTah, Prijmi
<1> HIDE DEF s
<1>4. <<s.from, s.to>> \in Zadane(h) /\ Moja(hraciePole[h], s.from, tahHraca1[h])
  BY <1>1 DEF SpravaSedi
<1>5. /\ PoKontroleSam(h, r.b, tahHraca1[h], TRUE)
      /\ \A k \in Hraci \ {h} :
           /\ hraciePole'[k] = hraciePole[k] /\ tahHraca1'[k] = tahHraca1[k]
           /\ gameOver'[k] = gameOver[k] /\ verdikt'[k] = verdikt[k]
  BY <1>1, <1>2, PoKontroleJeSam
<1>6. PrijmiZlyTahSam(h, s.from, s.to)
  BY <1>1, <1>2, <1>3, <1>4, <1>5 DEF PrijmiZlyTahSam
<1>7. \A k \in Hraci \ {h} : BezZmeny(k)
  BY <1>1, <1>3, <1>5 DEF BezZmeny
<1>8. \E t \in Zadane(h) : t[1] = s.from /\ t[2] = s.to
  BY <1>4
<1> QED BY <1>6, <1>7, <1>8

\* A step of h is a step of its process and none of the other.
LEMMA KrokJeSam ==
  ASSUME IInv, NEW h \in Hraci, [Next]_vars
  PROVE  NextSam(h) \/ BezZmeny(h)
<1>1. TypeOK
  BY DEF IInv
<1>2. ASSUME NEW g \in Hraci, NEW t \in Zadane(g), MojTah(g, t[1], t[2])
      PROVE  NextSam(h) \/ BezZmeny(h)
  BY <1>1, <1>2, MojTahJeSam DEF NextSam
<1>3. ASSUME NEW g \in Hraci, NEW t \in Zadane(g), NepovolenyPohyb(g, t[1], t[2])
      PROVE  NextSam(h) \/ BezZmeny(h)
  BY <1>1, <1>3, NepovolenyPohybJeSam DEF NextSam
<1>4. ASSUME NEW g \in Hraci, PrijmiTah(g) PROVE NextSam(h) \/ BezZmeny(h)
  BY <1>4, PrijmiTahJeSam DEF NextSam
<1>5. ASSUME NEW g \in Hraci, PrijmiZlyTah(g) PROVE NextSam(h) \/ BezZmeny(h)
  BY <1>5, PrijmiZlyTahJeSam DEF NextSam
<1>6. ASSUME NEW g \in Hraci, NezaslalTah(g) PROVE NextSam(h) \/ BezZmeny(h)
  <2>1. PoKontrole(g, hraciePole[g], tahHraca1[g], TRUE)
    BY <1>6 DEF NezaslalTah
  <2>2. /\ PoKontroleSam(g, hraciePole[g], tahHraca1[g], TRUE)
        /\ \A k \in Hraci \ {g} :
             /\ hraciePole'[k] = hraciePole[k] /\ tahHraca1'[k] = tahHraca1[k]
             /\ gameOver'[k] = gameOver[k] /\ verdikt'[k] = verdikt[k]
    BY <1>1, <2>1, PoKontroleJeSam
  <2>3. NezaslalTahSam(g) /\ \A k \in Hraci \ {g} : BezZmeny(k)
    BY <1>6, <2>2 DEF NezaslalTah, NezaslalTahSam, BezZmeny
  <2> QED BY <2>3 DEF NextSam
<1>7. ASSUME NEW g \in Hraci, cleanUP(g) PROVE NextSam(h) \/ BezZmeny(h)
  <2>1. cleanUPSam(g)
    BY <1>1, <1>7 DEF cleanUP, cleanUPSam, TypeOK
  <2>2. \A k \in Hraci \ {g} : BezZmeny(k)
    BY <1>1, <1>7 DEF cleanUP, BezZmeny, TypeOK
  <2> QED BY <2>1, <2>2 DEF NextSam
<1>8. CASE UNCHANGED vars
  BY <1>8 DEF vars, BezZmeny
<1> QED BY <1>2, <1>3, <1>4, <1>5, <1>6, <1>7, <1>8 DEF Next

-----------------------------------------------------------------------------
(* Proces(h) is ChessProcess with the variables of process h in the place   *)
(* of its own.  It carries an instance of ChessRules along, whose operators *)
(* take no part in the substitution: they are those this module extends.    *)

\* The colours.
LEMMA InstFarby ==
  ASSUME NEW h
  PROVE  \A b, s, p : Proces(h)!color(p) = color(p) /\ Proces(h)!Farba(b, s) = Farba(b, s)
BY DEF Proces!Farba, Farba, Proces!color, color, Proces!whiteP, whiteP, Proces!blackP,
       blackP

\* The squares a piece reaches.
LEMMA InstDosiahne ==
  ASSUME NEW h
  PROVE  \A b, p, f, t, c, i :
           Proces(h)!Dosiahne(b, p, f, t, c, i) <=> Dosiahne(b, p, f, t, c, i)
BY DEF Proces!Dosiahne, Dosiahne, Proces!moveKral, moveKral, Proces!moveVeza, moveVeza,
       Proces!moveStrelec, moveStrelec, Proces!moveJazdec, moveJazdec,
       Proces!skontrolujPohybPesiaka, skontrolujPohybPesiaka, Proces!Volna, Volna,
       Proces!Vedla, Vedla, Proces!colorOK, colorOK, Proces!Farba, Farba, Proces!JeBlok,
       JeBlok, Proces!dX, dX, Proces!dY, dY, Proces!Abs, Abs, Proces!Sgn, Sgn,
       Proces!color, color, Proces!whiteP, whiteP, Proces!blackP, blackP, Proces!Riadky,
       Riadky, Proces!PESIAK, PESIAK, Proces!VEZA, VEZA, Proces!JAZDEC, JAZDEC,
       Proces!STRELEC, STRELEC, Proces!KRALOVNA, KRALOVNA, Proces!KRAL, KRAL, Proces!BLOK,
       BLOK

\* The check for chess.
LEMMA InstSach ==
  ASSUME NEW h
  PROVE  \A b, c, i, k : Proces(h)!checkForChess(b, c, i, k) = checkForChess(b, c, i, k)
BY DEF Proces!checkForChess, checkForChess, Proces!Utocnici, Utocnici, Proces!Dosiahne,
       Dosiahne, Proces!moveKral, moveKral, Proces!moveVeza, moveVeza, Proces!moveStrelec,
       moveStrelec, Proces!moveJazdec, moveJazdec, Proces!skontrolujPohybPesiaka,
       skontrolujPohybPesiaka, Proces!Volna, Volna, Proces!Vedla, Vedla, Proces!colorOK,
       colorOK, Proces!Farba, Farba, Proces!JeBlok, JeBlok, Proces!dX, dX, Proces!dY, dY,
       Proces!Abs, Abs, Proces!Sgn, Sgn, Proces!color, color, Proces!whiteP, whiteP,
       Proces!blackP, blackP, Proces!Riadky, Riadky, Proces!PESIAK, PESIAK, Proces!VEZA,
       VEZA, Proces!JAZDEC, JAZDEC, Proces!STRELEC, STRELEC, Proces!KRALOVNA, KRALOVNA,
       Proces!KRAL, KRAL, Proces!BLOK, BLOK

\* What vyhod does with the squares and the pieces.
LEMMA InstZmeny ==
  ASSUME NEW h
  PROVE  /\ \A b, p, q, f, t : Proces(h)!Vzatie(b, p, q, f, t) = Vzatie(b, p, q, f, t)
         /\ \A b, p, q, f, t : Proces(h)!Presun(b, p, q, f, t) = Presun(b, p, q, f, t)
         /\ \A b, p, q, f, t : Proces(h)!Vratenie(b, p, q, f, t) = Vratenie(b, p, q, f, t)
         /\ \A b, p, q : Proces(h)!Zapis(b, p, q) = Zapis(b, p, q)
         /\ \A b, p, q : Proces(h)!StrazenyKral(b, p, q) = StrazenyKral(b, p, q)
BY DEF Proces!Vzatie, Vzatie, Proces!Presun, Presun, Proces!Vratenie, Vratenie,
       Proces!Zapis, Zapis, Proces!StrazenyKral, StrazenyKral, Proces!NovyBlok, NovyBlok,
       Proces!whiteKing, whiteKing, Proces!blackKing, blackKing, Proces!color, color,
       Proces!whiteP, whiteP, Proces!blackP, blackP, Proces!BLOK, BLOK

\* vyhod.
LEMMA InstVyhod ==
  ASSUME NEW h, NEW b, NEW p, NEW from, NEW to
  PROVE  Proces(h)!vyhod(b, p, from, to) = vyhod(b, p, from, to)
<1> DEFINE q      == b.policka[to]
           c      == IF b.type[q] # BLOK THEN Vzatie(b, p, q, from, to)
                                         ELSE Presun(b, p, q, from, to)
           kral   == StrazenyKral(b, p, q)
           druhy  == IF kral = whiteKing THEN blackKing ELSE whiteKing
           s      == checkForChess(c, kral, FALSE, 3)
           v      == Vratenie(s.b, p, q, from, to)
           w      == checkForChess(Zapis(s.b, p, q), druhy, FALSE, 3).b
           x      == IF s.sach THEN [ok |-> FALSE, b |-> v] ELSE [ok |-> TRUE, b |-> w]
           hc     == IF b.type[q] # Proces(h)!BLOK
                     THEN Proces(h)!Vzatie(b, p, q, from, to)
                     ELSE Proces(h)!Presun(b, p, q, from, to)
           hkral  == Proces(h)!StrazenyKral(b, p, q)
           hdruhy == IF hkral = Proces(h)!whiteKing THEN Proces(h)!blackKing
                     ELSE Proces(h)!whiteKing
           hs     == Proces(h)!checkForChess(hc, hkral, FALSE, 3)
           hv     == Proces(h)!Vratenie(hs.b, p, q, from, to)
           hw     == Proces(h)!checkForChess(Proces(h)!Zapis(hs.b, p, q), hdruhy, FALSE, 3).b
           hx     == IF hs.sach THEN [ok |-> FALSE, b |-> hv] ELSE [ok |-> TRUE, b |-> hw]
<1>1. vyhod(b, p, from, to) = {x}
  BY DEF vyhod
<1>2. Proces(h)!vyhod(b, p, from, to) = {hx}
  BY DEF Proces!vyhod
<1>3. hc = c /\ hkral = kral
  <2> HIDE DEF q
  <2>1. Proces(h)!BLOK = BLOK
    BY DEF Proces!BLOK, BLOK
  <2>2. /\ Proces(h)!Vzatie(b, p, q, from, to) = Vzatie(b, p, q, from, to)
        /\ Proces(h)!Presun(b, p, q, from, to) = Presun(b, p, q, from, to)
        /\ Proces(h)!StrazenyKral(b, p, q) = StrazenyKral(b, p, q)
    BY InstZmeny
  <2> QED BY <2>1, <2>2, Zenon
<1> HIDE DEF c, hc, kral, hkral
<1>4. hdruhy = druhy /\ hs = s
  BY <1>3, InstSach DEF Proces!whiteKing, whiteKing, Proces!blackKing, blackKing
<1> HIDE DEF s, hs, druhy, hdruhy
<1>5. hv = v /\ hw = w
  <2>1. /\ Proces(h)!Vratenie(s.b, p, q, from, to) = Vratenie(s.b, p, q, from, to)
        /\ Proces(h)!Zapis(s.b, p, q) = Zapis(s.b, p, q)
    BY InstZmeny
  <2>2. Proces(h)!checkForChess(Zapis(s.b, p, q), druhy, FALSE, 3)
          = checkForChess(Zapis(s.b, p, q), druhy, FALSE, 3)
    BY InstSach
  <2> QED BY <1>4, <2>1, <2>2, Zenon
<1> HIDE DEF v, hv, w, hw
<1>6. hx = x
  BY <1>4, <1>5
<1> QED BY <1>1, <1>2, <1>6

\* move.
LEMMA InstMove ==
  ASSUME NEW h
  PROVE  \A b, f, t : Proces(h)!move(b, f, t) = move(b, f, t)
BY InstDosiahne, InstVyhod DEF Proces!move, move

\* One square the king may flee to.
LEMMA InstUnik ==
  ASSUME NEW h, NEW v, NEW kral, NEW d
  PROVE  Proces(h)!Unik(v, kral, d) = Unik(v, kral, d)
<1> DEFINE t  == <<v.b.pos[kral][1] + d[1], v.b.pos[kral][2] + d[2]>>
           c  == checkForChess(v.b, v.b.policka[t], TRUE, color(kral))
           hc == Proces(h)!checkForChess(v.b, v.b.policka[t], TRUE, Proces(h)!color(kral))
           G(x) == { [stoji |-> v.stoji /\ r.sach, volne |-> TRUE, b |-> r.b] : r \in {x} }
<1>1. Unik(v, kral, d)
        = IF t \in Policka /\ Farba(v.b, t) # color(kral) THEN G(c) ELSE {v}
  BY DEF Unik
<1>2. Proces(h)!Unik(v, kral, d)
        = IF t \in Proces(h)!Policka /\ Proces(h)!Farba(v.b, t) # Proces(h)!color(kral)
          THEN G(hc) ELSE {v}
  BY DEF Proces!Unik
<1> HIDE DEF t, G
<1>3. /\ Proces(h)!color(kral) = color(kral)
      /\ Proces(h)!Farba(v.b, t) = Farba(v.b, t)
  BY InstFarby
<1>4. Proces(h)!Policka = Policka
  BY DEF Proces!Policka, Policka, Proces!Riadky, Riadky
<1>5. hc = c
  BY <1>3, InstSach
<1> HIDE DEF c, hc
<1> QED BY <1>1, <1>2, <1>3, <1>4, <1>5, Zenon

\* checkMat.
LEMMA InstMat ==
  ASSUME NEW h, NEW b, NEW kral
  PROVE  Proces(h)!checkMat(b, kral) = checkMat(b, kral)
<1> DEFINE Dalej(V, d)  == UNION { Unik(v, kral, d) : v \in V }
           hDalej(V, d) == UNION { Proces(h)!Unik(v, kral, d) : v \in V }
           Vyrok(v)  == IF v.stoji /\ v.volne
                        THEN { [koniec |-> TRUE, mat |-> r.sach, b |-> r.b] :
                                 r \in {checkForChess(v.b, v.b.policka[v.b.pos[kral]], TRUE,
                                                      color(kral))} }
                        ELSE {[koniec |-> FALSE, mat |-> FALSE, b |-> v.b]}
           hVyrok(v) == IF v.stoji /\ v.volne
                        THEN { [koniec |-> TRUE, mat |-> r.sach, b |-> r.b] :
                                 r \in {Proces(h)!checkForChess(v.b,
                                          v.b.policka[v.b.pos[kral]], TRUE,
                                          Proces(h)!color(kral))} }
                        ELSE {[koniec |-> FALSE, mat |-> FALSE, b |-> v.b]}
           V0 == {[stoji |-> TRUE, volne |-> FALSE, b |-> b]}
           V8 == Dalej(Dalej(Dalej(Dalej(Dalej(Dalej(Dalej(Dalej(V0, <<1, 0>>),
                   <<-1, 0>>), <<0, 1>>), <<0, -1>>), <<1, 1>>), <<-1, -1>>), <<1, -1>>),
                   <<-1, 1>>)
           h8 == hDalej(hDalej(hDalej(hDalej(hDalej(hDalej(hDalej(hDalej(V0, <<1, 0>>),
                   <<-1, 0>>), <<0, 1>>), <<0, -1>>), <<1, 1>>), <<-1, -1>>), <<1, -1>>),
                   <<-1, 1>>)
<1>1. checkMat(b, kral) = UNION { Vyrok(v) : v \in V8 }
  BY DEF checkMat
<1>2. Proces(h)!checkMat(b, kral) = UNION { hVyrok(v) : v \in h8 }
  BY DEF Proces!checkMat
<1>3. \A V, d : hDalej(V, d) = Dalej(V, d)
  <2> SUFFICES ASSUME NEW V, NEW d, NEW y
               PROVE  y \in hDalej(V, d) <=> y \in Dalej(V, d)
    OBVIOUS
  <2> QED BY InstUnik
<1>4. \A v : hVyrok(v) = Vyrok(v)
  BY InstSach, InstFarby
<1> HIDE DEF Dalej, hDalej, Vyrok, hVyrok, V0
<1>5. h8 = V8
  BY <1>3
<1> HIDE DEF V8, h8
<1> QED BY <1>1, <1>2, <1>4, <1>5

\* The rest of what a step of the game loop calls.
LEMMA InstZvysok ==
  ASSUME NEW h
  PROVE  /\ \A b, s, v : Proces(h)!zmenPesiaka(b, s, v) = zmenPesiaka(b, s, v)
         /\ \A b : Proces(h)!Uvolni(b) = Uvolni(b)
         /\ \A w : Proces(h)!KralHraca(w) = KralHraca(w)
         /\ \A b, s, w : Proces(h)!Moja(b, s, w) <=> Moja(b, s, w)
BY InstFarby DEF Proces!zmenPesiaka, zmenPesiaka, Proces!NaKonci, NaKonci, Proces!color,
       color, Proces!whiteP, whiteP, Proces!blackP, blackP, Proces!PESIAK, PESIAK,
       Proces!Uvolni, Uvolni, Proces!Policka, Policka, Proces!Riadky, Riadky,
       Proces!KralHraca, KralHraca, Proces!whiteKing, whiteKing, Proces!blackKing,
       blackKing, Proces!Moja, Moja

\* What a pawn may become, and the retry budget.
LEMMA InstVolby ==
  ASSUME NEW h
  PROVE  Proces(h)!Volby = Volby /\ Proces(h)!POKUSY = POKUSY
BY DEF Proces!Volby, Volby, Proces!KRALOVNA, KRALOVNA, Proces!STRELEC, STRELEC,
       Proces!JAZDEC, JAZDEC, Proces!VEZA, VEZA, Proces!POKUSY, POKUSY

\* The board initBoard sets up.
LEMMA InstBoard ==
  ASSUME NEW h
  PROVE  Proces(h)!initBoard = initBoard
<1> DEFINE P(S)  == [s \in S |-> 8 * s[1] + s[2]]
           Q(S)  == [p \in S |-> IF p < 64 THEN <<p \div 8, p % 8>> ELSE <<0, 0>>]
           R     == [p \in Id |-> IF p \notin Figurky THEN BLOK
                                  ELSE IF p \in 8..55 THEN PESIAK
                                  ELSE ZakladnyRad[(p % 8) + 1]]
           hR    == [p \in Proces(h)!Id |->
                       IF p \notin Proces(h)!Figurky THEN Proces(h)!BLOK
                       ELSE IF p \in 8..55 THEN Proces(h)!PESIAK
                       ELSE Proces(h)!ZakladnyRad[(p % 8) + 1]]
           B(p, q, t, f) == [ policka |-> p, pos |-> q, type |-> t, movedAlready |-> {},
                              onBoard |-> f, lostBlack |-> << >>, lostWhite |-> << >>,
                              live |-> 0..63 ]
<1>1. initBoard = B(P(Policka), Q(Id), R, Figurky)
  BY DEF initBoard
<1>2. Proces(h)!initBoard
        = B(P(Proces(h)!Policka), Q(Proces(h)!Id), hR, Proces(h)!Figurky)
  BY DEF Proces!initBoard
<1>3. Proces(h)!Id = Id /\ Proces(h)!Figurky = Figurky
  BY DEF Proces!Id, Id, Proces!Figurky, Figurky, Proces!whiteP, whiteP, Proces!blackP, blackP
<1>4. Proces(h)!Policka = Policka
  BY DEF Proces!Policka, Policka, Proces!Riadky, Riadky
<1>5. hR = R
  BY <1>3 DEF Proces!ZakladnyRad, ZakladnyRad, Proces!PESIAK, PESIAK, Proces!BLOK, BLOK,
              Proces!VEZA, VEZA, Proces!JAZDEC, JAZDEC, Proces!STRELEC, STRELEC,
              Proces!KRALOVNA, KRALOVNA, Proces!KRAL, KRAL
<1> HIDE DEF P, Q, R, hR, B
<1> QED BY <1>1, <1>2, <1>3, <1>4, <1>5

-----------------------------------------------------------------------------
(* A step of h alone is a step of Proces(h).                                *)

\* Whose turn it is, the moves that may come next and the two ends of the loop body.
LEMMA ProcesStav ==
  ASSUME NEW h
  PROVE  /\ Proces(h)!NaTahu <=> NaTahu(h)
         /\ Proces(h)!Zadane = Zadane(h)
BY DEF Proces!NaTahu, NaTahu, Proces!Zadane, Zadane

LEMMA ProcesKontrola ==
  ASSUME NEW h, NEW b, NEW biely, NEW koniec, PoKontroleSam(h, b, biely, koniec)
  PROVE  Proces(h)!PoKontrole(b, biely, koniec)
<1>1. Proces(h)!checkMat(b, Proces(h)!KralHraca(biely)) = checkMat(b, KralHraca(biely))
  BY InstMat, InstZvysok
<1>2. PICK m \in checkMat(b, KralHraca(biely)) :
        /\ hraciePole'[h] = m.b
        /\ tahHraca1'[h]  = biely
        /\ gameOver'[h]   = (koniec \/ m.koniec)
        /\ verdikt'[h]    = (IF ~m.koniec THEN verdikt[h] ELSE IF m.mat THEN "mat" ELSE "pat")
  BY DEF PoKontroleSam
<1>3. m \in Proces(h)!checkMat(b, Proces(h)!KralHraca(biely))
  BY <1>1, <1>2
<1> QED BY <1>2, <1>3, Zenon DEF Proces!PoKontrole

LEMMA ProcesMojTah ==
  ASSUME NEW h, NEW from, NEW to, MojTahSam(h, from, to)
  PROVE  Proces(h)!MojTah(from, to)
<1>1. PICK r \in move(hraciePole[h], from, to), volba \in Volby, chyby \in ChybySiete :
        /\ r.ok
        /\ PoKontroleSam(h, zmenPesiaka(r.b, to, volba), ~tahHraca1[h], chyby = POKUSY)
  BY DEF MojTahSam
<1>2. /\ r \in Proces(h)!move(hraciePole[h], from, to)
      /\ volba \in Proces(h)!Volby
      /\ Proces(h)!PoKontrole(Proces(h)!zmenPesiaka(r.b, to, volba), ~tahHraca1[h],
                              chyby = Proces(h)!POKUSY)
  BY <1>1, InstMove, InstVolby, InstZvysok, ProcesKontrola
<1>3. /\ ~gameOver[h] /\ Proces(h)!NaTahu
      /\ Proces(h)!Moja(hraciePole[h], from, tahHraca1[h])
      /\ poradie'[h] = poradie[h] + 1 /\ uvolnene'[h] = uvolnene[h]
  BY ProcesStav, InstZvysok DEF MojTahSam
<1> QED BY <1>1, <1>2, <1>3, Zenon DEF Proces!MojTah

LEMMA ProcesNepovolenyPohyb ==
  ASSUME NEW h, NEW from, NEW to, NepovolenyPohybSam(h, from, to)
  PROVE  Proces(h)!NepovolenyPohyb(from, to)
BY ProcesStav, InstMove, InstZvysok DEF NepovolenyPohybSam, Proces!NepovolenyPohyb

LEMMA ProcesPrijmiTah ==
  ASSUME NEW h, NEW from, NEW to, PrijmiTahSam(h, from, to)
  PROVE  Proces(h)!PrijmiTah(from, to)
<1>1. PICK r \in move(hraciePole[h], from, to), volba \in Volby :
        /\ r.ok
        /\ PoKontroleSam(h, zmenPesiaka(r.b, to, volba), ~tahHraca1[h], FALSE)
  BY DEF PrijmiTahSam
<1>2. /\ r \in Proces(h)!move(hraciePole[h], from, to)
      /\ volba \in Proces(h)!Volby
      /\ Proces(h)!PoKontrole(Proces(h)!zmenPesiaka(r.b, to, volba), ~tahHraca1[h], FALSE)
  BY <1>1, InstMove, InstVolby, InstZvysok, ProcesKontrola
<1>3. /\ ~gameOver[h] /\ ~Proces(h)!NaTahu
      /\ Proces(h)!Moja(hraciePole[h], from, tahHraca1[h])
      /\ poradie'[h] = poradie[h] + 1 /\ uvolnene'[h] = uvolnene[h]
  BY ProcesStav, InstZvysok DEF PrijmiTahSam
<1> QED BY <1>1, <1>2, <1>3, Zenon DEF Proces!PrijmiTah

LEMMA ProcesPrijmiZlyTah ==
  ASSUME NEW h, NEW from, NEW to, PrijmiZlyTahSam(h, from, to)
  PROVE  Proces(h)!PrijmiZlyTah(from, to)
<1>1. PICK r \in move(hraciePole[h], from, to) :
        ~r.ok /\ PoKontroleSam(h, r.b, tahHraca1[h], TRUE)
  BY DEF PrijmiZlyTahSam
<1>2. /\ r \in Proces(h)!move(hraciePole[h], from, to)
      /\ Proces(h)!PoKontrole(r.b, tahHraca1[h], TRUE)
  BY <1>1, InstMove, ProcesKontrola
<1>3. /\ ~gameOver[h] /\ ~Proces(h)!NaTahu
      /\ Proces(h)!Moja(hraciePole[h], from, tahHraca1[h])
      /\ poradie'[h] = poradie[h] /\ uvolnene'[h] = uvolnene[h]
  BY ProcesStav, InstZvysok DEF PrijmiZlyTahSam
<1> QED BY <1>1, <1>2, <1>3, Zenon DEF Proces!PrijmiZlyTah

LEMMA ProcesNezaslalTah ==
  ASSUME NEW h, NezaslalTahSam(h)
  PROVE  Proces(h)!NezaslalTah
<1>1. Proces(h)!PoKontrole(hraciePole[h], tahHraca1[h], TRUE)
  BY ProcesKontrola DEF NezaslalTahSam
<1> QED BY <1>1, ProcesStav DEF NezaslalTahSam, Proces!NezaslalTah

LEMMA ProcesCleanUP ==
  ASSUME NEW h, cleanUPSam(h)
  PROVE  Proces(h)!cleanUP
BY InstZvysok DEF cleanUPSam, Proces!cleanUP

LEMMA ProcesNext ==
  ASSUME IInv, NEW h \in Hraci, [Next]_vars
  PROVE  [Proces(h)!Next]_(Proces(h)!vars)
<1>1. CASE BezZmeny(h)
  BY <1>1 DEF BezZmeny, Proces!vars
<1>2. CASE NextSam(h)
  <2>1. ASSUME NEW t \in Zadane(h),
               \/ MojTahSam(h, t[1], t[2])
               \/ NepovolenyPohybSam(h, t[1], t[2])
               \/ PrijmiTahSam(h, t[1], t[2])
               \/ PrijmiZlyTahSam(h, t[1], t[2])
        PROVE  Proces(h)!Next
    <3>1. t \in Proces(h)!Zadane
      BY <2>1, ProcesStav
    <3>2. \/ Proces(h)!MojTah(t[1], t[2])
          \/ Proces(h)!NepovolenyPohyb(t[1], t[2])
          \/ Proces(h)!PrijmiTah(t[1], t[2])
          \/ Proces(h)!PrijmiZlyTah(t[1], t[2])
      BY <2>1, ProcesMojTah, ProcesNepovolenyPohyb, ProcesPrijmiTah, ProcesPrijmiZlyTah
    <3> QED BY <3>1, <3>2 DEF Proces!Next
  <2>2. CASE NezaslalTahSam(h)
    BY <2>2, ProcesNezaslalTah DEF Proces!Next
  <2>3. CASE cleanUPSam(h)
    BY <2>3, ProcesCleanUP DEF Proces!Next
  <2> QED BY <1>2, <2>1, <2>2, <2>3 DEF NextSam
<1> QED BY <1>1, <1>2, KrokJeSam

LEMMA ProcesInit ==
  ASSUME NEW h \in Hraci, Init
  PROVE  Proces(h)!Init
BY InstBoard DEF Init, Proces!Init

\* What the host does in a match, whatever the client sends and whenever the connection
\* fails, is a behaviour of the game loop playing white (vytvorHru with cisloHraca 0):
\* what was proved of ChessProcess holds of the host's replica.
THEOREM HostitelJeProces == Spec => HostitelHra
<1>1. Init => Proces(0)!Init
  BY ProcesInit DEF Hraci
<1>2. IInv /\ [Next]_vars => [Proces(0)!Next]_(Proces(0)!vars)
  BY ProcesNext DEF Hraci
<1> QED BY <1>1, <1>2, Invariant, PTL DEF Spec, HostitelHra

\* What the client does in a match is a behaviour of the game loop playing black
\* (vytvorHru with cisloHraca 1).
THEOREM KlientJeProces == Spec => KlientHra
<1>1. Init => Proces(1)!Init
  BY ProcesInit DEF Hraci
<1>2. IInv /\ [Next]_vars => [Proces(1)!Next]_(Proces(1)!vars)
  BY ProcesNext DEF Hraci
<1> QED BY <1>1, <1>2, Invariant, PTL DEF Spec, KlientHra

=============================================================================
