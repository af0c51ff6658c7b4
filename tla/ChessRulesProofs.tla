-------------------------- MODULE ChessRulesProofs --------------------------
(***************************************************************************)
(* What the operators of ChessRules keep, for every board.                 *)
(***************************************************************************)
EXTENDS ChessRules, TLAPS

\* c is the board b but for pieces that have got the mark movedAlready.
LenOznacene(b, c) ==
  /\ c \in Board
  /\ c.policka = b.policka
  /\ c.pos = b.pos
  /\ c.type = b.type
  /\ c.onBoard = b.onBoard
  /\ c.lostBlack = b.lostBlack
  /\ c.lostWhite = b.lostWhite
  /\ c.live = b.live
  /\ b.movedAlready \subseteq c.movedAlready

\* The prober of checks changes nothing but movedAlready, which it only sets.
LEMMA CheckForChessOznacuje ==
  ASSUME NEW b \in Board, NEW ciel, NEW ignoreColor, NEW kingColor
  PROVE  LenOznacene(b, checkForChess(b, ciel, ignoreColor, kingColor).b)
<1> DEFINE u == Utocnici(b, ciel, ignoreColor, kingColor)
           M == { q \in { p \in u : \A r \in u : p <= r } : b.type[q] = PESIAK }
           c == [b EXCEPT !.movedAlready = @ \cup M]
<1>1. checkForChess(b, ciel, ignoreColor, kingColor).b = c
  BY DEF checkForChess
<1>2. M \subseteq Figurky
  <2>1. u \subseteq Figurky
    BY DEF Utocnici, Figurky
  <2> QED BY <2>1
<1>3. LenOznacene(b, c)
  <2> HIDE DEF M
  <2> QED BY <1>2 DEF LenOznacene, Board
<1> QED BY <1>1, <1>3

\* One probe after another is a probe.
LEMMA LenOznaceneTranzitivne ==
  ASSUME NEW a, NEW b, NEW c, LenOznacene(a, b), LenOznacene(b, c)
  PROVE  LenOznacene(a, c)
BY DEF LenOznacene

\* So does checkMat, whatever it finds.
LEMMA CheckMatOznacuje ==
  ASSUME NEW b \in Board, NEW kral, NEW m \in checkMat(b, kral)
  PROVE  LenOznacene(b, m.b)
<1> DEFINE Dobre(V) == \A v \in V : LenOznacene(b, v.b)
           Dalej(V, d) == UNION { Unik(v, kral, d) : v \in V }
<1>1. ASSUME NEW V, NEW d, Dobre(V)
      PROVE  Dobre(Dalej(V, d))
  <2> SUFFICES ASSUME NEW v \in V, NEW w \in Unik(v, kral, d)
               PROVE  LenOznacene(b, w.b)
    OBVIOUS
  <2>1. LenOznacene(b, v.b) /\ v.b \in Board
    BY <1>1 DEF LenOznacene
  <2> DEFINE s == <<v.b.pos[kral][1] + d[1], v.b.pos[kral][2] + d[2]>>
             r == checkForChess(v.b, v.b.policka[s], TRUE, color(kral))
  <2>2. w = v \/ w = [stoji |-> v.stoji /\ r.sach, volne |-> TRUE, b |-> r.b]
    BY DEF Unik
  <2>3. LenOznacene(v.b, r.b)
    BY <2>1, CheckForChessOznacuje
  <2>4. w.b = v.b \/ w.b = r.b
    <3> HIDE DEF r
    <3> QED BY <2>2
  <2> HIDE DEF r
  <2> QED BY <2>1, <2>3, <2>4, LenOznaceneTranzitivne
<1> DEFINE V0 == {[stoji |-> TRUE, volne |-> FALSE, b |-> b]}
           V1 == Dalej(V0, <<1, 0>>)
           V2 == Dalej(V1, <<-1, 0>>)
           V3 == Dalej(V2, <<0, 1>>)
           V4 == Dalej(V3, <<0, -1>>)
           V5 == Dalej(V4, <<1, 1>>)
           V6 == Dalej(V5, <<-1, -1>>)
           V7 == Dalej(V6, <<1, -1>>)
           V8 == Dalej(V7, <<-1, 1>>)
           vyrok(v) == { [koniec |-> TRUE, mat |-> r.sach, b |-> r.b] :
                      r \in {checkForChess(v.b, v.b.policka[v.b.pos[kral]], TRUE, color(kral))} }
<1>2. Dobre(V0)
  BY DEF LenOznacene
<1>3. Dobre(V8)
  <2> HIDE DEF Dobre, Dalej, V0
  <2>1. Dobre(V1)  BY <1>1, <1>2
  <2> HIDE DEF V1
  <2>2. Dobre(V2)  BY <1>1, <2>1
  <2> HIDE DEF V2
  <2>3. Dobre(V3)  BY <1>1, <2>2
  <2> HIDE DEF V3
  <2>4. Dobre(V4)  BY <1>1, <2>3
  <2> HIDE DEF V4
  <2>5. Dobre(V5)  BY <1>1, <2>4
  <2> HIDE DEF V5
  <2>6. Dobre(V6)  BY <1>1, <2>5
  <2> HIDE DEF V6
  <2>7. Dobre(V7)  BY <1>1, <2>6
  <2> HIDE DEF V7
  <2> QED BY <1>1, <2>7
<1>4. PICK v \in V8 : \/ m \in vyrok(v)
                      \/ m = [koniec |-> FALSE, mat |-> FALSE, b |-> v.b]
  BY DEF checkMat
<1> HIDE DEF V8, vyrok
<1>5. LenOznacene(b, v.b) /\ v.b \in Board
  BY <1>3 DEF LenOznacene
<1>6. CASE m \in vyrok(v)
  <2> DEFINE r == checkForChess(v.b, v.b.policka[v.b.pos[kral]], TRUE, color(kral))
  <2>1. m.b = r.b
    <3>1. PICK q \in {r} : m = [koniec |-> TRUE, mat |-> q.sach, b |-> q.b]
      BY <1>6, Zenon DEF vyrok
    <3> HIDE DEF r
    <3> QED BY <3>1
  <2>2. LenOznacene(v.b, r.b)
    BY <1>5, CheckForChessOznacuje
  <2> HIDE DEF r
  <2> QED BY <1>5, <2>1, <2>2, LenOznaceneTranzitivne
<1> QED BY <1>4, <1>5, <1>6

-----------------------------------------------------------------------------
(* The invariant of the board.  NovyBlok(q) is free for the capture of q as *)
(* long as q is on the board, and a lost piece is never on it: that is what *)
(* keeps JedinyVlastnik and SuradniceSedia true through a capture.          *)

BlokJeBezFigury(b) == \A p \in Id : b.type[p] = BLOK <=> p \notin Figurky

KdeStoja(b) ==
  /\ \A s, t \in Policka : b.policka[s] = b.policka[t] => s = t
  /\ \A s \in Policka : b.policka[s] \in Figurky => /\ b.pos[b.policka[s]] = s
                                                    /\ b.policka[s] \in b.onBoard
  /\ \A p \in b.onBoard : b.policka[b.pos[p]] = p
  /\ \A p \in b.onBoard, s \in Policka : b.policka[s] # NovyBlok(p)

StrateneSuPrec(lost, b) ==
  /\ \A i \in DOMAIN lost : lost[i] \notin b.onBoard
  /\ \A i, j \in DOMAIN lost : lost[i] = lost[j] => i = j

Zdrava(b) ==
  /\ b \in Board
  /\ BlokJeBezFigury(b)
  /\ KdeStoja(b)
  /\ StrateneSuPrec(b.lostBlack, b)
  /\ StrateneSuPrec(b.lostWhite, b)
  /\ b.live = Uvolni(b)

\* c is the board b but for marks and the coordinates of empty squares.
Vratena(b, c) == c \in Board /\ TaIstaPozicia(b, c)

\* color tells the pieces of the two players and the empty squares apart.
LEMMA FarbaFigurky ==
  \A p : /\ color(p) = 1 <=> p \in whiteP
         /\ color(p) = 0 <=> p \in blackP
         /\ color(p) = 3 <=> p \notin Figurky
BY DEF color, whiteP, blackP, Figurky

\* A captured piece and the empty square put in its place are both objects.
LEMMA FigurkySuId == Figurky \subseteq Id /\ \A p \in Figurky : NovyBlok(p) \in Id \ Figurky
BY DEF Figurky, Id, whiteP, blackP, NovyBlok

\* No two captures allocate the same empty square.
LEMMA NovyBlokJediny == \A p, q \in Figurky : NovyBlok(p) = NovyBlok(q) => p = q
BY DEF Figurky, whiteP, blackP, NovyBlok

\* A probe leaves the position as it was.
LEMMA OznacenaJeVratena ==
  ASSUME NEW b, NEW c, LenOznacene(b, c)
  PROVE  Vratena(b, c)
BY DEF LenOznacene, Vratena, TaIstaPozicia

\* A sound board with its position restored is sound.
LEMMA VratenaJeZdrava ==
  ASSUME NEW b, NEW c, Zdrava(b), Vratena(b, c)
  PROVE  Zdrava(c)
<1>1. c.onBoard \subseteq Figurky /\ b.onBoard \subseteq Figurky
  BY DEF Zdrava, Vratena, TaIstaPozicia, Board
<1>2. KdeStoja(c)
  BY <1>1 DEF Zdrava, Vratena, TaIstaPozicia, KdeStoja
<1>3. BlokJeBezFigury(c)
  BY DEF Zdrava, Vratena, TaIstaPozicia, BlokJeBezFigury
<1>4. StrateneSuPrec(c.lostBlack, c) /\ StrateneSuPrec(c.lostWhite, c)
  BY DEF Zdrava, Vratena, TaIstaPozicia, StrateneSuPrec
<1>5. c.live = Uvolni(c)
  BY DEF Zdrava, Vratena, TaIstaPozicia, Uvolni
<1> QED BY <1>2, <1>3, <1>4, <1>5 DEF Zdrava, Vratena, TaIstaPozicia

\* initBoard gives every square a type.
LEMMA ZakladnyRadTypy ==
  \A i \in 1..8 : ZakladnyRad[i] \in Typy /\ ZakladnyRad[i] # BLOK
<1> SUFFICES ASSUME NEW i \in 1..8
             PROVE  ZakladnyRad[i] \in Typy /\ ZakladnyRad[i] # BLOK
  OBVIOUS
<1>1. i = 1 \/ i = 2 \/ i = 3 \/ i = 4 \/ i = 5 \/ i = 6 \/ i = 7 \/ i = 8
  OBVIOUS
<1>2. ZakladnyRad[i] \in {VEZA, JAZDEC, STRELEC, KRALOVNA, KRAL}
  BY <1>1 DEF ZakladnyRad
<1>3. /\ {VEZA, JAZDEC, STRELEC, KRALOVNA, KRAL} \subseteq Typy
      /\ BLOK \notin {VEZA, JAZDEC, STRELEC, KRALOVNA, KRAL}
  BY DEF Typy, BLOK, VEZA, JAZDEC, STRELEC, KRALOVNA, KRAL
<1> QED BY <1>2, <1>3

\* The board of a new game is sound.
LEMMA InitBoardZdrava == Zdrava(initBoard)
<1> DEFINE b == initBoard
<1>1. /\ b.policka = [s \in Policka |-> 8 * s[1] + s[2]]
      /\ b.pos = [p \in Id |-> IF p < 64 THEN <<p \div 8, p % 8>> ELSE <<0, 0>>]
      /\ b.type = [p \in Id |-> IF p \notin Figurky THEN BLOK
                                ELSE IF p \in 8..55 THEN PESIAK ELSE ZakladnyRad[(p % 8) + 1]]
      /\ b.movedAlready = {} /\ b.onBoard = Figurky /\ b.live = 0..63
      /\ b.lostBlack = << >> /\ b.lostWhite = << >>
      /\ b = [ policka |-> b.policka, pos |-> b.pos, type |-> b.type,
               movedAlready |-> b.movedAlready, onBoard |-> b.onBoard,
               lostBlack |-> b.lostBlack, lostWhite |-> b.lostWhite, live |-> b.live ]
  BY DEF initBoard
<1>2. Figurky \subseteq 0..63 /\ Figurky \subseteq Id
  BY DEF Figurky, whiteP, blackP, Id
<1>3. \A p \in Id : (p % 8) + 1 \in 1..8
  BY DEF Id
<1> HIDE DEF b
<1>a. \A p \in Id : b.pos[p] = IF p < 64 THEN <<p \div 8, p % 8>> ELSE <<0, 0>>
  BY <1>1, ZenonT(30)
<1>b. \A p \in Id : b.type[p] = IF p \notin Figurky THEN BLOK
                                ELSE IF p \in 8..55 THEN PESIAK ELSE ZakladnyRad[(p % 8) + 1]
  BY <1>1, Zenon
<1>4. \A s \in Policka : /\ s[1] \in 0..7 /\ s[2] \in 0..7
                         /\ s = <<s[1], s[2]>>
                         /\ b.policka[s] = 8 * s[1] + s[2]
  BY <1>1 DEF Policka, Riadky
<1>5. \A n \in 0..63 : /\ n \div 8 \in 0..7 /\ n % 8 \in 0..7
                       /\ n = 8 * (n \div 8) + (n % 8)
  OBVIOUS
<1>6. \A n \in 0..63 : /\ <<n \div 8, n % 8>> \in Policka
                       /\ b.policka[<<n \div 8, n % 8>>] = n
                       /\ b.pos[n] = <<n \div 8, n % 8>>
  <2> SUFFICES ASSUME NEW n \in 0..63
               PROVE  /\ <<n \div 8, n % 8>> \in Policka
                      /\ b.policka[<<n \div 8, n % 8>>] = n
                      /\ b.pos[n] = <<n \div 8, n % 8>>
    OBVIOUS
  <2>1. <<n \div 8, n % 8>> \in Policka
    BY <1>5 DEF Policka, Riadky
  <2>2. b.policka[<<n \div 8, n % 8>>] = n
    BY <1>5, <1>4, <2>1
  <2>3. b.pos[n] = <<n \div 8, n % 8>>
    <3>1. n \in Id /\ n < 64
      BY DEF Id
    <3> QED BY <1>a, <3>1
  <2> QED BY <2>1, <2>2, <2>3
<1>7. \A s \in Policka : b.policka[s] \in 0..63
  BY <1>4
<1>8. \A s \in Policka : b.pos[b.policka[s]] = s
  <2> SUFFICES ASSUME NEW s \in Policka
               PROVE  b.pos[b.policka[s]] = s
    OBVIOUS
  <2> DEFINE i == s[1]
             j == s[2]
  <2>1. i \in 0..7 /\ j \in 0..7 /\ s = <<i, j>> /\ b.policka[s] = 8 * i + j
    BY <1>4
  <2> HIDE DEF i, j
  <2>2. 8 * i + j \in 0..63 /\ (8 * i + j) \div 8 = i /\ (8 * i + j) % 8 = j
    BY <2>1
  <2> QED BY <2>1, <2>2, <1>6
<1>9. b \in Board
  <2>1. b.policka \in [Policka -> Id]
    <3>1. \A s \in Policka : 8 * s[1] + s[2] \in Id
      BY <1>4 DEF Id
    <3> QED BY <1>1, <3>1
  <2>2. b.pos \in [Id -> Policka]
    <3>1. <<0, 0>> \in Policka
      BY DEF Policka, Riadky
    <3>2. \A p \in Id : p < 64 => p \in 0..63
      BY DEF Id
    <3>3. \A p \in Id : b.pos[p] \in Policka
      BY <1>a, <1>6, <3>1, <3>2
    <3> QED BY <1>1, <3>3, Zenon
  <2>3. b.type \in [Id -> Typy]
    <3>1. PESIAK \in Typy /\ BLOK \in Typy
      BY DEF Typy
    <3>2. \A p \in Id : b.type[p] \in Typy
      BY <1>b, <1>3, <3>1, ZakladnyRadTypy
    <3> QED BY <1>1, <3>2, Zenon
  <2>4. /\ b.movedAlready \in SUBSET Figurky /\ b.onBoard \in SUBSET Figurky
        /\ b.lostBlack \in Seq(blackP) /\ b.lostWhite \in Seq(whiteP)
        /\ b.live \in SUBSET Id
    BY <1>1 DEF Id
  <2>5. b = [ policka |-> b.policka, pos |-> b.pos, type |-> b.type,
              movedAlready |-> b.movedAlready, onBoard |-> b.onBoard,
              lostBlack |-> b.lostBlack, lostWhite |-> b.lostWhite, live |-> b.live ]
    BY <1>1
  <2> QED BY <2>1, <2>2, <2>3, <2>4, <2>5, Zenon DEF Board
<1>10. BlokJeBezFigury(b)
  <2>1. PESIAK # BLOK
    BY DEF PESIAK, BLOK
  <2> QED BY <1>b, <1>2, <1>3, <2>1, ZakladnyRadTypy DEF BlokJeBezFigury
<1>11. KdeStoja(b)
  <2>1. \A p \in Figurky, s \in Policka : b.policka[s] # NovyBlok(p)
    BY <1>7 DEF NovyBlok, Figurky, whiteP, blackP
  <2>2. \A p \in Figurky : b.policka[b.pos[p]] = p
    BY <1>2, <1>6
  <2>3. \A s, t \in Policka : b.policka[s] = b.policka[t] => s = t
    BY <1>8
  <2> QED BY <1>1, <1>8, <2>1, <2>2, <2>3 DEF KdeStoja
<1>12. Uvolni(b) = 0..63
  <2>1. Uvolni(b) = { b.policka[s] : s \in Policka }
    BY <1>1 DEF Uvolni
  <2>2. \A n \in 0..63 : \E s \in Policka : b.policka[s] = n
    BY <1>6
  <2> QED BY <1>7, <2>1, <2>2
<1>13. StrateneSuPrec(b.lostBlack, b) /\ StrateneSuPrec(b.lostWhite, b)
  BY <1>1 DEF StrateneSuPrec
<1>14. b.live = Uvolni(b)
  BY <1>1, <1>12
<1>15. Zdrava(b)
  BY <1>9, <1>10, <1>11, <1>13, <1>14 DEF Zdrava
<1> QED BY <1>15 DEF b

-----------------------------------------------------------------------------
(* The two ways vyhod changes the board, and the two ways it goes on.       *)

\* A piece p on from that is about to go to the square to.
Pohyb(b, p, q, from, to) ==
  /\ from \in Policka
  /\ to \in Policka
  /\ from # to
  /\ p = b.policka[from]
  /\ q = b.policka[to]
  /\ p \in Figurky

\* The piece moved and the object on its target are two objects, each on its square.
LEMMA PohybFakty ==
  ASSUME NEW b, NEW p, NEW q, NEW from, NEW to, Zdrava(b), Pohyb(b, p, q, from, to)
  PROVE  /\ p \in b.onBoard /\ b.pos[p] = from
         /\ p # q /\ q \in Id
         /\ b.type[q] = BLOK <=> q \notin Figurky
         /\ q \in Figurky => q \in b.onBoard /\ b.pos[q] = to
<1>1. q \in Id /\ b.policka \in [Policka -> Id]
  BY DEF Zdrava, Board, Pohyb
<1> QED BY <1>1 DEF Zdrava, KdeStoja, BlokJeBezFigury, Pohyb

\* The board after a capture, before the lists are extended, and after a quiet
\* move, field by field.
PoVzati(b, p, q, from, to, c) ==
  /\ c \in Board
  /\ c.policka = [[b.policka EXCEPT ![to] = p] EXCEPT ![from] = NovyBlok(q)]
  /\ c.pos = [[b.pos EXCEPT ![p] = to] EXCEPT ![NovyBlok(q)] = from]
  /\ c.type = b.type
  /\ c.onBoard = b.onBoard \ {q}
  /\ c.lostBlack = b.lostBlack
  /\ c.lostWhite = b.lostWhite
  /\ c.live = b.live \cup {NovyBlok(q)}

PoPresune(b, p, q, from, to, c) ==
  /\ c \in Board
  /\ c.policka = [[b.policka EXCEPT ![to] = p] EXCEPT ![from] = q]
  /\ c.pos = [[b.pos EXCEPT ![p] = to] EXCEPT ![q] = from]
  /\ c.type = b.type
  /\ c.onBoard = b.onBoard
  /\ c.lostBlack = b.lostBlack
  /\ c.lostWhite = b.lostWhite
  /\ c.live = b.live

\* What stands where once vyhod has captured and looked for check.
LEMMA VzatieFakty ==
  ASSUME NEW b, NEW p, NEW q, NEW from, NEW to, NEW c,
         Zdrava(b), Pohyb(b, p, q, from, to), q \in Figurky,
         LenOznacene(Vzatie(b, p, q, from, to), c)
  PROVE  PoVzati(b, p, q, from, to, c)
BY DEF PoVzati, LenOznacene, Vzatie, Zdrava, Board

\* Before its first check of the king, a capture leaves a board again.
LEMMA VzatieJeBoard ==
  ASSUME NEW b, NEW p, NEW q, NEW from, NEW to,
         Zdrava(b), Pohyb(b, p, q, from, to), q \in Figurky
  PROVE  Vzatie(b, p, q, from, to) \in Board
<1>1. p \in Id /\ NovyBlok(q) \in Id
  BY FigurkySuId DEF Pohyb
<1> QED BY <1>1 DEF Vzatie, Zdrava, Board, Pohyb

\* Before its first check of the king, a quiet move leaves a board again.
LEMMA PresunJeBoard ==
  ASSUME NEW b, NEW p, NEW q, NEW from, NEW to,
         Zdrava(b), Pohyb(b, p, q, from, to)
  PROVE  Presun(b, p, q, from, to) \in Board
BY FigurkySuId DEF Presun, Zdrava, Board, Pohyb

\* What stands where once vyhod has exchanged two squares and looked for check.
LEMMA PresunFakty ==
  ASSUME NEW b, NEW p, NEW q, NEW from, NEW to, NEW c,
         Zdrava(b), Pohyb(b, p, q, from, to),
         LenOznacene(Presun(b, p, q, from, to), c)
  PROVE  PoPresune(b, p, q, from, to, c)
BY DEF PoPresune, LenOznacene, Presun, Zdrava, Board

\* A capture that is taken back restores every table.
LEMMA VzatieVratene ==
  ASSUME NEW b, NEW p, NEW q, NEW from, NEW to, NEW c,
         Zdrava(b), Pohyb(b, p, q, from, to), q \in Figurky,
         LenOznacene(Vzatie(b, p, q, from, to), c)
  PROVE  Vratena(b, Vratenie(c, p, q, from, to))
<1> DEFINE v == Vratenie(c, p, q, from, to)
           n == NovyBlok(q)
<1>1. /\ p \in b.onBoard /\ b.pos[p] = from /\ q \in b.onBoard /\ b.pos[q] = to
      /\ p # q /\ b.type[q] # BLOK
  BY PohybFakty
<1>2. PoVzati(b, p, q, from, to, c)
  BY VzatieFakty
<1>3. n \in Id \ Figurky /\ p \in Id /\ q \in Id /\ p \in Figurky
  BY FigurkySuId DEF Pohyb
<1>4. n \notin b.live
  <2>1. \A s \in Policka : b.policka[s] # n
    BY <1>1 DEF Zdrava, KdeStoja
  <2>2. /\ \A i \in DOMAIN b.lostBlack : b.lostBlack[i] \in Figurky
        /\ \A i \in DOMAIN b.lostWhite : b.lostWhite[i] \in Figurky
    BY DEF Zdrava, Board, Figurky
  <2> QED BY <1>3, <2>1, <2>2 DEF Zdrava, Uvolni
<1>5. /\ v.policka = [[c.policka EXCEPT ![to] = q] EXCEPT ![from] = p]
      /\ v.pos = [c.pos EXCEPT ![p] = from]
      /\ v.type = c.type
      /\ v.onBoard = c.onBoard \cup {q}
      /\ v.lostBlack = c.lostBlack
      /\ v.lostWhite = c.lostWhite
      /\ v.live = c.live \ {n}
      /\ v \in Board
  BY <1>1, <1>2, <1>3 DEF Vratenie, Board, Pohyb, PoVzati
<1>6. v.policka = b.policka
  BY <1>2, <1>5 DEF Pohyb, Zdrava, Board, PoVzati
<1>7. \A r \in Figurky : v.pos[r] = b.pos[r]
  BY <1>1, <1>2, <1>3, <1>5, FigurkySuId DEF Zdrava, Board, PoVzati
<1>8. v.onBoard = b.onBoard /\ v.live = b.live
  BY <1>1, <1>2, <1>4, <1>5 DEF PoVzati
<1> QED BY <1>2, <1>5, <1>6, <1>7, <1>8 DEF Vratena, TaIstaPozicia, PoVzati

\* So does a quiet move that is taken back, but for the empty square's coordinates.
LEMMA PresunVrateny ==
  ASSUME NEW b, NEW p, NEW q, NEW from, NEW to, NEW c,
         Zdrava(b), Pohyb(b, p, q, from, to), q \notin Figurky,
         LenOznacene(Presun(b, p, q, from, to), c)
  PROVE  Vratena(b, Vratenie(c, p, q, from, to))
<1> DEFINE v == Vratenie(c, p, q, from, to)
<1>1. b.pos[p] = from /\ p # q /\ q \in Id /\ b.type[q] = BLOK
  BY PohybFakty
<1>2. PoPresune(b, p, q, from, to, c)
  BY PresunFakty
<1>3. p \in Id /\ p \in Figurky
  BY FigurkySuId DEF Pohyb
<1>4. <<to[2], to[1]>> \in Policka
  BY DEF Pohyb, Policka
<1>5. /\ v.policka = [[c.policka EXCEPT ![to] = q] EXCEPT ![from] = p]
      /\ v.pos = [[c.pos EXCEPT ![p] = from] EXCEPT ![q] = <<to[2], to[1]>>]
      /\ v.type = c.type
      /\ v.onBoard = c.onBoard
      /\ v.lostBlack = c.lostBlack
      /\ v.lostWhite = c.lostWhite
      /\ v.live = c.live
      /\ v \in Board
  BY <1>1, <1>2, <1>3, <1>4 DEF Vratenie, Board, Pohyb, PoPresune
<1>6. v.policka = b.policka
  BY <1>2, <1>5 DEF Pohyb, Zdrava, Board, PoPresune
<1>7. \A r \in Figurky : v.pos[r] = b.pos[r]
  BY <1>1, <1>2, <1>3, <1>5, FigurkySuId DEF Zdrava, Board, PoPresune
<1> QED BY <1>2, <1>5, <1>6, <1>7 DEF Vratena, TaIstaPozicia, PoPresune

\* A list of lost pieces without repetition stays so when a piece that was on the
\* board is appended.
LEMMA PridatStratenu ==
  ASSUME NEW S, NEW lost \in Seq(S), NEW q \in S, NEW onBoard, q \in onBoard,
         \A i \in DOMAIN lost : lost[i] \notin onBoard,
         \A i, j \in DOMAIN lost : lost[i] = lost[j] => i = j
  PROVE  /\ Append(lost, q) \in Seq(S)
         /\ DOMAIN Append(lost, q) = DOMAIN lost \cup {Len(lost) + 1}
         /\ \A i \in DOMAIN lost : Append(lost, q)[i] = lost[i]
         /\ Append(lost, q)[Len(lost) + 1] = q
         /\ \A i \in DOMAIN Append(lost, q) : Append(lost, q)[i] \notin onBoard \ {q}
         /\ \A i, j \in DOMAIN Append(lost, q) :
              Append(lost, q)[i] = Append(lost, q)[j] => i = j
<1> DEFINE a == Append(lost, q)
<1>1. /\ a \in Seq(S) /\ Len(a) = Len(lost) + 1
      /\ \A i \in 1..Len(lost) : a[i] = lost[i]
      /\ a[Len(lost) + 1] = q
      /\ DOMAIN a = 1..Len(a) /\ DOMAIN lost = 1..Len(lost) /\ Len(lost) \in Nat
  OBVIOUS
<1> HIDE DEF a
<1>2. DOMAIN a = DOMAIN lost \cup {Len(lost) + 1}
  BY <1>1
<1>3. \A i \in DOMAIN a : a[i] \notin onBoard \ {q}
  BY <1>1, <1>2
<1>4. \A i, j \in DOMAIN a : a[i] = a[j] => i = j
  BY <1>1, <1>2
<1>5. \A i \in DOMAIN lost : a[i] = lost[i]
  BY <1>1
<1>6. a \in Seq(S) /\ a[Len(lost) + 1] = q
  BY <1>1
<1> QED BY <1>2, <1>3, <1>4, <1>5, <1>6 DEF a

\* A capture that stands leaves a sound board.
LEMMA VzatieZapisane ==
  ASSUME NEW b, NEW p, NEW q, NEW from, NEW to, NEW c,
         Zdrava(b), Pohyb(b, p, q, from, to), q \in Figurky,
         LenOznacene(Vzatie(b, p, q, from, to), c)
  PROVE  Zdrava(Zapis(c, p, q))
<1> DEFINE z == Zapis(c, p, q)
           n == NovyBlok(q)
<1>1. /\ p \in b.onBoard /\ b.pos[p] = from /\ q \in b.onBoard /\ b.pos[q] = to
      /\ p # q /\ b.type[q] # BLOK
  BY PohybFakty
<1>2. PoVzati(b, p, q, from, to, c)
  BY VzatieFakty
<1>3. n \in Id \ Figurky /\ p \in Id /\ q \in Id /\ p \in Figurky
  BY FigurkySuId DEF Pohyb
<1>4. /\ z.policka = c.policka
      /\ z.pos = c.pos
      /\ z.type = c.type
      /\ z.onBoard = c.onBoard
      /\ z.live = c.live
  BY <1>1, <1>2 DEF Zapis, PoVzati, Board
<1>5. /\ z.lostBlack = IF q \in blackP THEN Append(b.lostBlack, q) ELSE b.lostBlack
      /\ z.lostWhite = IF q \in blackP THEN b.lostWhite ELSE Append(b.lostWhite, q)
  BY <1>1, <1>2, FarbaFigurky DEF Zapis, PoVzati, Board
<1>6. q \in blackP \/ q \in whiteP
  BY DEF Figurky
<1>7. /\ b.lostBlack \in Seq(blackP) /\ b.lostWhite \in Seq(whiteP)
      /\ StrateneSuPrec(b.lostBlack, b) /\ StrateneSuPrec(b.lostWhite, b)
  BY DEF Zdrava, Board
<1>8. /\ z.lostBlack \in Seq(blackP) /\ StrateneSuPrec(z.lostBlack, z)
      /\ z.lostWhite \in Seq(whiteP) /\ StrateneSuPrec(z.lostWhite, z)
  <2>1. z.onBoard = b.onBoard \ {q}
    BY <1>2, <1>4 DEF PoVzati
  <2>2. CASE q \in blackP
    <3>1. z.lostBlack = Append(b.lostBlack, q) /\ z.lostWhite = b.lostWhite
      BY <1>5, <2>2
    <3> HIDE DEF z
    <3>2. z.lostBlack \in Seq(blackP) /\ StrateneSuPrec(z.lostBlack, z)
      BY <1>1, <1>7, <2>1, <2>2, <3>1, PridatStratenu DEF StrateneSuPrec
    <3> QED BY <1>7, <2>1, <3>1, <3>2 DEF StrateneSuPrec
  <2>3. CASE q \notin blackP
    <3>1. z.lostBlack = b.lostBlack /\ z.lostWhite = Append(b.lostWhite, q)
      BY <1>5, <2>3
    <3> HIDE DEF z
    <3>2. z.lostWhite \in Seq(whiteP) /\ StrateneSuPrec(z.lostWhite, z)
      BY <1>1, <1>6, <1>7, <2>1, <2>3, <3>1, PridatStratenu DEF StrateneSuPrec
    <3> QED BY <1>7, <2>1, <3>1, <3>2 DEF StrateneSuPrec
  <2> QED BY <2>2, <2>3
<1>9. z \in Board
  BY <1>2, <1>3, <1>8 DEF Zapis, PoVzati, Board
<1>10. KdeStoja(z)
  <2>1. /\ z.policka[to] = p /\ z.policka[from] = n
        /\ \A s \in Policka : s # to /\ s # from => z.policka[s] = b.policka[s]
    BY <1>2, <1>4 DEF PoVzati, Pohyb, Zdrava, Board
  <2>2. /\ z.pos[p] = to
        /\ \A r \in Figurky : r # p => z.pos[r] = b.pos[r]
    BY <1>2, <1>3, <1>4, FigurkySuId DEF PoVzati, Zdrava, Board
  <2>3. z.onBoard = b.onBoard \ {q} /\ b.onBoard \subseteq Figurky
    BY <1>2, <1>4 DEF PoVzati, Zdrava, Board
  <2> HIDE DEF z, n
  <2>4. /\ from \in Policka /\ to \in Policka /\ from # to
        /\ b.policka[from] = p /\ b.policka[to] = q
    BY DEF Pohyb
  <2>5. \A s, t \in Policka : z.policka[s] = z.policka[t] => s = t
    <3>1. \A s \in Policka : b.policka[s] # n
      BY <1>1 DEF Zdrava, KdeStoja, n
    <3> QED BY <1>3, <2>1, <2>4, <3>1 DEF Zdrava, KdeStoja
  <2>6. \A s \in Policka : z.policka[s] \in Figurky =>
          z.pos[z.policka[s]] = s /\ z.policka[s] \in z.onBoard
    BY <1>1, <1>3, <2>1, <2>2, <2>3, <2>4 DEF Zdrava, KdeStoja
  <2>7. \A r \in z.onBoard : z.policka[z.pos[r]] = r
    <3>1. \A r \in b.onBoard : b.pos[r] \in Policka
      BY <2>3, FigurkySuId DEF Zdrava, Board
    <3> QED BY <2>1, <2>2, <2>3, <2>4, <3>1 DEF Zdrava, KdeStoja
  <2>8. \A r \in z.onBoard, s \in Policka : z.policka[s] # NovyBlok(r)
    BY <1>3, <2>1, <2>3, FigurkySuId, NovyBlokJediny DEF Zdrava, KdeStoja, n
  <2> QED BY <2>5, <2>6, <2>7, <2>8 DEF KdeStoja
<1>11. BlokJeBezFigury(z)
  BY <1>2, <1>4 DEF PoVzati, Zdrava, BlokJeBezFigury
<1>12. z.live = Uvolni(z)
  <2>1. \A x : (\E s \in Policka : z.policka[s] = x)
               <=> x = n \/ (x # q /\ \E s \in Policka : b.policka[s] = x)
    <3>1. /\ z.policka[to] = p /\ z.policka[from] = n
          /\ \A s \in Policka : s # to /\ s # from => z.policka[s] = b.policka[s]
      BY <1>2, <1>4 DEF PoVzati, Pohyb, Zdrava, Board
    <3> HIDE DEF z, n
    <3> QED BY <1>1, <1>3, <3>1 DEF Pohyb, Zdrava, KdeStoja
  <2>2. { z.lostBlack[i] : i \in DOMAIN z.lostBlack }
        \cup { z.lostWhite[i] : i \in DOMAIN z.lostWhite }
        = { b.lostBlack[i] : i \in DOMAIN b.lostBlack }
          \cup { b.lostWhite[i] : i \in DOMAIN b.lostWhite } \cup {q}
    <3>1. CASE q \in blackP
      <4>1. z.lostBlack = Append(b.lostBlack, q) /\ z.lostWhite = b.lostWhite
        BY <1>5, <3>1
      <4> HIDE DEF z
      <4>2. { z.lostBlack[i] : i \in DOMAIN z.lostBlack }
            = { b.lostBlack[i] : i \in DOMAIN b.lostBlack } \cup {q}
        BY <1>1, <1>7, <3>1, <4>1, PridatStratenu DEF StrateneSuPrec
      <4> QED BY <4>1, <4>2
    <3>2. CASE q \notin blackP
      <4>1. z.lostBlack = b.lostBlack /\ z.lostWhite = Append(b.lostWhite, q)
        BY <1>5, <3>2
      <4> HIDE DEF z
      <4>2. { z.lostWhite[i] : i \in DOMAIN z.lostWhite }
            = { b.lostWhite[i] : i \in DOMAIN b.lostWhite } \cup {q}
        BY <1>1, <1>6, <1>7, <3>2, <4>1, PridatStratenu DEF StrateneSuPrec
      <4> QED BY <4>1, <4>2
    <3> QED BY <3>1, <3>2
  <2>3. z.live = Uvolni(b) \cup {n}
    BY <1>2, <1>4 DEF PoVzati, Zdrava
  <2>4. \E s \in Policka : b.policka[s] = q
    BY DEF Pohyb
  <2> HIDE DEF z, n
  <2> QED BY <2>1, <2>2, <2>3, <2>4 DEF Uvolni
<1> QED BY <1>8, <1>9, <1>10, <1>11, <1>12 DEF Zdrava

\* So does a quiet move that stands.
LEMMA PresunZapisany ==
  ASSUME NEW b, NEW p, NEW q, NEW from, NEW to, NEW c,
         Zdrava(b), Pohyb(b, p, q, from, to), q \notin Figurky,
         LenOznacene(Presun(b, p, q, from, to), c)
  PROVE  Zdrava(Zapis(c, p, q))
<1> DEFINE z == Zapis(c, p, q)
<1>1. p \in b.onBoard /\ b.pos[p] = from /\ p # q /\ q \in Id /\ b.type[q] = BLOK
  BY PohybFakty
<1>2. PoPresune(b, p, q, from, to, c)
  BY PresunFakty
<1>3. p \in Id /\ p \in Figurky
  BY FigurkySuId DEF Pohyb
<1>4. /\ z.policka = c.policka
      /\ z.pos = c.pos
      /\ z.type = b.type
      /\ z.onBoard = b.onBoard
      /\ z.lostBlack = b.lostBlack
      /\ z.lostWhite = b.lostWhite
      /\ z.live = b.live
      /\ z \in Board
  BY <1>1, <1>2, <1>3 DEF Zapis, PoPresune, Board
<1>5. /\ z.policka[to] = p /\ z.policka[from] = q
      /\ \A s \in Policka : s # to /\ s # from => z.policka[s] = b.policka[s]
  <2>1. z.policka = [[b.policka EXCEPT ![to] = p] EXCEPT ![from] = q]
    BY <1>2, <1>4 DEF PoPresune
  <2>2. /\ b.policka \in [Policka -> Id]
        /\ from \in Policka /\ to \in Policka /\ from # to
    BY DEF Pohyb, Zdrava, Board
  <2> HIDE DEF z
  <2> QED BY <2>1, <2>2
<1>6. /\ z.pos[p] = to
      /\ \A r \in Figurky : r # p => z.pos[r] = b.pos[r]
  BY <1>1, <1>2, <1>3, <1>4, FigurkySuId DEF PoPresune, Zdrava, Board
<1>7. /\ from \in Policka /\ to \in Policka /\ from # to
      /\ b.policka[from] = p /\ b.policka[to] = q
  BY DEF Pohyb
<1> HIDE DEF z
<1>8. KdeStoja(z)
  <2>1. \A s, t \in Policka : z.policka[s] = z.policka[t] => s = t
    BY <1>5, <1>7 DEF Zdrava, KdeStoja
  <2>2. \A s \in Policka : z.policka[s] \in Figurky =>
          z.pos[z.policka[s]] = s /\ z.policka[s] \in z.onBoard
    BY <1>1, <1>3, <1>4, <1>5, <1>6, <1>7 DEF Zdrava, KdeStoja
  <2>3. \A r \in z.onBoard : z.policka[z.pos[r]] = r
    <3>1. b.onBoard \subseteq Figurky /\ \A r \in b.onBoard : b.pos[r] \in Policka
      BY FigurkySuId DEF Zdrava, Board
    <3> QED BY <1>4, <1>5, <1>6, <1>7, <3>1 DEF Zdrava, KdeStoja
  <2>4. \A r \in z.onBoard, s \in Policka : z.policka[s] # NovyBlok(r)
    BY <1>4, <1>5, <1>7 DEF Zdrava, KdeStoja
  <2> QED BY <2>1, <2>2, <2>3, <2>4 DEF KdeStoja
<1>9. BlokJeBezFigury(z)
  BY <1>4 DEF Zdrava, BlokJeBezFigury
<1>10. StrateneSuPrec(z.lostBlack, z) /\ StrateneSuPrec(z.lostWhite, z)
  BY <1>4 DEF Zdrava, StrateneSuPrec
<1>11. z.live = Uvolni(z)
  <2>1. \A x : (\E s \in Policka : z.policka[s] = x)
               <=> (\E s \in Policka : b.policka[s] = x)
    BY <1>5, <1>7
  <2>2. { z.policka[s] : s \in Policka } = { b.policka[s] : s \in Policka }
    BY <2>1
  <2>3. Uvolni(z) = Uvolni(b)
    BY <1>4, <2>2, Zenon DEF Uvolni
  <2> QED BY <1>4, <2>3 DEF Zdrava
<1> QED BY <1>4, <1>8, <1>9, <1>10, <1>11 DEF Zdrava, z

\* vyhod keeps the board sound, and one it retracts is the board it was given.
LEMMA VyhodZachova ==
  ASSUME NEW b, NEW p, NEW q, NEW from, NEW to,
         Zdrava(b), Pohyb(b, p, q, from, to),
         NEW r \in vyhod(b, p, from, to)
  PROVE  Zdrava(r.b) /\ (~r.ok => Vratena(b, r.b))
<1> DEFINE c     == IF b.type[q] # BLOK THEN Vzatie(b, p, q, from, to)
                                        ELSE Presun(b, p, q, from, to)
           kral  == StrazenyKral(b, p, q)
           druhy == IF kral = whiteKing THEN blackKing ELSE whiteKing
           s     == checkForChess(c, kral, FALSE, 3)
           z     == Zapis(s.b, p, q)
           v     == Vratenie(s.b, p, q, from, to)
<1>1. q = b.policka[to]
  BY DEF Pohyb
<1>2. \/ r = [ok |-> FALSE, b |-> v]
      \/ r = [ok |-> TRUE, b |-> checkForChess(z, druhy, FALSE, 3).b]
  BY <1>1 DEF vyhod
<1>3. c \in Board
  BY PohybFakty, VzatieJeBoard, PresunJeBoard
<1>4. LenOznacene(c, s.b)
  BY <1>3, CheckForChessOznacuje
<1>5. Zdrava(z) /\ Vratena(b, v)
  <2> HIDE DEF s
  <2>1. CASE q \in Figurky
    <3>1. c = Vzatie(b, p, q, from, to)
      BY <2>1, PohybFakty
    <3> HIDE DEF c
    <3> QED BY <1>4, <2>1, <3>1, VzatieZapisane, VzatieVratene
  <2>2. CASE q \notin Figurky
    <3>1. c = Presun(b, p, q, from, to)
      BY <2>2, PohybFakty
    <3> HIDE DEF c
    <3> QED BY <1>4, <2>2, <3>1, PresunZapisany, PresunVrateny
  <2> QED BY <2>1, <2>2
<1> HIDE DEF z, v, druhy
<1>6. LenOznacene(z, checkForChess(z, druhy, FALSE, 3).b)
  BY <1>5, CheckForChessOznacuje DEF Zdrava
<1>7. Zdrava(checkForChess(z, druhy, FALSE, 3).b)
  BY <1>5, <1>6, OznacenaJeVratena, VratenaJeZdrava
<1>8. Zdrava(v)
  BY <1>5, VratenaJeZdrava
<1> DEFINE w == checkForChess(z, druhy, FALSE, 3).b
<1>9. Zdrava(w)
  BY <1>7
<1> HIDE DEF w
<1>10. CASE r = [ok |-> FALSE, b |-> v]
  <2>1. r.b = v
    BY <1>10
  <2> QED BY <1>5, <1>8, <2>1
<1>11. CASE r = [ok |-> TRUE, b |-> w]
  <2>1. r.b = w /\ r.ok
    BY <1>11
  <2> QED BY <1>9, <2>1
<1> QED BY <1>2, <1>10, <1>11 DEF w

\* A piece never reaches the square it stands on, unless colours are ignored.
LEMMA DosiahneIne ==
  ASSUME NEW b, NEW from \in Policka, NEW to \in Policka, Zdrava(b),
         Dosiahne(b, b.policka[from], from, to, FALSE, FALSE)
  PROVE  from # to /\ b.policka[from] \in Figurky
<1> DEFINE p == b.policka[from]
<1>1. p \in Id
  BY DEF Zdrava, Board
<1>2. b.type[p] # BLOK
  BY DEF Dosiahne, PESIAK, STRELEC, JAZDEC, VEZA, KRALOVNA, KRAL, BLOK
<1>3. p \in Figurky
  BY <1>1, <1>2 DEF Zdrava, BlokJeBezFigury
<1>4. from[1] \in 0..7 /\ from[2] \in 0..7
  BY DEF Policka, Riadky
<1>5. ASSUME from = to PROVE FALSE
  <2>1. dX(from, to) = 0 /\ dY(from, to) = 0
    BY <1>4, <1>5 DEF dX, dY
  <2>2. ~colorOK(b, p, to, FALSE)
    BY <1>5 DEF colorOK, Farba
  <2>3. ~skontrolujPohybPesiaka(b, p, from, to, FALSE)
    BY <2>1 DEF skontrolujPohybPesiaka
  <2>4. /\ ~moveStrelec(b, p, from, to, FALSE)
        /\ ~moveJazdec(b, p, from, to, FALSE)
        /\ ~moveVeza(b, p, from, to, FALSE)
    BY <2>2 DEF moveStrelec, moveJazdec, moveVeza
  <2>5. ~moveKral(b, p, from, to, FALSE)
    BY <2>1 DEF moveKral, Abs
  <2> QED BY <2>3, <2>4, <2>5 DEF Dosiahne
<1> QED BY <1>3, <1>5

\* move keeps a sound board sound, and a rejected move leaves its position.
LEMMA MoveZachova ==
  ASSUME NEW b, NEW from \in Policka, NEW to \in Policka, Zdrava(b),
         NEW r \in move(b, from, to)
  PROVE  Zdrava(r.b) /\ (~r.ok => Vratena(b, r.b))
<1> DEFINE p == b.policka[from]
<1>1. CASE Dosiahne(b, p, from, to, FALSE, FALSE)
  <2>1. Pohyb(b, p, b.policka[to], from, to)
    BY <1>1, DosiahneIne DEF Pohyb
  <2>2. r \in vyhod(b, p, from, to)
    BY <1>1 DEF move
  <2> QED BY <2>1, <2>2, VyhodZachova
<1>2. CASE ~Dosiahne(b, p, from, to, FALSE, FALSE)
  <2>1. r = [ok |-> FALSE, b |-> b]
    BY <1>2 DEF move
  <2>2. Vratena(b, b)
    BY DEF Vratena, TaIstaPozicia, Zdrava
  <2> QED BY <2>1, <2>2
<1> QED BY <1>1, <1>2

\* zmenPesiaka keeps a sound board sound.
LEMMA ZmenPesiakaZachova ==
  ASSUME NEW b, NEW s \in Policka, NEW volba \in Volby, Zdrava(b)
  PROVE  Zdrava(zmenPesiaka(b, s, volba))
<1> DEFINE p == b.policka[s]
           z == [b EXCEPT !.type = [@ EXCEPT ![p] = volba]]
<1>1. CASE NaKonci(b, s)
  <2>1. p \in Id /\ b.type[p] = PESIAK
    BY <1>1 DEF NaKonci, Zdrava, Board
  <2>2. volba \in Typy /\ volba # BLOK /\ PESIAK # BLOK
    BY DEF Volby, Typy, KRALOVNA, STRELEC, JAZDEC, VEZA, PESIAK, BLOK
  <2>3. /\ z \in Board /\ z.type = [b.type EXCEPT ![p] = volba]
        /\ z.policka = b.policka /\ z.pos = b.pos /\ z.onBoard = b.onBoard
        /\ z.lostBlack = b.lostBlack /\ z.lostWhite = b.lostWhite /\ z.live = b.live
    BY <2>2 DEF Zdrava, Board
  <2>4. BlokJeBezFigury(z)
    BY <2>1, <2>2, <2>3 DEF Zdrava, BlokJeBezFigury, Board
  <2>5. Zdrava(z)
    BY <2>3, <2>4 DEF Zdrava, KdeStoja, StrateneSuPrec, Uvolni
  <2> QED BY <1>1, <2>5 DEF zmenPesiaka
<1>2. CASE ~NaKonci(b, s)
  BY <1>2 DEF zmenPesiaka
<1> QED BY <1>1, <1>2

\* checkMat keeps a sound board sound, whatever its verdict.
LEMMA CheckMatZachova ==
  ASSUME NEW b, NEW kral, NEW m \in checkMat(b, kral), Zdrava(b)
  PROVE  Zdrava(m.b) /\ Vratena(b, m.b)
BY CheckMatOznacuje, OznacenaJeVratena, VratenaJeZdrava DEF Zdrava

=============================================================================
