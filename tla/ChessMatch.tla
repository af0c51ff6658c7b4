----------------------------- MODULE ChessMatch -----------------------------
(***************************************************************************)
(* A match: the host (0) and the client (1), two processes that each run   *)
(* the game loop of ChessProcess on a replica of the board and exchange    *)
(* the accepted moves over one TCP connection.  The variables are those of *)
(* ChessProcess, a value per process, and the bytes on their way.          *)
(***************************************************************************)
EXTENDS ChessRules

CONSTANTS
  Partia,       \* bound: Partia[n] is the set of moves that may be typed as the n-th
  ChybySiete    \* bound: how many times in a row posliData may fail

Hraci == {0, 1}      \* the values of cisloHraca
Super(h) == 1 - h

POKUSY == 10         \* the retry budget of precitajTah, see ChessProcess

Tahy == Policka \X Policka

\* What is sent: the squares as typed and the type of the piece after the move.
Spravy == [from : Policka, to : Policka, typ : Typy]

ASSUME PartiaAssumption == Partia \in Seq(SUBSET Tahy)
ASSUME ChybyAssumption  == ChybySiete \subseteq 0..(POKUSY + 1)

VARIABLES
  hraciePole, tahHraca1, gameOver, verdikt, uvolnene, poradie,
  kontumacia,   \* how a process says it won by default: "nie", "zly tah", "nezaslal"
  spojenie      \* spojenie[h]: the messages h has not received yet

vars == <<hraciePole, tahHraca1, gameOver, verdikt, uvolnene, poradie, kontumacia, spojenie>>

TypeOK ==
  /\ hraciePole \in [Hraci -> Board]
  /\ tahHraca1 \in [Hraci -> BOOLEAN]
  /\ gameOver \in [Hraci -> BOOLEAN]
  /\ verdikt \in [Hraci -> {"ziadny", "mat", "pat"}]
  /\ uvolnene \in [Hraci -> BOOLEAN]
  /\ poradie \in [Hraci -> 1..(Len(Partia) + 1)]
  /\ kontumacia \in [Hraci -> {"nie", "zly tah", "nezaslal"}]
  /\ spojenie \in [Hraci -> Seq(Spravy)]

Init ==
  /\ hraciePole = [h \in Hraci |-> initBoard]
  /\ tahHraca1  = [h \in Hraci |-> TRUE]
  /\ gameOver   = [h \in Hraci |-> FALSE]
  /\ verdikt    = [h \in Hraci |-> "ziadny"]
  /\ uvolnene   = [h \in Hraci |-> FALSE]
  /\ poradie    = [h \in Hraci |-> 1]
  /\ kontumacia = [h \in Hraci |-> "nie"]
  /\ spojenie   = [h \in Hraci |-> << >>]

NaTahu(h) == (h = 1) = ~tahHraca1[h]

\* Mutant of PoKontrole: checkMat looks at the king of the player who moved.
PoKontroleSupera(h, b, biely, koniec) ==
  \E m \in checkMat(b, KralHraca(~biely)) :
    /\ hraciePole' = [hraciePole EXCEPT ![h] = m.b]
    /\ tahHraca1'  = [tahHraca1 EXCEPT ![h] = biely]
    /\ gameOver'   = [gameOver EXCEPT ![h] = koniec \/ m.koniec]
    /\ verdikt'    = [verdikt EXCEPT ![h] = IF ~m.koniec THEN @
                                            ELSE IF m.mat THEN "mat" ELSE "pat"]

PoKontrole(h, b, biely, koniec) ==
  \E m \in checkMat(b, KralHraca(biely)) :
    /\ hraciePole' = [hraciePole EXCEPT ![h] = m.b]
    /\ tahHraca1'  = [tahHraca1 EXCEPT ![h] = biely]
    /\ gameOver'   = [gameOver EXCEPT ![h] = koniec \/ m.koniec]
    /\ verdikt'    = [verdikt EXCEPT ![h] = IF ~m.koniec THEN @
                                            ELSE IF m.mat THEN "mat" ELSE "pat"]

\* The moves the player of process h may type now.
Zadane(h) == IF poradie[h] \in DOMAIN Partia THEN Partia[poradie[h]] ELSE {}

\* posliData in its retry loop: after at most POKUSY failures the move is on its
\* way, after one more it never is.  A peer that closed its socket gets nothing.
Posli(h, sprava, chyby) ==
  spojenie' = IF chyby > POKUSY \/ uvolnene[Super(h)]
              THEN spojenie
              ELSE [spojenie EXCEPT ![Super(h)] = Append(@, sprava)]

\* Mutant of MojTah: the sender stays on move.
MojTahZnova(h, from, to) ==
  /\ ~gameOver[h]
  /\ NaTahu(h)
  /\ Moja(hraciePole[h], from, tahHraca1[h])
  /\ \E r \in move(hraciePole[h], from, to), volba \in Volby, chyby \in ChybySiete :
       LET b == zmenPesiaka(r.b, to, volba)
       IN  /\ r.ok
           /\ Posli(h, [from |-> from, to |-> to, typ |-> b.type[b.policka[to]]], chyby)
           /\ PoKontrole(h, b, tahHraca1[h], chyby = POKUSY)
  /\ poradie' = [poradie EXCEPT ![h] = @ + 1]
  /\ UNCHANGED <<uvolnene, kontumacia>>

\* Mutant of MojTah: the message is put together before zmenPesiaka.
MojTahPredZamenou(h, from, to) ==
  /\ ~gameOver[h]
  /\ NaTahu(h)
  /\ Moja(hraciePole[h], from, tahHraca1[h])
  /\ \E r \in move(hraciePole[h], from, to), volba \in Volby, chyby \in ChybySiete :
       /\ r.ok
       /\ Posli(h, [from |-> from, to |-> to, typ |-> r.b.type[r.b.policka[to]]], chyby)
       /\ PoKontrole(h, zmenPesiaka(r.b, to, volba), ~tahHraca1[h], chyby = POKUSY)
  /\ poradie' = [poradie EXCEPT ![h] = @ + 1]
  /\ UNCHANGED <<uvolnene, kontumacia>>

MojTah(h, from, to) ==
  /\ ~gameOver[h]
  /\ NaTahu(h)
  /\ Moja(hraciePole[h], from, tahHraca1[h])
  /\ \E r \in move(hraciePole[h], from, to), volba \in Volby, chyby \in ChybySiete :
       LET b == zmenPesiaka(r.b, to, volba)
       IN  /\ r.ok
           /\ Posli(h, [from |-> from, to |-> to, typ |-> b.type[b.policka[to]]], chyby)
           /\ PoKontrole(h, b, ~tahHraca1[h], chyby = POKUSY)
  /\ poradie' = [poradie EXCEPT ![h] = @ + 1]
  /\ UNCHANGED <<uvolnene, kontumacia>>

NepovolenyPohyb(h, from, to) ==
  /\ ~gameOver[h]
  /\ NaTahu(h)
  /\ Moja(hraciePole[h], from, tahHraca1[h])
  /\ \E r \in move(hraciePole[h], from, to) :
       ~r.ok /\ hraciePole' = [hraciePole EXCEPT ![h] = r.b]
  /\ UNCHANGED <<tahHraca1, gameOver, verdikt, uvolnene, poradie, kontumacia, spojenie>>

\* recv returns a message of the peer.
Prijmi(h) ==
  /\ ~gameOver[h]
  /\ ~NaTahu(h)
  /\ spojenie[h] # << >>
  /\ spojenie' = [spojenie EXCEPT ![h] = Tail(@)]
  /\ UNCHANGED uvolnene

\* Mutant of PrijmiTah: the receiver does not take its turn.
PrijmiTahBezStriedania(h) ==
  /\ Prijmi(h)
  /\ LET s == Head(spojenie[h])
     IN  \E r \in move(hraciePole[h], s.from, s.to) :
           /\ r.ok
           /\ PoKontrole(h, [r.b EXCEPT !.type = [@ EXCEPT ![r.b.policka[s.to]] = s.typ]],
                         tahHraca1[h], FALSE)
  /\ poradie' = [poradie EXCEPT ![h] = @ + 1]
  /\ UNCHANGED kontumacia

PrijmiTah(h) ==
  /\ Prijmi(h)
  /\ LET s == Head(spojenie[h])
     IN  \E r \in move(hraciePole[h], s.from, s.to) :
           /\ r.ok
           /\ PoKontrole(h, [r.b EXCEPT !.type = [@ EXCEPT ![r.b.policka[s.to]] = s.typ]],
                         ~tahHraca1[h], FALSE)
  /\ poradie' = [poradie EXCEPT ![h] = @ + 1]
  /\ UNCHANGED kontumacia

PrijmiZlyTah(h) ==
  /\ Prijmi(h)
  /\ LET s == Head(spojenie[h])
     IN  \E r \in move(hraciePole[h], s.from, s.to) :
           ~r.ok /\ PoKontrole(h, r.b, tahHraca1[h], TRUE)
  /\ kontumacia' = [kontumacia EXCEPT ![h] = "zly tah"]
  /\ UNCHANGED poradie

\* Mutant of NezaslalTah: the loop goes on when nothing was received.
NezaslalTahDalej(h) ==
  /\ ~gameOver[h]
  /\ ~NaTahu(h)
  /\ spojenie[h] = << >>
  /\ uvolnene[Super(h)]
  /\ PoKontrole(h, hraciePole[h], tahHraca1[h], FALSE)
  /\ kontumacia' = [kontumacia EXCEPT ![h] = "nezaslal"]
  /\ UNCHANGED <<uvolnene, poradie, spojenie>>

\* recv returns nothing: everything was received and the peer closed its socket.
NezaslalTah(h) ==
  /\ ~gameOver[h]
  /\ ~NaTahu(h)
  /\ spojenie[h] = << >>
  /\ uvolnene[Super(h)]
  /\ PoKontrole(h, hraciePole[h], tahHraca1[h], TRUE)
  /\ kontumacia' = [kontumacia EXCEPT ![h] = "nezaslal"]
  /\ UNCHANGED <<uvolnene, poradie, spojenie>>

\* The sockets are closed and the board is freed.
cleanUP(h) ==
  /\ gameOver[h]
  /\ ~uvolnene[h]
  /\ uvolnene' = [uvolnene EXCEPT ![h] = TRUE]
  /\ hraciePole' = [hraciePole EXCEPT ![h].live = @ \ Uvolni(hraciePole[h])]
  /\ spojenie' = [spojenie EXCEPT ![h] = << >>]
  /\ UNCHANGED <<tahHraca1, gameOver, verdikt, poradie, kontumacia>>

Next ==
  \E h \in Hraci :
    \/ \E t \in Zadane(h) : MojTah(h, t[1], t[2])
    \/ \E t \in Zadane(h) : NepovolenyPohyb(h, t[1], t[2])
    \/ PrijmiTah(h)
    \/ PrijmiZlyTah(h)
    \/ NezaslalTah(h)
    \/ cleanUP(h)

\* The loop of a process that is not waiting for its player goes on: what was
\* sent is received, a closed socket is noticed, a finished game is cleaned up.
Beh(h) == PrijmiTah(h) \/ PrijmiZlyTah(h) \/ NezaslalTah(h) \/ cleanUP(h)

Spec == Init /\ [][Next]_vars /\ \A h \in Hraci : WF_vars(Beh(h))

-----------------------------------------------------------------------------
(* Each process of a match is a ChessProcess: the peer it plays with is one *)
(* of the environments that module allows.                                  *)

Proces(h) == INSTANCE ChessProcess WITH
  cisloHraca <- h, hraciePole <- hraciePole[h], tahHraca1 <- tahHraca1[h],
  gameOver <- gameOver[h], verdikt <- verdikt[h], uvolnene <- uvolnene[h],
  poradie <- poradie[h]

\* The host's and the client's part of a match are behaviours of the game loop.
HostitelHra == Proces(0)!Init /\ [][Proces(0)!Next]_(Proces(0)!vars)
KlientHra   == Proces(1)!Init /\ [][Proces(1)!Next]_(Proces(1)!vars)

-----------------------------------------------------------------------------
(* Safety. *)

\* At most one process reads the keyboard: tahHraca1 is a variable of each
\* process and nothing but the messages keeps the two in step.
JedenNaTahu == ~ \A h \in Hraci : NaTahu(h) /\ ~gameOver[h]

\* recv asks for up to seven bytes and a message has six: it never finds two
\* messages, and none waits for a process whose player is still to type.
JednaSprava == \A h \in Hraci : /\ Len(spojenie[h]) <= 1
                                /\ spojenie[h] # << >> => \A g \in Hraci : ~NaTahu(g)

\* The replicas are what the players see as one game: once both have played the
\* same plies, the same pieces of the same type stand on the same squares and
\* the same pieces are lost, in whatever order the steps were taken.  (The model
\* remembers the board that cleanUP freed.)
ZhodaPostavenia ==
  poradie[0] = poradie[1] =>
    \A f \in {"policka", "type", "onBoard", "lostBlack", "lostWhite"} :
      hraciePole[0][f] = hraciePole[1][f]

\* On neither replica is a pawn left on the last row, although the receiver of a
\* promotion does not run zmenPesiaka and takes the type from the message; and on
\* neither may a pawn go two squares that is not where it started.
PesiaciNaMieste == \A h \in Hraci : PesiaciSedia(hraciePole[h])

\* The processes never wait for each other: some process is not waiting for a
\* message, or a message is on its way.
NikdyNecakajuObaja ==
  \E h \in Hraci : NaTahu(h) \/ gameOver[h] \/ spojenie[h] # << >>

\* A process that waits for the peer is not left waiting after the peer has left.
KoniecSaDozvieme ==
  \A h \in Hraci : uvolnene[Super(h)] ~> gameOver[h] \/ NaTahu(h)

\* chess.c: only moves that the sender's own program accepted are sent, so the
\* peer's program does not call one of them a bad move.
ZiadnaFalosnaKontumacia == \A h \in Hraci : kontumacia[h] # "zly tah"

=============================================================================
