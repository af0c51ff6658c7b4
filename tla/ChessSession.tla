---------------------------- MODULE ChessSession ----------------------------
(***************************************************************************)
(* The menu around the game: processes that host a game or join one, the   *)
(* sockets they open and close, and the globals that survive a game.  The  *)
(* game itself is reduced to turns, messages and its end (see ChessMatch). *)
(*                                                                         *)
(* Each process runs on a machine of its own and may be ended at any time, *)
(* by its menu or from outside, and started again.                         *)
(***************************************************************************)
EXTENDS Integers, Sequences

CONSTANTS
  Procesy,
  NULL,
  PORT,       \* a descriptor of the listening socket
  SPOJENI,    \* how many connections are made (a bound of the instance)
  KONCOV      \* how many processes are ended (a bound)

Cisla == 1..SPOJENI

ASSUME SessionAssumption ==
  /\ SPOJENI \in Nat /\ KONCOV \in Nat
  /\ PORT \notin Cisla /\ NULL \notin Cisla \cup {PORT}

VARIABLES
  gameOver, tahHraca1, hostujem, cisloHraca, socket_desc, spojenie,
  stav,       \* where the process is: the menu, accept, a game, or not running
  otvorene,   \* its open descriptors: connections, and PORT
  spoje,      \* the connections made so far: who joined whom
  cakajuce,   \* the connections made to a process that it has not accepted
  siet,       \* <<n, p>>: on connection n a move is on its way to p
  konce       \* the number of processes ended

globalne == <<gameOver, tahHraca1, hostujem, cisloHraca, socket_desc, spojenie>>
jadro    == <<otvorene, spoje, cakajuce, siet>>
vars     == <<globalne, stav, jadro, konce>>

TypeOK ==
  /\ {gameOver, tahHraca1, hostujem} \subseteq [Procesy -> BOOLEAN]
  /\ cisloHraca \in [Procesy -> {-1, 0, 1}]
  /\ {socket_desc, spojenie} \subseteq [Procesy -> Cisla \cup {PORT, NULL}]
  /\ stav \in [Procesy -> {"menu", "accept", "hra", "mimo"}]
  /\ otvorene \in [Procesy -> SUBSET (Cisla \cup {PORT})]
  /\ spoje \in Seq([klient : Procesy, host : Procesy]) /\ Len(spoje) <= SPOJENI
  /\ cakajuce \in [Procesy -> SUBSET (1..Len(spoje))]
  /\ siet \subseteq (1..Len(spoje)) \X Procesy
  /\ konce \in 0..KONCOV

Init ==
  /\ gameOver = [p \in Procesy |-> FALSE]
  /\ tahHraca1 = [p \in Procesy |-> TRUE]
  /\ hostujem = [p \in Procesy |-> TRUE]
  /\ cisloHraca = [p \in Procesy |-> -1]
  /\ socket_desc = [p \in Procesy |-> NULL]
  /\ spojenie = [p \in Procesy |-> NULL]
  /\ stav = [p \in Procesy |-> "menu"]
  /\ otvorene = [p \in Procesy |-> {}]
  /\ spoje = << >>
  /\ cakajuce = [p \in Procesy |-> {}]
  /\ siet = {}
  /\ konce = 0

\* The descriptor posliData and cakajNaData use.
Kanal(p) == IF hostujem[p] THEN spojenie[p] ELSE socket_desc[p]

Super(n, p) == IF spoje[n].klient = p THEN spoje[n].host ELSE spoje[n].klient

\* Does somebody hold the other end: the peer, or the queue of its listening socket?
Drzi(n, p) == LET q == Super(n, p) IN n \in otvorene[q] \cup cakajuce[q]

\* Mutant of NaTahu: the process does not ask which player it is.
NaTahuBezCisla(p) == tahHraca1[p]

NaTahu(p) == \/ cisloHraca[p] = 1 /\ ~tahHraca1[p]
             \/ cisloHraca[p] = 0 /\ tahHraca1[p]

Prejdi(p, odkial, kam) ==
  /\ stav[p] = odkial
  /\ stav' = [stav EXCEPT ![p] = kam]
  /\ UNCHANGED konce

-----------------------------------------------------------------------------
\* Mutant of Hrac: the choice itself is assigned.
HracVolba(volba) == volba

\* The player's number that goes with a choice of the menu.
Hrac(volba) == volba - 1

\* mainMenu, choice 1, up to accept: socket and bind may fail.  NULL is also the
\* descriptor of a call that failed, and of a socket that never got a connection.
Hostuj(p) ==
  /\ cisloHraca' = [cisloHraca EXCEPT ![p] = Hrac(1)]
  /\ \/ /\ Prejdi(p, "menu", "menu")
        /\ socket_desc' = [socket_desc EXCEPT ![p] = NULL]
        /\ UNCHANGED otvorene
     \/ /\ PORT \notin otvorene[p]
        /\ Prejdi(p, "menu", "accept")
        /\ socket_desc' = [socket_desc EXCEPT ![p] = PORT]
        /\ otvorene' = [otvorene EXCEPT ![p] = @ \cup {PORT}]
  /\ UNCHANGED <<gameOver, tahHraca1, hostujem, spojenie, spoje, cakajuce, siet>>

\* The oldest connection of the queue.
accept(p) ==
  /\ Prejdi(p, "accept", "hra")
  /\ \E n \in cakajuce[p] :
       /\ \A k \in cakajuce[p] : n <= k
       /\ spojenie' = [spojenie EXCEPT ![p] = n]
       /\ otvorene' = [otvorene EXCEPT ![p] = @ \cup {n}]
       /\ cakajuce' = [cakajuce EXCEPT ![p] = @ \ {n}]
  /\ UNCHANGED <<gameOver, tahHraca1, hostujem, cisloHraca, socket_desc, spoje, siet>>

\* The listening socket stays open.
acceptZlyha(p) ==
  /\ Prejdi(p, "accept", "menu")
  /\ spojenie' = [spojenie EXCEPT ![p] = NULL]
  /\ UNCHANGED <<gameOver, tahHraca1, hostujem, cisloHraca, socket_desc, jadro>>

\* Mutant of HostujemPo: set before connect, also when it fails.
HostujemPoVzdy(p, spojene) == [hostujem EXCEPT ![p] = FALSE]

HostujemPo(p, spojene) == IF spojene THEN [hostujem EXCEPT ![p] = FALSE] ELSE hostujem

\* mainMenu, choice 2.  connect may fail, and does when nobody listens.
PripojSa(p, h) ==
  /\ cisloHraca' = [cisloHraca EXCEPT ![p] = Hrac(2)]
  /\ \/ /\ Prejdi(p, "menu", "menu")
        /\ hostujem' = HostujemPo(p, FALSE)
        /\ socket_desc' = [socket_desc EXCEPT ![p] = NULL]
        /\ UNCHANGED <<spoje, cakajuce, otvorene>>
     \/ /\ PORT \in otvorene[h]
        /\ Len(spoje) < SPOJENI
        /\ Prejdi(p, "menu", "hra")
        /\ hostujem' = HostujemPo(p, TRUE)
        /\ spoje' = Append(spoje, [klient |-> p, host |-> h])
        /\ LET n == Len(spoje')
           IN /\ cakajuce' = [cakajuce EXCEPT ![h] = @ \cup {n}]
              /\ socket_desc' = [socket_desc EXCEPT ![p] = n]
              /\ otvorene' = [otvorene EXCEPT ![p] = @ \cup {n}]
  /\ UNCHANGED <<gameOver, tahHraca1, spojenie, siet>>

-----------------------------------------------------------------------------
\* vytvorHru: one pass of the loop, with any verdict.

Hra(p) ==
  /\ Prejdi(p, "hra", "hra")
  /\ ~gameOver[p]
  /\ UNCHANGED <<hostujem, cisloHraca, socket_desc, spojenie, otvorene, spoje, cakajuce>>

Odovzdaj(p) == [tahHraca1 EXCEPT ![p] = ~@]

MojTah(p) ==
  /\ Hra(p)
  /\ NaTahu(p)
  /\ tahHraca1' = Odovzdaj(p)
  /\ \E koniec \in BOOLEAN : gameOver' = [gameOver EXCEPT ![p] = koniec]
  /\ LET n == Kanal(p)
     IN siet' = siet \cup (IF Drzi(n, p) THEN {<<n, Super(n, p)>>} ELSE {})

PrijmiTah(p) ==
  /\ Hra(p)
  /\ ~NaTahu(p)
  /\ <<Kanal(p), p>> \in siet
  /\ siet' = siet \ {<<Kanal(p), p>>}
  /\ \/ /\ tahHraca1' = Odovzdaj(p)
        /\ \E koniec \in BOOLEAN : gameOver' = [gameOver EXCEPT ![p] = koniec]
     \/ /\ gameOver' = [gameOver EXCEPT ![p] = TRUE]
        /\ UNCHANGED tahHraca1

\* Mutant of Prehra: the game goes on after a failed recv.
PrehraDalej(p) == gameOver

Prehra(p) == [gameOver EXCEPT ![p] = TRUE]

NezaslalTah(p) ==
  /\ Hra(p)
  /\ ~NaTahu(p)
  /\ <<Kanal(p), p>> \notin siet
  /\ ~Drzi(Kanal(p), p)
  /\ gameOver' = Prehra(p)
  /\ UNCHANGED <<tahHraca1, siet>>

\* Mutant of Zatvori: a host does not close the connection.
ZatvoriLenPort(p) == {socket_desc[p]}

Zatvori(p) == {socket_desc[p]} \cup IF hostujem[p] THEN {spojenie[p]} ELSE {}

\* What was sent to a connection is lost when it is closed.
Zahod(p) == siet' = {s \in siet : s[2] = p => s[1] \in otvorene'[p]}

\* When the listening socket is closed, so are the connections in its queue.
cleanUP(p) ==
  /\ gameOver[p]
  /\ Prejdi(p, "hra", "menu")
  /\ otvorene' = [otvorene EXCEPT ![p] = @ \ Zatvori(p)]
  /\ cakajuce' = [cakajuce EXCEPT ![p] = IF PORT \in otvorene'[p] THEN @ ELSE {}]
  /\ Zahod(p)
  /\ UNCHANGED <<globalne, spoje>>

-----------------------------------------------------------------------------
\* The menu's choice 0, or the end of the process from outside.  The globals are
\* those of the next process to be started here.
Skonci(p) ==
  /\ stav[p] # "mimo"
  /\ konce < KONCOV
  /\ konce' = konce + 1
  /\ stav' = [stav EXCEPT ![p] = "mimo"]
  /\ otvorene' = [otvorene EXCEPT ![p] = {}]
  /\ cakajuce' = [cakajuce EXCEPT ![p] = {}]
  /\ Zahod(p)
  /\ gameOver' = [gameOver EXCEPT ![p] = FALSE]
  /\ tahHraca1' = [tahHraca1 EXCEPT ![p] = TRUE]
  /\ hostujem' = [hostujem EXCEPT ![p] = TRUE]
  /\ cisloHraca' = [cisloHraca EXCEPT ![p] = -1]
  /\ socket_desc' = [socket_desc EXCEPT ![p] = NULL]
  /\ spojenie' = [spojenie EXCEPT ![p] = NULL]
  /\ UNCHANGED spoje

Spusti(p) ==
  /\ stav[p] = "mimo"
  /\ stav' = [stav EXCEPT ![p] = "menu"]
  /\ UNCHANGED <<globalne, jadro, konce>>

Volba(p) == Hostuj(p) \/ \E h \in Procesy \ {p} : PripojSa(p, h)
Beh(p)   == accept(p) \/ PrijmiTah(p) \/ NezaslalTah(p) \/ cleanUP(p)

Next == \E p \in Procesy :
  Volba(p) \/ acceptZlyha(p) \/ MojTah(p) \/ Beh(p) \/ Skonci(p) \/ Spusti(p)

Spec == Init /\ [][Next]_vars /\ \A p \in Procesy : WF_vars(Beh(p))

-----------------------------------------------------------------------------
\* Is p reading its connection, or about to?
Hraje(p)     == stav[p] = "hra" /\ ~gameOver[p]
Zapas(n)     == \A p \in {spoje[n].klient, spoje[n].host} : Hraje(p) /\ Kanal(p) = n
Spojenia(p)  == otvorene[p] \ {PORT}

\* Globals that survive a game, failed attempts in the other role and restarts do
\* not reach a game that is played: posliData and cakajNaData use the connection of
\* this game and hostujem is what cisloHraca says.
KanalHry ==
  \A p \in Procesy : Hraje(p) =>
    /\ Kanal(p) \in Spojenia(p)
    /\ hostujem[p] <=> cisloHraca[p] = 0
    /\ hostujem[p] <=> spoje[Kanal(p)].host = p

\* Two processes that play with each other are never both on move, whatever they
\* did before the game.
JedenNaTahu ==
  \A n \in 1..Len(spoje) :
    Zapas(n) => ~(NaTahu(spoje[n].klient) /\ NaTahu(spoje[n].host))

\* What cleanUP leaves open: nothing, unless the process was a client before it was
\* a host.
UnikLenPoKlientovi ==
  \A p \in Procesy : \A n \in Spojenia(p) :
    \/ stav[p] = "hra" /\ n \in {socket_desc[p], spojenie[p]}
    \/ ~hostujem[p] /\ spoje[n].host = p

\* "Klient nezaslal svoj tah, ukoncujem hru": a process that waits for a move on a
\* connection nobody holds any more, also one that was never accepted, gets back
\* to the menu.
CakajuciSaDocka ==
  \A p \in Procesy :
    Hraje(p) /\ ~NaTahu(p) /\ <<Kanal(p), p>> \notin siet /\ ~Drzi(Kanal(p), p)
      ~> stav[p] # "hra"

\* "zatvor sockety" at the end of vytvorHru: in the menu no connection is open.
\* The code does not keep this: hostujem stays FALSE in a process that was a client.
SocketyZatvorene == \A p \in Procesy : stav[p] = "menu" => Spojenia(p) = {}

=============================================================================
