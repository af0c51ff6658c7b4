------------------------- MODULE ChessSessionProofs -------------------------
(***************************************************************************)
(* The invariants of the menu and the sockets, for any number of           *)
(* processes, of connections and of processes that are ended.              *)
(*                                                                         *)
(* A process plays one game at most: gameOver is never reset, so a process *)
(* that is not in a game and not over has not played, and its globals are  *)
(* the initial ones where a game depends on them (PredHrou).  A connection *)
(* waits in a listening socket's queue untouched (VoFronte), so that both  *)
(* ends start from the same turn, and from there a turn is handed over by  *)
(* one message at a time (Striedanie).                                     *)
(***************************************************************************)
EXTENDS ChessSession, SequenceTheorems, TLAPS

\* A connection joins two different processes.
Protivnici == \A n \in 1..Len(spoje) : spoje[n].klient # spoje[n].host

\* A process that has not played would be on move in the role of a host; while it
\* waits in accept it is the first player.
PredHrou ==
  \A p \in Procesy :
    /\ stav[p] # "hra" /\ ~gameOver[p] => hostujem[p] /\ tahHraca1[p]
    /\ stav[p] = "accept" => cisloHraca[p] = 0

\* The descriptors are connections that were made; the one from accept is the
\* host's end.
Popisovace ==
  \A p \in Procesy :
    /\ Spojenia(p) \subseteq 1..Len(spoje)
    /\ spojenie[p] # NULL => spojenie[p] \in 1..Len(spoje) /\ spoje[spojenie[p]].host = p

\* Nothing happens on a connection before its host accepts it.
VoFronte ==
  \A p \in Procesy : \A n \in cakajuce[p] :
    /\ spoje[n].host = p
    /\ n \notin otvorene[p]
    /\ \A q \in Procesy : <<n, q>> \notin siet
    /\ LET k == spoje[n].klient IN Hraje(k) /\ Kanal(k) = n => tahHraca1[k]

\* A process that plays is one end of the connection it uses: the first player
\* its host, the second its client.
Uloha ==
  \A p \in Procesy : Hraje(p) =>
    /\ Kanal(p) \in Spojenia(p)
    /\ \/ hostujem[p] /\ cisloHraca[p] = 0 /\ spoje[Kanal(p)].host = p
       \/ ~hostujem[p] /\ cisloHraca[p] = 1 /\ spoje[Kanal(p)].klient = p

\* Of two processes that play with each other either both know whose turn it is,
\* or both wait and the move is on its way.
Striedanie ==
  \A n \in 1..Len(spoje) :
    LET k == spoje[n].klient
        h == spoje[n].host
    IN Zapas(n) =>
         \/ <<n, k>> \in siet /\ <<n, h>> \notin siet /\ tahHraca1[k] /\ ~tahHraca1[h]
         \/ <<n, k>> \notin siet /\ <<n, h>> \in siet /\ tahHraca1[k] /\ ~tahHraca1[h]
         \/ <<n, k>> \notin siet /\ <<n, h>> \notin siet /\ tahHraca1[k] = tahHraca1[h]

IInv ==
  /\ TypeOK /\ Protivnici /\ PredHrou /\ Popisovace /\ VoFronte /\ Uloha
  /\ UnikLenPoKlientovi /\ Striedanie

-----------------------------------------------------------------------------
\* The types, one variable at a time.
LEMMA Typy ==
  ASSUME TypeOK
  PROVE  /\ gameOver \in [Procesy -> BOOLEAN] /\ tahHraca1 \in [Procesy -> BOOLEAN]
         /\ hostujem \in [Procesy -> BOOLEAN]
         /\ cisloHraca \in [Procesy -> {-1, 0, 1}]
         /\ socket_desc \in [Procesy -> Cisla \cup {PORT, NULL}]
         /\ spojenie \in [Procesy -> Cisla \cup {PORT, NULL}]
         /\ stav \in [Procesy -> {"menu", "accept", "hra", "mimo"}]
         /\ otvorene \in [Procesy -> SUBSET (Cisla \cup {PORT})]
         /\ spoje \in Seq([klient : Procesy, host : Procesy])
         /\ Len(spoje) \in Nat /\ Len(spoje) <= SPOJENI
         /\ cakajuce \in [Procesy -> SUBSET (1..Len(spoje))]
         /\ siet \subseteq (1..Len(spoje)) \X Procesy
         /\ konce \in 0..KONCOV
BY DEF TypeOK

LEMMA Konce ==
  ASSUME TypeOK, NEW n \in 1..Len(spoje)
  PROVE  spoje[n].klient \in Procesy /\ spoje[n].host \in Procesy
<1>1. spoje \in Seq([klient : Procesy, host : Procesy])
  BY Typy
<1>2. spoje[n] \in [klient : Procesy, host : Procesy]
  BY <1>1, ElementOfSeq
<1>3. QED
  BY <1>2

\* The number of a connection is a descriptor, and not the listening socket's.
LEMMA CisloSpojenia ==
  ASSUME TypeOK, NEW n \in 1..Len(spoje)
  PROVE  n \in Cisla /\ n # PORT /\ n # NULL
BY Typy, SessionAssumption DEF Cisla

\* What a step leaves alone at the process q.
Nedotknuty(q) ==
  /\ gameOver'[q] = gameOver[q] /\ tahHraca1'[q] = tahHraca1[q]
  /\ hostujem'[q] = hostujem[q] /\ cisloHraca'[q] = cisloHraca[q]
  /\ socket_desc'[q] = socket_desc[q] /\ spojenie'[q] = spojenie[q]
  /\ stav'[q] = stav[q] /\ otvorene'[q] = otvorene[q] /\ cakajuce'[q] = cakajuce[q]

LEMMA Nedotknute ==
  ASSUME NEW q, Nedotknuty(q)
  PROVE  /\ Hraje(q)' <=> Hraje(q)
         /\ Kanal(q)' = Kanal(q) /\ Spojenia(q)' = Spojenia(q)
BY DEF Nedotknuty, Hraje, Kanal, Spojenia

\* A step of a process that does not play after it does not reach the games of
\* the others.
LEMMA MimoHry ==
  ASSUME IInv, NEW p \in Procesy, ~Hraje(p)', spoje' = spoje,
         \A q \in Procesy \ {p} : Nedotknuty(q),
         otvorene'[p] \subseteq otvorene[p] \cup {PORT}, cakajuce'[p] \subseteq cakajuce[p],
         siet' \subseteq siet,
         \A n, q : <<n, q>> \in siet /\ q # p => <<n, q>> \in siet'
  PROVE  Protivnici' /\ VoFronte' /\ Uloha' /\ Striedanie'
<1>1. /\ TypeOK /\ Protivnici /\ VoFronte /\ Uloha /\ Striedanie
  BY DEF IInv
<1>2. ASSUME NEW q \in Procesy, Hraje(q)'
      PROVE  /\ q # p /\ Hraje(q) /\ Kanal(q)' = Kanal(q) /\ Spojenia(q)' = Spojenia(q)
             /\ tahHraca1'[q] = tahHraca1[q] /\ hostujem'[q] = hostujem[q]
             /\ cisloHraca'[q] = cisloHraca[q]
  <2>1. q # p /\ Nedotknuty(q)
    BY <1>2
  <2>2. QED
    BY <1>2, <2>1, Nedotknute DEF Nedotknuty
<1>3. Protivnici'
  BY <1>1 DEF Protivnici
<1>4. VoFronte'
  <2>1. SUFFICES ASSUME NEW q \in Procesy, NEW n \in cakajuce'[q]
                 PROVE  /\ spoje[n].host = q /\ n \notin otvorene'[q]
                        /\ \A r \in Procesy : <<n, r>> \notin siet'
                        /\ Hraje(spoje[n].klient)' /\ Kanal(spoje[n].klient)' = n
                             => tahHraca1'[spoje[n].klient]
    BY DEF VoFronte, Hraje, Kanal
  <2>2. n \in cakajuce[q]
    BY <2>1 DEF Nedotknuty
  <2>3. n \in 1..Len(spoje)
    BY <1>1, <2>2, Typy
  <2>4. /\ spoje[n].host = q /\ n \notin otvorene[q]
        /\ \A r \in Procesy : <<n, r>> \notin siet
        /\ Hraje(spoje[n].klient) /\ Kanal(spoje[n].klient) = n
             => tahHraca1[spoje[n].klient]
    BY <1>1, <2>2 DEF VoFronte
  <2>5. n \notin otvorene'[q]
    BY <1>1, <2>3, <2>4, CisloSpojenia DEF Nedotknuty
  <2>6. spoje[n].klient \in Procesy
    BY <1>1, <2>3, Konce
  <2>7. QED
    BY <1>2, <2>4, <2>5, <2>6
<1>5. Uloha'
  <2>1. SUFFICES ASSUME NEW q \in Procesy, Hraje(q)'
                 PROVE  /\ Kanal(q)' \in Spojenia(q)'
                        /\ \/ hostujem'[q] /\ cisloHraca'[q] = 0 /\ spoje[Kanal(q)'].host = q
                           \/ ~hostujem'[q] /\ cisloHraca'[q] = 1
                              /\ spoje[Kanal(q)'].klient = q
    BY DEF Uloha
  <2>2. QED
    BY <1>1, <1>2, <2>1 DEF Uloha
<1>6. Striedanie'
  <2>1. SUFFICES ASSUME NEW n \in 1..Len(spoje), Zapas(n)'
                 PROVE  LET k == spoje[n].klient
                            h == spoje[n].host
                        IN  \/ /\ <<n, k>> \in siet' /\ <<n, h>> \notin siet'
                               /\ tahHraca1'[k] /\ ~tahHraca1'[h]
                            \/ /\ <<n, k>> \notin siet' /\ <<n, h>> \in siet'
                               /\ tahHraca1'[k] /\ ~tahHraca1'[h]
                            \/ /\ <<n, k>> \notin siet' /\ <<n, h>> \notin siet'
                               /\ tahHraca1'[k] = tahHraca1'[h]
    BY DEF Striedanie
  <2> DEFINE k == spoje[n].klient
             h == spoje[n].host
  <2>2. k \in Procesy /\ h \in Procesy
    BY <1>1, Konce
  <2>3. Hraje(k)' /\ Hraje(h)' /\ Kanal(k)' = n /\ Kanal(h)' = n
    BY <2>1 DEF Zapas
  <2>4. k # p /\ h # p /\ tahHraca1'[k] = tahHraca1[k] /\ tahHraca1'[h] = tahHraca1[h]
    BY <1>2, <2>2, <2>3
  <2>5. Zapas(n)
    BY <1>2, <2>2, <2>3 DEF Zapas
  <2>6. QED
    BY <1>1, <2>4, <2>5 DEF Striedanie
<1>7. QED
  BY <1>3, <1>4, <1>5, <1>6

LEMMA InitIInv == Init => IInv
<1> SUFFICES ASSUME Init PROVE IInv
  OBVIOUS
<1>1. spoje \in Seq([klient : Procesy, host : Procesy]) /\ Len(spoje) = 0 /\ 1..0 = {}
  BY DEF Init
<1>2. TypeOK
  <2>1. /\ gameOver \in [Procesy -> BOOLEAN] /\ tahHraca1 \in [Procesy -> BOOLEAN]
        /\ hostujem \in [Procesy -> BOOLEAN]
    BY DEF Init
  <2>2. /\ socket_desc \in [Procesy -> Cisla \cup {PORT, NULL}]
        /\ spojenie \in [Procesy -> Cisla \cup {PORT, NULL}]
    BY DEF Init
  <2>3. /\ cisloHraca \in [Procesy -> {-1, 0, 1}]
        /\ stav \in [Procesy -> {"menu", "accept", "hra", "mimo"}]
    BY DEF Init
  <2>4. /\ otvorene \in [Procesy -> SUBSET (Cisla \cup {PORT})]
        /\ cakajuce \in [Procesy -> SUBSET (1..Len(spoje))]
    BY DEF Init
  <2>5. /\ siet \subseteq (1..Len(spoje)) \X Procesy
        /\ konce \in 0..KONCOV /\ Len(spoje) <= SPOJENI
    BY <1>1, SessionAssumption DEF Init
  <2>6. QED
    BY <1>1, <2>1, <2>2, <2>3, <2>4, <2>5 DEF TypeOK
<1>3. \A p \in Procesy : /\ stav[p] = "menu" /\ hostujem[p] /\ tahHraca1[p]
                         /\ otvorene[p] = {} /\ spojenie[p] = NULL /\ cakajuce[p] = {}
  BY DEF Init
<1>4. Protivnici /\ Striedanie
  BY <1>1 DEF Protivnici, Striedanie
<1>5. PredHrou /\ Popisovace /\ VoFronte /\ Uloha /\ UnikLenPoKlientovi
  BY <1>3 DEF PredHrou, Popisovace, VoFronte, Uloha, UnikLenPoKlientovi, Spojenia, Hraje
<1>6. QED
  BY <1>2, <1>4, <1>5 DEF IInv

-----------------------------------------------------------------------------
\* What Prejdi says of each process.
LEMMA KrokPrejdi ==
  ASSUME TypeOK, NEW p \in Procesy, NEW odkial, NEW kam \in {"menu", "accept", "hra", "mimo"},
         Prejdi(p, odkial, kam)
  PROVE  /\ stav[p] = odkial /\ stav'[p] = kam /\ konce' = konce
         /\ \A q \in Procesy \ {p} : stav'[q] = stav[q]
         /\ stav' \in [Procesy -> {"menu", "accept", "hra", "mimo"}]
BY Typy DEF Prejdi

LEMMA AcceptZlyhaZachova ==
  ASSUME IInv, NEW p \in Procesy, acceptZlyha(p)
  PROVE  IInv'
<1>1. TypeOK /\ PredHrou /\ Popisovace /\ UnikLenPoKlientovi
  BY DEF IInv
<1>2. /\ gameOver' = gameOver /\ tahHraca1' = tahHraca1 /\ hostujem' = hostujem
      /\ cisloHraca' = cisloHraca /\ socket_desc' = socket_desc
      /\ otvorene' = otvorene /\ spoje' = spoje /\ cakajuce' = cakajuce /\ siet' = siet
  BY DEF acceptZlyha, jadro
<1>a. /\ spojenie'[p] = NULL
      /\ \A q \in Procesy \ {p} : spojenie'[q] = spojenie[q]
      /\ spojenie' \in [Procesy -> Cisla \cup {PORT, NULL}]
  BY <1>1, Typy DEF acceptZlyha
<1>3. /\ stav[p] = "accept" /\ stav'[p] = "menu" /\ konce' = konce
      /\ \A q \in Procesy \ {p} : stav'[q] = stav[q]
      /\ stav' \in [Procesy -> {"menu", "accept", "hra", "mimo"}]
  BY <1>1, KrokPrejdi DEF acceptZlyha
<1>4. TypeOK'
  BY <1>1, <1>2, <1>a, <1>3 DEF TypeOK
<1>5. ~Hraje(p)' /\ \A q \in Procesy \ {p} : Nedotknuty(q)
  BY <1>2, <1>a, <1>3 DEF Hraje, Nedotknuty
<1>6. Protivnici' /\ VoFronte' /\ Uloha' /\ Striedanie'
  BY <1>2, <1>5, MimoHry
<1>7. PredHrou'
  BY <1>1, <1>2, <1>3 DEF PredHrou
<1>8. Popisovace'
  BY <1>1, <1>2, <1>a DEF Popisovace, Spojenia
<1>9. UnikLenPoKlientovi'
  BY <1>1, <1>2, <1>a, <1>3 DEF UnikLenPoKlientovi, Spojenia
<1>10. QED
  BY <1>4, <1>6, <1>7, <1>8, <1>9 DEF IInv

LEMMA SpustiZachova ==
  ASSUME IInv, NEW p \in Procesy, Spusti(p)
  PROVE  IInv'
<1>1. TypeOK /\ PredHrou /\ Popisovace /\ UnikLenPoKlientovi
  BY DEF IInv
<1>2. /\ gameOver' = gameOver /\ tahHraca1' = tahHraca1 /\ hostujem' = hostujem
      /\ cisloHraca' = cisloHraca /\ socket_desc' = socket_desc /\ spojenie' = spojenie
      /\ otvorene' = otvorene /\ spoje' = spoje /\ cakajuce' = cakajuce /\ siet' = siet
      /\ konce' = konce
  BY DEF Spusti, globalne, jadro
<1>3. /\ stav[p] = "mimo" /\ stav'[p] = "menu"
      /\ \A q \in Procesy \ {p} : stav'[q] = stav[q]
      /\ stav' \in [Procesy -> {"menu", "accept", "hra", "mimo"}]
  BY <1>1, Typy DEF Spusti
<1>4. TypeOK'
  BY <1>1, <1>2, <1>3 DEF TypeOK
<1>5. ~Hraje(p)' /\ \A q \in Procesy \ {p} : Nedotknuty(q)
  BY <1>2, <1>3 DEF Hraje, Nedotknuty
<1>6. Protivnici' /\ VoFronte' /\ Uloha' /\ Striedanie'
  BY <1>2, <1>5, MimoHry
<1>7. PredHrou'
  BY <1>1, <1>2, <1>3 DEF PredHrou
<1>8. Popisovace'
  BY <1>1, <1>2 DEF Popisovace, Spojenia
<1>9. UnikLenPoKlientovi'
  BY <1>1, <1>2, <1>3 DEF UnikLenPoKlientovi, Spojenia
<1>10. QED
  BY <1>4, <1>6, <1>7, <1>8, <1>9 DEF IInv

\* Hosting and joining up to the point where a connection is made.  The globals
\* written are those that a game does not read, or the ones it needs.
LEMMA HostujZachova ==
  ASSUME IInv, NEW p \in Procesy, Hostuj(p)
  PROVE  IInv'
<1>1. TypeOK /\ PredHrou /\ Popisovace /\ UnikLenPoKlientovi
  BY DEF IInv
<1>2. /\ gameOver' = gameOver /\ tahHraca1' = tahHraca1 /\ hostujem' = hostujem
      /\ spojenie' = spojenie /\ spoje' = spoje /\ cakajuce' = cakajuce /\ siet' = siet
  BY DEF Hostuj
<1>3. PICK kam \in {"menu", "accept"} : Prejdi(p, "menu", kam)
  BY DEF Hostuj
<1>4. /\ stav[p] = "menu" /\ stav'[p] = kam /\ konce' = konce
      /\ \A q \in Procesy \ {p} : stav'[q] = stav[q]
      /\ stav' \in [Procesy -> {"menu", "accept", "hra", "mimo"}]
  BY <1>1, <1>3, KrokPrejdi
<1>5. /\ cisloHraca'[p] = 0
      /\ \A q \in Procesy \ {p} : cisloHraca'[q] = cisloHraca[q]
      /\ cisloHraca' \in [Procesy -> {-1, 0, 1}]
  <2>1. cisloHraca' = [cisloHraca EXCEPT ![p] = 0]
    BY DEF Hostuj, Hrac
  <2>2. QED
    BY <1>1, <2>1, Typy
<1>6. /\ \A q \in Procesy \ {p} : socket_desc'[q] = socket_desc[q] /\ otvorene'[q] = otvorene[q]
      /\ otvorene[p] \subseteq otvorene'[p] /\ otvorene'[p] \subseteq otvorene[p] \cup {PORT}
      /\ socket_desc' \in [Procesy -> Cisla \cup {PORT, NULL}]
      /\ otvorene' \in [Procesy -> SUBSET (Cisla \cup {PORT})]
  <2>1. \/ socket_desc' = [socket_desc EXCEPT ![p] = NULL] /\ otvorene' = otvorene
        \/ /\ socket_desc' = [socket_desc EXCEPT ![p] = PORT]
           /\ otvorene' = [otvorene EXCEPT ![p] = @ \cup {PORT}]
    BY DEF Hostuj
  <2>2. QED
    BY <1>1, <2>1, Typy
<1>7. TypeOK'
  BY <1>1, <1>2, <1>4, <1>5, <1>6 DEF TypeOK
<1>8. ~Hraje(p)' /\ \A q \in Procesy \ {p} : Nedotknuty(q)
  BY <1>2, <1>4, <1>5, <1>6 DEF Hraje, Nedotknuty
<1>9. Protivnici' /\ VoFronte' /\ Uloha' /\ Striedanie'
  BY <1>2, <1>6, <1>8, MimoHry
<1>10. PredHrou'
  BY <1>1, <1>2, <1>4, <1>5 DEF PredHrou
<1>11. \A q \in Procesy : Spojenia(q)' = Spojenia(q)
  BY <1>6 DEF Spojenia
<1>12. Popisovace'
  BY <1>1, <1>2, <1>11 DEF Popisovace
<1>13. UnikLenPoKlientovi'
  BY <1>1, <1>2, <1>4, <1>6, <1>11 DEF UnikLenPoKlientovi
<1>14. QED
  BY <1>7, <1>9, <1>10, <1>12, <1>13 DEF IInv

\* PripojSa when socket or connect fails.
PripojSaZlyha(p) ==
  /\ cisloHraca' = [cisloHraca EXCEPT ![p] = Hrac(2)]
  /\ Prejdi(p, "menu", "menu")
  /\ hostujem' = HostujemPo(p, FALSE)
  /\ socket_desc' = [socket_desc EXCEPT ![p] = NULL]
  /\ UNCHANGED <<spoje, cakajuce, otvorene>>
  /\ UNCHANGED <<gameOver, tahHraca1, spojenie, siet>>

LEMMA PripojSaZlyhaZachova ==
  ASSUME IInv, NEW p \in Procesy, PripojSaZlyha(p)
  PROVE  IInv'
<1>1. TypeOK /\ PredHrou /\ Popisovace /\ UnikLenPoKlientovi
  BY DEF IInv
<1>2. /\ gameOver' = gameOver /\ tahHraca1' = tahHraca1 /\ hostujem' = hostujem
      /\ spojenie' = spojenie
      /\ otvorene' = otvorene /\ spoje' = spoje /\ cakajuce' = cakajuce /\ siet' = siet
  BY DEF PripojSaZlyha, HostujemPo
<1>a. /\ \A q \in Procesy \ {p} : socket_desc'[q] = socket_desc[q]
      /\ socket_desc' \in [Procesy -> Cisla \cup {PORT, NULL}]
  BY <1>1, Typy DEF PripojSaZlyha
<1>3. /\ stav[p] = "menu" /\ stav'[p] = "menu" /\ konce' = konce
      /\ \A q \in Procesy \ {p} : stav'[q] = stav[q]
      /\ stav' \in [Procesy -> {"menu", "accept", "hra", "mimo"}]
  BY <1>1, KrokPrejdi DEF PripojSaZlyha
<1>4. /\ \A q \in Procesy \ {p} : cisloHraca'[q] = cisloHraca[q]
      /\ cisloHraca' \in [Procesy -> {-1, 0, 1}]
  BY <1>1, Typy DEF PripojSaZlyha, Hrac
<1>5. TypeOK'
  BY <1>1, <1>2, <1>a, <1>3, <1>4 DEF TypeOK
<1>6. ~Hraje(p)' /\ \A q \in Procesy \ {p} : Nedotknuty(q)
  BY <1>2, <1>a, <1>3, <1>4 DEF Hraje, Nedotknuty
<1>7. Protivnici' /\ VoFronte' /\ Uloha' /\ Striedanie'
  BY <1>2, <1>6, MimoHry
<1>8. PredHrou'
  BY <1>1, <1>2, <1>3, <1>4 DEF PredHrou
<1>9. Popisovace'
  BY <1>1, <1>2 DEF Popisovace, Spojenia
<1>10. UnikLenPoKlientovi'
  BY <1>1, <1>2, <1>a, <1>3 DEF UnikLenPoKlientovi, Spojenia
<1>11. QED
  BY <1>5, <1>7, <1>8, <1>9, <1>10 DEF IInv

\* cleanUP leaves a connection open only if it came from accept and hostujem is
\* not set any more: the process was a client before.
LEMMA CleanUPZachova ==
  ASSUME IInv, NEW p \in Procesy, cleanUP(p)
  PROVE  IInv'
<1>1. TypeOK /\ PredHrou /\ Popisovace /\ UnikLenPoKlientovi
  BY DEF IInv
<1>2. /\ gameOver' = gameOver /\ tahHraca1' = tahHraca1 /\ hostujem' = hostujem
      /\ cisloHraca' = cisloHraca /\ socket_desc' = socket_desc /\ spojenie' = spojenie
      /\ spoje' = spoje /\ gameOver[p]
  BY DEF cleanUP, globalne
<1>3. /\ stav[p] = "hra" /\ stav'[p] = "menu" /\ konce' = konce
      /\ \A q \in Procesy \ {p} : stav'[q] = stav[q]
      /\ stav' \in [Procesy -> {"menu", "accept", "hra", "mimo"}]
  BY <1>1, KrokPrejdi DEF cleanUP
<1>4. /\ otvorene'[p] = otvorene[p] \ Zatvori(p)
      /\ cakajuce'[p] \subseteq cakajuce[p]
      /\ \A q \in Procesy \ {p} : otvorene'[q] = otvorene[q] /\ cakajuce'[q] = cakajuce[q]
      /\ otvorene' \in [Procesy -> SUBSET (Cisla \cup {PORT})]
      /\ cakajuce' \in [Procesy -> SUBSET (1..Len(spoje))]
  <2>1. /\ otvorene' = [otvorene EXCEPT ![p] = @ \ Zatvori(p)]
        /\ cakajuce' = [cakajuce EXCEPT ![p] = IF PORT \in otvorene'[p] THEN @ ELSE {}]
    BY DEF cleanUP
  <2>2. QED
    BY <1>1, <2>1, Typy
<1>5. /\ siet' \subseteq siet
      /\ \A n, q : <<n, q>> \in siet /\ q # p => <<n, q>> \in siet'
  BY DEF cleanUP, Zahod
<1>6. TypeOK'
  BY <1>1, <1>2, <1>3, <1>4, <1>5 DEF TypeOK
<1>7. ~Hraje(p)' /\ \A q \in Procesy \ {p} : Nedotknuty(q)
  BY <1>2, <1>3, <1>4 DEF Hraje, Nedotknuty
<1>8. Protivnici' /\ VoFronte' /\ Uloha' /\ Striedanie'
  BY <1>2, <1>4, <1>5, <1>7, MimoHry
<1>9. PredHrou'
  BY <1>1, <1>2, <1>3 DEF PredHrou
<1>10. \A q \in Procesy : Spojenia(q)' \subseteq Spojenia(q)
  BY <1>4 DEF Spojenia
<1>11. Popisovace'
  BY <1>1, <1>2, <1>10 DEF Popisovace
<1>12. UnikLenPoKlientovi'
  <2>1. SUFFICES ASSUME NEW q \in Procesy, NEW n \in Spojenia(q)'
                 PROVE  \/ stav'[q] = "hra" /\ n \in {socket_desc[q], spojenie[q]}
                        \/ ~hostujem[q] /\ spoje[n].host = q
    BY <1>2 DEF UnikLenPoKlientovi
  <2>2. n \in Spojenia(q) /\ n # PORT
    BY <1>10, <2>1 DEF Spojenia
  <2>3. \/ stav[q] = "hra" /\ n \in {socket_desc[q], spojenie[q]}
        \/ ~hostujem[q] /\ spoje[n].host = q
    BY <1>1, <2>2 DEF UnikLenPoKlientovi
  <2>4. CASE q # p
    BY <1>3, <2>3, <2>4
  <2>5. CASE q = p
    <3>1. n \notin Zatvori(p)
      BY <1>4, <2>1, <2>5 DEF Spojenia
    <3>2. n # socket_desc[p] /\ (hostujem[p] => n # spojenie[p])
      BY <3>1 DEF Zatvori
    <3>3. n \in 1..Len(spoje)
      BY <1>1, <2>2 DEF Popisovace
    <3>4. n # NULL
      BY <1>1, <3>3, CisloSpojenia
    <3>5. n = spojenie[p] => spoje[n].host = p
      BY <1>1, <3>4 DEF Popisovace
    <3>6. QED
      BY <2>3, <2>5, <3>2, <3>5
  <2>6. QED
    BY <2>4, <2>5
<1>13. QED
  BY <1>6, <1>8, <1>9, <1>11, <1>12 DEF IInv

\* The next process that is started here has none of the descriptors.
LEMMA SkonciZachova ==
  ASSUME IInv, NEW p \in Procesy, Skonci(p)
  PROVE  IInv'
<1>1. TypeOK /\ PredHrou /\ Popisovace /\ UnikLenPoKlientovi
  BY DEF IInv
<1>2. /\ stav'[p] = "mimo" /\ otvorene'[p] = {} /\ cakajuce'[p] = {}
      /\ ~gameOver'[p] /\ tahHraca1'[p] /\ hostujem'[p]
      /\ socket_desc'[p] = NULL /\ spojenie'[p] = NULL /\ spoje' = spoje
  BY <1>1, Typy DEF Skonci
<1>3. \A q \in Procesy \ {p} : Nedotknuty(q)
  BY <1>1, Typy DEF Skonci, Nedotknuty
<1>4. /\ siet' \subseteq siet
      /\ \A n, q : <<n, q>> \in siet /\ q # p => <<n, q>> \in siet'
  BY DEF Skonci, Zahod
<1>5. TypeOK'
  <2>1. /\ gameOver' \in [Procesy -> BOOLEAN] /\ tahHraca1' \in [Procesy -> BOOLEAN]
        /\ hostujem' \in [Procesy -> BOOLEAN]
    BY <1>1, Typy DEF Skonci
  <2>2. /\ socket_desc' \in [Procesy -> Cisla \cup {PORT, NULL}]
        /\ spojenie' \in [Procesy -> Cisla \cup {PORT, NULL}]
    BY <1>1, Typy DEF Skonci
  <2>3. /\ cisloHraca' \in [Procesy -> {-1, 0, 1}]
        /\ stav' \in [Procesy -> {"menu", "accept", "hra", "mimo"}]
    BY <1>1, Typy DEF Skonci
  <2>4. /\ otvorene' \in [Procesy -> SUBSET (Cisla \cup {PORT})]
        /\ cakajuce' \in [Procesy -> SUBSET (1..Len(spoje))]
    BY <1>1, Typy DEF Skonci
  <2>5. konce' \in 0..KONCOV
    BY <1>1, Typy, SessionAssumption DEF Skonci
  <2>6. QED
    BY <1>1, <1>2, <1>4, <2>1, <2>2, <2>3, <2>4, <2>5 DEF TypeOK
<1>6. ~Hraje(p)'
  BY <1>2 DEF Hraje
<1>7. \A q \in Procesy \ {p} : /\ Hraje(q)' <=> Hraje(q)
                               /\ Kanal(q)' = Kanal(q) /\ Spojenia(q)' = Spojenia(q)
  BY <1>3, Nedotknute
<1>8. Protivnici' /\ VoFronte' /\ Uloha' /\ Striedanie'
  BY <1>2, <1>3, <1>4, <1>6, MimoHry
<1>9. PredHrou'
  BY <1>1, <1>2, <1>3 DEF PredHrou, Nedotknuty
<1>10. Spojenia(p)' = {}
  BY <1>2 DEF Spojenia
<1>11. Popisovace'
  BY <1>1, <1>2, <1>3, <1>7, <1>10 DEF Popisovace, Nedotknuty
<1>12. UnikLenPoKlientovi'
  BY <1>1, <1>2, <1>3, <1>7, <1>10 DEF UnikLenPoKlientovi, Nedotknuty
<1>13. QED
  BY <1>5, <1>8, <1>9, <1>11, <1>12 DEF IInv

-----------------------------------------------------------------------------

\* The two ends of a game: who they are and which player each is.
LEMMA Role ==
  ASSUME IInv, NEW n \in 1..Len(spoje), Zapas(n),
         NEW k, NEW h, k = spoje[n].klient, h = spoje[n].host
  PROVE  /\ k \in Procesy /\ h \in Procesy /\ k # h
         /\ cisloHraca[k] = 1 /\ cisloHraca[h] = 0
         /\ n \in otvorene[k] /\ n \in otvorene[h]
<1>1. k \in Procesy /\ h \in Procesy /\ k # h
  BY Konce DEF IInv, Protivnici
<1>2. Hraje(k) /\ Hraje(h) /\ Kanal(k) = n /\ Kanal(h) = n
  BY DEF Zapas
<1>3. QED
  BY <1>1, <1>2 DEF IInv, Uloha, Spojenia

\* A process that plays uses a connection it is an end of.
LEMMA MojKanal ==
  ASSUME IInv, NEW p \in Procesy, Hraje(p)
  PROVE  /\ Kanal(p) \in 1..Len(spoje) /\ Kanal(p) \in otvorene[p]
         /\ \/ cisloHraca[p] = 0 /\ spoje[Kanal(p)].host = p /\ spoje[Kanal(p)].klient # p
            \/ cisloHraca[p] = 1 /\ spoje[Kanal(p)].klient = p /\ spoje[Kanal(p)].host # p
BY DEF IInv, Uloha, Popisovace, Protivnici, Spojenia

\* The turn, one of the two a message is on its way to, or neither.
NaRade(n, k, h) ==
  \/ <<n, k>> \in siet /\ <<n, h>> \notin siet /\ tahHraca1[k] /\ ~tahHraca1[h]
  \/ <<n, k>> \notin siet /\ <<n, h>> \in siet /\ tahHraca1[k] /\ ~tahHraca1[h]
  \/ <<n, k>> \notin siet /\ <<n, h>> \notin siet /\ tahHraca1[k] = tahHraca1[h]

LEMMA StriedanieNaRade ==
  Striedanie <=>
    \A n \in 1..Len(spoje) : Zapas(n) => NaRade(n, spoje[n].klient, spoje[n].host)
BY DEF Striedanie, NaRade

\* A pass of the game's loop changes the turn, gameOver and the messages only.
LEMMA HraZachova ==
  ASSUME IInv, NEW p \in Procesy, Hra(p),
         gameOver' \in [Procesy -> BOOLEAN], tahHraca1' \in [Procesy -> BOOLEAN],
         siet' \subseteq (1..Len(spoje)) \X Procesy,
         \A q \in Procesy \ {p} :
           gameOver'[q] = gameOver[q] /\ tahHraca1'[q] = tahHraca1[q],
         VoFronte', Striedanie'
  PROVE  IInv'
<1>1. /\ TypeOK /\ Protivnici /\ PredHrou /\ Popisovace /\ Uloha /\ UnikLenPoKlientovi
  BY DEF IInv
<1>2. /\ hostujem' = hostujem /\ cisloHraca' = cisloHraca /\ socket_desc' = socket_desc
      /\ spojenie' = spojenie /\ otvorene' = otvorene /\ spoje' = spoje
      /\ cakajuce' = cakajuce /\ konce' = konce
  BY DEF Hra, Prejdi
<1>3. stav' = stav /\ stav[p] = "hra" /\ ~gameOver[p]
  BY <1>1, Typy DEF Hra, Prejdi
<1>4. TypeOK'
  BY <1>1, <1>2, <1>3 DEF TypeOK
<1>5. Protivnici' /\ Popisovace' /\ UnikLenPoKlientovi'
  BY <1>1, <1>2, <1>3 DEF Protivnici, Popisovace, UnikLenPoKlientovi, Spojenia
<1>6. PredHrou'
  BY <1>1, <1>2, <1>3 DEF PredHrou
<1>7. ASSUME NEW q \in Procesy, Hraje(q)'
      PROVE  Hraje(q) /\ Kanal(q)' = Kanal(q) /\ Spojenia(q)' = Spojenia(q)
  BY <1>2, <1>3, <1>7 DEF Hraje, Kanal, Spojenia
<1>8. Uloha'
  BY <1>1, <1>2, <1>7 DEF Uloha
<1>9. QED
  BY <1>4, <1>5, <1>6, <1>8 DEF IInv

\* What a pass leaves of the games of which p is not an end.
LEMMA InyZapas ==
  ASSUME IInv, NEW p \in Procesy, Hra(p),
         \A q \in Procesy \ {p} :
           gameOver'[q] = gameOver[q] /\ tahHraca1'[q] = tahHraca1[q],
         NEW n \in 1..Len(spoje), Zapas(n)'
  PROVE  /\ Zapas(n)
         /\ n # Kanal(p) => p # spoje[n].klient /\ p # spoje[n].host
<1>1. /\ hostujem' = hostujem /\ socket_desc' = socket_desc /\ spojenie' = spojenie
      /\ spoje' = spoje
  BY DEF Hra
<1>2. stav' = stav /\ stav[p] = "hra" /\ ~gameOver[p]
  BY Typy DEF Hra, Prejdi, IInv
<1>3. \A q \in Procesy : (Hraje(q)' => Hraje(q)) /\ Kanal(q)' = Kanal(q)
  BY <1>1, <1>2 DEF Hraje, Kanal
<1>4. spoje[n].klient \in Procesy /\ spoje[n].host \in Procesy
  BY Konce DEF IInv
<1>5. QED
  BY <1>1, <1>3, <1>4 DEF Zapas

\* A move: p was on move, so no message was on its way and the other waited; now
\* both wait, with one message under way.
LEMMA MojTahZachova ==
  ASSUME IInv, NEW p \in Procesy, MojTah(p)
  PROVE  IInv'
<1> DEFINE n == Kanal(p)
           o == Super(n, p)
<1>1. /\ TypeOK /\ VoFronte /\ Striedanie
  BY DEF IInv
<1>2. /\ Hra(p) /\ NaTahu(p) /\ Hraje(p)
      /\ siet' = siet \cup (IF Drzi(n, p) THEN {<<n, o>>} ELSE {})
  BY DEF MojTah, Hra, Prejdi, Hraje
<1>3. /\ tahHraca1' = [tahHraca1 EXCEPT ![p] = ~@]
      /\ \E koniec \in BOOLEAN : gameOver' = [gameOver EXCEPT ![p] = koniec]
  BY DEF MojTah, Odovzdaj
<1>4. /\ gameOver' \in [Procesy -> BOOLEAN] /\ tahHraca1' \in [Procesy -> BOOLEAN]
      /\ tahHraca1'[p] = ~tahHraca1[p]
      /\ \A q \in Procesy \ {p} :
           gameOver'[q] = gameOver[q] /\ tahHraca1'[q] = tahHraca1[q]
  BY <1>1, <1>3, Typy
<1>5. /\ hostujem' = hostujem /\ socket_desc' = socket_desc /\ spojenie' = spojenie
      /\ otvorene' = otvorene /\ spoje' = spoje /\ cakajuce' = cakajuce
      /\ stav' = stav
  BY <1>1, <1>2, Typy DEF Hra, Prejdi
<1>6. /\ n \in 1..Len(spoje) /\ n \in otvorene[p]
      /\ \/ cisloHraca[p] = 0 /\ spoje[n].host = p /\ spoje[n].klient # p
         \/ cisloHraca[p] = 1 /\ spoje[n].klient = p /\ spoje[n].host # p
  BY <1>2, MojKanal
<1>7. o \in Procesy /\ o # p
  BY <1>1, <1>6, Konce DEF Super
<1>8. siet' \subseteq (1..Len(spoje)) \X Procesy
  BY <1>1, <1>2, <1>6, <1>7, Typy
<1>9. VoFronte'
  <2>1. SUFFICES ASSUME NEW q \in Procesy, NEW m \in cakajuce[q]
                 PROVE  /\ spoje[m].host = q /\ m \notin otvorene[q]
                        /\ \A r \in Procesy : <<m, r>> \notin siet'
                        /\ Hraje(spoje[m].klient)' /\ Kanal(spoje[m].klient)' = m
                             => tahHraca1'[spoje[m].klient]
    BY <1>5 DEF VoFronte, Hraje, Kanal
  <2>2. /\ spoje[m].host = q /\ m \notin otvorene[q]
        /\ \A r \in Procesy : <<m, r>> \notin siet
        /\ Hraje(spoje[m].klient) /\ Kanal(spoje[m].klient) = m
             => tahHraca1[spoje[m].klient]
    BY <1>1, <2>1 DEF VoFronte
  <2>3. m \in 1..Len(spoje)
    BY <1>1, <2>1, Typy
  <2>4. m # n
    <3>1. SUFFICES ASSUME m = n PROVE FALSE
      OBVIOUS
    <3>2. cisloHraca[p] = 1 /\ spoje[n].klient = p
      BY <1>6, <2>2, <3>1
    <3>3. tahHraca1[p]
      BY <1>2, <2>2, <3>1, <3>2
    <3>4. QED
      BY <1>2, <3>2, <3>3 DEF NaTahu
  <2>5. \A r \in Procesy : <<m, r>> \notin siet'
    BY <1>2, <2>2, <2>4
  <2>6. spoje[m].klient \in Procesy
    BY <1>1, <2>3, Konce
  <2>7. Kanal(spoje[m].klient)' = Kanal(spoje[m].klient)
    BY <1>5 DEF Kanal
  <2>8. ASSUME Hraje(spoje[m].klient)', Kanal(spoje[m].klient)' = m
        PROVE  tahHraca1'[spoje[m].klient]
    <3>1. spoje[m].klient # p
      BY <2>4, <2>7, <2>8
    <3>2. Hraje(spoje[m].klient)
      BY <1>4, <1>5, <2>6, <2>8, <3>1 DEF Hraje
    <3>3. QED
      BY <1>4, <2>2, <2>6, <2>7, <2>8, <3>1, <3>2
  <2>9. QED
    BY <2>2, <2>5, <2>8
<1>10. Striedanie'
  <2>1. SUFFICES ASSUME NEW m \in 1..Len(spoje), Zapas(m)',
                        NEW k, NEW h, k = spoje[m].klient, h = spoje[m].host
                 PROVE  NaRade(m, k, h)'
    BY <1>5, StriedanieNaRade DEF Striedanie, NaRade
  <2>2. Zapas(m) /\ (m # n => p # k /\ p # h)
    BY <1>2, <1>4, <2>1, InyZapas
  <2>3. /\ k \in Procesy /\ h \in Procesy /\ k # h
        /\ cisloHraca[k] = 1 /\ cisloHraca[h] = 0
        /\ m \in otvorene[k] /\ m \in otvorene[h]
    BY <2>1, <2>2, Role
  <2>4. NaRade(m, k, h)
    BY <1>1, <2>1, <2>2, StriedanieNaRade
  <2>5. CASE m # n
    BY <1>2, <1>4, <2>2, <2>3, <2>4, <2>5 DEF NaRade
  <2>6. CASE m = n /\ p = k
    <3>1. o = h /\ Drzi(n, p)
      BY <2>1, <2>3, <2>6 DEF Super, Drzi
    <3>2. siet' = siet \cup {<<n, h>>}
      BY <1>2, <3>1
    <3>3. ~tahHraca1[k]
      BY <1>2, <2>3, <2>6 DEF NaTahu
    <3>4. QED
      BY <1>4, <2>3, <2>4, <2>6, <3>2, <3>3 DEF NaRade
  <2>7. CASE m = n /\ p = h
    <3>1. o = k /\ Drzi(n, p)
      BY <2>1, <2>3, <2>7 DEF Super, Drzi
    <3>2. siet' = siet \cup {<<n, k>>}
      BY <1>2, <3>1
    <3>3. tahHraca1[h]
      BY <1>2, <2>3, <2>7 DEF NaTahu
    <3>4. QED
      BY <1>4, <2>3, <2>4, <2>7, <3>2, <3>3 DEF NaRade
  <2>8. CASE m = n /\ p # k /\ p # h
    BY <1>6, <2>1, <2>8
  <2>9. QED
    BY <2>5, <2>6, <2>7, <2>8
<1>11. QED
  BY <1>2, <1>4, <1>8, <1>9, <1>10, HraZachova

\* The message arrives: the one that waited for it is on move, the other waits on.
LEMMA PrijmiTahZachova ==
  ASSUME IInv, NEW p \in Procesy, PrijmiTah(p)
  PROVE  IInv'
<1> DEFINE n == Kanal(p)
<1>1. /\ TypeOK /\ VoFronte /\ Striedanie
  BY DEF IInv
<1>2. /\ Hra(p) /\ Hraje(p) /\ <<n, p>> \in siet /\ siet' = siet \ {<<n, p>>}
  BY DEF PrijmiTah, Hra, Prejdi, Hraje
<1>3. /\ gameOver' \in [Procesy -> BOOLEAN] /\ tahHraca1' \in [Procesy -> BOOLEAN]
      /\ \A q \in Procesy \ {p} :
           gameOver'[q] = gameOver[q] /\ tahHraca1'[q] = tahHraca1[q]
      /\ gameOver'[p] \/ tahHraca1'[p] = ~tahHraca1[p]
  <2>1. CASE /\ tahHraca1' = Odovzdaj(p)
             /\ \E koniec \in BOOLEAN : gameOver' = [gameOver EXCEPT ![p] = koniec]
    BY <1>1, <2>1, Typy DEF Odovzdaj
  <2>2. CASE gameOver' = [gameOver EXCEPT ![p] = TRUE] /\ tahHraca1' = tahHraca1
    BY <1>1, <2>2, Typy
  <2>3. QED
    BY <2>1, <2>2 DEF PrijmiTah
<1>4. /\ hostujem' = hostujem /\ socket_desc' = socket_desc /\ spojenie' = spojenie
      /\ otvorene' = otvorene /\ spoje' = spoje /\ cakajuce' = cakajuce
      /\ stav' = stav
  BY <1>1, <1>2, Typy DEF Hra, Prejdi
<1>5. /\ n \in 1..Len(spoje)
      /\ spoje[n].host = p \/ spoje[n].klient = p
  BY <1>2, MojKanal
<1>6. siet' \subseteq (1..Len(spoje)) \X Procesy
  BY <1>1, <1>2, Typy
<1>7. VoFronte'
  <2>1. SUFFICES ASSUME NEW q \in Procesy, NEW m \in cakajuce[q]
                 PROVE  /\ spoje[m].host = q /\ m \notin otvorene[q]
                        /\ \A r \in Procesy : <<m, r>> \notin siet'
                        /\ Hraje(spoje[m].klient)' /\ Kanal(spoje[m].klient)' = m
                             => tahHraca1'[spoje[m].klient]
    BY <1>4 DEF VoFronte, Hraje, Kanal
  <2>2. /\ spoje[m].host = q /\ m \notin otvorene[q]
        /\ \A r \in Procesy : <<m, r>> \notin siet
        /\ Hraje(spoje[m].klient) /\ Kanal(spoje[m].klient) = m
             => tahHraca1[spoje[m].klient]
    BY <1>1, <2>1 DEF VoFronte
  <2>3. m # n
    BY <1>2, <2>2
  <2>4. spoje[m].klient \in Procesy
    BY <1>1, <2>1, Typy, Konce
  <2>5. Kanal(spoje[m].klient)' = Kanal(spoje[m].klient)
    BY <1>4 DEF Kanal
  <2>6. ASSUME Hraje(spoje[m].klient)', Kanal(spoje[m].klient)' = m
        PROVE  tahHraca1'[spoje[m].klient]
    <3>1. spoje[m].klient # p
      BY <2>3, <2>5, <2>6
    <3>2. Hraje(spoje[m].klient)
      BY <1>3, <1>4, <2>4, <2>6, <3>1 DEF Hraje
    <3>3. QED
      BY <1>3, <2>2, <2>4, <2>5, <2>6, <3>1, <3>2
  <2>7. QED
    BY <1>2, <2>2, <2>6
<1>8. Striedanie'
  <2>1. SUFFICES ASSUME NEW m \in 1..Len(spoje), Zapas(m)',
                        NEW k, NEW h, k = spoje[m].klient, h = spoje[m].host
                 PROVE  NaRade(m, k, h)'
    BY <1>4, StriedanieNaRade DEF Striedanie, NaRade
  <2>2. Zapas(m) /\ (m # n => p # k /\ p # h)
    BY <1>2, <1>3, <2>1, InyZapas
  <2>3. k \in Procesy /\ h \in Procesy /\ k # h
    BY <2>1, <2>2, Role
  <2>4. NaRade(m, k, h)
    BY <1>1, <2>1, <2>2, StriedanieNaRade
  <2>5. CASE m # n
    BY <1>2, <1>3, <2>2, <2>3, <2>4, <2>5 DEF NaRade
  <2>6. CASE m = n
    <3>1. p \in {k, h}
      BY <1>5, <2>1, <2>6
    <3>2. ~gameOver'[p]
      BY <1>4, <2>1, <3>1 DEF Zapas, Hraje
    <3>3. tahHraca1'[p] = ~tahHraca1[p]
      BY <1>3, <3>2
    <3>4. QED
      BY <1>2, <1>3, <2>3, <2>4, <2>6, <3>1, <3>3 DEF NaRade
  <2>7. QED
    BY <2>5, <2>6
<1>9. QED
  BY <1>2, <1>3, <1>6, <1>7, <1>8, HraZachova

LEMMA NezaslalTahZachova ==
  ASSUME IInv, NEW p \in Procesy, NezaslalTah(p)
  PROVE  IInv'
<1>1. TypeOK
  BY DEF IInv
<1>2. /\ Hra(p) /\ tahHraca1' = tahHraca1 /\ siet' = siet
      /\ gameOver' = [gameOver EXCEPT ![p] = TRUE]
  BY DEF NezaslalTah, Prehra
<1>3. /\ gameOver' \in [Procesy -> BOOLEAN] /\ gameOver'[p]
      /\ \A q \in Procesy \ {p} : gameOver'[q] = gameOver[q]
  BY <1>1, <1>2, Typy
<1>4. /\ hostujem' = hostujem /\ cisloHraca' = cisloHraca /\ socket_desc' = socket_desc
      /\ spojenie' = spojenie /\ otvorene' = otvorene /\ spoje' = spoje
      /\ cakajuce' = cakajuce /\ stav' = stav
  BY <1>1, <1>2, Typy DEF Hra, Prejdi
<1>5. ~Hraje(p)' /\ \A q \in Procesy \ {p} : Nedotknuty(q)
  BY <1>2, <1>3, <1>4 DEF Hraje, Nedotknuty
<1>6. VoFronte' /\ Striedanie'
  BY <1>2, <1>4, <1>5, MimoHry
<1>7. QED
  BY <1>1, <1>2, <1>3, <1>6, HraZachova, Typy

-----------------------------------------------------------------------------
\* accept: the host is on move, and the client, if it is still there, waits.
LEMMA AcceptZachova ==
  ASSUME IInv, NEW p \in Procesy, accept(p)
  PROVE  IInv'
<1>1. /\ TypeOK /\ Protivnici /\ PredHrou /\ Popisovace /\ VoFronte /\ Uloha
      /\ UnikLenPoKlientovi /\ Striedanie
  BY DEF IInv
<1>2. PICK n \in cakajuce[p] :
        /\ spojenie' = [spojenie EXCEPT ![p] = n]
        /\ otvorene' = [otvorene EXCEPT ![p] = @ \cup {n}]
        /\ cakajuce' = [cakajuce EXCEPT ![p] = @ \ {n}]
  BY DEF accept
<1>3. /\ gameOver' = gameOver /\ tahHraca1' = tahHraca1 /\ hostujem' = hostujem
      /\ cisloHraca' = cisloHraca /\ socket_desc' = socket_desc /\ spoje' = spoje
      /\ siet' = siet
  BY DEF accept
<1>4. /\ stav[p] = "accept" /\ stav'[p] = "hra" /\ konce' = konce
      /\ \A q \in Procesy \ {p} : stav'[q] = stav[q]
      /\ stav' \in [Procesy -> {"menu", "accept", "hra", "mimo"}]
  BY <1>1, KrokPrejdi DEF accept
<1>5. /\ n \in 1..Len(spoje) /\ n \in Cisla /\ n # PORT /\ n # NULL
  BY <1>1, <1>2, Typy, CisloSpojenia
<1>6. /\ spojenie'[p] = n /\ otvorene'[p] = otvorene[p] \cup {n}
      /\ cakajuce'[p] = cakajuce[p] \ {n}
      /\ \A q \in Procesy \ {p} : /\ spojenie'[q] = spojenie[q] /\ otvorene'[q] = otvorene[q]
                                  /\ cakajuce'[q] = cakajuce[q]
      /\ spojenie' \in [Procesy -> Cisla \cup {PORT, NULL}]
      /\ otvorene' \in [Procesy -> SUBSET (Cisla \cup {PORT})]
      /\ cakajuce' \in [Procesy -> SUBSET (1..Len(spoje))]
  BY <1>1, <1>2, <1>5, Typy
<1>7. TypeOK'
  BY <1>1, <1>3, <1>4, <1>6 DEF TypeOK
<1>8. /\ spoje[n].host = p
      /\ \A r \in Procesy : <<n, r>> \notin siet
      /\ Hraje(spoje[n].klient) /\ Kanal(spoje[n].klient) = n => tahHraca1[spoje[n].klient]
  BY <1>1, <1>2 DEF VoFronte
<1>9. /\ ~gameOver[p] => hostujem[p] /\ tahHraca1[p]
      /\ cisloHraca[p] = 0
  BY <1>1, <1>4 DEF PredHrou
<1>10. \A q \in Procesy \ {p} : /\ Hraje(q)' <=> Hraje(q)
                                /\ Kanal(q)' = Kanal(q) /\ Spojenia(q)' = Spojenia(q)
  BY <1>3, <1>4, <1>6 DEF Hraje, Kanal, Spojenia
<1>11. Hraje(p)' => hostujem[p] /\ tahHraca1[p] /\ Kanal(p)' = n
  BY <1>3, <1>6, <1>9 DEF Hraje, Kanal
<1>12. Spojenia(p)' = Spojenia(p) \cup {n}
  BY <1>5, <1>6 DEF Spojenia
<1>13. Protivnici'
  BY <1>1, <1>3 DEF Protivnici
<1>14. PredHrou'
  BY <1>1, <1>3, <1>4 DEF PredHrou
<1>15. Popisovace'
  BY <1>1, <1>3, <1>5, <1>6, <1>8, <1>10, <1>12 DEF Popisovace
<1>16. VoFronte'
  <2>1. SUFFICES ASSUME NEW q \in Procesy, NEW m \in cakajuce'[q],
                        NEW k, k = spoje[m].klient
                 PROVE  /\ spoje[m].host = q /\ m \notin otvorene'[q]
                        /\ \A r \in Procesy : <<m, r>> \notin siet
                        /\ Hraje(k)' /\ Kanal(k)' = m => tahHraca1[k]
    BY <1>3 DEF VoFronte, Hraje, Kanal
  <2>2. m \in cakajuce[q] /\ (q = p => m # n)
    BY <1>6, <2>1
  <2>3. /\ spoje[m].host = q /\ m \notin otvorene[q]
        /\ \A r \in Procesy : <<m, r>> \notin siet
        /\ Hraje(k) /\ Kanal(k) = m => tahHraca1[k]
    BY <1>1, <2>1, <2>2 DEF VoFronte
  <2>4. k \in Procesy
    BY <1>1, <2>1, <2>2, Typy, Konce
  <2>5. m \notin otvorene'[q]
    BY <1>6, <2>2, <2>3
  <2>6. Hraje(k)' /\ Kanal(k)' = m => tahHraca1[k]
    <3>1. CASE k = p
      BY <1>11, <3>1
    <3>2. CASE k # p
      BY <1>10, <2>3, <2>4, <3>2
    <3>3. QED
      BY <3>1, <3>2
  <2>7. QED
    BY <2>3, <2>5, <2>6
<1>17. Uloha'
  <2>1. SUFFICES ASSUME NEW q \in Procesy, Hraje(q)'
                 PROVE  /\ Kanal(q)' \in Spojenia(q)'
                        /\ \/ /\ hostujem[q] /\ cisloHraca[q] = 0
                              /\ spoje[Kanal(q)'].host = q
                           \/ /\ ~hostujem[q] /\ cisloHraca[q] = 1
                              /\ spoje[Kanal(q)'].klient = q
    BY <1>3 DEF Uloha
  <2>2. CASE q = p
    BY <1>8, <1>9, <1>11, <1>12, <2>1, <2>2
  <2>3. CASE q # p
    BY <1>1, <1>10, <2>1, <2>3 DEF Uloha
  <2>4. QED
    BY <2>2, <2>3
<1>18. UnikLenPoKlientovi'
  <2>1. SUFFICES ASSUME NEW q \in Procesy, NEW m \in Spojenia(q)'
                 PROVE  \/ stav'[q] = "hra" /\ m \in {socket_desc[q], spojenie'[q]}
                        \/ ~hostujem[q] /\ spoje[m].host = q
    BY <1>3 DEF UnikLenPoKlientovi
  <2>2. QED
    BY <1>1, <1>4, <1>6, <1>10, <1>12, <2>1 DEF UnikLenPoKlientovi
<1>19. Striedanie'
  <2>1. SUFFICES ASSUME NEW m \in 1..Len(spoje), Zapas(m)',
                        NEW k, NEW h, k = spoje[m].klient, h = spoje[m].host
                 PROVE  NaRade(m, k, h)
    BY <1>3, StriedanieNaRade DEF Striedanie, NaRade
  <2>2. k \in Procesy /\ h \in Procesy /\ k # h
    BY <1>1, <2>1, Konce DEF Protivnici
  <2>3. Hraje(k)' /\ Hraje(h)' /\ Kanal(k)' = m /\ Kanal(h)' = m
    BY <1>3, <2>1 DEF Zapas
  <2>4. CASE p \notin {k, h}
    <3>1. Zapas(m)
      BY <1>10, <2>1, <2>2, <2>3, <2>4 DEF Zapas
    <3>2. QED
      BY <1>1, <2>1, <3>1, StriedanieNaRade
  <2>5. CASE p \in {k, h}
    <3>1. m = n /\ h = p /\ tahHraca1[p]
      BY <1>8, <1>11, <2>1, <2>3, <2>5
    <3>2. tahHraca1[k]
      BY <1>8, <1>10, <2>1, <2>2, <2>3, <3>1
    <3>3. QED
      BY <1>1, <1>8, <2>2, <3>1, <3>2, Typy DEF NaRade
  <2>6. QED
    BY <2>4, <2>5
<1>20. QED
  BY <1>7, <1>13, <1>14, <1>15, <1>16, <1>17, <1>18, <1>19 DEF IInv

\* PripojSa when a connection to h is made.
PripojSaVyjde(p, h) ==
  /\ cisloHraca' = [cisloHraca EXCEPT ![p] = Hrac(2)]
  /\ PORT \in otvorene[h]
  /\ Len(spoje) < SPOJENI
  /\ Prejdi(p, "menu", "hra")
  /\ hostujem' = HostujemPo(p, TRUE)
  /\ spoje' = Append(spoje, [klient |-> p, host |-> h])
  /\ LET n == Len(spoje')
     IN /\ cakajuce' = [cakajuce EXCEPT ![h] = @ \cup {n}]
        /\ socket_desc' = [socket_desc EXCEPT ![p] = n]
        /\ otvorene' = [otvorene EXCEPT ![p] = @ \cup {n}]
  /\ UNCHANGED <<gameOver, tahHraca1, spojenie, siet>>

\* A connection appended leaves the others what they were.
Pridane(t, r, s) ==
  /\ s \in Seq([klient : Procesy, host : Procesy])
  /\ Len(s) = Len(t) + 1 /\ s[Len(t) + 1] = r
  /\ \A m \in 1..Len(t) : s[m] = t[m]

LEMMA NoveSpojenie ==
  ASSUME NEW t \in Seq([klient : Procesy, host : Procesy]),
         NEW r \in [klient : Procesy, host : Procesy]
  PROVE  Pridane(t, r, Append(t, r))
BY AppendProperties DEF Pridane

\* The new client waits for the host's first move; nobody uses the connection yet.
LEMMA PripojSaVyjdeZachova ==
  ASSUME IInv, NEW p \in Procesy, NEW h \in Procesy \ {p}, PripojSaVyjde(p, h)
  PROVE  IInv'
<1> DEFINE n == Len(spoje) + 1
<1>1. /\ TypeOK /\ Protivnici /\ PredHrou /\ Popisovace /\ VoFronte /\ Uloha
      /\ UnikLenPoKlientovi /\ Striedanie
  BY DEF IInv
<1>2. /\ gameOver' = gameOver /\ tahHraca1' = tahHraca1 /\ spojenie' = spojenie
      /\ siet' = siet
  BY DEF PripojSaVyjde
<1>3. /\ stav[p] = "menu" /\ stav'[p] = "hra" /\ konce' = konce
      /\ \A q \in Procesy \ {p} : stav'[q] = stav[q]
      /\ stav' \in [Procesy -> {"menu", "accept", "hra", "mimo"}]
  BY <1>1, KrokPrejdi DEF PripojSaVyjde
<1>4. /\ spoje' \in Seq([klient : Procesy, host : Procesy])
      /\ Len(spoje') = n /\ spoje'[n].klient = p /\ spoje'[n].host = h
      /\ \A m \in 1..Len(spoje) : spoje'[m] = spoje[m]
  <2> DEFINE zaznam == [klient |-> p, host |-> h]
  <2>1. /\ spoje' = Append(spoje, zaznam)
        /\ zaznam \in [klient : Procesy, host : Procesy]
        /\ zaznam.klient = p /\ zaznam.host = h
    BY DEF PripojSaVyjde
  <2> HIDE DEF zaznam
  <2>2. spoje \in Seq([klient : Procesy, host : Procesy])
    BY <1>1, Typy
  <2>3. Pridane(spoje, zaznam, spoje')
    BY <2>1, <2>2, NoveSpojenie, Zenon
  <2>4. QED
    BY <2>1, <2>3 DEF Pridane
<1>5. /\ Len(spoje) \in Nat /\ n \in 1..n /\ n \in Cisla /\ n \notin 1..Len(spoje)
      /\ n # PORT /\ n # NULL /\ Len(spoje') <= SPOJENI
      /\ 1..Len(spoje') = 1..Len(spoje) \cup {n}
  BY <1>1, <1>4, Typy, SessionAssumption DEF PripojSaVyjde, Cisla
<1>6. /\ cisloHraca' = [cisloHraca EXCEPT ![p] = 1]
      /\ hostujem' = [hostujem EXCEPT ![p] = FALSE]
      /\ cakajuce' = [cakajuce EXCEPT ![h] = @ \cup {n}]
      /\ socket_desc' = [socket_desc EXCEPT ![p] = n]
      /\ otvorene' = [otvorene EXCEPT ![p] = @ \cup {n}]
  BY <1>4 DEF PripojSaVyjde, Hrac, HostujemPo
<1>7. /\ cisloHraca'[p] = 1 /\ ~hostujem'[p] /\ socket_desc'[p] = n
      /\ otvorene'[p] = otvorene[p] \cup {n}
      /\ \A q \in Procesy \ {p} :
           /\ cisloHraca'[q] = cisloHraca[q] /\ hostujem'[q] = hostujem[q]
           /\ socket_desc'[q] = socket_desc[q] /\ otvorene'[q] = otvorene[q]
  BY <1>1, <1>6, Typy
<1>8. /\ cakajuce'[h] = cakajuce[h] \cup {n}
      /\ \A q \in Procesy \ {h} : cakajuce'[q] = cakajuce[q]
  BY <1>1, <1>6, Typy
<1>9. TypeOK'
  <2>1. /\ cisloHraca' \in [Procesy -> {-1, 0, 1}] /\ hostujem' \in [Procesy -> BOOLEAN]
    BY <1>1, <1>6, Typy
  <2>2. socket_desc' \in [Procesy -> Cisla \cup {PORT, NULL}]
    BY <1>1, <1>5, <1>6, Typy
  <2>3. otvorene' \in [Procesy -> SUBSET (Cisla \cup {PORT})]
    BY <1>1, <1>5, <1>6, Typy
  <2>4. cakajuce' \in [Procesy -> SUBSET (1..Len(spoje'))]
    <3>1. cakajuce \in [Procesy -> SUBSET (1..Len(spoje))]
      BY <1>1, Typy
    <3>2. QED
      BY <1>5, <1>6, <3>1
  <2>5. siet' \subseteq (1..Len(spoje')) \X Procesy
    BY <1>1, <1>2, <1>5, Typy
  <2>6. QED
    BY <1>1, <1>2, <1>3, <1>4, <1>5, <2>1, <2>2, <2>3, <2>4, <2>5 DEF TypeOK
<1>10. /\ Kanal(p)' = n /\ Spojenia(p)' = Spojenia(p) \cup {n}
       /\ Hraje(p)' => ~gameOver[p]
  BY <1>2, <1>5, <1>7 DEF Kanal, Spojenia, Hraje
<1>11. \A q \in Procesy \ {p} : /\ Hraje(q)' <=> Hraje(q)
                                /\ Kanal(q)' = Kanal(q) /\ Spojenia(q)' = Spojenia(q)
  BY <1>2, <1>3, <1>7 DEF Hraje, Kanal, Spojenia
<1>12. Protivnici'
  BY <1>1, <1>4, <1>5 DEF Protivnici
<1>13. PredHrou'
  BY <1>1, <1>2, <1>3, <1>7 DEF PredHrou
<1>14. Popisovace'
  BY <1>1, <1>2, <1>4, <1>5, <1>10, <1>11 DEF Popisovace
<1>15. VoFronte'
  <2>1. SUFFICES ASSUME NEW q \in Procesy, NEW m \in cakajuce'[q],
                        NEW k, k = spoje'[m].klient
                 PROVE  /\ spoje'[m].host = q /\ m \notin otvorene'[q]
                        /\ \A r \in Procesy : <<m, r>> \notin siet
                        /\ Hraje(k)' /\ Kanal(k)' = m => tahHraca1[k]
    BY <1>2 DEF VoFronte, Hraje, Kanal
  <2>2. CASE m \in cakajuce[q]
    <3>1. m \in 1..Len(spoje) /\ m # n /\ spoje'[m] = spoje[m]
      BY <1>1, <1>4, <1>5, <2>2, Typy
    <3>2. /\ spoje[m].host = q /\ m \notin otvorene[q]
          /\ \A r \in Procesy : <<m, r>> \notin siet
          /\ Hraje(k) /\ Kanal(k) = m => tahHraca1[k]
      BY <1>1, <2>1, <2>2, <3>1 DEF VoFronte
    <3>3. m \notin otvorene'[q]
      BY <1>7, <3>1, <3>2
    <3>4. k \in Procesy
      BY <1>1, <2>1, <3>1, Konce
    <3>5. Hraje(k)' /\ Kanal(k)' = m => Hraje(k) /\ Kanal(k) = m
      BY <1>10, <1>11, <3>1, <3>4
    <3>6. QED
      BY <3>1, <3>2, <3>3, <3>5
  <2>3. CASE m \notin cakajuce[q]
    <3>1. q = h /\ m = n
      BY <1>8, <2>1, <2>3
    <3>2. n \notin otvorene[h]
      BY <1>1, <1>5 DEF Popisovace, Spojenia
    <3>3. \A r \in Procesy : <<n, r>> \notin siet
      BY <1>1, <1>5, Typy
    <3>4. Hraje(p)' => tahHraca1[p]
      BY <1>1, <1>3, <1>10 DEF PredHrou
    <3>5. QED
      BY <1>4, <1>7, <2>1, <3>1, <3>2, <3>3, <3>4
  <2>4. QED
    BY <2>2, <2>3
<1>16. Uloha'
  <2>1. SUFFICES ASSUME NEW q \in Procesy, Hraje(q)'
                 PROVE  /\ Kanal(q)' \in Spojenia(q)'
                        /\ \/ /\ hostujem'[q] /\ cisloHraca'[q] = 0
                              /\ spoje'[Kanal(q)'].host = q
                           \/ /\ ~hostujem'[q] /\ cisloHraca'[q] = 1
                              /\ spoje'[Kanal(q)'].klient = q
    BY DEF Uloha
  <2>2. CASE q = p
    BY <1>4, <1>7, <1>10, <2>2
  <2>3. CASE q # p
    <3>1. Hraje(q) /\ Kanal(q)' = Kanal(q) /\ Spojenia(q)' = Spojenia(q)
      BY <1>11, <2>1, <2>3
    <3>2. /\ Kanal(q) \in Spojenia(q)
          /\ \/ hostujem[q] /\ cisloHraca[q] = 0 /\ spoje[Kanal(q)].host = q
             \/ ~hostujem[q] /\ cisloHraca[q] = 1 /\ spoje[Kanal(q)].klient = q
      BY <1>1, <3>1 DEF Uloha
    <3>3. spoje'[Kanal(q)] = spoje[Kanal(q)]
      BY <1>1, <1>4, <3>2 DEF Popisovace
    <3>4. QED
      BY <1>7, <2>3, <3>1, <3>2, <3>3
  <2>4. QED
    BY <2>2, <2>3
<1>17. UnikLenPoKlientovi'
  <2>1. SUFFICES ASSUME NEW q \in Procesy, NEW m \in Spojenia(q)'
                 PROVE  \/ stav'[q] = "hra" /\ m \in {socket_desc'[q], spojenie[q]}
                        \/ ~hostujem'[q] /\ spoje'[m].host = q
    BY <1>2 DEF UnikLenPoKlientovi
  <2>2. CASE q = p /\ m = n
    BY <1>3, <1>7, <2>2
  <2>3. CASE ~(q = p /\ m = n)
    <3>1. m \in Spojenia(q)
      BY <1>10, <1>11, <2>1, <2>3
    <3>2. spoje'[m] = spoje[m]
      BY <1>1, <1>4, <3>1 DEF Popisovace
    <3>3. \/ stav[q] = "hra" /\ m \in {socket_desc[q], spojenie[q]}
          \/ ~hostujem[q] /\ spoje[m].host = q
      BY <1>1, <3>1 DEF UnikLenPoKlientovi
    <3>4. QED
      BY <1>3, <1>7, <3>2, <3>3
  <2>4. QED
    BY <2>2, <2>3
<1>18. Striedanie'
  <2>1. SUFFICES ASSUME NEW m \in 1..Len(spoje'), Zapas(m)',
                        NEW k, NEW q, k = spoje'[m].klient, q = spoje'[m].host
                 PROVE  NaRade(m, k, q)
    BY <1>2, StriedanieNaRade DEF Striedanie, NaRade
  <2>2. Hraje(k)' /\ Hraje(q)' /\ Kanal(k)' = m /\ Kanal(q)' = m
    BY <2>1 DEF Zapas
  <2>3. m \in 1..Len(spoje)
    <3>1. SUFFICES ASSUME m = n PROVE FALSE
      BY <1>5, <2>1
    <3>2. Hraje(h) /\ Kanal(h) = n
      BY <1>4, <1>11, <2>1, <2>2, <3>1
    <3>3. QED
      BY <1>1, <1>5, <3>2 DEF Uloha, Popisovace
  <2>4. spoje'[m] = spoje[m] /\ k \in Procesy /\ q \in Procesy
    BY <1>1, <1>4, <2>1, <2>3, Konce
  <2>5. k # p /\ q # p
    BY <1>5, <1>10, <2>2, <2>3
  <2>6. Zapas(m)
    BY <1>11, <2>1, <2>2, <2>4, <2>5 DEF Zapas
  <2>7. QED
    BY <1>1, <2>1, <2>3, <2>4, <2>6, StriedanieNaRade
<1>19. QED
  BY <1>9, <1>12, <1>13, <1>14, <1>15, <1>16, <1>17, <1>18 DEF IInv

-----------------------------------------------------------------------------
LEMMA StutterZachova ==
  ASSUME IInv, UNCHANGED vars
  PROVE  IInv'
<1>1. /\ gameOver' = gameOver /\ tahHraca1' = tahHraca1 /\ hostujem' = hostujem
      /\ cisloHraca' = cisloHraca /\ socket_desc' = socket_desc /\ spojenie' = spojenie
      /\ stav' = stav /\ otvorene' = otvorene /\ spoje' = spoje /\ cakajuce' = cakajuce
      /\ siet' = siet /\ konce' = konce
  BY DEF vars, globalne, jadro
<1>2. TypeOK' /\ Protivnici' /\ PredHrou'
  BY <1>1 DEF IInv, TypeOK, Protivnici, PredHrou
<1>3. Popisovace' /\ UnikLenPoKlientovi' /\ Uloha' /\ VoFronte'
  BY <1>1 DEF IInv, Popisovace, UnikLenPoKlientovi, Uloha, VoFronte, Hraje, Kanal, Spojenia
<1>4. Striedanie'
  BY <1>1 DEF IInv, Striedanie, Zapas, Hraje, Kanal
<1>5. QED
  BY <1>2, <1>3, <1>4 DEF IInv

\* IInv holds in every state, whatever the processes choose in their menus, and
\* wherever they fail or are ended.
THEOREM Invariant == Spec => []IInv
<1>1. Init => IInv
  BY InitIInv
<1>2. IInv /\ [Next]_vars => IInv'
  <2> SUFFICES ASSUME IInv, [Next]_vars PROVE IInv'
    OBVIOUS
  <2>1. ASSUME NEW p \in Procesy, Volba(p)
        PROVE  IInv'
    <3>1. CASE Hostuj(p)
      BY <3>1, HostujZachova
    <3>2. ASSUME NEW h \in Procesy \ {p}, PripojSa(p, h)
          PROVE  IInv'
      <4>1. PripojSaZlyha(p) \/ PripojSaVyjde(p, h)
        BY <3>2 DEF PripojSa, PripojSaZlyha, PripojSaVyjde
      <4>2. QED
        BY <4>1, PripojSaZlyhaZachova, PripojSaVyjdeZachova
    <3>3. QED
      BY <2>1, <3>1, <3>2 DEF Volba
  <2>2. ASSUME NEW p \in Procesy, Beh(p)
        PROVE  IInv'
    BY <2>2, AcceptZachova, PrijmiTahZachova, NezaslalTahZachova, CleanUPZachova DEF Beh
  <2>3. ASSUME NEW p \in Procesy, acceptZlyha(p) \/ MojTah(p) \/ Skonci(p) \/ Spusti(p)
        PROVE  IInv'
    BY <2>3, AcceptZlyhaZachova, MojTahZachova, SkonciZachova, SpustiZachova
  <2>4. CASE UNCHANGED vars
    BY <2>4, StutterZachova
  <2>5. QED
    BY <2>1, <2>2, <2>3, <2>4 DEF Next
<1>3. QED
  BY <1>1, <1>2, PTL DEF Spec

\* Descriptors, queues and messages have their types.
THEOREM TypSpravny == Spec => []TypeOK
<1>1. IInv => TypeOK
  BY DEF IInv
<1>2. QED
  BY <1>1, Invariant, PTL

\* A game is played on its own connection and in the role its player has, whatever
\* the process did before it.
THEOREM KanalJeHry == Spec => []KanalHry
<1>1. IInv => KanalHry
  <2> SUFFICES ASSUME IInv, NEW p \in Procesy, Hraje(p)
               PROVE  /\ Kanal(p) \in Spojenia(p)
                      /\ hostujem[p] <=> cisloHraca[p] = 0
                      /\ hostujem[p] <=> spoje[Kanal(p)].host = p
    BY DEF KanalHry
  <2>1. QED
    BY DEF IInv, Uloha, Popisovace, Protivnici
<1>2. QED
  BY <1>1, Invariant, PTL

\* Two processes that play with each other are never both on move.
THEOREM NikdyObaja == Spec => []JedenNaTahu
<1>1. IInv => JedenNaTahu
  <2> SUFFICES ASSUME IInv, NEW n \in 1..Len(spoje), Zapas(n)
               PROVE  ~(NaTahu(spoje[n].klient) /\ NaTahu(spoje[n].host))
    BY DEF JedenNaTahu
  <2>1. NaRade(n, spoje[n].klient, spoje[n].host)
    BY StriedanieNaRade DEF IInv
  <2>2. cisloHraca[spoje[n].klient] = 1 /\ cisloHraca[spoje[n].host] = 0
    BY Role
  <2>3. QED
    BY <2>1, <2>2 DEF NaRade, NaTahu
<1>2. QED
  BY <1>1, Invariant, PTL

\* A connection stays open after a game only in a host that was a client before.
THEOREM UnikaLenPoKlientovi == Spec => []UnikLenPoKlientovi
<1>1. IInv => UnikLenPoKlientovi
  BY DEF IInv
<1>2. QED
  BY <1>1, Invariant, PTL

=============================================================================
