------------------------------- MODULE Bridge -------------------------------
(***************************************************************************)
(* The learning bridge of CV/3: the switching table as the list of its     *)
(* rows, and the endless loop of main, which waits for readable sockets    *)
(* and serves them in the order of the interfaces, one read each.          *)
(*                                                                         *)
(* The result of read is not tested.  After an error frame still holds     *)
(* what was read before (at first, whatever the stack held), and that is   *)
(* learned on the wrong interface; write, called with the length -1, sends *)
(* nothing.                                                                *)
(***************************************************************************)
EXTENDS Integers, FiniteSets, SequencesExt, FiniteSetsExt

CONSTANTS
  POCET,            \* argc - 1, the number of interfaces
  Hostia, Ciele,    \* see LearningBridge
  NULL,
  RAMCOV,           \* the frames a socket holds
  CHYB              \* how many reads fail (a bound of the instance)

Rozhrania == 1..POCET

ASSUME BridgeAssumption ==
  /\ POCET \in Nat \ {0} /\ RAMCOV \in Nat \ {0} /\ CHYB \in Nat
  /\ NULL \notin Rozhrania

VARIABLES
  table,      \* the rows, from the first
  FDs,        \* the sockets select reported and the loop has not come to
  frame,      \* what is in the variable frame
  prisle,     \* the frames waiting in the sockets
  zlyha,      \* the sockets with an error that read will return
  obsluzene,  \* the interface served last
  kam,        \* where the last frame was written
  naposledy,  \* where a frame of a host was last read
  zlyhali     \* the interfaces whose read failed, in order

vars == <<table, FDs, frame, prisle, zlyha, obsluzene, kam, naposledy, zlyhali>>

\* FindBTEntry: the interface in the first row with the address.
Riadky(t, adresa) == {k \in 1..Len(t) : t[k].address = adresa}
FindBTEntry(t, adresa) ==
  IF Riadky(t, adresa) = {} THEN NULL ELSE t[Min(Riadky(t, adresa))].IFD

\* The abstract table this list stands for.
Most == INSTANCE LearningBridge WITH
  kde <- [a \in Hostia |-> FindBTEntry(table, a)], ramec <- frame, vstup <- obsluzene

Ramce == Most!Ramce

TypeOK ==
  /\ table \in Seq([address : Hostia, IFD : Rozhrania])
  /\ FDs \subseteq Rozhrania
  /\ frame \in Ramce
  /\ prisle \in [Rozhrania -> Seq(Ramce)]
  /\ zlyha \subseteq Rozhrania
  /\ obsluzene \in Rozhrania \cup {NULL}
  /\ kam \subseteq Rozhrania
  /\ naposledy \in [Hostia -> Rozhrania \cup {NULL}]
  /\ zlyhali \in Seq(Rozhrania)

Init ==
  /\ table = << >>
  /\ FDs = {}
  /\ frame \in Ramce
  /\ prisle = [i \in Rozhrania |-> << >>]
  /\ zlyha = {}
  /\ obsluzene = NULL
  /\ kam = {}
  /\ naposledy = [a \in Hostia |-> NULL]
  /\ zlyhali = << >>

\* Mutant of UpdateOrAddMACEntry: a row is inserted without looking for one.
VzdyNovyRiadok(t, adresa, i) == <<[address |-> adresa, IFD |-> i]>> \o t

\* Mutant of UpdateOrAddMACEntry: the row points to the next element of ints.
DalsieRozhranie(t, adresa, i) ==
  IF Riadky(t, adresa) = {}
  THEN <<[address |-> adresa, IFD |-> i + 1]>> \o t
  ELSE [t EXCEPT ![Min(Riadky(t, adresa))].IFD = i + 1]

\* Mutant of UpdateOrAddMACEntry: a known address stays where it was.
LenNovaAdresa(t, adresa, i) ==
  IF Riadky(t, adresa) = {} THEN <<[address |-> adresa, IFD |-> i]>> \o t ELSE t

UpdateOrAddMACEntry(t, adresa, i) ==
  IF Riadky(t, adresa) = {}
  THEN <<[address |-> adresa, IFD |-> i]>> \o t
  ELSE [t EXCEPT ![Min(Riadky(t, adresa))].IFD = i]

\* Mutant of Odoslat: the ingress interface is not left out of the flood.
OdoslatVsade(t, cast, i) ==
  IF FindBTEntry(t, cast) = NULL THEN Rozhrania ELSE {FindBTEntry(t, cast)} \ {i}

Odoslat(t, cast, i) ==
  IF FindBTEntry(t, cast) = NULL THEN Rozhrania \ {i} ELSE {FindBTEntry(t, cast)} \ {i}

\* A frame arrives from the network.
Prichod(i) ==
  /\ Len(prisle[i]) < RAMCOV
  /\ \E f \in Ramce : prisle' = [prisle EXCEPT ![i] = Append(@, f)]
  /\ UNCHANGED <<table, FDs, frame, zlyha, obsluzene, kam, naposledy, zlyhali>>

\* The interface goes down: the socket becomes readable and read will fail.
Vypadok(i) ==
  /\ Cardinality(zlyha) + Len(zlyhali) < CHYB
  /\ zlyha' = zlyha \cup {i}
  /\ UNCHANGED <<table, FDs, frame, prisle, obsluzene, kam, naposledy, zlyhali>>

\* Mutant of Sledovane: the loop around FD_SET ends one interface too early.
SledovaneBezPosledneho == 1..(POCET - 1)

\* The sockets main puts into FDs before it calls select.
Sledovane == 1..POCET

select ==
  /\ FDs = {}
  /\ FDs' = {i \in Sledovane : prisle[i] # << >> \/ i \in zlyha}
  /\ FDs' # {}
  /\ UNCHANGED <<table, frame, prisle, zlyha, obsluzene, kam, naposledy, zlyhali>>

\* The loop comes to interface i.
NaRade(i) == i \in FDs /\ \A j \in FDs : i <= j

Precitaj(i) ==
  /\ NaRade(i)
  /\ i \notin zlyha
  /\ frame' = Head(prisle[i])
  /\ prisle' = [prisle EXCEPT ![i] = Tail(@)]
  /\ table' = UpdateOrAddMACEntry(table, frame'.src, i)
  /\ kam' = Odoslat(table', frame'.dest, i)
  /\ naposledy' = [naposledy EXCEPT ![frame'.src] = i]
  /\ FDs' = FDs \ {i}
  /\ obsluzene' = i
  /\ UNCHANGED <<zlyha, zlyhali>>

NeprecitajNic(i) ==
  /\ NaRade(i)
  /\ i \in zlyha
  /\ zlyha' = zlyha \ {i}
  /\ zlyhali' = Append(zlyhali, i)
  /\ table' = UpdateOrAddMACEntry(table, frame.src, i)
  /\ kam' = {}
  /\ FDs' = FDs \ {i}
  /\ obsluzene' = i
  /\ UNCHANGED <<frame, prisle, naposledy>>

Okolie  == \E i \in Rozhrania : Prichod(i) \/ Vypadok(i)
Obsluha == select \/ \E i \in Rozhrania : Precitaj(i) \/ NeprecitajNic(i)

Next == Okolie \/ Obsluha

Spec == Init /\ [][Next]_vars /\ WF_vars(Obsluha)

-----------------------------------------------------------------------------
\* The loop of main, "bud len danym rozhranim (nikdy vsak nie vstupnym), alebo
\* vsetkymi ostatnymi": whatever the order of frames, moves of hosts and failed
\* reads, the list behaves as the table of a learning bridge.
UciaciSaMost == Most!Spec

\* UpdateOrAddMACEntry: an address has one row, however often its host moves.
\* With a second row FindBTEntry would go on answering from the older one.
JedenRiadok ==
  \A j, k \in 1..Len(table) : table[j].address = table[k].address => j = k

\* A frame is read when the turn of its interface comes: no traffic on the other
\* interfaces keeps an interface from being served.
KazdyPrideNaRad ==
  \A i \in Rozhrania : prisle[i] # << >> ~> obsluzene = i

\* "V riadku je ... smernik na rozhranie, kde je pripojeny klient": an address is
\* in the table with the interface its last frame came from, and otherwise only
\* with one whose read failed, where the old contents of frame were learned.
VidenyAleboChyba ==
  \A k \in 1..Len(table) :
    \/ table[k].IFD = naposledy[table[k].address]
    \/ table[k].IFD \in Range(zlyhali)

=============================================================================
