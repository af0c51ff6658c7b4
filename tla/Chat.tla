-------------------------------- MODULE Chat --------------------------------
(***************************************************************************)
(* One process of the multicast chat.  Its two threads share nickname,     *)
(* currSkupina, prevSkupina, poleSkupin and prihlaseny without a lock:     *)
(* main reads the keyboard, receiver shows the messages of the groups the  *)
(* user is in, except those it takes for the user's own.                   *)
(*                                                                         *)
(* A command is the sequence of its writes and sends, each a step of its   *)
(* own; so is each test of the receiver.  The two-byte copies of a group   *)
(* number are single steps.  The other users are the environment: they     *)
(* send anything, at any time, under other names.                          *)
(***************************************************************************)
EXTENDS Integers, FiniteSets, Sequences

CONSTANTS
  Mena,       \* the nicknames this user chooses from
  Cudzi,      \* the nicknames of the others
  Skupiny,    \* numbers of groups
  NULL,       \* no message, and a name that is nobody's
  PRIKAZOV,   \* how many commands the user types (a bound of the instance)
  CUDZICH     \* messages of others not read to the end at one time (a bound)

DEF_GRP == 10

\* "2 s rovnakym menom nie su osetreni, nerobit": names are not shared.
ASSUME ChatAssumption ==
  /\ DEF_GRP \in Skupiny
  /\ Mena # {} /\ Mena \cap Cudzi = {} /\ NULL \notin Mena \cup Cudzi
  /\ PRIKAZOV \in Nat /\ CUDZICH \in Nat

VARIABLES
  nickname, currSkupina, prevSkupina, poleSkupin, prihlaseny,
  zostava,     \* main: the rest of the command being carried out
  koniec,      \* has the process ended?
  siet,        \* the datagrams that will reach this process, in any order
  message,     \* receiver: the message being looked at
  pc, moj,     \* receiver: where it is, and does it take message for its own?
  cislo,       \* the number of commands typed
  zmena,       \* the number of the last one that changes nickname or a group
  poOdhlaseni  \* the messages printed since prihlaseny was set to 0

zdielane == <<nickname, currSkupina, prevSkupina, poleSkupin, prihlaseny>>
prijem   == <<message, pc, moj>>
vars     == <<zdielane, zostava, koniec, siet, prijem, cislo, zmena, poOdhlaseni>>

Druhy == {"Pripojil sa", "Odpojil sa", "text"}

\* cislo is the command that sent the message, and 0 for the messages of others.
Moje   == [nickname : Mena, skupina : Skupiny, druh : Druhy, cislo : 1..PRIKAZOV]
Cudzie == [nickname : Cudzi, skupina : Skupiny, druh : Druhy, cislo : {0}]
Spravy == Moje \cup Cudzie

\* NULL stands for no message.
ASSUME NullAssumption == NULL \notin Spravy

TypeOK ==
  /\ nickname \in Mena \cup {NULL}
  /\ currSkupina \in Skupiny /\ prevSkupina \in Skupiny /\ poleSkupin \subseteq Skupiny
  /\ prihlaseny \in BOOLEAN /\ koniec \in BOOLEAN /\ moj \in BOOLEAN
  /\ siet \subseteq Spravy
  /\ message \in Spravy \cup {NULL}
  /\ pc \in {"recvfrom", "prihlaseny", "pripojil", "text", "odpojil", "pole", "printf",
            "skoncil"}
  /\ pc \notin {"recvfrom", "skoncil"} => message # NULL
  /\ cislo \in 0..PRIKAZOV /\ zmena \in 0..cislo /\ poOdhlaseni \in Nat

Init ==
  /\ nickname = NULL
  /\ currSkupina = DEF_GRP
  /\ prevSkupina = DEF_GRP
  /\ poleSkupin = {DEF_GRP}
  /\ prihlaseny = FALSE
  /\ zostava = << >>
  /\ koniec = FALSE
  /\ siet = {}
  /\ message = NULL
  /\ pc = "recvfrom"
  /\ moj = FALSE
  /\ cislo = 0
  /\ zmena = 0
  /\ poOdhlaseni = 0

-----------------------------------------------------------------------------
\* The commands, as the steps main takes for them.

Zapis(co, na)     == [co |-> co, na |-> na]
Posli(druh, skup) == [co |-> "sendto", druh |-> druh, skupina |-> skup]
Exit              == [co |-> "exit"]

\* Mutant of login: the others are told the name that is not trimmed yet.
loginPredMenom(meno) ==
  <<Zapis("nickname", NULL), Zapis("poleSkupin", {}), Zapis("poleSkupin", {DEF_GRP}),
    Zapis("currSkupina", DEF_GRP), Posli("Pripojil sa", DEF_GRP),
    Zapis("nickname", meno), Zapis("prihlaseny", TRUE)>>

\* The name is read with its newline, with which it is nobody's (NULL), and trimmed
\* after the groups are reset.
login(meno) ==
  <<Zapis("nickname", NULL), Zapis("poleSkupin", {}), Zapis("poleSkupin", {DEF_GRP}),
    Zapis("currSkupina", DEF_GRP), Zapis("nickname", meno),
    Posli("Pripojil sa", DEF_GRP), Zapis("prihlaseny", TRUE)>>

logout == <<Posli("Odpojil sa", DEF_GRP), Zapis("prihlaseny", FALSE)>>

\* Mutant of leave: the group that is left stays the current one.
leaveBezNavratu(g) ==
  <<Zapis("prevSkupina", currSkupina), Zapis("currSkupina", g),
    Zapis("poleSkupin", poleSkupin \ {g}), Posli("Odpojil sa", g)>>

leave(g) ==
  <<Zapis("prevSkupina", currSkupina), Zapis("currSkupina", g),
    Zapis("poleSkupin", poleSkupin \ {g}), Zapis("currSkupina", DEF_GRP),
    Posli("Odpojil sa", g)>>

\* Mutant of join: the others are told before the group becomes the current one.
joinAzPotom(g) ==
  IF g \in poleSkupin
  THEN <<Zapis("currSkupina", g)>>
  ELSE <<Zapis("poleSkupin", poleSkupin \cup {g}), Posli("Pripojil sa", g),
         Zapis("currSkupina", g)>>

\* /join xx: for a group the user is in, the default one included, it only makes it
\* the current group.
join(g) ==
  IF g \in poleSkupin
  THEN <<Zapis("currSkupina", g)>>
  ELSE <<Zapis("currSkupina", g), Zapis("poleSkupin", poleSkupin \cup {g}),
         Posli("Pripojil sa", g)>>

text == <<Posli("text", currSkupina)>>

-----------------------------------------------------------------------------
\* The keyboard thread.

Prompt == zostava = << >> /\ ~koniec

Zadaj(prikaz, meni) ==
  /\ Prompt
  /\ cislo < PRIKAZOV
  /\ cislo' = cislo + 1
  /\ zmena' = IF meni THEN cislo' ELSE zmena
  /\ zostava' = prikaz
  /\ UNCHANGED <<zdielane, koniec, siet, prijem, poOdhlaseni>>

Login == ~prihlaseny /\ \E meno \in Mena : Zadaj(login(meno), TRUE)

\* skontrolujPrikaz, or a text when the line is not a command.
Prikaz ==
  /\ prihlaseny
  /\ \/ Zadaj(logout, FALSE)
     \/ Zadaj(Append(logout, Exit), FALSE)
     \/ Zadaj(text, FALSE)
     \/ \E g \in Skupiny : Zadaj(join(g), TRUE)
     \/ \E g \in poleSkupin \ {DEF_GRP} : Zadaj(leave(g), TRUE)

Krok(co) ==
  /\ ~koniec
  /\ zostava # << >>
  /\ Head(zostava).co = co
  /\ zostava' = Tail(zostava)
  /\ UNCHANGED <<prijem, cislo, zmena>>

\* The assignments to the shared variables.
Prirad(co, premenna) ==
  /\ Krok(co)
  /\ premenna' = Head(zostava).na
  /\ UNCHANGED <<koniec, siet>>

ZmenMeno    == Prirad("nickname", nickname)
               /\ UNCHANGED <<currSkupina, prevSkupina, poleSkupin, prihlaseny, poOdhlaseni>>
ZmenCurr    == Prirad("currSkupina", currSkupina)
               /\ UNCHANGED <<nickname, prevSkupina, poleSkupin, prihlaseny, poOdhlaseni>>
ZmenPrev    == Prirad("prevSkupina", prevSkupina)
               /\ UNCHANGED <<nickname, currSkupina, poleSkupin, prihlaseny, poOdhlaseni>>
ZmenPole    == Prirad("poleSkupin", poleSkupin)
               /\ UNCHANGED <<nickname, currSkupina, prevSkupina, prihlaseny, poOdhlaseni>>
ZmenStav    == Prirad("prihlaseny", prihlaseny) /\ poOdhlaseni' = 0
               /\ UNCHANGED <<nickname, currSkupina, prevSkupina, poleSkupin>>

\* sendto: the datagram comes back to this process too, unless it is lost; an
\* error is printed and has the same effect.
sendto ==
  /\ Krok("sendto")
  /\ LET k == Head(zostava)
         m == [nickname |-> nickname, skupina |-> k.skupina, druh |-> k.druh, cislo |-> cislo]
     IN siet' \in {siet, siet \cup {m}}
  /\ UNCHANGED <<zdielane, koniec, poOdhlaseni>>

Skonci == koniec' = TRUE /\ siet' = {} /\ UNCHANGED <<zdielane, poOdhlaseni>>

exit == Krok("exit") /\ Skonci

\* An error in sending a text ends main, and the process with it.
ChybaSendto == Krok("sendto") /\ Head(zostava).druh = "text" /\ Skonci

-----------------------------------------------------------------------------
\* The thread receiver.

Sluchaj(kde, kam) ==
  /\ ~koniec
  /\ pc = kde
  /\ pc' = kam
  /\ message' = IF kam = "recvfrom" THEN NULL ELSE message
  /\ UNCHANGED <<zdielane, zostava, koniec, cislo, zmena>>

recvfrom ==
  /\ ~koniec
  /\ pc = "recvfrom"
  /\ \E m \in siet : message' = m /\ siet' = siet \ {m}
  /\ pc' = "prihlaseny"
  /\ moj' = FALSE
  /\ UNCHANGED <<zdielane, zostava, koniec, cislo, zmena, poOdhlaseni>>

\* An error of recvfrom ends the thread; main is not told and goes on.
ChybaRecvfrom ==
  /\ Sluchaj("recvfrom", "skoncil")
  /\ UNCHANGED <<siet, moj, poOdhlaseni>>

\* Mutant of Dalej: the test of prihlaseny is forgotten.
DalejVzdy == "pripojil"

\* Mutant of Dalej: the thread ends when the user is not logged in.
DalejKoniec == IF prihlaseny THEN "pripojil" ELSE "pthread_exit"

Dalej == IF prihlaseny THEN "pripojil" ELSE "recvfrom"

TestPrihlaseny ==
  /\ Sluchaj("prihlaseny", Dalej)
  /\ UNCHANGED <<siet, moj, poOdhlaseni>>

\* Mutant of Rovnaka: the name is not compared.
RovnakaBezMena(druh, skupina) == message.druh = druh /\ message.skupina = skupina

\* Is message what main would send now: this kind, from nickname, to a group?
Rovnaka(druh, skupina) ==
  message.druh = druh /\ message.nickname = nickname /\ message.skupina = skupina

Porovnaj(kde, dalsie, druh, skupina) ==
  /\ Sluchaj(kde, IF Rovnaka(druh, skupina) THEN "pole" ELSE dalsie)
  /\ moj' = Rovnaka(druh, skupina)
  /\ UNCHANGED <<siet, poOdhlaseni>>

JeMoj ==
  \/ Porovnaj("pripojil", "text", "Pripojil sa", currSkupina)
  \/ Porovnaj("text", "odpojil", "text", currSkupina)
  \/ Porovnaj("odpojil", "pole", "Odpojil sa", prevSkupina)

Pocuva == message.skupina \in poleSkupin

TestSkupiny ==
  /\ Sluchaj("pole", IF ~moj /\ Pocuva THEN "printf" ELSE "recvfrom")
  /\ UNCHANGED <<siet, moj, poOdhlaseni>>

printf ==
  /\ Sluchaj("printf", "recvfrom")
  /\ poOdhlaseni' = IF prihlaseny THEN poOdhlaseni ELSE poOdhlaseni + 1
  /\ UNCHANGED <<siet, moj>>

receiver == recvfrom \/ TestPrihlaseny \/ JeMoj \/ TestSkupiny \/ printf

-----------------------------------------------------------------------------
\* A message of somebody else.
Cudzia ==
  /\ ~koniec
  /\ Cardinality((siet \cup {message}) \cap Cudzie) < CUDZICH
  /\ \E m \in Cudzie : siet' = siet \cup {m}
  /\ UNCHANGED <<zdielane, zostava, koniec, prijem, cislo, zmena, poOdhlaseni>>

Klavesnica == Login \/ Prikaz
Vykonaj    == \/ ZmenMeno \/ ZmenCurr \/ ZmenPrev \/ ZmenPole \/ ZmenStav
              \/ sendto \/ exit \/ ChybaSendto

Next == Klavesnica \/ Vykonaj \/ receiver \/ ChybaRecvfrom \/ Cudzia

Spec == Init /\ [][Next]_vars /\ WF_vars(receiver)

-----------------------------------------------------------------------------
\* "pises len do jednej skupiny (default 10 alebo ina ak /join xx)": when the
\* next line is read, the current group is one the user is in, and so is the
\* default group; a text never goes to a group its writer has left.
PisesTamKdeSi ==
  Prompt /\ prihlaseny => {currSkupina, DEF_GRP} \subseteq poleSkupin

\* The receiver hides the user's own messages.  It takes one for another's only
\* when a later command changed the group or the name before it was compared, or
\* when it is the message of a logout and prevSkupina is left from a /leave.
EchoIbaPoZmene ==
  pc = "printf" /\ message \in Moje =>
    \/ zmena > message.cislo
    \/ message.druh = "Odpojil sa" /\ prevSkupina # DEF_GRP

\* "Chat prikazy idu len pre lognuteho uzivatela": after a logout at most the
\* message that had passed the test of prihlaseny before is still shown.
PoOdhlaseniJedna == poOdhlaseni <= 1

\* "pocuvas vo vsetkych skupinach v ktorych si": a message of somebody else that
\* was read is shown, unless the user was logged out or not in its group when
\* that was tested, whatever main writes in the meantime.
PocuvasVoVsetkych ==
  [][pc # "recvfrom" /\ pc' = "recvfrom" /\ message \in Cudzie =>
       pc = "printf" \/ ~prihlaseny \/ message.skupina \notin poleSkupin]_vars

\* "system ... pocuva": the receiver goes on reading through logins and logouts,
\* whatever main does, as long as the process runs.  Nothing but a failed recvfrom
\* ends it.
StalePocuva == siet # {} ~> pc = "prihlaseny" \/ pc = "skoncil" \/ koniec

=============================================================================
