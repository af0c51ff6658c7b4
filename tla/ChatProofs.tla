----------------------------- MODULE ChatProofs -----------------------------
(***************************************************************************)
(* The invariants of the chat, for all sets of names and groups, any       *)
(* number of commands and any traffic of the other users.                  *)
(*                                                                         *)
(* The shared variables have no lock, so what holds of them depends on how *)
(* far main is in its command.  A command first writes the name and the    *)
(* groups (Pise); from the point on where it only sends and sets           *)
(* prihlaseny (Posiela) the name and the groups stand, until the next      *)
(* command that changes them.  A message of this user that was sent after  *)
(* the last change therefore still carries the current name and group,     *)
(* wherever the receiver is with it: that is why it is recognised.         *)
(***************************************************************************)
EXTENDS Chat, SequenceTheorems, TLAPS

Ustalene == {currSkupina, DEF_GRP} \subseteq poleSkupin

\* What is left of a login once the groups are reset.
Orezanie(meno) ==
  <<Zapis("nickname", meno), Posli("Pripojil sa", DEF_GRP), Zapis("prihlaseny", TRUE)>>

\* main is in a login and has not yet written the default group or trimmed the name.
PiseLogin ==
  /\ ~prihlaseny
  /\ \E meno \in Mena :
       \/ zostava = login(meno)
       \/ zostava = <<Zapis("poleSkupin", {}), Zapis("poleSkupin", {DEF_GRP}),
                      Zapis("currSkupina", DEF_GRP), Zapis("nickname", meno),
                      Posli("Pripojil sa", DEF_GRP), Zapis("prihlaseny", TRUE)>>
       \/ zostava = <<Zapis("poleSkupin", {DEF_GRP}), Zapis("currSkupina", DEF_GRP),
                      Zapis("nickname", meno), Posli("Pripojil sa", DEF_GRP),
                      Zapis("prihlaseny", TRUE)>>
       \/ /\ poleSkupin = {DEF_GRP}
          /\ zostava = <<Zapis("currSkupina", DEF_GRP), Zapis("nickname", meno),
                         Posli("Pripojil sa", DEF_GRP), Zapis("prihlaseny", TRUE)>>
       \/ /\ poleSkupin = {DEF_GRP} /\ currSkupina = DEF_GRP
          /\ zostava = Orezanie(meno)

\* main joins g, which is not yet both the current group and a group of the user, or
\* makes g, one of the user's groups, the current one.
PiseJoin(g) ==
  /\ prihlaseny /\ nickname \in Mena /\ DEF_GRP \in poleSkupin
  /\ \/ g \in poleSkupin /\ zostava = <<Zapis("currSkupina", g)>>
     \/ zostava = <<Zapis("currSkupina", g), Zapis("poleSkupin", poleSkupin \cup {g}),
                    Posli("Pripojil sa", g)>>
     \/ /\ currSkupina = g
        /\ zostava = <<Zapis("poleSkupin", poleSkupin \cup {g}), Posli("Pripojil sa", g)>>

\* main leaves g and is not yet back in the default group.
PiseLeave(g) ==
  /\ prihlaseny /\ nickname \in Mena /\ DEF_GRP \in poleSkupin
  /\ \/ zostava = leave(g)
     \/ zostava = <<Zapis("currSkupina", g), Zapis("poleSkupin", poleSkupin \ {g}),
                    Zapis("currSkupina", DEF_GRP), Posli("Odpojil sa", g)>>
     \/ zostava = <<Zapis("poleSkupin", poleSkupin \ {g}),
                    Zapis("currSkupina", DEF_GRP), Posli("Odpojil sa", g)>>
     \/ /\ g \notin poleSkupin
        /\ zostava = <<Zapis("currSkupina", DEF_GRP), Posli("Odpojil sa", g)>>

Pise ==
  \/ PiseLogin
  \/ \E g \in Skupiny : PiseJoin(g)
  \/ \E g \in Skupiny \ {DEF_GRP} : PiseLeave(g)

\* The rest of the command leaves the name and the groups alone.
Posiela ==
  \/ zostava = << >> /\ (prihlaseny => nickname \in Mena /\ Ustalene)
  \/ zostava = <<Exit>> /\ ~prihlaseny
  \/ /\ ~prihlaseny /\ nickname \in Mena /\ Ustalene
     /\ \/ /\ currSkupina = DEF_GRP
           /\ zostava = <<Posli("Pripojil sa", DEF_GRP), Zapis("prihlaseny", TRUE)>>
        \/ zostava = <<Zapis("prihlaseny", TRUE)>>
  \/ /\ prihlaseny /\ nickname \in Mena /\ Ustalene
     /\ \/ zostava = logout
        \/ zostava = Append(logout, Exit)
        \/ zostava = <<Zapis("prihlaseny", FALSE)>>
        \/ zostava = <<Zapis("prihlaseny", FALSE), Exit>>
        \/ zostava = text
        \/ zostava = <<Posli("Pripojil sa", currSkupina)>>
        \/ \E g \in Skupiny \ poleSkupin : zostava = <<Posli("Odpojil sa", g)>>

VPrikaze ==
  /\ Pise \/ Posiela
  /\ zostava # << >> => cislo >= 1

\* m would be recognised as the user's own, but for a logout after a /leave.
Aktualna(m) ==
  /\ Posiela
  /\ m.nickname = nickname
  /\ m.druh \in {"Pripojil sa", "text"} => m.skupina = currSkupina
  /\ m.druh = "Odpojil sa" => m.skupina = DEF_GRP \/ m.skupina \notin poleSkupin

\* An own message on its way, or being looked at, is older than the last
\* change, or it is still current.
MojeSpravy ==
  \A m \in (siet \cup {message}) \cap Moje :
    /\ m.cislo <= cislo
    /\ zmena <= m.cislo => Aktualna(m)

\* What the receiver's comparisons so far say of a message that is current.
Rozpoznana ==
  message \in Moje /\ zmena <= message.cislo =>
    /\ pc \in {"text", "odpojil"} => message.druh # "Pripojil sa"
    /\ pc = "odpojil" => message.druh # "text"
    /\ pc = "pole" => \/ moj
                      \/ /\ message.druh = "Odpojil sa"
                         /\ prevSkupina # DEF_GRP \/ message.skupina \notin poleSkupin
    /\ pc = "printf" => message.druh = "Odpojil sa" /\ prevSkupina # DEF_GRP

CudziaNieMoja == message \in Cudzie => ~moj

\* Past its test of prihlaseny the receiver has one message at most to print.
Odhlasenie ==
  /\ poOdhlaseni <= 1
  /\ prihlaseny \/ pc \in {"pripojil", "text", "odpojil", "pole", "printf"}
       => poOdhlaseni = 0

IInv ==
  TypeOK /\ VPrikaze /\ MojeSpravy /\ Rozpoznana /\ CudziaNieMoja /\ Odhlasenie

-----------------------------------------------------------------------------
\* The first step of a command, and the rest of it, by the number of its steps.
LEMMA Zvysok1 ==
  \A a : Head(<<a>>) = a /\ Tail(<<a>>) = << >>
OBVIOUS

LEMMA Zvysok2 ==
  \A a, b : Head(<<a, b>>) = a /\ Tail(<<a, b>>) = <<b>>
OBVIOUS

LEMMA Zvysok3 ==
  \A a, b, c : Head(<<a, b, c>>) = a /\ Tail(<<a, b, c>>) = <<b, c>>
OBVIOUS

LEMMA Zvysok4 ==
  \A a, b, c, d : Head(<<a, b, c, d>>) = a /\ Tail(<<a, b, c, d>>) = <<b, c, d>>
OBVIOUS

LEMMA Zvysok5 ==
  ASSUME NEW a, NEW b, NEW c, NEW d, NEW e, NEW s, s = <<a, b, c, d, e>>
  PROVE  Head(s) = a /\ Tail(s) = <<b, c, d, e>>
OBVIOUS

LEMMA Zvysok6 ==
  ASSUME NEW a, NEW b, NEW c, NEW d, NEW e, NEW f, NEW s, s = <<a, b, c, d, e, f>>
  PROVE  Head(s) = a /\ Tail(s) = <<b, c, d, e, f>>
OBVIOUS

LEMMA Zvysok7 ==
  ASSUME NEW a, NEW b, NEW c, NEW d, NEW e, NEW f, NEW g, NEW s,
         s = <<a, b, c, d, e, f, g>>
  PROVE  Head(s) = a /\ Tail(s) = <<b, c, d, e, f, g>>
OBVIOUS

\* The command "/logout" of an exit has three steps.
LEMMA OdhlasASkonci ==
  Append(logout, Exit) = <<Posli("Odpojil sa", DEF_GRP), Zapis("prihlaseny", FALSE), Exit>>
<1>1. ASSUME NEW a, NEW b, NEW c
      PROVE  Append(<<a, b>>, c) = <<a, b, c>>
  <2> DEFINE S == {a, b, c}
  <2>1. <<a, b>> \in Seq(S) /\ Len(<<a, b>>) = 2 /\ c \in S /\ <<a, b, c>> \in Seq(S)
    OBVIOUS
  <2>2. /\ Append(<<a, b>>, c) \in Seq(S) /\ Len(Append(<<a, b>>, c)) = 3
        /\ \A i \in 1..2 : Append(<<a, b>>, c)[i] = <<a, b>>[i]
        /\ Append(<<a, b>>, c)[3] = c
    BY <2>1, AppendProperties
  <2>3. /\ Append(<<a, b>>, c)[1] = a /\ Append(<<a, b>>, c)[2] = b
    BY <2>2
  <2>4. Len(<<a, b, c>>) = 3
    OBVIOUS
  <2>5. \A i \in 1..3 : Append(<<a, b>>, c)[i] = <<a, b, c>>[i]
    BY <2>2, <2>3
  <2>6. QED
    BY <2>1, <2>2, <2>4, <2>5, SeqEqual
<1>2. QED
  BY <1>1 DEF logout

LEMMA ZapisPolia ==
  ASSUME NEW co, NEW na
  PROVE  Zapis(co, na).co = co /\ Zapis(co, na).na = na
BY DEF Zapis

LEMMA PosliPolia ==
  ASSUME NEW druh, NEW skup
  PROVE  /\ Posli(druh, skup).co = "sendto"
         /\ Posli(druh, skup).druh = druh /\ Posli(druh, skup).skupina = skup
BY DEF Posli

LEMMA ExitPolia == Exit.co = "exit"
BY DEF Exit

\* A step of main carries out the first step of the command and no other: it
\* writes one shared variable, sends, or ends the process.
LEMMA Priradenie ==
  ASSUME Vykonaj
  PROVE  /\ zostava # << >> /\ zostava' = Tail(zostava)
         /\ UNCHANGED <<prijem, cislo, zmena>>
         /\ nickname' = IF Head(zostava).co = "nickname" THEN Head(zostava).na ELSE nickname
         /\ currSkupina' =
              IF Head(zostava).co = "currSkupina" THEN Head(zostava).na ELSE currSkupina
         /\ prevSkupina' =
              IF Head(zostava).co = "prevSkupina" THEN Head(zostava).na ELSE prevSkupina
         /\ poleSkupin' =
              IF Head(zostava).co = "poleSkupin" THEN Head(zostava).na ELSE poleSkupin
         /\ prihlaseny' =
              IF Head(zostava).co = "prihlaseny" THEN Head(zostava).na ELSE prihlaseny
         /\ poOdhlaseni' = IF Head(zostava).co = "prihlaseny" THEN 0 ELSE poOdhlaseni
BY DEF Vykonaj, ZmenMeno, ZmenCurr, ZmenPrev, ZmenPole, ZmenStav, sendto, exit,
       ChybaSendto, Skonci, Prirad, Krok, zdielane

\* What is on its way after a step of main: as before, nothing, or one message
\* more, with the name of that moment and the group of the step.
LEMMA Odoslanie ==
  ASSUME Vykonaj
  PROVE  \/ siet' = siet \/ siet' = {}
         \/ /\ Head(zostava).co = "sendto"
            /\ siet' = siet \cup {[nickname |-> nickname, skupina |-> Head(zostava).skupina,
                                   druh |-> Head(zostava).druh, cislo |-> cislo]}
BY DEF Vykonaj, ZmenMeno, ZmenCurr, ZmenPrev, ZmenPole, ZmenStav, sendto, exit,
       ChybaSendto, Skonci, Prirad, Krok, zdielane

LEMMA Neukonceny ==
  ASSUME Vykonaj
  PROVE  koniec' \in {koniec, TRUE}
BY DEF Vykonaj, ZmenMeno, ZmenCurr, ZmenPrev, ZmenPole, ZmenStav, sendto, exit,
       ChybaSendto, Skonci, Prirad, Krok, zdielane

-----------------------------------------------------------------------------
\* The value a step writes is one the variable may have.
DobryZapis(k) ==
  /\ k.co = "nickname" => k.na \in Mena \cup {NULL}
  /\ k.co \in {"currSkupina", "prevSkupina"} => k.na \in Skupiny
  /\ k.co = "poleSkupin" => k.na \subseteq Skupiny
  /\ k.co = "prihlaseny" => k.na \in BOOLEAN

\* A step that writes one variable leaves the others alone.
LEMMA Zapise ==
  ASSUME Vykonaj, NEW co, NEW na, Head(zostava) = Zapis(co, na)
  PROVE  /\ nickname' = IF co = "nickname" THEN na ELSE nickname
         /\ currSkupina' = IF co = "currSkupina" THEN na ELSE currSkupina
         /\ prevSkupina' = IF co = "prevSkupina" THEN na ELSE prevSkupina
         /\ poleSkupin' = IF co = "poleSkupin" THEN na ELSE poleSkupin
         /\ prihlaseny' = IF co = "prihlaseny" THEN na ELSE prihlaseny
<1>1. Head(zostava).co = co /\ Head(zostava).na = na
  BY ZapisPolia
<1>2. QED
  BY <1>1, Priradenie

LEMMA DobraHodnota ==
  ASSUME NEW co, NEW na, NEW k, k = Zapis(co, na), co # "sendto",
         co = "nickname" => na \in Mena \cup {NULL},
         co \in {"currSkupina", "prevSkupina"} => na \in Skupiny,
         co = "poleSkupin" => na \subseteq Skupiny,
         co = "prihlaseny" => na \in BOOLEAN
  PROVE  DobryZapis(k) /\ k.co # "sendto"
<1>1. k.co = co /\ k.na = na
  BY ZapisPolia
<1>2. QED
  BY <1>1 DEF DobryZapis

\* A login writes the groups, then trims the name; only then it sends.
LEMMA KrokLogin ==
  ASSUME TypeOK, Vykonaj, PiseLogin
  PROVE  /\ PiseLogin' \/ Posiela'
         /\ DobryZapis(Head(zostava)) /\ Head(zostava).co # "sendto"
<1>0. ~prihlaseny
  BY DEF PiseLogin
<1>1. ASSUME NEW meno \in Mena, zostava = login(meno)
      PROVE  /\ PiseLogin'
             /\ DobryZapis(Head(zostava)) /\ Head(zostava).co # "sendto"
  <2> DEFINE a == Zapis("nickname", NULL)
             b == Zapis("poleSkupin", {})
             c == Zapis("poleSkupin", {DEF_GRP})
             d == Zapis("currSkupina", DEF_GRP)
             e == Zapis("nickname", meno)
             f == Posli("Pripojil sa", DEF_GRP)
             g == Zapis("prihlaseny", TRUE)
  <2>l. zostava = <<a, b, c, d, e, f, g>>
    BY <1>1 DEF login
  <2>k. Head(zostava) = a /\ Tail(zostava) = <<b, c, d, e, f, g>>
    <3> HIDE DEF a, b, c, d, e, f, g
    <3> QED
      BY <2>l, Zvysok7
  <2>2. Head(zostava) = Zapis("nickname", NULL)
    BY <2>k
  <2>t. Tail(zostava) = <<Zapis("poleSkupin", {}), Zapis("poleSkupin", {DEF_GRP}),
                          Zapis("currSkupina", DEF_GRP), Zapis("nickname", meno),
                          Posli("Pripojil sa", DEF_GRP), Zapis("prihlaseny", TRUE)>>
    BY <2>k
  <2>3. ~prihlaseny'
    BY <1>0, <2>2, Zapise
  <2>4. PiseLogin'
    BY <2>t, <2>3, Priradenie DEF PiseLogin
  <2>5. QED
    BY <2>2, <2>4, DobraHodnota
<1>2. ASSUME NEW meno \in Mena,
             zostava = <<Zapis("poleSkupin", {}), Zapis("poleSkupin", {DEF_GRP}),
                         Zapis("currSkupina", DEF_GRP), Zapis("nickname", meno),
                         Posli("Pripojil sa", DEF_GRP), Zapis("prihlaseny", TRUE)>>
      PROVE  /\ PiseLogin'
             /\ DobryZapis(Head(zostava)) /\ Head(zostava).co # "sendto"
  <2> DEFINE a == Zapis("poleSkupin", {})
             b == Zapis("poleSkupin", {DEF_GRP})
             c == Zapis("currSkupina", DEF_GRP)
             d == Zapis("nickname", meno)
             e == Posli("Pripojil sa", DEF_GRP)
             f == Zapis("prihlaseny", TRUE)
  <2>l. zostava = <<a, b, c, d, e, f>>
    BY <1>2
  <2>k. Head(zostava) = a /\ Tail(zostava) = <<b, c, d, e, f>>
    <3> HIDE DEF a, b, c, d, e, f
    <3> QED
      BY <2>l, Zvysok6
  <2>2. Head(zostava) = Zapis("poleSkupin", {})
    BY <2>k
  <2>t. Tail(zostava) = <<Zapis("poleSkupin", {DEF_GRP}), Zapis("currSkupina", DEF_GRP),
                          Zapis("nickname", meno), Posli("Pripojil sa", DEF_GRP),
                          Zapis("prihlaseny", TRUE)>>
    BY <2>k
  <2>3. ~prihlaseny'
    BY <1>0, <2>2, Zapise
  <2>4. PiseLogin'
    BY <2>t, <2>3, Priradenie DEF PiseLogin
  <2>5. QED
    BY <2>2, <2>4, DobraHodnota
<1>3. ASSUME NEW meno \in Mena,
             zostava = <<Zapis("poleSkupin", {DEF_GRP}), Zapis("currSkupina", DEF_GRP),
                         Zapis("nickname", meno), Posli("Pripojil sa", DEF_GRP),
                         Zapis("prihlaseny", TRUE)>>
      PROVE  /\ PiseLogin'
             /\ DobryZapis(Head(zostava)) /\ Head(zostava).co # "sendto"
  <2> DEFINE a == Zapis("poleSkupin", {DEF_GRP})
             b == Zapis("currSkupina", DEF_GRP)
             c == Zapis("nickname", meno)
             d == Posli("Pripojil sa", DEF_GRP)
             e == Zapis("prihlaseny", TRUE)
  <2>l. zostava = <<a, b, c, d, e>>
    BY <1>3
  <2>k. Head(zostava) = a /\ Tail(zostava) = <<b, c, d, e>>
    <3> HIDE DEF a, b, c, d, e
    <3> QED
      BY <2>l, Zvysok5
  <2>2. Head(zostava) = Zapis("poleSkupin", {DEF_GRP})
    BY <2>k
  <2>t. Tail(zostava) = <<Zapis("currSkupina", DEF_GRP), Zapis("nickname", meno),
                          Posli("Pripojil sa", DEF_GRP), Zapis("prihlaseny", TRUE)>>
    BY <2>k
  <2>3. ~prihlaseny' /\ poleSkupin' = {DEF_GRP}
    BY <1>0, <2>2, Zapise
  <2>4. PiseLogin'
    BY <2>t, <2>3, Priradenie DEF PiseLogin
  <2>5. QED
    BY <2>2, <2>4, DobraHodnota, ChatAssumption
<1>4. ASSUME NEW meno \in Mena, poleSkupin = {DEF_GRP},
             zostava = <<Zapis("currSkupina", DEF_GRP), Zapis("nickname", meno),
                         Posli("Pripojil sa", DEF_GRP), Zapis("prihlaseny", TRUE)>>
      PROVE  /\ PiseLogin'
             /\ DobryZapis(Head(zostava)) /\ Head(zostava).co # "sendto"
  <2>2. /\ Head(zostava) = Zapis("currSkupina", DEF_GRP)
        /\ Tail(zostava) = Orezanie(meno)
    BY <1>4, Zvysok4 DEF Orezanie
  <2>3. ~prihlaseny' /\ poleSkupin' = {DEF_GRP} /\ currSkupina' = DEF_GRP
    BY <1>0, <1>4, <2>2, Zapise
  <2>4. PiseLogin'
    BY <2>2, <2>3, Priradenie DEF PiseLogin
  <2>5. QED
    BY <2>2, <2>4, DobraHodnota, ChatAssumption
<1>5. ASSUME NEW meno \in Mena, poleSkupin = {DEF_GRP}, currSkupina = DEF_GRP,
             zostava = Orezanie(meno)
      PROVE  /\ Posiela'
             /\ DobryZapis(Head(zostava)) /\ Head(zostava).co # "sendto"
  <2>2. /\ Head(zostava) = Zapis("nickname", meno)
        /\ Tail(zostava) = <<Posli("Pripojil sa", DEF_GRP), Zapis("prihlaseny", TRUE)>>
    BY <1>5, Zvysok3 DEF Orezanie
  <2>3. /\ nickname' \in Mena /\ ~prihlaseny'
        /\ poleSkupin' = {DEF_GRP} /\ currSkupina' = DEF_GRP
    BY <1>0, <1>5, <2>2, Zapise
  <2>4. Posiela'
    BY <2>2, <2>3, Priradenie DEF Posiela, Ustalene
  <2>5. QED
    BY <2>2, <2>4, DobraHodnota
<1>6. QED
  BY <1>1, <1>2, <1>3, <1>4, <1>5 DEF PiseLogin

\* A join makes g the current group, then one of the user's; only then it sends.
LEMMA KrokJoin ==
  ASSUME TypeOK, Vykonaj, NEW g \in Skupiny, PiseJoin(g)
  PROVE  /\ PiseJoin(g)' \/ Posiela'
         /\ DobryZapis(Head(zostava)) /\ Head(zostava).co # "sendto"
<1>0. prihlaseny /\ nickname \in Mena /\ DEF_GRP \in poleSkupin
  BY DEF PiseJoin
<1>1. CASE g \in poleSkupin /\ zostava = <<Zapis("currSkupina", g)>>
  <2>1. Head(zostava) = Zapis("currSkupina", g) /\ Tail(zostava) = << >>
    BY <1>1, Zvysok1
  <2>2. /\ prihlaseny' /\ nickname' \in Mena
        /\ {currSkupina', DEF_GRP} \subseteq poleSkupin' /\ zostava' = << >>
    <3>1. /\ prihlaseny' = prihlaseny /\ nickname' = nickname /\ poleSkupin' = poleSkupin
          /\ currSkupina' = g
      BY <2>1, Zapise
    <3>2. QED
      BY <1>0, <1>1, <2>1, <3>1, Priradenie
  <2>3. Posiela'
    BY <2>2, Priradenie DEF Posiela, Ustalene
  <2>4. QED
    BY <2>1, <2>3, DobraHodnota, ChatAssumption
<1>2. CASE zostava = <<Zapis("currSkupina", g), Zapis("poleSkupin", poleSkupin \cup {g}),
                       Posli("Pripojil sa", g)>>
  <2>1. /\ Head(zostava) = Zapis("currSkupina", g)
        /\ Tail(zostava) = <<Zapis("poleSkupin", poleSkupin \cup {g}),
                             Posli("Pripojil sa", g)>>
    BY <1>2, Zvysok3
  <2>2. /\ prihlaseny' /\ nickname' \in Mena /\ DEF_GRP \in poleSkupin'
        /\ currSkupina' = g /\ poleSkupin' = poleSkupin
    BY <1>0, <2>1, Zapise
  <2>3. PiseJoin(g)'
    BY <2>1, <2>2, Priradenie DEF PiseJoin
  <2>4. QED
    BY <2>1, <2>3, DobraHodnota, ChatAssumption
<1>3. CASE /\ currSkupina = g
           /\ zostava = <<Zapis("poleSkupin", poleSkupin \cup {g}), Posli("Pripojil sa", g)>>
  <2>1. /\ Head(zostava) = Zapis("poleSkupin", poleSkupin \cup {g})
        /\ Tail(zostava) = <<Posli("Pripojil sa", g)>>
    BY <1>3, Zvysok2
  <2>2. /\ prihlaseny' /\ nickname' \in Mena /\ currSkupina' = g
        /\ {currSkupina', DEF_GRP} \subseteq poleSkupin'
    <3>1. /\ prihlaseny' = prihlaseny /\ nickname' = nickname /\ currSkupina' = currSkupina
          /\ poleSkupin' = poleSkupin \cup {g}
      BY <2>1, Zapise
    <3>2. QED
      BY <1>0, <1>3, <3>1
  <2>3. Posiela'
    BY <2>1, <2>2, Priradenie DEF Posiela, Ustalene
  <2>4. poleSkupin \cup {g} \subseteq Skupiny
    BY DEF TypeOK
  <2>5. QED
    BY <2>1, <2>3, <2>4, DobraHodnota, ChatAssumption
<1>4. QED
  BY <1>1, <1>2, <1>3 DEF PiseJoin

\* A leave ends in the default group, which is never the group left.
LEMMA KrokLeave ==
  ASSUME TypeOK, Vykonaj, NEW g \in Skupiny \ {DEF_GRP}, PiseLeave(g)
  PROVE  /\ PiseLeave(g)' \/ Posiela'
         /\ DobryZapis(Head(zostava)) /\ Head(zostava).co # "sendto"
<1>0. prihlaseny /\ nickname \in Mena /\ DEF_GRP \in poleSkupin
  BY DEF PiseLeave
<1>1. CASE zostava = leave(g)
  <2> DEFINE a == Zapis("prevSkupina", currSkupina)
             b == Zapis("currSkupina", g)
             c == Zapis("poleSkupin", poleSkupin \ {g})
             d == Zapis("currSkupina", DEF_GRP)
             e == Posli("Odpojil sa", g)
  <2>l. zostava = <<a, b, c, d, e>>
    BY <1>1 DEF leave
  <2>k. Head(zostava) = a /\ Tail(zostava) = <<b, c, d, e>>
    <3> HIDE DEF a, b, c, d, e
    <3> QED
      BY <2>l, Zvysok5
  <2>1. Head(zostava) = Zapis("prevSkupina", currSkupina)
    BY <2>k
  <2>t. Tail(zostava) = <<Zapis("currSkupina", g), Zapis("poleSkupin", poleSkupin \ {g}),
                          Zapis("currSkupina", DEF_GRP), Posli("Odpojil sa", g)>>
    BY <2>k
  <2>2. /\ prihlaseny' /\ nickname' \in Mena /\ DEF_GRP \in poleSkupin'
        /\ poleSkupin' = poleSkupin
    BY <1>0, <2>1, Zapise
  <2>3. PiseLeave(g)'
    BY <2>t, <2>2, Priradenie DEF PiseLeave
  <2>4. currSkupina \in Skupiny
    BY DEF TypeOK
  <2>5. QED
    BY <2>1, <2>3, <2>4, DobraHodnota, ChatAssumption
<1>2. CASE zostava = <<Zapis("currSkupina", g), Zapis("poleSkupin", poleSkupin \ {g}),
                       Zapis("currSkupina", DEF_GRP), Posli("Odpojil sa", g)>>
  <2>1. /\ Head(zostava) = Zapis("currSkupina", g)
        /\ Tail(zostava) = <<Zapis("poleSkupin", poleSkupin \ {g}),
                             Zapis("currSkupina", DEF_GRP), Posli("Odpojil sa", g)>>
    BY <1>2, Zvysok4
  <2>2. /\ prihlaseny' /\ nickname' \in Mena /\ DEF_GRP \in poleSkupin'
        /\ poleSkupin' = poleSkupin
    BY <1>0, <2>1, Zapise
  <2>3. PiseLeave(g)'
    BY <2>1, <2>2, Priradenie DEF PiseLeave
  <2>4. QED
    BY <2>1, <2>3, DobraHodnota, ChatAssumption
<1>3. CASE zostava = <<Zapis("poleSkupin", poleSkupin \ {g}), Zapis("currSkupina", DEF_GRP),
                       Posli("Odpojil sa", g)>>
  <2>1. /\ Head(zostava) = Zapis("poleSkupin", poleSkupin \ {g})
        /\ Tail(zostava) = <<Zapis("currSkupina", DEF_GRP), Posli("Odpojil sa", g)>>
    BY <1>3, Zvysok3
  <2>2. /\ prihlaseny' /\ nickname' \in Mena /\ DEF_GRP \in poleSkupin'
        /\ g \notin poleSkupin'
    <3>1. prihlaseny' = prihlaseny /\ nickname' = nickname /\ poleSkupin' = poleSkupin \ {g}
      BY <2>1, Zapise
    <3>2. QED
      BY <1>0, <3>1
  <2>3. PiseLeave(g)'
    BY <2>1, <2>2, Priradenie DEF PiseLeave
  <2>4. poleSkupin \ {g} \subseteq Skupiny
    BY DEF TypeOK
  <2>5. QED
    BY <2>1, <2>3, <2>4, DobraHodnota, ChatAssumption
<1>4. CASE /\ g \notin poleSkupin
           /\ zostava = <<Zapis("currSkupina", DEF_GRP), Posli("Odpojil sa", g)>>
  <2>1. /\ Head(zostava) = Zapis("currSkupina", DEF_GRP)
        /\ Tail(zostava) = <<Posli("Odpojil sa", g)>>
    BY <1>4, Zvysok2
  <2>2. /\ prihlaseny' /\ nickname' \in Mena /\ currSkupina' = DEF_GRP
        /\ DEF_GRP \in poleSkupin' /\ g \in Skupiny \ poleSkupin'
    BY <1>0, <1>4, <2>1, Zapise
  <2>3. Posiela'
    BY <2>1, <2>2, Priradenie DEF Posiela, Ustalene
  <2>4. QED
    BY <2>1, <2>3, DobraHodnota, ChatAssumption
<1>5. QED
  BY <1>1, <1>2, <1>3, <1>4 DEF PiseLeave

\* What a send of main carries: the current group for a join and a text; for a
\* leave or a logout a group that is not the user's any more, or the default one.
DobraSprava(k) ==
  /\ k.druh \in Druhy /\ k.skupina \in Skupiny
  /\ k.druh \in {"Pripojil sa", "text"} => k.skupina = currSkupina
  /\ k.druh = "Odpojil sa" => k.skupina = DEF_GRP \/ k.skupina \notin poleSkupin

\* A send and the end of the process write none of the shared variables.
LEMMA Nezapise ==
  ASSUME Vykonaj, Head(zostava).co \in {"sendto", "exit"}
  PROVE  /\ nickname' = nickname /\ currSkupina' = currSkupina
         /\ prevSkupina' = prevSkupina /\ poleSkupin' = poleSkupin
         /\ prihlaseny' = prihlaseny
BY Priradenie

LEMMA PosliKrok ==
  ASSUME NEW k, NEW druh, NEW skup, k = Posli(druh, skup)
  PROVE  /\ k.co = "sendto" /\ k.druh = druh /\ k.skupina = skup
         /\ DobryZapis(k)
<1>1. k.co = "sendto" /\ k.druh = druh /\ k.skupina = skup
  BY PosliPolia
<1>2. QED
  BY <1>1 DEF DobryZapis

\* From the first send of a command to its end the name and the groups stand.
LEMMA KrokPosiela ==
  ASSUME TypeOK, Vykonaj, Posiela
  PROVE  /\ Posiela'
         /\ nickname' = nickname /\ currSkupina' = currSkupina
         /\ prevSkupina' = prevSkupina /\ poleSkupin' = poleSkupin
         /\ DobryZapis(Head(zostava))
         /\ Head(zostava).co = "sendto" => nickname \in Mena /\ DobraSprava(Head(zostava))
<1> DEFINE Kratke == nickname' = nickname /\ currSkupina' = currSkupina
                     /\ prevSkupina' = prevSkupina /\ poleSkupin' = poleSkupin
<1>1. CASE zostava = <<Exit>> /\ ~prihlaseny
  <2>1. Head(zostava) = Exit /\ Tail(zostava) = << >>
    BY <1>1, Zvysok1
  <2>2. Kratke /\ ~prihlaseny'
    BY <1>1, <2>1, ExitPolia, Nezapise
  <2>3. Posiela'
    BY <2>1, <2>2, Priradenie DEF Posiela
  <2>4. QED
    BY <2>1, <2>2, <2>3, ExitPolia DEF DobryZapis
<1>2. CASE /\ ~prihlaseny /\ nickname \in Mena /\ Ustalene
           /\ currSkupina = DEF_GRP
           /\ zostava = <<Posli("Pripojil sa", DEF_GRP), Zapis("prihlaseny", TRUE)>>
  <2>1. /\ Head(zostava) = Posli("Pripojil sa", DEF_GRP)
        /\ Tail(zostava) = <<Zapis("prihlaseny", TRUE)>>
    BY <1>2, Zvysok2
  <2>2. /\ Head(zostava).co = "sendto"
        /\ Head(zostava).druh = "Pripojil sa" /\ Head(zostava).skupina = DEF_GRP
        /\ DobryZapis(Head(zostava))
    BY <2>1, PosliKrok
  <2>3. Kratke /\ prihlaseny' = prihlaseny
    BY <2>2, Nezapise
  <2>4. Posiela'
    BY <1>2, <2>1, <2>3, Priradenie DEF Posiela, Ustalene
  <2>5. DobraSprava(Head(zostava))
    BY <1>2, <2>2, ChatAssumption DEF DobraSprava, Druhy
  <2>6. QED
    BY <1>2, <2>2, <2>3, <2>4, <2>5
<1>3. CASE /\ ~prihlaseny /\ nickname \in Mena /\ Ustalene
           /\ zostava = <<Zapis("prihlaseny", TRUE)>>
  <2>1. Head(zostava) = Zapis("prihlaseny", TRUE) /\ Tail(zostava) = << >>
    BY <1>3, Zvysok1
  <2>2. Kratke
    BY <2>1, Zapise
  <2>3. Posiela'
    BY <1>3, <2>1, <2>2, Priradenie DEF Posiela, Ustalene
  <2>4. QED
    BY <2>1, <2>2, <2>3, DobraHodnota
<1>4. CASE /\ prihlaseny /\ nickname \in Mena /\ Ustalene
           /\ zostava = logout
  <2>1. /\ Head(zostava) = Posli("Odpojil sa", DEF_GRP)
        /\ Tail(zostava) = <<Zapis("prihlaseny", FALSE)>>
    BY <1>4, Zvysok2 DEF logout
  <2>2. Kratke /\ prihlaseny'
    BY <1>4, <2>1, PosliKrok, Nezapise
  <2>3. Posiela'
    BY <1>4, <2>1, <2>2, Priradenie DEF Posiela, Ustalene
  <2>4. DobryZapis(Head(zostava)) /\ DobraSprava(Head(zostava))
    BY <2>1, PosliKrok, ChatAssumption DEF DobraSprava, Druhy
  <2>5. QED
    BY <1>4, <2>2, <2>3, <2>4
<1>5. CASE /\ prihlaseny /\ nickname \in Mena /\ Ustalene
           /\ zostava = Append(logout, Exit)
  <2>1. /\ Head(zostava) = Posli("Odpojil sa", DEF_GRP)
        /\ Tail(zostava) = <<Zapis("prihlaseny", FALSE), Exit>>
    BY <1>5, OdhlasASkonci, Zvysok3
  <2>2. Kratke /\ prihlaseny'
    BY <1>5, <2>1, PosliKrok, Nezapise
  <2>3. Posiela'
    BY <1>5, <2>1, <2>2, Priradenie DEF Posiela, Ustalene
  <2>4. DobryZapis(Head(zostava)) /\ DobraSprava(Head(zostava))
    BY <2>1, PosliKrok, ChatAssumption DEF DobraSprava, Druhy
  <2>5. QED
    BY <1>5, <2>2, <2>3, <2>4
<1>6. CASE /\ prihlaseny /\ nickname \in Mena /\ Ustalene
           /\ \/ zostava = <<Zapis("prihlaseny", FALSE)>>
              \/ zostava = <<Zapis("prihlaseny", FALSE), Exit>>
  <2>1. /\ Head(zostava) = Zapis("prihlaseny", FALSE)
        /\ Tail(zostava) = << >> \/ Tail(zostava) = <<Exit>>
    BY <1>6, Zvysok1, Zvysok2
  <2>2. Kratke /\ prihlaseny' = FALSE
    BY <2>1, Zapise
  <2>3. Posiela'
    BY <2>1, <2>2, Priradenie DEF Posiela
  <2>4. QED
    BY <2>1, <2>2, <2>3, DobraHodnota
<1>7. CASE /\ prihlaseny /\ nickname \in Mena /\ Ustalene
           /\ \/ zostava = text
              \/ zostava = <<Posli("Pripojil sa", currSkupina)>>
              \/ \E g \in Skupiny \ poleSkupin : zostava = <<Posli("Odpojil sa", g)>>
  <2>1. PICK druh \in Druhy, g \in Skupiny :
          /\ zostava = <<Posli(druh, g)>>
          /\ druh \in {"Pripojil sa", "text"} => g = currSkupina
          /\ druh = "Odpojil sa" => g \notin poleSkupin
    BY <1>7 DEF TypeOK, text, Druhy
  <2>2. Head(zostava) = Posli(druh, g) /\ Tail(zostava) = << >>
    BY <2>1, Zvysok1
  <2>3. /\ Head(zostava).co = "sendto"
        /\ Head(zostava).druh = druh /\ Head(zostava).skupina = g
        /\ DobryZapis(Head(zostava))
    BY <2>2, PosliKrok
  <2>4. Kratke /\ prihlaseny'
    BY <1>7, <2>3, Nezapise
  <2>5. Posiela'
    BY <1>7, <2>2, <2>4, Priradenie DEF Posiela, Ustalene
  <2>6. DobraSprava(Head(zostava))
    BY <2>1, <2>3 DEF DobraSprava
  <2>7. QED
    BY <1>7, <2>3, <2>4, <2>5, <2>6
<1>8. QED
  BY <1>1, <1>2, <1>3, <1>4, <1>5, <1>6, <1>7, Priradenie DEF Posiela

-----------------------------------------------------------------------------
\* Types of messages.
LEMMA TypSpravy ==
  ASSUME NEW m \in Spravy
  PROVE  /\ m.skupina \in Skupiny /\ m.druh \in Druhy
         /\ m \in Moje => m.nickname \in Mena /\ m.cislo \in 1..PRIKAZOV
         /\ m \in Cudzie => m.nickname \in Cudzi
         /\ m \notin Moje => m \in Cudzie
BY DEF Spravy, Moje, Cudzie

\* What main sends is a message of this user.
LEMMA Odoslana ==
  ASSUME NEW meno \in Mena, NEW g \in Skupiny, NEW druh \in Druhy, NEW c \in 1..PRIKAZOV,
         NEW m, m = [nickname |-> meno, skupina |-> g, druh |-> druh, cislo |-> c]
  PROVE  /\ m \in Moje /\ m.nickname = meno /\ m.skupina = g /\ m.druh = druh
         /\ m.cislo = c
BY DEF Moje

LEMMA InitIInv == Init => IInv
<1> SUFFICES ASSUME Init PROVE IInv
  OBVIOUS
<1>2. TypeOK
  <2>1. 0 \in 0..PRIKAZOV /\ 0 \in 0..0
    BY ChatAssumption
  <2>2. {DEF_GRP} \subseteq Skupiny
    BY ChatAssumption
  <2>3. QED
    BY <2>1, <2>2 DEF Init, TypeOK
<1>3. VPrikaze /\ Odhlasenie
  BY DEF Init, VPrikaze, Posiela, Odhlasenie
<1>4. CudziaNieMoja /\ Rozpoznana
  BY DEF Init, CudziaNieMoja, Rozpoznana
<1>5. MojeSpravy
  BY NullAssumption DEF Init, MojeSpravy, Spravy
<1>6. QED
  BY <1>2, <1>3, <1>4, <1>5 DEF IInv

-----------------------------------------------------------------------------
\* Where main is depends only on its command and on the shared variables.
LEMMA Stojace ==
  ASSUME UNCHANGED <<zdielane, zostava>>
  PROVE  (Pise' <=> Pise) /\ (Posiela' <=> Posiela)
<1>1. /\ nickname' = nickname /\ currSkupina' = currSkupina /\ prevSkupina' = prevSkupina
      /\ poleSkupin' = poleSkupin /\ prihlaseny' = prihlaseny /\ zostava' = zostava
  BY DEF zdielane
<1>2. PiseLogin' <=> PiseLogin
  BY <1>1 DEF PiseLogin
<1>3. \A g : PiseJoin(g)' <=> PiseJoin(g)
  BY <1>1 DEF PiseJoin
<1>4. \A g : PiseLeave(g)' <=> PiseLeave(g)
  BY <1>1 DEF PiseLeave, leave
<1>5. Posiela' <=> Posiela
  BY <1>1 DEF Posiela, Ustalene, text
<1>6. QED
  BY <1>2, <1>3, <1>4, <1>5 DEF Pise

\* A current message stays current while the name and the groups stand.
LEMMA AktualnaTrva ==
  ASSUME NEW m, Aktualna(m), Posiela',
         nickname' = nickname, currSkupina' = currSkupina, poleSkupin' = poleSkupin
  PROVE  Aktualna(m)'
BY DEF Aktualna

\* Between two commands main is not writing.
LEMMA PromptNepise ==
  ASSUME zostava = << >>
  PROVE  ~Pise
<1>1. /\ \A a : <<a>> # << >>
      /\ \A a, b : <<a, b>> # << >>
      /\ \A a, b, c : <<a, b, c>> # << >>
      /\ \A a, b, c, d : <<a, b, c, d>> # << >>
      /\ \A a, b, c, d, e : <<a, b, c, d, e>> # << >>
      /\ \A a, b, c, d, e, f : <<a, b, c, d, e, f>> # << >>
      /\ \A a, b, c, d, e, f, g : <<a, b, c, d, e, f, g>> # << >>
  OBVIOUS
<1>2. ~PiseLogin
  BY <1>1 DEF PiseLogin, login, Orezanie
<1>3. \A g : ~PiseJoin(g)
  BY <1>1 DEF PiseJoin
<1>4. \A g : ~PiseLeave(g)
  BY <1>1 DEF PiseLeave, leave
<1>5. QED
  BY <1>2, <1>3, <1>4 DEF Pise

\* A step of main, wherever it is: the value written is one of the variable's,
\* and what is sent is sent while the name and the groups stand.
LEMMA KrokVykonaj ==
  ASSUME IInv, Vykonaj
  PROVE  /\ Pise' \/ Posiela'
         /\ DobryZapis(Head(zostava))
         /\ Head(zostava).co = "sendto" =>
              Posiela /\ nickname \in Mena /\ DobraSprava(Head(zostava))
<1>0. TypeOK /\ (Pise \/ Posiela)
  BY DEF IInv, VPrikaze
<1>1. CASE PiseLogin
  BY <1>0, <1>1, KrokLogin DEF Pise
<1>2. CASE \E g \in Skupiny : PiseJoin(g)
  <2>1. PICK g \in Skupiny : PiseJoin(g)
    BY <1>2
  <2>2. QED
    BY <1>0, <2>1, KrokJoin DEF Pise
<1>3. CASE \E g \in Skupiny \ {DEF_GRP} : PiseLeave(g)
  <2>1. PICK g \in Skupiny \ {DEF_GRP} : PiseLeave(g)
    BY <1>3
  <2>2. QED
    BY <1>0, <2>1, KrokLeave DEF Pise
<1>4. CASE Posiela
  BY <1>0, <1>4, KrokPosiela
<1>5. QED
  BY <1>0, <1>1, <1>2, <1>3, <1>4 DEF Pise

\* What is on its way after a step of main is what was, or the message sent.
LEMMA SietVykonaj ==
  ASSUME IInv, Vykonaj, NEW m \in siet'
  PROVE  \/ m \in siet
         \/ /\ Posiela /\ m \in Moje /\ m.cislo = cislo /\ Aktualna(m)
<1>1. CASE m \in siet
  BY <1>1
<1>2. CASE m \notin siet
  <2> DEFINE k == Head(zostava)
  <2>1. /\ k.co = "sendto"
        /\ m = [nickname |-> nickname, skupina |-> k.skupina,
                druh |-> k.druh, cislo |-> cislo]
    BY <1>2, Odoslanie
  <2>2. Posiela /\ nickname \in Mena /\ DobraSprava(k)
    BY <2>1, KrokVykonaj
  <2>3. k.skupina \in Skupiny /\ k.druh \in Druhy
    BY <2>2 DEF DobraSprava
  <2>4. cislo \in 1..PRIKAZOV
    BY Priradenie, ChatAssumption DEF IInv, VPrikaze, TypeOK
  <2> HIDE DEF k
  <2>5. /\ m \in Moje /\ m.nickname = nickname /\ m.skupina = k.skupina
        /\ m.druh = k.druh /\ m.cislo = cislo
    BY <2>1, <2>2, <2>3, <2>4, Odoslana
  <2>6. Aktualna(m)
    BY <2>2, <2>5 DEF Aktualna, DobraSprava
  <2>7. QED
    BY <2>2, <2>5, <2>6
<1>3. QED
  BY <1>1, <1>2

\* An own message that is still current is looked at or on its way while main
\* only sends, so a step of main leaves it current.
LEMMA VykonajZachova ==
  ASSUME IInv, Vykonaj
  PROVE  IInv'
<1>1. /\ message' = message /\ pc' = pc /\ moj' = moj /\ cislo' = cislo /\ zmena' = zmena
  BY Priradenie DEF prijem
<1>2. /\ TypeOK /\ VPrikaze /\ MojeSpravy /\ Rozpoznana /\ CudziaNieMoja /\ Odhlasenie
  BY DEF IInv
<1>3. ASSUME Posiela
      PROVE  /\ Posiela' /\ nickname' = nickname /\ currSkupina' = currSkupina
             /\ prevSkupina' = prevSkupina /\ poleSkupin' = poleSkupin
  BY <1>2, <1>3, KrokPosiela
<1>4. TypeOK'
  <2>1. /\ nickname' \in Mena \cup {NULL}
        /\ currSkupina' \in Skupiny /\ prevSkupina' \in Skupiny
        /\ poleSkupin' \subseteq Skupiny /\ prihlaseny' \in BOOLEAN
        /\ poOdhlaseni' \in Nat
    BY <1>2, KrokVykonaj, Priradenie DEF TypeOK, DobryZapis
  <2>2. siet' \subseteq Spravy
    <3>1. ASSUME NEW m \in siet'
          PROVE  m \in Spravy
      BY <1>2, SietVykonaj DEF TypeOK, Spravy
    <3>2. QED
      BY <3>1
  <2>3. koniec' \in BOOLEAN
    BY <1>2, Neukonceny DEF TypeOK
  <2>4. QED
    BY <1>1, <1>2, <2>1, <2>2, <2>3 DEF TypeOK
<1>5. VPrikaze'
  BY <1>1, <1>2, KrokVykonaj, Priradenie DEF VPrikaze
<1>6. MojeSpravy'
  <2>1. SUFFICES ASSUME NEW m \in ((siet \cup {message}) \cap Moje)'
                 PROVE  m.cislo <= cislo /\ (zmena <= m.cislo => Aktualna(m)')
    BY <1>1 DEF MojeSpravy
  <2>2. m \in Moje /\ (m \in siet' \/ m = message)
    BY <1>1, <2>1
  <2>3. ASSUME Aktualna(m)
        PROVE  Aktualna(m)'
    BY <1>3, <2>3, AktualnaTrva DEF Aktualna
  <2>4. CASE m \in siet \/ m = message
    BY <1>2, <2>2, <2>3, <2>4 DEF MojeSpravy
  <2>5. CASE m \in siet' /\ m \notin siet
    <3>1. m.cislo = cislo /\ Aktualna(m)
      BY <2>5, SietVykonaj
    <3>2. cislo \in Nat
      BY <1>2, ChatAssumption DEF TypeOK
    <3>3. QED
      BY <2>3, <3>1, <3>2
  <2>6. QED
    BY <2>2, <2>4, <2>5
<1>7. Rozpoznana'
  <2>1. SUFFICES ASSUME message \in Moje, zmena <= message.cislo
                 PROVE  Rozpoznana'
    BY <1>1 DEF Rozpoznana
  <2>2. Posiela
    BY <1>2, <2>1 DEF MojeSpravy, Aktualna
  <2>3. QED
    BY <1>1, <1>2, <1>3, <2>2 DEF Rozpoznana
<1>8. CudziaNieMoja'
  BY <1>1, <1>2 DEF CudziaNieMoja
<1>9. Odhlasenie'
  <2>1. CASE Head(zostava).co = "prihlaseny"
    BY <2>1, Priradenie DEF Odhlasenie
  <2>2. CASE Head(zostava).co # "prihlaseny"
    BY <1>1, <1>2, <2>2, Priradenie DEF Odhlasenie
  <2>3. QED
    BY <2>1, <2>2
<1>10. QED
  BY <1>4, <1>5, <1>6, <1>7, <1>8, <1>9 DEF IInv

\* A command starts between two others; one that will change the name or a
\* group outdates every message sent before.
LEMMA ZadajZachova ==
  ASSUME IInv, NEW prikaz, NEW meni \in BOOLEAN, Zadaj(prikaz, meni),
         Pise' \/ Posiela', ~meni => Posiela'
  PROVE  IInv'
<1>1. /\ nickname' = nickname /\ currSkupina' = currSkupina /\ prevSkupina' = prevSkupina
      /\ poleSkupin' = poleSkupin /\ prihlaseny' = prihlaseny
      /\ koniec' = koniec /\ siet' = siet /\ message' = message /\ pc' = pc /\ moj' = moj
      /\ poOdhlaseni' = poOdhlaseni
      /\ cislo < PRIKAZOV /\ cislo' = cislo + 1
      /\ zmena' = IF meni THEN cislo' ELSE zmena
  BY DEF Zadaj, zdielane, prijem
<1>2. /\ TypeOK /\ MojeSpravy /\ Rozpoznana /\ CudziaNieMoja /\ Odhlasenie
  BY DEF IInv
<1>3. /\ cislo \in Nat /\ zmena \in 0..cislo
      /\ cislo' \in 1..PRIKAZOV /\ zmena' \in 0..cislo' /\ zmena <= zmena'
  BY <1>1, <1>2, ChatAssumption DEF TypeOK
<1>4. TypeOK'
  BY <1>1, <1>2, <1>3 DEF TypeOK
<1>5. VPrikaze'
  BY <1>3 DEF VPrikaze
<1>6. MojeSpravy'
  <2>1. SUFFICES ASSUME NEW m \in (siet \cup {message}) \cap Moje
                 PROVE  m.cislo <= cislo' /\ (zmena' <= m.cislo => Aktualna(m)')
    BY <1>1 DEF MojeSpravy
  <2>2. m.cislo \in Nat /\ m.cislo <= cislo /\ (zmena <= m.cislo => Aktualna(m))
    BY <1>2, <2>1, ChatAssumption DEF MojeSpravy, Moje
  <2>3. CASE meni
    BY <1>1, <1>3, <2>2, <2>3
  <2>4. CASE ~meni
    <3>1. Aktualna(m) => Aktualna(m)'
      BY <1>1, <2>4, AktualnaTrva
    <3>2. QED
      BY <1>1, <1>3, <2>2, <2>4, <3>1
  <2>5. QED
    BY <2>3, <2>4
<1>7. Rozpoznana'
  <2>1. SUFFICES ASSUME message \in Moje, zmena' <= message.cislo
                 PROVE  Rozpoznana'
    BY <1>1 DEF Rozpoznana
  <2>2. zmena <= message.cislo
    BY <1>3, <2>1, ChatAssumption DEF Moje
  <2>3. QED
    BY <1>1, <1>2, <2>1, <2>2 DEF Rozpoznana
<1>8. CudziaNieMoja'
  BY <1>1, <1>2 DEF CudziaNieMoja
<1>9. Odhlasenie'
  BY <1>1, <1>2 DEF Odhlasenie
<1>10. QED
  BY <1>4, <1>5, <1>6, <1>7, <1>8, <1>9 DEF IInv

\* Every line the user can type starts a command the way ZadajZachova asks.
LEMMA KlavesnicaZachova ==
  ASSUME IInv, Klavesnica
  PROVE  IInv'
<1>1. zostava = << >>
  BY DEF Klavesnica, Login, Prikaz, Zadaj, Prompt
<1>2. prihlaseny => nickname \in Mena /\ Ustalene
  <2>1. Posiela
    BY <1>1, PromptNepise DEF IInv, VPrikaze
  <2>2. /\ \A a : <<a>> # << >>
        /\ \A a, b : <<a, b>> # << >>
        /\ \A a, b, c : <<a, b, c>> # << >>
    OBVIOUS
  <2>3. QED
    BY <1>1, <2>1, <2>2, OdhlasASkonci DEF Posiela, logout, text
<1>3. ASSUME NEW meno \in Mena, ~prihlaseny, Zadaj(login(meno), TRUE)
      PROVE  IInv'
  <2>1. PiseLogin'
    BY <1>3 DEF PiseLogin, Zadaj, zdielane
  <2>2. QED
    BY <1>3, <2>1, ZadajZachova DEF Pise
<1>4. ASSUME NEW prikaz \in {logout, Append(logout, Exit), text}, prihlaseny,
             Zadaj(prikaz, FALSE)
      PROVE  IInv'
  <2>1. /\ nickname' = nickname /\ currSkupina' = currSkupina
        /\ poleSkupin' = poleSkupin /\ prihlaseny' = prihlaseny /\ zostava' = prikaz
    BY <1>4 DEF Zadaj, zdielane
  <2>2. Posiela'
    BY <1>2, <1>4, <2>1 DEF Posiela, Ustalene, text
  <2>3. QED
    BY <1>4, <2>2, ZadajZachova
<1>5. ASSUME NEW g \in Skupiny, prihlaseny, Zadaj(join(g), TRUE)
      PROVE  IInv'
  <2>1. /\ nickname' = nickname /\ poleSkupin' = poleSkupin
        /\ prihlaseny' = prihlaseny /\ zostava' = join(g)
    BY <1>5 DEF Zadaj, zdielane
  <2>2. DEF_GRP \in poleSkupin
    BY <1>2, <1>5 DEF Ustalene
  <2>3. PiseJoin(g)'
    BY <1>2, <1>5, <2>1, <2>2 DEF PiseJoin, join
  <2>4. QED
    BY <1>5, <2>3, ZadajZachova DEF Pise
<1>6. ASSUME NEW g \in poleSkupin \ {DEF_GRP}, prihlaseny, Zadaj(leave(g), TRUE)
      PROVE  IInv'
  <2>1. /\ nickname' = nickname /\ poleSkupin' = poleSkupin
        /\ currSkupina' = currSkupina
        /\ prihlaseny' = prihlaseny /\ zostava' = leave(g)
    BY <1>6 DEF Zadaj, zdielane
  <2>2. DEF_GRP \in poleSkupin
    BY <1>2, <1>6 DEF Ustalene
  <2>3. PiseLeave(g)'
    BY <1>2, <1>6, <2>1, <2>2 DEF PiseLeave, leave
  <2>4. g \in Skupiny \ {DEF_GRP}
    BY DEF IInv, TypeOK
  <2>5. QED
    BY <1>6, <2>3, <2>4, ZadajZachova DEF Pise
<1>7. QED
  BY <1>3, <1>4, <1>5, <1>6 DEF Klavesnica, Login, Prikaz

-----------------------------------------------------------------------------
\* The names of the others are not the user's.
LEMMA CudziaNieMena ==
  ASSUME NEW m \in Cudzie
  PROVE  m \notin Moje /\ (nickname \in Mena \cup {NULL} => m.nickname # nickname)
BY ChatAssumption DEF Cudzie, Moje

\* A step that leaves main alone and brings no own message.
LEMMA PrijemMojeSpravy ==
  ASSUME IInv, UNCHANGED <<zdielane, zostava, cislo, zmena>>,
         (siet' \cup {message'}) \cap Moje \subseteq siet \cup {message}
  PROVE  VPrikaze' /\ MojeSpravy'
<1>1. /\ nickname' = nickname /\ currSkupina' = currSkupina
      /\ poleSkupin' = poleSkupin /\ zostava' = zostava
      /\ cislo' = cislo /\ zmena' = zmena
  BY DEF zdielane
<1>2. (Pise' <=> Pise) /\ (Posiela' <=> Posiela)
  BY Stojace
<1>3. VPrikaze'
  BY <1>1, <1>2 DEF IInv, VPrikaze
<1>4. \A m : Aktualna(m)' <=> Aktualna(m)
  BY <1>1, <1>2 DEF Aktualna
<1>5. MojeSpravy'
  BY <1>1, <1>4 DEF IInv, MojeSpravy
<1>6. QED
  BY <1>3, <1>5

\* What stands in a step of the receiver, and what it does to the message.
LEMMA KrokSluchaj ==
  ASSUME IInv, NEW kde, NEW kam, Sluchaj(kde, kam), siet' = siet,
         kde \notin {"recvfrom", "skoncil"},
         kam \in {"recvfrom", "pripojil", "text", "odpojil", "pole", "printf"},
         moj' \in BOOLEAN, poOdhlaseni' \in Nat
  PROVE  TypeOK' /\ VPrikaze' /\ MojeSpravy'
<1>1. /\ UNCHANGED <<zdielane, zostava, cislo, zmena>>
      /\ pc = kde /\ pc' = kam /\ koniec' = koniec
      /\ message' = IF kam = "recvfrom" THEN NULL ELSE message
  BY DEF Sluchaj
<1>2. NULL \notin Moje
  BY NullAssumption DEF Spravy
<1>3. VPrikaze' /\ MojeSpravy'
  BY <1>1, <1>2, PrijemMojeSpravy
<1>4. message \in Spravy \cup {NULL} /\ message # NULL
  BY <1>1 DEF IInv, TypeOK
<1>5. TypeOK'
  BY <1>1, <1>4 DEF IInv, TypeOK, zdielane
<1>6. QED
  BY <1>3, <1>5

LEMMA RecvfromZachova ==
  ASSUME IInv, recvfrom
  PROVE  IInv'
<1>1. /\ TypeOK /\ CudziaNieMoja /\ Odhlasenie
  BY DEF IInv
<1>2. PICK m \in siet : message' = m /\ siet' = siet \ {m}
  BY DEF recvfrom
<1>3. /\ UNCHANGED <<zdielane, zostava, cislo, zmena>>
      /\ pc = "recvfrom" /\ pc' = "prihlaseny" /\ moj' = FALSE
      /\ koniec' = koniec /\ poOdhlaseni' = poOdhlaseni
  BY DEF recvfrom
<1>4. VPrikaze' /\ MojeSpravy'
  BY <1>2, <1>3, PrijemMojeSpravy
<1>5. m \in Spravy /\ m # NULL
  BY <1>1, NullAssumption DEF TypeOK
<1>6. TypeOK'
  BY <1>1, <1>2, <1>3, <1>5 DEF TypeOK, zdielane
<1>7. Rozpoznana' /\ CudziaNieMoja' /\ Odhlasenie'
  BY <1>1, <1>3 DEF Rozpoznana, CudziaNieMoja, Odhlasenie, zdielane
<1>8. QED
  BY <1>4, <1>6, <1>7 DEF IInv

\* The end of the receiver: no message is being looked at, and main goes on.
LEMMA ChybaRecvfromZachova ==
  ASSUME IInv, ChybaRecvfrom
  PROVE  IInv'
<1>1. /\ TypeOK /\ MojeSpravy /\ CudziaNieMoja /\ Odhlasenie
  BY DEF IInv
<1>2. /\ UNCHANGED <<zdielane, zostava, cislo, zmena>>
      /\ pc = "recvfrom" /\ pc' = "skoncil" /\ message' = message /\ moj' = moj
      /\ siet' = siet /\ koniec' = koniec /\ poOdhlaseni' = poOdhlaseni
  BY DEF ChybaRecvfrom, Sluchaj
<1>3. VPrikaze' /\ MojeSpravy'
  BY <1>2, PrijemMojeSpravy
<1>4. TypeOK'
  BY <1>1, <1>2 DEF TypeOK, zdielane
<1>5. Rozpoznana' /\ CudziaNieMoja' /\ Odhlasenie'
  BY <1>1, <1>2 DEF Rozpoznana, CudziaNieMoja, Odhlasenie, zdielane
<1>6. QED
  BY <1>3, <1>4, <1>5 DEF IInv

LEMMA TestPrihlasenyZachova ==
  ASSUME IInv, TestPrihlaseny
  PROVE  IInv'
<1>1. /\ TypeOK /\ CudziaNieMoja /\ Odhlasenie
  BY DEF IInv
<1>2. /\ Sluchaj("prihlaseny", Dalej) /\ siet' = siet /\ moj' = moj
      /\ poOdhlaseni' = poOdhlaseni
  BY DEF TestPrihlaseny
<1>3. Dalej \in {"recvfrom", "pripojil"} /\ (Dalej = "pripojil" => prihlaseny)
  BY DEF Dalej
<1>4. TypeOK' /\ VPrikaze' /\ MojeSpravy'
  BY <1>1, <1>2, <1>3, KrokSluchaj DEF TypeOK
<1>5. /\ pc' = Dalej /\ message' \in {message, NULL} /\ prihlaseny' = prihlaseny
  BY <1>2 DEF Sluchaj, zdielane
<1>6. Rozpoznana' /\ CudziaNieMoja'
  BY <1>1, <1>2, <1>3, <1>5, NullAssumption DEF Rozpoznana, CudziaNieMoja, Spravy
<1>7. Odhlasenie'
  BY <1>1, <1>2, <1>3, <1>5 DEF Odhlasenie
<1>8. QED
  BY <1>4, <1>6, <1>7 DEF IInv

\* The heart of the matter: as long as an own message is current, the
\* comparisons with the current name and group recognise it.
LEMMA PorovnajZachova ==
  ASSUME IInv, JeMoj
  PROVE  IInv'
<1>1. /\ TypeOK /\ MojeSpravy /\ Rozpoznana /\ CudziaNieMoja /\ Odhlasenie
  BY DEF IInv
<1>2. /\ message \in Spravy /\ message # NULL
      /\ message.druh \in Druhy
  BY <1>1, TypSpravy DEF JeMoj, Porovnaj, Sluchaj, TypeOK
<1>3. ASSUME NEW kde, NEW dalsie, NEW druh, NEW skupina, Porovnaj(kde, dalsie, druh, skupina),
             kde \in {"pripojil", "text", "odpojil"}, dalsie \in {"text", "odpojil", "pole"}
      PROVE  /\ TypeOK' /\ VPrikaze' /\ MojeSpravy' /\ CudziaNieMoja' /\ Odhlasenie'
             /\ pc = kde /\ message' = message /\ zmena' = zmena /\ prevSkupina' = prevSkupina
             /\ poleSkupin' = poleSkupin
             /\ moj' = Rovnaka(druh, skupina)
             /\ pc' = IF moj' THEN "pole" ELSE dalsie
  <2>1. /\ Sluchaj(kde, IF Rovnaka(druh, skupina) THEN "pole" ELSE dalsie)
        /\ moj' = Rovnaka(druh, skupina) /\ siet' = siet /\ poOdhlaseni' = poOdhlaseni
    BY <1>3 DEF Porovnaj
  <2>2. moj' \in BOOLEAN
    BY <2>1 DEF Rovnaka
  <2>3. TypeOK' /\ VPrikaze' /\ MojeSpravy'
    BY <1>1, <1>3, <2>1, <2>2, KrokSluchaj DEF TypeOK
  <2>4. /\ pc = kde /\ pc' = IF moj' THEN "pole" ELSE dalsie
        /\ message' = message /\ zmena' = zmena /\ prevSkupina' = prevSkupina
        /\ poleSkupin' = poleSkupin /\ prihlaseny' = prihlaseny
    BY <1>3, <2>1 DEF Sluchaj, zdielane
  <2>5. CudziaNieMoja'
    <3>1. message \in Cudzie => message.nickname # nickname
      BY <1>1, CudziaNieMena DEF TypeOK
    <3>2. QED
      BY <2>1, <2>4, <3>1 DEF CudziaNieMoja, Rovnaka
  <2>6. Odhlasenie'
    BY <1>1, <1>3, <2>1, <2>4 DEF Odhlasenie
  <2>7. QED
    BY <2>1, <2>3, <2>4, <2>5, <2>6
<1>4. ASSUME message \in Moje, zmena <= message.cislo
      PROVE  Aktualna(message)
  BY <1>1, <1>4 DEF MojeSpravy
<1>5. CASE Porovnaj("pripojil", "text", "Pripojil sa", currSkupina)
  <2>1. /\ TypeOK' /\ VPrikaze' /\ MojeSpravy' /\ CudziaNieMoja' /\ Odhlasenie'
        /\ message' = message /\ zmena' = zmena
        /\ moj' = Rovnaka("Pripojil sa", currSkupina)
        /\ pc' = IF moj' THEN "pole" ELSE "text"
    BY <1>3, <1>5
  <2>2. Rozpoznana'
    BY <1>4, <2>1 DEF Rozpoznana, Aktualna, Rovnaka
  <2>3. QED
    BY <2>1, <2>2 DEF IInv
<1>6. CASE Porovnaj("text", "odpojil", "text", currSkupina)
  <2>1. /\ TypeOK' /\ VPrikaze' /\ MojeSpravy' /\ CudziaNieMoja' /\ Odhlasenie'
        /\ pc = "text" /\ message' = message /\ zmena' = zmena
        /\ moj' = Rovnaka("text", currSkupina)
        /\ pc' = IF moj' THEN "pole" ELSE "odpojil"
    BY <1>3, <1>6
  <2>2. Rozpoznana'
    BY <1>1, <1>4, <2>1 DEF Rozpoznana, Aktualna, Rovnaka
  <2>3. QED
    BY <2>1, <2>2 DEF IInv
<1>7. CASE Porovnaj("odpojil", "pole", "Odpojil sa", prevSkupina)
  <2>1. /\ TypeOK' /\ VPrikaze' /\ MojeSpravy' /\ CudziaNieMoja' /\ Odhlasenie'
        /\ pc = "odpojil" /\ message' = message /\ zmena' = zmena
        /\ prevSkupina' = prevSkupina /\ poleSkupin' = poleSkupin
        /\ moj' = Rovnaka("Odpojil sa", prevSkupina)
        /\ pc' = "pole"
    BY <1>3, <1>7
  <2>2. Rozpoznana'
    BY <1>1, <1>2, <1>4, <2>1 DEF Rozpoznana, Aktualna, Rovnaka, Druhy
  <2>3. QED
    BY <2>1, <2>2 DEF IInv
<1>8. QED
  BY <1>5, <1>6, <1>7 DEF JeMoj

LEMMA TestSkupinyZachova ==
  ASSUME IInv, TestSkupiny
  PROVE  IInv'
<1> DEFINE kam == IF ~moj /\ Pocuva THEN "printf" ELSE "recvfrom"
<1>1. /\ TypeOK /\ Rozpoznana /\ CudziaNieMoja /\ Odhlasenie
  BY DEF IInv
<1>2. /\ Sluchaj("pole", kam) /\ siet' = siet /\ moj' = moj
      /\ poOdhlaseni' = poOdhlaseni
  BY DEF TestSkupiny
<1>3. TypeOK' /\ VPrikaze' /\ MojeSpravy'
  BY <1>1, <1>2, KrokSluchaj DEF TypeOK
<1>4. /\ pc = "pole" /\ pc' = kam /\ message' = IF kam = "recvfrom" THEN NULL ELSE message
      /\ zmena' = zmena /\ prevSkupina' = prevSkupina /\ prihlaseny' = prihlaseny
  BY <1>2 DEF Sluchaj, zdielane
<1>5. NULL \notin Moje /\ NULL \notin Cudzie
  BY NullAssumption DEF Spravy
<1>6. Rozpoznana'
  BY <1>1, <1>2, <1>4, <1>5 DEF Rozpoznana, Pocuva
<1>7. CudziaNieMoja' /\ Odhlasenie'
  BY <1>1, <1>2, <1>4, <1>5 DEF CudziaNieMoja, Odhlasenie
<1>8. QED
  BY <1>3, <1>6, <1>7 DEF IInv

LEMMA PrintfZachova ==
  ASSUME IInv, printf
  PROVE  IInv'
<1>1. /\ TypeOK /\ Odhlasenie
  BY DEF IInv
<1>2. /\ Sluchaj("printf", "recvfrom") /\ siet' = siet /\ moj' = moj
      /\ poOdhlaseni' = IF prihlaseny THEN poOdhlaseni ELSE poOdhlaseni + 1
  BY DEF printf
<1>3. /\ pc = "printf" /\ pc' = "recvfrom" /\ message' = NULL /\ prihlaseny' = prihlaseny
  BY <1>2 DEF Sluchaj, zdielane
<1>4. poOdhlaseni = 0
  BY <1>1, <1>3 DEF Odhlasenie
<1>5. TypeOK' /\ VPrikaze' /\ MojeSpravy'
  BY <1>1, <1>2, <1>4, KrokSluchaj DEF TypeOK
<1>6. Rozpoznana' /\ CudziaNieMoja'
  BY <1>3, NullAssumption DEF Rozpoznana, CudziaNieMoja, Spravy
<1>7. Odhlasenie'
  BY <1>2, <1>3, <1>4 DEF Odhlasenie
<1>8. QED
  BY <1>5, <1>6, <1>7 DEF IInv

LEMMA CudziaZachova ==
  ASSUME IInv, Cudzia
  PROVE  IInv'
<1>1. PICK m \in Cudzie : siet' = siet \cup {m}
  BY DEF Cudzia
<1>2. /\ UNCHANGED <<zdielane, zostava, cislo, zmena>>
      /\ message' = message /\ pc' = pc /\ moj' = moj /\ koniec' = koniec
      /\ poOdhlaseni' = poOdhlaseni
  BY DEF Cudzia, prijem
<1>3. m \notin Moje /\ m \in Spravy
  BY <1>1, CudziaNieMena DEF Spravy
<1>4. VPrikaze' /\ MojeSpravy'
  BY <1>1, <1>2, <1>3, PrijemMojeSpravy
<1>5. TypeOK'
  BY <1>1, <1>2, <1>3 DEF IInv, TypeOK, zdielane
<1>6. Rozpoznana' /\ CudziaNieMoja' /\ Odhlasenie'
  BY <1>2 DEF IInv, Rozpoznana, CudziaNieMoja, Odhlasenie, zdielane
<1>7. QED
  BY <1>4, <1>5, <1>6 DEF IInv

LEMMA StutterZachova ==
  ASSUME IInv, UNCHANGED vars
  PROVE  IInv'
<1>1. /\ UNCHANGED <<zdielane, zostava, cislo, zmena>>
      /\ siet' = siet /\ message' = message /\ pc' = pc /\ moj' = moj /\ koniec' = koniec
      /\ poOdhlaseni' = poOdhlaseni
  BY DEF vars, prijem
<1>2. VPrikaze' /\ MojeSpravy'
  BY <1>1, PrijemMojeSpravy
<1>3. TypeOK'
  BY <1>1 DEF IInv, TypeOK, zdielane
<1>4. Rozpoznana' /\ CudziaNieMoja' /\ Odhlasenie'
  BY <1>1 DEF IInv, Rozpoznana, CudziaNieMoja, Odhlasenie, zdielane
<1>5. QED
  BY <1>2, <1>3, <1>4 DEF IInv

-----------------------------------------------------------------------------
\* IInv holds in every state: main's commands, the receiver's tests and the
\* traffic of the others keep it in whatever order their steps are taken.
THEOREM Invariant == Spec => []IInv
<1>1. Init => IInv
  BY InitIInv
<1>2. IInv /\ [Next]_vars => IInv'
  <2> SUFFICES ASSUME IInv, [Next]_vars PROVE IInv'
    OBVIOUS
  <2>1. CASE Klavesnica
    BY <2>1, KlavesnicaZachova
  <2>2. CASE Vykonaj
    BY <2>2, VykonajZachova
  <2>3. CASE receiver
    BY <2>3, RecvfromZachova, TestPrihlasenyZachova, PorovnajZachova, TestSkupinyZachova,
       PrintfZachova DEF receiver
  <2>4. CASE Cudzia
    BY <2>4, CudziaZachova
  <2>5. CASE ChybaRecvfrom
    BY <2>5, ChybaRecvfromZachova
  <2>6. CASE UNCHANGED vars
    BY <2>6, StutterZachova
  <2>7. QED
    BY <2>1, <2>2, <2>3, <2>4, <2>5, <2>6 DEF Next
<1>3. QED
  BY <1>1, <1>2, PTL DEF Spec

\* The shared variables, the message and the receiver's place have their types.
THEOREM TypSpravny == Spec => []TypeOK
<1>1. IInv => TypeOK
  BY DEF IInv
<1>2. QED
  BY <1>1, Invariant, PTL

\* When main reads the next line the current group and the default group are
\* groups of the user, whatever sequence of logins, joins and leaves came before.
THEOREM PiseTamKdeJe == Spec => []PisesTamKdeSi
<1>1. IInv => PisesTamKdeSi
  <2> SUFFICES ASSUME IInv, Prompt, prihlaseny
               PROVE  {currSkupina, DEF_GRP} \subseteq poleSkupin
    BY DEF PisesTamKdeSi
  <2>1. zostava = << >> /\ Posiela
    BY PromptNepise DEF Prompt, IInv, VPrikaze
  <2>2. /\ \A a : <<a>> # << >>
        /\ \A a, b : <<a, b>> # << >>
        /\ \A a, b, c : <<a, b, c>> # << >>
    OBVIOUS
  <2>3. QED
    BY <2>1, <2>2, OdhlasASkonci DEF Posiela, Ustalene, logout, text
<1>2. QED
  BY <1>1, Invariant, PTL

\* An own message is shown as another's only if a later command changed the name
\* or a group, or if it is a logout's and an earlier /leave set prevSkupina.
THEOREM VlastneSkryte == Spec => []EchoIbaPoZmene
<1>1. IInv => EchoIbaPoZmene
  <2> SUFFICES ASSUME IInv, pc = "printf", message \in Moje, ~(zmena > message.cislo)
               PROVE  message.druh = "Odpojil sa" /\ prevSkupina # DEF_GRP
    BY DEF EchoIbaPoZmene
  <2>1. zmena <= message.cislo
    BY ChatAssumption DEF IInv, TypeOK, Moje
  <2>2. QED
    BY <2>1 DEF IInv, Rozpoznana
<1>2. QED
  BY <1>1, Invariant, PTL

\* At most one message is printed between a logout and the next login.
THEOREM PoOdhlaseniNajviacJedna == Spec => []PoOdhlaseniJedna
<1>1. IInv => PoOdhlaseniJedna
  BY DEF IInv, Odhlasenie, PoOdhlaseniJedna
<1>2. QED
  BY <1>1, Invariant, PTL

\* No message of another user that was read is dropped, but for a logout or a
\* group the user is not in at the moment of that test.
THEOREM CudzieSaZobrazia == Spec => PocuvasVoVsetkych
<1>1. IInv /\ [Next]_vars =>
        [pc # "recvfrom" /\ pc' = "recvfrom" /\ message \in Cudzie =>
           pc = "printf" \/ ~prihlaseny \/ message.skupina \notin poleSkupin]_vars
  <2> SUFFICES ASSUME IInv, Next, pc # "recvfrom", pc' = "recvfrom", message \in Cudzie
               PROVE  pc = "printf" \/ ~prihlaseny \/ message.skupina \notin poleSkupin
    OBVIOUS
  <2>1. CASE Klavesnica
    BY <2>1 DEF Klavesnica, Login, Prikaz, Zadaj, prijem
  <2>2. CASE Vykonaj
    BY <2>2, Priradenie DEF prijem
  <2>3. CASE Cudzia
    BY <2>3 DEF Cudzia, prijem
  <2>4. CASE recvfrom
    BY <2>4 DEF recvfrom
  <2>5. CASE TestPrihlaseny
    BY <2>5 DEF TestPrihlaseny, Sluchaj, Dalej
  <2>6. CASE JeMoj
    BY <2>6 DEF JeMoj, Porovnaj, Sluchaj
  <2>7. CASE TestSkupiny
    BY <2>7 DEF TestSkupiny, Sluchaj, Pocuva, IInv, CudziaNieMoja
  <2>8. CASE printf
    BY <2>8 DEF printf, Sluchaj
  <2>9. CASE ChybaRecvfrom
    BY <2>9 DEF ChybaRecvfrom, Sluchaj
  <2>10. QED
    BY <2>1, <2>2, <2>3, <2>4, <2>5, <2>6, <2>7, <2>8, <2>9 DEF Next, receiver
<1>2. QED
  BY <1>1, Invariant, PTL DEF Spec, PocuvasVoVsetkych

=============================================================================
