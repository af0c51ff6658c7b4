---------------------------- MODULE BridgeProofs ----------------------------
(***************************************************************************)
(* The list of Bridge implements the table of LearningBridge, for every    *)
(* number of interfaces, every set of hosts and any traffic.               *)
(***************************************************************************)
EXTENDS Bridge, SequenceTheorems, TLAPS

Zaznamy == [address : Hostia, IFD : Rozhrania]

\* No address has two rows.
Jedinecne(t) == \A j, k \in 1..Len(t) : t[j].address = t[k].address => j = k

\* A socket the loop will come to has something to read.
JeCoCitat == \A i \in FDs : prisle[i] # << >> \/ i \in zlyha

\* The inductive invariant.  That a row is not stale needs JedenRiadok: a second
\* row of the address would keep the old interface.
IInv ==
  /\ TypeOK
  /\ JedenRiadok
  /\ VidenyAleboChyba
  /\ JeCoCitat

-----------------------------------------------------------------------------
(* The list. *)

\* The address of a row is that of a host.
LEMMA AdresaRiadku ==
  ASSUME NEW t \in Seq(Zaznamy), NEW k \in 1..Len(t)
  PROVE  t[k].address \in Hostia
<1>1. t[k] \in Zaznamy
  BY ElementOfSeq
<1> QED  BY <1>1 DEF Zaznamy

\* What is put before a list.
LEMMA VlozenieNaZaciatok ==
  ASSUME NEW S, NEW t \in Seq(S), NEW r \in S
  PROVE  /\ <<r>> \o t \in Seq(S)
         /\ Len(<<r>> \o t) = Len(t) + 1
         /\ \A k \in 1..(Len(t) + 1) : (<<r>> \o t)[k] = IF k = 1 THEN r ELSE t[k - 1]
<1>1. <<r>> \in Seq(S) /\ Len(<<r>>) = 1 /\ <<r>>[1] = r
  OBVIOUS
<1>2. Len(t) \in Nat
  OBVIOUS
<1>3. /\ <<r>> \o t \in Seq(S)
      /\ Len(<<r>> \o t) = 1 + Len(t)
      /\ \A k \in 1..(1 + Len(t)) : (<<r>> \o t)[k] = IF k <= 1 THEN <<r>>[k] ELSE t[k - 1]
  BY <1>1, ConcatProperties
<1> QED  BY <1>1, <1>2, <1>3

\* The rows of an address that has one row.
LEMMA JedinyRiadok ==
  ASSUME NEW t, Jedinecne(t), NEW k \in 1..Len(t)
  PROVE  Riadky(t, t[k].address) = {k} /\ Min(Riadky(t, t[k].address)) = k
<1>1. Riadky(t, t[k].address) = {k}
  BY DEF Riadky, Jedinecne
<1>2. \A x : x \in {k} /\ (\A y \in {k} : x <= y) <=> x = k
  OBVIOUS
<1> QED  BY <1>1, <1>2 DEF Min

\* FindBTEntry finds the row of an address.
LEMMA NajdenyRiadok ==
  ASSUME NEW t, Jedinecne(t), NEW k \in 1..Len(t)
  PROVE  FindBTEntry(t, t[k].address) = t[k].IFD
BY JedinyRiadok DEF FindBTEntry

LEMMA ZiadnyRiadok ==
  ASSUME NEW t, NEW a, \A k \in 1..Len(t) : t[k].address # a
  PROVE  FindBTEntry(t, a) = NULL
BY DEF FindBTEntry, Riadky

\* After UpdateOrAddMACEntry the address has one row, with the new interface, and
\* the other rows are the old ones of the other addresses.
LEMMA UpdateZachova ==
  ASSUME NEW t \in Seq(Zaznamy), Jedinecne(t), NEW a \in Hostia, NEW i \in Rozhrania
  PROVE  LET u == UpdateOrAddMACEntry(t, a, i) IN
         /\ u \in Seq(Zaznamy)
         /\ Jedinecne(u)
         /\ \E k \in 1..Len(u) : u[k] = [address |-> a, IFD |-> i]
         /\ \A k \in 1..Len(u) : \/ u[k] = [address |-> a, IFD |-> i]
                                 \/ u[k].address # a /\ \E j \in 1..Len(t) : u[k] = t[j]
         /\ \A j \in 1..Len(t) : t[j].address # a => \E k \in 1..Len(u) : u[k] = t[j]
<1> DEFINE u == UpdateOrAddMACEntry(t, a, i)
           r == [address |-> a, IFD |-> i]
<1>0. Len(t) \in Nat /\ \A k \in 1..Len(t) : t[k] \in Zaznamy
  BY ElementOfSeq
<1>1. r \in Zaznamy /\ r.address = a
  BY DEF Zaznamy
<1>2. CASE Riadky(t, a) = {}
  <2>1. u = <<r>> \o t
    BY <1>2 DEF UpdateOrAddMACEntry
  <2> HIDE DEF u, r
  <2>2. /\ u \in Seq(Zaznamy)
        /\ Len(u) = Len(t) + 1
        /\ \A k \in 1..(Len(t) + 1) : u[k] = IF k = 1 THEN r ELSE t[k - 1]
    BY <1>1, <2>1, VlozenieNaZaciatok
  <2>3. \A j \in 1..Len(t) : t[j].address # a /\ j + 1 \in 1..Len(u) /\ u[j + 1] = t[j]
    <3>1. \A j \in 1..Len(t) : t[j].address # a
      BY <1>2 DEF Riadky
    <3> QED  BY <1>0, <2>2, <3>1
  <2>4. \A k \in 1..Len(u) : \/ k = 1 /\ u[k] = r
                             \/ k # 1 /\ k - 1 \in 1..Len(t) /\ u[k] = t[k - 1]
    BY <1>0, <2>2
  <2>5. 1 \in 1..Len(u) /\ u[1] = r
    BY <1>0, <2>2
  <2>6. Jedinecne(u)
    <3> SUFFICES ASSUME NEW j \in 1..Len(u), NEW k \in 1..Len(u), u[j].address = u[k].address
                 PROVE  j = k
      BY DEF Jedinecne
    <3>1. \A l \in 1..Len(u) : u[l].address = a <=> l = 1
      <4>1. \A l \in 1..Len(u) : l # 1 => u[l].address # a
        BY <1>0, <2>2, <2>3
      <4> QED  BY <1>1, <2>5, <4>1
    <3>2. CASE j # 1 /\ k # 1
      <4>1. /\ j - 1 \in 1..Len(t) /\ k - 1 \in 1..Len(t)
            /\ t[j - 1].address = t[k - 1].address
        BY <2>4, <3>2
      <4>2. j - 1 = k - 1
        BY <4>1 DEF Jedinecne
      <4> QED  BY <4>2, <2>2, <1>0
    <3> QED  BY <3>1, <3>2
  <2>7. \A k \in 1..Len(u) : \/ u[k] = r
                             \/ u[k].address # a /\ \E j \in 1..Len(t) : u[k] = t[j]
    BY <2>3, <2>4
  <2>8. \A j \in 1..Len(t) : \E k \in 1..Len(u) : u[k] = t[j]
    BY <2>3
  <2> QED  BY <2>2, <2>5, <2>6, <2>7, <2>8 DEF u, r
<1>3. CASE Riadky(t, a) # {}
  <2>1. PICK m \in 1..Len(t) : t[m].address = a
    BY <1>3 DEF Riadky
  <2>2. u = [t EXCEPT ![m].IFD = i]
    BY <1>3, <2>1, JedinyRiadok DEF UpdateOrAddMACEntry
  <2>3. u = [t EXCEPT ![m] = [t[m] EXCEPT !.IFD = i]]
    BY <2>2
  <2>4. [t[m] EXCEPT !.IFD = i] = r
    BY <1>0, <2>1 DEF Zaznamy
  <2> HIDE DEF u, r
  <2>5. /\ u \in Seq(Zaznamy)
        /\ Len(u) = Len(t)
        /\ \A k \in 1..Len(t) : u[k] = IF k = m THEN r ELSE t[k]
    BY <1>1, <2>3, <2>4, ExceptSeq
  <2>6. \A k \in 1..Len(t) : k # m => t[k].address # a
    BY <2>1 DEF Jedinecne
  <2>7. Jedinecne(u)
    BY <1>1, <2>1, <2>5 DEF Jedinecne
  <2> QED  BY <2>1, <2>5, <2>6, <2>7 DEF u, r
<1> QED  BY <1>2, <1>3

\* Hence the address is found on the new interface, every other one where it was.
LEMMA UpdateNajde ==
  ASSUME NEW t \in Seq(Zaznamy), Jedinecne(t), NEW a \in Hostia, NEW i \in Rozhrania,
         NEW x
  PROVE  FindBTEntry(UpdateOrAddMACEntry(t, a, i), x) = IF x = a THEN i ELSE FindBTEntry(t, x)
<1> DEFINE u == UpdateOrAddMACEntry(t, a, i)
<1>1. /\ u \in Seq(Zaznamy)
      /\ Jedinecne(u)
      /\ \E k \in 1..Len(u) : u[k] = [address |-> a, IFD |-> i]
      /\ \A k \in 1..Len(u) : \/ u[k] = [address |-> a, IFD |-> i]
                              \/ u[k].address # a /\ \E j \in 1..Len(t) : u[k] = t[j]
      /\ \A j \in 1..Len(t) : t[j].address # a => \E k \in 1..Len(u) : u[k] = t[j]
  BY UpdateZachova
<1> HIDE DEF u
<1>3. CASE x = a
  <2>1. PICK k \in 1..Len(u) : u[k] = [address |-> a, IFD |-> i]
    BY <1>1
  <2> QED  BY <1>1, <1>3, <2>1, NajdenyRiadok DEF u
<1>4. CASE x # a
  <2>1. CASE \E j \in 1..Len(t) : t[j].address = x
    <3>1. PICK j \in 1..Len(t) : t[j].address = x
      BY <2>1
    <3>2. PICK k \in 1..Len(u) : u[k] = t[j]
      BY <1>1, <1>4, <3>1
    <3>3. FindBTEntry(t, x) = t[j].IFD
      BY <3>1, NajdenyRiadok
    <3>4. FindBTEntry(u, x) = u[k].IFD
      BY <1>1, <3>1, <3>2, NajdenyRiadok
    <3> QED  BY <1>4, <3>2, <3>3, <3>4 DEF u
  <2>2. CASE \A j \in 1..Len(t) : t[j].address # x
    <3>1. \A k \in 1..Len(u) : u[k].address # x
      BY <1>1, <1>4, <2>2
    <3>2. FindBTEntry(u, x) = NULL /\ FindBTEntry(t, x) = NULL
      BY <2>2, <3>1, ZiadnyRiadok
    <3> QED  BY <1>4, <3>2 DEF u
  <2> QED  BY <2>1, <2>2
<1> QED  BY <1>3, <1>4

-----------------------------------------------------------------------------
(* The invariant. *)

LEMMA TableTyp == TypeOK => table \in Seq(Zaznamy)
BY DEF TypeOK, Zaznamy

\* The frames have a known source.
LEMMA RamecZdroj == \A f \in Ramce : f.src \in Hostia
BY DEF Ramce, Most!Ramce

LEMMA InitIInv == Init => IInv
<1> SUFFICES ASSUME Init PROVE IInv
  OBVIOUS
<1>1. TypeOK
  <2>1. /\ table \in Seq([address : Hostia, IFD : Rozhrania])
        /\ zlyhali \in Seq(Rozhrania)
    BY EmptySeq DEF Init
  <2>2. prisle \in [Rozhrania -> Seq(Ramce)]
    BY EmptySeq DEF Init
  <2> QED  BY <2>1, <2>2 DEF Init, TypeOK
<1>2. 1..Len(table) = {}
  BY EmptySeq DEF Init
<1> QED  BY <1>1, <1>2 DEF Init, IInv, JedenRiadok, VidenyAleboChyba, JeCoCitat

\* The environment: frames that arrive, interfaces that go down.
LEMMA PrichodZachova ==
  ASSUME IInv, NEW i \in Rozhrania, Prichod(i)
  PROVE  IInv'
<1>1. PICK f \in Ramce : prisle' = [prisle EXCEPT ![i] = Append(@, f)]
  BY DEF Prichod
<1>2. prisle[i] \in Seq(Ramce)
  BY DEF IInv, TypeOK
<1>3. Append(prisle[i], f) \in Seq(Ramce) /\ Append(prisle[i], f) # << >>
  BY <1>2, AppendProperties
<1>4. UNCHANGED <<table, FDs, frame, zlyha, obsluzene, kam, naposledy, zlyhali>>
  BY DEF Prichod
<1>5. TypeOK'
  BY <1>1, <1>3, <1>4 DEF IInv, TypeOK
<1>6. JeCoCitat'
  BY <1>1, <1>3, <1>4 DEF IInv, TypeOK, JeCoCitat
<1> QED  BY <1>4, <1>5, <1>6 DEF IInv, JedenRiadok, VidenyAleboChyba

LEMMA VypadokZachova ==
  ASSUME IInv, NEW i \in Rozhrania, Vypadok(i)
  PROVE  IInv'
BY DEF IInv, TypeOK, JedenRiadok, VidenyAleboChyba, JeCoCitat, Vypadok

LEMMA SelectZachova == IInv /\ select => IInv'
BY DEF IInv, TypeOK, JedenRiadok, VidenyAleboChyba, JeCoCitat, select, Sledovane, Rozhrania

\* The service of a socket: the frame is learned and forwarded.
LEMMA PrecitajZachova ==
  ASSUME IInv, NEW i \in Rozhrania, Precitaj(i)
  PROVE  IInv'
<1> DEFINE a == frame'.src
<1>1. prisle[i] \in Seq(Ramce) /\ prisle[i] # << >> /\ table \in Seq(Zaznamy) /\ Jedinecne(table)
  BY TableTyp DEF IInv, TypeOK, JeCoCitat, JedenRiadok, Jedinecne, Precitaj, NaRade
<1>2. frame' \in Ramce /\ Tail(prisle[i]) \in Seq(Ramce)
  BY <1>1, HeadTailProperties DEF Precitaj
<1>3. a \in Hostia
  BY <1>2, RamecZdroj
<1>4. table' = UpdateOrAddMACEntry(table, a, i)
  BY DEF Precitaj
<1> HIDE DEF a
<1>5. /\ table' \in Seq(Zaznamy)
      /\ Jedinecne(table')
      /\ \A k \in 1..Len(table') :
           \/ table'[k] = [address |-> a, IFD |-> i]
           \/ table'[k].address # a /\ \E j \in 1..Len(table) : table'[k] = table[j]
  BY <1>1, <1>3, <1>4, UpdateZachova
<1>6. kam' \in SUBSET Rozhrania
  <2>1. kam' = Odoslat(table', frame'.dest, i)
    BY DEF Precitaj
  <2>2. FindBTEntry(table', frame'.dest) \in Rozhrania \cup {NULL}
    <3>1. CASE \E k \in 1..Len(table') : table'[k].address = frame'.dest
      <4>1. PICK k \in 1..Len(table') : table'[k].address = frame'.dest
        BY <3>1
      <4>2. FindBTEntry(table', frame'.dest) = table'[k].IFD
        BY <1>5, <4>1, NajdenyRiadok
      <4>3. table'[k] \in Zaznamy
        BY <1>5, ElementOfSeq
      <4> QED  BY <4>2, <4>3 DEF Zaznamy
    <3>2. CASE \A k \in 1..Len(table') : table'[k].address # frame'.dest
      BY <3>2, ZiadnyRiadok
    <3> QED  BY <3>1, <3>2
  <2> QED  BY <2>1, <2>2 DEF Odoslat
<1>7. /\ naposledy' = [naposledy EXCEPT ![a] = i]
      /\ prisle' = [prisle EXCEPT ![i] = Tail(@)]
      /\ FDs' = FDs \ {i} /\ obsluzene' = i
      /\ zlyha' = zlyha /\ zlyhali' = zlyhali
  BY DEF Precitaj, a
<1>8. TypeOK'
  BY <1>2, <1>3, <1>5, <1>6, <1>7 DEF IInv, TypeOK, Zaznamy
<1>9. VidenyAleboChyba'
  <2> SUFFICES ASSUME NEW k \in 1..Len(table')
               PROVE  \/ table'[k].IFD = naposledy'[table'[k].address]
                      \/ table'[k].IFD \in Range(zlyhali')
    BY DEF VidenyAleboChyba
  <2>1. CASE table'[k] = [address |-> a, IFD |-> i]
    BY <1>3, <1>7, <2>1 DEF IInv, TypeOK
  <2>2. CASE table'[k].address # a /\ \E j \in 1..Len(table) : table'[k] = table[j]
    <3>1. PICK j \in 1..Len(table) : table'[k] = table[j]
      BY <2>2
    <3>2. naposledy'[table[j].address] = naposledy[table[j].address]
      <4>1. table[j].address \in Hostia
        BY <1>1, AdresaRiadku
      <4> QED  BY <1>7, <2>2, <3>1, <4>1 DEF IInv, TypeOK
    <3> QED  BY <1>7, <3>1, <3>2 DEF IInv, VidenyAleboChyba
  <2> QED  BY <1>5, <2>1, <2>2
<1>10. JeCoCitat'
  BY <1>7 DEF IInv, TypeOK, JeCoCitat
<1> QED  BY <1>5, <1>8, <1>9, <1>10 DEF IInv, JedenRiadok, Jedinecne

\* A failed read: the old contents of frame are learned on the interface.
LEMMA NeprecitajNicZachova ==
  ASSUME IInv, NEW i \in Rozhrania, NeprecitajNic(i)
  PROVE  IInv'
<1> DEFINE a == frame.src
<1>1. table \in Seq(Zaznamy) /\ Jedinecne(table)
  BY TableTyp DEF IInv, JedenRiadok, Jedinecne
<1>2. a \in Hostia
  BY RamecZdroj DEF IInv, TypeOK
<1>3. table' = UpdateOrAddMACEntry(table, a, i)
  BY DEF NeprecitajNic
<1> HIDE DEF a
<1>4. /\ table' \in Seq(Zaznamy)
      /\ Jedinecne(table')
      /\ \A k \in 1..Len(table') :
           \/ table'[k] = [address |-> a, IFD |-> i]
           \/ table'[k].address # a /\ \E j \in 1..Len(table) : table'[k] = table[j]
  BY <1>1, <1>2, <1>3, UpdateZachova
<1>5. /\ zlyhali' \in Seq(Rozhrania)
      /\ Range(zlyhali) \subseteq Range(zlyhali')
      /\ i \in Range(zlyhali')
  <2>1. zlyhali \in Seq(Rozhrania) /\ zlyhali' = Append(zlyhali, i)
    BY DEF IInv, TypeOK, NeprecitajNic
  <2>2. Len(zlyhali) \in Nat /\ DOMAIN zlyhali = 1..Len(zlyhali)
    BY <2>1, LenProperties
  <2>3. /\ zlyhali' \in Seq(Rozhrania)
        /\ Len(zlyhali') = Len(zlyhali) + 1
        /\ \A j \in 1..Len(zlyhali) : zlyhali'[j] = zlyhali[j]
        /\ zlyhali'[Len(zlyhali) + 1] = i
    BY <2>1, AppendProperties
  <2>4. DOMAIN zlyhali' = 1..(Len(zlyhali) + 1)
    BY <2>3, LenProperties
  <2>5. Len(zlyhali) + 1 \in DOMAIN zlyhali' /\ DOMAIN zlyhali \subseteq DOMAIN zlyhali'
    BY <2>2, <2>4
  <2> QED  BY <2>2, <2>3, <2>5 DEF Range
<1>6. /\ prisle' = prisle /\ frame' = frame /\ naposledy' = naposledy
      /\ FDs' = FDs \ {i} /\ zlyha' = zlyha \ {i} /\ obsluzene' = i /\ kam' = {}
  BY DEF NeprecitajNic
<1>7. TypeOK'
  BY <1>4, <1>5, <1>6 DEF IInv, TypeOK, Zaznamy
<1>8. VidenyAleboChyba'
  <2> SUFFICES ASSUME NEW k \in 1..Len(table')
               PROVE  \/ table'[k].IFD = naposledy'[table'[k].address]
                      \/ table'[k].IFD \in Range(zlyhali')
    BY DEF VidenyAleboChyba
  <2>1. CASE table'[k] = [address |-> a, IFD |-> i]
    BY <1>5, <2>1
  <2>2. CASE \E j \in 1..Len(table) : table'[k] = table[j]
    BY <1>5, <1>6, <2>2 DEF IInv, VidenyAleboChyba
  <2> QED  BY <1>4, <2>1, <2>2
<1>9. JeCoCitat'
  BY <1>6 DEF IInv, JeCoCitat
<1> QED  BY <1>4, <1>7, <1>8, <1>9 DEF IInv, JedenRiadok, Jedinecne

\* The inductive invariant, through any traffic, moves of hosts and failed reads.
THEOREM Invariant == Spec => []IInv
<1>1. IInv /\ [Next]_vars => IInv'
  <2> SUFFICES ASSUME IInv, [Next]_vars PROVE IInv'
    OBVIOUS
  <2>1. ASSUME NEW i \in Rozhrania, Prichod(i) PROVE IInv'
    BY <2>1, PrichodZachova
  <2>2. ASSUME NEW i \in Rozhrania, Vypadok(i) PROVE IInv'
    BY <2>2, VypadokZachova
  <2>3. CASE select
    BY <2>3, SelectZachova
  <2>4. ASSUME NEW i \in Rozhrania, Precitaj(i) PROVE IInv'
    BY <2>4, PrecitajZachova
  <2>5. ASSUME NEW i \in Rozhrania, NeprecitajNic(i) PROVE IInv'
    BY <2>5, NeprecitajNicZachova
  <2>6. CASE UNCHANGED vars
    BY <2>6 DEF vars, IInv, TypeOK, JedenRiadok, VidenyAleboChyba, JeCoCitat
  <2> QED  BY <2>1, <2>2, <2>3, <2>4, <2>5, <2>6 DEF Next, Okolie, Obsluha
<1> QED  BY InitIInv, <1>1, PTL DEF Spec

\* Every variable has its type: the rows point to interfaces of the bridge, and
\* frame and the sockets hold frames.
THEOREM TypSpravny == Spec => []TypeOK
<1>1. IInv => TypeOK
  BY DEF IInv
<1> QED  BY <1>1, Invariant, PTL

\* UpdateOrAddMACEntry never gives an address a second row.
THEOREM JedenRiadokTrva == Spec => []JedenRiadok
<1>1. IInv => JedenRiadok
  BY DEF IInv
<1> QED  BY <1>1, Invariant, PTL

\* A row points to where the last frame of its address came from, or to an
\* interface whose read failed.
THEOREM RiadkySpravne == Spec => []VidenyAleboChyba
<1>1. IInv => VidenyAleboChyba
  BY DEF IInv
<1> QED  BY <1>1, Invariant, PTL

-----------------------------------------------------------------------------
(* The list and the loop implement the table of a learning bridge. *)

\* Where the hosts are found.
Kde == [x \in Hostia |-> FindBTEntry(table, x)]

\* The table changes as the abstract one does.
LEMMA KdeSaNauci ==
  ASSUME IInv, NEW a \in Hostia, NEW i \in Rozhrania,
         table' = UpdateOrAddMACEntry(table, a, i)
  PROVE  Kde' = [Kde EXCEPT ![a] = i]
<1>1. table \in Seq(Zaznamy) /\ Jedinecne(table)
  BY TableTyp DEF IInv, JedenRiadok, Jedinecne
<1>2. \A x : FindBTEntry(table', x) = IF x = a THEN i ELSE FindBTEntry(table, x)
  BY <1>1, UpdateNajde
<1> QED  BY <1>2 DEF Kde

\* The frame is written to the interfaces the abstract table says.
LEMMA OdoslatPodlaKde ==
  ASSUME NEW t \in Seq(Zaznamy), NEW cast, NEW i
  PROVE  Odoslat(t, cast, i) = Most!Vystupy([x \in Hostia |-> FindBTEntry(t, x)], cast, i)
<1>1. CASE cast \in Hostia
  BY <1>1 DEF Odoslat, Most!Vystupy
<1>2. CASE cast \notin Hostia
  <2>1. \A k \in 1..Len(t) : t[k].address # cast
    BY <1>2, AdresaRiadku
  <2>2. FindBTEntry(t, cast) = NULL
    BY <2>1, ZiadnyRiadok
  <2> QED  BY <1>2, <2>2 DEF Odoslat, Most!Vystupy
<1> QED  BY <1>1, <1>2

\* Whatever the order of frames, moves of hosts and failed reads, the list and the
\* loop of main behave as a learning bridge.
THEOREM MostSaUci == Spec => UciaciSaMost
<1>1. Init => Most!Init
  <2> SUFFICES ASSUME Init PROVE Most!Init
    OBVIOUS
  <2>1. 1..Len(table) = {}
    BY EmptySeq DEF Init
  <2>2. \A x : FindBTEntry(table, x) = NULL
    BY <2>1, ZiadnyRiadok
  <2> QED  BY <2>2 DEF Init, Most!Init, Ramce
<1>2. IInv /\ IInv' /\ [Next]_vars => [Most!Next]_(Most!vars)
  <2> SUFFICES ASSUME IInv, IInv', [Next]_vars PROVE [Most!Next]_(Most!vars)
    OBVIOUS
  <2>1. ASSUME NEW i \in Rozhrania, Prichod(i) PROVE UNCHANGED Most!vars
    BY <2>1 DEF Prichod, Most!vars
  <2>2. ASSUME NEW i \in Rozhrania, Vypadok(i) PROVE UNCHANGED Most!vars
    BY <2>2 DEF Vypadok, Most!vars
  <2>3. CASE select
    BY <2>3 DEF select, Most!vars
  <2>4. ASSUME NEW i \in Rozhrania, Precitaj(i) PROVE Most!Premost(i)
    <3>1. frame' \in Ramce /\ frame'.src \in Hostia
      BY RamecZdroj DEF IInv, TypeOK
    <3>2. Kde' = [Kde EXCEPT ![frame'.src] = i]
      BY <2>4, <3>1, KdeSaNauci DEF Precitaj
    <3>3. table' \in Seq(Zaznamy)
      BY DEF IInv, TypeOK, Zaznamy
    <3>4. Odoslat(table', frame'.dest, i) = Most!Vystupy(Kde', frame'.dest, i)
      BY <3>3, OdoslatPodlaKde DEF Kde
    <3>5. kam' = Most!Vystupy(Kde', frame'.dest, i) /\ obsluzene' = i
      BY <2>4, <3>4 DEF Precitaj
    <3> QED  BY <3>1, <3>2, <3>5 DEF Kde, Most!Premost, Ramce
  <2>5. ASSUME NEW i \in Rozhrania, NeprecitajNic(i) PROVE Most!Chyba(i)
    <3>1. frame.src \in Hostia
      BY RamecZdroj DEF IInv, TypeOK
    <3>2. Kde' = [Kde EXCEPT ![frame.src] = i]
      BY <2>5, <3>1, KdeSaNauci DEF NeprecitajNic
    <3> QED  BY <2>5, <3>1, <3>2 DEF NeprecitajNic, Kde, Most!Chyba
  <2>6. CASE UNCHANGED vars
    BY <2>6 DEF vars, Most!vars
  <2> QED  BY <2>1, <2>2, <2>3, <2>4, <2>5, <2>6 DEF Next, Okolie, Obsluha, Most!Next
<1> QED  BY <1>1, <1>2, Invariant, PTL DEF Spec, UciaciSaMost, Most!Spec

=============================================================================
