------------------------- MODULE RoutingTableProofs -------------------------
(***************************************************************************)
(* The sorted list of RoutingTable implements LongestPrefix, for every     *)
(* width of an address and every number of routes and lookups.             *)
(***************************************************************************)
EXTENDS RoutingTable, SequenceTheorems, FiniteSetTheorems, TLAPS

USE DEF Tabulka!Bity, Tabulka!Adresy, Tabulka!Dlzky

\* The routes stand in the order of falling masks.
Zoradene == \A i, j \in 1..Len(head) : i < j => head[j].dlzka <= head[i].dlzka

IInv ==
  /\ TypeOK
  /\ count <= generovane
  /\ matchCount <= hladane
  /\ IsFiniteSet(Range(head))
  /\ PocetSedi
  /\ Zoradene

-----------------------------------------------------------------------------
(* The list. *)

\* What InsertAt returns.
LEMMA Vlozenie ==
  ASSUME NEW S, NEW s \in Seq(S), NEW e \in S, NEW k \in 1..(Len(s) + 1)
  PROVE  LET t == InsertAt(s, k, e) IN
         /\ t \in Seq(S)
         /\ Len(t) = Len(s) + 1
         /\ \A i \in 1..Len(t) : t[i] = IF i < k THEN s[i] ELSE IF i = k THEN e ELSE s[i - 1]
<1> DEFINE a == SubSeq(s, 1, k - 1)
           b == SubSeq(s, k, Len(s))
           t == InsertAt(s, k, e)
<1>0. Len(s) \in Nat /\ \A i \in 1..Len(s) : s[i] \in S
  BY ElementOfSeq
<1>1. a \in Seq(S) /\ Len(a) = k - 1 /\ \A i \in 1..(k - 1) : a[i] = s[i]
  <2>1. \A i \in 1..(k - 1) : s[i] \in S
    BY <1>0
  <2> QED  BY <1>0, <2>1, SubSeqProperties, SMT
<1>2. b \in Seq(S) /\ Len(b) = Len(s) - k + 1 /\ \A i \in 1..(Len(s) - k + 1) : b[i] = s[k + i - 1]
  <2>1. \A i \in k..Len(s) : s[i] \in S
    BY <1>0
  <2> QED  BY <1>0, <2>1, SubSeqProperties, SMT
<1>3. <<e>> \in Seq(S) /\ Len(<<e>>) = 1 /\ <<e>>[1] = e
  OBVIOUS
<1>4. /\ a \o <<e>> \in Seq(S)
      /\ Len(a \o <<e>>) = k
      /\ \A i \in 1..k : (a \o <<e>>)[i] = IF i < k THEN s[i] ELSE e
  BY <1>0, <1>1, <1>3, ConcatProperties, SMT
<1> DEFINE c == a \o <<e>>
<1>5. t = c \o b
  BY DEF InsertAt
<1> HIDE DEF a, b, c, t
<1>6. /\ c \o b \in Seq(S)
      /\ Len(c \o b) = k + (Len(s) - k + 1)
      /\ \A i \in 1..(k + (Len(s) - k + 1)) :
           (c \o b)[i] = IF i <= k THEN c[i] ELSE b[i - k]
  <2>1. c \in Seq(S) /\ Len(c) = k
    BY <1>4 DEF c
  <2> QED  BY <1>2, <2>1, ConcatProperties
<1>7. Len(t) = Len(s) + 1
  BY <1>0, <1>5, <1>6, SMT
<1>8. \A i \in 1..Len(t) : t[i] = IF i < k THEN s[i] ELSE IF i = k THEN e ELSE s[i - 1]
  <2>1. TAKE i \in 1..Len(t)
  <2>2. t[i] = IF i <= k THEN c[i] ELSE b[i - k]
    BY <1>0, <1>5, <1>6, <1>7, SMT
  <2>3. CASE i <= k
    BY <1>4, <2>2, <2>3, SMT DEF c
  <2>4. CASE i > k
    <3>1. i - k \in 1..(Len(s) - k + 1) /\ k + (i - k) - 1 = i - 1
      BY <1>0, <1>7, <2>4, SMT
    <3>2. b[i - k] = s[i - 1]
      BY <1>2, <3>1
    <3> QED  BY <2>2, <2>4, <3>2, SMT
  <2> QED  BY <1>0, <1>7, <2>3, <2>4, SMT
<1> QED  BY <1>5, <1>6, <1>7, <1>8 DEF t

\* The routes of a list are its elements.
LEMMA PrvkyZoznamu ==
  ASSUME NEW S, NEW s \in Seq(S)
  PROVE  /\ Range(s) = {s[i] : i \in 1..Len(s)}
         /\ Range(s) \subseteq S
BY LenProperties, ElementOfSeq DEF Range

\* A new element joins them.
LEMMA VlozenyPrvok ==
  ASSUME NEW S, NEW s \in Seq(S), NEW e \in S, NEW k \in 1..(Len(s) + 1)
  PROVE  Range(InsertAt(s, k, e)) = Range(s) \cup {e}
<1> DEFINE t == InsertAt(s, k, e)
<1>0. Len(s) \in Nat
  OBVIOUS
<1>1. /\ t \in Seq(S)
      /\ Len(t) = Len(s) + 1
      /\ \A i \in 1..Len(t) : t[i] = IF i < k THEN s[i] ELSE IF i = k THEN e ELSE s[i - 1]
  BY Vlozenie
<1> HIDE DEF t
<1>2. /\ Range(s) = {s[i] : i \in 1..Len(s)}
      /\ Range(t) = {t[i] : i \in 1..Len(t)}
  BY <1>1, PrvkyZoznamu
<1>3. Range(t) \subseteq Range(s) \cup {e}
  <2> SUFFICES ASSUME NEW i \in 1..Len(t)
               PROVE  t[i] = e \/ \E j \in 1..Len(s) : t[i] = s[j]
    BY <1>2
  <2> QED BY <1>0, <1>1, SMTT(30)
<1>4. e \in Range(t)
  BY <1>0, <1>1, <1>2, SMT
<1>5. \A i \in 1..Len(s) : s[i] \in Range(t)
  <2>1. TAKE i \in 1..Len(s)
  <2>2. CASE i < k
    BY <1>0, <1>1, <1>2, <2>2, SMT
  <2>3. CASE i >= k
    <3>1. i + 1 \in 1..Len(t) /\ t[i + 1] = s[i]
      BY <1>0, <1>1, <2>3, SMT
    <3> QED  BY <1>2, <3>1
  <2> QED  BY <1>0, <2>2, <2>3, SMT
<1> QED  BY <1>2, <1>3, <1>4, <1>5 DEF t

-----------------------------------------------------------------------------
(* The routes of generateNetworks. *)

\* A masked random number and its mask are a route.
LEMMA SietJeTrasa ==
  ASSUME NEW len \in 0..Sirka, NEW nahodne \in Nahodne, NEW dlzka \in Posun(len)
  PROVE  [net |-> Siet(nahodne, dlzka), dlzka |-> dlzka] \in Tabulka!Trasy
<1>1. dlzka \in 0..Sirka
  BY SirkaAssumption DEF Posun
<1>2. Siet(nahodne, dlzka) \subseteq Tabulka!Maska(dlzka) /\ Siet(nahodne, dlzka) \in SUBSET Tabulka!Bity
  BY DEF Siet, Tabulka!Maska
<1> QED  BY <1>1, <1>2 DEF Tabulka!Trasy

\* An address that is looked up is an address.
LEMMA NahodneAdresy == Nahodne \subseteq Tabulka!Adresy
BY SirkaAssumption, SMT DEF Nahodne

\* The fields of a route.
LEMMA PoliaTrasy ==
  ASSUME NEW r \in Tabulka!Trasy
  PROVE  r.dlzka \in 0..Sirka /\ r.net \in SUBSET Tabulka!Bity
BY DEF Tabulka!Trasy

-----------------------------------------------------------------------------
(* addRoute keeps the list sorted and without repetitions. *)

\* A falling list of numbers stays one when x is put before its first number that
\* is not larger.
LEMMA VlozenieZoradi ==
  ASSUME NEW n \in Nat, NEW k \in 1..(n + 1), NEW x \in Int, NEW d \in [1..n -> Int], NEW c,
         \A i, j \in 1..n : i < j => d[j] <= d[i],
         k <= n => d[k] <= x,
         \A i \in 1..(k - 1) : x < d[i],
         \A i \in 1..(n + 1) : c[i] = IF i < k THEN d[i] ELSE IF i = k THEN x ELSE d[i - 1]
  PROVE  \A i, j \in 1..(n + 1) : i < j => c[j] <= c[i]
<1>1. \A i \in 1..n : k <= i => d[i] <= x
  <2>1. TAKE i \in 1..n
  <2>2. CASE i = k
    BY <2>2, SMT
  <2>3. CASE k < i
    <3>1. d[i] <= d[k] /\ d[k] <= x /\ d[k] \in Int /\ d[i] \in Int
      BY <2>3, SMT
    <3> QED  BY <3>1, SMT
  <2> QED  BY <2>2, <2>3, SMT
<1>2. SUFFICES ASSUME NEW i \in 1..(n + 1), NEW j \in 1..(n + 1), i < j
               PROVE  c[j] <= c[i]
  OBVIOUS
<1>3. CASE j < k
  BY <1>2, <1>3, SMT
<1>4. CASE j = k
  <2>1. c[j] = x /\ c[i] = d[i] /\ x < d[i] /\ d[i] \in Int
    BY <1>2, <1>4, SMT
  <2> QED  BY <2>1, SMT
<1>5. CASE k < j /\ i < k
  <2>1. c[j] = d[j - 1] /\ c[i] = d[i]
    BY <1>5, SMT
  <2>2. i \in 1..n /\ j - 1 \in 1..n /\ (i = j - 1 \/ i < j - 1)
    BY <1>2, <1>5, SMT
  <2>3. d[i] \in Int /\ (i < j - 1 => d[j - 1] <= d[i])
    BY <2>2
  <2> QED  BY <2>1, <2>2, <2>3, SMT
<1>6. CASE k < j /\ i = k
  <2>1. c[j] = d[j - 1] /\ c[i] = x
    BY <1>6, SMT
  <2>2. j - 1 \in 1..n /\ k <= j - 1
    BY <1>6, SMT
  <2> QED  BY <1>1, <2>1, <2>2
<1>7. CASE k < j /\ k < i
  <2>1. c[j] = d[j - 1] /\ c[i] = d[i - 1]
    BY <1>7, SMT
  <2>2. j - 1 \in 1..n /\ i - 1 \in 1..n /\ i - 1 < j - 1
    BY <1>2, <1>7, SMT
  <2> QED  BY <2>1, <2>2
<1> QED  BY <1>3, <1>4, <1>5, <1>6, <1>7, SMT

LEMMA AddRouteZachova ==
  ASSUME head \in Seq(Tabulka!Trasy), IsFiniteSet(Range(head)), PocetSedi, Zoradene,
         NEW r \in Tabulka!Trasy, addRoute(r)
  PROVE  /\ head' \in Seq(Tabulka!Trasy)
         /\ IsFiniteSet(Range(head'))
         /\ PocetSedi'
         /\ Zoradene'
         /\ Range(head') = Range(head) \/ Range(head') = Range(head) \cup {r}
         /\ count' = count \/ count' = count + 1
         /\ (Range(head') # Range(head) \cup {r}) => UNCHANGED <<head, count>>
<1>1. CASE findRoute(r)
  <2>1. UNCHANGED <<head, count>>
    BY <1>1 DEF addRoute
  <2> QED  BY <2>1 DEF PocetSedi, Zoradene
<1>2. CASE ~findRoute(r)
  <2>1. PICK k \in 1..(Len(head) + 1) : Pozicia(r, k) /\ head' = InsertAt(head, k, r)
    BY <1>2 DEF addRoute
  <2>2. count' = count + 1
    BY <1>2 DEF addRoute
  <2>3. /\ head' \in Seq(Tabulka!Trasy)
        /\ Len(head') = Len(head) + 1
        /\ \A i \in 1..Len(head') :
             head'[i] = IF i < k THEN head[i] ELSE IF i = k THEN r ELSE head[i - 1]
    BY <2>1, Vlozenie
  <2>4. Range(head') = Range(head) \cup {r}
    BY <2>1, VlozenyPrvok
  <2>5. IsFiniteSet(Range(head')) /\ Cardinality(Range(head')) = Cardinality(Range(head)) + 1
    BY <1>2, <2>4, FS_AddElement DEF findRoute
  <2>6. PocetSedi'
    BY <2>2, <2>3, <2>5 DEF PocetSedi
  <2>7. Zoradene'
    <3> DEFINE d == [i \in 1..Len(head) |-> head[i].dlzka]
               c == [i \in 1..Len(head') |-> head'[i].dlzka]
    <3>1. Len(head) \in Nat /\ \A i \in 1..Len(head) : d[i] = head[i].dlzka /\ d[i] \in Int
      BY ElementOfSeq, PoliaTrasy
    <3>2. \A i, j \in 1..Len(head) : i < j => d[j] <= d[i]
      BY DEF Zoradene
    <3>3. /\ k <= Len(head) => d[k] <= r.dlzka
          /\ \A i \in 1..(k - 1) : r.dlzka < d[i]
      <4>1. r.dlzka \in Int
        BY PoliaTrasy
      <4>2. k <= Len(head) => k \in 1..Len(head)
        BY <3>1, SMT
      <4>3. \A i \in 1..(k - 1) : i \in 1..Len(head)
        BY <3>1, SMT
      <4>4. (k <= Len(head) => r.dlzka >= head[k].dlzka) /\ \A i \in 1..(k - 1) : r.dlzka < head[i].dlzka
        BY <2>1 DEF Pozicia
      <4>5. k <= Len(head) => d[k] = head[k].dlzka /\ d[k] \in Int
        BY <3>1, <4>2
      <4>6. \A i \in 1..(k - 1) : d[i] = head[i].dlzka
        BY <4>3
      <4> HIDE DEF d
      <4>7. k <= Len(head) => d[k] <= r.dlzka
        BY <4>1, <4>4, <4>5, SMT
      <4> QED  BY <4>4, <4>6, <4>7
    <3>4. \A i \in 1..(Len(head) + 1) :
            c[i] = IF i < k THEN d[i] ELSE IF i = k THEN r.dlzka ELSE d[i - 1]
      <4>1. TAKE i \in 1..(Len(head) + 1)
      <4>2. c[i] = head'[i].dlzka
        BY <2>3
      <4>3. CASE i < k
        <5>1. i \in 1..Len(head)
          BY <3>1, <4>3, SMT
        <5> QED  BY <2>3, <4>2, <4>3, <5>1
      <4>4. CASE i = k
        BY <2>3, <4>2, <4>4, SMT
      <4>5. CASE k < i
        <5>1. i - 1 \in 1..Len(head) /\ ~(i < k) /\ i # k
          BY <3>1, <4>5, SMT
        <5> QED  BY <2>3, <4>2, <5>1
      <4> QED  BY <3>1, <4>3, <4>4, <4>5, SMT
    <3>5. r.dlzka \in Int
      BY PoliaTrasy
    <3>6. d \in [1..Len(head) -> Int]
      BY <3>1
    <3> DEFINE n == Len(head)
               x == r.dlzka
    <3> HIDE DEF d, c, n, x
    <3>7. /\ n \in Nat
          /\ k \in 1..(n + 1)
          /\ x \in Int
          /\ d \in [1..n -> Int]
      BY <3>1, <3>5, <3>6 DEF n, x
    <3>8. \A i, j \in 1..n : i < j => d[j] <= d[i]
      BY <3>2 DEF n
    <3>9. k <= n => d[k] <= x
      BY <3>3 DEF n, x
    <3>10. \A i \in 1..(k - 1) : x < d[i]
      BY <3>3 DEF x
    <3>11. \A i \in 1..(n + 1) : c[i] = IF i < k THEN d[i] ELSE IF i = k THEN x ELSE d[i - 1]
      BY <3>4 DEF n, x
    <3>12. \A i, j \in 1..(n + 1) : i < j => c[j] <= c[i]
      BY <3>7, <3>8, <3>9, <3>10, <3>11, VlozenieZoradi, SMTT(30)
    <3> QED  BY <2>3, <3>12 DEF c, n, Zoradene
  <2> QED  BY <2>2, <2>3, <2>4, <2>5, <2>6, <2>7
<1> QED  BY <1>1, <1>2

-----------------------------------------------------------------------------
(* The invariant. *)

\* An empty list has no routes.
LEMMA PrazdnyZoznam ==
  /\ << >> \in Seq(Tabulka!Trasy)
  /\ Range(<< >>) = {}
  /\ Len(<< >>) = 0 /\ 1..Len(<< >>) = {}
  /\ IsFiniteSet({}) /\ Cardinality({}) = 0
BY FS_EmptySet DEF Range

LEMMA InitIInv == Init => IInv
<1> SUFFICES ASSUME Init PROVE IInv
  OBVIOUS
<1>1. [adresa |-> {}, trasa |-> NULL] \in
        [adresa : Tabulka!Adresy, trasa : Tabulka!Trasy \cup {NULL}]
  OBVIOUS
<1>2. TypeOK
  <2>1. 0 \in 0..MAX_ROUTES /\ 0 \in 0..ADDRESS_COUNT
    BY PoctyAssumption
  <2>2. head \in Seq(Tabulka!Trasy)
    BY DEF Init
  <2> QED  BY <1>1, <2>1, <2>2 DEF Init, TypeOK
<1>3. count <= generovane /\ matchCount <= hladane
  BY DEF Init
<1>4. IsFiniteSet(Range(head)) /\ PocetSedi /\ Zoradene
  <2>1. head = << >> /\ count = 0
    BY DEF Init
  <2>2. 1..Len(head) = {}
    BY <2>1, PrazdnyZoznam
  <2>3. Zoradene
    BY <2>2 DEF Zoradene
  <2> QED  BY <2>1, <2>3, PrazdnyZoznam DEF PocetSedi
<1> QED  BY <1>2, <1>3, <1>4 DEF IInv

LEMMA GenerateZachova == IInv /\ generateNetworks => IInv'
<1> SUFFICES ASSUME IInv, generateNetworks PROVE IInv'
  OBVIOUS
<1>1. PICK len \in 0..Sirka, nahodne \in Nahodne : \E dlzka \in Posun(len) :
        addRoute([net |-> Siet(nahodne, dlzka), dlzka |-> dlzka])
  BY DEF generateNetworks
<1>2. PICK dlzka \in Posun(len) : addRoute([net |-> Siet(nahodne, dlzka), dlzka |-> dlzka])
  BY <1>1
<1> DEFINE r == [net |-> Siet(nahodne, dlzka), dlzka |-> dlzka]
<1>3. r \in Tabulka!Trasy
  BY SietJeTrasa
<1> HIDE DEF r
<1>4. addRoute(r)
  BY <1>2 DEF r
<1>5. /\ head' \in Seq(Tabulka!Trasy)
      /\ IsFiniteSet(Range(head'))
      /\ PocetSedi'
      /\ Zoradene'
      /\ count' = count \/ count' = count + 1
  BY <1>3, <1>4, AddRouteZachova DEF IInv, TypeOK
<1>6. generovane' \in 0..MAX_ROUTES /\ count' \in 0..MAX_ROUTES /\ count' <= generovane'
  BY <1>5, PoctyAssumption, SMT DEF IInv, TypeOK, generateNetworks
<1>7. TypeOK'
  BY <1>5, <1>6 DEF IInv, TypeOK, generateNetworks
<1>8. matchCount' <= hladane'
  BY DEF IInv, generateNetworks
<1> QED  BY <1>5, <1>6, <1>7, <1>8 DEF IInv

LEMMA LookupZachova == IInv /\ lookupRoute => IInv'
<1> SUFFICES ASSUME IInv, lookupRoute PROVE IInv'
  OBVIOUS
<1>1. hladane' \in 0..ADDRESS_COUNT /\ hladane' = hladane + 1
  BY PoctyAssumption, SMT DEF IInv, TypeOK, lookupRoute
<1>2. UNCHANGED <<head, count, generovane, koniec>>
  BY DEF lookupRoute
<1>3. vysledok' \in [adresa : Tabulka!Adresy, trasa : Tabulka!Trasy \cup {NULL}]
  <2>1. CASE Najdena
    <3>1. PICK adresa \in Nahodne, k \in 1..Len(head) :
            vysledok' = [adresa |-> adresa, trasa |-> head[k]]
      BY <2>1 DEF Najdena
    <3>2. adresa \in Tabulka!Adresy
      BY NahodneAdresy
    <3>3. head[k] \in Tabulka!Trasy
      BY ElementOfSeq DEF IInv, TypeOK
    <3> QED  BY <3>1, <3>2, <3>3
  <2>2. CASE Nenajdena
    <3>1. PICK adresa \in Nahodne : vysledok' = [adresa |-> adresa, trasa |-> NULL]
      BY <2>2 DEF Nenajdena
    <3>2. adresa \in Tabulka!Adresy
      BY NahodneAdresy
    <3> QED  BY <3>1, <3>2
  <2> QED  BY <2>1, <2>2 DEF lookupRoute
<1>4. matchCount' = matchCount \/ matchCount' = matchCount + 1
  BY DEF lookupRoute, Najdena, Nenajdena
<1>5. matchCount' \in 0..ADDRESS_COUNT /\ matchCount' <= hladane'
  BY <1>1, <1>4, PoctyAssumption, SMT DEF IInv, TypeOK
<1>6. TypeOK'
  BY <1>1, <1>2, <1>3, <1>5 DEF IInv, TypeOK
<1> QED  BY <1>2, <1>5, <1>6 DEF IInv, PocetSedi, Zoradene

LEMMA FlushZachova == IInv /\ flushTable => IInv'
<1> SUFFICES ASSUME IInv, flushTable PROVE IInv'
  OBVIOUS
<1>1. head' = << >> /\ count' = 0
  BY DEF flushTable
<1>2. TypeOK'
  BY <1>1, PrazdnyZoznam, PoctyAssumption DEF IInv, TypeOK, flushTable
<1>3. count' <= generovane' /\ matchCount' <= hladane'
  BY <1>1, SMT DEF IInv, TypeOK, flushTable
<1>4. IsFiniteSet(Range(head')) /\ PocetSedi' /\ Zoradene'
  <2>1. 1..Len(head') = {}
    BY <1>1, PrazdnyZoznam
  <2>2. Zoradene'
    BY <2>1 DEF Zoradene
  <2> QED  BY <1>1, <2>2, PrazdnyZoznam DEF PocetSedi
<1> QED  BY <1>2, <1>3, <1>4 DEF IInv

\* The inductive invariant holds in every state.
THEOREM Invariant == Spec => []IInv
<1>1. IInv /\ [Next]_vars => IInv'
  <2> SUFFICES ASSUME IInv, [Next]_vars PROVE IInv'
    OBVIOUS
  <2>1. CASE generateNetworks
    BY <2>1, GenerateZachova
  <2>2. CASE lookupRoute
    BY <2>2, LookupZachova
  <2>3. CASE flushTable
    BY <2>3, FlushZachova
  <2>4. CASE UNCHANGED vars
    BY <2>4 DEF vars, IInv, TypeOK, PocetSedi, Zoradene
  <2> QED  BY <2>1, <2>2, <2>3, <2>4 DEF Next
<1> QED  BY InitIInv, <1>1, PTL DEF Spec

\* Every variable has its type: the counters stay within their loops and the list
\* holds routes only, for every width of an address.
THEOREM TypSpravny == Spec => []TypeOK
<1>1. IInv => TypeOK
  BY DEF IInv
<1> QED  BY <1>1, Invariant, PTL

\* count is the number of different routes, however often addRoute is given the
\* same one.
THEOREM PocetSpravny == Spec => []PocetSedi
<1>1. IInv => PocetSedi
  BY DEF IInv
<1> QED  BY <1>1, Invariant, PTL

-----------------------------------------------------------------------------
(* The list implements the table. *)

\* In a sorted list the first match is a longest one.
LEMMA PrvaJeNajdlhsia ==
  ASSUME head \in Seq(Tabulka!Trasy), Zoradene,
         NEW adresa, NEW k \in 1..Len(head), Prva(k, adresa)
  PROVE  head[k] \in Tabulka!Najdlhsie(Range(head), adresa)
<1>1. Range(head) = {head[i] : i \in 1..Len(head)}
  BY PrvkyZoznamu
<1>2. Len(head) \in Nat
  OBVIOUS
<1>3. ASSUME NEW s \in Range(head), Tabulka!Zhoda(s, adresa)
      PROVE  s.dlzka <= head[k].dlzka
  <2>1. PICK i \in 1..Len(head) : s = head[i]
    BY <1>1
  <2>2. ~(i \in 1..(k - 1))
    BY <1>3, <2>1 DEF Prva
  <2>3. i = k \/ k < i
    BY <1>2, <2>2, SMT
  <2>4. head[k].dlzka \in Int
    <3>1. head[k] \in Tabulka!Trasy
      BY ElementOfSeq
    <3> QED  BY <3>1, PoliaTrasy, SirkaAssumption
  <2>5. CASE i = k
    BY <2>1, <2>4, <2>5
  <2>6. CASE k < i
    BY <2>1, <2>6 DEF Zoradene
  <2> QED  BY <2>3, <2>5, <2>6
<1>4. head[k] \in Range(head) /\ Tabulka!Zhoda(head[k], adresa)
  BY <1>1 DEF Prva
<1> QED  BY <1>3, <1>4 DEF Tabulka!Najdlhsie

\* The list that addRoute keeps in the order of falling masks implements
\* LongestPrefix: every lookup answers with a longest route that matches.
THEOREM Najdlhsi == Spec => NajdlhsiPrefix
<1>1. Init => Tabulka!Init
  BY PrazdnyZoznam DEF Init, Tabulka!Init
<1>2. IInv /\ [Next]_vars => [Tabulka!Next]_<<Range(head), vysledok>>
  <2> SUFFICES ASSUME IInv, [Next]_vars
               PROVE  Tabulka!Next \/ UNCHANGED <<Range(head), vysledok>>
    OBVIOUS
  <2>1. CASE generateNetworks
    <3>1. PICK len \in 0..Sirka, nahodne \in Nahodne : \E dlzka \in Posun(len) :
            addRoute([net |-> Siet(nahodne, dlzka), dlzka |-> dlzka])
      BY <2>1 DEF generateNetworks
    <3>2. PICK dlzka \in Posun(len) :
            addRoute([net |-> Siet(nahodne, dlzka), dlzka |-> dlzka])
      BY <3>1
    <3> DEFINE r == [net |-> Siet(nahodne, dlzka), dlzka |-> dlzka]
    <3>3. r \in Tabulka!Trasy
      BY SietJeTrasa
    <3> HIDE DEF r
    <3>4. Range(head') = Range(head) \/ Range(head') = Range(head) \cup {r}
      BY <3>2, <3>3, AddRouteZachova DEF IInv, TypeOK, r
    <3>5. vysledok' = vysledok
      BY <2>1 DEF generateNetworks
    <3> QED  BY <3>3, <3>4, <3>5 DEF Tabulka!Next, Tabulka!Pridaj
  <2>2. CASE lookupRoute
    <3>1. Range(head)' = Range(head)
      BY <2>2 DEF lookupRoute
    <3>2. CASE Najdena
      <4>1. PICK adresa \in Nahodne, k \in 1..Len(head) :
              Prva(k, adresa) /\ vysledok' = [adresa |-> adresa, trasa |-> head[k]]
        BY <3>2 DEF Najdena
      <4>2. head[k] \in Tabulka!Najdlhsie(Range(head), adresa)
        BY <4>1, PrvaJeNajdlhsia DEF IInv, TypeOK
      <4>3. adresa \in Tabulka!Adresy
        BY NahodneAdresy
      <4>4. Tabulka!Vyhladaj
        BY <3>1, <4>1, <4>2, <4>3 DEF Tabulka!Vyhladaj
      <4> QED  BY <4>4 DEF Tabulka!Next
    <3>3. CASE Nenajdena
      <4>1. PICK adresa \in Nahodne :
              /\ \A k \in 1..Len(head) : ~Tabulka!Zhoda(head[k], adresa)
              /\ vysledok' = [adresa |-> adresa, trasa |-> NULL]
        BY <3>3 DEF Nenajdena
      <4>2. \A s \in Range(head) : ~Tabulka!Zhoda(s, adresa)
        BY <4>1, PrvkyZoznamu DEF IInv, TypeOK
      <4>3. adresa \in Tabulka!Adresy
        BY NahodneAdresy
      <4>4. Tabulka!Vyhladaj
        BY <3>1, <4>1, <4>2, <4>3 DEF Tabulka!Vyhladaj
      <4> QED  BY <4>4 DEF Tabulka!Next
    <3> QED  BY <2>2, <3>2, <3>3 DEF lookupRoute
  <2>3. CASE flushTable
    BY <2>3, PrazdnyZoznam DEF flushTable, Tabulka!Next, Tabulka!Vyprazdni
  <2>4. CASE UNCHANGED vars
    BY <2>4 DEF vars
  <2> QED  BY <2>1, <2>2, <2>3, <2>4 DEF Next
<1> QED  BY <1>1, <1>2, Invariant, PTL DEF Spec, NajdlhsiPrefix, Tabulka!Spec

=============================================================================
