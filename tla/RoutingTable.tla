---------------------------- MODULE RoutingTable ----------------------------
(***************************************************************************)
(* The routing table of CV/11: a list of routes kept in the order of       *)
(* falling masks, so that the first match is a longest one, and the        *)
(* program around it, which fills the table with random routes, looks up   *)
(* random addresses and frees the table.                                   *)
(*                                                                         *)
(* The masks are those generateNetworks makes: a mask of a longer prefix   *)
(* is a larger number, so masks are compared by their lengths.             *)
(***************************************************************************)
EXTENDS Integers, FiniteSets, SequencesExt

CONSTANTS
  Sirka, NULL,      \* see LongestPrefix
  MAX_ROUTES,       \* how many routes are generated
  ADDRESS_COUNT     \* how many addresses are looked up

ASSUME SirkaAssumption == Sirka \in Nat \ {0}
ASSUME PoctyAssumption == MAX_ROUTES \in Nat /\ ADDRESS_COUNT \in Nat

VARIABLES
  head,         \* the list of routes, from the first
  count,
  vysledok,     \* the last address looked up and the route lookupRoute returned
  matchCount,
  generovane, hladane,   \* the iterations of the two loops that are done
  koniec        \* has flushTable run?

vars == <<head, count, vysledok, matchCount, generovane, hladane, koniec>>

\* The promise this list is to keep.
Tabulka == INSTANCE LongestPrefix WITH trasy <- Range(head)

TypeOK ==
  /\ head \in Seq(Tabulka!Trasy)
  /\ count \in 0..MAX_ROUTES
  /\ vysledok \in [adresa : Tabulka!Adresy, trasa : Tabulka!Trasy \cup {NULL}]
  /\ matchCount \in 0..ADDRESS_COUNT
  /\ generovane \in 0..MAX_ROUTES
  /\ hladane \in 0..ADDRESS_COUNT
  /\ koniec \in BOOLEAN

Init ==
  /\ head = << >>
  /\ count = 0
  /\ vysledok = [adresa |-> {}, trasa |-> NULL]
  /\ matchCount = 0
  /\ generovane = 0
  /\ hladane = 0
  /\ koniec = FALSE

\* random() yields one bit less than an address has.
Nahodne == SUBSET (0..(Sirka - 2))

\* 0xFFFFFFFF << (32 - len), as the length of the prefix.  A shift by the whole
\* width is undefined: the processor may shift everything out, or nothing.
Posun(len) == IF len = 0 THEN {0, Sirka} ELSE {len}

\* Mutant of Siet: the random number is not masked.
SietNezamaskovana(nahodne, dlzka) == nahodne

\* net = random() & mask
Siet(nahodne, dlzka) == nahodne \cap Tabulka!Maska(dlzka)

findRoute(r) == r \in Range(head)

\* Mutant of Pozicia: the comparison with the first route is forgotten.
PoziciaZaPrvou(r, k) ==
  /\ k = 1 => head = << >>
  /\ k <= Len(head) => r.dlzka >= head[k].dlzka
  /\ \A j \in 2..(k - 1) : r.dlzka < head[j].dlzka

\* Where addRoute puts a new route: before the first that is not longer.
Pozicia(r, k) ==
  /\ k <= Len(head) => r.dlzka >= head[k].dlzka
  /\ \A j \in 1..(k - 1) : r.dlzka < head[j].dlzka

\* Mutant of addRoute: it does not look for the route first.
addRouteZnova(r) ==
  /\ \E k \in 1..(Len(head) + 1) : Pozicia(r, k) /\ head' = InsertAt(head, k, r)
  /\ count' = count + 1

addRoute(r) ==
  IF findRoute(r)
  THEN UNCHANGED <<head, count>>
  ELSE /\ \E k \in 1..(Len(head) + 1) : Pozicia(r, k) /\ head' = InsertAt(head, k, r)
       /\ count' = count + 1

generateNetworks ==
  /\ generovane < MAX_ROUTES
  /\ \E len \in 0..Sirka, nahodne \in Nahodne : \E dlzka \in Posun(len) :
       addRoute([net |-> Siet(nahodne, dlzka), dlzka |-> dlzka])
  /\ generovane' = generovane + 1
  /\ UNCHANGED <<vysledok, matchCount, hladane, koniec>>

\* The loop over the list stops at the first match.
Prva(k, adresa) ==
  /\ Tabulka!Zhoda(head[k], adresa)
  /\ \A j \in 1..(k - 1) : ~Tabulka!Zhoda(head[j], adresa)

Najdena ==
  \E adresa \in Nahodne, k \in 1..Len(head) :
    /\ Prva(k, adresa)
    /\ vysledok' = [adresa |-> adresa, trasa |-> head[k]]
    /\ matchCount' = matchCount + 1

Nenajdena ==
  \E adresa \in Nahodne :
    /\ \A k \in 1..Len(head) : ~Tabulka!Zhoda(head[k], adresa)
    /\ vysledok' = [adresa |-> adresa, trasa |-> NULL]
    /\ UNCHANGED matchCount

lookupRoute ==
  /\ generovane = MAX_ROUTES
  /\ hladane < ADDRESS_COUNT
  /\ Najdena \/ Nenajdena
  /\ hladane' = hladane + 1
  /\ UNCHANGED <<head, count, generovane, koniec>>

flushTable ==
  /\ generovane = MAX_ROUTES
  /\ hladane = ADDRESS_COUNT
  /\ ~koniec
  /\ head' = << >>
  /\ count' = 0
  /\ koniec' = TRUE
  /\ UNCHANGED <<vysledok, matchCount, generovane, hladane>>

Next == generateNetworks \/ lookupRoute \/ flushTable

Spec == Init /\ [][Next]_vars

-----------------------------------------------------------------------------
\* addRoute says that the order of the list makes the first match a longest one
\* ("LONGEST-PREFIX-MATCH"): the table implements LongestPrefix, whatever the
\* order in which the routes came.
NajdlhsiPrefix == Tabulka!Spec

\* count, which main prints as the size of the table, is the number of different
\* routes: a route generated again is not entered again.
PocetSedi == count = Cardinality(Range(head)) /\ count = Len(head)

=============================================================================
