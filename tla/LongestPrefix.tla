---------------------------- MODULE LongestPrefix ----------------------------
(***************************************************************************)
(* What a routing table promises: a set of routes, and a lookup that       *)
(* answers with a longest route that matches the address.                  *)
(*                                                                         *)
(* An address is the set of the positions of its one bits, so & is \cap;   *)
(* a mask is given by the length of its prefix.                            *)
(***************************************************************************)
EXTENDS Integers, FiniteSets

CONSTANTS
  Sirka,    \* the width of an address in bits, 32 in the program
  NULL      \* no route

Bity   == 0..(Sirka - 1)
Adresy == SUBSET Bity
Dlzky  == 0..Sirka

Maska(dlzka) == {b \in Bity : b >= Sirka - dlzka}

Trasy == {r \in [net : Adresy, dlzka : Dlzky] : r.net \subseteq Maska(r.dlzka)}

Zhoda(r, adresa) == adresa \cap Maska(r.dlzka) = r.net

Najdlhsie(T, adresa) ==
  {r \in T : /\ Zhoda(r, adresa)
             /\ \A s \in T : Zhoda(s, adresa) => s.dlzka <= r.dlzka}

VARIABLES
  trasy,      \* the routes in the table
  vysledok    \* the last address looked up and the route found for it

Init ==
  /\ trasy = {}
  /\ vysledok = [adresa |-> {}, trasa |-> NULL]

Pridaj ==
  /\ \E r \in Trasy : trasy' = trasy \cup {r}
  /\ UNCHANGED vysledok

Vyhladaj ==
  /\ \E adresa \in Adresy :
       \/ /\ \A r \in trasy : ~Zhoda(r, adresa)
          /\ vysledok' = [adresa |-> adresa, trasa |-> NULL]
       \/ \E r \in Najdlhsie(trasy, adresa) :
            vysledok' = [adresa |-> adresa, trasa |-> r]
  /\ UNCHANGED trasy

Vyprazdni == trasy' = {} /\ UNCHANGED vysledok

Next == Pridaj \/ Vyhladaj \/ Vyprazdni

Spec == Init /\ [][Next]_<<trasy, vysledok>>

=============================================================================
