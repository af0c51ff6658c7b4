--------------------------- MODULE LearningBridge ---------------------------
(***************************************************************************)
(* What a learning bridge promises: it remembers for each address the      *)
(* interface its last frame came from, and sends a frame there, or, when   *)
(* it has not seen the destination, to every other interface; never back.  *)
(*                                                                         *)
(* An interface whose read fails delivers no frame, but some address may   *)
(* then be remembered there.                                               *)
(***************************************************************************)
CONSTANTS
  Rozhrania,    \* the interfaces of the bridge
  Hostia,       \* the hosts: the addresses that send
  Ciele,        \* the addresses frames go to
  NULL          \* an address not seen

\* No host sends to itself.
Ramce == {f \in [src : Hostia, dest : Ciele] : f.src # f.dest}

VARIABLES
  kde,      \* where a host was last seen
  ramec,    \* the frame forwarded last
  vstup,    \* the interface it came from
  kam       \* the interfaces it was sent to

vars == <<kde, ramec, vstup, kam>>

Init ==
  /\ kde = [a \in Hostia |-> NULL]
  /\ ramec \in Ramce
  /\ vstup = NULL
  /\ kam = {}

Vystupy(tab, cast, i) ==
  IF cast \in Hostia /\ tab[cast] # NULL THEN {tab[cast]} \ {i} ELSE Rozhrania \ {i}

Premost(i) ==
  /\ ramec' \in Ramce
  /\ vstup' = i
  /\ kde' = [kde EXCEPT ![ramec'.src] = i]
  /\ kam' = Vystupy(kde', ramec'.dest, i)

Chyba(i) ==
  /\ \E a \in Hostia : kde' = [kde EXCEPT ![a] = i]
  /\ vstup' = i
  /\ kam' = {}
  /\ UNCHANGED ramec

Next == \E i \in Rozhrania : Premost(i) \/ Chyba(i)

Spec == Init /\ [][Next]_vars

=============================================================================
