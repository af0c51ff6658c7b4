# Verification of the AvS programs

The repository holds the programs of a course on computer networks: one larger
program, a two-player chess game over TCP (`src/semestralka_Kohutiar_Kyjak`),
a multicast chat, a learning bridge, a routing table, a threaded port scanner
and a number of short programs that build, send or print one kind of packet.
This directory holds TLA+ models of the programs that have a behaviour of their
own, TLC configurations that check them, and TLAPS proofs.

The models keep the names of the source: a definition called `vyhod` is the
function `vyhod`. `PROJECT.json` names the lines behind each definition.

## 1. Inventory

### 1.1 Chess: rules (`pieces.c`, `pieces.h`, `moves.c`)

*State.* `BOARD`: an 8x8 array `policka` of pointers to `PIECE` objects, empty
squares included; the arrays `whitePieces` and `blackPieces`; the two kings.
Each `PIECE` keeps its type, colour, own coordinates, `onBoard` and
`movedAlready`. Two global lists hold the captured pieces.

*Operations.* `initBoard`; `move` dispatches on the type to the six move
functions, which decide whether the square can be reached and then call
`vyhod`; `vyhod` makes the move, calls `checkForChess` and takes the move back
when a king is in check; `checkForChess` calls `move` with `checkOnly`;
`checkMat` probes the squares around a king.

*Hard.* The same fact is kept in several places (a pointer in `policka`, the
coordinates and `onBoard` in the object, the lists), written by separate
assignments in four branches of `vyhod`, each with an undo written by hand.
The functions that "only check" change `movedAlready`.

*Correct when* every object has one owner and is freed once; the tables agree;
a rejected move leaves no trace in the position; a player cannot move into
check; an end of the game is a real one.

### 1.2 Chess: the game loop of a process (`chess.c`)

*State.* Globals: the board, `tahHraca1` (who is on move), `gameOver`,
`hostujem`, `cisloHraca`, the sockets.

*Operations.* `vytvorHru` repeats `precitajTah` and `checkMat`. `precitajTah`
reads the keyboard until a move is accepted, exchanges a pawn on the last row,
flips `tahHraca1` and sends six bytes, trying again when `posliData` fails; or it
receives six bytes, makes the move, flips `tahHraca1` and overwrites the type of
the piece. A rejected move or a failed `recv` ends the game. `cleanUP` closes
the sockets and frees the board.

*Interaction.* Two processes run the same loop on two replicas and share
nothing but the connection. Nobody compares the replicas or the turn.

*Hard.* Interleaving of the two loops, what one knows and the other does not,
the retry loop, an end seen by one process only, globals that survive a game.

*Correct when* at most one player is on move, no process waits for ever for one
that has left, both see the same position, and a move accepted by one is
accepted by the other.

### 1.3 Chess: the session (`chess.c`)

*State.* The globals `gameOver`, `tahHraca1`, `hostujem`, `cisloHraca`, the
descriptors `socket_desc` and `spojenie`, and the sockets in the kernel, which
live as long as the process.

*Operations.* `mainMenu` hosts a game (`cakajNaSpojenie`: socket, bind, listen,
accept), joins one (`pripojSa`: connect), or ends; after `vytvorHru` and `cleanUP`
it asks again.

*Hard.* The globals are set in one game and read in the next; every socket call may
fail half way; a process may be killed while its peer waits.

*Correct when* a game uses its own connection with the right role and turn, whatever
happened before; nobody waits on a connection that nobody holds; the menu has no
connection open.

### 1.4 Multicast chat (`UDP_multicast_chat`)

*State.* `nickname`, `currSkupina`, `prevSkupina`, the set of groups `poleSkupin` and
`prihlaseny`, shared without a lock by two threads.

*Operations.* `main` reads `/login`, `/logout`, `/exit`, `/join`, `/leave` and texts
and sends them to the multicast group, from which the process receives its own
messages too; the thread `receiver` shows the messages of its groups and tries to
recognise its own. `/join` of a group the user is in, the default group included, only
makes it the current one. An error of `recvfrom` ends the thread, and `main` goes on
without it.

*Hard.* The receiver compares a message with variables that are changing, one after
the other; datagrams are lost and come in any order; `/leave` lends `currSkupina` to
another group for a while; the name is trimmed after the groups are reset.

*Correct when* the messages of others in one's groups are shown, one's own are not,
nothing is shown after a logout, and a text goes to a group its writer is in.

### 1.5 Learning bridge (`CV/3/bridge.txt`)

*State.* A linked list of rows (address, interface), the variable `frame`, a socket
for each interface.

*Operations.* `select`, then for each readable socket one `read`,
`UpdateOrAddMACEntry`, and a `write` to the interface of the destination or to all but
the ingress. `FindBTEntry` searches the list. `AppendBTEntry`, `DestroyBTEntry`, the
two `EjectBTEntry` functions and `FlushBT` are defined and never called; `lastSeen`
is never read.

*Hard.* Hosts move; the result of `read` is not tested; a fixed order of service.

*Correct when* the list behaves as a table of one interface per address, learned from
the last frame, and every interface is served.

### 1.6 Routing table (`CV/11`)

*State.* A list of routes and their count.

*Operations.* `addRoute` (through `findRoute`) inserts before the first route whose
mask is not longer; `lookupRoute` takes the first match; `generateNetworks`,
`flushTable`.

*Hard.* Longest prefix match rests on the order of the list alone; a shift by 32.

*Correct when* a lookup answers with a longest matching route and no route is
entered twice.

### 1.7 The other programs

| program | state and operations | what is hard |
| --- | --- | --- |
| threaded port scanner (`skuska_avs.txt`, lines 1-75) | one global socket, a thread per port | all threads `connect` the same socket |
| ARP ping with a reader thread (`CV/2`) | message buffer and socket shared by two threads | the writer frees both on an error, and exits |
| RIP receiver (`CV/7`) | none | lengths of mixed signedness |
| TCP servers (`CV/8`, `TCPgenerator`) | listening socket, a child or a thread per client | resources of a failed or finished client |
| UDP senders and receivers, multicast time, CDP receiver, sequential scanner | none between two packets | - |
| packet builders (hello, DNS, Wake-on-LAN, BPDU) | none | pure I/O |

The remaining sections of `skuska_avs.txt` repeat these programs.

## 2. Plan

1. *(done)* **ChessRules**, **ChessProcess**, **ChessMatch**: the chess program,
   its rules as operators, one process with any peer, two processes and the
   connection; the match is shown to implement the process.
2. *(done)* **ChessRulesProofs**, **ChessProcessProofs**: type correctness,
   ownership of memory, agreement of the tables, the undo of `vyhod`.
   **ChessMatchProofs**: one player on move, one message, no mutual waiting.
3. *(done)* **ChessSession**: the menu, the sockets and the globals that survive a
   game.
4. *(done)* **LongestPrefix** and **RoutingTable**: a set of routes with longest prefix
   match, the sorted list as its implementation; **RoutingTableProofs**: the list
   implements the set.
5. *(done)* **LearningBridge** and **Bridge**: a table from addresses to interfaces, and
   the list and the loop that implement it.
6. *(done)* **Chat**: the two threads of a process, step by step.
7. *(done)* **BridgeProofs**: one row per address, and that the list and the loop
   implement the learning table.
8. *(done)* **ChatProofs**: the safety properties of the two threads.
9. *(done)* **ChessSessionProofs**: channels, roles, turns and open connections.
10. *(done)* **ChessPositionProofs**: what an accepted move makes of a position (pawns, the
    own king, equal replicas); with it the remaining properties of `ChessProcess` and
    `ChessMatch`, and that each process of a match implements `ChessProcess`.
11. *(open)* From the refinement: memory, coordinates and the safety of the king for the
    replicas of a match. The conditions under which no false win by default is
    announced (`ZiadnaFalosnaKontumacia` for moves that are not pawn moves), and what a
    correct `checkMat` would have to look at.

## 3. Modules

| module | models |
| --- | --- |
| `ChessRules` | `pieces.c`, `pieces.h`, `moves.c`, `zmenPesiaka` and what `cleanUP` frees: operators on a board value |
| `ChessProcess` | `vytvorHru`, `precitajTah`, `cleanUP` of one process; the peer is the environment |
| `ChessMatch` | host and client, `posliData`, `cakajNaData`, the connection; each process `h` instantiates `ChessProcess` (`Proces(h)`) |
| `ChessGames` | the scripts of moves that the checked instances play |
| `MCChessProcess`, `MCChessMatch` | specification and scripts together, for TLC |
| `ChessSession` | `mainMenu`, `cakajNaSpojenie`, `pripojSa`, the sockets `cleanUP` closes, the globals, for several processes; the game reduced to turns |
| `LongestPrefix` | abstract: a set of routes and a lookup |
| `RoutingTable` | `CV/11`: the list, `addRoute`, `findRoute`, `lookupRoute`, `generateNetworks`, `flushTable`, `main`; implements `LongestPrefix` |
| `LearningBridge` | abstract: a table from addresses to interfaces, frames learned and forwarded |
| `Bridge` | `CV/3/bridge.txt`: the list, the loop of `main`; implements `LearningBridge` |
| `Chat` | `kyjak_UDP_chat.c`: the keyboard thread and the receiver of one process |
| `ChessRulesProofs` | lemmas about the operators of `ChessRules` |
| `ChessPositionProofs` | lemmas about an accepted move: the board it leaves, pawns, the own king, replicas |
| `ChessProcessProofs` | the theorems about `ChessProcess` |
| `ChessMatchProofs` | the theorems about `ChessMatch` |
| `ChessSessionProofs` | the theorems about `ChessSession` |
| `RoutingTableProofs` | the theorems about `RoutingTable` |
| `BridgeProofs` | the theorems about `Bridge` |
| `ChatProofs` | the theorems about `Chat` |

### Correspondence

*Board.* A `PIECE` object is a number: 0..63 are the objects of `initBoard` in the
order of allocation, `64 + q` is the empty square `vyhod` allocates when piece
`q` is captured. `policka`, the coordinates (`pos`), the types and the lists are
functions and sequences over these numbers; `onBoard` and `movedAlready` are sets;
`live` is the set of allocated objects. The fields of empty squares that no
function reads (`onBoard`, `movedAlready`) are left out; their coordinates, which
`checkMat` reads, are kept, and so is the undo of `vyhod` that exchanges
them.

*Rules.* The loops of `moveVeza` and `moveStrelec` are the predicate `Volna`
(everything between is empty); the rest of the six functions is translated
condition by condition, including what is unusual in them: a king's diagonal step
ignores the colour of its target, a black pawn captures towards column 0 only, a
pawn must not pass an enemy it could capture, and with `ignoreColor` a rook
reaches its own square. `checkForChess` also returns the board, since the probes
mark pawns (`movePawn` sets `movedAlready` when `checkOnly` is true).

*Process.* One step of `MojTah` is one pass through the accepted branch of
`precitajTah` together with the rest of the loop body (`PoKontrole`: `checkMat`,
`gameOver`); the send and its retries are inside the step, because the process
does nothing else meanwhile and the peer sees only the message. `NepovolenyPohyb` is
a pass through the rejected branch. `PrijmiTah`, `PrijmiZlyTah` and `NezaslalTah`
are the three branches of the receiver. Input that fails before `move` is called
changes nothing and is not an action. `poradie` (the ply) and, in `ChessMatch`,
`kontumacia` (how a process says it won by default) are observations only:
`poradie` chooses the moves that may be typed.

*Connection.* `spojenie[h]` is the sequence of messages `h` has not received. A
message arrives whole. A process that has run `cleanUP` receives nothing, and its
peer's `recv` fails once the queue is empty. The failure of `posliData` is a number
of failed attempts in a row, chosen from `ChybySiete`: with `POKUSY` = 10, ten
failures and a success leave the counter at 0, eleven failures leave it at -1.

*Session.* Each process runs on a machine of its own, so that one `PORT` per process is
enough. A connection is a number and `spoje` says who joined whom; `otvorene[p]` are the
descriptors `p` holds, `cakajuce[h]` the queue of its listening socket. `Hostuj` ends in
`accept` or, when a call fails, in the menu, with the number of the player already set;
`acceptZlyha` leaves the listening socket open and `spojenie` without a connection (`NULL`
stands for -1), as the code does. `Kanal(p)` is the
choice of descriptor in `posliData` and `cakajNaData`. The game is reduced to `MojTah`,
`PrijmiTah` with any verdict, and `NezaslalTah`; the moves and the retries are those of
`ChessMatch`. `Skonci` is choice 0, a crash, a kill, or the signal for writing to a closed
connection; the globals get their first values again. A descriptor whose connection
never came about (a failed `bind` or `connect`) is not tracked; `socket_desc` is `NULL` after it.

*Routing table.* An address is the set of the positions of its one bits, so that `&` is
`\cap`; a mask is the length of its prefix, since the masks the program makes are
ordered as their lengths. `Posun` gives both outcomes of the undefined shift by the whole
width (everything shifted out, nothing shifted). `random()` yields one bit less than an
address has (`Nahodne`). The list is a sequence; one step of `generateNetworks` is one
pass of its loop with the whole of `addRoute`.

*Bridge.* The list of rows is a sequence. One step is the service of one socket: `read`,
the update, the `write`s. After a failed `read` the variable `frame` keeps what it held
(`NeprecitajNic`), that is learned again on the interface that failed, and `write` with
the length -1 sends nothing. The first contents of `frame`, uninitialized in the code, are
any frame. `naposledy` and `zlyhali` are observations. Frames are sent from one host to
another.

*Chat.* A command is the sequence of its writes and sends (`login`, `join`, ...), carried
out one step at a time by `Vykonaj`; each test of the receiver is a step too. The
datagrams on the way to the process are a set: they may be lost when sent, and arrive in
any order, not twice. `login` writes `nickname` twice: the line as it is read, with its
newline, and the trimmed name after the groups are reset. With the newline it equals the name
in no message, so it is `NULL`, as is the empty name before the first login. `ChybaRecvfrom`
is the `break` after an error of `recvfrom`: `pc` is "skoncil" from then on, while the
keyboard thread goes on. `cislo`, `zmena` and `poOdhlaseni` are observations. The menu says
that two users of one name are not handled ("nerobit"), so the others have other names.
The copies of a two-byte group number are single steps. Commands that
only print (`/menu`, `/vypis`, a `/login` of a user who is logged in, a `/leave` that is
refused) are not actions.

## 4. Runs

| run | instance | checks |
| --- | --- | --- |
| `ChessProcess_otvorenie` | the host plays `Otvorenie`, sends fail 0 or 10 times | `TypeOK`, `PamatVlastnena`, `SuradniceFigurok`, `PesiaciNaMieste`, `OdmietnutyTahVrateny`, `VlastnyKralVBezpeci` |
| `ChessProcess_dosachu` | same game | `NikdyDoSachu` is violated |
| `ChessProcess_mat` | same game | `KoniecJeSkutocny` is violated |
| `ChessMatch_otvorenie` | `KratkeOtvorenie`, sends fail 0 or 10 times | `TypeOK`, `JedenNaTahu`, `JednaSprava`, `NikdyNecakajuObaja`, `KoniecSaDozvieme`, `HostitelHra`, `KlientHra` |
| `ChessMatch_pochody` | `Pochody` (`Premena`, `CiernaPremena`, `Spor` and `Vazba` in one) | `ZhodaPostavenia`, `PesiaciNaMieste` |
| `ChessMatch_kontumacia` | `Spor` | `ZiadnaFalosnaKontumacia` is violated |
| `ChessMatch_nedorucene` | `KratkeOtvorenie`, sends fail 0 or 11 times | `NikdyNecakajuObaja` is violated |
| `ChessSession` | 3 processes, 2 connections, 1 end of a process | `TypeOK`, `KanalHry`, `JedenNaTahu`, `UnikLenPoKlientovi`, `CakajuciSaDocka` |
| `ChessSession_sokety` | same | `SocketyZatvorene` is violated |
| `RoutingTable` | 3-bit addresses, 4 routes, 2 lookups | `TypeOK`, `PocetSedi`, `NajdlhsiPrefix` |
| `Bridge` | 3 interfaces, 2 hosts, sockets of 1 frame, 1 failed read | `TypeOK`, `JedenRiadok`, `VidenyAleboChyba`, `UciaciSaMost`, `KazdyPrideNaRad` |
| `Chat` | 1 name, 1 other user, 3 groups, 4 commands, 1 foreign message at a time | `TypeOK`, `PisesTamKdeSi`, `EchoIbaPoZmene`, `PoOdhlaseniJedna`, `PocuvasVoVsetkych`, `StalePocuva` |

*Bounds.* The free game is far beyond enumeration, so the players type moves from a
script (`Partia`): for each ply a set of moves, some accepted, some rejected, in
every combination. The scripts are chosen so that every branch of `vyhod` is taken
and taken back, including captures of both colours, a piece pinned on a
diagonal, the king capturing its own piece, announced mates and stalemates, and
promotions of both colours to each piece, which then move. `Otvorenie` ends with a
ply in which any of the 4096 pairs of squares may be typed. The bounds are
`Partia` (length and choice of the game) and `ChybySiete` (0, 10 and 11 are the
three outcomes of the retry loop: sent, sent with the counter at 0, not sent).
The theorems below need neither.

The other instances enumerate everything within their bounds. `ChessSession`: two
connections (`SPOJENI`) let a process be a client and then a host, or the reverse, with
a third one as the peer of the second game; one end (`KONCOV`) comes at any
point of either. `RoutingTable`: with three bits a default route, nested prefixes and two
prefixes of one length exist, and four routes come in every order, repeated ones
included. `Bridge`: two hosts and three interfaces are enough for a host to move to the
interface of the other, to an unused one and back; the traffic is endless, only
the failed reads are counted (`CHYB`); `RAMCOV` is the size of a socket. `Chat`: four
commands (`PRIKAZOV`) are a login, a `/join`, a `/leave` and a text, or a login, a `/join`, a text and
a `/join 10` that overtakes it, or a logout and a
second login; the third group tells a group that was left from one that was joined;
`CUDZICH` bounds the foreign messages not yet shown.

*Deadlock* is not checked in the chess runs and `Chat`: a game, a script, and the commands
end. `RoutingTable` ends with `flushTable`. `Bridge` is checked for it: the loop never
stops.

*What the passing runs show.* A position is never damaged by any of the accepted
or rejected moves of the scripts; apart from moves in which the player's king
takes a piece of the player's own, nobody ends a move in check; turns alternate,
there is at most one message on the way, the two replicas agree after the same
number of plies, and when a process leaves, the other ends its game or is on move.
Over several games no process plays on a wrong connection or in a wrong role, and a
process whose peer is gone comes back to its menu. The routing list answers as a set
with longest prefix match, also with the routes of the undefined shift. The bridge's list is
a learning table, except that a failed read may enter an address with the interface that
failed, until its host sends again. In the chat a user always writes to a group it is in; the
races of the two threads may show a user its own message, but only when a later command
overtook it (or after a `/leave`, whose group the message of the logout is compared with),
and hide no message of another. The receiver reads on through everything `main` does, but an
error of `recvfrom` ends it for good, although the menu says that the system listens
all the time (line 211): `StalePocuva` states the exception, and that it is the only one.

*What the violations show* (details in `PROJECT.json`, `findings`):

* `NikdyDoSachu`: the comment of `vyhod` promises that one's own king is never put
  in check. The king may step diagonally onto a piece of its own colour, and then
  the wrong king is guarded.
* `KoniecJeSkutocny`: `checkMat` ends the game although the side on move has a move
  that the program accepts; it looks at the king's moves only.
* `ZiadnaFalosnaKontumacia`: the probe for check marks a pawn as moved, on the
  replica of the player whose attempt was rejected only. When the pawn later goes two
  squares the peer's program accepts it, this one does not, and says that the peer
  sent a bad move.
* `NikdyNecakajuObaja` with eleven failed sends: the game goes on without the move
  and both processes wait. The same property holds in `ChessMatch_otvorenie`, where
  sends fail ten times at most.
* `SocketyZatvorene`: `hostujem` stays `FALSE` in a process that was a client. When it hosts
  the next game, `cleanUP` does not close the connection; the process is in its menu
  and its peer still waits.

*Mutants.* Before some definitions stands a variant with a plausible slip (a
forgotten undo, an exchanged list, a turn that is not handed over). Each property
is violated with one of them put in the place of the original.

## 5. Fairness

`ChessMatch!Spec` assumes weak fairness of `Beh(h)` for each process: what has been
sent is eventually received, a closed socket is eventually noticed, a finished game
is eventually cleaned up. These are the steps a running process takes without its
player: TCP delivers or fails, and `recv` returns in either case. Nothing is assumed
of `MojTah` and `NepovolenyPohyb`: a player may think for ever, or go away. Hence
`KoniecSaDozvieme` promises that a process waiting in `recv` learns that its peer has
left, and nothing about a process waiting for its player. `ChessProcess!Spec` has no
fairness; its properties are safety.

`ChessSession!Spec` assumes the same of each process: a queued connection is accepted, what
was sent is received, a closed connection is noticed, a finished game is cleaned up.
Nothing is assumed of the menu or of the player. `Bridge!Spec` assumes weak fairness
of `Obsluha`, the loop of `main`, which runs without anybody's help whenever a socket is
readable; frames need never come. `Chat!Spec` assumes weak fairness of `receiver`: the
scheduler runs a thread that is able to go on. `ChybaRecvfrom` is not part of `receiver`:
an error may come at any `recvfrom` and need never come. Nothing is assumed of the user, of the
other users or of the keyboard thread. `RoutingTable!Spec` has no fairness.

## 6. Proofs

`tlapm` proves the following for every value of the constants that satisfies the named
assumptions of the modules: a player's number, any sequence of sets of moves and any set of
numbers of failed sends up to 11 in the chess loops (`CisloHracaAssumption`,
`PartiaAssumption`, `ChybyAssumption`); any number of processes, connections and ends in
`ChessSession`; any width of an address and number of routes; any number of interfaces,
any hosts, sizes of sockets and failed reads of the bridge; any names, groups that contain
`DEF_GRP`, commands and foreign messages in `Chat` (`ChatAssumption` keeps the names
of others apart from the user's, as the menu asks; `NULL` is no message).

| theorem | statement |
| --- | --- |
| *`ChessProcessProofs`* | |
| `Invariant` | `Spec => []IInv` |
| `TypSpravny` | `Spec => []TypeOK` |
| `PamatSpravna` | `Spec => []PamatVlastnena` |
| `SuradniceSpravne` | `Spec => []SuradniceFigurok` |
| `OdmietnutySaVrati` | `Spec => OdmietnutyTahVrateny` |
| `PesiaciStoja` | `Spec => []PesiaciNaMieste` |
| `KralVBezpeci` | `Spec => VlastnyKralVBezpeci` |
| *`ChessMatchProofs`* | |
| `StriedanieTrva` | `Spec => []Striedanie` |
| `JedenHra` | `Spec => []JedenNaTahu` |
| `JednaSpravaNaCeste` | `Spec => []JednaSprava` |
| `NikdyNecakaju` | `IbaDorucene => (Spec => []NikdyNecakajuObaja)` |
| `Invariant` | `Spec => []IInv` |
| `TypSpravny` | `Spec => []TypeOK` |
| `ReplikySaZhoduju` | `Spec => []ZhodaPostavenia` |
| `PesiaciStoja` | `Spec => []PesiaciNaMieste` |
| `HostitelJeProces`, `KlientJeProces` | `Spec => HostitelHra`, `Spec => KlientHra`: each process implements `ChessProcess` |
| *`ChessSessionProofs`* | |
| `Invariant` | `Spec => []IInv` |
| `TypSpravny` | `Spec => []TypeOK` |
| `KanalJeHry` | `Spec => []KanalHry` |
| `NikdyObaja` | `Spec => []JedenNaTahu` |
| `UnikaLenPoKlientovi` | `Spec => []UnikLenPoKlientovi` |
| *`RoutingTableProofs`* | |
| `Invariant` | `Spec => []IInv` |
| `TypSpravny` | `Spec => []TypeOK` |
| `PocetSpravny` | `Spec => []PocetSedi` |
| `Najdlhsi` | `Spec => NajdlhsiPrefix`, that is `Spec => Tabulka!Spec` |
| *`BridgeProofs`* | |
| `Invariant` | `Spec => []IInv` |
| `TypSpravny` | `Spec => []TypeOK` |
| `JedenRiadokTrva` | `Spec => []JedenRiadok` |
| `RiadkySpravne` | `Spec => []VidenyAleboChyba` |
| `MostSaUci` | `Spec => UciaciSaMost`, that is `Spec => Most!Spec` |
| *`ChatProofs`* | |
| `Invariant` | `Spec => []IInv` |
| `TypSpravny` | `Spec => []TypeOK` |
| `PiseTamKdeJe` | `Spec => []PisesTamKdeSi` |
| `VlastneSkryte` | `Spec => []EchoIbaPoZmene` |
| `PoOdhlaseniNajviacJedna` | `Spec => []PoOdhlaseniJedna` |
| `CudzieSaZobrazia` | `Spec => PocuvasVoVsetkych` |

`Partia` may allow every move at every ply, so the chess theorems hold of the whole game,
of any length, and not only of the scripts the runs play.

*One process.* `PamatVlastnena` is not inductive: a capture puts a fresh empty
square `NovyBlok(q)` on the board, and to see that it is fresh one must know that
`q` was not captured before, which needs the coordinates (`KdeStoja`) and the lists
(`StrateneSuPrec`); and nothing in it says that no move follows `cleanUP`. `IInv`
adds these, for boards before and after `cleanUP`. `Zdrava(b)` in
`ChessRulesProofs` is the part about one board:

1. `CheckForChessOznacuje`, `CheckMatOznacuje`: the probes change `movedAlready` and
   nothing else.
2. `InitBoardZdrava`: the first board is sound.
3. `VzatieVratene`, `PresunVrateny`: a capture or a quiet move followed by `Vratenie`
   gives a sound board with the position of the first.
4. `VzatieZapisane`, `PresunZapisany`: followed by `Zapis`, a sound board.
5. `VyhodZachova`, `MoveZachova`, `ZmenPesiakaZachova`, `CheckMatZachova`: hence each
   function called by the loop keeps a board sound; a rejected move keeps the
   position (`Vratena`). The only fact about the geometry of the moves that is
   needed is that a piece never reaches its own square in a real move
   (`DosiahneIne`).
6. In `ChessProcessProofs`, one lemma per action, and `NextIInv` combines them.

*Pawns and the king.* `ChessPositionProofs` says what an accepted move leaves behind:
`PoTahu(b, from, to)` is that board up to the marks of the probes (`MovePrijal`), and
`NovaPozicia` lists its fields. `PesiaciNaMieste` follows from `PesiakIde`,
which looks at how a pawn may move: it gets at most to the row that `zmenPesiaka`
exchanges, and it is marked when it has moved (`MovePesiaci`, `ZmenPesiakaPesiaci`). It
needs `Zdrava`, hence is proved on top of `IInv`. `VlastnyKralVBezpeci` is harder than the test
in `vyhod`: the test looks at the board *before* the move is written down, the property
at the board when the step ends. Between the two the moved pieces are marked, the other king
is probed, a pawn is exchanged and `checkMat` probes once more. `Doplnena` describes such a
later board, and `DosiahneNepribudlo` and `SachNepribudol` show that no enemy piece reaches on
it what it did not reach before (marks only take moves away). That the king tested was
the mover's own is `StrazenyJeVlastny`, which is where the captured piece must not be an own
one.

*The match.* `JedenNaTahu` alone is not inductive: it says nothing of the time between a
move and its arrival, when the two copies of `tahHraca1` differ. `Striedanie` says how
they may differ (host `FALSE`, client `TRUE`: nobody is on move), and that a message is
on its way only then, with nothing behind it or in the other direction. Each step keeps it
because only the process on move sends, which finds both queues empty, and flips its own
copy. A move that is lost leaves the processes in that middle state with empty queues:
`Striedanie` still holds, so the first two theorems need no assumption about the network,
and `NikdyNecakajuObaja` fails. `IbaDorucene` (every number in `ChybySiete` is at
most `POKUSY`: no move is given up) rules it out; `Nezaseknute` then adds that in the middle
state a message is on its way or a game has ended.

*The replicas.* `ZhodaPostavenia` is not inductive either. `IInv` of `ChessMatchProofs` says
that while the copies of `tahHraca1` agree the positions do (`RovnakaHra`), and that a
message on its way is exactly what separates the replicas (`NaCeste`): made on the
receiver's board it gives the sender's (`PoSprave`, `Zhodne`). `Zhodne` leaves out the marks,
which do differ: that is how a false win by default comes about. A receiver whose marks
reject the move keeps its position, and its game is over. `MojTahSprava` shows that a typed
move creates such a message, also when a pawn is exchanged, and `PoTahuZhodne` that the
receiver's `vyhod` makes the same of it. `HryZdrave` is the soundness of both boards, before
and after `cleanUP`.

*Each process implements `ChessProcess`.* `NextSam(h)` is what a step of the match does to the
variables of process `h` alone; `KrokJeSam` shows that every step is that, or leaves `h` alone.
The point is the message: `ChessProcess` lets its peer send a move of its own
colour that may be typed next, with a promotion only to one of the four pieces. That the
message of a match is one needs `NaCeste` (`PrijataZmenena`). `Proces(h)`, the instance,
brings with it a copy of every operator of `ChessRules`; the lemmas
`InstFarby` to `InstBoard` say that they are the same, and `ProcesNext` combines both.

*The session.* `KanalHry` needs to know, when a game starts, which role the globals give
the process: `PredHrou` (while the process has not played, `hostujem` and `tahHraca1` are as
they were at the start; this rests on `gameOver` never being reset, so that a
second game ends before its first move), `Popisovace` (the descriptors are connections that
were made, and the one from `accept` is the host's end) and, while it plays, `Uloha`. `JedenNaTahu`
relates two processes: a connection in a queue has carried nothing (`VoFronte`), so both
ends start with the same turn, and `Striedanie` keeps one message between them.
`UnikLenPoKlientovi` is inductive with these. `MimoHry` treats at once all steps after
which the process does not play.

*The bridge.* The list implements a table only if no address has two rows, since
`FindBTEntry` stops at the first and `UpdateOrAddMACEntry` changes the first: hence
`JedenRiadok` is part of the invariant of `VidenyAleboChyba` and of the refinement. The loop visits
the sockets that `select` reported after others were served; `JeCoCitat` says that each
still has something to read. `UpdateZachova` says what the update makes of the list;
`Most!Vystupy` is then the set of `write`s.

*The chat.* There is no lock, so the invariant speaks of where both threads are. `VPrikaze`
lists the commands by the steps that remain: in `Pise` the name and the groups are being
written (`PiseLogin`, `PiseJoin(g)` for any group, the default one included, `PiseLeave(g)`),
from `Posiela` on they stand until the next command. `Aktualna(m)` says that the
message `m` would be recognised now, and `MojeSpravy` that every own message still on its way or
being looked at is `Aktualna` unless a command came after it (`zmena`). `Rozpoznana`
carries that through the receiver's comparisons, one `pc` at a time: they read variables that
may change between two of them, but a message that is not older than the last change is
recognised by all. `Odhlasenie` counts: after `prihlaseny` is 0 only a receiver that was past its test
prints.

*The routing table.* `NajdlhsiPrefix` needs to know that the list is sorted: `Zoradene`,
which nothing in the code tests. `VlozenieZoradi` shows that a falling list of numbers stays
one when a number is put before the first that is not larger; `Vlozenie` and
`VlozenyPrvok` say what `InsertAt` returns; `AddRouteZachova` combines them. In a sorted
list the first match is a longest one (`PrvaJeNajdlhsia`), so `lookupRoute` is a step
`Vyhladaj` of `LongestPrefix`; `generateNetworks` is `Pridaj` or a stutter, `flushTable` is
`Vyprazdni`. `PocetSedi` also bounds the list, since `Range(head)` has `count` elements. The
counters need `count <= generovane` and `matchCount <= hladane`.

*Only model-checked:* the liveness properties `KoniecSaDozvieme`, `CakajuciSaDocka`,
`KazdyPrideNaRad` and `StalePocuva`, which are out of the prover's reach. Every invariant,
every action property and every refinement that a passing run checks is also proved.
The properties of the runs that expect a violation are refuted by TLC, on
an instance.

## 7. Not modelled

* `printBoard`, the messages, the parsing of what is typed, the address dialogue: no
  property is about them.
* A message that TCP delivers in two parts (`recv` would return the first).
* The end of the input, at which `precitajTah` loops for ever: the player of the model may
  already never move.
* The functions of the bridge that nothing calls (section 1.5), and `lastSeen`, which
  nothing reads. `InsertBTEntry` leaves `previous` of the old first row on the head, and
  `FlushBT` frees what `previous` points to; no run of the program comes to it.
* An error of `select`: the bridge ignores its result and would `read` every interface in
  turn, waiting at one that has nothing to read.
* A failed `malloc` anywhere; datagrams delivered twice.
* In the chat, the receiver builds what it compares with in a buffer of three bytes
  (`check`, lines 48-65): what it writes behind the buffer is taken to hit storage that
  is not read later.
* The threaded port scanner: its threads share one socket and nothing else; which of
  them connects it first is the whole of its behaviour.
* The ARP ping: its second thread only prints, and the first exits after it has freed what
  they share.
* The TCP servers: an accept loop with a process or a thread per client, which share
  nothing.
* The RIP and CDP receivers, the UDP programs, the sequential scanner, the packet builders:
  nothing is kept from one packet to the next; they are I/O and the layout of
  packets.
