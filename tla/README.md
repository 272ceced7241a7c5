# Verification of the BFBC2 master server emulator

The repository holds three generations of a master server for the game: the current C++ programs
(`src/Plasma`, `src/Theater`), the older C++ ones (`src/old/c++`) and the PHP ones (`src/old/php`). Each has
a *Plasma* program (accounts, personas, statistics) and a *Theater* program (lobbies, games, joining) that
share a MySQL database. This directory holds TLA+ modules for their core logic, TLC configurations that check
them on small instances, and proofs that TLAPS checks.

## 1. Inventory

| Component | State | Operations | What is hard | What makes it correct |
|---|---|---|---|---|
| Socket servers and threads: `CSocketServer.cpp`, `ServerThread.cpp`, the head and tail of each `ClientThread.cpp` | the list of sockets, one object and one thread per socket | accept, start a thread, receive, remove | no lock on the list; a failed accept is handed on as NULL | each socket has one owner, is listed while it lives, and is released |
| Packet output: `CSocket::SendPacket` | a static buffer and its size, a packet counter per socket | format, grow, fill, send | the statics are shared by all threads; the text is used as a format; sizes at the boundary; a counter that runs into the byte above it | frames are whole and numbered in order |
| Packet input: `CSocket::RecievePacket`, `CPacket` | variables in arrays of fixed size (name 512, value 8224) and a length kept beside them | receive, parse, set, print | lengths below the header, texts longer than their blocks or arrays | a reader stays in step with the stream; a text fits the block made for it |
| Plasma sessions (old C++): `Plasma/ClientThread.cpp`, `CDatabase.cpp`, `CFramework::randomString` | per thread: account, persona, keys; rows of `users` and `personas` | NuLogin, NuLoginPersona, look-ups, log-out | one SQL statement for all threads, execute and fetch are two calls; keys from an unseeded `rand` | sessions are of accounts whose password was given; the rows agree with the sessions; log-out completes |
| Rank queries (old C++): the `rank` branch of the same file | the pieces held, the reply left to send | gather, answer, cut | completion by equality of lengths, blocks without room for a terminator | what is held is what was sent; every query is answered |
| Theater connections (C++): `Theater/ClientThread.cpp` | transaction number, key, persona | CONN, USER, LLST, GLST | the server counts transactions itself; keys change under it | replies carry the number of their request; a player is named by a key he was given |
| Process and Plasma handler (current C++): `Plasma.cpp`, `Theater.cpp`, `Handler.cpp` | where `main` is, how far each listening socket is, the player being served | start up, construct two servers, accept a player, serve him, end | one player at a time, for good if he is silent; an unknown packet ends the Handler for good, a bad length the process; a message box holds a server up | a game server is accepted whatever the others do; a player waits only for one who is there |
| Player sessions (PHP): `Plasma.php`, `CSocket.class.php`, `UserData.class.php`, `db.php` | sessions in objects, four tables that find them, ban caches, rows of the database | log-in by password or key, persona chosen or disabled, goodbye, loss, ban, restart | objects shared by connections, tables keyed differently, losses noticed late, an account typed in several spellings | each table leads to the right session; who is online; who is refused |
| Game registry (PHP): `Theater.php`, `STSocket.class.php`, the EGAM branch of `CTSocket.class.php` | games by id, tables `games` and `gdet` | CGAM, UGDE, EGAM, loss, restart | ids used again, old connections that end late | a join leads to the server that was asked; a dead game leaves the list |
| Statistics (PHP): `UserData.class.php`, GetStats of both sides, UpdateStats | copies of rows of `stats` in sessions | load, report, save | a session has several users, reports come early and late | a report goes to its persona's row and is not undone; nobody is told another player's |
| PHP accounts, rank data in pieces, dog tags | `users`, `personas`, `dogtags` | NuAddAccount, NuAddPersona, ... | partial transfers, unique names | a name has one owner; a record is its persona's (not modelled) |
| Game servers' Plasma sessions (PHP): `SSocket.class.php` | a session per server | log-in, look-up of players, reports | works on players' sessions and moves them to other personas | sessions stay with their accounts |
| Support: configuration, logging, Base64, `Util`, `Packet`, SSL | — | — | — | data for the models |
| `ClientHook` (`main.cpp`, `BC2.cpp`, `Utils.cpp`) | the bytes at the entry point, the place of the check, the detours | attach, restore the entry point, wait for modules, search, patch, detour | a thread changes code the program is loading, decrypting and running | only the check is changed; nothing is redirected to the emulator before the check is gone; the program runs |

Interaction. A listener thread hands sockets to connection threads (C++); in PHP one `stream_select` loop per
program calls the handlers one after another, so a handler runs whole. Plasma and Theater meet in the database
alone: Plasma writes a key into a player's row, the player takes it to Theater, which searches by it. In the PHP
programs a game server's Plasma connection works on the `UserData` objects of players and may end a player's connection (`processUserRank` calls `handleGoodbye`), and a
player's Theater connection sends to a game server's (EGAM).

The hazards are listed at their lines in `PROJECT.json`.

## 2. Modules

| Module | Models | Kind |
|---|---|---|
| `SocketServer` | listener, list, connection threads | threads, one action per step that shares state |
| `ServerProcess` | `main`, both constructors of `CSocketServer`, the `Handler`; extends `SocketServer` | composition |
| `SendBuffer` | `SendPacket` | one action per access to a static |
| `PlasmaClient` | connection threads of the old Plasma server and its database | one action per statement executed or fetched |
| `TheaterClient` | connection threads of the Theater server | likewise |
| `MasterServer` | `PlasmaClient` and `TheaterClient` on one table `personas` | composition |
| `Packet` | variables and lengths of `CPacket`, sizes Base64 makes | operators |
| `RankTransfer` | the pieces of a rank query and the reply; extends `Packet` | one action per packet |
| `RankConnection` | `RankTransfer` over the stream `RecievePacket` reads | one action per `recv` |
| `PhpPlasma` | player side of PHP Plasma | one action per handler |
| `PhpStats` | statistics, and what game servers do with players' sessions; extends `PhpPlasma` | one action per handler |
| `PhpTheater` | game server side of PHP Theater, and EGAM | one action per handler |
| `GameDirectory` | what PHP Theater promises about its list of games | abstract specification |
| `ClientHook` | the DLL and the program it is loaded into | one action per step of either |
| `MC*` | constants for TLC | |
| `*_proofs` | — | theorems about the module named and those it extends, eight in all |

Operators commented as *slips* are mistakes a maintainer could make; each is substituted for the definition it
stands next to (`mutants` in `PROJECT.json`) to show that a property notices it. No specification uses them.

### SocketServer

A slot of `Conns` is a connection that may come, one of `Fails` an accept that may fail and yield NULL. `lpc` and
`cur` are the listener's place in its loop and the pointer it holds; `thr` is the place of each thread; `heap` the
life of the `CSocket`; `sockList` the list. `BeginList`/`EndList` bracket each list operation, because
`push_back` and `remove` are not locked: once two brackets overlap and one of them writes, the list is any set
and the program may have crashed (undefined behaviour). `derefFirst` says which thread function the listener starts: `clientSocket`
calls `sock->GetId()` before `while(sock)`, `serverSocket` does not. `orphan` is a socket whose `_beginthread` failed: the
result is ignored, so it can. `sockCount` is left out: it is stored in the socket's id, which nothing reads to decide.
The module has no run of its own: `ServerProcess` extends it and runs all of it.

### ServerProcess

`main` goes through the settings and the database connection, starts the listener's thread (`SocketServer`) and becomes the
`Handler`: it accepts players from `queue` and serves `sock`, one at a time. `ctor` is the progress of the two constructors. One that cannot bind or listen shows a
message box and returns; a socket it has closed may have left its handle to the other server's socket, and its listener then accepts on that
one (`stale`). The thread that listens for game servers makes an object for a player it gets that way, lists it and starts a thread for it (`TakesPlayer`: he is then one of `Conns`); the Handler has
no SSL context for a game server it gets, and the process ends (`TakesServer`). `ended` is the end of the process, from which nothing comes back: settings or a database that cannot be read at the start, a packet with a length
below the header's, an unknown packet whose number is logged as a text. If that goes well, the Handler returns and the process lives on without it (`keepAlive`). In Theater (`derefFirst`) `main` only waits.

### SendBuffer

`buffsz` and `buff` are the two statics; `fresh` the block `realloc` has returned that is not yet assigned, during
which another thread's `buff` dangles. The text of the packet is handed to `vsprintf` as its format: a `Plain` text (no `%`) is printed as it stands; of another one, `Prints` is
the set of lengths that may come out, more or fewer than `strlen` counted, or 0 where `vsprintf` fails. The block for it (`Block`) is made by `strlen` before anything is printed. A cell
of the buffer remembers whose text its byte is of, `"nul"` for the terminator. Lengths are scaled: `Base = 3` stands for 1024, `Slack = 1` for 128.

`type2` is the call's copy of the second header word, a top byte and the number below it. `Numbers` stands for 2^24: `packetCounter` is an `int` that nothing keeps below that, and or-ing it in
changes the top byte (`WithNumber`). `counter` belongs to the socket, so each thread has its own. `fault` is an access outside a block or into a freed one and ends the behaviour.

Three variables are history. `taken` counts the counted frames of a socket; `met` says of a call that another one was under way during it; `mixed` that this has ever happened. Nothing
prevents overlapping calls, and their frames are garbled: each property says what it needs. `FrameIntact` speaks of any frame whose own call met no other, also after garbled ones;
`FaultCause` of the time until calls overlap, since an overlap may leave a block smaller than `buffsz` says; `NumbersInOrder` of every frame, whatever overlaps.

### PlasmaClient, TheaterClient, MasterServer

`stmt` is the one `sql::Statement` of a program: `Execute` sets it, `Fetch` takes what is there. `crossed` is history:
some thread fetched another's result. Properties with `~crossed` say what holds as long as that does not happen; the
run `PlasmaClient_cross` shows what happens then. A result used without the column or the row it needs throws, which nothing
catches (`crashed`). `NextKey` is `randomString`: `rand` is not seeded and the run-time library keeps its state per
thread, so all connections draw the same sequence. Requests that answer with constants are left out.

In `TheaterClient` the variable `asked` is the client's own count of its requests, which it sends as TID, and
`missed` says that one of them got no reply. `MasterServer` adds `issued`, the keys Plasma has replied with.

### Packet, RankTransfer, RankConnection

Texts are lengths, and all of them are the code's own: the header, `strlen`, the blocks, the growth by Base64 and its line breaks. `Chunk` is 8096 in
the code. `overrun` counts bytes past the block of the transfer; `Garbage` bounds what may follow an unterminated chunk. The type of a packet is
four bytes compared with `strcmp` as if a NUL followed, so a piece may be taken for another type (`dropped`). The reply is built with the operators of `Packet`
as the code builds it (`SetVar` for each key, `GetData`, `b64_encode`) and sent in chunks. What is built up variable by variable (`Printed`, `ReplyUpto`) is a recursive
function over the number of variables, which the proofs can reason about.

A variable's name and value are copied into arrays by `strcpy`, which looks at neither. `ValueRoom` is the 8224 of the value's, made small in the run so that a value can be too long; `QueryRoom` is the same
array where a piece of a query is put into it, separate because pieces are of a few characters in the run. `spilled` says that a value was longer than its array, which happens in three ways: a whole
query in one piece, a key of the reply, and garbage behind a chunk that is sent. What follows is undefined and the model stops there. `PacketsFit` says when it may happen. Names are the server's own
and fit (`NameRoom`); a line of a client whose name is longer than 511 characters is not modelled. The branch of `SetVar` that replaces a variable is taken by no packet of a rank query; `ReplacedFits` (an
assumption TLC evaluates in `MCRankConnection`) executes it, and lemma `SetVarSound` covers it for every packet.

`RankConnection` puts the pieces on a stream: `flight` are the packets under way, each with the characters of the query it carries, `off` what has been read of the first of them, `want` what `Recieve`
still asks for. A `recv` takes any part of what is wanted, never of the next packet. The names of the variables in a piece are left out.

### PhpPlasma

`objs` are `UserData` objects made by log-ins, `ud` the object each connection points to, `byNuid`, `byUser`,
`byPersona` the tables of `UserData`, `sockByUser` that of `CSocket`. A log-in makes an object and removes the one
before it from the tables *by its ids*; closing a connection removes *whatever is there* for its account. An ended connection is
`closed` after a Goodbye and `lost` without one; a `lost` one has not logged its player out, which `OnlineExplained` allows for.
`ban` is the active row of `banned` for an account or address, `cache` the process's memory of refusals, which nothing but a restart empties.
A game server's empty rank query closes the player's connection it finds (`Kick`).

An account is not its nuid. The database compares `user_nuid` without regard to case, PHP's arrays do not: `Nuids` are what players type, `AccountOf` the row found for it, `RowNuid` the spelling in the row.
`byNuid` and `cache` go by what was typed; the log-in by key goes by the row's spelling and asks for bans of type `c` only. So a refusal holds for a spelling (`RefusedStaysOut`), not for an account, and
`BannedByKeyOnly` says how a banned account gets in all the same.

### PhpStats

Adds to `PhpPlasma` the table `row`, the copy of a row in each object (`stats`, with the persona whose row it is, `of`) and each game server's
`personaData` (`pdata`). A sum of statistics is the set of reports added up. `UpdateStats` is the whole handler: it finds the object by persona
id, moves it to the persona reported if it is on another one, loads, adds and saves. `answer` is the reply to GetStats sent by the step just made.
A report through a connection that has not looked anybody up makes PHP put a plain object into `personaData` (`Bare`), on which the next GetStats is a fatal error.

### PhpTheater

`gid` and `byGid` are `STSocket`'s `gid` and table by game id, `games` and `gdet` the tables, `players` what is true on the
game server. A connection is `dead` from its loss until ten empty reads have been made. EGAM may name any id, since a
player's list may be old. UGDE goes by the id in the packet, which the code compares with nothing; `NamedBy` is the assumption about game servers, external to this code, that they name the id
CGAM has given them on this connection. The run relies on it, the proofs do not: they hold for any id.

`GameDirectory` is the list of games as a player sees it, with no connection states, rows or counters: addresses offer a game, keep their id, withdraw it,
and whoever joins an id is told the address of the server that was asked. `PhpTheater` defines the mapping (`IdOf`, `Offering`, `Gone`,
`Listed`, `Joined`) and `ImplementsDirectory == Directory!Spec`. A restart is a step of the directory too: ids are given anew and
nothing is listed.

### ClientHook

The loader runs `DllMain`, which keeps the bytes at the entry point (`ep`, `originalCode`) and puts a jump there; the program's first thread (`main`) runs
`Main_DoInit`, which starts the thread of `InitHooks` (`thread`), restores the bytes and goes on. From then on the program loads its modules, decrypts its
code and looks up master servers while the thread waits, searches (`FindPattern`, byte by byte: `Scan` is what the loop has found after each byte), patches the check of certificates byte by byte and puts in the detours one after the other. Code is any
sequence of `Bytes`, so a false start of the pattern occurs, also right before the pattern itself, which it then hides. Memory protection, the clean-up of old files and Detours' own writing are left out.

## 3. Runs

Deadlock checking is off in every run: a listener may wait in `accept` for ever, threads and processes end, and bounded counters run out;
all of these are legitimate ends.

| Run | Instance | Shows |
|---|---|---|
| `ServerProcess` | 2 connections of game servers, 1 failing accept, both thread functions, 2 players at the Handler | `Handover`, `RegistryExact`, `PeerGoneReleased`, `GameServersServed`, `PlayersServed`. Two connections let the listener overlap a thread and two threads overlap; the failing accept comes before, between or after them; the second player waits for the first. |
| `SendBuffer` | 2 threads, 2 sends each; 5 packets: texts below, at and above the first block, one with a `%` that prints nothing or too much, counted and not, top byte 128 or 0; 2 numbers before the top byte | `FrameIntact`, `FaultCause`, `NumbersInOrder`. Two sends by each let either thread meet what the other has left in the buffer; the second number already reaches the top byte. |
| `PlasmaClient_own` | 2 connections with an account and a persona each, 3 keys per connection | `AuthenticatedSession`, `OnlineHasSession`, `SessionFindable`, `LogoutCompletes`. Three keys are two log-ins and a persona, or the reverse. |
| `PlasmaClient_cross` | the same, 2 keys | violation of `LoginChecked` |
| `TheaterClient_alone` | 2 connections, 4 requests each, 2 personas and 1 key that Plasma may move | `TidAgrees`: numbers agree until a request goes unanswered, and lag for good after it. Four requests: one without a reply, with one before it and two after. |
| `MasterServer_players` | 2 Plasma connections, 1 Theater request | `NamedByIssuedKey`, `RefusedOnlyOnClash`. One request meets every interleaving with the log-ins. |
| `RankConnection_queries` | queries of 0, 1, 19 and 20 keys, of 4 or 8 characters, and 1 key of 932, chunks of 930, arrays of 932 for a value (8 for a piece of a query), 2 characters of garbage, 2 rounds, 2 packets under way | `HeldIsSent`, `ReplyCut`, `PacketsFit`, `StreamKept`, `QueryAnswered`. The keys make replies below one chunk, of exactly one and above two; the second round finds what the first has left; a piece, a key and the garbage can each be one too long for the array. |
| `PhpPlasma_sessions` | 2 connections on one account with two personas, 1 on another account that is typed in two spellings, 2 log-ins between restarts; bans of type `c` on the first account and on an address, of type `x` on the second account | `OwnSession`, `KickTarget`, `SoleSession`, `OnlineExplained`, `LookupKept`, `RefusedStaysOut`, `BannedByKeyOnly`. The interesting cases need an old and a new session, of one account or of two, or a log-in that draws a key and one with it. `OnlineExplained` is about the first account, which is typed as it is stored. |
| `PhpStats_reports` | a player with 2 personas, one of which may lack a row of `stats`, another account with one, a game server, 2 reports, 2 sessions | `RowsOwn`, `ReportsKept`, `AnswerOwn`. Two sessions hold two copies of a row, two reports let one be saved from an old copy. |
| `PhpTheater_games` | 3 connections at one address, 1 at another on the same ip, 1 restart | `RegistryPoints`, `OnlineHasServer`, `ServedListed`, `TicketMeets`, `DeadUnlisted`, `ImplementsDirectory`. Three connections: one dead, its successor, and one after the restart. |
| `PhpTheater_recount` | 2 connections at one address, 1 at another, 2 slots, 1 restart | violation of `ActivePlayers` |
| `ClientHook` | the client, two versions of the server and another program, all codes of 6 bytes of 3 values, a pattern of 4 bytes | `PatchedInPlace`, `RedirectedPatched`, `ProgramRuns`, `RedirectedInTheEnd`. Six bytes hold the pattern at every place, at none, and after a false start. |

Symmetry is used in `PhpPlasma_sessions` only: `c1` and `c2` are interchangeable, and so are `p1` and `p2`, in the constants and in
every property; the run has no liveness property.

### What the violations are

* `PlasmaClient_cross`: a thread fetches the result of another's query, and its player is logged in to the other's account.
* `PhpTheater_recount`: a restart deletes `games` and numbers them from 1 again but keeps `gdet`, so the slots of earlier games are counted.

Other things seen on the way, which no run is spent on: frames of overlapping calls are garbled (the static buffer of `SendPacket`
is filled by two threads, or reallocated under one), and after two reallocations at once the block may be smaller than `buffsz` says, so that a later call writes past it all alone;
a text with a `%` goes through `vsprintf` as a format without arguments, and the servers send such texts themselves (`%3a` in `curTime`, `%3d` in `telemetryToken`, whatever a client's nuid holds);
a packet counter past 2^24 changes the type byte above it; a player who logs in in two spellings can leave his account online after both Goodbyes (choosing a persona can put his
connection back on the session of the other spelling, which has been logged out already, so that the last Goodbye clears nothing); a banned account gets in by key where it was refused in another spelling only, or nowhere since the restart; a report for a persona that has been disabled may be added to the row of the account's other persona;
a player on a persona without a row of statistics may be told those of the persona before; the keys to be set or averaged
(`statsSetValues`, `statsAverageValues`) are looked up with `isset` as keys but are values, so every statistic is added up; a second NuLogin on one connection leaves the first account online (old C++,
line 118; `OnlineHasSession` is stated for players with one account each); a PHP connection that breaks leaves its player online until the next
restart; one log-out clears the rows of another connection on the same account (old C++, line 575); a game server that has
reconnected is taken from the list when its old connection is given up (`ServedListed` says when this cannot happen); the log-in by key looks for
bans of type `c` only (CSocket.class.php:890), while the schema and the log-in by password have `x` as well (`BannedByKeyOnly`); a report through a game server's connection
that has looked nobody up ends the process at its next GetStats (`fatal`); the pattern of the R30 server is never reached, because `CheckVersion` decides on R32's first (BC2.cpp:71);
`SetPacketValue` is detoured after the look-ups of names; `randomString` writes its terminator one past the block.

## 4. Fairness

* `ServerProcess`: weak fairness of the steps of `main`, of the constructors, of the listener and of each thread, which the operating system's scheduler
  gives while the process is there; of a NULL from `RecievePacket` only once the peer has hung up, because then `recv` returns. Connections, failing accepts, packets,
  hang-ups and the operator's click on a message box are owed by nobody. `PlayersServed` therefore has a player wait for one who stays.
* `PlasmaClient`: weak fairness of what a thread does between two packets; packets are not owed. `TheaterClient` and `MasterServer` state safety only.
* `RankTransfer`, `RankConnection`: of the thread, of the network delivering what was sent, and of the player sending the rest of a query he has begun — without
  that, `QueryAnswered` would say something about the player, not the server.
* `PhpTheater`: of giving up a dead connection, since the loop comes back to each connection `select` reports, and a dead one always is.
* `ClientHook`: of the loader, of the thread, of each module the program loads and of its decryption. The message box the thread may show is not owed.

## 5. Proofs

Eight modules hold the proofs; one covers a module and, where the state is shared, the module it extends. Each defines inductive invariants that contain
the properties and what is missing to make them inductive, shows that the initial states have them and that every step keeps them (one step or lemma per action), concludes
`Spec => []IInv` and reads the theorems off it. TLC has checked each of these invariants on the instances of section 3. The theorems hold for every value of the constants that
meets the named assumptions, bounds included. Every safety property and action property of a passing run has a theorem.

| Module | From | Proved | What makes it inductive |
|---|---|---|---|
| `ServerProcess_proofs` | `SlotAssumption` | `Handover`, `RegistryExact` | `ListenerHolds`: what the listener has in hand at each stage, and that it has no thread yet; `NoThreadWithoutObject`. The steps of `ServerProcess` are steps of `SocketServer`, leave its variables alone or end the process. |
| `SendBuffer_proofs` | `FrameAssumption` | `FrameIntact`, `FaultCause`, `NumbersInOrder` | `Numbered`: the counter is ahead of the frames sent by one, from the time a call has taken its number; `Alone`: a call that has met no other is the only one under way; `Sized`: until calls overlap, the block is what `buffsz` says; `BuiltBy`: what a call that met no other has written is still there at each stage |
| `MasterServer_proofs`, on `PlasmaClient` | `AccountAssumption`; `OneEach` for `OnlineHasSession`; `Apart` for `SessionFindable` and `OfflineWhenDone` | type invariant, `AuthenticatedSession`, `OnlineHasSession`, `SessionFindable`, `OfflineWhenDone` (the safe half of `LogoutCompletes`) | `OwnResult`: if the statement was last executed by this thread, it holds the answer to the question the thread waits on; `UserByLogin`; `LoginHeld`: a thread about to write a login is logged in, with a row of the table; `LoggedOut`: which rows a thread past its logout has cleared |
| the same, on `MasterServer` | the same; `Apart` for `RefusedOnlyOnClash` | `NamedByIssuedKey`, `RefusedOnlyOnClash` | the key followed from the thread that drew it (`KeyDrawn`) to the reply (`KeySent`), the row (`RowKeyIssued`), the result (`FoundIssued`) and the player named; on top of `PlasmaClient`'s `IInv` |
| `TheaterClient_proofs` | `RequestAssumption` | `TidAgrees` | `InStep`: the server's count is the client's, or behind for good; `Unreplied` |
| `RankConnection_proofs` | `RankAssumption`, `ValueRoomAssumption` | `HeldIsSent`, for pieces that come whole and over the stream; `StreamKept`; `ReplyCut`; `PacketsFit`; that `RankConnection` implements `RankTransfer` | `IInv`: a transfer's size is the query's. `SInv`: `InStep`, what of the first packet has been read at each stage of `RecievePacket`; `Consecutive`, the packets under way follow on each other. `RInv`: `CutAt`, how much of the reply is left after so many chunks, `Sound`, that a packet's length covers what is printed from its variables, `InArrays`, that the variables fit their arrays, and `SpillKnown`, which value did not |
| `PhpStats_proofs`, on `PhpPlasma` | `PlayerAssumption`; `OneAccount` for the last three | `OwnSession`, `LookupKept`, `RefusedStaysOut`, `BannedByKeyOnly`, `KickTarget`, `OnlineExplained`, `SoleSession` | `TablesOwn`: whatever a table finds for an account is a session of it; `NewestOnline` and `KickInv`: which session and which connection the tables keep when there are several; `SoleInv`: what every table says of a connection that is alone |
| the same, on `PhpStats` | `PlayerAssumption`, `ReportAssumption`, `Spelled` | `RowsOwn`, `ReportsKept`, `AnswerOwn` | `PersonaTable`: what the table by persona finds is a session of the persona's account; `CopiesOwn`: a session's statistics were loaded for a persona of the session's account; `HeldMade`: a game server holds a session that has been made |
| `PhpTheater_proofs` | `ServerAssumption` | type invariant, `RegistryPoints`, `OnlineHasServer`, `ServedListed`, `TicketMeets`, `ImplementsDirectory` | `RowsNumbered`: ids are given in order, so an insert overwrites nothing; `OneGamePerAddress`; `GidRow`: a connection's `gid` is the row of its own address |
| `ClientHook_proofs` | `CodeAssumption` | `PatchedInPlace`, `RedirectedPatched`, `UnhiddenFound` | `Matched`: what the scan has found after each byte; `OnceInit`: the first thread takes the jump once; `HooksDone`: what has been done at each stage of `InitHooks` |

**Hypotheses.** Some theorems say of which players they hold, because the code is right of these only. `OneAccount` (PHP: each connection's player keeps to one account): a second log-in with
another account leaves the first one's session in the tables, registered for a connection that has moved on. `OneEach` (old C++: one account with one persona): a second log-in
overwrites `user_id` or `persona_id`, and nothing is left to log the first one out by. `Spelled` (PHP: accounts are only typed as they are stored): two sessions of one account
in two spellings do not replace each other, and both hold copies of its rows; `OnlineExplained` speaks of accounts typed in one spelling for the same reason. `Apart` (old C++: no account on two connections): the log-out of one connection clears the row the
other has just written. The instances of the runs that check these properties satisfy the hypotheses, with two players each; properties without one are checked
and proved for players with several accounts.

**Refinements.** `ImplementsDirectory` is proved by showing that the initial state maps to the directory's and that each action maps to `Offer`, `Withdraw`, `Join`, `Restart` or a stutter; the whole
of `Directory!Spec` is safety, so nothing of it is left out. `TransferOverStream` shows that each `recv` that completes a piece is a step of `RankTransfer` and any other leaves its variables alone; the fairness
of `RankTransfer` is not part of it. `TypeOK` of `PhpTheater` says there is an id for every address; `RoomForGame` proves it by counting: the rows inject into the other addresses.

**What loops compute.** Three theorems are about loops of the code over texts of any length: `ReplyCut` and `PacketsFit` (a reply is built variable by variable and cut into chunks) and `PatchedInPlace` (the search). The library's
induction theorems take a predicate, which the provers installed cannot instantiate; `Least` and `Induct` state induction for a *set* of numbers instead, from the well-foundedness of the
naturals, and `Recursion` derives from it that a recursive function is what its equation says. So `PacketsFit` follows from an equation between what `SetVar` adds to the length and what `GetData` prints,
kept by every `SetVar`; and `FindPattern` is shown to find a place that has the whole pattern, with every earlier one hidden behind an unfinished match (`FindPatternFinds`), and not to miss one that
nothing hides (`UnhiddenFound`), which is what `RedirectedInTheEnd` presumes. `PacketsFit` takes the number of keys as unbounded, where the code's `int` ends; a query that reaches that end would not fit the address space.

The steps after a result went to the wrong thread are covered by `MasterServer_proofs` too; only what `~crossed` guards is not claimed of them.

Model-checked only: the liveness properties, which like ENABLED are beyond TLAPS here: `DeadUnlisted`, `LogoutCompletes` (its safe half is proved), `PeerGoneReleased`, `GameServersServed`, `PlayersServed`,
`QueryAnswered`, `ProgramRuns`, `RedirectedInTheEnd`.

## 6. Assumptions and what is left out

* Queries succeed, except for results without rows or columns (old C++) and the connection made at the start (`ServerProcess`); a MySQL connection lost later is not modelled.
* A socket delivers what was sent or ends. Partial reads are modelled for rank queries only, elsewhere a packet comes whole.
* A silent peer blocking the PHP loop in `fread` is not modelled: a handler runs when its packet is there. Of SSL only the waiting in `SSL_accept` is.
* Game servers' Plasma accounts are not players' accounts; values of single statistics and the table of ranks are not modelled.
* The destructor of the socket server never runs.
* Passwords, names and texts are atoms, or lengths where blocks are made for them. Nuids have spellings where the code tells them apart; what a `%` in a text does is a set of lengths printed, or undefined.
* The older copies of the C++ files that also exist in `src/Plasma` and `src/Theater` are the same code and are covered by the same modules.

Not modelled, and why: PHP account and persona creation, dog tags, rank data in pieces on the PHP side (section 7); the PHP helpers and the schema, which are sequential and
whose results the models take as data; `oneAtATimeHash`, `DeleteOldHook`, consoles and logging, which decide nothing modelled; the bytes of Base64, settings and formatting.

The modules cover a modest share of the repository's lines. About 9,200 of its 14,271 lines are headers of DirectInput, curl and Detours under `src/ClientHook`, which
are other projects' declarations; much of the rest is a second or third copy of a file a module is mapped to once, and long constant replies.

## 7. Plan

Next, in this order:

1. `PhpAccounts`: NuAddAccount, NuAddPersona of both sides (`CSocket`, `SSocket`), with the limit of personas and the uniqueness of names; dog tags and the key of
   their table.
2. Rank data in pieces in `PhpStats`: the buffer a player's and a game server's connection share (`rank_receiving` stays set after a query without keys); `getRankByScore`
   against a reference table.
3. A database that fails (`db.php`): queries that return false, and the handlers that go on with it.
4. Theorems: the safe halves of the other liveness properties, as `OfflineWhenDone` is that of `LogoutCompletes`: which step is possible wherever a thread of `ServerProcess`, a query of
   `RankTransfer` or a dead connection of `PhpTheater` has not come to its end, and that what has been released, answered or withdrawn stays so.
