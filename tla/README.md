# Verification of web-cards

`web-cards` is a C++20 web server (Boost.Asio and Beast) on which a family
plays two card games, *Enfer* (bids and tricks) and *Uno*, in lobbies reached by
websockets. This directory holds TLA+ modules of the parts of it that have a
state, the TLC configurations that check them on small instances, and proofs of
their main properties for every value of their constants.

    tlc -workers 2 -config MCEnferSmall.cfg MCEnfer     # check a run
    tlapm EnferProofs.tla                               # check the proofs of a module

Source paths below are under `src/src/`.

## 1. The system

| component | state | operations | talks to |
|---|---|---|---|
| Enfer engine (`cards/Enfer.cpp`) | hands, bids, tricks taken, strong card, trick on the table, whose turn, round, score sheet | constructor, `setTarget`, `play`, `gotoNextRound` | called by its lobby, under the lobby's mutex |
| Uno engine (`cards/Uno.cpp`) | deck, discard pile, hands, card to follow, whose turn and direction, draw in progress, scores | constructor, `play`, `draw`, `drawDone`, `nextGame` | called by its lobby, under the lobby's mutex |
| Lobbies (`server/BasicLobby.cpp`, `LobbyEnfer.cpp`, `LobbyUno.cpp`) | players in order, a multimap session → weak pointer to a connection, the game once started, a mutex | `canJoin`, `join`, `leave`, `onMessage` | the server (`getUser`), the engines, every connection (broadcasts while locked) |
| Global lobby (`server/GlobalLobby.cpp`) | its own list of lobbies, its connections, a mutex | `join`, `leave`, `onMessage` (creates a lobby), `onLobbyAdd`, `onLobbyDelete` | observer of the server; asks every lobby `canJoin` |
| Server (`server/Server.cpp`) | map name → lobby, sessions → users, a mutex | `addLobby`, `canAcceptConnection`, `acceptConnection`, `onMessage`, `removeConnection`, `getUser`, `handleRequest` | lobbies and observers |
| Websocket session (`server/WebsocketSession.cpp`) | a queue of messages, the stream, shared ownership, a mutex | `run` (accept, read, dispatch), `send`, `close`, destructor | the server; a coroutine of its own writes the queue |
| `main.cpp` | two io threads, a coroutine per connection | `do_listen`, `do_session` | creates sessions |
| Repositories, `Helper.cpp` | tables read from files; none | look up, format | called by the server and the lobbies |
| Web pages (`web/game/`) | what a window asks its player, the message it can ask again, whether cards can be clicked, a websocket | show a message, send a request, connect again | send the messages lobbies handle |

A coroutine gives up its thread only in an asynchronous accept, read or write.
Everything else, from the end of a read to the start of the next one, is run by
one of the two threads without interruption, while the other thread does the
same for another connection. Mutexes protect each object; a call that touches
several objects does so in several critical sections.

### What is hard here

* **Two threads between two critical sections.** `getLobby`, then the lobby's
  own mutex, then the server's again to erase: each decision can be old when it
  is used.
* **Destructors that run anywhere.** A connection leaves its lobby in
  `~WebsocketSession`, on the thread that drops the last pointer; its weak
  pointers expire before that.
* **One queue, several senders, one writer that comes and goes.** `send` starts
  a coroutine for the first message only; the coroutine ends when it empties the
  queue, possibly while somebody adds to it.
* **Three kinds of mutexes**, taken by one path in the order server, global
  lobby, lobby, and by another (`join` → `getUser`) in the order lobby, server.
* **Pages that forget what they asked.** A page hides its buttons before it sends
  a request and shows some again only when a message says so: each way through
  `onMessage`, a refusal or an exception included, must send one. Two windows of
  one player, a connection that breaks and comes back, a request that crosses the
  move of somebody else: the page keeps what it showed last.
* **Only what changed is sent.** `LobbyUno` sends a hand to the player whose hand
  changed and the scores when a game ended; nobody asks again for the rest.
* **Rules with long memories.** A trick stays on the table after it was won; a
  draw leaves its quantity behind; a game ends by a draw that its last card
  imposed; a score adds to the line before.

`PROJECT.json` lists each hazard at its line, with the properties that cover it
or why none does.

## 2. Modules

| module | models | proofs |
|---|---|---|
| `EnferGame`, `EnferProperties` | the Enfer engine and what makes it right | `EnferProofs` |
| `EnferTable` | what Enfer promises to the table, without cards: order of bids, plays, tricks, rounds | `EnferProofs` |
| `UnoGame`, `UnoProperties` | the Uno engine, what makes it right, and what the Uno page lets a player ask | `UnoProofs` |
| `UnoTable` | what Uno promises to the table, without cards: whose turn, which draws, what is offered | `UnoProofs` |
| `UnoBoard` | the Uno engine inside `LobbyUno::onMessage`: what each player was last told of the cards | `UnoProofs` |
| `LobbyPages` | what the two lobbies share: seats and names, messages on their way, what a window shows | |
| `EnferLobby`, `EnferLobbyProperties` | `LobbyEnfer` over `EnferTable`, with the script of `enfer.html` | `EnferLobbyProofs` |
| `UnoLobby`, `UnoLobbyProperties` | `LobbyUno` over `UnoTable`, with the script of `uno.html` | `UnoLobbyProofs` |
| `SessionQueue`, `SessionQueueProperties` | the sending half of a session and its ownership | `SessionQueueProofs` |
| `FifoChannel` | what the queue promises: a FIFO channel | `SessionQueueProofs` |
| `ServerLocks`, `ServerLocksProperties` | the mutexes, the two lists of lobbies and the clients' pages | `ServerLocksProofs` |
| `LobbyServer`, `LobbyServerProperties` | the life of a lobby: connections, seats, start, end, erasure | `LobbyServerProofs` |
| `Queues`, `Lemmas` | how a queue of messages ends; lemmas on naturals, sums and queues that several proofs need | |
| `MC*` | instances for TLC, with one `.cfg` per run | |

How they fit together: each lobby is specified over the table of its game
(`EnferTable`, `UnoTable`), which the engine implements (`ImplementsTable`), so
that a lobby and its pages are explored without the cards. Messages reach a page
in order because `SessionQueue` implements `FifoChannel`. Where a connection is
between its break and the end of `leave`, and how a lobby is found and erased, is
in `LobbyServer`; who locks what meanwhile in `ServerLocks`.

Each component has one action per operation. Definitions keep the names of the
code. The definitions named `X_Something`, just before `X`, are mistakes the code
could have made: they are used by no module and serve to check that each property
notices one.

**EnferGame.** `Play` is the whole of `Game::play` and `Round::play`: the rule to
follow suit, the clearing of the last trick, the search for the winner, the score
of a finished round. A request the code refuses throws before it assigns
anything, so it is no step. The shuffle is a choice among all deals. `hands` are
sets: the code sorts them and never reads the order.

**UnoGame.** `PlayHandCard` and `PlayDrawnCard` are the two ways through
`Game::play`, including the fall-through by which a card that is not in the hand
is looked for on the deck. The deck is a sequence; of the discard pile only the
top is ever read. Cards that are equal for `operator==` are different objects
here. `ClientNext` restricts the requests to those `game/uno.html` offers: what
`PlayHasACard` and `TurnPasses` say holds of these; the engine itself takes more.

**UnoBoard.** The actions of the engine with the messages that `onMessage` sends
for each: `Refresh` is `refreshPlay` (to all after START and NEXT, to the player who
played or drew otherwise) and the scores if the game ended. `told[p]` is what the
windows of `p` were last sent.

**LobbyPages, UnoLobby, EnferLobby.** `onMessage`, `join` and `leave` run under the
lobby's mutex: one step each. `toPage` and `fromPage` are the messages on their way
between the lobby and a window, in order; a connection that breaks (`Drop`) loses
both, and the window connects again (`Join` with `loaded = FALSE`) or is loaded
anew. `page` is what the script shows: `prompt` is the part of the page that is
visible, `last` is `lastMsg`, what `refuseCard()` shows again, `active` that the cards
of the hand can be clicked. A message is its type and the entries that decide which
buttons are shown (`can_draw`, `playable.drawn`, `playable.hand`). `Buttons` is what can be
pressed, `Receive` what `eventNetworkUpdate` does. Each action of a lobby that
accepts a request is the corresponding action of the table; the refusals are
`OutOfStep` (`NotPlayerTurn`, `ActionOutOfStep`), `Illegal` (`IllegalChoice`) and
`RefuseOther` (every other exception). A choice is marked `"old"` when the game moved on
after it was made: the engine may then find it illegal. Choices that match the
state are accepted: which cards they are is the engines' affair. In Uno the player
whose turn comes is any of those seated, and the first game starts from a table
that waits for one; `noCards` is a draw for which `readyDraw` finds no card (the players
hold all but the top), of which the page gets an empty string and shows nothing
(`Show`). END is two steps, as in the code: `HandleEnd` tells everybody under the lobby's
mutex, with the game as it was, and `Erase` is the same coroutine under the server's
mutex; other connections are answered in between. A card of an active hand is clicked under
any prompt. `strayed` is a history variable: the windows in which a card was clicked
that nothing had asked for, until something is shown again.

**SessionQueue.** A broadcaster holds the lobby's mutex and goes through
lock, push, spawn and release for this session; `Runner` is the session's own
coroutine. The coroutine spawned for a message has its own `writer` state.
`Owners` are the shared pointers alive; whoever drops the last one runs the
destructor (`destroyedBy`), and a broadcaster who does so is `"stuck"`: the
destructor waits for the mutex its own thread holds.

**ServerLocks.** `pc` of a thread names the `lock_guard` it is at; `Holds` and
`Wants` follow. Sections that take one mutex with nothing held and give it back
are part of the step that follows. `view` is what a client's page will show when
all messages sent to it are delivered. A lobby object stands for its name as well:
it can be used again when no thread refers to it, as a name can.

**LobbyServer.** One step is one critical section; `Threads` bounds how many
connections are in the middle of an operation. `pc` of a connection is where its
coroutine or destructor is; `at` its endpoint; `target` the lobby pointer the
thread holds. `Leave` models `players_.erase(players_.end())` by what this build
does: the last player goes or, when there is none, memory before the vector is
written (`fault = "crashed"`, after which nothing is claimed).

## 3. Runs

All constants are named in the `.cfg` files. `CHECK_DEADLOCK FALSE` is used where
the system really may stop: a finished game, senders that have sent all the
messages of the bound, lobbies that were all used.

| run | instance | shows |
|---|---|---|
| `enfer_small` | 2 players, 2 kinds × 2 values, 2 rounds | one score line per finished round; whoever is asked can answer; the game ends |
| `enfer_tricks` | 3 players, 3 kinds × 2 values, 2 rounds, the kinds symmetric | the engine implements `EnferTable`; the right player takes a trick; no card twice; suit is followed; all bids come true only if they add up; points and bids are never taken back |
| `uno_game` | 3 players, 5 cards (all effects but the change of colour), 2 games, what the lobby sends | no card lost; an empty hand ends the game; a draw falls short only when all other cards are held; +2 and +4 cannot be dodged; each game scored once, with one winner; the engine implements `UnoTable`; each player was told his hand, the table and the scores as they are |
| `uno_client` | 2 players, 5 cards with both wild cards, 2 games | with the requests of the page, a player who keeps his turn has a card to play, no turn is stuck unless nothing is left to draw |
| `session_queue` | a broadcaster and the runner, 2 messages each | one write at a time; nothing lost at destruction; a FIFO channel; everything is written |
| `session_owner` | the same, 1 message each | violation, see findings |
| `server_locks` | 2 threads, 2 lobbies, 2 clients | no deadlock; map, list and pages agree |
| `lobby_life` | 3 connections of 2 sessions, 2 lobbies with one name, START at 1 player | seats follow connections before the start and are kept after it; every dead entry is on its way out; the creator plays; a listed lobby with a finished game has a thread about to erase it |
| `lobby_leave`, `lobby_rejoin` | 3 connections of 2 sessions, 1 lobby, START at 2 players | violations, see findings |
| `uno_lobby` | 2 players, one window each, both may break | a page to which nothing is on its way asks for what the game waits for, unless it lost the question of a draw (section 5), and only that of the player it waits for |
| `enfer_lobby` | 2 players, one with a window that may break, one with two windows | a page to which nothing is on its way shows what the game waits for, with cards that can be clicked if one is asked for; no page stays empty |

### Bounds, and why they are enough

* *Enfer.* Three players are the least the lobby starts with, and the least for
  which "next", "previous" and "other" differ. Two rounds, the second without a
  strong card, are what `numberOfRounds` gives for these decks, as 51/n + 1 is for
  the real one; the second round has two tricks, so that one follows another. Two
  kinds do not suffice for the winner of a trick: the third one makes a card that is
  neither led nor strong. `GameEnds` is a liveness property, for which symmetry is
  not sound: it is checked with two players and without symmetry.
* *Uno.* Hands of one card make the end of a game, an empty deck and a reshuffle
  frequent. The decks are chosen so that each effect is in one of them. Two games,
  so that a score meets the next deal and a draw what the last one left behind.
  Three players for the engine, so that a skipped turn falls on somebody else; two
  for the page, where the cards matter and the seats do not. Every hand, deck and number
  of players is covered by the proofs.
* *Pages.* Two players: the creator, who is asked for the start, the next game and
  the end, and another one, who has no name yet (`LoggedIn`). `Breaking` names the
  windows whose connection may break, `MaxInbox` and `MaxRequests` the messages on
  their way to a window and from it: two to a page, as many as one answer sends to
  it, and one from it, for a page hides its buttons when it sends. Two windows of
  one player are in `enfer_lobby` only; the proofs have any number of both.
  `TrickCount` gives the second round two tricks, as in `enfer_tricks`.
* *Session.* Two senders, of the two kinds, with two messages each: a queue that
  empties and fills again while the coroutine ends.
* *Server.* Two threads, because `main()` has two. Two lobbies for an addition
  that meets an erasure. Two windows of one session and one of another, because
  `leave` tells them apart; two lobbies with one name, one after the other,
  because an erasure goes by name.
* `MinPlayers` is 3 in the code. The models of a lobby take 2, or 1, which only
  makes a start possible with fewer connections. The sessions of a lobby run are
  the players of its table, so nobody is left out of a game that started.
* `MaxGames`, `MaxRound` and `MaxSends` bound counters that the code leaves free; lobbies
  of `LobbyServer` are created at most once each.

### Fairness

* `EnferProperties!FairSpec`, weak fairness of the whole next step: players who
  keep answering and a creator who asks for the next round. The code imposes no
  timeout; a player who goes away stops the game, and `GameEnds` says nothing of it.
* `FairClientSpec`: the same for Uno.
* `SessionQueue!FairSpec`: a thread inside `send` goes on, a coroutine that was
  started is run, and a write completes, at the latest by an error when the
  stream's idle timeout (`timeout::suggested`) expires. Nothing makes anybody
  send, answer or leave.

The lobbies have no liveness property: that a page gets to show something is said
of the states in which nothing is on its way, and that a finished lobby goes, of
the thread that is about to erase it, so that neither needs fairness.

## 4. Proofs

All are invariance or refinement proofs by TLAPS, without bound on the constants.
Every invariant and every action property of the passing runs has its theorem; the
runs check on small instances what the theorems state for all. Some theorems have a
hypothesis, which their paragraphs explain: two threads for `NoDeadlock`, three players
for the table of Uno.

**`Lemmas`.** `LeastNatural` proves that a non-empty set of naturals has a least
element, `NaturalsAreReached` induction as a statement about the set of the numbers
reached: the library states induction with an operator as parameter, which the
provers cannot instantiate. With it the loops of the engines are reasoned about
(`ScanExists`: the recursive function that a loop is modelled by has a solution), and so
is `SumFunction`: sums of zeros (`SumOfZeros`), and one more at one place is one more
in all (`SumRaised`). The lemmas on queues say when a message stays the last of its
kind on its way to a window.

**`EnferProofs`**, from `PlayersAssumption` (at least one player, at most one per card),
`DeckAssumption` (a finite deck), `RoundsAssumption` (the condition under which
`numberOfCardsForRound` does not throw) and `NoneAssumption`. `IInv` adds to the
properties where the round stands: `BidsBeforeCards`, `BidsInTurn` (the first k seats
from the starting one have bid), `CardsInTurn` (the turn is as many seats from the
leader as there are cards in the trick) and `EvenHands` (all have played the same number
of cards, the open trick aside). `BidsInTurn` is needed for the score sheet: nobody bids
twice, so play starts when the turn is back at the leader. `EvenHands` is needed for the
trick: all hands are empty together, when a trick ends and never before, so the round is
scored once and whoever is asked has a card. `SuitIsFollowed` needs `CardsInTurn` to
know that the player of the new card has no other card in the trick. From `IInv`:
`TypeCorrect`, `ScoreSheetMatchesRounds`, `CardsAreUnique`, `SuitFollowing`,
`SomebodyCanMove`; `SheetIsFinal` (`PointsRise`: each line of the sheet adds to the one
before); and `EngineImplementsTable`, the step simulation of `EnferTable`, by
`PlayHeld`: what everybody holds, the open trick included, goes down by one card when a
trick is finished, and not before, so a play is `PlayCard` or `CloseTrick` of the table.
`TricksGoToTheBestCard` is about the loop over a finished trick: after k cards the best
so far is of the strong kind if one of them is, of the kind led otherwise, and the
highest of its kind (`BestSoFar`, kept by one turn of the loop in `ScanKeepsBest`).
`Stronger` does not order the cards, for of two cards of different kinds, neither of
them strong, none beats the other: that the card kept is always of the strong kind or of
the kind led is what makes comparing each card with the best so far enough.
`ExactBidsAddUp` rests on a conservation law, `TricksCounted`: the cards anybody still
holds and the tricks all have taken make the number of cards of the round. When the
hands are empty the tricks taken are as many as the cards were, and if all bids came
true they are the bids.

**`SessionQueueProofs`**, from the assumptions that senders and messages are
different things. The invariant counts servers of the queue: exactly one
coroutine is active or about to be spawned when the queue is not empty, and none
otherwise (`OneServer`); a message yet to come has no coroutine (`SpawnedOnce`),
or a second spawn could overwrite one that still writes; the object is destroyed
when it has no owner and only then. From it: `WritesExcludeEachOther`,
`DestructionLosesNothing`, and `ChannelRefinement`, step simulation of
`FifoChannel` under the mapping *pending = the queue without the message whose
write has begun, delivered = wire*.

**`ServerLocksProofs`**, from `MutexesAssumption` and `NoneAssumption`. The
invariant says who holds what (`OneHolder`), that a lobby just made is known to
its creator's thread only until its observers are told (`FreshIsPrivate`), and what
is still to be told or sent (`ObserversAreTold`, `ListBeingSent`).
`FreshIsPrivate` is why the two orders of locking do not meet: the thread that
holds the server's mutex and waits for a lobby's waits for a lobby nobody else
knows. From it: `NoTwoThreadsDeadlock` for any number of threads,
`TwoThreadsNeverDeadlock` for the two threads of `main()`, `TheListsAgree`,
`ThePagesAgree`. With three threads the chain server → global → lobby → server
closes and there is a deadlock: raising `nb_threads` needs `getUser` out of the
lobby's lock first, as `GlobalLobby::join` already has it.

**`UnoProofs`**, from `PlayersAssumption`, `CardsAssumption` (finitely many cards, a
colour for those that have one), `ColorsAssumption` and `HandSizeAssumption` (the
hands can be dealt and a coloured card is left, which the 108 cards give to the 15
players `cardsForNbPlayers` accepts). The argument is about where the cards are:
`Split` says that every card is in exactly one of deck, pile, top and hands, `Pack`
that a sequence holds the cards of a set once each, and `Located` joins the two. One
lemma for each way a card moves: `ShuffleIsAPack`, `PackOnPack` and `PackWithoutTop`
for the deck, `PlayedFromHand`, `PlayedFromDeck`, `TakenIntoHand`, `PileUnderDeck` for
the places. `FairDeal` needs a count: N hands leave more cards than there are wild
ones (`CardsDealt`, by the least counterexample), so a coloured card is turned over.
`IInv` adds to the properties `LastCardIsTop`, `OneEmptyHand` (two players without
cards would both win) and `ForcedByTop` (a draw that cannot be declined is the one
of the card on top): without the last, nothing ties the quantity to the card that
imposed it. `CardPlayed` is the second half of `Game::play`, shared by the two actions
that reach it. From `IInv`: `TypeCorrect`, `NoCardLost`, `GamesEnd`, `DrawsAreServed`,
`WinnersAreUnique`, `ScoresAreComplete`, `ForcedDrawsAreTaken`; with the requests of the
page, `PlayersHaveACard` (`StillPlayable`: a drawn card that forbids a +4 can itself be
played); and `EngineImplementsTable`, the step simulation of `UnoTable`, for three players or more: with two, a card that skips a turn lets the
same player play again.

`PlayersSeeTheGame` is about `UnoBoard`, whose steps are those of the engine with what
the lobby sends after them. `BoardsAreRight` is inductive over the invariant of the engine:
the player who played or drew is sent his hand, nobody else's has changed, and the
scores change in the step that ends a game and in no other.

**`LobbyServerProofs`**, from `ConnectionsAssumption` (finitely many connections, each of
one session) and `NoneAssumption`. Names are the difficulty: a
thread finds a lobby by its name, uses it later and erases by name. `UnbornIsUnknown`
(nobody is in, or holds, a lobby that was not made), `ListedOnce` (a lobby has one name)
and `NameIsKept` (who is alive in a listed lobby, or holds a pointer to it, came by the
name under which it is listed) are what makes the count of `EveryDeadEntryIsLeaving`
inductive: an entry that dies is matched by a destructor whose endpoint leads to that
lobby. The count, and not a matching of entries to destructors, is what is kept: a
destructor removes any expired entry of its session, its own or another window's.
`SeatedOnce` is needed for `Leave`, which removes one seat: with two for a session,
`SeatsFollowConnections` would not survive it. `CreatorPlays` is inductive because the START
that begins a game comes from its creator, who must be seated to send it, and no seat
changes afterwards (`SeatsStay`). From `IInv`:
`TypeCorrectness`, `SeatsMatchConnections`, `StartedGameHasItsCreator`,
`DeadEntriesLeave`, `FinishedLobbiesGo`, `SeatsStay`.

**`EnferLobbyProofs`** needs no assumption on the constants: any number of players, windows
and messages on their way. The properties speak of pages to which
nothing is on its way; the invariant says what is on its way to the others. `Follows`: the
last message that shows something is the task of the player or a server error, only
`INPUT_INVALID` coming after it and that only if the task is a choice; or the page shows
the task already, or waits for an answer (`Shows`). `Recalls` is needed for the refusals:
`INPUT_INVALID` makes the page show its last task again, which must be the one the game
waits for when it arrives; the engine finds a choice illegal only in the state that asks
for it. `Greeted` is the same before the start. From it: `TheGameIsShown`, `NoPageIsEmpty`.

**`UnoLobbyProofs`** has the same argument with what differs in `uno.html`. The page has
no case for `INPUT_INVALID`, so `Shows` lets a page be empty only while a request is on
its way that will not be refused (`Refused`), or in a draw it lost the question of
(`Astray`: there is no card to draw, or the window strayed). What a click takes the
player away from can be asked again because it is saved in `lastMsg`
(`LastFollows`); DRAW is not saved, which is why only a draw can be lost. `CardsAreDown`
says that the cards of a player who lost his turn are put away by a message that no other
hand to play with follows; nothing puts away those of the player at whose turn a game
finished, whom `NobodyElseIsAsked` excepts. It needs `WindowsAssumption` (each window is a
player's) and `CreatorAssumption` (the turn is the creator's before the start), and no
assumption on when cards are clicked. From it: `TheQuestionIsAsked`, `TheOthersWait`. The
exceptions of `TheAskedPageAsks` are what goes wrong in the code: `Lost` (a draw) and
`Diverted` (a name given late, a server error, END), all in section 5 but the server error,
which in a game answers only what no button of an up-to-date page sends.

Both invariants of the pages were checked by TLC on the instances of their runs before
they were proved.

Checked by TLC only: liveness (`GameEnds`, `TurnPasses`, `EverythingIsWritten`), which the
prover does not do. The violations of section 5 are found by TLC and need no proof. The
proofs of the pages are over the tables, those of the table over the cards; that the
two compose is the argument of section 2, not a theorem.

## 5. Findings

* **A broadcast can destroy the session it sends to** (`session_owner`).
  `main.cpp:59-61` says that the pointer makes a broadcast finish before the
  session is destroyed. The pointer `Lobby::utilsSendToAll` holds is one per turn
  of the loop: if `run()` returns and the write completes during that turn, it is
  the last, and `~WebsocketSession` calls `BasicLobby::leave` on the thread that
  holds the lobby's mutex.
* **`leave` without a join takes a seat away** (`lobby_leave`). The answer to
  "Did we delete the last" (`BasicLobby.cpp:118`) is yes when nothing was deleted.
  A handshake that fails after `canAcceptConnection` reaches
  `players_.erase(players_.end())`.
* **A lobby with a game in it is erased** (`lobby_rejoin`). `leave` answers "empty"
  under one lock and the server erases under another; a player who comes in
  between, with others who follow, can start a game that nobody can rejoin
  (`README.md:20`).

Noticed without a run, for no line of the repository says what should happen:

* A card of the hand can be clicked in `uno.html` whatever the page asks. Clicked
  during a draw it takes the place of the draw. Confirmed, it is an illegal choice; the
  page has hidden its buttons and has no case for `INPUT_INVALID` (`uno.html:331`): it
  stays empty. Taken back, `refuseCard()` shows the last hand and not the draw, which is
  not saved in `lastMsg`. Either way the game waits until the page is loaded again or
  something is refused out of step. It is `Lost` by `strayed` in `TheAskedPageAsks`, which
  is violated without this exception.
* With no card left to draw, the list of cards is written as an empty string
  (`LobbyUno.cpp:399`): `eventDrawCards` hides the buttons, fails on `forEach`
  (`uno.html:234`) and shows none, so the player can neither draw nor pass, and loading
  the page again does not help. It is `Lost` by `noCards`, and `NothingToDraw` in
  `TurnPasses`.
* END leaves the game as it was until the lobby is erased under another mutex
  (`LobbyUno.cpp:138`, `Server.cpp:315`): a move, a name or a join handled in between sends
  tasks over END, to pages of a lobby that then closes the connection of whoever answers.
  So no property says that a page goes on showing the end.
* The player at whose turn a game finished, if he is not the creator, keeps or is sent a
  hand that can be clicked (`serializeHand` looks at the turn, not at the end of the game).
  What he plays is refused.
* `LobbyUno` answers `SET_USERNAME` as before the start whenever it comes
  (`LobbyUno.cpp:145-163`): a name that crosses the START leaves its player with
  "waiting for start" until the next move. `LobbyEnfer` answers with what the game
  waits for.
* START with fewer than three players takes the button away: the page hides it and
  `SERVER_ERROR` does not show it again.
* The index page creates a lobby without the `game_type` that `GlobalLobby.cpp:66`
  requires (`index-user.html:68-71`), so the request is ignored.
* More than 52 players of Enfer give rounds without cards.

## 6. Not modelled

HTTP requests, cookies, users and files (input and output; one table under one
mutex); the text and format of messages, except what decides which buttons a page
shows, what is drawn of the cards and the players, and messages of type `ERROR`, which
change no button; the wording of user names and the order of seats before a start; the
order of cards in a hand; the inside of the websocket stream, whose reads, writes and
synchronous `close()` run on no common strand; the second constructors of `Game` and
`Round`, which only tests use; tabs that send what no button sends, for the two
lobbies (the engines take every request they accept).

## 7. Plan

Done: the two engines, the session, the locks, the life of a lobby, the two lobbies with
their pages; each of them proved.

Next:

1. Fewer hypotheses: `UnoTable` for two players, where a skipped turn comes back, so that
   `EngineImplementsTable` of Uno holds there too.
2. Names used again in the links of the global lobby's page, which go stale.
