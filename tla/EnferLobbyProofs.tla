--------------------------- MODULE EnferLobbyProofs ---------------------------
(***************************************************************************)
(* Proofs about EnferLobby for any number of players, windows and rounds,  *)
(* and any number of messages on their way: see README.md for the argument. *)
(***************************************************************************)
EXTENDS EnferLobbyProperties, Lemmas

(* Messages differ when their types do.                                      *)
LEMMA PlainFacts == \A t : Plain(t).type = t
  BY DEF Plain, Message

Saves == {Plain("ASK_USERNAME"), Plain("ASK_START"), Plain("ASK_INTEGER"), Plain("ASK_CONFIRM")}

(* What a page makes of a message that asks or tells something.              *)
LEMMA PageShows ==
    ASSUME NEW pg \in Pages, NEW msg \in Greetings \cup Tasks
    PROVE  /\ Shown(pg, msg) \in Pages
           /\ Shown(pg, msg).prompt = msg
           /\ msg = Plain("PLAY_CARD") => Shown(pg, msg).active
           /\ msg \in Choices => Shown(pg, msg).last = msg
           /\ msg = Plain("SERVER_ERROR") => Shown(pg, msg).last = pg.last
<1>1. msg \in Messages /\ Plain("PLAY_CARD") \in Messages
  BY DEF Messages, Tasks
<1>2. msg # Nothing /\ msg.type # "STATE"
  BY PlainFacts DEF Greetings, Tasks, Nothing
<1>3. CASE msg = Plain("PLAY_CARD")
  <2>1. msg.type = "PLAY_CARD"
    BY <1>3, PlainFacts
  <2>2. Shown(pg, msg) = [[pg EXCEPT !.prompt = Plain("PLAY_CARD"), !.active = TRUE]
                             EXCEPT !.prompt = msg, !.last = msg]
    BY <1>2, <2>1 DEF Shown, Saved, AskCard
  <2>3. /\ Shown(pg, msg) \in Pages /\ Shown(pg, msg).prompt = msg
        /\ Shown(pg, msg).last = msg /\ Shown(pg, msg).active = TRUE
    BY <1>1, <2>2 DEF Pages
  <2>4. msg # Plain("SERVER_ERROR")
    BY <2>1, PlainFacts
  <2> QED
    BY <2>3, <2>4
<1>4. CASE msg \in Saves
  <2>1. msg.type \in {"ASK_USERNAME", "ASK_START", "ASK_INTEGER", "ASK_CONFIRM"}
    BY <1>4, PlainFacts DEF Saves
  <2>2. Shown(pg, msg) = [pg EXCEPT !.prompt = msg, !.last = msg]
    BY <1>2, <2>1 DEF Shown, Saved
  <2>3. /\ Shown(pg, msg) \in Pages /\ Shown(pg, msg).prompt = msg
        /\ Shown(pg, msg).last = msg
    BY <1>1, <2>2 DEF Pages
  <2>4. msg \notin {Plain("SERVER_ERROR"), Plain("PLAY_CARD")}
    BY <2>1, PlainFacts
  <2> QED
    BY <2>3, <2>4
<1>5. CASE msg \notin Saves \cup {Plain("PLAY_CARD")}
  <2>1. msg.type \in {"WAITING_START", "WAITING_HOST", "SERVER_ERROR", "WAITING", "WAITING_NEXT", "END"}
    BY <1>5, PlainFacts DEF Saves, Greetings, Tasks
  <2>2. Shown(pg, msg) = [pg EXCEPT !.prompt = msg]
    BY <1>2, <2>1 DEF Shown
  <2>3. /\ Shown(pg, msg) \in Pages /\ Shown(pg, msg).prompt = msg
        /\ Shown(pg, msg).last = pg.last
    BY <1>1, <2>2 DEF Pages
  <2>4. msg \notin Choices
    BY <2>1, PlainFacts DEF Choices
  <2> QED
    BY <1>5, <2>3, <2>4
<1> QED
  BY <1>3, <1>4, <1>5

LEMMA ShownIsAPage ==
    ASSUME NEW pg \in Pages, NEW msg \in Messages
    PROVE  Shown(pg, msg) \in Pages
<1>1. CASE msg \in Greetings \cup Tasks
  BY <1>1, PageShows
<1>2. CASE msg = Nothing
  <2>1. msg = Nothing /\ msg.type = "NOTHING"
    BY <1>2, PlainFacts DEF Nothing
  <2>2. Shown(pg, msg) = pg
    BY <2>1 DEF Shown
  <2> QED
    BY <2>2
<1>3. CASE msg = Plain("STATE")
  <2>1. msg # Nothing /\ msg.type = "STATE"
    BY <1>3, PlainFacts DEF Nothing
  <2>2. Shown(pg, msg) = [pg EXCEPT !.active = FALSE]
    BY <2>1 DEF Shown
  <2> QED
    BY <2>2 DEF Pages
<1>4. CASE msg \in {Plain("CONFIRM"), Invalid}
  <2>1. msg # Nothing /\ msg.type \in {"CONFIRM", "INPUT_INVALID"}
    BY <1>4, PlainFacts DEF Nothing, Invalid
  <2>2. Shown(pg, msg) = [pg EXCEPT !.prompt = msg]
    BY <2>1 DEF Shown
  <2> QED
    BY <2>2 DEF Pages
<1> QED
  BY <1>1, <1>2, <1>3, <1>4 DEF Messages

(* The same of a message as it arrives, and of a refusal.                    *)
LEMMA PageReads ==
    ASSUME NEW pg \in Pages, NEW msg \in Messages
    PROVE  /\ Show(pg, msg) \in Pages
           /\ msg \in Greetings \cup Tasks => Show(pg, msg) = Shown(pg, msg)
           /\ msg = Invalid => Show(pg, msg) = Shown(pg, pg.last)
<1>1. pg.last \in Messages
  BY DEF Pages
<1>2. msg \in Greetings \cup Tasks => msg # Invalid
  BY PlainFacts DEF Greetings, Tasks, Invalid
<1> QED
  BY <1>1, <1>2, ShownIsAPage DEF Show

(* Task, with the state of the table as arguments.                           *)
TaskIn(st, current, s) ==
    CASE st = "SetTarget" -> Plain(IF current THEN "ASK_INTEGER" ELSE "WAITING")
      [] st = "Play"      -> Plain(IF current THEN "PLAY_CARD" ELSE "WAITING")
      [] st = "GotoNext"  -> Plain(IF s = Creator THEN "ASK_CONFIRM" ELSE "WAITING_NEXT")
      [] st = "Finished"  -> Plain("END")

LEMMA TasksInAState ==
    ASSUME NEW st \in {"SetTarget", "Play", "GotoNext", "Finished"}, NEW current, NEW s
    PROVE  /\ TaskIn(st, current, s) \in Tasks
           /\ TaskIn(st, current, s) = Plain("PLAY_CARD") => st = "Play" /\ current
           /\ current /\ st \in {"SetTarget", "Play"} => TaskIn(st, current, s) \in Choices
<1>1. CASE st = "SetTarget"
  BY <1>1, PlainFacts DEF TaskIn, Tasks, Choices
<1>2. CASE st = "Play"
  BY <1>2, PlainFacts DEF TaskIn, Tasks, Choices
<1>3. CASE st = "GotoNext"
  BY <1>3, PlainFacts DEF TaskIn, Tasks, Choices
<1>4. CASE st = "Finished"
  BY <1>4, PlainFacts DEF TaskIn, Tasks, Choices
<1> QED
  BY <1>1, <1>2, <1>3, <1>4

LEMMA TasksAreTasks ==
    ASSUME TypeOK, NEW s
    PROVE  /\ Task(s) \in Tasks
           /\ Task(s) = Plain("PLAY_CARD") => step = "Play" /\ Current(s)
           /\ Current(s) /\ step \in {"SetTarget", "Play"} => Task(s) \in Choices
<1>1. Task(s) = TaskIn(step, Current(s), s)
  BY DEF Task, TaskIn
<1>2. step \in {"SetTarget", "Play", "GotoNext", "Finished"}
  BY DEF TypeOK
<1> QED
  BY <1>1, <1>2, TasksInAState
-----------------------------------------------------------------------------
(* What reading a message leaves.                                            *)
LEMMA ReadingGreets ==
    ASSUME NEW q \in Seq(Messages), q # <<>>, NEW pg \in Pages, NEW requests,
           Greeted(q, requests, pg)
    PROVE  Greeted(Tail(q), requests, Show(pg, Head(q)))
<1> DEFINE msg == Head(q)
<1>1. EndsIn(q, Greetings, {}) /\ msg \in Messages
  BY Tailed DEF Greeted
<1>2. CASE EndsIn(Tail(q), Greetings, {})
  BY <1>2 DEF Greeted
<1>3. CASE msg \in Greetings /\ \A i \in DOMAIN Tail(q) : Tail(q)[i] \in {}
  <2>1. Tail(q) = <<>>
    BY <1>3, Tailed
  <2>2. Show(pg, msg).prompt = msg
    BY <1>1, <1>3, PageReads, PageShows
  <2>3. msg # Nothing
    BY <1>3, PlainFacts DEF Greetings, Nothing
  <2> QED
    BY <2>1, <2>2, <2>3 DEF Greeted
<1> QED
  BY <1>1, <1>2, <1>3, EndIsReached

LEMMA ReadingRecalls ==
    ASSUME NEW q \in Seq(Messages), q # <<>>, NEW pg \in Pages, NEW task \in Tasks,
           Recalls(q, pg, task)
    PROVE  Recalls(Tail(q), Show(pg, Head(q)), task)
<1> DEFINE msg == Head(q)
           new == Show(pg, msg)
           S == {Invalid, Plain("SERVER_ERROR")}
<1>1. SUFFICES ASSUME task \in Choices PROVE Recalls(Tail(q), new, task)
  BY DEF Recalls
<1>2. msg \in Messages
  BY Tailed
<1>3. CASE EndsIn(q, {task}, S)
  <2>1. CASE EndsIn(Tail(q), {task}, S)
    BY <2>1 DEF Recalls
  <2>2. CASE msg \in {task} /\ \A i \in DOMAIN Tail(q) : Tail(q)[i] \in S
    <3>1. new.last = task
      BY <1>1, <1>2, <2>2, PageReads, PageShows
    <3> QED
      BY <2>2, <3>1 DEF Recalls
  <2> QED
    BY <1>3, <2>1, <2>2, EndIsReached
<1>4. CASE (\A i \in DOMAIN q : q[i] \in S) /\ pg.last = task
  <2>1. msg \in S /\ \A i \in DOMAIN Tail(q) : Tail(q)[i] \in S
    BY <1>4, Tailed
  <2>2. CASE msg = Invalid
    <3>1. new.last = task
      BY <1>1, <1>2, <1>4, <2>2, PageReads, PageShows
    <3> QED
      BY <2>1, <3>1 DEF Recalls
  <2>3. CASE msg = Plain("SERVER_ERROR")
    <3>1. msg \in Greetings
      BY <2>3 DEF Greetings
    <3>2. new.last = task
      BY <1>2, <1>4, <2>3, <3>1, PageReads, PageShows
    <3> QED
      BY <2>1, <3>2 DEF Recalls
  <2> QED
    BY <2>1, <2>2, <2>3
<1> QED
  BY <1>1, <1>3, <1>4 DEF Recalls

LEMMA ReadingFollows ==
    ASSUME NEW q \in Seq(Messages), q # <<>>, NEW pg \in Pages, NEW requests,
           NEW task \in Tasks, Recalls(q, pg, task), Follows(q, requests, pg, task)
    PROVE  Follows(Tail(q), requests, Show(pg, Head(q)), task)
<1> DEFINE msg == Head(q)
           new == Show(pg, msg)
           T == {task, Plain("SERVER_ERROR")}
<1>1. msg \in Messages
  BY Tailed
<1>2. CASE EndsIn(q, T, Again(task))
  <2>1. CASE EndsIn(Tail(q), T, Again(task))
    BY <2>1 DEF Follows
  <2>2. CASE msg \in T /\ \A i \in DOMAIN Tail(q) : Tail(q)[i] \in Again(task)
    <3>1. msg \in Greetings \cup Tasks
      BY <2>2 DEF Greetings
    <3>2. new.prompt = msg /\ (msg = Plain("PLAY_CARD") => new.active)
      BY <1>1, <3>1, PageReads, PageShows
    <3>3. Shows(Tail(q), requests, new, task)
      BY <2>2, <3>2 DEF Shows
    <3> QED
      BY <2>2, <3>3 DEF Follows
  <2> QED
    BY <1>2, <2>1, <2>2, EndIsReached
<1>3. CASE \A i \in DOMAIN q : q[i] \in Again(task)
  <2>1. msg \in Again(task) /\ \A i \in DOMAIN Tail(q) : Tail(q)[i] \in Again(task)
    BY <1>3, Tailed
  <2>2. msg = Invalid /\ task \in Choices /\ \A i \in DOMAIN q : q[i] = Invalid
    BY <1>3, <2>1 DEF Again
  <2>3. ~EndsIn(q, {task}, {Invalid, Plain("SERVER_ERROR")})
    BY <2>2, PlainFacts DEF EndsIn, Choices, Invalid
  <2>4. pg.last = task
    BY <2>2, <2>3 DEF Recalls
  <2>5. new.prompt = task /\ (task = Plain("PLAY_CARD") => new.active)
    BY <1>1, <2>2, <2>4, PageReads, PageShows
  <2>6. Shows(Tail(q), requests, new, task)
    BY <2>5 DEF Shows
  <2> QED
    BY <2>1, <2>6 DEF Follows
<1> QED
  BY <1>2, <1>3 DEF Follows
-----------------------------------------------------------------------------
(* A click leaves a page in v, and the other windows alone.                  *)
Leaves(v, pg) ==
    /\ v \in open
    /\ UNCHANGED <<lobbyVars, open, toPage>>
    /\ fromPage' \in [Windows -> Seq(Requests)]
    /\ page' \in [Windows -> Pages]
    /\ page'[v] = pg
    /\ \A u \in Windows \ {v} : fromPage'[u] = fromPage[u] /\ page'[u] = page[u]

LEMMA AskLeaves ==
    ASSUME TypeOK, NEW v \in Windows, NEW type, NEW card, NEW pg \in Pages,
           Ask(v, type, card, pg), [type |-> type, card |-> card] \in Requests
    PROVE  Leaves(v, pg) /\ fromPage'[v] # <<>>
<1> DEFINE r == [type |-> type, card |-> IF Choice(type) /\ Behind(v) THEN "old" ELSE card]
<1>1. r \in Requests
  BY DEF Requests
<1>2. /\ v \in open
      /\ fromPage' = [fromPage EXCEPT ![v] = Append(@, r)]
      /\ page' = [page EXCEPT ![v] = pg]
      /\ UNCHANGED <<lobbyVars, open, toPage>>
  BY DEF Ask
<1> HIDE DEF r
<1>3. fromPage \in [Windows -> Seq(Requests)] /\ page \in [Windows -> Pages]
  BY DEF TypeOK
<1>4. Append(fromPage[v], r) \in Seq(Requests) /\ Append(fromPage[v], r) # <<>>
  <2>1. fromPage[v] \in Seq(Requests)
    BY <1>3
  <2>2. /\ Append(fromPage[v], r) \in Seq(Requests)
        /\ Len(Append(fromPage[v], r)) = Len(fromPage[v]) + 1 /\ Len(fromPage[v]) \in Nat
    BY <1>1, <2>1
  <2>3. Len(<<>>) = 0
    OBVIOUS
  <2> QED
    BY <2>2, <2>3
<1> QED
  BY <1>2, <1>3, <1>4 DEF Leaves

LEMMA ClickLeaves ==
    ASSUME TypeOK, NEW v \in Windows, NEW pg \in Pages, Click(v, pg)
    PROVE  Leaves(v, pg) /\ fromPage' = fromPage
  BY DEF Leaves, Click, TypeOK

(* The three things a click can do: send a request and hide what was asked,  *)
(* choose a card, and take the choice back.                                  *)
LEMMA PressLeaves ==
    ASSUME TypeOK, NEW v \in Windows, Buttons(v)
    PROVE  \E pg \in Pages :
              /\ Leaves(v, pg) /\ pg.last = page[v].last
              /\ \/ pg.prompt = Nothing /\ fromPage'[v] # <<>>
                 \/ /\ pg.prompt = Plain("CONFIRM") /\ fromPage' = fromPage
                    /\ page[v].prompt = Plain("PLAY_CARD")
                 \/ /\ pg.prompt = Plain("PLAY_CARD") /\ pg.active /\ fromPage' = fromPage
                    /\ page[v].prompt = Plain("CONFIRM")
<1> DEFINE pg == page[v]
           away == [Hidden(pg) EXCEPT !.active = FALSE]
           asked == [pg EXCEPT !.prompt = Plain("CONFIRM")]
<1>1. pg \in Pages /\ pg.prompt \in Messages
  BY DEF TypeOK, Pages
<1>2. {Nothing, Plain("CONFIRM"), Plain("PLAY_CARD")} \subseteq Messages
  BY DEF Messages, Tasks
<1>3. /\ Hidden(pg) \in Pages /\ Hidden(pg).prompt = Nothing /\ Hidden(pg).last = pg.last
      /\ away \in Pages /\ away.prompt = Nothing /\ away.last = pg.last
  BY <1>1, <1>2 DEF Hidden, Pages
<1>4. asked \in Pages /\ asked.prompt = Plain("CONFIRM") /\ asked.last = pg.last
  BY <1>1, <1>2 DEF Pages
<1>5. /\ AskCard(pg) \in Pages /\ AskCard(pg).prompt = Plain("PLAY_CARD")
      /\ AskCard(pg).active /\ AskCard(pg).last = pg.last
  BY <1>1, <1>2 DEF AskCard, Pages
<1>6. /\ pg.prompt.type = "CONFIRM" => pg.prompt = Plain("CONFIRM")
      /\ pg.prompt.type = "PLAY_CARD" => pg.prompt = Plain("PLAY_CARD")
  BY <1>1, PlainFacts DEF Messages, Greetings, Tasks, Nothing, Invalid
<1>7. /\ \A type \in {"SET_USERNAME", "START", "NEXT", "TARGET"} :
            [type |-> type, card |-> "-"] \in Requests
      /\ [type |-> "PLAY", card |-> "hand"] \in Requests
  BY DEF Requests
<1>8. CASE \E type \in {"SET_USERNAME", "START", "NEXT", "TARGET"} : Ask(v, type, "-", Hidden(pg))
  BY <1>3, <1>7, <1>8, AskLeaves
<1>9. CASE Ask(v, "PLAY", "hand", away)
  <2> HIDE DEF away
  <2> QED
    BY <1>3, <1>7, <1>9, AskLeaves
<1>10. CASE pg.prompt.type = "PLAY_CARD" /\ Click(v, asked)
  <2> HIDE DEF asked
  <2> QED
    BY <1>4, <1>6, <1>10, ClickLeaves
<1>11. CASE pg.prompt.type = "CONFIRM" /\ Click(v, AskCard(pg))
  BY <1>5, <1>6, <1>11, ClickLeaves
<1> QED
  BY <1>8, <1>9, <1>10, <1>11 DEF Buttons, CommonButtons, ClickCard

(* What a click leaves of what the page shows.                               *)
LEMMA PressFollows ==
    ASSUME TypeOK, NEW v \in Windows, Buttons(v), NEW task \in Tasks
    PROVE  /\ Greeted(toPage[v], fromPage[v], page[v]) =>
                 Greeted(toPage[v], fromPage'[v], page'[v])
           /\ Follows(toPage[v], fromPage[v], page[v], task) =>
                 Follows(toPage[v], fromPage'[v], page'[v], task)
           /\ Recalls(toPage[v], page[v], task) => Recalls(toPage[v], page'[v], task)
<1>1. PICK pg \in Pages :
              /\ Leaves(v, pg) /\ pg.last = page[v].last
              /\ \/ pg.prompt = Nothing /\ fromPage'[v] # <<>>
                 \/ /\ pg.prompt = Plain("CONFIRM") /\ fromPage' = fromPage
                    /\ page[v].prompt = Plain("PLAY_CARD")
                 \/ /\ pg.prompt = Plain("PLAY_CARD") /\ pg.active /\ fromPage' = fromPage
                    /\ page[v].prompt = Plain("CONFIRM")
  BY PressLeaves
<1>2. page'[v] = pg /\ pg.last = page[v].last
  BY <1>1 DEF Leaves
<1>3. /\ Plain("CONFIRM") # Nothing /\ Plain("PLAY_CARD") # Nothing
      /\ Plain("CONFIRM") # Plain("SERVER_ERROR") /\ Plain("PLAY_CARD") # Plain("SERVER_ERROR")
      /\ Plain("CONFIRM") # Plain("PLAY_CARD") /\ Plain("CONFIRM") \notin Tasks
  BY PlainFacts DEF Nothing, Tasks
<1>4. pg.prompt # Nothing \/ fromPage'[v] # <<>>
  BY <1>1, <1>3
<1>5. Shows(toPage[v], fromPage[v], page[v], task) => Shows(toPage[v], fromPage'[v], pg, task)
  BY <1>1, <1>3 DEF Shows
<1> QED
  BY <1>2, <1>4, <1>5 DEF Greeted, Follows, Recalls
-----------------------------------------------------------------------------
(* What an answer of the lobby changes.                                      *)
LEMMA OutdatedFacts ==
    ASSUME NEW q \in Seq(Requests)
    PROVE  Outdated(q) \in Seq(Requests) /\ (q # <<>> => Outdated(q) # <<>>)
<1> DEFINE now(i) == IF Choice(q[i].type) THEN [q[i] EXCEPT !.card = "old"] ELSE q[i]
<1>1. \A i \in 1 .. Len(q) : now(i) \in Requests
  <2>1. TAKE i \in 1 .. Len(q)
  <2>2. q[i] \in Requests
    OBVIOUS
  <2> QED
    BY <2>2 DEF Requests
<1>2. Len(q) \in Nat /\ DOMAIN q = 1 .. Len(q) /\ (q # <<>> => Len(q) # 0) /\ Len(<<>>) = 0
  OBVIOUS
<1>3. Outdated(q) = [i \in 1 .. Len(q) |-> now(i)]
  BY <1>2 DEF Outdated
<1> HIDE DEF now
<1>4. Outdated(q) \in Seq(Requests) /\ Len(Outdated(q)) = Len(q)
  BY <1>1, <1>2, <1>3
<1> QED
  BY <1>2, <1>4

LEMMA ReplyFacts ==
    ASSUME TypeOK, NEW w \in Windows, fromPage[w] # <<>>, NEW moves \in BOOLEAN,
           NEW out \in [Windows -> Seq(Messages)], Reply(w, moves, out)
    PROVE  /\ open' = open /\ page' = page
           /\ toPage' \in [Windows -> Seq(Messages)]
           /\ \A u \in open : toPage'[u] = toPage[u] \o out[u]
           /\ fromPage' \in [Windows -> Seq(Requests)]
           /\ \A u \in Windows \ {w} : fromPage[u] # <<>> => fromPage'[u] # <<>>
<1>1. /\ toPage \in [Windows -> Seq(Messages)] /\ fromPage \in [Windows -> Seq(Requests)]
      /\ open \subseteq Windows
  BY DEF TypeOK
<1>2. open' = open /\ page' = page
  BY DEF Reply
<1>3. toPage' = [u \in Windows |-> IF u \in open THEN toPage[u] \o out[u] ELSE <<>>]
  BY <1>2 DEF Reply, Send
<1>4. \A u \in Windows : toPage[u] \o out[u] \in Seq(Messages)
  BY <1>1
<1>5. <<>> \in Seq(Messages)
  OBVIOUS
<1>6. /\ toPage' \in [Windows -> Seq(Messages)]
      /\ \A u \in open : toPage'[u] = toPage[u] \o out[u]
  BY <1>1, <1>3, <1>4, <1>5
<1> DEFINE rest == [fromPage EXCEPT ![w] = Tail(@)]
<1>7. /\ rest \in [Windows -> Seq(Requests)]
      /\ \A u \in Windows \ {w} : rest[u] = fromPage[u]
  <2>1. Tail(fromPage[w]) \in Seq(Requests)
    BY <1>1, Tailed
  <2> QED
    BY <1>1, <2>1
<1>8. fromPage' = IF moves THEN [u \in Windows |-> Outdated(rest[u])] ELSE rest
  BY DEF Reply, Take
<1> HIDE DEF rest
<1>9. \A u \in Windows : /\ Outdated(rest[u]) \in Seq(Requests)
                         /\ rest[u] # <<>> => Outdated(rest[u]) # <<>>
  BY <1>7, OutdatedFacts
<1>10. CASE moves
  <2>1. fromPage' = [u \in Windows |-> Outdated(rest[u])]
    BY <1>8, <1>10
  <2> QED
    BY <1>2, <1>6, <1>7, <1>9, <2>1
<1>11. CASE ~moves
  BY <1>2, <1>6, <1>7, <1>8, <1>11
<1> QED
  BY <1>10, <1>11

LEMMA OnlyFacts ==
    ASSUME NEW windows, NEW msg \in Messages
    PROVE  /\ Only(windows, <<msg>>) \in [Windows -> Seq(Messages)]
           /\ \A u \in Windows \ windows : Only(windows, <<msg>>)[u] = <<>>
           /\ \A u \in Windows \cap windows : Only(windows, <<msg>>)[u] = <<msg>>
<1> DEFINE one == <<msg>>
           none == <<>>
<1>1. one \in Seq(Messages) /\ none \in Seq(Messages)
  OBVIOUS
<1>2. Only(windows, <<msg>>) = [u \in Windows |-> IF u \in windows THEN one ELSE none]
  BY DEF Only
<1> HIDE DEF one, none
<1>3. /\ Only(windows, <<msg>>) \in [Windows -> Seq(Messages)]
      /\ \A u \in Windows : Only(windows, <<msg>>)[u] = IF u \in windows THEN one ELSE none
  BY <1>1, <1>2
<1> QED
  BY <1>3 DEF one, none

(* What the messages added to a queue do to what the window shows or is told. *)
LEMMA OneMessage ==
    ASSUME NEW msg
    PROVE  /\ DOMAIN <<msg>> = {1} /\ <<msg>>[1] = msg
           /\ \A T, S : msg \in T => EndsIn(<<msg>>, T, S)
<1>1. DOMAIN <<msg>> = {1} /\ <<msg>>[1] = msg
  OBVIOUS
<1> QED
  BY <1>1 DEF EndsIn

LEMMA AddedMessages ==
    ASSUME NEW q \in Seq(Messages), NEW out \in Seq(Messages), NEW S,
           \A i \in DOMAIN q : q[i] \in S, \A i \in DOMAIN out : out[i] \in S
    PROVE  \A i \in DOMAIN (q \o out) : (q \o out)[i] \in S
<1>1. TAKE i \in DOMAIN (q \o out)
<1>2. CASE i \in DOMAIN q
  BY <1>2, Joined
<1>3. CASE i - Len(q) \in DOMAIN out /\ i = Len(q) + (i - Len(q))
  BY <1>3, Joined
<1> QED
  BY <1>2, <1>3, Joined

LEMMA TaskIsTold ==
    ASSUME NEW q \in Seq(Messages), NEW out \in Seq(Messages), NEW task,
           EndsIn(out, {task}, {}), NEW requests, NEW pg
    PROVE  Follows(q \o out, requests, pg, task) /\ Recalls(q \o out, pg, task)
<1>1. PICK k \in DOMAIN out : out[k] \in {task} /\ \A j \in DOMAIN out : j > k => out[j] \in {}
  BY DEF EndsIn
<1>2. /\ EndsIn(out, {task, Plain("SERVER_ERROR")}, Again(task))
      /\ EndsIn(out, {task}, {Invalid, Plain("SERVER_ERROR")})
  BY <1>1 DEF EndsIn
<1> DEFINE T == {task, Plain("SERVER_ERROR")}
           U == {task}
           S == {Invalid, Plain("SERVER_ERROR")}
<1> HIDE DEF T, U, S
<1>3. EndsIn(q \o out, T, Again(task)) /\ EndsIn(q \o out, U, S)
  BY <1>2, EndIsSent DEF T, U, S
<1> QED
  BY <1>3 DEF Follows, Recalls, T, U, S

LEMMA RemarkIsFollowed ==
    ASSUME NEW q \in Seq(Messages), NEW out \in Seq(Messages), NEW task,
           NEW requests, NEW left, NEW pg,
           Follows(q, requests, pg, task), Recalls(q, pg, task),
           \A i \in DOMAIN out : out[i] \in {Invalid, Plain("SERVER_ERROR")},
           \/ EndsIn(out, {Plain("SERVER_ERROR")}, {})
           \/ /\ \A i \in DOMAIN out : out[i] \in Again(task)
              /\ requests # <<>> => left # <<>> \/ out # <<>>
    PROVE  Follows(q \o out, left, pg, task) /\ Recalls(q \o out, pg, task)
<1> DEFINE T == {task, Plain("SERVER_ERROR")}
           U == {task}
           S == {Invalid, Plain("SERVER_ERROR")}
           added == q \o out
<1>1. EndsIn(q, U, S) => EndsIn(added, U, S)
  <2> HIDE DEF U, S
  <2> QED
    BY EndStays DEF S
<1>2. (\A i \in DOMAIN q : q[i] \in S) => \A i \in DOMAIN added : added[i] \in S
  <2>1. \A i \in DOMAIN out : out[i] \in S
    OBVIOUS
  <2> HIDE DEF S
  <2> QED
    BY <2>1, AddedMessages
<1>3. Recalls(added, pg, task)
  <2> HIDE DEF added
  <2> QED
    BY <1>1, <1>2 DEF Recalls
<1>4. CASE EndsIn(out, {Plain("SERVER_ERROR")}, {})
  <2>1. EndsIn(out, T, Again(task))
    BY <1>4 DEF EndsIn
  <2> HIDE DEF T
  <2>2. EndsIn(added, T, Again(task))
    BY <2>1, EndIsSent
  <2> QED
    BY <1>3, <2>2 DEF Follows, T
<1>5. CASE /\ \A i \in DOMAIN out : out[i] \in Again(task)
           /\ requests # <<>> => left # <<>> \/ out # <<>>
  <2>1. CASE EndsIn(q, T, Again(task))
    <3> HIDE DEF T
    <3>1. EndsIn(added, T, Again(task))
      BY <1>5, <2>1, EndStays
    <3> QED
      BY <1>3, <3>1 DEF Follows, T
  <2>2. CASE (\A i \in DOMAIN q : q[i] \in Again(task)) /\ Shows(q, requests, pg, task)
    <3>1. \A i \in DOMAIN added : added[i] \in Again(task)
      BY <1>5, <2>2, AddedMessages
    <3>2. q # <<>> \/ out # <<>> => added # <<>>
      <4>1. /\ Len(q) \in Nat /\ Len(out) \in Nat /\ Len(added) = Len(q) + Len(out)
            /\ (q # <<>> => Len(q) # 0) /\ (out # <<>> => Len(out) # 0) /\ Len(<<>>) = 0
        OBVIOUS
      <4> HIDE DEF added
      <4> QED
        BY <4>1
    <3>3. Shows(added, left, pg, task)
      BY <1>5, <2>2, <3>2 DEF Shows
    <3> QED
      BY <1>3, <3>1, <3>3 DEF Follows
  <2> QED
    BY <2>1, <2>2 DEF Follows
<1> QED
  BY <1>4, <1>5
-----------------------------------------------------------------------------
(* The answers, by what they tell.  First: the state of the table after the  *)
(* step, and to everybody what to do.                                        *)
LEMMA NewsKeepsIInv ==
    ASSUME IInv, NEW w \in Windows, fromPage[w] # <<>>, NEW moves \in BOOLEAN,
           NEW out, Reply(w, moves, out),
           out = [u \in Windows |-> <<Plain("STATE"), Task(SessionOf[u])'>>],
           phase' \in {"Started", "Over"}, phase' = "Over" => step' = "Finished",
           step' \in {"SetTarget", "Play", "GotoNext", "Finished"}
    PROVE  IInv'
<1> DEFINE task(u) == Task(SessionOf[u])'
           both(u) == <<Plain("STATE"), task(u)>>
<1>1. TypeOK
  BY DEF IInv
<1>2. ASSUME NEW u \in Windows
      PROVE  both(u) \in Seq(Messages) /\ EndsIn(both(u), {task(u)}, {})
  <2>1. task(u) = TaskIn(step', Current(SessionOf[u])', SessionOf[u])
    BY DEF Task, TaskIn
  <2>2. task(u) \in Messages /\ Plain("STATE") \in Messages
    BY <2>1, TasksInAState DEF Messages
  <2> HIDE DEF task
  <2>3. /\ both(u) \in Seq(Messages) /\ DOMAIN both(u) = 1 .. 2 /\ both(u)[2] = task(u)
    BY <2>2
  <2>4. \A j \in DOMAIN both(u) : ~(j > 2)
    BY <2>3
  <2> HIDE DEF both
  <2> QED
    BY <2>3, <2>4 DEF EndsIn
<1>3. out = [u \in Windows |-> both(u)]
  OBVIOUS
<1> HIDE DEF task, both
<1>4. out \in [Windows -> Seq(Messages)] /\ \A u \in Windows : out[u] = both(u)
  BY <1>2, <1>3
<1>5. /\ open' = open /\ page' = page
      /\ toPage' \in [Windows -> Seq(Messages)]
      /\ \A u \in open : toPage'[u] = toPage[u] \o out[u]
      /\ fromPage' \in [Windows -> Seq(Requests)]
  BY <1>1, <1>4, ReplyFacts
<1>6. TypeOK'
  BY <1>1, <1>5 DEF TypeOK
<1>7. ASSUME NEW u \in open
      PROVE  PageFollows(u)'
  <2>1. u \in Windows /\ toPage[u] \in Seq(Messages)
    BY <1>1 DEF TypeOK
  <2>2. both(u) \in Seq(Messages) /\ EndsIn(both(u), {task(u)}, {}) /\ out[u] = both(u)
    BY <1>2, <1>4, <2>1
  <2>3. /\ Follows(toPage[u] \o both(u), fromPage'[u], page'[u], task(u))
        /\ Recalls(toPage[u] \o both(u), page'[u], task(u))
    BY <2>1, <2>2, TaskIsTold
  <2> QED
    BY <1>5, <2>2, <2>3 DEF PageFollows, task
<1> QED
  BY <1>5, <1>6, <1>7 DEF IInv

(* Second: an answer to some windows, the table staying as it was.           *)
LEMMA RemarkKeepsIInv ==
    ASSUME IInv, NEW w \in Windows, fromPage[w] # <<>>,
           NEW out \in [Windows -> Seq(Messages)], Reply(w, FALSE, out),
           phase \in {"Created", "Started"}, UNCHANGED <<phase, tableVars, seat>>,
           phase = "Created" => \A u \in open :
               EndsIn(out[u], Greetings, {}) \/ (out[u] = <<>> /\ u # w),
           Running => \A u \in open :
               \/ EndsIn(out[u], {Task(SessionOf[u])}, {})
               \/ /\ \A i \in DOMAIN out[u] : out[u][i] \in {Invalid, Plain("SERVER_ERROR")}
                  /\ \/ EndsIn(out[u], {Plain("SERVER_ERROR")}, {})
                     \/ /\ \A i \in DOMAIN out[u] : out[u][i] \in Again(Task(SessionOf[u]))
                        /\ u = w => out[u] # <<>>
    PROVE  IInv'
<1>1. TypeOK
  BY DEF IInv
<1>2. /\ open' = open /\ page' = page
      /\ toPage' \in [Windows -> Seq(Messages)]
      /\ \A u \in open : toPage'[u] = toPage[u] \o out[u]
      /\ fromPage' \in [Windows -> Seq(Requests)]
      /\ \A u \in Windows \ {w} : fromPage[u] # <<>> => fromPage'[u] # <<>>
  <2>1. FALSE \in BOOLEAN
    OBVIOUS
  <2> QED
    BY <1>1, <2>1, ReplyFacts
<1>3. TypeOK'
  BY <1>1, <1>2 DEF TypeOK, tableVars
<1>4. ASSUME NEW u \in open
      PROVE  u \in Windows /\ toPage[u] \in Seq(Messages) /\ out[u] \in Seq(Messages)
  BY <1>1 DEF TypeOK
<1>5. ASSUME NEW u \in open, phase = "Created"
      PROVE  Greeted(toPage[u] \o out[u], fromPage'[u], page[u])
  <2>1. Greeted(toPage[u], fromPage[u], page[u])
    BY <1>5 DEF IInv
  <2>2. CASE EndsIn(out[u], Greetings, {})
    <3>1. EndsIn(toPage[u] \o out[u], Greetings, {})
      BY <1>4, <2>2, EndIsSent
    <3> QED
      BY <3>1 DEF Greeted
  <2>3. CASE out[u] = <<>> /\ u # w
    <3>1. toPage[u] \o out[u] = toPage[u]
      BY <1>4, <2>3
    <3> QED
      BY <1>2, <1>4, <2>1, <2>3, <3>1 DEF Greeted
  <2> QED
    BY <1>5, <2>2, <2>3
<1>6. ASSUME NEW u \in open, Running
      PROVE  PageFollows(u)'
  <2> DEFINE task == Task(SessionOf[u])
  <2>1. Task(SessionOf[u])' = task
    BY DEF Task, Current, tableVars
  <2>2. Follows(toPage[u], fromPage[u], page[u], task) /\ Recalls(toPage[u], page[u], task)
    BY <1>6 DEF IInv, PageFollows, Running
  <2> HIDE DEF task
  <2>3. /\ Follows(toPage[u] \o out[u], fromPage'[u], page[u], task)
        /\ Recalls(toPage[u] \o out[u], page[u], task)
    <3>1. CASE EndsIn(out[u], {task}, {})
      BY <1>4, <3>1, TaskIsTold
    <3>2. CASE /\ \A i \in DOMAIN out[u] : out[u][i] \in {Invalid, Plain("SERVER_ERROR")}
               /\ \/ EndsIn(out[u], {Plain("SERVER_ERROR")}, {})
                  \/ /\ \A i \in DOMAIN out[u] : out[u][i] \in Again(task)
                     /\ u = w => out[u] # <<>>
      <4>1. \/ EndsIn(out[u], {Plain("SERVER_ERROR")}, {})
            \/ /\ \A i \in DOMAIN out[u] : out[u][i] \in Again(task)
               /\ fromPage[u] # <<>> => fromPage'[u] # <<>> \/ out[u] # <<>>
        BY <1>2, <1>4, <3>2
      <4> QED
        BY <1>4, <2>2, <3>2, <4>1, RemarkIsFollowed
    <3> QED
      BY <1>6, <3>1, <3>2 DEF task
  <2> QED
    BY <1>2, <2>1, <2>3 DEF PageFollows
<1> QED
  BY <1>2, <1>3, <1>5, <1>6 DEF IInv, Running
-----------------------------------------------------------------------------
(* The steps of the lobby, one by one.                                       *)
LEMMA SetUsernameIInv ==
    ASSUME IInv, NEW w \in Windows, HandleSetUsername(w)
    PROVE  IInv'
<1> DEFINE s == SessionOf[w]
           msg == CurrentEvent(s)'
           told == WindowsOf(s)
           out == Only(told, <<msg>>)
<1>1. /\ TypeOK /\ Reply(w, FALSE, out) /\ fromPage[w] # <<>>
      /\ phase \in {"Created", "Started"} /\ UNCHANGED <<phase, tableVars, seat>>
  BY DEF HandleSetUsername, Request, IInv, TypeOK
<1>2. phase = "Created" => msg \in Greetings
  <2>1. phase = "Created" => msg = BeforeStart(s)'
    BY <1>1 DEF CurrentEvent
  <2>2. BeforeStart(s)' \in Greetings
    BY DEF BeforeStart, Greetings
  <2> QED
    BY <2>1, <2>2
<1>3. Running => msg = Task(s) /\ msg \in Tasks
  <2>1. Task(s)' = Task(s)
    BY <1>1 DEF Task, Current, tableVars
  <2> QED
    BY <1>1, <2>1, TasksAreTasks DEF CurrentEvent, Running
<1>4. msg \in Messages
  BY <1>1, <1>2, <1>3 DEF Messages, Running
<1> HIDE DEF msg
<1>5. /\ out \in [Windows -> Seq(Messages)]
      /\ \A u \in Windows \ told : out[u] = <<>>
      /\ \A u \in Windows \cap told : out[u] = <<msg>>
  BY <1>4, OnlyFacts
<1> HIDE DEF out
<1>6. ASSUME NEW u \in open
      PROVE  /\ SessionOf[u] = s => \A T, S : msg \in T => EndsIn(out[u], T, S)
             /\ SessionOf[u] # s => out[u] = <<>> /\ DOMAIN out[u] = {} /\ u # w
  <2>1. u \in Windows /\ (u \in told <=> SessionOf[u] = s)
    BY <1>1 DEF TypeOK, WindowsOf
  <2> HIDE DEF told
  <2>2. CASE SessionOf[u] = s
    <3>1. out[u] = <<msg>>
      BY <1>5, <2>1, <2>2
    <3> QED
      BY <2>2, <3>1, OneMessage
  <2>3. CASE SessionOf[u] # s
    <3>1. out[u] = <<>>
      BY <1>5, <2>1, <2>3
    <3> QED
      BY <2>3, <3>1
  <2> QED
    BY <2>2, <2>3
<1>7. phase = "Created" => \A u \in open :
         EndsIn(out[u], Greetings, {}) \/ (out[u] = <<>> /\ u # w)
  BY <1>2, <1>6
<1>8. Running => \A u \in open :
         \/ EndsIn(out[u], {Task(SessionOf[u])}, {})
         \/ DOMAIN out[u] = {} /\ u # w
  <2>1. SUFFICES ASSUME Running, NEW u \in open
                 PROVE  \/ EndsIn(out[u], {Task(SessionOf[u])}, {})
                        \/ DOMAIN out[u] = {} /\ u # w
    OBVIOUS
  <2> DEFINE T == {Task(SessionOf[u])}
  <2>2. SessionOf[u] = s => msg \in T
    BY <1>3, <2>1
  <2> HIDE DEF T
  <2>3. SessionOf[u] = s => EndsIn(out[u], T, {})
    BY <1>6, <2>2
  <2> QED
    BY <1>6, <2>3 DEF T
<1>9. Running => \A u \in open :
         \/ EndsIn(out[u], {Task(SessionOf[u])}, {})
         \/ /\ \A i \in DOMAIN out[u] : out[u][i] \in {Invalid, Plain("SERVER_ERROR")}
            /\ \/ EndsIn(out[u], {Plain("SERVER_ERROR")}, {})
               \/ /\ \A i \in DOMAIN out[u] : out[u][i] \in Again(Task(SessionOf[u]))
                  /\ u = w => out[u] # <<>>
  BY <1>8
<1> QED
  BY <1>1, <1>5, <1>7, <1>9, RemarkKeepsIInv

LEMMA RefuseIllegalIInv ==
    ASSUME IInv, NEW w \in Windows, RefuseIllegal(w)
    PROVE  IInv'
<1> DEFINE out == Only({w}, <<Invalid>>)
<1>1. /\ TypeOK /\ Reply(w, FALSE, out) /\ fromPage[w] # <<>>
      /\ phase = "Started" /\ UNCHANGED <<phase, tableVars, seat>>
  BY DEF RefuseIllegal, Request, Running, lobbyVars, IInv
<1>2. Invalid \in Messages
  BY DEF Messages
<1>3. /\ out \in [Windows -> Seq(Messages)]
      /\ \A u \in Windows \ {w} : out[u] = <<>>
      /\ out[w] = <<Invalid>>
  BY <1>2, OnlyFacts
<1> HIDE DEF out
<1>4. Again(Task(SessionOf[w])) = {Invalid}
  <2>1. Current(SessionOf[w]) /\ step \in {"SetTarget", "Play"}
    BY DEF RefuseIllegal, OutOfStep
  <2> QED
    BY <1>1, <2>1, TasksAreTasks DEF Again
<1>5. ASSUME NEW u \in open
      PROVE  /\ \A i \in DOMAIN out[u] : out[u][i] \in {Invalid, Plain("SERVER_ERROR")}
             /\ \A i \in DOMAIN out[u] : out[u][i] \in Again(Task(SessionOf[u]))
             /\ u = w => out[u] # <<>>
  <2>1. u \in Windows
    BY <1>1 DEF TypeOK
  <2>2. CASE u = w
    <3>1. <<Invalid>> # <<>> /\ DOMAIN <<Invalid>> = {1} /\ <<Invalid>>[1] = Invalid
      OBVIOUS
    <3> QED
      BY <1>3, <1>4, <2>2, <3>1
  <2>3. CASE u # w
    <3>1. out[u] = <<>>
      BY <1>3, <2>1, <2>3
    <3> QED
      BY <2>3, <3>1
  <2> QED
    BY <2>2, <2>3
<1> QED
  BY <1>1, <1>3, <1>5, RemarkKeepsIInv

LEMMA RefuseOtherIInv ==
    ASSUME IInv, NEW w \in Windows, RefuseOther(w)
    PROVE  IInv'
<1> DEFINE msg == Plain("SERVER_ERROR")
           out == Only({w}, <<msg>>)
<1>1. /\ TypeOK /\ Reply(w, FALSE, out) /\ fromPage[w] # <<>>
      /\ phase \in {"Created", "Started"} /\ UNCHANGED <<phase, tableVars, seat>>
  BY DEF RefuseOther, ServerError, Request, Running, lobbyVars, IInv, TypeOK
<1>2. msg \in Greetings /\ msg \in Messages
  BY DEF Greetings, Messages
<1>3. /\ out \in [Windows -> Seq(Messages)]
      /\ \A u \in Windows \ {w} : out[u] = <<>>
      /\ out[w] = <<msg>>
  BY <1>2, OnlyFacts
<1> HIDE DEF out
<1>4. EndsIn(out[w], Greetings, {}) /\ EndsIn(out[w], {msg}, {})
  BY <1>2, <1>3, OneMessage
<1>5. ASSUME NEW u \in open
      PROVE  /\ EndsIn(out[u], Greetings, {}) \/ (out[u] = <<>> /\ u # w)
             /\ \A i \in DOMAIN out[u] : out[u][i] \in {Invalid, msg}
             /\ \/ EndsIn(out[u], {msg}, {})
                \/ DOMAIN out[u] = {} /\ u # w
  <2>1. u \in Windows
    BY <1>1 DEF TypeOK
  <2>2. CASE u = w
    BY <1>3, <1>4, <2>2, OneMessage
  <2>3. CASE u # w
    <3>1. out[u] = <<>> /\ DOMAIN <<>> = {}
      BY <1>3, <2>1, <2>3
    <3> QED
      BY <2>3, <3>1
  <2> QED
    BY <2>2, <2>3
<1>6. \A u \in open :
         /\ \A i \in DOMAIN out[u] : out[u][i] \in {Invalid, Plain("SERVER_ERROR")}
         /\ \/ EndsIn(out[u], {Plain("SERVER_ERROR")}, {})
            \/ /\ \A i \in DOMAIN out[u] : out[u][i] \in Again(Task(SessionOf[u]))
               /\ u = w => out[u] # <<>>
  BY <1>5
<1> QED
  BY <1>1, <1>3, <1>5, <1>6, RemarkKeepsIInv

LEMMA StartIInv ==
    ASSUME IInv, NEW w \in Windows, HandleStart(w)
    PROVE  IInv'
<1> DEFINE out == StateAndAction'
<1>1. /\ Reply(w, TRUE, out) /\ fromPage[w] # <<>> /\ phase' = "Started"
      /\ step' \in {"SetTarget", "Play", "GotoNext", "Finished"}
  BY DEF HandleStart, Request, tableVars, IInv, TypeOK
<1>2. out = [u \in Windows |-> <<Plain("STATE"), Task(SessionOf[u])'>>] /\ TRUE \in BOOLEAN
  BY DEF StateAndAction
<1> HIDE DEF out
<1> QED
  BY <1>1, <1>2, NewsKeepsIInv

LEMMA MovedIInv ==
    ASSUME IInv, NEW w \in Windows, fromPage[w] # <<>>, Running, Moved(w),
           step' \in {"SetTarget", "Play", "GotoNext", "Finished"}
    PROVE  IInv'
<1> DEFINE out == StateAndAction'
<1>1. Reply(w, TRUE, out) /\ phase' \in {"Started", "Over"} /\ (phase' = "Over" => step' = "Finished")
  BY DEF Moved, Running
<1>2. out = [u \in Windows |-> <<Plain("STATE"), Task(SessionOf[u])'>>] /\ TRUE \in BOOLEAN
  BY DEF StateAndAction
<1> HIDE DEF out
<1> QED
  BY <1>1, <1>2, NewsKeepsIInv

LEMMA RefuseOutOfStepIInv ==
    ASSUME IInv, NEW w \in Windows, RefuseOutOfStep(w)
    PROVE  IInv'
<1> DEFINE out == StateAndAction
<1>1. /\ Reply(w, FALSE, out) /\ fromPage[w] # <<>> /\ phase' = "Started"
      /\ step' \in {"SetTarget", "Play", "GotoNext", "Finished"}
      /\ UNCHANGED <<tableVars, seat>>
  BY DEF RefuseOutOfStep, OutOfStep, Request, Running, lobbyVars, tableVars, IInv, TypeOK
<1>2. out = [u \in Windows |-> <<Plain("STATE"), Task(SessionOf[u])'>>] /\ FALSE \in BOOLEAN
  BY <1>1 DEF StateAndAction, Task, Current, tableVars
<1> HIDE DEF out
<1> QED
  BY <1>1, <1>2, NewsKeepsIInv

(* A connection that goes takes nothing from the others.                     *)
LEMMA GoneIInv ==
    ASSUME IInv, NEW w \in Windows, UNCHANGED <<phase, page, tableVars, seat>>,
           open' = open \ {w},
           toPage' = [toPage EXCEPT ![w] = <<>>],
           fromPage' = [fromPage EXCEPT ![w] = <<>>]
    PROVE  IInv'
<1>1. TypeOK
  BY DEF IInv
<1>2. <<>> \in Seq(Messages) /\ <<>> \in Seq(Requests)
  OBVIOUS
<1>3. TypeOK'
  BY <1>1, <1>2 DEF TypeOK, tableVars
<1>4. ASSUME NEW u \in open'
      PROVE  u \in open /\ toPage'[u] = toPage[u] /\ fromPage'[u] = fromPage[u]
  BY <1>1 DEF TypeOK
<1>5. ASSUME NEW u \in open', PageFollows(u)
      PROVE  PageFollows(u)'
  <2>1. Task(SessionOf[u])' = Task(SessionOf[u])
    BY DEF Task, Current, tableVars
  <2> QED
    BY <1>4, <1>5, <2>1 DEF PageFollows
<1>6. step' = step
  BY DEF tableVars
<1> QED
  BY <1>3, <1>4, <1>5, <1>6 DEF IInv

LEMMA HandleIInv ==
    ASSUME IInv, NEW w \in Windows, Handle(w)
    PROVE  IInv'
<1>0. step \in {"SetTarget", "Play", "GotoNext", "Finished"}
  BY DEF IInv, TypeOK
<1>1. CASE HandleSetUsername(w) \/ HandleStart(w)
  BY <1>1, SetUsernameIInv, StartIInv
<1>2. CASE HandleTarget(w)
  <2>1. step' \in {"SetTarget", "Play", "GotoNext", "Finished"}
    BY <1>0, <1>2 DEF HandleTarget, Table!Bid
  <2> QED
    BY <1>2, <2>1, MovedIInv DEF HandleTarget, Request
<1>3. CASE HandlePlay(w)
  <2>1. step' \in {"SetTarget", "Play", "GotoNext", "Finished"}
    BY <1>0, <1>3 DEF HandlePlay, Table!PlayCard, Table!CloseTrick
  <2> QED
    BY <1>3, <2>1, MovedIInv DEF HandlePlay, Request
<1>4. CASE HandleNext(w)
  <2>1. step' \in {"SetTarget", "Play", "GotoNext", "Finished"}
    BY <1>0, <1>4 DEF HandleNext, Table!NextRound
  <2> QED
    BY <1>4, <2>1, MovedIInv DEF HandleNext, Request
<1>5. CASE RefuseOutOfStep(w) \/ RefuseIllegal(w) \/ RefuseOther(w)
  BY <1>5, RefuseOutOfStepIInv, RefuseIllegalIInv, RefuseOtherIInv
<1>6. CASE Closed(w) /\ UNCHANGED <<tableVars, seat>>
  BY <1>6, GoneIInv DEF Closed, lobbyVars
<1> QED
  BY <1>1, <1>2, <1>3, <1>4, <1>5, <1>6 DEF Handle

LEMMA DropIInv ==
    ASSUME IInv, NEW w \in Windows, Drop(w), UNCHANGED <<tableVars, seat>>
    PROVE  IInv'
  BY GoneIInv DEF Drop

(* A window that connects is told; what it showed before does not matter.    *)
LEMMA JoinIInv ==
    ASSUME IInv, NEW w \in Windows, NEW loaded \in BOOLEAN, Join(w, loaded)
    PROVE  IInv'
<1> DEFINE s == SessionOf[w]
           task == Task(s)
           before == BeforeStart(s)'
           both == <<Plain("STATE"), task>>
           one == <<before>>
           news == IF Running THEN both ELSE one
           none == <<>>
           out == [u \in Windows |-> IF u \in {w} THEN news ELSE none]
<1>1. /\ TypeOK /\ open' = open \cup {w} /\ w \notin open
      /\ UNCHANGED <<phase, fromPage, tableVars, seat>> /\ phase \in {"Created", "Started"}
      /\ page' = IF loaded THEN [page EXCEPT ![w] = Blank] ELSE page
      /\ toPage' = [u \in Windows |-> IF u \in open' THEN toPage[u] \o out[u] ELSE <<>>]
  BY DEF IInv, Join, JoinWith, Send, Only
<1>2. /\ task \in Messages /\ Plain("STATE") \in Messages
      /\ before \in Greetings /\ before \in Messages
  <2>1. task \in Messages /\ Plain("STATE") \in Messages
    BY <1>1, TasksAreTasks DEF Messages
  <2>2. before \in Greetings
    BY DEF BeforeStart, Greetings
  <2> HIDE DEF before
  <2> QED
    BY <2>1, <2>2 DEF Messages
<1> HIDE DEF task, before
<1>3. both \in Seq(Messages) /\ EndsIn(both, {task}, {})
  <2>1. both \in Seq(Messages) /\ DOMAIN both = 1 .. 2 /\ both[2] = task
    BY <1>2
  <2>2. \A j \in DOMAIN both : ~(j > 2)
    BY <2>1
  <2> HIDE DEF both
  <2> QED
    BY <2>1, <2>2 DEF EndsIn
<1>4. one \in Seq(Messages) /\ EndsIn(one, Greetings, {}) /\ none \in Seq(Messages)
  BY <1>2, OneMessage
<1>5. /\ Running => news = both
      /\ ~Running => news = one
  OBVIOUS
<1> HIDE DEF both, one, news
<1>6. /\ out \in [Windows -> Seq(Messages)] /\ out[w] = news
      /\ \A u \in Windows \ {w} : out[u] = <<>>
  BY <1>3, <1>4, <1>5
<1> HIDE DEF out
<1>7. TypeOK'
  <2>1. Blank \in Pages
    BY DEF Blank, Pages, Messages
  <2>2. \A u \in Windows : toPage[u] \o out[u] \in Seq(Messages)
    BY <1>1, <1>6 DEF TypeOK
  <2>3. toPage' \in [Windows -> Seq(Messages)]
    BY <1>1, <1>4, <2>2
  <2>4. page' \in [Windows -> Pages]
    BY <1>1, <2>1 DEF TypeOK
  <2> QED
    BY <1>1, <2>3, <2>4 DEF TypeOK, tableVars
<1>8. /\ toPage[w] \in Seq(Messages) /\ toPage'[w] = toPage[w] \o news
      /\ \A u \in open : u \in Windows /\ u # w /\ toPage'[u] = toPage[u] /\ page'[u] = page[u]
  <2>1. toPage[w] \in Seq(Messages) /\ toPage'[w] = toPage[w] \o news
    BY <1>1, <1>6 DEF TypeOK
  <2>2. ASSUME NEW u \in open
        PROVE  u \in Windows /\ u # w /\ toPage'[u] = toPage[u] /\ page'[u] = page[u]
    <3>1. u \in Windows /\ u # w /\ toPage[u] \in Seq(Messages)
      BY <1>1 DEF TypeOK
    <3>2. toPage'[u] = toPage[u] \o out[u] /\ out[u] = <<>>
      BY <1>1, <1>6, <3>1
    <3>3. toPage[u] \o <<>> = toPage[u]
      BY <3>1
    <3>4. page'[u] = page[u]
      BY <1>1, <3>1 DEF TypeOK
    <3> QED
      BY <3>1, <3>2, <3>3, <3>4
  <2> QED
    BY <2>1, <2>2
<1>9. CASE phase = "Created"
  <2>1. EndsIn(toPage[w] \o one, Greetings, {})
    BY <1>4, <1>8, EndIsSent
  <2>2. Greeted(toPage'[w], fromPage'[w], page'[w])
    BY <1>5, <1>8, <1>9, <2>1 DEF Greeted, Running
  <2> QED
    BY <1>1, <1>7, <1>8, <1>9, <2>2 DEF IInv
<1>10. CASE Running
  <2>1. /\ Follows(toPage[w] \o both, fromPage[w], page'[w], task)
        /\ Recalls(toPage[w] \o both, page'[w], task)
    BY <1>3, <1>8, TaskIsTold
  <2>2. \A u : Task(SessionOf[u])' = Task(SessionOf[u])
    BY <1>1 DEF Task, Current, tableVars
  <2>3. PageFollows(w)'
    BY <1>1, <1>5, <1>8, <1>10, <2>1, <2>2 DEF PageFollows, task
  <2>4. ASSUME NEW u \in open
        PROVE  PageFollows(u)'
    <3>1. PageFollows(u)
      BY <1>10 DEF IInv, Running
    <3> QED
      BY <1>1, <1>8, <2>2, <3>1 DEF PageFollows
  <2> QED
    BY <1>1, <1>7, <1>10, <2>3, <2>4 DEF IInv, Running
<1> QED
  BY <1>1, <1>9, <1>10 DEF Running

LEMMA PressIInv ==
    ASSUME IInv, NEW w \in Windows, Press(w)
    PROVE  IInv'
<1>1. TypeOK /\ Buttons(w) /\ UNCHANGED <<tableVars, seat>>
  BY DEF IInv, Press
<1>2. PICK pg \in Pages : Leaves(w, pg)
  BY <1>1, PressLeaves
<1>3. TypeOK'
  BY <1>1, <1>2 DEF TypeOK, Leaves, lobbyVars, tableVars
<1>4. /\ open' = open /\ phase' = phase /\ toPage' = toPage /\ step' = step
      /\ \A u \in Windows \ {w} : fromPage'[u] = fromPage[u] /\ page'[u] = page[u]
  BY <1>1, <1>2 DEF Leaves, lobbyVars, tableVars
<1>5. ASSUME NEW u \in open, phase = "Created"
      PROVE  Greeted(toPage[u], fromPage'[u], page'[u])
  <2>1. u \in Windows /\ Greeted(toPage[u], fromPage[u], page[u])
    BY <1>1, <1>5 DEF IInv, TypeOK
  <2>2. CASE u = w
    BY <1>1, <2>1, <2>2, PressFollows, TasksAreTasks
  <2>3. CASE u # w
    BY <1>4, <2>1, <2>3
  <2> QED
    BY <2>2, <2>3
<1>6. ASSUME NEW u \in open, phase # "Created"
      PROVE  PageFollows(u)'
  <2>1. u \in Windows /\ PageFollows(u)
    BY <1>1, <1>6 DEF IInv, TypeOK
  <2>2. Task(SessionOf[u])' = Task(SessionOf[u])
    BY <1>1 DEF Task, Current, tableVars
  <2>3. CASE u = w
    <3>1. Task(SessionOf[w]) \in Tasks
      BY <1>1, TasksAreTasks
    <3>2. /\ Follows(toPage[w], fromPage'[w], page'[w], Task(SessionOf[w]))
          /\ Recalls(toPage[w], page'[w], Task(SessionOf[w]))
      BY <1>1, <2>1, <2>3, <3>1, PressFollows DEF PageFollows
    <3> QED
      BY <1>4, <2>2, <2>3, <3>2 DEF PageFollows
  <2>4. CASE u # w
    BY <1>4, <2>1, <2>2, <2>4 DEF PageFollows
  <2> QED
    BY <2>3, <2>4
<1> QED
  BY <1>3, <1>4, <1>5, <1>6 DEF IInv

LEMMA ReceiveIInv ==
    ASSUME IInv, NEW w \in Windows, Receive(w)
    PROVE  IInv'
<1> DEFINE new == Show(page[w], Head(toPage[w]))
           rest == Tail(toPage[w])
<1>1. /\ TypeOK /\ toPage[w] # <<>>
      /\ UNCHANGED <<phase, open, fromPage, tableVars, seat>>
      /\ toPage' = [toPage EXCEPT ![w] = rest]
      /\ page' = [page EXCEPT ![w] = new]
  BY DEF IInv, Receive, ReceiveWith, lobbyVars
<1>2. /\ toPage[w] \in Seq(Messages) /\ page[w] \in Pages
      /\ toPage \in [Windows -> Seq(Messages)] /\ page \in [Windows -> Pages]
  BY <1>1 DEF TypeOK
<1>3. rest \in Seq(Messages) /\ new \in Pages
  BY <1>1, <1>2, Tailed, PageReads
<1>4. /\ toPage'[w] = rest /\ page'[w] = new
      /\ \A u \in Windows \ {w} : toPage'[u] = toPage[u] /\ page'[u] = page[u]
      /\ TypeOK'
  <2> HIDE DEF rest, new
  <2> QED
    BY <1>1, <1>2, <1>3 DEF TypeOK, tableVars
<1>5. ASSUME NEW u \in open, phase = "Created"
      PROVE  Greeted(toPage'[u], fromPage[u], page'[u])
  <2>1. u \in Windows /\ Greeted(toPage[u], fromPage[u], page[u])
    BY <1>1, <1>5 DEF IInv, TypeOK
  <2>2. CASE u = w
    <3>1. Greeted(rest, fromPage[w], new)
      BY <1>1, <1>2, <2>1, <2>2, ReadingGreets
    <3> HIDE DEF rest, new
    <3> QED
      BY <1>4, <2>2, <3>1
  <2>3. CASE u # w
    BY <1>4, <2>1, <2>3
  <2> QED
    BY <2>2, <2>3
<1>6. ASSUME NEW u \in open, phase # "Created"
      PROVE  PageFollows(u)'
  <2>1. u \in Windows /\ PageFollows(u)
    BY <1>1, <1>6 DEF IInv, TypeOK
  <2>2. Task(SessionOf[u])' = Task(SessionOf[u])
    BY <1>1 DEF Task, Current, tableVars
  <2>3. CASE u = w
    <3> DEFINE task == Task(SessionOf[w])
    <3>1. task \in Tasks
      BY <1>1, TasksAreTasks
    <3>2. Follows(toPage[w], fromPage[w], page[w], task) /\ Recalls(toPage[w], page[w], task)
      BY <2>1, <2>3 DEF PageFollows
    <3> HIDE DEF task
    <3>3. Follows(rest, fromPage[w], new, task) /\ Recalls(rest, new, task)
      BY <1>1, <1>2, <3>1, <3>2, ReadingFollows, ReadingRecalls
    <3> HIDE DEF rest, new
    <3> QED
      BY <1>1, <1>4, <2>2, <2>3, <3>3 DEF PageFollows, task
  <2>4. CASE u # w
    BY <1>1, <1>4, <2>1, <2>2, <2>4 DEF PageFollows
  <2> QED
    BY <2>3, <2>4
<1>7. step' = step /\ phase' = phase /\ open' = open /\ fromPage' = fromPage
  BY <1>1 DEF tableVars
<1> HIDE DEF rest, new
<1> QED
  BY <1>4, <1>5, <1>6, <1>7 DEF IInv
-----------------------------------------------------------------------------
(* IInv is inductive.                                                        *)
LEMMA InitIInv == Init => IInv
<1>1. SUFFICES ASSUME Init PROVE IInv
  OBVIOUS
<1>2. Blank \in Pages
  BY DEF Blank, Pages, Messages
<1>3. <<>> \in Seq(Messages) /\ <<>> \in Seq(Requests)
  OBVIOUS
<1>4. step = "SetTarget"
  BY <1>1 DEF Init, Table!Init
<1>5. TypeOK
  BY <1>1, <1>2, <1>3, <1>4 DEF Init, InitPages, TypeOK
<1> QED
  BY <1>1, <1>5 DEF Init, InitPages, IInv

LEMMA NextIInv == IInv /\ [Next]_vars => IInv'
<1>1. SUFFICES ASSUME IInv, [Next]_vars PROVE IInv'
  OBVIOUS
<1>2. ASSUME NEW w \in Windows, NEW loaded \in BOOLEAN, Join(w, loaded) PROVE IInv'
  BY <1>1, <1>2, JoinIInv
<1>3. ASSUME NEW w \in Windows, Drop(w), UNCHANGED <<tableVars, seat>> PROVE IInv'
  BY <1>1, <1>3, DropIInv
<1>4. ASSUME NEW w \in Windows, Press(w) PROVE IInv'
  BY <1>1, <1>4, PressIInv
<1>5. ASSUME NEW w \in Windows, Receive(w) PROVE IInv'
  BY <1>1, <1>5, ReceiveIInv
<1>6. ASSUME NEW w \in Windows, Handle(w) PROVE IInv'
  BY <1>1, <1>6, HandleIInv
<1>7. CASE UNCHANGED vars
  <2>1. UNCHANGED <<phase, open, toPage, fromPage, page, step, turn, seat>>
    BY <1>7 DEF vars, lobbyVars, pageVars, tableVars
  <2>2. TypeOK'
    BY <1>1, <2>1 DEF IInv, TypeOK
  <2>3. ASSUME NEW u, PageFollows(u) PROVE PageFollows(u)'
    <3>1. Task(SessionOf[u])' = Task(SessionOf[u])
      BY <2>1 DEF Task, Current
    <3> QED
      BY <2>1, <2>3, <3>1 DEF PageFollows
  <2> QED
    BY <1>1, <2>1, <2>2, <2>3 DEF IInv
<1> QED
  BY <1>1, <1>2, <1>3, <1>4, <1>5, <1>6, <1>7 DEF Next

(* In every state a window that is connected shows, or is about to be told, what its *)
(* player must do or wait for, and remembers the choice it can be asked again.       *)
THEOREM LobbyInvariance == Spec => []IInv
  BY InitIInv, NextIInv, PTL DEF Spec
-----------------------------------------------------------------------------
(* What it says of a window to which nothing is on its way.                  *)
LEMMA QuietShows ==
    ASSUME IInv, phase # "Created", NEW w \in Windows, Quiet(w)
    PROVE  LET pg == page[w]  task == Task(SessionOf[w]) IN
           /\ task \in Tasks /\ (task = Plain("PLAY_CARD") => step = "Play" /\ Current(SessionOf[w]))
           /\ \/ pg.prompt = task /\ (task = Plain("PLAY_CARD") => pg.active)
              \/ pg.prompt = Plain("CONFIRM") /\ task = Plain("PLAY_CARD")
              \/ pg.prompt = Plain("SERVER_ERROR")
<1>1. w \in open /\ toPage[w] = <<>> /\ fromPage[w] = <<>> /\ TypeOK
  BY DEF Quiet, IInv
<1>2. Follows(<<>>, <<>>, page[w], Task(SessionOf[w]))
  BY <1>1 DEF IInv, PageFollows
<1>3. Shows(<<>>, <<>>, page[w], Task(SessionOf[w]))
  BY <1>2, NothingEnds DEF Follows
<1> QED
  BY <1>1, <1>3, TasksAreTasks DEF Shows

(* PagesShowTheGame: no order of requests, refusals and new connections leaves a window *)
(* with less than what its player must do or wait for.                                  *)
THEOREM TheGameIsShown == Spec => []PagesShowTheGame
<1>1. IInv => PagesShowTheGame
  <2>1. SUFFICES ASSUME IInv, NEW w \in Windows, Quiet(w), phase \in {"Started", "Over"}
                 PROVE  \/ /\ page[w].prompt = Task(SessionOf[w])
                           /\ page[w].prompt.type = "PLAY_CARD" => page[w].active
                        \/ page[w].prompt.type = "CONFIRM" /\ Running /\ step = "Play" /\ Current(SessionOf[w])
                        \/ page[w].prompt.type = "SERVER_ERROR"
    BY DEF PagesShowTheGame
  <2> DEFINE task == Task(SessionOf[w])
  <2>2. /\ task \in Tasks /\ (task = Plain("PLAY_CARD") => step = "Play" /\ Current(SessionOf[w]))
        /\ \/ page[w].prompt = task /\ (task = Plain("PLAY_CARD") => page[w].active)
           \/ page[w].prompt = Plain("CONFIRM") /\ task = Plain("PLAY_CARD")
           \/ page[w].prompt = Plain("SERVER_ERROR")
    BY <2>1, QuietShows
  <2>3. task.type = "PLAY_CARD" => task = Plain("PLAY_CARD")
    BY <2>2, PlainFacts DEF Tasks
  <2>4. step = "Play" => Running
    BY <2>1 DEF IInv, Running
  <2> HIDE DEF task
  <2>5. Plain("CONFIRM").type = "CONFIRM" /\ Plain("SERVER_ERROR").type = "SERVER_ERROR"
    BY PlainFacts
  <2> QED
    BY <2>2, <2>3, <2>4, <2>5 DEF task
<1> QED
  BY <1>1, LobbyInvariance, PTL

(* APageIsNeverEmpty: whatever a button hides, some answer of onMessage shows something *)
(* again, before the game, in it and at its end.                                        *)
THEOREM NoPageIsEmpty == Spec => []APageIsNeverEmpty
<1>1. IInv => APageIsNeverEmpty
  <2>1. SUFFICES ASSUME IInv, NEW w \in Windows, Quiet(w)
                 PROVE  page[w].prompt.type # "NOTHING"
    BY DEF APageIsNeverEmpty
  <2>2. w \in open /\ toPage[w] = <<>> /\ fromPage[w] = <<>> /\ page[w].prompt \in Messages
    BY <2>1 DEF Quiet, IInv, TypeOK, Pages
  <2>3. CASE phase = "Created"
    <3>1. Greeted(<<>>, <<>>, page[w])
      BY <2>1, <2>2, <2>3 DEF IInv
    <3>2. page[w].prompt # Nothing
      BY <3>1, NothingEnds DEF Greeted
    <3> QED
      BY <2>2, <3>2, PlainFacts DEF Messages, Greetings, Tasks, Invalid, Nothing
  <2>4. CASE phase # "Created"
    <3>1. page[w].prompt \in Tasks \cup {Plain("CONFIRM"), Plain("SERVER_ERROR")}
      BY <2>1, <2>4, QuietShows
    <3> QED
      BY <3>1, PlainFacts DEF Tasks
  <2> QED
    BY <2>3, <2>4
<1> QED
  BY <1>1, LobbyInvariance, PTL
=============================================================================
