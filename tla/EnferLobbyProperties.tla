------------------------- MODULE EnferLobbyProperties -------------------------
(***************************************************************************)
(* What the players of a lobby of Enfer may count on: a page to which      *)
(* nothing is on its way asks for what the engine waits for.               *)
(***************************************************************************)
EXTENDS EnferLobby, Queues

(* In a game, a window shows what its player must do or wait for, or the card he *)
(* is about to confirm when it is his turn to play one, and the cards can be     *)
(* clicked when one is asked for.  A server error aside, no order of requests,   *)
(* refusals and new connections leaves it with less.                             *)
PagesShowTheGame ==
    \A w \in Windows : Quiet(w) /\ phase \in {"Started", "Over"} =>
        \/ /\ page[w].prompt = Task(SessionOf[w])
           /\ page[w].prompt.type = "PLAY_CARD" => page[w].active
        \/ page[w].prompt.type = "CONFIRM" /\ Running /\ step = "Play" /\ Current(SessionOf[w])
        \/ page[w].prompt.type = "SERVER_ERROR"

(* A button hides what the page asked, and some answer always shows something again: *)
(* no way through onMessage is silent.                                               *)
APageIsNeverEmpty ==
    \A w \in Windows : Quiet(w) => page[w].prompt.type # "NOTHING"
-----------------------------------------------------------------------------
(* The parts of the inductive invariant.                                     *)

(* What can replace what a page asks, before the game and in it. *)
Greetings == {Plain("ASK_USERNAME"), Plain("ASK_START"), Plain("WAITING_START"),
              Plain("WAITING_HOST"), Plain("SERVER_ERROR")}
Tasks == {Plain("ASK_INTEGER"), Plain("PLAY_CARD"), Plain("WAITING"), Plain("ASK_CONFIRM"),
          Plain("WAITING_NEXT"), Plain("END")}

Messages == Greetings \cup Tasks
            \cup {Plain("STATE"), Plain("CONFIRM"), Invalid, Nothing}
Requests == [type : {"SET_USERNAME", "START", "TARGET", "PLAY", "NEXT"},
             card : {"-", "hand", "old"}]
Pages    == [prompt : Messages, last : Messages, active : BOOLEAN]

TypeOK ==
    /\ phase \in {"Created", "Started", "Over"}
    /\ open \in SUBSET Windows
    /\ toPage \in [Windows -> Seq(Messages)]
    /\ fromPage \in [Windows -> Seq(Requests)]
    /\ page \in [Windows -> Pages]
    /\ step \in {"SetTarget", "Play", "GotoNext", "Finished"}

(* Before the game: something is asked, or on its way in one direction or the other. *)
Greeted(queue, requests, pg) ==
    \/ EndsIn(queue, Greetings, {})
    \/ queue = <<>> /\ (pg.prompt # Nothing \/ requests # <<>>)

(* The choices the engine can find illegal, and what is sent then. *)
Choices == {Plain("ASK_INTEGER"), Plain("PLAY_CARD")}
Again(task) == IF task \in Choices THEN {Invalid} ELSE {}

(* The page shows the task, or an answer is on its way that shows something. *)
Shows(queue, requests, pg, task) ==
    \/ pg.prompt = task /\ (task = Plain("PLAY_CARD") => pg.active)
    \/ pg.prompt = Plain("CONFIRM") /\ task = Plain("PLAY_CARD")
    \/ pg.prompt = Plain("SERVER_ERROR")
    \/ pg.prompt = Nothing /\ (requests # <<>> \/ queue # <<>>)

(* Or the task is on its way. *)
Follows(queue, requests, pg, task) ==
    \/ EndsIn(queue, {task, Plain("SERVER_ERROR")}, Again(task))
    \/ /\ \A i \in DOMAIN queue : queue[i] \in Again(task)
       /\ Shows(queue, requests, pg, task)

(* A page that is told that its choice was illegal asks for that choice again. *)
Recalls(queue, pg, task) ==
    task \in Choices =>
        \/ EndsIn(queue, {task}, {Invalid, Plain("SERVER_ERROR")})
        \/ /\ \A i \in DOMAIN queue : queue[i] \in {Invalid, Plain("SERVER_ERROR")}
           /\ pg.last = task

PageFollows(w) ==
    /\ Follows(toPage[w], fromPage[w], page[w], Task(SessionOf[w]))
    /\ Recalls(toPage[w], page[w], Task(SessionOf[w]))

IInv ==
    /\ TypeOK
    /\ phase = "Over" => step = "Finished"
    /\ phase = "Created" => \A w \in open : Greeted(toPage[w], fromPage[w], page[w])
    /\ phase # "Created" => \A w \in open : PageFollows(w)
=============================================================================
