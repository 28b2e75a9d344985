-------------------------- MODULE UnoLobbyProperties --------------------------
(***************************************************************************)
(* What the players of a lobby of Uno may count on: a page to which nothing *)
(* is on its way asks for what the engine waits for, and for nothing else.  *)
(***************************************************************************)
EXTENDS UnoLobby, Queues

(* The player whose answer the game waits for. *)
Asked(s) == Running /\ s = (IF state = "Finished" THEN Creator ELSE turn)

Choosing(w) == page[w].prompt.type \in {"CONFIRM", "COLOR"}

(* The statuses that take the place of a task although the game goes on: an error of *)
(* the server, the answer to a name given when the game had started, and the end of   *)
(* the game, told before the lobby is erased.                                         *)
Diversions ==
    {Plain("SERVER_ERROR"), Plain("WAITING_START"), Plain("WAITING_HOST"), Plain("END")}

Diverted(w) == page[w].prompt \in Diversions

(* What lastMsg can be: what refuseCard() shows again. *)
Resumed == {"HAND", "ASK_USERNAME", "ASK_START", "ASK_CONFIRM"}

(* In a draw the page can lose its question: there is no card to show, or the player   *)
(* clicked on a card of his hand instead of answering, which INPUT_INVALID does not     *)
(* make good and refuseCard() replaces by the hand, DRAW not being saved.               *)
Lost(w) ==
    /\ state = "Drawing"
    /\ noCards \/ w \in strayed
    /\ page[w].prompt.type \in {"NOTHING"} \cup Resumed

(* The windows of the player the game waits for show what it waits for: no request     *)
(* that is refused or comes too late, no other window, no new connection and no message *)
(* out of turn leaves him without.  Only in a draw can he lose the question himself.    *)
TheAskedPageAsks ==
    \A w \in Windows : Quiet(w) /\ Asked(SessionOf[w]) =>
        page[w].prompt = Task(SessionOf[w]) \/ Choosing(w) \/ Diverted(w) \/ Lost(w)

(* A player the game does not wait for has nothing to press and no card to click, but   *)
(* for the one at whose turn a game finished: a hand he was told of again is there to   *)
(* be clicked, in vain.                                                                 *)
NobodyElseIsAsked ==
    \A w \in Windows : Quiet(w) /\ Running /\ ~Asked(SessionOf[w]) =>
        \/ /\ page[w].prompt.type \in {"WAITING", "WAITING_NEXT"} \/ Diverted(w)
           /\ page[w].active => SessionOf[w] = turn
        \/ SessionOf[w] = turn /\ (Choosing(w) \/ page[w].prompt.type \in Resumed)
-----------------------------------------------------------------------------
(* The parts of the inductive invariant.                                     *)

Messages == [type  : {"ASK_USERNAME", "ASK_START", "WAITING_START", "WAITING_HOST", "HAND",
                      "WAITING", "DRAW", "ASK_CONFIRM", "WAITING_NEXT", "END",
                      "INPUT_INVALID", "SERVER_ERROR", "NOTHING", "CONFIRM", "COLOR"},
             flags : SUBSET {"playing", "can_draw", "drawn", "hand", "of_drawn", "empty"}]
Requests == [type : {"SET_USERNAME", "START", "NEXT", "END", "PLAY", "DRAW", "DRAW_CONFIRM"},
             card : {"-", "hand", "drawn", "old"}]
Pages    == [prompt : Messages, last : {m \in Messages : m.type \in Resumed} \cup {Nothing},
             active : BOOLEAN]

(* The shape of the variables; a player is offered something only in a draw of his own. *)
TypeOK ==
    /\ phase \in {"Created", "Started", "Over"}
    /\ open \in SUBSET Windows
    /\ toPage \in [Windows -> Seq(Messages)]
    /\ fromPage \in [Windows -> Seq(Requests)]
    /\ page \in [Windows -> Pages]
    /\ state \in {"PlayOrDraw", "Play", "Drawing", "Finished"}
    /\ turn \in Sessions
    /\ mayPlay \in BOOLEAN
    /\ offer \in SUBSET {"drawn", "hand"}
    /\ offer # {} => state = "Drawing" /\ mayPlay
    /\ noCards \in BOOLEAN
    /\ ending \in SUBSET Windows
    /\ strayed \in SUBSET Windows

(* The requests of a player that the lobby would answer by INPUT_INVALID: unlike *)
(* every other answer, that one leaves the page as it is.                        *)
Refused(s) ==
    {r \in Requests :
        /\ s = turn /\ state # "Finished"
        /\ \/ /\ r.type = "PLAY" /\ (state = "Drawing" => mayPlay)
              /\ r.card = "old" \/ (r.card = "hand" /\ state = "Drawing")
           \/ r.type = "DRAW" /\ state = "Play"
           \/ r.type = "DRAW_CONFIRM" /\ r.card = "hand" /\ state = "Drawing" /\ ~mayPlay}

(* The tasks that are saved in lastMsg. *)
CardTasks == {"HAND", "ASK_CONFIRM"}

(* What a page can show in the place of a task: in a draw that is lost, and to the player *)
(* who plays in vain with the hand that was his when the game finished.                   *)
Astray(w) ==
    {shown \in {"NOTHING", "CONFIRM", "COLOR"} \cup Resumed :
        /\ SessionOf[w] = turn
        /\ \/ state = "Drawing" /\ (noCards \/ w \in strayed)
           \/ state = "Finished" /\ SessionOf[w] # Creator /\ shown # "NOTHING"}

(* An answer that will bring a task is due; or the page shows the task, or what diverted  *)
(* it from it; or the player goes on from it to choose a card or a colour; or he strayed. *)
Shows(pg, requests, task, refused, astray) ==
    \/ \E i \in DOMAIN requests : requests[i] \notin refused
    \/ pg.prompt \in {task} \cup Diversions
    \/ task.type \in CardTasks /\ pg.prompt \in {Plain("CONFIRM"), Plain("COLOR")}
    \/ task.type = "DRAW" /\ pg.prompt = Message("COLOR", {"of_drawn"})
    \/ pg.prompt.type \in astray

(* Or the task is on its way to it, nothing else coming after. *)
Follows(queue, requests, pg, task, refused, astray) ==
    \/ EndsIn(queue, {task} \cup Diversions, {Invalid})
    \/ /\ \A i \in DOMAIN queue : queue[i] = Invalid
       /\ Shows(pg, requests, task, refused, astray)

PageFollows(w) == LET s == SessionOf[w] IN
    Follows(toPage[w], fromPage[w], page[w], Task(s), Refused(s), Astray(w))

(* What a click on a card would take the player away from can be asked again. *)
Resumes(pg, task) ==
    task.type \in CardTasks /\ (pg.active \/ pg.prompt.type = "CONFIRM") => pg.last = task

LastIsKept(queue, pg, task) ==
    \/ EndsIn(queue, {task}, Diversions \cup {Invalid})
    \/ (\A i \in DOMAIN queue : queue[i] \in Diversions \cup {Invalid}) /\ Resumes(pg, task)

LastFollows(w) == LastIsKept(toPage[w], page[w], Task(SessionOf[w]))

Playable == {m \in Messages : m.type = "HAND" /\ "playing" \in m.flags}

(* The cards cannot be clicked, or are about to be put away. *)
CardsAreDown(queue, pg) ==
    \/ EndsIn(queue, {m \in Messages : m.type = "HAND"} \ Playable, Messages \ Playable)
    \/ /\ \A i \in DOMAIN queue : queue[i] \notin Playable
       /\ ~pg.active /\ pg.last \notin Playable

HandFollows(w) == SessionOf[w] # turn => CardsAreDown(toPage[w], page[w])

IInv ==
    /\ TypeOK
    /\ Running => \A w \in open : PageFollows(w) /\ LastFollows(w) /\ HandFollows(w)
=============================================================================
