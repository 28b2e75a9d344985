---------------------------- MODULE UnoLobbyProofs ----------------------------
(***************************************************************************)
(* Proofs about UnoLobby for any number of players and windows, and any    *)
(* number of messages on their way: see README.md for the argument.        *)
(***************************************************************************)
EXTENDS UnoLobbyProperties, Lemmas

(* The types of the messages that have no flags.                             *)
LEMMA PlainFacts ==
    ASSUME NEW type \in {"ASK_USERNAME", "ASK_START", "WAITING_START", "WAITING_HOST",
                         "WAITING", "ASK_CONFIRM", "WAITING_NEXT", "END", "INPUT_INVALID",
                         "SERVER_ERROR", "NOTHING", "CONFIRM"}
    PROVE  Plain(type) \in Messages /\ Plain(type).type = type /\ Plain(type).flags = {}
  BY DEF Plain, Message, Messages

(* What a page makes of a message.                                           *)
Asks == {"ASK_USERNAME", "ASK_START", "ASK_CONFIRM"}

LEMMA PageFacts ==
    ASSUME NEW pg \in Pages
    PROVE  /\ pg.prompt \in Messages /\ pg.last \in Messages /\ pg.active \in BOOLEAN
           /\ pg.last.type \in Resumed \/ pg.last = Nothing
<1>1. Nothing \in Messages
  BY PlainFacts DEF Nothing
<1> QED
  BY <1>1 DEF Pages

LEMMA KeptFacts ==
    ASSUME NEW pg \in Pages
    PROVE  /\ Kept(pg) \in Pages
           /\ Kept(pg).prompt = pg.prompt /\ Kept(pg).active = pg.active
           /\ Kept(pg).last \in {pg.last, Nothing}
           /\ pg.active \/ pg.prompt.type = "CONFIRM" => Kept(pg).last = pg.last
<1>1. Nothing \in Messages /\ Nothing.type = "NOTHING"
  BY PlainFacts DEF Nothing
<1> QED
  BY <1>1 DEF Kept, Pages

LEMMA PageIgnores ==
    ASSUME NEW pg \in Pages, NEW msg \in {Invalid, Nothing}
    PROVE  Show(pg, msg) = pg
<1>1. msg.type \in {"INPUT_INVALID", "NOTHING"}
  BY PlainFacts DEF Invalid, Nothing
<1> QED
  BY <1>1 DEF Show

LEMMA PageTakesHand ==
    ASSUME NEW pg \in Pages, NEW msg \in Playable
    PROVE  /\ Show(pg, msg) \in Pages
           /\ Show(pg, msg).prompt = msg /\ Show(pg, msg).last = msg
           /\ Show(pg, msg).active = TRUE
<1>1. msg \in Messages /\ msg.type = "HAND" /\ "playing" \in msg.flags
  BY DEF Playable
<1>2. msg \notin {Invalid, Nothing}
  BY <1>1, PlainFacts DEF Invalid, Nothing
<1>3. Show(pg, msg) = [[pg EXCEPT !.prompt = msg, !.last = msg] EXCEPT !.active = TRUE]
  BY <1>1, <1>2 DEF Show, Saved
<1> QED
  BY <1>1, <1>3 DEF Pages, Resumed

LEMMA PagePutsHandAway ==
    ASSUME NEW pg \in Pages, NEW msg \in Messages, msg.type = "HAND", msg \notin Playable
    PROVE  /\ Show(pg, msg) \in Pages
           /\ Show(pg, msg).prompt = pg.prompt /\ Show(pg, msg).last = msg
           /\ Show(pg, msg).active = FALSE
<1>1. msg \notin {Invalid, Nothing}
  BY PlainFacts DEF Invalid, Nothing
<1>2. Show(pg, msg) = [pg EXCEPT !.last = msg, !.active = FALSE]
  BY <1>1 DEF Show, Playable
<1> QED
  BY <1>2 DEF Pages, Resumed

LEMMA PageSaves ==
    ASSUME NEW pg \in Pages, NEW msg \in Messages, msg.type \in Asks
    PROVE  /\ Show(pg, msg) \in Pages
           /\ Show(pg, msg).prompt = msg /\ Show(pg, msg).last = msg
           /\ Show(pg, msg).active = pg.active
<1>1. msg \notin {Invalid, Nothing}
  BY PlainFacts DEF Invalid, Nothing, Asks
<1>2. Show(pg, msg) = [pg EXCEPT !.prompt = msg, !.last = msg]
  BY <1>1 DEF Show, Saved, Asks
<1> QED
  BY <1>2 DEF Pages, Asks, Resumed

LEMMA PageShows ==
    ASSUME NEW pg \in Pages, NEW msg \in Messages,
           msg.type \notin Asks \cup {"HAND"}, msg \notin {Invalid, Nothing},
           msg.type = "DRAW" => "empty" \notin msg.flags
    PROVE  /\ Show(pg, msg) \in Pages
           /\ Show(pg, msg).prompt = msg /\ Show(pg, msg).last = pg.last
           /\ Show(pg, msg).active = pg.active
<1>1. Show(pg, msg) = [pg EXCEPT !.prompt = msg]
  BY DEF Show, Asks
<1> QED
  BY <1>1 DEF Pages

LEMMA PageHides ==
    ASSUME NEW pg \in Pages, NEW msg \in Messages, msg.type = "DRAW", "empty" \in msg.flags
    PROVE  Show(pg, msg) \in Pages /\ Show(pg, msg) = Hidden(pg)
<1>1. msg \notin {Invalid, Nothing} /\ Nothing \in Messages
  BY PlainFacts DEF Invalid, Nothing
<1>2. Show(pg, msg) = [pg EXCEPT !.prompt = Nothing]
  BY <1>1 DEF Show, Hidden
<1> QED
  BY <1>1, <1>2 DEF Pages, Hidden

LEMMA ShownIsAPage ==
    ASSUME NEW pg \in Pages, NEW msg \in Messages
    PROVE  Show(pg, msg) \in Pages /\ Kept(Show(pg, msg)) \in Pages
<1>1. Show(pg, msg) \in Pages
  <2>1. CASE msg \in {Invalid, Nothing}
    BY <2>1, PageIgnores
  <2>2. CASE msg \in Playable
    BY <2>2, PageTakesHand
  <2>3. CASE msg.type = "HAND" /\ msg \notin Playable
    BY <2>3, PagePutsHandAway
  <2>4. CASE msg.type \in Asks
    BY <2>4, PageSaves
  <2>5. CASE msg.type = "DRAW" /\ "empty" \in msg.flags
    BY <2>5, PageHides
  <2>6. CASE /\ msg.type \notin Asks \cup {"HAND"} /\ msg \notin {Invalid, Nothing}
             /\ msg.type = "DRAW" => "empty" \notin msg.flags
    BY <2>6, PageShows
  <2> QED
    BY <2>1, <2>2, <2>3, <2>4, <2>5, <2>6
<1> QED
  BY <1>1, KeptFacts

(* What a task of the game is: what serializeCurrentTask can send.           *)
IsTask(msg) ==
    \/ msg \in {Plain("ASK_CONFIRM"), Plain("WAITING_NEXT"), Plain("WAITING")}
    \/ msg.type = "DRAW" /\ msg.flags \subseteq {"drawn", "hand", "empty"}
    \/ msg.type = "HAND" /\ msg.flags \in {{"playing"}, {"playing", "can_draw"}}

(* HandOf and Task, with the state of the table as arguments.                *)
HandIn(st, tn, s) ==
    Message("HAND", IF s # tn THEN {}
                    ELSE {"playing"} \cup (IF st = "PlayOrDraw" THEN {"can_draw"} ELSE {}))

TaskIn(st, tn, of, nc, s) ==
    IF st = "Finished" THEN Plain(IF s = Creator THEN "ASK_CONFIRM" ELSE "WAITING_NEXT")
    ELSE IF s # tn THEN Plain("WAITING")
    ELSE IF st = "Drawing" THEN Message("DRAW", of \cup (IF nc THEN {"empty"} ELSE {}))
    ELSE HandIn(st, tn, s)

LEMMA HandFacts ==
    ASSUME NEW st, NEW tn, NEW s
    PROVE  /\ HandIn(st, tn, s) \in Messages /\ HandIn(st, tn, s).type = "HAND"
           /\ s # tn => HandIn(st, tn, s).flags = {} /\ HandIn(st, tn, s) \notin Playable
           /\ s = tn => HandIn(st, tn, s).flags \in {{"playing"}, {"playing", "can_draw"}}
           /\ "can_draw" \in HandIn(st, tn, s).flags => st = "PlayOrDraw"
<1> DEFINE flags == IF s # tn THEN {}
                    ELSE {"playing"} \cup (IF st = "PlayOrDraw" THEN {"can_draw"} ELSE {})
<1>1. flags \in SUBSET {"playing", "can_draw", "drawn", "hand", "of_drawn", "empty"}
  OBVIOUS
<1>2. /\ s # tn => flags = {}
      /\ s = tn => flags \in {{"playing"}, {"playing", "can_draw"}}
      /\ "can_draw" \in flags => st = "PlayOrDraw"
  OBVIOUS
<1>3. HandIn(st, tn, s) = Message("HAND", flags)
  BY DEF HandIn
<1> HIDE DEF flags
<1>4. /\ HandIn(st, tn, s) \in Messages /\ HandIn(st, tn, s).type = "HAND"
      /\ HandIn(st, tn, s).flags = flags
  BY <1>1, <1>3 DEF Message, Messages
<1> QED
  BY <1>2, <1>4 DEF Playable

LEMMA TaskCases ==
    ASSUME NEW st, NEW tn, NEW of, NEW nc, NEW s
    PROVE  LET t == TaskIn(st, tn, of, nc, s) IN
           \/ t = Plain("ASK_CONFIRM") /\ st = "Finished" /\ s = Creator
           \/ t = Plain("WAITING_NEXT") /\ st = "Finished" /\ s # Creator
           \/ t = Plain("WAITING") /\ st # "Finished" /\ s # tn
           \/ /\ t = Message("DRAW", of \cup (IF nc THEN {"empty"} ELSE {}))
              /\ st = "Drawing" /\ s = tn
           \/ t = HandIn(st, tn, s) /\ st \notin {"Drawing", "Finished"} /\ s = tn
  BY DEF TaskIn

LEMMA TasksInAState ==
    ASSUME NEW st, NEW tn, NEW of \in SUBSET {"drawn", "hand"}, NEW nc \in BOOLEAN, NEW s
    PROVE  LET t == TaskIn(st, tn, of, nc, s) IN
           /\ t \in Messages /\ IsTask(t)
           /\ t.type \in CardTasks =>
                 s = (IF st = "Finished" THEN Creator ELSE tn) /\ st # "Drawing"
           /\ t.type = "DRAW" => s = tn /\ st = "Drawing" /\ ("hand" \in t.flags => "hand" \in of)
           /\ t.type = "DRAW" /\ "empty" \in t.flags => nc
           /\ t.type = "HAND" => s = tn /\ ("can_draw" \in t.flags => st = "PlayOrDraw")
           /\ s # tn => t \notin Playable
           /\ s # (IF st = "Finished" THEN Creator ELSE tn) =>
                 t.type \in {"WAITING", "WAITING_NEXT"}
<1> DEFINE t == TaskIn(st, tn, of, nc, s)
<1>1. CASE t = Plain("ASK_CONFIRM") /\ st = "Finished" /\ s = Creator
  <2>1. t \in Messages /\ t.type = "ASK_CONFIRM"
    BY <1>1, PlainFacts
  <2> QED
    BY <1>1, <2>1 DEF IsTask, CardTasks, Playable
<1>2. CASE t = Plain("WAITING_NEXT") /\ st = "Finished" /\ s # Creator
  <2>1. t \in Messages /\ t.type = "WAITING_NEXT"
    BY <1>2, PlainFacts
  <2> QED
    BY <1>2, <2>1 DEF IsTask, CardTasks, Playable
<1>3. CASE t = Plain("WAITING") /\ st # "Finished" /\ s # tn
  <2>1. t \in Messages /\ t.type = "WAITING"
    BY <1>3, PlainFacts
  <2> QED
    BY <1>3, <2>1 DEF IsTask, CardTasks, Playable
<1>4. CASE /\ t = Message("DRAW", of \cup (IF nc THEN {"empty"} ELSE {}))
           /\ st = "Drawing" /\ s = tn
  <2> DEFINE flags == of \cup (IF nc THEN {"empty"} ELSE {})
  <2>0. /\ flags \in SUBSET {"drawn", "hand", "empty"}
        /\ "hand" \in flags => "hand" \in of
        /\ "empty" \in flags => nc
    OBVIOUS
  <2>1. t = [type |-> "DRAW", flags |-> flags]
    BY <1>4 DEF Message
  <2> HIDE DEF flags
  <2>2. t \in Messages /\ t.type = "DRAW" /\ t.flags = flags
    BY <2>0, <2>1 DEF Messages
  <2> QED
    BY <1>4, <2>0, <2>2 DEF IsTask, CardTasks, Playable
<1>5. CASE t = HandIn(st, tn, s) /\ st \notin {"Drawing", "Finished"} /\ s = tn
  <2>1. /\ t \in Messages /\ t.type = "HAND"
        /\ t.flags \in {{"playing"}, {"playing", "can_draw"}}
        /\ "can_draw" \in t.flags => st = "PlayOrDraw"
    BY <1>5, HandFacts
  <2> QED
    BY <1>5, <2>1 DEF IsTask, CardTasks, Playable
<1> QED
  BY <1>1, <1>2, <1>3, <1>4, <1>5, TaskCases

LEMMA TasksAreTasks ==
    ASSUME TypeOK, NEW s
    PROVE  /\ Task(s) \in Messages /\ IsTask(Task(s))
           /\ Task(s).type \in CardTasks =>
                 s = (IF state = "Finished" THEN Creator ELSE turn) /\ state # "Drawing"
           /\ Task(s).type = "DRAW" =>
                 s = turn /\ state = "Drawing" /\ ("hand" \in Task(s).flags => "hand" \in offer)
           /\ Task(s).type = "DRAW" /\ "empty" \in Task(s).flags => noCards
           /\ Task(s).type = "HAND" =>
                 s = turn /\ ("can_draw" \in Task(s).flags => state = "PlayOrDraw")
           /\ s # turn => Task(s) \notin Playable
           /\ s # (IF state = "Finished" THEN Creator ELSE turn) =>
                 Task(s).type \in {"WAITING", "WAITING_NEXT"}
<1>1. Task(s) = TaskIn(state, turn, offer, noCards, s)
  BY DEF Task, TaskIn, HandOf, HandIn
<1>2. offer \in SUBSET {"drawn", "hand"} /\ noCards \in BOOLEAN
  BY DEF TypeOK
<1> QED
  BY <1>1, <1>2, TasksInAState
-----------------------------------------------------------------------------
(* What the parts of the invariant say of the messages.                      *)
LEMMA DiversionFacts ==
    ASSUME NEW msg \in Diversions
    PROVE  /\ msg \in Messages /\ msg.flags = {}
           /\ msg.type \in {"SERVER_ERROR", "WAITING_START", "WAITING_HOST", "END"}
           /\ msg \notin {Invalid, Nothing} /\ msg \notin Playable
<1>1. /\ msg \in Messages /\ msg.flags = {}
      /\ msg.type \in {"SERVER_ERROR", "WAITING_START", "WAITING_HOST", "END"}
  BY PlainFacts DEF Diversions
<1> QED
  BY <1>1, PlainFacts DEF Invalid, Nothing, Playable

LEMMA TaskFacts ==
    ASSUME NEW task \in Messages, IsTask(task)
    PROVE  /\ task.type \in {"ASK_CONFIRM", "WAITING_NEXT", "WAITING", "DRAW", "HAND"}
           /\ task.type \in {"ASK_CONFIRM", "WAITING_NEXT", "WAITING"} => task.flags = {}
           /\ task.type = "DRAW" => task.flags \subseteq {"drawn", "hand", "empty"}
           /\ task.type = "HAND" =>
                 task.flags \in {{"playing"}, {"playing", "can_draw"}} /\ task \in Playable
           /\ task \notin Diversions \cup {Invalid, Nothing}
<1>1. \/ task.type \in {"ASK_CONFIRM", "WAITING_NEXT", "WAITING"} /\ task.flags = {}
      \/ task.type = "DRAW" /\ task.flags \subseteq {"drawn", "hand", "empty"}
      \/ task.type = "HAND" /\ task.flags \in {{"playing"}, {"playing", "can_draw"}}
  BY PlainFacts DEF IsTask
<1>2. task \notin {Invalid, Nothing}
  BY <1>1, PlainFacts DEF Invalid, Nothing
<1>3. task \notin Diversions
  BY <1>1, DiversionFacts
<1> QED
  BY <1>1, <1>2, <1>3 DEF Playable

(* A page takes its task, but for a draw without cards.                      *)
LEMMA PageTakesTask ==
    ASSUME NEW pg \in Pages, NEW task \in Messages, IsTask(task)
    PROVE  /\ \/ Kept(Show(pg, task)).prompt = task
              \/ /\ task.type = "DRAW" /\ "empty" \in task.flags
                 /\ Kept(Show(pg, task)).prompt = Nothing
           /\ Resumes(Kept(Show(pg, task)), task)
<1>0. PICK shown \in Pages : shown = Show(pg, task)
  BY ShownIsAPage
<1>1. PICK new \in Pages :
          /\ new = Kept(shown)
          /\ new.prompt = shown.prompt /\ new.active = shown.active
          /\ shown.active \/ shown.prompt.type = "CONFIRM" => new.last = shown.last
  BY KeptFacts
<1>2. CASE task.type = "HAND"
  <2>1. task \in Playable
    BY <1>2, TaskFacts
  <2>2. shown.prompt = task /\ shown.last = task /\ shown.active = TRUE
    BY <1>0, <2>1, PageTakesHand
  <2> QED
    BY <1>0, <1>1, <2>2 DEF Resumes
<1>3. CASE task.type = "ASK_CONFIRM"
  <2>1. shown.prompt = task /\ shown.last = task
    BY <1>0, <1>3, PageSaves DEF Asks
  <2> QED
    BY <1>0, <1>1, <1>3, <2>1 DEF Resumes
<1>4. CASE task.type = "DRAW" /\ "empty" \in task.flags
  <2>1. Hidden(pg).prompt = Nothing
    BY DEF Hidden, Pages
  <2>2. shown.prompt = Nothing
    BY <1>0, <1>4, <2>1, PageHides
  <2> QED
    BY <1>0, <1>1, <1>4, <2>2 DEF Resumes, CardTasks
<1>5. CASE /\ task.type \notin {"HAND", "ASK_CONFIRM"}
           /\ ~(task.type = "DRAW" /\ "empty" \in task.flags)
  <2>1. task \notin {Invalid, Nothing} /\ task.type \notin Asks \cup {"HAND"}
    BY <1>5, TaskFacts DEF Asks
  <2>2. shown.prompt = task
    BY <1>0, <1>5, <2>1, PageShows
  <2> QED
    BY <1>0, <1>1, <1>5, <2>2 DEF Resumes, CardTasks
<1> QED
  BY <1>2, <1>3, <1>4, <1>5

LEMMA PageIsDiverted ==
    ASSUME NEW pg \in Pages, NEW msg \in Diversions
    PROVE  LET new == Kept(Show(pg, msg)) IN
           /\ new.prompt = msg /\ new.active = pg.active
           /\ pg.active => new.last = pg.last
<1>1. /\ msg \in Messages /\ msg.type \notin Asks \cup {"HAND", "DRAW", "CONFIRM"}
      /\ msg \notin {Invalid, Nothing}
  BY DiversionFacts DEF Asks
<1>2. /\ Show(pg, msg) \in Pages
      /\ Show(pg, msg).prompt = msg /\ Show(pg, msg).last = pg.last
      /\ Show(pg, msg).active = pg.active
  BY <1>1, PageShows
<1> QED
  BY <1>2, KeptFacts
-----------------------------------------------------------------------------
(* A page that follows the game goes on doing so as it reads its messages.   *)
LEMMA ReadingFollows ==
    ASSUME NEW q \in Seq(Messages), q # <<>>, NEW pg \in Pages, NEW requests,
           NEW task \in Messages, IsTask(task), NEW refused, NEW astray, NEW astrayNow,
           Follows(q, requests, pg, task, refused, astray),
           Head(q) = Invalid => astrayNow = astray,
           task.type = "DRAW" /\ "empty" \in task.flags => "NOTHING" \in astrayNow
    PROVE  Follows(Tail(q), requests, Kept(Show(pg, Head(q))), task, refused, astrayNow)
<1> DEFINE new == Kept(Show(pg, Head(q)))
           msg == Head(q)
<1>1. CASE EndsIn(q, {task} \cup Diversions, {Invalid})
  <2>1. CASE EndsIn(Tail(q), {task} \cup Diversions, {Invalid})
    BY <2>1 DEF Follows
  <2>2. CASE msg \in {task} \cup Diversions /\ \A i \in DOMAIN Tail(q) : Tail(q)[i] \in {Invalid}
    <3>1. CASE msg \in Diversions
      <4>1. new.prompt = msg
        BY <3>1, PageIsDiverted
      <4> QED
        BY <2>2, <3>1, <4>1 DEF Follows, Shows
    <3>2. CASE msg = task
      <4>1. new.prompt = task \/ (task.type = "DRAW" /\ "empty" \in task.flags /\ new.prompt = Nothing)
        BY <3>2, PageTakesTask
      <4>2. Nothing.type = "NOTHING"
        BY PlainFacts DEF Nothing
      <4>3. Shows(new, requests, task, refused, astrayNow)
        BY <4>1, <4>2 DEF Shows
      <4> QED
        BY <2>2, <4>3 DEF Follows
    <3> QED
      BY <2>2, <3>1, <3>2
  <2> QED
    BY <1>1, <2>1, <2>2, EndIsReached
<1>2. CASE (\A i \in DOMAIN q : q[i] = Invalid) /\ Shows(pg, requests, task, refused, astray)
  <2>1. msg = Invalid /\ \A i \in DOMAIN Tail(q) : Tail(q)[i] = Invalid
    BY <1>2, Tailed
  <2>2. new.prompt = pg.prompt
    BY <2>1, PageIgnores, KeptFacts
  <2>3. Shows(new, requests, task, refused, astrayNow)
    BY <1>2, <2>1, <2>2 DEF Shows
  <2> QED
    BY <2>1, <2>3 DEF Follows
<1> QED
  BY <1>1, <1>2 DEF Follows

LEMMA ReadingKeepsLast ==
    ASSUME NEW q \in Seq(Messages), q # <<>>, NEW pg \in Pages,
           NEW task \in Messages, IsTask(task), LastIsKept(q, pg, task)
    PROVE  LastIsKept(Tail(q), Kept(Show(pg, Head(q))), task)
<1> DEFINE new == Kept(Show(pg, Head(q)))
           msg == Head(q)
           S == Diversions \cup {Invalid}
<1>1. CASE EndsIn(q, {task}, S)
  <2>1. CASE EndsIn(Tail(q), {task}, S)
    BY <2>1 DEF LastIsKept
  <2>2. CASE msg \in {task} /\ \A i \in DOMAIN Tail(q) : Tail(q)[i] \in S
    <3>1. Resumes(new, task)
      BY <2>2, PageTakesTask
    <3> QED
      BY <2>2, <3>1 DEF LastIsKept
  <2> HIDE DEF S
  <2> QED
    BY <1>1, <2>1, <2>2, EndIsReached
<1>2. CASE (\A i \in DOMAIN q : q[i] \in S) /\ Resumes(pg, task)
  <2>1. msg \in S /\ \A i \in DOMAIN Tail(q) : Tail(q)[i] \in S
    BY <1>2, Tailed
  <2>2. CASE msg = Invalid
    <3>1. /\ new.prompt = pg.prompt /\ new.active = pg.active
          /\ pg.active \/ pg.prompt.type = "CONFIRM" => new.last = pg.last
      BY <2>2, PageIgnores, KeptFacts
    <3> QED
      BY <1>2, <2>1, <3>1 DEF LastIsKept, Resumes
  <2>3. CASE msg \in Diversions
    <3>1. /\ new.prompt = msg /\ new.active = pg.active
          /\ pg.active => new.last = pg.last
      BY <2>3, PageIsDiverted
    <3>2. new.prompt.type # "CONFIRM"
      BY <2>3, <3>1, DiversionFacts
    <3> QED
      BY <1>2, <2>1, <3>1, <3>2 DEF LastIsKept, Resumes
  <2> QED
    BY <2>1, <2>2, <2>3
<1> QED
  BY <1>1, <1>2 DEF LastIsKept

LEMMA ReadingKeepsCardsDown ==
    ASSUME NEW q \in Seq(Messages), q # <<>>, NEW pg \in Pages, CardsAreDown(q, pg)
    PROVE  CardsAreDown(Tail(q), Kept(Show(pg, Head(q))))
<1> DEFINE new == Kept(Show(pg, Head(q)))
           msg == Head(q)
           T == {m \in Messages : m.type = "HAND"} \ Playable
           S == Messages \ Playable
<1>0. msg \in Messages /\ Nothing \in Messages /\ Nothing.type = "NOTHING"
  BY Tailed, PlainFacts DEF Nothing
<1>1. CASE EndsIn(q, T, S)
  <2>1. CASE EndsIn(Tail(q), T, S)
    BY <2>1 DEF CardsAreDown
  <2>2. CASE msg \in T /\ \A i \in DOMAIN Tail(q) : Tail(q)[i] \in S
    <3>1. new.active = FALSE /\ new.last \in {msg, Nothing}
      <4>1. msg.type = "HAND" /\ msg \notin Playable
        BY <2>2
      <4>2. /\ Show(pg, msg) \in Pages /\ Show(pg, msg).last = msg
            /\ Show(pg, msg).active = FALSE
        BY <1>0, <4>1, PagePutsHandAway
      <4> QED
        BY <4>2, KeptFacts
    <3>2. new.last \notin Playable
      BY <1>0, <2>2, <3>1 DEF Playable
    <3> QED
      BY <2>2, <3>1, <3>2 DEF CardsAreDown
  <2> QED
    BY <1>1, <2>1, <2>2, EndIsReached
<1>2. CASE /\ \A i \in DOMAIN q : q[i] \notin Playable
           /\ ~pg.active /\ pg.last \notin Playable
  <2>1. msg \notin Playable /\ \A i \in DOMAIN Tail(q) : Tail(q)[i] \notin Playable
    BY <1>2, Tailed
  <2>2. ~new.active /\ new.last \in {pg.last, msg, Nothing}
    <3>1. pg.active = FALSE
      BY <1>2 DEF Pages
    <3>2. CASE msg \in {Invalid, Nothing}
      BY <3>1, <3>2, PageIgnores, KeptFacts
    <3>3. CASE msg.type = "HAND"
      <4>1. /\ Show(pg, msg) \in Pages /\ Show(pg, msg).last = msg
            /\ Show(pg, msg).active = FALSE
        BY <1>0, <2>1, <3>3, PagePutsHandAway
      <4> QED
        BY <4>1, KeptFacts
    <3>4. CASE msg.type \in Asks
      BY <1>0, <3>1, <3>4, PageSaves, KeptFacts
    <3>5. CASE msg.type = "DRAW" /\ "empty" \in msg.flags
      <4>1. Hidden(pg).active = pg.active /\ Hidden(pg).last = pg.last
        BY DEF Hidden, Pages
      <4> QED
        BY <1>0, <3>1, <3>5, <4>1, PageHides, KeptFacts
    <3>6. CASE /\ msg.type \notin Asks \cup {"HAND"} /\ msg \notin {Invalid, Nothing}
               /\ msg.type = "DRAW" => "empty" \notin msg.flags
      BY <1>0, <3>1, <3>6, PageShows, KeptFacts
    <3> QED
      BY <3>2, <3>3, <3>4, <3>5, <3>6
  <2>3. new.last \notin Playable
    BY <1>0, <1>2, <2>1, <2>2 DEF Playable
  <2> QED
    BY <2>1, <2>2, <2>3 DEF CardsAreDown
<1> QED
  BY <1>1, <1>2 DEF CardsAreDown
(* What a click does to its window.                                          *)
LEMMA AskFacts ==
    ASSUME TypeOK, NEW v \in Windows, NEW type, NEW card, NEW pg,
           Ask(v, type, card, pg),
           [type |-> type, card |-> card] \in Requests
    PROVE  \E r \in Requests :
              /\ r.type = type
              /\ r.card \in {card, "old"} /\ (~Choice(type) \/ ~Behind(v) => r.card = card)
              /\ fromPage' = [fromPage EXCEPT ![v] = Append(@, r)]
              /\ page' = [page EXCEPT ![v] = pg]
              /\ UNCHANGED <<lobbyVars, open, toPage>>
<1> DEFINE r == [type |-> type, card |-> IF Choice(type) /\ Behind(v) THEN "old" ELSE card]
<1>1. r \in Requests /\ r.type = type /\ r.card \in {card, "old"}
      /\ (~Choice(type) \/ ~Behind(v) => r.card = card)
  BY DEF Requests
<1>2. /\ fromPage' = [fromPage EXCEPT ![v] = Append(@, r)]
      /\ page' = [page EXCEPT ![v] = pg]
      /\ UNCHANGED <<lobbyVars, open, toPage>>
  BY DEF Ask
<1> HIDE DEF r
<1> QED
  BY <1>1, <1>2

(* Each click of CommonButtons and Buttons, one by one.                      *)
LEMMA ButtonCases ==
    ASSUME NEW v, Buttons(v)
    PROVE  LET pg == page[v] IN
           \/ \E type \in {"SET_USERNAME", "START", "NEXT", "END"} : Ask(v, type, "-", Hidden(pg))
           \/ /\ pg.prompt.type = "CONFIRM"
              /\ Ask(v, "PLAY", "hand", Kept([Hidden(pg) EXCEPT !.active = FALSE]))
           \/ /\ pg.prompt.type = "CONFIRM"
              /\ Click(v, [Kept([Hidden(pg) EXCEPT !.active = FALSE]) EXCEPT !.prompt = Plain("COLOR")])
           \/ pg.prompt.type = "CONFIRM" /\ Click(v, Kept(Show(pg, pg.last)))
           \/ /\ pg.prompt.type = "COLOR"
              /\ Ask(v, "PLAY", IF "of_drawn" \in pg.prompt.flags THEN "drawn" ELSE "hand", Hidden(pg))
           \/ "can_draw" \in pg.prompt.flags /\ Ask(v, "DRAW", "-", Hidden(pg))
           \/ pg.prompt.type = "DRAW" /\ Ask(v, "DRAW_CONFIRM", "-", Hidden(pg))
           \/ /\ "drawn" \in pg.prompt.flags
              /\ Ask(v, "PLAY", "drawn", Kept([Hidden(pg) EXCEPT !.active = FALSE]))
           \/ /\ "drawn" \in pg.prompt.flags
              /\ Click(v, [Kept([Hidden(pg) EXCEPT !.active = FALSE]) EXCEPT
                              !.prompt = Message("COLOR", {"of_drawn"})])
           \/ "hand" \in pg.prompt.flags /\ Ask(v, "DRAW_CONFIRM", "hand", Hidden(pg))
  BY DEF Buttons, CommonButtons, AcceptCard, Plain

(* The pages the clicks lead to.                                             *)
LEMMA HiddenFacts ==
    ASSUME NEW pg \in Pages
    PROVE  /\ Hidden(pg) \in Pages /\ Hidden(pg).prompt = Nothing
           /\ Hidden(pg).active = pg.active /\ Hidden(pg).last = pg.last
           /\ LET done == Kept([Hidden(pg) EXCEPT !.active = FALSE]) IN
              /\ done \in Pages /\ done.prompt = Nothing
              /\ done.active = FALSE /\ done.last \in {pg.last, Nothing}
<1>1. Nothing \in Messages
  BY PlainFacts DEF Nothing
<1>2. /\ Hidden(pg) \in Pages /\ Hidden(pg).prompt = Nothing
      /\ Hidden(pg).active = pg.active /\ Hidden(pg).last = pg.last
  BY <1>1 DEF Hidden, Pages
<1> DEFINE put == [Hidden(pg) EXCEPT !.active = FALSE]
<1>3. put \in Pages /\ put.prompt = Nothing /\ put.active = FALSE /\ put.last = pg.last
  BY <1>2 DEF Pages
<1> HIDE DEF put
<1>4. /\ Kept(put) \in Pages /\ Kept(put).prompt = Nothing /\ Kept(put).active = FALSE
      /\ Kept(put).last \in {pg.last, Nothing}
  BY <1>3, KeptFacts
<1> QED
  BY <1>2, <1>4 DEF put

LEMMA ColorMessages ==
    /\ Plain("COLOR") \in Messages /\ Plain("COLOR").type = "COLOR" /\ Plain("COLOR").flags = {}
    /\ Message("COLOR", {"of_drawn"}) \in Messages
    /\ Message("COLOR", {"of_drawn"}).type = "COLOR"
    /\ Message("COLOR", {"of_drawn"}).flags = {"of_drawn"}
  BY DEF Plain, Message, Messages

(* What a page may show astray, and when.                                    *)
Wild == {"CONFIRM", "COLOR"} \cup Resumed

LEMMA AstrayFacts ==
    ASSUME NEW w
    PROVE  /\ Astray(w) # {} => Wild \subseteq Astray(w) /\ SessionOf[w] = turn
           /\ Astray(w) # {} =>
                 "NOTHING" \in Astray(w) \/ (state = "Finished" /\ Refused(SessionOf[w]) = {})
           /\ "NOTHING" \in Astray(w) => state = "Drawing" /\ (noCards \/ w \in strayed)
           /\ Astray(w) \subseteq {"NOTHING"} \cup Wild
<1>1. Wild \subseteq {"NOTHING", "CONFIRM", "COLOR"} \cup Resumed /\ "NOTHING" \notin Wild
  BY DEF Wild, Resumed
<1>2. state = "Finished" => Refused(SessionOf[w]) = {}
  BY DEF Refused
<1> QED
  BY <1>1, <1>2 DEF Astray, Wild

(* A request that will be answered with a task stands for what it hid.       *)
LEMMA AnswerIsDue ==
    ASSUME NEW pg, NEW requests \in Seq(Requests), NEW r \in Requests,
           NEW task, NEW refused, NEW astray,
           r \notin refused \/ \E i \in DOMAIN requests : requests[i] \notin refused
    PROVE  Shows(pg, Append(requests, r), task, refused, astray)
<1>1. Len(requests) + 1 \in DOMAIN Append(requests, r) /\ Append(requests, r)[Len(requests) + 1] = r
  OBVIOUS
<1>2. \A i \in DOMAIN requests :
         i \in DOMAIN Append(requests, r) /\ Append(requests, r)[i] = requests[i]
  OBVIOUS
<1> QED
  BY <1>1, <1>2 DEF Shows

(* What is known of a task behind the buttons the page shows.                *)
LEMMA ShownFacts ==
    ASSUME NEW pg \in Pages, NEW requests, NEW task \in Messages, IsTask(task), NEW refused,
           Shows(pg, requests, task, refused, {}),
           \A i \in DOMAIN requests : requests[i] \in refused
    PROVE  /\ pg.prompt.type = "CONFIRM" => task.type \in CardTasks
           /\ pg.prompt.type = "HAND" => task.type \in CardTasks
           /\ pg.prompt.type = "COLOR" => "of_drawn" \in pg.prompt.flags \/ task.type \in CardTasks
           /\ "can_draw" \in pg.prompt.flags => pg.prompt = task /\ task.type = "HAND"
           /\ pg.prompt.flags \cap {"drawn", "hand"} # {} => pg.prompt = task /\ task.type = "DRAW"
<1>1. CASE pg.prompt \in Diversions
  <2>1. /\ pg.prompt.type \in {"SERVER_ERROR", "WAITING_START", "WAITING_HOST", "END"}
        /\ pg.prompt.flags = {}
    BY <1>1, DiversionFacts
  <2> QED
    BY <2>1
<1>2. CASE pg.prompt = task
  <2>1. \/ task.type \in {"ASK_CONFIRM", "WAITING_NEXT", "WAITING"} /\ task.flags = {}
        \/ task.type = "DRAW" /\ task.flags \subseteq {"drawn", "hand", "empty"}
        \/ task.type = "HAND" /\ task.flags \subseteq {"playing", "can_draw"}
    BY PlainFacts DEF IsTask
  <2> QED
    BY <1>2, <2>1 DEF CardTasks
<1>3. CASE pg.prompt = Plain("CONFIRM") /\ task.type \in CardTasks
  <2>1. pg.prompt.type = "CONFIRM" /\ pg.prompt.flags = {}
    BY <1>3, PlainFacts
  <2> QED
    BY <1>3, <2>1
<1>4. CASE pg.prompt = Plain("COLOR") /\ task.type \in CardTasks
  <2>1. pg.prompt.type = "COLOR" /\ pg.prompt.flags = {}
    BY <1>4, ColorMessages
  <2> QED
    BY <1>4, <2>1
<1>5. CASE pg.prompt = Message("COLOR", {"of_drawn"})
  <2>1. pg.prompt.type = "COLOR" /\ pg.prompt.flags = {"of_drawn"}
    BY <1>5, ColorMessages
  <2> QED
    BY <2>1
<1> QED
  BY <1>1, <1>2, <1>3, <1>4, <1>5 DEF Shows
-----------------------------------------------------------------------------
(* A window in which something is clicked goes on following the game.        *)
Pending(v) == \E i \in DOMAIN fromPage[v] : fromPage[v][i] \notin Refused(SessionOf[v])

(* The window waits for its player, who has not strayed.                     *)
Attends(v) ==
    /\ \A i \in DOMAIN toPage[v] : toPage[v][i] = Invalid
    /\ Shows(page[v], fromPage[v], Task(SessionOf[v]), Refused(SessionOf[v]), {})
    /\ ~Pending(v)

LEMMA AskingFollows ==
    ASSUME TypeOK, NEW v \in Windows, PageFollows(v),
           NEW type, NEW card, [type |-> type, card |-> card] \in Requests,
           NEW pg \in Pages, pg.prompt = Nothing, Ask(v, type, card, pg),
           Attends(v) =>
               \A r \in Requests : r.type = type /\ r.card = card => r \notin Refused(SessionOf[v])
    PROVE  Follows(toPage[v], fromPage'[v], page'[v], Task(SessionOf[v]), Refused(SessionOf[v]),
                   Astray(v))
<1> DEFINE task == Task(SessionOf[v])
           refused == Refused(SessionOf[v])
           astray == Astray(v)
<1>1. PICK r \in Requests :
              /\ r.type = type
              /\ r.card \in {card, "old"} /\ (~Choice(type) \/ ~Behind(v) => r.card = card)
              /\ fromPage' = [fromPage EXCEPT ![v] = Append(@, r)]
              /\ page' = [page EXCEPT ![v] = pg]
              /\ UNCHANGED <<lobbyVars, open, toPage>>
  BY AskFacts
<1>2. /\ fromPage'[v] = Append(fromPage[v], r) /\ page'[v] = pg
      /\ fromPage[v] \in Seq(Requests)
  BY <1>1 DEF TypeOK
<1>3. CASE EndsIn(toPage[v], {task} \cup Diversions, {Invalid})
  BY <1>3 DEF Follows
<1>4. CASE /\ \A i \in DOMAIN toPage[v] : toPage[v][i] = Invalid
           /\ Shows(page[v], fromPage[v], task, refused, astray)
  <2>1. r.card = card
    BY <1>1, <1>4 DEF Behind
  <2>2. Shows(pg, Append(fromPage[v], r), task, refused, astray)
    <3>1. CASE Pending(v) \/ r \notin refused
      BY <1>2, <3>1, AnswerIsDue DEF Pending
    <3>2. CASE "NOTHING" \in astray
      BY <3>2, PlainFacts DEF Shows, Nothing
    <3>3. CASE astray = {} /\ ~Pending(v)
      <4>1. Attends(v)
        BY <1>4, <3>3 DEF Attends
      <4> QED
        BY <1>1, <2>1, <3>1, <4>1
    <3>4. CASE astray # {} /\ "NOTHING" \notin astray
      <4>1. refused = {}
        BY <3>4, AstrayFacts
      <4> QED
        BY <3>1, <4>1
    <3> QED
      BY <3>1, <3>2, <3>3, <3>4
  <2> QED
    BY <1>2, <1>4, <2>2 DEF Follows
<1> QED
  BY <1>3, <1>4 DEF PageFollows, Follows

LEMMA ClickingFollows ==
    ASSUME TypeOK, NEW v \in Windows, PageFollows(v), NEW pg, Click(v, pg),
           NEW astrayNow, Astray(v) \subseteq astrayNow,
           Attends(v) => Shows(pg, fromPage[v], Task(SessionOf[v]), Refused(SessionOf[v]), astrayNow),
           /\ \A i \in DOMAIN toPage[v] : toPage[v][i] = Invalid
           /\ Astray(v) # {}
           => pg.prompt.type \in Wild
    PROVE  Follows(toPage[v], fromPage'[v], page'[v], Task(SessionOf[v]), Refused(SessionOf[v]),
                   astrayNow)
<1> DEFINE task == Task(SessionOf[v])
           refused == Refused(SessionOf[v])
           astray == Astray(v)
<1>1. fromPage'[v] = fromPage[v] /\ page'[v] = pg
  BY DEF Click, TypeOK
<1>2. CASE EndsIn(toPage[v], {task} \cup Diversions, {Invalid})
  BY <1>2 DEF Follows
<1>3. CASE /\ \A i \in DOMAIN toPage[v] : toPage[v][i] = Invalid
           /\ Shows(page[v], fromPage[v], task, refused, astray)
  <2>1. Shows(pg, fromPage[v], task, refused, astrayNow)
    <3>1. CASE Pending(v)
      BY <3>1 DEF Pending, Shows
    <3>2. CASE astray = {} /\ ~Pending(v)
      BY <1>3, <3>2 DEF Attends
    <3>3. CASE astray # {} /\ pg.prompt.type \in Wild
      BY <3>3, AstrayFacts DEF Shows
    <3> QED
      BY <1>3, <3>1, <3>2, <3>3
  <2> QED
    BY <1>1, <1>3, <2>1 DEF Follows
<1> QED
  BY <1>2, <1>3 DEF PageFollows, Follows

LEMMA GrantedRequests ==
    ASSUME TypeOK, NEW s, NEW r \in Requests
    PROVE  /\ r.type \in {"SET_USERNAME", "START", "NEXT", "END"} => r \notin Refused(s)
           /\ r.type = "PLAY" /\ r.card = "drawn" => r \notin Refused(s)
           /\ r.type = "PLAY" /\ r.card = "hand" /\ state # "Drawing" => r \notin Refused(s)
           /\ r.type = "DRAW" /\ state # "Play" => r \notin Refused(s)
           /\ r.type = "DRAW_CONFIRM" /\ r.card = "-" => r \notin Refused(s)
           /\ r.type = "DRAW_CONFIRM" /\ mayPlay => r \notin Refused(s)
  BY DEF Refused

(* The page that refuseCard() leaves.                                        *)
LEMMA RefusingShows ==
    ASSUME NEW pg \in Pages, pg.prompt.type = "CONFIRM"
    PROVE  /\ Kept(Show(pg, pg.last)) \in Pages
           /\ Kept(Show(pg, pg.last)).prompt.type \in Wild
           /\ \A task \in Messages :
                 IsTask(task) /\ task.type \in CardTasks /\ pg.last = task =>
                     Kept(Show(pg, pg.last)).prompt = task
<1>1. PICK last \in Messages : last = pg.last /\ (last.type \in Resumed \/ last = Nothing)
  BY PageFacts
<1>2. PICK shown \in Pages : shown = Show(pg, last)
  BY ShownIsAPage
<1>3. Kept(shown) \in Pages /\ Kept(shown).prompt = shown.prompt
  BY KeptFacts
<1>4. shown.prompt.type \in Wild
  <2>1. CASE last = Nothing
    BY <1>2, <2>1, PageIgnores DEF Wild
  <2>2. CASE last \in Playable
    <3>1. shown.prompt = last
      BY <1>2, <2>2, PageTakesHand
    <3>2. last.type = "HAND"
      BY <2>2 DEF Playable
    <3> QED
      BY <3>1, <3>2 DEF Wild, Resumed
  <2>3. CASE last.type = "HAND" /\ last \notin Playable
    BY <1>2, <2>3, PagePutsHandAway DEF Wild
  <2>4. CASE last.type \in Asks
    BY <1>2, <2>4, PageSaves DEF Wild, Resumed, Asks
  <2> QED
    BY <1>1, <2>1, <2>2, <2>3, <2>4 DEF Resumed, Asks
<1>5. ASSUME NEW task \in Messages, IsTask(task), task.type \in CardTasks, last = task
      PROVE  Kept(shown).prompt = task
  BY <1>2, <1>5, PageTakesTask DEF CardTasks
<1> QED
  BY <1>1, <1>2, <1>3, <1>4, <1>5

(* A window that attends has the task saved that a choice would take it from. *)
LEMMA AttendingResumes ==
    ASSUME TypeOK, NEW v \in Windows, LastFollows(v), Attends(v)
    PROVE  Resumes(page[v], Task(SessionOf[v]))
<1> DEFINE task == Task(SessionOf[v])
<1>1. \A i \in DOMAIN toPage[v] : toPage[v][i] # task
  BY TasksAreTasks, TaskFacts DEF Attends
<1>2. ~EndsIn(toPage[v], {task}, Diversions \cup {Invalid})
  BY <1>1 DEF EndsIn
<1> QED
  BY <1>2 DEF LastFollows, LastIsKept

LEMMA PressFollows ==
    ASSUME TypeOK, NEW v \in Windows, PageFollows(v), LastFollows(v), Buttons(v)
    PROVE  Follows(toPage[v], fromPage'[v], page'[v], Task(SessionOf[v]), Refused(SessionOf[v]),
                   Astray(v))
<1> DEFINE s == SessionOf[v]
           pg == page[v]
           task == Task(s)
           refused == Refused(s)
           astray == Astray(v)
           done == Kept([Hidden(pg) EXCEPT !.active = FALSE])
           Still == Follows(toPage[v], fromPage'[v], page'[v], task, refused, astray)
<1>1. pg \in Pages
  BY DEF TypeOK
<1>2. /\ Hidden(pg) \in Pages /\ Hidden(pg).prompt = Nothing
      /\ done \in Pages /\ done.prompt = Nothing
  BY <1>1, HiddenFacts
<1>3. /\ task \in Messages /\ IsTask(task)
      /\ task.type \in CardTasks => state # "Drawing"
      /\ task.type = "DRAW" => state = "Drawing" /\ ("hand" \in task.flags => "hand" \in offer)
      /\ task.type = "HAND" => ("can_draw" \in task.flags => state = "PlayOrDraw")
  BY TasksAreTasks
<1>4. Attends(v) =>
         /\ pg.prompt.type = "CONFIRM" => task.type \in CardTasks
         /\ pg.prompt.type = "COLOR" => "of_drawn" \in pg.prompt.flags \/ task.type \in CardTasks
         /\ "can_draw" \in pg.prompt.flags => pg.prompt = task /\ task.type = "HAND"
         /\ pg.prompt.flags \cap {"drawn", "hand"} # {} => pg.prompt = task /\ task.type = "DRAW"
  BY <1>1, <1>3, ShownFacts DEF Attends, Pending
<1> HIDE DEF done
<1>5. ASSUME NEW type \in {"SET_USERNAME", "START", "NEXT", "END"}, Ask(v, type, "-", Hidden(pg))
      PROVE  Still
  BY <1>2, <1>5, AskingFollows, GrantedRequests DEF Requests
<1>6. CASE pg.prompt.type = "CONFIRM" /\ Ask(v, "PLAY", "hand", done)
  <2>1. [type |-> "PLAY", card |-> "hand"] \in Requests
    BY DEF Requests
  <2>2. Attends(v) => state # "Drawing"
    BY <1>3, <1>4, <1>6
  <2>3. Attends(v) => \A r \in Requests : r.type = "PLAY" /\ r.card = "hand" => r \notin refused
    BY <2>2, GrantedRequests
  <2> QED
    BY <1>2, <1>6, <2>1, <2>3, AskingFollows
<1>7. CASE pg.prompt.type = "CONFIRM" /\ Click(v, [done EXCEPT !.prompt = Plain("COLOR")])
  <2>1. PICK new : new = [done EXCEPT !.prompt = Plain("COLOR")]
    OBVIOUS
  <2>2. new.prompt = Plain("COLOR")
    BY <1>2, <2>1 DEF Pages
  <2>3. Attends(v) => Shows(new, fromPage[v], task, refused, astray)
    BY <1>4, <1>7, <2>2 DEF Shows
  <2>4. new.prompt.type \in Wild
    BY <2>2, ColorMessages DEF Wild
  <2> QED
    BY <1>7, <2>1, <2>3, <2>4, ClickingFollows
<1>8. CASE pg.prompt.type = "CONFIRM" /\ Click(v, Kept(Show(pg, pg.last)))
  <2>1. PICK new : new = Kept(Show(pg, pg.last))
    OBVIOUS
  <2>2. /\ new.prompt.type \in Wild
        /\ task.type \in CardTasks /\ pg.last = task => new.prompt = task
    BY <1>1, <1>3, <1>8, <2>1, RefusingShows
  <2>3. Attends(v) => task.type \in CardTasks /\ pg.last = task
    BY <1>4, <1>8, AttendingResumes DEF Resumes
  <2>4. Attends(v) => Shows(new, fromPage[v], task, refused, astray)
    BY <2>2, <2>3 DEF Shows
  <2> QED
    BY <1>8, <2>1, <2>2, <2>4, ClickingFollows
<1>9. CASE /\ pg.prompt.type = "COLOR"
           /\ Ask(v, "PLAY", IF "of_drawn" \in pg.prompt.flags THEN "drawn" ELSE "hand", Hidden(pg))
  <2> DEFINE card == IF "of_drawn" \in pg.prompt.flags THEN "drawn" ELSE "hand"
  <2>1. [type |-> "PLAY", card |-> card] \in Requests
    BY DEF Requests
  <2>2. card = "drawn" \/ (card = "hand" /\ (Attends(v) => state # "Drawing"))
    BY <1>3, <1>4, <1>9
  <2> HIDE DEF card
  <2>3. Attends(v) => \A r \in Requests : r.type = "PLAY" /\ r.card = card => r \notin refused
    BY <2>2, GrantedRequests
  <2>4. Ask(v, "PLAY", card, Hidden(pg))
    BY <1>9 DEF card
  <2> QED
    BY <1>2, <2>1, <2>3, <2>4, AskingFollows
<1>10. CASE "can_draw" \in pg.prompt.flags /\ Ask(v, "DRAW", "-", Hidden(pg))
  <2>1. [type |-> "DRAW", card |-> "-"] \in Requests
    BY DEF Requests
  <2>2. Attends(v) => state # "Play"
    BY <1>3, <1>4, <1>10
  <2>3. Attends(v) => \A r \in Requests : r.type = "DRAW" /\ r.card = "-" => r \notin refused
    BY <2>2, GrantedRequests
  <2> QED
    BY <1>2, <1>10, <2>1, <2>3, AskingFollows
<1>11. CASE Ask(v, "DRAW_CONFIRM", "-", Hidden(pg))
  <2>1. [type |-> "DRAW_CONFIRM", card |-> "-"] \in Requests
    BY DEF Requests
  <2>2. \A r \in Requests : r.type = "DRAW_CONFIRM" /\ r.card = "-" => r \notin refused
    BY GrantedRequests
  <2> QED
    BY <1>2, <1>11, <2>1, <2>2, AskingFollows
<1>12. CASE Ask(v, "PLAY", "drawn", done)
  <2>1. [type |-> "PLAY", card |-> "drawn"] \in Requests
    BY DEF Requests
  <2>2. \A r \in Requests : r.type = "PLAY" /\ r.card = "drawn" => r \notin refused
    BY GrantedRequests
  <2> QED
    BY <1>2, <1>12, <2>1, <2>2, AskingFollows
<1>13. CASE /\ "drawn" \in pg.prompt.flags
            /\ Click(v, [done EXCEPT !.prompt = Message("COLOR", {"of_drawn"})])
  <2>1. PICK new : new = [done EXCEPT !.prompt = Message("COLOR", {"of_drawn"})]
    OBVIOUS
  <2>2. new.prompt = Message("COLOR", {"of_drawn"})
    BY <1>2, <2>1 DEF Pages
  <2>3. Attends(v) => Shows(new, fromPage[v], task, refused, astray)
    BY <1>4, <1>13, <2>2 DEF Shows
  <2>4. new.prompt.type \in Wild
    BY <2>2, ColorMessages DEF Wild
  <2> QED
    BY <1>13, <2>1, <2>3, <2>4, ClickingFollows
<1>14. CASE "hand" \in pg.prompt.flags /\ Ask(v, "DRAW_CONFIRM", "hand", Hidden(pg))
  <2>1. [type |-> "DRAW_CONFIRM", card |-> "hand"] \in Requests
    BY DEF Requests
  <2>2. Attends(v) => mayPlay
    <3>1. Attends(v) => "hand" \in offer
      BY <1>3, <1>4, <1>14
    <3> QED
      BY <3>1 DEF TypeOK
  <2>3. Attends(v) => \A r \in Requests : r.type = "DRAW_CONFIRM" /\ r.card = "hand" => r \notin refused
    BY <2>2, GrantedRequests
  <2> QED
    BY <1>2, <1>14, <2>1, <2>3, AskingFollows
<1> HIDE DEF Still
<1> QED
  BY <1>5, <1>6, <1>7, <1>8, <1>9, <1>10, <1>11, <1>12, <1>13, <1>14, ButtonCases
  DEF done, Still

(* The player at turn is asked to play, unless the game is finished.         *)
LEMMA TurnPlays ==
    ASSUME TypeOK, NEW s, s = turn, Task(s).type \notin CardTasks \cup {"DRAW"}
    PROVE  state = "Finished" /\ s # Creator
<1>1. Task(s) = TaskIn(state, turn, offer, noCards, s)
  BY DEF Task, TaskIn, HandOf, HandIn
<1>2. \A flags : Message("DRAW", flags).type = "DRAW"
  BY DEF Message
<1>3. HandIn(state, turn, s).type = "HAND" /\ Plain("ASK_CONFIRM").type = "ASK_CONFIRM"
  BY HandFacts, PlainFacts
<1>4. CASE state # "Finished"
  <2>1. \/ TaskIn(state, turn, offer, noCards, s) = HandIn(state, turn, s)
        \/ \E flags : TaskIn(state, turn, offer, noCards, s) = Message("DRAW", flags)
    BY <1>4 DEF TaskIn
  <2> QED
    BY <1>1, <1>2, <1>3, <2>1 DEF CardTasks
<1>5. CASE state = "Finished"
  BY <1>1, <1>3, <1>5 DEF TaskIn, CardTasks
<1> QED
  BY <1>4, <1>5

(* A card can be clicked under any prompt: the player goes on from his task, or strays. *)
LEMMA CardFollows ==
    ASSUME TypeOK, NEW v \in Windows, PageFollows(v), HandFollows(v), ClickCard(v),
           NEW astrayNow, Astray(v) \subseteq astrayNow,
           /\ SessionOf[v] = turn /\ state = "Drawing"
           /\ page[v].prompt.type \notin {"HAND", "CONFIRM"}
           => "CONFIRM" \in astrayNow
    PROVE  Follows(toPage[v], fromPage'[v], page'[v], Task(SessionOf[v]), Refused(SessionOf[v]),
                   astrayNow)
<1> DEFINE s == SessionOf[v]
           task == Task(s)
<1>1. page[v] \in Pages /\ page[v].active /\ IsTask(task) /\ task \in Messages
  BY TasksAreTasks DEF TypeOK, ClickCard
<1>2. PICK new : new = [page[v] EXCEPT !.prompt = Plain("CONFIRM")]
  OBVIOUS
<1>3. new.prompt = Plain("CONFIRM") /\ new.prompt.type = "CONFIRM" /\ Click(v, new)
  BY <1>1, <1>2, PlainFacts DEF ClickCard, Pages
<1>4. ASSUME Attends(v)
      PROVE  Shows(new, fromPage[v], task, Refused(s), astrayNow)
  <2>1. CASE task.type \in CardTasks
    BY <1>3, <2>1 DEF Shows
  <2>2. CASE s # turn
    <3>1. CardsAreDown(toPage[v], page[v])
      BY <2>2 DEF HandFollows
    <3>2. Invalid.type # "HAND"
      BY PlainFacts DEF Invalid
    <3>3. ~EndsIn(toPage[v], {m \in Messages : m.type = "HAND"} \ Playable, Messages \ Playable)
      BY <1>4, <3>2 DEF Attends, EndsIn
    <3> QED
      BY <1>1, <3>1, <3>3 DEF CardsAreDown
  <2>3. CASE s = turn /\ task.type = "DRAW"
    <3>1. state = "Drawing"
      BY <2>3, TasksAreTasks
    <3>2. page[v].prompt.type \notin {"HAND", "CONFIRM"}
      <4>1. /\ page[v].prompt.type = "CONFIRM" => task.type \in CardTasks
            /\ page[v].prompt.type = "HAND" => task.type \in CardTasks
        BY <1>1, <1>4, ShownFacts DEF Attends, Pending
      <4> QED
        BY <2>3, <4>1 DEF CardTasks
    <3> QED
      BY <1>3, <2>3, <3>1, <3>2 DEF Shows
  <2>4. CASE s = turn /\ task.type \notin CardTasks \cup {"DRAW"}
    <3>1. state = "Finished" /\ s # Creator
      BY <1>1, <2>4, TurnPlays
    <3>2. "CONFIRM" \in Astray(v)
      BY <2>4, <3>1 DEF Astray
    <3> QED
      BY <1>3, <3>2 DEF Shows
  <2> QED
    BY <2>1, <2>2, <2>3, <2>4
<1> QED
  BY <1>3, <1>4, ClickingFollows DEF Wild
-----------------------------------------------------------------------------
(* A click leaves a page in v, and the other windows alone.                  *)
Leaves(v, pg) ==
    /\ v \in open
    /\ UNCHANGED <<lobbyVars, open, toPage>>
    /\ fromPage' \in [Windows -> Seq(Requests)]
    /\ page' \in [Windows -> Pages]
    /\ page'[v] = pg
    /\ \A u \in Windows \ {v} : fromPage'[u] = fromPage[u] /\ page'[u] = page[u]

LEMMA AskLeaves ==
    ASSUME TypeOK, NEW v \in Windows, NEW type, NEW card, NEW pg \in Pages,
           Ask(v, type, card, pg), [type |-> type, card |-> card] \in Requests
    PROVE  Leaves(v, pg)
<1>1. PICK r \in Requests :
              /\ fromPage' = [fromPage EXCEPT ![v] = Append(@, r)]
              /\ page' = [page EXCEPT ![v] = pg]
              /\ UNCHANGED <<lobbyVars, open, toPage>>
  BY AskFacts
<1>2. fromPage \in [Windows -> Seq(Requests)] /\ page \in [Windows -> Pages]
  BY DEF TypeOK
<1>3. Append(fromPage[v], r) \in Seq(Requests)
  BY <1>2
<1>4. v \in open
  BY DEF Ask
<1> QED
  BY <1>1, <1>2, <1>3, <1>4 DEF Leaves

LEMMA ClickLeaves ==
    ASSUME TypeOK, NEW v \in Windows, NEW pg \in Pages, Click(v, pg)
    PROVE  Leaves(v, pg)
  BY DEF Leaves, Click, TypeOK

(* The cards of a hand that was put away stay away; what can be asked again stays so. *)
PutAway(pg) == ~pg.active /\ pg.last \notin Playable

Keeps(pg, new) ==
    /\ PutAway(pg) => PutAway(new)
    /\ \A task \in Messages : IsTask(task) /\ Resumes(pg, task) => Resumes(new, task)

LEMMA HidingKeeps ==
    ASSUME NEW pg \in Pages
    PROVE  LET done == Kept([Hidden(pg) EXCEPT !.active = FALSE]) IN
           /\ Keeps(pg, Hidden(pg)) /\ Keeps(pg, done)
           /\ \A msg \in Messages :
                 msg.type # "CONFIRM" =>
                     [done EXCEPT !.prompt = msg] \in Pages /\ Keeps(pg, [done EXCEPT !.prompt = msg])
<1>1. PICK hidden \in Pages :
          /\ hidden = Hidden(pg) /\ hidden.prompt = Nothing
          /\ hidden.active = pg.active /\ hidden.last = pg.last
  BY HiddenFacts
<1>2. PICK done \in Pages :
          /\ done = Kept([Hidden(pg) EXCEPT !.active = FALSE]) /\ done.prompt = Nothing
          /\ done.active = FALSE /\ done.last \in {pg.last, Nothing}
  BY HiddenFacts
<1>3. Nothing.type # "CONFIRM" /\ Nothing \notin Playable
  BY PlainFacts DEF Nothing, Playable
<1>4. Keeps(pg, hidden) /\ Keeps(pg, done)
  BY <1>1, <1>2, <1>3 DEF Keeps, PutAway, Resumes
<1>5. ASSUME NEW msg \in Messages, msg.type # "CONFIRM"
      PROVE  [done EXCEPT !.prompt = msg] \in Pages /\ Keeps(pg, [done EXCEPT !.prompt = msg])
  <2>1. PICK new : new = [done EXCEPT !.prompt = msg]
    OBVIOUS
  <2>2. new \in Pages /\ new.prompt = msg /\ new.active = FALSE /\ new.last = done.last
    BY <1>2, <2>1 DEF Pages
  <2>3. Keeps(pg, new)
    BY <1>2, <1>3, <1>5, <2>2 DEF Keeps, PutAway, Resumes
  <2> QED
    BY <2>1, <2>2, <2>3
<1> QED
  BY <1>1, <1>2, <1>4, <1>5

LEMMA RefusingKeeps ==
    ASSUME NEW pg \in Pages, pg.prompt.type = "CONFIRM"
    PROVE  Keeps(pg, Kept(Show(pg, pg.last)))
<1>1. PICK last \in Messages : last = pg.last /\ (last.type \in Resumed \/ last = Nothing)
  BY PageFacts
<1>2. PICK shown \in Pages : shown = Show(pg, last)
  BY ShownIsAPage
<1>3. PICK new \in Pages :
          /\ new = Kept(shown) /\ new.active = shown.active
          /\ new.last \in {shown.last, Nothing}
  BY KeptFacts
<1>4. Nothing \notin Playable
  BY PlainFacts DEF Nothing, Playable
<1>5. PutAway(pg) => PutAway(shown)
  <2>1. CASE last = Nothing
    BY <1>1, <1>2, <2>1, PageIgnores
  <2>2. CASE last \in Playable
    BY <1>1, <2>2 DEF PutAway
  <2>3. CASE last.type = "HAND" /\ last \notin Playable
    <3>1. shown.last = last /\ shown.active = FALSE
      BY <1>2, <2>3, PagePutsHandAway
    <3> QED
      BY <2>3, <3>1 DEF PutAway
  <2>4. CASE last.type \in Asks
    BY <1>1, <1>2, <2>4, PageSaves DEF PutAway
  <2> QED
    BY <1>1, <2>1, <2>2, <2>3, <2>4 DEF Resumed, Asks
<1>6. PutAway(pg) => PutAway(new)
  BY <1>3, <1>4, <1>5 DEF PutAway
<1>7. ASSUME NEW task \in Messages, IsTask(task), Resumes(pg, task)
      PROVE  Resumes(new, task)
  <2>1. CASE task.type \in CardTasks
    <3>1. last = task
      BY <1>1, <1>7, <2>1 DEF Resumes
    <3> QED
      BY <1>2, <1>3, <1>7, <3>1, PageTakesTask
  <2>2. CASE task.type \notin CardTasks
    BY <2>2 DEF Resumes
  <2> QED
    BY <2>1, <2>2
<1> QED
  BY <1>1, <1>2, <1>3, <1>6, <1>7 DEF Keeps

LEMMA PressLeaves ==
    ASSUME TypeOK, NEW v \in Windows, Buttons(v)
    PROVE  \E pg \in Pages : Leaves(v, pg) /\ Keeps(page[v], pg)
<1> DEFINE pg == page[v]
           done == Kept([Hidden(pg) EXCEPT !.active = FALSE])
<1>0. pg \in Pages
  BY DEF TypeOK
<1>1. /\ Hidden(pg) \in Pages /\ done \in Pages
      /\ Keeps(pg, Hidden(pg)) /\ Keeps(pg, done)
      /\ \A msg \in Messages :
            msg.type # "CONFIRM" =>
                [done EXCEPT !.prompt = msg] \in Pages /\ Keeps(pg, [done EXCEPT !.prompt = msg])
  BY <1>0, HiddenFacts, HidingKeeps
<1> HIDE DEF done
<1>2. ASSUME NEW type, NEW card, [type |-> type, card |-> card] \in Requests,
             NEW new \in {Hidden(pg), done}, Ask(v, type, card, new)
      PROVE  \E p \in Pages : Leaves(v, p) /\ Keeps(pg, p)
  BY <1>1, <1>2, AskLeaves
<1>3. ASSUME NEW new \in Pages, Keeps(pg, new), Click(v, new)
      PROVE  \E p \in Pages : Leaves(v, p) /\ Keeps(pg, p)
  BY <1>3, ClickLeaves
<1>4. /\ Plain("COLOR") \in Messages /\ Plain("COLOR").type # "CONFIRM"
      /\ Message("COLOR", {"of_drawn"}) \in Messages
      /\ Message("COLOR", {"of_drawn"}).type # "CONFIRM"
  BY ColorMessages
<1>5. /\ \A type \in {"SET_USERNAME", "START", "NEXT", "END", "DRAW", "DRAW_CONFIRM"} :
            [type |-> type, card |-> "-"] \in Requests
      /\ \A type \in {"PLAY", "DRAW_CONFIRM"} : \A card \in {"hand", "drawn"} :
            [type |-> type, card |-> card] \in Requests
  BY DEF Requests
<1>6. CASE \E type \in {"SET_USERNAME", "START", "NEXT", "END"} : Ask(v, type, "-", Hidden(pg))
  BY <1>2, <1>5, <1>6
<1>7. CASE Ask(v, "PLAY", "hand", done)
  BY <1>2, <1>5, <1>7
<1>8. CASE Click(v, [done EXCEPT !.prompt = Plain("COLOR")])
  BY <1>1, <1>3, <1>4, <1>8
<1>9. CASE pg.prompt.type = "CONFIRM" /\ Click(v, Kept(Show(pg, pg.last)))
  BY <1>0, <1>3, <1>9, RefusingShows, RefusingKeeps
<1>10. CASE Ask(v, "PLAY", IF "of_drawn" \in pg.prompt.flags THEN "drawn" ELSE "hand", Hidden(pg))
  BY <1>2, <1>5, <1>10
<1>11. CASE Ask(v, "DRAW", "-", Hidden(pg))
  BY <1>2, <1>5, <1>11
<1>12. CASE Ask(v, "DRAW_CONFIRM", "-", Hidden(pg))
  BY <1>2, <1>5, <1>12
<1>13. CASE Ask(v, "PLAY", "drawn", done)
  BY <1>2, <1>5, <1>13
<1>14. CASE Click(v, [done EXCEPT !.prompt = Message("COLOR", {"of_drawn"})])
  BY <1>1, <1>3, <1>4, <1>14
<1>15. CASE Ask(v, "DRAW_CONFIRM", "hand", Hidden(pg))
  BY <1>2, <1>5, <1>15
<1> HIDE DEF pg
<1> QED
  BY <1>6, <1>7, <1>8, <1>9, <1>10, <1>11, <1>12, <1>13, <1>14, <1>15, ButtonCases
  DEF pg, done

LEMMA CardLeaves ==
    ASSUME TypeOK, NEW v \in Windows, ClickCard(v)
    PROVE  \E pg \in Pages : Leaves(v, pg) /\ Keeps(page[v], pg)
<1>1. page[v] \in Pages /\ page[v].active /\ Plain("CONFIRM") \in Messages
  BY PlainFacts DEF TypeOK, ClickCard
<1>2. PICK new : new = [page[v] EXCEPT !.prompt = Plain("CONFIRM")]
  OBVIOUS
<1>3. /\ new \in Pages /\ new.active = page[v].active /\ new.last = page[v].last
      /\ Click(v, new)
  BY <1>1, <1>2 DEF Pages, ClickCard
<1>4. Keeps(page[v], new)
  BY <1>1, <1>3 DEF Keeps, PutAway, Resumes
<1> QED
  BY <1>3, <1>4, ClickLeaves
-----------------------------------------------------------------------------
(* What an answer of the lobby changes.                                      *)
LEMMA OutdatedFacts ==
    ASSUME NEW q \in Seq(Requests)
    PROVE  Outdated(q) \in Seq(Requests) /\ DOMAIN Outdated(q) = DOMAIN q
<1> DEFINE now(i) == IF Choice(q[i].type) THEN [q[i] EXCEPT !.card = "old"] ELSE q[i]
<1>1. \A i \in 1 .. Len(q) : now(i) \in Requests
  <2>1. TAKE i \in 1 .. Len(q)
  <2>2. q[i] \in Requests
    OBVIOUS
  <2> QED
    BY <2>2 DEF Requests
<1>2. Len(q) \in Nat /\ DOMAIN q = 1 .. Len(q)
  OBVIOUS
<1>3. Outdated(q) = [i \in 1 .. Len(q) |-> now(i)]
  BY <1>2 DEF Outdated
<1> HIDE DEF now
<1> QED
  BY <1>1, <1>2, <1>3

LEMMA ReplyFacts ==
    ASSUME TypeOK, NEW w \in Windows, fromPage[w] # <<>>, NEW moves \in BOOLEAN,
           NEW out \in [Windows -> Seq(Messages)], Reply(w, moves, out)
    PROVE  /\ open' = open /\ page' = page
           /\ toPage' \in [Windows -> Seq(Messages)]
           /\ \A u \in open : toPage'[u] = toPage[u] \o out[u]
           /\ fromPage' \in [Windows -> Seq(Requests)]
           /\ \A u \in Windows \ {w} : DOMAIN fromPage'[u] = DOMAIN fromPage[u]
           /\ ~moves => /\ fromPage'[w] = Tail(fromPage[w])
                        /\ \A u \in Windows \ {w} : fromPage'[u] = fromPage[u]
<1>1. /\ toPage \in [Windows -> Seq(Messages)] /\ fromPage \in [Windows -> Seq(Requests)]
      /\ open \subseteq Windows
  BY DEF TypeOK
<1>2. open' = open /\ page' = page
  BY DEF Reply
<1>3. toPage' = [u \in Windows |-> IF u \in open THEN toPage[u] \o out[u] ELSE <<>>]
  BY <1>2 DEF Reply, Send
<1>4. \A u \in Windows : toPage[u] \o out[u] \in Seq(Messages)
  BY <1>1
<1>5. <<>> \in Seq(Messages)
  OBVIOUS
<1>6. /\ toPage' \in [Windows -> Seq(Messages)]
      /\ \A u \in open : toPage'[u] = toPage[u] \o out[u]
  BY <1>1, <1>3, <1>4, <1>5
<1> DEFINE rest == [fromPage EXCEPT ![w] = Tail(@)]
<1>7. /\ rest \in [Windows -> Seq(Requests)]
      /\ rest[w] = Tail(fromPage[w]) /\ \A u \in Windows \ {w} : rest[u] = fromPage[u]
  <2>1. Tail(fromPage[w]) \in Seq(Requests)
    BY <1>1, Tailed
  <2> QED
    BY <1>1, <2>1
<1>8. fromPage' = IF moves THEN [u \in Windows |-> Outdated(rest[u])] ELSE rest
  BY DEF Reply, Take
<1> HIDE DEF rest
<1>9. \A u \in Windows : Outdated(rest[u]) \in Seq(Requests) /\ DOMAIN Outdated(rest[u]) = DOMAIN rest[u]
  BY <1>7, OutdatedFacts
<1>10. CASE moves
  <2>1. fromPage' = [u \in Windows |-> Outdated(rest[u])]
    BY <1>8, <1>10
  <2> QED
    BY <1>2, <1>6, <1>7, <1>9, <1>10, <2>1
<1>11. CASE ~moves
  BY <1>2, <1>6, <1>7, <1>8, <1>11
<1> QED
  BY <1>10, <1>11

(* What the messages added to a queue do to a page that follows the game.    *)
LEMMA NewsIsFollowed ==
    ASSUME NEW q \in Seq(Messages), NEW out \in Seq(Messages), NEW requests, NEW pg, NEW task,
           NEW refused, NEW astray, EndsIn(out, {task} \cup Diversions, {Invalid})
    PROVE  Follows(q \o out, requests, pg, task, refused, astray)
  BY EndIsSent DEF Follows

LEMMA NewsIsKept ==
    ASSUME NEW q \in Seq(Messages), NEW out \in Seq(Messages), NEW pg, NEW task,
           EndsIn(out, {task}, Diversions \cup {Invalid})
    PROVE  LastIsKept(q \o out, pg, task)
<1> DEFINE S == Diversions \cup {Invalid}
<1> HIDE DEF S
<1>1. EndsIn(out, {task}, S)
  BY DEF S
<1>2. EndsIn(q \o out, {task}, S)
  BY <1>1, EndIsSent
<1> QED
  BY <1>2 DEF LastIsKept, S

(* What is true of the messages of two queues is true of both one after the other. *)
LEMMA JoinedStay ==
    ASSUME NEW q \in Seq(Messages), NEW out \in Seq(Messages), NEW S,
           \A i \in DOMAIN q : q[i] \in S, \A i \in DOMAIN out : out[i] \in S
    PROVE  \A i \in DOMAIN (q \o out) : (q \o out)[i] \in S
<1>1. TAKE i \in DOMAIN (q \o out)
<1>2. CASE i \in DOMAIN q
  BY <1>2, Joined
<1>3. CASE i - Len(q) \in DOMAIN out /\ i = Len(q) + (i - Len(q))
  BY <1>3, Joined
<1> QED
  BY <1>2, <1>3, Joined

LEMMA RefusalIsIgnored ==
    ASSUME NEW q \in Seq(Messages), NEW out \in Seq(Messages), \A i \in DOMAIN out : out[i] = Invalid,
           NEW requests, NEW left, NEW pg, NEW task, NEW refused, NEW refusedNow, NEW astray,
           Follows(q, requests, pg, task, refused, astray),
           (\E i \in DOMAIN requests : requests[i] \notin refused) =>
               \E i \in DOMAIN left : left[i] \notin refusedNow
    PROVE  Follows(q \o out, left, pg, task, refusedNow, astray)
<1>1. CASE EndsIn(q, {task} \cup Diversions, {Invalid})
  BY <1>1, EndStays DEF Follows
<1>2. CASE /\ \A i \in DOMAIN q : q[i] = Invalid
           /\ Shows(pg, requests, task, refused, astray)
  <2>1. \A i \in DOMAIN (q \o out) : (q \o out)[i] \in {Invalid}
    BY <1>2, JoinedStay
  <2>2. Shows(pg, left, task, refusedNow, astray)
    BY <1>2 DEF Shows
  <2> QED
    BY <2>1, <2>2 DEF Follows
<1> QED
  BY <1>1, <1>2 DEF Follows

LEMMA RemarksAreKept ==
    ASSUME NEW q \in Seq(Messages), NEW out \in Seq(Messages), NEW pg, NEW task,
           LastIsKept(q, pg, task), \A i \in DOMAIN out : out[i] \in Diversions \cup {Invalid}
    PROVE  LastIsKept(q \o out, pg, task)
<1> DEFINE S == Diversions \cup {Invalid}
<1> HIDE DEF S
<1>0. \A i \in DOMAIN out : out[i] \in S
  BY DEF S
<1>1. CASE EndsIn(q, {task}, S)
  <2>1. EndsIn(q \o out, {task}, S)
    BY <1>0, <1>1, EndStays
  <2> QED
    BY <2>1 DEF LastIsKept, S
<1>2. CASE (\A i \in DOMAIN q : q[i] \in S) /\ Resumes(pg, task)
  <2>1. \A i \in DOMAIN (q \o out) : (q \o out)[i] \in S
    BY <1>0, <1>2, JoinedStay
  <2> QED
    BY <1>2, <2>1 DEF LastIsKept, S
<1> QED
  BY <1>1, <1>2 DEF LastIsKept, S

LEMMA NewsKeepsCardsDown ==
    ASSUME NEW q \in Seq(Messages), NEW out \in Seq(Messages), NEW pg, CardsAreDown(q, pg),
           \A i \in DOMAIN out : out[i] \notin Playable
    PROVE  CardsAreDown(q \o out, pg)
<1> DEFINE T == {m \in Messages : m.type = "HAND"} \ Playable
           S == Messages \ Playable
<1>1. CASE EndsIn(q, T, S)
  <2>1. \A i \in DOMAIN out : out[i] \in S
    OBVIOUS
  <2> HIDE DEF T, S
  <2>2. EndsIn(q \o out, T, S)
    BY <1>1, <2>1, EndStays
  <2> QED
    BY <2>2 DEF CardsAreDown, T, S
<1>2. CASE (\A i \in DOMAIN q : q[i] \notin Playable) /\ PutAway(pg)
  <2>1. \A i \in DOMAIN (q \o out) : (q \o out)[i] \notin Playable
    <3>1. TAKE i \in DOMAIN (q \o out)
    <3>2. CASE i \in DOMAIN q
      BY <1>2, <3>2, Joined
    <3>3. CASE i - Len(q) \in DOMAIN out /\ i = Len(q) + (i - Len(q))
      BY <3>3, Joined
    <3> QED
      BY <3>2, <3>3, Joined
  <2> QED
    BY <1>2, <2>1 DEF CardsAreDown, PutAway
<1> QED
  BY <1>1, <1>2 DEF CardsAreDown, PutAway

(* The messages of refreshPlay to a window: its hand if it changed, and its task. *)
LEMMA RefreshFacts ==
    ASSUME NEW hand \in Messages, NEW task \in Messages, NEW both \in BOOLEAN, NEW out,
           out = (IF both THEN <<hand>> ELSE <<>>) \o <<task>>
    PROVE  /\ out \in Seq(Messages)
           /\ EndsIn(out, {task} \cup Diversions, {Invalid})
           /\ EndsIn(out, {task}, Diversions \cup {Invalid})
           /\ task \notin Playable /\ (both => hand \notin Playable) =>
                 \A i \in DOMAIN out : out[i] \notin Playable
           /\ both /\ hand.type = "HAND" /\ hand \notin Playable /\ task \notin Playable =>
                 EndsIn(out, {m \in Messages : m.type = "HAND"} \ Playable, Messages \ Playable)
<1> DEFINE T == {m \in Messages : m.type = "HAND"} \ Playable
           S == Messages \ Playable
           told == <<task>>
           dealt == IF both THEN <<hand>> ELSE <<>>
<1>1. told \in Seq(Messages) /\ Len(told) = 1 /\ DOMAIN told = {1} /\ told[1] = task
  OBVIOUS
<1>2. /\ dealt \in Seq(Messages)
      /\ both => Len(dealt) = 1 /\ DOMAIN dealt = {1} /\ dealt[1] = hand
      /\ ~both => Len(dealt) = 0 /\ DOMAIN dealt = {}
  OBVIOUS
<1>3. out = dealt \o told
  OBVIOUS
<1> HIDE DEF told, dealt
<1>4. \A U, V : task \in U => EndsIn(told, U, V)
  <2>1. SUFFICES ASSUME NEW U, NEW V, task \in U PROVE EndsIn(told, U, V)
    OBVIOUS
  <2>2. 1 \in DOMAIN told /\ told[1] \in U /\ \A j \in DOMAIN told : j > 1 => told[j] \in V
    BY <1>1, <2>1
  <2> QED
    BY <2>2 DEF EndsIn
<1>5. /\ out \in Seq(Messages)
      /\ EndsIn(out, {task} \cup Diversions, {Invalid})
      /\ EndsIn(out, {task}, Diversions \cup {Invalid})
  <2>1. out \in Seq(Messages)
    BY <1>1, <1>2, <1>3, Joined
  <2>2. \A U, V : task \in U => EndsIn(out, U, V)
    <3>1. SUFFICES ASSUME NEW U, NEW V, task \in U PROVE EndsIn(out, U, V)
      OBVIOUS
    <3> QED
      BY <1>1, <1>2, <1>3, <1>4, <3>1, EndIsSent
  <2>3. EndsIn(out, {task} \cup Diversions, {Invalid})
    <3> DEFINE U == {task} \cup Diversions
               V == {Invalid}
    <3>1. task \in U
      OBVIOUS
    <3> HIDE DEF U, V
    <3>2. EndsIn(out, U, V)
      BY <2>2, <3>1
    <3> QED
      BY <3>2 DEF U, V
  <2>4. EndsIn(out, {task}, Diversions \cup {Invalid})
    <3> DEFINE U == {task}
               V == Diversions \cup {Invalid}
    <3>1. task \in U
      OBVIOUS
    <3> HIDE DEF U, V
    <3>2. EndsIn(out, U, V)
      BY <2>2, <3>1
    <3> QED
      BY <3>2 DEF U, V
  <2> QED
    BY <2>1, <2>3, <2>4
<1>6. both => DOMAIN out = 1 .. 2 /\ out[1] = hand /\ out[2] = task
  BY <1>1, <1>2, <1>3, Joined
<1>7. ~both => DOMAIN out = 1 .. 1 /\ out[1] = task
  BY <1>1, <1>2, <1>3, Joined
<1>8. \A i \in DOMAIN out : out[i] = task \/ (both /\ out[i] = hand)
  BY <1>6, <1>7
<1>9. both /\ hand \in T /\ task \in S => EndsIn(out, T, S)
  <2>1. SUFFICES ASSUME both, hand \in T, task \in S PROVE EndsIn(out, T, S)
    OBVIOUS
  <2> HIDE DEF T, S
  <2>2. 1 \in DOMAIN out /\ out[1] \in T
    BY <1>6, <2>1
  <2>3. \A j \in DOMAIN out : j > 1 => out[j] \in S
    BY <1>6, <2>1
  <2> QED
    BY <2>2, <2>3 DEF EndsIn
<1> QED
  BY <1>5, <1>8, <1>9
-----------------------------------------------------------------------------
(* The answers, by what they tell.                                           *)
TableIn(st, tn, mp, of, nc) ==
    /\ st \in {"PlayOrDraw", "Play", "Drawing", "Finished"}
    /\ tn \in Sessions
    /\ mp \in BOOLEAN
    /\ of \in SUBSET {"drawn", "hand"}
    /\ of # {} => st = "Drawing" /\ mp
    /\ nc \in BOOLEAN

LEMMA RefreshKeepsIInv ==
    ASSUME IInv, NEW w \in Windows, fromPage[w] # <<>>, NEW moves \in BOOLEAN, NEW changed,
           NEW out, Reply(w, moves, out),
           out = [u \in Windows |->
                     (IF SessionOf[u] \in changed THEN <<HandIn(state', turn', SessionOf[u])>> ELSE <<>>)
                         \o <<TaskIn(state', turn', offer', noCards', SessionOf[u])>>],
           TableIn(state', turn', mayPlay', offer', noCards'), phase' = "Started",
           ending' \in SUBSET Windows, strayed' \in SUBSET Windows,
           \A s \in Sessions \ changed : s # turn' => Running /\ s # turn
    PROVE  IInv'
<1> DEFINE hand(u) == HandIn(state', turn', SessionOf[u])
           task(u) == TaskIn(state', turn', offer', noCards', SessionOf[u])
           both(u) == SessionOf[u] \in changed
           Down == {m \in Messages : m.type = "HAND"} \ Playable
           Rest == Messages \ Playable
<1>1. TypeOK /\ offer' \in SUBSET {"drawn", "hand"} /\ noCards' \in BOOLEAN
  BY DEF IInv, TableIn
<1>2. ASSUME NEW u \in Windows
      PROVE  /\ hand(u) \in Messages /\ task(u) \in Messages /\ hand(u).type = "HAND"
             /\ SessionOf[u] # turn' => hand(u) \notin Playable /\ task(u) \notin Playable
  BY <1>1, HandFacts, TasksInAState
<1>3. \A u \in Windows : out[u] = (IF both(u) THEN <<hand(u)>> ELSE <<>>) \o <<task(u)>>
  OBVIOUS
<1> HIDE DEF hand, task
<1>4. ASSUME NEW u \in Windows
      PROVE  /\ out[u] \in Seq(Messages)
             /\ EndsIn(out[u], {task(u)} \cup Diversions, {Invalid})
             /\ EndsIn(out[u], {task(u)}, Diversions \cup {Invalid})
             /\ SessionOf[u] # turn' => \A i \in DOMAIN out[u] : out[u][i] \notin Playable
             /\ SessionOf[u] # turn' /\ both(u) => EndsIn(out[u], Down, Rest)
  <2>1. both(u) \in BOOLEAN
    OBVIOUS
  <2>2. /\ hand(u) \in Messages /\ task(u) \in Messages /\ hand(u).type = "HAND"
        /\ out[u] = (IF both(u) THEN <<hand(u)>> ELSE <<>>) \o <<task(u)>>
    BY <1>2, <1>3
  <2> HIDE DEF both
  <2>3. /\ out[u] \in Seq(Messages)
        /\ EndsIn(out[u], {task(u)} \cup Diversions, {Invalid})
        /\ EndsIn(out[u], {task(u)}, Diversions \cup {Invalid})
        /\ task(u) \notin Playable /\ (both(u) => hand(u) \notin Playable) =>
              \A i \in DOMAIN out[u] : out[u][i] \notin Playable
        /\ both(u) /\ hand(u).type = "HAND" /\ hand(u) \notin Playable /\ task(u) \notin Playable =>
              EndsIn(out[u], Down, Rest)
    BY <2>1, <2>2, RefreshFacts
  <2> QED
    BY <1>2, <2>2, <2>3
<1>5. out \in [Windows -> Seq(Messages)]
  BY <1>4
<1>6. /\ open' = open /\ page' = page
      /\ toPage' \in [Windows -> Seq(Messages)]
      /\ \A u \in open : toPage'[u] = toPage[u] \o out[u]
      /\ fromPage' \in [Windows -> Seq(Requests)]
  BY <1>1, <1>5, ReplyFacts
<1>7. TypeOK'
  BY <1>1, <1>6 DEF TypeOK, TableIn
<1>8. ASSUME NEW u \in open
      PROVE  PageFollows(u)' /\ LastFollows(u)' /\ HandFollows(u)'
  <2>1. /\ u \in Windows /\ SessionOf[u] \in Sessions
        /\ toPage[u] \in Seq(Messages) /\ out[u] \in Seq(Messages)
    BY <1>1, <1>4, WindowsAssumption DEF TypeOK
  <2>2. Task(SessionOf[u])' = task(u)
    BY DEF Task, HandOf, TaskIn, HandIn, task
  <2>3. Follows(toPage[u] \o out[u], fromPage'[u], page'[u], task(u), Refused(SessionOf[u])', Astray(u)')
    BY <1>4, <2>1, NewsIsFollowed
  <2>4. PageFollows(u)'
    BY <1>6, <2>2, <2>3 DEF PageFollows
  <2>5. LastIsKept(toPage[u] \o out[u], page[u], task(u))
    BY <1>4, <2>1, NewsIsKept
  <2>6. LastFollows(u)'
    BY <1>6, <2>2, <2>5 DEF LastFollows
  <2>7. SessionOf[u] # turn' => CardsAreDown(toPage[u] \o out[u], page[u])
    <3>1. CASE both(u)
      <4> HIDE DEF Down, Rest
      <4>1. SessionOf[u] # turn' => EndsIn(toPage[u] \o out[u], Down, Rest)
        BY <1>4, <2>1, <3>1, EndIsSent
      <4> QED
        BY <4>1 DEF CardsAreDown, Down, Rest
    <3>2. CASE ~both(u) /\ SessionOf[u] # turn'
      <4>1. CardsAreDown(toPage[u], page[u])
        BY <2>1, <3>2 DEF IInv, HandFollows
      <4> QED
        BY <1>4, <2>1, <3>2, <4>1, NewsKeepsCardsDown
    <3> QED
      BY <3>1, <3>2
  <2>8. HandFollows(u)'
    BY <1>6, <2>7 DEF HandFollows
  <2> QED
    BY <2>4, <2>6, <2>8
<1> QED
  BY <1>6, <1>7, <1>8 DEF IInv

(* Messages that say nothing of the table; the window that asked is told, unless it is *)
(* of a request that may be refused.                                                    *)
AreRemarks(out) ==
    \A u \in Windows : \A i \in DOMAIN out[u] : out[u][i] \in Diversions \cup {Invalid}

AnswerWell(w, out) ==
    \A u \in open :
        \/ EndsIn(out[u], {Task(SessionOf[u])} \cup Diversions, {Invalid})
        \/ /\ \A i \in DOMAIN out[u] : out[u][i] = Invalid
           /\ u = w => Head(fromPage[w]) \in Refused(SessionOf[w])

(* An answer that says nothing of the table, which stays as it was.          *)
LEMMA RemarkKeepsIInv ==
    ASSUME IInv, NEW w \in Windows, fromPage[w] # <<>>,
           NEW out \in [Windows -> Seq(Messages)], Reply(w, FALSE, out),
           UNCHANGED <<phase, tableVars, strayed>>, ending' \in SUBSET Windows,
           AreRemarks(out), AnswerWell(w, out)
    PROVE  IInv'
<1>1. TypeOK
  BY DEF IInv
<1>2. /\ open' = open /\ page' = page
      /\ toPage' \in [Windows -> Seq(Messages)]
      /\ \A u \in open : toPage'[u] = toPage[u] \o out[u]
      /\ fromPage' \in [Windows -> Seq(Requests)]
      /\ fromPage'[w] = Tail(fromPage[w])
      /\ \A u \in Windows \ {w} : fromPage'[u] = fromPage[u]
  <2>1. FALSE \in BOOLEAN
    OBVIOUS
  <2> QED
    BY <1>1, <2>1, ReplyFacts
<1>3. TypeOK'
  BY <1>1, <1>2 DEF TypeOK, tableVars
<1>4. \A msg \in Diversions \cup {Invalid} : msg \notin Playable
  BY DiversionFacts, PlainFacts DEF Invalid, Playable
<1>5. ASSUME NEW u \in open, Running
      PROVE  PageFollows(u)' /\ LastFollows(u)' /\ HandFollows(u)'
  <2> DEFINE task == Task(SessionOf[u])
             refused == Refused(SessionOf[u])
             astray == Astray(u)
  <2>1. /\ u \in Windows /\ fromPage[u] \in Seq(Requests)
        /\ toPage[u] \in Seq(Messages) /\ out[u] \in Seq(Messages)
        /\ \A i \in DOMAIN out[u] : out[u][i] \in Diversions \cup {Invalid}
    BY <1>1 DEF TypeOK, AreRemarks
  <2>2. /\ Task(SessionOf[u])' = task /\ Refused(SessionOf[u])' = refused
        /\ Astray(u)' = astray /\ turn' = turn
    BY DEF Task, HandOf, Refused, Astray, tableVars
  <2>3. PageFollows(u) /\ LastFollows(u) /\ HandFollows(u)
    BY <1>5 DEF IInv
  <2>4. Follows(toPage[u], fromPage[u], page[u], task, refused, astray)
    BY <2>3 DEF PageFollows
  <2> HIDE DEF task, refused, astray
  <2>5. Follows(toPage[u] \o out[u], fromPage'[u], page[u], task, refused, astray)
    <3>1. CASE EndsIn(out[u], {task} \cup Diversions, {Invalid})
      BY <2>1, <3>1, NewsIsFollowed
    <3>2. CASE /\ \A i \in DOMAIN out[u] : out[u][i] = Invalid
               /\ u = w => Head(fromPage[w]) \in refused
      <4>1. (\E i \in DOMAIN fromPage[u] : fromPage[u][i] \notin refused) =>
               \E i \in DOMAIN fromPage'[u] : fromPage'[u][i] \notin refused
        <5>1. CASE u # w
          BY <1>2, <2>1, <5>1
        <5>2. CASE u = w
          <6>1. SUFFICES ASSUME NEW i \in DOMAIN fromPage[w], fromPage[w][i] \notin refused
                         PROVE  \E j \in DOMAIN Tail(fromPage[w]) : Tail(fromPage[w])[j] \notin refused
            BY <1>2, <5>2
          <6>2. fromPage[w] \in Seq(Requests)
            BY <2>1, <5>2
          <6>3. i # 1
            BY <3>2, <5>2, <6>1, <6>2, Tailed
          <6>4. i - 1 \in DOMAIN Tail(fromPage[w]) /\ Tail(fromPage[w])[i - 1] = fromPage[w][i - 1 + 1]
            BY <6>1, <6>2, <6>3, Tailed
          <6>5. i - 1 + 1 = i
            BY <6>1, <6>2, Tailed
          <6> QED
            BY <6>1, <6>4, <6>5
        <5> QED
          BY <5>1, <5>2
      <4> QED
        BY <2>1, <2>4, <3>2, <4>1, RefusalIsIgnored
    <3> QED
      BY <1>5, <3>1, <3>2 DEF task, refused, AnswerWell
  <2>6. PageFollows(u)'
    BY <1>2, <2>2, <2>5 DEF PageFollows
  <2>7. LastFollows(u)'
    <3>1. LastIsKept(toPage[u], page[u], task)
      BY <2>3 DEF LastFollows, task
    <3>2. LastIsKept(toPage[u] \o out[u], page[u], task)
      BY <2>1, <3>1, RemarksAreKept
    <3> QED
      BY <1>2, <2>2, <3>2 DEF LastFollows
  <2>8. \A i \in DOMAIN out[u] : out[u][i] \notin Playable
    BY <1>4, <2>1
  <2>9. SessionOf[u] # turn => CardsAreDown(toPage[u] \o out[u], page[u])
    BY <2>1, <2>3, <2>8, NewsKeepsCardsDown DEF HandFollows
  <2>10. HandFollows(u)'
    BY <1>2, <2>2, <2>9 DEF HandFollows
  <2> QED
    BY <2>6, <2>7, <2>10
<1> QED
  BY <1>2, <1>3, <1>5 DEF IInv, Running

LEMMA OnlyFacts ==
    ASSUME NEW windows, NEW msg \in Messages
    PROVE  /\ Only(windows, <<msg>>) \in [Windows -> Seq(Messages)]
           /\ \A u \in Windows : \A i \in DOMAIN Only(windows, <<msg>>)[u] :
                 Only(windows, <<msg>>)[u][i] = msg
           /\ \A u \in Windows \ windows : Only(windows, <<msg>>)[u] = <<>> /\ DOMAIN Only(windows, <<msg>>)[u] = {}
           /\ \A u \in Windows \cap windows : \A T, S :
                 msg \in T => EndsIn(Only(windows, <<msg>>)[u], T, S)
<1> DEFINE one == <<msg>>
           none == <<>>
           out == [u \in Windows |-> IF u \in windows THEN one ELSE none]
<1>1. /\ one \in Seq(Messages) /\ DOMAIN one = {1} /\ one[1] = msg
      /\ none \in Seq(Messages) /\ DOMAIN none = {}
  OBVIOUS
<1>2. \A T, S : msg \in T => EndsIn(one, T, S)
  <2>1. SUFFICES ASSUME NEW T, NEW S, msg \in T PROVE EndsIn(one, T, S)
    OBVIOUS
  <2> HIDE DEF one
  <2>2. 1 \in DOMAIN one /\ one[1] \in T /\ \A j \in DOMAIN one : j > 1 => one[j] \in S
    BY <1>1, <2>1
  <2> QED
    BY <2>2 DEF EndsIn
<1>3. Only(windows, <<msg>>) = out /\ none = <<>>
  BY DEF Only
<1> HIDE DEF one, none
<1>4. /\ out \in [Windows -> Seq(Messages)]
      /\ \A u \in Windows : out[u] = IF u \in windows THEN one ELSE none
  BY <1>1
<1> HIDE DEF out
<1> QED
  BY <1>1, <1>2, <1>3, <1>4
-----------------------------------------------------------------------------
(* The steps of the lobby, one by one.                                       *)
LEMMA SetUsernameIInv ==
    ASSUME IInv, NEW w \in Windows, HandleSetUsername(w), UNCHANGED <<ending, strayed>>
    PROVE  IInv'
<1> DEFINE msg == Plain(IF Creator \in seated THEN "WAITING_START" ELSE "WAITING_HOST")
           told == WindowsOf(SessionOf[w])
           out == Only(told, <<msg>>)
<1>1. msg \in Messages /\ msg \in Diversions
  BY PlainFacts DEF Diversions
<1>2. Reply(w, FALSE, out) /\ fromPage[w] # <<>>
  BY DEF HandleSetUsername, Request
<1>3. UNCHANGED <<phase, tableVars, strayed>> /\ ending' \in SUBSET Windows
  BY DEF HandleSetUsername, IInv, TypeOK
<1> HIDE DEF msg
<1>4. /\ out \in [Windows -> Seq(Messages)]
      /\ \A u \in Windows : \A i \in DOMAIN out[u] : out[u][i] = msg
      /\ \A u \in Windows \ told : DOMAIN out[u] = {}
      /\ \A u \in Windows \cap told :
            EndsIn(out[u], {Task(SessionOf[u])} \cup Diversions, {Invalid})
  BY <1>1, OnlyFacts
<1>5. \A u \in open : u \in Windows /\ (u = w => u \in told)
  BY DEF WindowsOf, IInv, TypeOK
<1> HIDE DEF out, told
<1>6. AreRemarks(out)
  BY <1>1, <1>4 DEF AreRemarks
<1>7. AnswerWell(w, out)
  BY <1>4, <1>5 DEF AnswerWell
<1> QED
  BY <1>2, <1>3, <1>4, <1>6, <1>7, RemarkKeepsIInv

LEMMA RefuseIllegalIInv ==
    ASSUME IInv, NEW w \in Windows, RefuseIllegal(w), UNCHANGED <<ending, strayed>>
    PROVE  IInv'
<1> DEFINE out == Only({w}, <<Invalid>>)
<1>1. Invalid \in Messages
  BY PlainFacts DEF Invalid
<1>2. Reply(w, FALSE, out) /\ fromPage[w] # <<>>
  BY DEF RefuseIllegal, Illegal, Request
<1>3. UNCHANGED <<phase, tableVars, strayed>> /\ ending' \in SUBSET Windows
  BY DEF RefuseIllegal, lobbyVars, IInv, TypeOK
<1>4. /\ out \in [Windows -> Seq(Messages)]
      /\ \A u \in Windows : \A i \in DOMAIN out[u] : out[u][i] = Invalid
  BY <1>1, OnlyFacts
<1>5. Head(fromPage[w]) \in Refused(SessionOf[w])
  <2>1. fromPage[w] \in Seq(Requests)
    BY DEF IInv, TypeOK
  <2>2. Head(fromPage[w]) \in Requests
    BY <1>2, <2>1
  <2>3. Illegal(w) /\ ~OutOfStep(w)
    BY DEF RefuseIllegal
  <2> QED
    BY <1>2, <2>2, <2>3 DEF Refused, Illegal, OutOfStep, Request
<1>6. open \subseteq Windows
  BY DEF IInv, TypeOK
<1> HIDE DEF out
<1>7. AreRemarks(out) /\ AnswerWell(w, out)
  BY <1>4, <1>5, <1>6 DEF AreRemarks, AnswerWell
<1> QED
  BY <1>2, <1>3, <1>4, <1>7, RemarkKeepsIInv

LEMMA RefuseOtherIInv ==
    ASSUME IInv, NEW w \in Windows, RefuseOther(w), UNCHANGED <<ending, strayed>>
    PROVE  IInv'
<1> DEFINE msg == Plain("SERVER_ERROR")
           out == Only({w}, <<msg>>)
<1>1. msg \in Messages /\ msg \in Diversions
  BY PlainFacts DEF Diversions
<1>2. Reply(w, FALSE, out) /\ fromPage[w] # <<>>
  BY DEF RefuseOther, ServerError, Request
<1>3. UNCHANGED <<phase, tableVars, strayed>> /\ ending' \in SUBSET Windows
  BY DEF RefuseOther, ServerError, lobbyVars, IInv, TypeOK
<1> HIDE DEF msg
<1>4. /\ out \in [Windows -> Seq(Messages)]
      /\ \A u \in Windows : \A i \in DOMAIN out[u] : out[u][i] = msg
      /\ \A u \in Windows \ {w} : DOMAIN out[u] = {}
      /\ EndsIn(out[w], {Task(SessionOf[w])} \cup Diversions, {Invalid})
  BY <1>1, OnlyFacts
<1>5. open \subseteq Windows
  BY DEF IInv, TypeOK
<1> HIDE DEF out
<1>6. AreRemarks(out)
  BY <1>1, <1>4 DEF AreRemarks
<1>7. AnswerWell(w, out)
  BY <1>4, <1>5 DEF AnswerWell
<1> QED
  BY <1>2, <1>3, <1>4, <1>6, <1>7, RemarkKeepsIInv

(* END comes while the game goes on as it was: nothing else is said of it.   *)
LEMMA EndIInv ==
    ASSUME IInv, NEW w \in Windows, HandleEnd(w), UNCHANGED strayed
    PROVE  IInv'
<1> DEFINE end == Plain("END")
           out == Only(open, <<end>>)
<1>1. end \in Messages /\ end \in Diversions
  BY PlainFacts DEF Diversions
<1>2. Reply(w, FALSE, out) /\ fromPage[w] # <<>>
  BY DEF HandleEnd, Request
<1>3. /\ UNCHANGED <<phase, tableVars, strayed>> /\ ending' \in SUBSET Windows
      /\ open \subseteq Windows
  BY DEF HandleEnd, lobbyVars, IInv, TypeOK
<1> HIDE DEF end
<1>4. /\ out \in [Windows -> Seq(Messages)]
      /\ \A u \in Windows : \A i \in DOMAIN out[u] : out[u][i] = end
      /\ \A u \in Windows \cap open :
            EndsIn(out[u], {Task(SessionOf[u])} \cup Diversions, {Invalid})
  BY <1>1, OnlyFacts
<1> HIDE DEF out
<1>5. AreRemarks(out) /\ AnswerWell(w, out)
  BY <1>1, <1>3, <1>4 DEF AreRemarks, AnswerWell
<1> QED
  BY <1>2, <1>3, <1>4, <1>5, RemarkKeepsIInv

(* The lobby is erased: there is no game any more.                           *)
LEMMA EraseIInv ==
    ASSUME IInv, NEW w \in Windows, Erase(w)
    PROVE  IInv'
<1>1. TypeOK /\ phase' = "Over" /\ ending' \in SUBSET Windows
  BY DEF Erase, IInv, TypeOK
<1>2. TypeOK'
  BY <1>1 DEF Erase, TypeOK, pageVars, tableVars
<1> QED
  BY <1>1, <1>2 DEF IInv, Running

(* refreshPlay, with the state of the table after the step.                  *)
LEMMA RefreshIsTold ==
    ASSUME NEW changed
    PROVE  RefreshPlay(changed)' =
              [u \in Windows |->
                  (IF SessionOf[u] \in changed THEN <<HandIn(state', turn', SessionOf[u])>> ELSE <<>>)
                      \o <<TaskIn(state', turn', offer', noCards', SessionOf[u])>>]
  BY DEF RefreshPlay, HandOf, Task, HandIn, TaskIn

LEMMA DealsIInv ==
    ASSUME IInv, NEW w \in Windows, fromPage[w] # <<>>, phase' = "Started",
           Table!NextGame, noCards' = FALSE, Reply(w, TRUE, RefreshPlay(Sessions)'),
           UNCHANGED <<ending, strayed>>
    PROVE  IInv'
<1>1. TableIn(state', turn', mayPlay', offer', noCards')
  BY DEF Table!NextGame, Table!NoDraw, TableIn
<1>2. ending' \in SUBSET Windows /\ strayed' \in SUBSET Windows
  BY DEF IInv, TypeOK
<1>3. \A s \in Sessions \ Sessions : s # turn' => Running /\ s # turn
  OBVIOUS
<1>4. TRUE \in BOOLEAN
  OBVIOUS
<1> QED
  BY <1>1, <1>2, <1>3, <1>4, RefreshIsTold, RefreshKeepsIInv

LEMMA AcceptIInv ==
    ASSUME IInv, NEW w \in Windows, Running, fromPage[w] # <<>>, Accept(w),
           SessionOf[w] = turn, TableIn(state', turn', mayPlay', offer', noCards'),
           UNCHANGED <<ending, strayed>>
    PROVE  IInv'
<1>1. ending' \in SUBSET Windows /\ strayed' \in SUBSET Windows
  BY DEF IInv, TypeOK
<1>2. \A s \in Sessions \ {SessionOf[w]} : s # turn' => Running /\ s # turn
  OBVIOUS
<1>3. phase' = "Started" /\ Reply(w, TRUE, RefreshPlay({SessionOf[w]})')
  BY DEF Accept, Running, lobbyVars
<1>4. TRUE \in BOOLEAN
  OBVIOUS
<1> QED
  BY <1>1, <1>2, <1>3, <1>4, RefreshIsTold, RefreshKeepsIInv

LEMMA PlayIInv ==
    ASSUME IInv, NEW w \in Windows, HandlePlay(w), UNCHANGED <<ending, strayed>>
    PROVE  IInv'
<1>1. TableIn(state', turn', mayPlay', offer', noCards')
  BY DEF HandlePlay, ReadyDraw, Table!Play, Table!NoDraw, TableIn
<1> QED
  BY <1>1, AcceptIInv DEF HandlePlay, Request, Table!Play

LEMMA DrawConfirmIInv ==
    ASSUME IInv, NEW w \in Windows, HandleDrawConfirm(w), UNCHANGED <<ending, strayed>>
    PROVE  IInv'
<1>1. turn \in Sessions
  BY DEF IInv, TypeOK
<1>2. TableIn(state', turn', mayPlay', offer', noCards') /\ SessionOf[w] = turn
  BY <1>1 DEF HandleDrawConfirm, Table!KeepTurn, Table!Pass, Table!NoDraw, TableIn
<1> QED
  BY <1>2, AcceptIInv DEF HandleDrawConfirm, Request

LEMMA RefuseOutOfStepIInv ==
    ASSUME IInv, NEW w \in Windows, RefuseOutOfStep(w), UNCHANGED <<ending, strayed>>
    PROVE  IInv'
<1> DEFINE out == RefreshPlay({SessionOf[w]})
<1>1. UNCHANGED <<phase, tableVars>> /\ Running
  BY DEF RefuseOutOfStep, lobbyVars
<1>2. out = [u \in Windows |->
                (IF SessionOf[u] \in {SessionOf[w]} THEN <<HandIn(state', turn', SessionOf[u])>> ELSE <<>>)
                    \o <<TaskIn(state', turn', offer', noCards', SessionOf[u])>>]
  BY <1>1 DEF RefreshPlay, HandOf, Task, HandIn, TaskIn, tableVars
<1>3. TableIn(state', turn', mayPlay', offer', noCards')
  BY <1>1 DEF IInv, TypeOK, TableIn, tableVars
<1>4. Reply(w, FALSE, out) /\ fromPage[w] # <<>> /\ phase' = "Started"
  BY <1>1 DEF RefuseOutOfStep, OutOfStep, Request, Running
<1>5. ending' \in SUBSET Windows /\ strayed' \in SUBSET Windows
  BY DEF IInv, TypeOK
<1>6. \A s \in Sessions \ {SessionOf[w]} : s # turn' => Running /\ s # turn
  BY <1>1 DEF tableVars
<1>7. FALSE \in BOOLEAN
  OBVIOUS
<1> HIDE DEF out
<1> QED
  BY <1>2, <1>3, <1>4, <1>5, <1>6, <1>7, RefreshKeepsIInv

(* A draw is told to the player who draws; the others still wait.            *)
LEMMA DrawIInv ==
    ASSUME IInv, NEW w \in Windows, HandleDraw(w), UNCHANGED <<ending, strayed>>
    PROVE  IInv'
<1> DEFINE s == SessionOf[w]
           task == Task(s)'
           told == WindowsOf(s)
           out == Only(told, <<task>>)
<1>1. TypeOK /\ Running /\ phase' = "Started" /\ fromPage[w] # <<>> /\ Reply(w, TRUE, out)
  BY DEF IInv, HandleDraw, Request, Running, lobbyVars
<1>2. /\ s = turn /\ turn' = turn /\ state = "PlayOrDraw" /\ state' = "Drawing"
      /\ mayPlay' = TRUE /\ offer' \in SUBSET {"drawn", "hand"}
      /\ noCards' \in BOOLEAN
  BY DEF HandleDraw, ReadyDraw, Table!Draw
<1>3. task \in Messages /\ task \notin Playable /\ task = TaskIn(state', turn', offer', noCards', s)
  <2>1. task = TaskIn(state', turn', offer', noCards', s)
    BY DEF Task, HandOf, TaskIn, HandIn
  <2>2. TaskIn(state', turn', offer', noCards', s) \in Messages
    <3>1. offer' \in SUBSET {"drawn", "hand"} /\ noCards' \in BOOLEAN
      BY <1>2
    <3> QED
      BY <3>1, TasksInAState
  <2>3. TaskIn(state', turn', offer', noCards', s).type = "DRAW"
    BY <1>2 DEF TaskIn, Message
  <2> QED
    BY <2>1, <2>2, <2>3 DEF Playable
<1> HIDE DEF task
<1>4. /\ out \in [Windows -> Seq(Messages)]
      /\ \A u \in Windows \ told : DOMAIN out[u] = {}
      /\ \A u \in Windows \cap told : EndsIn(out[u], {task} \cup Diversions, {Invalid})
  BY <1>3, OnlyFacts
<1>5. \A u \in Windows \cap told : EndsIn(out[u], {task}, Diversions \cup {Invalid})
  <2> DEFINE U == {task}
             V == Diversions \cup {Invalid}
  <2>1. task \in U
    OBVIOUS
  <2> HIDE DEF U, V
  <2>2. \A u \in Windows \cap told : EndsIn(out[u], U, V)
    BY <1>3, <2>1, OnlyFacts
  <2> QED
    BY <2>2 DEF U, V
<1> HIDE DEF out
<1>6. /\ open' = open /\ page' = page
      /\ toPage' \in [Windows -> Seq(Messages)]
      /\ \A u \in open : toPage'[u] = toPage[u] \o out[u]
      /\ fromPage' \in [Windows -> Seq(Requests)]
      /\ \A u \in Windows \ {w} : DOMAIN fromPage'[u] = DOMAIN fromPage[u]
  <2>1. TRUE \in BOOLEAN
    OBVIOUS
  <2> QED
    BY <1>1, <1>4, <2>1, ReplyFacts
<1>7. TypeOK'
  BY <1>1, <1>2, <1>6 DEF TypeOK
<1>8. ASSUME NEW u \in open
      PROVE  PageFollows(u)' /\ LastFollows(u)' /\ HandFollows(u)'
  <2>1. /\ u \in Windows /\ toPage[u] \in Seq(Messages) /\ out[u] \in Seq(Messages)
        /\ PageFollows(u) /\ LastFollows(u) /\ HandFollows(u)
    BY <1>1, <1>4 DEF IInv, TypeOK
  <2>2. CASE SessionOf[u] = s
    <3>1. u \in told
      BY <2>2 DEF WindowsOf
    <3>2. Follows(toPage[u] \o out[u], fromPage'[u], page[u], task, Refused(s)', Astray(u)')
      BY <1>4, <2>1, <3>1, NewsIsFollowed
    <3>3. PageFollows(u)'
      BY <1>6, <2>2, <3>2 DEF PageFollows, task
    <3>4. HandFollows(u)'
      BY <1>2, <2>2 DEF HandFollows
    <3>5. LastIsKept(toPage[u] \o out[u], page[u], task)
      BY <1>4, <1>5, <2>1, <3>1, NewsIsKept
    <3>6. LastFollows(u)'
      BY <1>6, <2>2, <3>5 DEF LastFollows, task
    <3> QED
      BY <3>3, <3>4, <3>6
  <2>3. CASE SessionOf[u] # s
    <3> DEFINE same == Task(SessionOf[u])
               refused == Refused(SessionOf[u])
    <3>1. u # w /\ u \in Windows \ told
      BY <2>1, <2>3 DEF WindowsOf
    <3>2. /\ Task(SessionOf[u])' = same /\ Refused(SessionOf[u])' = {}
          /\ Astray(u) = {} /\ Astray(u)' = {}
      BY <1>2, <2>3 DEF Task, Refused, Astray
    <3>3. Follows(toPage[u], fromPage[u], page[u], same, refused, {})
      BY <2>1, <3>2 DEF PageFollows
    <3>4. LastIsKept(toPage[u], page[u], same)
      BY <2>1 DEF LastFollows
    <3> HIDE DEF same, refused
    <3>5. DOMAIN out[u] = {} /\ DOMAIN fromPage'[u] = DOMAIN fromPage[u]
      BY <1>4, <1>6, <2>1, <3>1
    <3>6. (\E i \in DOMAIN fromPage[u] : fromPage[u][i] \notin refused) =>
              \E i \in DOMAIN fromPage'[u] : fromPage'[u][i] \notin {}
      BY <3>5
    <3>7. Follows(toPage[u] \o out[u], fromPage'[u], page[u], same, {}, {})
      BY <2>1, <3>3, <3>5, <3>6, RefusalIsIgnored
    <3>8. PageFollows(u)'
      BY <1>6, <3>2, <3>7 DEF PageFollows
    <3>9. CardsAreDown(toPage[u] \o out[u], page[u])
      BY <1>2, <2>1, <2>3, <3>5, NewsKeepsCardsDown DEF HandFollows
    <3>10. HandFollows(u)'
      BY <1>6, <3>9 DEF HandFollows
    <3>11. LastIsKept(toPage[u] \o out[u], page[u], same)
      BY <2>1, <3>4, <3>5, RemarksAreKept
    <3>12. LastFollows(u)'
      BY <1>6, <3>2, <3>11 DEF LastFollows
    <3> QED
      BY <3>8, <3>10, <3>12
  <2> QED
    BY <2>2, <2>3
<1> QED
  BY <1>1, <1>6, <1>7, <1>8 DEF IInv

(* A connection that goes takes nothing from the others.                     *)
LEMMA GoneIInv ==
    ASSUME IInv, NEW w \in Windows, UNCHANGED <<phase, page, tableVars, ending, strayed>>,
           open' = open \ {w},
           toPage' = [toPage EXCEPT ![w] = <<>>],
           fromPage' = [fromPage EXCEPT ![w] = <<>>]
    PROVE  IInv'
<1>1. TypeOK
  BY DEF IInv
<1>2. <<>> \in Seq(Messages) /\ <<>> \in Seq(Requests)
  OBVIOUS
<1>3. TypeOK'
  BY <1>1, <1>2 DEF TypeOK, tableVars
<1>4. ASSUME NEW u \in open'
      PROVE  u \in open /\ toPage'[u] = toPage[u] /\ fromPage'[u] = fromPage[u]
  BY <1>1 DEF TypeOK
<1>5. ASSUME NEW u \in open', Running, PageFollows(u), LastFollows(u), HandFollows(u)
      PROVE  PageFollows(u)' /\ LastFollows(u)' /\ HandFollows(u)'
  <2>1. /\ Task(SessionOf[u])' = Task(SessionOf[u])
        /\ Refused(SessionOf[u])' = Refused(SessionOf[u]) /\ Astray(u)' = Astray(u)
    BY DEF Task, HandOf, Refused, Astray, tableVars
  <2>2. turn' = turn
    BY DEF tableVars
  <2> QED
    BY <1>4, <1>5, <2>1, <2>2 DEF PageFollows, LastFollows, HandFollows
<1> QED
  BY <1>3, <1>4, <1>5 DEF IInv, Running

LEMMA LeaveIInv ==
    ASSUME IInv, NEW w \in Windows, Leave(w)
    PROVE  IInv'
  BY GoneIInv DEF Leave, Drop

LEMMA ClosedIInv ==
    ASSUME IInv, NEW w \in Windows, Closed(w), UNCHANGED <<tableVars, ending, strayed>>
    PROVE  IInv'
  BY GoneIInv DEF Closed, lobbyVars

LEMMA AnswerIInv ==
    ASSUME IInv, NEW w \in Windows, Answer(w), UNCHANGED <<ending, strayed>>
    PROVE  IInv'
<1>1. CASE HandleStart(w)
  BY <1>1, DealsIInv DEF HandleStart, Request
<1>2. CASE HandleNext(w)
  <2>1. phase' = "Started"
    BY <1>2 DEF HandleNext, Running, lobbyVars
  <2> QED
    BY <1>2, <2>1, DealsIInv DEF HandleNext, Request
<1>3. CASE HandleSetUsername(w) \/ RefuseIllegal(w) \/ RefuseOther(w) \/ RefuseOutOfStep(w)
  BY <1>3, SetUsernameIInv, RefuseIllegalIInv, RefuseOtherIInv, RefuseOutOfStepIInv
<1>4. CASE HandlePlay(w) \/ HandleDraw(w) \/ HandleDrawConfirm(w)
  BY <1>4, PlayIInv, DrawIInv, DrawConfirmIInv
<1>5. CASE Closed(w) /\ UNCHANGED tableVars
  BY <1>5, ClosedIInv
<1> QED
  BY <1>1, <1>2, <1>3, <1>4, <1>5 DEF Answer

LEMMA HandleIInv ==
    ASSUME IInv, NEW w \in Windows, Handle(w)
    PROVE  IInv'
<1>1. CASE HandleEnd(w)
  BY <1>1, EndIInv DEF Handle
<1>2. CASE Answer(w) /\ UNCHANGED ending
  BY <1>2, AnswerIInv DEF Handle
<1> QED
  BY <1>1, <1>2 DEF Handle
(* A window that connects in a game is told all there is to tell; what it    *)
(* showed before does not matter.                                            *)
LEMMA JoinIInv ==
    ASSUME IInv, NEW w \in Windows, NEW loaded \in BOOLEAN, Join(w, loaded)
    PROVE  IInv'
<1> DEFINE s == SessionOf[w]
           hand == HandOf(s)
           task == Task(s)
           both == <<hand, task>>
           before == BeforeStart(s)'
           none == <<>>
           out == [u \in Windows |->
                     IF SessionOf[u] # s THEN none ELSE IF Running THEN both ELSE <<before>>]
<1>1. /\ TypeOK /\ open' = open \cup {w} /\ w \notin open
      /\ UNCHANGED <<phase, fromPage, tableVars, ending, strayed>>
      /\ page' = IF loaded THEN [page EXCEPT ![w] = Blank] ELSE page
      /\ toPage' = [u \in Windows |-> IF u \in open' THEN toPage[u] \o out[u] ELSE <<>>]
  BY DEF IInv, Join, JoinWith, Send
<1>2. /\ hand \in Messages /\ hand.type = "HAND" /\ task \in Messages
      /\ s # turn => hand \notin Playable /\ task \notin Playable
  <2>1. hand = HandIn(state, turn, s)
    BY DEF HandOf, HandIn
  <2> QED
    BY <1>1, <2>1, HandFacts, TasksAreTasks
<1>3. before \in Messages
  BY PlainFacts DEF BeforeStart
<1> HIDE DEF hand, task, before
<1>4. /\ both \in Seq(Messages)
      /\ EndsIn(both, {task} \cup Diversions, {Invalid})
      /\ EndsIn(both, {task}, Diversions \cup {Invalid})
      /\ s # turn => EndsIn(both, {m \in Messages : m.type = "HAND"} \ Playable, Messages \ Playable)
  <2> DEFINE T == {m \in Messages : m.type = "HAND"} \ Playable
             S == Messages \ Playable
             U == {task} \cup Diversions
             X == {task}
             V == Diversions \cup {Invalid}
  <2>1. /\ both \in Seq(Messages) /\ DOMAIN both = 1 .. 2
        /\ both[1] = hand /\ both[2] = task
    BY <1>2
  <2>2. task \in U /\ task \in X /\ (s # turn => hand \in T /\ task \in S)
    BY <1>2
  <2> HIDE DEF both, T, S, U, X, V
  <2>3. EndsIn(both, U, {Invalid})
    BY <2>1, <2>2 DEF EndsIn
  <2>4. EndsIn(both, X, V)
    BY <2>1, <2>2 DEF EndsIn
  <2>5. s # turn => EndsIn(both, T, S)
    BY <2>1, <2>2 DEF EndsIn
  <2> QED
    BY <2>1, <2>3, <2>4, <2>5 DEF T, S, U, X, V
<1>5. <<before>> \in Seq(Messages) /\ none \in Seq(Messages) /\ none = <<>> /\ DOMAIN none = {}
  BY <1>3
<1> HIDE DEF both, none
<1>6. out \in [Windows -> Seq(Messages)]
  BY <1>4, <1>5
<1>7. Running => \A u \in Windows : out[u] = IF SessionOf[u] # s THEN none ELSE both
  OBVIOUS
<1> HIDE DEF out
<1>8. TypeOK'
  <2>1. Blank \in Pages
    BY PlainFacts DEF Blank, Nothing, Pages
  <2>2. \A u \in Windows : toPage[u] \o out[u] \in Seq(Messages)
    BY <1>1, <1>6 DEF TypeOK
  <2>3. toPage' \in [Windows -> Seq(Messages)]
    BY <1>1, <1>5, <2>2
  <2>4. page' \in [Windows -> Pages]
    BY <1>1, <2>1 DEF TypeOK
  <2> QED
    BY <1>1, <2>3, <2>4 DEF TypeOK, tableVars
<1>9. ASSUME NEW u \in open', Running
      PROVE  PageFollows(u)' /\ LastFollows(u)' /\ HandFollows(u)'
  <2>1. /\ u \in Windows /\ toPage[u] \in Seq(Messages) /\ out[u] \in Seq(Messages)
        /\ toPage'[u] = toPage[u] \o out[u] /\ fromPage'[u] = fromPage[u]
    BY <1>1, <1>6 DEF TypeOK
  <2>2. /\ Task(SessionOf[u])' = Task(SessionOf[u])
        /\ Refused(SessionOf[u])' = Refused(SessionOf[u]) /\ turn' = turn
        /\ Astray(u)' = Astray(u)
    BY <1>1 DEF Task, HandOf, Refused, Astray, tableVars
  <2>3. CASE SessionOf[u] = s
    <3>1. out[u] = both
      BY <1>7, <1>9, <2>1, <2>3
    <3>2. Follows(toPage[u] \o both, fromPage[u], page'[u], task, Refused(s), Astray(u))
      BY <1>4, <2>1, NewsIsFollowed
    <3>3. s # turn => CardsAreDown(toPage[u] \o both, page'[u])
      <4> DEFINE T == {m \in Messages : m.type = "HAND"} \ Playable
                 S == Messages \ Playable
      <4>1. s # turn => EndsIn(both, T, S)
        BY <1>4
      <4> HIDE DEF T, S
      <4>2. s # turn => EndsIn(toPage[u] \o both, T, S)
        BY <1>4, <2>1, <4>1, EndIsSent
      <4> QED
        BY <4>2 DEF CardsAreDown, T, S
    <3>4. LastIsKept(toPage[u] \o both, page'[u], task)
      BY <1>4, <2>1, NewsIsKept
    <3> QED
      BY <2>1, <2>2, <2>3, <3>1, <3>2, <3>3, <3>4 DEF PageFollows, LastFollows, HandFollows, task
  <2>4. CASE SessionOf[u] # s
    <3> DEFINE same == Task(SessionOf[u])
               refused == Refused(SessionOf[u])
               astray == Astray(u)
    <3>1. DOMAIN out[u] = {}
      BY <1>5, <1>7, <1>9, <2>1, <2>4
    <3>2. u \in open /\ page'[u] = page[u]
      <4>1. u # w
        BY <2>4
      <4> QED
        BY <1>1, <2>1, <4>1 DEF TypeOK
    <3>3. PageFollows(u) /\ LastFollows(u) /\ HandFollows(u)
      BY <1>9, <3>2 DEF IInv
    <3>4. Follows(toPage[u], fromPage[u], page[u], same, refused, astray)
      BY <3>3 DEF PageFollows
    <3>5. LastIsKept(toPage[u], page[u], same)
      BY <3>3 DEF LastFollows
    <3> HIDE DEF same, refused, astray
    <3>6. Follows(toPage[u] \o out[u], fromPage[u], page[u], same, refused, astray)
      BY <2>1, <3>1, <3>4, RefusalIsIgnored
    <3>7. SessionOf[u] # turn => CardsAreDown(toPage[u] \o out[u], page[u])
      BY <2>1, <3>1, <3>3, NewsKeepsCardsDown DEF HandFollows
    <3>8. LastIsKept(toPage[u] \o out[u], page[u], same)
      BY <2>1, <3>1, <3>5, RemarksAreKept
    <3> QED
      BY <2>1, <2>2, <3>2, <3>6, <3>7, <3>8
      DEF PageFollows, LastFollows, HandFollows, same, refused, astray
  <2> QED
    BY <2>3, <2>4
<1> QED
  BY <1>1, <1>8, <1>9 DEF IInv, Running

(* A click changes one page only, and what it keeps is kept.                 *)
LEMMA PressIInv ==
    ASSUME IInv, NEW w \in Windows, Press(w)
    PROVE  IInv'
<1>1. /\ TypeOK /\ (Buttons(w) \/ ClickCard(w)) /\ UNCHANGED <<tableVars, ending>>
      /\ strayed' \in SUBSET Windows /\ strayed \subseteq strayed'
      /\ \A u \in Windows \ {w} : u \in strayed' <=> u \in strayed
  BY DEF IInv, Press, TypeOK
<1>2. PICK pg \in Pages : Leaves(w, pg) /\ Keeps(page[w], pg)
  BY <1>1, PressLeaves, CardLeaves
<1>3. TypeOK'
  BY <1>1, <1>2 DEF TypeOK, Leaves, lobbyVars, tableVars
<1>4. /\ w \in open /\ open' = open /\ phase' = phase /\ toPage' = toPage
      /\ page'[w] = pg
      /\ \A u \in Windows \ {w} : fromPage'[u] = fromPage[u] /\ page'[u] = page[u]
  BY <1>2 DEF Leaves, lobbyVars
<1>5. ASSUME NEW u \in open, Running
      PROVE  PageFollows(u)' /\ LastFollows(u)' /\ HandFollows(u)'
  <2>1. u \in Windows /\ PageFollows(u) /\ LastFollows(u) /\ HandFollows(u)
    BY <1>1, <1>5 DEF IInv, TypeOK
  <2>2. /\ Task(SessionOf[u])' = Task(SessionOf[u])
        /\ Refused(SessionOf[u])' = Refused(SessionOf[u]) /\ turn' = turn
    BY <1>1 DEF Task, HandOf, Refused, tableVars
  <2>3. Astray(u) \subseteq Astray(u)' /\ (strayed' = strayed \/ u # w => Astray(u)' = Astray(u))
    BY <1>1, <2>1 DEF Astray, tableVars
  <2>4. Follows(toPage[u], fromPage'[u], page'[u], Task(SessionOf[u]), Refused(SessionOf[u]),
                Astray(u)')
    <3>1. CASE u = w /\ Buttons(w) /\ strayed' = strayed
      BY <1>1, <2>1, <2>3, <3>1, PressFollows
    <3>2. CASE u = w /\ ClickCard(w) /\ (page[w].prompt.type \notin {"HAND", "CONFIRM"} => w \in strayed')
      <4>1. /\ SessionOf[w] = turn /\ state = "Drawing"
            /\ page[w].prompt.type \notin {"HAND", "CONFIRM"}
            => "CONFIRM" \in Astray(w)'
        BY <1>1, <3>2 DEF Astray, tableVars
      <4> QED
        BY <1>1, <2>1, <2>3, <3>2, <4>1, CardFollows
    <3>3. CASE u # w
      BY <1>4, <2>1, <2>3, <3>3 DEF PageFollows
    <3> QED
      BY <3>1, <3>2, <3>3 DEF Press
  <2>5. CardsAreDown(toPage[u], page[u]) => CardsAreDown(toPage[u], page'[u])
    <3>1. CASE u = w
      BY <1>2, <1>4, <3>1 DEF CardsAreDown, PutAway, Keeps
    <3>2. CASE u # w
      BY <1>4, <2>1, <3>2
    <3> QED
      BY <3>1, <3>2
  <2>6. LastIsKept(toPage[u], page'[u], Task(SessionOf[u]))
    <3>1. CASE u = w
      <4>1. IsTask(Task(SessionOf[w])) /\ Task(SessionOf[w]) \in Messages
        BY <1>1, TasksAreTasks
      <4> QED
        BY <1>2, <1>4, <2>1, <3>1, <4>1 DEF LastFollows, LastIsKept, Keeps
    <3>2. CASE u # w
      BY <1>4, <2>1, <3>2 DEF LastFollows
    <3> QED
      BY <3>1, <3>2
  <2> QED
    BY <1>4, <2>1, <2>2, <2>4, <2>5, <2>6 DEF PageFollows, LastFollows, HandFollows
<1> QED
  BY <1>3, <1>4, <1>5 DEF IInv, Running

LEMMA ReceiveIInv ==
    ASSUME IInv, NEW w \in Windows, Receive(w)
    PROVE  IInv'
<1> DEFINE new == Kept(Show(page[w], Head(toPage[w])))
           rest == Tail(toPage[w])
<1>1. /\ TypeOK /\ toPage[w] # <<>> /\ UNCHANGED <<phase, open, fromPage, tableVars, ending>>
      /\ toPage' = [toPage EXCEPT ![w] = rest]
      /\ page' = [page EXCEPT ![w] = new]
      /\ strayed' = IF Head(toPage[w]) = Invalid THEN strayed ELSE strayed \ {w}
  BY DEF IInv, Receive, ReceiveWith, lobbyVars
<1>2. /\ toPage[w] \in Seq(Messages) /\ page[w] \in Pages
      /\ toPage \in [Windows -> Seq(Messages)] /\ page \in [Windows -> Pages]
  BY <1>1 DEF TypeOK
<1>3. rest \in Seq(Messages) /\ new \in Pages
  BY <1>1, <1>2, Tailed, ShownIsAPage
<1>4. /\ toPage'[w] = rest /\ page'[w] = new
      /\ \A u \in Windows \ {w} : toPage'[u] = toPage[u] /\ page'[u] = page[u]
      /\ TypeOK'
  <2> HIDE DEF rest, new
  <2> QED
    BY <1>1, <1>2, <1>3 DEF TypeOK, tableVars
<1>5. ASSUME NEW u \in open, Running
      PROVE  PageFollows(u)' /\ LastFollows(u)' /\ HandFollows(u)'
  <2>1. u \in Windows /\ PageFollows(u) /\ LastFollows(u) /\ HandFollows(u)
    BY <1>1, <1>5 DEF IInv, TypeOK
  <2>2. /\ Task(SessionOf[u])' = Task(SessionOf[u])
        /\ Refused(SessionOf[u])' = Refused(SessionOf[u]) /\ turn' = turn
        /\ fromPage' = fromPage
        /\ u # w \/ Head(toPage[w]) = Invalid => Astray(u)' = Astray(u)
    BY <1>1, <2>1 DEF Task, HandOf, Refused, Astray, tableVars
  <2>3. CASE u = w
    <3>1. Task(SessionOf[w]) \in Messages /\ IsTask(Task(SessionOf[w]))
      BY <1>1, TasksAreTasks
    <3>2. Follows(rest, fromPage[w], new, Task(SessionOf[w]), Refused(SessionOf[w]), Astray(w)')
      <4>1. Follows(toPage[w], fromPage[w], page[w], Task(SessionOf[w]), Refused(SessionOf[w]), Astray(w))
        BY <2>1, <2>3 DEF PageFollows
      <4>2. Head(toPage[w]) = Invalid => Astray(w)' = Astray(w)
        BY <2>2, <2>3
      <4>3. Task(SessionOf[w]).type = "DRAW" /\ "empty" \in Task(SessionOf[w]).flags =>
               "NOTHING" \in Astray(w)'
        <5>1. Task(SessionOf[w]).type = "DRAW" /\ "empty" \in Task(SessionOf[w]).flags =>
                 SessionOf[w] = turn /\ state = "Drawing" /\ noCards
          BY <1>1, TasksAreTasks
        <5> QED
          BY <1>1, <5>1 DEF Astray, tableVars
      <4> QED
        BY <1>1, <1>2, <3>1, <4>1, <4>2, <4>3, ReadingFollows
    <3>3. LastIsKept(rest, new, Task(SessionOf[w]))
      BY <1>1, <1>2, <2>1, <2>3, <3>1, ReadingKeepsLast DEF LastFollows
    <3>4. SessionOf[w] # turn => CardsAreDown(rest, new)
      BY <1>1, <1>2, <2>1, <2>3, ReadingKeepsCardsDown DEF HandFollows
    <3> HIDE DEF rest, new
    <3> QED
      BY <1>4, <2>2, <2>3, <3>2, <3>3, <3>4 DEF PageFollows, LastFollows, HandFollows
  <2>4. CASE u # w
    BY <1>4, <2>1, <2>2, <2>4 DEF PageFollows, LastFollows, HandFollows
  <2> QED
    BY <2>3, <2>4
<1> HIDE DEF rest, new
<1> QED
  BY <1>1, <1>4, <1>5 DEF IInv, Running
-----------------------------------------------------------------------------
(* IInv is inductive.                                                        *)
LEMMA InitIInv == Init => IInv
<1>1. SUFFICES ASSUME Init PROVE IInv
  OBVIOUS
<1>2. Blank \in Pages
  BY PlainFacts DEF Blank, Nothing, Pages
<1>3. <<>> \in Seq(Messages) /\ <<>> \in Seq(Requests)
  OBVIOUS
<1>4. Creator \in Sessions
  BY CreatorAssumption
<1>5. TypeOK
  BY <1>1, <1>2, <1>3, <1>4 DEF Init, InitPages, TypeOK
<1> QED
  BY <1>1, <1>5 DEF Init, InitPages, IInv, Running

LEMMA NextIInv == IInv /\ [Next]_vars => IInv'
<1>1. SUFFICES ASSUME IInv, [Next]_vars PROVE IInv'
  OBVIOUS
<1>2. ASSUME NEW w \in Windows, NEW loaded \in BOOLEAN, Join(w, loaded) PROVE IInv'
  BY <1>1, <1>2, JoinIInv
<1>3. ASSUME NEW w \in Windows, Leave(w) PROVE IInv'
  BY <1>1, <1>3, LeaveIInv
<1>4. ASSUME NEW w \in Windows, Press(w) PROVE IInv'
  BY <1>1, <1>4, PressIInv
<1>5. ASSUME NEW w \in Windows, Receive(w) PROVE IInv'
  BY <1>1, <1>5, ReceiveIInv
<1>6. ASSUME NEW w \in Windows, Handle(w) \/ Erase(w) PROVE IInv'
  BY <1>1, <1>6, HandleIInv, EraseIInv
<1>7. CASE UNCHANGED vars
  <2>1. /\ UNCHANGED <<phase, open, toPage, fromPage, page>>
        /\ UNCHANGED <<state, turn, mayPlay, offer, noCards, ending, strayed>>
    BY <1>7 DEF vars, lobbyVars, pageVars, tableVars
  <2>2. TypeOK'
    BY <1>1, <2>1 DEF IInv, TypeOK
  <2>3. ASSUME NEW u, PageFollows(u), LastFollows(u), HandFollows(u)
        PROVE  PageFollows(u)' /\ LastFollows(u)' /\ HandFollows(u)'
    <3>1. /\ Task(SessionOf[u])' = Task(SessionOf[u])
          /\ Refused(SessionOf[u])' = Refused(SessionOf[u]) /\ Astray(u)' = Astray(u)
      BY <2>1 DEF Task, HandOf, Refused, Astray
    <3> QED
      BY <2>1, <2>3, <3>1 DEF PageFollows, LastFollows, HandFollows
  <2> QED
    BY <1>1, <2>1, <2>2, <2>3 DEF IInv, Running
<1> QED
  BY <1>1, <1>2, <1>3, <1>4, <1>5, <1>6, <1>7 DEF Next

(* In every state a window that is connected shows, or is about to be told, what the *)
(* game waits for, but in the draws that are lost; what a choice hides can be asked   *)
(* again; and the cards of a player who is not at turn are put away.                  *)
THEOREM LobbyInvariance == Spec => []IInv
<1>1. IInv /\ [Next]_vars => IInv'
  BY NextIInv
<1> QED
  BY <1>1, InitIInv, PTL DEF Spec
-----------------------------------------------------------------------------
(* What it says of a window to which nothing is on its way.                  *)
LEMMA QuietShows ==
    ASSUME IInv, Running, NEW w \in Windows, Quiet(w)
    PROVE  /\ w \in open /\ TypeOK
           /\ Shows(page[w], <<>>, Task(SessionOf[w]), Refused(SessionOf[w]), Astray(w))
           /\ \/ page[w].prompt \in {Task(SessionOf[w])} \cup Diversions
              \/ /\ Task(SessionOf[w]).type \in CardTasks \cup {"DRAW"}
                 /\ Choosing(w)
              \/ page[w].prompt.type \in Astray(w)
<1>1. w \in open /\ toPage[w] = <<>> /\ fromPage[w] = <<>> /\ TypeOK
  BY DEF Quiet, IInv
<1>2. Follows(<<>>, <<>>, page[w], Task(SessionOf[w]), Refused(SessionOf[w]), Astray(w))
  BY <1>1 DEF IInv, PageFollows
<1>3. Shows(page[w], <<>>, Task(SessionOf[w]), Refused(SessionOf[w]), Astray(w))
  BY <1>2, NothingEnds DEF Follows
<1>4. DOMAIN <<>> = {}
  OBVIOUS
<1>5. /\ Plain("CONFIRM").type = "CONFIRM" /\ Plain("COLOR").type = "COLOR"
      /\ Message("COLOR", {"of_drawn"}).type = "COLOR"
  BY PlainFacts, ColorMessages
<1> QED
  BY <1>1, <1>3, <1>4, <1>5 DEF Shows, Choosing

(* TheAskedPageAsks: no refusal, late request, second window or new connection leaves *)
(* the player whose answer the game waits for without the question; a draw can.       *)
THEOREM TheQuestionIsAsked == Spec => []TheAskedPageAsks
<1>1. IInv => TheAskedPageAsks
  <2>1. SUFFICES ASSUME IInv, NEW w \in Windows, Quiet(w), Asked(SessionOf[w])
                 PROVE  \/ page[w].prompt = Task(SessionOf[w]) \/ Choosing(w)
                        \/ Diverted(w) \/ Lost(w)
    BY DEF TheAskedPageAsks
  <2>2. Running /\ (state = "Finished" => SessionOf[w] = Creator)
    BY <2>1 DEF Asked
  <2>3. CASE page[w].prompt.type \in Astray(w)
    <3>1. page[w] \in Pages /\ page[w].prompt \in Messages
      BY <2>1 DEF IInv, TypeOK, Pages
    <3>2. /\ state = "Drawing" /\ (noCards \/ w \in strayed)
          /\ page[w].prompt.type \in {"NOTHING", "CONFIRM", "COLOR"} \cup Resumed
      BY <2>2, <2>3 DEF Astray
    <3> QED
      BY <3>2 DEF Lost, Choosing
  <2> QED
    BY <2>1, <2>2, <2>3, QuietShows DEF Diverted
<1> QED
  BY <1>1, LobbyInvariance, PTL

(* NobodyElseIsAsked: the others have nothing to press, and no card to click unless a *)
(* finished game ended with their turn.                                               *)
THEOREM TheOthersWait == Spec => []NobodyElseIsAsked
<1>1. IInv => NobodyElseIsAsked
  <2>1. SUFFICES ASSUME IInv, NEW w \in Windows, Quiet(w), Running, ~Asked(SessionOf[w])
                 PROVE  \/ /\ page[w].prompt.type \in {"WAITING", "WAITING_NEXT"} \/ Diverted(w)
                           /\ page[w].active => SessionOf[w] = turn
                        \/ SessionOf[w] = turn /\ (Choosing(w) \/ page[w].prompt.type \in Resumed)
    BY DEF NobodyElseIsAsked
  <2>2. /\ w \in open /\ toPage[w] = <<>>
        /\ SessionOf[w] # (IF state = "Finished" THEN Creator ELSE turn)
    BY <2>1 DEF Quiet, Asked
  <2>3. page[w].active => SessionOf[w] = turn
    <3>1. SUFFICES ASSUME SessionOf[w] # turn PROVE ~page[w].active
      OBVIOUS
    <3>2. CardsAreDown(<<>>, page[w])
      BY <2>1, <2>2, <3>1 DEF IInv, HandFollows
    <3> QED
      BY <3>2, NothingEnds DEF CardsAreDown
  <2>4. Task(SessionOf[w]).type \in {"WAITING", "WAITING_NEXT"}
    BY <2>1, <2>2, QuietShows, TasksAreTasks
  <2>5. Task(SessionOf[w]).type \notin CardTasks \cup {"DRAW"}
    BY <2>4 DEF CardTasks
  <2>6. CASE page[w].prompt.type \in Astray(w)
    <3>1. /\ SessionOf[w] = turn /\ page[w].prompt.type # "NOTHING"
          /\ page[w].prompt.type \in {"NOTHING", "CONFIRM", "COLOR"} \cup Resumed
      BY <2>2, <2>6 DEF Astray
    <3> QED
      BY <3>1 DEF Choosing
  <2> QED
    BY <2>1, <2>3, <2>4, <2>5, <2>6, QuietShows DEF Diverted
<1> QED
  BY <1>1, LobbyInvariance, PTL
=============================================================================
