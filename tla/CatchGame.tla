------------------------------ MODULE CatchGame ------------------------------
(* LA2: a parent throws a ball to its n children in turn and has them print  *)
(* a row after each throw, all by signals.  Two programs play this game, and *)
(* version says which: "own" (parent.c, child.c) works in the parent's loop  *)
(* and hears answers through a flag; "sol" (sol_LA2) works in the signal     *)
(* handlers.  Signals of one kind do not queue: what is pending is a set.  A *)
(* handler runs on top of whatever the process does, a handler of another    *)
(* kind included, but not on top of one of its own kind (signal() in glibc). *)
(* The sleeps at the start are taken to be long enough.                      *)
EXTENDS Integers, Sequences

CONSTANT
  n         \* the number of children

ASSUME SizeAssumption == n \in Nat /\ n >= 2

Children == 0 .. n - 1
Versions == {"own", "sol"}

VARIABLES
  version,
  ppc,             \* where the parent's main is
  frames,          \* the parent's running handlers, innermost first (sol)
  ppending,        \* signals the parent has still to handle
  playing, current_player, players_left, received_signal,
  k,               \* the next child to be stopped
  dummy,           \* the process whose end the parent waits for
  handlers,        \* per child: its running handlers, innermost first
  pending,         \* per child: signals it has still to handle
  is_playing, last_action, state,   \* what a child knows; state in sol only
  winners, gone    \* who said it won, who has exited

parent == <<ppc, frames, playing, current_player, players_left, received_signal, k>>
child  == <<is_playing, last_action, state, winners, gone>>
vars   == <<version, parent, ppending, dummy, handlers, pending, child>>

Init ==
  /\ version \in Versions
  /\ ppc = IF version = "own" THEN "loop" ELSE "start"
  /\ frames = <<>> /\ ppending = {}
  /\ playing = Children /\ current_player = 0 /\ players_left = n
  /\ received_signal = "none" /\ k = 0
  /\ dummy = "none"
  /\ handlers = [c \in Children |-> <<>>] /\ pending = [c \in Children |-> {}]
  /\ is_playing = [c \in Children |-> TRUE]
  /\ last_action = [c \in Children |-> "PLAYING"]
  /\ state = [c \in Children |-> "PLAYING"]
  /\ winners = {} /\ gone = {}

Kill(c, sig) == pending' = [pending EXCEPT ![c] = @ \cup {sig}]

\* The next child after i, in circular order, that still plays.
next_player(i, players) ==
  CHOOSE j \in players : \A x \in players : (j - i - 1) % n <= (x - i - 1) % n

-----------------------------------------------------------------------------
(* The parent of parent.c.                                                 *)

\* Forks the dummy, writes its number down and has the first child print.
PrintRow ==
  /\ version = "own" /\ ppc = "loop" /\ ppc' = "wait"
  /\ dummy' = "alive" /\ Kill(0, "USR1")
  /\ UNCHANGED <<version, frames, ppending, playing, current_player, players_left,
                 received_signal, k, handlers, child>>

\* Mutant: the parent does not wait for the row.
RowDone_NoWait ==
  /\ version = "own" /\ ppc = "wait"
  /\ ppc' = IF players_left > 1 THEN "throw" ELSE "stop"
  /\ dummy' = "none"
  /\ UNCHANGED <<version, frames, ppending, playing, current_player, players_left,
                 received_signal, k, handlers, pending, child>>

\* waitpid: after the last row the children are stopped.
RowDone ==
  /\ version = "own" /\ ppc = "wait" /\ dummy = "dead"
  /\ ppc' = IF players_left > 1 THEN "throw" ELSE "stop"
  /\ dummy' = "none"
  /\ UNCHANGED <<version, frames, ppending, playing, current_player, players_left,
                 received_signal, k, handlers, pending, child>>

Throw ==
  /\ ppc = "throw" /\ ppc' = "clear"
  /\ Kill(current_player, "USR2")
  /\ UNCHANGED <<version, frames, ppending, playing, current_player, players_left,
                 received_signal, k, dummy, handlers, child>>

ClearFlag ==
  /\ ppc = "clear" /\ ppc' = "test"
  /\ received_signal' = "none"
  /\ UNCHANGED <<version, frames, ppending, playing, current_player, players_left, k, dummy,
                 handlers, pending, child>>

TestFlag ==
  /\ ppc = "test" /\ ppc' = IF received_signal = "none" THEN "pause" ELSE "advance"
  /\ UNCHANGED <<version, frames, ppending, playing, current_player, players_left,
                 received_signal, k, dummy, handlers, pending, child>>

\* Mutant: the next child is taken whether it still plays or not.
Advance_AnyChild ==
  /\ ppc = "advance" /\ ppc' = "loop"
  /\ IF received_signal = "USR2"
     THEN /\ playing' = playing \ {current_player} /\ players_left' = players_left - 1
     ELSE UNCHANGED <<playing, players_left>>
  /\ current_player' = (current_player + 1) % n
  /\ UNCHANGED <<version, frames, ppending, received_signal, k, dummy, handlers, pending, child>>

\* What the answer said, and whose turn is next.
Advance ==
  /\ ppc = "advance" /\ ppc' = "loop"
  /\ IF received_signal = "USR2"
     THEN /\ playing' = playing \ {current_player} /\ players_left' = players_left - 1
     ELSE UNCHANGED <<playing, players_left>>
  /\ current_player' = next_player(current_player, playing')
  /\ UNCHANGED <<version, frames, ppending, received_signal, k, dummy, handlers, pending, child>>

\* handle_signal: it ends a pause, but not one that has yet to begin.
HearAnswer ==
  /\ version = "own"
  /\ \E sig \in ppending : ppending' = ppending \ {sig} /\ received_signal' = sig
  /\ ppc' = IF ppc = "pause" THEN "test" ELSE ppc
  /\ UNCHANGED <<version, frames, playing, current_player, players_left, k, dummy, handlers,
                 pending, child>>

\* SIGINT to one child after the other, then wait for all of them.
StopNext ==
  /\ version = "own" /\ ppc = "stop"
  /\ Kill(k, "INT") /\ k' = k + 1
  /\ ppc' = IF k' = n THEN "reap" ELSE "stop"
  /\ UNCHANGED <<version, frames, ppending, playing, current_player, players_left,
                 received_signal, dummy, handlers, child>>

Reap ==
  /\ ppc = "reap" /\ gone = Children /\ ppc' = "exited"
  /\ UNCHANGED <<version, frames, ppending, playing, current_player, players_left,
                 received_signal, k, dummy, handlers, pending, child>>

-----------------------------------------------------------------------------
(* The parent of sol_LA2: its handler prints the row, notes the answer and   *)
(* throws again; main only starts the game.                                  *)

FirstThrow ==
  /\ ppc = "start" /\ ppc' = "paused"
  /\ Kill(current_player, "USR2")
  /\ UNCHANGED <<version, frames, ppending, playing, current_player, players_left,
                 received_signal, k, dummy, handlers, child>>

At(label) == frames # <<>> /\ Head(frames).at = label

signalfromchild ==
  /\ version = "sol"
  /\ \E sig \in ppending :
       /\ \A i \in DOMAIN frames : frames[i].sig # sig
       /\ ppending' = ppending \ {sig}
       /\ frames' = <<[sig |-> sig, at |-> "print"]>> \o frames
  /\ UNCHANGED <<version, ppc, playing, current_player, players_left, received_signal, k, dummy,
                 handlers, pending, child>>

printline ==
  /\ At("print") /\ frames' = [frames EXCEPT ![1].at = "wait"]
  /\ dummy' = "alive" /\ Kill(0, "USR1")
  /\ UNCHANGED <<version, ppc, ppending, playing, current_player, players_left,
                 received_signal, k, handlers, child>>

LineDone ==
  /\ At("wait") /\ dummy = "dead"
  /\ frames' = [frames EXCEPT ![1].at = "decide"] /\ dummy' = "none"
  /\ UNCHANGED <<version, ppc, ppending, playing, current_player, players_left,
                 received_signal, k, handlers, pending, child>>

\* The child that missed is out; the next one gets the ball, or the game ends.
Decide ==
  LET missed == Head(frames).sig = "USR2"
  IN
  /\ At("decide")
  /\ playing' = IF missed THEN playing \ {current_player} ELSE playing
  /\ players_left' = IF missed THEN players_left - 1 ELSE players_left
  /\ IF missed /\ players_left' = 1
     THEN /\ frames' = [frames EXCEPT ![1].at = "stop"]
          /\ UNCHANGED <<current_player, pending>>
     ELSE /\ frames' = [frames EXCEPT ![1].at = "return"]
          /\ current_player' = next_player(current_player, playing')
          /\ Kill(current_player', "USR2")
  /\ UNCHANGED <<version, ppc, ppending, received_signal, k, dummy, handlers, child>>

Return ==
  /\ At("return") /\ frames' = Tail(frames)
  /\ UNCHANGED <<version, ppc, ppending, playing, current_player, players_left,
                 received_signal, k, dummy, handlers, pending, child>>

\* endgame: each child is stopped and waited for in turn.
endgame ==
  /\ At("stop")
  /\ IF k = n THEN ppc' = "exited" /\ frames' = <<>> /\ UNCHANGED pending
     ELSE Kill(k, "INT") /\ frames' = [frames EXCEPT ![1].at = "reap"] /\ UNCHANGED ppc
  /\ UNCHANGED <<version, ppending, playing, current_player, players_left,
                 received_signal, k, dummy, handlers, child>>

ReapOne ==
  /\ At("reap") /\ k \in gone
  /\ k' = k + 1 /\ frames' = [frames EXCEPT ![1].at = "stop"]
  /\ UNCHANGED <<version, ppc, ppending, playing, current_player, players_left,
                 received_signal, dummy, handlers, pending, child>>

Parent ==
  \/ PrintRow \/ RowDone \/ Throw \/ ClearFlag \/ TestFlag \/ Advance \/ HearAnswer
  \/ StopNext \/ Reap
  \/ FirstThrow \/ signalfromchild \/ printline \/ LineDone \/ Decide \/ Return
  \/ endgame \/ ReapOne

-----------------------------------------------------------------------------
(* The children.                                                           *)

Running(c, sig, label) ==
  handlers[c] # <<>> /\ Head(handlers[c]) = [sig |-> sig, at |-> label]

Goto(c, label) == handlers' = [handlers EXCEPT ![c][1].at = label]
Leave(c)       == handlers' = [handlers EXCEPT ![c] = Tail(@)]

\* A handler begins.
Deliver(c) ==
  /\ c \notin gone
  /\ \E sig \in pending[c] :
       /\ \A i \in DOMAIN handlers[c] : handlers[c][i].sig # sig
       /\ pending' = [pending EXCEPT ![c] = @ \ {sig}]
       /\ handlers' = [handlers EXCEPT ![c] = <<[sig |-> sig, at |-> "begin"]>> \o @]
  /\ UNCHANGED <<version, parent, ppending, dummy, child>>

InGame(c) == IF version = "own" THEN is_playing[c] ELSE state[c] = "PLAYING"

\* A throw reaches c, which notes what it did before it answers.
Catch(c) ==
  /\ version = "own" /\ Running(c, "USR2", "begin")
  /\ IF is_playing[c]
     THEN \/ /\ last_action' = [last_action EXCEPT ![c] = "CATCHMADE"] /\ Goto(c, "caught")
          \/ /\ last_action' = [last_action EXCEPT ![c] = "CATCHMISSED"] /\ Goto(c, "missed")
     ELSE Leave(c) /\ UNCHANGED last_action
  /\ UNCHANGED <<version, parent, ppending, dummy, pending, is_playing, state, winners, gone>>

receiveball(c) ==
  /\ version = "sol" /\ Running(c, "USR2", "begin")
  /\ IF state[c] = "PLAYING"
     THEN \/ /\ state' = [state EXCEPT ![c] = "HAVEBALL"] /\ Goto(c, "caught")
          \/ /\ state' = [state EXCEPT ![c] = "BALLMISSED"] /\ Goto(c, "missed")
     ELSE Leave(c) /\ UNCHANGED state
  /\ UNCHANGED <<version, parent, ppending, dummy, pending, is_playing, last_action, winners, gone>>

\* Mutant: a child that missed does not answer.
Answer_OnlyCatches(c) ==
  /\ \/ Running(c, "USR2", "caught") /\ ppending' = ppending \cup {"USR1"}
     \/ Running(c, "USR2", "missed") /\ UNCHANGED ppending
  /\ Goto(c, "end")
  /\ UNCHANGED <<version, parent, dummy, pending, child>>

\* SIGUSR1 for a catch, SIGUSR2 for a miss.
Answer(c) ==
  /\ \/ Running(c, "USR2", "caught") /\ ppending' = ppending \cup {"USR1"}
     \/ Running(c, "USR2", "missed") /\ ppending' = ppending \cup {"USR2"}
  /\ Goto(c, "end")
  /\ UNCHANGED <<version, parent, dummy, pending, child>>

\* Prints; a child that missed is out from here on.
PrintColumn(c) ==
  /\ version = "own" /\ Running(c, "USR1", "begin") /\ Goto(c, "forward")
  /\ is_playing' = [is_playing EXCEPT ![c] = @ /\ last_action[c] # "CATCHMISSED"]
  /\ UNCHANGED <<version, parent, ppending, dummy, pending, last_action, state, winners, gone>>

\* Prints and takes the new state at once.
printstate(c) ==
  /\ version = "sol" /\ Running(c, "USR1", "begin") /\ Goto(c, "forward")
  /\ state' = [state EXCEPT ![c] = CASE @ = "HAVEBALL" -> "PLAYING"
                                      [] @ = "BALLMISSED" -> "OUTOFGAME"
                                      [] OTHER -> @]
  /\ UNCHANGED <<version, parent, ppending, dummy, pending, is_playing, last_action, winners, gone>>

\* The next child prints; the last one kills the process in dummycpid.txt.
Forward(c) ==
  /\ Running(c, "USR1", "forward") /\ Goto(c, "end")
  /\ IF c < n - 1 THEN Kill(c + 1, "USR1") /\ UNCHANGED dummy
     ELSE dummy' = "dead" /\ UNCHANGED pending
  /\ UNCHANGED <<version, parent, ppending, child>>

\* Mutant: last_action is never reset.
EndOfHandler_NoReset(c) ==
  /\ Running(c, "USR1", "end") \/ Running(c, "USR2", "end")
  /\ Leave(c)
  /\ UNCHANGED <<version, parent, ppending, dummy, pending, child>>

\* The end of a handler: child.c resets last_action only now.
EndOfHandler(c) ==
  /\ Running(c, "USR1", "end") \/ Running(c, "USR2", "end")
  /\ Leave(c)
  /\ IF version = "own" /\ Head(handlers[c]).sig = "USR1"
     THEN last_action' = [last_action EXCEPT ![c] = "PLAYING"]
     ELSE UNCHANGED last_action
  /\ UNCHANGED <<version, parent, ppending, dummy, pending, is_playing, state, winners, gone>>

\* SIGINT: who still plays has won.
Exit(c, won) ==
  /\ Running(c, "INT", "begin")
  /\ winners' = IF won THEN winners \cup {c} ELSE winners
  /\ gone' = gone \cup {c}
  /\ handlers' = [handlers EXCEPT ![c] = <<>>]
  /\ UNCHANGED <<version, parent, ppending, dummy, pending, is_playing, last_action, state>>

Stop(c) == version = "own" /\ Exit(c, is_playing[c] /\ last_action[c] = "PLAYING")
endgame_child(c) == version = "sol" /\ Exit(c, state[c] = "PLAYING")

Child(c) ==
  \/ Deliver(c) \/ Answer(c) \/ Forward(c) \/ EndOfHandler(c)
  \/ Catch(c) \/ PrintColumn(c) \/ Stop(c)
  \/ receiveball(c) \/ printstate(c) \/ endgame_child(c)

Next == Parent \/ \E c \in Children : Child(c)

\* The operating system runs every process that can run.
Spec == Init /\ [][Next]_vars /\ WF_vars(Parent) /\ \A c \in Children : WF_vars(Child(c))
-----------------------------------------------------------------------------
(* Properties.                                                             *)

Frames(c) == {handlers[c][i] : i \in DOMAIN handlers[c]}

\* The ball is on its way to c, or c has not decided yet.
Thrown(c) == "USR2" \in pending[c] \/ [sig |-> "USR2", at |-> "begin"] \in Frames(c)

\* It is c's turn to print.
MayPrint(c) ==
  "USR1" \in pending[c] \/ \E f \in Frames(c) : f.sig = "USR1" /\ f.at \in {"begin", "forward"}

ParentWaits == ppc = "wait" \/ At("wait")

\* parent.c l. 80-81, l. 107-108, child.c l. 50-59, sol_LA2/parent.c l. 74-75: while
\* the parent waits for a row, one child at a time prints, or the dummy has just been
\* killed; when the parent goes on, nobody prints.
OneRowAtATime ==
  /\ ParentWaits <=> dummy # "none"
  /\ dummy = "alive" => \E c \in Children : \A d \in Children : MayPrint(d) <=> d = c
  /\ dummy # "alive" => \A c \in Children : ~MayPrint(c)

\* child.c l. 24, sol_LA2/child.c l. 65 ("Why did I receive tha ball???"): the ball goes to
\* one child, the one the parent means, and that child has not missed before, as it
\* remembers it and as the parent does.
ThrownToPlayers ==
  \A c \in Children :
    Thrown(c) => /\ InGame(c) /\ c = current_player /\ c \in playing
                 /\ \A d \in Children \ {c} : ~Thrown(d)

\* parent.c l. 113, child.c l. 63: the child the parent was left with is still there at
\* the end and says that it won, whatever handler it was in; in sol_LA2 no other does.
LastPlayerWins ==
  ppc = "exited" => /\ players_left = 1 /\ playing \subseteq winners
                    /\ version = "sol" => winners = playing

\* parent.c l. 85-86: the parent sleeps although the answer has been delivered.
AnswerMissed ==
  /\ ppc = "pause" /\ ppending = {}
  /\ \A c \in Children : ~Thrown(c) /\ \A f \in Frames(c) : f.at \notin {"caught", "missed"}

\* After a row comes a throw or the end, after a throw the next row: nothing else than an
\* answer that came before the pause can stop the game.
GameGoesOn ==
  /\ dummy = "alive" ~> (ppc = "exited" \/ \E c \in Children : Thrown(c))
  /\ (\E c \in Children : Thrown(c)) ~> (dummy = "alive" \/ AnswerMissed)

=============================================================================
