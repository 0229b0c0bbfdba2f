-------------------------- MODULE CatchGame_proofs --------------------------
(***************************************************************************)
(* Proofs about CatchGame, for any number of children and both programs:   *)
(* one row at a time is printed, the ball goes to one child that still     *)
(* plays, and the last one says that it won.                               *)
(***************************************************************************)
EXTENDS CatchGame, FiniteSetTheorems, SequenceTheorems, WellFoundedInduction, TLAPS

-----------------------------------------------------------------------------
(* Handlers and their stacks.                                              *)

Sigs == {"USR1", "USR2", "INT"}

ChildFrame ==
  [sig : {"USR1"}, at : {"begin", "forward", "end"}]
  \cup [sig : {"USR2"}, at : {"begin", "caught", "missed", "end"}]
  \cup [sig : {"INT"}, at : {"begin"}]

ParentFrame ==
  [sig : {"USR1", "USR2"}, at : {"print", "wait", "decide", "return", "stop", "reap"}]

\* Where the parent is: in its innermost handler or else in main.
Phase == IF frames = <<>> THEN ppc ELSE Head(frames).at

\* The parent has thrown and has not heard the answer.
Listens == Phase \in {"clear", "test", "pause", "paused", "return"}

Over == Phase \in {"stop", "reap", "exited"}

OwnLabels == {"loop", "wait", "throw", "clear", "test", "pause", "advance", "stop", "reap", "exited"}
SolLabels == {"start", "paused", "exited"}

ParentTypes ==
  /\ version \in Versions
  /\ ppc \in IF version = "own" THEN OwnLabels ELSE SolLabels
  /\ frames \in Seq(ParentFrame) /\ ppending \in SUBSET {"USR1", "USR2"}
  /\ playing \in SUBSET Children /\ current_player \in Children /\ players_left \in Nat
  /\ received_signal \in {"none", "USR1", "USR2"} /\ k \in 0 .. n
  /\ dummy \in {"none", "alive", "dead"}

ChildTypes ==
  /\ handlers \in [Children -> Seq(ChildFrame)] /\ pending \in [Children -> SUBSET Sigs]
  /\ is_playing \in [Children -> BOOLEAN]
  /\ last_action \in [Children -> {"PLAYING", "CATCHMADE", "CATCHMISSED"}]
  /\ state \in [Children -> {"PLAYING", "HAVEBALL", "BALLMISSED", "OUTOFGAME"}]
  /\ winners \in SUBSET Children /\ gone \in SUBSET Children

TypeOK == ParentTypes /\ ChildTypes

OncePerSignal(s) == \A i, j \in DOMAIN s : s[i].sig = s[j].sig => i = j

\* A handler runs once; of the parent's, all but the innermost are about to return.
StackInv ==
  /\ \A c \in Children : OncePerSignal(handlers[c])
  /\ OncePerSignal(frames)
  /\ \A i \in DOMAIN frames : i > 1 => frames[i].at = "return"
  /\ frames # <<>> => version = "sol" /\ ppc = "paused"

-----------------------------------------------------------------------------
(* The row and the ball.                                                   *)

HasFrame(c, sig, at) == [sig |-> sig, at |-> at] \in Frames(c)

Stopped(c) == "INT" \in pending[c] \/ HasFrame(c, "INT", "begin") \/ c \in gone

\* One child at a time has the right to print, in one place, and only while the
\* parent waits; SIGINT comes after the last row.
RowInv ==
  /\ Phase = "wait" <=> dummy # "none"
  /\ dummy = "alive" => \E c \in Children : \A d \in Children : MayPrint(d) <=> d = c
  /\ dummy # "alive" => \A c \in Children : ~MayPrint(c)
  /\ \A c \in Children : "USR1" \in pending[c] =>
       ~HasFrame(c, "USR1", "begin") /\ ~HasFrame(c, "USR1", "forward")
  /\ \A c \in Children : Stopped(c) => Over

Decided(c) == HasFrame(c, "USR2", "caught") \/ HasFrame(c, "USR2", "missed")

HasBall(c) == Thrown(c) \/ Decided(c)

Unheard == Listens /\ (Phase = "test" => received_signal = "none")

\* The ball, or the answer to it, is in one place while the parent listens and
\* nowhere else.
BallInv ==
  /\ \A c \in Children : HasBall(c) => Unheard /\ c = current_player /\ ppending = {}
  /\ \A c \in Children : "USR2" \in pending[c] => ~HasFrame(c, "USR2", "begin") /\ ~Decided(c)
  /\ ppending # {} => Unheard /\ \E sig \in {"USR1", "USR2"} : ppending = {sig}
  /\ Phase = "advance" => received_signal # "none"

\* Who plays, in the parent's books.
CountInv ==
  /\ players_left = Cardinality(playing) /\ players_left >= 1
  /\ Over => players_left = 1
  /\ ~Over => current_player \in playing
  /\ ~Over /\ Phase \notin {"loop", "wait"} => players_left >= 2
  /\ version = "sol" /\ Phase = "wait" => players_left >= 2

-----------------------------------------------------------------------------
(* What the children remember.                                             *)

\* The row has not reached c.
Before(c) == (\E d \in Children : d < c /\ MayPrint(d)) \/ "USR1" \in pending[c]

RowAhead(c) ==
  Phase \in {"loop", "print"} \/ (Phase = "wait" /\ (Before(c) \/ HasFrame(c, "USR1", "begin")))

PrintsRow(c) == \E f \in Frames(c) : f.sig = "USR1"

\* child.c: a miss is remembered until the parent has heard of it, a catch until the
\* end of a print_row that began before or after it.
OwnInv ==
  version = "own" => \A c \in playing :
    /\ is_playing[c]
    /\ last_action[c] = "CATCHMISSED" =>
         /\ c = current_player /\ (Listens \/ Phase = "advance")
         /\ ~Thrown(c) /\ ~HasFrame(c, "USR2", "caught") /\ "USR1" \notin ppending
         /\ Phase \in {"test", "advance"} => received_signal # "USR1"
    /\ last_action[c] = "CATCHMADE" =>
         /\ ~Over
         /\ Phase = "throw" => PrintsRow(c)
         /\ Listens \/ Phase = "advance" => PrintsRow(c) \/ c = current_player
         /\ Phase \in {"loop", "wait"} =>
              /\ PrintsRow(c) \/ (players_left > 1 /\ RowAhead(c))
              /\ players_left = 1 => Phase = "loop" \/ Before(c)

\* sol_LA2/child.c: who has not the ball plays if the parent says so; who has it
\* changes with the answer and again with the row.
SolInv ==
  version = "sol" =>
    /\ \A c \in Children \ {current_player} :
         state[c] = IF c \in playing THEN "PLAYING" ELSE "OUTOFGAME"
    /\ Phase = "start" \/ Thrown(current_player) => state[current_player] = "PLAYING"
    /\ HasFrame(current_player, "USR2", "caught") \/ "USR1" \in ppending =>
         state[current_player] = "HAVEBALL"
    /\ HasFrame(current_player, "USR2", "missed") \/ "USR2" \in ppending =>
         state[current_player] = "BALLMISSED"
    /\ Phase \in {"print", "wait", "decide"} =>
         state[current_player] =
           IF Head(frames).sig = "USR1"
           THEN IF RowAhead(current_player) THEN "HAVEBALL" ELSE "PLAYING"
           ELSE IF RowAhead(current_player) THEN "BALLMISSED" ELSE "OUTOFGAME"
    /\ Over => current_player \notin playing /\ state[current_player] = "OUTOFGAME"

\* Who has been stopped and plays has won, and at the end all have been stopped.
EndInv ==
  /\ \A c \in gone : c \in playing => c \in winners
  /\ version = "sol" => winners \subseteq playing /\ \A c \in Children : c < k => c \in gone
  /\ winners # {} => Over
  /\ ppc = "exited" => gone = Children
  /\ Phase = "stop" /\ version = "own" => k < n
  /\ Phase = "reap" /\ version = "sol" => k < n
  /\ ~Over => k = 0

IInv ==
  /\ TypeOK /\ StackInv /\ RowInv /\ BallInv /\ CountInv
  /\ OwnInv /\ SolInv /\ EndInv
-----------------------------------------------------------------------------
(* Stacks.                                                                 *)

StackSet(s) == {s[i] : i \in DOMAIN s}

\* Another frame on top.
LEMMA PushStack ==
  ASSUME NEW S, NEW s \in Seq(S), NEW f \in S, OncePerSignal(s),
         \A i \in DOMAIN s : s[i].sig # f.sig
  PROVE  /\ <<f>> \o s \in Seq(S) /\ <<f>> \o s # <<>> /\ Head(<<f>> \o s) = f
         /\ OncePerSignal(<<f>> \o s) /\ StackSet(<<f>> \o s) = StackSet(s) \cup {f}
         /\ \A i \in DOMAIN (<<f>> \o s) : i > 1 => i - 1 \in DOMAIN s /\ (<<f>> \o s)[i] = s[i - 1]
<1> DEFINE t == <<f>> \o s
<1>1. t \in Seq(S) /\ Len(t) = Len(s) + 1 /\ Len(s) \in Nat /\ DOMAIN s = 1 .. Len(s)
      /\ DOMAIN t = 1 .. Len(t) /\ t[1] = f /\ \A i \in 2 .. Len(s) + 1 : t[i] = s[i - 1]
  OBVIOUS
<1>2. /\ \A i \in DOMAIN t : i > 1 => i - 1 \in DOMAIN s /\ t[i] = s[i - 1]
      /\ \A i \in DOMAIN s : i + 1 \in DOMAIN t /\ t[i + 1] = s[i]
      /\ 1 \in DOMAIN t
  BY <1>1
<1>3. OncePerSignal(t)
  <2> SUFFICES ASSUME NEW i \in DOMAIN t, NEW j \in DOMAIN t, t[i].sig = t[j].sig
               PROVE  i = j
    BY DEF OncePerSignal
  <2>1. i \in Nat /\ j \in Nat /\ i >= 1 /\ j >= 1
    BY <1>1
  <2>2. CASE i = 1 \/ j = 1
    <3>1. i > 1 => t[i] \in StackSet(s) /\ t[i].sig # f.sig
      BY <1>2 DEF StackSet
    <3>2. j > 1 => t[j] \in StackSet(s) /\ t[j].sig # f.sig
      BY <1>2 DEF StackSet
    <3>3. i = 1 => t[j].sig = f.sig
      BY <1>1
    <3>4. j = 1 => t[i].sig = f.sig
      BY <1>1
    <3>5. QED
      BY <2>1, <2>2, <3>1, <3>2, <3>3, <3>4
  <2>3. CASE i > 1 /\ j > 1
    <3>1. i - 1 = j - 1
      BY <1>2, <2>3 DEF OncePerSignal
    <3>2. QED
      BY <2>1, <3>1
  <2>4. QED
    BY <2>1, <2>2, <2>3
<1>4. StackSet(t) = StackSet(s) \cup {f}
  <2>1. ASSUME NEW i \in DOMAIN t PROVE t[i] \in StackSet(s) \cup {f}
    <3>1. CASE i = 1
      BY <1>1, <3>1
    <3>2. CASE i > 1
      BY <1>2, <3>2 DEF StackSet
    <3>3. QED
      BY <1>1, <3>1, <3>2
  <2>2. ASSUME NEW i \in DOMAIN s PROVE s[i] \in StackSet(t)
    BY <1>2 DEF StackSet
  <2>3. f \in StackSet(t)
    BY <1>1, <1>2 DEF StackSet
  <2>4. QED
    BY <2>1, <2>2, <2>3 DEF StackSet
<1>5. t # <<>> /\ Head(t) = f
  BY <1>1
<1>6. QED
  BY <1>1, <1>2, <1>3, <1>4, <1>5

\* The top frame goes.
LEMMA PopStack ==
  ASSUME NEW S, NEW s \in Seq(S), s # <<>>, OncePerSignal(s)
  PROVE  /\ Tail(s) \in Seq(S) /\ OncePerSignal(Tail(s)) /\ Head(s) \in StackSet(s)
         /\ StackSet(Tail(s)) = StackSet(s) \ {Head(s)}
         /\ \A i \in DOMAIN Tail(s) : i + 1 \in DOMAIN s /\ Tail(s)[i] = s[i + 1]
<1> DEFINE t == Tail(s)
<1>1. t \in Seq(S) /\ Len(t) = Len(s) - 1 /\ Len(s) \in Nat \ {0} /\ DOMAIN s = 1 .. Len(s)
      /\ DOMAIN t = 1 .. Len(t) /\ Head(s) = s[1] /\ \A i \in 1 .. Len(s) - 1 : t[i] = s[i + 1]
  BY HeadTailProperties, EmptySeq, LenProperties
<1>2. /\ \A i \in DOMAIN t : i + 1 \in DOMAIN s /\ i + 1 # 1 /\ i \in Nat /\ t[i] = s[i + 1]
      /\ \A i \in DOMAIN s : i # 1 => i - 1 \in DOMAIN t /\ t[i - 1] = s[i]
      /\ 1 \in DOMAIN s
  BY <1>1
<1>3. OncePerSignal(t)
  <2> SUFFICES ASSUME NEW i \in DOMAIN t, NEW j \in DOMAIN t, t[i].sig = t[j].sig
               PROVE  i = j
    BY DEF OncePerSignal
  <2>1. i + 1 = j + 1
    BY <1>2 DEF OncePerSignal
  <2>2. QED
    BY <1>2, <2>1
<1>4. StackSet(t) = StackSet(s) \ {Head(s)}
  <2>1. ASSUME NEW i \in DOMAIN t PROVE t[i] \in StackSet(s) \ {Head(s)}
    <3>1. t[i] = s[i + 1] /\ s[i + 1] # s[1]
      BY <1>2 DEF OncePerSignal
    <3>2. QED
      BY <1>1, <1>2, <3>1 DEF StackSet
  <2>2. ASSUME NEW i \in DOMAIN s, s[i] # Head(s) PROVE s[i] \in StackSet(t)
    <3>1. i # 1
      BY <1>1, <2>2
    <3>2. QED
      BY <1>2, <3>1 DEF StackSet
  <2>3. QED
    BY <2>1, <2>2 DEF StackSet
<1>5. Head(s) \in StackSet(s)
  BY <1>1, <1>2 DEF StackSet
<1>6. QED
  BY <1>1, <1>2, <1>3, <1>4, <1>5

Relabel(s, label) == [s EXCEPT ![1].at = label]

\* The top frame moves on.
LEMMA RelabelStack ==
  ASSUME NEW S, NEW s \in Seq(S), s # <<>>, OncePerSignal(s), NEW label,
         NEW sig, NEW at, Head(s) = [sig |-> sig, at |-> at], [sig |-> sig, at |-> label] \in S,
         NEW t, t = Relabel(s, label)
  PROVE  /\ t \in Seq(S) /\ t # <<>> /\ Head(t) = [sig |-> sig, at |-> label]
         /\ OncePerSignal(t)
         /\ StackSet(t) = (StackSet(s) \ {Head(s)}) \cup {[sig |-> sig, at |-> label]}
         /\ DOMAIN t = DOMAIN s /\ \A i \in DOMAIN s : i > 1 => t[i] = s[i]
<1> DEFINE g == [sig |-> sig, at |-> label]
<1>1. Len(s) \in Nat \ {0} /\ DOMAIN s = 1 .. Len(s) /\ Head(s) = s[1] /\ 1 \in DOMAIN s
      /\ \A i \in DOMAIN s : s[i] \in S
  BY HeadTailProperties, EmptySeq, LenProperties, ElementOfSeq
<1>2. [s[1] EXCEPT !.at = label] = g
  BY <1>1
<1>3. t = [s EXCEPT ![1] = g]
  BY <1>1, <1>2 DEF Relabel
<1>4. t \in Seq(S) /\ Len(t) = Len(s) /\ DOMAIN t = DOMAIN s
      /\ \A i \in DOMAIN s : t[i] = IF i = 1 THEN g ELSE s[i]
  BY <1>1, <1>3, ExceptSeq
<1>5. t # <<>> /\ Head(t) = g
  BY <1>1, <1>4
<1>6. \A i \in DOMAIN s : t[i].sig = s[i].sig
  BY <1>1, <1>4
<1>7. OncePerSignal(t)
  BY <1>4, <1>6 DEF OncePerSignal
<1>8. StackSet(t) = (StackSet(s) \ {Head(s)}) \cup {g}
  <2>1. ASSUME NEW i \in DOMAIN s PROVE t[i] \in (StackSet(s) \ {Head(s)}) \cup {g}
    <3>1. CASE i = 1
      BY <1>4, <3>1
    <3>2. CASE i # 1
      <4>1. t[i] = s[i] /\ s[i] # s[1]
        BY <1>1, <1>4, <3>2 DEF OncePerSignal
      <4>2. QED
        BY <1>1, <4>1 DEF StackSet
    <3>3. QED
      BY <3>1, <3>2
  <2>2. ASSUME NEW i \in DOMAIN s, s[i] # Head(s) PROVE s[i] \in StackSet(t)
    BY <1>1, <1>4, <2>2 DEF StackSet
  <2>3. g \in StackSet(t)
    BY <1>1, <1>4 DEF StackSet
  <2>4. ASSUME NEW f \in StackSet(t) PROVE f \in (StackSet(s) \ {Head(s)}) \cup {g}
    BY <1>4, <2>1 DEF StackSet
  <2>5. ASSUME NEW f \in StackSet(s), f # Head(s) PROVE f \in StackSet(t)
    BY <2>2, <2>5 DEF StackSet
  <2>6. QED
    BY <2>3, <2>4, <2>5
<1>9. \A i \in DOMAIN s : i > 1 => t[i] = s[i]
  BY <1>1, <1>4
<1>10. QED
  BY <1>4, <1>5, <1>7, <1>8, <1>9
-----------------------------------------------------------------------------
(* The parent's phases.                                                    *)

\* n, for the provers.
LEMMA Size == n \in Nat /\ n >= 2
BY SizeAssumption

\* Where the parent can be, and which program it then is.
LEMMA Phases ==
  ASSUME TypeOK, StackInv
  PROVE  /\ frames = <<>> =>
              Phase = ppc /\ ppc \in (IF version = "own" THEN OwnLabels ELSE SolLabels)
         /\ version = "own" => frames = <<>>
         /\ frames # <<>> => /\ Phase = Head(frames).at /\ Head(frames) \in ParentFrame
                             /\ ppc = "paused" /\ version = "sol"
                             /\ Phase \in {"print", "wait", "decide", "return", "stop", "reap"}
                             /\ Head(frames) = [sig |-> Head(frames).sig, at |-> Phase]
         /\ \A label : At(label) <=> frames # <<>> /\ Phase = label
         /\ Phase \in {"loop", "throw", "clear", "test", "pause", "advance"} => version = "own"
         /\ Phase \in {"start", "paused", "print", "decide", "return"} => version = "sol"
         /\ Phase \in OwnLabels \cup SolLabels \cup {"print", "decide", "return"}
<1>1. frames \in Seq(ParentFrame) /\ version \in Versions
      /\ ppc \in IF version = "own" THEN OwnLabels ELSE SolLabels
  BY DEF TypeOK, ParentTypes
<1>2. ASSUME frames # <<>>
      PROVE  /\ Head(frames) \in ParentFrame
             /\ Head(frames) = [sig |-> Head(frames).sig, at |-> Head(frames).at]
             /\ Head(frames).at \in {"print", "wait", "decide", "return", "stop", "reap"}
  <2>1. Head(frames) \in ParentFrame
    BY <1>1, <1>2, HeadTailProperties
  <2>2. QED
    BY <2>1 DEF ParentFrame
<1>3. frames # <<>> => ppc = "paused" /\ version = "sol"
  BY DEF StackInv
<1>4. version = "own" => frames = <<>>
  BY <1>3
<1>5. CASE frames = <<>>
  BY <1>1, <1>5 DEF Phase, At, OwnLabels, SolLabels, Versions
<1>6. CASE frames # <<>>
  BY <1>1, <1>2, <1>3, <1>6 DEF Phase, At, OwnLabels, SolLabels, Versions
<1>7. QED
  BY <1>5, <1>6

\* A step of main, while no handler runs.
LEMMA MainMoves ==
  ASSUME TypeOK, StackInv, frames' = frames, version' = version, ppc # "paused" \/ ppc' = ppc
  PROVE  /\ StackInv' <=> \A c \in Children : OncePerSignal(handlers'[c])
         /\ ppc # ppc' => Phase = ppc /\ Phase' = ppc' /\ frames = <<>>
         /\ ppc = ppc' => Phase' = Phase
<1>1. CASE ppc = ppc'
  BY <1>1 DEF StackInv, Phase
<1>2. CASE ppc # ppc'
  <2>1. frames = <<>>
    BY <1>2 DEF StackInv
  <2>2. QED
    BY <1>2, <2>1 DEF StackInv, Phase
<1>3. QED
  BY <1>1, <1>2

HandlerGoto(label) == frames' = [frames EXCEPT ![1].at = label]

\* The running handler goes on.
LEMMA HandlerMoves ==
  ASSUME TypeOK, StackInv, NEW at, NEW label, At(at), HandlerGoto(label),
         label \in {"print", "wait", "decide", "return", "stop", "reap"},
         ppc' = ppc, version' = version, handlers' = handlers
  PROVE  /\ StackInv' /\ frames' \in Seq(ParentFrame)
         /\ Phase = at /\ Phase' = label /\ Head(frames').sig = Head(frames).sig
<1>1. /\ frames # <<>> /\ Phase = at /\ Head(frames) \in ParentFrame /\ version = "sol"
      /\ Head(frames) = [sig |-> Head(frames).sig, at |-> at] /\ ppc = "paused"
  BY Phases
<1>2. Head(frames).sig \in {"USR1", "USR2"}
  BY <1>1 DEF ParentFrame
<1>3. [sig |-> Head(frames).sig, at |-> label] \in ParentFrame
  BY <1>2 DEF ParentFrame
<1>4. frames \in Seq(ParentFrame) /\ OncePerSignal(frames)
  BY DEF TypeOK, ParentTypes, StackInv
<1>5. /\ frames' # <<>> /\ frames' \in Seq(ParentFrame) /\ OncePerSignal(frames')
      /\ Head(frames') = [sig |-> Head(frames).sig, at |-> label]
      /\ DOMAIN frames' = DOMAIN frames
      /\ \A i \in DOMAIN frames : i > 1 => frames'[i] = frames[i]
  <2>1. PICK sig : sig = Head(frames).sig
    OBVIOUS
  <2>2. PICK t : t = Relabel(frames, label)
    OBVIOUS
  <2>3. /\ t # <<>> /\ t \in Seq(ParentFrame) /\ OncePerSignal(t)
        /\ Head(t) = [sig |-> sig, at |-> label]
        /\ DOMAIN t = DOMAIN frames /\ \A i \in DOMAIN frames : i > 1 => t[i] = frames[i]
    BY <1>1, <1>3, <1>4, <2>1, <2>2, RelabelStack
  <2>4. frames' = t
    BY <2>2 DEF HandlerGoto, Relabel
  <2>5. QED
    BY <2>1, <2>3, <2>4
<1>6. \A c \in Children : OncePerSignal(handlers'[c])
  BY DEF StackInv
<1>7. StackInv'
  BY <1>1, <1>5, <1>6 DEF StackInv
<1>8. QED
  BY <1>1, <1>5, <1>7 DEF Phase
\* A handler starts on top of what the parent does while it listens.
LEMMA HandlerStarts ==
  ASSUME TypeOK, StackInv, ppending # {} => Listens, signalfromchild
  PROVE  /\ StackInv' /\ frames' \in Seq(ParentFrame)
         /\ Phase \in {"paused", "return"} /\ Phase' = "print"
         /\ \E sig \in ppending : ppending' = ppending \ {sig} /\ Head(frames').sig = sig
<1>1. PICK sig \in ppending : /\ \A i \in DOMAIN frames : frames[i].sig # sig
                              /\ ppending' = ppending \ {sig}
                              /\ frames' = <<[sig |-> sig, at |-> "print"]>> \o frames
  BY DEF signalfromchild
<1>2. PICK f : f = [sig |-> sig, at |-> "print"]
  OBVIOUS
<1>3. f \in ParentFrame /\ f.sig = sig /\ f.at = "print"
  BY <1>2 DEF TypeOK, ParentTypes, ParentFrame
<1>4. frames \in Seq(ParentFrame) /\ OncePerSignal(frames)
  BY DEF TypeOK, ParentTypes, StackInv
<1>5. \A i \in DOMAIN frames : frames[i].sig # f.sig
  BY <1>1, <1>3
<1>6. frames' = <<f>> \o frames
  BY <1>1, <1>2
<1>7. /\ frames' \in Seq(ParentFrame) /\ frames' # <<>> /\ Head(frames') = f
      /\ OncePerSignal(frames')
      /\ \A i \in DOMAIN frames' : i > 1 => i - 1 \in DOMAIN frames /\ frames'[i] = frames[i - 1]
  <2>1. PICK t : t = <<f>> \o frames
    OBVIOUS
  <2>2. /\ t \in Seq(ParentFrame) /\ t # <<>> /\ Head(t) = f
        /\ OncePerSignal(t)
        /\ \A i \in DOMAIN t : i > 1 => i - 1 \in DOMAIN frames /\ t[i] = frames[i - 1]
    BY <1>3, <1>4, <1>5, <2>1, PushStack
  <2>3. frames' = t
    BY <1>6, <2>1
  <2>4. QED
    BY <2>2, <2>3
<1>8. version = "sol" /\ version' = version /\ ppc' = ppc /\ handlers' = handlers
  BY DEF signalfromchild
<1>9. /\ Phase \in {"paused", "return"} /\ ppc = "paused"
      /\ frames # <<>> => Head(frames).at = "return"
  <2>1. Phase \in {"clear", "test", "pause", "paused", "return"}
    BY <1>1 DEF Listens
  <2>2. QED
    BY <1>8, <2>1, Phases DEF SolLabels
<1>10. \A i \in DOMAIN frames' : i > 1 => frames'[i].at = "return"
  <2> SUFFICES ASSUME NEW i \in DOMAIN frames', i > 1 PROVE frames'[i].at = "return"
    OBVIOUS
  <2>1. PICK j : j = i - 1
    OBVIOUS
  <2>2. j \in DOMAIN frames /\ frames'[i] = frames[j] /\ frames # <<>>
    BY <1>4, <1>7, <2>1
  <2>3. j \in Nat /\ j >= 1 /\ Head(frames) = frames[1]
    BY <1>4, <2>2, LenProperties, HeadTailProperties
  <2>4. frames[j].at = "return"
    <3>1. CASE j = 1
      BY <1>9, <2>2, <2>3, <3>1
    <3>2. CASE j > 1
      BY <2>2, <3>2 DEF StackInv
    <3>3. QED
      BY <2>3, <3>1, <3>2
  <2>5. QED
    BY <2>2, <2>4
<1>11. \A c \in Children : OncePerSignal(handlers'[c])
  BY <1>8 DEF StackInv
<1>12. StackInv'
  BY <1>7, <1>8, <1>9, <1>10, <1>11 DEF StackInv
<1>13. Phase' = "print"
  BY <1>3, <1>7 DEF Phase
<1>14. QED
  BY <1>1, <1>3, <1>7, <1>9, <1>12, <1>13

\* The handler below it returns as well, or main pauses again.
LEMMA HandlerReturns ==
  ASSUME TypeOK, StackInv, Return
  PROVE  /\ StackInv' /\ frames' \in Seq(ParentFrame)
         /\ Phase = "return" /\ Phase' \in {"paused", "return"}
<1>1. frames # <<>> /\ Phase = "return" /\ version = "sol" /\ ppc = "paused"
  BY Phases DEF Return
<1>2. version' = version /\ ppc' = ppc /\ handlers' = handlers /\ frames' = Tail(frames)
  BY DEF Return
<1>3. frames \in Seq(ParentFrame) /\ OncePerSignal(frames)
  BY DEF TypeOK, ParentTypes, StackInv
<1>4. /\ frames' \in Seq(ParentFrame) /\ OncePerSignal(frames')
      /\ \A i \in DOMAIN frames' : i + 1 \in DOMAIN frames /\ frames'[i] = frames[i + 1]
  BY <1>1, <1>2, <1>3, PopStack
<1>5. \A i \in DOMAIN frames' : frames'[i].at = "return"
  <2> SUFFICES ASSUME NEW i \in DOMAIN frames' PROVE frames'[i].at = "return"
    OBVIOUS
  <2>1. PICK j : j = i + 1
    OBVIOUS
  <2>2. j \in DOMAIN frames /\ frames'[i] = frames[j] /\ i \in Nat /\ i >= 1
    BY <1>4, <2>1, LenProperties
  <2>3. QED
    BY <2>1, <2>2 DEF StackInv
<1>6. frames' # <<>> => Head(frames').at = "return"
  <2>1. ASSUME frames' # <<>> PROVE Head(frames') = frames'[1] /\ 1 \in DOMAIN frames'
    BY <1>4, <2>1, HeadTailProperties, EmptySeq, LenProperties
  <2>2. QED
    BY <1>5, <2>1
<1>7. \A c \in Children : OncePerSignal(handlers'[c])
  BY <1>2 DEF StackInv
<1>8. StackInv'
  BY <1>1, <1>2, <1>4, <1>5, <1>7 DEF StackInv
<1>9. Phase' \in {"paused", "return"}
  BY <1>1, <1>2, <1>6 DEF Phase
<1>10. QED
  BY <1>1, <1>4, <1>8, <1>9

-----------------------------------------------------------------------------
(* The children's handlers.                                                *)

\* The set Frames(c) is that of the stack of c.
LEMMA FramesAre ==
  ASSUME ChildTypes, NEW c \in Children
  PROVE  /\ Frames(c) = StackSet(handlers[c]) /\ handlers[c] \in Seq(ChildFrame)
         /\ Frames(c) \subseteq ChildFrame
         /\ \A f \in Frames(c) : f = [sig |-> f.sig, at |-> f.at] /\ f.sig \in Sigs
<1>1. handlers[c] \in Seq(ChildFrame)
  BY DEF ChildTypes
<1>2. Frames(c) = StackSet(handlers[c])
  BY DEF Frames, StackSet
<1>3. \A i \in DOMAIN handlers[c] : handlers[c][i] \in ChildFrame
  BY <1>1, ElementOfSeq, LenProperties
<1>4. Frames(c) \subseteq ChildFrame
  BY <1>3 DEF Frames
<1>5. \A f \in ChildFrame : f = [sig |-> f.sig, at |-> f.at] /\ f.sig \in Sigs
  BY DEF ChildFrame, Sigs
<1>6. QED
  BY <1>1, <1>2, <1>4, <1>5

\* The right to print and the printing itself, frame by frame.
LEMMA MayPrintAt ==
  ASSUME ChildTypes
  PROVE  /\ \A c \in Children : MayPrint(c) <=> \/ "USR1" \in pending[c]
                                                \/ HasFrame(c, "USR1", "begin")
                                                \/ HasFrame(c, "USR1", "forward")
         /\ \A c \in Children : PrintsRow(c) <=> \/ HasFrame(c, "USR1", "begin")
                                                 \/ HasFrame(c, "USR1", "forward")
                                                 \/ HasFrame(c, "USR1", "end")
<1> SUFFICES ASSUME NEW c \in Children
             PROVE  /\ MayPrint(c) <=> \/ "USR1" \in pending[c]
                                       \/ HasFrame(c, "USR1", "begin")
                                       \/ HasFrame(c, "USR1", "forward")
                    /\ PrintsRow(c) <=> \/ HasFrame(c, "USR1", "begin")
                                        \/ HasFrame(c, "USR1", "forward")
                                        \/ HasFrame(c, "USR1", "end")
  OBVIOUS
<1>1. \A f \in Frames(c) : f = [sig |-> f.sig, at |-> f.at]
      /\ (f.sig = "USR1" => f.at \in {"begin", "forward", "end"})
  BY FramesAre DEF ChildFrame
<1>2. QED
  BY <1>1 DEF MayPrint, PrintsRow, HasFrame

\* A child has one frame of a kind.
LEMMA SameSignal ==
  ASSUME ChildTypes, StackInv
  PROVE  \A c \in Children : \A sig, at, label :
           HasFrame(c, sig, at) /\ HasFrame(c, sig, label) => at = label
<1> SUFFICES ASSUME NEW c \in Children, NEW sig, NEW at, NEW label,
                    HasFrame(c, sig, at), HasFrame(c, sig, label)
             PROVE  at = label
  OBVIOUS
<1>1. PICK i \in DOMAIN handlers[c] : handlers[c][i] = [sig |-> sig, at |-> at]
  BY DEF HasFrame, Frames
<1>2. PICK j \in DOMAIN handlers[c] : handlers[c][j] = [sig |-> sig, at |-> label]
  BY DEF HasFrame, Frames
<1>3. i = j
  BY <1>1, <1>2 DEF StackInv, OncePerSignal
<1>4. QED
  BY <1>1, <1>2, <1>3
\* A frame that runs is the only one of its kind.
LEMMA OnTop ==
  ASSUME ChildTypes, StackInv, NEW c \in Children, NEW sig, NEW at, Running(c, sig, at)
  PROVE  /\ handlers[c] # <<>> /\ Head(handlers[c]) = [sig |-> sig, at |-> at]
         /\ [sig |-> sig, at |-> at] \in ChildFrame
         /\ \A label : HasFrame(c, sig, label) <=> label = at
<1>1. handlers[c] # <<>> /\ Head(handlers[c]) = [sig |-> sig, at |-> at]
  BY DEF Running
<1>2. /\ handlers[c] \in Seq(ChildFrame) /\ OncePerSignal(handlers[c])
      /\ Frames(c) = StackSet(handlers[c]) /\ Frames(c) \subseteq ChildFrame
  BY FramesAre DEF StackInv
<1>3. HasFrame(c, sig, at)
  BY <1>1, <1>2, PopStack DEF HasFrame
<1>4. QED
  BY <1>1, <1>2, <1>3, SameSignal DEF HasFrame

\* A step that concerns c's handlers of one kind: afterwards they are at one of at.
Moves(c, sig, at) ==
  /\ handlers' \in [Children -> Seq(ChildFrame)]
  /\ \A d \in Children : OncePerSignal(handlers'[d])
  /\ \A d \in Children : \A s, a : HasFrame(d, s, a)' <=> IF d = c /\ s = sig THEN a \in at
                                                          ELSE HasFrame(d, s, a)

\* A child whose stack becomes t moves as t says.
LEMMA MovesByOne ==
  ASSUME ChildTypes, StackInv, NEW c \in Children, NEW t, NEW sig, NEW at,
         t \in Seq(ChildFrame), OncePerSignal(t), handlers' = [handlers EXCEPT ![c] = t],
         \A s, a : [sig |-> s, at |-> a] \in StackSet(t) <=> IF s = sig THEN a \in at
                                                             ELSE HasFrame(c, s, a)
  PROVE  Moves(c, sig, at)
<1>1. handlers \in [Children -> Seq(ChildFrame)] /\ \A d \in Children : OncePerSignal(handlers[d])
  BY DEF ChildTypes, StackInv
<1>2. \A d \in Children : handlers'[d] = IF d = c THEN t ELSE handlers[d]
  BY <1>1
<1>3. handlers' \in [Children -> Seq(ChildFrame)]
  BY <1>1
<1>4. \A d \in Children : OncePerSignal(handlers'[d])
  BY <1>1, <1>2
<1>5. ASSUME NEW d \in Children, NEW s, NEW a
      PROVE  HasFrame(d, s, a)' <=> IF d = c /\ s = sig THEN a \in at ELSE HasFrame(d, s, a)
  <2>1. HasFrame(d, s, a)' <=> [sig |-> s, at |-> a] \in StackSet(handlers'[d])
    BY DEF HasFrame, Frames, StackSet
  <2>2. HasFrame(d, s, a) <=> [sig |-> s, at |-> a] \in StackSet(handlers[d])
    BY DEF HasFrame, Frames, StackSet
  <2>3. handlers'[d] = IF d = c THEN t ELSE handlers[d]
    BY <1>2
  <2>4. QED
    BY <2>1, <2>2, <2>3
<1>6. QED
  BY <1>3, <1>4, <1>5 DEF Moves

\* A handler goes on: Goto.
LEMMA GotoMoves ==
  ASSUME ChildTypes, StackInv, NEW c \in Children, NEW sig, NEW at, NEW label,
         Running(c, sig, at), Goto(c, label), [sig |-> sig, at |-> label] \in ChildFrame
  PROVE  Moves(c, sig, {label})
<1>1. /\ handlers[c] # <<>> /\ Head(handlers[c]) = [sig |-> sig, at |-> at]
      /\ \A a : HasFrame(c, sig, a) <=> a = at
  BY OnTop
<1>2. /\ handlers[c] \in Seq(ChildFrame) /\ OncePerSignal(handlers[c])
      /\ Frames(c) = StackSet(handlers[c])
  BY FramesAre DEF StackInv
<1>3. PICK t : t = Relabel(handlers[c], label)
  OBVIOUS
<1>4. /\ t \in Seq(ChildFrame) /\ OncePerSignal(t)
      /\ StackSet(t) = (StackSet(handlers[c]) \ {Head(handlers[c])}) \cup {[sig |-> sig, at |-> label]}
  BY <1>1, <1>2, <1>3, RelabelStack
<1>5. handlers' = [handlers EXCEPT ![c] = t]
  BY <1>3 DEF Goto, Relabel, ChildTypes
<1>6. ASSUME NEW s, NEW a
      PROVE  [sig |-> s, at |-> a] \in StackSet(t) <=> IF s = sig THEN a \in {label} ELSE HasFrame(c, s, a)
  BY <1>1, <1>2, <1>4 DEF HasFrame
<1>7. QED
  BY <1>4, <1>5, <1>6, MovesByOne

\* A handler returns: Leave.
LEMMA LeaveMoves ==
  ASSUME ChildTypes, StackInv, NEW c \in Children, NEW sig, NEW at, Running(c, sig, at), Leave(c)
  PROVE  Moves(c, sig, {})
<1>1. /\ handlers[c] # <<>> /\ Head(handlers[c]) = [sig |-> sig, at |-> at]
      /\ \A a : HasFrame(c, sig, a) <=> a = at
  BY OnTop
<1>2. /\ handlers[c] \in Seq(ChildFrame) /\ OncePerSignal(handlers[c])
      /\ Frames(c) = StackSet(handlers[c])
  BY FramesAre DEF StackInv
<1>3. PICK t : t = Tail(handlers[c])
  OBVIOUS
<1>4. /\ t \in Seq(ChildFrame) /\ OncePerSignal(t)
      /\ StackSet(t) = StackSet(handlers[c]) \ {Head(handlers[c])}
  BY <1>1, <1>2, <1>3, PopStack
<1>5. handlers' = [handlers EXCEPT ![c] = t]
  BY <1>3 DEF Leave, ChildTypes
<1>6. ASSUME NEW s, NEW a
      PROVE  [sig |-> s, at |-> a] \in StackSet(t) <=> IF s = sig THEN a \in {} ELSE HasFrame(c, s, a)
  BY <1>1, <1>2, <1>4 DEF HasFrame
<1>7. QED
  BY <1>4, <1>5, <1>6, MovesByOne

\* A handler begins, of a kind that is not running.
LEMMA DeliverMoves ==
  ASSUME ChildTypes, StackInv, NEW c \in Children, Deliver(c)
  PROVE  \E sig \in pending[c] :
           /\ Moves(c, sig, {"begin"}) /\ \A a : ~HasFrame(c, sig, a)
           /\ pending' = [pending EXCEPT ![c] = @ \ {sig}]
<1>1. PICK sig \in pending[c] : /\ \A i \in DOMAIN handlers[c] : handlers[c][i].sig # sig
                                /\ pending' = [pending EXCEPT ![c] = @ \ {sig}]
                                /\ handlers' = [handlers EXCEPT
                                     ![c] = <<[sig |-> sig, at |-> "begin"]>> \o @]
  BY DEF Deliver
<1>2. /\ handlers[c] \in Seq(ChildFrame) /\ OncePerSignal(handlers[c])
      /\ Frames(c) = StackSet(handlers[c])
  BY FramesAre DEF StackInv
<1>3. sig \in Sigs
  BY DEF ChildTypes
<1>4. PICK f : f = [sig |-> sig, at |-> "begin"]
  OBVIOUS
<1>5. f \in ChildFrame /\ f.sig = sig
  BY <1>3, <1>4 DEF ChildFrame, Sigs
<1>6. PICK t : t = <<f>> \o handlers[c]
  OBVIOUS
<1>7. \A i \in DOMAIN handlers[c] : handlers[c][i].sig # f.sig
  BY <1>1, <1>5
<1>8. t \in Seq(ChildFrame) /\ OncePerSignal(t) /\ StackSet(t) = StackSet(handlers[c]) \cup {f}
  BY <1>2, <1>5, <1>6, <1>7, PushStack
<1>9. handlers' = [handlers EXCEPT ![c] = t]
  BY <1>1, <1>4, <1>6 DEF ChildTypes
<1>10. \A a : ~HasFrame(c, sig, a)
  BY <1>1 DEF HasFrame, Frames
<1>11. ASSUME NEW s, NEW a
       PROVE  [sig |-> s, at |-> a] \in StackSet(t) <=> IF s = sig THEN a \in {"begin"}
                                                        ELSE HasFrame(c, s, a)
  BY <1>2, <1>4, <1>8, <1>10 DEF HasFrame
<1>12. Moves(c, sig, {"begin"})
  BY <1>8, <1>9, <1>11, MovesByOne
<1>13. QED
  BY <1>1, <1>10, <1>12

\* A process that exits leaves no handler.
LEMMA ExitMoves ==
  ASSUME ChildTypes, StackInv, NEW c \in Children, handlers' = [handlers EXCEPT ![c] = <<>>]
  PROVE  /\ handlers' \in [Children -> Seq(ChildFrame)]
         /\ \A d \in Children : OncePerSignal(handlers'[d])
         /\ \A d \in Children : \A s, a : HasFrame(d, s, a)' <=> d # c /\ HasFrame(d, s, a)
<1>1. handlers \in [Children -> Seq(ChildFrame)] /\ \A d \in Children : OncePerSignal(handlers[d])
  BY DEF ChildTypes, StackInv
<1>2. <<>> \in Seq(ChildFrame) /\ DOMAIN <<>> = {}
  OBVIOUS
<1>3. PICK t : t = <<>>
  OBVIOUS
<1>4. handlers' = [handlers EXCEPT ![c] = t]
  BY <1>3
<1>5. t \in Seq(ChildFrame) /\ OncePerSignal(t) /\ StackSet(t) = {}
  BY <1>2, <1>3 DEF OncePerSignal, StackSet
<1>6. \A d \in Children : handlers'[d] = IF d = c THEN t ELSE handlers[d]
  BY <1>1, <1>4
<1>7. handlers' \in [Children -> Seq(ChildFrame)]
  BY <1>1, <1>4, <1>5
<1>8. \A d \in Children : OncePerSignal(handlers'[d])
  BY <1>1, <1>5, <1>6
<1>9. ASSUME NEW d \in Children, NEW s, NEW a
      PROVE  HasFrame(d, s, a)' <=> d # c /\ HasFrame(d, s, a)
  <2>1. HasFrame(d, s, a)' <=> [sig |-> s, at |-> a] \in StackSet(handlers'[d])
    BY DEF HasFrame, Frames, StackSet
  <2>2. HasFrame(d, s, a) <=> [sig |-> s, at |-> a] \in StackSet(handlers[d])
    BY DEF HasFrame, Frames, StackSet
  <2>3. QED
    BY <1>5, <1>6, <2>1, <2>2
<1>10. QED
  BY <1>7, <1>8, <1>9

\* Who keeps its stack keeps its frames.
LEMMA StandStill ==
  ASSUME NEW c \in Children, handlers' = handlers
  PROVE  \A s, a : HasFrame(c, s, a)' <=> HasFrame(c, s, a)
BY DEF HasFrame, Frames
-----------------------------------------------------------------------------
(* The next player.                                                        *)

\* How far x is from i, in circular order.
LEMMA Distance ==
  ASSUME NEW i \in Children, NEW x \in Children
  PROVE  (x - i - 1) % n = IF x > i THEN x - i - 1 ELSE x - i - 1 + n
<1>1. /\ i \in Int /\ x \in Int /\ n \in Int /\ n >= 2
      /\ 0 <= i /\ i < n /\ 0 <= x /\ x < n
  BY Size DEF Children
<1>2. \A a, m \in Int : 0 <= a /\ a < m => a % m = a
  OBVIOUS
<1>3. \A a, m \in Int : m > 0 /\ a < 0 /\ -m <= a => a % m = a + m
  OBVIOUS
<1>4. CASE x > i
  BY <1>1, <1>2, <1>4
<1>5. CASE ~(x > i)
  <2>1. PICK a \in Int : a = x - i - 1
    BY <1>1
  <2>2. a < 0 /\ -n <= a
    BY <1>1, <1>5, <2>1
  <2>3. a % n = a + n
    BY <1>1, <1>3, <2>2
  <2>4. QED
    BY <1>5, <2>1, <2>3
<1>6. QED
  BY <1>4, <1>5

\* next_player finds one, and another one than i unless there is none.
LEMMA NextPlayer ==
  ASSUME NEW i \in Children, NEW S \in SUBSET Children, S # {}
  PROVE  next_player(i, S) \in S /\ (S # {i} => next_player(i, S) # i)
<1> DEFINE D(x) == (x - i - 1) % n
           T == {D(x) : x \in S}
           Nearest(j) == j \in S /\ \A x \in S : D(j) <= D(x)
<1>0. \A x \in Children : D(x) \in Nat
  BY Distance, Size DEF Children
<1>1. T \subseteq Nat /\ T # {}
  BY <1>0
<1>2. PICK m \in T : \A y \in T : ~(<<y, m>> \in OpToRel(<, Nat))
  BY <1>1, NatLessThanWellFounded, WFMin
<1>3. \A y \in T : ~(y < m)
  BY <1>1, <1>2 DEF OpToRel
<1>4. \E j : Nearest(j)
  <2>1. PICK j \in S : m = D(j)
    OBVIOUS
  <2>2. \A x \in S : D(x) \in T
    OBVIOUS
  <2>3. ASSUME NEW x \in S PROVE D(j) <= D(x)
    <3>1. D(x) \in T
      OBVIOUS
    <3>2. PICK y : y = D(x)
      OBVIOUS
    <3>3. y \in Nat /\ m \in Nat /\ ~(y < m)
      BY <1>1, <1>3, <3>1, <3>2
    <3>4. m <= y
      BY <3>3
    <3>5. QED
      BY <2>1, <3>2, <3>4
  <2>4. QED
    BY <2>3
<1>5. Nearest(next_player(i, S))
  BY <1>4 DEF next_player
<1>6. ASSUME S # {i}, next_player(i, S) = i PROVE FALSE
  <2>1. PICK x \in S : x # i
    BY <1>6, <1>5
  <2>2. D(i) <= D(x)
    BY <1>5, <1>6
  <2>3. QED
    BY <2>1, <2>2, Distance, Size DEF Children
<1>7. QED
  BY <1>5, <1>6
-----------------------------------------------------------------------------
(* Steps of the parent: its phases.                                        *)

\* What main does, and when.
LEMMA MainPhases ==
  ASSUME TypeOK, StackInv
  PROVE  /\ PrintRow => StackInv' /\ frames' = frames /\ Phase = "loop" /\ Phase' = "wait"
         /\ RowDone => /\ StackInv' /\ frames' = frames /\ Phase = "wait"
                       /\ Phase' = IF players_left > 1 THEN "throw" ELSE "stop"
         /\ Throw => StackInv' /\ frames' = frames /\ Phase = "throw" /\ Phase' = "clear"
         /\ ClearFlag => StackInv' /\ frames' = frames /\ Phase = "clear" /\ Phase' = "test"
         /\ TestFlag => /\ StackInv' /\ frames' = frames /\ Phase = "test"
                        /\ Phase' = IF received_signal = "none" THEN "pause" ELSE "advance"
         /\ Advance => StackInv' /\ frames' = frames /\ Phase = "advance" /\ Phase' = "loop"
         /\ HearAnswer => /\ StackInv' /\ frames' = frames
                          /\ Phase' = IF Phase = "pause" THEN "test" ELSE Phase
         /\ StopNext => /\ StackInv' /\ frames' = frames /\ Phase = "stop"
                        /\ Phase' = IF k' = n THEN "reap" ELSE "stop"
         /\ Reap => StackInv' /\ frames' = frames /\ Phase = "reap" /\ Phase' = "exited"
                    /\ version = "own"
         /\ FirstThrow => StackInv' /\ frames' = frames /\ Phase = "start" /\ Phase' = "paused"
<1> DEFINE Main(p, q) == /\ frames' = frames /\ version' = version /\ handlers' = handlers
                         /\ ppc = p /\ ppc' = q /\ p # "paused"
<1>1. ASSUME NEW p, NEW q, Main(p, q)
      PROVE  StackInv' /\ frames' = frames /\ Phase = p /\ Phase' = q
  <2>1. \A c \in Children : OncePerSignal(handlers'[c])
    BY <1>1 DEF StackInv
  <2>2. frames = <<>>
    BY <1>1 DEF StackInv
  <2>3. QED
    BY <1>1, <2>1, <2>2 DEF StackInv, Phase
<1>2. /\ PrintRow => Main("loop", "wait")
      /\ RowDone => Main("wait", IF players_left > 1 THEN "throw" ELSE "stop")
      /\ Throw => Main("throw", "clear")
      /\ ClearFlag => Main("clear", "test")
      /\ Advance => Main("advance", "loop")
      /\ StopNext => Main("stop", IF k' = n THEN "reap" ELSE "stop")
      /\ Reap => Main("reap", "exited")
      /\ FirstThrow => Main("start", "paused")
  BY DEF PrintRow, RowDone, Throw, ClearFlag, Advance, StopNext, Reap, FirstThrow
<1>3. TestFlag => Main("test", IF received_signal = "none" THEN "pause" ELSE "advance")
  BY DEF TestFlag
<1>4. HearAnswer => Main(ppc, IF ppc = "pause" THEN "test" ELSE ppc) /\ Phase = ppc
  BY Phases DEF HearAnswer, OwnLabels
<1>5. Reap => version = "own"
  BY DEF Reap, TypeOK, ParentTypes, SolLabels, Versions
<1> HIDE DEF Main
<1>6. QED
  BY <1>1, <1>2, <1>3, <1>4, <1>5

\* What the handler of sol_LA2 does, and when.
LEMMA HandlerPhases ==
  ASSUME TypeOK, StackInv
  PROVE  /\ printline => /\ StackInv' /\ frames' \in Seq(ParentFrame)
                         /\ Phase = "print" /\ Phase' = "wait"
                         /\ Head(frames').sig = Head(frames).sig
         /\ LineDone => /\ StackInv' /\ frames' \in Seq(ParentFrame)
                        /\ Phase = "wait" /\ Phase' = "decide" /\ version = "sol"
                        /\ Head(frames').sig = Head(frames).sig
         /\ Decide => /\ StackInv' /\ frames' \in Seq(ParentFrame) /\ Phase = "decide"
                      /\ Phase' = IF Head(frames).sig = "USR2" /\ players_left' = 1
                                  THEN "stop" ELSE "return"
         /\ endgame => /\ StackInv' /\ frames' \in Seq(ParentFrame) /\ Phase = "stop"
                       /\ version = "sol"
                       /\ Phase' = IF k = n THEN "exited" ELSE "reap"
         /\ ReapOne => /\ StackInv' /\ frames' \in Seq(ParentFrame) /\ version = "sol"
                       /\ Phase = "reap" /\ Phase' = "stop"
<1>1. ASSUME NEW at, NEW label, At(at), HandlerGoto(label),
             label \in {"print", "wait", "decide", "return", "stop", "reap"},
             ppc' = ppc, version' = version, handlers' = handlers
      PROVE  /\ StackInv' /\ frames' \in Seq(ParentFrame) /\ version = "sol"
             /\ Phase = at /\ Phase' = label /\ Head(frames').sig = Head(frames).sig
  BY <1>1, HandlerMoves DEF StackInv, At
<1>2. /\ printline => /\ At("print") /\ HandlerGoto("wait")
                      /\ ppc' = ppc /\ version' = version /\ handlers' = handlers
      /\ LineDone => /\ At("wait") /\ HandlerGoto("decide")
                     /\ ppc' = ppc /\ version' = version /\ handlers' = handlers
      /\ ReapOne => /\ At("reap") /\ HandlerGoto("stop")
                    /\ ppc' = ppc /\ version' = version /\ handlers' = handlers
  BY DEF printline, LineDone, ReapOne, HandlerGoto
<1>3. Decide => /\ At("decide")
                /\ HandlerGoto(IF Head(frames).sig = "USR2" /\ players_left' = 1
                               THEN "stop" ELSE "return")
                /\ ppc' = ppc /\ version' = version /\ handlers' = handlers
  BY DEF Decide, HandlerGoto
<1>4. endgame /\ k # n => /\ At("stop") /\ HandlerGoto("reap")
                          /\ ppc' = ppc /\ version' = version /\ handlers' = handlers
  BY DEF endgame, HandlerGoto
<1>5. ASSUME endgame, k = n
      PROVE  /\ StackInv' /\ frames' \in Seq(ParentFrame) /\ Phase = "stop" /\ Phase' = "exited"
             /\ version = "sol"
  <2>1. At("stop") /\ ppc' = "exited" /\ frames' = <<>> /\ handlers' = handlers
    BY <1>5 DEF endgame
  <2>2. \A c \in Children : OncePerSignal(handlers'[c])
    BY <2>1 DEF StackInv
  <2>3. frames' \in Seq(ParentFrame) /\ DOMAIN frames' = {}
    BY <2>1
  <2>4. StackInv' /\ Phase' = "exited"
    BY <2>1, <2>2, <2>3 DEF StackInv, OncePerSignal, Phase
  <2>5. QED
    BY <2>1, <2>3, <2>4, Phases
<1>6. QED
  <2>1. printline => /\ StackInv' /\ frames' \in Seq(ParentFrame)
                     /\ Phase = "print" /\ Phase' = "wait"
                     /\ Head(frames').sig = Head(frames).sig
    BY <1>1, <1>2
  <2>2. LineDone => /\ StackInv' /\ frames' \in Seq(ParentFrame) /\ version = "sol"
                    /\ Phase = "wait" /\ Phase' = "decide"
                    /\ Head(frames').sig = Head(frames).sig
    BY <1>1, <1>2
  <2>3. ReapOne => /\ StackInv' /\ frames' \in Seq(ParentFrame) /\ version = "sol"
                   /\ Phase = "reap" /\ Phase' = "stop"
    BY <1>1, <1>2
  <2>4. Decide => /\ StackInv' /\ frames' \in Seq(ParentFrame) /\ Phase = "decide"
                  /\ Phase' = IF Head(frames).sig = "USR2" /\ players_left' = 1
                              THEN "stop" ELSE "return"
    BY <1>1, <1>3
  <2>5. endgame => /\ StackInv' /\ frames' \in Seq(ParentFrame) /\ Phase = "stop"
                   /\ version = "sol" /\ Phase' = IF k = n THEN "exited" ELSE "reap"
    BY <1>1, <1>4, <1>5
  <2>6. QED
    BY <2>1, <2>2, <2>3, <2>4, <2>5
-----------------------------------------------------------------------------
(* Types and counts.                                                       *)

\* One child less.
LEMMA Counting ==
  ASSUME NEW S \in SUBSET Children, NEW c \in S
  PROVE  /\ Cardinality(S) \in Nat /\ S \ {c} \in SUBSET Children
         /\ Cardinality(S \ {c}) = Cardinality(S) - 1
         /\ Cardinality(S) = 1 => S = {c}
         /\ Cardinality(S) >= 2 => S \ {c} # {} /\ S # {c}
<1>1. IsFiniteSet(Children)
  BY Size, FS_Interval DEF Children
<1>2. IsFiniteSet(S)
  BY <1>1, FS_Subset
<1>3. Cardinality(S) \in Nat /\ Cardinality(S \ {c}) = Cardinality(S) - 1
  BY <1>2, FS_RemoveElement, FS_CardinalityType
<1>4. Cardinality(S) = 1 => S = {c}
  BY <1>2, FS_Singleton
<1>5. Cardinality({c}) = 1
  BY FS_Singleton
<1>6. Cardinality({}) = 0
  BY FS_EmptySet
<1>7. QED
  BY <1>3, <1>4, <1>5, <1>6

\* The invariant holds at the start of both programs.
LEMMA InitIInv ==
  ASSUME Init
  PROVE  IInv
<1>1. 0 \in Children /\ Children \subseteq Nat /\ 0 \in 0 .. n /\ n \in Nat
  BY Size DEF Children
<1>2. /\ <<>> \in Seq(ParentFrame) /\ <<>> \in Seq(ChildFrame) /\ DOMAIN <<>> = {}
  OBVIOUS
<1>3. TypeOK
  BY <1>1, <1>2 DEF Init, TypeOK, ParentTypes, ChildTypes, OwnLabels, SolLabels, Versions
<1>4. Cardinality(Children) = n
  BY Size, FS_Interval DEF Children
<1>5. /\ Phase = ppc /\ Phase \in {"loop", "start"} /\ frames = <<>>
      /\ Phase = "start" <=> version = "sol"
  BY DEF Init, Phase, Versions
<1>6. \A c \in Children : Frames(c) = {} /\ pending[c] = {}
  BY <1>2 DEF Init, Frames
<1>7. StackInv
  BY <1>2, <1>5 DEF Init, StackInv, OncePerSignal
<1>8. \A c \in Children : ~MayPrint(c) /\ ~Thrown(c) /\ ~Decided(c) /\ ~Stopped(c)
  BY <1>6 DEF Init, MayPrint, Thrown, Decided, Stopped, HasFrame
<1>9. RowInv
  BY <1>5, <1>6, <1>8 DEF Init, RowInv
<1>10. BallInv
  BY <1>5, <1>6, <1>8 DEF Init, BallInv, HasBall
<1>11. CountInv
  BY <1>1, <1>4, <1>5, Size DEF Init, CountInv, Over
<1>12. OwnInv
  BY <1>1 DEF Init, OwnInv
<1>13. SolInv
  BY <1>1, <1>5, <1>6 DEF Init, SolInv, HasFrame, Over
<1>14. EndInv
  BY <1>1, <1>5 DEF Init, EndInv
<1>15. QED
  BY <1>3, <1>7, <1>9, <1>10, <1>11, <1>12, <1>13, <1>14 DEF IInv

\* A signal is sent.
LEMMA KillKeepsTypes ==
  ASSUME ChildTypes, NEW c \in Children, NEW sig \in Sigs, Kill(c, sig),
         handlers' = handlers, UNCHANGED child
  PROVE  ChildTypes'
<1>1. pending' \in [Children -> SUBSET Sigs]
  BY DEF Kill, ChildTypes
<1>2. QED
  BY <1>1 DEF ChildTypes, child

\* A step that touches no child keeps their types.
LEMMA SameTypes ==
  ASSUME ChildTypes, UNCHANGED <<handlers, pending, child>>
  PROVE  ChildTypes'
BY DEF ChildTypes, child

\* What comes after an answer: who plays, and who is next.
LEMMA NextTurn ==
  ASSUME TypeOK, CountInv, ~Over, players_left >= 2, NEW missed \in BOOLEAN,
         playing' = IF missed THEN playing \ {current_player} ELSE playing,
         players_left' = IF missed THEN players_left - 1 ELSE players_left
  PROVE  /\ playing' \in SUBSET Children /\ players_left' = Cardinality(playing')
         /\ players_left' \in Nat /\ players_left' >= 1
         /\ next_player(current_player, playing') \in playing'
         /\ next_player(current_player, playing') # current_player
<1>1. /\ playing \in SUBSET Children /\ current_player \in Children /\ current_player \in playing
      /\ players_left = Cardinality(playing)
  BY DEF TypeOK, ParentTypes, CountInv
<1>2. /\ playing \ {current_player} \in SUBSET Children /\ playing \ {current_player} # {}
      /\ Cardinality(playing \ {current_player}) = players_left - 1
      /\ playing # {current_player} /\ players_left \in Nat
  BY <1>1, Counting
<1>3. playing' \in SUBSET Children /\ playing' # {} /\ playing' # {current_player}
  BY <1>1, <1>2
<1>4. QED
  BY <1>1, <1>2, <1>3, NextPlayer
\* Every step of the parent keeps the types and the stacks.
LEMMA ParentKeepsTypes ==
  ASSUME IInv, Parent
  PROVE  TypeOK' /\ StackInv'
<1>0. TypeOK /\ ParentTypes /\ ChildTypes /\ StackInv /\ CountInv /\ BallInv /\ EndInv
  BY DEF IInv, TypeOK
<1>1. 0 \in Children /\ Children \subseteq 0 .. n /\ 0 .. n \subseteq Nat
      /\ (\A i \in Children : i + 1 \in 0 .. n) /\ (\A i \in 0 .. n : i < n => i \in Children)
  BY Size DEF Children
<1>2. "USR1" \in Sigs /\ "USR2" \in Sigs /\ "INT" \in Sigs
  BY DEF Sigs
<1>3. CASE PrintRow
  <2>1. ChildTypes'
    BY <1>0, <1>1, <1>2, <1>3, KillKeepsTypes DEF PrintRow
  <2>2. QED
    BY <1>0, <1>3, <2>1, MainPhases DEF PrintRow, TypeOK, ParentTypes, OwnLabels
<1>4. CASE RowDone
  <2>1. ChildTypes'
    BY <1>0, <1>4, SameTypes DEF RowDone
  <2>2. QED
    BY <1>0, <1>4, <2>1, MainPhases DEF RowDone, TypeOK, ParentTypes, OwnLabels
<1>5. CASE Throw
  <2>1. ChildTypes'
    BY <1>0, <1>2, <1>5, KillKeepsTypes DEF Throw, ParentTypes
  <2>2. version = "own"
    BY <1>0, <1>5, MainPhases, Phases
  <2>3. QED
    BY <1>0, <1>5, <2>1, <2>2, MainPhases DEF Throw, TypeOK, ParentTypes, OwnLabels
<1>6. CASE ClearFlag
  <2>1. ChildTypes'
    BY <1>0, <1>6, SameTypes DEF ClearFlag
  <2>2. version = "own"
    BY <1>0, <1>6, MainPhases, Phases
  <2>3. QED
    BY <1>0, <1>6, <2>1, <2>2, MainPhases DEF ClearFlag, TypeOK, ParentTypes, OwnLabels
<1>7. CASE TestFlag
  <2>1. ChildTypes'
    BY <1>0, <1>7, SameTypes DEF TestFlag
  <2>2. version = "own"
    BY <1>0, <1>7, MainPhases, Phases
  <2>3. QED
    BY <1>0, <1>7, <2>1, <2>2, MainPhases DEF TestFlag, TypeOK, ParentTypes, OwnLabels
<1>8. CASE Advance
  <2>1. ChildTypes'
    BY <1>0, <1>8, SameTypes DEF Advance
  <2>2. version = "own" /\ Phase = "advance"
    BY <1>0, <1>8, MainPhases, Phases
  <2>3. ~Over /\ players_left >= 2
    BY <1>0, <2>2 DEF CountInv, Over
  <2>4. PICK missed \in BOOLEAN : missed = (received_signal = "USR2")
    OBVIOUS
  <2>5. /\ playing' = IF missed THEN playing \ {current_player} ELSE playing
        /\ players_left' = IF missed THEN players_left - 1 ELSE players_left
    BY <1>8, <2>4 DEF Advance
  <2>6. /\ playing' \in SUBSET Children /\ players_left' \in Nat
        /\ current_player' \in playing'
    BY <1>0, <1>8, <2>3, <2>5, NextTurn DEF Advance
  <2>7. QED
    BY <1>0, <1>8, <2>1, <2>2, <2>6, MainPhases DEF Advance, TypeOK, ParentTypes, OwnLabels
<1>9. CASE HearAnswer
  <2>1. ChildTypes'
    BY <1>0, <1>9, SameTypes DEF HearAnswer
  <2>2. QED
    BY <1>0, <1>9, <2>1, MainPhases DEF HearAnswer, TypeOK, ParentTypes, OwnLabels
<1>10. CASE StopNext
  <2>1. Phase = "stop" /\ version = "own" /\ k \in Children
    BY <1>0, <1>1, <1>10, MainPhases DEF StopNext, EndInv, ParentTypes
  <2>2. ChildTypes'
    BY <1>0, <1>2, <1>10, <2>1, KillKeepsTypes DEF StopNext
  <2>3. k' \in 0 .. n
    BY <1>1, <1>10, <2>1 DEF StopNext
  <2>4. QED
    BY <1>0, <1>10, <2>1, <2>2, <2>3, MainPhases DEF StopNext, TypeOK, ParentTypes, OwnLabels
<1>11. CASE Reap
  <2>1. ChildTypes'
    BY <1>0, <1>11, SameTypes DEF Reap
  <2>2. QED
    BY <1>0, <1>11, <2>1, MainPhases DEF Reap, TypeOK, ParentTypes, OwnLabels
<1>12. CASE FirstThrow
  <2>1. ChildTypes'
    BY <1>0, <1>2, <1>12, KillKeepsTypes DEF FirstThrow, ParentTypes
  <2>2. version = "sol"
    BY <1>0, <1>12, MainPhases, Phases
  <2>3. QED
    BY <1>0, <1>12, <2>1, <2>2, MainPhases DEF FirstThrow, TypeOK, ParentTypes, SolLabels
<1>13. CASE signalfromchild
  <2>1. ChildTypes'
    BY <1>0, <1>13, SameTypes DEF signalfromchild
  <2>2. ppending # {} => Listens
    BY <1>0 DEF BallInv, Unheard
  <2>3. StackInv' /\ frames' \in Seq(ParentFrame)
    BY <1>0, <1>13, <2>2, HandlerStarts
  <2>4. QED
    BY <1>0, <1>13, <2>1, <2>3 DEF signalfromchild, TypeOK, ParentTypes
<1>14. CASE printline
  <2>1. ChildTypes'
    BY <1>0, <1>1, <1>2, <1>14, KillKeepsTypes DEF printline
  <2>2. QED
    BY <1>0, <1>14, <2>1, HandlerPhases DEF printline, TypeOK, ParentTypes
<1>15. CASE LineDone
  <2>1. ChildTypes'
    BY <1>0, <1>15, SameTypes DEF LineDone
  <2>2. QED
    BY <1>0, <1>15, <2>1, HandlerPhases DEF LineDone, TypeOK, ParentTypes
<1>16. CASE Decide
  <2>2. Phase = "decide"
    BY <1>0, <1>16, HandlerPhases
  <2>3. ~Over /\ players_left >= 2
    BY <1>0, <2>2 DEF CountInv, Over
  <2>4. PICK missed \in BOOLEAN : missed = (Head(frames).sig = "USR2")
    OBVIOUS
  <2>5. /\ playing' = IF missed THEN playing \ {current_player} ELSE playing
        /\ players_left' = IF missed THEN players_left - 1 ELSE players_left
    BY <1>16, <2>4 DEF Decide
  <2>6. /\ playing' \in SUBSET Children /\ players_left' \in Nat
        /\ next_player(current_player, playing') \in playing'
    BY <1>0, <2>3, <2>5, NextTurn
  <2>7. CASE UNCHANGED <<current_player, pending>>
    <3>1. ChildTypes'
      BY <1>0, <1>16, <2>7, SameTypes DEF Decide
    <3>2. QED
      BY <1>0, <1>16, <2>6, <2>7, <3>1, HandlerPhases DEF Decide, TypeOK, ParentTypes
  <2>8. CASE current_player' = next_player(current_player, playing') /\ Kill(current_player', "USR2")
    <3>1. PICK c \in Children : c = current_player'
      BY <2>6, <2>8
    <3>2. Kill(c, "USR2")
      BY <2>8, <3>1
    <3>3. handlers' = handlers /\ UNCHANGED child
      BY <1>16 DEF Decide
    <3>4. ChildTypes'
      BY <1>0, <1>2, <3>2, <3>3, KillKeepsTypes
    <3>5. current_player' \in Children
      BY <3>1
    <3>6. QED
      BY <1>0, <1>16, <2>6, <3>4, <3>5, HandlerPhases DEF Decide, TypeOK, ParentTypes
  <2>9. QED
    BY <1>16, <2>7, <2>8 DEF Decide
<1>17. CASE Return
  <2>1. ChildTypes'
    BY <1>0, <1>17, SameTypes DEF Return
  <2>2. QED
    BY <1>0, <1>17, <2>1, HandlerReturns DEF Return, TypeOK, ParentTypes
<1>18. CASE endgame
  <2>1. version = "sol"
    BY <1>0, <1>18, HandlerPhases
  <2>2. ChildTypes'
    <3>1. CASE k = n
      BY <1>0, <1>18, <3>1, SameTypes DEF endgame
    <3>2. CASE k # n
      <4>1. k \in Children
        <5>1. k \in 0 .. n /\ k < n
          BY <1>0, <3>2, Size DEF ParentTypes
        <5>2. QED
          BY <1>1, <5>1
      <4>2. QED
        BY <1>0, <1>2, <1>18, <3>2, <4>1, KillKeepsTypes DEF endgame
    <3>3. QED
      BY <3>1, <3>2
  <2>3. QED
    BY <1>0, <1>18, <2>1, <2>2, HandlerPhases DEF endgame, TypeOK, ParentTypes, SolLabels
<1>19. CASE ReapOne
  <2>1. ChildTypes'
    BY <1>0, <1>19, SameTypes DEF ReapOne
  <2>2. Phase = "reap" /\ version = "sol"
    BY <1>0, <1>19, HandlerPhases
  <2>3. k' \in 0 .. n
    BY <1>0, <1>1, <1>19, <2>2 DEF ReapOne, EndInv, ParentTypes
  <2>4. QED
    BY <1>0, <1>19, <2>1, <2>3, HandlerPhases DEF ReapOne, TypeOK, ParentTypes
<1>20. QED
  BY <1>3, <1>4, <1>5, <1>6, <1>7, <1>8, <1>9, <1>10, <1>11, <1>12, <1>13, <1>14, <1>15, <1>16,
     <1>17, <1>18, <1>19 DEF Parent
-----------------------------------------------------------------------------
(* Steps of the children: their handlers.                                  *)

\* The invariant says whom the ball is thrown to.
LEMMA ImpliesThrownToPlayers ==
  ASSUME IInv
  PROVE  ThrownToPlayers
<1> SUFFICES ASSUME NEW c \in Children, Thrown(c)
             PROVE  /\ InGame(c) /\ c = current_player /\ c \in playing
                    /\ \A d \in Children \ {c} : ~Thrown(d)
  BY DEF ThrownToPlayers
<1>1. BallInv /\ CountInv /\ OwnInv /\ SolInv /\ version \in Versions
  BY DEF IInv, TypeOK, ParentTypes
<1>2. c = current_player /\ Listens
  BY <1>1 DEF BallInv, HasBall, Unheard
<1>3. c \in playing
  BY <1>1, <1>2 DEF CountInv, Over, Listens
<1>4. InGame(c)
  BY <1>1, <1>2, <1>3 DEF InGame, OwnInv, SolInv, Versions
<1>5. \A d \in Children \ {c} : ~Thrown(d)
  BY <1>1, <1>2 DEF BallInv, HasBall
<1>6. QED
  BY <1>2, <1>3, <1>4, <1>5

\* Where a child's steps find and leave its handler of that kind.
LEMMA AnswerMoves ==
  ASSUME TypeOK, StackInv, NEW c \in Children, Answer(c)
  PROVE  /\ Moves(c, "USR2", {"end"}) /\ Decided(c)
         /\ \/ HasFrame(c, "USR2", "caught") /\ ppending' = ppending \cup {"USR1"}
            \/ HasFrame(c, "USR2", "missed") /\ ppending' = ppending \cup {"USR2"}
<1>1. PICK at : /\ Running(c, "USR2", at)
                /\ \/ at = "caught" /\ ppending' = ppending \cup {"USR1"}
                   \/ at = "missed" /\ ppending' = ppending \cup {"USR2"}
  BY DEF Answer
<1>2. HasFrame(c, "USR2", at)
  BY <1>1, OnTop DEF TypeOK
<1>3. Goto(c, "end") /\ [sig |-> "USR2", at |-> "end"] \in ChildFrame
  BY DEF Answer, ChildFrame
<1>4. Moves(c, "USR2", {"end"})
  BY <1>1, <1>3, GotoMoves DEF TypeOK
<1>5. QED
  BY <1>1, <1>2, <1>4 DEF Decided

\* The row is passed on.
LEMMA ForwardMoves ==
  ASSUME TypeOK, StackInv, NEW c \in Children, Forward(c)
  PROVE  Moves(c, "USR1", {"end"}) /\ HasFrame(c, "USR1", "forward")
<1>1. Running(c, "USR1", "forward") /\ Goto(c, "end")
  BY DEF Forward
<1>2. [sig |-> "USR1", at |-> "end"] \in ChildFrame
  BY DEF ChildFrame
<1>3. QED
  BY <1>1, <1>2, GotoMoves, OnTop DEF TypeOK

\* A handler ends, and last_action with it in child.c.
LEMMA EndMoves ==
  ASSUME TypeOK, StackInv, NEW c \in Children, EndOfHandler(c)
  PROVE  \E sig \in {"USR1", "USR2"} :
           /\ Moves(c, sig, {}) /\ HasFrame(c, sig, "end")
           /\ last_action' = IF version = "own" /\ sig = "USR1"
                             THEN [last_action EXCEPT ![c] = "PLAYING"] ELSE last_action
<1>1. PICK sig \in {"USR1", "USR2"} : Running(c, sig, "end")
  BY DEF EndOfHandler
<1>2. Head(handlers[c]) = [sig |-> sig, at |-> "end"] /\ HasFrame(c, sig, "end")
  BY <1>1, OnTop DEF TypeOK
<1>3. Moves(c, sig, {})
  BY <1>1, LeaveMoves DEF TypeOK, EndOfHandler
<1>4. QED
  BY <1>2, <1>3 DEF EndOfHandler

\* A column is printed.
LEMMA PrintMoves ==
  ASSUME TypeOK, StackInv, NEW c \in Children, PrintColumn(c) \/ printstate(c)
  PROVE  Moves(c, "USR1", {"forward"}) /\ HasFrame(c, "USR1", "begin")
<1>1. Running(c, "USR1", "begin") /\ Goto(c, "forward")
  BY DEF PrintColumn, printstate
<1>2. [sig |-> "USR1", at |-> "forward"] \in ChildFrame
  BY DEF ChildFrame
<1>3. QED
  BY <1>1, <1>2, GotoMoves, OnTop DEF TypeOK

\* The ball finds a child that plays: it is caught or missed.
LEMMA CatchMoves ==
  ASSUME IInv, NEW c \in Children, Catch(c) \/ receiveball(c)
  PROVE  /\ HasFrame(c, "USR2", "begin") /\ Thrown(c)
         /\ \/ /\ Moves(c, "USR2", {"caught"})
               /\ last_action' = IF version = "own" THEN [last_action EXCEPT ![c] = "CATCHMADE"]
                                                    ELSE last_action
               /\ state' = IF version = "sol" THEN [state EXCEPT ![c] = "HAVEBALL"] ELSE state
            \/ /\ Moves(c, "USR2", {"missed"})
               /\ last_action' = IF version = "own" THEN [last_action EXCEPT ![c] = "CATCHMISSED"]
                                                    ELSE last_action
               /\ state' = IF version = "sol" THEN [state EXCEPT ![c] = "BALLMISSED"] ELSE state
<1>0. TypeOK /\ ChildTypes /\ StackInv
  BY DEF IInv, TypeOK
<1>1. Running(c, "USR2", "begin")
  BY DEF Catch, receiveball
<1>2. HasFrame(c, "USR2", "begin")
  BY <1>0, <1>1, OnTop
<1>3. Thrown(c)
  BY <1>2 DEF Thrown, HasFrame
<1>4. InGame(c)
  BY <1>3, ImpliesThrownToPlayers DEF ThrownToPlayers
<1>5. /\ [sig |-> "USR2", at |-> "caught"] \in ChildFrame
      /\ [sig |-> "USR2", at |-> "missed"] \in ChildFrame
  BY DEF ChildFrame
<1>6. /\ Goto(c, "caught") => Moves(c, "USR2", {"caught"})
      /\ Goto(c, "missed") => Moves(c, "USR2", {"missed"})
  BY <1>0, <1>1, <1>5, GotoMoves
<1>7. CASE Catch(c)
  BY <1>2, <1>3, <1>4, <1>6, <1>7 DEF Catch, InGame
<1>8. CASE receiveball(c)
  BY <1>2, <1>3, <1>4, <1>6, <1>8 DEF receiveball, InGame
<1>9. QED
  BY <1>7, <1>8

\* SIGINT is handled.
LEMMA ExitsMove ==
  ASSUME TypeOK, StackInv, NEW c \in Children, Stop(c) \/ endgame_child(c)
  PROVE  /\ handlers' \in [Children -> Seq(ChildFrame)]
         /\ \A d \in Children : OncePerSignal(handlers'[d])
         /\ \A d \in Children : \A s, a : HasFrame(d, s, a)' <=> d # c /\ HasFrame(d, s, a)
         /\ HasFrame(c, "INT", "begin")
<1>1. Running(c, "INT", "begin") /\ handlers' = [handlers EXCEPT ![c] = <<>>]
  BY DEF Stop, endgame_child, Exit
<1>2. QED
  BY <1>1, ExitMoves, OnTop DEF TypeOK

\* Every step of a child keeps the types, the stacks and the parent.
LEMMA ChildKeepsTypes ==
  ASSUME IInv, NEW c \in Children, Child(c)
  PROVE  /\ TypeOK' /\ StackInv' /\ Phase' = Phase
         /\ UNCHANGED <<version, parent>>
<1>0. TypeOK /\ ParentTypes /\ ChildTypes /\ StackInv
  BY DEF IInv, TypeOK
<1>1. UNCHANGED <<version, parent>>
  BY DEF Child, Deliver, Answer, Forward, EndOfHandler, Catch, PrintColumn, Stop, receiveball,
         printstate, endgame_child, Exit
<1>2. Phase' = Phase
  BY <1>1 DEF Phase, parent
<1>3. /\ handlers' \in [Children -> Seq(ChildFrame)]
      /\ \A d \in Children : OncePerSignal(handlers'[d])
  <2>1. CASE Deliver(c)
    BY <1>0, <2>1, DeliverMoves DEF Moves
  <2>2. CASE Answer(c)
    BY <1>0, <2>2, AnswerMoves DEF Moves
  <2>3. CASE Forward(c)
    BY <1>0, <2>3, ForwardMoves DEF Moves
  <2>4. CASE EndOfHandler(c)
    BY <1>0, <2>4, EndMoves DEF Moves
  <2>5. CASE Catch(c) \/ receiveball(c)
    BY <2>5, CatchMoves DEF Moves
  <2>6. CASE PrintColumn(c) \/ printstate(c)
    BY <1>0, <2>6, PrintMoves DEF Moves
  <2>7. CASE Stop(c) \/ endgame_child(c)
    BY <1>0, <2>7, ExitsMove
  <2>8. QED
    BY <2>1, <2>2, <2>3, <2>4, <2>5, <2>6, <2>7 DEF Child
<1>4. StackInv'
  BY <1>0, <1>1, <1>3 DEF StackInv, parent
<1>5. ppending' \in SUBSET {"USR1", "USR2"} /\ dummy' \in {"none", "alive", "dead"}
  BY <1>0 DEF ParentTypes, Child, Deliver, Answer, Forward, EndOfHandler, Catch, PrintColumn, Stop,
         receiveball, printstate, endgame_child, Exit
<1>6. pending' \in [Children -> SUBSET Sigs]
  <2>1. CASE Deliver(c)
    BY <1>0, <2>1 DEF Deliver, ChildTypes
  <2>2. CASE Forward(c)
    <3>1. CASE Kill(c + 1, "USR1")
      <4>1. PICK d : d = c + 1
        OBVIOUS
      <4>2. pending' = [pending EXCEPT ![d] = @ \cup {"USR1"}] /\ "USR1" \in Sigs
        BY <3>1, <4>1 DEF Kill, Sigs
      <4>3. QED
        BY <1>0, <4>2 DEF ChildTypes
    <3>2. CASE UNCHANGED pending
      BY <1>0, <3>2 DEF ChildTypes
    <3>3. QED
      BY <2>2, <3>1, <3>2 DEF Forward
  <2>3. CASE UNCHANGED pending
    BY <1>0, <2>3 DEF ChildTypes
  <2>4. QED
    BY <2>1, <2>2, <2>3 DEF Child, Answer, EndOfHandler, Catch, PrintColumn, Stop,
         receiveball, printstate, endgame_child, Exit
<1>7. /\ is_playing' \in [Children -> BOOLEAN]
      /\ winners' \in SUBSET Children /\ gone' \in SUBSET Children
  BY <1>0 DEF ChildTypes, Child, Deliver, Answer, Forward, EndOfHandler, Catch, PrintColumn, Stop,
         receiveball, printstate, endgame_child, Exit, child
<1>8. last_action' \in [Children -> {"PLAYING", "CATCHMADE", "CATCHMISSED"}]
  BY <1>0 DEF ChildTypes, Child, Deliver, Answer, Forward, EndOfHandler, Catch, PrintColumn, Stop,
         receiveball, printstate, endgame_child, Exit, child
<1>9. state' \in [Children -> {"PLAYING", "HAVEBALL", "BALLMISSED", "OUTOFGAME"}]
  <2>1. CASE receiveball(c)
    BY <1>0, <2>1 DEF ChildTypes, receiveball
  <2>2. CASE printstate(c)
    BY <1>0, <2>2 DEF ChildTypes, printstate
  <2>3. CASE UNCHANGED state
    BY <1>0, <2>3 DEF ChildTypes
  <2>4. QED
    BY <2>1, <2>2, <2>3 DEF Child, Deliver, Answer, Forward, EndOfHandler, Catch, PrintColumn, Stop,
         endgame_child, Exit, child
<1>10. ParentTypes'
  BY <1>0, <1>1, <1>5 DEF ParentTypes, parent
<1>11. ChildTypes'
  BY <1>3, <1>6, <1>7, <1>8, <1>9 DEF ChildTypes
<1>12. QED
  BY <1>1, <1>2, <1>4, <1>10, <1>11 DEF TypeOK
-----------------------------------------------------------------------------
(* Steps of the children: the row.                                         *)

RowFacts ==
  ChildTypes =>
    /\ \A c \in Children : MayPrint(c) <=> \/ "USR1" \in pending[c]
                                           \/ HasFrame(c, "USR1", "begin")
                                           \/ HasFrame(c, "USR1", "forward")
    /\ \A c \in Children : PrintsRow(c) <=> \/ HasFrame(c, "USR1", "begin")
                                            \/ HasFrame(c, "USR1", "forward")
                                            \/ HasFrame(c, "USR1", "end")

\* MayPrintAt as a state formula, so that it can be primed.
LEMMA RowFactsNow == RowFacts
BY MayPrintAt DEF RowFacts

\* The same after the step.
LEMMA RowFactsNext == RowFacts'
BY RowFactsNow, PTL

\* MayPrintAt after the step.
LEMMA MayPrintNext ==
  ASSUME ChildTypes'
  PROVE  /\ \A c \in Children : MayPrint(c)' <=> \/ "USR1" \in pending'[c]
                                                 \/ HasFrame(c, "USR1", "begin")'
                                                 \/ HasFrame(c, "USR1", "forward")'
         /\ \A c \in Children : PrintsRow(c)' <=> \/ HasFrame(c, "USR1", "begin")'
                                                  \/ HasFrame(c, "USR1", "forward")'
                                                  \/ HasFrame(c, "USR1", "end")'
BY RowFactsNext DEF RowFacts

\* The right to print stays where it is, except when it is passed on.
LEMMA RightToPrint ==
  ASSUME IInv, NEW c \in Children, Child(c), ~Forward(c)
  PROVE  /\ dummy' = dummy
         /\ \A d \in Children : /\ MayPrint(d)' <=> MayPrint(d)
                                /\ "USR1" \in pending'[d] =>
                                     /\ ~HasFrame(d, "USR1", "begin")'
                                     /\ ~HasFrame(d, "USR1", "forward")'
                                /\ "USR1" \in pending'[d] => "USR1" \in pending[d]
<1>0. TypeOK /\ ChildTypes /\ StackInv /\ RowInv /\ ChildTypes'
  BY ChildKeepsTypes DEF IInv, TypeOK
<1>1. /\ \A d \in Children : MayPrint(d) <=> \/ "USR1" \in pending[d]
                                             \/ HasFrame(d, "USR1", "begin")
                                             \/ HasFrame(d, "USR1", "forward")
      /\ \A d \in Children : MayPrint(d)' <=> \/ "USR1" \in pending'[d]
                                              \/ HasFrame(d, "USR1", "begin")'
                                              \/ HasFrame(d, "USR1", "forward")'
  BY <1>0, MayPrintAt, MayPrintNext
<1>2. \A d \in Children : "USR1" \in pending[d] =>
         ~HasFrame(d, "USR1", "begin") /\ ~HasFrame(d, "USR1", "forward")
  BY <1>0 DEF RowInv
<1>3. pending \in [Children -> SUBSET Sigs]
  BY <1>0 DEF ChildTypes
<1>4. CASE Deliver(c)
  <2>1. PICK sig \in pending[c] : /\ Moves(c, sig, {"begin"}) /\ \A a : ~HasFrame(c, sig, a)
                                  /\ pending' = [pending EXCEPT ![c] = @ \ {sig}]
    BY <1>0, <1>4, DeliverMoves
  <2>2. dummy' = dummy
    BY <1>4 DEF Deliver
  <2>3. \A d \in Children : pending'[d] = IF d = c THEN pending[c] \ {sig} ELSE pending[d]
    BY <1>3, <2>1
  <2>4. \A d \in Children : \A a : HasFrame(d, "USR1", a)' <=>
           IF d = c /\ sig = "USR1" THEN a = "begin" ELSE HasFrame(d, "USR1", a)
    BY <2>1 DEF Moves
  <2>5. QED
    BY <1>1, <1>2, <2>1, <2>2, <2>3, <2>4
<1>5. CASE UNCHANGED <<pending, dummy>> /\ \E at : Moves(c, "USR2", at)
  <2>1. \A d \in Children : \A a : HasFrame(d, "USR1", a)' <=> HasFrame(d, "USR1", a)
    BY <1>5 DEF Moves
  <2>2. QED
    BY <1>1, <1>2, <1>5, <2>1
<1>6. CASE EndOfHandler(c)
  <2>1. UNCHANGED <<pending, dummy>>
    BY <1>6 DEF EndOfHandler
  <2>2. PICK sig : Moves(c, sig, {}) /\ HasFrame(c, sig, "end")
    BY <1>0, <1>6, EndMoves
  <2>3. \A d \in Children : \A a : HasFrame(d, "USR1", a)' <=>
           HasFrame(d, "USR1", a) /\ ~(d = c /\ sig = "USR1")
    BY <2>2 DEF Moves
  <2>4. sig = "USR1" => ~HasFrame(c, "USR1", "begin") /\ ~HasFrame(c, "USR1", "forward")
    BY <1>0, <2>2, SameSignal
  <2>5. QED
    BY <1>1, <1>2, <2>1, <2>3, <2>4
<1>7. CASE PrintColumn(c) \/ printstate(c)
  <2>1. UNCHANGED <<pending, dummy>>
    BY <1>7 DEF PrintColumn, printstate
  <2>2. Moves(c, "USR1", {"forward"}) /\ HasFrame(c, "USR1", "begin")
    BY <1>0, <1>7, PrintMoves
  <2>3. \A d \in Children : \A a : HasFrame(d, "USR1", a)' <=>
           IF d = c THEN a = "forward" ELSE HasFrame(d, "USR1", a)
    BY <2>2 DEF Moves
  <2>4. QED
    BY <1>1, <1>2, <2>1, <2>2, <2>3
<1>8. CASE Stop(c) \/ endgame_child(c)
  <2>1. UNCHANGED <<pending, dummy>>
    BY <1>8 DEF Stop, endgame_child, Exit
  <2>2. /\ \A d \in Children : \A a : HasFrame(d, "USR1", a)' <=> d # c /\ HasFrame(d, "USR1", a)
        /\ HasFrame(c, "INT", "begin")
    BY <1>0, <1>8, ExitsMove
  <2>3. Over
    BY <1>0, <2>2 DEF RowInv, Stopped
  <2>4. \A d \in Children : ~MayPrint(d)
    BY <1>0, <2>3 DEF RowInv, Over
  <2>5. QED
    BY <1>1, <1>2, <2>1, <2>2, <2>4
<1>9. QED
  <2>1. Answer(c) => UNCHANGED <<pending, dummy>> /\ \E at : Moves(c, "USR2", at)
    BY <1>0, AnswerMoves DEF Answer
  <2>2. Catch(c) \/ receiveball(c) => UNCHANGED <<pending, dummy>> /\ \E at : Moves(c, "USR2", at)
    BY CatchMoves DEF Catch, receiveball
  <2>3. QED
    BY <1>4, <1>5, <1>6, <1>7, <1>8, <2>1, <2>2 DEF Child

\* It is passed on to the next child, and in the end to nobody.
LEMMA RightPassedOn ==
  ASSUME IInv, NEW c \in Children, Forward(c)
  PROVE  /\ dummy = "alive" /\ dummy' = IF c < n - 1 THEN "alive" ELSE "dead"
         /\ \A d \in Children : /\ MayPrint(d) <=> d = c
                                /\ MayPrint(d)' <=> d = c + 1
                                /\ "USR1" \in pending'[d] <=> d = c + 1
                                /\ "USR1" \notin pending[d]
                                /\ ~HasFrame(d, "USR1", "begin")'
                                /\ ~HasFrame(d, "USR1", "forward")'
                                /\ ~HasFrame(d, "USR1", "begin")
         /\ HasFrame(c, "USR1", "forward")
<1>0. TypeOK /\ ChildTypes /\ StackInv /\ RowInv /\ ChildTypes'
  BY ChildKeepsTypes DEF IInv, TypeOK, Child
<1>1. /\ \A d \in Children : MayPrint(d) <=> \/ "USR1" \in pending[d]
                                             \/ HasFrame(d, "USR1", "begin")
                                             \/ HasFrame(d, "USR1", "forward")
      /\ \A d \in Children : MayPrint(d)' <=> \/ "USR1" \in pending'[d]
                                              \/ HasFrame(d, "USR1", "begin")'
                                              \/ HasFrame(d, "USR1", "forward")'
  BY <1>0, MayPrintAt, MayPrintNext
<1>2. Moves(c, "USR1", {"end"}) /\ HasFrame(c, "USR1", "forward")
  BY <1>0, ForwardMoves
<1>3. dummy = "alive" /\ \A d \in Children : MayPrint(d) <=> d = c
  BY <1>0, <1>1, <1>2 DEF RowInv
<1>4. \A d \in Children : \A a : HasFrame(d, "USR1", a)' <=>
         IF d = c THEN a = "end" ELSE HasFrame(d, "USR1", a)
  BY <1>2 DEF Moves
<1>5. ~HasFrame(c, "USR1", "begin") /\ "USR1" \notin pending[c]
  BY <1>0, <1>2, SameSignal DEF RowInv
<1>6. pending \in [Children -> SUBSET Sigs] /\ c \in 0 .. n - 1
  BY <1>0 DEF ChildTypes, Children
<1>7. /\ dummy' = IF c < n - 1 THEN "alive" ELSE "dead"
      /\ \A d \in Children : "USR1" \in pending'[d] <=> d = c + 1
  <2>1. \A d \in Children : "USR1" \notin pending[d]
    BY <1>1, <1>3, <1>5
  <2>2. CASE c < n - 1
    <3>1. PICK e \in Children : e = c + 1
      BY <1>6, <2>2, Size DEF Children
    <3>2. pending' = [pending EXCEPT ![e] = @ \cup {"USR1"}] /\ dummy' = dummy
      BY <2>2, <3>1 DEF Forward, Kill
    <3>3. \A d \in Children : pending'[d] = IF d = e THEN pending[e] \cup {"USR1"} ELSE pending[d]
      BY <1>6, <3>2
    <3>4. QED
      BY <1>3, <2>1, <2>2, <3>1, <3>2, <3>3
  <2>3. CASE ~(c < n - 1)
    <3>1. \A d \in Children : d # c + 1
      BY <1>6, <2>3, Size DEF Children
    <3>2. UNCHANGED pending /\ dummy' = "dead"
      BY <2>3 DEF Forward
    <3>3. QED
      BY <2>1, <2>3, <3>1, <3>2
  <2>4. QED
    BY <2>2, <2>3
<1>8. c + 1 # c
  BY <1>6
<1>9. QED
  BY <1>1, <1>2, <1>3, <1>4, <1>5, <1>7, <1>8

\* Every step of a child keeps RowInv.
LEMMA ChildKeepsRow ==
  ASSUME IInv, NEW c \in Children, Child(c)
  PROVE  RowInv'
<1>0. TypeOK /\ ChildTypes /\ StackInv /\ RowInv /\ Phase' = Phase
  BY ChildKeepsTypes DEF IInv, TypeOK
<1>1. Over' <=> Over
  BY <1>0 DEF Over
<1>2. ASSUME NEW d \in Children, Stopped(d)' PROVE Over
  <2>1. \A e \in Children : Stopped(e) => Over
    BY <1>0 DEF RowInv
  <2>2. pending \in [Children -> SUBSET Sigs]
    BY <1>0 DEF ChildTypes
  <2>3. CASE Deliver(c)
    <3>1. PICK sig \in pending[c] : /\ Moves(c, sig, {"begin"})
                                    /\ pending' = [pending EXCEPT ![c] = @ \ {sig}]
      BY <1>0, <2>3, DeliverMoves
    <3>2. HasFrame(d, "INT", "begin")' => HasFrame(d, "INT", "begin") \/ (d = c /\ sig = "INT")
      BY <3>1 DEF Moves
    <3>3. "INT" \in pending'[d] => "INT" \in pending[d]
      BY <2>2, <3>1
    <3>4. gone' = gone
      BY <2>3 DEF Deliver, child
    <3>5. QED
      BY <1>2, <2>1, <3>2, <3>3, <3>4 DEF Stopped
  <2>4. CASE Stop(c) \/ endgame_child(c)
    <3>1. HasFrame(c, "INT", "begin")
      BY <1>0, <2>4, ExitsMove
    <3>2. QED
      BY <2>1, <3>1 DEF Stopped
  <2>5. CASE /\ gone' = gone /\ ("INT" \in pending'[d] => "INT" \in pending[d])
             /\ \E sig \in {"USR1", "USR2"} : \E at : Moves(c, sig, at)
    <3>1. HasFrame(d, "INT", "begin")' => HasFrame(d, "INT", "begin")
      BY <2>5 DEF Moves
    <3>2. QED
      BY <1>2, <2>1, <2>5, <3>1 DEF Stopped
  <2>6. Answer(c) => UNCHANGED <<gone, pending>> /\ \E at : Moves(c, "USR2", at)
    BY <1>0, AnswerMoves DEF Answer, child
  <2>7. Catch(c) \/ receiveball(c) => UNCHANGED <<gone, pending>> /\ \E at : Moves(c, "USR2", at)
    BY CatchMoves DEF Catch, receiveball
  <2>8. PrintColumn(c) \/ printstate(c) => UNCHANGED <<gone, pending>> /\ \E at : Moves(c, "USR1", at)
    BY <1>0, PrintMoves DEF PrintColumn, printstate
  <2>9. EndOfHandler(c) => /\ UNCHANGED <<gone, pending>>
                           /\ \E sig \in {"USR1", "USR2"} : \E at : Moves(c, sig, at)
    BY <1>0, EndMoves DEF EndOfHandler
  <2>10. Forward(c) => /\ gone' = gone /\ ("INT" \in pending'[d] => "INT" \in pending[d])
                       /\ \E at : Moves(c, "USR1", at)
    <3>1. Forward(c) => gone' = gone /\ (pending' = pending \/ Kill(c + 1, "USR1"))
      BY DEF Forward, child
    <3>2. Kill(c + 1, "USR1") => ("INT" \in pending'[d] => "INT" \in pending[d])
      BY <2>2 DEF Kill
    <3>3. QED
      BY <1>0, <3>1, <3>2, ForwardMoves
  <2>11. QED
    BY <2>3, <2>4, <2>5, <2>6, <2>7, <2>8, <2>9, <2>10 DEF Child
<1>3. CASE ~Forward(c)
  BY <1>0, <1>1, <1>2, <1>3, RightToPrint DEF RowInv
<1>4. CASE Forward(c)
  <2>1. c < n - 1 => c + 1 \in Children
    BY Size DEF Children
  <2>2. c \in Children /\ (~(c < n - 1) => c + 1 \notin Children)
    BY Size DEF Children
  <2>3. QED
    BY <1>0, <1>1, <1>2, <1>4, <2>1, <2>2, RightPassedOn DEF RowInv
<1>5. QED
  BY <1>3, <1>4
-----------------------------------------------------------------------------
(* Steps of the children: the ball.                                        *)

Unique(d) == "USR2" \in pending[d] => ~HasFrame(d, "USR2", "begin") /\ ~Decided(d)

\* Thrown, frame by frame.
LEMMA ThrownAt ==
  /\ \A d : Thrown(d) <=> "USR2" \in pending[d] \/ HasFrame(d, "USR2", "begin")
  /\ \A d : Thrown(d)' <=> "USR2" \in pending'[d] \/ HasFrame(d, "USR2", "begin")'
BY DEF Thrown, HasFrame

\* Most steps leave it where it is; some leave no ball where there is none.
LEMMA BallStays ==
  ASSUME IInv, NEW c \in Children, Child(c), ~Answer(c), ~Catch(c), ~receiveball(c)
  PROVE  /\ ppending' = ppending
         /\ \A d \in Children : /\ Thrown(d)' <=> Thrown(d)
                                /\ HasFrame(d, "USR2", "caught")' <=> HasFrame(d, "USR2", "caught")
                                /\ HasFrame(d, "USR2", "missed")' <=> HasFrame(d, "USR2", "missed")
                                /\ Unique(d)'
<1>0. TypeOK /\ ChildTypes /\ StackInv /\ BallInv /\ RowInv
  BY DEF IInv, TypeOK
<1>1. pending \in [Children -> SUBSET Sigs]
  BY <1>0 DEF ChildTypes
<1>2. \A d \in Children : Unique(d)
  BY <1>0 DEF BallInv, Unique
<1>3. ppending' = ppending
  BY DEF Child, Deliver, Forward, EndOfHandler, PrintColumn, Stop, printstate, endgame_child, Exit
<1>4. CASE Deliver(c)
  <2>1. PICK sig \in pending[c] : /\ Moves(c, sig, {"begin"}) /\ \A a : ~HasFrame(c, sig, a)
                                  /\ pending' = [pending EXCEPT ![c] = @ \ {sig}]
    BY <1>0, <1>4, DeliverMoves
  <2>2. \A d \in Children : pending'[d] = IF d = c THEN pending[c] \ {sig} ELSE pending[d]
    BY <1>1, <2>1
  <2>3. \A d \in Children : \A a : HasFrame(d, "USR2", a)' <=>
           IF d = c /\ sig = "USR2" THEN a = "begin" ELSE HasFrame(d, "USR2", a)
    BY <2>1 DEF Moves
  <2>4. QED
    BY <1>2, <1>3, <2>1, <2>2, <2>3, ThrownAt DEF Unique, Decided
<1>5. CASE /\ \A d \in Children : "USR2" \in pending'[d] <=> "USR2" \in pending[d]
           /\ \E at : Moves(c, "USR1", at)
  <2>1. \A d \in Children : \A a : HasFrame(d, "USR2", a)' <=> HasFrame(d, "USR2", a)
    BY <1>5 DEF Moves
  <2>2. QED
    BY <1>2, <1>3, <1>5, <2>1, ThrownAt DEF Unique, Decided
<1>6. CASE EndOfHandler(c)
  <2>1. PICK sig : Moves(c, sig, {}) /\ HasFrame(c, sig, "end")
    BY <1>0, <1>6, EndMoves
  <2>2. \A d \in Children : \A a : HasFrame(d, "USR2", a)' <=>
           HasFrame(d, "USR2", a) /\ ~(d = c /\ sig = "USR2")
    BY <2>1 DEF Moves
  <2>3. sig = "USR2" => /\ ~HasFrame(c, "USR2", "begin")
                        /\ ~HasFrame(c, "USR2", "caught") /\ ~HasFrame(c, "USR2", "missed")
    BY <1>0, <2>1, SameSignal
  <2>4. pending' = pending
    BY <1>6 DEF EndOfHandler
  <2>5. QED
    BY <1>2, <1>3, <2>2, <2>3, <2>4, ThrownAt DEF Unique, Decided
<1>7. CASE Stop(c) \/ endgame_child(c)
  <2>1. /\ \A d \in Children : \A a : HasFrame(d, "USR2", a)' <=> d # c /\ HasFrame(d, "USR2", a)
        /\ HasFrame(c, "INT", "begin")
    BY <1>0, <1>7, ExitsMove
  <2>2. Over
    BY <1>0, <2>1 DEF RowInv, Stopped
  <2>3. \A d \in Children : ~Thrown(d) /\ ~Decided(d)
    BY <1>0, <2>2 DEF BallInv, HasBall, Unheard, Listens, Over
  <2>4. pending' = pending
    BY <1>7 DEF Stop, endgame_child, Exit
  <2>5. QED
    BY <1>3, <2>1, <2>3, <2>4, ThrownAt DEF Unique, Decided
<1>8. PrintColumn(c) \/ printstate(c) => pending' = pending /\ \E at : Moves(c, "USR1", at)
  BY <1>0, PrintMoves DEF PrintColumn, printstate
<1>9. Forward(c) => /\ \A d \in Children : "USR2" \in pending'[d] <=> "USR2" \in pending[d]
                    /\ \E at : Moves(c, "USR1", at)
  <2>1. Forward(c) => pending' = pending \/ Kill(c + 1, "USR1")
    BY DEF Forward
  <2>2. Kill(c + 1, "USR1") => \A d \in Children : "USR2" \in pending'[d] <=> "USR2" \in pending[d]
    BY <1>1 DEF Kill
  <2>3. QED
    BY <1>0, <2>1, <2>2, ForwardMoves
<1>10. QED
  BY <1>4, <1>5, <1>6, <1>7, <1>8, <1>9 DEF Child

\* The ball arrives.
LEMMA BallArrives ==
  ASSUME IInv, NEW c \in Children, Catch(c) \/ receiveball(c)
  PROVE  /\ ppending' = ppending /\ Thrown(c) /\ Unheard /\ c = current_player /\ c \in playing
         /\ \A d \in Children : /\ ~Thrown(d)' /\ Unique(d)'
                                /\ d # c => ~HasBall(d) /\ ~HasBall(d)'
         /\ \/ /\ HasFrame(c, "USR2", "caught")' /\ ~HasFrame(c, "USR2", "missed")'
               /\ last_action' = IF version = "own" THEN [last_action EXCEPT ![c] = "CATCHMADE"]
                                                    ELSE last_action
               /\ state' = IF version = "sol" THEN [state EXCEPT ![c] = "HAVEBALL"] ELSE state
            \/ /\ HasFrame(c, "USR2", "missed")' /\ ~HasFrame(c, "USR2", "caught")'
               /\ last_action' = IF version = "own" THEN [last_action EXCEPT ![c] = "CATCHMISSED"]
                                                    ELSE last_action
               /\ state' = IF version = "sol" THEN [state EXCEPT ![c] = "BALLMISSED"] ELSE state
<1>0. TypeOK /\ ChildTypes /\ StackInv /\ BallInv
  BY DEF IInv, TypeOK
<1>1. ppending' = ppending /\ pending' = pending
  BY DEF Catch, receiveball
<1>2. HasFrame(c, "USR2", "begin") /\ Thrown(c) /\ HasBall(c)
  BY CatchMoves DEF HasBall
<1>3. Unheard /\ c = current_player
  BY <1>0, <1>2 DEF BallInv
<1>4. \A d \in Children \ {c} : ~HasBall(d)
  BY <1>0, <1>3 DEF BallInv
<1>5. c \in playing
  BY <1>2, ImpliesThrownToPlayers DEF ThrownToPlayers
<1>6. "USR2" \notin pending[c]
  BY <1>0, <1>2 DEF BallInv
<1>7. ASSUME NEW at \in {"caught", "missed"}, Moves(c, "USR2", {at})
      PROVE  /\ \A d \in Children : ~Thrown(d)' /\ Unique(d)' /\ (d # c => ~HasBall(d)')
             /\ \A a : HasFrame(c, "USR2", a)' <=> a = at
  <2>1. \A d \in Children : \A a : HasFrame(d, "USR2", a)' <=>
           IF d = c THEN a = at ELSE HasFrame(d, "USR2", a)
    BY <1>7 DEF Moves
  <2>2. QED
    BY <1>1, <1>4, <1>6, <2>1, ThrownAt DEF Unique, Decided, HasBall
<1>8. QED
  BY <1>1, <1>2, <1>3, <1>4, <1>5, <1>7, CatchMoves

\* The answer goes to the parent.
LEMMA BallAnswered ==
  ASSUME IInv, NEW c \in Children, Answer(c)
  PROVE  /\ HasBall(c) /\ ~Thrown(c) /\ Unheard /\ c = current_player /\ c \in playing
         /\ ppending = {} /\ \A d \in Children : ~HasBall(d)' /\ Unique(d)'
         /\ \/ HasFrame(c, "USR2", "caught") /\ ppending' = {"USR1"}
            \/ HasFrame(c, "USR2", "missed") /\ ppending' = {"USR2"}
<1>0. TypeOK /\ ChildTypes /\ StackInv /\ BallInv /\ CountInv
  BY DEF IInv, TypeOK
<1>1. pending' = pending
  BY DEF Answer
<1>2. Moves(c, "USR2", {"end"}) /\ Decided(c) /\ HasBall(c)
  BY <1>0, AnswerMoves DEF HasBall
<1>3. Unheard /\ c = current_player /\ ppending = {}
  BY <1>0, <1>2 DEF BallInv
<1>4. \A d \in Children \ {c} : ~HasBall(d)
  BY <1>0, <1>3 DEF BallInv
<1>5. c \in playing
  BY <1>0, <1>3 DEF CountInv, Unheard, Listens, Over
<1>6. "USR2" \notin pending[c]
  BY <1>0, <1>2 DEF BallInv
<1>7. \A d \in Children : \A a : HasFrame(d, "USR2", a)' <=>
         IF d = c THEN a = "end" ELSE HasFrame(d, "USR2", a)
  BY <1>2 DEF Moves
<1>8. \A d \in Children : ~HasBall(d)' /\ Unique(d)'
  BY <1>1, <1>4, <1>6, <1>7, ThrownAt DEF Unique, Decided, HasBall
<1>9. ~Thrown(c)
  BY <1>0, <1>2, <1>6, SameSignal, ThrownAt DEF Decided
<1>10. \/ HasFrame(c, "USR2", "caught") /\ ppending' = {"USR1"}
       \/ HasFrame(c, "USR2", "missed") /\ ppending' = {"USR2"}
  BY <1>0, <1>3, AnswerMoves
<1>11. QED
  BY <1>2, <1>3, <1>5, <1>8, <1>9, <1>10

\* Every step of a child keeps BallInv, and the parent's books.
LEMMA ChildKeepsBall ==
  ASSUME IInv, NEW c \in Children, Child(c)
  PROVE  BallInv' /\ CountInv'
<1>0. BallInv /\ CountInv /\ Phase' = Phase /\ UNCHANGED <<version, parent>>
  BY ChildKeepsTypes DEF IInv
<1>1. (Unheard' <=> Unheard) /\ (Over' <=> Over)
  BY <1>0 DEF Unheard, Listens, Over, parent
<1>2. CountInv'
  BY <1>0, <1>1 DEF CountInv, parent
<1>3. current_player' = current_player /\ received_signal' = received_signal
  BY <1>0 DEF parent
<1>4. \A d \in Children : Unique(d)'
  BY BallStays, BallArrives, BallAnswered
<1>5. \A d \in Children : HasBall(d)' => Unheard' /\ d = current_player' /\ ppending' = {}
  <2>1. CASE Answer(c)
    BY <2>1, BallAnswered
  <2>2. CASE Catch(c) \/ receiveball(c)
    <3>1. ppending' = {}
      BY <1>0, <2>2, BallArrives DEF BallInv, HasBall
    <3>2. QED
      BY <1>1, <1>3, <2>2, <3>1, BallArrives
  <2>3. CASE ~Answer(c) /\ ~Catch(c) /\ ~receiveball(c)
    <3>1. \A d \in Children : HasBall(d)' => HasBall(d)
      BY <2>3, BallStays DEF HasBall, Decided
    <3>2. \A d \in Children : HasBall(d) => Unheard /\ d = current_player /\ ppending = {}
      BY <1>0 DEF BallInv
    <3>3. QED
      BY <1>1, <1>3, <2>3, <3>1, <3>2, BallStays
  <2>4. QED
    BY <2>1, <2>2, <2>3
<1>6. ppending' # {} => Unheard' /\ \E sig \in {"USR1", "USR2"} : ppending' = {sig}
  <2>1. ppending # {} => Unheard /\ \E sig \in {"USR1", "USR2"} : ppending = {sig}
    BY <1>0 DEF BallInv
  <2>2. CASE Answer(c)
    BY <1>1, <2>2, BallAnswered
  <2>3. CASE ~Answer(c)
    <3>1. ppending' = ppending
      BY <2>3, BallStays, BallArrives
    <3>2. QED
      BY <1>1, <2>1, <3>1
  <2>4. QED
    BY <2>2, <2>3
<1>7. \A d \in Children : "USR2" \in pending'[d] => ~HasFrame(d, "USR2", "begin")' /\ ~Decided(d)'
  BY <1>4 DEF Unique
<1>8. Phase' = "advance" => received_signal' # "none"
  BY <1>0, <1>3 DEF BallInv
<1>9. BallInv'
  BY <1>5, <1>6, <1>7, <1>8 DEF BallInv
<1>10. QED
  BY <1>2, <1>9
-----------------------------------------------------------------------------
(* Steps of the children: what they remember.                              *)

Prints(c) == PrintColumn(c) \/ printstate(c)

\* The row comes nearer, and passes a child when it prints.
LEMMA RowMoves ==
  ASSUME IInv, NEW c \in Children, Child(c)
  PROVE  /\ \A x \in Children : ~(Prints(c) /\ x = c) => (RowAhead(x)' <=> RowAhead(x))
         /\ Prints(c) => Phase = "wait" /\ RowAhead(c) /\ ~RowAhead(c)' /\ PrintsRow(c)'
         /\ \A x \in Children : Before(x) => Before(x)' \/ ~PrintsRow(x)
<1>0. TypeOK /\ ChildTypes /\ StackInv /\ RowInv /\ Phase' = Phase /\ ChildTypes'
  BY ChildKeepsTypes DEF IInv, TypeOK
<1>1. pending \in [Children -> SUBSET Sigs]
  BY <1>0 DEF ChildTypes
<1>2. \A d, e \in Children : MayPrint(d) /\ MayPrint(e) => d = e
  BY <1>0 DEF RowInv
<1>3. \A d \in Children : /\ "USR1" \in pending[d] => MayPrint(d)
                          /\ HasFrame(d, "USR1", "begin") => MayPrint(d)
  BY <1>0, MayPrintAt
<1>4. CASE Forward(c)
  <2>1. ~Prints(c)
    <3>1. HasFrame(c, "USR1", "forward") /\ (Prints(c) => HasFrame(c, "USR1", "begin"))
      BY <1>0, <1>4, ForwardMoves, PrintMoves DEF Prints
    <3>2. QED
      BY <1>0, <3>1, SameSignal
  <2>2. ASSUME NEW x \in Children PROVE Before(x)' <=> Before(x)
    <3>1. x \in Int /\ c \in Int
      BY DEF Children
    <3>2. Before(x) <=> c < x
      BY <1>4, RightPassedOn DEF Before
    <3>3. Before(x)' <=> (\E d \in Children : d < x /\ d = c + 1) \/ x = c + 1
      BY <1>4, RightPassedOn DEF Before
    <3>4. c + 1 < x => c + 1 \in Children
      BY <3>1, Size DEF Children
    <3>5. QED
      BY <3>1, <3>2, <3>3, <3>4
  <2>3. \A x \in Children : ~HasFrame(x, "USR1", "begin") /\ ~HasFrame(x, "USR1", "begin")'
    BY <1>4, RightPassedOn
  <2>4. QED
    BY <1>0, <2>1, <2>2, <2>3 DEF RowAhead
<1>5. CASE Deliver(c)
  <2>1. PICK sig \in pending[c] : /\ Moves(c, sig, {"begin"}) /\ \A a : ~HasFrame(c, sig, a)
                                  /\ pending' = [pending EXCEPT ![c] = @ \ {sig}]
    BY <1>0, <1>5, DeliverMoves
  <2>2. \A d \in Children : pending'[d] = IF d = c THEN pending[c] \ {sig} ELSE pending[d]
    BY <1>1, <2>1
  <2>3. \A d \in Children : \A a : HasFrame(d, "USR1", a)' <=>
           IF d = c /\ sig = "USR1" THEN a = "begin" ELSE HasFrame(d, "USR1", a)
    BY <2>1 DEF Moves
  <2>4. ~Forward(c) /\ ~Prints(c)
    <3>1. CASE Prints(c)
      <4>1. pending' = pending
        BY <3>1 DEF Prints, PrintColumn, printstate
      <4>2. QED
        BY <2>2, <4>1
    <3>2. CASE Forward(c)
      <4>1. pending' = pending \/ Kill(c + 1, "USR1")
        BY <3>2 DEF Forward
      <4>2. \A d \in Children : pending[d] \subseteq pending'[d]
        BY <1>1, <4>1 DEF Kill
      <4>3. QED
        BY <2>2, <4>2
    <3>3. QED
      BY <3>1, <3>2
  <2>5. \A d \in Children : MayPrint(d)' <=> MayPrint(d)
    BY <2>4, RightToPrint
  <2>6. ASSUME NEW x \in Children
        PROVE  /\ RowAhead(x)' <=> RowAhead(x)
               /\ Before(x) => Before(x)' \/ ~PrintsRow(x)
    <3>1. CASE x = c /\ sig = "USR1"
      <4>1. HasFrame(x, "USR1", "begin")' /\ "USR1" \in pending[x]
        BY <2>3, <3>1
      <4>2. Before(x)
        BY <4>1 DEF Before
      <4>3. ~PrintsRow(x)
        BY <1>0, <2>1, <3>1, MayPrintAt
      <4>4. QED
        BY <1>0, <4>1, <4>2, <4>3 DEF RowAhead
    <3>2. CASE ~(x = c /\ sig = "USR1")
      <4>1. "USR1" \in pending'[x] <=> "USR1" \in pending[x]
        BY <2>2, <3>2
      <4>2. Before(x)' <=> Before(x)
        BY <2>5, <4>1 DEF Before
      <4>3. HasFrame(x, "USR1", "begin")' <=> HasFrame(x, "USR1", "begin")
        BY <2>3, <3>2
      <4>4. QED
        BY <1>0, <4>2, <4>3 DEF RowAhead
    <3>3. QED
      BY <3>1, <3>2
  <2>7. QED
    BY <2>4, <2>6
<1>6. CASE Prints(c)
  <2>1. Moves(c, "USR1", {"forward"}) /\ HasFrame(c, "USR1", "begin") /\ pending' = pending
    BY <1>0, <1>6, PrintMoves DEF Prints, PrintColumn, printstate
  <2>2. \A d \in Children : \A a : HasFrame(d, "USR1", a)' <=>
           IF d = c THEN a = "forward" ELSE HasFrame(d, "USR1", a)
    BY <2>1 DEF Moves
  <2>3. ~Forward(c)
    BY <1>0, <2>1, ForwardMoves, SameSignal
  <2>4. \A d \in Children : MayPrint(d)' <=> MayPrint(d)
    BY <2>3, RightToPrint
  <2>5. \A x \in Children : Before(x)' <=> Before(x)
    BY <2>1, <2>4 DEF Before
  <2>6. MayPrint(c) /\ Phase = "wait"
    BY <1>0, <1>3, <2>1 DEF RowInv
  <2>7. ~Before(c)
    <3>1. c \in Int
      BY DEF Children
    <3>2. "USR1" \notin pending[c]
      BY <1>0, <2>1 DEF RowInv
    <3>3. \A d \in Children : d < c => d # c
      BY <3>1 DEF Children
    <3>4. QED
      BY <1>2, <2>6, <3>2, <3>3 DEF Before
  <2>8. PrintsRow(c)'
    BY <1>0, <2>2, MayPrintNext
  <2>9. RowAhead(c) /\ ~RowAhead(c)'
    BY <1>0, <2>1, <2>2, <2>5, <2>6, <2>7 DEF RowAhead
  <2>10. \A x \in Children : x # c => (RowAhead(x)' <=> RowAhead(x))
    BY <1>0, <2>2, <2>5 DEF RowAhead
  <2>11. QED
    BY <1>6, <2>5, <2>6, <2>8, <2>9, <2>10
<1>7. CASE /\ ~Forward(c) /\ ~Prints(c) /\ pending' = pending
           /\ \A d \in Children : HasFrame(d, "USR1", "begin")' <=> HasFrame(d, "USR1", "begin")
  <2>1. \A d \in Children : MayPrint(d)' <=> MayPrint(d)
    BY <1>7, RightToPrint
  <2>2. \A x \in Children : Before(x)' <=> Before(x)
    BY <1>7, <2>1 DEF Before
  <2>3. QED
    BY <1>0, <1>7, <2>2 DEF RowAhead
<1>8. Answer(c) \/ Catch(c) \/ receiveball(c) =>
         /\ pending' = pending
         /\ \A d \in Children : HasFrame(d, "USR1", "begin")' <=> HasFrame(d, "USR1", "begin")
  <2>1. Answer(c) \/ Catch(c) \/ receiveball(c) => pending' = pending /\ \E at : Moves(c, "USR2", at)
    BY <1>0, AnswerMoves, CatchMoves DEF Answer, Catch, receiveball
  <2>2. QED
    BY <2>1 DEF Moves
<1>9. EndOfHandler(c) =>
         /\ pending' = pending
         /\ \A d \in Children : HasFrame(d, "USR1", "begin")' <=> HasFrame(d, "USR1", "begin")
  <2>1. SUFFICES ASSUME EndOfHandler(c)
                 PROVE  \A d \in Children : HasFrame(d, "USR1", "begin")' <=> HasFrame(d, "USR1", "begin")
    BY DEF EndOfHandler
  <2>2. PICK sig : Moves(c, sig, {}) /\ HasFrame(c, sig, "end")
    BY <1>0, <2>1, EndMoves
  <2>3. sig = "USR1" => ~HasFrame(c, "USR1", "begin")
    BY <1>0, <2>2, SameSignal
  <2>4. QED
    BY <2>2, <2>3 DEF Moves
<1>10. Stop(c) \/ endgame_child(c) =>
         /\ pending' = pending
         /\ \A d \in Children : HasFrame(d, "USR1", "begin")' <=> HasFrame(d, "USR1", "begin")
  <2>1. SUFFICES ASSUME Stop(c) \/ endgame_child(c)
                 PROVE  \A d \in Children : HasFrame(d, "USR1", "begin")' <=> HasFrame(d, "USR1", "begin")
    BY DEF Stop, endgame_child, Exit
  <2>2. /\ \A d \in Children : HasFrame(d, "USR1", "begin")' <=> d # c /\ HasFrame(d, "USR1", "begin")
        /\ HasFrame(c, "INT", "begin")
    BY <1>0, <2>1, ExitsMove
  <2>3. Over
    BY <1>0, <2>2 DEF RowInv, Stopped
  <2>4. \A d \in Children : ~MayPrint(d)
    BY <1>0, <2>3 DEF RowInv, Over
  <2>5. QED
    BY <1>3, <2>2, <2>4
<1>11. QED
  BY <1>4, <1>5, <1>6, <1>7, <1>8, <1>9, <1>10 DEF Child, Prints
\* A print_row that began ends with a reset.
LEMMA PrintsUntilReset ==
  ASSUME IInv, NEW c \in Children, Child(c), version = "own"
  PROVE  \A x \in Children : PrintsRow(x) => PrintsRow(x)' \/ Over \/ last_action'[x] = "PLAYING"
<1>0. TypeOK /\ ChildTypes /\ StackInv /\ RowInv /\ ChildTypes'
  BY ChildKeepsTypes DEF IInv, TypeOK
<1>1. /\ \A x \in Children : PrintsRow(x) <=> \/ HasFrame(x, "USR1", "begin")
                                              \/ HasFrame(x, "USR1", "forward")
                                              \/ HasFrame(x, "USR1", "end")
      /\ \A x \in Children : PrintsRow(x)' <=> \/ HasFrame(x, "USR1", "begin")'
                                               \/ HasFrame(x, "USR1", "forward")'
                                               \/ HasFrame(x, "USR1", "end")'
  BY <1>0, MayPrintAt, MayPrintNext
<1>2. CASE Stop(c) \/ endgame_child(c)
  BY <1>0, <1>2, ExitsMove DEF RowInv, Stopped
<1>3. CASE EndOfHandler(c)
  <2>1. PICK sig \in {"USR1", "USR2"} :
          /\ Moves(c, sig, {})
          /\ last_action' = IF version = "own" /\ sig = "USR1"
                            THEN [last_action EXCEPT ![c] = "PLAYING"] ELSE last_action
    BY <1>0, <1>3, EndMoves
  <2>2. CASE sig = "USR1"
    <3>1. \A x \in Children : \A a : HasFrame(x, "USR1", a) /\ x # c => HasFrame(x, "USR1", a)'
      BY <2>1, <2>2 DEF Moves
    <3>2. last_action'[c] = "PLAYING"
      BY <1>0, <2>1, <2>2 DEF ChildTypes
    <3>3. QED
      BY <1>1, <3>1, <3>2
  <2>3. CASE sig = "USR2"
    <3>1. \A x \in Children : \A a : HasFrame(x, "USR1", a)' <=> HasFrame(x, "USR1", a)
      BY <2>1, <2>3 DEF Moves
    <3>2. QED
      BY <1>1, <3>1
  <2>4. QED
    BY <2>1, <2>2, <2>3
<1>4. CASE \E sig, at : Moves(c, sig, at) /\ (sig = "USR1" => at \in {{"begin"}, {"forward"}, {"end"}})
  <2>1. PICK sig, at : Moves(c, sig, at) /\ (sig = "USR1" => at \in {{"begin"}, {"forward"}, {"end"}})
    BY <1>4
  <2>2. CASE sig = "USR1"
    <3>1. \A x \in Children : \A a : HasFrame(x, "USR1", a)' <=>
             IF x = c THEN a \in at ELSE HasFrame(x, "USR1", a)
      BY <2>1, <2>2 DEF Moves
    <3>2. PICK a : a \in at /\ a \in {"begin", "forward", "end"}
      BY <2>1, <2>2
    <3>3. PrintsRow(c)'
      BY <1>1, <3>1, <3>2
    <3>4. QED
      BY <1>1, <3>1, <3>3
  <2>3. CASE sig # "USR1"
    <3>1. \A x \in Children : \A a : HasFrame(x, "USR1", a)' <=> HasFrame(x, "USR1", a)
      BY <2>1, <2>3 DEF Moves
    <3>2. QED
      BY <1>1, <3>1
  <2>4. QED
    BY <2>2, <2>3
<1>5. Deliver(c) => \E sig : Moves(c, sig, {"begin"})
  BY <1>0, DeliverMoves
<1>6. Answer(c) => Moves(c, "USR2", {"end"})
  BY <1>0, AnswerMoves
<1>7. Forward(c) => Moves(c, "USR1", {"end"})
  BY <1>0, ForwardMoves
<1>8. PrintColumn(c) \/ printstate(c) => Moves(c, "USR1", {"forward"})
  BY <1>0, PrintMoves
<1>9. Catch(c) \/ receiveball(c) => \E at : Moves(c, "USR2", at)
  BY CatchMoves
<1>10. QED
  BY <1>2, <1>3, <1>4, <1>5, <1>6, <1>7, <1>8, <1>9 DEF Child

\* What a child remembers of its catch changes when the ball arrives, and is reset.
LEMMA LastActions ==
  ASSUME IInv, NEW c \in Children, Child(c)
  PROVE  \A x \in Children : \/ last_action'[x] = last_action[x]
                             \/ last_action'[x] = "PLAYING"
                             \/ x = c /\ (Catch(c) \/ receiveball(c))
<1>1. last_action \in [Children -> {"PLAYING", "CATCHMADE", "CATCHMISSED"}]
  BY DEF IInv, TypeOK, ChildTypes
<1>2. CASE EndOfHandler(c)
  BY <1>1, <1>2 DEF EndOfHandler
<1>3. CASE Catch(c) \/ receiveball(c)
  BY <1>1, <1>3 DEF Catch, receiveball
<1>4. CASE UNCHANGED last_action
  BY <1>4
<1>5. QED
  BY <1>2, <1>3, <1>4 DEF Child, Deliver, Answer, Forward, PrintColumn, Stop, printstate,
     endgame_child, Exit, child

\* Every step of a child keeps OwnInv.
LEMMA ChildKeepsOwn ==
  ASSUME IInv, NEW c \in Children, Child(c)
  PROVE  OwnInv'
<1>0. /\ TypeOK /\ ChildTypes /\ StackInv /\ RowInv /\ BallInv /\ CountInv /\ OwnInv
      /\ Phase' = Phase /\ UNCHANGED <<version, parent>>
  BY ChildKeepsTypes DEF IInv, TypeOK
<1>1. /\ version' = version /\ playing' = playing /\ current_player' = current_player
      /\ players_left' = players_left /\ received_signal' = received_signal
      /\ (Listens' <=> Listens) /\ (Over' <=> Over)
  BY <1>0 DEF parent, Listens, Over
<1> SUFFICES ASSUME version = "own", NEW x \in playing
             PROVE  (/\ is_playing[x]
                     /\ last_action[x] = "CATCHMISSED" =>
                          /\ x = current_player /\ (Listens \/ Phase = "advance")
                          /\ ~Thrown(x) /\ ~HasFrame(x, "USR2", "caught") /\ "USR1" \notin ppending
                          /\ Phase \in {"test", "advance"} => received_signal # "USR1"
                     /\ last_action[x] = "CATCHMADE" =>
                          /\ ~Over
                          /\ Phase = "throw" => PrintsRow(x)
                          /\ Listens \/ Phase = "advance" => PrintsRow(x) \/ x = current_player
                          /\ Phase \in {"loop", "wait"} =>
                               /\ PrintsRow(x) \/ (players_left > 1 /\ RowAhead(x))
                               /\ players_left = 1 => Phase = "loop" \/ Before(x))'
  BY <1>1 DEF OwnInv
<1>2. x \in Children
  BY <1>0 DEF TypeOK, ParentTypes
<1>3. /\ is_playing[x]
      /\ last_action[x] = "CATCHMISSED" =>
           /\ x = current_player /\ (Listens \/ Phase = "advance")
           /\ ~Thrown(x) /\ ~HasFrame(x, "USR2", "caught") /\ "USR1" \notin ppending
           /\ Phase \in {"test", "advance"} => received_signal # "USR1"
      /\ last_action[x] = "CATCHMADE" =>
           /\ ~Over
           /\ Phase = "throw" => PrintsRow(x)
           /\ Listens \/ Phase = "advance" => PrintsRow(x) \/ x = current_player
           /\ Phase \in {"loop", "wait"} =>
                /\ PrintsRow(x) \/ (players_left > 1 /\ RowAhead(x))
                /\ players_left = 1 => Phase = "loop" \/ Before(x)
  BY <1>0 DEF OwnInv
<1>4. \/ last_action'[x] = last_action[x]
      \/ last_action'[x] = "PLAYING"
      \/ x = c /\ (Catch(c) \/ receiveball(c))
  BY <1>2, LastActions
<1>5. is_playing'[x]
  <2>1. CASE PrintColumn(c)
    <3>1. Phase = "wait"
      BY <2>1, RowMoves DEF Prints
    <3>2. last_action[x] # "CATCHMISSED"
      BY <1>3, <3>1 DEF Listens
    <3>3. QED
      BY <1>0, <1>2, <1>3, <2>1, <3>2 DEF PrintColumn, ChildTypes
  <2>2. CASE UNCHANGED is_playing
    BY <1>3, <2>2
  <2>3. QED
    BY <2>1, <2>2 DEF Child, Deliver, Answer, Forward, EndOfHandler, Catch, Stop, receiveball,
       printstate, endgame_child, Exit, child
<1>6. ASSUME last_action'[x] = "CATCHMISSED"
      PROVE  /\ x = current_player /\ (Listens \/ Phase = "advance")
             /\ ~Thrown(x)' /\ ~HasFrame(x, "USR2", "caught")' /\ "USR1" \notin ppending'
             /\ Phase \in {"test", "advance"} => received_signal # "USR1"
  <2>1. CASE Catch(c) \/ receiveball(c)
    <3>1. /\ ppending' = ppending /\ Unheard /\ c = current_player /\ HasBall(c)
          /\ ~Thrown(x)'
          /\ \/ /\ HasFrame(c, "USR2", "caught")' /\ ~HasFrame(c, "USR2", "missed")'
                /\ last_action' = [last_action EXCEPT ![c] = "CATCHMADE"]
             \/ /\ HasFrame(c, "USR2", "missed")' /\ ~HasFrame(c, "USR2", "caught")'
                /\ last_action' = [last_action EXCEPT ![c] = "CATCHMISSED"]
      BY <1>2, <2>1, BallArrives DEF HasBall
    <3>2. Thrown(c)
      BY <2>1, BallArrives
    <3>3. x = c
      <4>1. CASE x # c
        <5>1. last_action[x] = "CATCHMISSED"
          BY <1>4, <1>6, <4>1
        <5>2. QED
          BY <1>3, <3>1, <5>1
      <4>2. QED
        BY <4>1
    <3>4. last_action'[c] = "CATCHMISSED"
      BY <1>6, <3>3
    <3>5. ~HasFrame(c, "USR2", "caught")'
      BY <1>0, <3>1, <3>4 DEF ChildTypes
    <3>6. ppending' = {}
      BY <1>0, <3>1 DEF BallInv
    <3>7. Listens /\ (Phase \in {"test", "advance"} => received_signal # "USR1")
      BY <3>1 DEF Unheard, Listens
    <3>8. QED
      BY <3>1, <3>3, <3>5, <3>6, <3>7
  <2>2. CASE Answer(c)
    <3>1. last_action[x] = "CATCHMISSED"
      <4>1. ~(Catch(c) \/ receiveball(c)) \/ last_action' = last_action
        BY <2>2 DEF Answer, child
      <4>2. QED
        BY <1>4, <1>6, <4>1
    <3>2. /\ c = current_player /\ \A d \in Children : ~HasBall(d)'
          /\ \/ HasFrame(c, "USR2", "caught") /\ ppending' = {"USR1"}
             \/ HasFrame(c, "USR2", "missed") /\ ppending' = {"USR2"}
      BY <2>2, BallAnswered
    <3>3. ~Thrown(x)' /\ ~HasFrame(x, "USR2", "caught")'
      BY <1>2, <3>2 DEF HasBall, Decided
    <3>4. "USR1" \notin ppending'
      BY <1>3, <3>1, <3>2
    <3>5. QED
      BY <1>3, <3>1, <3>3, <3>4
  <2>3. CASE ~Answer(c) /\ ~Catch(c) /\ ~receiveball(c)
    BY <1>2, <1>3, <1>4, <1>6, <2>3, BallStays
  <2>4. QED
    BY <2>1, <2>2, <2>3
<1>7. ASSUME last_action'[x] = "CATCHMADE"
      PROVE  /\ ~Over
             /\ Phase = "throw" => PrintsRow(x)'
             /\ Listens \/ Phase = "advance" => PrintsRow(x)' \/ x = current_player
             /\ Phase \in {"loop", "wait"} =>
                  /\ PrintsRow(x)' \/ (players_left > 1 /\ RowAhead(x)')
                  /\ players_left = 1 => Phase = "loop" \/ Before(x)'
  <2>1. CASE x = c /\ (Catch(c) \/ receiveball(c))
    <3>1. Listens /\ c = current_player
      BY <2>1, BallArrives DEF Unheard
    <3>2. QED
      BY <2>1, <3>1 DEF Listens, Over
  <2>2. CASE last_action[x] = "CATCHMADE"
    <3>1. PrintsRow(x) => PrintsRow(x)' \/ Over
      BY <1>2, <1>7, PrintsUntilReset
    <3>2. RowAhead(x) => RowAhead(x)' \/ PrintsRow(x)'
      BY <1>2, RowMoves
    <3>3. Before(x) => Before(x)' \/ ~PrintsRow(x)
      BY <1>2, RowMoves
    <3>4. players_left = 1 => ~(players_left > 1)
      OBVIOUS
    <3>5. QED
      BY <1>3, <2>2, <3>1, <3>2, <3>3, <3>4
  <2>3. QED
    BY <1>4, <1>7, <2>1, <2>2
<1>8. QED
  BY <1>0, <1>1, <1>5, <1>6, <1>7
\* Every step of a child keeps SolInv.
LEMMA ChildKeepsSol ==
  ASSUME IInv, NEW c \in Children, Child(c)
  PROVE  SolInv'
<1>0. /\ TypeOK /\ ChildTypes /\ StackInv /\ RowInv /\ BallInv /\ CountInv /\ SolInv
      /\ Phase' = Phase /\ UNCHANGED <<version, parent>>
  BY ChildKeepsTypes DEF IInv, TypeOK
<1>1. /\ version' = version /\ playing' = playing /\ current_player' = current_player
      /\ frames' = frames /\ (Over' <=> Over)
  BY <1>0 DEF parent, Over
<1> SUFFICES ASSUME version = "sol" PROVE SolInv'
  BY <1>1 DEF SolInv
<1>a. PICK cp \in Children : cp = current_player
  BY <1>0 DEF TypeOK, ParentTypes
<1>2. cp \in Children /\ state \in [Children -> {"PLAYING", "HAVEBALL", "BALLMISSED", "OUTOFGAME"}]
  BY <1>0 DEF ChildTypes
<1>3. /\ \A d \in Children \ {cp} : state[d] = IF d \in playing THEN "PLAYING" ELSE "OUTOFGAME"
      /\ Phase = "start" \/ Thrown(cp) => state[cp] = "PLAYING"
      /\ HasFrame(cp, "USR2", "caught") \/ "USR1" \in ppending => state[cp] = "HAVEBALL"
      /\ HasFrame(cp, "USR2", "missed") \/ "USR2" \in ppending => state[cp] = "BALLMISSED"
      /\ Phase \in {"print", "wait", "decide"} =>
           state[cp] = IF Head(frames).sig = "USR1"
                       THEN IF RowAhead(cp) THEN "HAVEBALL" ELSE "PLAYING"
                       ELSE IF RowAhead(cp) THEN "BALLMISSED" ELSE "OUTOFGAME"
      /\ Over => cp \notin playing /\ state[cp] = "OUTOFGAME"
  BY <1>0, <1>a DEF SolInv
<1>4. SUFFICES
      /\ \A d \in Children \ {cp} : state'[d] = IF d \in playing THEN "PLAYING" ELSE "OUTOFGAME"
      /\ Phase = "start" \/ Thrown(cp)' => state'[cp] = "PLAYING"
      /\ HasFrame(cp, "USR2", "caught")' \/ "USR1" \in ppending' => state'[cp] = "HAVEBALL"
      /\ HasFrame(cp, "USR2", "missed")' \/ "USR2" \in ppending' => state'[cp] = "BALLMISSED"
      /\ Phase \in {"print", "wait", "decide"} =>
           state'[cp] = IF Head(frames).sig = "USR1"
                        THEN IF RowAhead(cp)' THEN "HAVEBALL" ELSE "PLAYING"
                        ELSE IF RowAhead(cp)' THEN "BALLMISSED" ELSE "OUTOFGAME"
      /\ Over => cp \notin playing /\ state'[cp] = "OUTOFGAME"
  <2>1. cp = current_player'
    BY <1>1, <1>a
  <2>2. QED
    BY <1>0, <1>1, <2>1 DEF SolInv
<1>5. CASE receiveball(c) \/ Catch(c)
  <2>1. /\ ppending' = ppending /\ Unheard /\ c = cp /\ HasBall(c)
        /\ ~Thrown(cp)'
        /\ \/ /\ HasFrame(c, "USR2", "caught")' /\ ~HasFrame(c, "USR2", "missed")'
              /\ state' = [state EXCEPT ![c] = "HAVEBALL"]
           \/ /\ HasFrame(c, "USR2", "missed")' /\ ~HasFrame(c, "USR2", "caught")'
              /\ state' = [state EXCEPT ![c] = "BALLMISSED"]
    BY <1>2, <1>5, <1>a, BallArrives DEF HasBall
  <2>2. ppending' = {}
    BY <1>0, <2>1 DEF BallInv
  <2>3. ~Over /\ Phase \notin {"start", "print", "wait", "decide"}
    BY <2>1 DEF Unheard, Listens, Over
  <2>4. \A d \in Children \ {cp} : state'[d] = state[d]
    BY <1>2, <2>1
  <2>5. /\ HasFrame(cp, "USR2", "caught")' => state'[cp] = "HAVEBALL"
        /\ HasFrame(cp, "USR2", "missed")' => state'[cp] = "BALLMISSED"
    BY <1>2, <2>1
  <2>6. QED
    BY <1>3, <2>1, <2>2, <2>3, <2>4, <2>5
<1>6. CASE Prints(c)
  <2>1. /\ Phase = "wait" /\ RowAhead(c) /\ ~RowAhead(c)'
        /\ c # cp => (RowAhead(cp)' <=> RowAhead(cp))
    BY <1>2, <1>6, RowMoves
  <2>2. printstate(c)
    BY <1>6 DEF Prints, PrintColumn
  <2>3. state' = [state EXCEPT ![c] = CASE @ = "HAVEBALL" -> "PLAYING"
                                         [] @ = "BALLMISSED" -> "OUTOFGAME"
                                         [] OTHER -> @]
        /\ ppending' = ppending
    BY <2>2 DEF printstate
  <2>4. ~Over /\ ~Listens
    BY <2>1 DEF Over, Listens
  <2>5. \A d \in Children : ~HasBall(d)
    BY <1>0, <2>4 DEF BallInv, Unheard
  <2>6. ppending' = {}
    BY <1>0, <2>3, <2>4 DEF BallInv, Unheard
  <2>7. ~Answer(c) /\ ~Catch(c) /\ ~receiveball(c)
    BY <2>5, BallAnswered, BallArrives DEF HasBall
  <2>8. ~Thrown(cp)' /\ ~HasFrame(cp, "USR2", "caught")' /\ ~HasFrame(cp, "USR2", "missed")'
    BY <1>2, <2>5, <2>7, BallStays DEF HasBall, Decided
  <2>9. \A d \in Children : state'[d] = IF d # c THEN state[d]
                                        ELSE CASE state[c] = "HAVEBALL" -> "PLAYING"
                                               [] state[c] = "BALLMISSED" -> "OUTOFGAME"
                                               [] OTHER -> state[c]
    BY <1>2, <2>3
  <2>10. CASE c = cp
    BY <1>2, <1>3, <2>1, <2>4, <2>6, <2>8, <2>9, <2>10
  <2>11. CASE c # cp
    <3>1. state'[c] = state[c]
      BY <1>3, <2>9, <2>11
    <3>2. \A d \in Children : state'[d] = state[d]
      BY <2>9, <3>1
    <3>3. QED
      BY <1>2, <1>3, <2>1, <2>4, <2>6, <2>8, <2>11, <3>2
  <2>12. QED
    BY <2>10, <2>11
<1>7. CASE ~(receiveball(c) \/ Catch(c)) /\ ~Prints(c)
  <2>1. state' = state
    BY <1>7 DEF Prints, Child, Deliver, Answer, Forward, EndOfHandler, Stop, endgame_child, Exit, child
  <2>2. RowAhead(cp)' <=> RowAhead(cp)
    BY <1>2, <1>7, RowMoves
  <2>3. CASE Answer(c)
    <3>1. /\ Listens /\ c = cp /\ ~HasBall(cp)'
          /\ \/ HasFrame(c, "USR2", "caught") /\ ppending' = {"USR1"}
             \/ HasFrame(c, "USR2", "missed") /\ ppending' = {"USR2"}
      BY <1>2, <2>3, <1>a, BallAnswered DEF Unheard
    <3>2. ~Over /\ Phase \notin {"start", "print", "wait", "decide"}
      BY <3>1 DEF Listens, Over
    <3>3. ~Thrown(cp)' /\ ~HasFrame(cp, "USR2", "caught")' /\ ~HasFrame(cp, "USR2", "missed")'
      BY <3>1 DEF HasBall, Decided
    <3>4. QED
      BY <1>3, <2>1, <3>1, <3>2, <3>3
  <2>4. CASE ~Answer(c)
    <3>1. /\ ppending' = ppending /\ (Thrown(cp)' <=> Thrown(cp))
          /\ HasFrame(cp, "USR2", "caught")' <=> HasFrame(cp, "USR2", "caught")
          /\ HasFrame(cp, "USR2", "missed")' <=> HasFrame(cp, "USR2", "missed")
      BY <1>2, <1>7, <2>4, BallStays
    <3>2. QED
      BY <1>3, <2>1, <2>2, <3>1
  <2>5. QED
    BY <2>3, <2>4
<1>8. QED
  BY <1>5, <1>6, <1>7

\* Who plays when SIGINT comes has won.
LEMMA WonAtTheEnd ==
  ASSUME IInv, Over, NEW c \in Children
  PROVE  /\ version = "own" => (c \in playing => is_playing[c] /\ last_action[c] = "PLAYING")
         /\ version = "sol" => (c \in playing <=> state[c] = "PLAYING")
<1>0. TypeOK /\ ChildTypes /\ OwnInv /\ SolInv
  BY DEF IInv, TypeOK
<1>1. ASSUME version = "own", c \in playing PROVE is_playing[c] /\ last_action[c] = "PLAYING"
  <2>1. last_action[c] \in {"PLAYING", "CATCHMADE", "CATCHMISSED"}
    BY <1>0 DEF ChildTypes
  <2>2. QED
    BY <1>0, <1>1, <2>1 DEF OwnInv, Over, Listens
<1>2. version = "sol" => (c \in playing <=> state[c] = "PLAYING")
  BY <1>0 DEF SolInv
<1>3. QED
  BY <1>1, <1>2

\* Every step of a child keeps EndInv.
LEMMA ChildKeepsEnd ==
  ASSUME IInv, NEW c \in Children, Child(c)
  PROVE  EndInv'
<1>0. /\ TypeOK /\ ChildTypes /\ StackInv /\ RowInv /\ EndInv /\ ChildTypes'
      /\ Phase' = Phase /\ UNCHANGED <<version, parent>>
  BY ChildKeepsTypes DEF IInv, TypeOK
<1>1. /\ version' = version /\ playing' = playing /\ k' = k /\ ppc' = ppc /\ (Over' <=> Over)
  BY <1>0 DEF parent, Over
<1>2. CASE Stop(c) \/ endgame_child(c)
  <2>1. Over /\ c \in Children
    BY <1>0, <1>2, ExitsMove DEF RowInv, Stopped
  <2>2. gone' = gone \cup {c} /\ winners \subseteq winners' /\ winners' \subseteq winners \cup {c}
        /\ (version = "own" \/ version = "sol")
    BY <1>2 DEF Stop, endgame_child, Exit
  <2>3. /\ c \in playing => c \in winners'
        /\ version = "sol" => (c \in winners' => c \in winners \/ c \in playing)
    BY <1>2, <2>1, WonAtTheEnd DEF Stop, endgame_child, Exit
  <2>4. gone' \subseteq Children
    BY <1>0 DEF ChildTypes
  <2>5. QED
    BY <1>0, <1>1, <2>1, <2>2, <2>3, <2>4 DEF EndInv
<1>3. CASE UNCHANGED <<gone, winners>>
  BY <1>0, <1>1, <1>3 DEF EndInv
<1>4. QED
  BY <1>2, <1>3 DEF Child, Deliver, Answer, Forward, EndOfHandler, Catch, PrintColumn, receiveball,
     printstate, child

\* Every step of a child keeps the invariant.
LEMMA ChildKeepsIInv ==
  ASSUME IInv, NEW c \in Children, Child(c)
  PROVE  IInv'
BY ChildKeepsTypes, ChildKeepsRow, ChildKeepsBall, ChildKeepsOwn, ChildKeepsSol, ChildKeepsEnd DEF IInv
-----------------------------------------------------------------------------
(* Steps of the parent: the children's side.                               *)

\* What the parent's signal changes for the children.
LEMMA Signalled ==
  ASSUME ChildTypes, ChildTypes', handlers' = handlers, UNCHANGED child, NEW sig,
         NEW to \in SUBSET Children,
         \A d \in Children : pending'[d] = IF d \in to THEN pending[d] \cup {sig} ELSE pending[d]
  PROVE  \A d \in Children :
           /\ \A s, a : HasFrame(d, s, a)' <=> HasFrame(d, s, a)
           /\ Decided(d)' <=> Decided(d)
           /\ PrintsRow(d)' <=> PrintsRow(d)
           /\ MayPrint(d)' <=> MayPrint(d) \/ (sig = "USR1" /\ d \in to)
           /\ Thrown(d)' <=> Thrown(d) \/ (sig = "USR2" /\ d \in to)
           /\ Stopped(d)' <=> Stopped(d) \/ (sig = "INT" /\ d \in to)
           /\ sig # "USR1" => (Before(d)' <=> Before(d))
<1>1. \A d \in Children : \A s, a : HasFrame(d, s, a)' <=> HasFrame(d, s, a)
  BY StandStill
<1>2. \A d \in Children : Decided(d)' <=> Decided(d)
  BY <1>1 DEF Decided
<1>3. \A d \in Children : /\ PrintsRow(d)' <=> PrintsRow(d)
                          /\ MayPrint(d)' <=> MayPrint(d) \/ (sig = "USR1" /\ d \in to)
  BY <1>1, MayPrintAt, MayPrintNext
<1>4. \A d \in Children : Thrown(d)' <=> Thrown(d) \/ (sig = "USR2" /\ d \in to)
  BY <1>1, ThrownAt
<1>5. \A d \in Children : Stopped(d)' <=> Stopped(d) \/ (sig = "INT" /\ d \in to)
  BY <1>1 DEF Stopped, child
<1>6. sig # "USR1" => \A d \in Children : Before(d)' <=> Before(d)
  BY <1>3 DEF Before
<1>7. QED
  BY <1>1, <1>2, <1>3, <1>4, <1>5, <1>6

\* sig is sent to the children of to, by a step of the parent.
Sends(sig, to) ==
  /\ ChildTypes /\ ChildTypes' /\ to \in SUBSET Children
  /\ \A d \in Children : pending'[d] = IF d \in to THEN pending[d] \cup {sig} ELSE pending[d]
  /\ handlers' = handlers /\ UNCHANGED child

\* The parent signals one child.
LEMMA SendsOne ==
  ASSUME IInv, Parent, handlers' = handlers, UNCHANGED child, NEW c \in Children, NEW sig, Kill(c, sig)
  PROVE  Sends(sig, {c})
BY ParentKeepsTypes DEF Sends, Kill, IInv, TypeOK, ChildTypes

\* The parent signals nobody.
LEMMA SendsNone ==
  ASSUME IInv, Parent, handlers' = handlers, UNCHANGED child, pending' = pending
  PROVE  \A sig : Sends(sig, {})
BY ParentKeepsTypes DEF Sends, IInv, TypeOK

\* What a signal of the parent changes.
LEMMA SendsChanges ==
  ASSUME NEW sig, NEW to, Sends(sig, to)
  PROVE  \A d \in Children :
           /\ \A s, a : HasFrame(d, s, a)' <=> HasFrame(d, s, a)
           /\ Decided(d)' <=> Decided(d)
           /\ PrintsRow(d)' <=> PrintsRow(d)
           /\ MayPrint(d)' <=> MayPrint(d) \/ (sig = "USR1" /\ d \in to)
           /\ Thrown(d)' <=> Thrown(d) \/ (sig = "USR2" /\ d \in to)
           /\ Stopped(d)' <=> Stopped(d) \/ (sig = "INT" /\ d \in to)
           /\ sig # "USR1" => (Before(d)' <=> Before(d))
           /\ \A s : s \in pending'[d] <=> s \in pending[d] \/ (s = sig /\ d \in to)
BY Signalled DEF Sends

\* No row is begun or ended.
LEMMA RowUntouched ==
  ASSUME IInv, NEW sig \in {"USR2", "INT"}, NEW to, Sends(sig, to),
         dummy' = dummy, Phase' = "wait" <=> Phase = "wait", Over => Over',
         sig = "INT" /\ to # {} => Over'
  PROVE  RowInv'
<1>0. RowInv
  BY DEF IInv
<1>1. \A d \in Children : /\ \A s, a : HasFrame(d, s, a)' <=> HasFrame(d, s, a)
                          /\ MayPrint(d)' <=> MayPrint(d)
                          /\ "USR1" \in pending'[d] <=> "USR1" \in pending[d]
                          /\ Stopped(d)' => Over'
  <2>1. to \in SUBSET Children
    BY DEF Sends
  <2>2. QED
    BY <1>0, <2>1, SendsChanges DEF RowInv
<1>2. QED
  BY <1>0, <1>1 DEF RowInv

\* No ball in the air.
LEMMA NoBall ==
  ASSUME IInv, NEW sig \in {"USR1", "INT"}, NEW to, Sends(sig, to), ~Unheard,
         ppending' = {}, Phase' = "advance" => received_signal' # "none"
  PROVE  BallInv' /\ \A d \in Children : ~HasBall(d)'
<1>0. BallInv
  BY DEF IInv
<1>1. \A d \in Children : ~HasBall(d)
  BY <1>0 DEF BallInv
<1>2. \A d \in Children : ~HasBall(d)'
  BY <1>1, SendsChanges DEF HasBall
<1>3. \A d \in Children : "USR2" \notin pending'[d]
  BY <1>2, ThrownAt DEF HasBall
<1>4. QED
  BY <1>2, <1>3 DEF BallInv

\* A throw.
LEMMA BallThrown ==
  ASSUME IInv, NEW c \in Children, Sends("USR2", {c}), ~Unheard, c = current_player',
         ppending' = {}, Phase' \in {"clear", "paused", "return"}
  PROVE  BallInv' /\ \A d \in Children : /\ Thrown(d)' <=> d = c
                                         /\ ~Decided(d)'
<1>0. BallInv
  BY DEF IInv
<1>1. \A d \in Children : ~HasBall(d)
  BY <1>0 DEF BallInv
<1>2. \A d \in Children : (Thrown(d)' <=> d = c) /\ ~Decided(d)' /\ ~HasFrame(d, "USR2", "begin")'
  BY <1>1, SendsChanges, ThrownAt DEF HasBall
<1>3. Unheard' /\ Phase' # "advance"
  BY DEF Unheard, Listens
<1>4. QED
  BY <1>2, <1>3 DEF BallInv, HasBall

\* No answer is there to be heard.
LEMMA NothingToHear ==
  ASSUME IInv, ~Unheard
  PROVE  ppending = {} /\ \A d \in Children : ~HasBall(d)
BY DEF IInv, BallInv
-----------------------------------------------------------------------------
(* Steps of the parent, one after the other.                               *)

RestInv == RowInv /\ BallInv /\ CountInv /\ OwnInv /\ SolInv /\ EndInv

\* EndInv says nothing before the end.
LEMMA EndBefore ==
  ASSUME IInv, Parent, ~Over, k' = k, UNCHANGED child, Phase' \notin {"reap", "exited"}
  PROVE  EndInv'
<1>0. RowInv /\ EndInv /\ TypeOK /\ ChildTypes /\ TypeOK' /\ StackInv'
  BY ParentKeepsTypes DEF IInv, TypeOK
<1>1. gone = {} /\ winners = {} /\ k = 0
  BY <1>0 DEF RowInv, EndInv, Stopped, ChildTypes
<1>2. gone' = {} /\ winners' = {} /\ k' = 0
  BY <1>1 DEF child
<1>3. ppc' # "exited"
  BY <1>0 DEF Phase, StackInv
<1>4. \A c \in Children : ~(c < 0)
  BY Size DEF Children
<1>5. QED
  BY <1>2, <1>3, <1>4, Size DEF EndInv

\* A row is begun.
LEMMA RowStarts ==
  ASSUME IInv, Parent, PrintRow \/ printline
  PROVE  RestInv'
<1>0. /\ TypeOK /\ StackInv /\ RowInv /\ BallInv /\ CountInv /\ OwnInv /\ SolInv
      /\ ParentTypes
  BY DEF IInv, TypeOK
<1>1. /\ Phase \in {"loop", "print"} /\ Phase' = "wait"
      /\ version = "own" => Phase = "loop"
      /\ version = "sol" => Phase = "print" /\ Head(frames').sig = Head(frames).sig
  <2>1. CASE PrintRow
    BY <1>0, <2>1, MainPhases DEF PrintRow
  <2>2. CASE printline
    BY <1>0, <2>2, HandlerPhases, Phases
  <2>3. QED
    BY <2>1, <2>2
<1>2. /\ handlers' = handlers /\ UNCHANGED child /\ Kill(0, "USR1") /\ dummy' = "alive"
      /\ version' = version /\ playing' = playing /\ current_player' = current_player
      /\ players_left' = players_left /\ k' = k /\ ppending' = ppending
  BY DEF PrintRow, printline
<1>3. 0 \in Children
  BY Size DEF Children
<1>4. Sends("USR1", {0})
  BY <1>2, <1>3, SendsOne
<1>5. ~Over /\ ~Over' /\ ~Listens /\ ~Listens' /\ ~Unheard
  BY <1>1 DEF Over, Listens, Unheard
<1>6. dummy = "none" /\ \A d \in Children : ~MayPrint(d) /\ ~Stopped(d)
  BY <1>0, <1>1, <1>5 DEF RowInv
<1>7. \A d \in Children : "USR1" \notin pending[d] /\ ~HasFrame(d, "USR1", "begin")
                          /\ ~HasFrame(d, "USR1", "forward")
  BY <1>0, <1>6, MayPrintAt DEF TypeOK
<1>8. RowInv'
  <2>1. \A d \in Children : /\ MayPrint(d)' <=> d = 0
                            /\ ~HasFrame(d, "USR1", "begin")' /\ ~HasFrame(d, "USR1", "forward")'
                            /\ ~Stopped(d)'
    BY <1>4, <1>6, <1>7, SendsChanges
  <2>2. QED
    BY <1>1, <1>2, <1>3, <2>1 DEF RowInv
<1>9. BallInv' /\ (\A d \in Children : ~HasBall(d)') /\ ppending' = {}
  BY <1>1, <1>2, <1>4, <1>5, NoBall, NothingToHear
<1>10. CountInv'
  BY <1>0, <1>1, <1>2, <1>5 DEF CountInv
<1>11. \A x \in Children : Before(x)' /\ RowAhead(x)'
  <2>1. MayPrint(0)' /\ "USR1" \in pending'[0]
    BY <1>3, <1>4, SendsChanges
  <2>2. \A x \in Children : Before(x)'
    BY <1>3, <2>1 DEF Before, Children
  <2>3. QED
    BY <1>1, <2>2 DEF RowAhead
<1>12. OwnInv'
  <2> SUFFICES ASSUME version = "own", NEW x \in playing
               PROVE  (/\ is_playing[x]
                       /\ last_action[x] # "CATCHMISSED"
                       /\ last_action[x] = "CATCHMADE" =>
                            /\ PrintsRow(x) \/ (players_left > 1 /\ RowAhead(x))
                            /\ players_left = 1 => Before(x))'
    BY <1>1, <1>2, <1>5 DEF OwnInv
  <2>1. x \in Children /\ is_playing' = is_playing /\ last_action' = last_action
    BY <1>0, <1>2 DEF ParentTypes, child
  <2>2. /\ is_playing[x] /\ last_action[x] # "CATCHMISSED"
        /\ last_action[x] = "CATCHMADE" => PrintsRow(x) \/ players_left > 1
    BY <1>0, <1>1, <1>5 DEF OwnInv
  <2>3. PrintsRow(x)' <=> PrintsRow(x)
    BY <1>4, <2>1, SendsChanges
  <2>4. QED
    BY <1>2, <1>11, <2>1, <2>2, <2>3
<1>13. SolInv'
  <2>1. PICK c \in Children : c = current_player /\ c = current_player'
    BY <1>0, <1>2 DEF ParentTypes
  <2>2. RowAhead(c)' /\ RowAhead(c)
    BY <1>1, <1>11 DEF RowAhead
  <2>3. ~Thrown(c)' /\ ~HasFrame(c, "USR2", "caught")' /\ ~HasFrame(c, "USR2", "missed")'
    BY <1>9 DEF HasBall, Decided
  <2>4. state' = state
    BY <1>2 DEF child
  <2>5. RowAhead(current_player)' /\ ~Thrown(current_player)'
        /\ ~HasFrame(current_player, "USR2", "caught")'
        /\ ~HasFrame(current_player, "USR2", "missed")'
    BY <2>1, <2>2, <2>3
  <2>6. RowAhead(current_player)
    BY <2>1, <2>2
  <2>7. QED
    BY <1>0, <1>1, <1>2, <1>5, <1>9, <2>4, <2>5, <2>6 DEF SolInv
<1>14. EndInv'
  BY <1>1, <1>2, <1>5, EndBefore
<1>15. QED
  BY <1>8, <1>9, <1>10, <1>12, <1>13, <1>14 DEF RestInv

\* A row has been printed.
LEMMA RowEnds ==
  ASSUME IInv, Parent, RowDone \/ LineDone
  PROVE  RestInv'
<1>0. /\ TypeOK /\ StackInv /\ RowInv /\ BallInv /\ CountInv /\ OwnInv /\ SolInv
      /\ ParentTypes
  BY DEF IInv, TypeOK
<1>1. /\ Phase = "wait" /\ Phase' \in {"throw", "stop", "decide"}
      /\ version = "own" => Phase' = IF players_left > 1 THEN "throw" ELSE "stop"
      /\ version = "sol" => Phase' = "decide" /\ Head(frames').sig = Head(frames).sig
  <2>1. CASE RowDone
    BY <1>0, <2>1, MainPhases DEF RowDone
  <2>2. CASE LineDone
    BY <1>0, <2>2, HandlerPhases, Phases
  <2>3. QED
    BY <2>1, <2>2
<1>2. /\ handlers' = handlers /\ UNCHANGED child /\ pending' = pending
      /\ dummy = "dead" /\ dummy' = "none"
      /\ version' = version /\ playing' = playing /\ current_player' = current_player
      /\ players_left' = players_left /\ k' = k /\ ppending' = ppending
  BY DEF RowDone, LineDone
<1>3. Sends("USR1", {}) /\ Sends("INT", {})
  BY <1>2, SendsNone
<1>4. ~Over /\ ~Listens /\ ~Listens' /\ ~Unheard /\ (Over' <=> Phase' = "stop")
  BY <1>1 DEF Over, Listens, Unheard
<1>5. \A d \in Children : ~MayPrint(d) /\ ~Stopped(d)
  BY <1>0, <1>2, <1>4 DEF RowInv
<1>6. \A d \in Children : "USR1" \notin pending[d] /\ ~HasFrame(d, "USR1", "begin")
                          /\ ~HasFrame(d, "USR1", "forward")
  BY <1>0, <1>5, MayPrintAt DEF TypeOK
<1>7. RowInv'
  <2>1. \A d \in Children : ~MayPrint(d)' /\ ~Stopped(d)' /\ "USR1" \notin pending'[d]
    BY <1>3, <1>5, <1>6, SendsChanges
  <2>2. QED
    BY <1>1, <1>2, <2>1 DEF RowInv
<1>8. BallInv' /\ (\A d \in Children : ~HasBall(d)') /\ ppending' = {}
  BY <1>1, <1>2, <1>3, <1>4, NoBall, NothingToHear
<1>9. CountInv'
  <2>1. players_left \in Nat /\ version \in {"own", "sol"}
    BY <1>0 DEF ParentTypes, Versions
  <2>2. Phase' = "stop" => players_left = 1
    BY <1>0, <1>1, <2>1 DEF CountInv
  <2>3. Phase' # "stop" => players_left >= 2
    BY <1>0, <1>1, <2>1 DEF CountInv
  <2>4. QED
    BY <1>0, <1>1, <1>2, <1>4, <2>2, <2>3 DEF CountInv
<1>10. \A x \in Children : ~Before(x) /\ ~RowAhead(x) /\ ~RowAhead(x)'
  BY <1>1, <1>5, <1>6 DEF Before, RowAhead
<1>11. OwnInv'
  <2> SUFFICES ASSUME version = "own", NEW x \in playing
               PROVE  (/\ is_playing[x]
                       /\ last_action[x] # "CATCHMISSED"
                       /\ last_action[x] = "CATCHMADE" => ~Over /\ PrintsRow(x))'
    BY <1>1, <1>2, <1>4 DEF OwnInv
  <2>1. x \in Children /\ is_playing' = is_playing /\ last_action' = last_action
        /\ players_left \in Nat
    BY <1>0, <1>2 DEF ParentTypes, child
  <2>2. /\ is_playing[x] /\ last_action[x] # "CATCHMISSED"
        /\ last_action[x] = "CATCHMADE" => PrintsRow(x) /\ players_left # 1
    BY <1>0, <1>1, <1>4, <1>10, <2>1 DEF OwnInv
  <2>3. PrintsRow(x)' <=> PrintsRow(x)
    BY <1>3, <2>1, SendsChanges
  <2>4. players_left # 1 => ~Over'
    BY <1>0, <1>1, <1>4, <2>1 DEF CountInv
  <2>5. QED
    BY <2>1, <2>2, <2>3, <2>4
<1>12. SolInv'
  <2>1. PICK c \in Children : c = current_player /\ c = current_player'
    BY <1>0, <1>2 DEF ParentTypes
  <2>2. ~Thrown(c)' /\ ~HasFrame(c, "USR2", "caught")' /\ ~HasFrame(c, "USR2", "missed")'
    BY <1>8 DEF HasBall, Decided
  <2>3. state' = state
    BY <1>2 DEF child
  <2>4. ~RowAhead(current_player)' /\ ~Thrown(current_player)'
        /\ ~HasFrame(current_player, "USR2", "caught")'
        /\ ~HasFrame(current_player, "USR2", "missed")'
    BY <1>10, <2>1, <2>2
  <2>5. ~RowAhead(current_player)
    BY <1>10, <2>1
  <2>6. QED
    BY <1>0, <1>1, <1>2, <1>4, <1>8, <2>3, <2>4, <2>5 DEF SolInv
<1>13. EndInv'
  BY <1>1, <1>2, <1>4, EndBefore
<1>14. QED
  BY <1>7, <1>8, <1>9, <1>11, <1>12, <1>13 DEF RestInv
\* The ball is thrown by main.
LEMMA MainThrows ==
  ASSUME IInv, Parent, Throw \/ FirstThrow
  PROVE  RestInv'
<1>0. /\ TypeOK /\ StackInv /\ RowInv /\ BallInv /\ CountInv /\ OwnInv /\ SolInv
      /\ ParentTypes
  BY DEF IInv, TypeOK
<1>1. /\ Phase \in {"throw", "start"} /\ Phase' \in {"clear", "paused"}
      /\ version = "own" => Phase = "throw"
      /\ version = "sol" => Phase = "start" /\ Phase' = "paused"
  <2>1. CASE Throw
    BY <1>0, <2>1, MainPhases, Phases
  <2>2. CASE FirstThrow
    BY <1>0, <2>2, MainPhases, Phases
  <2>3. QED
    BY <2>1, <2>2
<1>2. /\ handlers' = handlers /\ UNCHANGED child /\ Kill(current_player, "USR2") /\ dummy' = dummy
      /\ version' = version /\ playing' = playing /\ current_player' = current_player
      /\ players_left' = players_left /\ k' = k /\ ppending' = ppending
  BY DEF Throw, FirstThrow
<1>3. PICK c \in Children : c = current_player /\ c = current_player'
  BY <1>0, <1>2 DEF ParentTypes
<1>4. Sends("USR2", {c})
  BY <1>2, <1>3, SendsOne
<1>5. ~Over /\ ~Over' /\ ~Listens /\ Listens' /\ ~Unheard
  BY <1>1 DEF Over, Listens, Unheard
<1>6. RowInv'
  BY <1>1, <1>2, <1>4, <1>5, RowUntouched
<1>7. /\ BallInv' /\ ppending' = {}
      /\ \A d \in Children : (Thrown(d)' <=> d = c) /\ ~Decided(d)'
  BY <1>1, <1>2, <1>3, <1>4, <1>5, BallThrown, NothingToHear
<1>8. CountInv'
  BY <1>0, <1>1, <1>2, <1>5 DEF CountInv
<1>9. OwnInv'
  <2> SUFFICES ASSUME version = "own", NEW x \in playing
               PROVE  (/\ is_playing[x] /\ last_action[x] # "CATCHMISSED"
                       /\ last_action[x] = "CATCHMADE" => PrintsRow(x))'
    BY <1>1, <1>2, <1>5 DEF OwnInv
  <2>1. x \in Children /\ is_playing' = is_playing /\ last_action' = last_action
    BY <1>0, <1>2 DEF ParentTypes, child
  <2>2. /\ is_playing[x] /\ last_action[x] # "CATCHMISSED"
        /\ last_action[x] = "CATCHMADE" => PrintsRow(x)
    BY <1>0, <1>1, <1>5 DEF OwnInv
  <2>3. PrintsRow(x)' <=> PrintsRow(x)
    BY <1>4, <2>1, SendsChanges
  <2>4. QED
    BY <2>1, <2>2, <2>3
<1>10. SolInv'
  <2>1. state' = state
    BY <1>2 DEF child
  <2>2. ~HasFrame(current_player, "USR2", "caught")' /\ ~HasFrame(current_player, "USR2", "missed")'
    BY <1>3, <1>7 DEF Decided
  <2>3. QED
    BY <1>0, <1>1, <1>2, <1>5, <1>7, <2>1, <2>2 DEF SolInv
<1>11. EndInv'
  BY <1>1, <1>2, <1>5, EndBefore
<1>12. QED
  BY <1>6, <1>7, <1>8, <1>9, <1>10, <1>11 DEF RestInv

\* The flag of parent.c is cleared, tested and set.
LEMMA FlagSteps ==
  ASSUME IInv, Parent, ClearFlag \/ TestFlag \/ HearAnswer
  PROVE  RestInv'
<1>0. /\ TypeOK /\ StackInv /\ RowInv /\ BallInv /\ CountInv /\ OwnInv /\ SolInv
      /\ ParentTypes /\ ChildTypes
  BY DEF IInv, TypeOK
<1>1. /\ handlers' = handlers /\ UNCHANGED child /\ pending' = pending /\ dummy' = dummy
      /\ version' = version /\ playing' = playing /\ current_player' = current_player
      /\ players_left' = players_left /\ k' = k
  BY DEF ClearFlag, TestFlag, HearAnswer
<1>2. \/ /\ Phase = "clear" /\ Phase' = "test" /\ received_signal' = "none" /\ ppending' = ppending
      \/ /\ Phase = "test" /\ received_signal' = received_signal /\ ppending' = ppending
         /\ Phase' = IF received_signal = "none" THEN "pause" ELSE "advance"
      \/ /\ Phase \in {"clear", "test", "pause"} /\ Unheard
         /\ Phase' = IF Phase = "pause" THEN "test" ELSE Phase
         /\ ppending' = {} /\ received_signal' \in ppending /\ \A d \in Children : ~HasBall(d)
  <2>1. CASE ClearFlag
    BY <1>0, <2>1, MainPhases DEF ClearFlag
  <2>2. CASE TestFlag
    BY <1>0, <2>2, MainPhases DEF TestFlag
  <2>3. CASE HearAnswer
    <3>1. PICK sig \in ppending : ppending' = ppending \ {sig} /\ received_signal' = sig
      BY <2>3 DEF HearAnswer
    <3>2. Unheard /\ ppending' = {} /\ version = "own" /\ \A d \in Children : ~HasBall(d)
      BY <1>0, <2>3, <3>1 DEF BallInv, HearAnswer
    <3>3. Phase' = IF Phase = "pause" THEN "test" ELSE Phase
      BY <1>0, <2>3, MainPhases
    <3>4. Phase \in {"clear", "test", "pause"}
      BY <1>0, <3>2, Phases DEF Unheard, Listens
    <3>5. QED
      BY <3>1, <3>2, <3>3, <3>4
  <2>4. QED
    BY <2>1, <2>2, <2>3
<1>3. /\ version = "own" /\ Phase \in {"clear", "test", "pause"}
      /\ Phase' \in {"clear", "test", "pause", "advance"}
  BY <1>0, <1>2, Phases
<1>4. Sends("USR1", {}) /\ Sends("USR2", {})
  BY <1>1, SendsNone
<1>5. /\ ~Over /\ ~Over' /\ Listens /\ (Listens' <=> Phase' # "advance")
      /\ Phase # "throw" /\ Phase # "loop" /\ Phase # "wait"
      /\ Phase' # "throw" /\ Phase' # "loop" /\ Phase' # "wait"
  BY <1>3 DEF Over, Listens
<1>6. RowInv'
  BY <1>1, <1>4, <1>5, RowUntouched
<1>7. \A d \in Children : /\ Thrown(d)' <=> Thrown(d)
                          /\ Decided(d)' <=> Decided(d)
                          /\ HasBall(d)' <=> HasBall(d)
                          /\ \A a : HasFrame(d, "USR2", a)' <=> HasFrame(d, "USR2", a)
                          /\ PrintsRow(d)' <=> PrintsRow(d)
  BY <1>4, SendsChanges DEF HasBall
<1>8. BallInv'
  <2>1. /\ \A d \in Children : HasBall(d) => Unheard /\ d = current_player /\ ppending = {}
        /\ \A d \in Children : "USR2" \in pending[d] => ~HasFrame(d, "USR2", "begin") /\ ~Decided(d)
        /\ ppending # {} => Unheard /\ \E sig \in {"USR1", "USR2"} : ppending = {sig}
    BY <1>0 DEF BallInv
  <2>2. Phase' = "advance" => received_signal' # "none" /\ ~Unheard
    BY <1>2 DEF Unheard
  <2>3. Unheard => Unheard' \/ ((\A d \in Children : ~HasBall(d)) /\ ppending' = {})
    BY <1>2, <1>5, <2>2 DEF Unheard
  <2>4. ppending' = ppending \/ ppending' = {}
    BY <1>2
  <2>5. \A d \in Children : HasBall(d)' => Unheard' /\ d = current_player' /\ ppending' = {}
    BY <1>1, <1>7, <2>1, <2>3, <2>4
  <2>6. ppending' # {} => Unheard' /\ \E sig \in {"USR1", "USR2"} : ppending' = {sig}
    BY <2>1, <2>3, <2>4
  <2>7. \A d \in Children : "USR2" \in pending'[d] => ~HasFrame(d, "USR2", "begin")' /\ ~Decided(d)'
    BY <1>1, <1>7, <2>1
  <2>8. QED
    BY <2>2, <2>5, <2>6, <2>7 DEF BallInv
<1>9. CountInv'
  BY <1>0, <1>1, <1>5 DEF CountInv
<1>10. OwnInv'
  <2> SUFFICES ASSUME NEW x \in playing
               PROVE  (/\ is_playing[x]
                       /\ last_action[x] = "CATCHMISSED" =>
                            /\ x = current_player
                            /\ ~Thrown(x) /\ ~HasFrame(x, "USR2", "caught") /\ "USR1" \notin ppending
                            /\ Phase \in {"test", "advance"} => received_signal # "USR1"
                       /\ last_action[x] = "CATCHMADE" => PrintsRow(x) \/ x = current_player)'
    BY <1>1, <1>3, <1>5 DEF OwnInv
  <2>1. x \in Children /\ is_playing' = is_playing /\ last_action' = last_action
    BY <1>0, <1>1 DEF ParentTypes, child
  <2>2. /\ is_playing[x]
        /\ last_action[x] = "CATCHMISSED" =>
             /\ x = current_player
             /\ ~Thrown(x) /\ ~HasFrame(x, "USR2", "caught") /\ "USR1" \notin ppending
             /\ Phase = "test" => received_signal # "USR1"
        /\ last_action[x] = "CATCHMADE" => PrintsRow(x) \/ x = current_player
    BY <1>0, <1>3, <1>5 DEF OwnInv
  <2>3. "USR1" \notin ppending => "USR1" \notin ppending'
    BY <1>2
  <2>4. "USR1" \notin ppending /\ (Phase = "test" => received_signal # "USR1")
           /\ Phase' \in {"test", "advance"} => received_signal' # "USR1"
    BY <1>2
  <2>5. QED
    BY <1>1, <1>7, <2>1, <2>2, <2>3, <2>4
<1>11. SolInv'
  BY <1>1, <1>3 DEF SolInv
<1>12. EndInv'
  BY <1>1, <1>3, <1>5, EndBefore
<1>13. QED
  BY <1>6, <1>8, <1>9, <1>10, <1>11, <1>12 DEF RestInv

\* parent.c takes the answer to heart.
LEMMA Advances ==
  ASSUME IInv, Parent, Advance
  PROVE  RestInv'
<1>0. /\ TypeOK /\ StackInv /\ RowInv /\ BallInv /\ CountInv /\ OwnInv /\ SolInv
      /\ ParentTypes /\ ChildTypes
  BY DEF IInv, TypeOK
<1>1. Phase = "advance" /\ Phase' = "loop" /\ version = "own"
  BY <1>0, MainPhases, Phases
<1>2. /\ handlers' = handlers /\ UNCHANGED child /\ pending' = pending /\ dummy' = dummy
      /\ version' = version /\ k' = k /\ ppending' = ppending
      /\ received_signal' = received_signal
  BY DEF Advance
<1>3. PICK missed \in BOOLEAN : missed = (received_signal = "USR2")
  OBVIOUS
<1>4. /\ playing' = IF missed THEN playing \ {current_player} ELSE playing
      /\ players_left' = IF missed THEN players_left - 1 ELSE players_left
      /\ current_player' = next_player(current_player, playing')
  BY <1>3 DEF Advance
<1>5. ~Over /\ ~Over' /\ ~Listens /\ ~Listens' /\ ~Unheard
  BY <1>1 DEF Over, Listens, Unheard
<1>6. players_left >= 2 /\ players_left \in Nat
  BY <1>0, <1>1, <1>5 DEF CountInv, ParentTypes
<1>7. /\ players_left' = Cardinality(playing') /\ players_left' >= 1
      /\ current_player' \in playing' /\ players_left' \in Nat
  BY <1>0, <1>4, <1>5, <1>6, NextTurn
<1>8. Sends("USR1", {}) /\ Sends("USR2", {})
  BY <1>2, SendsNone
<1>9. RowInv'
  BY <1>1, <1>2, <1>5, <1>8, RowUntouched
<1>10. BallInv'
  BY <1>1, <1>2, <1>5, <1>8, NoBall, NothingToHear
<1>11. CountInv'
  BY <1>1, <1>2, <1>5, <1>7 DEF CountInv
<1>12. OwnInv'
  <2> SUFFICES ASSUME NEW x \in playing'
               PROVE  (/\ is_playing[x] /\ last_action[x] # "CATCHMISSED"
                       /\ last_action[x] = "CATCHMADE" =>
                            PrintsRow(x) \/ (players_left > 1 /\ RowAhead(x)))'
    BY <1>1, <1>2, <1>5 DEF OwnInv
  <2>1. x \in playing /\ x \in Children /\ is_playing' = is_playing /\ last_action' = last_action
    BY <1>0, <1>2, <1>4 DEF ParentTypes, child
  <2>2. /\ is_playing[x]
        /\ last_action[x] = "CATCHMISSED" => x = current_player /\ received_signal # "USR1"
        /\ last_action[x] = "CATCHMADE" => PrintsRow(x) \/ x = current_player
    BY <1>0, <1>1, <1>5, <2>1 DEF OwnInv
  <2>3. received_signal \in {"USR1", "USR2"}
    BY <1>0, <1>1 DEF BallInv, ParentTypes
  <2>4. last_action[x] # "CATCHMISSED"
    BY <1>3, <1>4, <2>2, <2>3
  <2>5. PrintsRow(x)' <=> PrintsRow(x)
    BY <1>8, <2>1, SendsChanges
  <2>6. RowAhead(x)'
    BY <1>1 DEF RowAhead
  <2>7. x = current_player => players_left' > 1
    BY <1>4, <1>6
  <2>8. QED
    BY <2>1, <2>2, <2>4, <2>5, <2>6, <2>7
<1>13. SolInv'
  BY <1>1, <1>2 DEF SolInv
<1>14. EndInv'
  BY <1>1, <1>2, <1>5, EndBefore
<1>15. QED
  BY <1>9, <1>10, <1>11, <1>12, <1>13, <1>14 DEF RestInv

\* sol_LA2's handler begins: the answer is taken.
LEMMA HandlerBegins ==
  ASSUME IInv, Parent, signalfromchild
  PROVE  RestInv'
<1>0. /\ TypeOK /\ StackInv /\ RowInv /\ BallInv /\ CountInv /\ OwnInv /\ SolInv
      /\ ParentTypes /\ version = "sol"
  BY DEF IInv, TypeOK, signalfromchild
<1>1. PICK sig \in ppending : ppending' = ppending \ {sig} /\ Head(frames').sig = sig
  BY <1>0, HandlerStarts DEF BallInv, Unheard
<1>2. Phase \in {"paused", "return"} /\ Phase' = "print"
  BY <1>0, HandlerStarts DEF BallInv, Unheard
<1>3. /\ handlers' = handlers /\ UNCHANGED child /\ pending' = pending /\ dummy' = dummy
      /\ version' = version /\ playing' = playing /\ current_player' = current_player
      /\ players_left' = players_left /\ k' = k
  BY DEF signalfromchild
<1>4. sig \in {"USR1", "USR2"} /\ ppending = {sig} /\ ppending' = {}
      /\ \A d \in Children : ~HasBall(d)
  BY <1>0, <1>1 DEF BallInv
<1>5. Sends("USR1", {}) /\ Sends("USR2", {})
  BY <1>3, SendsNone
<1>6. ~Over /\ ~Over' /\ Listens /\ ~Listens'
  BY <1>2 DEF Over, Listens
<1>7. RowInv'
  BY <1>2, <1>3, <1>5, <1>6, RowUntouched
<1>8. \A d \in Children : ~HasBall(d)' /\ "USR2" \notin pending'[d] /\ ~Thrown(d)'
                          /\ ~HasFrame(d, "USR2", "caught")' /\ ~HasFrame(d, "USR2", "missed")'
  BY <1>4, <1>5, SendsChanges, ThrownAt DEF HasBall, Decided
<1>9. BallInv'
  BY <1>2, <1>4, <1>8 DEF BallInv
<1>10. CountInv'
  BY <1>0, <1>2, <1>3, <1>6 DEF CountInv
<1>11. OwnInv'
  BY <1>0, <1>3 DEF OwnInv
<1>12. SolInv'
  <2>1. PICK c \in Children : c = current_player /\ c = current_player'
    BY <1>0, <1>3 DEF ParentTypes
  <2>2. /\ ~Thrown(current_player)'
        /\ ~HasFrame(current_player, "USR2", "caught")'
        /\ ~HasFrame(current_player, "USR2", "missed")'
    BY <1>8, <2>1
  <2>3. RowAhead(current_player)'
    BY <1>2 DEF RowAhead
  <2>4. state[current_player] = IF sig = "USR1" THEN "HAVEBALL" ELSE "BALLMISSED"
    BY <1>0, <1>4 DEF SolInv
  <2>5. state' = state
    BY <1>3 DEF child
  <2>6. \A d \in Children \ {current_player} :
           state[d] = IF d \in playing THEN "PLAYING" ELSE "OUTOFGAME"
    BY <1>0 DEF SolInv
  <2>7. QED
    BY <1>1, <1>2, <1>3, <1>4, <1>6, <2>2, <2>3, <2>4, <2>5, <2>6 DEF SolInv
<1>13. EndInv'
  BY <1>2, <1>3, <1>6, EndBefore
<1>14. QED
  BY <1>7, <1>9, <1>10, <1>11, <1>12, <1>13 DEF RestInv

\* sol_LA2 takes the answer to heart and throws again, or ends the game.
LEMMA Decides ==
  ASSUME IInv, Parent, Decide
  PROVE  RestInv'
<1>0. /\ TypeOK /\ StackInv /\ RowInv /\ BallInv /\ CountInv /\ OwnInv /\ SolInv
      /\ ParentTypes /\ ChildTypes
  BY DEF IInv, TypeOK
<1>1. PICK missed \in BOOLEAN : missed = (Head(frames).sig = "USR2")
  OBVIOUS
<1>2. /\ Phase = "decide" /\ version = "sol"
      /\ Phase' = IF missed /\ players_left' = 1 THEN "stop" ELSE "return"
  BY <1>0, <1>1, HandlerPhases, Phases
<1>3. /\ handlers' = handlers /\ UNCHANGED child /\ dummy' = dummy
      /\ version' = version /\ k' = k /\ ppending' = ppending
      /\ playing' = IF missed THEN playing \ {current_player} ELSE playing
      /\ players_left' = IF missed THEN players_left - 1 ELSE players_left
      /\ IF missed /\ players_left' = 1
         THEN UNCHANGED <<current_player, pending>>
         ELSE /\ current_player' = next_player(current_player, playing')
              /\ Kill(current_player', "USR2")
  BY <1>1 DEF Decide
<1>4. ~Over /\ ~Listens /\ ~Unheard /\ players_left >= 2 /\ players_left \in Nat
  BY <1>0, <1>2 DEF Over, Listens, Unheard, CountInv, ParentTypes
<1>5. /\ playing' \in SUBSET Children /\ players_left' = Cardinality(playing')
      /\ players_left' \in Nat /\ players_left' >= 1
      /\ next_player(current_player, playing') \in playing'
      /\ next_player(current_player, playing') # current_player
  BY <1>0, <1>3, <1>4, NextTurn
<1>6. PICK c \in Children : c = current_player
  BY <1>0 DEF ParentTypes
<1>7. /\ \A d \in Children \ {c} : state[d] = IF d \in playing THEN "PLAYING" ELSE "OUTOFGAME"
      /\ state[c] = IF missed THEN "OUTOFGAME" ELSE "PLAYING"
      /\ c \in playing
  <2>1. Head(frames).sig \in {"USR1", "USR2"}
    <3>1. Head(frames) \in ParentFrame
      BY <1>0, Phases DEF Decide, At
    <3>2. QED
      BY <3>1 DEF ParentFrame
  <2>2. ~RowAhead(current_player)
    BY <1>2 DEF RowAhead
  <2>3. QED
    BY <1>0, <1>1, <1>2, <1>4, <1>6, <2>1, <2>2 DEF SolInv, CountInv
<1>8. /\ \A d \in Children : state'[d] = IF d \in playing' THEN "PLAYING" ELSE "OUTOFGAME"
      /\ state' = state
  BY <1>3, <1>6, <1>7 DEF child
<1>9. ppending' = {}
  BY <1>3, <1>4, NothingToHear
<1>10. CASE missed /\ players_left' = 1
  <2>1. Phase' = "stop" /\ current_player' = c /\ c \notin playing' /\ pending' = pending
    BY <1>2, <1>3, <1>6, <1>10
  <2>2. Over' /\ ~Listens'
    BY <2>1 DEF Over, Listens
  <2>3. Sends("USR1", {}) /\ Sends("USR2", {})
    BY <1>3, <2>1, SendsNone
  <2>4. RowInv'
    BY <1>2, <1>3, <1>4, <2>1, <2>3, RowUntouched
  <2>5. BallInv' /\ \A d \in Children : ~HasBall(d)'
    BY <1>4, <1>9, <2>1, <2>3, NoBall
  <2>6. CountInv'
    BY <1>2, <1>3, <1>5, <1>10, <2>1, <2>2 DEF CountInv
  <2>7. SolInv'
    <3>1. ~Thrown(c)' /\ ~HasFrame(c, "USR2", "caught")' /\ ~HasFrame(c, "USR2", "missed")'
      BY <2>5 DEF HasBall, Decided
    <3>2. /\ ~Thrown(current_player)'
          /\ ~HasFrame(current_player, "USR2", "caught")'
          /\ ~HasFrame(current_player, "USR2", "missed")'
      BY <2>1, <3>1
    <3>3. state'[current_player'] = "OUTOFGAME"
      BY <1>8, <2>1
    <3>4. QED
      BY <1>8, <1>9, <2>1, <3>2, <3>3 DEF SolInv
  <2>8. EndInv'
    BY <1>3, <1>4, <2>1, EndBefore
  <2>9. QED
    BY <1>2, <1>3, <2>4, <2>5, <2>6, <2>7, <2>8 DEF RestInv, OwnInv
<1>11. CASE ~(missed /\ players_left' = 1)
  <2>1. /\ Phase' = "return" /\ Kill(current_player', "USR2")
        /\ current_player' \in playing' /\ current_player' # c
    BY <1>2, <1>3, <1>5, <1>6, <1>11
  <2>2. ~Over' /\ Listens'
    BY <2>1 DEF Over, Listens
  <2>3. PICK d \in Children : d = current_player'
    BY <1>5, <2>1
  <2>4. Sends("USR2", {d})
    BY <1>3, <2>1, <2>3, SendsOne
  <2>5. RowInv'
    BY <1>2, <1>3, <1>4, <2>1, <2>4, RowUntouched
  <2>6. BallInv' /\ \A e \in Children : (Thrown(e)' <=> e = d) /\ ~Decided(e)'
    BY <1>4, <1>9, <2>1, <2>3, <2>4, BallThrown
  <2>7. CountInv'
    <3>1. players_left' >= 2
      BY <1>3, <1>4, <1>5, <1>11
    <3>2. QED
      BY <1>2, <1>3, <1>5, <2>1, <2>2, <3>1 DEF CountInv
  <2>8. SolInv'
    <3>1. ~HasFrame(d, "USR2", "caught")' /\ ~HasFrame(d, "USR2", "missed")'
      BY <2>6 DEF Decided
    <3>2. /\ ~HasFrame(current_player, "USR2", "caught")'
          /\ ~HasFrame(current_player, "USR2", "missed")'
      BY <2>3, <3>1
    <3>3. state'[current_player'] = "PLAYING"
      BY <1>8, <2>1, <2>3
    <3>4. QED
      BY <1>8, <1>9, <2>1, <2>2, <3>2, <3>3 DEF SolInv
  <2>9. EndInv'
    BY <1>3, <1>4, <2>1, EndBefore
  <2>10. QED
    BY <1>2, <1>3, <2>5, <2>6, <2>7, <2>8, <2>9 DEF RestInv, OwnInv
<1>12. QED
  BY <1>10, <1>11

\* A handler returns.
LEMMA Returns ==
  ASSUME IInv, Parent, Return
  PROVE  RestInv'
<1>0. /\ TypeOK /\ StackInv /\ RowInv /\ BallInv /\ CountInv /\ OwnInv /\ SolInv
      /\ ParentTypes
  BY DEF IInv, TypeOK
<1>1. Phase = "return" /\ Phase' \in {"paused", "return"} /\ version = "sol"
  BY <1>0, HandlerReturns, Phases
<1>2. /\ handlers' = handlers /\ UNCHANGED child /\ pending' = pending /\ dummy' = dummy
      /\ version' = version /\ playing' = playing /\ current_player' = current_player
      /\ players_left' = players_left /\ k' = k /\ ppending' = ppending
  BY DEF Return
<1>3. Sends("USR1", {}) /\ Sends("USR2", {})
  BY <1>2, SendsNone
<1>4. ~Over /\ ~Over' /\ Listens /\ Listens' /\ Unheard /\ Unheard'
  BY <1>1 DEF Over, Listens, Unheard
<1>5. RowInv'
  BY <1>1, <1>2, <1>3, <1>4, RowUntouched
<1>6. \A d \in Children : /\ Thrown(d)' <=> Thrown(d)
                          /\ Decided(d)' <=> Decided(d)
                          /\ HasBall(d)' <=> HasBall(d)
                          /\ \A a : HasFrame(d, "USR2", a)' <=> HasFrame(d, "USR2", a)
  BY <1>3, SendsChanges DEF HasBall
<1>7. BallInv'
  BY <1>0, <1>1, <1>2, <1>4, <1>6 DEF BallInv
<1>8. CountInv'
  BY <1>0, <1>1, <1>2, <1>4 DEF CountInv
<1>9. SolInv'
  <2>1. PICK c \in Children : c = current_player /\ c = current_player'
    BY <1>0, <1>2 DEF ParentTypes
  <2>2. /\ Thrown(current_player)' <=> Thrown(current_player)
        /\ \A a : HasFrame(current_player, "USR2", a)' <=> HasFrame(current_player, "USR2", a)
    BY <1>6, <2>1
  <2>3. state' = state
    BY <1>2 DEF child
  <2>4. QED
    BY <1>0, <1>1, <1>2, <1>4, <2>2, <2>3 DEF SolInv
<1>10. EndInv'
  BY <1>1, <1>2, <1>4, EndBefore
<1>11. QED
  BY <1>1, <1>2, <1>5, <1>7, <1>8, <1>9, <1>10 DEF RestInv, OwnInv
-----------------------------------------------------------------------------
(* The end of the game.                                                    *)

\* The children are stopped: nothing else changes.
LEMMA OverAndOver ==
  ASSUME IInv, Parent, NEW to, Sends("INT", to), Over, Over',
         UNCHANGED <<version, playing, current_player, players_left, ppending, dummy>>
  PROVE  RowInv' /\ BallInv' /\ CountInv' /\ OwnInv' /\ SolInv'
<1>0. /\ TypeOK /\ RowInv /\ CountInv /\ OwnInv /\ SolInv /\ ParentTypes
      /\ handlers' = handlers /\ UNCHANGED child
  BY DEF IInv, TypeOK, Sends
<1>1. /\ Phase \in {"stop", "reap", "exited"} /\ Phase' \in {"stop", "reap", "exited"}
      /\ ~Listens /\ ~Listens' /\ ~Unheard
  BY DEF Over, Listens, Unheard
<1>2. ppending' = {}
  BY <1>1, NothingToHear
<1>3. RowInv'
  BY <1>1, RowUntouched
<1>4. BallInv' /\ \A d \in Children : ~HasBall(d)'
  BY <1>1, <1>2, NoBall
<1>5. CountInv'
  BY <1>0, <1>1 DEF CountInv
<1>6. OwnInv'
  <2> SUFFICES ASSUME version = "own", NEW x \in playing
               PROVE  (/\ is_playing[x]
                       /\ last_action[x] # "CATCHMISSED" /\ last_action[x] # "CATCHMADE")'
    BY <1>0, <1>1 DEF OwnInv
  <2>1. /\ is_playing[x]
        /\ last_action[x] # "CATCHMISSED" /\ last_action[x] # "CATCHMADE"
    BY <1>0, <1>1 DEF OwnInv
  <2>2. QED
    BY <1>0, <2>1 DEF child
<1>7. SolInv'
  <2>1. PICK c \in Children : c = current_player /\ c = current_player'
    BY <1>0 DEF ParentTypes
  <2>2. ~Thrown(c)' /\ ~HasFrame(c, "USR2", "caught")' /\ ~HasFrame(c, "USR2", "missed")'
    BY <1>4 DEF HasBall, Decided
  <2>3. ~Thrown(current_player)' /\ ~HasFrame(current_player, "USR2", "caught")'
        /\ ~HasFrame(current_player, "USR2", "missed")'
    BY <2>1, <2>2
  <2>4. state' = state
    BY <1>0 DEF child
  <2>5. QED
    BY <1>0, <1>1, <1>2, <2>3, <2>4 DEF SolInv
<1>8. QED
  BY <1>3, <1>4, <1>5, <1>6, <1>7

\* parent.c stops the children and waits for them.
LEMMA StopsAll ==
  ASSUME IInv, Parent, StopNext \/ Reap
  PROVE  RestInv'
<1>0. TypeOK /\ StackInv /\ EndInv /\ ParentTypes /\ TypeOK' /\ StackInv'
  BY ParentKeepsTypes DEF IInv, TypeOK
<1>1. /\ handlers' = handlers /\ UNCHANGED child /\ frames' = frames
      /\ UNCHANGED <<version, playing, current_player, players_left, ppending, dummy>>
      /\ version = "own"
  BY <1>0, MainPhases DEF StopNext, Reap
<1>2. CASE StopNext
  <2>1. /\ Phase = "stop" /\ Phase' = IF k' = n THEN "reap" ELSE "stop"
        /\ Kill(k, "INT") /\ k' = k + 1 /\ ppc' # "exited"
    BY <1>0, <1>2, MainPhases DEF StopNext
  <2>2. Over /\ Over'
    BY <2>1 DEF Over
  <2>3. k \in Children /\ k \in 0 .. n - 1
    BY <1>0, <1>1, <2>1, Size DEF EndInv, ParentTypes, Children
  <2>4. Sends("INT", {k})
    BY <1>1, <2>1, <2>3, SendsOne
  <2>5. RowInv' /\ BallInv' /\ CountInv' /\ OwnInv' /\ SolInv'
    BY <1>1, <2>2, <2>4, OverAndOver
  <2>6. EndInv'
    BY <1>0, <1>1, <2>1, <2>2, <2>3, Size DEF EndInv, child
  <2>7. QED
    BY <2>5, <2>6 DEF RestInv
<1>3. CASE Reap
  <2>1. /\ Phase = "reap" /\ Phase' = "exited" /\ pending' = pending /\ k' = k
        /\ gone = Children
    BY <1>0, <1>3, MainPhases DEF Reap
  <2>2. Over /\ Over'
    BY <2>1 DEF Over
  <2>3. Sends("INT", {})
    BY <1>1, <2>1, SendsNone
  <2>4. RowInv' /\ BallInv' /\ CountInv' /\ OwnInv' /\ SolInv'
    BY <1>1, <2>2, <2>3, OverAndOver
  <2>5. EndInv'
    BY <1>0, <1>1, <2>1, <2>2 DEF EndInv, child
  <2>6. QED
    BY <2>4, <2>5 DEF RestInv
<1>4. QED
  BY <1>2, <1>3

\* sol_LA2 stops one child after the other.
LEMMA StopsOne ==
  ASSUME IInv, Parent, endgame \/ ReapOne
  PROVE  RestInv'
<1>0. TypeOK /\ StackInv /\ EndInv /\ ParentTypes
  BY ParentKeepsTypes DEF IInv, TypeOK
<1>1. /\ handlers' = handlers /\ UNCHANGED child
      /\ UNCHANGED <<version, playing, current_player, players_left, ppending, dummy>>
      /\ version = "sol"
  BY <1>0, HandlerPhases DEF endgame, ReapOne
<1>2. k \in 0 .. n
  BY <1>0 DEF ParentTypes
<1>3. CASE endgame
  <2>1. /\ Phase = "stop" /\ Phase' = IF k = n THEN "exited" ELSE "reap"
        /\ IF k = n THEN ppc' = "exited" /\ UNCHANGED pending ELSE Kill(k, "INT") /\ ppc' = ppc
        /\ k' = k /\ ppc = "paused"
    BY <1>0, <1>3, HandlerPhases, Phases DEF endgame, At
  <2>2. Over /\ Over'
    BY <2>1 DEF Over
  <2>3. \E to : Sends("INT", to)
    <3>1. CASE k = n
      BY <1>1, <2>1, <3>1, SendsNone
    <3>2. CASE k # n
      <4>1. k \in Children
        BY <1>2, <3>2, Size DEF Children
      <4>2. QED
        BY <1>1, <2>1, <3>2, <4>1, SendsOne
    <3>3. QED
      BY <3>1, <3>2
  <2>4. RowInv' /\ BallInv' /\ CountInv' /\ OwnInv' /\ SolInv'
    BY <1>1, <2>2, <2>3, OverAndOver
  <2>5. k = n => gone = Children
    <3>1. \A c \in Children : c < n
      BY Size DEF Children
    <3>2. QED
      BY <1>0, <1>1, <3>1 DEF EndInv, TypeOK, ChildTypes
  <2>6. EndInv'
    BY <1>0, <1>1, <1>2, <2>1, <2>2, <2>5, Size DEF EndInv, child
  <2>7. QED
    BY <2>4, <2>6 DEF RestInv
<1>4. CASE ReapOne
  <2>1. /\ Phase = "reap" /\ Phase' = "stop" /\ pending' = pending
        /\ k' = k + 1 /\ k \in gone /\ ppc' = ppc /\ ppc = "paused"
    BY <1>0, <1>4, HandlerPhases, Phases DEF ReapOne, At
  <2>2. Over /\ Over'
    BY <2>1 DEF Over
  <2>3. Sends("INT", {})
    BY <1>1, <2>1, SendsNone
  <2>4. RowInv' /\ BallInv' /\ CountInv' /\ OwnInv' /\ SolInv'
    BY <1>1, <2>2, <2>3, OverAndOver
  <2>5. \A c \in Children : c < k + 1 => c < k \/ c = k
    BY <1>2, Size DEF Children
  <2>6. EndInv'
    BY <1>0, <1>1, <2>1, <2>2, <2>5 DEF EndInv, child
  <2>7. QED
    BY <2>4, <2>6 DEF RestInv
<1>5. QED
  BY <1>3, <1>4

-----------------------------------------------------------------------------
(* The theorems.                                                           *)

\* Every step of the parent keeps the invariant.
LEMMA ParentKeepsIInv ==
  ASSUME IInv, Parent
  PROVE  IInv'
<1>1. RestInv'
  BY RowStarts, RowEnds, MainThrows, FlagSteps, Advances, HandlerBegins, Decides, Returns,
     StopsAll, StopsOne DEF Parent
<1>2. QED
  BY <1>1, ParentKeepsTypes DEF RestInv, IInv

\* And so does a step in which nothing happens.
LEMMA StandingStill ==
  ASSUME IInv, UNCHANGED vars
  PROVE  IInv'
<1>1. /\ UNCHANGED <<handlers, pending, child, parent, version, ppending, dummy, frames, ppc, playing,
                     current_player, players_left, received_signal, k, is_playing, last_action, state,
                     winners, gone>>
  BY DEF vars, parent, child
<1>2. Phase' = Phase /\ (Over' <=> Over) /\ (Listens' <=> Listens) /\ (Unheard' <=> Unheard)
  BY <1>1 DEF Phase, Over, Listens, Unheard
<1>3. TypeOK' /\ StackInv'
  BY <1>1 DEF IInv, TypeOK, ParentTypes, ChildTypes, StackInv
<1>4. \A c : Frames(c)' = Frames(c)
  BY <1>1 DEF Frames
<1>5. \A c : /\ MayPrint(c)' <=> MayPrint(c)
             /\ Thrown(c)' <=> Thrown(c)
             /\ PrintsRow(c)' <=> PrintsRow(c)
             /\ \A s, a : HasFrame(c, s, a)' <=> HasFrame(c, s, a)
  BY <1>1, <1>4 DEF MayPrint, Thrown, PrintsRow, HasFrame
<1>6. \A c : /\ Decided(c)' <=> Decided(c)
             /\ HasBall(c)' <=> HasBall(c)
             /\ Stopped(c)' <=> Stopped(c)
             /\ Before(c)' <=> Before(c)
  BY <1>1, <1>5 DEF Decided, HasBall, Stopped, Before
<1>7. \A c : RowAhead(c)' <=> RowAhead(c)
  BY <1>1, <1>2, <1>5, <1>6 DEF RowAhead
<1>8. RowInv' /\ BallInv'
  BY <1>1, <1>2, <1>5, <1>6 DEF IInv, RowInv, BallInv
<1>9. CountInv' /\ EndInv'
  BY <1>1, <1>2 DEF IInv, CountInv, EndInv
<1>10. OwnInv'
  BY <1>1, <1>2, <1>5, <1>6, <1>7 DEF IInv, OwnInv
<1>11. SolInv'
  <2>1. PICK c : c = current_player /\ c = current_player'
    BY <1>1
  <2>2. /\ Thrown(current_player)' <=> Thrown(current_player)
        /\ RowAhead(current_player)' <=> RowAhead(current_player)
        /\ \A s, a : HasFrame(current_player, s, a)' <=> HasFrame(current_player, s, a)
    BY <1>5, <1>7, <2>1
  <2>3. Head(frames') = Head(frames)
    BY <1>1
  <2>4. QED
    BY <1>1, <1>2, <2>2, <2>3 DEF IInv, SolInv
<1>12. QED
  BY <1>3, <1>8, <1>9, <1>10, <1>11 DEF IInv

\* The inductive invariant of both programs.
THEOREM GameInvariant == Spec => []IInv
<1>1. Init => IInv
  BY InitIInv
<1>2. IInv /\ [Next]_vars => IInv'
  BY ParentKeepsIInv, ChildKeepsIInv, StandingStill DEF Next
<1>3. QED
  BY <1>1, <1>2, PTL DEF Spec

\* For any number of children and in both programs, while the parent waits for a row one
\* child at a time prints, and when it goes on nobody does (child.c l. 50-59).
THEOREM OneRowAtAnyTime == Spec => []OneRowAtATime
<1>1. IInv => OneRowAtATime
  <2> SUFFICES ASSUME IInv PROVE OneRowAtATime
    OBVIOUS
  <2>1. TypeOK /\ StackInv /\ RowInv
    BY DEF IInv
  <2>2. ParentWaits <=> Phase = "wait"
    BY <2>1, Phases DEF ParentWaits, StackInv
  <2>3. QED
    BY <2>1, <2>2 DEF OneRowAtATime, RowInv
<1>2. QED
  BY <1>1, GameInvariant, PTL

\* The ball is only ever on its way to one child, the parent's current player, which plays
\* by the parent's books and by its own: no child has to ask why it received the ball.
THEOREM ThrownOnlyToPlayers == Spec => []ThrownToPlayers
<1>1. IInv => ThrownToPlayers
  BY ImpliesThrownToPlayers
<1>2. QED
  BY <1>1, GameInvariant, PTL

\* When the parent exits one child was left in its books, and that child has said that it
\* won, whatever it was doing when it was stopped; in sol_LA2 nobody else has.
THEOREM LastPlayerAlwaysWins == Spec => []LastPlayerWins
<1>1. IInv => LastPlayerWins
  <2> SUFFICES ASSUME IInv, ppc = "exited" PROVE players_left = 1 /\ playing \subseteq winners
                                                  /\ (version = "sol" => winners = playing)
    BY DEF LastPlayerWins
  <2>1. TypeOK /\ StackInv /\ CountInv /\ EndInv /\ ParentTypes
    BY DEF IInv, TypeOK
  <2>2. Over
    BY <2>1, Phases DEF Over
  <2>3. gone = Children /\ playing \in SUBSET Children
    BY <2>1 DEF EndInv, ParentTypes
  <2>4. QED
    BY <2>1, <2>2, <2>3 DEF CountInv, EndInv
<1>2. QED
  BY <1>1, GameInvariant, PTL

=============================================================================
