---- MODULE Adventure ----
(***************************************************************************)
(* A game of Adventure: the turn of turn.c with its dwarves, pirate and    *)
(* clocks, and the saved game of advent.c.                                 *)
(*                                                                         *)
(* turn() is split where it waits for the player: Arrive is what happens   *)
(* up to the prompt, the other actions are what the player types.          *)
(***************************************************************************)
EXTENDS AdventureVerbs, TLC

VARIABLES game,   \* the globals
          saved   \* the saved game in the file, or NoGame

vars == <<game, saved>>

NoGame == [mode |-> "none"]

------------------------------------------------------------------------------
\* The dwarves and the pirate

\* dopirate: he takes every treasure carried or lying about to his chest, or,
\* when only the chest is left to be found, hides it within reach.
dopirate(s) ==
  LET inVault(o) == o = "PYRAMID" /\ s.newloc \in {s.place["PYRAMID"], s.place["EMERALD"]}
      booty == {o \in Treasures \cup {"SPARE"} : ~inVault(o)}
      hidden(t) == move_object(move_object(t, "CHEST", chloc), "MESSAGE", chloc2)
      away(t) == [t EXCEPT !.dloc[6] = chloc, !.odloc[6] = chloc, !.dseen[6] = FALSE]
      met == IF s.place["MESSAGE"] = 0 THEN hidden(s) ELSE s
      spared(o) == o = "PYRAMID" /\ \/ s.newloc = s.place["PYRAMID"]
                                    \/ s.newloc = s.place["EMERALD"] /\ ~at(s, "EMERALD")
      taken == {o \in Treasures \cup {"SPARE"} :
                  ~spared(o) /\ (toting(met, o) \/ (at(met, o) /\ met.fixed[o] = 0))}
  IN  CASE s.newloc = chloc \/ s.prop["CHEST"] >= 0 -> s
        [] s.newloc # chloc /\ s.prop["CHEST"] < 0 /\ \E o \in booty : toting(s, o) ->
             away(moveAll(met, taken, chloc))
        [] s.newloc # chloc /\ s.prop["CHEST"] < 0 /\ (\A o \in booty : ~here(s, o))
             /\ s.tally = s.tally2 + 1 /\ s.place["CHEST"] = 0
             /\ here(s, "LAMP") /\ s.prop["LAMP"] = 1 -> away(hidden(s))
        [] OTHER -> s

\* The first meeting: up to two dwarves fall, one leaves an axe.
FirstDwarf(s, fallen) ==
  LET left == [i \in 1 .. 6 |-> IF i \in fallen THEN 0 ELSE s.dloc[i]]
      apart == [i \in 1 .. 6 |-> IF i < 6 /\ left[i] = s.newloc THEN daltloc ELSE left[i]]
  IN  drop([s EXCEPT !.dflag = 2, !.dloc = apart,
                     !.odloc = [i \in 1 .. 6 |-> IF i < 6 THEN apart[i] ELSE @[i]]],
           "AXE", s.newloc)

\* Those still alive wander; one that has seen the player stays with him.
Wander(s, to) ==
  LET alive == {i \in 1 .. 6 : s.dloc[i] # 0}
      sees == [i \in 1 .. 6 |->
                 IF i \in alive
                 THEN \/ s.dseen[i] /\ s.newloc >= MIST_HALL
                      \/ s.newloc \in {to[i], s.dloc[i]}
                 ELSE s.dseen[i]]
  IN  [s EXCEPT !.odloc = [i \in 1 .. 6 |-> IF i \in alive THEN s.dloc[i] ELSE @[i]],
                !.dseen = sees,
                !.dloc = [i \in 1 .. 6 |->
                            IF i \notin alive THEN 0 ELSE IF sees[i] THEN s.newloc ELSE to[i]]]

\* The knives of the dwarves that were here already, of which some may hit.
Attack(s, walked) ==
  LET near == {i \in 1 .. 5 : s.dloc[i] # 0 /\ walked.dseen[i]}
      armed == {i \in near : walked.odloc[i] = walked.dloc[i]}
      met == IF s.dloc[6] # 0 /\ walked.dseen[6] THEN dopirate(walked) ELSE walked
      thrown == [met EXCEPT !.knfloc = IF @ # CARRIED THEN s.newloc ELSE @,
                            !.dflag = IF @ = 2 THEN 3 ELSE @]
      hit == [thrown EXCEPT !.oldloc2 = s.newloc]
  IN  IF armed = {} THEN {met}
      ELSE {thrown} \cup (IF s.dflag > 2 THEN death(hit) ELSE {})

dwarves(s, spots) ==
  LET alive == {i \in 1 .. 6 : s.dloc[i] # 0}
      walks == [alive -> spots]
  IN  CASE s.newloc = 0 \/ s.newloc \in Forced \cup NoPirate -> {s}
        [] s.newloc \notin {0} \cup Forced \cup NoPirate /\ s.dflag = 0 ->
             {[s EXCEPT !.dflag = IF s.newloc > MIST_HALL THEN 1 ELSE 0]}
        [] s.newloc \notin {0} \cup Forced \cup NoPirate /\ s.dflag = 1 ->
             {s} \cup (IF s.newloc < MIST_HALL THEN {}
                       ELSE {FirstDwarf(s, {a, b} \ {0}) : a, b \in 0 .. 5})
        [] OTHER -> UNION {Attack(s, Wander(s, [i \in 1 .. 6 |->
                             IF i \in alive THEN to[i] ELSE 0])) : to \in walks}

------------------------------------------------------------------------------
\* The clocks

\* The cave begins to close once every treasure has been seen.
StartClosing(s) ==
  LET gone == TrollGone([s EXCEPT !.prop["GRATE"] = 0, !.prop["FISSURE"] = 0,
                                  !.dseen = [i \in 1 .. 6 |-> FALSE]])
      bear == IF s.prop["BEAR"] # 3 THEN destroy_object(gone, "BEAR") ELSE gone
  IN  [bear EXCEPT !.prop["CHAIN"] = 0, !.fixed["CHAIN"] = 0,
                   !.prop["AXE"] = 0, !.fixed["AXE"] = 0, !.clock1 = -1, !.closing = TRUE]

\* The repository is furnished; whatever the player carried is gone.
Close(s) ==
  LET near == FoldSet(LAMBDA o, t : put(t, o, REPOSITORY1, IF o = "BOTTLE" THEN 1 ELSE 0), s,
                      {"BOTTLE", "PLANT", "OYSTER", "LAMP", "ROD", "DWARF"})
      far == FoldSet(LAMBDA o, t : put(t, o, REPOSITORY2, IF o \in {"SNAKE", "BIRD"} THEN 1 ELSE 0),
                     near, {"SNAKE", "BIRD", "CAGE", "ROD2", "PILLOW", "MIRROR"})
      set == [move_object(far, "GRATE", REPOSITORY2) EXCEPT
                !.loc = REPOSITORY1, !.oldloc = REPOSITORY1, !.newloc = REPOSITORY1,
                !.fixed["MIRROR"] = REPOSITORY2]
  IN  [moveAll(set, {o \in Objects : toting(set, o)}, 0) EXCEPT !.closed = TRUE]

\* The lamp's charge: fresh batteries, the last of it, the way home without it.
Lamp(s) ==
  LET l == IF s.prop["LAMP"] = 1 THEN s.limit - 1 ELSE s.limit
      t == [s EXCEPT !.limit = l]
      renewed == [(IF toting(t, "BATTERIES") THEN drop(t, "BATTERIES", t.loc) ELSE t) EXCEPT
                    !.prop["BATTERIES"] = 1, !.limit = l + 2500]
  IN  CASE l <= 30 /\ here(t, "BATTERIES") /\ t.prop["BATTERIES"] = 0 /\ here(t, "LAMP") -> renewed
        [] l = 0 /\ ~(here(t, "BATTERIES") /\ t.prop["BATTERIES"] = 0 /\ here(t, "LAMP")) ->
             [t EXCEPT !.limit = -1, !.prop["LAMP"] = 0]
        [] l < 0 /\ t.loc <= 8
             /\ ~(here(t, "BATTERIES") /\ t.prop["BATTERIES"] = 0 /\ here(t, "LAMP")) ->
             Over([t EXCEPT !.gaveup = TRUE])
        [] OTHER -> t

Prompt(s) ==
  IF s.mode = "over" THEN s
  ELSE [s EXCEPT !.mode = "prompt", !.motion = None, !.looked = IF s.loc # 0 THEN 0 ELSE @]

\* Fault: the cave closes again on every turn after its time has run out.
stimer_ClosesAgain(s) ==
  LET c1 == IF s.tally = 0 /\ s.loc >= MIST_HALL /\ s.loc # Y2_ROOM THEN s.clock1 - 1 ELSE s.clock1
      c2 == IF c1 < 0 THEN s.clock2 - 1 ELSE s.clock2
      ticked == [s EXCEPT !.clock1 = c1, !.clock2 = c2]
  IN  CASE c1 = 0 -> Prompt(StartClosing(ticked))
        [] c1 # 0 /\ c2 <= 0 -> Close(ticked)
        [] OTHER -> Prompt(Lamp(ticked))

\* stimer, and the prompt unless the cave has just closed.
stimer(s) ==
  LET c1 == IF s.tally = 0 /\ s.loc >= MIST_HALL /\ s.loc # Y2_ROOM THEN s.clock1 - 1 ELSE s.clock1
      c2 == IF c1 < 0 THEN s.clock2 - 1 ELSE s.clock2
      ticked == [s EXCEPT !.clock1 = c1, !.clock2 = c2]
  IN  CASE c1 = 0 -> Prompt(StartClosing(ticked))
        [] c1 # 0 /\ c2 = 0 -> Close(ticked)
        [] OTHER -> Prompt(Lamp(ticked))

------------------------------------------------------------------------------
\* A turn up to the prompt

\* While the cave is closing there is no way out of it.
Hindered(s) ==
  IF s.closing /\ s.newloc \in 1 .. 8
  THEN [s EXCEPT !.newloc = s.loc, !.clock2 = IF s.panic THEN @ ELSE 15, !.panic = TRUE]
  ELSE s

\* A dwarf that has seen the player blocks the way it came by.
Blocked(s) ==
  IF /\ s.newloc # s.loc /\ s.loc \notin Forced \cup NoPirate
     /\ \E i \in 1 .. 5 : s.odloc[i] = s.newloc /\ s.dseen[i]
  THEN [s EXCEPT !.newloc = s.loc] ELSE s

\* What the repository's things show once they are picked up, and the clocks.
Settle(s) ==
  LET shown == IF s.closed
               THEN [s EXCEPT !.prop = [o \in Objects |->
                       IF toting(s, o) /\ @[o] < 0 THEN -1 - @[o] ELSE @[o]]]
               ELSE s
  IN  stimer([shown EXCEPT !.wzdark = dark(shown),
                           !.knfloc = IF @ # s.loc THEN 0 ELSE @])

\* Entering the new room: forced on, lost in the dark, or described.
Enter(s) ==
  LET t == [s EXCEPT !.loc = s.newloc]
  IN  CASE t.loc = 0 -> death(t)
        [] t.loc \in Forced -> domove(describe(t))
        [] OTHER -> {Settle(describe(t))} \cup
                    (IF t.wzdark /\ dark(t) THEN death([t EXCEPT !.oldloc2 = t.loc]) ELSE {})

Turn(s, spots) ==
  UNION {IF t.mode = "over" THEN {t}
         ELSE IF t.loc # t.newloc THEN Enter(t) ELSE {Settle(t)} :
           t \in dwarves(Blocked(Hindered(s)), spots)}

------------------------------------------------------------------------------
\* The saved game

verify_locations(s) ==
  /\ s.loc \in 0 .. 140 /\ s.newloc \in 0 .. 140
  /\ s.oldloc \in 0 .. 140 /\ s.oldloc2 \in 0 .. 140
  /\ s.knfloc <= CARRIED
  /\ \A o \in Objects : s.place[o] <= CARRIED /\ s.fixed[o] <= CARRIED
  /\ \A i \in 1 .. 6 : s.dloc[i] <= 140 /\ s.odloc[i] <= 140

MostPoints == 350

\* The points for the slots without a name, once they count as seen.
UnnamedPoints(s) == IF s.prop["SPARE"] >= 0 THEN 2 * Slots("SPARE") ELSE 0

\* score: 2 points for a treasure seen, the rest for one left whole in the building.
score(s) ==
  LET worth(o) == CASE o = "CHEST" -> 12
                    [] o \in {"NUGGET", "DIAMONDS", "GOLD_BARS", "JEWELS", "COINS"} -> 10
                    [] OTHER -> 14
      found == FoldSet(LAMBDA o, n : n + (IF s.prop[o] >= 0 THEN 2 ELSE 0)
                         + (IF s.place[o] = WELLHOUSE /\ s.prop[o] = 0 THEN worth(o) ELSE 0),
                       0, Treasures)
      ending == CASE ~s.closed -> 0
                  [] s.closed /\ s.bonus = 0 -> 10
                  [] s.closed /\ s.bonus = 134 -> 30
                  [] s.closed /\ s.bonus = 133 -> 45
                  [] OTHER -> 25
  IN  found + UnnamedPoints(s) + (MAXDIE - s.numdie) * 10 + (IF s.gaveup THEN 0 ELSE 4)
      + (IF s.dflag # 0 THEN 25 ELSE 0) + (IF s.closing THEN 25 ELSE 0) + ending
      + (IF s.place["MAGAZINE"] = 108 THEN 1 ELSE 0) + 2

------------------------------------------------------------------------------
\* Actions

Init == game = NewGame /\ saved = NoGame

\* The rooms a wandering dwarf is drawn to.
Underground == MIST_HALL .. 120

\* The turn runs on to the prompt, or through a forced room.
Arrive(spots) ==
  /\ game.mode = "arrive"
  /\ game' \in Turn(game, spots)
  /\ UNCHANGED saved

\* What the command did, before the next turn begins.
Done(s) == IF s.mode = "prompt" THEN [s EXCEPT !.mode = "arrive"] ELSE s

\* A motion word.
Walk(m) ==
  /\ game.mode = "prompt"
  /\ \E s \in domove([game EXCEPT !.motion = m]) : game' = Done(s)
  /\ UNCHANGED saved

\* doobj: what an object's name stands for where the player is, None when he
\* is told that he sees no such thing.
Referent(s, o) ==
  LET present == s.fixed[o] = s.loc \/ here(s, o)
      dwarf == dcheck(s) # 0 /\ s.dflag >= 2
      wet == (liq(s) = o /\ here(s, "BOTTLE")) \/ liqloc(s.loc) = o
  IN  CASE present -> o
        [] ~present /\ o # "GRATE" /\ dwarf -> "DWARF"
        [] ~present /\ o # "GRATE" /\ ~dwarf /\ wet -> o
        [] ~present /\ ~dwarf /\ ~wet /\ o = "PLANT" /\ at(s, "PLANT2")
             /\ s.prop["PLANT2"] = 0 -> "PLANT2"
        [] ~present /\ ~dwarf /\ ~wet /\ o = "ROD" /\ here(s, "ROD2") -> "ROD2"
        [] OTHER -> None

\* The name of the grate is a motion in the valley and below it.
GrateWay(s, o) ==
  CASE o = "GRATE" /\ s.loc \in {1, 4, 7} -> "DEPRESSION"
    [] o = "GRATE" /\ s.loc \in 10 .. 14 -> "ENTRANCE"
    [] OTHER -> None

\* doobj and trobj: an object, with a verb or alone.
Named(s, verb, o) ==
  LET what == Referent(s, o)
      way == GrateWay(s, o)
  IN  CASE what # None -> IF verb = None THEN {s} ELSE trverb(s, verb, what)
        [] what = None /\ way # None -> domove([s EXCEPT !.motion = way])
        [] what = None /\ way = None /\ o = "KNIFE" /\ s.knfloc = s.loc ->
             {[s EXCEPT !.knfloc = NoRoom]}
        [] OTHER -> {s}

Command(verb, o) ==
  /\ game.mode = "prompt"
  /\ \E s \in Named(game, verb, o) : game' = Done(s)
  /\ UNCHANGED saved

\* A verb alone.
Alone(verb) ==
  /\ game.mode = "prompt"
  /\ \E s \in itverb(game, verb) : game' = Done(s)
  /\ UNCHANGED saved

\* SUSPEND at the prompt, or a signal between two steps of the turn, saves the
\* globals and ends the program.
Leave ==
  /\ game.mode \in {"prompt", "arrive"}
  /\ saved' = game
  /\ game' = [game EXCEPT !.mode = "left"]

\* The next run of the program: a saved game it accepts is taken from the file.
Return ==
  /\ game.mode = "left" /\ saved # NoGame /\ verify_locations(saved)
  /\ game' = [describe([saved EXCEPT !.looked = 0, !.motion = None]) EXCEPT !.mode = "arrive"]
  /\ saved' = NoGame

Next ==
  \/ Arrive(Underground)
  \/ \E m \in AllMotions : Walk(m)
  \/ \E verb \in Verbs \cup {None}, o \in Objects \ Unnamed : Command(verb, o)
  \/ \E verb \in Verbs : Alone(verb)
  \/ Leave
  \/ Return

Spec == Init /\ [][Next]_vars

------------------------------------------------------------------------------
\* Properties

\* holding counts what the player carries through every command, robbery and
\* death; a liquid is carried exactly when it fills the carried bottle, and a
\* caged bird is where its cage is.  (carry, drop, vtake, vdrop, death)
CarriedExactly ==
  ~game.closed =>
    /\ game.holding = Cardinality({o \in Objects \ Liquids : toting(game, o)})
    /\ \A o \in Liquids : toting(game, o) <=> (toting(game, "BOTTLE") /\ liq(game) = o)
    /\ game.prop["BIRD"] = 1 => game.place["BIRD"] = game.place["CAGE"]

\* A treasure not yet seen is still counted, so that the cave never closes on
\* one.  (descitem, stimer)
UnseenCounted ==
  LET unseen == {o \in Treasures : game.prop[o] < 0}
  IN  /\ ~game.closed => Cardinality(unseen) <= game.tally
      /\ game.closing /\ ~game.closed => unseen = {}

\* The counters of things carried and of treasures unseen agree with the
\* things themselves, and no sequence of commands earns a score that save_score
\* would take for a corrupt one, unless the slots without a name were seen, as
\* they can be after the instant of a LOOK in no room.  (obj.c, descitem, score)
ThingsAccounted ==
  CarriedExactly /\ UnseenCounted /\ score(game) \in 0 .. MostPoints + UnnamedPoints(game)

BothEnds(o) == game.place[o] = CHASM_SW /\ game.fixed[o] = CHASM_NE
Gone(o) == game.place[o] = 0 /\ game.fixed[o] = 0
Beyond == CHASM_NE .. 130

\* One of the two trolls, the one in the way or the one that is not, stands at
\* both ends of the bridge; nobody comes over while it is the first, and
\* nobody is left beyond a bridge that fell.  (vthrow, vdrop, spcmove, the
\* conditions of rooms 117 and 122)
TollExacted ==
  game.mode # "over" =>
    /\ \/ BothEnds("TROLL") /\ Gone("TROLL2")
       \/ Gone("TROLL") /\ BothEnds("TROLL2")
    /\ game.newloc \in Beyond /\ game.loc \notin Beyond \cup {0} => Gone("TROLL")
    /\ game.prop["CHASM"] = 1 => Gone("TROLL") /\ game.newloc \notin Beyond

====
