---- MODULE AdventureVerbs ----
(***************************************************************************)
(* What a verb does: verb.c and itverb.c of Adventure.  A verb that draws  *)
(* a number or may end the game gives a set of games, the others one game. *)
(***************************************************************************)
EXTENDS AdventureWorld

\* dcheck: the first of the five dwarves in the room, 0 when there is none.
dcheck(s) == LET d == {i \in 1 .. 5 : s.dloc[i] = s.loc} IN IF d = {} THEN 0 ELSE Min(d)

\* A liquid lies or travels with the bottle.
Bottled(s, where) == IF liq(s) = None THEN s ELSE [s EXCEPT !.place[liq(s)] = where]

------------------------------------------------------------------------------
\* DROP and FILL

\* The troll leaves both ends of the bridge to the one that is not in the way.
TrollGone(s) ==
  move_second(move_object(move_second(move_object(s, "TROLL", 0), "TROLL", 0),
                          "TROLL2", CHASM_SW), "TROLL2", CHASM_NE)

\* A vase breaks unless it is set on the pillow or in the soft room.
VaseSet(s) ==
  LET whole == s.loc = 96 \/ at(s, "PILLOW")
  IN  IF s.loc = 96 THEN s
      ELSE [s EXCEPT !.prop["VASE"] = IF whole THEN 0 ELSE 2,
                     !.fixed["VASE"] = IF whole THEN @ ELSE NoRoom]

\* The last part of vdrop: a liquid stays in its bottle and a caged bird in its cage.
PutDown(s, o) ==
  LET what == IF o = liq(s) THEN "BOTTLE" ELSE o
      poured == IF what = "BOTTLE" THEN Bottled(s, 0) ELSE s
      birds == IF what = "CAGE" /\ s.prop["BIRD"] # 0 THEN drop(poured, "BIRD", s.loc)
               ELSE IF what = "BIRD" THEN [poured EXCEPT !.prop["BIRD"] = 0] ELSE poured
  IN  drop(birds, what, s.loc)

vdrop(s, named) ==
  LET o == IF toting(s, "ROD2") /\ named = "ROD" /\ ~toting(s, "ROD") THEN "ROD2" ELSE named
      scared == [destroy_object(s, "SNAKE") EXCEPT !.prop["SNAKE"] = -1]
      burnt == [destroy_object(s, "BIRD") EXCEPT
                  !.prop["BIRD"] = 0,
                  !.tally2 = IF s.place["SNAKE"] # 0 THEN @ + 1 ELSE @]
  IN  CASE ~toting(s, o) -> {s}
        [] toting(s, o) /\ o = "BIRD" /\ here(s, "SNAKE") ->
             IF s.closed THEN {dwarfend(s)} ELSE {PutDown(scared, o)}
        [] toting(s, o) /\ o = "COINS" /\ here(s, "VEND") ->
             {drop(destroy_object(s, "COINS"), "BATTERIES", s.loc)}
        [] toting(s, o) /\ o = "BIRD" /\ ~here(s, "SNAKE") /\ at(s, "DRAGON")
             /\ s.prop["DRAGON"] = 0 -> {burnt}
        [] toting(s, o) /\ o = "BEAR" /\ at(s, "TROLL") ->
             {PutDown([TrollGone(s) EXCEPT !.prop["TROLL"] = 2], o)}
        [] toting(s, o) /\ o = "VASE" -> {PutDown(VaseSet(s), o)}
        [] OTHER -> {PutDown(s, o)}

vfill(s, o) ==
  LET filled == [s EXCEPT !.prop["BOTTLE"] = IF liqloc(s.loc) = "OIL" THEN 2 ELSE 0]
  IN  CASE o = "BOTTLE" /\ liq(s) = None /\ liqloc(s.loc) # None ->
             {IF toting(s, "BOTTLE") THEN Bottled(filled, CARRIED) ELSE filled}
        [] o = "VASE" /\ liqloc(s.loc) # None /\ toting(s, "VASE") -> vdrop(s, "VASE")
        [] OTHER -> {s}

------------------------------------------------------------------------------
\* TAKE

\* The object goes into the hands with what goes with it.
PickUp(s, o) ==
  LET bird == IF o \in {"BIRD", "CAGE"} /\ s.prop["BIRD"] # 0
              THEN carry(s, IF o = "BIRD" THEN "CAGE" ELSE "BIRD") ELSE s
      held == carry(bird, o)
  IN  IF o = "BOTTLE" THEN Bottled(held, CARRIED) ELSE held

vtake(s, o) ==
  LET wet == o \in Liquids
      what == IF wet THEN "BOTTLE" ELSE o
      free == o = "BIRD" /\ s.prop["BIRD"] = 0
  IN  CASE toting(s, o) \/ s.fixed[o] # 0 -> {s}
        [] wet /\ (~here(s, "BOTTLE") \/ liq(s) # o) ->
             IF toting(s, "BOTTLE") /\ s.prop["BOTTLE"] = 1 THEN vfill(s, "BOTTLE") ELSE {s}
        [] s.holding >= 7 -> {s}
        [] free /\ (toting(s, "ROD") \/ ~toting(s, "CAGE")) -> {s}
        [] OTHER -> {PickUp(IF free THEN [s EXCEPT !.prop["BIRD"] = 1] ELSE s, what)}

------------------------------------------------------------------------------
\* OPEN and LOCK

\* The clam is pried open: the oyster is left and the pearl rolls away.
Pried(s) == drop(drop(destroy_object(s, "CLAM"), "OYSTER", s.loc), "PEARL", 105)

ChainOpened(s) ==
  LET bear == IF s.prop["BEAR"] = 3 THEN 3 ELSE 2
  IN  [s EXCEPT !.prop["CHAIN"] = 0, !.fixed["CHAIN"] = 0,
                !.prop["BEAR"] = bear, !.fixed["BEAR"] = (2 - bear + 256) % 256]

ChainLocked(s) ==
  [(IF toting(s, "CHAIN") THEN drop(s, "CHAIN", s.loc) ELSE s) EXCEPT
     !.prop["CHAIN"] = 2, !.fixed["CHAIN"] = NoRoom]

Panicked(s) == IF s.panic THEN s ELSE [s EXCEPT !.clock2 = 15, !.panic = TRUE]

vopen(s, verb, o) ==
  CASE o \in {"CLAM", "OYSTER"} /\ verb # "LOCK" /\ toting(s, "TRIDENT") /\ ~toting(s, o) ->
         Pried(s)
    [] o = "CHAIN" /\ here(s, "KEYS") /\ verb = "LOCK" /\ s.prop["CHAIN"] = 0 /\ s.loc = 130 ->
         ChainLocked(s)
    [] o = "CHAIN" /\ here(s, "KEYS") /\ verb # "LOCK" /\ s.prop["BEAR"] # 0
         /\ s.prop["CHAIN"] # 0 -> ChainOpened(s)
    [] o = "GRATE" /\ here(s, "KEYS") /\ s.closing -> Panicked(s)
    [] o = "GRATE" /\ here(s, "KEYS") /\ ~s.closing ->
         [s EXCEPT !.prop["GRATE"] = IF verb = "LOCK" THEN 0 ELSE 1]
    [] OTHER -> s

------------------------------------------------------------------------------
\* The lamp, the rod and the liquids

von(s) ==
  IF ~here(s, "LAMP") \/ s.limit < 0 THEN s
  ELSE LET lit == [s EXCEPT !.prop["LAMP"] = 1]
       IN  IF s.wzdark THEN describe([lit EXCEPT !.wzdark = FALSE]) ELSE lit

voff(s) == IF here(s, "LAMP") THEN [s EXCEPT !.prop["LAMP"] = 0] ELSE s

vwave(s, o) ==
  IF o = "ROD" /\ toting(s, o) /\ at(s, "FISSURE") /\ ~s.closing
  THEN [s EXCEPT !.prop["FISSURE"] = 1 - @] ELSE s

vpour(s, o) ==
  LET what == IF o \in {"BOTTLE", None} THEN liq(s) ELSE o
      empty == [s EXCEPT !.prop["BOTTLE"] = 1, !.place[what] = 0]
      grown == (s.prop["PLANT"] + 2) % 6
  IN  CASE what \notin Liquids -> s
        [] what \in Liquids /\ ~toting(s, what) -> s
        [] what \in Liquids /\ toting(s, what) /\ at(s, "PLANT") ->
             IF what = "WATER"
             THEN describe([empty EXCEPT !.prop["PLANT"] = grown, !.prop["PLANT2"] = grown \div 2])
             ELSE empty
        [] what \in Liquids /\ toting(s, what) /\ ~at(s, "PLANT") /\ at(s, "DOOR") ->
             [empty EXCEPT !.prop["DOOR"] = IF what = "OIL" THEN 1 ELSE 0]
        [] OTHER -> empty

vdrink(s, o) ==
  IF o = "WATER" /\ liq(s) = "WATER" /\ here(s, "BOTTLE")
  THEN [s EXCEPT !.prop["BOTTLE"] = 1, !.place["WATER"] = 0] ELSE s

veat(s, o) == IF o = "FOOD" THEN destroy_object(s, "FOOD") ELSE s

------------------------------------------------------------------------------
\* KILL, FEED and THROW

\* The dragon dies: all that lay on either side of it is moved to its lair.
DragonSlain(s) ==
  LET lying == {o \in Objects : s.place[o] \in {DRAGON_LAIR - 1, DRAGON_LAIR + 1}}
                 \cup {"DRAGON", "RUG"}
      bare == move_second(move_second([s EXCEPT !.prop["DRAGON"] = 2, !.prop["RUG"] = 0],
                                      "DRAGON", NoRoom), "RUG", 0)
  IN  [moveAll(bare, lying, DRAGON_LAIR) EXCEPT !.newloc = DRAGON_LAIR]

vkill(s, o) ==
  CASE o = "BIRD" /\ ~s.closed ->
         {[destroy_object(s, "BIRD") EXCEPT
             !.prop["BIRD"] = 0,
             !.tally2 = IF s.place["SNAKE"] = KING_HALL THEN @ + 1 ELSE @]}
    [] o = "DWARF" /\ s.closed -> {dwarfend(s)}
    [] o = "DRAGON" /\ s.prop["DRAGON"] = 0 -> {s, DragonSlain(s)}
    [] OTHER -> {s}

vfeed(s, o) ==
  CASE o = "DWARF" /\ here(s, "FOOD") -> [s EXCEPT !.dflag = @ + 1]
    [] o = "BEAR" /\ here(s, "FOOD") ->
         [destroy_object(s, "FOOD") EXCEPT !.prop["BEAR"] = 1, !.fixed["AXE"] = 0,
                                           !.prop["AXE"] = 0]
    [] o = "SNAKE" /\ ~s.closed /\ here(s, "BIRD") ->
         [destroy_object(s, "BIRD") EXCEPT !.prop["BIRD"] = 0, !.tally2 = @ + 1]
    [] OTHER -> s

\* ivkill: the only foe in sight is attacked; two of them need a name.
ivkill(s, verb) ==
  LET dwarf == dcheck(s) # 0 /\ s.dflag >= 2
      foes == {o \in {"SNAKE"} : here(s, o)}
                \cup {o \in {"DRAGON"} : at(s, o) /\ s.prop[o] = 0}
                \cup {o \in {"TROLL"} : at(s, o)}
                \cup {o \in {"BEAR"} : here(s, o) /\ s.prop[o] = 0}
                \cup {o \in {"DWARF"} : dwarf}
      game == {o \in {"BIRD"} : here(s, o) /\ verb # "THROW"}
                \cup {o \in {"CLAM"} : here(s, o) \/ here(s, "OYSTER")}
      targets == IF foes # {} THEN foes ELSE game
  IN  IF Cardinality(targets) > 1 THEN {s}
      ELSE vkill(s, IF targets = {} THEN None ELSE CHOOSE o \in targets : TRUE)

\* Fault: the troll is paid at the near end of the bridge only.
TollPaid_NearEnd(s, o) ==
  drop(move_second(move_object(drop(s, o, 0), "TROLL", 0), "TROLL", 0), "TROLL2", CHASM_SW)

\* A treasure thrown to the troll buys the passage.
TollPaid(s, o) ==
  move_second(drop(move_second(move_object(drop(s, o, 0), "TROLL", 0), "TROLL", 0),
                   "TROLL2", CHASM_SW), "TROLL2", CHASM_NE)

\* The axe: one throw in three kills the dwarf; the bear keeps it.
AxeThrown(s) ==
  LET dropped(t) == describe(drop(t, "AXE", s.loc))
      i == dcheck(s)
  IN  CASE i # 0 ->
             {dropped(s), dropped([s EXCEPT !.dseen[i] = FALSE, !.dloc[i] = 0])}
        [] i = 0 /\ ((at(s, "DRAGON") /\ s.prop["DRAGON"] = 0) \/ at(s, "TROLL")) -> {dropped(s)}
        [] i = 0 /\ ~(at(s, "DRAGON") /\ s.prop["DRAGON"] = 0) /\ ~at(s, "TROLL")
             /\ here(s, "BEAR") /\ s.prop["BEAR"] = 0 ->
             {[drop(s, "AXE", s.loc) EXCEPT !.fixed["AXE"] = NoRoom, !.prop["AXE"] = 1]}
        [] OTHER -> ivkill(s, "KILL")

vthrow(s, named) ==
  LET o == IF toting(s, "ROD2") /\ named = "ROD" /\ ~toting(s, "ROD") THEN "ROD2" ELSE named
  IN  CASE ~toting(s, o) -> {s}
        [] toting(s, o) /\ at(s, "TROLL") /\ o \in Treasures -> {TollPaid(s, o)}
        [] toting(s, o) /\ o = "FOOD" /\ here(s, "BEAR") -> {vfeed(s, "BEAR")}
        [] toting(s, o) /\ o = "AXE" -> AxeThrown(s)
        [] OTHER -> vdrop(s, o)

------------------------------------------------------------------------------
\* BLAST, BREAK and WAKE: the end of the game

vblast(s) ==
  IF s.prop["ROD2"] < 0 \/ ~s.closed THEN s
  ELSE Over([s EXCEPT !.bonus = IF here(s, "ROD2") THEN 135
                                ELSE IF s.loc = REPOSITORY1 THEN 134 ELSE 133])

vbreak(s, o) ==
  CASE o = "MIRROR" -> IF s.closed THEN dwarfend(s) ELSE s
    [] o = "VASE" /\ s.prop["VASE"] = 0 ->
         [(IF toting(s, o) THEN drop(s, o, s.loc) ELSE s) EXCEPT !.prop[o] = 2, !.fixed[o] = NoRoom]
    [] OTHER -> s

vwake(s, o) == IF o = "DWARF" /\ s.closed THEN dwarfend(s) ELSE s

------------------------------------------------------------------------------
\* A verb with an object, and a verb alone

Verbs == {"TAKE", "DROP", "OPEN", "LOCK", "ON", "OFF", "WAVE", "KILL", "POUR", "EAT", "DRINK",
          "THROW", "FEED", "FILL", "BLAST", "BREAK", "WAKE", "QUIT", "SUSPEND"}

trverb(s, verb, o) ==
  CASE verb = "TAKE" -> vtake(s, o)
    [] verb = "DROP" -> vdrop(s, o)
    [] verb \in {"OPEN", "LOCK"} -> {vopen(s, verb, o)}
    [] verb = "ON" -> {von(s)}
    [] verb = "OFF" -> {voff(s)}
    [] verb = "WAVE" -> {vwave(s, o)}
    [] verb = "KILL" -> vkill(s, o)
    [] verb = "POUR" -> {vpour(s, o)}
    [] verb = "EAT" -> {veat(s, o)}
    [] verb = "DRINK" -> {vdrink(s, o)}
    [] verb = "THROW" -> vthrow(s, o)
    [] verb = "FEED" -> {vfeed(s, o)}
    [] verb = "FILL" -> vfill(s, o)
    [] verb = "BLAST" -> {vblast(s)}
    [] verb = "BREAK" -> {vbreak(s, o)}
    [] verb = "WAKE" -> {vwake(s, o)}
    [] OTHER -> {s}

\* ivtake: the only object lying here, unless a dwarf is watching.
ivtake(s) ==
  LET lying == {o \in Objects : s.place[o] = s.loc}
  IN  IF Cardinality(lying) = 1 /\ ~(dcheck(s) # 0 /\ s.dflag >= 2) /\ lying \cap Unnamed = {}
      THEN vtake(s, CHOOSE o \in lying : TRUE) ELSE {s}

\* ivopen: the door or grate here, else the shellfish; the chain only alone.
ivopen(s, verb) ==
  LET object == CASE at(s, "GRATE") -> "GRATE"
                  [] ~at(s, "GRATE") /\ at(s, "DOOR") -> "DOOR"
                  [] ~at(s, "GRATE") /\ ~at(s, "DOOR") /\ here(s, "OYSTER") -> "OYSTER"
                  [] ~at(s, "GRATE") /\ ~at(s, "DOOR") /\ ~here(s, "OYSTER")
                       /\ here(s, "CLAM") -> "CLAM"
                  [] OTHER -> None
  IN  CASE here(s, "CHAIN") /\ object # None -> s
        [] here(s, "CHAIN") /\ object = None -> vopen(s, verb, "CHAIN")
        [] OTHER -> vopen(s, verb, object)

itverb(s, verb) ==
  CASE verb = "TAKE" -> ivtake(s)
    [] verb \in {"OPEN", "LOCK"} -> {ivopen(s, verb)}
    [] verb \in {"ON", "OFF", "POUR"} -> trverb(s, verb, None)
    [] verb = "KILL" -> ivkill(s, verb)
    [] verb = "EAT" -> {IF here(s, "FOOD") THEN veat(s, "FOOD") ELSE s}
    [] verb = "DRINK" -> {vdrink(s, "WATER")}
    [] verb = "QUIT" -> {s, Over([s EXCEPT !.gaveup = TRUE])}
    [] verb = "FILL" -> IF here(s, "BOTTLE") THEN vfill(s, "BOTTLE") ELSE {s}
    [] verb = "BLAST" -> {vblast(s)}
    [] OTHER -> {s}

====
