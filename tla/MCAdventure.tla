---- MODULE MCAdventure ----
(***************************************************************************)
(* Games of Adventure taken up at the places where much can go wrong.  A   *)
(* plan is a game in progress, the rooms its dwarves wander through and    *)
(* the words its player uses; left bounds the commands he still gives.     *)
(* busy counts the rounds of the program's loop since the last prompt.     *)
(***************************************************************************)
EXTENDS Adventure

VARIABLES plan, left, busy

allvars == <<game, saved, plan, left, busy>>

MostRounds == 3

\* Treasures already found and left in the building, the dwarves all dead and
\* the pirate robbed of his chest; the lamp burns in the player's hands.
Found(s, os) ==
  [s EXCEPT !.prop = [o \in Objects |-> IF o \in os THEN 0 ELSE @[o]],
            !.place = [o \in Objects |-> IF o \in os THEN WELLHOUSE ELSE @[o]],
            !.tally = @ - Cardinality(os)]
Carrying(s, os) ==
  [s EXCEPT !.place = [o \in Objects |-> IF o \in os THEN CARRIED ELSE @[o]],
            !.holding = @ + Cardinality(os)]
In(s, room, before) ==
  [s EXCEPT !.loc = room, !.newloc = room, !.oldloc = before, !.oldloc2 = before]
Lighted(s) == Carrying([s EXCEPT !.prop["LAMP"] = 1, !.limit = 500], {"LAMP"})
NoDwarves(s) ==
  [s EXCEPT !.dflag = 3, !.dloc = <<0, 0, 0, 0, 0, 114>>, !.odloc = <<0, 0, 0, 0, 0, 114>>,
            !.place["AXE"] = 15, !.place["MESSAGE"] = chloc2]
UnderGrate == 9

Robbed == NoDwarves(Found(NewGame, {"NUGGET", "CHEST"}))
Open == [Robbed EXCEPT !.prop["GRATE"] = 1, !.place["KEYS"] = 8]

Plan(start, spots, motions, verbs, objects, alone, turns) ==
  [start |-> start, spots |-> spots, motions |-> motions, verbs |-> verbs, objects |-> objects,
   alone |-> alone, turns |-> turns]

\* The whole cave in the dark, the ways opened and the troll paid.
Exploring ==
  Plan(TrollGone([Found(Open, {"EGGS"}) EXCEPT
         !.prop["FISSURE"] = 1, !.prop["PLANT"] = 4, !.prop["PLANT2"] = 2, !.prop["DOOR"] = 1,
         !.prop["SNAKE"] = -1, !.place["SNAKE"] = 0, !.place["BIRD"] = 19, !.place["EGGS"] = 0,
         !.numdie = 2]),
       {114}, Motions \cup {"BACK", "LOOK"}, {}, {}, {}, 0)

\* The cage, the bird and the rod on the way to the snake.
Birding ==
  Plan(Lighted(In([Open EXCEPT !.place["ROD"] = 13, !.place["CAGE"] = 13], 13, 12)), {114},
       {"PIT", "DOWN"}, {"TAKE", "DROP", "KILL", "FEED"}, {"BIRD", "CAGE", "ROD", "SNAKE"},
       {"KILL", "TAKE"}, 7)

\* The bottle, the plant and the oil.
Watering ==
  Plan(Lighted(In([Carrying(Open, {"BOTTLE"}) EXCEPT !.prop["BOTTLE"] = 1], 24, 67)), {114},
       {"UP", "WEST", "DOWN"}, {"TAKE", "DROP", "POUR"}, {"BOTTLE", "WATER", "OIL"},
       {"FILL", "DRINK", "POUR", "OFF"}, 7)
Serving ==
  Plan(In([Carrying(Open, {"BOTTLE", "KEYS", "FOOD", "LAMP", "CAGE"}) EXCEPT !.place["WATER"] = CARRIED],
          3, 1), {114},
       {"LOOK"}, {"TAKE", "DROP", "POUR", "DRINK", "THROW"}, {"BOTTLE", "WATER", "FOOD", "CAGE", "KEYS"},
       {"FILL", "EAT", "TAKE", "QUIT"}, 6)

\* The troll's bridge: paid with the trident, crossed with the bear.
Crossing ==
  Plan(Lighted(In(Carrying(Found(Open, {"TRIDENT", "RUG"}), {"TRIDENT"}), CHASM_SW, 118)), {114},
       {"OVER", "BACK", "SW"}, {"THROW", "DROP", "TAKE"}, {"TRIDENT"}, {"KILL"}, 6)
Bear ==
  Plan(Lighted(In(Carrying(TrollGone([Found(Open, {"TRIDENT"}) EXCEPT !.place["TRIDENT"] = 0,
                                        !.prop["TROLL"] = 1]), {"FOOD", "KEYS", "AXE"}), 130, 129)), {114},
       {"FORK", "WEST", "OVER", "BACK"}, {"TAKE", "DROP", "FEED", "OPEN", "LOCK", "THROW"}, {"BEAR", "CHAIN", "AXE"},
       {}, 7)
\* The clam, the oyster and the pearl; the emerald's alcove; the vase and its pillow.
Diving ==
  Plan(Lighted(In(Carrying(Found(Open, {"TRIDENT"}), {"TRIDENT"}), 103, 64)), {114},
       {"SOUTH", "DOWN", "SHELL"}, {"TAKE", "DROP", "OPEN"}, {"CLAM", "OYSTER", "PEARL", "TRIDENT"},
       {"OPEN", "KILL"}, 7)
Squeezing ==
  Plan(Lighted(In(Open, 99, 98)), {114}, {"EAST", "WEST", "PLOVER", "BACK"}, {"TAKE", "DROP"},
       {"EMERALD", "LAMP"}, {"ON", "OFF"}, 7)
Furnishing ==
  Plan(Lighted(In([Carrying(Open, {"PILLOW"}) EXCEPT !.place["AXE"] = 66], 66, 65)), {114},
       {"EAST", "OUTSIDE", "ORIENTAL", "SE"}, {"TAKE", "DROP", "BREAK", "FILL"}, {"VASE", "PILLOW"},
       {"TAKE"}, 7)

\* The dragon between its two doors, and what lies beside it.
Hunting ==
  Plan([Lighted(In(Carrying(Open, {"AXE", "ROD"}), 119, 69)) EXCEPT !.dflag = 2], {114},
       {"NORTH", "EAST"}, {"DROP", "TAKE", "THROW", "KILL"}, {"AXE", "RUG", "DRAGON"}, {"KILL", "OFF"}, 6)

\* The pirate not yet met, with treasures in the hands, on the floor and at home.
Hoarding ==
  LET s == [NoDwarves(Found(NewGame, {"DIAMONDS", "GOLD_BARS"})) EXCEPT
              !.place["MESSAGE"] = 0, !.place["GOLD_BARS"] = 28]
  IN  Plan(Lighted(In(Carrying(s, {"DIAMONDS"}), Y2_ROOM, 28)), {28, 114},
           {"PLUGH", "SOUTH", "NORTH", "BACK", "LOOK"}, {"TAKE", "DROP"}, {"GOLD_BARS", "DIAMONDS"}, {}, 6)

\* The dwarves: the first meeting, then two of them with their knives.
Meeting ==
  Plan(Lighted(In(Open, MIST_HALL, 14)), {28},
       {"WEST", "DOWN", "EAST"}, {"TAKE"}, {"AXE", "KNIFE"}, {}, 4)
Fighting ==
  LET s == [Open EXCEPT !.dflag = 2, !.dloc = <<28, 0, 29, 0, 0, 114>>]
  IN  Plan(Lighted(In(Carrying(s, {"AXE", "FOOD"}), KING_HALL, 15)), {28},
           {"NORTH", "SOUTH", "BACK"}, {"TAKE", "THROW", "FEED"}, {"AXE", "DWARF", "KNIFE"}, {}, 6)

\* The batteries bought while the lamp dies.
Dimming ==
  Plan([Lighted(In(Carrying(Found(Open, {"COINS"}), {"COINS"}), 140, 112)) EXCEPT
          !.limit = 4, !.numdie = 1], {114},
       {"NORTH", "SOUTH"}, {"DROP", "TAKE"}, {"COINS", "BATTERIES", "LAMP"}, {"ON", "OFF"}, 6)
Homing ==
  Plan([Lighted(In(Open, UnderGrate, 10)) EXCEPT !.limit = 2], {114},
       {"UP", "CRAWL"}, {"OPEN", "LOCK", "TAKE", "DROP"}, {"GRATE", "KEYS", "LAMP"}, {"ON"}, 6)

\* The last treasure seen, the cave closing, and the repository.
Rich ==
  Carrying([TrollGone(Robbed) EXCEPT
              !.prop = [o \in Objects |-> IF o \in Treasures \ {"JEWELS"} THEN 0
                                          ELSE IF o = "SNAKE" THEN -1 ELSE @[o]],
              !.place = [o \in Objects |-> IF o \in Treasures \ {"JEWELS", "SPICES", "CHAIN"} THEN WELLHOUSE
                                           ELSE IF o \in {"SNAKE", "BIRD"} THEN 0 ELSE @[o]],
              !.tally = 1, !.prop["TROLL"] = 2, !.prop["BEAR"] = 1, !.prop["GRATE"] = 1,
              !.prop["DRAGON"] = 2], {"KEYS"})
Ending ==
  Plan(Lighted(In(Rich, KING_HALL, 28)), {114},
       {"SOUTH", "OUT"}, {}, {}, {"BLAST"}, 90)
Leaving ==
  Plan(In([Carrying(StartClosing(Rich), {"LAMP", "ROD"}) EXCEPT
             !.tally = 0, !.prop["JEWELS"] = 0, !.prop["LAMP"] = 1, !.clock2 = 3], UnderGrate, 10), {114},
       {"UP", "NE", "SW"}, {"TAKE", "OPEN", "BREAK", "WAKE", "THROW", "DROP"},
       {"GRATE", "ROD", "BIRD", "CAGE", "OYSTER", "DWARF", "MIRROR"}, {"BLAST"}, 7)

\* A light in hand, so that a game left in the middle of a LOOK is taken up
\* again with the things of no room in view.
Looking ==
  Plan(Lighted(In([Rich EXCEPT !.tally = 0, !.prop["JEWELS"] = 0, !.place["JEWELS"] = WELLHOUSE,
                               !.clock1 = 2], KING_HALL, 15)), {114},
       {"LOOK", "SOUTH", "BACK"}, {"TAKE"}, {"LAMP"}, {"TAKE", "OFF"}, 7)
Glancing ==
  Plan(Lighted(In(Carrying(Found(Open, {"COINS"}), {"COINS"}), 61, 60)), {114},
       {"LOOK", "SOUTH", "BACK", "EAST"}, {}, {}, {"OFF"}, 7)

Plans == [exploring |-> Exploring, birding |-> Birding, watering |-> Watering, serving |-> Serving,
          crossing |-> Crossing, bear |-> Bear, diving |-> Diving, squeezing |-> Squeezing,
          furnishing |-> Furnishing, hunting |-> Hunting, hoarding |-> Hoarding,
          meeting |-> Meeting, fighting |-> Fighting, dimming |-> Dimming, homing |-> Homing,
          ending |-> Ending, leaving |-> Leaving,
          looking |-> Looking, glancing |-> Glancing]

\* The plans whose player saves his game and takes it up again.
Saving == {"serving", "fighting", "looking", "glancing"}

MCInit == \E p \in DOMAIN Plans :
  /\ plan = p /\ left = Plans[p].turns /\ busy = 0
  /\ game = Plans[p].start /\ saved = NoGame

Playing ==
  /\ Plans[plan].turns = 0 \/ left > 0
  /\ left' = IF Plans[plan].turns = 0 THEN 0 ELSE left - 1
  /\ busy' = 0
  /\ UNCHANGED plan

MCNext ==
  \/ /\ Arrive(Plans[plan].spots)
     /\ busy' = Min({busy + 1, MostRounds + 1})
     /\ UNCHANGED <<plan, left>>
  \/ \E m \in Plans[plan].motions : Walk(m) /\ Playing
  \/ \E verb \in Plans[plan].verbs, o \in Plans[plan].objects : Command(verb, o) /\ Playing
  \/ \E verb \in Plans[plan].alone : Alone(verb) /\ Playing
  \/ plan \in Saving /\ Leave /\ Playing
  \/ Return /\ busy' = 0 /\ UNCHANGED <<plan, left>>

MCSpec == MCInit /\ [][MCNext]_allvars

\* Every turn comes to the prompt, or to the end of the game, in a few rounds,
\* through chains of forced rooms, deaths and the closing of the cave; except
\* that a player who says LOOK in a room of forced moves is moved by that LOOK
\* for ever.  (turn, domove, stimer)
PromptReturns ==
  busy <= MostRounds \/ (game.motion = "LOOK" /\ game.newloc \in Forced)

====
