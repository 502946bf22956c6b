---- MODULE AdventureWorld ----
(***************************************************************************)
(* Adventure's objects and the player's movement: obj.c and the movement   *)
(* half of turn.c in demo/bsd-games-3.3/adventure.                         *)
(*                                                                         *)
(* The program's globals are the fields of one record; a C function is an  *)
(* operator from that record to the next, or to the set of the next ones   *)
(* when it draws a number or asks the player.  What only chooses a message *)
(* (visited, turns, dkill, lmwarn) is left out.  foobar is left out too:   *)
(* no typed word reaches the statement of ivfoo that sets it.              *)
(***************************************************************************)
EXTENDS AdventureMap, FiniteSets, FiniteSetsExt

CARRIED == 141
NoRoom == 255       \* -1 stored in a loc_t
MAXDIE == 3
MIST_HALL == 15
WELLHOUSE == 3
Y2_ROOM == 33
KING_HALL == 19
GIANT_ROOM == 92
REPOSITORY1 == 115
REPOSITORY2 == 116
CHASM_SW == 117
CHASM_NE == 122
DRAGON_LAIR == 120
chloc == 114
chloc2 == 140
daltloc == 18

\* Every object with its first place and its second (place, fixed).  SPARE is
\* the unnamed slots 65 to MAXTRS of the treasure range and BEYOND those from
\* there to MAXOBJ, each of which the code treats alike; the other objects
\* without a name are called by their number.
Things == <<
  <<"KEYS", 3, 0>>, <<"LAMP", 3, 0>>, <<"GRATE", 8, 9>>, <<"CAGE", 10, 0>>, <<"ROD", 11, 0>>,
  <<"ROD2", 0, 0>>, <<"STEPS", 14, 15>>, <<"BIRD", 13, 0>>, <<"DOOR", 94, CARRIED>>,
  <<"PILLOW", 96, 0>>, <<"SNAKE", 19, CARRIED>>, <<"FISSURE", 17, 27>>,
  <<"TABLET", 101, CARRIED>>, <<"CLAM", 103, 0>>, <<"OYSTER", 0, 0>>, <<"MAGAZINE", 106, 0>>,
  <<"DWARF", 0, CARRIED>>, <<"KNIFE", 0, 0>>, <<"FOOD", 3, 0>>, <<"BOTTLE", 3, 0>>,
  <<"WATER", 0, 0>>, <<"OIL", 0, 0>>, <<"MIRROR", 109, CARRIED>>, <<"PLANT", 25, CARRIED>>,
  <<"PLANT2", 23, 67>>, <<"OBJ26", 111, CARRIED>>, <<"OBJ27", 35, 110>>, <<"AXE", 0, 0>>,
  <<"OBJ29", 97, CARRIED>>, <<"OBJ30", 0, CARRIED>>, <<"DRAGON", 119, 121>>,
  <<"CHASM", 117, 122>>, <<"TROLL", 117, 122>>, <<"TROLL2", 0, 0>>, <<"BEAR", 130, CARRIED>>,
  <<"MESSAGE", 0, CARRIED>>, <<"OBJ37", 126, CARRIED>>, <<"VEND", 140, CARRIED>>,
  <<"BATTERIES", 0, 0>>, <<"OBJ40", 96, CARRIED>>,
  <<"NUGGET", 18, 0>>, <<"DIAMONDS", 27, 0>>, <<"GOLD_BARS", 28, 0>>, <<"JEWELS", 29, 0>>,
  <<"COINS", 30, 0>>, <<"CHEST", 0, 0>>, <<"EGGS", 92, 0>>, <<"TRIDENT", 95, 0>>,
  <<"VASE", 97, 0>>, <<"EMERALD", 100, 0>>, <<"PYRAMID", 101, 0>>, <<"PEARL", 0, 0>>,
  <<"RUG", 119, 121>>, <<"SPICES", 127, CARRIED>>, <<"CHAIN", 130, 0>>, <<"SPARE", 0, 0>>,
  <<"BEYOND", 0, 0>> >>

Objects == {Things[i][1] : i \in 1 .. Len(Things)}
Treasures == {Things[i][1] : i \in 41 .. 55}
Unnamed == {"SPARE", "BEYOND"}
Slots(o) == CASE o = "SPARE" -> 15 [] o = "BEYOND" -> 20 [] OTHER -> 1
Liquids == {"WATER", "OIL"}
None == "NONE"

Place(o, column) == Things[CHOOSE i \in 1 .. Len(Things) : Things[i][1] = o][column]

\* The globals of a game not yet begun.
NewGame ==
  [mode |-> "arrive", loc |-> WELLHOUSE, newloc |-> 1, oldloc |-> 1, oldloc2 |-> 1,
   looked |-> 0, motion |-> None,
   place |-> [o \in Objects |-> Place(o, 2)], fixed |-> [o \in Objects |-> Place(o, 3)],
   prop |-> [o \in Objects |-> IF o \in Treasures \cup Unnamed THEN -1 ELSE 0],
   holding |-> 0, tally |-> 15, tally2 |-> 0, clock1 |-> 30, clock2 |-> 50, limit |-> 1000,
   numdie |-> 0, dflag |-> 0, knfloc |-> 0, bonus |-> 0,
   dloc |-> <<19, 27, 33, 44, 64, 114>>, odloc |-> <<0, 0, 0, 0, 0, 0>>,
   dseen |-> [i \in 1 .. 6 |-> FALSE],
   wzdark |-> FALSE, closing |-> FALSE, closed |-> FALSE, panic |-> FALSE, gaveup |-> FALSE]

------------------------------------------------------------------------------
\* obj.c

toting(s, o) == s.place[o] = CARRIED
here(s, o) == s.place[o] = s.loc \/ toting(s, o)
at(s, o) == s.place[o] = s.loc \/ s.fixed[o] = s.loc

carry(s, o) ==
  IF toting(s, o) THEN s
  ELSE [s EXCEPT !.place[o] = CARRIED, !.holding = (@ + 1) % 256]

drop(s, o, where) ==
  [s EXCEPT !.place[o] = where,
            !.holding = IF toting(s, o) THEN (@ + 255) % 256 ELSE @]

move_object(s, o, where) == drop(carry(s, o), o, where)
destroy_object(s, o) == move_object(s, o, 0)

\* move_object on a second place (an index above MAXOBJ).
move_second(s, o, where) == [s EXCEPT !.fixed[o] = where]

put(s, o, where, pval) == [move_object(s, o, where) EXCEPT !.prop[o] = -1 - pval]

\* The objects of a set all moved to one room.
moveAll(s, os, where) == FoldSet(LAMBDA o, t : move_object(t, o, where), s, os)

liq2(pbottle) == CASE pbottle = 0 -> "WATER" [] pbottle = 2 -> "OIL" [] OTHER -> None

\* liq: prop[BOTTLE] is negated in the repository.
liq(s) == LET i == s.prop["BOTTLE"] IN liq2(IF i > -1 - i THEN i ELSE -1 - i)

liqloc(l) == IF l \in Springs THEN "WATER" ELSE IF l \in OilPools THEN "OIL" ELSE None

dark(s) == s.loc \notin Lit /\ (s.prop["LAMP"] = 0 \/ ~here(s, "LAMP"))

------------------------------------------------------------------------------
\* Descriptions

\* descitem: things seen for the first time leave the count of the unseen.
descitem(s) ==
  LET new == IF s.closed THEN {} ELSE {o \in Objects : at(s, o) /\ s.prop[o] < 0}
      count == FoldSet(LAMBDA o, n : n + Slots(o), 0, new)
      t == (s.tally + 256 - count) % 256
  IN  [s EXCEPT !.prop = [o \in Objects |->
                  IF o \in new THEN (IF o \in {"RUG", "CHAIN"} THEN 1 ELSE 0) ELSE @[o]],
                !.tally = t,
                !.limit = IF t = s.tally2 /\ t # 0 /\ @ > 35 THEN 35 ELSE @]

describe(s) == IF dark(s) THEN s ELSE descitem(s)

------------------------------------------------------------------------------
\* Death and the end of the game

Over(s) == [s EXCEPT !.mode = "over"]

\* Fault: the liquid in the bottle is buried like everything else.
death_LiquidBuried(s) ==
  LET died == [s EXCEPT !.numdie = @ + 1]
      held == {o \in Objects : toting(s, o)}
      buried == moveAll([died EXCEPT !.prop["LAMP"] = IF toting(s, "LAMP") THEN 0 ELSE @],
                        held \ {"LAMP"}, s.oldloc2)
      reborn == [moveAll(buried, held \cap {"LAMP"}, 1) EXCEPT !.newloc = WELLHOUSE,
                                                               !.oldloc = s.loc]
  IN  {Over(died)} \cup
      (IF s.closing \/ died.numdie >= MAXDIE THEN {} ELSE {reborn})

\* death: the player is asked whether to be reincarnated; what he carried stays
\* where he died and the lamp goes to the end of the road.
death(s) ==
  LET died == [s EXCEPT !.numdie = @ + 1]
      emptied == [died EXCEPT !.place["WATER"] = 0, !.place["OIL"] = 0,
                              !.prop["LAMP"] = IF toting(s, "LAMP") THEN 0 ELSE @]
      held == {o \in Objects \ Liquids : toting(s, o)}
      buried == moveAll(emptied, held \ {"LAMP"}, s.oldloc2)
      reborn == [moveAll(buried, held \cap {"LAMP"}, 1) EXCEPT !.newloc = WELLHOUSE,
                                                               !.oldloc = s.loc]
  IN  {Over(died)} \cup
      (IF s.closing \/ died.numdie >= MAXDIE THEN {} ELSE {reborn})

dwarfend(s) == Over([s EXCEPT !.numdie = @ + 1])

------------------------------------------------------------------------------
\* Movement

\* spcmove: the plover alcove, the troll bridge, the emerald left behind.
spcmove(s, n) ==
  LET other == IF s.loc = CHASM_SW THEN CHASM_NE ELSE CHASM_SW
      crossed == [s EXCEPT !.newloc = other,
                           !.prop["TROLL"] = IF @ = 0 THEN 1 ELSE @]
      fallen == drop([crossed EXCEPT !.prop["CHASM"] = 1, !.prop["TROLL"] = 2,
                                      !.prop["BEAR"] = 3, !.fixed["BEAR"] = NoRoom,
                                      !.oldloc2 = other,
                                      !.tally2 = IF s.prop["SPICES"] < 0 THEN @ + 1 ELSE @],
                     "BEAR", other)
      returned == move_second(move_second(move_object(move_object(
                    [s EXCEPT !.prop["TROLL"] = 0], "TROLL2", 0), "TROLL", CHASM_SW),
                    "TROLL2", 0), "TROLL", CHASM_NE)
  IN  CASE n = 1 -> {IF s.holding = 0 \/ (s.holding = 1 /\ toting(s, "EMERALD"))
                     THEN [s EXCEPT !.newloc = 199 - s.loc] ELSE s}
        [] n = 3 /\ s.prop["TROLL"] = 1 -> {returned}
        [] n = 3 /\ s.prop["TROLL"] # 1 -> IF toting(s, "BEAR") THEN death(fallen) ELSE {crossed}
        [] OTHER -> {drop(s, "EMERALD", s.loc)}

Holds(s, when, draw) ==
  CASE when.kind \in {"always", "notback"} -> TRUE
    [] when.kind = "chance" -> draw < when.num
    [] when.kind = "toting" -> toting(s, when.obj)
    [] when.kind = "near" -> toting(s, when.obj) \/ at(s, when.obj)
    [] when.kind = "notin" -> s.prop[when.obj] # when.num

\* gettrav: in no room at all the table keeps the last row it held.
Row(s) == LET l == IF s.loc # 0 THEN s.loc ELSE s.looked IN IF l = 0 THEN << >> ELSE Travel[l]

\* From the first entry of the row for the motion on, the first whose condition
\* holds, with one draw for the whole turn.
Follow(s, row) ==
  LET hits == {i \in 1 .. Len(row) :
                 \E k \in 1 .. Len(row[i].words) : row[i].words[k] \in {s.motion, "ANY"}}
      draws == {0} \cup {row[i].when.num : i \in {j \in 1 .. Len(row) :
                                                    row[j].when.kind = "chance"}}
      Open(draw) == {i \in 1 .. Len(row) : i >= Min(hits) /\ Holds(s, row[i].when, draw)}
      still == [s EXCEPT !.newloc = s.loc]
      Go(draw) ==
        IF hits = {} \/ Open(draw) = {} THEN {still}
        ELSE LET dest == row[Min(Open(draw))].dest
             IN  IF dest = Says THEN {still}
                 ELSE IF dest > 300 THEN spcmove(still, dest - 300)
                 ELSE {[s EXCEPT !.newloc = dest]}
  IN  UNION {Go(draw) : draw \in draws}

dotrav(s) == Follow(s, Row(s))

AllMotions == Motions \cup {"BACK", "LOOK", "CAVE", "NOWHERE"}

\* The forced rooms that lead on to room l.
LeadOn(l) == {f \in Forced : Travel[f] # << >> /\ Head(Travel[f]).dest = l}

\* The motion of the first unconditional entry that leads to the wanted room,
\* else of the last unconditional one.  An entry to a forced room that leads on
\* to the wanted one is remembered by the number of that room, which indexes
\* past the end of the table: what is read there is no motion or any of them.
WaysBack(row, want) ==
  LET free == {i \in 1 .. Len(row) : row[i].when = Always}
      direct == {i \in free : row[i].dest = want}
      last == Max(free)
      LastWord(words) == words[Len(words)]
  IN  CASE direct # {} -> {Head(row[Min(direct)].words)}
        [] direct = {} /\ free # {} ->
             IF row[last].dest \in LeadOn(want) THEN AllMotions \cup {None}
             ELSE IF last = 1 /\ Len(row[1].words) = 1 THEN {}
             ELSE {LastWord(row[last].words)}
        [] OTHER -> {}

\* goback
goback(s) ==
  LET want == IF s.oldloc \in Forced THEN s.oldloc2 ELSE s.oldloc
      moved == [s EXCEPT !.oldloc2 = s.oldloc, !.oldloc = s.loc]
      ways == IF want = s.loc THEN {} ELSE WaysBack(Row(s), want)
  IN  UNION {IF ways = {} THEN {moved} ELSE dotrav([moved EXCEPT !.motion = m]) :
               m \in IF ways = {} THEN {None} ELSE ways}

\* domove
domove(s) ==
  CASE s.motion \in {"NOWHERE", "CAVE"} -> {s}
    [] s.motion = "BACK" -> goback(s)
    [] s.motion = "LOOK" ->
         {[s EXCEPT !.wzdark = FALSE, !.newloc = s.loc, !.loc = 0,
                    !.looked = IF s.loc # 0 THEN s.loc ELSE @]}
    [] OTHER -> dotrav([s EXCEPT !.oldloc2 = s.oldloc, !.oldloc = s.loc])

====
