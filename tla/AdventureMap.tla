---- MODULE AdventureMap ----
(***************************************************************************)
(* The cave of Adventure: the travel table and the condition bits of       *)
(* demo/bsd-games-3.3/adventure/loc.c.                                     *)
(*                                                                         *)
(* A row of the table lists the ways out of a room in the order dotrav     *)
(* tries them.  Consecutive entries with the same destination and the same *)
(* condition are one element here, with their motion words in order.       *)
(***************************************************************************)
EXTENDS Integers, Sequences

\* The condition of an entry (tcond): none, 100 (which dotrav takes as none but
\* goback as a condition), a percentage of the turn's draw, an object carried,
\* an object carried or here, an object not in a state.
Always == [kind |-> "always", obj |-> "", num |-> 0]
NotBack == [kind |-> "notback", obj |-> "", num |-> 0]
Chance(percent) == [kind |-> "chance", obj |-> "", num |-> percent]
Toting(o) == [kind |-> "toting", obj |-> o, num |-> 0]
Near(o) == [kind |-> "near", obj |-> o, num |-> 0]
NotIn(o, state) == [kind |-> "notin", obj |-> o, num |-> state]

If(words, dest, when) == [words |-> words, dest |-> dest, when |-> when]
To(words, dest) == If(words, dest, Always)

\* Destinations that are not rooms: spcmove's cases (SPCM) and a message that
\* leaves the player where he is (LMSG).
Special(n) == 300 + n
Says == 500

\* The condition bits (cond).
Forced == {16, 20, 21, 22, 26, 31, 32, 40, 59, 79, 89, 90}
Lit == (1 .. 10) \cup {100, 115, 116}
Springs == {1, 3, 4, 7, 38, 95, 113}
OilPools == {24}
NoPirate == {46, 47, 48, 53, 55, 57, 82, 85, 86} \cup (122 .. 130)

\* Rooms 1 to 10.
Rooms_1 == <<
  (* 1 *) << To(<<"HILL", "WEST", "UP">>, 2), To(<<"ENTER", "BUILDING", "INSIDE", "EAST">>, 3),
           To(<<"GULLY", "STREAM", "SOUTH", "DOWN">>, 4), To(<<"FOREST", "NORTH", "EAST">>, 5),
           To(<<"DEPRESSION">>, 8) >>,
  (* 2 *) << To(<<"HILL", "BUILDING", "FORWARD", "EAST", "NORTH", "DOWN">>, 1),
           To(<<"FOREST", "NORTH", "SOUTH">>, 5) >>,
  (* 3 *) << To(<<"ENTER", "OUTSIDE", "OUTDOORS", "WEST">>, 1), To(<<"XYZZY">>, 11),
           To(<<"PLUGH">>, 33), To(<<"STREAM">>, 79) >>,
  (* 4 *) << To(<<"DOWNSTREAM", "BUILDING", "NORTH">>, 1),
           To(<<"FOREST", "EAST", "WEST", "UP">>, 5), To(<<"SOUTH", "DOWN">>, 7),
           To(<<"DEPRESSION">>, 8) >>,
  (* 5 *) << To(<<"VALLEY", "EAST", "DOWN">>, 4),
           If(<<"FOREST", "FORWARD", "NORTH">>, 5, Chance(50)), To(<<"FOREST">>, 6),
           To(<<"WEST", "SOUTH">>, 5) >>,
  (* 6 *) << To(<<"HILL", "NORTH">>, 1), To(<<"VALLEY", "EAST", "WEST", "DOWN">>, 4),
           To(<<"FOREST", "SOUTH">>, 5) >>,
  (* 7 *) << To(<<"BUILDING">>, 1), To(<<"DOWNSTREAM", "NORTH">>, 4),
           To(<<"FOREST", "EAST", "WEST">>, 5), To(<<"ROCK", "BED", "SOUTH">>, 8),
           To(<<"SLIT", "STREAM", "DOWN">>, Says) >>,
  (* 8 *) << To(<<"FOREST", "EAST", "SOUTH", "WEST">>, 5), To(<<"BUILDING">>, 1),
           To(<<"DOWNSTREAM", "GULLY", "NORTH">>, 7),
           If(<<"ENTER", "INSIDE", "DOWN">>, 9, NotIn("GRATE", 0)), To(<<"ENTER">>, Says) >>,
  (* 9 *) << If(<<"OUTSIDE", "UP">>, 8, NotIn("GRATE", 0)), To(<<"OUTSIDE">>, Says),
           To(<<"CRAWL", "COBBLESTONE", "INSIDE", "WEST">>, 10), To(<<"PIT">>, 14),
           To(<<"DEBRIS">>, 11) >>,
  (* 10 *) << To(<<"OUTSIDE", "SURFACE", "NOWHERE", "EAST">>, 9),
           To(<<"INSIDE", "DARK", "WEST", "DEBRIS">>, 11), To(<<"PIT">>, 14) >>
  >>

\* Rooms 11 to 22.
Rooms_11 == <<
  (* 11 *) << If(<<"DEPRESSION">>, 8, NotIn("GRATE", 0)), To(<<"ENTRANCE">>, 9),
           To(<<"CRAWL", "COBBLESTONE", "PASSAGE", "LOW", "EAST">>, 10),
           To(<<"CANYON", "INSIDE", "UP", "WEST">>, 12), To(<<"XYZZY">>, 3), To(<<"PIT">>, 14) >>,
  (* 12 *) << If(<<"DEPRESSION">>, 8, NotIn("GRATE", 0)), To(<<"ENTRANCE">>, 9),
           To(<<"DOWN", "EAST", "DEBRIS">>, 11), To(<<"INSIDE", "UP", "WEST">>, 13),
           To(<<"PIT">>, 14) >>,
  (* 13 *) << If(<<"DEPRESSION">>, 8, NotIn("GRATE", 0)), To(<<"ENTRANCE">>, 9),
           To(<<"DEBRIS">>, 11), To(<<"CANYON", "EAST">>, 12),
           To(<<"PASSAGE", "PIT", "WEST">>, 14) >>,
  (* 14 *) << If(<<"DEPRESSION">>, 8, NotIn("GRATE", 0)), To(<<"ENTRANCE">>, 9),
           To(<<"DEBRIS">>, 11), To(<<"PASSAGE", "EAST">>, 13),
           If(<<"DOWN", "PIT", "STEPS">>, 20, Toting("NUGGET")), To(<<"DOWN">>, 15),
           To(<<"CRACK", "WEST">>, 16) >>,
  (* 15 *) << To(<<"LEFT", "SOUTH">>, 18), To(<<"FORWARD", "HALL", "WEST">>, 17),
           To(<<"STAIRS", "DOWN", "NORTH">>, 19),
           If(<<"UP", "PIT", "STEPS", "DOME", "PASSAGE", "EAST">>, 22, Toting("NUGGET")),
           To(<<"UP">>, 14), To(<<"Y2">>, 33) >>,
  (* 16 *) << To(<<"NORTH">>, 14) >>,
  (* 17 *) << To(<<"HALL", "EAST">>, 15), If(<<"JUMP">>, Says, NotIn("FISSURE", 0)),
           If(<<"FORWARD">>, 21, NotIn("FISSURE", 1)),
           If(<<"OVER", "ACROSS", "WEST", "CROSS">>, Says, NotIn("FISSURE", 1)),
           To(<<"OVER">>, 27) >>,
  (* 18 *) << To(<<"HALL", "OUTSIDE", "NORTH">>, 15) >>,
  (* 19 *) << To(<<"STAIRS", "UP", "EAST">>, 15), If(<<"NORTH", "LEFT">>, 28, NotIn("SNAKE", 0)),
           If(<<"SOUTH", "RIGHT">>, 29, NotIn("SNAKE", 0)),
           If(<<"WEST", "FORWARD">>, 30, NotIn("SNAKE", 0)), To(<<"NORTH">>, 32),
           If(<<"SW">>, 74, Chance(35)), If(<<"SW">>, 32, Near("SNAKE")), To(<<"SECRET">>, 74) >>,
  (* 20 *) << >>,
  (* 21 *) << >>,
  (* 22 *) << To(<<"NORTH">>, 15) >>
  >>

\* Rooms 23 to 37.
Rooms_23 == <<
  (* 23 *) << To(<<"EAST", "ACROSS">>, 67), To(<<"WEST", "SLAB">>, 68),
           To(<<"DOWN", "PIT">>, 25), To(<<"HOLE">>, Says) >>,
  (* 24 *) << To(<<"UP", "OUTSIDE">>, 67) >>,
  (* 25 *) << To(<<"UP", "OUTSIDE">>, 23), If(<<"CLIMB">>, 31, NotIn("PLANT", 4)),
           To(<<"CLIMB">>, 26) >>,
  (* 26 *) << To(<<"ANY">>, 88) >>,
  (* 27 *) << If(<<"JUMP">>, Says, NotIn("FISSURE", 0)),
           If(<<"FORWARD">>, 21, NotIn("FISSURE", 1)),
           If(<<"OVER", "ACROSS", "EAST", "CROSS">>, Says, NotIn("FISSURE", 1)),
           To(<<"OVER">>, 17), To(<<"NORTH">>, 40), To(<<"WEST">>, 41) >>,
  (* 28 *) << To(<<"HALL", "OUTSIDE", "SOUTH">>, 19), To(<<"NORTH", "Y2">>, 33),
           To(<<"DOWN", "HOLE">>, 36) >>,
  (* 29 *) << To(<<"HALL", "OUTSIDE", "NORTH">>, 19) >>,
  (* 30 *) << To(<<"HALL", "OUTSIDE", "EAST">>, 19), To(<<"WEST", "UP">>, 62) >>,
  (* 31 *) << If(<<"ANY">>, 89, NotIn("PLANT", 2)), To(<<"ANY">>, 90) >>,
  (* 32 *) << To(<<"ANY">>, 19) >>,
  (* 33 *) << To(<<"PLUGH">>, 3), To(<<"SOUTH">>, 28), To(<<"EAST", "WALL", "BROKEN">>, 34),
           To(<<"WEST">>, 35), If(<<"PLOVER">>, Special(2), Toting("EMERALD")),
           To(<<"PLOVER">>, 100) >>,
  (* 34 *) << To(<<"DOWN", "Y2">>, 33), To(<<"UP">>, 15) >>,
  (* 35 *) << To(<<"EAST", "Y2">>, 33), To(<<"JUMP">>, 20) >>,
  (* 36 *) << To(<<"EAST", "CRAWL">>, 37), To(<<"UP", "HOLE">>, 28), To(<<"WEST">>, 39),
           To(<<"BEDQUILT">>, 65) >>,
  (* 37 *) << To(<<"WEST", "CRAWL">>, 36), To(<<"DOWN", "PIT", "CLIMB">>, 38) >>
  >>

\* Rooms 38 to 54.
Rooms_38 == <<
  (* 38 *) << To(<<"CLIMB", "UP", "OUTSIDE">>, 37),
           To(<<"SLIT", "STREAM", "DOWN", "DOWNSTREAM", "UNUSED5">>, Says) >>,
  (* 39 *) << To(<<"EAST", "PASSAGE">>, 36), To(<<"DOWN", "HOLE", "FLOOR">>, 64),
           To(<<"BEDQUILT">>, 65) >>,
  (* 40 *) << To(<<"FORWARD">>, 41) >>,
  (* 41 *) << To(<<"SOUTH", "UP", "PASSAGE", "CLIMB">>, 42), To(<<"EAST">>, 27),
           To(<<"NORTH">>, 59), To(<<"WEST", "CRAWL">>, 60) >>,
  (* 42 *) << To(<<"UP">>, 41), To(<<"NORTH">>, 42), To(<<"EAST">>, 43), To(<<"SOUTH">>, 45),
           To(<<"WEST">>, 80) >>,
  (* 43 *) << To(<<"WEST">>, 42), To(<<"SOUTH">>, 44), To(<<"EAST">>, 45) >>,
  (* 44 *) << To(<<"EAST">>, 43), To(<<"DOWN">>, 48), To(<<"SOUTH">>, 50), To(<<"NORTH">>, 82) >>,
  (* 45 *) << To(<<"WEST">>, 42), To(<<"NORTH">>, 43), To(<<"EAST">>, 46), To(<<"SOUTH">>, 47),
           To(<<"UP", "DOWN">>, 87) >>,
  (* 46 *) << To(<<"WEST", "OUTSIDE">>, 45) >>,
  (* 47 *) << To(<<"EAST", "OUTSIDE">>, 45) >>,
  (* 48 *) << To(<<"UP", "OUTSIDE">>, 44) >>,
  (* 49 *) << To(<<"EAST">>, 50), To(<<"WEST">>, 51) >>,
  (* 50 *) << To(<<"EAST">>, 44), To(<<"WEST">>, 49), To(<<"DOWN">>, 51), To(<<"SOUTH">>, 52) >>,
  (* 51 *) << To(<<"WEST">>, 49), To(<<"UP">>, 50), To(<<"EAST">>, 52), To(<<"SOUTH">>, 53) >>,
  (* 52 *) << To(<<"WEST">>, 50), To(<<"EAST">>, 51), To(<<"SOUTH">>, 52), To(<<"UP">>, 53),
           To(<<"NORTH">>, 55), To(<<"DOWN">>, 86) >>,
  (* 53 *) << To(<<"WEST">>, 51), To(<<"NORTH">>, 52), To(<<"SOUTH">>, 54) >>,
  (* 54 *) << To(<<"WEST", "OUTSIDE">>, 53) >>
  >>

\* Rooms 55 to 68.
Rooms_55 == <<
  (* 55 *) << To(<<"WEST">>, 52), To(<<"NORTH">>, 55), To(<<"DOWN">>, 56), To(<<"EAST">>, 57) >>,
  (* 56 *) << To(<<"UP", "OUTSIDE">>, 55) >>,
  (* 57 *) << To(<<"DOWN", "CLIMB">>, 13), To(<<"WEST">>, 55), To(<<"SOUTH">>, 58),
           To(<<"NORTH">>, 83), To(<<"EAST">>, 84) >>,
  (* 58 *) << To(<<"EAST", "OUTSIDE">>, 57) >>,
  (* 59 *) << To(<<"FORWARD">>, 27) >>,
  (* 60 *) << To(<<"EAST", "UP", "CRAWL">>, 41), To(<<"WEST">>, 61),
           To(<<"NORTH", "DOWN", "HOLE">>, 62) >>,
  (* 61 *) << To(<<"EAST">>, 60), To(<<"NORTH">>, 62),
            If(<<"SOUTH">>, 107, NotBack) >>,
  (* 62 *) << To(<<"WEST">>, 60), To(<<"NORTH">>, 63), To(<<"EAST">>, 30), To(<<"SOUTH">>, 61) >>,
  (* 63 *) << To(<<"SOUTH", "OUTSIDE">>, 62) >>,
  (* 64 *) << To(<<"UP", "CLIMB", "ROOM">>, 39), To(<<"WEST", "BEDQUILT">>, 65),
           To(<<"NORTH", "SHELL">>, 103), To(<<"EAST">>, 106) >>,
  (* 65 *) << To(<<"EAST">>, 64), To(<<"WEST">>, 66), If(<<"SOUTH">>, Says, Chance(80)),
           To(<<"SLAB">>, 68), If(<<"UP">>, Says, Chance(80)), If(<<"UP">>, 70, Chance(50)),
           To(<<"UP">>, 39), If(<<"NORTH">>, Says, Chance(60)), If(<<"NORTH">>, 72, Chance(75)),
           To(<<"NORTH">>, 71), If(<<"DOWN">>, Says, Chance(80)), To(<<"DOWN">>, 106) >>,
  (* 66 *) << To(<<"NE">>, 65), To(<<"WEST">>, 67), If(<<"SOUTH">>, Says, Chance(80)),
           To(<<"CANYON">>, 77), To(<<"EAST">>, 96), If(<<"NW">>, Says, Chance(50)),
           To(<<"ORIENTAL">>, 97) >>,
  (* 67 *) << To(<<"EAST">>, 66), To(<<"WEST", "ACROSS">>, 23), To(<<"DOWN", "PIT">>, 24) >>,
  (* 68 *) << To(<<"SOUTH">>, 23), To(<<"UP", "CLIMB">>, 69), To(<<"NORTH">>, 65) >>
  >>

\* Rooms 69 to 88.
Rooms_69 == <<
  (* 69 *) << To(<<"DOWN", "SLAB">>, 68), If(<<"SOUTH">>, 120, NotIn("DRAGON", 0)),
           To(<<"SOUTH">>, 119), To(<<"NORTH">>, 109), To(<<"RESERVOIR">>, 113) >>,
  (* 70 *) << To(<<"NORTH">>, 71), To(<<"DOWN", "PASSAGE">>, 65), To(<<"SOUTH">>, 111) >>,
  (* 71 *) << To(<<"SE">>, 65), To(<<"SOUTH">>, 70), To(<<"NORTH">>, 110) >>,
  (* 72 *) << To(<<"BEDQUILT">>, 65), To(<<"SW">>, 118), To(<<"NORTH">>, 73),
           To(<<"SE", "ORIENTAL">>, 97) >>,
  (* 73 *) << To(<<"SOUTH", "CRAWL", "OUTSIDE">>, 72) >>,
  (* 74 *) << To(<<"EAST">>, 19), If(<<"WEST">>, 120, NotIn("DRAGON", 0)), To(<<"WEST">>, 121),
           To(<<"DOWN">>, 75) >>,
  (* 75 *) << To(<<"SOUTH">>, 76), To(<<"NORTH">>, 77) >>,
  (* 76 *) << To(<<"NORTH">>, 75) >>,
  (* 77 *) << To(<<"EAST">>, 75), To(<<"WEST">>, 78), To(<<"NORTH", "CRAWL">>, 66) >>,
  (* 78 *) << To(<<"SOUTH">>, 77) >>,
  (* 79 *) << To(<<"FORWARD", "OUTSIDE">>, 3) >>,
  (* 80 *) << To(<<"NORTH">>, 42), To(<<"WEST", "SOUTH">>, 80), To(<<"EAST">>, 81) >>,
  (* 81 *) << To(<<"WEST", "OUTSIDE">>, 80) >>,
  (* 82 *) << To(<<"SOUTH", "OUTSIDE">>, 44) >>,
  (* 83 *) << To(<<"SOUTH">>, 57), To(<<"EAST">>, 84), To(<<"WEST">>, 85) >>,
  (* 84 *) << To(<<"NORTH">>, 57), To(<<"WEST">>, 83), To(<<"NW">>, 114) >>,
  (* 85 *) << To(<<"EAST", "OUTSIDE">>, 83) >>,
  (* 86 *) << To(<<"UP", "OUTSIDE">>, 52) >>,
  (* 87 *) << To(<<"UP", "DOWN">>, 45) >>,
  (* 88 *) << To(<<"DOWN", "CLIMB", "EAST">>, 25), To(<<"JUMP">>, 20), To(<<"WEST", "GIANT">>, 92) >>
  >>

\* Rooms 89 to 104.
Rooms_89 == <<
  (* 89 *) << To(<<"UP", "OUTSIDE">>, 25) >>,
  (* 90 *) << To(<<"UP", "OUTSIDE">>, 23) >>,
  (* 91 *) << To(<<"NORTH", "CAVERN", "PASSAGE">>, 95), To(<<"DOWN", "CLIMB">>, 72) >>,
  (* 92 *) << To(<<"SOUTH">>, 88), To(<<"EAST">>, 93), To(<<"NORTH">>, 94) >>,
  (* 93 *) << To(<<"SOUTH", "GIANT", "OUTSIDE">>, 92) >>,
  (* 94 *) << To(<<"SOUTH", "GIANT", "PASSAGE">>, 92),
           If(<<"NORTH", "ENTER", "CAVERN">>, 95, NotIn("DOOR", 0)), To(<<"NORTH">>, Says) >>,
  (* 95 *) << To(<<"SOUTH", "OUTSIDE">>, 94), To(<<"GIANT">>, 92), To(<<"WEST">>, 91) >>,
  (* 96 *) << To(<<"WEST", "OUTSIDE">>, 66) >>,
  (* 97 *) << To(<<"SE">>, 66), To(<<"WEST", "CRAWL">>, 72), To(<<"UP", "NORTH", "CAVERN">>, 98) >>,
  (* 98 *) << To(<<"SOUTH", "ORIENTAL">>, 97), To(<<"WEST">>, 99) >>,
  (* 99 *) << To(<<"NW", "CAVERN">>, 98), To(<<"EAST", "PASSAGE">>, Special(1)),
           To(<<"EAST">>, 100) >>,
  (* 100 *) << To(<<"WEST", "PASSAGE", "OUTSIDE">>, Special(1)), To(<<"WEST">>, 99),
           If(<<"PLOVER">>, Special(2), Toting("EMERALD")), To(<<"PLOVER">>, 33),
           To(<<"NE", "DARK">>, 101) >>,
  (* 101 *) << To(<<"SOUTH", "PLOVER", "OUTSIDE">>, 100) >>,
  (* 102 *) << To(<<"DOWN", "SHELL", "OUTSIDE">>, 103) >>,
  (* 103 *) << To(<<"UP", "HALL">>, 102), To(<<"DOWN">>, 104),
           If(<<"SOUTH">>, Says, Toting("CLAM")), If(<<"SOUTH">>, Says, Toting("OYSTER")),
           To(<<"SOUTH">>, 64) >>,
  (* 104 *) << To(<<"UP", "SHELL">>, 103), To(<<"DOWN">>, 105) >>
  >>

\* Rooms 105 to 116.
Rooms_105 == <<
  (* 105 *) << To(<<"UP", "OUTSIDE">>, 104), To(<<"SHELL">>, 103) >>,
  (* 106 *) << To(<<"UP">>, 64), To(<<"WEST">>, 65), To(<<"EAST">>, 108) >>,
  (* 107 *) << To(<<"SOUTH">>, 131), To(<<"SW">>, 132), To(<<"NE">>, 133), To(<<"SE">>, 134),
           To(<<"UP">>, 135), To(<<"NW">>, 136), To(<<"EAST">>, 137), To(<<"WEST">>, 138),
           To(<<"NORTH">>, 139), To(<<"DOWN">>, 61) >>,
  (* 108 *) <<
           If(<<"EAST", "NORTH", "SOUTH", "NE", "SE", "SW", "NW", "UP", "DOWN">>, Says, Chance(95)),
           To(<<"EAST">>, 106), To(<<"WEST">>, Says) >>,
  (* 109 *) << To(<<"SOUTH">>, 69), To(<<"NORTH", "RESERVOIR">>, 113) >>,
  (* 110 *) << To(<<"WEST">>, 71), To(<<"JUMP">>, 20) >>,
  (* 111 *) << To(<<"NORTH">>, 70), If(<<"DOWN", "JUMP", "CLIMB">>, 50, Chance(40)),
           If(<<"DOWN">>, 53, Chance(50)), To(<<"DOWN">>, 45) >>,
  (* 112 *) << To(<<"SW">>, 131), To(<<"NORTH">>, 132), To(<<"EAST">>, 133), To(<<"NW">>, 134),
           To(<<"SE">>, 135), To(<<"NE">>, 136), To(<<"WEST">>, 137), To(<<"DOWN">>, 138),
           To(<<"UP">>, 139), To(<<"SOUTH">>, 140) >>,
  (* 113 *) << To(<<"SOUTH", "OUTSIDE", "UNUSED109">>, 109) >>,
  (* 114 *) << To(<<"SE">>, 84) >>,
  (* 115 *) << To(<<"SW">>, 116) >>,
  (* 116 *) << To(<<"NE">>, 115), To(<<"DOWN">>, Says) >>
  >>

\* Rooms 117 to 128.
Rooms_117 == <<
  (* 117 *) << To(<<"SW">>, 118), If(<<"OVER", "ACROSS", "CROSS", "NE">>, Says, Near("TROLL")),
           If(<<"OVER">>, Says, NotIn("CHASM", 0)), To(<<"OVER">>, Special(3)),
           If(<<"JUMP">>, 21, NotIn("CHASM", 0)), To(<<"JUMP">>, Says) >>,
  (* 118 *) << To(<<"DOWN">>, 72), To(<<"UP">>, 117) >>,
  (* 119 *) << To(<<"NORTH", "OUTSIDE">>, 69), To(<<"EAST", "FORWARD">>, Says) >>,
  (* 120 *) << To(<<"NORTH">>, 69), To(<<"EAST">>, 74) >>,
  (* 121 *) << To(<<"EAST", "OUTSIDE">>, 74), To(<<"NORTH", "FORWARD">>, Says) >>,
  (* 122 *) << To(<<"NE">>, 123), If(<<"OVER", "ACROSS", "CROSS", "SW">>, Says, Near("TROLL")),
           To(<<"OVER">>, Special(3)), To(<<"JUMP">>, Says), To(<<"FORK">>, 124),
           To(<<"VIEW">>, 126), To(<<"BARREN">>, 129) >>,
  (* 123 *) << To(<<"WEST">>, 122), To(<<"EAST", "FORK">>, 124), To(<<"VIEW">>, 126),
           To(<<"BARREN">>, 129) >>,
  (* 124 *) << To(<<"WEST">>, 123), To(<<"NE", "LEFT">>, 125),
           To(<<"SE", "RIGHT", "DOWN">>, 128), To(<<"VIEW">>, 126), To(<<"BARREN">>, 129) >>,
  (* 125 *) << To(<<"SOUTH", "FORK">>, 124), To(<<"NORTH", "VIEW">>, 126),
           To(<<"EAST", "CRAWL">>, 127) >>,
  (* 126 *) << To(<<"SOUTH", "PASSAGE", "OUTSIDE">>, 125), To(<<"FORK">>, 124),
           To(<<"DOWN", "JUMP">>, Says) >>,
  (* 127 *) << To(<<"WEST", "OUTSIDE", "CRAWL">>, 125), To(<<"FORK">>, 124), To(<<"VIEW">>, 126) >>,
  (* 128 *) << To(<<"NORTH", "UP", "FORK">>, 124), To(<<"SOUTH", "DOWN", "BARREN">>, 129),
           To(<<"VIEW">>, 126) >>
  >>

\* Rooms 129 to 140.
Rooms_129 == <<
  (* 129 *) << To(<<"WEST", "UP">>, 128), To(<<"FORK">>, 124),
           To(<<"EAST", "INSIDE", "BARREN", "ENTER">>, 130), To(<<"VIEW">>, 126) >>,
  (* 130 *) << To(<<"WEST">>, 129), To(<<"FORK">>, 124), To(<<"VIEW">>, 126) >>,
  (* 131 *) << To(<<"WEST">>, 107), To(<<"SE">>, 132), To(<<"NW">>, 133), To(<<"SW">>, 134),
           To(<<"NE">>, 135), To(<<"UP">>, 136), To(<<"DOWN">>, 137), To(<<"NORTH">>, 138),
           To(<<"SOUTH">>, 139), To(<<"EAST">>, 112) >>,
  (* 132 *) << To(<<"NW">>, 107), To(<<"UP">>, 131), To(<<"NORTH">>, 133), To(<<"SOUTH">>, 134),
           To(<<"WEST">>, 135), To(<<"SW">>, 136), To(<<"NE">>, 137), To(<<"EAST">>, 138),
           To(<<"DOWN">>, 139), To(<<"SE">>, 112) >>,
  (* 133 *) << To(<<"UP">>, 107), To(<<"DOWN">>, 131), To(<<"WEST">>, 132), To(<<"NE">>, 134),
           To(<<"SW">>, 135), To(<<"EAST">>, 136), To(<<"NORTH">>, 137), To(<<"NW">>, 138),
           To(<<"SE">>, 139), To(<<"SOUTH">>, 112) >>,
  (* 134 *) << To(<<"NE">>, 107), To(<<"NORTH">>, 131), To(<<"NW">>, 132), To(<<"SE">>, 133),
           To(<<"EAST">>, 135), To(<<"DOWN">>, 136), To(<<"SOUTH">>, 137), To(<<"UP">>, 138),
           To(<<"WEST">>, 139), To(<<"SW">>, 112) >>,
  (* 135 *) << To(<<"NORTH">>, 107), To(<<"SE">>, 131), To(<<"DOWN">>, 132),
           To(<<"SOUTH">>, 133), To(<<"EAST">>, 134), To(<<"WEST">>, 136), To(<<"SW">>, 137),
           To(<<"NE">>, 138), To(<<"NW">>, 139), To(<<"UP">>, 112) >>,
  (* 136 *) << To(<<"EAST">>, 107), To(<<"WEST">>, 131), To(<<"UP">>, 132), To(<<"SW">>, 133),
           To(<<"DOWN">>, 134), To(<<"SOUTH">>, 135), To(<<"NW">>, 137), To(<<"SE">>, 138),
           To(<<"NE">>, 139), To(<<"NORTH">>, 112) >>,
  (* 137 *) << To(<<"SE">>, 107), To(<<"NE">>, 131), To(<<"SOUTH">>, 132), To(<<"DOWN">>, 133),
           To(<<"UP">>, 134), To(<<"NW">>, 135), To(<<"NORTH">>, 136), To(<<"SW">>, 138),
           To(<<"EAST">>, 139), To(<<"WEST">>, 112) >>,
  (* 138 *) << To(<<"DOWN">>, 107), To(<<"EAST">>, 131), To(<<"NE">>, 132), To(<<"UP">>, 133),
           To(<<"WEST">>, 134), To(<<"NORTH">>, 135), To(<<"SOUTH">>, 136), To(<<"SE">>, 137),
           To(<<"SW">>, 139), To(<<"NW">>, 112) >>,
  (* 139 *) << To(<<"SW">>, 107), To(<<"NW">>, 131), To(<<"EAST">>, 132), To(<<"WEST">>, 133),
           To(<<"NORTH">>, 134), To(<<"DOWN">>, 135), To(<<"SE">>, 136), To(<<"UP">>, 137),
           To(<<"SOUTH">>, 138), To(<<"NE">>, 112) >>,
  (* 140 *) << To(<<"NORTH", "OUTSIDE">>, 112) >>
  >>

\* gettrav: the row of every room.
Travel == Rooms_1 \o Rooms_11 \o Rooms_23 \o Rooms_38 \o Rooms_55 \o Rooms_69 \o Rooms_89
            \o Rooms_105 \o Rooms_117 \o Rooms_129

\* The motion words of the table a player can type (words.c): "steps" reads as
\* the object, and entries 5 and 109 are not words.
Motions == UNION {UNION {{r[i].words[k] : k \in 1 .. Len(r[i].words)} : i \in 1 .. Len(r)} :
                    r \in {Travel[l] : l \in 1 .. Len(Travel)}}
             \ {"ANY", "STEPS", "UNUSED5", "UNUSED109"}

====
