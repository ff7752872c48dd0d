---------------------------- MODULE DragonScene -----------------------------
(***************************************************************************)
(* The scene of the dragon-boat game and what a cast of the hook meets     *)
(* (dragonboatcore.go, dragonboat_rules.go).                               *)
(*                                                                         *)
(* Operators only.  A card's scene is drawn from a hash of the card; here  *)
(* it is any sequence of obstacles and any sequence of zongzi, each with   *)
(* an identifier, a place and a radius.  Coordinates are whole numbers, so *)
(* that squares of distances are exact.                                    *)
(***************************************************************************)
EXTENDS Lists, FiniteSetsExt

Points == [x : Int, y : Int]
Objects == [id : STRING, x : Int, y : Int, r : Int]

HookOrigin == [x |-> 50, y |-> 18]

Clamp(v) == IF v < 0 THEN 0 ELSE IF v > 100 THEN 100 ELSE v
ClampPoint(p) == [x |-> Clamp(p.x), y |-> Clamp(p.y)]

\* A scene without what earlier casts took out of it.
Left(objects, removed) ==
  Picked(objects, {i \in DOMAIN objects : objects[i].id \notin Range(removed)})

Scene(layout, removed) ==
  [obstacles |-> Left(layout.obstacles, removed), zongzi |-> Left(layout.zongzi, removed)]

(***************************************************************************)
(* Geometry: how far along the line from a to b (times its length, squared)*)
(* the foot of the perpendicular from an object lies, if the line meets it.*)
(***************************************************************************)

Dot(u, v) == u.x * v.x + u.y * v.y
Minus(p, q) == [x |-> p.x - q.x, y |-> p.y - q.y]

Along(a, b, object) == Dot(Minus(object, a), Minus(b, a))

\* ac and len are squared lengths: from a to the object and to b.
Touches(ac, len, t, r) ==
  IF len = 0 THEN ac <= r * r ELSE t \in 0..len /\ ac * len - t * t <= r * r * len

Meets(a, b, object) ==
  LET u == Minus(object, a)   v == Minus(b, a)
  IN  Touches(Dot(u, u), Dot(v, v), Along(a, b, object), object.r)

\* The first of the objects nearest to a on the line to b; none is the empty sequence.
Nearest(objects, a, b) ==
  LET met  == {i \in DOMAIN objects : Meets(a, b, objects[i])}
      near == {i \in met : \A j \in met : Along(a, b, objects[i]) <= Along(a, b, objects[j])}
  IN  IF met = {} THEN <<>> ELSE <<objects[Min(near)]>>

\* Seeded fault: obstacles are transparent.
ResolveCast_Through(scene, target) ==
  LET z == Nearest(scene.zongzi, HookOrigin, ClampPoint(target))
  IN  IF z = <<>> THEN [hit |-> FALSE, taken |-> <<>>] ELSE [hit |-> TRUE, taken |-> <<z[1].id>>]

\* An obstacle in front of the first zongzi takes the cast, and is gone afterwards.
CastMeets(o, z, b) ==
  LET blocked == z # <<>> => Along(HookOrigin, b, o[1]) < Along(HookOrigin, b, z[1])
  IN  IF o # <<>> /\ blocked THEN [hit |-> FALSE, taken |-> <<o[1].id>>]
      ELSE IF z = <<>> THEN [hit |-> FALSE, taken |-> <<>>]
      ELSE [hit |-> TRUE, taken |-> <<z[1].id>>]

ResolveCast(scene, target) ==
  LET b == ClampPoint(target)
  IN  CastMeets(Nearest(scene.obstacles, HookOrigin, b), Nearest(scene.zongzi, HookOrigin, b), b)

\* The stored list of removed objects, read without empty and repeated names.
ReadRemoved(stored) ==
  Picked(stored, {i \in DOMAIN stored : /\ stored[i] # ""
                                        /\ \A j \in 1..(i - 1) : stored[j] # stored[i]})

RemovedAfter(stored, cast) ==
  LET ids == ReadRemoved(stored)
  IN  IF cast.taken = <<>> \/ cast.taken[1] \in Range(ids) THEN ids ELSE ids \o cast.taken

(***************************************************************************)
(* Rounds: [used, caught, peeled, status]                                  *)
(***************************************************************************)

CanFish(total, round) == total > 0 /\ round.used < total
CanPeel(round) == round.peeled < round.caught

StatusFor(round, total) ==
  IF CanPeel(round) THEN "caught"
  ELSE IF total > 0 /\ round.used >= total THEN "peeled" ELSE "fishing"

Fish(total, round, cast) ==
  LET next == [used |-> round.used + 1, caught |-> round.caught + (IF cast.hit THEN 1 ELSE 0),
               peeled |-> round.peeled, status |-> round.status]
  IN  IF CanFish(total, round) THEN [next EXCEPT !.status = StatusFor(next, total)] ELSE round

Peel(total, round) ==
  LET next == [round EXCEPT !.peeled = @ + 1]
  IN  IF CanPeel(round) THEN [next EXCEPT !.status = StatusFor(next, total)] ELSE round

(***************************************************************************)
(* A card played through: one cast per target.                             *)
(***************************************************************************)

\* Layouts as they are drawn: every object has a name of its own.
OwnNames(objects) ==
  /\ \A i \in DOMAIN objects : objects[i].id # ""
  /\ \A i, j \in DOMAIN objects : objects[i].id = objects[j].id => i = j

WellLaid(layout) ==
  /\ layout.obstacles \in Seq(Objects) /\ OwnNames(layout.obstacles)
  /\ layout.zongzi \in Seq(Objects) /\ OwnNames(layout.zongzi)
  /\ \A i \in DOMAIN layout.obstacles, j \in DOMAIN layout.zongzi :
       layout.obstacles[i].id # layout.zongzi[j].id

NewRound == [used |-> 0, caught |-> 0, peeled |-> 0, status |-> "fishing"]

CastOnce(layout, total, game, target) ==
  IF ~CanFish(total, game.round) THEN game
  ELSE LET cast == ResolveCast(Scene(layout, game.removed), target)
       IN  [round   |-> Fish(total, game.round, cast),
            removed |-> RemovedAfter(game.removed, cast)]

Played(layout, total, targets) ==
  LET after[n \in 0..Len(targets)] ==
        IF n = 0 THEN [round |-> NewRound, removed |-> <<>>]
        ELSE CastOnce(layout, total, after[n - 1], targets[n])
  IN  after[Len(targets)]

ClearWay(scene, b, cast) ==
  cast.hit => \A o \in Range(scene.obstacles) : \A z \in Range(scene.zongzi) :
    (z.id = cast.taken[1] /\ Meets(HookOrigin, b, o)) => Along(HookOrigin, b, z) <= Along(HookOrigin, b, o)

FairGame(layout, total, targets, game) ==
  LET scene == Scene(layout, game.removed)
  IN  /\ game.round.used <= total /\ game.round.used <= Len(targets)
      /\ game.round.caught =
           Cardinality({z \in Range(layout.zongzi) : z.id \in Range(game.removed)})
      /\ \A t \in Range(targets) : ClearWay(scene, ClampPoint(t), ResolveCast(scene, t))

\* However a card is cast: each cast counts once, each zongzi of the scene is caught at
\* most once, as many are caught as are gone from the scene, and the first zongzi of a
\* line is only reached when nothing stands before it.
EachZongziOnce(layout, total, targets) ==
  FairGame(layout, total, targets, Played(layout, total, targets))
=============================================================================
