----------------------------- MODULE WalkCache -----------------------------
(***************************************************************************)
(* Creature::localMapCache: a monster keeps, for every tile of its         *)
(* viewport, whether it could enter it, and its searches and its own steps *)
(* believe the cache instead of the tile (getWalkCache).  The cache is     *)
(* rebuilt on a jump, shifted by one row or column on a step, and corrected*)
(* tile by tile as items and creatures come and go.                        *)
(*                                                                         *)
(* One monster and one other creature on a map of several floors.  A field *)
(* stops the monster unless it ignores fields (ignoreFieldDamage); field   *)
(* items are of types that block path finding, so their removal is seen.   *)
(***************************************************************************)
EXTENDS Integers, FiniteSets, FiniteSetsExt

CONSTANTS Width, Height, Floors,                \* the map
          maxWalkCacheWidth, maxWalkCacheHeight,\* 11 and 11 in the code
          Steps,                                \* the offsets of the monster's steps
          MaxBlocked,                           \* bound: items and fields on the map
          Nowhere

VARIABLES world,  \* [me, other, items, fields, ignore]
          cache,  \* localMapCache, by offset from the monster
          isMapLoaded

cacheVars == <<world, cache, isMapLoaded>>

Positions == (1..Width) \X (1..Height) \X (1..Floors)
Cells == (-maxWalkCacheWidth..maxWalkCacheWidth) \X (-maxWalkCacheHeight..maxWalkCacheHeight)

AllSteps == ({-1, 0, 1} \X {-1, 0, 1}) \ {<<0, 0>>}
WalkCacheAssumption == /\ maxWalkCacheWidth \in Nat \ {0} /\ maxWalkCacheHeight \in Nat \ {0}
                       /\ Width \in Nat /\ Height \in Nat /\ Floors \in Nat
                       /\ Steps \subseteq AllSteps /\ Nowhere \notin Positions

Cell(p, w) == <<p[1] - w.me[1], p[2] - w.me[2]>>
TileAt(c, w) == <<w.me[1] + c[1], w.me[2] + c[2], w.me[3]>>

\* Tile::queryAdd for the monster, for path finding and any field it ignores.
QueryAdd(w, p) ==
    /\ p \in Positions \ (w.items \union {w.me, w.other})
    /\ p \in w.fields => w.ignore

\* updateTileCache
UpdateTile(c, w, p) ==
    IF p[3] = w.me[3] /\ Cell(p, w) \in Cells THEN [c EXCEPT ![Cell(p, w)] = QueryAdd(w, p)] ELSE c

UpdateMap(w) == [c \in Cells |-> QueryAdd(w, TileAt(c, w))]

(***************************************************************************)
(* onCreatureMove of the monster itself.                                   *)
(***************************************************************************)
ShiftRows(c, w, dy) ==
    [k \in Cells |->
        IF dy = 0 THEN c[k]
        ELSE IF k[2] = dy * maxWalkCacheHeight THEN QueryAdd(w, TileAt(k, w))
        ELSE c[<<k[1], k[2] + dy>>]]

\* The first row of the shift by columns: getDistanceY is never negative, so a
\* step to the south skips the first row as a step to the north does.
StartRow(dy) == IF dy = 0 THEN -maxWalkCacheHeight ELSE 1 - maxWalkCacheHeight

ShiftColumns(c, w, dx, dy) ==
    [k \in Cells |->
        IF dx = 0 THEN c[k]
        ELSE IF k[1] = dx * maxWalkCacheWidth THEN QueryAdd(w, TileAt(k, w))
        ELSE IF k[2] >= StartRow(dy) THEN c[<<k[1] + dx, k[2]>>]
        ELSE c[k]]

\* fault: the tile that was left keeps what was known of it
OldTileStays(c, w, old) == c
\* The tile that was left is asked again.
OldTileSeen(c, w, old) == UpdateTile(c, w, old)

Shifted(c, w, old) ==
    LET dx == w.me[1] - old[1]
        dy == w.me[2] - old[2]
    IN  OldTileSeen(ShiftColumns(ShiftRows(c, w, dy), w, dx, dy), w, old)

(***************************************************************************)
(* The steps.                                                              *)
(***************************************************************************)
CacheInit ==
    /\ \E p \in Positions : world = [me |-> p, other |-> Nowhere, items |-> {}, fields |-> {}, ignore |-> FALSE]
    /\ cache = [c \in Cells |-> FALSE] /\ isMapLoaded = FALSE

\* onCreatureAppear of the monster, or its first onThink: it does nothing
\* before.
Load ==
    /\ ~isMapLoaded
    /\ isMapLoaded' = TRUE /\ cache' = UpdateMap(world)
    /\ UNCHANGED world

Step ==
    /\ \E d \in Steps :
         LET p == TileAt(d, world)
             w == [world EXCEPT !.me = p]
         IN  /\ isMapLoaded /\ QueryAdd(world, p)
             /\ world' = w /\ cache' = Shifted(cache, w, world.me)
    /\ UNCHANGED isMapLoaded

\* A teleport, or stairs: more than one tile or another floor.
Teleport ==
    /\ \E p \in Positions \ (world.items \union {world.me, world.other}) :
         LET w == [world EXCEPT !.me = p]
         IN  /\ isMapLoaded
             /\ \/ p[3] # world.me[3] \/ \E i \in {1, 2} : p[i] - world.me[i] \notin -1..1
             /\ world' = w /\ cache' = UpdateMap(w)
    /\ UNCHANGED isMapLoaded

\* The other creature appears, moves or is removed: both tiles are asked again.
OtherMoves ==
    /\ \E p \in (Positions \ (world.items \union {world.me})) \union {Nowhere} :
         LET w == [world EXCEPT !.other = p]
             seen(c, q) == IF q = Nowhere THEN c ELSE UpdateTile(c, w, q)
         IN  /\ p # world.other
             /\ world' = w
             /\ cache' = IF isMapLoaded THEN seen(seen(cache, p), world.other) ELSE cache
    /\ UNCHANGED isMapLoaded

\* onAddTileItem, onUpdateTileItem and onRemoveTileItem.
TileChanges ==
    /\ \E p \in Positions \ {world.me}, kind \in {"items", "fields"} :
         LET w == [world EXCEPT ![kind] = IF p \in @ THEN @ \ {p} ELSE @ \union {p}]
         IN  /\ Cardinality(w.items \union w.fields) <= MaxBlocked
             /\ world' = w
             /\ cache' = IF isMapLoaded THEN UpdateTile(cache, w, p) ELSE cache
    /\ UNCHANGED isMapLoaded

\* drainHealth while stepping at random, and the end of it in getNextStep or
\* with a condition of the field's kind.
IgnoreFields ==
    LET w == [world EXCEPT !.ignore = ~@]
    IN  /\ isMapLoaded /\ world' = w /\ cache' = UpdateMap(w)
        /\ UNCHANGED isMapLoaded

CacheNext == Load \/ Step \/ Teleport \/ OtherMoves \/ TileChanges \/ IgnoreFields

CacheSpec == CacheInit /\ [][CacheNext]_cacheVars
-----------------------------------------------------------------------------
CacheTypeOK ==
    /\ world \in [me: Positions, other: Positions \union {Nowhere}, items: SUBSET Positions,
                  fields: SUBSET Positions, ignore: BOOLEAN]
    /\ cache \in [Cells -> BOOLEAN] /\ isMapLoaded \in BOOLEAN

\* What getWalkCache answers is what the tile would answer: "update map cache"
\* keeps every cell (but the monster's own, which is never read) true to the
\* map, whatever moved in between.
CacheIsTrue ==
    isMapLoaded => \A c \in Cells \ {<<0, 0>>} : cache[c] = QueryAdd(world, TileAt(c, world))

CacheAgrees == CacheTypeOK /\ CacheIsTrue
=============================================================================
