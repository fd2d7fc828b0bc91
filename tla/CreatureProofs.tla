--------------------------- MODULE CreatureProofs ---------------------------
(***************************************************************************)
(* Proofs about the creatures of the world.  WalkCache: on a map and with  *)
(* a cache of any size, the cache of walkable tiles is that of the map     *)
(* after any sequence of changes and steps, but for the diagonal steps to  *)
(* the south, which the run walk_cache shows to break it.  Walk: whatever  *)
(* is commanded, cancelled, paralysed or teleported, the player's handles  *)
(* are those of events that are pending, and an action has one owner.      *)
(* MonsterMind: with any spells, summons and times a monster keeps the     *)
(* rounds of its spells, the limits of its summons and its challenges.     *)
(* Combat: with any creatures, healths and blows nobody stays in the game  *)
(* without health or a pending death, the marks of a fight end with it,    *)
(* and targets are legal.  Spawn: a spawn of any size never doubles a      *)
(* monster, and its dead are swept.                                        *)
(***************************************************************************)
EXTENDS Walk, WalkCache, MonsterMind, Combat, Spawn, FiniteSetTheorems, NaturalsInduction, WellFoundedInduction, TLAPS

-----------------------------------------------------------------------------
(* WalkCache.                                                              *)

(* The cell k of the cache c says what the tile under it says. *)
TrueAt(c, w, k) == c[k] = QueryAdd(w, TileAt(k, w))

Worlds == [me: Positions, other: Positions \union {Nowhere}, items: SUBSET Positions,
           fields: SUBSET Positions, ignore: BOOLEAN]

(* A position is three integers. *)
LEMMA PositionFacts ==
  ASSUME WalkCacheAssumption, NEW p \in Positions
  PROVE  /\ p[1] \in Int /\ p[2] \in Int /\ p[3] \in Int
         /\ p = <<p[1], p[2], p[3]>>
BY DEF Positions, WalkCacheAssumption

LEMMA CellFacts ==
  ASSUME WalkCacheAssumption, NEW k \in Cells
  PROVE  /\ k[1] \in -maxWalkCacheWidth..maxWalkCacheWidth
         /\ k[2] \in -maxWalkCacheHeight..maxWalkCacheHeight
         /\ k[1] \in Int /\ k[2] \in Int /\ k = <<k[1], k[2]>>
BY DEF Cells, WalkCacheAssumption

(* The tile under the cell of a position is that position. *)
LEMMA TileOfCell ==
  ASSUME WalkCacheAssumption, NEW w \in Worlds, NEW p \in Positions, NEW k \in Cells
  PROVE  TileAt(k, w) = p <=> p[3] = w.me[3] /\ Cell(p, w) = k
<1>1. /\ w.me \in Positions
      /\ w.me[1] \in Int /\ w.me[2] \in Int /\ w.me[3] \in Int
  BY PositionFacts DEF Worlds
<1>2. /\ p[1] \in Int /\ p[2] \in Int /\ p[3] \in Int
      /\ p = <<p[1], p[2], p[3]>>
  BY PositionFacts
<1>3. k[1] \in Int /\ k[2] \in Int /\ k = <<k[1], k[2]>>
  BY CellFacts
<1>4. TileAt(k, w) = p <=> w.me[1] + k[1] = p[1] /\ w.me[2] + k[2] = p[2] /\ w.me[3] = p[3]
  BY <1>2 DEF TileAt
<1>5. Cell(p, w) = k <=> p[1] - w.me[1] = k[1] /\ p[2] - w.me[2] = k[2]
  BY <1>3 DEF Cell
<1> QED  BY <1>1, <1>2, <1>3, <1>4, <1>5

(* updateTileCache() makes the cell of one position true and keeps the     *)
(* others.                                                                 *)
LEMMA UpdateTileFacts ==
  ASSUME WalkCacheAssumption, NEW w \in Worlds, NEW p \in Positions,
         NEW c \in [Cells -> BOOLEAN]
  PROVE  /\ UpdateTile(c, w, p) \in [Cells -> BOOLEAN]
         /\ \A k \in Cells : IF TileAt(k, w) = p THEN TrueAt(UpdateTile(c, w, p), w, k)
                             ELSE UpdateTile(c, w, p)[k] = c[k]
<1>1. QueryAdd(w, p) \in BOOLEAN
  BY DEF QueryAdd
<1>2. CASE p[3] = w.me[3] /\ Cell(p, w) \in Cells
  <2>1. UpdateTile(c, w, p) = [c EXCEPT ![Cell(p, w)] = QueryAdd(w, p)]
    BY <1>2 DEF UpdateTile
  <2>2. UpdateTile(c, w, p) \in [Cells -> BOOLEAN]
    BY <2>1, <1>1, <1>2
  <2>3. ASSUME NEW k \in Cells, TileAt(k, w) = p
        PROVE  TrueAt(UpdateTile(c, w, p), w, k)
    <3>1. Cell(p, w) = k
      BY <2>3, TileOfCell
    <3> QED  BY <3>1, <2>1, <2>3 DEF TrueAt
  <2>4. ASSUME NEW k \in Cells, TileAt(k, w) # p
        PROVE  UpdateTile(c, w, p)[k] = c[k]
    <3>1. Cell(p, w) # k
      BY <2>4, <1>2, TileOfCell
    <3> QED  BY <3>1, <2>1
  <2> QED  BY <2>2, <2>3, <2>4
<1>3. CASE ~(p[3] = w.me[3] /\ Cell(p, w) \in Cells)
  <2>1. UpdateTile(c, w, p) = c
    BY <1>3 DEF UpdateTile
  <2>2. \A k \in Cells : TileAt(k, w) # p
    BY <1>3, TileOfCell
  <2> QED  BY <2>1, <2>2
<1> QED  BY <1>2, <1>3

(* updateMapCache() makes all of them true. *)
LEMMA UpdateMapFacts ==
  ASSUME NEW w
  PROVE  /\ UpdateMap(w) \in [Cells -> BOOLEAN]
         /\ \A k \in Cells : TrueAt(UpdateMap(w), w, k)
BY DEF UpdateMap, TrueAt, QueryAdd

-----------------------------------------------------------------------------
(* The monster's own step, other than diagonally to the south.             *)
LEMMA ShiftFacts ==
  ASSUME WalkCacheAssumption,
         NEW w \in Worlds, NEW d \in AllSteps, d \notin {<<-1, 1>>, <<1, 1>>},
         NEW c \in [Cells -> BOOLEAN],
         \A k \in Cells \ {<<0, 0>>} : TrueAt(c, w, k),
         TileAt(d, w) \in Positions
  PROVE  LET v == [w EXCEPT !.me = TileAt(d, w)]
         IN  /\ Shifted(c, v, w.me) \in [Cells -> BOOLEAN]
             /\ \A k \in Cells \ {<<0, 0>>} : TrueAt(Shifted(c, v, w.me), v, k)
<1> DEFINE p == TileAt(d, w)
           v == [w EXCEPT !.me = p]
           H == maxWalkCacheHeight
           W == maxWalkCacheWidth
           r == ShiftRows(c, v, d[2])
           s == ShiftColumns(r, v, d[1], d[2])
<1>1. /\ w.me \in Positions /\ v \in Worlds /\ v.me = p
      /\ v.other = w.other /\ v.items = w.items /\ v.fields = w.fields /\ v.ignore = w.ignore
  BY DEF Worlds
<1>2. /\ w.me[1] \in Int /\ w.me[2] \in Int /\ w.me[3] \in Int
      /\ w.me = <<w.me[1], w.me[2], w.me[3]>>
  BY <1>1, PositionFacts
<1>3. /\ d[1] \in {-1, 0, 1} /\ d[2] \in {-1, 0, 1} /\ d = <<d[1], d[2]>> /\ d # <<0, 0>>
      /\ d[2] = 1 => d[1] = 0
  BY DEF AllSteps
<1>4. /\ p[1] = w.me[1] + d[1] /\ p[2] = w.me[2] + d[2] /\ p[3] = w.me[3]
  BY DEF TileAt
<1>5. p[1] - w.me[1] = d[1] /\ p[2] - w.me[2] = d[2]
  BY <1>2, <1>3, <1>4
<1>6. Shifted(c, v, w.me) = UpdateTile(s, v, w.me)
  BY <1>1, <1>5 DEF Shifted, OldTileSeen
<1>7. W \in Nat /\ W >= 1 /\ H \in Nat /\ H >= 1
  BY DEF WalkCacheAssumption
<1>8. \A q : QueryAdd(v, q) \in BOOLEAN
  BY DEF QueryAdd
(* The same tile, seen from where the monster was. *)
<1>9. ASSUME NEW k \in Cells
      PROVE  TileAt(<<k[1] + d[1], k[2] + d[2]>>, w)
               = <<w.me[1] + (k[1] + d[1]), w.me[2] + (k[2] + d[2]), w.me[3]>>
  BY DEF TileAt
<1>10. r \in [Cells -> BOOLEAN]
  <2>1. ASSUME NEW k \in Cells, d[2] # 0, k[2] # d[2] * H
        PROVE  <<k[1], k[2] + d[2]>> \in Cells
    BY <2>1, <1>3, <1>7, CellFacts DEF Cells
  <2> QED  BY <2>1, <1>8 DEF ShiftRows
<1>11. s \in [Cells -> BOOLEAN]
  <2>1. ASSUME NEW k \in Cells, d[1] # 0, k[1] # d[1] * W
        PROVE  <<k[1] + d[1], k[2]>> \in Cells
    BY <2>1, <1>3, <1>7, CellFacts DEF Cells
  <2> HIDE DEF r
  <2> QED  BY <2>1, <1>8, <1>10 DEF ShiftColumns
(* What the other tiles answer does not change. *)
<1>12. ASSUME NEW k \in Cells, k # <<0, 0>>, TileAt(k, v) # w.me
       PROVE  /\ TileAt(k, v) = TileAt(<<k[1] + d[1], k[2] + d[2]>>, w)
              /\ QueryAdd(v, TileAt(k, v)) = QueryAdd(w, TileAt(k, v))
              /\ <<k[1] + d[1], k[2] + d[2]>> # <<0, 0>>
  <2>1. /\ k[1] \in Int /\ k[2] \in Int /\ k = <<k[1], k[2]>>
    BY CellFacts
  <2>2. TileAt(k, v) = <<p[1] + k[1], p[2] + k[2], p[3]>>
    BY <1>1 DEF TileAt
  <2>3. TileAt(k, v) = TileAt(<<k[1] + d[1], k[2] + d[2]>>, w)
    <3>1. TileAt(k, v) = <<w.me[1] + d[1] + k[1], w.me[2] + d[2] + k[2], w.me[3]>>
      BY <2>2, <1>4
    <3>2. /\ w.me[1] + d[1] + k[1] = w.me[1] + (k[1] + d[1])
          /\ w.me[2] + d[2] + k[2] = w.me[2] + (k[2] + d[2])
      BY <2>1, <1>2, <1>3
    <3> HIDE DEF v
    <3> QED  BY <3>1, <3>2, <1>9
  <2>4. TileAt(k, v) # p
    <3>1. p = <<p[1], p[2], p[3]>> /\ p[1] \in Int /\ p[2] \in Int
      BY PositionFacts
    <3>2. k[1] # 0 \/ k[2] # 0
      BY <2>1, <1>12
    <3>3. p[1] + k[1] # p[1] \/ p[2] + k[2] # p[2]
      BY <3>1, <3>2, <2>1
    <3> QED  BY <3>1, <3>3, <2>2
  <2>5. QueryAdd(v, TileAt(k, v)) = QueryAdd(w, TileAt(k, v))
    BY <2>4, <1>12, <1>1 DEF QueryAdd
  <2>6. k[1] + d[1] # 0 \/ k[2] + d[2] # 0
    <3>1. SUFFICES ASSUME k[1] + d[1] = 0, k[2] + d[2] = 0 PROVE FALSE
      OBVIOUS
    <3>2. p[1] + k[1] = w.me[1] /\ p[2] + k[2] = w.me[2]
      BY <3>1, <2>1, <1>2, <1>3, <1>4
    <3> QED  BY <3>2, <2>2, <1>2, <1>4, <1>12
  <2> QED  BY <2>3, <2>5, <2>6
<1>13. ASSUME NEW k \in Cells, k # <<0, 0>>, TileAt(k, v) # w.me
       PROVE  TrueAt(s, v, k)
  <2>1. /\ k[1] \in -W..W /\ k[2] \in -H..H
        /\ k[1] \in Int /\ k[2] \in Int /\ k = <<k[1], k[2]>>
    BY CellFacts
  <2> DEFINE e == <<k[1] + d[1], k[2] + d[2]>>
             n == <<k[1] + d[1], k[2]>>
  <2>2. ASSUME e \in Cells
        PROVE  c[e] = QueryAdd(v, TileAt(k, v))
    BY <2>2, <1>12, <1>13 DEF TrueAt
  <2>3. CASE d[1] = 0
    <3>1. s[k] = r[k]
      BY <2>3 DEF ShiftColumns
    <3>2. d[2] # 0
      BY <2>3, <1>3
    <3>3. CASE k[2] = d[2] * H
      BY <3>1, <3>2, <3>3 DEF ShiftRows, TrueAt
    <3>4. CASE k[2] # d[2] * H
      <4>1. e \in Cells /\ e = <<k[1], k[2] + d[2]>>
        BY <3>4, <2>1, <2>3, <1>3, <1>7 DEF Cells
      <4>2. r[k] = c[e]
        BY <3>2, <3>4, <4>1 DEF ShiftRows
      <4> QED  BY <4>1, <4>2, <3>1, <2>2 DEF TrueAt
    <3> QED  BY <3>3, <3>4
  <2>4. CASE d[1] # 0
    <3>1. CASE k[1] = d[1] * W
      BY <2>4, <3>1 DEF ShiftColumns, TrueAt
    <3>2. CASE k[1] # d[1] * W /\ k[2] >= StartRow(d[2])
      <4>1. n \in Cells /\ n[1] = k[1] + d[1] /\ n[2] = k[2]
        BY <3>2, <2>1, <2>4, <1>3, <1>7 DEF Cells
      <4>2. s[k] = r[n]
        BY <3>2, <2>4 DEF ShiftColumns
      <4>3. r[n] = c[e] /\ e \in Cells
        <5>1. CASE d[2] = 0
          <6>1. e = n
            BY <5>1, <2>1
          <6> QED  BY <6>1, <5>1, <4>1 DEF ShiftRows
        <5>2. CASE d[2] = -1
          <6>1. k[2] >= 1 - H
            BY <5>2, <3>2 DEF StartRow
          <6>2. n[2] # d[2] * H
            BY <6>1, <5>2, <4>1, <2>1, <1>7
          <6>3. r[n] = c[<<n[1], n[2] + d[2]>>]
            BY <6>2, <5>2, <4>1 DEF ShiftRows
          <6>4. e \in Cells
            BY <6>1, <5>2, <4>1, <2>1, <1>3, <1>7 DEF Cells
          <6> QED  BY <6>3, <6>4, <4>1
        <5> QED  BY <5>1, <5>2, <2>4, <1>3
      <4> QED  BY <4>2, <4>3, <2>2 DEF TrueAt
    <3>3. CASE k[1] # d[1] * W /\ ~(k[2] >= StartRow(d[2]))
      <4>1. s[k] = r[k]
        BY <3>3, <2>4 DEF ShiftColumns
      <4>2. d[2] = -1 /\ k[2] = -H
        BY <3>3, <2>1, <2>4, <1>3, <1>7 DEF StartRow
      <4>3. k[2] = d[2] * H
        BY <4>2, <1>7
      <4> QED  BY <4>1, <4>2, <4>3 DEF ShiftRows, TrueAt
    <3> QED  BY <3>1, <3>2, <3>3
  <2> QED  BY <2>3, <2>4
<1> HIDE DEF s, r
<1>14. ASSUME NEW k \in Cells, k # <<0, 0>>
       PROVE  TrueAt(UpdateTile(s, v, w.me), v, k)
  <2>1. CASE TileAt(k, v) = w.me
    BY <2>1, <1>1, <1>11, UpdateTileFacts
  <2>2. CASE TileAt(k, v) # w.me
    <3>1. UpdateTile(s, v, w.me)[k] = s[k]
      BY <2>2, <1>1, <1>11, UpdateTileFacts
    <3> QED  BY <3>1, <2>2, <1>13, <1>14 DEF TrueAt
  <2> QED  BY <2>1, <2>2
<1>15. UpdateTile(s, v, w.me) \in [Cells -> BOOLEAN]
  BY <1>1, <1>11, UpdateTileFacts
<1> QED  BY <1>6, <1>14, <1>15

-----------------------------------------------------------------------------
(* The steps.                                                              *)
LEMMA CacheInitHolds ==
  ASSUME WalkCacheAssumption
  PROVE  CacheInit => CacheAgrees
<1> SUFFICES ASSUME CacheInit PROVE CacheAgrees
  OBVIOUS
<1>1. world \in Worlds
  BY DEF CacheInit, Worlds
<1> QED  BY <1>1 DEF CacheInit, CacheAgrees, CacheTypeOK, CacheIsTrue, Worlds

LEMMA CacheNextKeeps ==
  ASSUME WalkCacheAssumption, Steps \cap {<<-1, 1>>, <<1, 1>>} = {}
  PROVE  CacheAgrees /\ [CacheNext]_cacheVars => CacheAgrees'
<1> SUFFICES ASSUME CacheAgrees, [CacheNext]_cacheVars PROVE CacheAgrees'
  OBVIOUS
<1> USE DEF TrueAt
<1>1. world \in Worlds /\ cache \in [Cells -> BOOLEAN] /\ isMapLoaded \in BOOLEAN
  BY DEF CacheAgrees, CacheTypeOK, Worlds
<1>2. isMapLoaded => \A k \in Cells \ {<<0, 0>>} : TrueAt(cache, world, k)
  BY DEF CacheAgrees, CacheIsTrue
<1>3. SUFFICES /\ world' \in Worlds /\ cache' \in [Cells -> BOOLEAN] /\ isMapLoaded' \in BOOLEAN
               /\ isMapLoaded' => \A k \in Cells \ {<<0, 0>>} : TrueAt(cache', world', k)
  BY DEF CacheAgrees, CacheTypeOK, CacheIsTrue, Worlds
<1>4. CASE Load
  BY <1>4, <1>1, UpdateMapFacts DEF Load
<1>5. CASE Step
  <2>1. PICK d \in Steps :
          /\ isMapLoaded /\ QueryAdd(world, TileAt(d, world))
          /\ world' = [world EXCEPT !.me = TileAt(d, world)]
          /\ cache' = Shifted(cache, [world EXCEPT !.me = TileAt(d, world)], world.me)
    BY <1>5 DEF Step
  <2>2. d \in AllSteps /\ d \notin {<<-1, 1>>, <<1, 1>>}
    BY DEF WalkCacheAssumption
  <2>3. TileAt(d, world) \in Positions
    BY <2>1 DEF QueryAdd
  <2>4. world' \in Worlds
    BY <2>1, <2>3, <1>1 DEF Worlds
  <2>5. /\ cache' \in [Cells -> BOOLEAN]
        /\ \A k \in Cells \ {<<0, 0>>} : TrueAt(cache', world', k)
    <3> HIDE DEF TrueAt
    <3> QED  BY <2>1, <2>2, <2>3, <1>1, <1>2, ShiftFacts
  <2> QED  BY <2>4, <2>5, <1>5, <1>1 DEF Step
<1>6. CASE Teleport
  <2>1. PICK p \in Positions : /\ world' = [world EXCEPT !.me = p]
                               /\ cache' = UpdateMap(world')
    BY <1>6 DEF Teleport
  <2>2. world' \in Worlds
    BY <2>1, <1>1 DEF Worlds
  <2> QED  BY <2>1, <2>2, <1>6, <1>1, UpdateMapFacts DEF Teleport
<1>7. CASE OtherMoves
  <2> DEFINE Seen(c, w, q) == IF q = Nowhere THEN c ELSE UpdateTile(c, w, q)
  <2>1. PICK p \in Positions \union {Nowhere} :
          /\ world' = [world EXCEPT !.other = p]
          /\ cache' = IF isMapLoaded THEN Seen(Seen(cache, world', p), world', world.other) ELSE cache
    BY <1>7 DEF OtherMoves
  <2>2. world' \in Worlds /\ isMapLoaded' = isMapLoaded
    BY <2>1, <1>1, <1>7 DEF Worlds, OtherMoves
  <2>3. /\ world.other \in Positions \union {Nowhere} /\ Nowhere \notin Positions
        /\ world'.me = world.me /\ world'.items = world.items /\ world'.fields = world.fields
        /\ world'.ignore = world.ignore /\ world'.other = p
    BY <2>1, <1>1 DEF Worlds, WalkCacheAssumption
  (* Whoever is asked again is true, and the others stay as they were. *)
  <2>4. ASSUME NEW c \in [Cells -> BOOLEAN], NEW q \in Positions \union {Nowhere}
        PROVE  /\ Seen(c, world', q) \in [Cells -> BOOLEAN]
               /\ \A k \in Cells : IF TileAt(k, world') = q /\ q # Nowhere
                                    THEN TrueAt(Seen(c, world', q), world', k)
                                    ELSE Seen(c, world', q)[k] = c[k]
    <3>1. CASE q = Nowhere
      BY <3>1
    <3>2. CASE q # Nowhere
      <4>1. q \in Positions
        BY <3>2
      <4>2. Seen(c, world', q) = UpdateTile(c, world', q)
        BY <3>2
      <4> HIDE DEF Seen, TrueAt
      <4> QED  BY <4>1, <4>2, <3>2, <2>2, UpdateTileFacts
    <3> QED  BY <3>1, <3>2
  <2>5. ASSUME NEW k \in Cells, TileAt(k, world') \notin {p, world.other} \ {Nowhere}
        PROVE  QueryAdd(world', TileAt(k, world')) = QueryAdd(world, TileAt(k, world))
    <3>1. TileAt(k, world') = TileAt(k, world)
      BY <2>3 DEF TileAt
    <3> QED  BY <3>1, <2>3, <2>5 DEF QueryAdd
  <2>6. CASE isMapLoaded
    <3>1. PICK c : c = Seen(cache, world', p)
      OBVIOUS
    <3>2. cache' = Seen(c, world', world.other)
      BY <2>6, <2>1, <3>1
    <3>3. c \in [Cells -> BOOLEAN]
      <4> HIDE DEF Seen
      <4> QED  BY <2>4, <3>1, <1>1
    <3>4. cache' \in [Cells -> BOOLEAN]
      <4> HIDE DEF Seen
      <4> QED  BY <2>4, <3>2, <3>3, <2>3
    <3>5. ASSUME NEW k \in Cells \ {<<0, 0>>} PROVE TrueAt(cache', world', k)
      <4> HIDE DEF Seen
      <4>1. CASE TileAt(k, world') = world.other /\ world.other # Nowhere
        BY <4>1, <2>4, <3>2, <3>3, <2>3
      <4>2. CASE ~(TileAt(k, world') = world.other /\ world.other # Nowhere)
        <5>1. cache'[k] = c[k]
          BY <4>2, <2>4, <3>2, <3>3, <2>3
        <5>2. CASE TileAt(k, world') = p /\ p # Nowhere
          BY <5>1, <5>2, <2>4, <3>1, <1>1
        <5>3. CASE ~(TileAt(k, world') = p /\ p # Nowhere)
          <6>1. c[k] = cache[k]
            BY <5>3, <2>4, <3>1, <1>1
          <6> QED  BY <5>1, <6>1, <5>3, <4>2, <2>5, <2>6, <1>2
        <5> QED  BY <5>2, <5>3
      <4> QED  BY <4>1, <4>2
    <3> QED  BY <3>4, <3>5, <2>2, <1>1
  <2>7. CASE ~isMapLoaded
    BY <2>7, <2>1, <2>2, <1>1
  <2> QED  BY <2>6, <2>7
<1>8. CASE TileChanges
  <2>1. PICK p \in Positions, kind \in {"items", "fields"} :
          /\ world' = [world EXCEPT ![kind] = IF p \in world[kind] THEN world[kind] \ {p}
                                              ELSE world[kind] \union {p}]
          /\ cache' = IF isMapLoaded THEN UpdateTile(cache, world', p) ELSE cache
    BY <1>8 DEF TileChanges
  <2>2. world' \in Worlds /\ isMapLoaded' = isMapLoaded
    <3>1. CASE kind = "items"
      BY <3>1, <2>1, <1>1, <1>8 DEF Worlds, TileChanges
    <3>2. CASE kind = "fields"
      BY <3>2, <2>1, <1>1, <1>8 DEF Worlds, TileChanges
    <3> QED  BY <3>1, <3>2
  <2>3. /\ world'.me = world.me /\ world'.other = world.other /\ world'.ignore = world.ignore
        /\ \A q : q # p => /\ q \in world'.items <=> q \in world.items
                           /\ q \in world'.fields <=> q \in world.fields
    <3>1. CASE kind = "items"
      BY <3>1, <2>1, <1>1 DEF Worlds
    <3>2. CASE kind = "fields"
      BY <3>2, <2>1, <1>1 DEF Worlds
    <3> QED  BY <3>1, <3>2
  <2>4. ASSUME NEW k \in Cells, TileAt(k, world') # p
        PROVE  QueryAdd(world', TileAt(k, world')) = QueryAdd(world, TileAt(k, world))
    <3>1. TileAt(k, world') = TileAt(k, world)
      BY <2>3 DEF TileAt
    <3> QED  BY <3>1, <2>3, <2>4 DEF QueryAdd
  <2>5. CASE isMapLoaded
    <3>1. cache' = UpdateTile(cache, world', p)
      BY <2>5, <2>1
    <3>2. cache' \in [Cells -> BOOLEAN]
      BY <3>1, <2>2, <1>1, UpdateTileFacts
    <3>3. ASSUME NEW k \in Cells \ {<<0, 0>>} PROVE TrueAt(cache', world', k)
      <4>1. CASE TileAt(k, world') = p
        BY <4>1, <3>1, <2>2, <1>1, UpdateTileFacts
      <4>2. CASE TileAt(k, world') # p
        <5>1. cache'[k] = cache[k]
          BY <4>2, <3>1, <2>2, <1>1, UpdateTileFacts
        <5> QED  BY <5>1, <4>2, <2>4, <2>5, <1>2
      <4> QED  BY <4>1, <4>2
    <3> QED  BY <3>2, <3>3, <2>2, <1>1
  <2>6. CASE ~isMapLoaded
    BY <2>6, <2>1, <2>2, <1>1
  <2> QED  BY <2>5, <2>6
<1>9. CASE IgnoreFields
  <2>1. /\ world' = [world EXCEPT !.ignore = ~world.ignore] /\ cache' = UpdateMap(world')
        /\ isMapLoaded' = isMapLoaded
    BY <1>9 DEF IgnoreFields
  <2>2. world' \in Worlds
    BY <2>1, <1>1 DEF Worlds
  <2> QED  BY <2>1, <2>2, <1>1, UpdateMapFacts
<1>10. CASE UNCHANGED cacheVars
  BY <1>10, <1>1, <1>2 DEF cacheVars
<1> QED  BY <1>4, <1>5, <1>6, <1>7, <1>8, <1>9, <1>10 DEF CacheNext

(* On a map and with a cache of any size, and any steps but the diagonal   *)
(* ones to the south: what localMapCache says of a tile around the monster *)
(* is what the tile itself would say, after any sequence of steps, jumps,  *)
(* movements of the other creature, changes of tiles and of the monster's  *)
(* mind about fields (creature.cpp, monster.cpp).                          *)
THEOREM CacheStaysTrue ==
  ASSUME WalkCacheAssumption, Steps \cap {<<-1, 1>>, <<1, 1>>} = {}
  PROVE  CacheSpec => []CacheAgrees
<1>1. CacheInit => CacheAgrees
  BY CacheInitHolds
<1>2. CacheAgrees /\ [CacheNext]_cacheVars => CacheAgrees'
  BY CacheNextKeeps
<1> QED  BY <1>1, <1>2, PTL DEF CacheSpec

-----------------------------------------------------------------------------
(* Walk.                                                                   *)

Events == [id: Ids \cup {NoId}, task: Tasks \cup {NoTask}, steps: 0..MaxSteps]
Timed == [id: Ids, task: Tasks \cup {NoTask}, steps: {0}]
Walkers == [steps: 0..MaxSteps, eventWalk: Ids \cup {NoId}, cancel: BOOLEAN, fast: BOOLEAN,
            blocked: BOOLEAN, delay: BOOLEAN, walkTask: Tasks \cup {NoTask},
            taskEvent: Ids \cup {NoId}, halted: BOOLEAN, broken: BOOLEAN]
States == [p: Walkers, armed: SUBSET Timed]

(* What holds of the player and the scheduler, given the dispatcher's queue*)
(* q.  The event of eventWalk is a step, and it is pending.                *)
Drives(e, id) == e.id = id /\ e.task = NoTask
HandleInv(s, q) ==
  s.p.eventWalk # NoId => \/ \E e \in s.armed : Drives(e, s.p.eventWalk)
                          \/ \E i \in DOMAIN q : Drives(q[i], s.p.eventWalk)

(* The two handles of the player are different events. *)
HandlesDiffer(s) == s.p.eventWalk # NoId => s.p.taskEvent # s.p.eventWalk

(* Only a teleport leaves steps behind without eventWalk. *)
Driven(s) == s.p.steps > 0 /\ s.p.fast /\ ~s.p.halted => s.p.eventWalk # NoId

(* A task is in one place. *)
OneOwner(s, q) ==
  \A t \in Tasks :
    /\ s.p.walkTask = t => \A e \in s.armed : e.task # t
    /\ s.p.walkTask = t => \A i \in DOMAIN q : q[i].task # t
    /\ \A e, f \in s.armed : e.task = t /\ f.task = t => e = f
    /\ \A e \in s.armed, i \in DOMAIN q : e.task = t => q[i].task # t
    /\ \A i, j \in DOMAIN q : q[i].task = t /\ q[j].task = t => i = j

(* A path has no identifier. *)
PathsAreNew == \A i \in DOMAIN queue : queue[i].steps > 0 => queue[i].id = NoId

(* A command makes at most one event. *)
EventsAreFew == IsFiniteSet(armed) /\ Cardinality(armed) + Len(queue) <= commands

(* The inductive invariant. *)
WalkInv == /\ WalkTypeOK /\ HandleInv(State, queue) /\ HandlesDiffer(State) /\ Driven(State)
           /\ OneOwner(State, queue) /\ PathsAreNew /\ EventsAreFew

FreeId(s) == \E id \in Ids : id \notin Used(s)

(* A handler arms one event at most: of a step, or of the player's task,   *)
(* which is then no longer the player's.                                   *)
Moved(s, r) ==
  /\ r.p.walkTask \in {s.p.walkTask, NoTask}
  /\ \/ r.armed \subseteq s.armed
     \/ \E x \in Timed : /\ r.armed \subseteq s.armed \cup {x}
                         /\ x.task # NoTask => x.task = s.p.walkTask /\ r.p.walkTask = NoTask

-----------------------------------------------------------------------------
LEMMA FreshFacts ==
  ASSUME NEW s, FreeId(s)
  PROVE  Fresh(s) \in Ids /\ Fresh(s) \notin Used(s)
BY DEF FreeId, Fresh

(* What is forgotten is free. *)
LEMMA StaysFree ==
  ASSUME WalkAssumption, NEW s \in States, NEW r \in States, FreeId(s),
         r.armed \subseteq s.armed,
         {r.p.eventWalk, r.p.taskEvent} \subseteq {s.p.eventWalk, s.p.taskEvent, NoId}
  PROVE  FreeId(r)
<1>1. NoId \notin Ids
  BY DEF WalkAssumption
<1>2. {e.id : e \in r.armed} \subseteq {e.id : e \in s.armed}
  OBVIOUS
<1>3. Used(r) \subseteq Used(s) \cup {NoId}
  BY <1>2 DEF Used
<1> QED  BY <1>1, <1>3 DEF FreeId

(* An identifier is free as long as there are few events. *)
LEMMA FewIdsUsed ==
  ASSUME WalkAssumption, IdsSuffice, WalkTypeOK, EventsAreFew
  PROVE  FreeId(State)
<1>1. IsFiniteSet(armed) /\ Cardinality(armed) \in Nat
  BY FS_CardinalityType DEF EventsAreFew
<1>2. Len(queue) \in Nat /\ DOMAIN queue = 1..Len(queue) /\ commands \in Nat /\ commands <= MaxCommands
      /\ MaxCommands \in Nat
  BY DEF WalkTypeOK, WalkAssumption
<1> DEFINE A == {e.id : e \in armed}
           H == {player.eventWalk, player.taskEvent}
<1>3. IsFiniteSet(A) /\ Cardinality(A) \in Nat /\ Cardinality(A) <= Cardinality(armed)
  <2> DEFINE f == [e \in armed |-> e.id]
  <2>1. f \in Surjection(armed, A)
    BY DEF Surjection
  <2> QED  BY <2>1, <1>1, FS_Surjection, FS_CardinalityType
<1>4. IsFiniteSet(QueuedIds) /\ Cardinality(QueuedIds) \in Nat /\ Cardinality(QueuedIds) <= Len(queue)
  <2> DEFINE f == [i \in 1..Len(queue) |-> queue[i].id]
  <2>1. f \in Surjection(1..Len(queue), QueuedIds)
    BY <1>2 DEF Surjection, QueuedIds
  <2>2. IsFiniteSet(1..Len(queue)) /\ Cardinality(1..Len(queue)) = Len(queue)
    <3>1. 1 \in Int /\ Len(queue) \in Int
      BY <1>2
    <3>2. /\ IsFiniteSet(1..Len(queue))
          /\ Cardinality(1..Len(queue)) = IF 1 > Len(queue) THEN 0 ELSE Len(queue) - 1 + 1
      BY <3>1, FS_Interval
    <3> QED  BY <1>2, <3>2
  <2> QED  BY <2>1, <2>2, FS_Surjection, FS_CardinalityType
<1>5. IsFiniteSet(H) /\ Cardinality(H) \in Nat /\ Cardinality(H) <= 2
  <2>1. IsFiniteSet({player.eventWalk}) /\ Cardinality({player.eventWalk}) = 1
    BY FS_Singleton
  <2>2. IsFiniteSet({player.taskEvent}) /\ Cardinality({player.taskEvent}) = 1
    BY FS_Singleton
  <2>3. H = {player.eventWalk} \cup {player.taskEvent}
    OBVIOUS
  <2> HIDE DEF H
  <2>4. IsFiniteSet(H) /\ Cardinality(H) \in Nat
    BY <2>1, <2>2, <2>3, FS_Union, FS_CardinalityType
  <2>5. Cardinality(H) <= 1 + 1
    <3>1. Cardinality({player.eventWalk} \cap {player.taskEvent}) \in Nat
      BY <2>1, FS_Intersection, FS_CardinalityType
    <3>2. Cardinality(H) = 1 + 1 - Cardinality({player.eventWalk} \cap {player.taskEvent})
      BY <2>1, <2>2, <2>3, FS_Union
    <3> QED  BY <2>4, <3>1, <3>2
  <2> QED  BY <2>4, <2>5
<1>6. Used(State) = (A \cup QueuedIds) \cup H
  BY DEF Used, State
<1> HIDE DEF A, H
<1>7. /\ IsFiniteSet(A \cup QueuedIds) /\ Cardinality(A \cup QueuedIds) \in Nat
      /\ Cardinality(A \cup QueuedIds) <= Cardinality(armed) + Len(queue)
  <2>1. Cardinality(A \cap QueuedIds) \in Nat
    BY <1>3, FS_Intersection, FS_CardinalityType
  <2>2. /\ IsFiniteSet(A \cup QueuedIds)
        /\ Cardinality(A \cup QueuedIds)
             = Cardinality(A) + Cardinality(QueuedIds) - Cardinality(A \cap QueuedIds)
    BY <1>3, <1>4, FS_Union
  <2>3. Cardinality(A \cup QueuedIds) \in Nat
    BY <2>2, FS_CardinalityType
  <2> QED  BY <1>1, <1>2, <1>3, <1>4, <2>1, <2>2, <2>3
<1>8. /\ IsFiniteSet(Used(State)) /\ Cardinality(Used(State)) \in Nat
      /\ Cardinality(Used(State)) <= Cardinality(armed) + Len(queue) + 2
  <2>1. Cardinality((A \cup QueuedIds) \cap H) \in Nat
    BY <1>5, <1>7, FS_Intersection, FS_CardinalityType
  <2>2. /\ IsFiniteSet(Used(State))
        /\ Cardinality(Used(State))
             = Cardinality(A \cup QueuedIds) + Cardinality(H) - Cardinality((A \cup QueuedIds) \cap H)
    BY <1>5, <1>6, <1>7, FS_Union
  <2>3. Cardinality(Used(State)) \in Nat
    BY <2>2, FS_CardinalityType
  <2> QED  BY <1>1, <1>2, <1>5, <1>7, <2>1, <2>2, <2>3
<1>9. Cardinality(Used(State)) <= MaxCommands + 2
  BY <1>1, <1>2, <1>8 DEF EventsAreFew
<1>10. SUFFICES ASSUME Ids \subseteq Used(State) PROVE FALSE
  BY DEF FreeId
<1>11. IsFiniteSet(Ids) /\ Cardinality(Ids) \in Nat /\ Cardinality(Ids) <= Cardinality(Used(State))
  BY <1>8, <1>10, FS_Subset, FS_CardinalityType
<1> QED  BY <1>2, <1>8, <1>9, <1>11 DEF IdsSuffice

-----------------------------------------------------------------------------
(* The parts of the handlers.                                              *)
LEMMA StateFacts ==
  ASSUME NEW s \in States
  PROVE  /\ s.p \in Walkers /\ s.armed \subseteq Timed
         /\ \A id : StopEvent(s, id) = [p |-> s.p, armed |-> {e \in s.armed : e.id # id}]
         /\ \A t : AddEvent(s, t) = [p |-> s.p, armed |-> s.armed \cup {Event(Fresh(s), t)}]
<1>1. s.p \in Walkers /\ s.armed \subseteq Timed
  BY DEF States
<1>2. \A a : [s EXCEPT !.armed = a] = [p |-> s.p, armed |-> a]
  BY DEF States
<1>3. ASSUME NEW id
      PROVE  StopEvent(s, id) = [p |-> s.p, armed |-> {e \in s.armed : e.id # id}]
  <2>1. StopEvent(s, id) = [s EXCEPT !.armed = {e \in s.armed : e.id # id}]
    BY DEF StopEvent
  <2> QED  BY <1>2, <2>1
<1>4. ASSUME NEW t
      PROVE  AddEvent(s, t) = [p |-> s.p, armed |-> s.armed \cup {Event(Fresh(s), t)}]
  <2>1. AddEvent(s, t) = [s EXCEPT !.armed = s.armed \cup {Event(Fresh(s), t)}]
    BY DEF AddEvent
  <2> QED  BY <1>2, <2>1
<1> QED  BY <1>1, <1>3, <1>4

LEMMA SetTaskFacts ==
  ASSUME NEW w, NEW a, NEW u, NEW v
  PROVE  [[p |-> w, armed |-> a] EXCEPT !.p.taskEvent = u, !.p.walkTask = v]
           = [p |-> [w EXCEPT !.taskEvent = u, !.walkTask = v], armed |-> a]
<1>1. PICK w1 : w1 = [w EXCEPT !.taskEvent = u]
  OBVIOUS
<1>2. [[p |-> w, armed |-> a] EXCEPT !.p.taskEvent = u] = [p |-> w1, armed |-> a]
  BY <1>1
<1>3. [[p |-> w1, armed |-> a] EXCEPT !.p.walkTask = v] = [p |-> [w1 EXCEPT !.walkTask = v], armed |-> a]
  OBVIOUS
<1>4. [w EXCEPT !.taskEvent = u, !.walkTask = v] = [w1 EXCEPT !.walkTask = v]
  BY <1>1
<1>5. PICK z : z = [p |-> w, armed |-> a]
  OBVIOUS
<1>6. [z EXCEPT !.p.taskEvent = u, !.p.walkTask = v] = [[z EXCEPT !.p.taskEvent = u] EXCEPT !.p.walkTask = v]
  OBVIOUS
<1> QED  BY <1>2, <1>3, <1>4, <1>5, <1>6

LEMMA StopFacts ==
  ASSUME WalkAssumption, NEW s \in States
  PROVE  /\ StopEventWalk(s) \in States
         /\ StopEventWalk(s).p = [s.p EXCEPT !.eventWalk = NoId]
         /\ StopEventWalk(s).armed \subseteq s.armed
         /\ s.p.eventWalk = NoId => StopEventWalk(s).armed = s.armed
<1>1. s.armed \subseteq Timed /\ \A e \in s.armed : e.id \in Ids
  BY DEF States, Timed
<1>2. /\ StopEventWalk(s).p = [s.p EXCEPT !.eventWalk = NoId]
      /\ StopEventWalk(s).armed = {e \in s.armed : e.id # s.p.eventWalk}
      /\ StopEventWalk(s) = [p |-> [s.p EXCEPT !.eventWalk = NoId],
                             armed |-> {e \in s.armed : e.id # s.p.eventWalk}]
  BY StateFacts, SMTT(30) DEF StopEventWalk
<1>3. [s.p EXCEPT !.eventWalk = NoId] \in Walkers
  BY DEF States, Walkers
<1>4. StopEventWalk(s) \in States
  BY <1>1, <1>2, <1>3 DEF States
<1> QED  BY <1>1, <1>2, <1>4 DEF WalkAssumption

LEMMA TaskFacts ==
  ASSUME WalkAssumption, NEW s \in States, NEW t \in Tasks \cup {NoTask}
  PROVE  LET r == SetNextWalkActionTask(s, t)
         IN  /\ r \in States
             /\ r.p = [s.p EXCEPT !.taskEvent = NoId, !.walkTask = t]
             /\ r.armed = {e \in s.armed : e.id # s.p.taskEvent}
<1>1. [s.p EXCEPT !.taskEvent = NoId, !.walkTask = t] \in Walkers
  BY DEF States, Walkers
<1>2. SetNextWalkActionTask(s, t) = [p |-> [s.p EXCEPT !.taskEvent = NoId, !.walkTask = t],
                                     armed |-> {e \in s.armed : e.id # s.p.taskEvent}]
  <2>1. StopEvent(s, s.p.taskEvent) = [p |-> s.p, armed |-> {e \in s.armed : e.id # s.p.taskEvent}]
    BY StateFacts
  <2>2. PICK a : a = {e \in s.armed : e.id # s.p.taskEvent}
    OBVIOUS
  <2>3. SetNextWalkActionTask(s, t) = [[p |-> s.p, armed |-> a] EXCEPT !.p.taskEvent = NoId, !.p.walkTask = t]
    BY <2>1, <2>2 DEF SetNextWalkActionTask
  <2> QED  BY <2>2, <2>3, SetTaskFacts
<1> QED  BY <1>1, <1>2 DEF States

LEMMA EventFacts ==
  ASSUME WalkAssumption, NEW id \in Ids, NEW t \in Tasks \cup {NoTask}
  PROVE  Event(id, t) \in Timed /\ Event(id, t).id = id /\ Event(id, t).task = t
BY DEF Event, Timed

LEMMA ArmFacts ==
  ASSUME WalkAssumption, NEW s \in States, FreeId(s)
  PROVE  LET r == Arm(s)
         IN  /\ r \in States
             /\ r.p = [s.p EXCEPT !.eventWalk = Fresh(s), !.halted = FALSE, !.broken = FALSE]
             /\ r.armed = s.armed \cup {Event(Fresh(s), NoTask)}
             /\ HandlesDiffer(r) /\ Driven(r) /\ Moved(s, r)
             /\ \E e \in r.armed : Drives(e, r.p.eventWalk)
<1> DEFINE id == Fresh(s)
           w == [s.p EXCEPT !.eventWalk = id, !.halted = FALSE, !.broken = FALSE]
           a == s.armed \cup {Event(id, NoTask)}
<1>1. id \in Ids /\ id \notin Used(s) /\ id # NoId
  BY FreshFacts DEF WalkAssumption
<1>2. id # s.p.taskEvent
  BY <1>1 DEF Used
<1>3. Event(id, NoTask) \in Timed /\ Drives(Event(id, NoTask), id) /\ Event(id, NoTask).task = NoTask
  BY <1>1, EventFacts DEF Drives
<1>4. w \in Walkers /\ w.eventWalk = id /\ w.taskEvent = s.p.taskEvent /\ w.walkTask = s.p.walkTask
  BY <1>1 DEF States, Walkers
<1>5. Arm(s) = [p |-> w, armed |-> a]
  <2>1. AddEvent(s, NoTask) = [p |-> s.p, armed |-> a]
    BY StateFacts
  <2> HIDE DEF a
  <2> HIDE DEF id, w, a
  <2>2. Arm(s) = [[p |-> s.p, armed |-> a] EXCEPT !.p = w]
    BY <2>1 DEF Arm, w, id
  <2> QED  BY <2>2
<1>6. a \subseteq Timed
  BY <1>3 DEF States
<1> HIDE DEF id, w, a
<1>7. Arm(s) \in States /\ Arm(s).p = w /\ Arm(s).armed = a
  BY <1>4, <1>5, <1>6 DEF States
<1>8. Event(id, NoTask) \in a /\ a \subseteq s.armed \cup {Event(id, NoTask)}
  BY DEF a
<1>9. HandlesDiffer(Arm(s)) /\ Driven(Arm(s))
  BY <1>1, <1>2, <1>4, <1>7 DEF HandlesDiffer, Driven
<1>10. Moved(s, Arm(s))
  BY <1>3, <1>4, <1>7, <1>8 DEF Moved
<1>11. \E e \in Arm(s).armed : Drives(e, Arm(s).p.eventWalk)
  BY <1>3, <1>4, <1>7, <1>8
<1> QED  BY <1>7, <1>9, <1>10, <1>11 DEF w, a, id

LEMMA CompleteFacts ==
  ASSUME WalkAssumption, NEW s \in States, FreeId(s), s.p.eventWalk = NoId
  PROVE  LET r == OnWalkComplete(s)
         IN  /\ r \in States
             /\ r.p.eventWalk = NoId /\ r.p.steps = s.p.steps
             /\ Moved(s, r)
<1>1. CASE s.p.walkTask = NoTask
  BY <1>1 DEF OnWalkComplete, Moved
<1>2. CASE s.p.walkTask # NoTask
  <2> DEFINE id == Fresh(s)
             x == Event(id, s.p.walkTask)
             w == [s.p EXCEPT !.taskEvent = id, !.walkTask = NoTask]
             a == s.armed \cup {x}
  <2>1. id \in Ids
    BY FreshFacts
  <2>2. x \in Timed /\ x.task = s.p.walkTask
    BY <2>1, EventFacts DEF States, Walkers
  <2>3. w \in Walkers /\ w.walkTask = NoTask /\ w.eventWalk = NoId /\ w.steps = s.p.steps
    BY <2>1 DEF States, Walkers
  <2>4. OnWalkComplete(s) = [p |-> w, armed |-> a]
    <3>1. AddEvent(s, s.p.walkTask) = [p |-> s.p, armed |-> a]
      BY StateFacts
    <3> HIDE DEF a
    <3>2. OnWalkComplete(s) = [[p |-> s.p, armed |-> a] EXCEPT !.p.taskEvent = id, !.p.walkTask = NoTask]
      BY <1>2, <3>1 DEF OnWalkComplete, RunsTask
    <3> HIDE DEF id
    <3> QED  BY <3>2, SetTaskFacts
  <2>5. a \subseteq Timed
    BY <2>2 DEF States
  <2> HIDE DEF id, x, w
  <2> QED  BY <2>2, <2>3, <2>4, <2>5 DEF States, Moved
<1> QED  BY <1>1, <1>2

-----------------------------------------------------------------------------
(* A new player, with the same events. *)
LEMMA SetPlayerFacts ==
  ASSUME NEW s \in States, NEW w \in Walkers
  PROVE  /\ [s EXCEPT !.p = w] \in States
         /\ [s EXCEPT !.p = w].p = w /\ [s EXCEPT !.p = w].armed = s.armed
BY DEF States

LEMMA AddEventWalkFacts ==
  ASSUME WalkAssumption, NEW s \in States, FreeId(s), HandlesDiffer(s)
  PROVE  LET r == AddEventWalk(s)
         IN  /\ r \in States
             /\ s.p.fast => r.p.eventWalk # NoId
             /\ r.p.steps = s.p.steps /\ (r.p.fast <=> s.p.fast)
             /\ HandlesDiffer(r) /\ Moved(s, r)
             /\ r.p.eventWalk # NoId => \/ \E e \in r.armed : Drives(e, r.p.eventWalk)
                                        \/ r.p.eventWalk = s.p.eventWalk /\ r.armed = s.armed
<1> SUFFICES ASSUME NEW r, r = AddEventWalk(s)
             PROVE  /\ r \in States
                    /\ s.p.fast => r.p.eventWalk # NoId
                    /\ r.p.steps = s.p.steps /\ (r.p.fast <=> s.p.fast)
                    /\ HandlesDiffer(r) /\ Moved(s, r)
                    /\ r.p.eventWalk # NoId => \/ \E e \in r.armed : Drives(e, r.p.eventWalk)
                                               \/ r.p.eventWalk = s.p.eventWalk /\ r.armed = s.armed
  BY Zenon
<1> DEFINE w == [s.p EXCEPT !.cancel = FALSE]
<1>1. PICK c : c = [s EXCEPT !.p = w]
  OBVIOUS
<1>2. /\ w \in Walkers /\ w.eventWalk = s.p.eventWalk /\ w.taskEvent = s.p.taskEvent
      /\ (w.fast <=> s.p.fast) /\ w.steps = s.p.steps /\ w.walkTask = s.p.walkTask
  BY DEF States, Walkers
<1>3. [s EXCEPT !.p.cancel = FALSE] = c
  BY <1>1
<1> HIDE DEF w
<1>4. c \in States /\ c.p = w /\ c.armed = s.armed
  BY <1>1, <1>2, SetPlayerFacts
<1>5. FreeId(c)
  BY <1>2, <1>4, StaysFree
<1>6. CASE s.p.fast /\ s.p.eventWalk = NoId
  <2>1. r = Arm(c)
    BY <1>3, <1>6 DEF AddEventWalk
  <2>2. Fresh(c) \in Ids /\ Fresh(c) # NoId
    BY <1>5, FreshFacts DEF WalkAssumption
  <2>3. /\ r \in States /\ HandlesDiffer(r) /\ Moved(c, r)
        /\ r.p = [w EXCEPT !.eventWalk = Fresh(c), !.halted = FALSE, !.broken = FALSE]
        /\ \E e \in r.armed : Drives(e, r.p.eventWalk)
    BY <1>4, <1>5, <2>1, ArmFacts
  <2>4. /\ r.p.eventWalk = Fresh(c) /\ r.p.steps = w.steps /\ (r.p.fast <=> w.fast)
    BY <1>2, <2>3 DEF Walkers
  <2>5. Moved(s, r)
    BY <1>2, <1>4, <2>3 DEF Moved
  <2>6. r.p.eventWalk # NoId /\ r.p.steps = s.p.steps /\ (r.p.fast <=> s.p.fast)
    BY <1>2, <2>2, <2>4
  <2> QED  BY <2>3, <2>5, <2>6
<1>7. CASE ~(s.p.fast /\ s.p.eventWalk = NoId)
  <2>1. r = c
    BY <1>3, <1>7 DEF AddEventWalk
  <2> QED  BY <1>2, <1>4, <1>7, <2>1 DEF HandlesDiffer, Moved
<1> QED  BY <1>6, <1>7

(* What is left of the walk after its next step: the handle is the same or *)
(* none, and no event was armed while it is the same.                      *)
LEMMA NextStepFacts ==
  ASSUME WalkAssumption, NEW s \in States, FreeId(s), NEW o \in Outcomes, Driven(s)
  PROVE  LET r == NextStep(s, o)
         IN  /\ r \in States /\ Moved(s, r) /\ Driven(r)
             /\ \/ r.p.eventWalk = NoId
                \/ /\ r.p.eventWalk = s.p.eventWalk /\ r.armed \subseteq s.armed
                   /\ r.p.taskEvent = s.p.taskEvent
<1>1. CASE s.p.delay
  BY <1>1 DEF NextStep, Moved
<1>2. CASE ~s.p.delay /\ s.p.steps > 0
  <2> DEFINE v == [s.p EXCEPT !.steps = s.p.steps - 1, !.delay = o # "failed"]
  <2>1. PICK w : w = [s EXCEPT !.p = v]
    OBVIOUS
  <2>2. /\ v \in Walkers /\ v.eventWalk = s.p.eventWalk /\ v.taskEvent = s.p.taskEvent
        /\ v.walkTask = s.p.walkTask /\ (v.fast <=> s.p.fast) /\ (v.halted <=> s.p.halted)
    <3>1. s.p.steps - 1 \in 0..MaxSteps
      BY <1>2 DEF States, Walkers, WalkAssumption
    <3> QED  BY <3>1 DEF States, Walkers
  <2>3. NextStep(s, o) = IF o = "teleported" THEN [StopEventWalk(w) EXCEPT !.p.halted = TRUE] ELSE w
    BY <1>2, <2>1 DEF NextStep, TakeStep
  <2>4. w \in States /\ w.p = v /\ w.armed = s.armed
    <3> HIDE DEF v
    <3> QED  BY <2>1, <2>2, SetPlayerFacts
  <2> HIDE DEF v
  <2>5. CASE o = "teleported"
    <3>1. PICK z : z = StopEventWalk(w)
      OBVIOUS
    <3>2. z \in States /\ z.p = [v EXCEPT !.eventWalk = NoId] /\ z.armed \subseteq s.armed
      BY <2>4, <3>1, StopFacts
    <3> DEFINE u == [z.p EXCEPT !.halted = TRUE]
    <3>3. u \in Walkers /\ u.eventWalk = NoId /\ u.walkTask = s.p.walkTask /\ u.halted
      BY <2>2, <3>2 DEF States, Walkers
    <3>4. NextStep(s, o) = [z EXCEPT !.p = u]
      BY <2>3, <2>5, <3>1
    <3> HIDE DEF u
    <3> QED  BY <3>2, <3>3, <3>4, SetPlayerFacts DEF Moved, Driven
  <2>6. CASE o # "teleported"
    <3>1. s.p.fast /\ ~s.p.halted => s.p.eventWalk # NoId
      BY <1>2 DEF Driven
    <3> QED  BY <2>2, <2>3, <2>4, <2>6, <3>1 DEF Moved, Driven
  <2> QED  BY <2>5, <2>6
<1>3. CASE ~s.p.delay /\ ~(s.p.steps > 0)
  <2>1. NextStep(s, o) = OnWalkComplete(StopEventWalk(s))
    BY <1>3 DEF NextStep
  <2>2. PICK w : w = StopEventWalk(s)
    OBVIOUS
  <2>3. w \in States /\ w.p = [s.p EXCEPT !.eventWalk = NoId] /\ w.armed \subseteq s.armed
    BY <2>2, StopFacts
  <2>4. /\ w.p.eventWalk = NoId /\ w.p.taskEvent = s.p.taskEvent /\ w.p.walkTask = s.p.walkTask
        /\ w.p.steps = s.p.steps
    BY <2>3 DEF States, Walkers
  <2>5. FreeId(w)
    BY <2>3, <2>4, StaysFree
  <2>6. PICK r : r = OnWalkComplete(w)
    OBVIOUS
  <2>7. r \in States /\ r.p.eventWalk = NoId /\ r.p.steps = s.p.steps /\ Moved(w, r)
    BY <2>3, <2>4, <2>5, <2>6, CompleteFacts
  <2>8. Moved(s, r)
    BY <2>3, <2>4, <2>7 DEF Moved
  <2>9. Driven(r)
    BY <1>3, <2>7 DEF Driven
  <2> QED  BY <2>1, <2>2, <2>6, <2>7, <2>8, <2>9
<1> QED  BY <1>1, <1>2, <1>3

LEMMA CancelledFacts ==
  ASSUME WalkAssumption, NEW s \in States, Driven(s)
  PROVE  LET r == Cancelled(s)
         IN  /\ r \in States /\ Driven(r)
             /\ r.p.eventWalk = s.p.eventWalk
             /\ r.p.taskEvent \in {s.p.taskEvent, NoId} /\ r.p.walkTask \in {s.p.walkTask, NoTask}
             /\ r.armed \subseteq s.armed
<1>1. CASE ~s.p.cancel
  BY <1>1 DEF Cancelled
<1>2. CASE s.p.cancel
  <2> DEFINE v == [s.p EXCEPT !.steps = 0]
  <2>1. PICK w : w = [s EXCEPT !.p = v]
    OBVIOUS
  <2>2. v \in Walkers /\ v.eventWalk = s.p.eventWalk /\ v.steps = 0
    <3>1. 0 \in 0..MaxSteps
      BY DEF WalkAssumption
    <3> QED  BY <3>1 DEF States, Walkers
  <2>3. [s EXCEPT !.p.steps = 0] = w
    BY <2>1
  <2>4. w \in States /\ w.p = v /\ w.armed = s.armed
    <3> HIDE DEF v
    <3> QED  BY <2>1, <2>2, SetPlayerFacts
  <2>5. PICK z : z = OnWalkAborted(w)
    OBVIOUS
  <2>6. /\ z \in States /\ z.p = [w.p EXCEPT !.taskEvent = NoId, !.walkTask = NoTask]
        /\ z.armed \subseteq w.armed
    <3>1. z = SetNextWalkActionTask(w, NoTask) /\ NoTask \in Tasks \cup {NoTask}
      BY <2>5 DEF OnWalkAborted
    <3>2. z.armed = {e \in w.armed : e.id # w.p.taskEvent}
      BY <2>4, <3>1, TaskFacts
    <3> HIDE DEF v
    <3> QED  BY <2>4, <3>1, <3>2, TaskFacts
  <2> HIDE DEF v
  <2> DEFINE u == [z.p EXCEPT !.cancel = FALSE]
  <2>7. /\ u \in Walkers /\ u.eventWalk = s.p.eventWalk /\ u.steps = 0
        /\ u.taskEvent = NoId /\ u.walkTask = NoTask
    BY <2>2, <2>4, <2>6 DEF States, Walkers
  <2>8. Cancelled(s) = [z EXCEPT !.p = u]
    BY <1>2, <2>3, <2>5 DEF Cancelled
  <2> HIDE DEF u
  <2> QED  BY <2>4, <2>6, <2>7, <2>8, SetPlayerFacts DEF Driven
<1> QED  BY <1>1, <1>2

(* After onWalk() there is no handle or that of an event just armed.       *)
LEMMA OnWalkFacts ==
  ASSUME WalkAssumption, NEW s \in States, FreeId(s), NEW o \in Outcomes,
         HandlesDiffer(s), Driven(s)
  PROVE  LET r == OnWalk(s, o)
         IN  /\ r \in States /\ Moved(s, r) /\ HandlesDiffer(r) /\ Driven(r)
             /\ r.p.eventWalk # NoId => \E e \in r.armed : Drives(e, r.p.eventWalk)
<1>1. PICK n : n = NextStep(s, o)
  OBVIOUS
<1>2. PICK k : k = Cancelled(n)
  OBVIOUS
<1>3. OnWalk(s, o) = Continues(k)
  BY <1>1, <1>2 DEF OnWalk
<1>4. /\ n \in States /\ Moved(s, n) /\ Driven(n)
      /\ \/ n.p.eventWalk = NoId
         \/ /\ n.p.eventWalk = s.p.eventWalk /\ n.armed \subseteq s.armed
            /\ n.p.taskEvent = s.p.taskEvent
  BY <1>1, NextStepFacts
<1>5. /\ k \in States /\ Driven(k)
      /\ k.p.eventWalk = n.p.eventWalk
      /\ k.p.taskEvent \in {n.p.taskEvent, NoId} /\ k.p.walkTask \in {n.p.walkTask, NoTask}
      /\ k.armed \subseteq n.armed
  BY <1>2, <1>4, CancelledFacts
<1>6. Moved(s, k)
  BY <1>4, <1>5 DEF Moved
<1>7. CASE k.p.eventWalk = NoId
  BY <1>3, <1>5, <1>6, <1>7 DEF Continues, HandlesDiffer
<1>8. CASE k.p.eventWalk # NoId
  <2> DEFINE v == [k.p EXCEPT !.eventWalk = NoId]
  <2>1. PICK z : z = [k EXCEPT !.p = v]
    OBVIOUS
  <2>2. /\ v \in Walkers /\ v.eventWalk = NoId /\ v.taskEvent = k.p.taskEvent
        /\ v.walkTask = k.p.walkTask
    BY <1>5 DEF States, Walkers
  <2>3. [k EXCEPT !.p.eventWalk = NoId] = z
    BY <2>1
  <2> HIDE DEF v
  <2>4. z \in States /\ z.p = v /\ z.armed = k.armed
    BY <1>5, <2>1, <2>2, SetPlayerFacts
  <2>5. FreeId(z)
    <3>1. z.armed \subseteq s.armed
      BY <1>4, <1>5, <1>8, <2>4
    <3>2. {z.p.eventWalk, z.p.taskEvent} \subseteq {s.p.eventWalk, s.p.taskEvent, NoId}
      BY <1>4, <1>5, <1>8, <2>2, <2>4
    <3> QED  BY <2>4, <3>1, <3>2, StaysFree
  <2>6. PICK r : r = AddEventWalk(z)
    OBVIOUS
  <2>7. OnWalk(s, o) = r
    BY <1>3, <1>8, <2>3, <2>6 DEF Continues
  <2>8. HandlesDiffer(z)
    BY <2>2, <2>4 DEF HandlesDiffer
  <2>9. /\ r \in States
        /\ z.p.fast => r.p.eventWalk # NoId
        /\ r.p.steps = z.p.steps /\ (r.p.fast <=> z.p.fast)
        /\ HandlesDiffer(r) /\ Moved(z, r)
        /\ r.p.eventWalk # NoId => \/ \E e \in r.armed : Drives(e, r.p.eventWalk)
                                   \/ r.p.eventWalk = z.p.eventWalk /\ r.armed = z.armed
    BY <2>4, <2>5, <2>6, <2>8, AddEventWalkFacts
  <2>10. Driven(r)
    BY <2>9 DEF Driven
  <2>11. Moved(s, r)
    <3>1. k.armed \subseteq s.armed /\ k.p.walkTask \in {s.p.walkTask, NoTask}
      BY <1>4, <1>5, <1>8 DEF Moved
    <3> QED  BY <2>2, <2>4, <2>9, <3>1 DEF Moved
  <2> QED  BY <2>2, <2>4, <2>7, <2>9, <2>10, <2>11
<1> QED  BY <1>7, <1>8

(* startAutoWalk(): the first step is taken before there is an event, and  *)
(* arms none.                                                              *)
LEMMA FirstStepFacts ==
  ASSUME WalkAssumption, NEW s \in States, NEW o \in Outcomes,
         s.p.eventWalk = NoId, s.p.steps = 1, ~s.p.delay, ~s.p.cancel
  PROVE  LET r == OnWalk(s, o)
         IN  /\ r \in States /\ r.armed = s.armed
             /\ r.p.eventWalk = NoId /\ r.p.taskEvent = s.p.taskEvent
             /\ r.p.walkTask = s.p.walkTask
<1> DEFINE v == [s.p EXCEPT !.steps = s.p.steps - 1, !.delay = o # "failed"]
<1>1. PICK w : w = [s EXCEPT !.p = v]
  OBVIOUS
<1>2. /\ v \in Walkers /\ v.eventWalk = NoId /\ v.taskEvent = s.p.taskEvent
      /\ v.walkTask = s.p.walkTask /\ ~v.cancel
  <2>1. s.p.steps - 1 \in 0..MaxSteps
    BY DEF States, Walkers, WalkAssumption
  <2> QED  BY <2>1 DEF States, Walkers
<1>3. NextStep(s, o) = IF o = "teleported" THEN [StopEventWalk(w) EXCEPT !.p.halted = TRUE] ELSE w
  <2>1. s.p.steps > 0
    OBVIOUS
  <2> QED  BY <2>1, <1>1 DEF NextStep, TakeStep
<1> HIDE DEF v
<1>4. w \in States /\ w.p = v /\ w.armed = s.armed
  BY <1>1, <1>2, SetPlayerFacts
<1>5. PICK n : n = NextStep(s, o)
  OBVIOUS
<1>6. /\ n \in States /\ n.armed = s.armed /\ n.p.eventWalk = NoId /\ n.p.taskEvent = s.p.taskEvent
      /\ n.p.walkTask = s.p.walkTask /\ ~n.p.cancel
  <2>1. CASE o = "teleported"
    <3>1. PICK z : z = StopEventWalk(w)
      OBVIOUS
    <3>2. z \in States /\ z.p = [v EXCEPT !.eventWalk = NoId] /\ z.armed = s.armed
      BY <1>2, <1>4, <3>1, StopFacts
    <3> DEFINE u == [z.p EXCEPT !.halted = TRUE]
    <3>3. /\ u \in Walkers /\ u.eventWalk = NoId /\ u.walkTask = s.p.walkTask
          /\ u.taskEvent = s.p.taskEvent /\ ~u.cancel
      BY <1>2, <3>2 DEF States, Walkers
    <3>4. n = [z EXCEPT !.p = u]
      BY <1>3, <1>5, <2>1, <3>1
    <3> HIDE DEF u
    <3> QED  BY <3>2, <3>3, <3>4, SetPlayerFacts
  <2>2. CASE o # "teleported"
    BY <1>2, <1>3, <1>4, <1>5, <2>2
  <2> QED  BY <2>1, <2>2
<1>7. OnWalk(s, o) = n
  BY <1>5, <1>6 DEF OnWalk, Cancelled, Continues
<1> QED  BY <1>6, <1>7

LEMMA StartFacts ==
  ASSUME WalkAssumption, NEW s \in States, FreeId(s), NEW n \in 1..MaxSteps, NEW o \in Outcomes,
         HandlesDiffer(s), Driven(s)
  PROVE  LET r == StartAutoWalk(s, n, o)
         IN  /\ r \in States /\ Moved(s, r) /\ HandlesDiffer(r) /\ Driven(r)
             /\ \/ \E e \in r.armed : Drives(e, r.p.eventWalk)
                \/ r.p.eventWalk = s.p.eventWalk /\ r.armed = s.armed
<1> SUFFICES ASSUME NEW r, r = StartAutoWalk(s, n, o)
             PROVE  /\ r \in States /\ Moved(s, r) /\ HandlesDiffer(r) /\ Driven(r)
                    /\ \/ \E e \in r.armed : Drives(e, r.p.eventWalk)
                       \/ r.p.eventWalk = s.p.eventWalk /\ r.armed = s.armed
  BY Zenon
<1>1. CASE s.p.blocked
  <2> DEFINE u == [s.p EXCEPT !.broken = TRUE]
  <2>1. /\ u \in Walkers /\ u.eventWalk = s.p.eventWalk /\ u.taskEvent = s.p.taskEvent
        /\ u.walkTask = s.p.walkTask /\ u.steps = s.p.steps /\ (u.fast <=> s.p.fast)
        /\ (u.halted <=> s.p.halted)
    BY DEF States, Walkers
  <2>2. r = [s EXCEPT !.p = u]
    BY <1>1 DEF StartAutoWalk
  <2> HIDE DEF u
  <2> QED  BY <2>1, <2>2, SetPlayerFacts DEF Moved, HandlesDiffer, Driven
<1>2. CASE ~s.p.blocked
  <2> DEFINE v == [s.p EXCEPT !.steps = n, !.cancel = FALSE]
  <2>1. PICK c : c = [s EXCEPT !.p = v]
    OBVIOUS
  <2>2. /\ v \in Walkers /\ v.eventWalk = s.p.eventWalk /\ v.taskEvent = s.p.taskEvent
        /\ v.walkTask = s.p.walkTask /\ v.steps = n /\ (v.fast <=> s.p.fast)
        /\ (v.delay <=> s.p.delay) /\ ~v.cancel
    <3>1. n \in 0..MaxSteps
      BY DEF WalkAssumption
    <3> QED  BY <3>1 DEF States, Walkers
  <2>3. r = IF ~s.p.fast \/ s.p.eventWalk # NoId THEN c
            ELSE IF n = 1 /\ ~s.p.delay THEN Arm(OnWalk(c, o)) ELSE Arm(c)
    BY <1>2, <2>1 DEF StartAutoWalk
  <2> HIDE DEF v
  <2>4. c \in States /\ c.p = v /\ c.armed = s.armed
    BY <2>1, <2>2, SetPlayerFacts
  <2>5. FreeId(c)
    BY <2>2, <2>4, StaysFree
  <2>6. CASE ~s.p.fast \/ s.p.eventWalk # NoId
    <3>1. r = c
      BY <2>3, <2>6
    <3>2. Driven(c) /\ HandlesDiffer(c)
      BY <2>2, <2>4, <2>6 DEF Driven, HandlesDiffer
    <3> QED  BY <2>2, <2>4, <3>1, <3>2 DEF Moved
  <2>7. CASE s.p.fast /\ s.p.eventWalk = NoId /\ n = 1 /\ ~s.p.delay
    <3>1. PICK w : w = OnWalk(c, o)
      OBVIOUS
    <3>2. /\ w \in States /\ w.armed = s.armed /\ w.p.eventWalk = NoId
          /\ w.p.taskEvent = s.p.taskEvent /\ w.p.walkTask = s.p.walkTask
      BY <2>2, <2>4, <2>7, <3>1, FirstStepFacts
    <3>3. FreeId(w)
      BY <3>2, StaysFree
    <3>4. r = Arm(w)
      BY <2>3, <2>7, <3>1
    <3>5. /\ r \in States /\ HandlesDiffer(r) /\ Driven(r) /\ Moved(w, r)
          /\ \E e \in r.armed : Drives(e, r.p.eventWalk)
      BY <3>2, <3>3, <3>4, ArmFacts
    <3>6. Moved(s, r)
      BY <3>2, <3>5 DEF Moved
    <3> QED  BY <3>5, <3>6
  <2>8. CASE s.p.fast /\ s.p.eventWalk = NoId /\ ~(n = 1 /\ ~s.p.delay)
    <3>1. r = Arm(c)
      BY <2>3, <2>8
    <3>2. /\ r \in States /\ HandlesDiffer(r) /\ Driven(r) /\ Moved(c, r)
          /\ \E e \in r.armed : Drives(e, r.p.eventWalk)
      BY <2>4, <2>5, <3>1, ArmFacts
    <3>3. Moved(s, r)
      BY <2>2, <2>4, <3>2 DEF Moved
    <3> QED  BY <3>2, <3>3
  <2> QED  BY <2>6, <2>7, <2>8
<1> QED  BY <1>1, <1>2

-----------------------------------------------------------------------------
(* A handler that ends in the state r keeps the invariant: a command, or   *)
(* the task at the head of the queue.                                      *)
LEMMA HandlerKeeps ==
  ASSUME WalkAssumption, WalkInv, NEW r \in States, Becomes(r), Moved(State, r),
         HandlesDiffer(r), Driven(r), HandleInv(r, queue'),
         \/ queue' = queue /\ Command
         \/ queue # <<>> /\ queue' = Tail(queue) /\ commands' = commands
  PROVE  WalkInv'
<1>1. State' = r /\ player' = r.p /\ armed' = r.armed
  BY DEF State, Becomes, States
<1>2. /\ armed \subseteq Timed /\ queue \in Seq(Events) /\ commands \in 0..MaxCommands
      /\ State.p = player /\ State.armed = armed
  BY DEF WalkInv, WalkTypeOK, Timed, Events, State
<1>3. queue' \in Seq(Events) /\ commands' \in 0..MaxCommands
  BY <1>2 DEF Command, WalkAssumption
<1>4. WalkTypeOK'
  BY <1>1, <1>3 DEF WalkTypeOK, States, Walkers, Timed, Events
(* The queue that is left is an end of the queue. *)
<1>5. PICK k \in {0, 1} : /\ Len(queue') = Len(queue) - k
                          /\ \A i \in DOMAIN queue' : i + k \in DOMAIN queue /\ queue'[i] = queue[i + k]
  <2>1. CASE queue' = queue
    <3>1. \A i \in DOMAIN queue : i \in Int
      BY <1>2
    <3> QED  BY <1>2, <2>1, <3>1
  <2>2. CASE queue # <<>> /\ queue' = Tail(queue)
    BY <1>2, <2>2
  <2> QED  BY <2>1, <2>2
<1>6. DOMAIN queue' \subseteq Int /\ DOMAIN queue \subseteq Int
  BY <1>2, <1>3
<1>7. PathsAreNew'
  BY <1>5 DEF WalkInv, PathsAreNew
<1>8. OneOwner(r, queue')
  <2>1. OneOwner(State, queue)
    BY DEF WalkInv
  <2> SUFFICES ASSUME NEW t \in Tasks
               PROVE  /\ r.p.walkTask = t => \A e \in r.armed : e.task # t
                      /\ r.p.walkTask = t => \A i \in DOMAIN queue' : queue'[i].task # t
                      /\ \A e, f \in r.armed : e.task = t /\ f.task = t => e = f
                      /\ \A e \in r.armed, i \in DOMAIN queue' : e.task = t => queue'[i].task # t
                      /\ \A i, j \in DOMAIN queue' : queue'[i].task = t /\ queue'[j].task = t => i = j
    BY DEF OneOwner
  <2>2. t # NoTask
    BY DEF WalkAssumption
  <2>3. /\ player.walkTask = t => \A e \in armed : e.task # t
        /\ player.walkTask = t => \A i \in DOMAIN queue : queue[i].task # t
        /\ \A e, f \in armed : e.task = t /\ f.task = t => e = f
        /\ \A e \in armed, i \in DOMAIN queue : e.task = t => queue[i].task # t
        /\ \A i, j \in DOMAIN queue : queue[i].task = t /\ queue[j].task = t => i = j
    BY <1>2, <2>1 DEF OneOwner
  <2>4. r.p.walkTask = t => player.walkTask = t
    BY <1>2, <2>2 DEF Moved
  (* An event of t was armed before, or t was the player's. *)
  <2>5. \/ \A e \in r.armed : e.task = t => e \in armed
        \/ \E x \in Timed : /\ x.task = t /\ player.walkTask = t /\ r.p.walkTask = NoTask
                            /\ \A e \in r.armed : e \in armed \/ e = x
    BY <1>2, <2>2 DEF Moved
  <2>6. \A i, j \in DOMAIN queue' : queue'[i].task = t /\ queue'[j].task = t => i = j
    <3> SUFFICES ASSUME NEW i \in DOMAIN queue', NEW j \in DOMAIN queue',
                        queue'[i].task = t, queue'[j].task = t
                 PROVE  i = j
      OBVIOUS
    <3>1. i + k = j + k
      BY <1>5, <2>3
    <3> QED  BY <1>6, <3>1
  <2>7. \A i \in DOMAIN queue' : queue'[i].task = t => \E j \in DOMAIN queue : queue[j].task = t
    BY <1>5
  <2>8. CASE \A e \in r.armed : e.task = t => e \in armed
    BY <2>3, <2>4, <2>6, <2>7, <2>8
  <2>9. CASE \E x \in Timed : /\ x.task = t /\ player.walkTask = t /\ r.p.walkTask = NoTask
                              /\ \A e \in r.armed : e \in armed \/ e = x
    BY <2>2, <2>3, <2>6, <2>7, <2>9
  <2> QED  BY <2>5, <2>8, <2>9
<1>9. EventsAreFew'
  <2>1. /\ IsFiniteSet(armed) /\ Cardinality(armed) + Len(queue) <= commands
        /\ Cardinality(armed) \in Nat /\ Len(queue) \in Nat /\ commands \in Nat
    BY <1>2, FS_CardinalityType DEF WalkInv, EventsAreFew, WalkAssumption
  <2>2. PICK x : r.armed \subseteq armed \cup {x}
    BY <1>2 DEF Moved
  <2>3. IsFiniteSet(armed \cup {x}) /\ Cardinality(armed \cup {x}) <= Cardinality(armed) + 1
    <3>1. /\ IsFiniteSet(armed \cup {x})
          /\ Cardinality(armed \cup {x}) = IF x \in armed THEN Cardinality(armed) ELSE Cardinality(armed) + 1
      BY <2>1, FS_AddElement
    <3> QED  BY <2>1, <3>1
  <2>4. IsFiniteSet(r.armed) /\ Cardinality(r.armed) <= Cardinality(armed \cup {x})
    BY <2>2, <2>3, FS_Subset
  <2>5. Cardinality(r.armed) \in Nat /\ Cardinality(armed \cup {x}) \in Nat
    BY <2>3, <2>4, FS_CardinalityType
  <2>6. Cardinality(r.armed) <= Cardinality(armed) + 1
    BY <2>1, <2>3, <2>4, <2>5
  <2>7. CASE queue' = queue /\ Command
    <3>1. commands' = commands + 1 /\ Len(queue') = Len(queue)
      BY <2>7 DEF Command
    <3>2. Cardinality(r.armed) + Len(queue') <= commands'
      BY <2>1, <2>5, <2>6, <3>1
    <3> QED  BY <1>1, <2>4, <3>2 DEF EventsAreFew
  <2>8. CASE queue # <<>> /\ queue' = Tail(queue) /\ commands' = commands
    <3>1. Len(queue') = Len(queue) - 1 /\ commands' = commands
      BY <2>8, <1>2
    <3>2. Cardinality(r.armed) + Len(queue') <= commands'
      BY <2>1, <2>5, <2>6, <3>1
    <3> QED  BY <1>1, <2>4, <3>2 DEF EventsAreFew
  <2> QED  BY <2>7, <2>8
<1>10. HandleInv(State, queue)' /\ HandlesDiffer(State)' /\ Driven(State)' /\ OneOwner(State, queue)'
  BY <1>1, <1>8 DEF HandleInv, HandlesDiffer, Driven, OneOwner
<1> QED  BY <1>4, <1>7, <1>9, <1>10 DEF WalkInv

LEMMA WalkInitHolds ==
  ASSUME WalkAssumption
  PROVE  WalkInit => WalkInv
<1> SUFFICES ASSUME WalkInit PROVE WalkInv
  OBVIOUS
<1>1. /\ player.steps = 0 /\ player.eventWalk = NoId /\ player.taskEvent = NoId
      /\ armed = {} /\ queue = <<>> /\ commands = 0
  BY DEF WalkInit
<1>2. State.p = player /\ State.armed = {}
  BY <1>1 DEF State
<1>3. WalkTypeOK
  <2>1. 0 \in 0..MaxSteps /\ 0 \in 0..MaxCommands
    BY DEF WalkAssumption
  <2>2. player.steps \in 0..MaxSteps /\ player.eventWalk \in Ids \cup {NoId}
    BY <1>1, <2>1
  <2>3. queue \in Seq([id: Ids \cup {NoId}, task: Tasks \cup {NoTask}, steps: 0..MaxSteps])
    BY <1>1
  <2> QED  BY <1>1, <2>1, <2>3 DEF WalkInit, WalkTypeOK
<1>4. HandleInv(State, queue) /\ HandlesDiffer(State) /\ Driven(State)
  BY <1>1, <1>2 DEF HandleInv, HandlesDiffer, Driven
<1>5. OneOwner(State, queue) /\ PathsAreNew
  BY <1>1, <1>2 DEF OneOwner, PathsAreNew
<1>6. EventsAreFew
  <2>1. Len(queue) = 0
    BY <1>1
  <2> QED  BY <1>1, <2>1, FS_EmptySet DEF EventsAreFew
<1> QED  BY <1>3, <1>4, <1>5, <1>6 DEF WalkInv

(* The state before a step. *)
LEMMA BeforeFacts ==
  ASSUME WalkAssumption, IdsSuffice, WalkInv
  PROVE  /\ State \in States /\ State.p = player /\ State.armed = armed
         /\ FreeId(State) /\ HandleInv(State, queue) /\ HandlesDiffer(State) /\ Driven(State)
         /\ queue \in Seq(Events) /\ armed \subseteq Timed
<1>1. State \in States
  BY DEF State, States, WalkInv, WalkTypeOK, Walkers, Timed
<1>2. FreeId(State)
  BY FewIdsUsed DEF WalkInv
<1> QED  BY <1>1, <1>2 DEF WalkInv, WalkTypeOK, Events, Timed, State

(* Only the player changes, and none of its handles: a flag was set.       *)
LEMMA FlagKeeps ==
  ASSUME WalkAssumption, IdsSuffice, WalkInv, NEW w \in Walkers,
         player' = w, UNCHANGED <<armed, queue>>, Command,
         w.eventWalk = player.eventWalk, w.taskEvent = player.taskEvent, w.walkTask = player.walkTask,
         w.steps = player.steps, w.fast <=> player.fast, w.halted <=> player.halted
  PROVE  WalkInv'
<1> DEFINE r == [State EXCEPT !.p = w]
<1>1. r \in States /\ r.p = w /\ r.armed = armed
  BY BeforeFacts, SetPlayerFacts
<1>2. HandlesDiffer(r) /\ Driven(r) /\ Moved(State, r) /\ HandleInv(r, queue)
  <2> HIDE DEF r
  <2> QED  BY <1>1, BeforeFacts DEF HandlesDiffer, Driven, Moved, HandleInv
<1>3. Becomes(r)
  BY <1>1 DEF Becomes
<1> HIDE DEF r
<1> QED  BY <1>1, <1>2, <1>3, HandlerKeeps

LEMMA PlayerMoveKeeps ==
  ASSUME WalkAssumption, IdsSuffice, WalkInv, NEW o \in Outcomes, PlayerMove(o)
  PROVE  WalkInv'
<1>1. PICK s : s = SetNextWalkActionTask(State, NoTask)
  OBVIOUS
<1>2. PICK r : r = StartAutoWalk(s, 1, o)
  OBVIOUS
<1>3. Command /\ Becomes(r) /\ queue' = queue
  BY <1>1, <1>2 DEF PlayerMove
<1>4. NoTask \in Tasks \cup {NoTask}
  OBVIOUS
<1>5. /\ s \in States /\ s.p = [player EXCEPT !.taskEvent = NoId, !.walkTask = NoTask]
      /\ s.armed = {e \in armed : e.id # player.taskEvent}
  BY <1>1, <1>4, BeforeFacts, TaskFacts
<1>6. /\ s.p.eventWalk = player.eventWalk /\ s.p.taskEvent = NoId /\ s.p.walkTask = NoTask
      /\ s.p.steps = player.steps /\ (s.p.fast <=> player.fast) /\ (s.p.halted <=> player.halted)
  BY <1>5, BeforeFacts DEF States, Walkers
<1>7. FreeId(s)
  BY <1>5, <1>6, BeforeFacts, StaysFree
<1>8. HandlesDiffer(s) /\ Driven(s)
  BY <1>6, BeforeFacts DEF HandlesDiffer, Driven
<1>9. HandleInv(s, queue)
  BY <1>5, <1>6, BeforeFacts DEF HandleInv, HandlesDiffer, Drives
<1>10. 1 \in 1..MaxSteps
  BY DEF WalkAssumption
<1>11. /\ r \in States /\ Moved(s, r) /\ HandlesDiffer(r) /\ Driven(r)
       /\ \/ \E e \in r.armed : Drives(e, r.p.eventWalk)
          \/ r.p.eventWalk = s.p.eventWalk /\ r.armed = s.armed
  BY <1>2, <1>5, <1>7, <1>8, <1>10, StartFacts
<1>12. Moved(State, r)
  BY <1>5, <1>6, <1>11, BeforeFacts DEF Moved
<1>13. HandleInv(r, queue')
  BY <1>3, <1>9, <1>11 DEF HandleInv
<1> QED  BY <1>3, <1>11, <1>12, <1>13, HandlerKeeps

LEMMA PlayerAutoWalkKeeps ==
  ASSUME WalkAssumption, IdsSuffice, WalkInv, NEW o \in Outcomes, NEW n \in 1..MaxSteps,
         PlayerAutoWalk(n, o)
  PROVE  WalkInv'
<1>1. PICK r : r = StartAutoWalk(State, n, o)
  OBVIOUS
<1>2. Command /\ Becomes(r) /\ queue' = queue
  BY <1>1 DEF PlayerAutoWalk
<1>3. /\ r \in States /\ Moved(State, r) /\ HandlesDiffer(r) /\ Driven(r)
      /\ \/ \E e \in r.armed : Drives(e, r.p.eventWalk)
         \/ r.p.eventWalk = State.p.eventWalk /\ r.armed = State.armed
  BY <1>1, BeforeFacts, StartFacts
<1>4. HandleInv(r, queue')
  BY <1>2, <1>3, BeforeFacts DEF HandleInv
<1> QED  BY <1>2, <1>3, <1>4, HandlerKeeps

(* setNextWalkActionTask() of a task that is nowhere yet. *)
LEMMA PlayerUseItemKeeps ==
  ASSUME WalkAssumption, IdsSuffice, WalkInv, NEW t \in Tasks, NEW n \in 1..MaxSteps,
         PlayerUseItem(t, n)
  PROVE  WalkInv'
<1>1. PICK r : r = SetNextWalkActionTask(State, t)
  OBVIOUS
<1>2. /\ Command /\ Becomes(r) /\ queue' = Append(queue, Path(n))
      /\ \A e \in armed : e.task # t
      /\ \A i \in DOMAIN queue : queue[i].task # t
  BY <1>1 DEF PlayerUseItem
<1>3. /\ r \in States /\ r.p = [player EXCEPT !.taskEvent = NoId, !.walkTask = t]
      /\ r.armed = {e \in armed : e.id # player.taskEvent}
  BY <1>1, BeforeFacts, TaskFacts
<1>4. /\ r.p.eventWalk = player.eventWalk /\ r.p.taskEvent = NoId /\ r.p.walkTask = t
      /\ r.p.steps = player.steps /\ (r.p.fast <=> player.fast) /\ (r.p.halted <=> player.halted)
  BY <1>3, BeforeFacts DEF States, Walkers
<1>5. State' = r /\ player' = r.p /\ armed' = r.armed
  BY <1>2, <1>3 DEF State, Becomes, States
<1>6. Path(n) \in Events /\ Path(n).id = NoId /\ Path(n).task = NoTask
  <2>1. n \in 0..MaxSteps
    BY DEF WalkAssumption
  <2> QED  BY <2>1 DEF Path, Events
<1>7. /\ queue' \in Seq(Events) /\ Len(queue') = Len(queue) + 1 /\ DOMAIN queue' = 1..Len(queue')
      /\ DOMAIN queue = 1..Len(queue) /\ Len(queue) \in Nat
      /\ \A i \in DOMAIN queue : i \in DOMAIN queue' /\ queue'[i] = queue[i]
      /\ \A i \in DOMAIN queue' : i \in DOMAIN queue \/ queue'[i] = Path(n)
  BY <1>2, <1>6, BeforeFacts
<1>8. commands' = commands + 1 /\ commands' \in 0..MaxCommands /\ commands \in Nat
  BY <1>2 DEF Command, WalkInv, WalkTypeOK, WalkAssumption
<1>9. WalkTypeOK'
  BY <1>3, <1>5, <1>7, <1>8 DEF WalkTypeOK, States, Walkers, Timed, Events
<1>10. HandlesDiffer(r) /\ Driven(r)
  BY <1>4, BeforeFacts DEF HandlesDiffer, Driven
<1>11. HandleInv(r, queue')
  BY <1>3, <1>4, <1>7, BeforeFacts DEF HandleInv, HandlesDiffer, Drives
<1>12. OneOwner(r, queue')
  <2>1. OneOwner(State, queue)
    BY DEF WalkInv
  <2> SUFFICES ASSUME NEW u \in Tasks
               PROVE  /\ t = u => \A e \in r.armed : e.task # u
                      /\ t = u => \A i \in DOMAIN queue' : queue'[i].task # u
                      /\ \A e, f \in r.armed : e.task = u /\ f.task = u => e = f
                      /\ \A e \in r.armed, i \in DOMAIN queue' : e.task = u => queue'[i].task # u
                      /\ \A i, j \in DOMAIN queue' : queue'[i].task = u /\ queue'[j].task = u => i = j
    BY <1>4 DEF OneOwner
  <2>2. u # NoTask
    BY DEF WalkAssumption
  <2>3. \A i \in DOMAIN queue' : queue'[i].task = u => i \in DOMAIN queue /\ queue[i].task = u
    BY <1>6, <1>7, <2>2
  <2> QED  BY <1>2, <1>3, <2>1, <2>3, BeforeFacts DEF OneOwner
<1>13. PathsAreNew'
  BY <1>6, <1>7 DEF WalkInv, PathsAreNew
<1>14. EventsAreFew'
  <2>1. IsFiniteSet(armed) /\ Cardinality(armed) + Len(queue) <= commands /\ Cardinality(armed) \in Nat
    BY FS_CardinalityType DEF WalkInv, EventsAreFew
  <2>2. r.armed \subseteq armed
    BY <1>3
  <2>3. IsFiniteSet(r.armed) /\ Cardinality(r.armed) <= Cardinality(armed) /\ Cardinality(r.armed) \in Nat
    BY <2>1, <2>2, FS_Subset, FS_CardinalityType
  <2>4. Cardinality(r.armed) + Len(queue') <= commands'
    BY <1>7, <1>8, <2>1, <2>3
  <2> QED  BY <1>5, <2>3, <2>4 DEF EventsAreFew
<1>15. HandleInv(State, queue)' /\ HandlesDiffer(State)' /\ Driven(State)' /\ OneOwner(State, queue)'
  BY <1>5, <1>10, <1>11, <1>12 DEF HandleInv, HandlesDiffer, Driven, OneOwner
<1> QED  BY <1>9, <1>13, <1>14, <1>15 DEF WalkInv

LEMMA SetSpeedKeeps ==
  ASSUME WalkAssumption, IdsSuffice, WalkInv, NEW fast \in BOOLEAN, SetSpeed(fast)
  PROVE  WalkInv'
<1> DEFINE v == [player EXCEPT !.fast = fast]
<1>1. PICK s : s = [State EXCEPT !.p = v]
  OBVIOUS
<1>2. /\ v \in Walkers /\ v.eventWalk = player.eventWalk /\ v.taskEvent = player.taskEvent
      /\ v.walkTask = player.walkTask /\ v.steps = player.steps /\ (v.fast <=> fast)
      /\ (v.halted <=> player.halted)
  BY BeforeFacts DEF States, Walkers
<1>3. [State EXCEPT !.p.fast = fast] = s
  BY <1>1, BeforeFacts
<1> HIDE DEF v
<1>4. s \in States /\ s.p = v /\ s.armed = armed
  BY <1>1, <1>2, BeforeFacts, SetPlayerFacts
<1>5. HandlesDiffer(s) /\ HandleInv(s, queue)
  BY <1>2, <1>4, BeforeFacts DEF HandlesDiffer, HandleInv
<1>6. Command /\ queue' = queue
  BY DEF SetSpeed
<1>7. CASE ~fast
  <2>1. PICK z : z = StopEventWalk(s)
    OBVIOUS
  <2>2. z \in States /\ z.p = [v EXCEPT !.eventWalk = NoId] /\ z.armed \subseteq armed
    BY <1>4, <2>1, StopFacts
  <2> DEFINE u == [z.p EXCEPT !.cancel = TRUE, !.broken = TRUE]
  <2>3. /\ u \in Walkers /\ u.eventWalk = NoId /\ ~u.fast /\ u.walkTask = player.walkTask
    BY <1>2, <1>7, <2>2 DEF States, Walkers
  <2>4. PICK r : r = [z EXCEPT !.p = u]
    OBVIOUS
  <2>5. Becomes(r)
    BY <1>3, <1>7, <2>1, <2>4 DEF SetSpeed
  <2> HIDE DEF u
  <2>6. r \in States /\ r.p = u /\ r.armed \subseteq armed
    BY <2>2, <2>3, <2>4, SetPlayerFacts
  <2>7. HandlesDiffer(r) /\ Driven(r) /\ Moved(State, r) /\ HandleInv(r, queue')
    BY <2>3, <2>6, BeforeFacts DEF HandlesDiffer, Driven, Moved, HandleInv
  <2> QED  BY <1>6, <2>5, <2>6, <2>7, HandlerKeeps
<1>8. CASE fast /\ ~player.fast /\ player.steps > 0
  <2>1. PICK r : r = AddEventWalk(s)
    OBVIOUS
  <2>2. Becomes(r)
    BY <1>3, <1>8, <2>1 DEF SetSpeed
  <2>3. FreeId(s)
    BY <1>2, <1>4, BeforeFacts, StaysFree
  <2>4. /\ r \in States
        /\ s.p.fast => r.p.eventWalk # NoId
        /\ HandlesDiffer(r) /\ Moved(s, r)
        /\ r.p.eventWalk # NoId => \/ \E e \in r.armed : Drives(e, r.p.eventWalk)
                                   \/ r.p.eventWalk = s.p.eventWalk /\ r.armed = s.armed
    BY <1>4, <1>5, <2>1, <2>3, AddEventWalkFacts
  <2>5. Driven(r)
    BY <1>2, <1>4, <1>8, <2>4 DEF Driven
  <2>6. Moved(State, r)
    BY <1>2, <1>4, <2>4, BeforeFacts DEF Moved
  <2>7. HandleInv(r, queue')
    BY <1>5, <1>6, <2>4 DEF HandleInv
  <2> QED  BY <1>6, <2>2, <2>4, <2>5, <2>6, <2>7, HandlerKeeps
<1>9. CASE fast /\ ~(~player.fast /\ player.steps > 0)
  <2>1. Becomes(s)
    BY <1>3, <1>9 DEF SetSpeed
  <2>2. Driven(s)
    BY <1>2, <1>4, <1>9, BeforeFacts DEF Driven
  <2>3. Moved(State, s)
    BY <1>2, <1>4, BeforeFacts DEF Moved
  <2> QED  BY <1>4, <1>5, <1>6, <2>1, <2>2, <2>3, HandlerKeeps
<1> QED  BY <1>7, <1>8, <1>9

LEMMA TeleportedKeeps ==
  ASSUME WalkAssumption, IdsSuffice, WalkInv, Teleported
  PROVE  WalkInv'
<1>1. PICK z : z = StopEventWalk(State)
  OBVIOUS
<1>2. z \in States /\ z.p = [player EXCEPT !.eventWalk = NoId] /\ z.armed \subseteq armed
  BY <1>1, BeforeFacts, StopFacts
<1> DEFINE u == [z.p EXCEPT !.delay = TRUE, !.halted = TRUE]
<1>3. u \in Walkers /\ u.eventWalk = NoId /\ u.halted /\ u.walkTask = player.walkTask
  BY <1>2, BeforeFacts DEF States, Walkers
<1>4. PICK r : r = [z EXCEPT !.p = u]
  OBVIOUS
<1>5. Command /\ Becomes(r) /\ queue' = queue
  BY <1>1, <1>4 DEF Teleported
<1> HIDE DEF u
<1>6. r \in States /\ r.p = u /\ r.armed \subseteq armed
  BY <1>2, <1>3, <1>4, SetPlayerFacts
<1>7. HandlesDiffer(r) /\ Driven(r) /\ Moved(State, r) /\ HandleInv(r, queue')
  BY <1>3, <1>6, BeforeFacts DEF HandlesDiffer, Driven, Moved, HandleInv
<1> QED  BY <1>5, <1>6, <1>7, HandlerKeeps

(* The event goes from the scheduler to the queue. *)
LEMMA FireKeeps ==
  ASSUME WalkAssumption, IdsSuffice, WalkInv, NEW e \in armed, Fire(e)
  PROVE  WalkInv'
<1>1. /\ armed' = armed \ {e} /\ queue' = Append(queue, e) /\ player' = player /\ commands' = commands
  BY DEF Fire
<1>2. /\ e \in Timed /\ e \in Events /\ e.steps = 0 /\ commands \in Nat
  <2>1. e \in Timed
    BY BeforeFacts
  <2> QED  BY <2>1 DEF Timed, Events, WalkAssumption, WalkInv, WalkTypeOK
<1>3. /\ queue' \in Seq(Events) /\ Len(queue') = Len(queue) + 1 /\ DOMAIN queue' = 1..Len(queue')
      /\ DOMAIN queue = 1..Len(queue) /\ Len(queue) \in Nat
      /\ queue'[Len(queue) + 1] = e
      /\ \A i \in DOMAIN queue : i \in DOMAIN queue' /\ queue'[i] = queue[i]
      /\ \A i \in DOMAIN queue' : i \in DOMAIN queue \/ i = Len(queue) + 1
  BY <1>1, <1>2, BeforeFacts
<1>4. WalkTypeOK'
  BY <1>1, <1>3 DEF WalkInv, WalkTypeOK, Events
<1>5. /\ State'.p = player /\ State'.armed = armed \ {e}
  BY <1>1 DEF State
<1>6. HandlesDiffer(State)' /\ Driven(State)'
  BY <1>5, BeforeFacts DEF HandlesDiffer, Driven
<1>7. HandleInv(State, queue)'
  <2> SUFFICES ASSUME player.eventWalk # NoId
               PROVE  \/ \E f \in armed \ {e} : Drives(f, player.eventWalk)
                      \/ \E i \in DOMAIN queue' : Drives(queue'[i], player.eventWalk)
    BY <1>5 DEF HandleInv
  <2>1. \/ \E f \in armed : Drives(f, player.eventWalk)
        \/ \E i \in DOMAIN queue : Drives(queue[i], player.eventWalk)
    BY BeforeFacts DEF HandleInv
  <2>2. Len(queue) + 1 \in DOMAIN queue'
    BY <1>3
  <2> QED  BY <1>3, <2>1, <2>2
<1>8. OneOwner(State, queue)'
  <2>1. OneOwner(State, queue)
    BY DEF WalkInv
  <2> SUFFICES ASSUME NEW t \in Tasks
               PROVE  /\ player.walkTask = t => \A f \in armed \ {e} : f.task # t
                      /\ player.walkTask = t => \A i \in DOMAIN queue' : queue'[i].task # t
                      /\ \A f, g \in armed \ {e} : f.task = t /\ g.task = t => f = g
                      /\ \A f \in armed \ {e}, i \in DOMAIN queue' : f.task = t => queue'[i].task # t
                      /\ \A i, j \in DOMAIN queue' : queue'[i].task = t /\ queue'[j].task = t => i = j
    BY <1>5 DEF OneOwner
  <2>2. /\ player.walkTask = t => \A f \in armed : f.task # t
        /\ player.walkTask = t => \A i \in DOMAIN queue : queue[i].task # t
        /\ \A f, g \in armed : f.task = t /\ g.task = t => f = g
        /\ \A f \in armed, i \in DOMAIN queue : f.task = t => queue[i].task # t
        /\ \A i, j \in DOMAIN queue : queue[i].task = t /\ queue[j].task = t => i = j
    BY <2>1, BeforeFacts DEF OneOwner
  <2>3. \A i \in DOMAIN queue' : \/ i \in DOMAIN queue /\ queue'[i] = queue[i]
                                 \/ i = Len(queue) + 1 /\ queue'[i] = e
    BY <1>3
  <2> QED  BY <2>2, <2>3
<1>9. PathsAreNew'
  <2>1. ~(e.steps > 0)
    BY <1>2
  <2> QED  BY <1>3, <2>1 DEF WalkInv, PathsAreNew
<1>10. EventsAreFew'
  <2>1. IsFiniteSet(armed) /\ Cardinality(armed) + Len(queue) <= commands /\ Cardinality(armed) \in Nat
    BY FS_CardinalityType DEF WalkInv, EventsAreFew
  <2>2. IsFiniteSet(armed \ {e}) /\ Cardinality(armed \ {e}) = Cardinality(armed) - 1
    BY <2>1, FS_RemoveElement
  <2>3. Cardinality(armed \ {e}) + Len(queue') <= commands
    BY <1>2, <1>3, <2>1, <2>2
  <2> QED  BY <1>1, <2>2, <2>3 DEF EventsAreFew
<1> QED  BY <1>4, <1>6, <1>7, <1>8, <1>9, <1>10 DEF WalkInv

(* The dispatcher runs the task at the head of its queue.                  *)
LEMMA DispatchKeeps ==
  ASSUME WalkAssumption, IdsSuffice, WalkInv, NEW o \in Outcomes, Dispatch(o)
  PROVE  WalkInv'
<1>1. queue # <<>> /\ queue' = Tail(queue) /\ commands' = commands
  BY DEF Dispatch
<1>2. PICK e : e = Head(queue)
  OBVIOUS
<1>3. /\ 1 \in DOMAIN queue /\ e = queue[1] /\ e \in Events
      /\ \A i \in DOMAIN queue : i # 1 => i - 1 \in DOMAIN queue' /\ queue'[i - 1] = queue[i]
  BY <1>1, <1>2, BeforeFacts
(* A head that is no step was not the event of eventWalk. *)
<1>4. ASSUME e.id = NoId \/ e.task # NoTask
      PROVE  HandleInv(State, queue')
  <2> SUFFICES ASSUME player.eventWalk # NoId
               PROVE  \/ \E f \in armed : Drives(f, player.eventWalk)
                      \/ \E i \in DOMAIN queue' : Drives(queue'[i], player.eventWalk)
    BY BeforeFacts DEF HandleInv
  <2>1. ~Drives(e, player.eventWalk)
    BY <1>4 DEF Drives
  <2>2. \/ \E f \in armed : Drives(f, player.eventWalk)
        \/ \E i \in DOMAIN queue : Drives(queue[i], player.eventWalk)
    BY BeforeFacts DEF HandleInv
  <2> QED  BY <1>3, <2>1, <2>2
<1>5. CASE e.steps > 0
  <2>1. PICK r : r = StartAutoWalk(State, e.steps, o)
    OBVIOUS
  <2>2. Becomes(r)
    BY <1>2, <1>5, <2>1 DEF Dispatch
  <2>3. e.steps \in 1..MaxSteps
    BY <1>3, <1>5 DEF Events, WalkAssumption
  <2>4. /\ r \in States /\ Moved(State, r) /\ HandlesDiffer(r) /\ Driven(r)
        /\ \/ \E f \in r.armed : Drives(f, r.p.eventWalk)
           \/ r.p.eventWalk = State.p.eventWalk /\ r.armed = State.armed
    BY <2>1, <2>3, BeforeFacts, StartFacts
  <2>5. HandleInv(State, queue')
    BY <1>3, <1>4, <1>5 DEF WalkInv, PathsAreNew
  <2>6. HandleInv(r, queue')
    BY <2>4, <2>5 DEF HandleInv
  <2> QED  BY <1>1, <2>2, <2>4, <2>6, HandlerKeeps
<1>6. CASE ~(e.steps > 0) /\ e.task # NoTask
  <2>1. UNCHANGED <<player, armed>>
    BY <1>2, <1>6 DEF Dispatch
  <2>2. Becomes(State)
    BY <2>1, BeforeFacts DEF Becomes
  <2>3. Moved(State, State)
    BY DEF Moved
  <2>4. HandleInv(State, queue')
    BY <1>4, <1>6
  <2>5. PICK r : r = State
    OBVIOUS
  <2> QED  BY <1>1, <2>2, <2>3, <2>4, <2>5, BeforeFacts, HandlerKeeps
<1>7. CASE ~(e.steps > 0) /\ e.task = NoTask
  <2>1. PICK r : r = OnWalk(State, o)
    OBVIOUS
  <2>2. Becomes(r)
    BY <1>2, <1>7, <2>1 DEF Dispatch
  <2>3. /\ r \in States /\ Moved(State, r) /\ HandlesDiffer(r) /\ Driven(r)
        /\ r.p.eventWalk # NoId => \E f \in r.armed : Drives(f, r.p.eventWalk)
    BY <2>1, BeforeFacts, OnWalkFacts
  <2>4. HandleInv(r, queue')
    BY <2>3 DEF HandleInv
  <2> QED  BY <1>1, <2>2, <2>3, <2>4, HandlerKeeps
<1> QED  BY <1>5, <1>6, <1>7

LEMMA TickKeeps ==
  ASSUME WalkAssumption, IdsSuffice, WalkInv, Tick
  PROVE  WalkInv'
<1>1. player' = [player EXCEPT !.delay = FALSE] /\ UNCHANGED <<armed, queue, commands>>
  BY DEF Tick
<1>2. player \in Walkers
  BY BeforeFacts DEF States
<1>3. /\ player' \in Walkers /\ player'.eventWalk = player.eventWalk
      /\ player'.taskEvent = player.taskEvent /\ player'.walkTask = player.walkTask
      /\ player'.steps = player.steps /\ (player'.fast <=> player.fast)
      /\ (player'.halted <=> player.halted)
  BY <1>1, <1>2 DEF Walkers
<1>4. State'.p = player' /\ State'.armed = armed
  BY <1>1 DEF State
<1>5. WalkTypeOK'
  BY <1>1, <1>3 DEF WalkInv, WalkTypeOK, Walkers
<1>6. HandlesDiffer(State)' /\ Driven(State)' /\ HandleInv(State, queue)'
  BY <1>1, <1>3, <1>4, BeforeFacts DEF HandlesDiffer, Driven, HandleInv
<1>7. OneOwner(State, queue)'
  <2>1. OneOwner(State, queue)
    BY DEF WalkInv
  <2> QED  BY <1>1, <1>3, <1>4, <2>1, BeforeFacts DEF OneOwner
<1>8. PathsAreNew' /\ EventsAreFew'
  BY <1>1 DEF WalkInv, PathsAreNew, EventsAreFew
<1> QED  BY <1>5, <1>6, <1>7, <1>8 DEF WalkInv

LEMMA WalkNextKeeps ==
  ASSUME WalkAssumption, IdsSuffice
  PROVE  WalkInv /\ [WalkNext]_walkVars => WalkInv'
<1> SUFFICES ASSUME WalkInv, [WalkNext]_walkVars PROVE WalkInv'
  OBVIOUS
<1>1. ASSUME NEW e \in armed, Fire(e) PROVE WalkInv'
  BY <1>1, FireKeeps
<1>2. ASSUME NEW o \in Outcomes, Dispatch(o) PROVE WalkInv'
  BY <1>2, DispatchKeeps
<1>3. ASSUME NEW o \in Outcomes, PlayerMove(o) PROVE WalkInv'
  BY <1>3, PlayerMoveKeeps
<1>4. ASSUME NEW o \in Outcomes, NEW n \in 1..MaxSteps, PlayerAutoWalk(n, o) PROVE WalkInv'
  BY <1>4, PlayerAutoWalkKeeps
<1>5. ASSUME NEW t \in Tasks, NEW n \in 1..MaxSteps, PlayerUseItem(t, n) PROVE WalkInv'
  BY <1>5, PlayerUseItemKeeps
<1>6. ASSUME NEW b \in BOOLEAN, SetMovementBlocked(b) PROVE WalkInv'
  <2> DEFINE w == [player EXCEPT !.blocked = b, !.cancel = TRUE]
  <2>1. Command /\ player' = w /\ UNCHANGED <<armed, queue>>
    BY <1>6 DEF SetMovementBlocked
  <2>2. /\ w \in Walkers /\ w.eventWalk = player.eventWalk /\ w.taskEvent = player.taskEvent
        /\ w.walkTask = player.walkTask /\ w.steps = player.steps /\ (w.fast <=> player.fast)
        /\ (w.halted <=> player.halted)
    BY BeforeFacts DEF States, Walkers
  <2> HIDE DEF w
  <2> QED  BY <2>1, <2>2, FlagKeeps
<1>7. ASSUME NEW b \in BOOLEAN, SetSpeed(b) PROVE WalkInv'
  BY <1>7, SetSpeedKeeps
<1>8. CASE PlayerStopAutoWalk
  <2> DEFINE w == [player EXCEPT !.cancel = TRUE]
  <2>1. Command /\ player' = w /\ UNCHANGED <<armed, queue>>
    BY <1>8 DEF PlayerStopAutoWalk
  <2>2. /\ w \in Walkers /\ w.eventWalk = player.eventWalk /\ w.taskEvent = player.taskEvent
        /\ w.walkTask = player.walkTask /\ w.steps = player.steps /\ (w.fast <=> player.fast)
        /\ (w.halted <=> player.halted)
    BY BeforeFacts DEF States, Walkers
  <2> HIDE DEF w
  <2> QED  BY <2>1, <2>2, FlagKeeps
<1>9. CASE Teleported
  BY <1>9, TeleportedKeeps
<1>10. CASE Tick
  BY <1>10, TickKeeps
<1>11. CASE UNCHANGED walkVars
  <2>1. State' = State
    BY <1>11 DEF State, walkVars
  <2> QED  BY <1>11, <2>1 DEF walkVars, WalkInv, WalkTypeOK, HandleInv, HandlesDiffer, Driven,
                             OneOwner, PathsAreNew, EventsAreFew
<1> QED  BY <1>1, <1>2, <1>3, <1>4, <1>5, <1>6, <1>7, <1>8, <1>9, <1>10, <1>11 DEF WalkNext

(* The runs' property follows. *)
LEMMA WalkInvAgrees ==
  ASSUME WalkAssumption, WalkInv
  PROVE  WalkAgrees
<1>1. /\ State.p = player /\ State.armed = armed /\ queue \in Seq(Events) /\ armed \subseteq Timed
  BY DEF State, WalkInv, WalkTypeOK, Timed, Events
<1>2. player.eventWalk # NoId => \/ \E e \in armed : Drives(e, player.eventWalk)
                                 \/ \E i \in DOMAIN queue : Drives(queue[i], player.eventWalk)
  BY <1>1 DEF WalkInv, HandleInv
<1>3. HandleIsPending
  BY <1>2 DEF HandleIsPending, Pending, QueuedIds, Drives
<1>4. StepsAreDriven
  BY <1>1, <1>2 DEF StepsAreDriven, WalkPending, WalkInv, Driven, Drives
<1>5. TaskHasOneOwner
  <2> SUFFICES ASSUME NEW t \in Tasks
               PROVE  (IF player.walkTask = t THEN 1 ELSE 0) + Cardinality({e \in armed : e.task = t})
                        + Cardinality({i \in DOMAIN queue : queue[i].task = t}) <= 1
    BY DEF TaskHasOneOwner
  <2> DEFINE A == {e \in armed : e.task = t}
             Q == {i \in DOMAIN queue : queue[i].task = t}
  <2>1. /\ player.walkTask = t => A = {} /\ Q = {}
        /\ A # {} => Q = {}
        /\ \A e, f \in A : e = f
        /\ \A i, j \in Q : i = j
    BY <1>1 DEF WalkInv, OneOwner
  <2>2. ASSUME NEW S, \A x, y \in S : x = y
        PROVE  (S = {} /\ Cardinality(S) = 0) \/ (S # {} /\ Cardinality(S) = 1)
    <3>1. CASE S = {}
      <4>1. Cardinality({}) = 0
        BY FS_EmptySet
      <4> QED  BY <3>1, <4>1
    <3>2. CASE S # {}
      <4>1. PICK x : S = {x}
        BY <3>2, <2>2
      <4> QED  BY <3>2, <4>1, FS_Singleton
    <3> QED  BY <3>1, <3>2
  <2>3. (A = {} /\ Cardinality(A) = 0) \/ (A # {} /\ Cardinality(A) = 1)
    <3> HIDE DEF A
    <3> QED  BY <2>1, <2>2
  <2>4. (Q = {} /\ Cardinality(Q) = 0) \/ (Q # {} /\ Cardinality(Q) = 1)
    <3> HIDE DEF Q
    <3> QED  BY <2>1, <2>2
  <2>5. (IF player.walkTask = t THEN 1 ELSE 0) + Cardinality(A) + Cardinality(Q) <= 1
    <3> HIDE DEF A, Q
    <3> QED  BY <2>1, <2>3, <2>4
  <2> QED  BY <2>5
<1> QED  BY <1>3, <1>4, <1>5 DEF WalkInv, WalkAgrees

(* Whatever is commanded, cancelled, blocked, paralysed or teleported, and *)
(* whenever events come due (creature.cpp, player.cpp, game.cpp): eventWalk*)
(* is the identifier of a step that is pending, steps that are left are    *)
(* taken unless a teleport left them, and an action that waits for the walk*)
(* belongs to player, scheduler or dispatcher alone.                       *)
THEOREM WalksStayDriven ==
  ASSUME WalkAssumption, IdsSuffice
  PROVE  WalkSpec => []WalkAgrees
<1>1. WalkInit => WalkInv
  BY WalkInitHolds
<1>2. WalkInv /\ [WalkNext]_walkVars => WalkInv'
  BY WalkNextKeeps
<1>3. WalkInv => WalkAgrees
  BY WalkInvAgrees
<1> QED  BY <1>1, <1>2, <1>3, PTL DEF WalkSpec

-----------------------------------------------------------------------------
(***************************************************************************)
(* MonsterMind: the clocks of the spells.                                  *)
(***************************************************************************)

(* Between a multiple of w and the next one, the quotient and the          *)
(* remainder of a clock that canUseSpell() works with are these.           *)
LEMMA Multiples ==
  ASSUME NEW w \in Nat \ {0}, NEW n \in Nat
  PROVE  n * w \in Nat /\ (n + 1) * w = n * w + w
OBVIOUS

LEMMA Quotient ==
  ASSUME NEW t \in Nat, NEW w \in Nat \ {0}, NEW n \in Nat, n * w <= t, t < n * w + w
  PROVE  t \div w = n
OBVIOUS

LEMMA Remainder ==
  ASSUME NEW t \in Nat, NEW w \in Nat \ {0}, NEW n \in Nat, NEW r \in 0..w - 1, t = n * w + r
  PROVE  t % w = r
OBVIOUS

LEMMA RemainderIsLess ==
  ASSUME NEW t \in Nat, NEW w \in Nat \ {0}
  PROVE  t % w < w
OBVIOUS

(* A spell that has had n turns in a clock of t: n of its intervals have   *)
(* passed and not one more.                                                *)
Had(n, speed, t) == n * Pace(speed) <= t /\ t < n * Pace(speed) + Pace(speed)

(* One more interval on the clock is one more turn exactly if InTurn says  *)
(* so.                                                                     *)
LEMMA TurnsAreCounted ==
  ASSUME Interval \in Nat \ {0}, NEW s \in Nat \ {0}, NEW t \in Nat, NEW n \in Nat, Had(n, s, t)
  PROVE  Had(n + IF InTurn(t + Interval, s, Interval) THEN 1 ELSE 0, s, t + Interval)
<1>. DEFINE u == t + Interval
<1>1. u \in Nat /\ Pace(s) \in Nat \ {0}
  BY DEF Pace
<1>2. CASE s < Interval
  <2>1. Pace(s) = Interval
    BY <1>2 DEF Pace
  <2>2. u % s < Interval /\ s <= u
    <3>1. u % s < s
      BY <1>1, RemainderIsLess
    <3>2. u % s \in Int
      BY <1>1
    <3>. QED BY <3>1, <3>2, <1>2
  <2>3. InTurn(u, s, Interval)
    BY <2>2 DEF InTurn
  <2>4. Had(n + 1, s, u)
    <3>1. n * Interval \in Nat /\ (n + 1) * Interval = n * Interval + Interval
      BY Multiples
    <3>2. n * Interval <= t /\ t < n * Interval + Interval
      BY <2>1 DEF Had
    <3>. QED BY <3>1, <3>2, <2>1 DEF Had
  <2>. QED BY <2>3, <2>4
<1>3. CASE Interval <= s
  <2>1. Pace(s) = s
    BY <1>3 DEF Pace
  <2>. DEFINE p == n * s
  <2>2. p \in Nat /\ (n + 1) * s = p + s
    BY Multiples
  <2>3. p <= t /\ t < p + s
    BY <2>1 DEF Had
  <2>4. CASE u < p + s
    <3>1. u - p \in 0..s - 1 /\ u = p + (u - p) /\ u - p >= Interval
      <4>. HIDE DEF p
      <4>. QED BY <2>2, <2>3, <2>4
    <3>2. u % s = u - p
      BY <3>1, <1>1, Remainder
    <3>3. ~InTurn(u, s, Interval)
      <4>. HIDE DEF p
      <4>. QED BY <3>1, <3>2, <2>2 DEF InTurn
    <3>4. Had(n, s, u)
      <4>1. p <= u
        <5>. HIDE DEF p
        <5>. QED BY <2>2, <2>3
      <4>. QED BY <4>1, <2>4, <2>1 DEF Had
    <3>. QED BY <3>3, <3>4
  <2>5. CASE p + s <= u
    <3>. DEFINE q == (n + 1) * s
    <3>1. u - q \in 0..s - 1 /\ u = q + (u - q) /\ u - q < Interval /\ s <= u /\ u < q + s /\ q <= u
      <4>. HIDE DEF p, q
      <4>1. q = p + s
        BY <2>2 DEF q
      <4>. QED BY <4>1, <2>2, <2>3, <2>5, <1>3
    <3>2. u % s = u - q
      <4>1. n + 1 \in Nat
        OBVIOUS
      <4>. QED BY <4>1, <3>1, <1>1, Remainder
    <3>3. InTurn(u, s, Interval)
      <4>. HIDE DEF q
      <4>. QED BY <3>1, <3>2 DEF InTurn
    <3>4. Had(n + 1, s, u)
      BY <3>1, <2>1 DEF Had
    <3>. QED BY <3>3, <3>4
  <2>6. u < p + s \/ p + s <= u
    <3>. HIDE DEF p
    <3>. QED BY <2>2, <1>1
  <2>. QED BY <2>4, <2>5, <2>6
<1>. QED BY <1>2, <1>3

(* With an interval of 0 nothing is in its turn. *)
LEMMA NoTurnAtOnce ==
  ASSUME NEW s \in Nat \ {0}, NEW t \in Nat
  PROVE  ~InTurn(t, s, 0)
BY DEF InTurn

(* All spells of a list have had their turns. *)
AllHad(turns, speeds, t) == turns \in [DOMAIN speeds -> Nat] /\ \A i \in DOMAIN speeds : Had(turns[i], speeds[i], t)

LEMMA FairlyHad ==
  ASSUME Interval \in Nat \ {0}, NEW speeds \in Seq(Nat \ {0}), NEW t \in Nat, NEW turns, AllHad(turns, speeds, t)
  PROVE  Fair(turns, speeds, t)
<1>. SUFFICES ASSUME NEW i \in DOMAIN speeds PROVE turns[i] = t \div Pace(speeds[i])
  BY DEF Fair
<1>1. speeds[i] \in Nat \ {0} /\ turns[i] \in Nat
  BY DEF AllHad
<1>2. Pace(speeds[i]) \in Nat \ {0}
  BY <1>1 DEF Pace
<1>3. turns[i] * Pace(speeds[i]) <= t /\ t < turns[i] * Pace(speeds[i]) + Pace(speeds[i])
  BY DEF AllHad, Had
<1>. QED BY <1>1, <1>2, <1>3, Quotient

LEMMA NoneHad ==
  ASSUME Interval \in Nat \ {0}, NEW speeds \in Seq(Nat \ {0})
  PROVE  AllHad(Zeros(speeds), speeds, 0)
<1>1. ASSUME NEW i \in DOMAIN speeds PROVE Had(0, speeds[i], 0)
  <2>1. speeds[i] \in Nat \ {0}
    OBVIOUS
  <2>2. Pace(speeds[i]) \in Nat \ {0}
    BY <2>1 DEF Pace
  <2>. QED BY <2>2 DEF Had
<1>. QED BY <1>1 DEF AllHad, Zeros

LEMMA CountedTurns ==
  ASSUME Interval \in Nat \ {0}, NEW speeds \in Seq(Nat \ {0}), NEW t \in Nat, NEW turns, AllHad(turns, speeds, t)
  PROVE  /\ AllHad(Counted(turns, speeds, t + Interval, Interval), speeds, t + Interval)
         /\ AllHad(Counted(turns, speeds, t, 0), speeds, t)
<1>1. ASSUME NEW i \in DOMAIN speeds
      PROVE  /\ Had(turns[i] + IF InTurn(t + Interval, speeds[i], Interval) THEN 1 ELSE 0, speeds[i], t + Interval)
             /\ Had(turns[i] + IF InTurn(t, speeds[i], 0) THEN 1 ELSE 0, speeds[i], t)
             /\ turns[i] \in Nat
  <2>1. speeds[i] \in Nat \ {0} /\ turns[i] \in Nat /\ Had(turns[i], speeds[i], t)
    BY DEF AllHad
  <2>2. ~InTurn(t, speeds[i], 0)
    BY <2>1, NoTurnAtOnce
  <2>3. turns[i] + (IF InTurn(t, speeds[i], 0) THEN 1 ELSE 0) = turns[i]
    BY <2>1, <2>2
  <2>4. Had(turns[i] + IF InTurn(t + Interval, speeds[i], Interval) THEN 1 ELSE 0, speeds[i], t + Interval)
    BY <2>1, TurnsAreCounted
  <2>. QED BY <2>1, <2>3, <2>4
<1>. QED BY <1>1 DEF AllHad, Counted

(***************************************************************************)
(* Lists.                                                                  *)
(***************************************************************************)

Once(s) == \A i, j \in DOMAIN s : s[i] = s[j] => i = j

LEMMA CutOutFacts ==
  ASSUME NEW S, NEW s \in Seq(S), NEW k \in DOMAIN s
  PROVE  /\ CutOut(s, k) \in Seq(S)
         /\ Len(CutOut(s, k)) = Len(s) - 1
         /\ DOMAIN CutOut(s, k) = 1..Len(s) - 1
         /\ \A i \in 1..Len(s) - 1 : CutOut(s, k)[i] = s[IF i < k THEN i ELSE i + 1]
<1>1. k \in 1..Len(s) /\ Len(s) - 1 \in Nat
  OBVIOUS
<1>2. \A i \in 1..Len(s) - 1 : i \in 1..Len(s) /\ i + 1 \in 1..Len(s)
  BY <1>1
<1>3. CutOut(s, k) \in [1..Len(s) - 1 -> S]
  BY <1>2 DEF CutOut
<1>4. CutOut(s, k) \in Seq(S)
  BY <1>1, <1>3
<1>. QED BY <1>1, <1>3, <1>4 DEF CutOut

LEMMA UnlistedFacts ==
  ASSUME NEW S, NEW s \in Seq(S), Once(s), NEW t
  PROVE  /\ Unlisted(s, t) \in Seq(S)
         /\ Once(Unlisted(s, t))
         /\ t \notin Listed(Unlisted(s, t))
<1>1. CASE t \notin Listed(s)
  BY <1>1 DEF Unlisted
<1>2. CASE t \in Listed(s)
  <2>. DEFINE k == CHOOSE i \in DOMAIN s : s[i] = t
  <2>1. k \in DOMAIN s /\ s[k] = t
    BY <1>2 DEF Listed
  <2>2. Unlisted(s, t) = CutOut(s, k)
    BY <1>2 DEF Unlisted
  <2>. HIDE DEF k
  <2>3. /\ CutOut(s, k) \in Seq(S)
        /\ DOMAIN CutOut(s, k) = 1..Len(s) - 1
        /\ \A i \in 1..Len(s) - 1 : CutOut(s, k)[i] = s[IF i < k THEN i ELSE i + 1]
    BY <2>1, CutOutFacts
  <2>4. k \in 1..Len(s) /\ Len(s) \in Nat
    BY <2>1
  <2>. DEFINE from(i) == IF i < k THEN i ELSE i + 1
  <2>5. \A i \in 1..Len(s) - 1 : from(i) \in DOMAIN s /\ from(i) # k
    BY <2>4
  <2>6. \A i, j \in 1..Len(s) - 1 : from(i) = from(j) => i = j
    BY <2>4
  <2>7. Once(CutOut(s, k))
    <3>. SUFFICES ASSUME NEW i \in 1..Len(s) - 1, NEW j \in 1..Len(s) - 1, CutOut(s, k)[i] = CutOut(s, k)[j]
                  PROVE  i = j
      BY <2>3 DEF Once
    <3>1. s[from(i)] = s[from(j)]
      BY <2>3
    <3>. HIDE DEF from
    <3>2. from(i) = from(j)
      BY <3>1, <2>5 DEF Once
    <3>. QED BY <3>2, <2>6
  <2>8. t \notin Listed(CutOut(s, k))
    <3>. SUFFICES ASSUME NEW i \in 1..Len(s) - 1, CutOut(s, k)[i] = t PROVE FALSE
      BY <2>3 DEF Listed
    <3>1. s[from(i)] = s[k]
      BY <2>3, <2>1
    <3>. HIDE DEF from
    <3>. QED BY <3>1, <2>1, <2>5 DEF Once
  <2>. QED BY <2>2, <2>3, <2>7, <2>8
<1>. QED BY <1>1, <1>2

LEMMA LongerList ==
  ASSUME NEW S, NEW s \in Seq(S), Once(s), NEW t \in S, t \notin Listed(s)
  PROVE  /\ Append(s, t) \in Seq(S) /\ Once(Append(s, t))
         /\ <<t>> \o s \in Seq(S) /\ Once(<<t>> \o s)
<1>1. /\ DOMAIN Append(s, t) = 1..Len(s) + 1
      /\ \A i \in 1..Len(s) : Append(s, t)[i] = s[i]
      /\ Append(s, t)[Len(s) + 1] = t
  OBVIOUS
<1>2. /\ DOMAIN (<<t>> \o s) = 1..Len(s) + 1
      /\ \A i \in 1..Len(s) : (<<t>> \o s)[i + 1] = s[i]
      /\ (<<t>> \o s)[1] = t
  OBVIOUS
<1>3. \A i \in 1..Len(s) : s[i] # t
  BY DEF Listed
<1>4. \A i, j \in 1..Len(s) : s[i] = s[j] => i = j
  BY DEF Once
<1>5. Len(s) \in Nat
  OBVIOUS
<1>6. \A i \in 1..Len(s) + 1 : i \in 1..Len(s) \/ i = Len(s) + 1
  BY <1>5
<1>7. \A i \in 1..Len(s) + 1 : i = 1 \/ (i - 1 \in 1..Len(s) /\ (i - 1) + 1 = i)
  BY <1>5
<1>8. Once(Append(s, t))
  <2>. SUFFICES ASSUME NEW i \in 1..Len(s) + 1, NEW j \in 1..Len(s) + 1, Append(s, t)[i] = Append(s, t)[j]
                PROVE  i = j
    BY <1>1 DEF Once
  <2>. DEFINE a == Append(s, t)
  <2>1. a[i] = a[j] /\ (\A x \in 1..Len(s) : a[x] = s[x]) /\ a[Len(s) + 1] = t
    BY <1>1
  <2>. HIDE DEF a
  <2>. QED BY <2>1, <1>3, <1>4, <1>6
<1>9. Once(<<t>> \o s)
  <2>. DEFINE a == <<t>> \o s
  <2>1. DOMAIN a = 1..Len(s) + 1 /\ (\A x \in 1..Len(s) : a[x + 1] = s[x]) /\ a[1] = t
    BY <1>2
  <2>. HIDE DEF a
  <2>2. Once(a)
    <3>. SUFFICES ASSUME NEW i \in 1..Len(s) + 1, NEW j \in 1..Len(s) + 1, a[i] = a[j]
                  PROVE  i = j
      BY <2>1 DEF Once
    <3>1. (i # 1 => a[i] = s[i - 1]) /\ (j # 1 => a[j] = s[j - 1])
      BY <2>1, <1>7
    <3>. QED BY <3>1, <2>1, <1>3, <1>4, <1>5, <1>7
  <2>. QED BY <2>2 DEF a
<1>. QED BY <1>8, <1>9

(***************************************************************************)
(* Summons.                                                                *)
(***************************************************************************)

FewSummons(s) ==
  /\ s \in Seq(DOMAIN SummonBlocks) /\ Len(s) <= maxSummons
  /\ \A i \in DOMAIN SummonBlocks : OfBlock(s, i) <= SummonBlocks[i].max

LEMMA BlockFacts ==
  ASSUME MindAssumption, NEW i \in DOMAIN SummonBlocks
  PROVE  SummonBlocks[i].max \in Nat /\ SummonBlocks[i].speed \in Nat \ {0}
<1>. DEFINE B == [speed : Nat \ {0}, max : Nat]
<1>1. SummonBlocks \in Seq(B)
  BY DEF MindAssumption
<1>2. SummonBlocks[i] \in B
  <2>. HIDE DEF B
  <2>. QED BY <1>1
<1>. QED BY <1>2

LEMMA OfBlockIsFinite ==
  ASSUME NEW S, NEW s \in Seq(S), NEW n
  PROVE  IsFiniteSet({k \in DOMAIN s : s[k] = n}) /\ OfBlock(s, n) \in Nat
<1>1. IsFiniteSet(1..Len(s))
  <2>1. 1 \in Int /\ Len(s) \in Int
    OBVIOUS
  <2>. QED BY <2>1, FS_Interval
<1>2. {k \in DOMAIN s : s[k] = n} \subseteq 1..Len(s)
  OBVIOUS
<1>3. IsFiniteSet({k \in DOMAIN s : s[k] = n})
  BY <1>1, <1>2, FS_Subset
<1>. QED BY <1>3, FS_CardinalityType DEF OfBlock

(* A summon more is one more of its block. *)
LEMMA OfBlockAppend ==
  ASSUME NEW S, NEW s \in Seq(S), NEW n \in S, NEW i
  PROVE  OfBlock(Append(s, n), i) = IF i = n THEN OfBlock(s, i) + 1 ELSE OfBlock(s, i)
<1>. DEFINE A == {k \in DOMAIN s : s[k] = i}
            B == {k \in DOMAIN Append(s, n) : Append(s, n)[k] = i}
            e == Len(s) + 1
<1>1. Len(s) \in Nat /\ DOMAIN s = 1..Len(s) /\ DOMAIN Append(s, n) = 1..e
  OBVIOUS
<1>2. (\A k \in 1..Len(s) : Append(s, n)[k] = s[k]) /\ Append(s, n)[e] = n
  OBVIOUS
<1>3. \A k : k \in 1..e <=> k \in 1..Len(s) \/ k = e
  BY <1>1
<1>4. e \notin A
  BY <1>1
<1>5. IsFiniteSet(A)
  BY OfBlockIsFinite
<1>6. CASE i = n
  <2>1. B = A \union {e}
    <3>1. \A k : k \in B <=> k \in A \/ k = e
      BY <1>1, <1>2, <1>3, <1>6
    <3>. QED BY <3>1
  <2>2. Cardinality(A \union {e}) = Cardinality(A) + 1
    <3>. HIDE DEF A, e
    <3>. QED BY <1>4, <1>5, FS_AddElement
  <2>. QED BY <2>1, <2>2, <1>6 DEF OfBlock
<1>7. CASE i # n
  <2>1. B = A
    <3>1. \A k : k \in B <=> k \in A
      BY <1>1, <1>2, <1>3, <1>7
    <3>. QED BY <3>1
  <2>. QED BY <2>1, <1>7 DEF OfBlock
<1>. QED BY <1>6, <1>7

(* One summon less is no more of any block. *)
LEMMA OfBlockCutOut ==
  ASSUME NEW S, NEW s \in Seq(S), NEW k \in DOMAIN s, NEW i
  PROVE  OfBlock(CutOut(s, k), i) <= OfBlock(s, i)
<1>. DEFINE A == {j \in DOMAIN s : s[j] = i}
            B == {j \in DOMAIN CutOut(s, k) : CutOut(s, k)[j] = i}
            from == [j \in B |-> IF j < k THEN j ELSE j + 1]
<1>1. /\ DOMAIN CutOut(s, k) = 1..Len(s) - 1
      /\ \A j \in 1..Len(s) - 1 : CutOut(s, k)[j] = s[IF j < k THEN j ELSE j + 1]
  BY CutOutFacts
<1>2. Len(s) \in Nat /\ DOMAIN s = 1..Len(s) /\ k \in 1..Len(s)
  OBVIOUS
<1>3. \A j \in B : from[j] \in A
  <2>. SUFFICES ASSUME NEW j \in B PROVE from[j] \in A
    OBVIOUS
  <2>1. j \in 1..Len(s) - 1 /\ s[from[j]] = i
    BY <1>1
  <2>2. from[j] \in 1..Len(s)
    BY <2>1, <1>2
  <2>. QED BY <2>1, <2>2, <1>2
<1>4. \A j, l \in B : from[j] = from[l] => j = l
  <2>1. \A j \in B : j \in Int
    BY <1>1
  <2>. HIDE DEF B
  <2>. QED BY <2>1, <1>2
<1>5. from \in Injection(B, A)
  <2>1. from \in [B -> A]
    <3>1. DOMAIN from = B /\ from = [j \in B |-> from[j]]
      OBVIOUS
    <3>. HIDE DEF from, A, B
    <3>. QED BY <3>1, <1>3
  <2>. HIDE DEF from, A, B
  <2>. QED BY <2>1, <1>4 DEF Injection, IsInjective
<1>6. IsFiniteSet(A)
  BY OfBlockIsFinite
<1>7. Cardinality(B) <= Cardinality(A)
  <2>. HIDE DEF from, A, B
  <2>. QED BY <1>5, <1>6, FS_Injection
<1>. QED BY <1>7 DEF OfBlock

LEMMA NoSummonsYet ==
  ASSUME MindAssumption
  PROVE  FewSummons(<<>>)
<1>1. \A i : OfBlock(<<>>, i) = 0
  <2>1. \A i : {k \in DOMAIN << >> : << >>[k] = i} = {}
    OBVIOUS
  <2>. QED BY <2>1, FS_EmptySet DEF OfBlock
<1>2. \A i \in DOMAIN SummonBlocks : SummonBlocks[i].max \in Nat
  BY BlockFacts
<1>. QED BY <1>1, <1>2 DEF FewSummons, MindAssumption

LEMMA SummonLost ==
  ASSUME MindAssumption, NEW s, FewSummons(s), NEW k \in DOMAIN s
  PROVE  FewSummons(CutOut(s, k))
<1>1. s \in Seq(DOMAIN SummonBlocks)
  BY DEF FewSummons
<1>2. CutOut(s, k) \in Seq(DOMAIN SummonBlocks) /\ Len(CutOut(s, k)) = Len(s) - 1
  BY <1>1, CutOutFacts
<1>3. Len(CutOut(s, k)) <= maxSummons
  BY <1>1, <1>2 DEF FewSummons, MindAssumption
<1>4. ASSUME NEW i \in DOMAIN SummonBlocks PROVE OfBlock(CutOut(s, k), i) <= SummonBlocks[i].max
  <2>1. OfBlock(CutOut(s, k), i) <= OfBlock(s, i)
    BY <1>1, OfBlockCutOut
  <2>2. OfBlock(CutOut(s, k), i) \in Nat /\ OfBlock(s, i) \in Nat
    BY <1>1, <1>2, OfBlockIsFinite
  <2>3. OfBlock(s, i) <= SummonBlocks[i].max /\ SummonBlocks[i].max \in Nat
    BY BlockFacts DEF FewSummons
  <2>. QED BY <2>1, <2>2, <2>3
<1>. QED BY <1>2, <1>3, <1>4 DEF FewSummons

(* A block calls a monster only while it and the monster have room. *)
LEMMA CalledAreFew ==
  ASSUME MindAssumption, NEW s, FewSummons(s), NEW n \in DOMAIN SummonBlocks, NEW ticks, NEW l \in Called(s, n, ticks)
  PROVE  FewSummons(l)
<1>1. CASE l = s
  BY <1>1
<1>2. CASE l # s
  <2>1. l = Append(s, n) /\ Len(s) < maxSummons /\ OfBlock(s, n) < SummonBlocks[n].max
    BY <1>2 DEF Called
  <2>2. s \in Seq(DOMAIN SummonBlocks)
    BY DEF FewSummons
  <2>3. l \in Seq(DOMAIN SummonBlocks) /\ Len(l) = Len(s) + 1 /\ Len(s) \in Nat
    BY <2>1, <2>2
  <2>4. Len(l) <= maxSummons
    BY <2>1, <2>3 DEF MindAssumption
  <2>5. ASSUME NEW i \in DOMAIN SummonBlocks PROVE OfBlock(l, i) <= SummonBlocks[i].max
    <3>1. OfBlock(l, i) = IF i = n THEN OfBlock(s, i) + 1 ELSE OfBlock(s, i)
      BY <2>1, <2>2, OfBlockAppend
    <3>2. OfBlock(s, i) \in Nat
      BY <2>2, OfBlockIsFinite
    <3>3. OfBlock(s, i) <= SummonBlocks[i].max /\ SummonBlocks[i].max \in Nat
      BY BlockFacts DEF FewSummons
    <3>. QED BY <3>1, <3>2, <3>3, <2>1
  <2>. QED BY <2>3, <2>4, <2>5 DEF FewSummons
<1>. QED BY <1>1, <1>2

LEMMA SetInduction ==
  ASSUME NEW G, G \subseteq Nat, 0 \in G, \A n \in Nat : n \in G => n + 1 \in G
  PROVE  G = Nat
<1>. DEFINE B == Nat \ G
            R == OpToRel(<, Nat)
<1>. SUFFICES ASSUME B # {} PROVE FALSE
  OBVIOUS
<1>1. IsWellFoundedOn(R, Nat)
  BY NatLessThanWellFounded
<1>2. \A x, y \in Nat : <<x, y>> \in R <=> x < y
  BY DEF OpToRel
<1>. HIDE DEF R
<1>3. PICK n \in B : \A k \in B : ~(<<k, n>> \in R)
  BY <1>1, WFMin
<1>4. n # 0 /\ n - 1 \in Nat /\ n - 1 < n
  BY <1>3
<1>5. n - 1 \in G
  BY <1>2, <1>3, <1>4
<1>. QED BY <1>3, <1>4, <1>5

(* The lists of summons after each of the first n blocks. *)
IsCalling(after, s, ticks, N) ==
  after = [n \in 0..N |-> IF n = 0 THEN {s} ELSE UNION {Called(l, n, ticks) : l \in after[n - 1]}]

LEMMA CallingExists ==
  ASSUME NEW s, NEW ticks, NEW k \in Nat
  PROVE  \E c : IsCalling(c, s, ticks, k)
<1>. DEFINE G == {n \in Nat : \E c : IsCalling(c, s, ticks, n)}
            Next1(c, x) == UNION {Called(l, x, ticks) : l \in c}
<1>1. 0 \in G
  <2>1. IsCalling([x \in 0..0 |-> {s}], s, ticks, 0)
    BY DEF IsCalling
  <2>. QED BY <2>1
<1>2. ASSUME NEW n \in Nat, n \in G
      PROVE  n + 1 \in G
  <2>1. PICK c : IsCalling(c, s, ticks, n)
    BY <1>2
  <2>. DEFINE last == Next1(c[n], n + 1)
              longer == [x \in 0..n + 1 |-> IF x <= n THEN c[x] ELSE last]
  <2>2. (\A x \in 0..n : longer[x] = c[x]) /\ longer[n + 1] = last
    OBVIOUS
  <2>3. \A x \in 0..n + 1 : longer[x] = IF x = 0 THEN {s} ELSE Next1(longer[x - 1], x)
    <3>1. c = [x \in 0..n |-> IF x = 0 THEN {s} ELSE Next1(c[x - 1], x)]
      BY <2>1 DEF IsCalling
    <3>. HIDE DEF longer, Next1
    <3>2. ASSUME NEW x \in 0..n + 1, x <= n
          PROVE longer[x] = IF x = 0 THEN {s} ELSE Next1(longer[x - 1], x)
      <4>1. x \in 0..n /\ (x # 0 => x - 1 \in 0..n)
        BY <3>2
      <4>2. c[x] = IF x = 0 THEN {s} ELSE Next1(c[x - 1], x)
        BY <4>1, <3>1
      <4>. QED BY <4>1, <4>2, <2>2
    <3>3. longer[n] = c[n] /\ (n + 1) - 1 = n /\ n + 1 # 0
      BY <2>2
    <3>4. \A x \in 0..n + 1 : x <= n \/ x = n + 1
      OBVIOUS
    <3>. QED BY <3>2, <3>3, <3>4, <2>2
  <2>4. longer = [x \in 0..n + 1 |-> longer[x]]
    OBVIOUS
  <2>5. IsCalling(longer, s, ticks, n + 1)
    <3>. HIDE DEF longer
    <3>. QED BY <2>3, <2>4 DEF IsCalling
  <2>. QED BY <2>5
<1>3. G = Nat
  <2>. HIDE DEF G
  <2>1. G \subseteq Nat
    BY DEF G
  <2>. QED BY <1>1, <1>2, <2>1, SetInduction
<1>. QED BY <1>3

(* Whatever the blocks call in one turn, the limits hold after it. *)
LEMMA SummonsStayFew ==
  ASSUME MindAssumption, NEW s, FewSummons(s), NEW ticks, NEW l \in SummonsAfter(s, ticks)
  PROVE  FewSummons(l)
<1>. DEFINE N == Len(SummonBlocks)
            c == CHOOSE f : f = [n \in 0..N |->
                   IF n = 0 THEN {s} ELSE UNION {Called(x, n, ticks) : x \in f[n - 1]}]
            G == {n \in Nat : n <= N => \A x \in c[n] : FewSummons(x)}
<1>1. N \in Nat
  BY DEF MindAssumption
<1>2. IsCalling(c, s, ticks, N)
  <2>1. \E f : IsCalling(f, s, ticks, N)
    BY <1>1, CallingExists
  <2>. QED BY <2>1 DEF IsCalling
<1>3. SummonsAfter(s, ticks) = c[N]
  BY DEF SummonsAfter
<1>. HIDE DEF c
<1>4. \A n \in 0..N : c[n] = IF n = 0 THEN {s} ELSE UNION {Called(x, n, ticks) : x \in c[n - 1]}
  BY <1>2 DEF IsCalling
<1>5. 0 \in G
  <2>1. 0 \in 0..N
    BY <1>1
  <2>2. c[0] = {s}
    BY <2>1, <1>4
  <2>. QED BY <2>2
<1>6. ASSUME NEW n \in Nat, n \in G PROVE n + 1 \in G
  <2>. SUFFICES ASSUME n + 1 <= N, NEW y \in c[n + 1] PROVE FewSummons(y)
    OBVIOUS
  <2>1. n + 1 \in 0..N /\ n + 1 # 0 /\ (n + 1) - 1 = n /\ n + 1 \in DOMAIN SummonBlocks /\ n <= N
    BY <1>1 DEF MindAssumption
  <2>2. c[n + 1] = UNION {Called(x, n + 1, ticks) : x \in c[n]}
    BY <2>1, <1>4
  <2>3. PICK x \in c[n] : y \in Called(x, n + 1, ticks)
    BY <2>2
  <2>4. FewSummons(x)
    BY <1>6, <2>1, <2>3
  <2>. QED BY <2>1, <2>3, <2>4, CalledAreFew
<1>7. G = Nat
  <2>. HIDE DEF G
  <2>1. G \subseteq Nat
    BY DEF G
  <2>. QED BY <1>5, <1>6, <2>1, SetInduction
<1>. QED BY <1>1, <1>3, <1>7

(***************************************************************************)
(* The monster.                                                            *)
(***************************************************************************)

TargetLists == Seq(Targets)
TurnCounts(speeds) == [DOMAIN speeds -> Nat]
SummonLists == Seq(DOMAIN SummonBlocks)

Minds == [alive : BOOLEAN, idle : BOOLEAN, targetList : TargetLists, follow : Targets \union {NoTarget},
          path : BOOLEAN, attackTicks : Nat, turns : TurnCounts(Attacks), defenseTicks : Nat,
          casts : TurnCounts(Defenses), summons : SummonLists, changeTicks : Nat, cooldown : Nat, focus : Nat,
          sinceChallenge : Nat, sinceChange : Nat, gap : Nat, changed : BOOLEAN]

(* The rounds of the spells, with what is left to do in them. *)
Rounds(c) ==
  /\ AllHad(c.turns, Attacks, c.attackTicks) /\ AllHad(c.casts, Defenses, c.defenseTicks)
  /\ c.attackTicks > 0 => ~AllDue(Attacks, c.attackTicks)
  /\ c.defenseTicks > 0 => \/ ~AllDue(Defenses, c.defenseTicks)
                           \/ \E i \in DOMAIN SummonBlocks : SummonBlocks[i].speed > c.defenseTicks

(* The focus of a challenge is the rest of its time, and the pause before  *)
(* the next change is never shorter; what is left of that pause and what   *)
(* has passed since the last change make a whole one.                      *)
Punctual(c) ==
  /\ c.sinceChallenge <= ChallengeTime /\ c.focus = ChallengeTime - c.sinceChallenge
  /\ c.focus <= c.cooldown
  /\ c.sinceChange <= changeTargetSpeed /\ c.sinceChange + c.cooldown >= Pause
  /\ c.changed => c.sinceChallenge >= ChallengeTime /\ c.gap >= Pause

Sound(c) == c \in Minds /\ Once(c.targetList) /\ Rounds(c) /\ FewSummons(c.summons) /\ Punctual(c)

(* What is replaced in a monster is of its kind. *)
LEMMA ReplacedTarget ==
  ASSUME NEW c \in Minds, NEW x \in Targets \union {NoTarget}, NEW y \in BOOLEAN
  PROVE  [c EXCEPT !.follow = x, !.path = y] \in Minds
BY DEF Minds

LEMMA ReplacedList ==
  ASSUME NEW c \in Minds, NEW x \in BOOLEAN, NEW y \in BOOLEAN, NEW l \in TargetLists
  PROVE  [c EXCEPT !.idle = x, !.path = y, !.targetList = l] \in Minds
BY DEF Minds

LEMMA ReplacedClocks ==
  ASSUME NEW c \in Minds, NEW f \in Nat, NEW d \in Nat, NEW t \in Nat, NEW x \in Nat, NEW y \in Nat, NEW g \in Nat,
         NEW b \in BOOLEAN
  PROVE  [c EXCEPT !.focus = f, !.cooldown = d, !.changeTicks = t, !.sinceChallenge = x, !.sinceChange = y,
                   !.gap = g, !.changed = b] \in Minds
BY DEF Minds

LEMMA ReplacedAttack ==
  ASSUME NEW c \in Minds, NEW t \in Nat, NEW u \in TurnCounts(Attacks)
  PROVE  [c EXCEPT !.attackTicks = t, !.turns = u] \in Minds
BY DEF Minds

LEMMA ReplacedDefense ==
  ASSUME NEW c \in Minds, NEW t \in Nat, NEW u \in TurnCounts(Defenses), NEW s \in SummonLists
  PROVE  [c EXCEPT !.defenseTicks = t, !.casts = u, !.summons = s] \in Minds
BY DEF Minds

(* A step that touches neither rounds, summons nor times. *)
SameRest(c, d) ==
  /\ d.attackTicks = c.attackTicks /\ d.turns = c.turns /\ d.defenseTicks = c.defenseTicks /\ d.casts = c.casts
  /\ d.summons = c.summons /\ d.cooldown = c.cooldown /\ d.focus = c.focus /\ d.gap = c.gap
  /\ d.sinceChallenge = c.sinceChallenge /\ d.sinceChange = c.sinceChange
  /\ d.changed => c.changed

LEMMA RestIsSound ==
  ASSUME NEW c, Sound(c), NEW d \in Minds, Once(d.targetList), SameRest(c, d)
  PROVE  Sound(d)
BY DEF Sound, SameRest, Rounds, Punctual

LEMMA ListTypes ==
  ASSUME NEW c \in Minds
  PROVE  /\ c.targetList \in Seq(Targets) /\ Listed(c.targetList) \subseteq Targets
         /\ c.follow \in Targets \union {NoTarget} /\ c.path \in BOOLEAN /\ c.idle \in BOOLEAN
<1>1. c.targetList \in Seq(Targets)
  BY DEF Minds, TargetLists
<1>2. c.follow \in Targets \union {NoTarget} /\ c.path \in BOOLEAN /\ c.idle \in BOOLEAN
  BY DEF Minds
<1>3. Listed(c.targetList) \subseteq Targets
  <2>. DEFINE l == c.targetList
  <2>1. l \in Seq(Targets)
    BY <1>1
  <2>. HIDE DEF l
  <2>2. Listed(l) \subseteq Targets
    BY <2>1 DEF Listed
  <2>. QED BY <2>2 DEF l
<1>. QED BY <1>1, <1>2, <1>3

LEMMA CalmIsSound ==
  ASSUME NEW c, Sound(c)
  PROVE  Sound([c EXCEPT !.changed = FALSE]) /\ [c EXCEPT !.changed = FALSE].changed = FALSE
<1>. DEFINE d == [c EXCEPT !.changed = FALSE]
<1>1. c \in Minds /\ Once(c.targetList)
  BY DEF Sound
<1>2. d \in Minds /\ d.targetList = c.targetList /\ SameRest(c, d) /\ d.changed = FALSE
  BY <1>1 DEF Minds, SameRest
<1>. HIDE DEF d
<1>3. Sound(d)
  BY <1>1, <1>2, RestIsSound
<1>. QED BY <1>2, <1>3 DEF d

(* Another target, or none. *)
LEMMA RetargetedIsSound ==
  ASSUME NEW c, Sound(c), NEW x \in Targets \union {NoTarget}, NEW y \in BOOLEAN
  PROVE  /\ Sound([c EXCEPT !.follow = x, !.path = y])
         /\ [c EXCEPT !.follow = x, !.path = y].changed = c.changed
         /\ [c EXCEPT !.follow = x, !.path = y].targetList = c.targetList
<1>. DEFINE d == [c EXCEPT !.follow = x, !.path = y]
<1>1. c \in Minds /\ Once(c.targetList)
  BY DEF Sound
<1>2. d \in Minds
  BY <1>1, ReplacedTarget
<1>3. d.targetList = c.targetList /\ SameRest(c, d) /\ d.changed = c.changed
  BY <1>1 DEF Minds, SameRest
<1>. HIDE DEF d
<1>4. Sound(d)
  BY <1>1, <1>2, <1>3, RestIsSound
<1>. QED BY <1>3, <1>4 DEF d

LEMMA SelectedIsSound ==
  ASSUME NEW c, Sound(c), NEW t
  PROVE  Sound(SelectTarget(c, t)) /\ SelectTarget(c, t).changed = c.changed
<1>1. CASE t \in seen.safe \/ ~IsTarget(t) \/ t \notin Listed(c.targetList)
  BY <1>1 DEF SelectTarget
<1>2. CASE ~(t \in seen.safe \/ ~IsTarget(t) \/ t \notin Listed(c.targetList))
  <2>. DEFINE y == IF c.follow = t THEN c.path ELSE FALSE
  <2>1. c \in Minds
    BY DEF Sound
  <2>2. t \in Targets /\ y \in BOOLEAN
    BY <2>1, <1>2, ListTypes
  <2>3. SelectTarget(c, t) = [c EXCEPT !.follow = t, !.path = y]
    BY <1>2 DEF SelectTarget
  <2>. HIDE DEF y
  <2>4. /\ Sound([c EXCEPT !.follow = t, !.path = y])
        /\ [c EXCEPT !.follow = t, !.path = y].changed = c.changed
    BY <2>2, RetargetedIsSound
  <2>. QED BY <2>3, <2>4
<1>. QED BY <1>1, <1>2

LEMMA PickedIsSound ==
  ASSUME NEW c, Sound(c)
  PROVE  Sound(PickFirst(c)) /\ PickFirst(c).changed = c.changed
<1>. DEFINE able == {i \in DOMAIN c.targetList : LET t == c.targetList[i]
                                                 IN  t # c.follow /\ IsTarget(t) /\ t \notin seen.safe}
            t == c.targetList[CHOOSE i \in able : \A j \in able : i <= j]
<1>1. PickFirst(c) = IF able = {} THEN c ELSE SelectTarget(c, t)
  BY DEF PickFirst
<1>. HIDE DEF able, t
<1>. QED BY <1>1, SelectedIsSound

LEMMA SearchedIsSound ==
  ASSUME NEW c, Sound(c), NEW type, NEW d \in SearchTarget(c, type)
  PROVE  Sound(d) /\ d.changed = c.changed
<1>. DEFINE list == Listed(c.targetList)
            result == {t \in list \ {c.follow} : IsTarget(t) /\ (type = "random" \/ t \in seen.near)}
            nearest == IF result # {} THEN result ELSE {t \in list : IsTarget(t)}
            picked(t) == IF t \in seen.safe THEN PickFirst(c) ELSE SelectTarget(c, t)
<1>1. d = c \/ d = PickFirst(c) \/ \E t : d = SelectTarget(c, t)
  <2>1. SearchTarget(c, type) =
          IF type = "nearest" /\ nearest # {} THEN {picked(t) : t \in nearest}
          ELSE IF type # "nearest" /\ result # {} THEN {SelectTarget(c, t) : t \in result}
          ELSE IF type = "attackrange" THEN {c}
          ELSE {PickFirst(c)}
    BY DEF SearchTarget
  <2>2. d \in {picked(t) : t \in nearest} => d = PickFirst(c) \/ \E t : d = SelectTarget(c, t)
    <3>. HIDE DEF nearest
    <3>. QED OBVIOUS
  <2>3. d \in {SelectTarget(c, t) : t \in result} => \E t : d = SelectTarget(c, t)
    <3>. HIDE DEF result
    <3>. QED OBVIOUS
  <2>. HIDE DEF nearest, result, picked
  <2>. QED BY <2>1, <2>2, <2>3
<1>. QED BY <1>1, SelectedIsSound, PickedIsSound

(* Asleep it has no targets; awake it keeps them. *)
LEMMA IdleIsSound ==
  ASSUME NEW c, Sound(c), NEW idle \in BOOLEAN
  PROVE  Sound(SetIdle(c, idle)) /\ SetIdle(c, idle).changed = c.changed
<1>. DEFINE d == SetIdle(c, idle)
            l == IF idle THEN <<>> ELSE c.targetList
<1>1. c \in Minds /\ Once(c.targetList)
  BY DEF Sound
<1>2. l \in TargetLists /\ Once(l)
  BY <1>1, ListTypes DEF TargetLists, Once
<1>3. d \in Minds
  <2>1. d = [c EXCEPT !.idle = idle, !.path = c.path, !.targetList = l]
    BY <1>1 DEF SetIdle, Minds
  <2>. HIDE DEF d, l
  <2>. QED BY <1>1, <1>2, <2>1, ListTypes, ReplacedList
<1>4. d.targetList = l /\ SameRest(c, d) /\ d.changed = c.changed
  BY <1>1 DEF Minds, SameRest, SetIdle
<1>. HIDE DEF d, l
<1>5. Sound(d)
  BY <1>2, <1>3, <1>4, RestIsSound
<1>. QED BY <1>4, <1>5 DEF d

LEMMA UpdatedIsSound ==
  ASSUME NEW c, Sound(c), NEW hurt \in BOOLEAN
  PROVE  Sound(UpdateIdleStatus(c, hurt)) /\ UpdateIdleStatus(c, hurt).changed = c.changed
<1>1. (c.targetList = <<>> /\ ~hurt) \in BOOLEAN
  OBVIOUS
<1>2. /\ Sound(SetIdle(c, c.targetList = <<>> /\ ~hurt))
      /\ SetIdle(c, c.targetList = <<>> /\ ~hurt).changed = c.changed
  BY ONLY <1>1, IdleIsSound, Sound(c)
<1>. QED BY <1>2 DEF UpdateIdleStatus

LEMMA ListedIsSound ==
  ASSUME NEW c, Sound(c), NEW l \in Seq(Targets), Once(l), NEW y \in BOOLEAN
  PROVE  Sound([c EXCEPT !.path = y, !.targetList = l])
<1>. DEFINE d == [c EXCEPT !.path = y, !.targetList = l]
<1>1. c \in Minds
  BY DEF Sound
<1>2. d \in Minds
  <2>1. d = [c EXCEPT !.idle = c.idle, !.path = y, !.targetList = l]
    BY <1>1 DEF Minds
  <2>2. l \in TargetLists /\ c.idle \in BOOLEAN
    BY <1>1, ListTypes DEF TargetLists
  <2>. HIDE DEF d
  <2>. QED BY <1>1, <2>1, <2>2, ReplacedList
<1>3. d.targetList = l /\ SameRest(c, d)
  BY <1>1 DEF Minds, SameRest
<1>. HIDE DEF d
<1>4. Sound(d)
  BY <1>2, <1>3, RestIsSound
<1>. QED BY <1>4 DEF d

(* The clocks of the target: after an interval they are still right, and a *)
(* change that is due comes after the challenge and the pause.             *)
LEMMA ClocksAreSound ==
  ASSUME MindAssumption, NEW c, Sound(c), c.changed = FALSE
  PROVE  Sound(Clocks(c))
<1>. DEFINE left == Down(c.cooldown, Interval)
            over == c.cooldown > 0 /\ left = 0
            ticks == (IF over THEN changeTargetSpeed ELSE c.changeTicks) + Interval
            time == left = 0 /\ ticks >= changeTargetSpeed
            f == IF time THEN 0 ELSE Down(c.focus, Interval)
            w == IF time THEN changeTargetSpeed ELSE left
            t == IF time THEN 0 ELSE IF left = 0 THEN ticks ELSE c.changeTicks
            x == Aged(c.sinceChallenge, ChallengeTime)
            y == IF time THEN 0 ELSE Aged(c.sinceChange, changeTargetSpeed)
            g == IF time THEN Aged(c.sinceChange, changeTargetSpeed) ELSE c.gap
            d == Clocks(c)
<1>1. c \in Minds /\ Once(c.targetList) /\ Rounds(c) /\ FewSummons(c.summons) /\ Punctual(c)
  BY DEF Sound
<1>2. /\ c.cooldown \in Nat /\ c.focus \in Nat /\ c.changeTicks \in Nat /\ c.sinceChallenge \in Nat
      /\ c.sinceChange \in Nat /\ c.gap \in Nat
  BY <1>1 DEF Minds
<1>3. Interval \in Nat \ {0} /\ ChallengeTime \in Nat \ {0} /\ changeTargetSpeed \in Nat
  BY DEF MindAssumption
<1>4. left \in Nat /\ ticks \in Nat /\ time \in BOOLEAN
  BY <1>2, <1>3 DEF Down
<1>5. f \in Nat /\ w \in Nat /\ t \in Nat /\ x \in Nat /\ y \in Nat /\ g \in Nat
  BY <1>2, <1>3, <1>4 DEF Down, Aged
<1>6. d = [c EXCEPT !.focus = f, !.cooldown = w, !.changeTicks = t, !.sinceChallenge = x, !.sinceChange = y,
                    !.gap = g, !.changed = time]
  BY DEF Clocks
<1>7. /\ x <= ChallengeTime /\ f = ChallengeTime - x /\ f <= w
      /\ y <= changeTargetSpeed /\ y + w >= Pause
      /\ time => x >= ChallengeTime /\ g >= Pause
  <2>1. /\ c.sinceChallenge <= ChallengeTime /\ c.focus = ChallengeTime - c.sinceChallenge /\ c.focus <= c.cooldown
        /\ c.sinceChange <= changeTargetSpeed /\ c.sinceChange + c.cooldown >= Pause
    BY <1>1 DEF Punctual
  <2>2. CASE time
    <3>1. left = 0
      BY <2>2
    <3>2. c.cooldown <= Interval
      BY <3>1, <1>2, <1>3 DEF Down
    <3>3. f = 0 /\ w = changeTargetSpeed /\ y = 0 /\ g = Aged(c.sinceChange, changeTargetSpeed)
      BY <2>2
    <3>. HIDE DEF f, w, y, g, time
    <3>4. x = ChallengeTime /\ Pause <= changeTargetSpeed
      BY <2>1, <3>2, <1>2, <1>3 DEF Aged, Pause
    <3>5. g >= Pause
      BY <2>1, <3>2, <3>3, <3>4, <1>2, <1>3 DEF Aged, Pause
    <3>. QED BY <3>3, <3>4, <3>5, <1>3
  <2>3. CASE ~time
    <3>1. f = Down(c.focus, Interval) /\ w = Down(c.cooldown, Interval) /\ y = Aged(c.sinceChange, changeTargetSpeed)
      BY <2>3
    <3>. HIDE DEF f, w, y, g, time
    <3>. QED BY <2>1, <2>3, <3>1, <1>2, <1>3 DEF Aged, Pause, Down
  <2>. QED BY <2>2, <2>3
<1>. HIDE DEF left, over, ticks, time, f, w, t, x, y, g
<1>8. d \in Minds
  <2>1. [c EXCEPT !.focus = f, !.cooldown = w, !.changeTicks = t, !.sinceChallenge = x, !.sinceChange = y,
                  !.gap = g, !.changed = time] \in Minds
    BY <1>1, <1>4, <1>5, ReplacedClocks, ZenonT(60)
  <2>. QED BY <2>1, <1>6
<1>9. /\ d.targetList = c.targetList /\ d.summons = c.summons /\ d.attackTicks = c.attackTicks
      /\ d.turns = c.turns /\ d.defenseTicks = c.defenseTicks /\ d.casts = c.casts
      /\ d.focus = f /\ d.cooldown = w /\ d.sinceChallenge = x /\ d.sinceChange = y /\ d.gap = g /\ d.changed = time
  BY <1>1, <1>6 DEF Minds
<1>. HIDE DEF d
<1>10. Rounds(d)
  BY <1>1, <1>9 DEF Rounds
<1>11. Punctual(d)
  BY <1>7, <1>9 DEF Punctual
<1>12. Sound(d)
  BY <1>1, <1>8, <1>9, <1>10, <1>11 DEF Sound
<1>. QED BY <1>12 DEF d

LEMMA ThoughtTargetIsSound ==
  ASSUME MindAssumption, NEW c, Sound(c), c.changed = FALSE, NEW d \in ThinkTarget(c)
  PROVE  Sound(d)
<1>. DEFINE free == IF c.follow \in seen.safe THEN [c EXCEPT !.follow = NoTarget, !.path = FALSE] ELSE c
            k == Clocks(free)
<1>1. Sound(free) /\ free.changed = FALSE
  <2>1. NoTarget \in Targets \union {NoTarget} /\ FALSE \in BOOLEAN
    OBVIOUS
  <2>. QED BY <2>1, RetargetedIsSound
<1>2. ThinkTarget(c) = IF changeTargetSpeed = 0 THEN {free}
        ELSE IF ~k.changed THEN {k}
        ELSE {k} \union SearchTarget(k, "random") \union SearchTarget(k, "nearest")
  BY DEF ThinkTarget
<1>. HIDE DEF free
<1>3. Sound(k)
  BY <1>1, ClocksAreSound
<1>. HIDE DEF k
<1>4. d = free \/ d = k \/ d \in SearchTarget(k, "random") \/ d \in SearchTarget(k, "nearest")
  BY <1>2
<1>. QED BY <1>1, <1>3, <1>4, SearchedIsSound

LEMMA ChosenIsSound ==
  ASSUME NEW c, Sound(c), NEW d \in Chosen(c)
  PROVE  Sound(d) /\ d.changed = c.changed
<1>1. d = c \/ d \in SearchTarget(c, "default") \/ d \in SearchTarget(c, "attackrange")
  BY DEF Chosen
<1>. QED BY <1>1, SearchedIsSound

(* doAttacking: the clock and the turns go on together, or back to zero    *)
(* when every spell is due.                                                *)
LEMMA AttackedIsSound ==
  ASSUME MindAssumption, NEW c, Sound(c), NEW interval \in {0, Interval}
  PROVE  Sound(Attacked(c, interval))
<1>. DEFINE ticks == c.attackTicks + interval
            reset == interval # 0 /\ AllDue(Attacks, ticks)
            t == IF reset THEN 0 ELSE ticks
            u == IF reset THEN Zeros(Attacks) ELSE Counted(c.turns, Attacks, ticks, interval)
            d == Attacked(c, interval)
<1>1. c \in Minds /\ Once(c.targetList) /\ Rounds(c) /\ FewSummons(c.summons) /\ Punctual(c)
  BY DEF Sound
<1>2. c.attackTicks \in Nat
  BY <1>1 DEF Minds
<1>3. Interval \in Nat \ {0} /\ Attacks \in Seq(Nat \ {0})
  BY DEF MindAssumption
<1>4. ticks \in Nat /\ (interval = 0 => ticks = c.attackTicks)
  BY <1>2, <1>3
<1>5. AllHad(c.turns, Attacks, c.attackTicks)
  BY <1>1 DEF Rounds
<1>6. AllHad(Counted(c.turns, Attacks, ticks, interval), Attacks, ticks)
  <2>1. /\ AllHad(Counted(c.turns, Attacks, c.attackTicks + Interval, Interval), Attacks, c.attackTicks + Interval)
        /\ AllHad(Counted(c.turns, Attacks, c.attackTicks, 0), Attacks, c.attackTicks)
    BY <1>2, <1>3, <1>5, CountedTurns
  <2>2. interval = 0 \/ interval = Interval
    OBVIOUS
  <2>3. CASE interval = 0
    BY <2>1, <2>3, <1>4
  <2>4. CASE interval = Interval
    BY <2>1, <2>4
  <2>. QED BY <2>2, <2>3, <2>4
<1>7. AllHad(Zeros(Attacks), Attacks, 0)
  BY <1>3, NoneHad
<1>8. AllHad(u, Attacks, t) /\ t \in Nat
  BY <1>4, <1>6, <1>7
<1>9. t > 0 => ~AllDue(Attacks, t)
  <2>1. interval # 0 => reset \/ ~AllDue(Attacks, ticks)
    OBVIOUS
  <2>2. c.attackTicks > 0 => ~AllDue(Attacks, c.attackTicks)
    BY <1>1 DEF Rounds
  <2>. QED BY <2>1, <2>2, <1>4
<1>10. d = [c EXCEPT !.attackTicks = t, !.turns = u]
  BY DEF Attacked
<1>. HIDE DEF ticks, reset, t, u
<1>11. [c EXCEPT !.attackTicks = t, !.turns = u] \in Minds
  <2>1. u \in TurnCounts(Attacks)
    BY <1>8 DEF AllHad, TurnCounts
  <2>. QED BY <2>1, <1>1, <1>8, ReplacedAttack
<1>12. d \in Minds
  BY <1>10, <1>11
<1>13. /\ d.targetList = c.targetList /\ d.summons = c.summons /\ d.attackTicks = t /\ d.turns = u
       /\ d.defenseTicks = c.defenseTicks /\ d.casts = c.casts /\ d.focus = c.focus /\ d.cooldown = c.cooldown
       /\ d.sinceChallenge = c.sinceChallenge /\ d.sinceChange = c.sinceChange /\ d.gap = c.gap /\ d.changed = c.changed
  BY <1>1, <1>10 DEF Minds
<1>. HIDE DEF d
<1>14. Rounds(d)
  BY <1>1, <1>8, <1>9, <1>13 DEF Rounds
<1>15. Punctual(d)
  BY <1>1, <1>13 DEF Punctual
<1>16. Sound(d)
  BY <1>1, <1>12, <1>13, <1>14, <1>15 DEF Sound
<1>. QED BY <1>16 DEF d

(* onThinkDefense: as for attacks, and the summons stay few.               *)
LEMMA DefendedIsSound ==
  ASSUME MindAssumption, NEW c, Sound(c), NEW d \in ThinkDefense(c)
  PROVE  Sound(d)
<1>. DEFINE ticks == c.defenseTicks + Interval
            calls == Len(c.summons) < maxSummons /\ c.path
            reset == AllDue(Defenses, ticks) /\ (calls => \A i \in DOMAIN SummonBlocks : SummonBlocks[i].speed <= ticks)
            t == IF reset THEN 0 ELSE ticks
            u == IF reset THEN Zeros(Defenses) ELSE Counted(c.casts, Defenses, ticks, Interval)
<1>1. c \in Minds /\ Once(c.targetList) /\ Rounds(c) /\ FewSummons(c.summons) /\ Punctual(c)
  BY DEF Sound
<1>2. c.defenseTicks \in Nat
  BY <1>1 DEF Minds
<1>3. Interval \in Nat \ {0} /\ Defenses \in Seq(Nat \ {0})
  BY DEF MindAssumption
<1>4. ticks \in Nat
  BY <1>2, <1>3
<1>5. PICK s \in (IF calls THEN SummonsAfter(c.summons, ticks) ELSE {c.summons}) :
        d = [c EXCEPT !.defenseTicks = t, !.casts = u, !.summons = s]
  BY DEF ThinkDefense
<1>6. FewSummons(s)
  <2>1. s \in SummonsAfter(c.summons, ticks) \/ s = c.summons
    BY <1>5
  <2>. QED BY <2>1, <1>1, SummonsStayFew
<1>7. AllHad(c.casts, Defenses, c.defenseTicks)
  BY <1>1 DEF Rounds
<1>8. AllHad(Counted(c.casts, Defenses, ticks, Interval), Defenses, ticks)
  BY <1>2, <1>3, <1>7, CountedTurns
<1>9. AllHad(Zeros(Defenses), Defenses, 0)
  BY <1>3, NoneHad
<1>10. AllHad(u, Defenses, t) /\ t \in Nat
  BY <1>4, <1>8, <1>9
<1>11. t > 0 => ~AllDue(Defenses, t) \/ \E i \in DOMAIN SummonBlocks : SummonBlocks[i].speed > t
  <2>. SUFFICES ASSUME ~reset PROVE ~AllDue(Defenses, t) \/ \E i \in DOMAIN SummonBlocks : SummonBlocks[i].speed > t
    OBVIOUS
  <2>1. t = ticks
    OBVIOUS
  <2>2. CASE ~AllDue(Defenses, ticks)
    BY <2>1, <2>2
  <2>3. CASE AllDue(Defenses, ticks)
    <3>1. PICK i \in DOMAIN SummonBlocks : ~(SummonBlocks[i].speed <= ticks)
      BY <2>3
    <3>2. SummonBlocks[i].speed \in Nat
      BY BlockFacts
    <3>. QED BY <3>1, <3>2, <2>1, <1>4
  <2>. QED BY <2>2, <2>3
<1>. HIDE DEF ticks, calls, reset, t, u
<1>12. [c EXCEPT !.defenseTicks = t, !.casts = u, !.summons = s] \in Minds
  <2>1. u \in TurnCounts(Defenses) /\ s \in SummonLists
    BY <1>6, <1>10 DEF AllHad, TurnCounts, FewSummons, SummonLists
  <2>. QED BY <2>1, <1>1, <1>10, ReplacedDefense
<1>13. d \in Minds
  BY <1>5, <1>12
<1>14. /\ d.targetList = c.targetList /\ d.summons = s /\ d.attackTicks = c.attackTicks /\ d.turns = c.turns
       /\ d.defenseTicks = t /\ d.casts = u /\ d.focus = c.focus /\ d.cooldown = c.cooldown
       /\ d.sinceChallenge = c.sinceChallenge /\ d.sinceChange = c.sinceChange /\ d.gap = c.gap /\ d.changed = c.changed
  BY <1>1, <1>5 DEF Minds
<1>15. Rounds(d)
  BY <1>1, <1>10, <1>11, <1>14 DEF Rounds
<1>16. Punctual(d)
  BY <1>1, <1>14 DEF Punctual
<1>. QED BY <1>1, <1>6, <1>13, <1>14, <1>15, <1>16 DEF Sound

(* challengeCreature: its time starts, and with it the pause.              *)
LEMMA ChallengedIsSound ==
  ASSUME MindAssumption, NEW c, Sound(c), c.changed = FALSE
  PROVE  Sound([Challenged(c) EXCEPT !.sinceChallenge = 0])
<1>. DEFINE d == [Challenged(c) EXCEPT !.sinceChallenge = 0]
<1>1. c \in Minds /\ Once(c.targetList) /\ Rounds(c) /\ FewSummons(c.summons) /\ Punctual(c)
  BY DEF Sound
<1>2. c.sinceChange \in Nat /\ c.gap \in Nat
  BY <1>1 DEF Minds
<1>3. ChallengeTime \in Nat /\ changeTargetSpeed \in Nat /\ 0 \in Nat
  BY DEF MindAssumption
<1>4. d = [c EXCEPT !.focus = ChallengeTime, !.cooldown = ChallengeTime, !.changeTicks = 0, !.sinceChallenge = 0,
                    !.sinceChange = c.sinceChange, !.gap = c.gap, !.changed = FALSE]
  BY <1>1 DEF Challenged, Minds
<1>5. [c EXCEPT !.focus = ChallengeTime, !.cooldown = ChallengeTime, !.changeTicks = 0, !.sinceChallenge = 0,
                !.sinceChange = c.sinceChange, !.gap = c.gap, !.changed = FALSE] \in Minds
  BY <1>1, <1>2, <1>3, ReplacedClocks
<1>6. d \in Minds
  BY <1>4, <1>5
<1>7. /\ d.targetList = c.targetList /\ d.summons = c.summons /\ d.attackTicks = c.attackTicks /\ d.turns = c.turns
      /\ d.defenseTicks = c.defenseTicks /\ d.casts = c.casts /\ d.focus = ChallengeTime /\ d.cooldown = ChallengeTime
      /\ d.sinceChallenge = 0 /\ d.sinceChange = c.sinceChange /\ d.changed = FALSE
  BY <1>1, <1>4 DEF Minds
<1>. HIDE DEF d
<1>8. Rounds(d)
  BY <1>1, <1>7 DEF Rounds
<1>9. Punctual(d)
  BY <1>1, <1>2, <1>3, <1>7 DEF Punctual, Pause
<1>10. Sound(d)
  BY <1>1, <1>6, <1>7, <1>8, <1>9 DEF Sound
<1>. QED BY <1>10 DEF d

(* The target is lost: with it the round of attacks.                       *)
LEMMA LostIsSound ==
  ASSUME MindAssumption, NEW c, Sound(c)
  PROVE  Sound([c EXCEPT !.follow = NoTarget, !.path = FALSE, !.attackTicks = 0, !.turns = Zeros(Attacks)])
<1>. DEFINE b == [c EXCEPT !.follow = NoTarget, !.path = FALSE]
            d == [c EXCEPT !.follow = NoTarget, !.path = FALSE, !.attackTicks = 0, !.turns = Zeros(Attacks)]
<1>1. Sound(b)
  <2>1. NoTarget \in Targets \union {NoTarget} /\ FALSE \in BOOLEAN
    OBVIOUS
  <2>. QED BY <2>1, RetargetedIsSound
<1>2. c \in Minds
  BY DEF Sound
<1>3. d = [b EXCEPT !.attackTicks = 0, !.turns = Zeros(Attacks)]
  BY <1>2 DEF Minds
<1>. HIDE DEF b, d
<1>4. b \in Minds /\ Once(b.targetList) /\ Rounds(b) /\ FewSummons(b.summons) /\ Punctual(b)
  BY <1>1 DEF Sound
<1>5. AllHad(Zeros(Attacks), Attacks, 0)
  BY NoneHad DEF MindAssumption
<1>6. [b EXCEPT !.attackTicks = 0, !.turns = Zeros(Attacks)] \in Minds
  <2>1. Zeros(Attacks) \in TurnCounts(Attacks) /\ 0 \in Nat
    BY <1>5 DEF AllHad, TurnCounts
  <2>. QED BY <2>1, <1>4, ReplacedAttack
<1>7. d \in Minds
  BY <1>3, <1>6
<1>8. /\ d.targetList = b.targetList /\ d.summons = b.summons /\ d.attackTicks = 0 /\ d.turns = Zeros(Attacks)
      /\ d.defenseTicks = b.defenseTicks /\ d.casts = b.casts /\ d.focus = b.focus /\ d.cooldown = b.cooldown
      /\ d.sinceChallenge = b.sinceChallenge /\ d.sinceChange = b.sinceChange /\ d.gap = b.gap /\ d.changed = b.changed
  BY <1>3, <1>4 DEF Minds
<1>9. Rounds(d)
  BY <1>4, <1>5, <1>8 DEF Rounds
<1>10. Punctual(d)
  BY <1>4, <1>8 DEF Punctual
<1>11. Sound(d)
  BY <1>4, <1>7, <1>8, <1>9, <1>10 DEF Sound
<1>. QED BY <1>11 DEF d

LEMMA NewMonsterIsSound ==
  ASSUME MindAssumption, NEW b \in BOOLEAN
  PROVE  Sound(NewMonster(b))
<1>. DEFINE d == NewMonster(b)
            l == <<>>
            y == Zeros(Attacks)
            z == Zeros(Defenses)
<1>1. AllHad(y, Attacks, 0) /\ AllHad(z, Defenses, 0)
  BY NoneHad DEF MindAssumption
<1>2. FewSummons(l)
  BY NoSummonsYet
<1>3. /\ y \in TurnCounts(Attacks) /\ z \in TurnCounts(Defenses) /\ l \in SummonLists /\ l \in TargetLists /\ Once(l)
  <2>1. y \in TurnCounts(Attacks) /\ z \in TurnCounts(Defenses)
    BY <1>1 DEF AllHad, TurnCounts
  <2>2. l \in SummonLists /\ l \in TargetLists /\ Once(l)
    BY DEF SummonLists, TargetLists, Once
  <2>. QED BY <2>1, <2>2
<1>4. 0 \in Nat /\ ChallengeTime \in Nat /\ changeTargetSpeed \in Nat /\ NoTarget \in Targets \union {NoTarget}
  BY DEF MindAssumption
<1>5. d = [alive |-> b, idle |-> FALSE, targetList |-> l, follow |-> NoTarget, path |-> FALSE,
           attackTicks |-> 0, turns |-> y, defenseTicks |-> 0, casts |-> z,
           summons |-> l, changeTicks |-> 0, cooldown |-> 0, focus |-> 0,
           sinceChallenge |-> ChallengeTime, sinceChange |-> changeTargetSpeed, gap |-> changeTargetSpeed,
           changed |-> FALSE]
  BY Zenon DEF NewMonster
<1>. HIDE DEF d, l, y, z
<1>6. d \in Minds
  BY <1>3, <1>4, <1>5 DEF Minds
<1>7. Rounds(d)
  BY <1>1, <1>5 DEF Rounds
<1>8. Punctual(d)
  BY <1>4, <1>5 DEF Punctual, Pause
<1>9. Sound(d)
  BY <1>2, <1>3, <1>5, <1>6, <1>7, <1>8 DEF Sound
<1>. QED BY <1>9 DEF d

(***************************************************************************)
(* The inductive invariant and the theorem.                                *)
(***************************************************************************)

Sights == [ok : SUBSET Targets, near : SUBSET Targets, safe : SUBSET Targets, home : BOOLEAN]
MindInv == Sound(m) /\ seen \in Sights

LEMMA MindInvInit ==
  ASSUME MindAssumption, MindInit
  PROVE  MindInv
<1>2. TRUE \in BOOLEAN
  OBVIOUS
<1>3. Sound(NewMonster(TRUE))
  BY <1>2, NewMonsterIsSound
<1>4. Sound(m)
  BY <1>3 DEF MindInit
<1>5. seen \in Sights
  BY DEF MindInit, Sights
<1>. QED BY <1>4, <1>5 DEF MindInv

LEMMA MindInvNext ==
  ASSUME MindAssumption, MindInv, [MindNext]_mindVars
  PROVE  MindInv'
<1>1. Sound(m) /\ seen \in Sights
  BY DEF MindInv
<1>2. Sound(Calm) /\ Calm.changed = FALSE
  BY <1>1, CalmIsSound DEF Calm
<1>3. m \in Minds /\ Once(m.targetList) /\ FewSummons(m.summons)
  BY <1>1 DEF Sound
<1>4. /\ Calm \in Minds /\ Calm.targetList = m.targetList /\ Calm.follow = m.follow /\ Calm.path = m.path
      /\ Calm.summons = m.summons
  BY <1>2, <1>3 DEF Calm, Minds, Sound
<1>5. m.targetList \in Seq(Targets) /\ Listed(m.targetList) \subseteq Targets /\ m.follow \in Targets \union {NoTarget}
      /\ m.path \in BOOLEAN
  BY <1>3, ListTypes
<1>6. ASSUME Sound(m'), UNCHANGED seen PROVE MindInv'
  BY <1>1, <1>6 DEF MindInv, Sound, Sights, Minds, Rounds, Punctual
<1>7. CASE Appears
  <2>1. PICK t \in Targets \ Listed(m.targetList) : m' = SetIdle([Calm EXCEPT !.targetList = Append(@, t)], FALSE)
    BY <1>7 DEF Appears
  <2>. DEFINE l == Append(m.targetList, t)
  <2>2. l \in Seq(Targets) /\ Once(l)
    BY <1>3, <1>5, LongerList
  <2>3. [Calm EXCEPT !.targetList = Append(@, t)] = [Calm EXCEPT !.path = m.path, !.targetList = l]
    BY <1>4 DEF Minds
  <2>. HIDE DEF l
  <2>4. Sound([Calm EXCEPT !.path = m.path, !.targetList = l])
    BY <1>2, <1>5, <2>2, ListedIsSound
  <2>5. FALSE \in BOOLEAN
    OBVIOUS
  <2>6. Sound([Calm EXCEPT !.targetList = Append(@, t)])
    BY <2>3, <2>4
  <2>7. Sound(SetIdle([Calm EXCEPT !.targetList = Append(@, t)], FALSE))
    BY ONLY <2>5, <2>6, IdleIsSound
  <2>. QED BY <1>6, <1>7, <2>1, <2>7 DEF Appears
<1>8. CASE Leaves
  <2>1. PICK t \in Listed(m.targetList) \union ({m.follow} \ {NoTarget}), hurt \in BOOLEAN :
          m' = UpdateIdleStatus([IF m.follow # t THEN Calm
                                 ELSE [Calm EXCEPT !.follow = NoTarget, !.path = FALSE, !.attackTicks = 0,
                                                   !.turns = Zeros(Attacks)]
                                 EXCEPT !.targetList = Unlisted(@, t)], hurt)
    BY <1>8 DEF Leaves
  <2>. DEFINE lost == IF m.follow # t THEN Calm
                      ELSE [Calm EXCEPT !.follow = NoTarget, !.path = FALSE, !.attackTicks = 0, !.turns = Zeros(Attacks)]
              left == [lost EXCEPT !.targetList = Unlisted(@, t)]
  <2>2. Sound(lost)
    BY <1>2, LostIsSound
  <2>3. m' = UpdateIdleStatus(left, hurt)
    BY <2>1
  <2>. HIDE DEF lost
  <2>4. lost \in Minds /\ Once(lost.targetList)
    BY <2>2 DEF Sound
  <2>. DEFINE l == Unlisted(lost.targetList, t)
  <2>5. lost.targetList \in Seq(Targets) /\ lost.path \in BOOLEAN
    BY <2>4, ListTypes
  <2>6. l \in Seq(Targets) /\ Once(l)
    BY <2>4, <2>5, UnlistedFacts
  <2>7. left = [lost EXCEPT !.path = lost.path, !.targetList = l]
    BY <2>4 DEF Minds
  <2>. HIDE DEF l, left
  <2>8. Sound([lost EXCEPT !.path = lost.path, !.targetList = l])
    BY <2>2, <2>5, <2>6, ListedIsSound
  <2>9. Sound(left)
    BY <2>7, <2>8
  <2>10. Sound(UpdateIdleStatus(left, hurt))
    BY <2>9, UpdatedIsSound
  <2>. QED BY <1>6, <1>8, <2>3, <2>10 DEF Leaves
<1>9. CASE Hurt
  <2>1. FALSE \in BOOLEAN
    OBVIOUS
  <2>2. Sound(UpdateIdleStatus(Calm, FALSE))
    BY <1>2, <2>1, UpdatedIsSound
  <2>3. Sound(SetIdle(Calm, FALSE))
    BY <1>2, <2>1, IdleIsSound
  <2>. QED BY <1>6, <1>9, <2>2, <2>3 DEF Hurt
<1>10. CASE Changes
  <2>1. PICK t \in Targets, f \in {"ok", "near", "safe"} :
          seen' = [seen EXCEPT ![f] = IF t \in @ THEN @ \ {t} ELSE @ \union {t}]
    BY <1>10 DEF Changes
  <2>2. seen' \in Sights
    <3>1. CASE f = "ok"
      BY <1>1, <2>1, <3>1 DEF Sights
    <3>2. CASE f = "near"
      BY <1>1, <2>1, <3>2 DEF Sights
    <3>3. CASE f = "safe"
      BY <1>1, <2>1, <3>3 DEF Sights
    <3>. QED BY <3>1, <3>2, <3>3
  <2>. QED BY <1>1, <1>10, <2>2 DEF Changes, MindInv, Sound, Sights, Minds, Rounds, Punctual
<1>11. CASE Strays
  <2>1. seen' \in Sights
    BY <1>1, <1>11 DEF Strays, Sights
  <2>. QED BY <1>1, <1>11, <2>1 DEF Strays, MindInv, Sound, Sights, Minds, Rounds, Punctual
<1>12. CASE UpdatePath
  <2>. DEFINE rest == Unlisted(m.targetList, m.follow)
  <2>1. PICK way \in BOOLEAN :
          m' = [Calm EXCEPT !.path = way,
                            !.targetList = IF m.follow \notin Listed(@) THEN @
                                           ELSE IF way THEN <<m.follow>> \o rest ELSE Append(rest, m.follow)]
    BY <1>12 DEF UpdatePath
  <2>2. m.follow \in Targets
    BY <1>5, <1>12 DEF UpdatePath
  <2>3. rest \in Seq(Targets) /\ Once(rest) /\ m.follow \notin Listed(rest)
    BY <1>3, <1>5, UnlistedFacts
  <2>. HIDE DEF rest
  <2>. DEFINE l == IF m.follow \notin Listed(m.targetList) THEN m.targetList
                   ELSE IF way THEN <<m.follow>> \o rest ELSE Append(rest, m.follow)
  <2>4. /\ Append(rest, m.follow) \in Seq(Targets) /\ Once(Append(rest, m.follow))
        /\ <<m.follow>> \o rest \in Seq(Targets) /\ Once(<<m.follow>> \o rest)
    BY <2>2, <2>3, LongerList
  <2>5. l \in Seq(Targets) /\ Once(l)
    BY <2>4, <1>3, <1>5
  <2>6. m' = [Calm EXCEPT !.path = way, !.targetList = l]
    BY <2>1, <1>4 DEF Minds
  <2>. HIDE DEF l
  <2>7. Sound([Calm EXCEPT !.path = way, !.targetList = l])
    BY <1>2, <2>5, ListedIsSound
  <2>. QED BY <1>6, <1>12, <2>6, <2>7 DEF UpdatePath
<1>13. CASE Think
  <2>1. PICK hurt \in BOOLEAN :
          LET awake == UpdateIdleStatus(Calm, hurt)
          IN  \/ awake.idle /\ m' = awake
              \/ ~awake.idle /\ \E c \in Chosen(awake) : \E d \in ThinkTarget(c) : m' \in ThinkDefense(d)
    BY <1>13 DEF Think
  <2>. DEFINE awake == UpdateIdleStatus(Calm, hurt)
  <2>2. Sound(awake) /\ awake.changed = FALSE
    BY <1>2, UpdatedIsSound
  <2>3. \/ m' = awake
        \/ \E c \in Chosen(awake) : \E d \in ThinkTarget(c) : m' \in ThinkDefense(d)
    BY <2>1
  <2>. HIDE DEF awake
  <2>4. Sound(m')
    <3>. SUFFICES ASSUME NEW c \in Chosen(awake), NEW d \in ThinkTarget(c), m' \in ThinkDefense(d)
                  PROVE  Sound(m')
      BY <2>2, <2>3
    <3>1. Sound(c) /\ c.changed = FALSE
      BY <2>2, ChosenIsSound
    <3>2. Sound(d)
      BY <3>1, ThoughtTargetIsSound
    <3>. QED BY <3>2, DefendedIsSound
  <2>. QED BY <1>6, <1>13, <2>4 DEF Think
<1>14. CASE Despawn
  <2>1. TRUE \in BOOLEAN /\ FALSE \in BOOLEAN
    OBVIOUS
  <2>2. Sound(NewMonster(FALSE))
    BY <2>1, NewMonsterIsSound
  <2>3. Sound(SetIdle(Calm, TRUE))
    BY <1>2, <2>1, IdleIsSound
  <2>4. Sound(m')
    BY <1>14, <2>2, <2>3 DEF Despawn
  <2>5. seen' \in Sights
    BY <1>1, <1>14 DEF Despawn, Sights
  <2>. QED BY <2>4, <2>5 DEF MindInv, Sound, Sights, Minds, Rounds, Punctual
<1>15. CASE DoAttacking
  <2>1. Sound(Attacked(Calm, Interval))
    BY <1>2, AttackedIsSound
  <2>. QED BY <1>6, <1>15, <2>1 DEF DoAttacking
<1>16. CASE AttackAtOnce
  <2>1. Sound(Attacked(Calm, 0))
    BY <1>2, AttackedIsSound
  <2>. QED BY <1>6, <1>16, <2>1 DEF AttackAtOnce
<1>17. CASE ChallengeCreature
  <2>1. PICK t \in Listed(m.targetList) : m' = [Challenged(SelectTarget(Calm, t)) EXCEPT !.sinceChallenge = 0]
    BY <1>17 DEF ChallengeCreature
  <2>2. Sound(SelectTarget(Calm, t)) /\ SelectTarget(Calm, t).changed = FALSE
    BY <1>2, SelectedIsSound
  <2>3. Sound([Challenged(SelectTarget(Calm, t)) EXCEPT !.sinceChallenge = 0])
    BY <2>2, ChallengedIsSound
  <2>. QED BY <1>6, <1>17, <2>1, <2>3 DEF ChallengeCreature
<1>18. CASE SummonDies
  <2>1. PICK k \in DOMAIN m.summons : m' = [Calm EXCEPT !.summons = CutOut(@, k)]
    BY <1>18 DEF SummonDies
  <2>. DEFINE s == CutOut(m.summons, k)
              d == [Calm EXCEPT !.summons = s]
  <2>2. FewSummons(s)
    BY <1>3, SummonLost
  <2>3. m' = d
    BY <2>1, <1>4
  <2>. HIDE DEF s
  <2>4. s \in SummonLists
    BY <2>2 DEF FewSummons, SummonLists
  <2>5. d \in Minds
    <3>1. d = [Calm EXCEPT !.defenseTicks = Calm.defenseTicks, !.casts = Calm.casts, !.summons = s]
      BY <1>4 DEF Minds
    <3>2. Calm.defenseTicks \in Nat /\ Calm.casts \in TurnCounts(Defenses)
      BY <1>4 DEF Minds
    <3>. HIDE DEF d
    <3>3. [Calm EXCEPT !.defenseTicks = Calm.defenseTicks, !.casts = Calm.casts, !.summons = s] \in Minds
      BY <1>4, <2>4, <3>2, ReplacedDefense
    <3>. QED BY <3>1, <3>3
  <2>6. /\ d.targetList = Calm.targetList /\ d.summons = s /\ d.attackTicks = Calm.attackTicks /\ d.turns = Calm.turns
        /\ d.defenseTicks = Calm.defenseTicks /\ d.casts = Calm.casts /\ d.focus = Calm.focus
        /\ d.cooldown = Calm.cooldown /\ d.sinceChallenge = Calm.sinceChallenge
        /\ d.sinceChange = Calm.sinceChange /\ d.gap = Calm.gap /\ d.changed = Calm.changed
    BY <1>4 DEF Minds
  <2>. HIDE DEF d
  <2>7. Once(Calm.targetList) /\ Rounds(Calm) /\ Punctual(Calm)
    BY <1>2 DEF Sound
  <2>8. Rounds(d) /\ Punctual(d)
    BY <2>6, <2>7 DEF Rounds, Punctual
  <2>9. Sound(d)
    BY <2>2, <2>5, <2>6, <2>7, <2>8 DEF Sound
  <2>. QED BY <1>6, <1>18, <2>3, <2>9 DEF SummonDies
<1>19. CASE UNCHANGED mindVars
  BY <1>1, <1>19 DEF mindVars, MindInv, Sound, Sights, Minds, Rounds, Punctual
<1>. QED BY <1>7, <1>8, <1>9, <1>10, <1>11, <1>12, <1>13, <1>14, <1>15, <1>16, <1>17, <1>18, <1>19 DEF MindNext

LEMMA MindInvImplies ==
  ASSUME MindAssumption, MindInv
  PROVE  MindAgrees
<1>1. Sound(m) /\ seen \in Sights
  BY DEF MindInv
<1>2. m \in Minds /\ Once(m.targetList) /\ Rounds(m) /\ FewSummons(m.summons) /\ Punctual(m)
  BY <1>1 DEF Sound
<1>3. /\ m.attackTicks \in Nat /\ m.defenseTicks \in Nat /\ m.cooldown \in Nat /\ m.focus \in Nat
      /\ m.sinceChallenge \in Nat /\ m.follow \in Targets \union {NoTarget}
  BY <1>2 DEF Minds
<1>4. MindTypeOK
  BY <1>1, <1>2, <1>3 DEF MindTypeOK, Sights, Once
<1>5. RoundsAreFair
  <2>1. AllHad(m.turns, Attacks, m.attackTicks) /\ AllHad(m.casts, Defenses, m.defenseTicks)
    BY <1>2 DEF Rounds
  <2>2. Fair(m.turns, Attacks, m.attackTicks) /\ Fair(m.casts, Defenses, m.defenseTicks)
    BY <1>3, <2>1, FairlyHad DEF MindAssumption
  <2>. QED BY <1>2, <2>2 DEF Rounds, RoundsAreFair
<1>6. SummonsAreFew
  BY <1>2 DEF FewSummons, SummonsAreFew
<1>7. FocusEnds /\ ChangesAreApart
  BY <1>2, <1>3 DEF Punctual, FocusEnds, ChangesAreApart, MindAssumption
<1>. QED BY <1>4, <1>5, <1>6, <1>7 DEF MindAgrees

(* On any monster, with any spells, blocks of summons and times: in every  *)
(* round each spell has the turns that its speed allows, the limits of     *)
(* summons hold, a challenge lasts its time and changes of target keep     *)
(* their distance (monster.cpp, Monster::onThinkTarget, doAttacking and    *)
(* onThinkDefense).                                                        *)
THEOREM MonstersKeepTime ==
  ASSUME MindAssumption
  PROVE  MindSpec => []MindAgrees
<1>1. MindInit => MindInv
  BY MindInvInit
<1>2. MindInv /\ [MindNext]_mindVars => MindInv'
  BY MindInvNext
<1>3. MindInv => MindAgrees
  BY MindInvImplies
<1>. QED BY <1>1, <1>2, <1>3, PTL DEF MindSpec

-----------------------------------------------------------------------------
(* Combat.                                                                 *)

(* What is known of a creature, and of the fights. *)
Fighters == [inGame : BOOLEAN, health : Nat, zone : Zones, target : Creatures \cup {NoOne},
             damage : SUBSET Creatures, lastHit : Creatures \cup {NoOne}, inFight : BOOLEAN,
             pzLocked : BOOLEAN, skull : {"none", "white", "red", "black"},
             attacked : SUBSET Players, skillLoss : BOOLEAN]
Battles == [who : [Creatures -> Fighters], deaths : Seq(Creatures \cup {NoOne})]

Pends(g, c) == g.who[c].health = 0 => \E n \in DOMAIN g.deaths : g.deaths[n] = c
MarksFit(r) == r.pzLocked \/ r.skull = "white" \/ r.attacked # {} => r.inFight
LegalTarget(g, c) ==
  g.who[c].target # NoOne =>
    LET t == g.who[g.who[c].target]
    IN /\ g.who[c].target # c
       /\ g.who[c].inGame /\ t.inGame
       /\ g.who[c].zone # "protection" /\ t.zone # "protection"
       /\ BothPlayers(c, g.who[c].target) => t.zone # "nopvp"

(* What holds between two steps of a fight, but for the death of those in  *)
(* `dying', which is being executed.                                       *)
InOrder(g, dying) ==
  /\ g \in Battles
  /\ \A c \in Creatures : g.who[c].health <= MaxHealth[c]
  /\ \A c \in Creatures \ dying : Pends(g, c)
  /\ \A c \in Players : MarksFit(g.who[c])
  /\ \A c \in Creatures : LegalTarget(g, c)

(* h is g but for what c has done and suffered: c is where it was, as well *)
(* as it was, and so is its target.                                        *)
Touches(g, h, c) ==
  /\ h \in Battles /\ h.deaths = g.deaths
  /\ \A d \in Creatures \ {c} : h.who[d] = g.who[d]
  /\ h.who[c].inGame = g.who[c].inGame /\ h.who[c].health = g.who[c].health
  /\ h.who[c].zone = g.who[c].zone /\ h.who[c].target = g.who[c].target

(* One creature's record changes and nothing else. *)
LEMMA RecordChange ==
  ASSUME NEW g \in Battles, NEW c \in Creatures, NEW r \in Fighters
  PROVE  LET h == [g EXCEPT !.who[c] = r]
         IN  h \in Battles /\ h.deaths = g.deaths /\ h.who[c] = r
             /\ \A d \in Creatures \ {c} : h.who[d] = g.who[d]
BY DEF Battles

(* Touches of one creature add up: markings, damage points and locks       *)
(* follow each other.                                                      *)
LEMMA TouchTransitive ==
  ASSUME NEW g, NEW h, NEW k, NEW c, Touches(g, h, c), Touches(h, k, c)
  PROVE  Touches(g, k, c)
BY DEF Touches

(* What is touched is a battle still. *)
LEMMA TouchTyped ==
  ASSUME NEW g, NEW h, NEW c, Touches(g, h, c)
  PROVE  h \in Battles
BY DEF Touches

(* addInFightTicks(), the pz-lock, addAttacked() and a skull touch no more *)
(* than the creature they mark.                                            *)
LEMMA SmallTouches ==
  ASSUME NEW g \in Battles, NEW c \in Creatures
  PROVE  /\ Touches(g, AddInFightTicks(g, c), c) /\ AddInFightTicks(g, c).who[c].inFight
         /\ Touches(g, PzLock(g, c), c)
         /\ PzLock(g, c).who[c] = [g.who[c] EXCEPT !.pzLocked = TRUE]
         /\ \A t \in Players : Touches(g, AddAttacked(g, c, t), c)
         /\ \A s \in {"none", "white", "red", "black"} :
              /\ Touches(g, [g EXCEPT !.who[c].skull = s], c)
              /\ [g EXCEPT !.who[c].skull = s].who[c] = [g.who[c] EXCEPT !.skull = s]
<1>. g.who[c] \in Fighters
  BY DEF Battles
<1>1. Touches(g, AddInFightTicks(g, c), c) /\ AddInFightTicks(g, c).who[c].inFight
  BY DEF Touches, AddInFightTicks, Battles, Fighters
<1>2. Touches(g, PzLock(g, c), c) /\ PzLock(g, c).who[c] = [g.who[c] EXCEPT !.pzLocked = TRUE]
  BY DEF Touches, PzLock, Battles, Fighters
<1>3. \A t \in Players : Touches(g, AddAttacked(g, c, t), c)
  BY DEF Touches, AddAttacked, Battles, Fighters
<1>4. \A s \in {"none", "white", "red", "black"} :
              /\ Touches(g, [g EXCEPT !.who[c].skull = s], c)
              /\ [g EXCEPT !.who[c].skull = s].who[c] = [g.who[c] EXCEPT !.skull = s]
  BY DEF Touches, Battles, Fighters
<1>. QED BY <1>1, <1>2, <1>3, <1>4

(* Whoever is touched keeps its health, place and target, so that the      *)
(* fights stay in order as long as its marks go with its in-fight          *)
(* condition.                                                              *)
LEMMA TouchKeepsOrder ==
  ASSUME CombatAssumption, NEW g, NEW dying, InOrder(g, dying), NEW c \in Creatures, NEW h, Touches(g, h, c),
         c \in Players => MarksFit(h.who[c])
  PROVE  InOrder(h, dying)
<1>1. h \in Battles /\ h.deaths = g.deaths
  BY DEF Touches
<1>2. \A d \in Creatures : /\ h.who[d].inGame = g.who[d].inGame /\ h.who[d].health = g.who[d].health
                           /\ h.who[d].zone = g.who[d].zone /\ h.who[d].target = g.who[d].target
  BY DEF Touches
<1>3. \A d \in Creatures \ {c} : h.who[d] = g.who[d]
  BY DEF Touches
<1>4. \A d \in Creatures : h.who[d].health <= MaxHealth[d]
  BY <1>2 DEF InOrder
<1>5. \A d \in Creatures \ dying : Pends(h, d)
  BY <1>1, <1>2 DEF InOrder, Pends
<1>6. \A d \in Players : MarksFit(h.who[d])
  BY <1>3 DEF InOrder, Creatures
<1>7. \A d \in Creatures : LegalTarget(h, d)
  <2>1. \A d \in Creatures : g.who[d].target \in Creatures \cup {NoOne}
    BY DEF InOrder, Battles, Fighters
  <2>. QED BY <1>2, <2>1 DEF InOrder, LegalTarget
<1>. QED BY <1>1, <1>4, <1>5, <1>6, <1>7 DEF InOrder

(* Player::onAttackedCreature(): pz-lock, attackedSet and white skull come *)
(* together with the in-fight condition, whoever the attacker and the      *)
(* target are.                                                             *)
LEMMA MarkedInOrder ==
  ASSUME CombatAssumption, NEW g, NEW dying, InOrder(g, dying), NEW a \in Creatures \cup {NoOne}, NEW t \in Creatures
  PROVE  /\ InOrder(OnAttackedCreature(g, a, t), dying)
         /\ a \in Creatures => Touches(g, OnAttackedCreature(g, a, t), a)
         /\ a = NoOne => OnAttackedCreature(g, a, t) = g
<1>. DEFINE h == OnAttackedCreature(g, a, t)
<1>0. g \in Battles /\ \A c \in Creatures : g.who[c] \in Fighters
  BY DEF InOrder, Battles
<1>1. CASE a \notin Players \/ g.who[t].zone = "pvp"
  BY <1>0, <1>1 DEF OnAttackedCreature, Touches
<1>2. CASE a \in Players /\ g.who[t].zone # "pvp"
  <2>0. a \in Creatures /\ a # NoOne
    BY <1>2 DEF Creatures, CombatAssumption
  <2>. DEFINE marked == IF t \in Players /\ a # t THEN MarkAttack(g, a, t) ELSE g
  <2>1. Touches(g, g, a)
    BY <1>0 DEF Touches
  <2>2. ASSUME t \in Players, a # t PROVE Touches(g, MarkAttack(g, a, t), a)
    <3>. DEFINE enforced == IF WorldType = "pvp-enforced" THEN PzLock(g, a) ELSE g
                locked == AddAttacked(PzLock(enforced, a), a, t)
                skull == IF g.who[t].skull = "none" /\ locked.who[a].skull = "none" THEN "white" ELSE locked.who[a].skull
                white == [locked EXCEPT !.who[a].skull = skull]
    <3>1. Touches(g, enforced, a)
      BY <2>0, <2>1, <1>0, SmallTouches
    <3>2. enforced \in Battles
      BY <3>1 DEF Touches
    <3>3. Touches(g, AddAttacked(enforced, a, t), a)
      BY <3>1, <3>2, <2>0, <2>2, SmallTouches, TouchTransitive
    <3>4. Touches(g, PzLock(enforced, a), a) /\ PzLock(enforced, a) \in Battles
      BY <3>1, <3>2, <2>0, SmallTouches, TouchTransitive, TouchTyped
    <3>5. Touches(g, locked, a) /\ locked \in Battles
      BY <3>4, <2>0, <2>2, SmallTouches, TouchTransitive, TouchTyped, ZenonT(60)
    <3>6. skull \in {"none", "white", "red", "black"}
      BY <3>5, <2>0 DEF Battles, Fighters
    <3>7. Touches(g, white, a)
      <4>. HIDE DEF locked, skull
      <4>1. Touches(locked, white, a)
        BY <3>5, <3>6, <2>0, SmallTouches
      <4>. HIDE DEF white
      <4>. QED BY <3>5, <4>1, TouchTransitive
    <3>8. MarkAttack(g, a, t) \in {AddAttacked(enforced, a, t), enforced, white}
      BY DEF MarkAttack
    <3>. HIDE DEF enforced, white
    <3>. QED BY <3>1, <3>3, <3>7, <3>8
  <2>3. Touches(g, marked, a)
    BY <2>1, <2>2
  <2>4. h = AddInFightTicks(marked, a)
    BY <1>2 DEF OnAttackedCreature
  <2>. HIDE DEF marked
  <2>5. marked \in Battles
    BY <2>3 DEF Touches
  <2>6. Touches(g, h, a) /\ h.who[a].inFight
    BY <2>0, <2>3, <2>4, <2>5, SmallTouches, TouchTransitive
  <2>. QED BY <2>0, <2>6, TouchKeepsOrder DEF MarksFit
<1>. QED BY <1>1, <1>2

(* changeHealth(): a health of zero queues executeDeath(), a larger one    *)
(* leaves nobody without a pending death.                                  *)
LEMMA HealthInOrder ==
  ASSUME CombatAssumption, NEW g, NEW dying, InOrder(g, dying), NEW c \in Creatures, NEW n \in 0..MaxHealth[c]
  PROVE  LET h == ChangeHealth(g, c, n)
         IN  /\ InOrder(h, dying)
             /\ h.who[c] = [g.who[c] EXCEPT !.health = n]
             /\ \A d \in Creatures \ {c} : h.who[d] = g.who[d]
<1>. DEFINE h == ChangeHealth(g, c, n)
<1>0. g \in Battles /\ MaxHealth[c] \in Nat /\ n \in Nat /\ n <= MaxHealth[c]
  BY DEF InOrder, CombatAssumption
<1>1. /\ h.who[c] = [g.who[c] EXCEPT !.health = n]
      /\ \A d \in Creatures \ {c} : h.who[d] = g.who[d]
      /\ h.deaths = IF n = 0 THEN Append(g.deaths, c) ELSE g.deaths
  BY <1>0 DEF ChangeHealth, QueuesDeath, Battles
<1>2. h \in Battles
  <2>1. g.who[c] \in Fighters /\ g.who \in [Creatures -> Fighters] /\ g.deaths \in Seq(Creatures \cup {NoOne})
    BY <1>0 DEF Battles
  <2>2. [g.who[c] EXCEPT !.health = n] \in Fighters
    BY <1>0, <2>1 DEF Fighters
  <2>3. h = [who |-> [g.who EXCEPT ![c] = [g.who[c] EXCEPT !.health = n]],
             deaths |-> IF n = 0 THEN Append(g.deaths, c) ELSE g.deaths]
    <3>1. g = [who |-> g.who, deaths |-> g.deaths]
      BY <1>0 DEF Battles
    <3>2. h = [g EXCEPT !.who = [g.who EXCEPT ![c] = [g.who[c] EXCEPT !.health = n]],
                        !.deaths = IF n = 0 THEN Append(g.deaths, c) ELSE g.deaths]
      BY <1>0, <3>1 DEF ChangeHealth, QueuesDeath
    <3>. HIDE DEF h
    <3>. QED BY <3>1, <3>2
  <2>4. [g.who EXCEPT ![c] = [g.who[c] EXCEPT !.health = n]] \in [Creatures -> Fighters]
    BY <2>1, <2>2
  <2>5. (IF n = 0 THEN Append(g.deaths, c) ELSE g.deaths) \in Seq(Creatures \cup {NoOne})
    BY <2>1
  <2>. QED BY <2>3, <2>4, <2>5 DEF Battles
<1>. HIDE DEF h
<1>3. \A d \in Creatures : /\ h.who[d].inGame = g.who[d].inGame /\ h.who[d].zone = g.who[d].zone
                           /\ h.who[d].target = g.who[d].target
  BY <1>0, <1>1 DEF Battles, Fighters
<1>4. \A d \in Creatures : h.who[d].health <= MaxHealth[d]
  BY <1>0, <1>1 DEF InOrder, Battles, Fighters
<1>5. \A d \in Creatures \ dying : Pends(h, d)
  <2>1. \A d \in Creatures : (\E i \in DOMAIN g.deaths : g.deaths[i] = d) => \E i \in DOMAIN h.deaths : h.deaths[i] = d
    BY <1>0, <1>1 DEF Battles
  <2>2. n = 0 => \E i \in DOMAIN h.deaths : h.deaths[i] = c
    <3>1. g.deaths \in Seq(Creatures \cup {NoOne})
      BY <1>0 DEF Battles
    <3>. QED BY <1>1, <3>1
  <2>3. h.who[c].health = n
    BY <1>0, <1>1 DEF Battles, Fighters
  <2>4. ASSUME NEW d \in Creatures \ dying, d # c PROVE Pends(h, d)
    <3>1. h.who[d] = g.who[d] /\ Pends(g, d)
      BY <1>1, <2>4 DEF InOrder
    <3>. QED BY <2>1, <3>1 DEF Pends
  <2>5. Pends(h, c)
    BY <2>2, <2>3 DEF Pends
  <2>. QED BY <2>4, <2>5
<1>6. \A d \in Players : MarksFit(h.who[d])
  <2>1. MarksFit(g.who[c]) => MarksFit(h.who[c])
    BY <1>0, <1>1 DEF MarksFit, Battles, Fighters
  <2>. QED BY <2>1, <1>1 DEF InOrder, Creatures
<1>7. \A d \in Creatures : LegalTarget(h, d)
  <2>1. \A d \in Creatures : g.who[d].target \in Creatures \cup {NoOne}
    BY DEF InOrder, Battles, Fighters
  <2>. QED BY <1>3, <2>1 DEF InOrder, LegalTarget
<1>8. InOrder(h, dying)
  BY <1>2, <1>4, <1>5, <1>6, <1>7 DEF InOrder
<1>. QED BY <1>1, <1>8 DEF h

(* addInFightTicks() gives the marks the condition that ends them. *)
LEMMA FightTicksInOrder ==
  ASSUME CombatAssumption, NEW g, NEW dying, InOrder(g, dying), NEW c \in Creatures
  PROVE  InOrder(AddInFightTicks(g, c), dying) /\ Touches(g, AddInFightTicks(g, c), c)
<1>1. Touches(g, AddInFightTicks(g, c), c) /\ AddInFightTicks(g, c).who[c].inFight
  BY SmallTouches DEF InOrder
<1>. QED BY <1>1, TouchKeepsOrder DEF MarksFit

(* addDamagePoints() changes what a creature remembers of its attackers,   *)
(* nothing else.                                                           *)
LEMMA DamageInOrder ==
  ASSUME CombatAssumption, NEW g, NEW dying, InOrder(g, dying), NEW c \in Creatures, NEW a \in Creatures
  PROVE  InOrder(AddDamagePoints(g, a, c), dying) /\ Touches(g, AddDamagePoints(g, a, c), c)
<1>. DEFINE h == AddDamagePoints(g, a, c)
<1>0. g \in Battles /\ g.who[c] \in Fighters
  BY DEF InOrder, Battles
<1>1. Touches(g, h, c) /\ h.who[c] = [g.who[c] EXCEPT !.damage = @ \cup {a}, !.lastHit = a]
  BY <1>0 DEF Touches, AddDamagePoints, Battles, Fighters
<1>2. MarksFit(g.who[c]) => MarksFit(h.who[c])
  BY <1>0, <1>1 DEF MarksFit, Fighters
<1>. HIDE DEF h
<1>3. c \in Players => MarksFit(h.who[c])
  BY <1>2 DEF InOrder
<1>4. InOrder(h, dying)
  BY <1>1, <1>3, TouchKeepsOrder
<1>. QED BY <1>1, <1>4 DEF h

(* drainHealth(): the health goes down, the attacker is noted and the      *)
(* victim is in a fight.                                                   *)
LEMMA DrainInOrder ==
  ASSUME CombatAssumption, NEW g, NEW dying, InOrder(g, dying), NEW a \in Creatures \cup {NoOne}, NEW t \in Creatures,
         NEW damage \in 0..g.who[t].health
  PROVE  LET h == DrainHealth(g, a, t, damage)
         IN  InOrder(h, dying) /\ \A d \in Creatures \ {t} : h.who[d] = g.who[d]
<1>. DEFINE hurt == ChangeHealth(g, t, g.who[t].health - damage)
            noted == IF a = NoOne THEN [hurt EXCEPT !.who[t].lastHit = NoOne] ELSE AddDamagePoints(hurt, a, t)
<1>3. DrainHealth(g, a, t, damage) = IF t \in Players THEN AddInFightTicks(noted, t) ELSE noted
  BY DEF DrainHealth
<1>0. g.who[t].health \in Nat /\ g.who[t].health <= MaxHealth[t] /\ MaxHealth[t] \in Nat
  BY DEF InOrder, Battles, Fighters, CombatAssumption
<1>1. InOrder(hurt, dying) /\ \A d \in Creatures \ {t} : hurt.who[d] = g.who[d]
  <2>1. g.who[t].health - damage \in 0..MaxHealth[t]
    BY <1>0
  <2>. QED BY <2>1, HealthInOrder, ZenonT(60)
<1>. HIDE DEF hurt
<1>2. InOrder(noted, dying) /\ Touches(hurt, noted, t)
  <2>1. CASE a # NoOne
    BY <1>1, <2>1, DamageInOrder
  <2>2. CASE a = NoOne
    <3>1. hurt \in Battles /\ hurt.who[t] \in Fighters
      BY <1>1 DEF InOrder, Battles
    <3>2. noted \in Battles /\ Touches(hurt, noted, t) /\ noted.who[t] = [hurt.who[t] EXCEPT !.lastHit = NoOne]
      BY <2>2, <3>1 DEF Touches, Battles, Fighters
    <3>3. MarksFit(hurt.who[t]) => MarksFit(noted.who[t])
      BY <3>1, <3>2 DEF MarksFit, Fighters
    <3>. HIDE DEF noted
    <3>4. t \in Players => MarksFit(noted.who[t])
      BY <1>1, <3>3 DEF InOrder
    <3>. QED BY <1>1, <3>2, <3>4, TouchKeepsOrder
  <2>. QED BY <2>1, <2>2
<1>. HIDE DEF noted
<1>4. InOrder(AddInFightTicks(noted, t), dying) /\ Touches(noted, AddInFightTicks(noted, t), t)
  BY <1>2, FightTicksInOrder
<1>5. \A d \in Creatures \ {t} : noted.who[d] = g.who[d] /\ AddInFightTicks(noted, t).who[d] = g.who[d]
  BY <1>1, <1>2, <1>4 DEF Touches
<1>. QED BY <1>2, <1>3, <1>4, <1>5

(* combatChangeHealth() and combatChangeMana(), also on one without health *)
(* and also refused by a black skull.                                      *)
LEMMA SufferInOrder ==
  ASSUME CombatAssumption, NEW g, NEW dying, InOrder(g, dying), NEW a \in Creatures \cup {NoOne}, NEW t \in Creatures,
         NEW blow, blow.damage \in Nat
  PROVE  LET h == Suffer(g, a, t, blow)
         IN  InOrder(h, dying) /\ \A d \in Creatures \ {t} : h.who[d] = g.who[d]
<1>1. CASE Suffer(g, a, t, blow) = g
  BY <1>1
<1>2. CASE Suffer(g, a, t, blow) = CombatChangeMana(g, a, t)
  <2>1. CASE t \in Players /\ a # NoOne
    <3>. DEFINE h == AddDamagePoints(g, a, t)
    <3>1. Suffer(g, a, t, blow) = AddInFightTicks(h, t)
      BY <1>2, <2>1 DEF CombatChangeMana, DrainMana
    <3>2. InOrder(h, dying) /\ Touches(g, h, t)
      BY <2>1, DamageInOrder
    <3>. HIDE DEF h
    <3>3. InOrder(AddInFightTicks(h, t), dying) /\ Touches(g, AddInFightTicks(h, t), t)
      BY <3>2, FightTicksInOrder, TouchTransitive
    <3>. QED BY <3>1, <3>3 DEF Touches
  <2>2. CASE ~(t \in Players /\ a # NoOne)
    BY <1>2, <2>2 DEF CombatChangeMana, DrainMana
  <2>. QED BY <2>1, <2>2
<1>3. CASE Suffer(g, a, t, blow) = CombatChangeHealth(g, a, t, blow.damage)
  <2>. DEFINE damage == IF blow.damage > g.who[t].health THEN g.who[t].health ELSE blow.damage
  <2>1. g.who[t].health \in Nat
    BY DEF InOrder, Battles, Fighters
  <2>2. damage \in 0..g.who[t].health
    BY <2>1
  <2>3. CombatChangeHealth(g, a, t, blow.damage) \in {g, DrainHealth(g, a, t, damage)}
    BY DEF CombatChangeHealth
  <2>. HIDE DEF damage
  <2>. QED BY <1>3, <2>2, <2>3, DrainInOrder
<1>4. Suffer(g, a, t, blow) \in {g, CombatChangeMana(g, a, t), CombatChangeHealth(g, a, t, blow.damage)}
  BY DEF Suffer
<1>. QED BY <1>1, <1>2, <1>3, <1>4

(* Combat::doTargetCombat(): the attack is told to the attacker first,     *)
(* then it hurts.                                                          *)
LEMMA BlowInOrder ==
  ASSUME CombatAssumption, NEW g, NEW dying, InOrder(g, dying), NEW a \in Creatures \cup {NoOne}, NEW t \in Creatures,
         NEW blow, blow.damage \in Nat
  PROVE  LET h == DoTargetCombat(g, a, t, blow)
         IN  /\ InOrder(h, dying)
             /\ a # NoOne /\ a # t => h.who[a].health = g.who[a].health
<1>. DEFINE told == OnAttackedCreature(g, a, t)
            h == Suffer(told, a, t, blow)
<1>1. InOrder(told, dying) /\ (a \in Creatures => told.who[a].health = g.who[a].health)
  BY MarkedInOrder DEF Touches
<1>. HIDE DEF told
<1>2. InOrder(h, dying) /\ \A d \in Creatures \ {t} : h.who[d] = told.who[d]
  BY <1>1, SufferInOrder
<1>3. DoTargetCombat(g, a, t, blow) = h
  BY DEF DoTargetCombat, told
<1>. HIDE DEF h
<1>. QED BY <1>1, <1>2, <1>3

(* gainHealth() never lifts the health of one who has none. *)
LEMMA GainInOrder ==
  ASSUME CombatAssumption, NEW g, NEW dying, InOrder(g, dying), NEW a, NEW t \in Creatures
  PROVE  LET h == GainHealth(g, a, t)
         IN  InOrder(h, dying) /\ (g.who[t].health > 0 => h.who[t].health > 0)
<1>0. /\ g.who[t].health \in Nat /\ g.who[t].health <= MaxHealth[t] /\ MaxHealth[t] \in Nat
      /\ g.who[t] \in Fighters
  BY DEF InOrder, Battles, Fighters, CombatAssumption
<1>1. CASE GainHealth(g, a, t) = g
  BY <1>1
<1>2. CASE GainHealth(g, a, t) # g
  <2>1. g.who[t].health + 1 \in 0..MaxHealth[t] /\ GainHealth(g, a, t) = ChangeHealth(g, t, g.who[t].health + 1)
    BY <1>0, <1>2 DEF GainHealth
  <2>2. /\ InOrder(ChangeHealth(g, t, g.who[t].health + 1), dying)
        /\ ChangeHealth(g, t, g.who[t].health + 1).who[t] = [g.who[t] EXCEPT !.health = g.who[t].health + 1]
    BY <2>1, HealthInOrder
  <2>. QED BY <1>0, <2>1, <2>2 DEF Fighters
<1>. QED BY <1>1, <1>2

(* The targets of an area come one after the other, each of them once. *)
LEMMA OrderOfTargets ==
  ASSUME NEW targets, IsFiniteSet(targets)
  PROVE  /\ Len(SetToSeq(targets)) \in Nat
         /\ \A n \in 1..Len(SetToSeq(targets)) : SetToSeq(targets)[n] \in targets
<1>. DEFINE k == Cardinality(targets)
<1>1. k \in Nat /\ \E f : f \in Bijection(1..k, targets)
  BY FS_CardinalityType DEF ExistsBijection
<1>2. PICK f \in Bijection(1..k, targets) : TRUE
  BY <1>1
<1>3. f \in [1..k -> targets] /\ \A i, j \in 1..k : f[i] = f[j] => i = j
  BY <1>2 DEF Bijection, Injection, IsInjective
<1>4. SetToSeq(targets) \in [1..k -> targets]
  BY <1>3 DEF SetToSeq, IsInjective
<1>5. Len(SetToSeq(targets)) = k
  BY <1>1, <1>4
<1>. QED BY <1>1, <1>4, <1>5

(* The battle after each of the first n targets of an area. *)
IsStriking(after, g, a, order, blow, N) ==
  after = [n \in 0..N |-> IF n = 0 THEN g ELSE DoTargetCombat(after[n - 1], a, order[n], blow)]

(* doAreaCombat() goes through the targets: the battle after each of them  *)
(* is determined by the one before.                                        *)
LEMMA StrikingExists ==
  ASSUME NEW g, NEW a, NEW order, NEW blow, NEW k \in Nat
  PROVE  \E c : IsStriking(c, g, a, order, blow, k)
<1>. DEFINE G == {n \in Nat : \E c : IsStriking(c, g, a, order, blow, n)}
            Then(h, x) == DoTargetCombat(h, a, order[x], blow)
<1>1. 0 \in G
  <2>1. IsStriking([x \in 0..0 |-> g], g, a, order, blow, 0)
    BY DEF IsStriking
  <2>. QED BY <2>1
<1>2. ASSUME NEW n \in Nat, n \in G
      PROVE  n + 1 \in G
  <2>1. PICK c : IsStriking(c, g, a, order, blow, n)
    BY <1>2
  <2>. DEFINE last == Then(c[n], n + 1)
              longer == [x \in 0..n + 1 |-> IF x <= n THEN c[x] ELSE last]
  <2>2. (\A x \in 0..n : longer[x] = c[x]) /\ longer[n + 1] = last
    OBVIOUS
  <2>3. \A x \in 0..n + 1 : longer[x] = IF x = 0 THEN g ELSE Then(longer[x - 1], x)
    <3>1. c = [x \in 0..n |-> IF x = 0 THEN g ELSE Then(c[x - 1], x)]
      BY <2>1 DEF IsStriking
    <3>. HIDE DEF longer, Then
    <3>2. ASSUME NEW x \in 0..n + 1, x <= n
          PROVE longer[x] = IF x = 0 THEN g ELSE Then(longer[x - 1], x)
      <4>1. x \in 0..n /\ (x # 0 => x - 1 \in 0..n)
        BY <3>2
      <4>2. c[x] = IF x = 0 THEN g ELSE Then(c[x - 1], x)
        BY <4>1, <3>1
      <4>. QED BY <4>1, <4>2, <2>2
    <3>3. longer[n] = c[n] /\ (n + 1) - 1 = n /\ n + 1 # 0
      BY <2>2
    <3>4. \A x \in 0..n + 1 : x <= n \/ x = n + 1
      OBVIOUS
    <3>. QED BY <3>2, <3>3, <3>4, <2>2
  <2>4. longer = [x \in 0..n + 1 |-> longer[x]]
    OBVIOUS
  <2>5. IsStriking(longer, g, a, order, blow, n + 1)
    <3>. HIDE DEF longer
    <3>. QED BY <2>3, <2>4 DEF IsStriking
  <2>. QED BY <2>5
<1>3. G = Nat
  <2>. HIDE DEF G
  <2>1. G \subseteq Nat
    BY DEF G
  <2>. QED BY <1>1, <1>2, <2>1, SetInduction
<1>. QED BY <1>3

(* Each target of an area finds the fights in order and leaves them so,    *)
(* although all were chosen before the first was hit.                      *)
LEMMA AreaInOrder ==
  ASSUME CombatAssumption, NEW g, NEW dying, InOrder(g, dying), NEW a \in Creatures,
         NEW targets \in SUBSET Creatures, NEW blow, blow.damage \in Nat
  PROVE  InOrder(DoAreaCombat(g, a, targets, blow), dying)
<1>. DEFINE order == SetToSeq(targets)
            N == Len(order)
            c == CHOOSE f : f = [n \in 0..N |-> IF n = 0 THEN g ELSE DoTargetCombat(f[n - 1], a, order[n], blow)]
            G == {n \in Nat : n <= N => InOrder(c[n], dying)}
<1>1. N \in Nat /\ \A n \in 1..N : order[n] \in Creatures
  <2>1. IsFiniteSet(targets)
    BY FS_Subset DEF CombatAssumption
  <2>. QED BY <2>1, OrderOfTargets
<1>3. DoAreaCombat(g, a, targets, blow) = c[N]
  BY DEF DoAreaCombat
<1>. HIDE DEF order, N
<1>2. IsStriking(c, g, a, order, blow, N)
  <2>1. \E f : IsStriking(f, g, a, order, blow, N)
    BY <1>1, StrikingExists
  <2>. QED BY <2>1 DEF IsStriking
<1>. HIDE DEF c
<1>4. \A n \in 0..N : c[n] = IF n = 0 THEN g ELSE DoTargetCombat(c[n - 1], a, order[n], blow)
  BY <1>2 DEF IsStriking
<1>5. 0 \in G
  BY <1>1, <1>4
<1>6. ASSUME NEW n \in Nat, n \in G PROVE n + 1 \in G
  <2>. SUFFICES ASSUME n + 1 <= N PROVE InOrder(c[n + 1], dying)
    OBVIOUS
  <2>1. n \in 0..N /\ n + 1 \in 0..N /\ n + 1 \in 1..N /\ (n + 1) - 1 = n /\ n + 1 # 0
    BY <1>1
  <2>2. InOrder(c[n], dying)
    BY <1>6, <2>1
  <2>3. c[n + 1] = DoTargetCombat(c[n], a, order[n + 1], blow)
    BY <1>4, <2>1
  <2>4. order[n + 1] \in Creatures
    BY <1>1, <2>1
  <2>. QED BY <2>2, <2>3, <2>4, BlowInOrder
<1>7. G = Nat
  <2>. HIDE DEF G
  <2>1. G \subseteq Nat
    BY DEF G
  <2>. QED BY <1>5, <1>6, <2>1, SetInduction
<1>. QED BY <1>1, <1>3, <1>7

(* setAttackedCreature(nullptr) takes a target away and touches nothing    *)
(* else.                                                                   *)
LEMMA NoTargetTouched ==
  ASSUME CombatAssumption, NEW g, NEW dying, InOrder(g, dying), NEW c \in Creatures
  PROVE  InOrder([g EXCEPT !.who[c].target = NoOne], dying)
<1>. DEFINE h == [g EXCEPT !.who[c].target = NoOne]
<1>0. g \in Battles /\ g.who[c] \in Fighters /\ c # NoOne
  BY DEF InOrder, Battles, CombatAssumption
<1>1. /\ h.who[c] = [g.who[c] EXCEPT !.target = NoOne]
      /\ \A d \in Creatures \ {c} : h.who[d] = g.who[d]
      /\ h.deaths = g.deaths /\ h \in Battles
  BY <1>0 DEF Battles, Fighters
<1>. HIDE DEF h
<1>2. \A d \in Creatures : /\ h.who[d].inGame = g.who[d].inGame /\ h.who[d].health = g.who[d].health
                           /\ h.who[d].zone = g.who[d].zone
                           /\ h.who[d].target = IF d = c THEN NoOne ELSE g.who[d].target
  BY <1>0, <1>1 DEF Fighters
<1>3. \A d \in Players : MarksFit(h.who[d])
  <2>1. MarksFit(g.who[c]) => MarksFit(h.who[c])
    BY <1>0, <1>1 DEF MarksFit, Fighters
  <2>. QED BY <2>1, <1>1 DEF InOrder, Creatures
<1>4. \A d \in Creatures : LegalTarget(h, d)
  <2>1. \A d \in Creatures : g.who[d].target \in Creatures \cup {NoOne}
    BY DEF InOrder, Battles, Fighters
  <2>. QED BY <1>2, <2>1 DEF InOrder, LegalTarget
<1>5. \A d \in Creatures \ dying : Pends(h, d)
  BY <1>1, <1>2 DEF InOrder, Pends
<1>. QED BY <1>1, <1>2, <1>3, <1>4, <1>5 DEF InOrder, h

(* A target that may be attacked may be set. *)
LEMMA TargetInOrder ==
  ASSUME CombatAssumption, NEW g, NEW dying, InOrder(g, dying), NEW c \in Creatures, NEW t \in Creatures \cup {NoOne},
         t # NoOne => /\ t # c /\ g.who[c].inGame /\ g.who[t].inGame
                      /\ g.who[c].zone # "protection" /\ g.who[t].zone # "protection"
                      /\ BothPlayers(c, t) => g.who[t].zone # "nopvp"
  PROVE  InOrder(SetAttackedCreature(g, c, t), dying)
<1>0. g \in Battles /\ g.who[c] \in Fighters /\ c # NoOne
  BY DEF InOrder, Battles, CombatAssumption
<1>1. CASE t = NoOne
  BY <1>1, NoTargetTouched DEF SetAttackedCreature
<1>2. CASE t # NoOne
  <2>. DEFINE h == [g EXCEPT !.who[c].target = t]
  <2>1. /\ h.who[c] = [g.who[c] EXCEPT !.target = t]
        /\ \A d \in Creatures \ {c} : h.who[d] = g.who[d]
        /\ h.deaths = g.deaths /\ h \in Battles
    BY <1>0 DEF Battles, Fighters
  <2>. HIDE DEF h
  <2>2. \A d \in Creatures : /\ h.who[d].inGame = g.who[d].inGame /\ h.who[d].health = g.who[d].health
                             /\ h.who[d].zone = g.who[d].zone
                             /\ h.who[d].target = IF d = c THEN t ELSE g.who[d].target
    BY <1>0, <2>1 DEF Fighters
  <2>3. \A d \in Players : MarksFit(h.who[d])
    <3>1. MarksFit(g.who[c]) => MarksFit(h.who[c])
      BY <1>0, <2>1 DEF MarksFit, Fighters
    <3>. QED BY <3>1, <2>1 DEF InOrder, Creatures
  <2>4. \A d \in Creatures : LegalTarget(h, d)
    <3>1. \A d \in Creatures : g.who[d].target \in Creatures \cup {NoOne}
      BY DEF InOrder, Battles, Fighters
    <3>2. LegalTarget(h, c)
      BY <1>2, <2>2 DEF LegalTarget
    <3>3. ASSUME NEW d \in Creatures, d # c PROVE LegalTarget(h, d)
      BY <3>1, <3>3, <2>2 DEF InOrder, LegalTarget
    <3>. QED BY <3>2, <3>3
  <2>5. \A d \in Creatures \ dying : Pends(h, d)
    BY <2>1, <2>2 DEF InOrder, Pends
  <2>6. InOrder(h, dying)
    BY <2>1, <2>2, <2>3, <2>4, <2>5 DEF InOrder
  <2>7. SetAttackedCreature(g, c, t) = OnAttackedCreature(h, c, t)
    BY <1>2 DEF SetAttackedCreature, h
  <2>. QED BY <1>2, <2>6, <2>7, MarkedInOrder
<1>. QED BY <1>1, <1>2

(* EnterZone changes zones and targets only. *)
LEMMA ZoneInOrder ==
  ASSUME CombatAssumption, NEW g, NEW dying, InOrder(g, dying), NEW c \in Creatures, NEW zone \in Zones
  PROVE  /\ InOrder(EnterZone(g, c, zone), dying)
         /\ \A d \in Creatures : EnterZone(g, c, zone).who[d].health = g.who[d].health
<1>. DEFINE h == EnterZone(g, c, zone)
            lost(d) == zone # g.who[c].zone /\ LosesTarget(g, d, c, zone)
<1>0. g \in Battles /\ \A d \in Creatures : g.who[d] \in Fighters
  BY DEF InOrder, Battles
<1>1. \A d \in Creatures :
        h.who[d] = [g.who[d] EXCEPT !.zone = IF d = c THEN zone ELSE @, !.target = IF lost(d) THEN NoOne ELSE @]
  BY <1>0 DEF EnterZone, Battles
<1>2. h.deaths = g.deaths /\ h.who = [d \in Creatures |-> h.who[d]] /\ h = [who |-> h.who, deaths |-> h.deaths]
  <2>1. g = [who |-> g.who, deaths |-> g.deaths]
    BY <1>0 DEF Battles
  <2>. DEFINE w == [d \in Creatures |->
                     [g.who[d] EXCEPT !.zone = IF d = c THEN zone ELSE @, !.target = IF lost(d) THEN NoOne ELSE @]]
  <2>2. h = [g EXCEPT !.who = w]
    BY DEF EnterZone
  <2>3. w = [d \in Creatures |-> w[d]]
    OBVIOUS
  <2>. HIDE DEF w, h
  <2>. QED BY <2>1, <2>2, <2>3
<1>. HIDE DEF h, lost
<1>3. \A d \in Creatures :
        /\ h.who[d] \in Fighters
        /\ h.who[d].inGame = g.who[d].inGame /\ h.who[d].health = g.who[d].health
        /\ h.who[d].zone = (IF d = c THEN zone ELSE g.who[d].zone)
        /\ h.who[d].target = (IF lost(d) THEN NoOne ELSE g.who[d].target)
        /\ MarksFit(g.who[d]) => MarksFit(h.who[d])
  <2>. SUFFICES ASSUME NEW d \in Creatures
       PROVE  /\ h.who[d] \in Fighters
              /\ h.who[d].inGame = g.who[d].inGame /\ h.who[d].health = g.who[d].health
              /\ h.who[d].zone = (IF d = c THEN zone ELSE g.who[d].zone)
              /\ h.who[d].target = (IF lost(d) THEN NoOne ELSE g.who[d].target)
              /\ MarksFit(g.who[d]) => MarksFit(h.who[d])
    OBVIOUS
  <2>. DEFINE z == IF d = c THEN zone ELSE g.who[d].zone
              x == IF lost(d) THEN NoOne ELSE g.who[d].target
  <2>1. g.who[d] \in Fighters /\ h.who[d] = [g.who[d] EXCEPT !.zone = z, !.target = x]
    BY <1>0, <1>1
  <2>2. z \in Zones /\ x \in Creatures \cup {NoOne}
    BY <1>0 DEF Fighters
  <2>. HIDE DEF z, x
  <2>3. h.who[d] \in Fighters /\ h.who[d].zone = z /\ h.who[d].target = x
        /\ h.who[d].inGame = g.who[d].inGame /\ h.who[d].health = g.who[d].health
    BY <2>1, <2>2 DEF Fighters
  <2>4. MarksFit(g.who[d]) => MarksFit(h.who[d])
    BY <2>1 DEF Fighters, MarksFit
  <2>. QED BY <2>3, <2>4 DEF z, x
<1>4. h \in Battles
  BY <1>0, <1>2, <1>3 DEF Battles
<1>5. \A d \in Creatures \ dying : Pends(h, d)
  BY <1>2, <1>3 DEF InOrder, Pends
<1>6. ASSUME NEW d \in Creatures PROVE LegalTarget(h, d)
  <2>. SUFFICES ASSUME h.who[d].target # NoOne PROVE LegalTarget(h, d)
    BY DEF LegalTarget
  <2>1. ~lost(d) /\ h.who[d].target = g.who[d].target
    BY <1>3
  <2>. DEFINE t == g.who[d].target
  <2>2. t \in Creatures /\ t # NoOne
    BY <1>0, <2>1 DEF Fighters
  <2>3. /\ t # d /\ g.who[d].inGame /\ g.who[t].inGame
        /\ g.who[d].zone # "protection" /\ g.who[t].zone # "protection"
        /\ BothPlayers(d, t) => g.who[t].zone # "nopvp"
    BY <2>2 DEF InOrder, LegalTarget
  <2>4. zone = g.who[c].zone \/ ~LosesTarget(g, d, c, zone)
    BY <2>1 DEF lost
  <2>5. h.who[d].zone # "protection"
    BY <1>3, <2>3, <2>4 DEF LosesTarget
  <2>6. h.who[t].zone # "protection" /\ (BothPlayers(d, t) => h.who[t].zone # "nopvp")
    BY <1>3, <2>2, <2>3, <2>4 DEF LosesTarget
  <2>. QED BY <1>3, <2>1, <2>2, <2>3, <2>5, <2>6 DEF LegalTarget
<1>7. \A d \in Players : MarksFit(h.who[d])
  BY <1>3 DEF InOrder, Creatures
<1>8. InOrder(h, dying)
  BY <1>3, <1>4, <1>5, <1>6, <1>7 DEF InOrder
<1>. QED BY <1>3, <1>8 DEF h

(* Who is gone neither attacks nor is attacked, and does not die. *)
LEMMA RemovalInOrder ==
  ASSUME CombatAssumption, NEW g, NEW dying, InOrder(g, dying), NEW c \in Creatures
  PROVE  InOrder(RemoveCreature(g, c), dying \ {c})
<1>. DEFINE h == RemoveCreature(g, c)
<1>0. /\ g \in Battles /\ NoOne \notin Creatures /\ MaxHealth[c] \in Nat \ {0}
      /\ \A d \in Creatures : g.who[d] \in Fighters
      /\ g.who[c].health <= MaxHealth[c]
  BY DEF InOrder, Battles, CombatAssumption
<1>1. /\ h.who[c] = Saved(g, c)
      /\ \A d \in Creatures \ {c} :
           h.who[d] = [g.who[d] EXCEPT !.target = Forget(@, c), !.lastHit = Forget(@, c), !.damage = @ \ {c}]
  BY <1>0 DEF RemoveCreature
<1>2. /\ h = [who |-> h.who, deaths |-> h.deaths] /\ h.who = [d \in Creatures |-> h.who[d]]
      /\ h.deaths = [n \in DOMAIN g.deaths |-> Forget(g.deaths[n], c)]
  BY DEF RemoveCreature
<1>. HIDE DEF h
<1>3. /\ h.who[c] \in Fighters /\ h.who[c].health # 0 /\ h.who[c].health <= MaxHealth[c]
      /\ h.who[c].target = NoOne /\ MarksFit(h.who[c])
  <2>1. g.who[c].health \in Nat /\ g.who[c].inFight \in BOOLEAN
    BY <1>0 DEF Fighters
  <2>2. "protection" \in Zones
    BY DEF CombatAssumption
  <2>. DEFINE u == Unhurt(c)
              hp == IF g.who[c].health = 0 THEN 1 ELSE g.who[c].health
              sk == IF g.who[c].skull \in {"red", "black"} THEN g.who[c].skull ELSE "none"
              r == [u EXCEPT !.health = hp, !.inFight = g.who[c].inFight, !.skull = sk]
  <2>3. u \in Fighters /\ ~u.inGame /\ u.target = NoOne /\ ~u.pzLocked /\ u.attacked = {}
    BY <1>0, <2>2 DEF Unhurt, Fighters
  <2>4. hp \in Nat \ {0} /\ hp <= MaxHealth[c] /\ sk \in {"none", "red", "black"}
    BY <1>0, <2>1
  <2>6. h.who[c] = r
    BY <1>1 DEF Saved
  <2>. HIDE DEF u, hp, sk
  <2>5. r \in Fighters /\ ~r.inGame /\ r.target = NoOne /\ ~r.pzLocked /\ r.attacked = {}
        /\ r.skull = sk /\ r.health = hp
    BY <2>1, <2>3, <2>4 DEF Fighters
  <2>. HIDE DEF r
  <2>. QED BY <2>4, <2>5, <2>6 DEF MarksFit
<1>4. ASSUME NEW d \in Creatures \ {c}
      PROVE  /\ h.who[d] \in Fighters
             /\ h.who[d].inGame = g.who[d].inGame /\ h.who[d].health = g.who[d].health
             /\ h.who[d].zone = g.who[d].zone
             /\ h.who[d].target = Forget(g.who[d].target, c)
             /\ MarksFit(g.who[d]) => MarksFit(h.who[d])
  <2>. DEFINE x == Forget(g.who[d].target, c)
              y == Forget(g.who[d].lastHit, c)
              s == g.who[d].damage \ {c}
  <2>1. g.who[d] \in Fighters /\ h.who[d] = [g.who[d] EXCEPT !.target = x, !.lastHit = y, !.damage = s]
    BY <1>0, <1>1
  <2>2. x \in Creatures \cup {NoOne} /\ y \in Creatures \cup {NoOne} /\ s \in SUBSET Creatures
    BY <1>0 DEF Fighters, Forget
  <2>. HIDE DEF x, y, s
  <2>3. h.who[d] \in Fighters /\ h.who[d].zone = g.who[d].zone /\ h.who[d].target = x
        /\ h.who[d].inGame = g.who[d].inGame /\ h.who[d].health = g.who[d].health
    BY <2>1, <2>2 DEF Fighters
  <2>4. MarksFit(g.who[d]) => MarksFit(h.who[d])
    BY <2>1 DEF Fighters, MarksFit
  <2>. QED BY <2>3, <2>4 DEF x
<1>5. h.deaths \in Seq(Creatures \cup {NoOne}) /\ DOMAIN h.deaths = DOMAIN g.deaths
  <2>1. g.deaths \in Seq(Creatures \cup {NoOne})
    BY <1>0 DEF Battles
  <2>2. PICK k \in Nat : g.deaths \in [1..k -> Creatures \cup {NoOne}]
    BY <2>1
  <2>3. h.deaths \in [1..k -> Creatures \cup {NoOne}]
    BY <1>2, <2>2 DEF Forget
  <2>. QED BY <1>2, <2>3, SMTT(30)
<1>6. h \in Battles
  <2>1. \A d \in Creatures : h.who[d] \in Fighters
    BY <1>3, <1>4
  <2>. QED BY <1>2, <1>5, <2>1 DEF Battles
<1>7. ASSUME NEW d \in Creatures \ (dying \ {c}) PROVE Pends(h, d)
  <2>1. CASE d = c
    BY <2>1, <1>3 DEF Pends
  <2>2. CASE d # c
    <3>1. Pends(g, d)
      BY <2>2 DEF InOrder
    <3>2. \A n \in DOMAIN g.deaths : g.deaths[n] = d => h.deaths[n] = d
      BY <1>2, <2>2 DEF Forget
    <3>. QED BY <1>4, <1>5, <2>2, <3>1, <3>2 DEF Pends
  <2>. QED BY <2>1, <2>2
<1>8. ASSUME NEW d \in Creatures PROVE LegalTarget(h, d)
  <2>1. CASE d = c
    BY <2>1, <1>3 DEF LegalTarget
  <2>2. CASE d # c
    <3>1. LegalTarget(g, d) /\ g.who[d].target \in Creatures \cup {NoOne}
      BY <1>0 DEF InOrder, Fighters
    <3>2. h.who[d].target # NoOne => g.who[d].target # c /\ h.who[d].target = g.who[d].target
      BY <1>4, <2>2 DEF Forget
    <3>. QED BY <1>4, <2>2, <3>1, <3>2 DEF LegalTarget
  <2>. QED BY <2>1, <2>2
<1>9. \A d \in Players : MarksFit(h.who[d])
  BY <1>3, <1>4 DEF InOrder, Creatures
<1>10. \A d \in Creatures : h.who[d].health <= MaxHealth[d]
  BY <1>3, <1>4 DEF InOrder
<1>. QED BY <1>6, <1>7, <1>8, <1>9, <1>10 DEF InOrder, h

(* Who is healthy again need not die. *)
LEMMA HealedInOrder ==
  ASSUME CombatAssumption, NEW g, NEW dying, InOrder(g, dying), NEW c \in Creatures, NEW h \in Battles,
         h.deaths = g.deaths, \A d \in Creatures \ {c} : h.who[d] = g.who[d],
         h.who[c].inGame = g.who[c].inGame, h.who[c].zone = g.who[c].zone, h.who[c].target = g.who[c].target,
         h.who[c].health > 0, h.who[c].health <= MaxHealth[c], MarksFit(h.who[c])
  PROVE  InOrder(h, dying \ {c})
<1>1. \A d \in Creatures : /\ h.who[d].inGame = g.who[d].inGame /\ h.who[d].zone = g.who[d].zone
                           /\ h.who[d].target = g.who[d].target
  OBVIOUS
<1>2. \A d \in Creatures : h.who[d].health <= MaxHealth[d]
  BY DEF InOrder
<1>3. \A d \in Creatures \ (dying \ {c}) : Pends(h, d)
  BY DEF InOrder, Pends
<1>4. \A d \in Players : MarksFit(h.who[d])
  BY DEF InOrder, Creatures
<1>5. \A d \in Creatures : LegalTarget(h, d)
  <2>1. \A d \in Creatures : g.who[d].target \in Creatures \cup {NoOne}
    BY DEF InOrder, Battles, Fighters
  <2>. QED BY <1>1, <2>1 DEF InOrder, LegalTarget
<1>. QED BY <1>2, <1>3, <1>4, <1>5 DEF InOrder

(* onIdleStatus() forgets the attackers, never a mark. *)
LEMMA IdleFits ==
  ASSUME NEW r \in Fighters
  PROVE  LET s == OnIdleStatus(r)
         IN  /\ s \in Fighters /\ s.inGame = r.inGame /\ s.health = r.health /\ s.zone = r.zone
             /\ s.target = r.target /\ s.pzLocked = r.pzLocked /\ s.skull = r.skull
             /\ s.attacked = r.attacked /\ s.inFight = r.inFight
BY DEF OnIdleStatus, Fighters

(* The end of the in-fight condition takes pz-lock, white skull and        *)
(* attackedSet with it.                                                    *)
LEMMA EndFightFits ==
  ASSUME NEW r \in Fighters, MarksFit(r)
  PROVE  LET s == EndFight(r)
         IN  /\ s \in Fighters /\ s.inGame = r.inGame /\ s.health = r.health /\ s.zone = r.zone
             /\ s.target = r.target /\ MarksFit(s)
<1>1. CASE ~r.inFight
  BY <1>1 DEF EndFight
<1>2. CASE r.inFight
  <2>. DEFINE u == OnIdleStatus(r)
              sk == IF u.skull \in {"red", "black"} THEN u.skull ELSE "none"
              s == [u EXCEPT !.inFight = FALSE, !.pzLocked = FALSE, !.attacked = {}, !.skull = sk]
  <2>1. u \in Fighters /\ u.inGame = r.inGame /\ u.health = r.health /\ u.zone = r.zone /\ u.target = r.target
    BY IdleFits
  <2>2. EndFight(r) = s
    BY <1>2 DEF EndFight
  <2>3. sk \in {"none", "red", "black"}
    OBVIOUS
  <2>. HIDE DEF u, sk
  <2>4. /\ s \in Fighters /\ s.inGame = r.inGame /\ s.health = r.health /\ s.zone = r.zone /\ s.target = r.target
        /\ ~s.pzLocked /\ s.skull = sk /\ s.attacked = {}
    BY <2>1, <2>3 DEF Fighters
  <2>. HIDE DEF s
  <2>. QED BY <2>2, <2>3, <2>4 DEF MarksFit
<1>. QED BY <1>1, <1>2

(* A record that differs in nothing that matters may take the place of one. *)
LEMMA SwapTouches ==
  ASSUME NEW g \in Battles, NEW c \in Creatures, NEW r \in Fighters,
         r.inGame = g.who[c].inGame, r.health = g.who[c].health, r.zone = g.who[c].zone, r.target = g.who[c].target
  PROVE  Touches(g, [g EXCEPT !.who[c] = r], c) /\ [g EXCEPT !.who[c] = r].who[c] = r
BY RecordChange DEF Touches

(* A fight that ends leaves the others in order. *)
LEMMA FightEndsInOrder ==
  ASSUME CombatAssumption, NEW g, NEW dying, InOrder(g, dying), NEW c \in Players
  PROVE  InOrder([g EXCEPT !.who[c] = EndFight(g.who[c])], dying)
<1>1. c \in Creatures /\ g \in Battles /\ g.who[c] \in Fighters /\ MarksFit(g.who[c])
  BY DEF Creatures, InOrder, Battles
<1>2. /\ Touches(g, [g EXCEPT !.who[c] = EndFight(g.who[c])], c)
      /\ MarksFit([g EXCEPT !.who[c] = EndFight(g.who[c])].who[c])
  BY <1>1, EndFightFits, SwapTouches
<1>. QED BY <1>1, <1>2, TouchKeepsOrder

(* onKilledCreature(): a kill pz-locks only one who is in a fight; the     *)
(* skull of an unjustified kill is red or black, which the fight does not  *)
(* end.                                                                    *)
LEMMA KillInOrder ==
  ASSUME CombatAssumption, NEW g, NEW dying, InOrder(g, dying), NEW k \in Creatures, NEW c \in Creatures,
         NEW lastHit, NEW many
  PROVE  InOrder(OnKilledCreature(g, k, c, lastHit, many), dying)
<1>0. g \in Battles /\ g.who[c] \in Fighters /\ g.who[k] \in Fighters
  BY DEF InOrder, Battles
<1>. DEFINE spared == [g EXCEPT !.who[c].skillLoss = FALSE]
            killed == IF g.who[c].skull = "none" THEN AddUnjustifiedDead(g, k, many) ELSE g
<1>1. OnKilledCreature(g, k, c, lastHit, many) \in
        {g, spared, IF lastHit /\ g.who[k].inFight THEN PzLock(killed, k) ELSE killed}
  BY DEF OnKilledCreature
<1>2. InOrder(spared, dying)
  <2>1. Touches(g, spared, c) /\ spared.who[c] = [g.who[c] EXCEPT !.skillLoss = FALSE]
    BY <1>0 DEF Touches, Battles, Fighters
  <2>2. MarksFit(g.who[c]) => MarksFit([g.who[c] EXCEPT !.skillLoss = FALSE])
    BY <1>0 DEF MarksFit, Fighters
  <2>. HIDE DEF spared
  <2>3. c \in Players => MarksFit(spared.who[c])
    BY <2>1, <2>2 DEF InOrder
  <2>. QED BY <2>1, <2>3, TouchKeepsOrder
<1>3. Touches(g, killed, k) /\ InOrder(killed, dying) /\ killed.who[k].inFight = g.who[k].inFight
  <2>1. CASE killed = g
    BY <1>0, <2>1 DEF Touches
  <2>2. CASE killed # g
    <3>. DEFINE s == IF g.who[k].skull \in {"red", "black"} THEN "black" ELSE "red"
                h == [g EXCEPT !.who[k].skull = s]
    <3>1. killed = h
      BY <2>2 DEF AddUnjustifiedDead
    <3>2. s \in {"red", "black"} /\ s \in {"none", "white", "red", "black"}
      OBVIOUS
    <3>. HIDE DEF s
    <3>6. \A x \in {"none", "white", "red", "black"} :
            /\ Touches(g, [g EXCEPT !.who[k].skull = x], k)
            /\ [g EXCEPT !.who[k].skull = x].who[k] = [g.who[k] EXCEPT !.skull = x]
      BY <1>0, SmallTouches
    <3>3. Touches(g, h, k) /\ h.who[k] = [g.who[k] EXCEPT !.skull = s]
      BY <3>2, <3>6
    <3>4. /\ MarksFit(g.who[k]) => MarksFit([g.who[k] EXCEPT !.skull = s])
          /\ [g.who[k] EXCEPT !.skull = s].inFight = g.who[k].inFight
      BY <1>0, <3>2 DEF MarksFit, Fighters
    <3>. HIDE DEF h, killed
    <3>5. k \in Players => MarksFit(h.who[k])
      BY <3>3, <3>4 DEF InOrder
    <3>. QED BY <3>1, <3>3, <3>4, <3>5, TouchKeepsOrder
  <2>. QED BY <2>1, <2>2
<1>. HIDE DEF killed, spared
<1>4. ASSUME g.who[k].inFight PROVE InOrder(PzLock(killed, k), dying)
  <2>1. killed \in Battles /\ killed.who[k] \in Fighters
    BY <1>3 DEF InOrder, Battles
  <2>2. Touches(killed, PzLock(killed, k), k) /\ PzLock(killed, k).who[k] = [killed.who[k] EXCEPT !.pzLocked = TRUE]
    BY <2>1, SmallTouches
  <2>3. [killed.who[k] EXCEPT !.pzLocked = TRUE].inFight
    BY <1>3, <1>4, <2>1 DEF Fighters
  <2>. QED BY <1>3, <2>2, <2>3, TouchKeepsOrder DEF MarksFit
<1>. QED BY <1>1, <1>2, <1>3, <1>4

(* removeAttacked(): those who hurt the dead one forget that they attacked *)
(* it.                                                                     *)
LEMMA ForgivenInOrder ==
  ASSUME CombatAssumption, NEW g, NEW dying, InOrder(g, dying), NEW c \in Creatures
  PROVE  InOrder(RemoveAttacked(g, c), dying)
<1>. DEFINE h == RemoveAttacked(g, c)
<1>0. g \in Battles /\ g = [who |-> g.who, deaths |-> g.deaths] /\ \A k \in Creatures : g.who[k] \in Fighters
  BY DEF InOrder, Battles
<1>1. CASE c \in Monsters
  BY <1>1 DEF RemoveAttacked
<1>2. CASE c \notin Monsters
  <2>. DEFINE r(k) == IF k \in g.who[c].damage \ {c} THEN [g.who[k] EXCEPT !.attacked = @ \ {c}] ELSE g.who[k]
              w == [k \in Creatures |-> r(k)]
  <2>1. h = [g EXCEPT !.who = w]
    BY <1>2 DEF RemoveAttacked
  <2>2. ASSUME NEW k \in Creatures
        PROVE  /\ r(k) \in Fighters /\ r(k).inGame = g.who[k].inGame /\ r(k).health = g.who[k].health
               /\ r(k).zone = g.who[k].zone /\ r(k).target = g.who[k].target
               /\ MarksFit(g.who[k]) => MarksFit(r(k))
    <3>1. CASE r(k) = g.who[k]
      BY <1>0, <3>1
    <3>2. CASE r(k) = [g.who[k] EXCEPT !.attacked = @ \ {c}]
      <4>. DEFINE s == [g.who[k] EXCEPT !.attacked = @ \ {c}]
      <4>1. /\ s \in Fighters /\ s.inGame = g.who[k].inGame /\ s.health = g.who[k].health
            /\ s.zone = g.who[k].zone /\ s.target = g.who[k].target
        BY <1>0 DEF Fighters
      <4>2. MarksFit(g.who[k]) => MarksFit(s)
        BY <1>0 DEF Fighters, MarksFit
      <4>. HIDE DEF s
      <4>. QED BY <3>2, <4>1, <4>2 DEF s
    <3>. QED BY <3>1, <3>2
  <2>. HIDE DEF r
  <2>3. h = [who |-> w, deaths |-> g.deaths] /\ w \in [Creatures -> Fighters]
    <3>1. w \in [Creatures -> Fighters]
      BY <2>2
    <3>. HIDE DEF w, h
    <3>. QED BY <1>0, <2>1, <3>1
  <2>. HIDE DEF h
  <2>4. h \in Battles /\ h.deaths = g.deaths /\ \A k \in Creatures : h.who[k] = r(k)
    BY <1>0, <2>3 DEF Battles
  <2>5. \A k \in Creatures : h.who[k].health <= MaxHealth[k]
    BY <2>2, <2>4 DEF InOrder
  <2>6. \A k \in Creatures \ dying : Pends(h, k)
    BY <2>2, <2>4 DEF InOrder, Pends
  <2>7. \A k \in Players : MarksFit(h.who[k])
    BY <2>2, <2>4 DEF InOrder, Creatures
  <2>8. \A k \in Creatures : LegalTarget(h, k)
    <3>1. \A k \in Creatures : g.who[k].target \in Creatures \cup {NoOne}
      BY <1>0 DEF Fighters
    <3>2. \A k \in Creatures : /\ h.who[k].inGame = g.who[k].inGame /\ h.who[k].zone = g.who[k].zone
                               /\ h.who[k].target = g.who[k].target
      BY <2>2, <2>4
    <3>. QED BY <3>1, <3>2 DEF InOrder, LegalTarget
  <2>. QED BY <2>4, <2>5, <2>6, <2>7, <2>8 DEF InOrder, h
<1>. QED BY <1>1, <1>2

(* Player::death(): after it the player is not dying any more if it stays  *)
(* in the game; the one that leaves is removed next.                       *)
LEMMA PlayerDiesInOrder ==
  ASSUME CombatAssumption, NEW g, NEW c \in Players, InOrder(g, {c})
  PROVE  InOrder(Death(g, c), {})
<1>0. /\ c \in Creatures /\ g \in Battles /\ g.who[c] \in Fighters /\ MarksFit(g.who[c])
      /\ MaxHealth[c] \in Nat \ {0} /\ c \notin Monsters /\ g = [who |-> g.who, deaths |-> g.deaths]
  BY DEF Creatures, InOrder, Battles, CombatAssumption
<1>1. CASE g.who[c].skillLoss
  <2>. DEFINE hp == IF g.who[c].skull = "black" THEN 1 ELSE MaxHealth[c]
              lost == [g EXCEPT !.who[c].health = hp]
              ended == [lost EXCEPT !.who[c] = EndFight(@)]
  <2>1. Death(g, c) = ended
    BY <1>0, <1>1 DEF Death
  <2>2. hp \in Nat \ {0} /\ hp <= MaxHealth[c]
    BY <1>0
  <2>. HIDE DEF hp
  <2>3. /\ lost \in Battles /\ lost.deaths = g.deaths /\ \A d \in Creatures \ {c} : lost.who[d] = g.who[d]
        /\ lost.who[c] = [g.who[c] EXCEPT !.health = hp]
    BY <1>0, <2>2 DEF Battles, Fighters
  <2>4. MarksFit([g.who[c] EXCEPT !.health = hp])
    BY <1>0 DEF Fighters, MarksFit
  <2>5. /\ lost.who[c] \in Fighters /\ lost.who[c].inGame = g.who[c].inGame /\ lost.who[c].health = hp
        /\ lost.who[c].zone = g.who[c].zone /\ lost.who[c].target = g.who[c].target
    BY <1>0, <2>2, <2>3 DEF Fighters
  <2>. HIDE DEF lost
  <2>8. MarksFit(lost.who[c]) /\ lost.who[c].health > 0 /\ lost.who[c].health <= MaxHealth[c]
    BY <2>2, <2>3, <2>4, <2>5
  <2>6. InOrder(lost, {c} \ {c})
    BY <1>0, <2>3, <2>5, <2>8, HealedInOrder
  <2>7. InOrder(lost, {})
    <3>1. {c} \ {c} = {}
      OBVIOUS
    <3>. QED BY <2>6, <3>1
  <2>. QED BY <2>1, <2>7, FightEndsInOrder
<1>2. CASE ~g.who[c].skillLoss
  <2>. DEFINE ended == [g EXCEPT !.who[c] = EndFight(@)]
              healed == [ended EXCEPT !.who[c].skillLoss = TRUE, !.who[c].health = MaxHealth[c]]
              temple == EnterZone(healed, c, "protection")
  <2>1. Death(g, c) = [temple EXCEPT !.who[c] = OnIdleStatus(@)]
    BY <1>0, <1>2 DEF Death
  <2>2. InOrder(ended, {c})
    BY FightEndsInOrder
  <2>. HIDE DEF ended
  <2>3. ended \in Battles /\ ended.who[c] \in Fighters /\ MarksFit(ended.who[c])
    BY <1>0, <2>2 DEF InOrder, Battles
  <2>4. /\ healed \in Battles /\ healed.deaths = ended.deaths
        /\ \A d \in Creatures \ {c} : healed.who[d] = ended.who[d]
        /\ healed.who[c] = [ended.who[c] EXCEPT !.skillLoss = TRUE, !.health = MaxHealth[c]]
    BY <1>0, <2>3 DEF Battles, Fighters
  <2>5. MarksFit([ended.who[c] EXCEPT !.skillLoss = TRUE, !.health = MaxHealth[c]])
    BY <2>3 DEF Fighters, MarksFit
  <2>. HIDE DEF healed
  <2>6. /\ healed.who[c].inGame = ended.who[c].inGame /\ healed.who[c].health = MaxHealth[c]
        /\ healed.who[c].zone = ended.who[c].zone /\ healed.who[c].target = ended.who[c].target
    BY <2>3, <2>4 DEF Fighters
  <2>13. MarksFit(healed.who[c]) /\ healed.who[c].health > 0 /\ healed.who[c].health <= MaxHealth[c]
    BY <1>0, <2>4, <2>5, <2>6
  <2>7. InOrder(healed, {c} \ {c})
    BY <1>0, <2>2, <2>4, <2>6, <2>13, HealedInOrder
  <2>8. InOrder(healed, {})
    <3>1. {c} \ {c} = {}
      OBVIOUS
    <3>. QED BY <2>7, <3>1
  <2>9. InOrder(temple, {})
    <3>1. "protection" \in Zones
      BY DEF CombatAssumption
    <3>. QED BY <1>0, <2>8, <3>1, ZoneInOrder
  <2>. HIDE DEF temple
  <2>10. temple \in Battles /\ temple.who[c] \in Fighters /\ MarksFit(temple.who[c])
    BY <1>0, <2>9 DEF InOrder, Battles
  <2>11. /\ Touches(temple, [temple EXCEPT !.who[c] = OnIdleStatus(temple.who[c])], c)
         /\ MarksFit([temple EXCEPT !.who[c] = OnIdleStatus(temple.who[c])].who[c])
    BY <1>0, <2>10, IdleFits, SwapTouches DEF MarksFit
  <2>12. [temple EXCEPT !.who[c] = OnIdleStatus(@)] = [temple EXCEPT !.who[c] = OnIdleStatus(temple.who[c])]
    OBVIOUS
  <2>. QED BY <1>0, <2>1, <2>9, <2>11, <2>12, TouchKeepsOrder
<1>. QED BY <1>1, <1>2

(* After the death it is about, a task executeDeath() leaves nobody dying. *)
LEMMA DeathInOrder ==
  ASSUME CombatAssumption, NEW g, NEW c \in Creatures, InOrder(g, {c}), NEW most \in Creatures \cup {NoOne}, NEW many
  PROVE  InOrder(OnDeath(g, c, most, many), {})
<1>. DEFINE lastHit == g.who[c].lastHit
            killed == IF lastHit = NoOne THEN g ELSE OnKilledCreature(g, lastHit, c, TRUE, many)
            shared == RemoveAttacked(killed, c)
            blamed == IF most \in {NoOne, lastHit} THEN shared
                      ELSE OnKilledCreature(shared, most, c, FALSE, many)
            dead == Death(blamed, c)
<1>1. OnDeath(g, c, most, many) = IF DropCorpse(g, c, lastHit) THEN RemoveCreature(dead, c) ELSE dead
  BY DEF OnDeath
<1>2. lastHit \in Creatures \cup {NoOne}
  BY DEF InOrder, Battles, Fighters
<1>. HIDE DEF lastHit
<1>3. InOrder(killed, {c})
  BY <1>2, KillInOrder
<1>. HIDE DEF killed
<1>4. InOrder(shared, {c})
  BY <1>3, ForgivenInOrder
<1>. HIDE DEF shared
<1>5. InOrder(blamed, {c})
  BY <1>4, KillInOrder
<1>. HIDE DEF blamed
<1>6. CASE c \in Monsters
  <2>1. dead = blamed
    BY <1>6 DEF Death, CombatAssumption
  <2>2. DropCorpse(g, c, lastHit)
    BY <1>6 DEF DropCorpse, CombatAssumption
  <2>3. InOrder(RemoveCreature(blamed, c), {c} \ {c})
    BY <1>5, RemovalInOrder
  <2>4. {c} \ {c} = {}
    OBVIOUS
  <2>. QED BY <1>1, <2>1, <2>2, <2>3, <2>4
<1>7. CASE c \in Players
  <2>1. InOrder(dead, {})
    BY <1>5, <1>7, PlayerDiesInOrder
  <2>. HIDE DEF dead
  <2>2. InOrder(RemoveCreature(dead, c), {} \ {c})
    BY <2>1, RemovalInOrder
  <2>3. {} \ {c} = {}
    OBVIOUS
  <2>. QED BY <1>1, <2>1, <2>2, <2>3
<1>. QED BY <1>6, <1>7 DEF Creatures

(* What every task finds and leaves. *)
CombatInv == InOrder(game, {}) /\ Len(deaths) <= MaxDeaths

(* The invariant says what the run checks. *)
LEMMA CombatInvGives ==
  ASSUME CombatAssumption, CombatInv
  PROVE  CombatAgrees
<1>0. game.who = who /\ game.deaths = deaths
  BY DEF game
<1>1. /\ who \in [Creatures -> Fighters] /\ deaths \in Seq(Creatures \cup {NoOne})
  BY <1>0 DEF CombatInv, InOrder, Battles
<1>2. CombatTypeOK
  BY <1>0, <1>1 DEF CombatInv, InOrder, CombatTypeOK, Fighters
<1>3. DeathIsPending
  BY <1>0 DEF CombatInv, InOrder, Pends, DeathIsPending
<1>4. MarksEndWithFight
  BY <1>0 DEF CombatInv, InOrder, MarksFit, MarksEndWithFight
<1>5. TargetsAreLegal
  BY <1>0 DEF CombatInv, InOrder, LegalTarget, TargetsAreLegal
<1>. QED BY <1>2, <1>3, <1>4, <1>5 DEF CombatAgrees

(* A step to a battle in order keeps the invariant. *)
LEMMA FollowsInOrder ==
  ASSUME NEW h, InOrder(h, {}), Follows(h)
  PROVE  CombatInv'
<1>1. h = [who |-> h.who, deaths |-> h.deaths]
  BY DEF InOrder, Battles
<1>2. game' = h /\ Len(deaths') <= MaxDeaths
  BY <1>1 DEF Follows, game
<1>. QED BY <1>2 DEF CombatInv, InOrder, Battles, Pends, MarksFit, LegalTarget, BothPlayers

(* When the server starts, nobody fights. *)
LEMMA CombatStarts ==
  ASSUME CombatAssumption, CombatInit
  PROVE  CombatInv
<1>1. PICK zone \in Zones, present \in SUBSET Creatures :
        who = [c \in Creatures |-> IF c \in present THEN PlacedIn(Unhurt(c), zone) ELSE Unhurt(c)]
  BY DEF CombatInit
<1>2. game.who = who /\ game.deaths = <<>> /\ deaths = <<>>
  BY DEF CombatInit, game
<1>3. ASSUME NEW c \in Creatures
      PROVE  /\ who[c] \in Fighters /\ who[c].health = MaxHealth[c] /\ MaxHealth[c] \in Nat \ {0}
             /\ who[c].target = NoOne /\ MarksFit(who[c])
  <2>1. MaxHealth[c] \in Nat \ {0} /\ "protection" \in Zones
    BY DEF CombatAssumption
  <2>2. /\ Unhurt(c) \in Fighters /\ Unhurt(c).health = MaxHealth[c] /\ Unhurt(c).target = NoOne
        /\ ~Unhurt(c).pzLocked /\ Unhurt(c).skull = "none" /\ Unhurt(c).attacked = {}
    BY <2>1 DEF Unhurt, Fighters
  <2>. DEFINE u == Unhurt(c)
              r == [u EXCEPT !.inGame = TRUE, !.zone = zone]
  <2>3. who[c] = r \/ who[c] = u
    BY <1>1 DEF PlacedIn
  <2>. HIDE DEF u
  <2>4. u \in Fighters /\ u.health = MaxHealth[c] /\ u.target = NoOne
        /\ ~u.pzLocked /\ u.skull = "none" /\ u.attacked = {}
    BY <2>2 DEF u
  <2>5. r \in Fighters /\ r.health = MaxHealth[c] /\ r.target = NoOne
        /\ ~r.pzLocked /\ r.skull = "none" /\ r.attacked = {}
    BY <2>4 DEF Fighters
  <2>. HIDE DEF r
  <2>. QED BY <2>1, <2>3, <2>4, <2>5 DEF MarksFit
<1>4. game \in Battles
  BY <1>1, <1>2, <1>3 DEF game, Battles
<1>5. \A c \in Creatures : game.who[c].health <= MaxHealth[c] /\ Pends(game, c) /\ LegalTarget(game, c)
  BY <1>2, <1>3 DEF Pends, LegalTarget
<1>6. \A c \in Players : MarksFit(game.who[c])
  BY <1>2, <1>3 DEF Creatures
<1>7. Len(deaths) <= MaxDeaths
  BY <1>2 DEF CombatAssumption
<1>. QED BY <1>4, <1>5, <1>6, <1>7 DEF CombatInv, InOrder

(* A blow is an amount of damage. *)
LEMMA BlowsAreHard ==
  ASSUME CombatAssumption, NEW t \in Creatures, NEW blow \in Blows(t)
  PROVE  blow.damage \in Nat
BY DEF Blows, CombatAssumption

(* Every task leaves the fights in order: targets, weapons, spells, areas, *)
(* conditions, healing, zones, deaths, logouts, saves and logins.          *)
LEMMA OrderKept ==
  ASSUME CombatAssumption, CombatInv, [CombatNext]_combatVars
  PROVE  CombatInv'
<1>0. /\ InOrder(game, {}) /\ game.who = who /\ game.deaths = deaths
      /\ \A c \in Creatures : who[c] \in Fighters /\ MaxHealth[c] \in Nat \ {0}
  BY DEF CombatInv, game, InOrder, Battles, CombatAssumption
<1>00. Players \subseteq Creatures /\ Monsters \subseteq Creatures /\ NoOne \notin Creatures
       /\ Players \cap Monsters = {}
  BY DEF Creatures, CombatAssumption
<1>1. CASE PlayerSetAttackedCreature
  <2>1. PICK p \in Players, t \in Creatures \cup {NoOne}, secureMode \in BOOLEAN :
          /\ who[p].inGame
          /\ LET found == t # NoOne /\ who[t].inGame /\ CanTargetCreature(game, p, t, secureMode)
             IN Follows(SetAttackedCreature(game, p, IF found THEN t ELSE NoOne))
    BY <1>1 DEF PlayerSetAttackedCreature
  <2>. DEFINE found == t # NoOne /\ who[t].inGame /\ CanTargetCreature(game, p, t, secureMode)
              x == IF found THEN t ELSE NoOne
  <2>2. p \in Creatures /\ x \in Creatures \cup {NoOne} /\ Follows(SetAttackedCreature(game, p, x))
    BY <2>1, <1>00
  <2>3. x # NoOne => /\ x # p /\ game.who[p].inGame /\ game.who[x].inGame
                     /\ game.who[p].zone # "protection" /\ game.who[x].zone # "protection"
                     /\ BothPlayers(p, x) => game.who[x].zone # "nopvp"
    BY <2>1, <1>0 DEF CanTargetCreature, ZonesAllow, BothPlayers
  <2>. HIDE DEF x
  <2>. QED BY <1>0, <2>2, <2>3, TargetInOrder, FollowsInOrder
<1>2. CASE MonsterSetTarget
  <2>1. PICK n \in Monsters, t \in Players \cup {NoOne} :
          /\ Alive(n)
          /\ t # NoOne => who[t].inGame /\ who[t].zone # "protection" /\ who[n].zone # "protection"
          /\ Follows(SetAttackedCreature(game, n, t))
    BY <1>2 DEF MonsterSetTarget
  <2>2. t # NoOne => /\ t # n /\ game.who[n].inGame /\ game.who[t].inGame
                     /\ game.who[n].zone # "protection" /\ game.who[t].zone # "protection"
                     /\ BothPlayers(n, t) => game.who[t].zone # "nopvp"
    BY <1>0, <1>00, <2>1 DEF BothPlayers, Alive
  <2>. QED BY <1>0, <1>00, <2>1, <2>2, TargetInOrder, FollowsInOrder
<1>3. CASE PlayerAttacks
  <2>1. PICK p \in Players : Alive(p) /\ who[p].target # NoOne /\
          \E blow \in Blows(who[p].target), cost \in {0, 1}, leech \in BOOLEAN :
            LET hit == DoTargetCombat(game, p, who[p].target, blow)
                g == IF leech THEN GainHealth(hit, NoOne, p) ELSE hit
            IN  Follows(IF cost = 0 THEN g ELSE OnUsedWeapon(g, p, cost))
    BY <1>3 DEF PlayerAttacks
  <2>. DEFINE t == who[p].target
  <2>2. PICK blow \in Blows(t), cost \in {0, 1}, leech \in BOOLEAN :
            LET hit == DoTargetCombat(game, p, t, blow)
                g == IF leech THEN GainHealth(hit, NoOne, p) ELSE hit
            IN  Follows(IF cost = 0 THEN g ELSE OnUsedWeapon(g, p, cost))
    BY <2>1
  <2>3. p \in Creatures /\ t \in Creatures /\ t # p /\ p # NoOne /\ who[p].health \in Nat /\ who[p].health > 0
    BY <1>0, <1>00, <2>1 DEF Fighters, InOrder, LegalTarget, Alive
  <2>. HIDE DEF t
  <2>. DEFINE hit == DoTargetCombat(game, p, t, blow)
              g == IF leech THEN GainHealth(hit, NoOne, p) ELSE hit
  <2>4. InOrder(hit, {}) /\ hit.who[p].health = who[p].health
    BY <1>0, <2>2, <2>3, BlowsAreHard, BlowInOrder
  <2>8. Follows(IF cost = 0 THEN g ELSE OnUsedWeapon(g, p, cost))
    BY <2>2
  <2>. HIDE DEF hit
  <2>5. InOrder(g, {}) /\ g.who[p].health > 0
    BY <2>3, <2>4, GainInOrder
  <2>. HIDE DEF g
  <2>6. InOrder(ChangeHealth(g, p, g.who[p].health - cost), {})
    <3>1. g.who[p].health \in Nat /\ g.who[p].health <= MaxHealth[p] /\ MaxHealth[p] \in Nat
      BY <1>0, <2>3, <2>5 DEF InOrder, Battles, Fighters
    <3>2. g.who[p].health - cost \in 0..MaxHealth[p]
      BY <3>1, <2>2, <2>5
    <3>. QED BY <2>3, <2>5, <3>2, HealthInOrder
  <2>. QED BY <2>5, <2>6, <2>8, FollowsInOrder DEF OnUsedWeapon
<1>4. CASE MonsterAttacks
  <2>1. PICK n \in Monsters : who[n].target # NoOne /\
          \E blow \in Blows(who[n].target) : Follows(DoTargetCombat(game, n, who[n].target, blow))
    BY <1>4 DEF MonsterAttacks
  <2>2. n \in Creatures /\ who[n].target \in Creatures
    BY <1>0, <1>00, <2>1 DEF Fighters
  <2>. QED BY <1>0, <2>1, <2>2, BlowsAreHard, BlowInOrder, FollowsInOrder
<1>5. CASE CastAtTarget
  BY <1>0, <1>5, BlowsAreHard, BlowInOrder, FollowsInOrder DEF CastAtTarget
<1>6. CASE CastAtArea
  <2>5. PICK a \in Creatures : \E area \in SUBSET {t \in Creatures \ {a} : who[t].inGame} :
          LET hit == {t \in area : TileAllowsCombat(who[t].zone) /\ CanDoCombat(game, a, t)}
          IN  \E blow \in UNION {Blows(t) : t \in hit} : Follows(DoAreaCombat(game, a, hit, blow))
    BY <1>6 DEF CastAtArea
  <2>1. PICK area \in SUBSET {t \in Creatures \ {a} : who[t].inGame} :
          LET hit == {t \in area : TileAllowsCombat(who[t].zone) /\ CanDoCombat(game, a, t)}
          IN  \E blow \in UNION {Blows(t) : t \in hit} : Follows(DoAreaCombat(game, a, hit, blow))
    BY <2>5
  <2>. DEFINE hit == {t \in area : TileAllowsCombat(who[t].zone) /\ CanDoCombat(game, a, t)}
  <2>2. hit \in SUBSET Creatures /\ \E blow \in UNION {Blows(t) : t \in hit} : Follows(DoAreaCombat(game, a, hit, blow))
    BY <2>1
  <2>. HIDE DEF hit
  <2>3. PICK blow \in UNION {Blows(t) : t \in hit} : Follows(DoAreaCombat(game, a, hit, blow))
    BY <2>2
  <2>4. blow.damage \in Nat
    BY <2>2, BlowsAreHard
  <2>. QED BY <1>0, <2>2, <2>3, <2>4, AreaInOrder, FollowsInOrder
<1>7. CASE ConditionDamage
  BY <1>0, <1>7, BlowsAreHard, BlowInOrder, FollowsInOrder DEF ConditionDamage
<1>8. CASE Heal
  BY <1>0, <1>8, GainInOrder, FollowsInOrder DEF Heal
<1>9. CASE ChangeZone
  BY <1>0, <1>9, ZoneInOrder, FollowsInOrder DEF ChangeZone
<1>10. CASE FightEnds
  <2>1. PICK p \in Players : Follows([game EXCEPT !.who[p] = EndFight(@)])
    BY <1>10 DEF FightEnds
  <2>2. [game EXCEPT !.who[p] = EndFight(@)] = [game EXCEPT !.who[p] = EndFight(game.who[p])]
    OBVIOUS
  <2>3. InOrder([game EXCEPT !.who[p] = EndFight(game.who[p])], {})
    BY <1>0, FightEndsInOrder
  <2>. QED BY <2>1, <2>2, <2>3, FollowsInOrder
<1>11. CASE CheckSkullTicks
  <2>1. PICK p \in Players : Follows([game EXCEPT !.who[p].skull = "none"])
    BY <1>11 DEF CheckSkullTicks
  <2>. DEFINE h == [game EXCEPT !.who[p].skull = "none"]
  <2>2. p \in Creatures /\ game \in Battles /\ game.who[p] \in Fighters /\ MarksFit(game.who[p])
    BY <1>0, <1>00 DEF InOrder
  <2>3. Touches(game, h, p) /\ h.who[p] = [game.who[p] EXCEPT !.skull = "none"]
    BY <2>2, SmallTouches
  <2>4. MarksFit([game.who[p] EXCEPT !.skull = "none"])
    BY <2>2 DEF MarksFit, Fighters
  <2>5. InOrder(h, {})
    <3>. HIDE DEF h
    <3>. QED BY <1>0, <2>2, <2>3, <2>4, TouchKeepsOrder
  <2>. QED BY <2>1, <2>5, FollowsInOrder
<1>12. CASE ExecuteDeath
  <2>. DEFINE c == Head(deaths)
              rest == [game EXCEPT !.deaths = Tail(@)]
  <2>1. /\ deaths # <<>>
        /\ IF c = NoOne THEN Follows(rest)
           ELSE \E most \in who[c].damage \cup {NoOne}, many \in BOOLEAN : Follows(OnDeath(rest, c, most, many))
    BY <1>12 DEF ExecuteDeath
  <2>2. /\ deaths \in Seq(Creatures \cup {NoOne}) /\ c \in Creatures \cup {NoOne}
        /\ Tail(deaths) \in Seq(Creatures \cup {NoOne})
    <3>1. deaths \in Seq(Creatures \cup {NoOne})
      BY <1>0 DEF InOrder, Battles
    <3>. QED BY <2>1, <3>1
  <2>3. rest.who = who /\ rest.deaths = Tail(deaths) /\ rest \in Battles
    <3>1. rest = [who |-> who, deaths |-> Tail(deaths)] /\ who \in [Creatures -> Fighters]
      <4>1. game = [who |-> who, deaths |-> deaths] /\ who \in [Creatures -> Fighters]
        BY <1>0 DEF game, InOrder, Battles
      <4>2. rest = [game EXCEPT !.deaths = Tail(deaths)]
        BY <1>0
      <4>. HIDE DEF rest
      <4>. QED BY <4>1, <4>2
    <3>. HIDE DEF rest
    <3>. QED BY <2>2, <3>1 DEF Battles
  <2>4. ASSUME NEW d \in Creatures \ {c} PROVE Pends(rest, d)
    <3>1. Pends(game, d)
      BY <1>0 DEF InOrder
    <3>2. ASSUME NEW i \in DOMAIN deaths, deaths[i] = d
          PROVE  \E j \in DOMAIN rest.deaths : rest.deaths[j] = d
      <4>1. i # 1 /\ i \in 1..Len(deaths) /\ Len(deaths) \in Nat
        BY <2>2, <3>2
      <4>2. i - 1 \in 1..Len(Tail(deaths)) /\ Tail(deaths)[i - 1] = deaths[i]
        BY <2>1, <2>2, <4>1
      <4>. HIDE DEF rest
      <4>. QED BY <2>2, <2>3, <3>2, <4>2
    <3>. HIDE DEF rest
    <3>. QED BY <1>0, <2>3, <3>1, <3>2 DEF Pends
  <2>5. InOrder(rest, {c})
    <3>. HIDE DEF rest
    <3>1. \A d \in Creatures : LegalTarget(rest, d)
      BY <1>0, <2>3 DEF InOrder, LegalTarget
    <3>. QED BY <1>0, <2>3, <2>4, <3>1 DEF InOrder
  <2>. HIDE DEF rest
  <2>6. CASE c = NoOne
    <3>1. InOrder(rest, {})
      BY <1>00, <2>4, <2>5, <2>6 DEF InOrder
    <3>. QED BY <2>1, <2>6, <3>1, FollowsInOrder
  <2>7. CASE c # NoOne
    <3>1. c \in Creatures /\ who[c].damage \subseteq Creatures
      BY <1>0, <2>2, <2>7 DEF Fighters
    <3>. HIDE DEF c
    <3>. QED BY <2>1, <2>5, <2>7, <3>1, DeathInOrder, FollowsInOrder
  <2>. QED BY <2>6, <2>7
<1>13. CASE Logout
  <2>1. PICK p \in Players : Follows(RemoveCreature(game, p))
    BY <1>13 DEF Logout
  <2>2. {} \ {p} = {}
    OBVIOUS
  <2>3. InOrder(RemoveCreature(game, p), {} \ {p})
    BY <1>0, <1>00, RemovalInOrder
  <2>. QED BY <2>1, <2>2, <2>3, FollowsInOrder
<1>14. CASE SavePlayers
  <2>. DEFINE r(c) == IF c \in Players /\ who[c].inGame /\ who[c].health = 0
                      THEN [who[c] EXCEPT !.health = 1] ELSE who[c]
              w == [c \in Creatures |-> r(c)]
              h == [game EXCEPT !.who = w]
  <2>1. Follows(h)
    BY <1>14 DEF SavePlayers
  <2>2. ASSUME NEW c \in Creatures
        PROVE  /\ r(c) \in Fighters /\ r(c).inGame = who[c].inGame /\ r(c).zone = who[c].zone
               /\ r(c).target = who[c].target /\ r(c).health <= MaxHealth[c]
               /\ r(c).health = 0 => who[c].health = 0
               /\ MarksFit(who[c]) => MarksFit(r(c))
    <3>1. who[c].health <= MaxHealth[c]
      BY <1>0 DEF InOrder
    <3>2. CASE r(c) = who[c]
      BY <1>0, <3>1, <3>2
    <3>3. CASE r(c) = [who[c] EXCEPT !.health = 1]
      <4>. DEFINE s == [who[c] EXCEPT !.health = 1]
      <4>1. /\ s \in Fighters /\ s.inGame = who[c].inGame /\ s.zone = who[c].zone
            /\ s.target = who[c].target /\ s.health = 1
        BY <1>0 DEF Fighters
      <4>2. MarksFit(who[c]) => MarksFit(s)
        BY <1>0 DEF Fighters, MarksFit
      <4>3. 1 <= MaxHealth[c]
        BY <1>0
      <4>. HIDE DEF s
      <4>. QED BY <3>3, <4>1, <4>2, <4>3 DEF s
    <3>. QED BY <3>2, <3>3
  <2>. HIDE DEF r
  <2>3. h = [who |-> w, deaths |-> deaths] /\ w \in [Creatures -> Fighters]
    <3>1. w \in [Creatures -> Fighters]
      BY <2>2
    <3>. HIDE DEF w
    <3>. QED BY <3>1 DEF game
  <2>. HIDE DEF h
  <2>4. h \in Battles /\ h.deaths = deaths /\ \A c \in Creatures : h.who[c] = r(c)
    BY <1>0, <2>3 DEF InOrder, Battles
  <2>5. \A c \in Creatures : h.who[c].health <= MaxHealth[c] /\ Pends(h, c)
    BY <1>0, <2>2, <2>4 DEF InOrder, Pends
  <2>6. \A c \in Players : MarksFit(h.who[c])
    BY <1>0, <1>00, <2>2, <2>4 DEF InOrder
  <2>7. \A c \in Creatures : LegalTarget(h, c)
    <3>1. \A c \in Creatures : who[c].target \in Creatures \cup {NoOne}
      BY <1>0 DEF Fighters
    <3>2. \A c \in Creatures : /\ h.who[c].inGame = who[c].inGame /\ h.who[c].zone = who[c].zone
                               /\ h.who[c].target = who[c].target
      BY <2>2, <2>4
    <3>. QED BY <1>0, <3>1, <3>2 DEF InOrder, LegalTarget
  <2>8. InOrder(h, {})
    BY <2>4, <2>5, <2>6, <2>7 DEF InOrder
  <2>. QED BY <2>1, <2>8, FollowsInOrder
<1>15. CASE Login
  <2>1. PICK c \in Creatures, zone \in Zones :
          /\ ~who[c].inGame
          /\ Follows([game EXCEPT !.who[c] = PlacedIn(IF c \in Players THEN @ ELSE Unhurt(c), zone)])
    BY <1>15 DEF Login
  <2>. DEFINE b == IF c \in Players THEN game.who[c] ELSE Unhurt(c)
              r == [b EXCEPT !.inGame = TRUE, !.zone = zone]
              h == [game EXCEPT !.who[c] = r]
  <2>2. Follows(h)
    BY <2>1 DEF PlacedIn
  <2>3. /\ b \in Fighters /\ b.target = NoOne /\ b.health <= MaxHealth[c]
        /\ b.health = 0 => who[c].health = 0
        /\ c \in Players => MarksFit(b)
    <3>1. CASE c \in Players
      BY <1>0, <2>1, <3>1 DEF InOrder, LegalTarget
    <3>2. CASE c \notin Players
      <4>1. "protection" \in Zones /\ MaxHealth[c] \in Nat \ {0}
        BY <1>0 DEF CombatAssumption
      <4>2. Unhurt(c) \in Fighters /\ Unhurt(c).target = NoOne /\ Unhurt(c).health = MaxHealth[c]
        BY <4>1 DEF Unhurt, Fighters
      <4>. QED BY <3>2, <4>1, <4>2
    <3>. QED BY <3>1, <3>2
  <2>. HIDE DEF b
  <2>4. /\ r \in Fighters /\ r.inGame /\ r.target = NoOne /\ r.health = b.health
        /\ MarksFit(b) => MarksFit(r)
    BY <2>3 DEF Fighters, MarksFit
  <2>. HIDE DEF r
  <2>5. /\ h \in Battles /\ h.deaths = deaths /\ h.who[c] = r /\ \A d \in Creatures \ {c} : h.who[d] = who[d]
    BY <1>0, <2>4, RecordChange DEF InOrder
  <2>. HIDE DEF h
  <2>6. \A d \in Creatures : h.who[d].health <= MaxHealth[d]
    BY <1>0, <2>3, <2>4, <2>5 DEF InOrder
  <2>7. \A d \in Creatures : Pends(h, d)
    BY <1>0, <2>3, <2>4, <2>5 DEF InOrder, Pends
  <2>8. \A d \in Players : MarksFit(h.who[d])
    BY <1>0, <1>00, <2>3, <2>4, <2>5 DEF InOrder
  <2>9. ASSUME NEW d \in Creatures PROVE LegalTarget(h, d)
    <3>1. CASE d = c
      BY <2>4, <2>5, <3>1 DEF LegalTarget
    <3>2. CASE d # c
      <4>1. LegalTarget(game, d) /\ h.who[d] = who[d] /\ who[d].target \in Creatures \cup {NoOne}
        BY <1>0, <2>5, <3>2 DEF InOrder, Fighters
      <4>2. who[d].target # NoOne => who[d].target # c
        BY <1>0, <2>1, <4>1 DEF LegalTarget
      <4>. QED BY <1>0, <2>5, <4>1, <4>2 DEF LegalTarget
    <3>. QED BY <3>1, <3>2
  <2>10. InOrder(h, {})
    BY <2>5, <2>6, <2>7, <2>8, <2>9 DEF InOrder
  <2>. QED BY <2>2, <2>10, FollowsInOrder
<1>16. CASE UNCHANGED combatVars
  BY <1>16 DEF combatVars, CombatInv, game, InOrder, Battles, Pends, MarksFit, LegalTarget
<1>. QED BY <1>1, <1>2, <1>3, <1>4, <1>5, <1>6, <1>7, <1>8, <1>9, <1>10, <1>11, <1>12, <1>13,
            <1>14, <1>15, <1>16 DEF CombatNext

(* Whatever fights, heals, walks, dies, leaves, is saved and comes back,   *)
(* in any number and any order, and whatever the health of each: one       *)
(* without health has its executeDeath() in the queue, pz-lock, white      *)
(* skull and attackedSet end with the in-fight condition, and an automatic *)
(* attack has a legal target (game.cpp, creature.cpp, player.cpp,          *)
(* combat.cpp).                                                            *)
THEOREM FightsStayInOrder ==
  ASSUME CombatAssumption
  PROVE  CombatSpec => []CombatAgrees
<1>1. CombatInit => CombatInv
  BY CombatStarts
<1>2. CombatInv /\ [CombatNext]_combatVars => CombatInv'
  BY OrderKept
<1>3. CombatInv => CombatAgrees
  BY CombatInvGives
<1>. QED BY <1>1, <1>2, <1>3, PTL DEF CombatSpec

-----------------------------------------------------------------------------
(* Spawn.                                                                  *)

(* spawnedMap holds a count of every kind under every key. *)
Counts(sp) == /\ sp = [i \in BlockIds |-> sp[i]]
              /\ \A i \in BlockIds : sp[i] = [k \in Kinds |-> sp[i][k]] /\ sp[i].dead \in Nat
              /\ \A b \in Blocks : sp[b].home \in Nat /\ sp[b].away \in Nat

(* What a block of the spawn has, and what the event that runs owes it: a *)
(* block whose monster is to appear has none.                             *)
SpawnInv ==
  /\ Counts(spawned)
  /\ \A b \in Blocks : spawned[b].home + spawned[b].away <= 1
  /\ effects \subseteq Blocks /\ due \subseteq Blocks
  /\ \A b \in effects : spawned[b].home = 0 /\ spawned[b].away = 0
  /\ \A i \in BlockIds : spawned[i].dead > 0 => checkEvent

(* Under one key, the number of one kind changes. *)
Recounts(h, sp, i, k, n) == h = [sp EXCEPT ![i][k] = n]

(* That count has changed, the others have not. *)
OneChanged(h, sp, i, k, n) ==
  /\ Counts(h) /\ h[i][k] = n
  /\ \A l \in Kinds \ {k} : h[i][l] = sp[i][l]
  /\ \A j \in BlockIds \ {i} : h[j] = sp[j]

(* Every operation of spawnedMap but the cleanup changes one count at a    *)
(* time: all the others stay.                                              *)
LEMMA OneCount ==
  ASSUME SpawnAssumption, NEW sp, Counts(sp), NEW i \in BlockIds, NEW k \in Kinds, NEW n,
         k = "dead" \/ i \in Blocks => n \in Nat,
         NEW h, Recounts(h, sp, i, k, n)
  PROVE  OneChanged(h, sp, i, k, n)
<1>. DEFINE r == [sp[i] EXCEPT ![k] = n]
<1>1. h = [sp EXCEPT ![i] = r]
  BY DEF Counts, Recounts
<1>2. r = [l \in Kinds |-> IF l = k THEN n ELSE sp[i][l]]
  BY DEF Counts
<1>. HIDE DEF r
<1>3. h = [j \in BlockIds |-> IF j = i THEN r ELSE sp[j]]
  BY <1>1 DEF Counts
<1>4. h[i] = r /\ \A j \in BlockIds \ {i} : h[j] = sp[j]
  BY <1>3
<1>5. h = [j \in BlockIds |-> h[j]]
  BY <1>3
<1>6. \A j \in BlockIds : h[j] = [l \in Kinds |-> h[j][l]]
  BY <1>2, <1>4 DEF Counts
<1>7. h[i][k] = n /\ \A l \in Kinds \ {k} : h[i][l] = sp[i][l]
  BY <1>2, <1>4
<1>8. Counts(h)
  <2>1. Blocks \subseteq BlockIds
    BY DEF Blocks, BlockIds, SpawnAssumption
  <2>. QED BY <1>4, <1>5, <1>6, <1>7, <2>1 DEF Counts, Kinds
<1>. QED BY <1>4, <1>7, <1>8 DEF OneChanged

(* The first of the blocks that are due is one of them. *)
LEMMA FirstIsOne ==
  ASSUME SpawnAssumption, NEW S, S \subseteq Blocks, S # {}
  PROVE  Min(S) \in S
<1>. DEFINE R == OpToRel(<, Nat)
<1>1. IsWellFoundedOn(R, Nat)
  BY NatLessThanWellFounded
<1>5. S \subseteq Nat
  BY DEF Blocks, SpawnAssumption
<1>2. \A x, y \in Nat : <<x, y>> \in R <=> x < y
  BY DEF OpToRel
<1>. HIDE DEF R
<1>3. PICK n \in S : \A k \in S : ~(<<k, n>> \in R)
  BY <1>1, <1>5, WFMin
<1>4. ASSUME NEW k \in S PROVE n <= k
  <2>1. n \in Nat /\ k \in Nat /\ ~(k < n)
    BY <1>2, <1>3, <1>5
  <2>. QED BY <2>1
<1>. QED BY <1>4 DEF Min

(* cleanup(): no count is lost at home, and no dead one is left. *)
LEMMA CleanupCounts ==
  ASSUME SpawnAssumption, NEW sp, Counts(sp)
  PROVE  LET h == Cleanup(sp)
         IN  /\ Counts(h) /\ \A i \in BlockIds : h[i].dead = 0
             /\ \A b \in Blocks : h[b].home = sp[b].home /\ h[b].away = 0
<1>. DEFINE strays == MapThenSumSet(LAMBDA b : sp[b].away, Blocks)
            first == [Nothing EXCEPT !.away = sp[0].away + strays]
            other(i) == [Nothing EXCEPT !.home = sp[i].home]
            h == Cleanup(sp)
<1>1. h = [i \in BlockIds |-> IF i = 0 THEN first ELSE other(i)]
  BY DEF Cleanup
<1>. HIDE DEF strays
<1>2. first = [k \in Kinds |-> IF k = "away" THEN sp[0].away + strays ELSE 0]
  BY DEF Nothing, Kinds
<1>3. \A i \in BlockIds : other(i) = [k \in Kinds |-> IF k = "home" THEN sp[i].home ELSE 0]
  BY DEF Nothing, Kinds
<1>. HIDE DEF first, other, h
<1>4. \A i \in BlockIds : h[i] = IF i = 0 THEN first ELSE other(i)
  BY <1>1
<1>5. \A i \in BlockIds : h[i] = [k \in Kinds |-> h[i][k]]
  BY <1>2, <1>3, <1>4 DEF Kinds
<1>10. \A i \in BlockIds : h[i].dead = 0
  BY <1>2, <1>3, <1>4 DEF Kinds
<1>6. Blocks \subseteq BlockIds /\ 0 \notin Blocks
  BY DEF Blocks, BlockIds, SpawnAssumption
<1>7. \A b \in Blocks : h[b].home = sp[b].home /\ h[b].away = 0
  BY <1>3, <1>4, <1>6 DEF Kinds
<1>8. h = [i \in BlockIds |-> h[i]]
  BY <1>1
<1>9. Counts(h)
  <2>1. \A b \in Blocks : h[b].home \in Nat /\ h[b].away \in Nat
    BY <1>7 DEF Counts
  <2>2. \A i \in BlockIds : h[i].dead \in Nat
    BY <1>10
  <2>. QED BY <1>5, <1>8, <2>1, <2>2 DEF Counts
<1>. QED BY <1>10, <1>7, <1>9 DEF h

(* Spawn::startup(): at most one monster per block. *)
LEMMA SpawnStarts ==
  ASSUME SpawnAssumption, SpawnInit
  PROVE  SpawnInv
<1>1. PICK failed \in SUBSET Blocks :
        spawned = [i \in BlockIds |-> IF i \in Blocks \ failed THEN [Nothing EXCEPT !.home = 1] ELSE Nothing]
  BY DEF SpawnInit
<1>2. /\ Nothing = [k \in Kinds |-> 0]
      /\ [Nothing EXCEPT !.home = 1] = [k \in Kinds |-> IF k = "home" THEN 1 ELSE 0]
  BY DEF Nothing, Kinds
<1>3. \A i \in BlockIds : spawned[i].dead = 0 /\ spawned[i].away = 0 /\ spawned[i].home \in {0, 1}
  BY <1>1, <1>2 DEF Kinds
<1>9. \A i \in BlockIds : spawned[i] = [k \in Kinds |-> spawned[i][k]]
  BY <1>1, <1>2 DEF Kinds
<1>4. spawned = [i \in BlockIds |-> spawned[i]]
  BY <1>1
<1>5. Blocks \subseteq BlockIds
  BY DEF Blocks, BlockIds, SpawnAssumption
<1>6. Counts(spawned)
  BY <1>3, <1>4, <1>5, <1>9 DEF Counts
<1>7. \A b \in Blocks : spawned[b].home + spawned[b].away <= 1
  BY <1>3, <1>5
<1>8. \A i \in BlockIds : ~(spawned[i].dead > 0)
  BY <1>3
<1>. QED BY <1>6, <1>7, <1>8 DEF SpawnInv, SpawnInit

(* Every event of the spawn: its check, the end of the teleport effects,   *)
(* the monsters' ways and deaths.                                          *)
LEMMA SpawnKeeps ==
  ASSUME SpawnAssumption, SpawnInv, [SpawnNext]_spawnVars
  PROVE  SpawnInv'
<1>0. /\ Blocks \subseteq BlockIds /\ Counts(spawned) /\ effects \subseteq Blocks /\ due \subseteq Blocks
      /\ {"home", "away", "dead"} \subseteq Kinds /\ Kinds \subseteq {"home", "away", "dead"}
  BY DEF Blocks, BlockIds, SpawnAssumption, SpawnInv, Kinds
<1>1. CASE CheckSpawn
  <2>. DEFINE sp == Cleanup(spawned)
  <2>1. /\ spawned' = sp /\ due' = due
        /\ effects' = IF Eligible(sp) = {} THEN {} ELSE {Min(Eligible(sp))}
    BY <1>1 DEF CheckSpawn
  <2>2. /\ Counts(sp) /\ \A i \in BlockIds : sp[i].dead = 0
        /\ \A b \in Blocks : sp[b].home = spawned[b].home /\ sp[b].away = 0
    BY <1>0, CleanupCounts
  <2>. HIDE DEF sp
  <2>3. effects' \subseteq Eligible(sp) /\ Eligible(sp) \subseteq Blocks
    <3>1. Eligible(sp) \subseteq Blocks
      BY <1>0 DEF Eligible
    <3>. QED BY <2>1, <3>1, FirstIsOne
  <2>4. \A b \in Eligible(sp) : sp[b].home = 0 /\ sp[b].away = 0
    BY <1>0 DEF Eligible, HasKey, Nothing, Kinds
  <2>5. \A b \in Blocks : sp[b].home + sp[b].away <= 1
    <3>1. \A b \in Blocks : spawned[b].home \in Nat /\ spawned[b].away \in Nat /\ spawned[b].home + spawned[b].away <= 1
      BY DEF SpawnInv, Counts
    <3>2. ASSUME NEW b \in Blocks PROVE sp[b].home + sp[b].away <= 1
      <4>1. sp[b].home = spawned[b].home /\ sp[b].away = 0
        BY <2>2
      <4>. QED BY <3>1, <4>1
    <3>. QED BY <3>2
  <2>. QED BY <1>0, <2>1, <2>2, <2>3, <2>4, <2>5 DEF SpawnInv
<1>2. ASSUME NEW b \in Blocks, SpawnMonster(b)
      PROVE  SpawnInv'
  <2>1. /\ b \in effects /\ effects' = effects \ {b} /\ due' = due \ {b} /\ checkEvent' = checkEvent
        /\ spawned' = [spawned EXCEPT ![b]["home"] = spawned[b].home + 1]
    BY <1>2 DEF SpawnMonster
  <2>2. spawned[b].home = 0 /\ spawned[b].away = 0 /\ b \in BlockIds
    BY <1>0, <2>1 DEF SpawnInv
  <2>4. spawned[b].home + 1 \in Nat /\ "home" \in Kinds
    BY <1>0, <2>2
  <2>3. /\ Counts(spawned') /\ spawned'[b].home = 1
        /\ spawned'[b].away = spawned[b].away /\ spawned'[b].dead = spawned[b].dead
        /\ \A j \in BlockIds \ {b} : spawned'[j] = spawned[j]
    <3>0. Recounts(spawned', spawned, b, "home", spawned[b].home + 1)
      BY <2>1 DEF Recounts
    <3>1. \A l \in Kinds \ {"home"} : spawned'[b][l] = spawned[b][l]
      BY <1>0, <2>2, <2>4, <3>0, OneCount DEF OneChanged
    <3>2. Counts(spawned') /\ spawned'[b]["home"] = spawned[b].home + 1 /\ \A j \in BlockIds \ {b} : spawned'[j] = spawned[j]
      BY <1>0, <2>2, <2>4, <3>0, OneCount DEF OneChanged
    <3>. QED BY <1>0, <2>2, <3>1, <3>2
  <2>. QED BY <1>0, <2>1, <2>2, <2>3 DEF SpawnInv
<1>3. ASSUME NEW b \in Blocks, SpawnFails(b)
      PROVE  SpawnInv'
  BY <1>0, <1>3 DEF SpawnFails, SpawnInv
<1>4. ASSUME NEW b \in Blocks, TimePasses(b)
      PROVE  SpawnInv'
  BY <1>0, <1>4 DEF TimePasses, SpawnInv
<1>5. ASSUME NEW b \in Blocks, NEW x \in {"home", "away"}, NEW y \in {"home", "away"} \ {x}, spawned[b][x] > 0,
             spawned' = [spawned EXCEPT ![b][x] = spawned[b][x] - 1, ![b][y] = spawned[b][y] + 1],
             UNCHANGED <<due, checkEvent, effects>>
      PROVE  SpawnInv'
  <2>. DEFINE h == [spawned EXCEPT ![b][x] = spawned[b][x] - 1]
  <2>1. spawned[b][x] \in Nat /\ spawned[b][y] \in Nat /\ b \in BlockIds /\ x \in Kinds /\ y \in Kinds
    BY <1>0 DEF Counts
  <2>2. /\ Counts(h) /\ h[b][x] = spawned[b][x] - 1 /\ \A l \in Kinds \ {x} : h[b][l] = spawned[b][l]
        /\ \A j \in BlockIds \ {b} : h[j] = spawned[j]
    <3>1. Recounts(h, spawned, b, x, spawned[b][x] - 1)
      BY DEF Recounts
    <3>2. spawned[b][x] - 1 \in Nat
      BY <1>5, <2>1
    <3>. HIDE DEF h
    <3>. QED BY <1>0, <2>1, <3>1, <3>2, OneCount DEF OneChanged
  <2>3. spawned' = [h EXCEPT ![b][y] = spawned[b][y] + 1]
    BY <1>5
  <2>. HIDE DEF h
  <2>4. /\ Counts(spawned') /\ spawned'[b][y] = spawned[b][y] + 1
        /\ \A l \in Kinds \ {y} : spawned'[b][l] = h[b][l]
        /\ \A j \in BlockIds \ {b} : spawned'[j] = h[j]
    <3>1. spawned[b][y] + 1 \in Nat
      BY <2>1
    <3>2. Recounts(spawned', h, b, y, spawned[b][y] + 1)
      BY <2>3 DEF Recounts
    <3>. QED BY <2>1, <2>2, <3>1, <3>2, OneCount DEF OneChanged
  <2>5. /\ spawned'[b].dead = spawned[b].dead
        /\ spawned'[b].home + spawned'[b].away = spawned[b].home + spawned[b].away
    BY <1>0, <2>1, <2>2, <2>4
  <2>6. b \notin effects
    BY <1>5, <2>1 DEF SpawnInv
  <2>7. \A i \in BlockIds : spawned'[i].dead = spawned[i].dead
    BY <2>2, <2>4, <2>5
  <2>8. \A d \in Blocks \ {b} : spawned'[d] = spawned[d]
    BY <1>0, <2>2, <2>4
  <2>. QED BY <1>0, <1>5, <2>4, <2>5, <2>6, <2>7, <2>8 DEF SpawnInv
<1>6. ASSUME NEW b \in Blocks, Stray(b)
      PROVE  SpawnInv'
  BY <1>5, <1>6 DEF Stray
<1>7. ASSUME NEW b \in Blocks, Return(b)
      PROVE  SpawnInv'
  <2>1. spawned' = [spawned EXCEPT ![b]["away"] = spawned[b]["away"] - 1, ![b]["home"] = spawned[b]["home"] + 1]
    BY <1>0, <1>7 DEF Return, Counts
  <2>. QED BY <1>5, <1>7, <2>1, ZenonT(60) DEF Return
<1>8. ASSUME NEW i \in BlockIds, NEW k \in Kinds, Kill(i, k)
      PROVE  SpawnInv'
  <2>. DEFINE h == [spawned EXCEPT ![i][k] = spawned[i][k] - 1]
  <2>1. /\ k # "dead" /\ spawned[i][k] > 0 /\ checkEvent' = TRUE /\ UNCHANGED <<due, effects>>
        /\ spawned' = [h EXCEPT ![i]["dead"] = h[i]["dead"] + 1]
    BY <1>8 DEF Kill, CheckStarted
  <2>2. i \in Blocks => spawned[i][k] - 1 \in Nat
    BY <1>0, <2>1 DEF Counts
  <2>3. /\ Counts(h) /\ h[i][k] = spawned[i][k] - 1 /\ \A l \in Kinds \ {k} : h[i][l] = spawned[i][l]
        /\ \A j \in BlockIds \ {i} : h[j] = spawned[j]
    <3>1. Recounts(h, spawned, i, k, spawned[i][k] - 1)
      BY DEF Recounts
    <3>2. k = "dead" \/ i \in Blocks => spawned[i][k] - 1 \in Nat
      BY <2>1, <2>2
    <3>. HIDE DEF h
    <3>3. OneChanged(h, spawned, i, k, spawned[i][k] - 1)
      BY <1>0, <3>1, <3>2, OneCount
    <3>. QED BY <3>3 DEF OneChanged
  <2>. HIDE DEF h
  <2>4. h[i].dead + 1 \in Nat /\ "dead" \in Kinds
    BY <1>0, <2>3 DEF Counts
  <2>5. /\ Counts(spawned') /\ \A l \in Kinds \ {"dead"} : spawned'[i][l] = h[i][l]
        /\ \A j \in BlockIds \ {i} : spawned'[j] = h[j]
    <3>1. Recounts(spawned', h, i, "dead", h[i]["dead"] + 1)
      BY <2>1 DEF Recounts
    <3>. QED BY <2>3, <2>4, <3>1, OneCount DEF OneChanged
  <2>6. ASSUME i \in Blocks
        PROVE  /\ spawned'[i].home + spawned'[i].away <= 1
               /\ i \notin effects
    <3>1. /\ spawned[i].home \in Nat /\ spawned[i].away \in Nat /\ spawned[i].home + spawned[i].away <= 1
          /\ k = "home" \/ k = "away"
      BY <1>0, <2>1, <2>6 DEF SpawnInv, Counts
    <3>2. i \notin effects
      BY <2>1, <3>1 DEF SpawnInv
    <3>3. CASE k = "home"
      BY <1>0, <2>3, <2>5, <3>1, <3>2, <3>3
    <3>4. CASE k = "away"
      BY <1>0, <2>3, <2>5, <3>1, <3>2, <3>4
    <3>. QED BY <3>1, <3>3, <3>4
  <2>7. \A d \in Blocks \ {i} : spawned'[d] = spawned[d]
    BY <1>0, <2>3, <2>5
  <2>. QED BY <1>0, <2>1, <2>5, <2>6, <2>7 DEF SpawnInv
<1>9. CASE HuntersLeave \/ UNCHANGED spawnVars
  BY <1>9 DEF HuntersLeave, spawnVars, SpawnInv
<1>. QED BY <1>1, <1>2, <1>3, <1>4, <1>6, <1>7, <1>8, <1>9 DEF SpawnNext

(* For any number of blocks and any startup: a block never has two living  *)
(* monsters, although scheduleSpawn() does not look at spawnedMap again    *)
(* when the effects are over, and whenever spawnedMap holds a dead one the *)
(* event that lets it go is pending (spawn.cpp, monster.cpp).              *)
THEOREM SpawnsStaySound ==
  ASSUME SpawnAssumption
  PROVE  SpawnSpec => [](OnePerBlock /\ DeadAreSwept)
<1>1. SpawnInit => SpawnInv
  BY SpawnStarts
<1>2. SpawnInv /\ [SpawnNext]_spawnVars => SpawnInv'
  BY SpawnKeeps
<1>3. SpawnInv => OnePerBlock /\ DeadAreSwept
  BY DEF SpawnInv, OnePerBlock, DeadAreSwept, Living
<1>. QED BY <1>1, <1>2, <1>3, PTL DEF SpawnSpec
=============================================================================
