--------------------------- MODULE Serialization ---------------------------
(***************************************************************************)
(* How items are written to the database and read back: the rows of a      *)
(* player's item tables (IOLoginData) and the blobs of house tiles         *)
(* (IOMapSerialize), with the attribute stream of an item (Item).          *)
(*                                                                         *)
(* An item is a tree [id, count, charges, action, text, duration, decaying,*)
(* window, autoopen, sleeper, kids].  "text" stands for every attribute    *)
(* that is written as it is when it is set and read back the same way      *)
(* (text, date, writer, description, names, combat values, custom          *)
(* attributes...); 0 is "not set".  A stream is a sequence of tokens       *)
(* <<tag, value>>, so a reader that stops too early or too late reads the  *)
(* wrong tokens afterwards, as it would read the wrong bytes.              *)
(***************************************************************************)
EXTENDS Integers, Sequences, SequencesExt, FiniteSets

CONSTANTS
    Types,      \* [id -> [kind, moveable, force, writes, charges, duration, unworn]]
    Stock,      \* items without contents that play may bring into the game
    Maps,       \* the stationary items of the house tile, per version of the map file
    Tops,       \* [Boxes -> pids of top-level items]
    FirstId,    \* pids below are top-level (100)
    MaxItems,   \* bound: items of the player
    MaxOnTile,  \* bound: items on the tile
    RewardDays, \* how long an untouched reward is kept (7 days)
    MaxDate     \* bound: the last day

VARIABLES
    boxes,      \* [Boxes -> Seq([pid, item])]: the player's items in memory
    rows,       \* [Boxes -> Seq(row)]: the tables player_items...
    kept,       \* (observer) boxes when they were last saved
    today,      \* the day
    tile,       \* Seq(item): the house tile, the first item is on top
    blob,       \* the row of tile_store, <<>> when there is none
    left,       \* (observer) the tile when it was last saved
    map,        \* the map file
    fresh       \* what was just loaded: "", "player" or "tile"

vars == <<boxes, rows, kept, today, tile, blob, left, map, fresh>>

BoxOrder == <<"slots", "depot", "inbox", "stash", "rewards">>
Boxes == Range(BoxOrder)
Kind(id) == Types[id].kind
IsContainer(item) == Kind(item.id) \in {"container", "reward"}
Stackable(id) == Kind(id) \in {"stack", "fluid"}
Unset == 0

SerializationAssumption ==
    /\ \A id \in DOMAIN Types :
        /\ Types[id].unworn \in DOMAIN Types
        /\ Kind(id) \in {"stack", "fluid", "charged", "plain", "container", "reward", "door", "bed"}
    /\ \A item \in Stock : item.kids = <<>> /\ item.id \in DOMAIN Types
    \* an item used up to its last charge is removed from the game
    /\ \A item \in Stock : Kind(item.id) = "charged" => item.charges > 0
    /\ \A box \in Boxes : Tops[box] \subseteq 0 .. FirstId - 1
    \* a tile has one door, one bed and no two stationary items of an id, and the
    \* containers of the map are empty
    /\ \A m \in Maps : \A i, j \in DOMAIN m :
        /\ ~Types[m[i].id].moveable /\ m[i].kids = <<>>
        /\ i # j => m[i].id # m[j].id /\ (Kind(m[i].id) \in {"door", "bed"} => Kind(m[j].id) # Kind(m[i].id))
    \* fewer rewards than there are ids below FirstId
    /\ MaxItems \in Nat /\ MaxItems < FirstId /\ MaxOnTile \in Nat /\ MaxDate \in Nat /\ RewardDays \in Nat

-----------------------------------------------------------------------------
(* The attribute stream of one item.                                       *)

Opt(tag, value) == IF value = Unset THEN <<>> ELSE <<<<tag, value>>>>

\* getSubType(): the count, the fluid or the charges.
GetSubType(item) == IF Kind(item.id) = "charged" THEN item.charges ELSE item.count

\* A bed writes only its sleeper, everything else the common attributes.
SerializeAttr(item) ==
    IF Kind(item.id) = "bed" THEN Opt("sleeper", item.sleeper)
    ELSE (IF Stackable(item.id) THEN <<<<"count", GetSubType(item)>>>> ELSE <<>>)
         \o Opt("charges", item.charges)
         \o (IF Types[item.id].moveable THEN Opt("action", item.action) ELSE <<>>)
         \o Opt("text", item.text)
         \o Opt("duration", item.duration)
         \o Opt("decaying", item.decaying)
         \o Opt("autoopen", item.autoopen)

\* setSubType().
SetSubType(item, n) ==
    IF Kind(item.id) = "charged" THEN [item EXCEPT !.charges = n] ELSE [item EXCEPT !.count = n]

\* An attribute that is stored the way it is read.
SetPlain(item, token) == [item EXCEPT ![token[1]] = token[2]]

\* One token; a token the class does not know is an error.
ReadAttr(item, token) ==
    CASE token[1] \in {"count", "charges"} -> SetSubType(item, token[2])
      [] token[1] \in {"action", "text", "duration"} -> SetPlain(item, token)
      [] token[1] = "decaying" -> [item EXCEPT !.decaying = 1]  \* DECAYING_PENDING
      [] token[1] = "autoopen" -> [item EXCEPT !.autoopen = token[2]]
      [] token[1] = "sleeper" -> IF Kind(item.id) = "bed" THEN [item EXCEPT !.sleeper = token[2]] ELSE item

Known == {"count", "charges", "action", "text", "duration", "decaying", "autoopen", "sleeper"}

\* unserializeAttr(): up to the end mark, or up to and with the number of
\* contained items of a container, or to the end of the stream.
RECURSIVE UnserializeAttr(_, _)
UnserializeAttr(item, stream) ==
    IF stream = <<>> THEN [ok |-> TRUE, item |-> item, size |-> 0, rest |-> <<>>]
    ELSE LET token == Head(stream) IN
         CASE token[1] = "end" -> [ok |-> TRUE, item |-> item, size |-> 0, rest |-> Tail(stream)]
           [] token[1] = "items" /\ IsContainer(item) ->
                [ok |-> TRUE, item |-> item, size |-> token[2], rest |-> Tail(stream)]
           [] token[1] \in Known -> UnserializeAttr(ReadAttr(item, token), Tail(stream))
           [] OTHER -> [ok |-> FALSE, item |-> item, size |-> 0, rest |-> Tail(stream)]

\* Item::CreateItem(): worn rings and boots come back unworn, a type with
\* charges or a duration starts with them.
CreateItem(id, n) ==
    LET new == Types[id].unworn
    IN  [id |-> new,
         count |-> IF Kind(new) = "fluid" THEN n
                   ELSE IF Kind(new) = "stack" /\ n # 0 THEN n ELSE 1,
         charges |-> IF Kind(new) # "charged" THEN 0 ELSE IF n # 0 THEN n ELSE Types[new].charges,
         action |-> Unset, text |-> Unset, duration |-> Types[new].duration, decaying |-> 0,
         window |-> 0, autoopen |-> 0, sleeper |-> 0, kids |-> <<>>]

-----------------------------------------------------------------------------
(* The item tables of a player.                                            *)

\* Open windows are remembered in the container's attributes.
SetAutoOpen(item) == IF IsContainer(item) THEN [item EXCEPT !.autoopen = item.window] ELSE item

Row(pid, sid, item) ==
    [pid |-> pid, sid |-> sid, type |-> item.id, count |-> GetSubType(item), attributes |-> SerializeAttr(item)]

\* saveItems(): level by level, every container once it is its turn.
RECURSIVE SaveContainers(_, _, _)
SaveContainers(queue, runningId, saved) ==
    IF queue = <<>> THEN saved
    ELSE LET kids == [i \in DOMAIN queue[1].item.kids |-> SetAutoOpen(queue[1].item.kids[i])]
             new == [i \in DOMAIN kids |-> Row(queue[1].sid, runningId + i, kids[i])]
             inner == SelectSeq([i \in DOMAIN kids |-> [item |-> kids[i], sid |-> runningId + i]],
                                LAMBDA c : IsContainer(c.item))
         IN  SaveContainers(Tail(queue) \o inner, runningId + Len(kids), saved \o new)

SaveItems(list) ==
    LET top == [i \in DOMAIN list |-> SetAutoOpen(list[i].item)]
    IN  SaveContainers(SelectSeq([i \in DOMAIN top |-> [item |-> top[i], sid |-> FirstId + i]],
                                 LAMBDA c : IsContainer(c.item)),
                       FirstId + Len(list),
                       [i \in DOMAIN list |-> Row(list[i].pid, FirstId + i, top[i])])

\* Rewards are numbered; empty and outdated ones are not stored.
Worthy(entry) == entry.item.kids # <<>> /\ today - entry.item.text <= RewardDays
Rewards(list) ==
    LET worth == SelectSeq(list, Worthy)
    IN  [i \in DOMAIN worth |-> [pid |-> i, item |-> worth[i].item]]

ItemBlocks(box) == IF box = "rewards" THEN Rewards(boxes[box]) ELSE boxes[box]

\* loadItems(): one item per row, by sid.
LoadItems(table) ==
    LET RowOf(sid) == CHOOSE i \in DOMAIN table : table[i].sid = sid
    IN  [sid \in {table[i].sid : i \in DOMAIN table} |->
            [pid |-> table[RowOf(sid)].pid,
             item |-> UnserializeAttr(CreateItem(table[RowOf(sid)].type, table[RowOf(sid)].count),
                                      table[RowOf(sid)].attributes).item]]

PushFront(list, x) == <<x>> \o list

\* getReward(): the container of that date, made if need be.
GetReward(item) == [CreateItem(item.id, 0) EXCEPT !.text = item.text]

\* loadPlayer(): from the last sid to the first; a top-level item goes into its
\* slot or chest, any other in front of what its container holds; an item whose
\* container is not there is not loaded.  A reward chest is made anew from the
\* date of its row, so that other attributes of that row are not used.
LoadBox(box) ==
    LET loaded == LoadItems(rows[box])
        itemMap == IF box # "rewards" THEN loaded
                   ELSE [sid \in DOMAIN loaded |->
                            IF loaded[sid].pid < FirstId THEN [loaded[sid] EXCEPT !.item = GetReward(@)]
                            ELSE loaded[sid]]
        sids == SetToSortSeq(DOMAIN itemMap, LAMBDA a, b : a > b)
        Insert(acc, sid) ==
            LET at == acc.map[sid] IN
            IF at.pid < FirstId
            THEN [acc EXCEPT !.list = PushFront(@, at)]
            ELSE IF at.pid \in DOMAIN acc.map /\ IsContainer(acc.map[at.pid].item)
            THEN [acc EXCEPT !.map[at.pid].item.kids = PushFront(@, at.item)]
            ELSE acc
    IN  FoldLeft(Insert, [map |-> itemMap, list |-> <<>>], sids).list

SavePlayer ==
    /\ rows' = [box \in Boxes |-> SaveItems(ItemBlocks(box))]
    /\ kept' = [box \in Boxes |-> ItemBlocks(box)]
    /\ fresh' = ""
    /\ UNCHANGED <<boxes, today, tile, blob, left, map>>

LoadPlayer ==
    /\ boxes' = [box \in Boxes |-> LoadBox(box)]
    /\ fresh' = "player"
    /\ UNCHANGED <<rows, kept, today, tile, blob, left, map>>

-----------------------------------------------------------------------------
(* The blobs of house tiles.                                               *)

\* saveItem(): contents from the last to the first, then the end mark.
\* fault: from the first to the last
FirstToLast(kids) == kids
LastToFirst(kids) == Reverse(kids)
RECURSIVE SaveItem(_)
SaveItem(item) ==
    <<<<"id", item.id>>>> \o SerializeAttr(item)
    \o (IF IsContainer(item)
        THEN <<<<"items", Len(item.kids)>>>>
             \o FlattenSeq([i \in DOMAIN item.kids |-> SaveItem(LastToFirst(item.kids)[i])])
        ELSE <<>>)
    \o <<<<"end", 0>>>>

\* saveTile(): which items of a tile are stored, from the last to the first.
IsStored(item) ==
    \/ Types[item.id].moveable \/ Types[item.id].force \/ Types[item.id].writes
    \/ Kind(item.id) \in {"door", "bed"}
    \/ IsContainer(item) /\ item.kids # <<>>

SaveTile ==
    LET stored == Reverse(SelectSeq(tile, IsStored))
    IN  IF stored = <<>> THEN <<>>
        ELSE <<<<"count", Len(stored)>>>> \o FlattenSeq([i \in DOMAIN stored |-> SaveItem(stored[i])])

\* loadItem() inside a container: always a new item.  loadContainer() reads as
\* many items as were announced and the end mark.
RECURSIVE LoadItem(_), LoadContents(_, _, _)
LoadItem(stream) ==
    IF stream = <<>> \/ stream[1][1] # "id" THEN [ok |-> FALSE, rest |-> stream]
    ELSE LET read == UnserializeAttr(CreateItem(stream[1][2], 0), Tail(stream)) IN
         IF ~read.ok THEN read
         ELSE IF IsContainer(read.item) THEN LoadContents(read.item, read.size, read.rest) ELSE read
LoadContents(item, size, stream) ==
    IF size = 0
    THEN [ok |-> stream # <<>> /\ stream[1][1] = "end", item |-> item,
          rest |-> IF stream = <<>> THEN <<>> ELSE Tail(stream)]
    ELSE LET read == LoadItem(stream) IN
         IF ~read.ok THEN [ok |-> FALSE, rest |-> read.rest]
         ELSE LoadContents([item EXCEPT !.kids = PushFront(@, read.item)], size - 1, read.rest)

\* The stationary item of the tile that an entry speaks of.
Matches(found, id) ==
    \/ found.id = id
    \/ Kind(id) \in {"door", "bed"} /\ Kind(found.id) = Kind(id)

\* loadItem() on the tile: moveable items are created, stationary ones are found
\* and changed, and what is not there any more is read all the same.
LoadOnTile(acc) ==
    LET id == acc.stream[1][2]
        found == SelectInSeq(acc.tile, LAMBDA x : Matches(x, id))
        base == IF found # 0 THEN acc.tile[found] ELSE CreateItem(id, 0)
        read == UnserializeAttr(base, Tail(acc.stream))
        full == IF IsContainer(read.item) THEN LoadContents(read.item, read.size, read.rest) ELSE read
    IN  IF Types[id].moveable \/ Types[id].force
        THEN LET new == LoadItem(acc.stream) IN
             [acc EXCEPT !.stream = new.rest, !.tile = IF new.ok THEN PushFront(@, new.item) ELSE @]
        ELSE IF found # 0
        THEN [acc EXCEPT !.stream = full.rest,
                         !.tile[found] = IF full.ok THEN [full.item EXCEPT !.id = id] ELSE @]
        ELSE [acc EXCEPT !.stream = full.rest]

RECURSIVE LoadEntries(_, _)
LoadEntries(acc, count) ==
    IF count = 0 \/ acc.stream = <<>> \/ acc.stream[1][1] # "id" THEN acc
    ELSE LoadEntries(LoadOnTile(acc), count - 1)

LoadHouseItems(stationary) ==
    IF blob = <<>> THEN stationary
    ELSE LoadEntries([stream |-> Tail(blob), tile |-> stationary], blob[1][2]).tile

SaveHouseItems ==
    /\ blob' = SaveTile /\ left' = tile
    /\ fresh' = ""
    /\ UNCHANGED <<boxes, rows, kept, today, tile, map>>

\* The server starts with this version of the map.
Restart(m) ==
    /\ map' = m /\ tile' = LoadHouseItems(m)
    /\ fresh' = "tile"
    /\ UNCHANGED <<boxes, rows, kept, today, blob, left>>

-----------------------------------------------------------------------------
(* Play: items come to a box or the tile, in front of what is there.       *)

RECURSIVE SizeOf(_)
SizeOf(list) ==
    IF list = <<>> THEN 0 ELSE 1 + SizeOf(Head(list).kids) + SizeOf(Tail(list))
AllItems == FlattenSeq([i \in DOMAIN BoxOrder |-> boxes[BoxOrder[i]]])
ItemCount == SizeOf([i \in DOMAIN AllItems |-> AllItems[i].item])

\* Container::addThing() of the container at a path of positions.
RECURSIVE Paths(_), PutAt(_, _, _)
Paths(list) ==
    {<<>>} \cup UNION {{<<i>> \o p : p \in Paths(list[i].kids)} : i \in {j \in DOMAIN list : IsContainer(list[j])}}
PutAt(list, path, item) ==
    IF path = <<>> THEN PushFront(list, item)
    ELSE [list EXCEPT ![path[1]].kids = PutAt(@, Tail(path), item)]

\* A top-level item of a box; a slot takes one, and getRewardList() and the
\* map of depots list theirs in the order of their keys.
PutOnTop(box) == \E item \in Stock, pid \in Tops[box] :
    /\ ItemCount < MaxItems
    /\ box = "slots" => \A i \in DOMAIN boxes[box] : boxes[box][i].pid < pid
    /\ box = "depot" => \A i \in DOMAIN boxes[box] : boxes[box][i].pid >= pid
    /\ box = "rewards" =>
        Kind(item.id) = "reward" /\ \A i \in DOMAIN boxes[box] : boxes[box][i].item.text < today
    /\ (Kind(item.id) = "reward") <=> (box = "rewards")
    /\ LET entry == [pid |-> pid, item |-> IF box = "rewards" THEN [item EXCEPT !.text = today] ELSE item]
       IN  boxes' = [boxes EXCEPT ![box] = IF box \in {"slots", "rewards"} THEN Append(@, entry)
                                           ELSE PushFront(@, entry)]
    /\ fresh' = ""
    /\ UNCHANGED <<rows, kept, today, tile, blob, left, map>>

PutInside(box) == \E item \in Stock, i \in DOMAIN boxes[box] :
    /\ ItemCount < MaxItems
    /\ IsContainer(boxes[box][i].item) /\ Kind(item.id) # "reward"
    /\ \E path \in Paths(boxes[box][i].item.kids) :
        boxes' = [boxes EXCEPT ![box][i].item.kids = PutAt(@, path, item)]
    /\ fresh' = ""
    /\ UNCHANGED <<rows, kept, today, tile, blob, left, map>>

PutOnTile == \E item \in Stock, path \in Paths(tile) :
    /\ SizeOf(tile) < MaxOnTile
    /\ Types[item.id].moveable
    /\ tile' = PutAt(tile, path, item)
    /\ fresh' = ""
    /\ UNCHANGED <<boxes, rows, kept, today, blob, left, map>>

\* A door opens or closes, a text is written, a bed taken: stationary items
\* change in place.
Use == \E i \in DOMAIN tile, id \in DOMAIN Types :
    /\ ~Types[tile[i].id].moveable
    /\ \/ Kind(id) = "door" /\ Kind(tile[i].id) = "door" /\ id # tile[i].id
          /\ tile' = [tile EXCEPT ![i].id = id]
       \/ Types[id].writes /\ id = tile[i].id
          /\ \E text \in {0, 2} : tile' = [tile EXCEPT ![i].text = text]
       \/ Kind(id) = "bed" /\ id = tile[i].id
          /\ tile' = [tile EXCEPT ![i].sleeper = 1 - @]
    /\ fresh' = ""
    /\ UNCHANGED <<boxes, rows, kept, today, blob, left, map>>

DayPasses ==
    /\ today < MaxDate /\ today' = today + 1
    /\ fresh' = ""
    /\ UNCHANGED <<boxes, rows, kept, tile, blob, left, map>>

Init ==
    /\ boxes = [box \in Boxes |-> <<>>] /\ rows = boxes /\ kept = boxes
    /\ today = 1 /\ map \in Maps /\ tile = map /\ left = map /\ blob = <<>> /\ fresh = ""

Next ==
    \/ SavePlayer \/ LoadPlayer \/ SaveHouseItems \/ DayPasses
    \/ \E m \in Maps : Restart(m)
    \/ \E box \in Boxes : PutOnTop(box) \/ PutInside(box)
    \/ PutOnTile \/ Use

Spec == Init /\ [][Next]_vars

-----------------------------------------------------------------------------
(* Properties.                                                             *)

\* What an item becomes by being stored: unworn, its decay pending, its windows
\* remembered as auto-open and closed, no action id unless it can be moved.
RECURSIVE Normalised(_)
Normalised(item) ==
    [item EXCEPT !.id = Types[@].unworn,
                 !.decaying = IF @ = 0 THEN 0 ELSE 1,
                 !.autoopen = IF IsContainer(item) THEN item.window ELSE @,
                 !.window = 0,
                 !.action = IF Types[item.id].moveable THEN @ ELSE 0,
                 !.kids = [i \in DOMAIN @ |-> Normalised(@[i])]]

\* saveItems() then loadPlayer(): every item of every box comes back, in its
\* place and in its order, with its attributes.
PlayerRoundTrips ==
    fresh = "player" =>
        boxes = [box \in Boxes |-> [i \in DOMAIN kept[box] |->
                    [pid |-> kept[box][i].pid,
                     item |-> IF box # "rewards" THEN Normalised(kept[box][i].item)
                              ELSE [Normalised(kept[box][i].item) EXCEPT !.autoopen = 0]]]]

\* The tile's blob does not know of windows: auto-open is what it was.
RECURSIVE NormalisedOnTile(_)
NormalisedOnTile(item) ==
    [item EXCEPT !.id = Types[@].unworn,
                 !.decaying = IF @ = 0 THEN 0 ELSE 1,
                 !.window = 0,
                 !.action = IF Types[item.id].moveable THEN @ ELSE 0,
                 !.kids = [i \in DOMAIN @ |-> NormalisedOnTile(@[i])]]

\* saveTile() then loadHouseItems(), over a map that may have lost or gained
\* stationary items: what could be moved comes back in its order whatever
\* became of the rest, a stationary item keeps its state, its contents and its
\* text unless the map took it away, and an erased text falls back to the map's.
TileRoundTrips ==
    (fresh = "tile" /\ blob # <<>>) =>
        LET Moveable(x) == Types[x.id].moveable
            loose == SelectSeq(left, Moveable)
        IN  /\ SelectSeq(tile, Moveable) = [i \in DOMAIN loose |-> NormalisedOnTile(loose[i])]
            /\ SelectSeq(tile, LAMBDA x : ~Moveable(x)) =
                [i \in DOMAIN map |->
                    LET old == SelectInSeq(left, LAMBDA x : Matches(x, map[i].id)) IN
                    IF old = 0 \/ ~IsStored(left[old]) THEN map[i]
                    ELSE [NormalisedOnTile(left[old]) EXCEPT
                            !.text = IF @ = Unset \/ Kind(map[i].id) = "bed" THEN map[i].text ELSE @,
                            !.action = map[i].action]]

RECURSIVE IsItem(_)
IsItem(item) ==
    /\ item.id \in DOMAIN Types /\ item.count \in Nat /\ item.decaying \in 0 .. 2
    /\ IsContainer(item) \/ item.kids = <<>>
    /\ \A i \in DOMAIN item.kids : IsItem(item.kids[i])
TypeOK ==
    /\ \A box \in Boxes : \A i \in DOMAIN boxes[box] :
        boxes[box][i].pid \in 0 .. FirstId - 1 /\ IsItem(boxes[box][i].item)
    /\ \A i \in DOMAIN tile : IsItem(tile[i])
    /\ today \in 1 .. MaxDate /\ fresh \in {"", "player", "tile"}

\* Both round trips.
SerializationRoundTrips == TypeOK /\ PlayerRoundTrips /\ TileRoundTrips
=============================================================================
