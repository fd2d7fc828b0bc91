------------------------------ MODULE ItemTypes ------------------------------
(***************************************************************************)
(* The registry of item types (Items, items.cpp): the binary file          *)
(* items.otb gives every type its ids and flags, items.xml names it and    *)
(* adds its attributes, and scripts look types up by id, by name, by the   *)
(* client's id or by what a coin is worth.  /reload items throws the       *)
(* registry away and builds it again in the same vector while scripts      *)
(* still hold pointers into it (class ItemType of luascript.cpp).          *)
(*                                                                         *)
(* A file is a sequence of nodes; an attribute is [key, at, v, sub]: the   *)
(* family of its key, the fields or damage types it is about, its value    *)
(* and, for a magic field, its children.  FirstId stands for 100: types    *)
(* below it exist in the XML file only.  The OTB file is assumed to reach  *)
(* an id of at least FirstId before it can be cut, as items.front() of an  *)
(* empty vector is undefined.                                              *)
(***************************************************************************)
EXTENDS Integers, Sequences, FiniteSets, SequencesExt, FiniteSetsExt

CONSTANTS Packs,       \* the data packs an administrator may install: otb, cut, xml, wellFormed
          FirstId,     \* 100
          Plain,       \* fields an attribute simply sets
          Damages,     \* COMBAT_COUNT
          Elements, Magics,  \* damage types of the "elements" and "magic" keys
          XmlWield, LuaWield,  \* types with a requirement registered by XML tables and by scripts
          MaxReloads, MaxHandles

VARIABLES pack,    \* the files on disk
          loaded,  \* the pack the registry was last built from
          vec,     \* the vector of types: [types, cap, block]
          index,   \* nameToItems, currencyItems, clientIdToServerIdMap, inventory
          up, reloads,
          handles  \* pointers scripts hold: [id, block, same, of, seen]

vars == <<pack, loaded, vec, index, up, reloads, handles>>

(***************************************************************************)
(* The types of the empty registry and what an attribute does to one       *)
(***************************************************************************)
HandSlots == {"left", "right"}

PercentKinds == {"absorb", "reflectPercent", "reflectChance", "boost"}

NullType == [id |-> 0, clientId |-> 0, name |-> "", group |-> "none", type |-> "none",
             plain |-> [f \in Plain |-> 0], flags |-> {}, slots |-> HandSlots,
             percent |-> [k \in PercentKinds |-> [d \in Damages |-> 0]], suppressed |-> {}, field |-> <<>>,
             onUse |-> [male |-> 0, female |-> 0], free |-> 0, worth |-> 0, wield |-> FALSE]

AttributeFamilies == {"type", "fluidcontainer", "plain", "named", "lasting", "bounded", "flag", "writeable", "slot",
                      "regeneration", "skill", "absorb", "reflectPercent", "reflectChance", "boost", "suppress",
                      "field", "male", "female", "transformto", "element", "worth"}

EmptyIndex == [byName |-> {}, currency |-> {}, byClient |-> {}, inventory |-> <<>>]

\* getItemType: an id beyond the vector means the null type.
At(types, id) == IF id \in DOMAIN types THEN id ELSE 0

SetType(t, a) == [t EXCEPT !.type = a.at, !.group = IF a.at = "container" THEN "container" ELSE @]

SetFluid(t, a) == [t EXCEPT !.group = IF a.v = 1 THEN "fluid" ELSE @]

SetPlain(t, a) == [t EXCEPT !.plain[a.at] = a.v]

\* A value looked up in a table of names: 0 is a name the table does not have.
SetNamed(t, a) == IF a.v = 0 THEN t ELSE [t EXCEPT !.plain[a.at] = a.v]

\* Decay, charges and what the type turns into when it is worn.
SetLasting(t, a) == [t EXCEPT !.plain[a.at] = a.v]

\* attackSpeed is raised to 100, hit chances are cut at 100 (here: at the bounds of sub).
SetBounded(t, a) == [t EXCEPT !.plain[a.at] = IF a.v = 0 THEN 0 ELSE Max({a.sub[1], Min({a.sub[2], a.v})})]

SetFlag(t, a) == [t EXCEPT !.flags = IF a.v = 1 THEN @ \cup {a.at} ELSE @ \ {a.at}]

SetWriteable(t, a) == [t EXCEPT !.flags = IF a.v = 1 THEN @ \cup {"write", "read"} ELSE @ \ {"write", "read"}]

SetSlot(t, a) == [t EXCEPT !.slots = CASE a.at = "right-hand" -> @ \ {"left"}
                                       [] a.at = "left-hand"  -> @ \ {"right"}
                                       [] OTHER               -> @ \cup {a.at}]

SetRegeneration(t, a) == [t EXCEPT !.plain[a.at] = a.v, !.flags = @ \cup {"regeneration"}]

SetSkill(t, a) == [t EXCEPT !.plain[a.at] = a.v]

Group(which) == CASE which = "all" -> Damages [] which = "elements" -> Elements [] which = "magic" -> Magics
                  [] OTHER -> {which}

\* The values of several keys add up.
AddTo(t, k, a) == [t EXCEPT !.percent[k] = [d \in Damages |-> @[d] + IF d \in Group(a.at) THEN a.v ELSE 0]]

AbsorbPercent(t, a) == AddTo(t, "absorb", a)

ReflectPercent(t, a) == AddTo(t, "reflectPercent", a)

ReflectChance(t, a) == AddTo(t, "reflectChance", a)

BoostPercent(t, a) == AddTo(t, "boost", a)

Suppress(t, a) == [t EXCEPT !.suppressed = IF a.v = 1 THEN @ \cup {a.at} ELSE @]

SetElement(t, a) == [t EXCEPT !.plain["element"] = a.v]

\* The children of a field attribute, in the order of the file.
FieldStep(f, s) == CASE s.k = "initdamage" -> [f EXCEPT !.init = s.v]
                     [] s.k = "ticks"      -> [f EXCEPT !.ticks = s.v]
                     [] s.k = "count"      -> [f EXCEPT !.count = Max({1, s.v})]
                     [] s.k = "start"      -> [f EXCEPT !.start = Max({0, s.v})]
                     [] s.k = "damage"     -> [f EXCEPT !.rounds = Append(@, [n |-> IF f.start > 0 THEN 1 ELSE f.count,
                                                                              ticks |-> f.ticks, from |-> f.start, v |-> -s.v]),
                                                        !.start = 0]

SetField(t, a) == LET f == FoldLeft(FieldStep, [init |-> -1, ticks |-> 0, count |-> 1, start |-> 0, rounds |-> <<>>], a.sub)
                  IN  [t EXCEPT !.group = "field", !.type = "field",
                                !.field = <<[element |-> a.at, rounds |-> f.rounds,
                                             init |-> CASE f.init > 0 \/ f.init < -1     -> -f.init
                                                        [] f.init = -1 /\ f.start # 0 -> f.start
                                                        [] OTHER                      -> 0]>>]

\* The attributes that only touch the type itself.
SetOwn(t, a) == CASE a.key = "type" -> SetType(t, a)
                  [] a.key = "fluidcontainer" -> SetFluid(t, a)
                  [] a.key = "plain" -> SetPlain(t, a)
                  [] a.key = "named" -> SetNamed(t, a)
                  [] a.key = "lasting" -> SetLasting(t, a)
                  [] a.key = "bounded" -> SetBounded(t, a)
                  [] a.key = "flag" -> SetFlag(t, a)
                  [] a.key = "writeable" -> SetWriteable(t, a)
                  [] a.key = "slot" -> SetSlot(t, a)
                  [] a.key = "regeneration" -> SetRegeneration(t, a)
                  [] a.key = "skill" -> SetSkill(t, a)
                  [] a.key = "absorb" -> AbsorbPercent(t, a)
                  [] a.key = "reflectPercent" -> ReflectPercent(t, a)
                  [] a.key = "reflectChance" -> ReflectChance(t, a)
                  [] a.key = "boost" -> BoostPercent(t, a)
                  [] a.key = "suppress" -> Suppress(t, a)
                  [] a.key = "element" -> SetElement(t, a)
                  [] a.key = "field" -> SetField(t, a)
                  [] a.key = "transformto" -> [t EXCEPT !.free = a.v]

\* malesleeper, femalesleeper: the occupied bed learns which bed to become when it is left.
Sleeper(types, id, sex, other, v) ==
    LET o == At(types, v)
        t == [types EXCEPT ![id].onUse[sex] = v]
        u == [t EXCEPT ![o].free = IF @ = 0 THEN id ELSE @]
    IN  [u EXCEPT ![id].onUse[other] = IF @ = 0 THEN v ELSE @]

\* worth: the first type of a worth is the coin, the others are worth nothing.
Worth(r, id, v) == IF \E c \in r.index.currency : c[1] = v THEN r
                   ELSE [r EXCEPT !.index.currency = @ \cup {<<v, id>>}, !.types[id].worth = v]

Attribute(r, id, a) == CASE a.key = "male"   -> [r EXCEPT !.types = Sleeper(@, id, "male", "female", a.v)]
                         [] a.key = "female" -> [r EXCEPT !.types = Sleeper(@, id, "female", "male", a.v)]
                         [] a.key = "worth"  -> Worth(r, id, a.v)
                         [] OTHER            -> [r EXCEPT !.types[id] = SetOwn(@, a)]

(***************************************************************************)
(* Loading the two files                                                   *)
(***************************************************************************)
\* vector::resize of types from what is there now.
Resized(types, n) == IF n \in DOMAIN types THEN types
                     ELSE [i \in 0 .. n |-> IF i \in DOMAIN types THEN types[i] ELSE NullType]

KnownGroups == {"none", "container", "field", "fluid"}

GroupType(g) == IF g \in {"container", "field"} THEN g ELSE "none"

\* ClientIdToServerIdMap::emplace: the first type of a client id is found by it.
Emplace(m, clientId, id) == IF \E e \in m : e[1] = clientId THEN m ELSE m \cup {<<clientId, id>>}

OtbNode(r, n) ==
    LET t == Resized(r.types, n.id)
        i == [r.index EXCEPT !.byClient = Emplace(@, n.clientId, n.id)]
    IN  IF ~r.ok THEN r
        ELSE IF n.group \notin KnownGroups
        THEN [types |-> [t EXCEPT ![n.id].group = n.group], index |-> i, ok |-> FALSE]
        ELSE [types |-> [t EXCEPT ![n.id].group = n.group, ![n.id].type = IF GroupType(n.group) = "none" THEN @ ELSE GroupType(n.group),
                                  ![n.id].flags = n.flags, ![n.id].id = n.id, ![n.id].clientId = n.clientId],
              index |-> i, ok |-> TRUE]

Cleared == [types |-> [i \in {} |-> NullType], index |-> EmptyIndex, ok |-> TRUE]

\* A file cut after p.cut nodes gives the types read so far and a failure.
LoadFromOtb(p, r) == LET read == FoldLeft(OtbNode, r, SubSeq(p.otb, 1, p.cut))
                     IN  [read EXCEPT !.ok = @ /\ p.cut = Len(p.otb)]

ParseItemNode(r, node, id) ==
    LET own   == IF id > 0 /\ id < FirstId THEN [r EXCEPT !.types[id].id = id] ELSE r
        t     == At(own.types, id)
        named == [own EXCEPT !.types[t].name = node.name,
                             !.index.byName = IF node.name = "" \/ \E e \in @ : e[1] = node.name THEN @
                                              ELSE @ \cup {<<node.name, id>>}]
    IN  IF own.types[t].id = 0 \/ own.types[t].name # "" THEN own
        ELSE FoldLeft(LAMBDA s, a : Attribute(s, t, a), named, node.attributes)

ParseNode(r, node) == FoldLeft(LAMBDA s, k : ParseItemNode(s, node, k), r, [k \in 1 .. node.to - node.from + 1 |-> node.from + k - 1])

ListedSlots == {"necklace", "ring", "ammo", "feet", "head", "armor", "legs"}

BuildInventoryList(types) ==
    LET listed == {i \in DOMAIN types : types[i].plain["attack"] # 0 \/ types[i].slots \cap ListedSlots # {}}
        order  == SetToSortSeq(listed, LAMBDA i, j : types[i].clientId < types[j].clientId)
    IN  [k \in DOMAIN order |-> types[order[k]].clientId]

LoadFromXml(p, r) == LET read == FoldLeft(ParseNode, r, p.xml)
                     IN  IF ~p.wellFormed THEN [r EXCEPT !.ok = FALSE]
                         ELSE [read EXCEPT !.index.inventory = BuildInventoryList(read.types), !.ok = TRUE]

\* What MoveEvents and Weapons write into the types they are registered for.
Stamp(types, ids) == [i \in DOMAIN types |-> IF i \in ids THEN [types[i] EXCEPT !.wield = TRUE] ELSE types[i]]

Build(p, cleared) == LoadFromXml(p, LoadFromOtb(p, cleared))

\* The buffer the types end up in: grown when they do not fit, given back by shrink_to_fit,
\* which a failed OTB file does not reach.
Block(old, size, shrinks) == IF size > old.cap \/ (shrinks /\ size < old.cap)
                             THEN [cap |-> size, block |-> old.block + 1] ELSE [cap |-> old.cap, block |-> old.block]

Size(types) == Cardinality(DOMAIN types)

Init == /\ pack \in Packs /\ loaded = pack
        /\ vec = [types |-> Cleared.types, cap |-> 0, block |-> 0]
        /\ index = EmptyIndex
        /\ up = FALSE /\ reloads = 0 /\ handles = {}

Store(r, whole, stamps) ==
    /\ vec' = [types |-> Stamp(r.types, stamps \cap DOMAIN r.types)]
              @@ Block(vec, Size(r.types), whole)
    /\ index' = r.index

\* otserv.cpp: either failure stops the server.
Start == /\ ~up /\ reloads = 0
         /\ LoadFromOtb(pack, Cleared).ok /\ pack.wellFormed
         /\ Store(Build(pack, Cleared), TRUE, XmlWield \cup LuaWield)
         /\ up' = TRUE /\ loaded' = pack
         /\ UNCHANGED <<pack, reloads, handles>>

Install == /\ up /\ pack' \in Packs \ {pack}
           /\ UNCHANGED <<loaded, vec, index, up, reloads, handles>>

Clear == Cleared

\* Items::reload: the result of loadFromOtb is not looked at.
Reload ==
    LET r     == Build(pack, Clear)
        whole == LoadFromOtb(pack, Clear).ok
    IN  /\ up /\ reloads < MaxReloads
        /\ Store(r, whole, IF r.ok THEN XmlWield ELSE {})
        /\ reloads' = reloads + 1 /\ loaded' = pack
        /\ handles' = {[h EXCEPT !.same = @ /\ Size(r.types) = Size(vec.types) /\ whole] : h \in handles}
        /\ UNCHANGED <<pack, up>>

IdByName(name) == LET f == {e \in index.byName : e[1] = name} IN IF f = {} THEN 0 ELSE (CHOOSE e \in f : TRUE)[2]

IdByClient(c) == LET f == {e \in index.byClient : e[1] = c}
                 IN  IF c < FirstId \/ f = {} THEN 0 ELSE At(vec.types, (CHOOSE e \in f : TRUE)[2])

\* What the methods of a script's ItemType return.
Target(h) == vec.types[h.id]

Kinds(h) == Target(h).flags \cup {Target(h).type, Target(h).group}

Identity(h) == <<Target(h).id, Target(h).clientId, Target(h).name, Target(h).slots>>

Figures(h) == <<Target(h).worth, Target(h).plain>>

Fighting(h) == [f \in Plain \cap {"attack", "armor"} |-> Target(h).plain[f]]

Abilities(h) == <<Target(h).percent, Target(h).suppressed, "regeneration" \in Target(h).flags>>

Requirements(h) == <<Target(h).wield, Target(h).onUse, Target(h).free>>

Seen(h) == <<Kinds(h), Identity(h), Figures(h), Fighting(h), Abilities(h)>>

Handle(id) == [id |-> At(vec.types, id), block |-> vec.block, same |-> TRUE]

\* ItemType(id or name): a pointer into the vector.
CreateHandle == \E id \in DOMAIN vec.types \cup {IdByName(vec.types[i].name) : i \in DOMAIN vec.types} :
                   /\ up /\ Cardinality(handles) < MaxHandles
                   /\ handles' = handles \cup {[of |-> loaded, seen |-> Seen(Handle(id))] @@ Handle(id)}
                   /\ UNCHANGED <<pack, loaded, vec, index, up, reloads>>

Next == Start \/ Install \/ Reload \/ CreateHandle

Spec == Init /\ [][Next]_vars

(***************************************************************************)
(* Properties                                                              *)
(***************************************************************************)
TypeOK == /\ pack \in Packs /\ loaded \in Packs /\ up \in BOOLEAN /\ reloads \in 0 .. MaxReloads
          /\ \A i \in DOMAIN vec.types : vec.types[i].id \in {0, i}
          /\ \A h \in handles : h.id \in Nat /\ h.block <= vec.block

Named == {i \in DOMAIN vec.types : vec.types[i].name # ""}

\* A name finds a type of that name, the first of the file; a coin's worth finds the coin and
\* no two types are worth the same; a client id finds a type the client shows that way
\* (getItemIdByName, currencyItems, getItemIdByClientId).
LookupsAgree ==
    /\ \A i \in Named : Identity(Handle(IdByName(vec.types[i].name)))[3] = vec.types[i].name
    /\ {<<vec.types[i].worth, i>> : i \in {j \in DOMAIN vec.types : vec.types[j].worth # 0}} = index.currency
    /\ \A i \in DOMAIN vec.types : vec.types[i].clientId >= FirstId =>
          Identity(Handle(IdByClient(vec.types[i].clientId)))[2] = vec.types[i].clientId

GivenFree(id) == \E k \in DOMAIN loaded.xml : /\ id \in loaded.xml[k].from .. loaded.xml[k].to
                                              /\ \E j \in DOMAIN loaded.xml[k].attributes :
                                                    loaded.xml[k].attributes[j].key = "transformto"

\* A player who gets up leaves a bed he could have lain down in: what an occupied bed turns
\* into is a bed that turns into it, unless the file says otherwise (transformToOnUse,
\* transformToFree of parseItemNode).
BedsComeBack ==
    \A i \in DOMAIN vec.types : \A s \in {"male", "female"} :
       LET o == vec.types[i].onUse[s]
       IN  o \in DOMAIN vec.types /\ o # 0 /\ ~GivenFree(o) =>
              vec.types[o].free \in DOMAIN vec.types /\ o \in {vec.types[vec.types[o].free].onUse[x] : x \in {"male", "female"}}

\* A reload leaves nothing of the old registry behind: the lookups and the types are those a
\* new server would build from the same files, except for what scripts registered (Items::clear).
ReloadIsFresh ==
    LET f == Build(loaded, Cleared)
    IN  up => /\ index = f.index
              /\ DOMAIN vec.types = DOMAIN f.types
              /\ \A i \in DOMAIN f.types : [vec.types[i] EXCEPT !.wield = FALSE] = f.types[i]
              /\ f.ok => \A i \in XmlWield \cap DOMAIN f.types : Requirements(Handle(i))[1]

\* A pointer a script kept is good as long as every reload since then built as many types: the
\* vector is filled again in the buffer it has (vector::clear, shrink_to_fit of loadFromOtb).
\* If the files are the same as well, its methods return what they returned before.
HandlesSurvive == \A h \in handles : h.same => /\ h.block = vec.block /\ h.id \in DOMAIN vec.types
                                               /\ h.of = loaded => h.seen = Seen(h)

ItemTypesAgree == TypeOK /\ LookupsAgree /\ BedsComeBack /\ ReloadIsFresh /\ HandlesSurvive

ItemTypesAssumption ==
    /\ "attack" \in Plain /\ "element" \in Plain /\ Elements \subseteq Damages /\ Magics \subseteq Damages
    /\ \A p \in Packs : /\ p.cut \in 1 .. Len(p.otb) /\ p.otb[1].id >= FirstId
                        /\ \A k \in DOMAIN p.xml : \A j \in DOMAIN p.xml[k].attributes :
                              p.xml[k].attributes[j].key \in AttributeFamilies

==============================================================================
