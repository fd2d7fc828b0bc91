-------------------------------- MODULE Spells --------------------------------
(***************************************************************************)
(* Spells of players (spells.cpp): the registry filled from spells.xml and *)
(* by scripts, the words a player says, the checks a spell makes, what a   *)
(* cast costs and how long it keeps the caster from the next one, and the  *)
(* runes, which are spells kept in an item.                                *)
(*                                                                         *)
(* Words are sequences of letters; " " separates a parameter.  level       *)
(* stands for the level, magic level, weapon and premium requirements,     *)
(* and calm for the states in which an aggressive spell is refused (black  *)
(* skull, pacified, protection zone).  A cooldown is kept as the time left *)
(* until the end time of its condition; -1 is no condition.                *)
(***************************************************************************)
EXTENDS Integers, Sequences, FiniteSets, SequencesExt, FiniteSetsExt

CONSTANTS XmlSpells,      \* the nodes of spells.xml, in order
          Scripts,        \* the scripts of data/scripts that make a spell: [kind, calls]
          Reserved,       \* names configureSpell refuses
          Utterances,     \* what players say
          Modes,          \* flags of the player's group: "normal", "ignores", "cannot", "tireless"
          Level, Vocation, MaxMana, MaxSoul, Charges,
          NoGroup, Groups, Ids, MaxCooldown, MaxReloads

VARIABLES reg,      \* instants and runes
          caster,   \* mode, mana, soul, learned, calm
          cool,     \* conditions: <<kind, sub>> -> time left, -1 when there is none
          runes,    \* the rune item: [left, used, taken]
          spellReloads,
          owed,     \* what the casts so far promised, kept apart from the conditions
          hasty     \* a cast came before its time

spellVars == <<reg, caster, cool, runes, spellReloads, owed, hasty>>

CooldownKeys == {<<"spell", i>> : i \in Ids} \cup {<<"group", g>> : g \in Groups \cup {NoGroup}}

(***************************************************************************)
(* Making a spell                                                          *)
(***************************************************************************)
Blank(kind, lua) ==
    [kind |-> kind, lua |-> lua, scripted |-> FALSE, name |-> "", words |-> <<>>, runeId |-> 0, charges |-> 0,
     id |-> 0, group |-> NoGroup, group2 |-> NoGroup, cooldown |-> 0, groupCooldown |-> 0, secondaryCooldown |-> 0,
     level |-> 0, mana |-> 0, manaPercent |-> 0, soul |-> 0, vocations |-> {}, flags |-> {"enabled"}]

\* Setters with a number: name, id, cooldown, level, mana, soul, range and their like.
SetNumber(s, c) == [s EXCEPT ![c.field] = c.v]

\* Setters with a boolean.
SetFlag(s, c) == [s EXCEPT !.flags = IF c.v = 1 THEN @ \cup {c.field} ELSE @ \ {c.field}]

\* spell:group(primary, secondary): the second number is read from the first argument,
\* names are read from their own.
SetGroup(s, c) == IF Len(c.v) = 1 THEN [s EXCEPT !.group = c.v[1]]
                  ELSE [s EXCEPT !.group = c.v[1], !.group2 = IF c.field = "number" THEN c.v[1] ELSE c.v[2]]

SetGroupCooldown(s, c) == IF Len(c.v) = 1 THEN [s EXCEPT !.groupCooldown = c.v[1]]
                          ELSE [s EXCEPT !.groupCooldown = c.v[1], !.secondaryCooldown = c.v[2]]

AddVocation(s, c) == [s EXCEPT !.vocations = @ \cup {c.v}]

\* Setters for one kind of spell return nil for the other.
SetInstant(s, c) == IF s.kind # "instant" THEN s
                    ELSE IF c.field = "words" THEN [s EXCEPT !.words = c.v] ELSE SetFlag(s, c)

SetRune(s, c) == IF s.kind # "rune" THEN s ELSE SetNumber(s, c)

OnCastSpell(s, c) == [s EXCEPT !.scripted = TRUE]

Configure(s, c) == CASE c.call = "number" -> SetNumber(s, c)
                [] c.call = "flag" -> SetFlag(s, c)
                [] c.call = "group" -> SetGroup(s, c)
                [] c.call = "groupCooldown" -> SetGroupCooldown(s, c)
                [] c.call = "vocation" -> AddVocation(s, c)
                [] c.call = "instant" -> SetInstant(s, c)
                [] c.call = "rune" -> SetRune(s, c)
                [] c.call = "onCastSpell" -> OnCastSpell(s, c)

Made(script) == FoldLeft(Configure, Blank(script.kind, TRUE), script.calls)

\* A node of spells.xml: the group cooldown is the cooldown unless it is given.
ConfigureSpell(n) == LET s == FoldLeft(Configure, Blank(n.kind, FALSE), n.calls)
                         given == \E k \in DOMAIN n.calls : n.calls[k].call = "groupCooldown"
                     IN  IF given THEN s ELSE [s EXCEPT !.groupCooldown = s.cooldown]

SameKey(s, t) == s.kind = t.kind /\ IF s.kind = "instant" THEN s.words = t.words ELSE s.runeId = t.runeId

\* The first spell of its words, or of its rune, stays.
Emplace(r, s) == IF \E t \in r : SameKey(s, t) THEN r ELSE r \cup {s}

RegisterXml(r, n) == IF ConfigureSpell(n).name \in Reserved THEN r ELSE Emplace(r, ConfigureSpell(n))

RegisterLua(r, script) == IF Made(script).scripted THEN Emplace(r, Made(script)) ELSE r

\* spells.xml, or the scripts: one spell after the other.
RegisterFrom(lua, r, n) == IF lua THEN RegisterLua(r, Scripts[n]) ELSE RegisterXml(r, XmlSpells[n])

LoadFrom(lua, r) ==
    LET all == Len(IF lua THEN Scripts ELSE XmlSpells)
        after[n \in 0 .. all] == IF n = 0 THEN r ELSE RegisterFrom(lua, after[n - 1], n)
    IN  after[all]

(***************************************************************************)
(* Finding a spell                                                         *)
(***************************************************************************)
IsPrefixOf(w, u) == Len(w) <= Len(u) /\ SubSeq(u, 1, Len(w)) = w

\* The instant spell with the longest words that begin the utterance, if the rest may be a parameter.
GetInstantSpell(u) ==
    LET hits    == {s \in reg : s.kind = "instant" /\ IsPrefixOf(s.words, u)}
        longest == {s \in hits : \A t \in hits : Len(t.words) <= Len(s.words)}
    IN  {s \in longest : \/ Len(u) = Len(s.words)
                         \/ /\ "params" \in s.flags
                            /\ Len(u) - Len(s.words) >= 2 /\ u[Len(s.words) + 1] = " "}

\* The parameter is one word (quotes are left out); more words mean the player just talks.
OneWord(u, s) == Cardinality({k \in Len(s.words) + 1 .. Len(u) : u[k] = " "}) <= 1

GetRuneSpell(id) == {s \in reg : s.kind = "rune" /\ s.runeId = id}

(***************************************************************************)
(* Checking, casting, paying                                               *)
(***************************************************************************)
ManaCost(s) == IF s.mana # 0 THEN s.mana ELSE (MaxMana * s.manaPercent) \div 100

\* hasCondition: the end time itself still counts.
HasCondition(k) == cool[k] >= 0

Exhausted(s) == \/ HasCondition(<<"group", s.group>>) \/ HasCondition(<<"spell", s.id>>)
                \/ s.group2 # NoGroup /\ HasCondition(<<"group", s.group2>>)

Knows(s) == IF s.kind = "instant" /\ "learnable" \in s.flags THEN s.name \in caster.learned
            ELSE s.vocations = {} \/ Vocation \in s.vocations

\* A step of a player the scripts' onSpellCheck turns down changes nothing.
PlayerSpellCheck(s) ==
    /\ caster.mode # "cannot"
    /\ \/ caster.mode = "ignores"
       \/ /\ "enabled" \in s.flags
          /\ ~("aggressive" \in s.flags /\ caster.calm)
          /\ caster.mode = "tireless" \/ ~Exhausted(s)
          /\ Level >= s.level
          /\ caster.mana >= ManaCost(s) /\ caster.soul >= s.soul
          /\ Knows(s)

\* InstantSpell::canCast: the spells a player is told he has.
CanCast(s) == /\ caster.mode # "cannot"
              /\ \/ caster.mode = "ignores"
                 \/ IF "learnable" \in s.flags THEN s.name \in caster.learned ELSE s.vocations = {} \/ Vocation \in s.vocations

\* Where an instant spell goes: e.target is the creature attacked, e.named the player the
\* parameter names, e.free the square in front of the caster.
Direction(e) == IF e.free THEN "cast" ELSE "refused"

Throw(e) == IF e.reach THEN "cast" ELSE "refused"

Aim(s, e) ==
    CASE "selftarget" \in s.flags -> "cast"
      [] s.flags \cap {"needtarget", "direction"} # {} /\ "selftarget" \notin s.flags ->
            CASE "params" \in s.flags /\ e.named = "missing" -> "cooled"
              [] (IF "params" \in s.flags THEN e.named = "hidden" ELSE ~e.target) ->
                    IF "direction" \in s.flags THEN Direction(e) ELSE "cooled"
              [] OTHER -> Throw(e)
      [] OTHER -> IF "params" \in s.flags THEN "cast" ELSE Direction(e)

\* Where a rune goes: a refused combat cools the caster down, the other refusals do not.
AimRune(s, e) == CASE ~e.reach -> "refused"
                   [] e.reach /\ e.named = "missing" -> "cooled"
                   [] ("blocking" \in s.flags /\ ~e.free) \/ ("needtarget" \in s.flags /\ ~e.target) -> "refused"
                   [] OTHER -> "cast"

\* addCondition and updateCondition: the later end stays.
AddCooldown(c, k, ticks) == IF ticks > 0 /\ ticks >= c[k] THEN [c EXCEPT ![k] = ticks] ELSE c

\* fault: the second group is forgotten
FirstGroupOnly(c, s) == AddCooldown(AddCooldown(c, <<"spell", s.id>>, s.cooldown), <<"group", s.group>>, s.groupCooldown)

ApplyCooldownConditions(c, s) ==
    LET c1 == AddCooldown(c, <<"spell", s.id>>, s.cooldown)
        c2 == AddCooldown(c1, <<"group", s.group>>, s.groupCooldown)
    IN  AddCooldown(c2, <<"group", s.group2>>, s.secondaryCooldown)

\* What a player may count on after a cast.
Promise(o, s) == [k \in CooldownKeys |-> Max({o[k]} \cup (IF k = <<"spell", s.id>> /\ s.cooldown > 0 THEN {s.cooldown} ELSE {})
                                            \cup (IF k = <<"group", s.group>> /\ s.groupCooldown > 0 THEN {s.groupCooldown} ELSE {})
                                            \cup (IF k = <<"group", s.group2>> /\ s.secondaryCooldown > 0 THEN {s.secondaryCooldown} ELSE {}))]

Early(s) == \/ owed[<<"spell", s.id>>] >= 0 \/ owed[<<"group", s.group>>] >= 0
            \/ s.group2 # NoGroup /\ owed[<<"group", s.group2>>] >= 0

\* postCastSpell after a script that used up some mana itself.
PostCastSpell(q, s, drained) == [q EXCEPT !.mana = Max({0, Max({0, @ - drained}) - ManaCost(s)}), !.soul = Max({0, @ - s.soul})]

Cast(s, drained) ==
    /\ caster' = PostCastSpell(caster, s, drained)
    /\ cool' = IF caster.mode = "tireless" THEN cool ELSE ApplyCooldownConditions(cool, s)
    /\ owed' = Promise(owed, s)
    /\ hasty' = (hasty \/ (caster.mode = "normal" /\ Early(s)))

\* A cast that ends before postCastSpell: only a failed aim may cool the caster down.
Fails(s, drained, aim) ==
    /\ caster' = [caster EXCEPT !.mana = IF aim = "cast" THEN Max({0, @ - drained}) ELSE @]
    /\ cool' = IF aim = "cooled" THEN ApplyCooldownConditions(cool, s) ELSE cool
    /\ UNCHANGED <<owed, hasty>>

Surroundings == [target : BOOLEAN, named : {"found", "missing", "hidden"}, free : BOOLEAN, reach : BOOLEAN]

\* playerSaySpell, playerCastInstant: the script of a spell that was aimed may fail, and may
\* use up mana itself.
SaySpell == \E u \in Utterances : \E s \in GetInstantSpell(u) : \E aim \in {Aim(s, e) : e \in Surroundings} :
               /\ OneWord(u, s) /\ PlayerSpellCheck(s)
               /\ \E drained \in 0 .. 1 : \/ aim = "cast" /\ Cast(s, drained)
                                         \/ Fails(s, drained, aim)
               /\ UNCHANGED <<reg, runes, spellReloads>>

Consumed(s) == IF s.charges > 0 /\ runes.left > 0 THEN [runes EXCEPT !.left = @ - 1, !.used = @ + 1] ELSE runes

\* The script may take the rune away itself; transformItem then finds no place to change it in.
Taken == [runes EXCEPT !.left = 0, !.taken = @ + runes.left]

\* RuneSpell::executeUse: a rune without a script does nothing.
UseRune == \E s \in GetRuneSpell(1) : \E a \in {AimRune(s, e) : e \in Surroundings} :
              LET aim == IF s.scripted \/ a = "cooled" THEN a ELSE "refused"
              IN  /\ runes.left > 0 /\ PlayerSpellCheck(s)
                  /\ \E drained \in 0 .. 1 :
                        \/ aim = "cast" /\ Cast(s, drained) /\ runes' \in {Taken, Consumed(s)}
                        \/ Fails(s, drained, aim) /\ runes' \in {runes} \cup (IF aim = "cast" THEN {Taken} ELSE {})
                  /\ UNCHANGED <<reg, spellReloads>>

CooldownsRun == /\ cool' = [k \in CooldownKeys |-> Max({-1, cool[k] - 1})]
                /\ owed' = [k \in CooldownKeys |-> Max({-1, owed[k] - 1})]
                /\ UNCHANGED <<reg, caster, runes, spellReloads, hasty>>

Recover == /\ caster.mana < MaxMana \/ caster.soul < MaxSoul
           /\ caster' = [caster EXCEPT !.mana = MaxMana, !.soul = MaxSoul]
           /\ UNCHANGED <<reg, cool, runes, spellReloads, owed, hasty>>

ChangeMood == /\ caster' = [caster EXCEPT !.calm = ~@]
              /\ UNCHANGED <<reg, cool, runes, spellReloads, owed, hasty>>

Learn == \E s \in reg : /\ "learnable" \in s.flags
                        /\ caster' = [caster EXCEPT !.learned = (@ \ {s.name}) \cup ({s.name} \ @)]
                        /\ UNCHANGED <<reg, cool, runes, spellReloads, owed, hasty>>

\* Spells::clear and the loading of one source; the spells of the other stay.
ReloadFrom(lua) == /\ spellReloads < MaxReloads
                   /\ reg' = LoadFrom(lua, {s \in reg : s.lua # lua})
                   /\ spellReloads' = spellReloads + 1
                   /\ UNCHANGED <<caster, cool, runes, owed, hasty>>

ReloadXml == ReloadFrom(FALSE)

ReloadScripts == ReloadFrom(TRUE)

Started == LoadFrom(TRUE, LoadFrom(FALSE, {}))

SpellInit == /\ reg = Started
             /\ caster \in {[mode |-> m, mana |-> MaxMana, soul |-> MaxSoul, learned |-> {}, calm |-> FALSE] : m \in Modes}
             /\ cool = [k \in CooldownKeys |-> -1] /\ owed = cool
             /\ runes = [left |-> Charges, used |-> 0, taken |-> 0]
             /\ spellReloads = 0 /\ hasty = FALSE

SpellNext == SaySpell \/ UseRune \/ CooldownsRun \/ Recover \/ ChangeMood \/ Learn \/ ReloadXml \/ ReloadScripts

SpellSpec == SpellInit /\ [][SpellNext]_spellVars

(***************************************************************************)
(* Properties                                                              *)
(***************************************************************************)
SpellTypeOK == /\ caster.mana \in 0 .. MaxMana /\ caster.soul \in 0 .. MaxSoul /\ caster.mode \in Modes
               /\ \A k \in CooldownKeys : cool[k] \in -1 .. MaxCooldown /\ owed[k] \in -1 .. MaxCooldown

\* Between two casts of a spell, or of two spells of a group, lies the whole cooldown of the
\* first, whatever failed casts, reloads and other groups did to the conditions in between
\* (playerSpellCheck, applyCooldownConditions).
CooldownsHold == ~hasty

\* Words name one spell and a rune holds one, so what is cast does not depend on the order of
\* the maps; saying exactly the words of a spell finds that spell (getInstantSpell).
WordsFindTheirSpell == /\ \A s, t \in reg : s # t => ~SameKey(s, t)
                       /\ \A s \in reg : s.kind = "instant" => GetInstantSpell(s.words) = {s}
                       /\ \A u \in Utterances : Cardinality(GetInstantSpell(u)) <= 1

\* The spells a player is listed are those the check lets him know (canCast, playerSpellCheck).
ListedAreKnown == caster.mode \in {"normal", "tireless"} =>
                     \A s \in reg : s.kind = "instant" => (CanCast(s) <=> Knows(s))

\* Every charge of a rune is there, was cast, or was taken by the script (executeUse).
ChargesAddUp == runes.left + runes.used + runes.taken = Charges

\* Whatever failed casts, reloads and other groups do in between, cooldowns last as long as the
\* cast that began them said, words and runes name one spell each, before and after every
\* registration, a player is listed the spells he may cast, and no charge is lost (spells.cpp).
SpellsAgree == SpellTypeOK /\ CooldownsHold /\ WordsFindTheirSpell /\ ListedAreKnown /\ ChargesAddUp

\* The spells of spells.xml and of the scripts.
Offered == {ConfigureSpell(XmlSpells[n]) : n \in DOMAIN XmlSpells} \cup {Made(Scripts[n]) : n \in DOMAIN Scripts}

SpellsAssumption == /\ NoGroup \notin Groups
                    /\ {MaxMana, MaxSoul, Charges, MaxCooldown} \subseteq Nat
                    /\ Utterances \subseteq Seq(STRING)
                    /\ Len(XmlSpells) \in Nat /\ DOMAIN XmlSpells = 1 .. Len(XmlSpells)
                    /\ Len(Scripts) \in Nat /\ DOMAIN Scripts = 1 .. Len(Scripts)
                    /\ \A s \in Offered : /\ s.words \in Seq(STRING) /\ {s.mana, s.manaPercent, s.soul} \subseteq Nat
                                          /\ s.id \in Ids /\ {s.group, s.group2} \subseteq Groups \cup {NoGroup}
                                          /\ {s.cooldown, s.groupCooldown, s.secondaryCooldown} \subseteq 0 .. MaxCooldown

===============================================================================
