-------------------------------- MODULE Chat --------------------------------
(***************************************************************************)
(* Chat channels, guild membership and the muting of talkative players:    *)
(* src/src/chat.cpp, guild.cpp, the channel and speech handlers of         *)
(* game.cpp and what player.cpp and protocolgame.cpp do with them.         *)
(* Channels keep pointers to their users and to those invited, guilds to   *)
(* their members, so that everything that takes a player out of the game,  *)
(* or gives the character a new client, has to clear them.  A channel is   *)
(* <<kind, key>>; the key of a party's channel is the address of the party *)
(***************************************************************************)
EXTENDS Integers, FiniteSets

CONSTANTS Speakers, Normal, Companies, Guilds,   \* players, channels of the file, parties, guilds
          PrivateIds,     \* ids of private channels (100 to 9999)
          Premium,        \* players with premium time
          CannotBeMuted,  \* players with this flag
          Membership,     \* [player -> guild in the database, or None]
          Ranked,         \* guilds that have a rank of level 1
          None,
          MAX_MESSAGEBUFFER, MuteUnit,   \* 5 seconds
          MaxMutes        \* bound: times a player is muted

(* A second mute must be able to wait for the buffer, which gives way      *)
(* every other second.                                                     *)
ChatAssumption ==
  /\ Premium \subseteq Speakers /\ Ranked \subseteq Guilds /\ Membership \in [Speakers -> Guilds \cup {None}]
  /\ None \notin Speakers \cup Guilds \cup Companies /\ PrivateIds \subseteq Nat
  /\ MAX_MESSAGEBUFFER \in Nat /\ MuteUnit \in Nat \ {0, 1} /\ MaxMutes \in Nat

VARIABLES
  users,    \* [open channel -> players in it]
  private,  \* [id of a private channel -> [owner, invites]]
  who,      \* [player -> [on, party, guild, buffer, ticks, muted]]
  mutes,    \* muteCountMap, kept while the server runs
  guilds,   \* [guild in Game::guilds -> membersOnline]
  heard     \* [channel, to] of a message just sent

chatVars == <<users, private, who, mutes, guilds, heard>>

NoChannel == <<"none", None>>
Silence == [channel |-> NoChannel, to |-> {}]
Offline == [on |-> FALSE, party |-> None, guild |-> None, buffer |-> 0, ticks |-> 0, muted |-> 0]
ChatInit == /\ users = [c \in {<<"normal", n>> : n \in Normal} |-> {}]
            /\ private = [id \in {} |-> {}]
            /\ who = [q \in Speakers |-> Offline]
            /\ mutes = [q \in Speakers |-> 1]
            /\ guilds = [g \in {} |-> {}]
            /\ heard = Silence

-----------------------------------------------------------------------------
(* getChannel(): by the player's guild or party; a normal channel if its   *)
(* script lets the player join, a private one if he is invited             *)
CanJoin(verdict) == verdict                        \* the channel's script is asked every time
OnJoin(c, verdict) == c[1] = "normal" => verdict
OnSpeak(c, verdict) == c[1] = "normal" => verdict
IsInvited(q, id) == q = private[id].owner \/ q \in private[id].invites
FindChannel(ch) == IF ch \in DOMAIN users THEN ch ELSE NoChannel
GetChannel(q, c, can) ==
  CASE c[1] = "guild" -> FindChannel(<<"guild", who[q].guild>>)
    [] c[1] = "party" -> FindChannel(<<"party", who[q].party>>)
    [] c[1] = "normal" -> IF CanJoin(can) THEN c ELSE NoChannel
    [] c[1] = "private" -> IF c[2] \in DOMAIN private /\ IsInvited(q, c[2]) THEN c ELSE NoChannel

(* addUser(), removeUser() *)
AddUser(us, ch, q) == [us EXCEPT ![ch] = @ \cup {q}]
RemoveUser(us, ch, q) == [us EXCEPT ![ch] = @ \ {q}]
(* A map of the code with one entry more, and with one less *)
Added(f, k, v) == [x \in DOMAIN f \cup {k} |-> IF x = k THEN v ELSE f[x]]
Erased(f, k) == [x \in DOMAIN f \ {k} |-> f[x]]

(* Chat::createChannel(): for a guild or a party *)
Created(us, q, kind, key) == IF key # None /\ <<kind, key>> \notin DOMAIN us THEN Added(us, <<kind, key>>, {}) ELSE us

(* getPrivateChannel() *)
Owned(q) == {id \in DOMAIN private : private[id].owner = q}

Speechless == heard' = Silence
Online(q) == who[q].on

-----------------------------------------------------------------------------
(* getChannelList(), for the dialog of channels *)
PlayerRequestChannels(q) ==
  /\ Online(q)
  /\ users' = Created(Created(users, q, "guild", who[q].guild), q, "party", who[q].party)
  /\ Speechless /\ UNCHANGED <<private, who, mutes, guilds>>

(* playerOpenChannel() with addUserToChannel(): canJoin and onJoin are the *)
(* verdicts of the channel's script                                        *)
PlayerOpenChannel(q, c, canJoin, onJoin) ==
  LET ch == GetChannel(q, c, canJoin)
  IN  /\ Online(q) /\ ch # NoChannel /\ q \notin users[ch] /\ OnJoin(c, onJoin)
      /\ users' = AddUser(users, ch, q)
      /\ Speechless /\ UNCHANGED <<private, who, mutes, guilds>>

(* removeUserFromChannel(): the owner's private channel is deleted *)
PlayerCloseChannel(q, c, canJoin) ==
  LET ch == GetChannel(q, c, canJoin)
      deleted == ch[1] = "private" /\ private[ch[2]].owner = q
  IN  /\ Online(q) /\ ch # NoChannel /\ q \in users[ch]
      /\ users' = IF deleted THEN Erased(users, ch) ELSE RemoveUser(users, ch, q)
      /\ private' = IF deleted THEN Erased(private, ch[2]) ELSE private
      /\ Speechless /\ UNCHANGED <<who, mutes, guilds>>

(* playerCreatePrivateChannel(): one for each premium player, in the first *)
(* free slot                                                               *)
PlayerCreatePrivateChannel(q) ==
  /\ Online(q) /\ q \in Premium /\ Owned(q) = {}
  /\ \E id \in PrivateIds \ DOMAIN private :
       /\ \A jd \in PrivateIds \ DOMAIN private : id <= jd
       /\ private' = Added(private, id, [owner |-> q, invites |-> {}])
       /\ users' = Added(users, <<"private", id>>, {q})
  /\ Speechless /\ UNCHANGED <<who, mutes, guilds>>

PlayerChannelInvite(q, r) ==
  /\ Online(q) /\ Online(r) /\ q # r
  /\ \E id \in Owned(q) : private' = [private EXCEPT ![id].invites = @ \cup {r}]
  /\ Speechless /\ UNCHANGED <<users, who, mutes, guilds>>

(* excludePlayer() *)
PlayerChannelExclude(q, r) ==
  /\ Online(q) /\ Online(r) /\ q # r
  /\ \E id \in Owned(q) : /\ r \in private[id].invites
                          /\ private' = [private EXCEPT ![id].invites = @ \ {r}]
                          /\ users' = RemoveUser(users, <<"private", id>>, r)
  /\ Speechless /\ UNCHANGED <<who, mutes, guilds>>

(* removeUserFromAllChannels(): out of every channel, out of every list of *)
(* the invited; the player's own private channel closes                    *)
KeepInvite(x, q) == x                                     \* fault: the invitation stays
RemoveInvite(x, q) == [x EXCEPT !.invites = @ \ {q}]
RemoveUserFromAllChannels(q) ==
  /\ private' = [id \in DOMAIN private \ Owned(q) |-> RemoveInvite(private[id], q)]
  /\ users' = [ch \in DOMAIN users \ {<<"private", id>> : id \in Owned(q)} |-> users[ch] \ {q}]

-----------------------------------------------------------------------------
(* removeMember(): a guild without members online is deleted; setGuild()   *)
RemoveMember(gs, g, q) ==
  IF gs[g] = {q} THEN Erased(gs, g) ELSE [gs EXCEPT ![g] = @ \ {q}]
SetGuild(q, g) ==
  LET old == who[q].guild
      joins == g # None /\ g \in Ranked
      joined == IF joins THEN [guilds EXCEPT ![g] = @ \cup {q}] ELSE guilds
  IN  /\ Online(q) /\ g # old /\ (g # None => g \in DOMAIN guilds)
      /\ who' = [who EXCEPT ![q].guild = IF joins THEN g ELSE None]
      /\ guilds' = IF old # None /\ (g = None \/ joins) THEN RemoveMember(joined, old, q) ELSE joined
      /\ Speechless /\ UNCHANGED <<users, private, mutes>>

(* A party is made or joined, and left: Party::leaveParty() takes the      *)
(* party from the player before it asks Chat to take him off its channel,  *)
(* which then finds no channel                                             *)
JoinCompany(q, a) ==
  /\ Online(q) /\ who[q].party = None /\ who' = [who EXCEPT ![q].party = a]
  /\ Speechless /\ UNCHANGED <<users, private, mutes, guilds>>
LeaveCompany(q) ==
  /\ Online(q) /\ who[q].party # None /\ who' = [who EXCEPT ![q].party = None]
  /\ Speechless /\ UNCHANGED <<users, private, mutes, guilds>>

(* loadPlayer() finds or loads the guild, onCreatureAppear() adds the      *)
(* member; onRemoveCreature() takes the player out of everything; connect()*)
(* gives a character that is in the game to a new client                   *)
EnterGame(q) ==
  LET g == Membership[q]
  IN  /\ ~Online(q)
      /\ who' = [who EXCEPT ![q].on = TRUE, ![q].guild = g]
      /\ guilds' = IF g = None THEN guilds
                   ELSE IF g \in DOMAIN guilds THEN [guilds EXCEPT ![g] = @ \cup {q}] ELSE Added(guilds, g, {q})
      /\ Speechless /\ UNCHANGED <<users, private, mutes>>
LeaveGame(q) ==
  /\ Online(q)
  /\ RemoveUserFromAllChannels(q)
  /\ guilds' = IF who[q].guild # None THEN RemoveMember(guilds, who[q].guild, q) ELSE guilds
  /\ who' = [who EXCEPT ![q] = [Offline EXCEPT !.muted = who[q].muted]]     \* a mute is saved
  /\ Speechless /\ UNCHANGED mutes
Reconnect(q) == /\ Online(q) /\ RemoveUserFromAllChannels(q) /\ Speechless /\ UNCHANGED <<who, mutes, guilds>>

(* Chat::load() again: every user joins anew, and may be refused *)
Reload(kept) == /\ users' = [ch \in DOMAIN users |-> IF ch[1] = "normal" THEN users[ch] \cap kept ELSE users[ch]]
                /\ users' # users
                /\ Speechless /\ UNCHANGED <<private, who, mutes, guilds>>

-----------------------------------------------------------------------------
(* removeMessageBuffer(): too many messages mute, longer each time *)
MuteTime(n) == MuteUnit * n * n
Counts(q) == q \notin CannotBeMuted /\ MAX_MESSAGEBUFFER # 0 /\ who[q].buffer <= MAX_MESSAGEBUFFER + 1
Overflows(q) == Counts(q) /\ who[q].buffer + 1 > MAX_MESSAGEBUFFER
LongerMute(a, b) == IF a > b THEN a ELSE b
RemoveMessageBuffer(q) ==
  /\ Overflows(q) => mutes[q] <= MaxMutes
  /\ who' = [who EXCEPT ![q].buffer = IF Counts(q) THEN @ + 1 ELSE @,
                        ![q].muted = IF Overflows(q) THEN LongerMute(@, MuteTime(mutes[q])) ELSE @]
  /\ mutes' = IF Overflows(q) THEN [mutes EXCEPT ![q] = @ + 1] ELSE mutes

(* talkToChannel() and talk(): to everyone in the channel, if the speaker  *)
(* is, and the script agrees; playerSay() in a channel                     *)
Talk(ch, q) == IF q \in users[ch] THEN [channel |-> ch, to |-> users[ch]] ELSE Silence
TalkToChannel(q, c, canJoin, onSpeak) ==
  LET ch == GetChannel(q, c, canJoin) IN IF ch # NoChannel /\ OnSpeak(c, onSpeak) THEN Talk(ch, q) ELSE Silence
IsMuted(q) == q \notin CannotBeMuted /\ who[q].muted > 0
PlayerSay(q, c, canJoin, onSpeak) ==
  /\ Online(q) /\ ~IsMuted(q)
  /\ RemoveMessageBuffer(q)
  /\ heard' = TalkToChannel(q, c, canJoin, onSpeak)
  /\ UNCHANGED <<users, private, guilds>>

(* onThink() with addMessageBuffer(), then executeConditions(): a second *)
AddMessageBuffer(q) == who[q].buffer > 0 /\ MAX_MESSAGEBUFFER # 0 /\ q \notin CannotBeMuted
Think(q) ==
  LET due == who[q].ticks + 1000 >= 1500
  IN  /\ Online(q)
      /\ who' = [who EXCEPT ![q].ticks = IF due THEN 0 ELSE @ + 1000,
                            ![q].buffer = IF due /\ AddMessageBuffer(q) THEN @ - 1 ELSE @,
                            ![q].muted = IF @ > 0 THEN @ - 1 ELSE 0]
      /\ Speechless /\ UNCHANGED <<users, private, mutes, guilds>>

Channels == ({"normal"} \X Normal) \cup ({"private"} \X PrivateIds) \cup ({"guild", "party"} \X {None})
ChatNext == \E q \in Speakers :
  \/ PlayerRequestChannels(q) \/ PlayerCreatePrivateChannel(q)
  \/ \E c \in Channels, can, may \in BOOLEAN :
       PlayerOpenChannel(q, c, can, may) \/ PlayerCloseChannel(q, c, can) \/ PlayerSay(q, c, can, may)
  \/ \E r \in Speakers : PlayerChannelInvite(q, r) \/ PlayerChannelExclude(q, r)
  \/ \E g \in Guilds \cup {None} : SetGuild(q, g)
  \/ \E a \in Companies : JoinCompany(q, a)
  \/ LeaveCompany(q) \/ EnterGame(q) \/ LeaveGame(q) \/ Reconnect(q) \/ Think(q)
  \/ \E kept \in SUBSET Speakers : Reload(kept)

ChatSpec == ChatInit /\ [][ChatNext]_chatVars

-----------------------------------------------------------------------------
ChatTypeOK ==
  /\ \A ch \in DOMAIN users : users[ch] \subseteq Speakers
  /\ DOMAIN private \subseteq PrivateIds
  /\ \A q \in Speakers : who[q].muted \in Nat /\ who[q].buffer \in 0..(MAX_MESSAGEBUFFER + 2)

(* No channel and no list of the invited keeps a pointer to a player who   *)
(* is out of the game, whatever he was in (removeUserFromAllChannels).     *)
UsersAreOnline ==
  /\ \A ch \in DOMAIN users : \A q \in users[ch] : Online(q)
  /\ \A id \in DOMAIN private : \A q \in private[id].invites : Online(q)

(* A private channel lives exactly as long as its owner is in it; a player *)
(* has one at most, and what is said there is heard by the owner and those *)
(* invited only, through exclusions, reconnections and logouts.            *)
PrivateIsPrivate ==
  /\ \A id \in DOMAIN private : /\ private[id].owner \in users[<<"private", id>>]
                                /\ users[<<"private", id>>] \subseteq private[id].invites \cup {private[id].owner}
  /\ \A id, jd \in DOMAIN private : private[id].owner = private[jd].owner => id = jd
  /\ heard.channel[1] = "private"
       => heard.to \subseteq private[heard.channel[2]].invites \cup {private[heard.channel[2]].owner}

(* A guild is in memory exactly while a member is online, and its list has *)
(* the players that point to it (setGuild, removeMember, login, logout).   *)
GuildsAgree ==
  /\ \A q \in Speakers : who[q].guild # None => who[q].guild \in DOMAIN guilds
  /\ \A g \in DOMAIN guilds : guilds[g] # {} /\ guilds[g] = {q \in Speakers : Online(q) /\ who[q].guild = g}

(* A mute outlasts the excess of messages: who may speak has room in the   *)
(* buffer, so no burst slips through after a mute (removeMessageBuffer     *)
(* counts no further beyond the limit).                                    *)
MuteOutlasts == MAX_MESSAGEBUFFER # 0 =>
  \A q \in Speakers \ CannotBeMuted : who[q].buffer > MAX_MESSAGEBUFFER => who[q].muted > 0

ChatAgrees == ChatTypeOK /\ UsersAreOnline /\ PrivateIsPrivate /\ GuildsAgree /\ MuteOutlasts
=============================================================================
