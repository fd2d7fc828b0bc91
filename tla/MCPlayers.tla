----------------------------- MODULE MCPlayers -----------------------------
(***************************************************************************)
(* Who may play, in which company, and who hears what he says: Party,      *)
(* GameSession, WaitList and Chat for TLC.  Parties are there as two       *)
(* rivals, as one that is larger, and for the sharing of experience; Chat  *)
(* for the channels of two players whom nobody may mute, and for the       *)
(* muting of a third.  They have no state in common, so that one run       *)
(* explores them side by side: `part' is the one that moves.               *)
(***************************************************************************)
EXTENDS Party, GameSession, WaitList, Chat, TLC

CONSTANTS p1, p2, p3,   \* clients, players that wait, players with a party
          p4,           \* one more player, a gamemaster when they wait
          u1, u2, u3,   \* players that speak
          g1, g2        \* parties, guilds

VARIABLES part

allVars == <<part, sessionVars, waitVars, vars, chatVars>>

GuildOf == u1 :> g1 @@ u2 :> g1 @@ u3 :> None

ASSUME /\ GameSessionAssumption /\ PartyAssumption /\ WaitListAssumption
       /\ ChatAssumption /\ Ranked = Guilds

(* The parts of Party bound who takes part: p4 keeps to himself, no second *)
(* party is founded, all stay where they are and keep their level.         *)
Alone(p) == p \in online /\ party[p] = NoParty /\ invitations[p] = {}
Unfounded(g) == ~Live(g)
AllTogether == level \in [Players -> {8}] /\ zone \in [Players -> {"a"}]
Bounds == /\ part # "structure" => Alone(p4)
          /\ part # "rivals" => Unfounded(g2)
          /\ part # "sharing" => AllTogether

(* u3 talks to nobody in particular; the seconds of the others, whom no    *)
(* message mutes, are not counted.                                         *)
Loners == \A ch \in DOMAIN users : users[ch] = {}
Hears(q) == q = u3 /\ who[q].party = None /\ private = [id \in {} |-> {}] /\ Loners
ChatBounds == /\ part = "channels" => who[u3] = Offline /\ \A q \in {u1, u2} : who[q].ticks = 0
              /\ part = "muting" => who[u1] = Offline /\ who[u2] = Offline /\ Hears(u3)

SuiteInit == /\ part \in {"session", "waiting", "rivals", "structure", "sharing", "channels", "muting"}
             /\ SessionInit /\ WaitInit
             /\ Init /\ (part = "sharing" => level[p4] = 8 /\ zone[p4] = "a") /\ Bounds
             /\ ChatInit

PartyNext == part \in {"rivals", "structure", "sharing"} /\ Next /\ Bounds'
TalkNext == part \in {"channels", "muting"} /\ ChatNext /\ ChatBounds'

SuiteNext == \/ part = "session" /\ SessionNext /\ UNCHANGED <<part, waitVars, vars, chatVars>>
             \/ part = "waiting" /\ WaitNext /\ UNCHANGED <<part, sessionVars, vars, chatVars>>
             \/ UNCHANGED part /\ PartyNext /\ UNCHANGED <<sessionVars, waitVars, chatVars>>
             \/ UNCHANGED part /\ TalkNext /\ UNCHANGED <<sessionVars, waitVars, vars>>

SuiteSpec == SuiteInit /\ [][SuiteNext]_allVars

Symmetry == Permutations({p1, p2, p3})
-----------------------------------------------------------------------------
(* SessionAgrees, PartiesAgree, PartyOutlivesLeader, AdmissionIsFair and   *)
(* ChatAgrees are those of the modules.                                    *)
=============================================================================
