----------------------------- MODULE GameProofs -----------------------------
(***************************************************************************)
(* Theorems about the parts of the game that players share: the pokemon of *)
(* a trainer and their balls (Trainers), the chat channels (Chat), the     *)
(* safe trade (Trade), the wild pokemon of a spawn (Population), the       *)
(* parties (Party) and the houses (Houses).  Each part has an inductive    *)
(* invariant of its own, and one lemma for each of its operations.         *)
(***************************************************************************)
EXTENDS Trainers, Chat, Trade, Population, Party, Houses, FiniteSetTheorems, WellFoundedInduction, TLAPS

-----------------------------------------------------------------------------
(* Trainers: ball and pokemon *)

\* What ties a pokemon that is out to its ball: its trainer is online, and the
\* ball is in his slot without its icon.  (OutOfItsBall says more: that nothing
\* else is tied to them.)
Paired == \A g \in Caught : out[g] =>
             /\ master[g] \in online
             /\ ball[g] = <<"slot", master[g]>>
             /\ ~charged[g]

\* A pokemon that is not out has no trainer.
Inside == \A g \in Caught : ~out[g] => master[g] = NoKeeper

\* A slot holds one ball.
OneBall == \A p \in Keeper : \A g, h \in InSlot(p) : g = h

TrainerInv == TypeOKTrainers /\ Paired /\ Inside /\ OneBall

\* Where a ball may be: a place of a player, or a place of nobody.
LEMMA BallPlaces ==
    ASSUME NEW b \in Places
    PROVE  /\ b = <<b[1], b[2]>>
           /\ b[2] \in Keeper \cup {NoKeeper}
           /\ b[1] \in {"coming", "slot", "bag", "inbox"} => b[2] \in Keeper
  BY DEF Places

\* The places a ball is moved to exist.
LEMMA PlacesThere ==
    /\ \A p \in Keeper : /\ <<"coming", p>> \in Places /\ <<"slot", p>> \in Places
                         /\ <<"bag", p>> \in Places /\ <<"inbox", p>> \in Places
    /\ <<"ground", NoKeeper>> \in Places /\ <<"lost", NoKeeper>> \in Places
    /\ <<"none", NoKeeper>> \in Places
  BY DEF Places

\* The invariant is strong enough: a second pokemon of the same trainer would be
\* out with its ball in the same slot.
LEMMA TrainerInvSuffices == TrainerInv => OutOfItsBall
<1> SUFFICES ASSUME TrainerInv, NEW g \in Caught, out[g]
             PROVE  /\ master[g] \in online /\ HisPokemon(master[g]) = {g}
                    /\ ball[g] = <<"slot", master[g]>> /\ InSlot(master[g]) = {g}
                    /\ ~charged[g]
  BY DEF TrainerInv, OutOfItsBall
<1>1. master[g] \in online /\ ball[g] = <<"slot", master[g]>> /\ ~charged[g]
  BY DEF TrainerInv, Paired
<1>2. master[g] \in Keeper /\ master[g] # NoKeeper
  BY <1>1, TrainersConstants DEF TrainerInv, TypeOKTrainers
<1>3. InSlot(master[g]) = {g}
  BY <1>1, <1>2 DEF TrainerInv, OneBall, InSlot
<1>4. ASSUME NEW h \in Caught, master[h] = master[g]
      PROVE  h = g
  <2>1. out[h]
    BY <1>2, <1>4 DEF TrainerInv, Inside, TypeOKTrainers
  <2>2. ball[h] = <<"slot", master[g]>>
    BY <1>4, <2>1 DEF TrainerInv, Paired
  <2> QED BY <2>2, <1>3 DEF InSlot
<1> QED BY <1>1, <1>3, <1>4 DEF HisPokemon

\* A ball that is moved, from a place where no pokemon is out of it, and goes to a
\* free slot or to no slot, breaks no pair.
LEMMA BallMoves ==
    ASSUME TrainerInv, NEW g \in Caught, ~out[g], NEW b \in Places,
           \A p \in Keeper : b = <<"slot", p>> => InSlot(p) = {},
           ball' = [ball EXCEPT ![g] = b],
           UNCHANGED <<charged, master, out, fainted, online>>
    PROVE  TrainerInv'
<1>1. TypeOKTrainers'
  BY DEF TrainerInv, TypeOKTrainers, Places
<1>2. Paired'
  BY DEF TrainerInv, TypeOKTrainers, Paired
<1>3. Inside'
  BY DEF TrainerInv, Inside
<1>4. ASSUME NEW p \in Keeper, NEW h \in InSlot(p)', NEW k \in InSlot(p)'
      PROVE  h = k
  <2>1. h \in Caught /\ k \in Caught /\ ball'[h] = <<"slot", p>> /\ ball'[k] = <<"slot", p>>
    BY DEF InSlot
  <2>2. \A x \in Caught : x # g => ball'[x] = ball[x]
    OBVIOUS
  <2>3. ball'[g] = b
    BY DEF TrainerInv, TypeOKTrainers
  <2>4. CASE h # g /\ k # g
    BY <2>1, <2>2, <2>4 DEF TrainerInv, OneBall, InSlot
  <2>5. CASE b = <<"slot", p>>
    BY <2>1, <2>2, <2>5 DEF InSlot
  <2>6. CASE b # <<"slot", p>>
    BY <2>1, <2>3, <2>4, <2>6
  <2> QED BY <2>5, <2>6
<1> QED BY <1>1, <1>2, <1>3, <1>4 DEF TrainerInv, OneBall

\* Pokemon that are called back: the others keep what ties them to their balls, if
\* the balls that get their icons back, and the trainers who go, are not theirs.
LEMMA CallingBack ==
    ASSUME TrainerInv, NEW gs, CalledBack(gs), ball' = ball,
           charged' \in [Caught -> BOOLEAN], fainted' = fainted, online' \subseteq online,
           \A g \in Caught \ gs : out[g] => /\ charged'[g] = charged[g]
                                            /\ master[g] \in online'
    PROVE  TrainerInv'
<1>1. TypeOKTrainers'
  BY DEF TrainerInv, TypeOKTrainers, CalledBack
<1>2. Paired'
  BY DEF TrainerInv, TypeOKTrainers, Paired, CalledBack
<1>3. Inside'
  BY DEF TrainerInv, TypeOKTrainers, Inside, CalledBack
<1>4. OneBall'
  BY DEF TrainerInv, OneBall, InSlot
<1> QED BY <1>1, <1>2, <1>3, <1>4 DEF TrainerInv

\* A pokemon that is out with its ball in the slot of p is one of his.
LEMMA HisBall ==
    ASSUME TrainerInv, NEW p \in Keeper, NEW g \in InSlot(p), out[g]
    PROVE  g \in HisPokemon(p)
  BY DEF TrainerInv, Paired, InSlot, HisPokemon

\* The ball is used: whoever is out comes back, or the pokemon of this ball goes out,
\* when no other of this trainer is.
LEMMA GobackKeeps ==
    ASSUME TrainerInv, NEW p \in Keeper, GobackPokemon(p)
    PROVE  TrainerInv'
<1> PICK item \in InSlot(p) :
         \/ /\ HisPokemon(p) # {}
            /\ CalledBack(HisPokemon(p))
            /\ charged' = [charged EXCEPT ![item] = TRUE]
         \/ /\ HisPokemon(p) = {} /\ ~fainted[item]
            /\ out' = [out EXCEPT ![item] = TRUE]
            /\ master' = [master EXCEPT ![item] = p]
            /\ charged' = [charged EXCEPT ![item] = FALSE]
  BY DEF GobackPokemon
<1>1. p \in online /\ ball' = ball /\ fainted' = fainted /\ online' = online
  BY DEF GobackPokemon
<1>2. item \in Caught /\ ball[item] = <<"slot", p>>
  BY DEF InSlot
<1>3. CASE /\ CalledBack(HisPokemon(p))
           /\ charged' = [charged EXCEPT ![item] = TRUE]
  <2>1. charged' \in [Caught -> BOOLEAN]
    BY <1>2, <1>3 DEF TrainerInv, TypeOKTrainers
  <2>2. ASSUME NEW g \in Caught \ HisPokemon(p), out[g]
        PROVE  charged'[g] = charged[g] /\ master[g] \in online'
    BY <2>2, <1>1, <1>2, <1>3, HisBall DEF TrainerInv, TypeOKTrainers, Paired
  <2> QED BY <1>1, <1>3, <2>1, <2>2, CallingBack
<1>4. CASE /\ HisPokemon(p) = {}
           /\ out' = [out EXCEPT ![item] = TRUE]
           /\ master' = [master EXCEPT ![item] = p]
           /\ charged' = [charged EXCEPT ![item] = FALSE]
  <2>1. TypeOKTrainers'
    BY <1>1, <1>2, <1>4 DEF TrainerInv, TypeOKTrainers
  <2>2. Paired'
    BY <1>1, <1>2, <1>4 DEF TrainerInv, TypeOKTrainers, Paired
  <2>3. Inside'
    BY <1>1, <1>2, <1>4 DEF TrainerInv, TypeOKTrainers, Inside
  <2>4. OneBall'
    BY <1>1 DEF TrainerInv, OneBall, InSlot
  <2> QED BY <2>1, <2>2, <2>3, <2>4 DEF TrainerInv
<1> QED BY <1>3, <1>4

\* A trainer who leaves calls his pokemon back first.
LEMMA LeavingKeeps ==
    ASSUME TrainerInv, NEW p \in Keeper, Logout(p) \/ RemovePlayer(p)
    PROVE  TrainerInv'
<1>1. /\ ball' = ball /\ fainted' = fainted /\ online' = online \ {p}
      /\ CalledBack(HisPokemon(p))
  BY DEF Logout, RemovePlayer
<1>2. charged' \in [Caught -> BOOLEAN]
  BY DEF Logout, RemovePlayer, TrainerInv, TypeOKTrainers
<1>3. ASSUME NEW g \in Caught \ HisPokemon(p), out[g]
      PROVE  charged'[g] = charged[g] /\ master[g] \in online'
  <2>1. master[g] \in online'
    BY <1>1, <1>3 DEF TrainerInv, Paired, HisPokemon
  <2>2. g \notin InSlot(p)
    BY <1>3, HisBall
  <2>3. charged'[g] = charged[g]
    BY <2>2, <1>3 DEF Logout, RemovePlayer, TrainerInv, TypeOKTrainers
  <2> QED BY <2>1, <2>3
<1> QED BY <1>1, <1>2, <1>3, CallingBack

\* The catch event puts the ball into an empty slot, or elsewhere, or loses it.
LEMMA SendKeeps ==
    ASSUME TrainerInv, NEW g \in Caught, SendPokemon(g)
    PROVE  TrainerInv'
<1>1. ball[g][1] = "coming" /\ ball[g] \in Places
  BY DEF SendPokemon, TrainerInv, TypeOKTrainers
<1>2. ball[g][2] \in Keeper
  BY <1>1, BallPlaces
<1>3. ~out[g]
  BY <1>1 DEF TrainerInv, Paired
<1>4. \E b \in Places : /\ ball' = [ball EXCEPT ![g] = b]
                        /\ \A p \in Keeper : b = <<"slot", p>> => InSlot(p) = {}
  BY <1>2, PlacesThere DEF SendPokemon
<1>5. UNCHANGED <<charged, master, out, fainted, online>>
  BY DEF SendPokemon
<1> QED BY <1>3, <1>4, <1>5, BallMoves

\* A ball whose pokemon is out stays where it is (MayLeave).
LEMMA MoveKeeps ==
    ASSUME TrainerInv, NEW g \in Caught, MoveBall(g)
    PROVE  TrainerInv'
<1>1. ~out[g]
  BY DEF MoveBall, MayLeave, HisPokemon, TrainerInv, Paired
<1>2. online \subseteq Keeper
  BY DEF TrainerInv, TypeOKTrainers
<1>3. \E b \in Places : /\ ball' = [ball EXCEPT ![g] = b]
                        /\ \A p \in Keeper : b = <<"slot", p>> => InSlot(p) = {}
  BY <1>2, PlacesThere DEF MoveBall
<1>4. UNCHANGED <<charged, master, out, fainted, online>>
  BY DEF MoveBall
<1> QED BY <1>1, <1>3, <1>4, BallMoves

\* A wild pokemon becomes a ball that is on its way; nobody is out of it.
LEMMA CatchKeeps ==
    ASSUME TrainerInv, NEW g \in Caught, NEW p \in Keeper, TryCatchPokemon(p, g)
    PROVE  TrainerInv'
<1>1. ~out[g]
  BY DEF TryCatchPokemon, TrainerInv, Paired
<1>2. <<"coming", p>> \in Places /\ \A q \in Keeper : <<"coming", p>> # <<"slot", q>>
  BY PlacesThere
<1>3. /\ ball' = [ball EXCEPT ![g] = <<"coming", p>>]
      /\ UNCHANGED <<charged, master, out, fainted, online>>
  BY DEF TryCatchPokemon
<1> QED BY <1>1, <1>2, <1>3, BallMoves

\* The invariant holds in the beginning,
LEMMA TrainersStart == TrainersInit => TrainerInv
<1> SUFFICES ASSUME TrainersInit PROVE TrainerInv
  OBVIOUS
<1>1. TypeOKTrainers
  BY PlacesThere DEF TrainersInit, TypeOKTrainers
<1>2. \A g \in Caught : ball[g] = <<"none", NoKeeper>> /\ ~out[g] /\ master[g] = NoKeeper
  BY DEF TrainersInit
<1>3. OneBall
  <2>1. \A p \in Keeper : <<"none", NoKeeper>> # <<"slot", p>>
    OBVIOUS
  <2> QED BY <1>2, <2>1 DEF OneBall, InSlot
<1> QED BY <1>1, <1>2, <1>3 DEF TrainerInv, Paired, Inside

\* and is kept by every step.
LEMMA TrainersStep == TrainerInv /\ [TrainersNext]_trainerVars => TrainerInv'
<1> SUFFICES ASSUME TrainerInv, [TrainersNext]_trainerVars PROVE TrainerInv'
  OBVIOUS
<1>1. ASSUME NEW p \in Keeper, Login(p) PROVE TrainerInv'
  BY <1>1 DEF Login, TrainerInv, TypeOKTrainers, Paired, Inside, OneBall, InSlot
<1>2. CASE Faints
  BY <1>2 DEF Faints, TrainerInv, TypeOKTrainers, Paired, Inside, OneBall, InSlot
<1>3. CASE Healed
  BY <1>3 DEF Healed, TrainerInv, TypeOKTrainers, Paired, Inside, OneBall, InSlot
<1>4. CASE OnDeath
  <2> PICK g \in Caught : CalledBack({g}) /\ UNCHANGED <<ball, charged, fainted, online>>
    BY <1>4 DEF OnDeath
  <2> QED BY CallingBack DEF TrainerInv, TypeOKTrainers, Paired
<1>5. CASE UNCHANGED trainerVars
  BY <1>5 DEF trainerVars, TrainerInv, TypeOKTrainers, Paired, Inside, OneBall, InSlot
<1> QED BY <1>1, <1>2, <1>3, <1>4, <1>5, GobackKeeps, LeavingKeeps, SendKeeps, MoveKeeps,
           CatchKeeps DEF TrainersNext

\* Ball and pokemon stay together, whoever calls, faints, trades, logs out or is
\* lost: a pokemon that is out has one trainer, who is online, and its own empty
\* ball is the one in his slot.
THEOREM BallStaysWithTrainer == TrainersSpec => []OutOfItsBall
<1>1. TrainersSpec => []TrainerInv
  BY TrainersStart, TrainersStep, PTL DEF TrainersSpec
<1> QED BY <1>1, TrainerInvSuffices, PTL

-----------------------------------------------------------------------------
(* Chat: a channel and its users *)

\* What a new channel needs beside the property: that the ids of private channels
\* are those they are given.
ChatInv == ChannelsSound /\ Private \subseteq PrivateId

\* The first free id, and the least of a set of numbers in general: it has one.
LEMMA FirstFree ==
    ASSUME NEW S \in SUBSET Nat, S # {}
    PROVE  (CHOOSE i \in S : \A j \in S : i <= j) \in S
           /\ \E i \in S : \A j \in S : i <= j
<1>1. \E x \in S : \A y \in S : ~ (<<y, x>> \in OpToRel(<, Nat))
  BY NatLessThanWellFounded, WFMin
<1>2. PICK x \in S : \A y \in S : <<y, x>> \notin OpToRel(<, Nat)
  BY <1>1
<1>3. ASSUME NEW y \in S PROVE x <= y
  <2>1. x \in Nat /\ y \in Nat
    OBVIOUS
  <2>2. ~(y < x)
    BY <1>2, <2>1 DEF OpToRel
  <2> QED BY <2>1, <2>2
<1> QED BY <1>3

\* The conjuncts of the property for one private channel, after a step that keeps
\* its owner: what is left to look at is who is in it and who may be.
LEMMA OneChannel ==
    ASSUME ChatInv, NEW c \in Private
    PROVE  /\ c \in Rooms /\ c \in DOMAIN invites /\ c \in PrivateId /\ c \notin Public
           /\ users[c] \subseteq chatting /\ invites[c] \subseteq chatting
           /\ owner[c] \in users[c]
           /\ \A p \in users[c] : p = owner[c] \/ p \in invites[c]
           /\ \A d \in Private : owner[c] = owner[d] => c = d
  BY ChatConstants DEF ChatInv, ChannelsSound, IsInvitedTo

\* A new private channel has the owner alone in it; its id was free.
LEMMA CreateKeeps ==
    ASSUME ChatInv, NEW p \in Talker, PlayerCreatePrivateChannel(p)
    PROVE  ChatInv'
<1> DEFINE c == CHOOSE i \in PrivateId \ Private : \A j \in PrivateId \ Private : i <= j
<1>1. c \in PrivateId \ Private
  <2>1. PrivateId \ Private \in SUBSET Nat /\ PrivateId \ Private # {}
    BY ChatConstants DEF PlayerCreatePrivateChannel
  <2> QED BY <2>1, FirstFree
<1>2. /\ users' = Extended(users, c, {p})
      /\ invites' = Extended(invites, c, {})
      /\ owner' = Extended(owner, c, p)
      /\ chatting' = chatting /\ p \in chatting
      /\ \A d \in Private : owner[d] # p
  BY DEF PlayerCreatePrivateChannel
<1> HIDE DEF c
<1>3. /\ Rooms' = Rooms \cup {c} /\ Private' = Private \cup {c}
      /\ (DOMAIN invites)' = DOMAIN invites \cup {c}
      /\ \A d \in Rooms' : users'[d] = IF d = c THEN {p} ELSE users[d]
      /\ \A d \in Private' : owner'[d] = IF d = c THEN p ELSE owner[d]
      /\ \A d \in (DOMAIN invites)' : invites'[d] = IF d = c THEN {} ELSE invites[d]
  BY <1>2 DEF Extended, Rooms, Private
<1>4. /\ \A d \in Rooms' : users'[d] \subseteq chatting'
      /\ Private' = (DOMAIN invites)' /\ Private' \subseteq Rooms'
      /\ Private' \subseteq PrivateId
  <2>1. ASSUME NEW d \in Rooms' PROVE users'[d] \subseteq chatting'
    <3>1. d # c => users[d] \subseteq chatting
      BY <1>3, <2>1 DEF ChatInv, ChannelsSound
    <3> QED BY <1>2, <1>3, <2>1, <3>1
  <2>2. Private = DOMAIN invites /\ Private \subseteq Rooms /\ Private \subseteq PrivateId
    BY DEF ChatInv, ChannelsSound
  <2> QED BY <1>1, <1>3, <2>1, <2>2
<1>5. ASSUME NEW d \in Private'
      PROVE  /\ invites'[d] \subseteq chatting'
             /\ owner'[d] \in users'[d]
             /\ \A q \in users'[d] : IsInvitedTo(d, q)'
             /\ \A e \in Private' : owner'[d] = owner'[e] => d = e
  <2>1. CASE d = c
    BY <1>2, <1>3, <1>4, <2>1 DEF IsInvitedTo
  <2>2. CASE d # c
    BY <1>2, <1>3, <1>4, <2>2, OneChannel DEF IsInvitedTo
  <2> QED BY <2>1, <2>2
<1> QED BY <1>4, <1>5 DEF ChatInv, ChannelsSound

\* Some channels are closed, and some players leave those that stay and the lists of
\* who is invited.
LEMMA Closing ==
    ASSUME ChatInv, NEW S, NEW P,
           users' = [c \in Rooms \ S |-> users[c] \ P],
           invites' = [c \in Private \ S |-> invites[c] \ P],
           owner' = Only(owner, Private \ S),
           \A c \in Private \ S : owner[c] \notin P,
           chatting' = chatting \ P
    PROVE  ChatInv'
<1>1. /\ Rooms' = Rooms \ S /\ Private' = Private \ S
      /\ (DOMAIN invites)' = Private \ S
      /\ \A c \in Rooms' : users'[c] = users[c] \ P
      /\ \A c \in Private' : owner'[c] = owner[c]
      /\ \A c \in Private' : invites'[c] = invites[c] \ P
  BY DEF Only, Rooms, Private
<1>2. /\ \A c \in Rooms' : users'[c] \subseteq chatting'
      /\ Private' = (DOMAIN invites)' /\ Private' \subseteq Rooms'
      /\ Private' \subseteq PrivateId
  BY <1>1 DEF ChatInv, ChannelsSound
<1>3. ASSUME NEW c \in Private'
      PROVE  /\ invites'[c] \subseteq chatting'
             /\ owner'[c] \in users'[c]
             /\ \A q \in users'[c] : IsInvitedTo(c, q)'
             /\ \A e \in Private' : owner'[c] = owner'[e] => c = e
  BY <1>1, <1>2, OneChannel DEF IsInvitedTo
<1> QED BY <1>2, <1>3 DEF ChatInv, ChannelsSound

\* The private channels stay, and who is in one or invited to it is still right.
LEMMA Staying ==
    ASSUME ChatInv, owner' = owner, (DOMAIN invites)' = DOMAIN invites,
           Rooms \subseteq Rooms',
           \A c \in Rooms' : users'[c] \subseteq chatting',
           \A c \in Private : /\ invites'[c] \subseteq chatting'
                              /\ owner[c] \in users'[c]
                              /\ \A q \in users'[c] : q = owner[c] \/ q \in invites'[c]
    PROVE  ChatInv'
<1>1. Private' = Private
  BY DEF Private
<1> QED BY <1>1 DEF ChatInv, ChannelsSound, IsInvitedTo

\* An invitation is given to somebody who is there.
LEMMA InviteKeeps ==
    ASSUME ChatInv, NEW p \in Talker, NEW q \in Talker, PlayerChannelInvite(p, q)
    PROVE  ChatInv'
<1> PICK c \in Private : invites' = [invites EXCEPT ![c] = @ \cup {q}]
  BY DEF PlayerChannelInvite
<1>1. q \in chatting /\ users' = users /\ owner' = owner /\ chatting' = chatting
  BY DEF PlayerChannelInvite
<1>2. Rooms' = Rooms /\ \A d \in Rooms' : users'[d] \subseteq chatting'
  BY <1>1 DEF ChatInv, ChannelsSound, Rooms
<1>3. /\ (DOMAIN invites)' = DOMAIN invites
      /\ \A d \in DOMAIN invites : /\ invites[d] \subseteq invites'[d]
                                   /\ invites'[d] \subseteq invites[d] \cup {q}
  OBVIOUS
<1>4. ASSUME NEW d \in Private
      PROVE  /\ invites'[d] \subseteq chatting'
             /\ owner[d] \in users'[d]
             /\ \A k \in users'[d] : k = owner[d] \/ k \in invites'[d]
  BY <1>1, <1>3, OneChannel
<1> QED BY <1>1, <1>2, <1>3, <1>4, Staying

\* Who is excluded loses both the invitation and the place in the channel.
LEMMA ExcludeKeeps ==
    ASSUME ChatInv, NEW p \in Talker, NEW q \in Talker, PlayerChannelExclude(p, q)
    PROVE  ChatInv'
<1> PICK c \in Private : /\ owner[c] = p
                         /\ invites' = [invites EXCEPT ![c] = @ \ {q}]
                         /\ users' = [users EXCEPT ![c] = @ \ {q}]
  BY DEF PlayerChannelExclude
<1>1. p # q /\ owner' = owner /\ chatting' = chatting
  BY DEF PlayerChannelExclude
<1>2. /\ (DOMAIN invites)' = DOMAIN invites /\ Rooms' = Rooms
      /\ \A d \in Rooms : users'[d] = IF d = c THEN users[d] \ {q} ELSE users[d]
      /\ \A d \in DOMAIN invites : invites'[d] = IF d = c THEN invites[d] \ {q} ELSE invites[d]
  BY DEF Rooms
<1>3. \A d \in Rooms' : users'[d] \subseteq chatting'
  BY <1>1, <1>2 DEF ChatInv, ChannelsSound
<1>4. ASSUME NEW d \in Private
      PROVE  /\ invites'[d] \subseteq chatting'
             /\ owner[d] \in users'[d]
             /\ \A k \in users'[d] : k = owner[d] \/ k \in invites'[d]
  BY <1>1, <1>2, OneChannel
<1> QED BY <1>1, <1>2, <1>3, <1>4, Staying

\* Who is let in is online, and invited to a private channel.
LEMMA OpenKeeps ==
    ASSUME ChatInv, NEW p \in Talker, NEW c \in Rooms, PlayerOpenChannel(p, c)
    PROVE  ChatInv'
<1>1. /\ p \in chatting /\ chatting' = chatting /\ owner' = owner /\ invites' = invites
      /\ c \in Private => p = owner[c] \/ p \in invites[c]
      /\ users' = [users EXCEPT ![c] = @ \cup {p}]
  BY DEF PlayerOpenChannel, GetChannel, IsInvitedTo
<1>2. /\ Rooms' = Rooms
      /\ \A d \in Rooms : users'[d] = IF d = c THEN users[d] \cup {p} ELSE users[d]
  BY <1>1 DEF Rooms
<1>3. \A d \in Rooms' : users'[d] \subseteq chatting'
  BY <1>1, <1>2 DEF ChatInv, ChannelsSound
<1>4. ASSUME NEW d \in Private
      PROVE  /\ invites'[d] \subseteq chatting'
             /\ owner[d] \in users'[d]
             /\ \A k \in users'[d] : k = owner[d] \/ k \in invites'[d]
  BY <1>1, <1>2, OneChannel
<1> QED BY <1>1, <1>2, <1>3, <1>4, Staying

\* Who closes his own private channel deletes it, others just leave.
LEMMA CloseKeeps ==
    ASSUME ChatInv, NEW p \in Talker, NEW c \in Rooms, PlayerCloseChannel(p, c)
    PROVE  ChatInv'
<1>1. chatting' = chatting
  BY DEF PlayerCloseChannel
<1>2. CASE ChannelsDeleted({c})
  <2>1. /\ users' = [d \in Rooms \ {c} |-> users[d] \ {}]
        /\ invites' = [d \in Private \ {c} |-> invites[d] \ {}]
        /\ owner' = Only(owner, Private \ {c})
    BY <1>2 DEF ChannelsDeleted, Only
  <2>2. chatting' = chatting \ {}
    BY <1>1
  <2> QED BY <2>1, <2>2, Closing
<1>3. CASE /\ ~(c \in Private /\ owner[c] = p)
           /\ users' = [users EXCEPT ![c] = @ \ {p}]
           /\ UNCHANGED <<invites, owner>>
  <2>1. /\ Rooms' = Rooms
        /\ \A d \in Rooms : users'[d] = IF d = c THEN users[d] \ {p} ELSE users[d]
    BY <1>3 DEF Rooms
  <2>2. ASSUME NEW d \in Rooms' PROVE users'[d] \subseteq chatting'
    <3>1. d \in Rooms /\ users[d] \subseteq chatting
      BY <2>1, <2>2 DEF ChatInv, ChannelsSound
    <3> QED BY <1>1, <2>1, <3>1
  <2>3. ASSUME NEW d \in Private
        PROVE  /\ invites'[d] \subseteq chatting'
               /\ owner[d] \in users'[d]
               /\ \A k \in users'[d] : k = owner[d] \/ k \in invites'[d]
    BY <1>1, <1>3, <2>1, OneChannel
  <2> QED BY <1>3, <2>1, <2>2, <2>3, Staying
<1> QED BY <1>2, <1>3 DEF PlayerCloseChannel

\* removeUserFromAllChannels deletes his channels and strikes him from the others.
LEMMA LogoutKeeps ==
    ASSUME ChatInv, NEW p \in Talker, LogoutOf(p)
    PROVE  ChatInv'
<1> DEFINE own == {c \in Private : owner[c] = p}
<1>1. /\ users' = [c \in Rooms \ own |-> users[c] \ {p}]
      /\ invites' = [c \in Private \ own |-> invites[c] \ {p}]
      /\ owner' = Only(owner, Private \ own)
      /\ chatting' = chatting \ {p}
  BY DEF LogoutOf, RemoveUserFromAllChannels
<1>2. \A c \in Private \ own : owner[c] \notin {p}
  OBVIOUS
<1> HIDE DEF own
<1> QED BY <1>1, <1>2, Closing

\* A channel of the server is loaded anew, or that of a circle is made: neither is a
\* private one.
LEMMA LoadKeeps ==
    ASSUME ChatInv, NEW c \in Public, Load(c)
    PROVE  ChatInv'
<1> PICK stay \in SUBSET users[c] : users' = [users EXCEPT ![c] = stay]
  BY DEF Load
<1>1. chatting' = chatting /\ owner' = owner /\ invites' = invites
  BY DEF Load
<1>2. Rooms' = Rooms /\ \A d \in Rooms : users'[d] = IF d = c THEN stay ELSE users[d]
  BY DEF Rooms
<1>3. \A d \in Rooms' : users'[d] \subseteq chatting'
  BY <1>1, <1>2 DEF ChatInv, ChannelsSound
<1>4. ASSUME NEW d \in Private
      PROVE  /\ invites'[d] \subseteq chatting'
             /\ owner[d] \in users'[d]
             /\ \A k \in users'[d] : k = owner[d] \/ k \in invites'[d]
  BY <1>1, <1>2, OneChannel
<1> QED BY <1>1, <1>2, <1>3, <1>4, Staying

\* Looking for a channel of a party or guild may make it, with nobody in it.
LEMMA ListKeeps ==
    ASSUME ChatInv, NEW p \in Talker, GetChannelList(p)
    PROVE  ChatInv'
<1>1. /\ circle[p] \notin Rooms /\ users' = Extended(users, circle[p], {})
      /\ chatting' = chatting /\ owner' = owner /\ invites' = invites
  BY DEF GetChannelList
<1>2. /\ Rooms' = Rooms \cup {circle[p]}
      /\ \A d \in Rooms' : users'[d] = IF d = circle[p] THEN {} ELSE users[d]
  BY <1>1 DEF Extended, Rooms
<1>3. \A d \in Rooms' : users'[d] \subseteq chatting'
  BY <1>1, <1>2 DEF ChatInv, ChannelsSound
<1>4. ASSUME NEW d \in Private
      PROVE  /\ invites'[d] \subseteq chatting'
             /\ owner[d] \in users'[d]
             /\ \A k \in users'[d] : k = owner[d] \/ k \in invites'[d]
  <2>1. d \in Rooms /\ d # circle[p]
    BY <1>1, OneChannel
  <2>2. users'[d] = users[d] /\ invites'[d] = invites[d]
    BY <1>1, <1>2, <2>1
  <2> QED BY <1>1, <2>2, OneChannel
<1> QED BY <1>1, <1>2, <1>3, <1>4, Staying

\* Steps that change neither a channel nor, but for a login, who is online.
LEMMA OthersKeep ==
    ASSUME ChatInv, UNCHANGED <<users, invites, owner>>, chatting \subseteq chatting'
    PROVE  ChatInv'
  BY DEF ChatInv, ChannelsSound, Rooms, Private, IsInvitedTo

\* The invariant of the channels is kept by every step,
LEMMA ChatStep == ChatInv /\ [ChatNext]_chatVars => ChatInv'
<1> SUFFICES ASSUME ChatInv, [ChatNext]_chatVars PROVE ChatInv'
  OBVIOUS
<1>1. ASSUME NEW p \in Talker,
             \/ LeaveCircle(p) \/ LoginOf(p) \/ \E x \in Circle : JoinCircle(p, x)
      PROVE  ChatInv'
  <2>1. UNCHANGED <<users, invites, owner>> /\ chatting \subseteq chatting'
    BY <1>1 DEF LeaveCircle, LoginOf, JoinCircle
  <2> QED BY <2>1, OthersKeep
<1>2. CASE UNCHANGED chatVars
  <2>1. UNCHANGED <<users, invites, owner>> /\ chatting \subseteq chatting'
    BY <1>2 DEF chatVars
  <2> QED BY <2>1, OthersKeep
<1> QED BY <1>1, <1>2, CreateKeeps, ListKeeps, LogoutKeeps, InviteKeeps, ExcludeKeeps,
           OpenKeeps, CloseKeeps, LoadKeeps DEF ChatNext

\* and holds in the beginning.
LEMMA ChatStart == ChatInit => ChatInv
  BY DEF ChatInit, ChatInv, ChannelsSound, Rooms, Private

\* What is said in a channel reaches players who are online and nobody else, and in a
\* private channel only its owner, who is in it, and those he invited and has not
\* excluded since; nobody owns two.
THEOREM ChannelsStaySound == ChatSpec => []ChannelsSound
<1>1. ChatInv => ChannelsSound
  BY DEF ChatInv
<1> QED BY <1>1, ChatStart, ChatStep, PTL DEF ChatSpec

-----------------------------------------------------------------------------
(* Trade: two offers, and the exchange *)

\* An item on offer is still where its player could reach it when he offered it:
\* at hand, or in a box.
OnOffer == \A p \in Trader : trader[p].item # NoItem =>
              place[trader[p].item] \in {Bag(p), Worn(p), Ground} \cup Box

\* Nobody's containers hold more than they can.
BagsHold(where) ==
    \A p \in Trader : Cardinality({i \in Item : where[i] = Bag(p)}) <= BagSize

TradeInv == TradeSound /\ OnOffer /\ BagsHold(place)

\* Who owns a place is known from it, and only a box is both an item and a place.
LEMMA PlacesDiffer ==
    /\ \A p, q \in Trader : /\ Bag(p) = Bag(q) => p = q
                            /\ Bag(p) # Worn(q)
    /\ \A p \in Trader : /\ Bag(p) \notin Item /\ Worn(p) \notin Item
                         /\ Bag(p) # Ground /\ Worn(p) # Ground
                         /\ Bag(p) # Gone /\ Worn(p) # Gone
                         /\ Bag(p) \in Place /\ Worn(p) \in Place
    /\ Ground \notin Item /\ Gone \notin Item /\ Ground # Gone
    /\ Ground \in Place /\ Gone \in Place /\ Box \subseteq Place /\ Box \subseteq Item
<1>1. \A p \in Trader : {Bag(p), Worn(p)} \subseteq Trader \X {"bag", "worn"}
  BY DEF Bag, Worn
<1>2. \A p, q \in Trader : (Bag(p) = Bag(q) => p = q) /\ Bag(p) # Worn(q)
  BY DEF Bag, Worn
<1> QED BY <1>1, <1>2, TradeConstants, PlaceConstants DEF Place

\* Putting an item where there is room for it overfills nothing.
LEMMA BagsStayHeld ==
    ASSUME NEW where \in [Item -> Place], BagsHold(where), NEW i \in Item, NEW to \in Place,
           \A p \in Trader : to = Bag(p) => HasRoom(p, where)
    PROVE  BagsHold([where EXCEPT ![i] = to])
<1> SUFFICES ASSUME NEW p \in Trader
             PROVE  Cardinality({j \in Item : [where EXCEPT ![i] = to][j] = Bag(p)}) <= BagSize
  BY DEF BagsHold
<1> DEFINE Old == {j \in Item : where[j] = Bag(p)}
           New == {j \in Item : [where EXCEPT ![i] = to][j] = Bag(p)}
<1>1. IsFiniteSet(Old) /\ Old \in SUBSET Item
  BY TradeConstants, FS_Subset
<1>2. Cardinality(Old) \in Nat /\ Cardinality(Old) <= BagSize /\ BagSize \in Nat
  BY <1>1, FS_CardinalityType, TradeConstants DEF BagsHold
<1>3. CASE to = Bag(p)
  <2>1. New = Old \cup {i}
    BY <1>3
  <2>2. Cardinality(Old) < BagSize
    BY <1>3 DEF HasRoom
  <2>3. Cardinality(Old \cup {i}) = IF i \in Old THEN Cardinality(Old) ELSE Cardinality(Old) + 1
    BY <1>1, FS_AddElement
  <2> HIDE DEF Old, New
  <2>4. Cardinality(New) <= BagSize
    BY <1>2, <2>1, <2>2, <2>3
  <2> QED BY <2>4 DEF New
<1>4. CASE to # Bag(p)
  <2>1. New \in SUBSET Old
    BY <1>4
  <2>2. Cardinality(New) <= Cardinality(Old) /\ Cardinality(New) \in Nat
    BY <1>1, <2>1, FS_Subset, FS_CardinalityType
  <2> HIDE DEF Old, New
  <2>3. Cardinality(New) <= BagSize
    BY <1>2, <2>2
  <2> QED BY <2>3 DEF New
<1> QED BY <1>3, <1>4

\* Where an item is taken out there is room for another.
LEMMA RoomAfter ==
    ASSUME NEW where \in [Item -> Place], BagsHold(where), NEW i \in Item, NEW p \in Trader,
           where[i] = Bag(p), NEW to \in Place, to # Bag(p)
    PROVE  HasRoom(p, [where EXCEPT ![i] = to])
<1> DEFINE Old == {j \in Item : where[j] = Bag(p)}
           New == {j \in Item : [where EXCEPT ![i] = to][j] = Bag(p)}
<1>1. IsFiniteSet(Old) /\ i \in Old
  BY TradeConstants, FS_Subset
<1>2. Cardinality(Old) \in Nat /\ Cardinality(Old) <= BagSize /\ BagSize \in Nat
  BY <1>1, FS_CardinalityType, TradeConstants DEF BagsHold
<1>3. New = Old \ {i}
  OBVIOUS
<1>4. Cardinality(Old \ {i}) = Cardinality(Old) - 1
  BY <1>1, FS_RemoveElement
<1> HIDE DEF Old, New
<1>5. Cardinality(New) < BagSize
  BY <1>2, <1>3, <1>4
<1> QED BY <1>5 DEF HasRoom, New

\* Closing trades: some players have none any more, the others keep theirs, and the
\* table of pledged items and the links between partners are still exact.
LEMMA Closed ==
    ASSUME TradeInv, NEW ps \in SUBSET Trader, CloseTrades(ps)
    PROVE  /\ trader' \in [Trader -> [state : {"NONE", "INITIATED", "ACCEPT", "ACKNOWLEDGE"},
                              partner : Trader \cup {Nobody}, item : Item \cup {NoItem}]]
           /\ \A r \in Trader : trader'[r] = NoTrade \/ trader'[r] = trader[r]
           /\ \A r \in ps : trader'[r] = NoTrade /\ (trader[r].partner \in Trader =>
                                                        trader'[trader[r].partner] = NoTrade)
           /\ \A r \in Trader : trader[r].partner \in ps => trader'[r] = NoTrade
           /\ \A r \in Trader : trader'[r].partner # Nobody =>
                 trader'[trader'[r].partner].partner = r
           /\ tradeItems' = {<<trader'[p].item, p>> : p \in {q \in Trader : trader'[q].item # NoItem}}
<1> DEFINE B == BothSides(ps)
<1>1. /\ \A r \in Trader : trader'[r] = IF r \in B THEN NoTrade ELSE trader[r]
      /\ tradeItems' = {e \in tradeItems : e[2] \notin B}
      /\ \A r \in ps : r \in B /\ trader[r].partner \in B
      /\ \A b \in B : b \in ps \/ \E r \in ps : b = trader[r].partner
  BY DEF CloseTrades, BothSides
<1> HIDE DEF B
<1>2. NoTrade \in [state : {"NONE", "INITIATED", "ACCEPT", "ACKNOWLEDGE"},
                   partner : Trader \cup {Nobody}, item : Item \cup {NoItem}]
  BY DEF NoTrade
<1>3. trader' \in [Trader -> [state : {"NONE", "INITIATED", "ACCEPT", "ACKNOWLEDGE"},
                              partner : Trader \cup {Nobody}, item : Item \cup {NoItem}]]
  <2>1. trader \in [Trader -> [state : {"NONE", "INITIATED", "ACCEPT", "ACKNOWLEDGE"},
                              partner : Trader \cup {Nobody}, item : Item \cup {NoItem}]]
    BY DEF TradeInv, TradeSound, TypeOKTrade
  <2>2. trader' = [p \in Trader |-> IF p \in BothSides(ps) THEN NoTrade ELSE trader[p]]
    BY DEF CloseTrades
  <2> QED BY <2>1, <2>2, <1>2
<1>4. \A r \in Trader : trader[r].partner # Nobody =>
         trader[r].partner \in Trader /\ trader[trader[r].partner].partner = r
  BY DEF TradeInv, TradeSound, TypeOKTrade, TradersLinked
<1>5. ASSUME NEW r \in Trader, trader[r].partner \in Trader
      PROVE  r \in B <=> trader[r].partner \in B
  BY <1>1, <1>4, <1>5, TradeConstants
<1>6. ASSUME NEW r \in Trader, trader'[r].partner # Nobody
      PROVE  trader'[trader'[r].partner].partner = r
  <2>1. r \notin B /\ trader'[r] = trader[r]
    BY <1>1, <1>6 DEF NoTrade
  <2> QED BY <1>1, <1>4, <1>5, <1>6, <2>1
<1>7. tradeItems' = {<<trader'[p].item, p>> : p \in {q \in Trader : trader'[q].item # NoItem}}
  <2>1. tradeItems = {<<trader[p].item, p>> : p \in {q \in Trader : trader[q].item # NoItem}}
    BY DEF TradeInv, TradeSound, LedgerExact
  <2>2. \A q \in Trader : trader'[q].item # NoItem <=> q \notin B /\ trader[q].item # NoItem
    BY <1>1 DEF NoTrade
  <2>3. \A q \in Trader : q \notin B => trader'[q].item = trader[q].item
    BY <1>1
  <2> QED BY <1>1, <2>1, <2>2, <2>3
<1>8. \A r \in ps : trader'[r] = NoTrade /\ (trader[r].partner \in Trader =>
                                                trader'[trader[r].partner] = NoTrade)
  BY <1>1
<1>9. \A r \in Trader : trader[r].partner \in ps => trader'[r] = NoTrade
  BY <1>1, <1>5
<1> QED BY <1>1, <1>3, <1>6, <1>7, <1>8, <1>9

\* A step that closes trades and moves items that are not on offer afterwards keeps
\* the invariant, if those who still trade are still there.
LEMMA AfterClosing ==
    ASSUME TradeInv, NEW ps \in SUBSET Trader, CloseTrades(ps),
           place' \in [Item -> Place], BagsHold(place)', present' \subseteq Trader,
           \A r \in Trader : trader'[r].item # NoItem =>
               place'[trader'[r].item] = place[trader'[r].item],
           \A r \in Trader : trader'[r].partner # Nobody =>
               {r, trader'[r].partner} \subseteq present'
    PROVE  TradeInv'
<1>1. TypeOKTrade'
  <2>1. tradeItems' \subseteq tradeItems
    BY DEF CloseTrades
  <2>2. tradeItems' \subseteq Item \X Trader
    BY <2>1 DEF TradeInv, TradeSound, TypeOKTrade
  <2> QED BY <2>2, Closed DEF TypeOKTrade
<1>2. \A r \in Trader : trader'[r] = NoTrade \/ trader'[r] = trader[r]
  BY Closed
<1>3. TradersLinked'
  <2> SUFFICES ASSUME NEW p \in Trader
               PROVE  LET t == trader'[p]
                      IN  /\ (t.partner = Nobody) <=> (t.state = "NONE")
                          /\ t.partner # Nobody => /\ trader'[t.partner].partner = p
                                                   /\ {p, t.partner} \subseteq present'
                          /\ t.state \in {"NONE", "ACKNOWLEDGE"} => t.item = NoItem
    BY DEF TradersLinked
  <2>1. /\ (trader[p].partner = Nobody) <=> (trader[p].state = "NONE")
        /\ trader[p].state \in {"NONE", "ACKNOWLEDGE"} => trader[p].item = NoItem
    BY DEF TradeInv, TradeSound, TradersLinked
  <2>2. CASE trader'[p] = NoTrade
    BY <2>2 DEF NoTrade
  <2>3. CASE trader'[p] = trader[p]
    <3>1. trader'[p].partner # Nobody => trader'[trader'[p].partner].partner = p
      BY Closed
    <3> QED BY <2>1, <2>3, <3>1
  <2> QED BY <1>2, <2>2, <2>3
<1>4. LedgerExact'
  <2>1. tradeItems' = {<<trader'[p].item, p>> : p \in {q \in Trader : trader'[q].item # NoItem}}
    BY Closed
  <2>2. tradeItems' \subseteq tradeItems /\ tradeItems \subseteq Item \X Trader
    BY DEF CloseTrades, TradeInv, TradeSound, TypeOKTrade
  <2>3. \A e \in tradeItems' : place'[e[1]] = place[e[1]]
    BY <2>1
  <2>4. ASSUME NEW d \in tradeItems', NEW e \in tradeItems', d # e
        PROVE  ~Overlap(d[1], e[1])'
    BY <2>2, <2>3, <2>4 DEF TradeInv, TradeSound, LedgerExact, Overlap
  <2>5. \A e \in tradeItems' : place'[e[1]] # Gone
    BY <2>2, <2>3 DEF TradeInv, TradeSound, LedgerExact
  <2> QED BY <2>1, <2>4, <2>5 DEF LedgerExact
<1>5. OnOffer'
  <2> SUFFICES ASSUME NEW p \in Trader, trader'[p].item # NoItem
               PROVE  place'[trader'[p].item] \in {Bag(p), Worn(p), Ground} \cup Box
    BY DEF OnOffer, Bag, Worn
  <2>1. trader'[p] = trader[p]
    BY <1>2 DEF NoTrade
  <2> QED BY <2>1 DEF TradeInv, OnOffer
<1> QED BY <1>1, <1>3, <1>4, <1>5 DEF TradeInv, TradeSound

\* A new offer: the item is pledged to nobody yet, and the partner is free or has
\* been waiting for it.
LEMMA RequestKeeps ==
    ASSUME TradeInv, PlayerRequestTrade
    PROVE  TradeInv'
<1> PICK p \in present, q \in present, i \in Item :
        /\ q # p /\ InReach(p, i) /\ ~Pledged(i)
        /\ InternalStartTrade(p, q, i)
        /\ UNCHANGED <<place, present>>
  BY DEF PlayerRequestTrade
<1> DEFINE States == {"NONE", "INITIATED", "ACCEPT", "ACKNOWLEDGE"}
           Record == [state : States, partner : Trader \cup {Nobody}, item : Item \cup {NoItem}]
<1>1. /\ trader \in [Trader -> Record] /\ tradeItems \subseteq Item \X Trader
      /\ place \in [Item -> Place] /\ present \subseteq Trader
  BY DEF TradeInv, TradeSound, TypeOKTrade
<1>2. p \in Trader /\ q \in Trader
  BY <1>1
<1>3. trader' = [trader EXCEPT
            ![p] = [state |-> "INITIATED", partner |-> q, item |-> i],
            ![q] = IF @.state = "NONE"
                   THEN [state |-> "ACKNOWLEDGE", partner |-> p, item |-> @.item]
                   ELSE @]
  BY DEF InternalStartTrade
<1>4. /\ trader'[p] = [state |-> "INITIATED", partner |-> q, item |-> i]
      /\ trader'[q] = IF trader[q].state = "NONE"
                      THEN [state |-> "ACKNOWLEDGE", partner |-> p, item |-> trader[q].item]
                      ELSE trader[q]
      /\ \A r \in Trader \ {p, q} : trader'[r] = trader[r]
  BY <1>1, <1>2, <1>3
<1>5. /\ trader[p].state = "NONE" \/ (trader[p].state = "ACKNOWLEDGE" /\ trader[p].partner = q)
      /\ trader[q].state = "NONE" \/ trader[q].partner = p
      /\ tradeItems' = tradeItems \cup {<<i, p>>}
  BY DEF InternalStartTrade
<1>6. trader' \in [Trader -> Record]
  <2>1. [state |-> "INITIATED", partner |-> q, item |-> i] \in Record
    BY <1>2
  <2>2. [state |-> "ACKNOWLEDGE", partner |-> p, item |-> trader[q].item] \in Record
    BY <1>1, <1>2
  <2> HIDE DEF Record
  <2> QED BY <1>1, <1>2, <1>3, <2>1, <2>2
<1>7. TypeOKTrade'
  BY <1>1, <1>2, <1>5, <1>6 DEF TypeOKTrade
<1>8. /\ \A r \in Trader : /\ (trader[r].partner = Nobody) <=> (trader[r].state = "NONE")
                           /\ trader[r].partner # Nobody =>
                                 /\ trader[r].partner \in Trader
                                 /\ trader[trader[r].partner].partner = r
                                 /\ {r, trader[r].partner} \subseteq present
                           /\ trader[r].state \in {"NONE", "ACKNOWLEDGE"} => trader[r].item = NoItem
  BY <1>1 DEF TradeInv, TradeSound, TradersLinked
<1>9. \A r \in Trader \ {p, q} : trader[r].partner \notin {p, q}
  BY <1>2, <1>5, <1>8, TradeConstants
<1>10. TradersLinked'
  <2> SUFFICES ASSUME NEW r \in Trader
               PROVE  LET t == trader'[r]
                      IN  /\ (t.partner = Nobody) <=> (t.state = "NONE")
                          /\ t.partner # Nobody => /\ trader'[t.partner].partner = r
                                                   /\ {r, t.partner} \subseteq present'
                          /\ t.state \in {"NONE", "ACKNOWLEDGE"} => t.item = NoItem
    BY DEF TradersLinked
  <2>1. CASE r = p
    BY <1>2, <1>4, <1>5, <2>1, TradeConstants
  <2>2. CASE r = q
    BY <1>2, <1>4, <1>5, <1>8, <2>2, TradeConstants
  <2>3. CASE r \notin {p, q}
    BY <1>4, <1>8, <1>9, <2>3
  <2> QED BY <2>1, <2>2, <2>3
<1>11. trader[p].item = NoItem /\ trader'[p].item = i
  BY <1>2, <1>4, <1>5, <1>8
<1>12. \A r \in Trader \ {p} : trader'[r].item = trader[r].item
  BY <1>2, <1>4
<1>13. place[i] \in {Bag(p), Worn(p), Ground} \cup Box
  BY DEF InReach
<1>14. LedgerExact'
  <2>1. tradeItems = {<<trader[r].item, r>> : r \in {k \in Trader : trader[k].item # NoItem}}
    BY DEF TradeInv, TradeSound, LedgerExact
  <2>2. tradeItems' = {<<trader'[r].item, r>> : r \in {k \in Trader : trader'[k].item # NoItem}}
    BY <1>2, <1>5, <1>11, <1>12, <2>1, TradeConstants
  <2>3. \A e \in tradeItems : ~Overlap(e[1], i) /\ ~Overlap(i, e[1])
    BY DEF Pledged, Overlap
  <2>4. \A d, e \in tradeItems' : d # e => ~Overlap(d[1], e[1])'
    BY <1>5, <2>3 DEF TradeInv, TradeSound, LedgerExact, Overlap
  <2>5. place[i] # Gone
    BY <1>2, <1>13, PlacesDiffer
  <2>6. \A e \in tradeItems' : place'[e[1]] # Gone
    BY <1>5, <2>5 DEF TradeInv, TradeSound, LedgerExact
  <2> QED BY <2>2, <2>4, <2>6 DEF LedgerExact
<1>15. OnOffer'
  BY <1>11, <1>12, <1>13 DEF TradeInv, OnOffer, Bag, Worn
<1>16. BagsHold(place)'
  BY DEF TradeInv, BagsHold, Bag
<1> QED BY <1>7, <1>10, <1>14, <1>15, <1>16 DEF TradeInv, TradeSound

\* The first to accept only says so.
LEMMA AcceptFirst ==
    ASSUME TradeInv, NEW p \in Trader, trader[p].partner # Nobody,
           trader[p].state \in {"ACKNOWLEDGE", "INITIATED"},
           trader' = [trader EXCEPT ![p].state = "ACCEPT"],
           UNCHANGED <<tradeItems, place, present>>
    PROVE  TradeInv'
<1>1. /\ \A r \in Trader : /\ trader'[r].partner = trader[r].partner
                          /\ trader'[r].item = trader[r].item
                          /\ trader'[r].state = IF r = p THEN "ACCEPT" ELSE trader[r].state
  BY DEF TradeInv, TradeSound, TypeOKTrade
<1>2. TypeOKTrade'
  BY DEF TradeInv, TradeSound, TypeOKTrade
<1>3. TradersLinked'
  <2>1. \A r \in Trader : trader[r].partner # Nobody => trader[r].partner \in Trader
    BY DEF TradeInv, TradeSound, TypeOKTrade
  <2> QED BY <1>1, <2>1 DEF TradeInv, TradeSound, TradersLinked
<1>4. LedgerExact'
  <2>1. {<<trader'[r].item, r>> : r \in {k \in Trader : trader'[k].item # NoItem}}
          = {<<trader[r].item, r>> : r \in {k \in Trader : trader[k].item # NoItem}}
    BY <1>1
  <2> QED BY <2>1 DEF TradeInv, TradeSound, LedgerExact, Overlap
<1>5. OnOffer' /\ BagsHold(place)'
  BY <1>1 DEF TradeInv, OnOffer, BagsHold, Bag, Worn
<1> QED BY <1>2, <1>3, <1>4, <1>5 DEF TradeInv, TradeSound

\* The two items of a trade, and what the exchange makes of them: neither moves
\* unless both can, and the room the first leaves is enough for the second.
LEMMA Exchange ==
    ASSUME TradeInv, NEW p \in Trader, NEW q \in Trader, p # q, trader[p].partner = q
    PROVE  \/ Swapped(p, q) = place
           \/ /\ trader[p].item \in Item /\ trader[q].item \in Item
              /\ trader[p].item # trader[q].item
              /\ HasRoom(q, place)
              /\ \/ /\ Swapped(p, q) = [place EXCEPT ![trader[p].item] = Bag(q)]
                    /\ place[trader[p].item] # Bag(p)
                 \/ /\ Swapped(p, q) = [place EXCEPT ![trader[p].item] = Bag(q),
                                                     ![trader[q].item] = Bag(p)]
                    /\ HasRoom(p, [place EXCEPT ![trader[p].item] = Bag(q)])
<1> DEFINE i == trader[p].item
           j == trader[q].item
           first == [place EXCEPT ![i] = Bag(q)]
<1> SUFFICES ASSUME Swapped(p, q) # place
             PROVE  /\ i \in Item /\ j \in Item /\ i # j
                    /\ HasRoom(q, place)
                    /\ \/ Swapped(p, q) = first /\ place[i] # Bag(p)
                       \/ /\ Swapped(p, q) = [place EXCEPT ![i] = Bag(q), ![j] = Bag(p)]
                          /\ HasRoom(p, first)
  OBVIOUS
<1>1. /\ i # NoItem /\ j # NoItem /\ HasRoom(q, place)
      /\ Swapped(p, q) = IF HasRoom(p, first) THEN [first EXCEPT ![j] = Bag(p)] ELSE first
  BY DEF Swapped
<1>2. i \in Item /\ j \in Item /\ place \in [Item -> Place]
  BY <1>1 DEF TradeInv, TradeSound, TypeOKTrade
<1>3. i # j
  <2>1. <<i, p>> \in tradeItems /\ <<j, q>> \in tradeItems
    BY <1>1 DEF TradeInv, TradeSound, LedgerExact
  <2> QED BY <2>1 DEF TradeInv, TradeSound, LedgerExact, Overlap
<1>4. [first EXCEPT ![j] = Bag(p)] = [place EXCEPT ![i] = Bag(q), ![j] = Bag(p)]
  OBVIOUS
<1>5. CASE HasRoom(p, first)
  BY <1>1, <1>2, <1>3, <1>4, <1>5
<1>6. CASE ~HasRoom(p, first)
  <2>1. place[i] # Bag(p)
    BY <1>2, <1>6, RoomAfter, PlacesDiffer DEF TradeInv
  <2> QED BY <1>1, <1>2, <1>3, <1>6, <2>1
<1> QED BY <1>5, <1>6

\* The second acceptance ends the trade of both; the first changes no link.
LEMMA AcceptKeeps ==
    ASSUME TradeInv, PlayerAcceptTrade
    PROVE  TradeInv'
<1> PICK p \in present :
        /\ trader[p].state \in {"ACKNOWLEDGE", "INITIATED"}
        /\ trader[p].partner # Nobody
        /\ LET q == trader[p].partner
           IN  IF trader[q].state = "ACCEPT"
               THEN /\ CloseTrades({p})
                    /\ place' = Swapped(p, q)
               ELSE /\ trader' = [trader EXCEPT ![p].state = "ACCEPT"]
                    /\ UNCHANGED <<tradeItems, place>>
        /\ UNCHANGED present
  BY DEF PlayerAcceptTrade
<1> DEFINE q == trader[p].partner
<1>1. p \in Trader /\ q \in Trader /\ place \in [Item -> Place] /\ present \subseteq Trader
  BY DEF TradeInv, TradeSound, TypeOKTrade
<1>2. CASE /\ trader' = [trader EXCEPT ![p].state = "ACCEPT"]
           /\ UNCHANGED <<tradeItems, place>>
  BY <1>1, <1>2, AcceptFirst
<1>3. CASE trader[q].state = "ACCEPT" /\ CloseTrades({p}) /\ place' = Swapped(p, q)
  <2>1. p # q
    BY <1>3
  <2>2. /\ place' \in [Item -> Place] /\ BagsHold(place')
        /\ \A k \in Item : k \notin {trader[p].item, trader[q].item} => place'[k] = place[k]
    <3> DEFINE i == trader[p].item
               j == trader[q].item
               first == [place EXCEPT ![i] = Bag(q)]
    <3>1. CASE place' = place
      BY <1>1, <3>1 DEF TradeInv
    <3>2. CASE i \in Item /\ j \in Item /\ HasRoom(q, place)
      <4>1. first \in [Item -> Place] /\ BagsHold(first)
        BY <1>1, <3>2, BagsStayHeld, PlacesDiffer DEF TradeInv
      <4>2. CASE place' = first
        BY <4>1, <4>2
      <4>3. CASE place' = [first EXCEPT ![j] = Bag(p)] /\ HasRoom(p, first)
        <5>1. Bag(p) \in Place /\ \A k \in Trader : Bag(p) = Bag(k) => HasRoom(k, first)
          BY <1>1, <4>3, PlacesDiffer
        <5>2. BagsHold([first EXCEPT ![j] = Bag(p)])
          BY <3>2, <4>1, <5>1, BagsStayHeld
        <5> QED BY <1>1, <3>2, <4>1, <4>3, <5>1, <5>2
      <4>4. [first EXCEPT ![j] = Bag(p)] = [place EXCEPT ![i] = Bag(q), ![j] = Bag(p)]
        OBVIOUS
      <4> QED BY <1>1, <1>3, <2>1, <4>2, <4>3, <4>4, <3>1, Exchange
    <3> QED BY <1>1, <1>3, <2>1, <3>1, <3>2, Exchange
  <2>3. /\ trader'[p] = NoTrade /\ trader'[q] = NoTrade
        /\ \A r \in Trader : trader'[r] = NoTrade \/ trader'[r] = trader[r]
    BY <1>1, <1>3, Closed
  <2>4. ASSUME NEW r \in Trader, trader'[r].item # NoItem
        PROVE  place'[trader'[r].item] = place[trader'[r].item]
    <3>1. r \notin {p, q} /\ trader'[r] = trader[r] /\ trader[r].item \in Item
      BY <2>3, <2>4 DEF NoTrade, TradeInv, TradeSound, TypeOKTrade
    <3>2. ASSUME NEW k \in {p, q} PROVE trader[r].item # trader[k].item
      <4>1. <<trader[r].item, r>> \in tradeItems
        BY <2>4, <3>1 DEF TradeInv, TradeSound, LedgerExact
      <4>2. trader[k].item # NoItem => <<trader[k].item, k>> \in tradeItems
        BY <1>1 DEF TradeInv, TradeSound, LedgerExact
      <4>3. <<trader[r].item, r>> # <<trader[k].item, k>>
        BY <3>1
      <4> QED BY <2>4, <3>1, <4>1, <4>2, <4>3 DEF TradeInv, TradeSound, LedgerExact, Overlap
    <3> QED BY <2>2, <3>1, <3>2
  <2>5. ASSUME NEW r \in Trader, trader'[r].partner # Nobody
        PROVE  {r, trader'[r].partner} \subseteq present'
    <3>1. trader'[r] = trader[r]
      BY <2>3, <2>5 DEF NoTrade
    <3> QED BY <2>5, <3>1 DEF TradeInv, TradeSound, TradersLinked
  <2>6. BagsHold(place)'
    BY <2>2 DEF BagsHold, Bag
  <2> QED BY <1>1, <1>3, <2>2, <2>4, <2>5, <2>6, AfterClosing
<1> QED BY <1>2, <1>3

\* Whoever closes, both are left with no trade and the ledger without their items.
LEMMA CloseTradeKeeps ==
    ASSUME TradeInv, PlayerCloseTrade
    PROVE  TradeInv'
<1> PICK p \in present : CloseTrades({p}) /\ UNCHANGED <<place, present>>
  BY DEF PlayerCloseTrade
<1>1. p \in Trader /\ place \in [Item -> Place] /\ present \subseteq Trader
  BY DEF TradeInv, TradeSound, TypeOKTrade
<1>2. ASSUME NEW r \in Trader, trader'[r].partner # Nobody
      PROVE  {r, trader'[r].partner} \subseteq present'
  <2>1. trader'[r] = trader[r]
    BY <1>1, <1>2, Closed DEF NoTrade
  <2> QED BY <1>2, <2>1 DEF TradeInv, TradeSound, TradersLinked
<1>3. BagsHold(place)'
  BY DEF TradeInv, BagsHold, Bag
<1> QED BY <1>1, <1>2, <1>3, AfterClosing

\* Whose item is moved, or gets something put in, does not trade any more.
LEMMA MoveItemKeeps ==
    ASSUME TradeInv, NEW i \in Item, NEW to \in Place,
           place' = [place EXCEPT ![i] = to],
           \A p \in Trader : to = Bag(p) => HasRoom(p, place),
           CloseTrades(Concerned(i, to)), UNCHANGED present
    PROVE  TradeInv'
<1>1. Concerned(i, to) \in SUBSET Trader
  BY DEF Concerned
<1>2. /\ place \in [Item -> Place] /\ place' \in [Item -> Place] /\ present' \subseteq Trader
  BY DEF TradeInv, TradeSound, TypeOKTrade
<1>3. \A r \in Trader : trader'[r] = NoTrade \/ trader'[r] = trader[r]
  BY <1>1, Closed
<1>4. ASSUME NEW r \in Trader, trader'[r].item # NoItem
      PROVE  place'[trader'[r].item] = place[trader'[r].item]
  <2>1. r \notin Concerned(i, to)
    BY <1>1, <1>4, Closed DEF NoTrade
  <2>2. trader'[r] = trader[r] /\ trader[r].item \in Item
    BY <1>3, <1>4 DEF NoTrade, TradeInv, TradeSound, TypeOKTrade
  <2>3. trader[r].item # i
    BY <1>4, <2>1, <2>2 DEF Concerned, Overlap
  <2> QED BY <2>2, <2>3
<1>5. ASSUME NEW r \in Trader, trader'[r].partner # Nobody
      PROVE  {r, trader'[r].partner} \subseteq present'
  <2>1. trader'[r] = trader[r]
    BY <1>3, <1>5 DEF NoTrade
  <2> QED BY <1>5, <2>1 DEF TradeInv, TradeSound, TradersLinked
<1>6. BagsHold(place)'
  <2>1. BagsHold([place EXCEPT ![i] = to])
    BY <1>2, BagsStayHeld DEF TradeInv
  <2> QED BY <2>1 DEF BagsHold, Bag
<1> QED BY <1>1, <1>2, <1>4, <1>5, <1>6, AfterClosing

\* A player takes and puts things where he can reach them: what he moves stays out
\* of the containers of others.
LEMMA HisMove ==
    ASSUME TradeInv, MoveItem
    PROVE  \E p \in Trader, i \in Item, to \in Place :
              /\ place' = [place EXCEPT ![i] = to] /\ UNCHANGED present
              /\ CloseTrades(Concerned(i, to))
              /\ InReach(p, i) /\ to \in {Bag(p), Worn(p), Ground, Gone} \cup Box
              /\ \A q \in Trader : to = Bag(q) => HasRoom(q, place)
<1> PICK p \in present, i \in Item, to \in Place :
        /\ to \in {Bag(p), Worn(p), Ground, Gone} \cup Box
        /\ InReach(p, i)
        /\ to = Bag(p) => HasRoom(p, place)
        /\ place' = [place EXCEPT ![i] = to]
        /\ CloseTrades(Concerned(i, to))
        /\ UNCHANGED present
  BY DEF MoveItem
<1>1. p \in Trader
  BY DEF TradeInv, TradeSound, TypeOKTrade
<1>2. \A q \in Trader : to = Bag(q) => HasRoom(q, place)
  BY <1>1, PlacesDiffer
<1> QED BY <1>1, <1>2

\* A player who leaves closes his trade first.
LEMMA WalkAwayKeeps ==
    ASSUME TradeInv, WalkAway
    PROVE  TradeInv'
<1> PICK p \in present :
        /\ present' = present \ {p}
        /\ CloseTrades(IF trader[p].partner # Nobody THEN {p} ELSE {})
        /\ UNCHANGED place
  BY DEF WalkAway
<1> DEFINE ps == IF trader[p].partner # Nobody THEN {p} ELSE {}
<1>1. /\ p \in Trader /\ ps \in SUBSET Trader /\ present' \subseteq Trader
      /\ place \in [Item -> Place]
  BY DEF TradeInv, TradeSound, TypeOKTrade
<1>2. CloseTrades(ps)
  OBVIOUS
<1>3. ASSUME NEW r \in Trader, trader'[r].partner # Nobody
      PROVE  {r, trader'[r].partner} \subseteq present'
  <2>1. trader'[r] = trader[r]
    BY <1>1, <1>2, <1>3, Closed DEF NoTrade
  <2>2. {r, trader[r].partner} \subseteq present /\ trader[trader[r].partner].partner = r
    BY <1>3, <2>1 DEF TradeInv, TradeSound, TradersLinked
  <2>3. CASE trader[p].partner = Nobody
    BY <1>3, <2>1, <2>2, <2>3, TradeConstants
  <2>4. CASE trader[p].partner # Nobody
    <3>1. ps = {p}
      BY <2>4
    <3>2. \A k \in Trader : k = p \/ trader[k].partner = p => trader'[k] = NoTrade
      BY <1>1, <1>2, <3>1, Closed
    <3> QED BY <1>3, <2>1, <2>2, <3>2 DEF NoTrade
  <2> QED BY <2>3, <2>4
<1>4. BagsHold(place)'
  BY DEF TradeInv, BagsHold, Bag
<1> HIDE DEF ps
<1> QED BY <1>1, <1>2, <1>3, <1>4, AfterClosing

\* Who logs in finds no trade of his.
LEMMA ComeBackKeeps ==
    ASSUME TradeInv, ComeBack
    PROVE  TradeInv'
<1>1. present \subseteq present' /\ present' \subseteq Trader /\ UNCHANGED <<trader, tradeItems, place>>
  BY DEF ComeBack, TradeInv, TradeSound, TypeOKTrade
<1>2. TypeOKTrade' /\ LedgerExact'
  BY <1>1 DEF TradeInv, TradeSound, TypeOKTrade, LedgerExact, Overlap
<1>3. TradersLinked'
  BY <1>1 DEF TradeInv, TradeSound, TradersLinked
<1>4. OnOffer' /\ BagsHold(place)'
  BY <1>1 DEF TradeInv, OnOffer, BagsHold, Bag, Worn
<1> QED BY <1>2, <1>3, <1>4 DEF TradeInv, TradeSound

\* The invariant holds in the beginning,
LEMMA TradeStart == TradeInit => TradeInv
<1> SUFFICES ASSUME TradeInit PROVE TradeInv
  OBVIOUS
<1>1. \A p \in Trader : trader[p] = NoTrade
  BY DEF TradeInit
<1>2. TypeOKTrade
  BY DEF TradeInit, TypeOKTrade, NoTrade
<1>3. LedgerExact /\ TradersLinked /\ OnOffer
  BY <1>1 DEF TradeInit, LedgerExact, TradersLinked, OnOffer, NoTrade
<1>4. BagsHold(place)
  BY DEF TradeInit, BagsHold
<1> QED BY <1>2, <1>3, <1>4 DEF TradeInv, TradeSound

\* and is kept by every step.
LEMMA TradeStep == TradeInv /\ [TradeNext]_tradeVars => TradeInv'
<1> SUFFICES ASSUME TradeInv, [TradeNext]_tradeVars PROVE TradeInv'
  OBVIOUS
<1>1. CASE MoveItem
  BY <1>1, HisMove, MoveItemKeeps
<1>2. CASE UNCHANGED tradeVars
  <2>1. TypeOKTrade' /\ LedgerExact' /\ TradersLinked'
    BY <1>2 DEF tradeVars, TradeInv, TradeSound, TypeOKTrade, LedgerExact, Overlap, TradersLinked
  <2>2. OnOffer' /\ BagsHold(place)'
    BY <1>2 DEF tradeVars, TradeInv, OnOffer, BagsHold, Bag, Worn
  <2> QED BY <2>1, <2>2 DEF TradeInv, TradeSound
<1> QED BY <1>1, <1>2, RequestKeeps, AcceptKeeps, CloseTradeKeeps, WalkAwayKeeps, ComeBackKeeps
        DEF TradeNext

\* A step that moves no item breaks no promise.
LEMMA NothingMoved ==
    ASSUME place' = place
    PROVE  GivenAndTaken /\ ShownIsGiven
  BY PlacesDiffer DEF GivenAndTaken, ShownIsGiven

\* Moving an item outside a trade closes the trades it is part of, and takes it from
\* nobody else.
LEMMA MoveIsFair ==
    ASSUME TradeInv, NEW mover \in Trader, NEW x \in Item, NEW to \in Place,
           place' = [place EXCEPT ![x] = to], CloseTrades(Concerned(x, to)),
           InReach(mover, x), to \in {Bag(mover), Worn(mover), Ground, Gone} \cup Box
    PROVE  GivenAndTaken /\ ShownIsGiven
<1>1. place \in [Item -> Place]
  BY DEF TradeInv, TradeSound, TypeOKTrade
<1>2. \A i \in Item : place'[i] = IF i = x THEN to ELSE place[i]
  BY <1>1
<1>3. ASSUME NEW p \in Trader, NEW q \in Trader, NEW i \in Item,
             p # q, place[i] = Bag(p), place'[i] = Bag(q)
      PROVE  FALSE
  <2>1. i = x /\ to = Bag(q)
    BY <1>2, <1>3, PlacesDiffer
  <2>2. q = mover
    BY <2>1, PlacesDiffer
  <2>3. p = mover
    BY <1>3, <2>1, PlacesDiffer DEF InReach
  <2> QED BY <1>3, <2>2, <2>3
<1>4. ASSUME NEW p \in Trader, NEW b \in Box, trader[p].item = b, trader'[p].item = b
      PROVE  \A i \in Item : (place[i] = b) <=> (place'[i] = b)
  <2>1. b # NoItem
    BY TradeConstants
  <2>2. p \notin Concerned(x, to)
    <3>1. Concerned(x, to) \in SUBSET Trader
      BY DEF Concerned
    <3> QED BY <1>4, <2>1, <3>1, Closed DEF NoTrade
  <2>3. place[x] # b /\ to # b
    BY <1>4, <2>1, <2>2 DEF Concerned, Overlap
  <2> QED BY <1>2, <2>3
<1> QED BY <1>3, <1>4 DEF GivenAndTaken, ShownIsGiven

\* The exchange: both items were on offer, and go to the other side.
LEMMA SwapIsFair ==
    ASSUME TradeInv, NEW p \in Trader, trader[p].partner # Nobody, trader[p].partner # p,
           CloseTrades({p}), place' = Swapped(p, trader[p].partner)
    PROVE  GivenAndTaken /\ ShownIsGiven
<1> DEFINE q == trader[p].partner
           i == trader[p].item
           j == trader[q].item
<1>1. place \in [Item -> Place] /\ q \in Trader /\ trader[q].partner = p
  BY DEF TradeInv, TradeSound, TypeOKTrade, TradersLinked
<1>2. SUFFICES ASSUME place' # place PROVE GivenAndTaken /\ ShownIsGiven
  BY NothingMoved
<1>3. GivenAndTaken /\ ShownIsGiven
  <2>1. /\ i \in Item /\ j \in Item /\ i # j
        /\ \/ /\ place' = [place EXCEPT ![i] = Bag(q)] /\ place[i] # Bag(p)
           \/ /\ place' = [place EXCEPT ![i] = Bag(q), ![j] = Bag(p)]
    BY <1>1, <1>2, Exchange
  <2>2. /\ \A k \in Item \ {i, j} : place'[k] = place[k]
        /\ place'[i] = Bag(q)
        /\ \/ place'[j] = place[j] /\ place[i] # Bag(p)
           \/ place'[j] = Bag(p)
    BY <1>1, <2>1
  <2>3. /\ place[i] \in {Bag(p), Worn(p), Ground} \cup Box
        /\ place[j] \in {Bag(q), Worn(q), Ground} \cup Box
    BY <1>1, <2>1, TradeConstants DEF TradeInv, OnOffer
  <2>4. GivenAndTaken
    <3> SUFFICES ASSUME NEW g \in Trader, NEW t \in Trader, NEW k \in Item,
                        g # t, place[k] = Bag(g), place'[k] = Bag(t)
                 PROVE  /\ trader[g].item = k /\ trader[t].item # NoItem
                        /\ place'[trader[t].item] = Bag(g)
      BY DEF GivenAndTaken
    <3>1. k \in {i, j}
      BY <2>2, PlacesDiffer
    <3>2. CASE k = i
      <4>1. t = q /\ g = p
        BY <1>1, <2>2, <2>3, <3>2, PlacesDiffer
      <4> QED BY <2>1, <2>2, <3>2, <4>1, TradeConstants
    <3>3. CASE k = j
      <4>1. place'[j] = Bag(p) /\ t = p /\ g = q
        BY <1>1, <2>2, <2>3, <3>3, PlacesDiffer
      <4> QED BY <2>1, <2>2, <3>3, <4>1, TradeConstants
    <3> QED BY <3>1, <3>2, <3>3
  <2>5. ShownIsGiven
    <3> SUFFICES ASSUME NEW r \in Trader, NEW b \in Box, trader[r].item = b, trader'[r].item = b,
                        NEW k \in Item
                 PROVE  (place[k] = b) <=> (place'[k] = b)
      BY DEF ShownIsGiven
    <3>1. b # NoItem /\ b \in Item
      BY TradeConstants
    <3>2. r # p /\ r # q
      BY <1>1, <3>1, Closed DEF NoTrade
    <3>3. /\ <<b, r>> \in tradeItems /\ <<i, p>> \in tradeItems /\ <<j, q>> \in tradeItems
      BY <1>1, <2>1, <3>1, TradeConstants DEF TradeInv, TradeSound, LedgerExact
    <3>4. ~Overlap(b, i) /\ ~Overlap(b, j)
      BY <3>2, <3>3 DEF TradeInv, TradeSound, LedgerExact
    <3>5. place[i] # b /\ place[j] # b
      BY <3>4 DEF Overlap
    <3>6. Bag(p) # b /\ Bag(q) # b
      BY <1>1, <3>1, PlacesDiffer
    <3> QED BY <2>2, <3>5, <3>6
  <2> QED BY <2>4, <2>5
<1> QED BY <1>3

\* Only the second acceptance takes from one player's containers to another's, and then both
\* ways; every other step closes the trades it would disturb.
LEMMA StepIsFair == TradeInv /\ [TradeNext]_tradeVars => GivenAndTaken /\ ShownIsGiven
<1> SUFFICES ASSUME TradeInv, [TradeNext]_tradeVars PROVE GivenAndTaken /\ ShownIsGiven
  OBVIOUS
<1>1. CASE MoveItem
  BY <1>1, HisMove, MoveIsFair
<1>2. CASE PlayerAcceptTrade
  <2>1. present \subseteq Trader
    BY DEF TradeInv, TradeSound, TypeOKTrade
  <2>2. PICK p \in present :
          /\ trader[p].state \in {"ACKNOWLEDGE", "INITIATED"} /\ trader[p].partner # Nobody
          /\ \/ /\ trader[trader[p].partner].state = "ACCEPT"
                /\ CloseTrades({p}) /\ place' = Swapped(p, trader[p].partner)
             \/ place' = place
    BY <1>2 DEF PlayerAcceptTrade
  <2>3. trader[trader[p].partner].state = "ACCEPT" => trader[p].partner # p
    BY <2>2
  <2> QED BY <2>1, <2>2, <2>3, SwapIsFair, NothingMoved
<1>3. CASE place' = place
  BY <1>3, NothingMoved
<1> QED BY <1>1, <1>2, <1>3
        DEF TradeNext, tradeVars, PlayerRequestTrade, PlayerCloseTrade, WalkAway, ComeBack

\* A trade is what the two agreed on: the table of pledged items and the partners stay
\* exact whatever happens to items and players meanwhile, nobody gives an item out of
\* his containers without getting the other, and what was shown is what is given.
THEOREM TradesAreFair == TradeSpec => TradeFair
<1>1. TradeInv => TradeSound
  BY DEF TradeInv
<1>2. TradeInv /\ [TradeNext]_tradeVars => [GivenAndTaken /\ ShownIsGiven]_tradeVars
  BY StepIsFair
<1> QED BY <1>1, <1>2, TradeStart, TradeStep, PTL DEF TradeSpec, TradeFair

-----------------------------------------------------------------------------
(* Population: the wild pokemon of a spawn *)

\* A finite set of numbers has a greatest one: of the sets without one, which are of
\* some sizes, one of the least size would lose it with any of its elements.
LEMMA GreatestOf ==
    ASSUME NEW S \in SUBSET Nat, IsFiniteSet(S), S # {}
    PROVE  \E x \in S : \A y \in S : y <= x
<1> DEFINE Topless(T) == T # {} /\ \A x \in T : \E y \in T : x < y
           Sizes == {n \in Nat : \E T \in SUBSET S : Topless(T) /\ Cardinality(T) = n}
<1>1. SUFFICES ASSUME Topless(S) PROVE FALSE
  OBVIOUS
<1>2. Cardinality(S) \in Sizes
  BY <1>1, FS_CardinalityType
<1>3. PICK n \in Sizes : \A k \in Sizes : n <= k
  BY <1>2, FirstFree
<1>4. PICK T \in SUBSET S : Topless(T) /\ Cardinality(T) = n
  OBVIOUS
<1>5. PICK x \in T : TRUE
  BY <1>4
<1>6. IsFiniteSet(T) /\ Cardinality(T) \in Nat
  BY FS_Subset, FS_CardinalityType
<1>7. PICK z \in T : x < z
  BY <1>4
<1>8. Cardinality(T \ {x}) = n - 1 /\ Cardinality(T \ {x}) \in Nat
  BY <1>4, <1>6, FS_RemoveElement, FS_CardinalityType
<1>9. Topless(T \ {x})
  <2>1. T \ {x} # {}
    BY <1>7
  <2>2. ASSUME NEW a \in T \ {x} PROVE \E b \in T \ {x} : a < b
    <3>1. PICK b \in T : a < b
      BY <1>4
    <3>2. CASE b = x
      <4>1. a < z
        BY <1>7, <3>1, <3>2
      <4> QED BY <1>7, <4>1
    <3> QED BY <3>1, <3>2
  <2> QED BY <2>1, <2>2
<1> QED BY <1>3, <1>8, <1>9

Below(S, x) == {y \in S : y < x}

\* The n-th of a finite set of numbers, from 0, is there, and the only one.
LEMMA NthFound ==
    ASSUME NEW S \in SUBSET Nat, IsFiniteSet(S), NEW n \in Nat, n < Cardinality(S)
    PROVE  Nth(S, n) \in S /\ Cardinality(Below(S, Nth(S, n))) = n
<1> DEFINE High == {x \in S : n <= Cardinality(Below(S, x))}
<1>1. \A x \in S : IsFiniteSet(Below(S, x)) /\ Cardinality(Below(S, x)) \in Nat
  BY FS_Subset, FS_CardinalityType DEF Below
<1>2. High # {}
  <2>1. S # {} /\ Cardinality(S) \in Nat
    BY FS_EmptySet, FS_CardinalityType
  <2>2. PICK x \in S : \A y \in S : y <= x
    BY <2>1, GreatestOf
  <2>3. Below(S, x) = S \ {x}
    <3>1. \A y \in S : y \in Nat /\ x \in Nat /\ (y < x <=> y # x)
      BY <2>2
    <3> QED BY <3>1 DEF Below
  <2>4. Cardinality(Below(S, x)) = Cardinality(S) - 1
    BY <2>3, FS_RemoveElement
  <2> QED BY <2>1, <2>4
<1>3. PICK x \in High : \A y \in High : x <= y
  BY <1>2, FirstFree
<1>4. Cardinality(Below(S, x)) = n
  <2>1. CASE Below(S, x) = {}
    BY <1>1, <2>1, FS_EmptySet
  <2>2. CASE Below(S, x) # {}
    <3>1. PICK z \in Below(S, x) : \A y \in Below(S, x) : y <= z
      BY <1>1, <2>2, GreatestOf DEF Below
    <3>2. Below(S, z) = Below(S, x) \ {z}
      <4>1. z \in S /\ z < x /\ x \in Nat /\ z \in Nat
        BY <1>3, <3>1 DEF Below
      <4>2. ASSUME NEW y \in S PROVE y < z <=> y < x /\ y # z
        <5>1. y \in Nat /\ (y < x => y <= z)
          BY <3>1 DEF Below
        <5> QED BY <4>1, <5>1
      <4> QED BY <4>2 DEF Below
    <3>3. Cardinality(Below(S, z)) = Cardinality(Below(S, x)) - 1
      BY <1>1, <3>2, FS_RemoveElement
    <3>4. z \in S /\ z < x /\ z \notin High
      BY <1>3, <3>1 DEF Below
    <3>5. Cardinality(Below(S, z)) < n
      BY <1>1, <3>4
    <3> QED BY <1>1, <3>3, <3>5
  <2> QED BY <2>1, <2>2
<1> QED BY <1>4 DEF Nth, Below
-----------------------------------------------------------------------------
\* Whoever is checked stands in the list, and is in the map.  What is to be released
\* is so once, and has been removed.  And the spawn looks again only as long as it is
\* not full, or has a place to be freed.
Watched(p) == p.creatureCheck => p.listed /\ p.life = "placed"
Alive(p) == ~p.healthy /\ p.life = "placed" => p.creatureCheck
Roomy == \/ Cardinality(spawnedMap) < Cardinality(Slots)
         \/ \E e \in spawnedMap : pokemon[e[2]].life = "removed"

PopInv ==
    /\ PokemonHeld
    /\ \A m \in Pokemon : Watched(pokemon[m]) /\ Alive(pokemon[m])
    /\ \A m \in Pokemon : toRelease[m] # 0 => toRelease[m] = 1 /\ pokemon[m].life = "removed"
    /\ (\E e \in spawnedMap : pokemon[e[2]].life = "removed") => checkSpawnEvent
    /\ RateSpawn <= 1 => /\ Cardinality(spawnedMap) <= Cardinality(Slots)
                         /\ checkSpawnEvent => Roomy

\* The invariant is strong enough.
LEMMA PopInvSuffices == PopInv => PokemonHeld /\ SpawnGoesOn
  BY DEF PopInv, SpawnGoesOn, Watched, Alive, Placed

\* The map of a spawn is finite, and so are its slots.
LEMMA SpawnFinite ==
    ASSUME TypeOKPopulation
    PROVE  /\ IsFiniteSet(spawnedMap) /\ Cardinality(spawnedMap) \in Nat
           /\ IsFiniteSet(Slots) /\ Cardinality(Slots) \in Nat
<1>1. IsFiniteSet(Slots) /\ IsFiniteSet(Slots \cup {0})
  BY PopulationConstants, FS_Subset, FS_AddElement
<1>2. IsFiniteSet((Slots \cup {0}) \X Pokemon)
  BY <1>1, PopulationConstants, FS_Product
<1> QED BY <1>1, <1>2, FS_Subset, FS_CardinalityType DEF TypeOKPopulation

\* What an object is worth to its counter.
LEMMA Counts ==
    ASSUME PopInv, NEW m \in Pokemon
    PROVE  /\ Holds(m) \in 0 .. 1 /\ toRelease[m] \in 0 .. 1
           /\ pokemon[m] \in Object /\ refs[m] \in Nat
           /\ pokemon[m].life = "free" => /\ refs[m] = 0 /\ Holds(m) = 0 /\ toRelease[m] = 0
                                          /\ ~pokemon[m].listed /\ ~pokemon[m].creatureCheck
           /\ refs[m] = 0 => pokemon[m].life = "free"
           /\ pokemon[m].life = "placed" => toRelease[m] = 0
<1>1. /\ Holds(m) \in 0 .. 1 /\ toRelease[m] \in 0 .. 1
      /\ pokemon[m] \in Object /\ refs[m] \in Nat
  BY DEF PopInv, PokemonHeld, TypeOKPopulation, Holds
<1>2. pokemon[m].life = "placed" => toRelease[m] = 0
  BY DEF PopInv
<1>3. /\ refs[m] = 0 <=> pokemon[m].life = "free"
      /\ refs[m] = Holds(m) + toRelease[m] + (IF pokemon[m].listed THEN 1 ELSE 0)
                     + (IF Placed(m) THEN 1 ELSE 0)
  BY DEF PopInv, PokemonHeld
<1>4. pokemon[m].life = "free" => /\ refs[m] = 0 /\ Holds(m) = 0 /\ toRelease[m] = 0
                                  /\ ~pokemon[m].listed
  <2>1. (IF pokemon[m].listed THEN 1 ELSE 0) \in 0 .. 1 /\ (IF Placed(m) THEN 1 ELSE 0) \in 0 .. 1
    OBVIOUS
  <2>2. pokemon[m].listed \in BOOLEAN
    BY <1>1 DEF Object
  <2> QED BY <1>1, <1>3, <2>1, <2>2
<1>5. pokemon[m].life = "free" => ~pokemon[m].creatureCheck
  BY DEF PopInv, Watched
<1> QED BY <1>1, <1>2, <1>3, <1>4, <1>5

\* setIdle of one that is in the map: it is checked again, or for a while not.
LEMMA SetIdleFacts ==
    ASSUME NEW p \in Object, NEW idle \in BOOLEAN, p.life = "placed", Watched(p), Alive(p)
    PROVE  LET q == SetIdle(p, idle)
           IN  /\ q \in Object /\ q.life = "placed" /\ q.healthy = p.healthy
               /\ q.strayed = p.strayed
               /\ Watched(q) /\ Alive(q) /\ (p.listed => q.listed)
               /\ ~idle => q.creatureCheck
  BY DEF Object, SetIdle, AddCreatureCheck, RemoveCreatureCheck, Watched, Alive

\* One object changes, but for its place in the map and in the spawn.
LEMMA UpdateKeeps ==
    ASSUME PopInv, NEW m \in Pokemon, NEW q \in Object, Placed(m), q.life = "placed",
           Watched(q), Alive(q), pokemon[m].listed => q.listed, Update(m, q)
    PROVE  PopInv'
<1>1. /\ pokemon' = [pokemon EXCEPT ![m] = q]
      /\ refs' = [refs EXCEPT ![m] = @ + Listed(pokemon[m], q)]
      /\ spawnedMap' = spawnedMap /\ checkSpawnEvent' = checkSpawnEvent /\ toRelease' = toRelease
  BY DEF Update
<1>2. pokemon \in [Pokemon -> Object] /\ refs \in [Pokemon -> 0 .. 4]
  BY DEF PopInv, PokemonHeld, TypeOKPopulation
<1>3. \A k \in Pokemon : /\ pokemon'[k] = IF k = m THEN q ELSE pokemon[k]
                         /\ refs'[k] = IF k = m THEN refs[m] + Listed(pokemon[m], q) ELSE refs[k]
                         /\ Holds(k)' = Holds(k)
                         /\ pokemon'[k].life = pokemon[k].life
  BY <1>1, <1>2 DEF Holds, Placed
<1>4. /\ refs'[m] = Holds(m) + toRelease[m] + (IF q.listed THEN 1 ELSE 0) + 1
      /\ refs'[m] \in 1 .. 4
  <2>1. refs[m] = Holds(m) + toRelease[m] + (IF pokemon[m].listed THEN 1 ELSE 0) + 1
    BY DEF PopInv, PokemonHeld
  <2>2. Holds(m) \in 0 .. 1 /\ toRelease[m] \in 0 .. 1
    BY Counts
  <2>3. pokemon[m].listed \in BOOLEAN /\ q.listed \in BOOLEAN
    BY <1>2 DEF Object
  <2> QED BY <1>3, <2>1, <2>2, <2>3 DEF Listed
<1>5. TypeOKPopulation'
  BY <1>1, <1>2, <1>4 DEF PopInv, PokemonHeld, TypeOKPopulation
<1>6. PokemonHeld'
  <2>1. ASSUME NEW k \in Pokemon
        PROVE  /\ refs'[k] = Holds(k)' + toRelease'[k] + (IF pokemon'[k].listed THEN 1 ELSE 0)
                             + (IF Placed(k)' THEN 1 ELSE 0)
               /\ refs'[k] = 0 <=> pokemon'[k].life = "free"
    <3>1. CASE k = m
      BY <1>1, <1>3, <1>4, <3>1 DEF Placed
    <3>2. CASE k # m
      BY <1>1, <1>3, <3>2 DEF PopInv, PokemonHeld, Placed
    <3> QED BY <3>1, <3>2
  <2> QED BY <1>5, <2>1 DEF PokemonHeld
<1>7. \A k \in Pokemon : /\ Watched(pokemon'[k]) /\ Alive(pokemon'[k])
                         /\ toRelease'[k] # 0 => toRelease'[k] = 1 /\ pokemon'[k].life = "removed"
  BY <1>1, <1>3 DEF PopInv
<1>8. \A e \in spawnedMap : pokemon'[e[2]].life = pokemon[e[2]].life
  BY <1>3 DEF PopInv, PokemonHeld, TypeOKPopulation
<1> QED BY <1>1, <1>6, <1>7, <1>8 DEF PopInv, Roomy

\* updateIdleStatus, changeHealth and straying change one object.
LEMMA ObjectsChange == PopInv /\ (IdleStatus \/ ChangeHealth \/ Stray) => PopInv'
<1> SUFFICES ASSUME PopInv, IdleStatus \/ ChangeHealth \/ Stray PROVE PopInv'
  OBVIOUS
<1>1. ASSUME NEW m \in Pokemon
      PROVE  pokemon[m] \in Object /\ Watched(pokemon[m]) /\ Alive(pokemon[m])
  BY DEF PopInv, PokemonHeld, TypeOKPopulation
<1>2. CASE IdleStatus
  <2>1. PICK m \in Pokemon, idle \in BOOLEAN : Placed(m) /\ Update(m, SetIdle(pokemon[m], idle))
    BY <1>2 DEF IdleStatus
  <2> QED BY <1>1, <2>1, SetIdleFacts, UpdateKeeps DEF Placed
<1>3. CASE ChangeHealth
  <2>1. PICK m \in Pokemon :
            /\ Placed(m)
            /\ \/ Update(m, Hurt(pokemon[m]))
               \/ Update(m, [SetIdle(pokemon[m], FALSE) EXCEPT !.healthy = TRUE])
    BY <1>3 DEF ChangeHealth
  <2> DEFINE q == SetIdle(pokemon[m], FALSE)
  <2>2. /\ q \in Object /\ q.life = "placed" /\ Watched(q) /\ (pokemon[m].listed => q.listed)
        /\ q.creatureCheck
    BY <1>1, <2>1, SetIdleFacts DEF Placed
  <2>3. Hurt(pokemon[m]) = [q EXCEPT !.healthy = FALSE]
    BY DEF Hurt
  <2> HIDE DEF q
  <2>4. ASSUME NEW b \in BOOLEAN, NEW r, r = [q EXCEPT !.healthy = b]
        PROVE  /\ r \in Object /\ r.life = "placed" /\ Watched(r) /\ Alive(r)
               /\ pokemon[m].listed => r.listed
    BY <2>2, <2>4 DEF Object, Watched, Alive
  <2> QED BY <2>1, <2>3, <2>4, UpdateKeeps DEF q
<1>4. CASE Stray
  <2>1. PICK m \in Pokemon : Placed(m) /\ Update(m, [pokemon[m] EXCEPT !.strayed = ~@])
    BY <1>4 DEF Stray
  <2> DEFINE q == [pokemon[m] EXCEPT !.strayed = ~@]
  <2>2. /\ q \in Object /\ q.life = "placed" /\ Watched(q) /\ Alive(q)
        /\ pokemon[m].listed => q.listed
    BY <1>1, <2>1 DEF Object, Watched, Alive, Placed
  <2> QED BY <2>1, <2>2, UpdateKeeps
<1> QED BY <1>2, <1>3, <1>4

\* removeCreature: nothing looks at it again, and the map's reference is to be released.
LEMMA RemovedFacts ==
    ASSUME NEW p \in Object, p.life = "placed", Watched(p), Alive(p)
    PROVE  LET q == Removed(p)
           IN  /\ q \in Object /\ q.life = "removed" /\ q.listed = p.listed
               /\ ~q.creatureCheck
  BY DEF Object, SetIdle, Removed, AddCreatureCheck, RemoveCreatureCheck, Watched, Alive

\* The map's reference passes to the list of those to be given back, and the spawn, if it
\* holds the pokemon, begins a check.
LEMMA RemovePokemonKeeps == PopInv /\ RemovePokemon => PopInv'
<1> SUFFICES ASSUME PopInv, RemovePokemon PROVE PopInv'
  OBVIOUS
<1> PICK m \in Pokemon :
        /\ Placed(m)
        /\ pokemon' = [pokemon EXCEPT ![m] = Removed(@)]
        /\ toRelease' = [toRelease EXCEPT ![m] = @ + 1]
        /\ checkSpawnEvent' = (checkSpawnEvent \/ Holds(m) = 1)
        /\ UNCHANGED <<spawnedMap, refs>>
  BY DEF RemovePokemon
<1> DEFINE q == Removed(pokemon[m])
<1>1. TypeOKPopulation
  BY DEF PopInv, PokemonHeld
<1>2. q \in Object /\ q.life = "removed" /\ q.listed = pokemon[m].listed /\ ~q.creatureCheck
  BY <1>1, RemovedFacts DEF PopInv, TypeOKPopulation, Placed
<1>3. toRelease[m] = 0
  BY Counts DEF Placed
<1> HIDE DEF q
<1>4. \A k \in Pokemon : /\ pokemon'[k] = IF k = m THEN q ELSE pokemon[k]
                         /\ toRelease'[k] = IF k = m THEN 1 ELSE toRelease[k]
                         /\ Holds(k)' = Holds(k) /\ refs'[k] = refs[k]
  BY <1>1, <1>3 DEF TypeOKPopulation, Holds, q
<1>5. TypeOKPopulation'
  <2>1. pokemon' \in [Pokemon -> Object] /\ toRelease' \in [Pokemon -> 0 .. 2]
    BY <1>1, <1>2, <1>3 DEF TypeOKPopulation, q
  <2>2. checkSpawnEvent' \in BOOLEAN
    BY <1>1 DEF TypeOKPopulation
  <2> QED BY <1>1, <2>1, <2>2 DEF TypeOKPopulation
<1>6. PokemonHeld'
  <2>1. ASSUME NEW k \in Pokemon
        PROVE  /\ refs'[k] = Holds(k)' + toRelease'[k] + (IF pokemon'[k].listed THEN 1 ELSE 0)
                             + (IF Placed(k)' THEN 1 ELSE 0)
               /\ refs'[k] = 0 <=> pokemon'[k].life = "free"
    <3>1. CASE k = m
      <4>1. /\ refs[m] = Holds(m) + (IF pokemon[m].listed THEN 1 ELSE 0) + 1
            /\ refs[m] # 0 /\ Holds(m) \in 0 .. 1
        BY <1>3, Counts DEF PopInv, PokemonHeld, Placed
      <4> QED BY <1>2, <1>4, <3>1, <4>1 DEF Placed
    <3>2. CASE k # m
      BY <1>4, <3>2 DEF PopInv, PokemonHeld, Placed
    <3> QED BY <3>1, <3>2
  <2> QED BY <1>5, <2>1 DEF PokemonHeld
<1>7. \A k \in Pokemon : /\ Watched(pokemon'[k]) /\ Alive(pokemon'[k])
                         /\ toRelease'[k] # 0 => toRelease'[k] = 1 /\ pokemon'[k].life = "removed"
  BY <1>2, <1>4 DEF PopInv, Watched, Alive
<1>8. (\E e \in spawnedMap' : pokemon'[e[2]].life = "removed") => checkSpawnEvent'
  <2> SUFFICES ASSUME NEW e \in spawnedMap, pokemon'[e[2]].life = "removed"
               PROVE  checkSpawnEvent'
    OBVIOUS
  <2>1. e[2] \in Pokemon
    BY <1>1 DEF TypeOKPopulation
  <2>2. CASE e[2] = m
    BY <2>2 DEF Holds
  <2>3. CASE e[2] # m
    <3>1. pokemon'[e[2]] = pokemon[e[2]]
      BY <1>4, <2>1, <2>3
    <3>2. (\E f \in spawnedMap : pokemon[f[2]].life = "removed") => checkSpawnEvent
      BY DEF PopInv
    <3>3. checkSpawnEvent
      BY <3>1, <3>2
    <3> QED BY <3>3
  <2> QED BY <2>2, <2>3
<1>9. checkSpawnEvent' /\ (checkSpawnEvent => Roomy) => Roomy'
  <2> SUFFICES ASSUME checkSpawnEvent', checkSpawnEvent => Roomy PROVE Roomy'
    OBVIOUS
  <2>1. CASE Holds(m) = 1
    <3>1. PICK e \in spawnedMap : e[2] = m
      BY <2>1 DEF Holds
    <3> QED BY <1>2, <1>4, <3>1 DEF Roomy
  <2>2. CASE Holds(m) # 1
    <3>1. ASSUME NEW e \in spawnedMap, pokemon[e[2]].life = "removed"
          PROVE  pokemon'[e[2]].life = "removed"
      <4>1. e[2] \in Pokemon
        BY <1>1 DEF TypeOKPopulation
      <4> QED BY <1>2, <1>4, <3>1, <4>1
    <3> QED BY <2>2, <3>1 DEF Roomy
  <2> QED BY <2>1, <2>2
<1> QED BY <1>6, <1>7, <1>8, <1>9 DEF PopInv

\* A round of checkCreatures: the dead leave the map, the idle and the removed leave the
\* list, and what was removed before is released.
LEMMA CheckCreaturesKeeps ==
    ASSUME PopInv, NEW B \in SUBSET InList, CheckCreatures(B)
    PROVE  PopInv'
<1> DEFINE dead == {m \in B : pokemon[m].creatureCheck /\ ~pokemon[m].healthy}
           left == {m \in B : ~pokemon[m].creatureCheck}
           given == [m \in Pokemon |->
               refs[m] - toRelease[m] - (IF m \in dead \cup left THEN 1 ELSE 0)]
           after == [m \in Pokemon |->
                            IF m \in dead THEN Removed(pokemon[m])
                            ELSE IF m \in left THEN [pokemon[m] EXCEPT !.listed = FALSE]
                            ELSE pokemon[m]]
<1>1. /\ refs' = given /\ pokemon' = Deleted(after, given)
      /\ toRelease' = [m \in Pokemon |-> 0] /\ spawnedMap' = spawnedMap
      /\ checkSpawnEvent' = (checkSpawnEvent \/ \E m \in dead : Holds(m) = 1)
  BY DEF CheckCreatures
<1>2. TypeOKPopulation /\ \A m \in Pokemon : Watched(pokemon[m]) /\ Alive(pokemon[m])
  BY DEF PopInv, PokemonHeld
<1>3. B \subseteq Pokemon /\ \A m \in B : pokemon[m].listed
  BY DEF InList
\* What becomes of one of them before the references are given back.
<1>4. ASSUME NEW m \in Pokemon
      PROVE  /\ given[m] = Holds(m) + (IF after[m].listed THEN 1 ELSE 0)
                           + (IF after[m].life = "placed" THEN 1 ELSE 0)
             /\ given[m] \in 0 .. 4
             /\ after[m] \in Object /\ Watched(after[m]) /\ Alive(after[m])
             /\ after[m].life = IF m \in dead THEN "removed" ELSE pokemon[m].life
             /\ pokemon[m].life = "free" => given[m] = 0
  <2>1. /\ refs[m] = Holds(m) + toRelease[m] + (IF pokemon[m].listed THEN 1 ELSE 0)
                     + (IF pokemon[m].life = "placed" THEN 1 ELSE 0)
        /\ Holds(m) \in 0 .. 1 /\ toRelease[m] \in 0 .. 1 /\ pokemon[m] \in Object
        /\ pokemon[m].life = "placed" => toRelease[m] = 0
    BY Counts DEF PopInv, PokemonHeld, Placed
  <2>2. pokemon[m].listed \in BOOLEAN
    BY <2>1 DEF Object
  <2>3. CASE m \in dead
    <3>1. /\ pokemon[m].life = "placed" /\ pokemon[m].listed /\ toRelease[m] = 0
          /\ m \notin left
      BY <1>2, <2>1, <2>3 DEF Watched
    <3>2. after[m] = Removed(pokemon[m]) /\ given[m] = refs[m] - 1
      BY <2>1, <2>3, <3>1
    <3>3. /\ after[m] \in Object /\ after[m].life = "removed" /\ after[m].listed
          /\ ~after[m].creatureCheck
      BY <1>2, <2>1, <3>1, <3>2, RemovedFacts
    <3>4. given[m] = Holds(m) + 1 /\ given[m] \in 0 .. 4
      BY <2>1, <3>1, <3>2
    <3> HIDE DEF dead, left, given, after
    <3> QED BY <2>1, <2>3, <3>1, <3>3, <3>4 DEF Watched, Alive
  <2>4. CASE m \in left
    <3>1. pokemon[m].listed /\ m \notin dead /\ ~pokemon[m].creatureCheck
      BY <1>3, <2>4
    <3>2. /\ after[m] = [pokemon[m] EXCEPT !.listed = FALSE]
          /\ given[m] = refs[m] - toRelease[m] - 1
      BY <2>1, <2>4, <3>1
    <3> HIDE DEF dead, left, given, after
    <3>3. /\ after[m] \in Object /\ after[m].life = pokemon[m].life /\ ~after[m].listed
          /\ ~after[m].creatureCheck /\ after[m].healthy = pokemon[m].healthy
      BY <2>1, <3>1, <3>2 DEF Object
    <3>4. /\ given[m] = Holds(m) + (IF pokemon[m].life = "placed" THEN 1 ELSE 0)
          /\ given[m] \in 0 .. 4
      BY <2>1, <3>1, <3>2
    <3>5. Watched(after[m]) /\ Alive(after[m])
      BY <1>2, <3>1, <3>3 DEF Watched, Alive
    <3>6. pokemon[m].life # "free"
      BY <3>1, Counts
    <3>7. given[m] = Holds(m) + (IF after[m].listed THEN 1 ELSE 0)
                     + (IF after[m].life = "placed" THEN 1 ELSE 0)
      BY <2>1, <3>3, <3>4
    <3>8. after[m].life = IF m \in dead THEN "removed" ELSE pokemon[m].life
      BY <3>1, <3>3
    <3> QED BY <3>3, <3>4, <3>5, <3>6, <3>7, <3>8
  <2>5. CASE m \notin dead \cup left
    <3>1. after[m] = pokemon[m] /\ given[m] = refs[m] - toRelease[m]
      BY <2>1, <2>5
    <3> HIDE DEF dead, left, given, after
    <3>2. /\ given[m] = Holds(m) + (IF pokemon[m].listed THEN 1 ELSE 0)
                        + (IF pokemon[m].life = "placed" THEN 1 ELSE 0)
          /\ given[m] \in 0 .. 4
      BY <2>1, <2>2, <3>1
    <3>3. pokemon[m].life = "free" => given[m] = 0
      BY <3>1, Counts
    <3> QED BY <1>2, <2>1, <2>5, <3>1, <3>2, <3>3
  <2> QED BY <2>3, <2>4, <2>5
<1>5. ASSUME NEW m \in Pokemon
      PROVE  /\ pokemon'[m] = IF given[m] = 0 THEN NoObject ELSE after[m]
             /\ refs'[m] = given[m] /\ toRelease'[m] = 0 /\ Holds(m)' = Holds(m)
  BY <1>1 DEF Deleted, Holds
<1>6. dead \subseteq B /\ refs' = given /\ given = [m \in Pokemon |-> given[m]]
  BY <1>1
<1> HIDE DEF dead, left, given, after
<1>7. NoObject \in Object /\ Watched(NoObject) /\ Alive(NoObject)
      /\ NoObject.life = "free" /\ ~NoObject.listed
  BY DEF NoObject, Object, Watched, Alive
<1>8. TypeOKPopulation'
  <2>1. pokemon' \in [Pokemon -> Object]
    <3>1. pokemon' = [m \in Pokemon |-> IF given[m] = 0 THEN NoObject ELSE after[m]]
      BY <1>1 DEF Deleted
    <3> QED BY <1>4, <1>7, <3>1
  <2>2. refs' \in [Pokemon -> 0 .. 4]
    BY <1>4, <1>6
  <2>3. toRelease' \in [Pokemon -> 0 .. 2] /\ checkSpawnEvent' \in BOOLEAN
    BY <1>1, <1>2 DEF TypeOKPopulation
  <2> QED BY <1>1, <1>2, <2>1, <2>2, <2>3 DEF TypeOKPopulation
<1>9. PokemonHeld'
  <2>1. ASSUME NEW k \in Pokemon
        PROVE  /\ refs'[k] = Holds(k)' + toRelease'[k] + (IF pokemon'[k].listed THEN 1 ELSE 0)
                             + (IF Placed(k)' THEN 1 ELSE 0)
               /\ refs'[k] = 0 <=> pokemon'[k].life = "free"
    <3>0. Holds(k) \in 0 .. 1
      BY Counts
    <3>1. CASE given[k] = 0
      <4>1. Holds(k) = 0
        BY <1>4, <3>0, <3>1
      <4> QED BY <1>5, <1>7, <3>1, <4>1 DEF Placed
    <3>2. CASE given[k] # 0
      <4>1. pokemon'[k] = after[k]
        BY <1>5, <3>2
      <4>2. after[k].life # "free"
        BY <1>4, <3>2
      <4> QED BY <1>4, <1>5, <3>0, <3>2, <4>1, <4>2 DEF Placed
    <3> QED BY <3>1, <3>2
  <2> QED BY <1>8, <2>1 DEF PokemonHeld
<1>10. \A k \in Pokemon : /\ Watched(pokemon'[k]) /\ Alive(pokemon'[k]) /\ toRelease'[k] = 0
  BY <1>4, <1>5, <1>7
\* What the spawn holds is not deleted.
<1>11. ASSUME NEW e \in spawnedMap
       PROVE  /\ e[2] \in Pokemon /\ Holds(e[2]) = 1
              /\ pokemon'[e[2]].life = IF e[2] \in dead THEN "removed" ELSE pokemon[e[2]].life
  <2>1. e[2] \in Pokemon /\ Holds(e[2]) = 1
    BY <1>2 DEF TypeOKPopulation, Holds
  <2>2. given[e[2]] # 0
    BY <1>4, <2>1
  <2> QED BY <1>4, <1>5, <2>1, <2>2
<1>12. (\E e \in spawnedMap' : pokemon'[e[2]].life = "removed") => checkSpawnEvent'
  BY <1>1, <1>11 DEF PopInv
<1>13. checkSpawnEvent' /\ (checkSpawnEvent => Roomy) => Roomy'
  <2> SUFFICES ASSUME checkSpawnEvent', checkSpawnEvent => Roomy PROVE Roomy'
    OBVIOUS
  <2>1. CASE \E m \in dead : Holds(m) = 1
    <3>1. PICK m \in dead, e \in spawnedMap : e[2] = m
      BY <2>1 DEF Holds
    <3> QED BY <1>1, <1>11, <3>1 DEF Roomy
  <2>2. CASE checkSpawnEvent
    BY <1>1, <1>11, <2>2 DEF Roomy
  <2> QED BY <1>1, <2>1, <2>2
<1> QED BY <1>1, <1>9, <1>10, <1>12, <1>13 DEF PopInv

-----------------------------------------------------------------------------
Kept == {f \in spawnedMap : pokemon[f[2]].life # "removed"}
Slot(f) == <<IF pokemon[f[2]].strayed THEN 0 ELSE f[1], f[2]>>

\* Spawn::cleanup: what stays is in the map, each entry comes from one there was, and if
\* any was of a removed pokemon there are fewer.
LEMMA CleanedFacts ==
    ASSUME PopInv
    PROVE  /\ CleanedMap = {Slot(f) : f \in Kept}
           /\ CleanedMap \subseteq (Slots \cup {0}) \X Pokemon
           /\ \A c \in CleanedMap : pokemon[c[2]].life = "placed"
           /\ IsFiniteSet(CleanedMap) /\ Cardinality(CleanedMap) \in Nat
           /\ Cardinality(CleanedMap) <= Cardinality(spawnedMap)
           /\ (\E e \in spawnedMap : pokemon[e[2]].life = "removed") =>
                  Cardinality(CleanedMap) < Cardinality(spawnedMap)
<1>1. TypeOKPopulation
  BY DEF PopInv, PokemonHeld
<1>2. CleanedMap = {Slot(f) : f \in Kept}
  BY DEF CleanedMap, Slot, Kept
<1>3. ASSUME NEW f \in Kept
      PROVE  /\ Slot(f) \in (Slots \cup {0}) \X Pokemon /\ Slot(f)[2] = f[2]
             /\ pokemon[f[2]].life = "placed"
  <2>1. /\ f[1] \in Slots \cup {0} /\ f[2] \in Pokemon /\ pokemon[f[2]] \in Object
        /\ Holds(f[2]) = 1
    BY <1>1 DEF TypeOKPopulation, Holds, Kept
  <2>2. pokemon[f[2]].life # "free"
    BY <2>1, Counts
  <2>3. pokemon[f[2]].life = "placed"
    BY <2>1, <2>2 DEF Object, Kept
  <2> QED BY <2>1, <2>3 DEF Slot
<1>4. IsFiniteSet(spawnedMap) /\ Cardinality(spawnedMap) \in Nat /\ Kept \in SUBSET spawnedMap
  BY <1>1, SpawnFinite DEF Kept
<1>5. /\ IsFiniteSet(Kept) /\ Cardinality(Kept) \in Nat
      /\ Cardinality(Kept) <= Cardinality(spawnedMap)
      /\ Cardinality(spawnedMap) = Cardinality(Kept) => spawnedMap = Kept
  BY <1>4, FS_Subset, FS_CardinalityType
<1>6. [f \in Kept |-> Slot(f)] \in Surjection(Kept, CleanedMap)
  BY <1>2 DEF Surjection
<1>7. IsFiniteSet(CleanedMap) /\ Cardinality(CleanedMap) <= Cardinality(Kept)
  BY <1>5, <1>6, FS_Surjection
<1>8. Cardinality(CleanedMap) \in Nat
  BY <1>7, FS_CardinalityType
<1>9. (\E e \in spawnedMap : pokemon[e[2]].life = "removed") => spawnedMap # Kept
  BY DEF Kept
<1> QED BY <1>2, <1>3, <1>4, <1>5, <1>7, <1>8, <1>9

\* With a rate of at most one no more than one slot is tried in a check.
LEMMA OneIsTried ==
    ASSUME RateSpawn <= 1, NEW S \in SUBSET Nat, IsFiniteSet(S), NEW put \in SUBSET FirstOf(S)
    PROVE  Cardinality(put) <= 1
<1>1. ASSUME NEW s \in FirstOf(S), NEW t \in FirstOf(S), t < s PROVE FALSE
  <2> DEFINE less == {u \in S : u < s}
  <2>1. RateSpawn \in Nat /\ s \in S /\ t \in S
    BY PopulationConstants DEF FirstOf
  <2>2. Cardinality(less) < 1
    BY <2>1 DEF FirstOf
  <2>3. IsFiniteSet(less) /\ Cardinality(less) \in Nat
    BY FS_Subset, FS_CardinalityType
  <2>4. t \in less
    BY <1>1, <2>1
  <2> HIDE DEF less
  <2>5. Cardinality(less) # 0
    BY <2>3, <2>4, FS_EmptySet
  <2> QED BY <2>2, <2>3, <2>5
<1>2. ASSUME NEW s \in put, NEW t \in put PROVE s = t
  <2>1. s \in FirstOf(S) /\ t \in FirstOf(S) /\ s \in Nat /\ t \in Nat
    BY DEF FirstOf
  <2>2. ~(s < t) /\ ~(t < s)
    BY <1>1, <2>1
  <2> QED BY <2>1, <2>2
<1>3. CASE put = {}
  BY <1>3, FS_EmptySet
<1>4. CASE put # {}
  <2>1. PICK s : put = {s}
    BY <1>2, <1>4
  <2> QED BY <2>1, FS_Singleton
<1> QED BY <1>3, <1>4

\* checkSpawn: the spawn lets go of those that are gone, and fills slots with new ones.
LEMMA CheckSpawnKeeps == PopInv /\ CheckSpawn => PopInv'
<1> SUFFICES ASSUME PopInv, CheckSpawn PROVE PopInv'
  OBVIOUS
<1> DEFINE free == {m \in Pokemon : pokemon[m].life = "free"}
           dropped == {m \in Pokemon : Holds(m) = 1 /\ pokemon[m].life = "removed"}
<1>a. PICK due \in SUBSET (Slots \ {e[1] : e \in CleanedMap}) :
          \E put \in SUBSET FirstOf(due) : SpawnPokemon(put)
  BY Zenon DEF CheckSpawn
<1>b. PICK put \in SUBSET FirstOf(due) : SpawnPokemon(put)
  BY <1>a
<1> DEFINE new == {<<Nth(put, n), Nth(free, n)>> : n \in 0 .. Cardinality(put) - 1}
           born == {e[2] : e \in new}
           held == [m \in Pokemon |->
               IF m \in born THEN 3 ELSE refs[m] - (IF m \in dropped THEN 1 ELSE 0)]
           youngster == AddCreatureCheck([NoObject EXCEPT !.life = "placed"])
<1>1. /\ spawnedMap' = CleanedMap \cup new
      /\ checkSpawnEvent' = (Cardinality(CleanedMap \cup new) < Cardinality(Slots))
      /\ refs' = held
      /\ pokemon' = [m \in Pokemon |->
             IF m \in born THEN youngster ELSE IF held[m] = 0 THEN NoObject ELSE pokemon[m]]
      /\ toRelease' = toRelease /\ checkSpawnEvent
  <2>1. \A ref, m : m \in Pokemon =>
                Deleted(pokemon, ref)[m] = IF ref[m] = 0 THEN NoObject ELSE pokemon[m]
    BY DEF Deleted
  <2>2. /\ toRelease' = toRelease /\ checkSpawnEvent
        /\ checkSpawnEvent' = (Cardinality(spawnedMap') < Cardinality(Slots))
    BY Zenon DEF CheckSpawn
  <2>3. /\ spawnedMap' = CleanedMap \cup new
        /\ refs' = held
        /\ pokemon' = [m \in Pokemon |-> IF m \in born THEN youngster
                                         ELSE Deleted(pokemon, held)[m]]
    BY <1>b DEF SpawnPokemon
  <2> HIDE DEF new, born, held, youngster
  <2> QED BY <2>1, <2>2, <2>3
<1>2. TypeOKPopulation /\ Pokemon \subseteq Nat /\ IsFiniteSet(Pokemon)
  BY PopulationConstants DEF PopInv, PokemonHeld
<1>3. /\ due \in SUBSET Slots /\ Slots \subseteq Nat /\ IsFiniteSet(due)
      /\ put \in SUBSET Slots /\ put \in SUBSET Nat /\ IsFiniteSet(put)
      /\ Cardinality(put) \in Nat
  BY <1>2, PopulationConstants, FS_Subset, FS_CardinalityType DEF FirstOf
<1>4. free \in SUBSET Nat /\ IsFiniteSet(free) /\ Cardinality(free) \in Nat
  BY <1>2, FS_Subset, FS_CardinalityType
\* The new pokemon have slots, and addresses that were free.
<1>5. new \subseteq Slots \X free /\ born \subseteq free
  <2>1. ASSUME NEW n \in 0 .. Cardinality(put) - 1
        PROVE  Nth(put, n) \in put /\ Nth(free, n) \in free
    <3>0. Cardinality(put) <= Cardinality(free)
      BY <1>b DEF SpawnPokemon
    <3> HIDE DEF free
    <3>1. n \in Nat /\ n < Cardinality(put) /\ n < Cardinality(free)
      BY <1>3, <1>4, <3>0
    <3>2. Nth(put, n) \in put
      BY <1>3, <3>1, NthFound
    <3>3. Nth(free, n) \in free
      BY <1>4, <3>1, NthFound
    <3> QED BY <3>2, <3>3
  <2>2. new \subseteq Slots \X free
    <3> SUFFICES ASSUME NEW e \in new PROVE e \in Slots \X free
      OBVIOUS
    <3>1. PICK n \in 0 .. Cardinality(put) - 1 : e = <<Nth(put, n), Nth(free, n)>>
      OBVIOUS
    <3>2. Nth(put, n) \in Slots /\ Nth(free, n) \in free
      BY <1>3, <2>1
    <3> HIDE DEF free
    <3> QED BY <3>1, <3>2
  <2> HIDE DEF new, free
  <2> QED BY <2>2
<1>6. /\ youngster \in Object /\ Watched(youngster) /\ Alive(youngster)
      /\ youngster.life = "placed" /\ youngster.listed
      /\ NoObject \in Object /\ Watched(NoObject) /\ Alive(NoObject)
      /\ NoObject.life = "free" /\ ~NoObject.listed
  BY DEF AddCreatureCheck, NoObject, Object, Watched, Alive
<1> HIDE DEF new
<1>7. \A m \in born : \E e \in new : e[2] = m
  OBVIOUS
<1> HIDE DEF born, youngster
<1>8. ASSUME NEW m \in born
      PROVE  /\ m \in Pokemon /\ Holds(m)' = 1 /\ toRelease[m] = 0
             /\ refs'[m] = 3 /\ pokemon'[m] = youngster
  BY <1>1, <1>5, <1>7, Counts DEF Holds
<1>9. ASSUME NEW m \in Pokemon, m \notin born
      PROVE  /\ Holds(m)' = Holds(m) - (IF m \in dropped THEN 1 ELSE 0)
             /\ Holds(m)' \in 0 .. 1
             /\ refs'[m] = refs[m] - (IF m \in dropped THEN 1 ELSE 0)
             /\ pokemon'[m] = IF refs'[m] = 0 THEN NoObject ELSE pokemon[m]
             /\ pokemon[m].life = "free" => refs'[m] = 0
             /\ pokemon[m] \in Object /\ refs'[m] \in 0 .. 4
  <2>1. Holds(m)' = 1 <=> Holds(m) = 1 /\ pokemon[m].life # "removed"
    <3>1. \A e \in new : e[2] # m
      BY <1>9 DEF born
    <3>2. \A f \in Kept : Slot(f)[2] = f[2]
      BY DEF Slot
    <3>3. Holds(m)' = 1 <=> \E c \in CleanedMap : c[2] = m
      BY <1>1, <3>1 DEF Holds
    <3>4. CleanedMap = {Slot(f) : f \in Kept}
      BY CleanedFacts
    <3>5. (\E c \in CleanedMap : c[2] = m) <=> \E f \in Kept : f[2] = m
      BY <3>2, <3>4
    <3> QED BY <3>3, <3>5 DEF Holds, Kept
  <2>2. Holds(m)' \in 0 .. 1 /\ Holds(m) \in 0 .. 1
    BY DEF Holds
  <2>3. refs'[m] = refs[m] - (IF m \in dropped THEN 1 ELSE 0)
    BY <1>1, <1>9
  <2>4. pokemon'[m] = IF refs'[m] = 0 THEN NoObject ELSE pokemon[m]
    BY <1>1, <1>9
  <2>5. /\ refs[m] = Holds(m) + toRelease[m] + (IF pokemon[m].listed THEN 1 ELSE 0)
                     + (IF Placed(m) THEN 1 ELSE 0)
        /\ refs[m] \in 0 .. 4 /\ pokemon[m] \in Object /\ toRelease[m] \in 0 .. 1
        /\ pokemon[m].life = "free" => refs[m] = 0
    BY <1>2, Counts DEF PopInv, PokemonHeld, TypeOKPopulation
  <2>6. m \in dropped => refs[m] \in 1 .. 4 /\ pokemon[m].life # "free"
    <3>1. m \in dropped => Holds(m) = 1 /\ pokemon[m].life = "removed"
      OBVIOUS
    <3> HIDE DEF dropped
    <3>2. (IF pokemon[m].listed THEN 1 ELSE 0) \in 0 .. 1 /\ (IF Placed(m) THEN 1 ELSE 0) \in 0 .. 1
      OBVIOUS
    <3> QED BY <2>5, <3>1, <3>2
  <2>7. m \in dropped <=> Holds(m) = 1 /\ pokemon[m].life = "removed"
    OBVIOUS
  <2> HIDE DEF dropped
  <2> QED BY <2>1, <2>2, <2>3, <2>4, <2>5, <2>6, <2>7
<1>10. PokemonHeld'
  <2>1. spawnedMap' \subseteq (Slots \cup {0}) \X Pokemon /\ checkSpawnEvent' \in BOOLEAN
    BY <1>1, <1>5, CleanedFacts
  <2>2. pokemon' \in [Pokemon -> Object]
    BY <1>1, <1>2, <1>6 DEF TypeOKPopulation
  <2>3. refs' \in [Pokemon -> 0 .. 4]
    <3>1. refs' = [m \in Pokemon |-> refs'[m]]
      BY <1>1
    <3>2. \A m \in Pokemon : refs'[m] \in 0 .. 4
      BY <1>8, <1>9
    <3> QED BY <3>1, <3>2
  <2>4. TypeOKPopulation'
    BY <1>1, <1>2, <2>1, <2>2, <2>3 DEF TypeOKPopulation
  <2>5. ASSUME NEW k \in Pokemon
        PROVE  /\ refs'[k] = Holds(k)' + toRelease'[k] + (IF pokemon'[k].listed THEN 1 ELSE 0)
                             + (IF Placed(k)' THEN 1 ELSE 0)
               /\ refs'[k] = 0 <=> pokemon'[k].life = "free"
    <3>1. CASE k \in born
      BY <1>1, <1>6, <1>8, <3>1 DEF Placed
    <3>2. CASE k \notin born
      <4>1. refs'[k] = Holds(k)' + toRelease[k] + (IF pokemon[k].listed THEN 1 ELSE 0)
                     + (IF Placed(k) THEN 1 ELSE 0)
        <5>1. /\ refs[k] = Holds(k) + toRelease[k] + (IF pokemon[k].listed THEN 1 ELSE 0)
                     + (IF Placed(k) THEN 1 ELSE 0)
              /\ Holds(k) \in 0 .. 1 /\ toRelease[k] \in 0 .. 1
          BY Counts DEF PopInv, PokemonHeld
        <5> HIDE DEF dropped
        <5> QED BY <1>9, <3>2, <5>1
      <4>2. CASE refs'[k] = 0
        <5>1. Holds(k)' = 0 /\ toRelease[k] = 0
          BY <1>9, <3>2, <4>1, <4>2, Counts
        <5>2. pokemon'[k] = NoObject
          BY <1>9, <3>2, <4>2
        <5> QED BY <1>1, <1>6, <4>2, <5>1, <5>2 DEF Placed
      <4>3. CASE refs'[k] # 0
        <5>1. pokemon'[k] = pokemon[k] /\ pokemon[k].life # "free"
          BY <1>9, <3>2, <4>3
        <5> QED BY <1>1, <4>1, <4>3, <5>1 DEF Placed
      <4> QED BY <4>2, <4>3
    <3> QED BY <3>1, <3>2
  <2> QED BY <2>4, <2>5 DEF PokemonHeld
<1>11. ASSUME NEW k \in Pokemon
       PROVE  /\ Watched(pokemon'[k]) /\ Alive(pokemon'[k])
              /\ toRelease'[k] # 0 => toRelease'[k] = 1 /\ pokemon'[k].life = "removed"
  <2>1. /\ Watched(pokemon[k]) /\ Alive(pokemon[k])
        /\ toRelease[k] # 0 => toRelease[k] = 1 /\ pokemon[k].life = "removed"
    BY DEF PopInv
  <2>2. CASE k \in born
    BY <1>1, <1>6, <1>8, <2>2
  <2>3. CASE k \notin born
    <3>1. CASE refs'[k] = 0
      <4>1. refs'[k] = Holds(k)' + toRelease'[k] + (IF pokemon'[k].listed THEN 1 ELSE 0)
                             + (IF Placed(k)' THEN 1 ELSE 0)
        BY <1>10 DEF PokemonHeld
      <4>2. Holds(k)' \in 0 .. 1 /\ toRelease[k] \in 0 .. 1
        BY Counts, <1>9, <2>3
      <4>3. toRelease'[k] = 0
        BY <1>1, <3>1, <4>1, <4>2
      <4> QED BY <1>6, <1>9, <2>3, <3>1, <4>3
    <3>2. CASE refs'[k] # 0
      BY <1>1, <1>9, <2>1, <2>3, <3>2
    <3> QED BY <3>1, <3>2
  <2> QED BY <2>2, <2>3
\* The spawn holds none that is gone.
<1>12. \A e \in spawnedMap' : pokemon'[e[2]].life # "removed"
  <2>1. ASSUME NEW e \in new PROVE pokemon'[e[2]].life # "removed"
    <3>1. e[2] \in born
      BY DEF born
    <3> QED BY <1>6, <1>8, <3>1
  <2>2. ASSUME NEW e \in CleanedMap PROVE pokemon'[e[2]].life # "removed"
    <3>1. e[2] \in Pokemon /\ pokemon[e[2]].life = "placed"
      BY CleanedFacts
    <3> QED BY <1>6, <1>8, <1>9, <3>1
  <2> QED BY <1>1, <2>1, <2>2
<1>13. ASSUME RateSpawn <= 1, Cardinality(spawnedMap) <= Cardinality(Slots), Roomy
       PROVE  Cardinality(spawnedMap') <= Cardinality(Slots)
  <2>1. Cardinality(put) <= 1
    BY <1>3, <1>13, OneIsTried
  <2>2. IsFiniteSet(new) /\ Cardinality(new) \in 0 .. 1
    <3> DEFINE only == <<Nth(put, 0), Nth(free, 0)>>
    <3>1. \A n \in 0 .. Cardinality(put) - 1 : n = 0
      BY <1>3, <2>1
    <3>2. new \in SUBSET {only}
      BY <3>1 DEF new
    <3>3. IsFiniteSet({only}) /\ Cardinality({only}) = 1
      BY FS_Singleton
    <3> HIDE DEF only
    <3>4. IsFiniteSet(new) /\ Cardinality(new) <= 1
      BY <3>2, <3>3, FS_Subset
    <3> QED BY <3>4, FS_CardinalityType
  <2>3. /\ IsFiniteSet(CleanedMap) /\ Cardinality(CleanedMap) \in Nat
        /\ Cardinality(CleanedMap) <= Cardinality(spawnedMap)
        /\ (\E e \in spawnedMap : pokemon[e[2]].life = "removed") =>
               Cardinality(CleanedMap) < Cardinality(spawnedMap)
    BY CleanedFacts
  <2>4. Cardinality(spawnedMap) \in Nat /\ Cardinality(Slots) \in Nat
    BY <1>2, SpawnFinite
  <2>5. Cardinality(CleanedMap) < Cardinality(Slots)
    BY <1>13, <2>3, <2>4 DEF Roomy
  <2>6. Cardinality(CleanedMap \cup new) <= Cardinality(CleanedMap) + Cardinality(new)
    <3>1. Cardinality(CleanedMap \cup new) =
              Cardinality(CleanedMap) + Cardinality(new) - Cardinality(CleanedMap \cap new)
      BY <2>2, <2>3, FS_Union
    <3>2. Cardinality(CleanedMap \cap new) \in Nat
      BY <2>2, FS_Subset, FS_CardinalityType
    <3> QED BY <2>2, <2>3, <3>1, <3>2
  <2>7. Cardinality(CleanedMap \cup new) \in Nat
    BY <2>2, <2>3, FS_Union, FS_CardinalityType
  <2> QED BY <1>1, <2>2, <2>3, <2>4, <2>5, <2>6, <2>7
<1>14. RateSpawn <= 1 => /\ Cardinality(spawnedMap') <= Cardinality(Slots)
                         /\ checkSpawnEvent' => Roomy'
  <2>1. checkSpawnEvent' => Roomy'
    BY <1>1 DEF Roomy
  <2> QED BY <1>1, <1>13, <2>1 DEF PopInv
<1> QED BY <1>10, <1>11, <1>12, <1>14 DEF PopInv

-----------------------------------------------------------------------------
\* Spawn::startup: those that could be placed are in the map and held by the spawn.
LEMMA PopStart == PopInit => PopInv
<1> SUFFICES ASSUME PopInit PROVE PopInv
  OBVIOUS
<1>0. PICK S \in SUBSET Slots :
        /\ pokemon = [m \in Pokemon |->
                         IF m \in S THEN [NoObject EXCEPT !.life = "placed"] ELSE NoObject]
        /\ spawnedMap = {<<m, m>> : m \in S}
        /\ checkSpawnEvent = FALSE
        /\ toRelease = [m \in Pokemon |-> 0]
        /\ refs = [m \in Pokemon |-> IF m \in S THEN 2 ELSE 0]
  BY DEF PopInit
<1>1. S \subseteq Pokemon /\ IsFiniteSet(Slots) /\ IsFiniteSet(S)
      /\ Cardinality(S) <= Cardinality(Slots)
  BY PopulationConstants, FS_Subset
<1> DEFINE settled == [NoObject EXCEPT !.life = "placed"]
<1>a. /\ settled \in Object /\ settled.life = "placed" /\ ~settled.listed
      /\ Watched(settled) /\ Alive(settled)
      /\ NoObject \in Object /\ NoObject.life = "free" /\ ~NoObject.listed
      /\ Watched(NoObject) /\ Alive(NoObject)
  BY DEF NoObject, Object, Watched, Alive
<1>b. /\ pokemon = [m \in Pokemon |-> IF m \in S THEN settled ELSE NoObject]
      /\ spawnedMap = {<<m, m>> : m \in S}
      /\ checkSpawnEvent = FALSE
      /\ toRelease = [m \in Pokemon |-> 0]
      /\ refs = [m \in Pokemon |-> IF m \in S THEN 2 ELSE 0]
  BY <1>0
<1> HIDE DEF settled
<1>2. ASSUME NEW m \in Pokemon
      PROVE  /\ pokemon[m] \in Object /\ Watched(pokemon[m]) /\ Alive(pokemon[m])
             /\ ~pokemon[m].listed
             /\ pokemon[m].life = IF m \in S THEN "placed" ELSE "free"
             /\ refs[m] = (IF m \in S THEN 2 ELSE 0)
             /\ Holds(m) = (IF m \in S THEN 1 ELSE 0)
  <2>1. pokemon[m] = (IF m \in S THEN settled ELSE NoObject)
    BY <1>b
  <2>2. refs[m] = (IF m \in S THEN 2 ELSE 0)
    BY <1>b
  <2>3. Holds(m) = (IF m \in S THEN 1 ELSE 0)
    <3>1. spawnedMap = {<<k, k>> : k \in S}
      BY <1>b
    <3>2. (\E e \in spawnedMap : e[2] = m) <=> m \in S
      <4>1. ASSUME m \in S PROVE \E e \in spawnedMap : e[2] = m
        <5>1. <<m, m>> \in spawnedMap
          BY ONLY <3>1, <4>1
        <5> QED BY ONLY <5>1
      <4>2. ASSUME NEW e \in spawnedMap, e[2] = m PROVE m \in S
        BY ONLY <3>1, <4>2
      <4> QED BY ONLY <4>1, <4>2
    <3> QED BY ONLY <3>2 DEF Holds
  <2> HIDE DEF Watched, Alive
  <2>4. CASE m \in S
    BY <1>a, <2>1, <2>2, <2>3, <2>4
  <2>5. CASE m \notin S
    BY <1>a, <2>1, <2>2, <2>3, <2>5
  <2> QED BY <2>4, <2>5
<1>3. TypeOKPopulation
  <2>1. pokemon \in [Pokemon -> Object] /\ refs \in [Pokemon -> 0 .. 4]
    BY <1>a, <1>b
  <2>2. toRelease \in [Pokemon -> 0 .. 2] /\ checkSpawnEvent \in BOOLEAN
    <3>1. toRelease = [m \in Pokemon |-> 0]
      BY <1>b
    <3>2. checkSpawnEvent = FALSE
      BY <1>b
    <3>3. toRelease \in [Pokemon -> 0 .. 2]
      BY ONLY <3>1, 0 \in 0 .. 2
    <3>4. checkSpawnEvent \in BOOLEAN
      BY ONLY <3>2
    <3> QED BY ONLY <3>3, <3>4
  <2>3. spawnedMap \subseteq (Slots \cup {0}) \X Pokemon
    BY <1>1, <1>b
  <2> QED BY <2>1, <2>2, <2>3 DEF TypeOKPopulation
<1>4. PokemonHeld
  <2>1. ASSUME NEW m \in Pokemon
        PROVE  /\ refs[m] = Holds(m) + toRelease[m] + (IF pokemon[m].listed THEN 1 ELSE 0)
                     + (IF Placed(m) THEN 1 ELSE 0)
               /\ refs[m] = 0 <=> pokemon[m].life = "free"
    <3>1. toRelease[m] = 0
      BY <1>b
    <3>2. /\ pokemon[m].life = IF m \in S THEN "placed" ELSE "free"
          /\ ~pokemon[m].listed
          /\ refs[m] = (IF m \in S THEN 2 ELSE 0)
          /\ Holds(m) = (IF m \in S THEN 1 ELSE 0)
      BY <1>2
    <3> QED BY ONLY <3>1, <3>2 DEF Placed
  <2> QED BY <1>3, <2>1 DEF PokemonHeld
<1>5. Cardinality(spawnedMap) <= Cardinality(Slots)
  <2>1. [m \in S |-> <<m, m>>] \in Surjection(S, spawnedMap)
    BY <1>b DEF Surjection
  <2>2. Cardinality(spawnedMap) <= Cardinality(S)
    BY <1>1, <2>1, FS_Surjection
  <2>3. Cardinality(S) \in Nat /\ Cardinality(Slots) \in Nat /\ Cardinality(spawnedMap) \in Nat
    BY <1>1, <1>3, FS_CardinalityType, SpawnFinite
  <2> QED BY <1>1, <2>2, <2>3
<1>6. \A e \in spawnedMap : pokemon[e[2]].life # "removed"
  BY <1>1, <1>2, <1>b
<1> QED BY <1>2, <1>b, <1>4, <1>5, <1>6 DEF PopInv

\* The invariant is kept by every step.
LEMMA PopStep == PopInv /\ [PopNext]_popVars => PopInv'
<1> SUFFICES ASSUME PopInv, [PopNext]_popVars PROVE PopInv'
  OBVIOUS
<1>1. CASE UNCHANGED popVars
  <2>1. /\ pokemon' = pokemon /\ spawnedMap' = spawnedMap /\ toRelease' = toRelease
        /\ checkSpawnEvent' = checkSpawnEvent /\ refs' = refs
    BY <1>1 DEF popVars
  <2>2. TypeOKPopulation' = TypeOKPopulation /\ Roomy' = Roomy
    BY <2>1 DEF TypeOKPopulation, Roomy
  <2>3. PokemonHeld'
    BY <2>1, <2>2 DEF PopInv, PokemonHeld, Holds, Placed
  <2> QED BY <2>1, <2>2, <2>3 DEF PopInv
<1>2. CASE IdleStatus \/ ChangeHealth \/ Stray
  BY <1>2, ObjectsChange
<1>3. CASE RemovePokemon
  BY <1>3, RemovePokemonKeeps
<1>4. CASE CheckSpawn
  BY <1>4, CheckSpawnKeeps
<1>5. CASE \E B \in SUBSET InList : CheckCreatures(B)
  BY <1>5, CheckCreaturesKeeps
<1> QED BY <1>1, <1>2, <1>3, <1>4, <1>5 DEF PopNext

\* Whatever dies, idles, strays or is removed in whatever order, with a spawn of any size
\* and at any rate, every reference to a wild pokemon is counted, and it is deleted when
\* the last one is given back and not before.
THEOREM PokemonAreHeld == PopSpec => []PokemonHeld
<1>1. PopInv => PokemonHeld
  BY PopInvSuffices
<1> QED BY <1>1, PopStart, PopStep, PTL DEF PopSpec

\* A pokemon that has lost its health is among those that are checked, a spawn at a rate
\* of at most 1 never holds more than it has slots, and one that holds a pokemon that is
\* gone has a check to come.
THEOREM SpawnsGoOn == PopSpec => []SpawnGoesOn
<1>1. PopInv => SpawnGoesOn
  BY PopInvSuffices
<1> QED BY <1>1, PopStart, PopStep, PTL DEF PopSpec

-----------------------------------------------------------------------------
(* Parties *)

\* What erase leaves of a list in which nobody is twice.
LEMMA EraseFacts ==
    ASSUME NEW S, NEW s \in Seq(S), IsInjective(s), NEW p
    PROVE  /\ Erase(s, p) \in Seq(S) /\ IsInjective(Erase(s, p))
           /\ ToSet(Erase(s, p)) = ToSet(s) \ {p}
           /\ p \notin ToSet(s) => Erase(s, p) = s
           /\ p \in ToSet(s) => Len(Erase(s, p)) = Len(s) - 1
<1>1. CASE p \notin ToSet(s)
  BY <1>1 DEF Erase
<1>2. CASE p \in ToSet(s)
  <2> DEFINE i == CHOOSE k \in DOMAIN s : s[k] = p
             e == RemoveAt(s, i)
  <2>1. i \in 1 .. Len(s) /\ s[i] = p /\ Len(s) \in Nat
    BY <1>2 DEF ToSet
  <2> HIDE DEF i
  <2> DEFINE a == SubSeq(s, 1, i - 1)
             b == SubSeq(s, i + 1, Len(s))
  <2>a. /\ a \in Seq(S) /\ Len(a) = i - 1 /\ \A k \in 1 .. i - 1 : a[k] = s[k]
    BY <2>1
  <2>b. /\ b \in Seq(S) /\ Len(b) = Len(s) - i /\ \A k \in 1 .. Len(s) - i : b[k] = s[i + k]
    BY <2>1
  <2>c. e = a \o b
    BY DEF RemoveAt
  <2> HIDE DEF a, b, e
  <2>2. e \in Seq(S) /\ Len(e) = Len(s) - 1
    BY <2>1, <2>a, <2>b, <2>c
  <2>3. \A k \in 1 .. Len(s) - 1 : e[k] = IF k < i THEN s[k] ELSE s[k + 1]
    <3> SUFFICES ASSUME NEW k \in 1 .. Len(s) - 1
                 PROVE  e[k] = IF k < i THEN s[k] ELSE s[k + 1]
      OBVIOUS
    <3>1. CASE k < i
      <4>1. k \in 1 .. Len(a)
        BY <2>1, <2>a, <3>1
      <4>2. e[k] = a[k]
        BY <2>a, <2>b, <2>c, <4>1
      <4> QED BY <2>a, <3>1, <4>1, <4>2
    <3>2. CASE ~(k < i)
      <4>1. k - (i - 1) \in 1 .. Len(b) /\ i + (k - (i - 1)) = k + 1
        BY <2>1, <2>b, <3>2
      <4>2. e[k] = b[k - (i - 1)]
        BY <2>1, <2>a, <2>b, <2>c, <3>2
      <4>3. b[k - (i - 1)] = s[i + (k - (i - 1))]
        BY <2>b, <4>1
      <4> QED BY <3>2, <4>1, <4>2, <4>3
    <3> QED BY <3>1, <3>2
  <2>4. Erase(s, p) = e
    BY <1>2 DEF Erase, i, e
  <2>5. DOMAIN e = 1 .. Len(s) - 1 /\ DOMAIN s = 1 .. Len(s)
    BY <2>2
  <2>6. IsInjective(e)
    BY <2>1, <2>3, <2>5 DEF IsInjective
  <2>7. ASSUME NEW v \in ToSet(e) PROVE v \in ToSet(s) \ {p}
    <3>1. PICK k \in 1 .. Len(s) - 1 : v = e[k]
      BY <2>5 DEF ToSet
    <3>2. PICK j \in 1 .. Len(s) : v = s[j] /\ j # i
      BY <2>1, <2>3, <3>1
    <3> QED BY <2>1, <2>5, <3>2 DEF ToSet, IsInjective
  <2>8. ASSUME NEW v \in ToSet(s) \ {p} PROVE v \in ToSet(e)
    <3>1. PICK j \in 1 .. Len(s) : v = s[j] /\ j # i
      BY <2>1, <2>5 DEF ToSet
    <3>2. PICK k \in 1 .. Len(s) - 1 : k = IF j < i THEN j ELSE j - 1
      BY <2>1, <3>1
    <3>3. e[k] = v
      BY <2>1, <2>3, <3>1, <3>2
    <3> QED BY <2>5, <3>3 DEF ToSet
  <2> QED BY <1>2, <2>2, <2>4, <2>6, <2>7, <2>8
<1> QED BY <1>1, <1>2

\* Putting somebody at the front, or behind.
LEMMA InFront ==
    ASSUME NEW S, NEW s \in Seq(S), NEW p \in S
    PROVE  /\ <<p>> \o s \in Seq(S) /\ ToSet(<<p>> \o s) = {p} \cup ToSet(s)
           /\ Len(<<p>> \o s) = Len(s) + 1
           /\ IsInjective(<<p>> \o s) <=> IsInjective(s) /\ p \notin ToSet(s)
<1> DEFINE e == <<p>> \o s
<1>1. /\ e \in Seq(S) /\ Len(e) = Len(s) + 1 /\ Len(s) \in Nat /\ e[1] = p
      /\ DOMAIN e = 1 .. Len(s) + 1 /\ DOMAIN s = 1 .. Len(s)
  OBVIOUS
<1>2. \A k \in 1 .. Len(s) : e[k + 1] = s[k]
  OBVIOUS
<1> HIDE DEF e
<1>3. ToSet(e) = {p} \cup ToSet(s)
  <2>1. ASSUME NEW v \in ToSet(e) PROVE v \in {p} \cup ToSet(s)
    <3>1. PICK j \in 1 .. Len(s) + 1 : v = e[j]
      BY <1>1 DEF ToSet
    <3>2. CASE j = 1
      BY <1>1, <3>1, <3>2
    <3>3. CASE j # 1
      <4>1. j - 1 \in 1 .. Len(s) /\ (j - 1) + 1 = j
        BY <1>1, <3>3
      <4>2. v = s[j - 1]
        BY <1>2, <3>1, <4>1
      <4> QED BY <1>1, <4>1, <4>2 DEF ToSet
    <3> QED BY <3>2, <3>3
  <2>2. p \in ToSet(e)
    BY <1>1 DEF ToSet
  <2>3. ASSUME NEW v \in ToSet(s) PROVE v \in ToSet(e)
    <3>1. PICK j \in 1 .. Len(s) : v = s[j]
      BY <1>1 DEF ToSet
    <3>2. j + 1 \in DOMAIN e /\ e[j + 1] = v
      BY <1>1, <1>2, <3>1
    <3> QED BY <3>2 DEF ToSet
  <2> QED BY <2>1, <2>2, <2>3
<1>4. ASSUME IsInjective(e) PROVE IsInjective(s) /\ p \notin ToSet(s)
  <2>1. ASSUME NEW a \in DOMAIN s, NEW b \in DOMAIN s, s[a] = s[b] PROVE a = b
    <3>1. a \in 1 .. Len(s) /\ b \in 1 .. Len(s) /\ a + 1 \in DOMAIN e /\ b + 1 \in DOMAIN e
      BY <1>1
    <3>2. a + 1 = b + 1
      BY <1>2, <1>4, <2>1, <3>1 DEF IsInjective
    <3> QED BY <3>1, <3>2
  <2>2. ASSUME NEW a \in DOMAIN s, s[a] = p PROVE FALSE
    <3>1. a \in 1 .. Len(s) /\ a + 1 \in DOMAIN e /\ 1 \in DOMAIN e
      BY <1>1
    <3>2. a + 1 = 1
      BY <1>1, <1>2, <1>4, <2>2, <3>1 DEF IsInjective
    <3> QED BY <3>1, <3>2
  <2> QED BY <2>1, <2>2 DEF IsInjective, ToSet
<1>5. ASSUME IsInjective(s), p \notin ToSet(s) PROVE IsInjective(e)
  <2> SUFFICES ASSUME NEW a \in DOMAIN e, NEW b \in DOMAIN e, e[a] = e[b] PROVE a = b
    BY DEF IsInjective
  <2>0. a \in 1 .. Len(s) + 1 /\ b \in 1 .. Len(s) + 1
    BY <1>1
  <2>1. \A j \in 1 .. Len(s) + 1 : j # 1 =>
            j - 1 \in DOMAIN s /\ e[j] = s[j - 1] /\ e[j] \in ToSet(s)
    <3> SUFFICES ASSUME NEW j \in 1 .. Len(s) + 1, j # 1
                 PROVE  j - 1 \in DOMAIN s /\ e[j] = s[j - 1] /\ e[j] \in ToSet(s)
      OBVIOUS
    <3>1. j - 1 \in 1 .. Len(s) /\ (j - 1) + 1 = j
      BY <1>1
    <3>2. j - 1 \in DOMAIN s /\ e[j] = s[j - 1]
      BY <1>1, <1>2, <3>1
    <3> QED BY <3>2 DEF ToSet
  <2>2. CASE a = 1 \/ b = 1
    BY <1>1, <1>5, <2>0, <2>1, <2>2
  <2>3. CASE a # 1 /\ b # 1
    <3>1. a - 1 = b - 1
      BY <1>5, <2>0, <2>1, <2>3 DEF IsInjective
    <3> QED BY <2>0, <3>1
  <2> QED BY <2>2, <2>3
<1> QED BY <1>1, <1>3, <1>4, <1>5 DEF e

LEMMA Behind ==
    ASSUME NEW S, NEW s \in Seq(S), NEW p \in S, IsInjective(s), p \notin ToSet(s)
    PROVE  /\ Append(s, p) \in Seq(S) /\ ToSet(Append(s, p)) = {p} \cup ToSet(s)
           /\ IsInjective(Append(s, p)) /\ Append(s, p) # <<>>
<1> DEFINE e == Append(s, p)
<1>1. /\ e \in Seq(S) /\ Len(s) \in Nat /\ e[Len(s) + 1] = p
      /\ DOMAIN e = 1 .. Len(s) + 1 /\ DOMAIN s = 1 .. Len(s)
      /\ e # <<>>
  OBVIOUS
<1>2. \A k \in 1 .. Len(s) : e[k] = s[k]
  OBVIOUS
<1> HIDE DEF e
<1>3. \A k \in DOMAIN e : k = Len(s) + 1 \/ k \in DOMAIN s
  BY <1>1
<1>4. ToSet(e) = {p} \cup ToSet(s)
  <2>1. ToSet(e) \subseteq {p} \cup ToSet(s)
    BY <1>1, <1>2, <1>3 DEF ToSet
  <2>2. p \in ToSet(e)
    <3>1. Len(s) + 1 \in DOMAIN e
      BY <1>1
    <3> QED BY <1>1, <3>1 DEF ToSet
  <2>3. ASSUME NEW v \in ToSet(s) PROVE v \in ToSet(e)
    <3>1. PICK j \in 1 .. Len(s) : v = s[j]
      BY <1>1 DEF ToSet
    <3>2. j \in DOMAIN e /\ e[j] = v
      BY <1>1, <1>2, <3>1
    <3> QED BY <3>2 DEF ToSet
  <2> QED BY <2>1, <2>2, <2>3
<1>5. IsInjective(e)
  <2> SUFFICES ASSUME NEW a \in DOMAIN e, NEW b \in DOMAIN e, e[a] = e[b] PROVE a = b
    BY DEF IsInjective
  <2>1. \A k \in DOMAIN s : e[k] = s[k] /\ e[k] \in ToSet(s)
    BY <1>1, <1>2 DEF ToSet
  <2> QED BY <1>1, <1>3, <2>1 DEF IsInjective
<1> QED BY <1>1, <1>4, <1>5 DEF e

-----------------------------------------------------------------------------
\* A world is of the right shape.
Typed(w) ==
    /\ w = [parties |-> w.parties, partyOf |-> w.partyOf, invitedTo |-> w.invitedTo]
    /\ DOMAIN w.parties \subseteq PartyId /\ w.parties \in [DOMAIN w.parties -> PartyObject]
    /\ w.partyOf \in [Member -> PartyId \cup {NoParty}]
    /\ w.invitedTo \in [Member -> SUBSET PartyId]

Knows(party) == {party.leader} \cup ToSet(party.memberList)

\* What party x and the players say of one another is the same, and it has a purpose.
AgreedSoFar(w, x) ==
    /\ Knows(w.parties[x]) = {p \in Member : w.partyOf[p] = x}
    /\ w.parties[x].inviteList = {p \in Member : x \in w.invitedTo[p]}
    /\ IsInjective(<<w.parties[x].leader>> \o w.parties[x].memberList)
    /\ Knows(w.parties[x]) \cap w.parties[x].inviteList = {}

Agreed(w, x) == AgreedSoFar(w, x) /\ ~IsEmpty(w.parties[x])

\* It is so for all parties but x, which may be in the middle of an operation.
ConsistentBut(w, x) ==
    /\ Typed(w)
    /\ \A p \in Member : /\ w.partyOf[p] \in DOMAIN w.parties \cup {NoParty, x}
                         /\ w.invitedTo[p] \subseteq DOMAIN w.parties \cup {x}
    /\ \A y \in DOMAIN w.parties \ {x} : Agreed(w, y)

Consistent(w) ==
    /\ Typed(w)
    /\ \A p \in Member : /\ w.partyOf[p] \in DOMAIN w.parties \cup {NoParty}
                         /\ w.invitedTo[p] \subseteq DOMAIN w.parties
    /\ \A y \in DOMAIN w.parties : Agreed(w, y)

Around(w, on) ==
    \A p \in Member : w.partyOf[p] # NoParty \/ w.invitedTo[p] # {} => p \in on

\* An operation on x is nothing to the others, and to what they say of the players.
SameBut(w, v, x) ==
    /\ DOMAIN v.parties \ {x} = DOMAIN w.parties \ {x}
    /\ \A y \in DOMAIN w.parties \ {x} : v.parties[y] = w.parties[y]
    /\ \A q \in Member, y \in PartyId \ {x} : /\ v.partyOf[q] = y <=> w.partyOf[q] = y
                                              /\ y \in v.invitedTo[q] <=> y \in w.invitedTo[q]

\* Nobody gets into a party, or is invited.
Fewer(w, v) ==
    \A q \in Member : /\ w.partyOf[q] = NoParty => v.partyOf[q] = NoParty
                      /\ v.invitedTo[q] \subseteq w.invitedTo[q]

LEMMA InParty ==
    ASSUME NEW w, Typed(w), NEW x \in DOMAIN w.parties
    PROVE  /\ x \in PartyId /\ x # NoParty /\ w.parties[x] \in PartyObject
           /\ w.parties[x].leader \in Member /\ w.parties[x].memberList \in Seq(Member)
           /\ w.parties[x].inviteList \subseteq Member
           /\ ToSet(w.parties[x].memberList) \subseteq Member
           /\ Knows(w.parties[x]) \subseteq Member
<1>1. w.parties[x] \in PartyObject /\ x \in PartyId /\ x # NoParty
  BY PartyConstants DEF Typed
<1>2. /\ w.parties[x].leader \in Member /\ w.parties[x].memberList \in Seq(Member)
      /\ w.parties[x].inviteList \subseteq Member
  BY <1>1 DEF PartyObject
<1>3. ToSet(w.parties[x].memberList) \subseteq Member
  BY <1>2 DEF ToSet
<1> QED BY <1>1, <1>2, <1>3 DEF Knows

LEMMA OthersStay ==
    ASSUME NEW w, NEW v, NEW x, ConsistentBut(w, x), Typed(v), SameBut(w, v, x)
    PROVE  ConsistentBut(v, x)
<1>1. Typed(w)
  BY DEF ConsistentBut
<1>2. ASSUME NEW p \in Member
      PROVE  /\ v.partyOf[p] \in DOMAIN v.parties \cup {NoParty, x}
             /\ v.invitedTo[p] \subseteq DOMAIN v.parties \cup {x}
  <2>1. /\ v.partyOf[p] \in PartyId \cup {NoParty} /\ v.invitedTo[p] \subseteq PartyId
        /\ w.partyOf[p] \in DOMAIN w.parties \cup {NoParty, x}
        /\ w.invitedTo[p] \subseteq DOMAIN w.parties \cup {x}
    BY DEF ConsistentBut, Typed
  <2>2. v.partyOf[p] \in DOMAIN v.parties \cup {NoParty, x}
    BY <2>1, PartyConstants DEF SameBut
  <2>3. ASSUME NEW y \in v.invitedTo[p] PROVE y \in DOMAIN v.parties \cup {x}
    BY <2>1 DEF SameBut
  <2> QED BY <2>2, <2>3
<1>3. ASSUME NEW y \in DOMAIN v.parties \ {x} PROVE Agreed(v, y)
  <2>1. /\ y \in DOMAIN w.parties \ {x} /\ v.parties[y] = w.parties[y] /\ Agreed(w, y)
        /\ y \in PartyId \ {x}
    BY <1>1 DEF SameBut, ConsistentBut, Typed
  <2>2. \A q \in Member : /\ v.partyOf[q] = y <=> w.partyOf[q] = y
                          /\ y \in v.invitedTo[q] <=> y \in w.invitedTo[q]
    BY <2>1 DEF SameBut
  <2> QED BY <2>1, <2>2 DEF Agreed, AgreedSoFar
<1> QED BY <1>2, <1>3 DEF ConsistentBut

\* When x is right, or gone and forgotten, all is.
LEMMA AllAgree ==
    ASSUME NEW w, NEW x
    PROVE  /\ Consistent(w) => ConsistentBut(w, x)
           /\ ConsistentBut(w, x) /\ x \in DOMAIN w.parties /\ Agreed(w, x) => Consistent(w)
           /\ /\ ConsistentBut(w, x) /\ x \notin DOMAIN w.parties
              /\ \A q \in Member : w.partyOf[q] # x /\ x \notin w.invitedTo[q]
              => Consistent(w)
<1>1. Consistent(w) => ConsistentBut(w, x)
  BY DEF Consistent, ConsistentBut
<1>2. ConsistentBut(w, x) /\ x \in DOMAIN w.parties /\ Agreed(w, x) => Consistent(w)
  <2> SUFFICES ASSUME ConsistentBut(w, x), x \in DOMAIN w.parties, Agreed(w, x) PROVE Consistent(w)
    OBVIOUS
  <2>1. \A y \in DOMAIN w.parties : Agreed(w, y)
    BY DEF ConsistentBut
  <2>2. \A p \in Member : /\ w.partyOf[p] \in DOMAIN w.parties \cup {NoParty}
                          /\ w.invitedTo[p] \subseteq DOMAIN w.parties
    BY DEF ConsistentBut
  <2> QED BY <2>1, <2>2 DEF Consistent, ConsistentBut
<1>3. ASSUME ConsistentBut(w, x), x \notin DOMAIN w.parties,
             \A q \in Member : w.partyOf[q] # x /\ x \notin w.invitedTo[q]
      PROVE  Consistent(w)
  <2>1. \A y \in DOMAIN w.parties : Agreed(w, y)
    BY <1>3 DEF ConsistentBut
  <2>2. \A p \in Member : /\ w.partyOf[p] \in DOMAIN w.parties \cup {NoParty}
                          /\ w.invitedTo[p] \subseteq DOMAIN w.parties
    BY <1>3 DEF ConsistentBut
  <2> QED BY <1>3, <2>1, <2>2 DEF Consistent, ConsistentBut
<1> QED BY <1>1, <1>2, <1>3

\* disband: nobody whom the party knew points to it any more.
LEMMA DisbandKeeps ==
    ASSUME NEW w, NEW x, ConsistentBut(w, x), x \in DOMAIN w.parties,
           \A q \in Member : /\ w.partyOf[q] = x => q \in Knows(w.parties[x])
                             /\ q \in Knows(w.parties[x]) => w.partyOf[q] \in {x, NoParty}
                             /\ x \in w.invitedTo[q] => q \in w.parties[x].inviteList
    PROVE  LET v == Disband(w, x)
           IN  /\ Consistent(v) /\ SameBut(w, v, x) /\ Fewer(w, v)
               /\ x \notin DOMAIN v.parties
<1> DEFINE party == w.parties[x]
           v == Disband(w, x)
<1>0. Typed(w) /\ party \in PartyObject /\ x \in PartyId /\ x # NoParty
  BY InParty DEF ConsistentBut
<1>1. /\ v.parties = Without(w.parties, x)
      /\ v.invitedTo = [p \in Member |->
             IF p \in party.inviteList THEN w.invitedTo[p] \ {x} ELSE w.invitedTo[p]]
      /\ v.partyOf = [p \in Member |->
             IF p = party.leader \/ p \in ToSet(party.memberList) THEN NoParty ELSE w.partyOf[p]]
      /\ v = [parties |-> v.parties, partyOf |-> v.partyOf, invitedTo |-> v.invitedTo]
  <2> DEFINE P == w.parties  O == w.partyOf  I == w.invitedTo
             R == [parties |-> P, partyOf |-> O, invitedTo |-> I]
  <2>1. w = R
    BY <1>0 DEF Typed
  <2>2. v = [w EXCEPT !.parties = Without(P, x),
                      !.invitedTo = [p \in Member |->
                          IF p \in party.inviteList THEN I[p] \ {x} ELSE I[p]],
                      !.partyOf = [p \in Member |->
                          IF p = party.leader \/ p \in ToSet(party.memberList) THEN NoParty ELSE O[p]]]
    BY DEF Disband
  <2> HIDE DEF v, party, P, O, I
  <2>3. v = [parties |-> Without(P, x),
             partyOf |-> [p \in Member |->
                          IF p = party.leader \/ p \in ToSet(party.memberList) THEN NoParty ELSE O[p]],
             invitedTo |-> [p \in Member |->
                          IF p \in party.inviteList THEN I[p] \ {x} ELSE I[p]]]
    BY <2>1, <2>2
  <2> QED BY <2>3 DEF P, O, I
<1> HIDE DEF v
<1>2. /\ DOMAIN v.parties = DOMAIN w.parties \ {x}
      /\ \A y \in DOMAIN w.parties \ {x} : v.parties[y] = w.parties[y]
      /\ v.parties \in [DOMAIN v.parties -> PartyObject]
  BY <1>0, <1>1 DEF Typed, Without
<1>3. ASSUME NEW q \in Member
      PROVE  /\ v.partyOf[q] = IF q \in Knows(party) THEN NoParty ELSE w.partyOf[q]
             /\ v.invitedTo[q] = w.invitedTo[q] \ {x}
             /\ w.partyOf[q] \in PartyId \cup {NoParty} /\ w.invitedTo[q] \subseteq PartyId
  BY <1>0, <1>1 DEF Knows, Typed
<1>4. Typed(v)
  <2>1. v.partyOf \in [Member -> PartyId \cup {NoParty}]
    BY <1>1, <1>3
  <2>2. v.invitedTo \in [Member -> SUBSET PartyId]
    BY <1>1, <1>3
  <2> QED BY <1>0, <1>1, <1>2, <2>1, <2>2 DEF Typed
<1>5. SameBut(w, v, x)
  <2>1. ASSUME NEW q \in Member, NEW y \in PartyId \ {x}
        PROVE  /\ v.partyOf[q] = y <=> w.partyOf[q] = y
               /\ y \in v.invitedTo[q] <=> y \in w.invitedTo[q]
    <3>1. q \in Knows(party) => w.partyOf[q] \in {x, NoParty}
      OBVIOUS
    <3>2. y # NoParty
      BY PartyConstants
    <3> HIDE DEF party
    <3> QED BY <1>3, <3>1, <3>2
  <2> HIDE DEF party
  <2> QED BY <1>2, <2>1 DEF SameBut
<1>6. \A q \in Member : v.partyOf[q] # x /\ x \notin v.invitedTo[q]
  BY <1>0, <1>3
<1>7. Fewer(w, v)
  BY <1>3 DEF Fewer
<1> QED BY <1>2, <1>4, <1>5, <1>6, <1>7, OthersStay, AllAgree DEF v

\* One step of an operation: the party changes, and what one player says of it.
Updated(w, x, party, p, his, invited) ==
    [parties |-> [w.parties EXCEPT ![x] = party],
     partyOf |-> [w.partyOf EXCEPT ![p] = his],
     invitedTo |-> [w.invitedTo EXCEPT ![p] = invited]]

LEMMA UpdatedFacts ==
    ASSUME NEW w, Typed(w), NEW x \in DOMAIN w.parties, NEW party \in PartyObject,
           NEW p \in Member, NEW his, NEW invited,
           his = w.partyOf[p] \/ {his, w.partyOf[p]} \subseteq {x, NoParty},
           invited \in {w.invitedTo[p], w.invitedTo[p] \cup {x}, w.invitedTo[p] \ {x}}
    PROVE  LET v == Updated(w, x, party, p, his, invited)
           IN  /\ Typed(v) /\ SameBut(w, v, x)
               /\ DOMAIN v.parties = DOMAIN w.parties /\ v.parties[x] = party
               /\ \A q \in Member :
                      /\ v.partyOf[q] = IF q = p THEN his ELSE w.partyOf[q]
                      /\ v.invitedTo[q] = IF q = p THEN invited ELSE w.invitedTo[q]
<1> DEFINE v == Updated(w, x, party, p, his, invited)
<1>0. x \in PartyId /\ x # NoParty
  BY InParty
<1>1. /\ v.parties = [w.parties EXCEPT ![x] = party]
      /\ v.partyOf = [w.partyOf EXCEPT ![p] = his]
      /\ v.invitedTo = [w.invitedTo EXCEPT ![p] = invited]
      /\ v = [parties |-> v.parties, partyOf |-> v.partyOf, invitedTo |-> v.invitedTo]
  BY DEF Updated
<1> HIDE DEF v
<1>2. /\ w.parties \in [DOMAIN w.parties -> PartyObject] /\ DOMAIN w.parties \subseteq PartyId
      /\ w.partyOf \in [Member -> PartyId \cup {NoParty}]
      /\ w.invitedTo \in [Member -> SUBSET PartyId]
  BY DEF Typed
<1>3. his \in PartyId \cup {NoParty} /\ invited \subseteq PartyId
  BY <1>0, <1>2
<1>4. Typed(v) /\ DOMAIN v.parties = DOMAIN w.parties /\ v.parties[x] = party
  BY <1>1, <1>2, <1>3 DEF Typed
<1>5. \A q \in Member : /\ v.partyOf[q] = IF q = p THEN his ELSE w.partyOf[q]
                        /\ v.invitedTo[q] = IF q = p THEN invited ELSE w.invitedTo[q]
  BY <1>1, <1>2
<1>6. \A y \in DOMAIN w.parties \ {x} : v.parties[y] = w.parties[y]
  BY <1>1, <1>2
<1>7. ASSUME NEW q \in Member, NEW y \in PartyId \ {x}
      PROVE  /\ v.partyOf[q] = y <=> w.partyOf[q] = y
             /\ y \in v.invitedTo[q] <=> y \in w.invitedTo[q]
  <2>1. y # NoParty
    BY PartyConstants
  <2>2. CASE q = p
    BY <1>5, <2>1, <2>2
  <2>3. CASE q # p
    BY <1>5, <2>3
  <2> QED BY <2>2, <2>3
<1>8. SameBut(w, v, x)
  BY <1>4, <1>6, <1>7 DEF SameBut
<1> QED BY <1>4, <1>5, <1>8 DEF v

\* A party one by one.
Record(leader, memberList, inviteList) ==
    [leader |-> leader, memberList |-> memberList, inviteList |-> inviteList]

LEMMA ThreeThings ==
    ASSUME NEW w, Typed(w), NEW x \in DOMAIN w.parties
    PROVE  /\ w.parties[x] = Record(w.parties[x].leader, w.parties[x].memberList,
                                    w.parties[x].inviteList)
           /\ \A p \in Member : /\ [w.partyOf EXCEPT ![p] = w.partyOf[p]] = w.partyOf
                                /\ [w.invitedTo EXCEPT ![p] = w.invitedTo[p]] = w.invitedTo
<1>1. w.parties[x] \in PartyObject
  BY InParty
<1> QED BY <1>1 DEF PartyObject, Record, Typed

LEMMA RecordType ==
    ASSUME NEW l \in Member, NEW m \in Seq(Member), NEW i \in SUBSET Member
    PROVE  /\ Record(l, m, i) \in PartyObject /\ Record(l, m, i).leader = l
           /\ Record(l, m, i).memberList = m /\ Record(l, m, i).inviteList = i
  BY DEF Record, PartyObject

\* Nobody is twice in a party.
LEMMA Roster ==
    ASSUME NEW w, Typed(w), NEW x \in DOMAIN w.parties, AgreedSoFar(w, x)
    PROVE  /\ IsInjective(w.parties[x].memberList)
           /\ w.parties[x].leader \notin ToSet(w.parties[x].memberList)
  BY InParty, InFront DEF AgreedSoFar

LEMMA SameButChain ==
    ASSUME NEW u, NEW w, NEW v, NEW x, SameBut(u, w, x), SameBut(w, v, x)
    PROVE  SameBut(u, v, x)
<1>1. \A y \in DOMAIN u.parties \ {x} : v.parties[y] = u.parties[y]
  BY DEF SameBut
<1>2. \A q \in Member, y \in PartyId \ {x} : /\ v.partyOf[q] = y <=> u.partyOf[q] = y
                                             /\ y \in v.invitedTo[q] <=> y \in u.invitedTo[q]
  BY DEF SameBut
<1>3. DOMAIN v.parties \ {x} = DOMAIN u.parties \ {x}
  BY DEF SameBut
<1> QED BY <1>1, <1>2, <1>3 DEF SameBut

LEMMA FewerChain ==
    ASSUME NEW u, NEW w, NEW v, Fewer(u, w), Fewer(w, v)
    PROVE  Fewer(u, v)
  BY DEF Fewer

\* removeInvite: the party goes on unless it waits for nobody else.
LEMMA RemoveInvitePlayerKeeps ==
    ASSUME NEW w, Consistent(w), NEW x \in DOMAIN w.parties, NEW p \in w.parties[x].inviteList
    PROVE  LET v == RemoveInvite(w, x, p)
           IN  /\ Consistent(v) /\ SameBut(w, v, x) /\ Fewer(w, v)
               /\ x \notin DOMAIN v.parties => w.parties[x].memberList = <<>>
               /\ x \in DOMAIN v.parties => v.parties[x].leader = w.parties[x].leader
<1> DEFINE party == w.parties[x]
           rest == Record(party.leader, party.memberList, party.inviteList \ {p})
           removed == [w EXCEPT !.parties[x].inviteList = @ \ {p},
                                !.invitedTo[p] = @ \ {x}]
           v == RemoveInvite(w, x, p)
<1>0. /\ Typed(w) /\ party \in PartyObject /\ x \in PartyId /\ x # NoParty /\ p \in Member
      /\ Agreed(w, x)
  BY InParty DEF Consistent
<1>1. rest \in PartyObject /\ rest.leader = party.leader /\ rest.memberList = party.memberList
      /\ rest.inviteList = party.inviteList \ {p}
  BY <1>0 DEF PartyObject, Record
<1>2. removed = Updated(w, x, rest, p, w.partyOf[p], w.invitedTo[p] \ {x})
  <2> DEFINE P == w.parties  O == w.partyOf  I == w.invitedTo
             R == [parties |-> P, partyOf |-> O, invitedTo |-> I]
  <2>1. w = R
    BY <1>0 DEF Typed
  <2>2. removed = [w EXCEPT !.parties = [P EXCEPT ![x] = [P[x] EXCEPT !.inviteList = P[x].inviteList \ {p}]],
                            !.invitedTo = [I EXCEPT ![p] = I[p] \ {x}]]
    BY <2>1
  <2>3. [P[x] EXCEPT !.inviteList = P[x].inviteList \ {p}] = rest
    <3>1. P[x] = party /\ party = Record(party.leader, party.memberList, party.inviteList)
      BY <1>0 DEF PartyObject, Record
    <3> HIDE DEF party, P
    <3> QED BY <3>1 DEF Record
  <2>4. O = [O EXCEPT ![p] = O[p]]
    BY <1>0 DEF Typed
  <2> HIDE DEF removed, party, rest, P, O, I
  <2>5. removed = [parties |-> [P EXCEPT ![x] = rest], partyOf |-> O,
                   invitedTo |-> [I EXCEPT ![p] = I[p] \ {x}]]
    BY <2>1, <2>2, <2>3
  <2> QED BY <2>4, <2>5 DEF P, O, I, Updated
<1>3. v = IF IsEmpty(removed.parties[x]) THEN Disband(removed, x) ELSE removed
  BY DEF RemoveInvite
<1> HIDE DEF party, rest, removed, v
<1>4. /\ Typed(removed) /\ SameBut(w, removed, x)
      /\ DOMAIN removed.parties = DOMAIN w.parties /\ removed.parties[x] = rest
      /\ \A q \in Member :
             /\ removed.partyOf[q] = w.partyOf[q]
             /\ removed.invitedTo[q] = IF q = p THEN w.invitedTo[p] \ {x} ELSE w.invitedTo[q]
  BY <1>0, <1>1, <1>2, UpdatedFacts
<1>5. ConsistentBut(removed, x)
  BY <1>4, AllAgree, OthersStay
<1>6. /\ Knows(rest) = {q \in Member : w.partyOf[q] = x}
      /\ party.inviteList = {q \in Member : x \in w.invitedTo[q]}
      /\ IsInjective(<<rest.leader>> \o rest.memberList)
      /\ Knows(rest) \cap party.inviteList = {}
  BY <1>0, <1>1 DEF Agreed, AgreedSoFar, Knows, party
<1>7. Fewer(w, removed)
  BY <1>4 DEF Fewer
<1>8. CASE IsEmpty(rest)
  <2>1. v = Disband(removed, x)
    BY <1>3, <1>4, <1>8
  <2>2. ASSUME NEW q \in Member
        PROVE  /\ removed.partyOf[q] = x => q \in Knows(rest)
               /\ q \in Knows(rest) => removed.partyOf[q] \in {x, NoParty}
               /\ x \in removed.invitedTo[q] => q \in rest.inviteList
    BY <1>1, <1>4, <1>6
  <2>3. Consistent(v) /\ SameBut(removed, v, x) /\ Fewer(removed, v) /\ x \notin DOMAIN v.parties
    BY <1>4, <1>5, <2>1, <2>2, DisbandKeeps
  <2>4. SameBut(w, v, x) /\ Fewer(w, v)
    BY <1>4, <1>7, <2>3, SameButChain, FewerChain
  <2> QED BY <1>1, <1>8, <2>3, <2>4 DEF IsEmpty, party, v
<1>9. CASE ~IsEmpty(rest)
  <2>1. v = removed
    BY <1>3, <1>4, <1>9
  <2>2. Agreed(removed, x)
    <3>1. Knows(rest) = {q \in Member : removed.partyOf[q] = x}
      BY <1>4, <1>6
    <3>2. rest.inviteList = {q \in Member : x \in removed.invitedTo[q]}
      BY <1>1, <1>4, <1>6
    <3>3. Knows(rest) \cap rest.inviteList = {}
      BY <1>1, <1>6
    <3> QED BY <1>4, <1>6, <1>9, <3>1, <3>2, <3>3 DEF Agreed, AgreedSoFar
  <2>3. Consistent(removed)
    BY <1>4, <1>5, <2>2, AllAgree
  <2> QED BY <1>1, <1>4, <1>7, <2>1, <2>3 DEF party, v
<1> QED BY <1>8, <1>9

\* passPartyLeadership: the same players are in the party.
LEMMA PassKeeps ==
    ASSUME NEW w, Consistent(w), NEW x \in DOMAIN w.parties,
           NEW p \in ToSet(w.parties[x].memberList)
    PROVE  LET v == PassPartyLeadership(w, x, p)
           IN  /\ Consistent(v) /\ SameBut(w, v, x) /\ Fewer(w, v)
               /\ DOMAIN v.parties = DOMAIN w.parties
               /\ v.parties[x] = Record(p, <<w.parties[x].leader>> \o Erase(w.parties[x].memberList, p),
                                        w.parties[x].inviteList)
               /\ \A q \in Member : v.partyOf[q] = w.partyOf[q]
<1> DEFINE party == w.parties[x]
           members == <<party.leader>> \o Erase(party.memberList, p)
           after == Record(p, members, party.inviteList)
           v == PassPartyLeadership(w, x, p)
<1>0. /\ Typed(w) /\ party \in PartyObject /\ p \in Member
      /\ party.leader \in Member /\ party.memberList \in Seq(Member)
      /\ party.inviteList \in SUBSET Member
      /\ AgreedSoFar(w, x) /\ ~IsEmpty(party)
  BY InParty DEF Consistent, Agreed
<1>1. IsInjective(party.memberList) /\ party.leader \notin ToSet(party.memberList)
  BY <1>0, Roster
<1>2. /\ Erase(party.memberList, p) \in Seq(Member) /\ IsInjective(Erase(party.memberList, p))
      /\ ToSet(Erase(party.memberList, p)) = ToSet(party.memberList) \ {p}
  BY <1>0, <1>1, EraseFacts
<1>3. /\ members \in Seq(Member) /\ ToSet(members) = {party.leader} \cup (ToSet(party.memberList) \ {p})
      /\ IsInjective(members) /\ Len(members) # 0
  BY <1>0, <1>1, <1>2, InFront
<1>4. p # party.leader /\ w.partyOf[p] = x
  BY <1>0, <1>1 DEF AgreedSoFar, Knows
<1>5. v = [w EXCEPT !.parties[x].leader = p, !.parties[x].memberList = members]
  BY <1>4 DEF PassPartyLeadership
<1> HIDE DEF members, v
<1>6. v = Updated(w, x, after, p, w.partyOf[p], w.invitedTo[p])
  <2> DEFINE P == w.parties  O == w.partyOf  I == w.invitedTo
  <2>1. w = [parties |-> P, partyOf |-> O, invitedTo |-> I]
    BY <1>0 DEF Typed
  <2>2. v = [w EXCEPT !.parties = [[P EXCEPT ![x] = [P[x] EXCEPT !.leader = p]]
                                   EXCEPT ![x] = [@ EXCEPT !.memberList = members]]]
    BY <1>5, <2>1
  <2>3. P[x] = Record(party.leader, party.memberList, party.inviteList)
    BY <1>0, ThreeThings
  <2>4. x \in DOMAIN P
    OBVIOUS
  <2> HIDE DEF party, P, O, I
  <2>5. [[P EXCEPT ![x] = [P[x] EXCEPT !.leader = p]]
         EXCEPT ![x] = [@ EXCEPT !.memberList = members]] = [P EXCEPT ![x] = after]
    <3> DEFINE led == [P[x] EXCEPT !.leader = p]
               Q == [P EXCEPT ![x] = led]
    <3>0. led = Record(p, party.memberList, party.inviteList)
      BY <2>3 DEF Record
    <3> HIDE DEF led
    <3>1. [led EXCEPT !.memberList = members] = after
      BY <3>0 DEF Record
    <3> HIDE DEF after
    <3>2. P \in [DOMAIN P -> PartyObject]
      BY <1>0 DEF Typed, P
    <3>3. Q[x] = led
      BY <2>4
    <3>4. [Q EXCEPT ![x] = after] = [P EXCEPT ![x] = after]
      BY <2>4, <3>2
    <3>5. [Q EXCEPT ![x] = [Q[x] EXCEPT !.memberList = members]] = [P EXCEPT ![x] = after]
      BY <3>1, <3>3, <3>4
    <3> QED BY <3>5 DEF led
  <2>6. v = [parties |-> [P EXCEPT ![x] = after], partyOf |-> O, invitedTo |-> I]
    BY <2>1, <2>2, <2>5
  <2>7. [O EXCEPT ![p] = O[p]] = O /\ [I EXCEPT ![p] = I[p]] = I
    BY <1>0, ThreeThings DEF O, I
  <2> QED BY <2>6, <2>7 DEF Updated, P, O, I
<1>7. /\ after \in PartyObject /\ after.leader = p /\ after.memberList = members
      /\ after.inviteList = party.inviteList
  BY <1>0, <1>3, RecordType
<1> HIDE DEF after, party
<1>8. /\ Typed(v) /\ SameBut(w, v, x)
      /\ DOMAIN v.parties = DOMAIN w.parties /\ v.parties[x] = after
      /\ \A q \in Member : v.partyOf[q] = w.partyOf[q] /\ v.invitedTo[q] = w.invitedTo[q]
  BY <1>0, <1>6, <1>7, UpdatedFacts
<1>9. Agreed(v, x)
  <2>1. Knows(after) = Knows(party)
    BY <1>3, <1>7 DEF Knows, party
  <2>2. /\ Knows(party) = {q \in Member : w.partyOf[q] = x}
        /\ party.inviteList = {q \in Member : x \in w.invitedTo[q]}
        /\ Knows(party) \cap party.inviteList = {}
    BY <1>0 DEF AgreedSoFar, party
  <2>3. IsInjective(<<p>> \o members)
    BY <1>0, <1>3, <1>4, InFront
  <2>4. ~IsEmpty(after)
    <3>1. members # <<>>
      BY <1>3
    <3> QED BY <1>7, <3>1 DEF IsEmpty
  <2> QED BY <1>7, <1>8, <2>1, <2>2, <2>3, <2>4 DEF Agreed, AgreedSoFar
<1>10. Consistent(v)
  BY <1>8, <1>9, OthersStay, AllAgree
<1>11. Fewer(w, v)
  BY <1>8 DEF Fewer
<1> QED BY <1>8, <1>10, <1>11 DEF v, after, members, party

\* The rest of leaveParty, of a player who leads the party no more or is its last one.
LEMMA LeftKeeps ==
    ASSUME NEW w, Consistent(w), NEW x \in DOMAIN w.parties, NEW p \in Member, w.partyOf[p] = x
    PROVE  LET v == Left(w, x, p)
           IN  /\ Consistent(v) /\ SameBut(w, v, x) /\ Fewer(w, v)
               /\ v.partyOf[p] = NoParty
               /\ x \notin DOMAIN v.parties =>
                      \/ p = w.parties[x].leader
                      \/ Len(w.parties[x].memberList) = 1 /\ w.parties[x].inviteList = {}
               /\ x \in DOMAIN v.parties => /\ p # w.parties[x].leader
                                            /\ v.parties[x].leader = w.parties[x].leader
<1> DEFINE party == w.parties[x]
           members == Erase(party.memberList, p)
           after == Record(party.leader, members, party.inviteList)
           left == [w EXCEPT !.parties[x].memberList = Erase(@, p), !.partyOf[p] = NoParty]
           v == Left(w, x, p)
<1>0. /\ Typed(w) /\ party \in PartyObject /\ x # NoParty
      /\ party.leader \in Member /\ party.memberList \in Seq(Member)
      /\ party.inviteList \in SUBSET Member
      /\ AgreedSoFar(w, x) /\ ~IsEmpty(party)
  BY InParty DEF Consistent, Agreed
<1>1. IsInjective(party.memberList) /\ party.leader \notin ToSet(party.memberList)
  BY <1>0, Roster
<1>2. /\ members \in Seq(Member) /\ IsInjective(members)
      /\ ToSet(members) = ToSet(party.memberList) \ {p}
      /\ p \in ToSet(party.memberList) => Len(members) = Len(party.memberList) - 1
  BY <1>0, <1>1, EraseFacts
<1>3. v = IF p = party.leader \/ IsEmpty(left.parties[x]) THEN Disband(left, x) ELSE left
  BY DEF Left
<1>4. left = [w EXCEPT !.parties[x].memberList = members, !.partyOf[p] = NoParty]
  BY <1>0 DEF Typed
<1> HIDE DEF members, v, left
<1>5. left = Updated(w, x, after, p, NoParty, w.invitedTo[p])
  <2> DEFINE P == w.parties  O == w.partyOf  I == w.invitedTo
  <2>1. w = [parties |-> P, partyOf |-> O, invitedTo |-> I]
    BY <1>0 DEF Typed
  <2>2. left = [w EXCEPT !.parties = [P EXCEPT ![x] = [P[x] EXCEPT !.memberList = members]],
                         !.partyOf = [O EXCEPT ![p] = NoParty]]
    BY <1>4, <2>1
  <2>3. P[x] = Record(party.leader, party.memberList, party.inviteList)
    BY <1>0, ThreeThings
  <2> HIDE DEF party, P, O, I
  <2>4. [P[x] EXCEPT !.memberList = members] = after
    BY <2>3 DEF Record
  <2>5. left = [parties |-> [P EXCEPT ![x] = after], partyOf |-> [O EXCEPT ![p] = NoParty],
                invitedTo |-> I]
    BY <2>1, <2>2, <2>4
  <2>6. [I EXCEPT ![p] = I[p]] = I
    BY <1>0, ThreeThings DEF I
  <2> QED BY <2>5, <2>6 DEF Updated, P, O, I
<1>6. /\ after \in PartyObject /\ after.leader = party.leader /\ after.memberList = members
      /\ after.inviteList = party.inviteList
  BY <1>0, <1>2, RecordType
<1> HIDE DEF after, party
<1>7. /\ Typed(left) /\ SameBut(w, left, x)
      /\ DOMAIN left.parties = DOMAIN w.parties /\ left.parties[x] = after
      /\ \A q \in Member : /\ left.partyOf[q] = IF q = p THEN NoParty ELSE w.partyOf[q]
                           /\ left.invitedTo[q] = w.invitedTo[q]
  BY <1>0, <1>5, <1>6, UpdatedFacts
<1>8. ConsistentBut(left, x) /\ Fewer(w, left)
  BY <1>7, AllAgree, OthersStay DEF Fewer
<1>9. /\ Knows(party) = {q \in Member : w.partyOf[q] = x}
      /\ party.inviteList = {q \in Member : x \in w.invitedTo[q]}
      /\ Knows(party) \cap party.inviteList = {}
      /\ Knows(after) = {party.leader} \cup (ToSet(party.memberList) \ {p})
      /\ Knows(party) = {party.leader} \cup ToSet(party.memberList)
  BY <1>0, <1>2, <1>6 DEF AgreedSoFar, party, Knows
<1>10. p # party.leader => p \in ToSet(party.memberList)
  BY <1>9
<1>11. CASE p = party.leader \/ IsEmpty(after)
  <2>1. v = Disband(left, x)
    BY <1>3, <1>7, <1>11
  <2>2. ASSUME NEW q \in Member
        PROVE  /\ left.partyOf[q] = x => q \in Knows(after)
               /\ q \in Knows(after) => left.partyOf[q] \in {x, NoParty}
               /\ x \in left.invitedTo[q] => q \in after.inviteList
    BY <1>0, <1>6, <1>7, <1>9
  <2>3. Consistent(v) /\ SameBut(left, v, x) /\ Fewer(left, v) /\ x \notin DOMAIN v.parties
    BY <1>7, <1>8, <2>1, <2>2, DisbandKeeps
  <2>4. SameBut(w, v, x) /\ Fewer(w, v)
    BY <1>7, <1>8, <2>3, SameButChain, FewerChain
  <2>5. v.partyOf[p] = NoParty
    BY <1>7, <2>3 DEF Fewer
  <2>6. p # party.leader => Len(party.memberList) = 1 /\ party.inviteList = {}
    <3> SUFFICES ASSUME p # party.leader PROVE Len(party.memberList) = 1 /\ party.inviteList = {}
      OBVIOUS
    <3>1. members = <<>> /\ party.inviteList = {}
      BY <1>6, <1>11 DEF IsEmpty
    <3>2. Len(members) = Len(party.memberList) - 1 /\ Len(party.memberList) \in Nat
      BY <1>0, <1>2, <1>10
    <3> QED BY <3>1, <3>2
  <2> QED BY <2>3, <2>4, <2>5, <2>6 DEF v, party
<1>12. CASE ~(p = party.leader \/ IsEmpty(after))
  <2>1. v = left
    BY <1>3, <1>7, <1>12
  <2>2. Agreed(left, x)
    <3>1. Knows(after) = {q \in Member : left.partyOf[q] = x}
      <4>1. party.leader # p
        BY <1>12
      <4>2. Knows(after) = Knows(party) \ {p}
        BY <1>9, <4>1
      <4> QED BY <1>0, <1>7, <1>9, <4>2
    <3>2. after.inviteList = {q \in Member : x \in left.invitedTo[q]}
      BY <1>6, <1>7, <1>9
    <3>3. Knows(after) \cap after.inviteList = {}
      BY <1>6, <1>9
    <3>4. IsInjective(<<after.leader>> \o after.memberList)
      BY <1>0, <1>1, <1>2, <1>6, InFront
    <3> QED BY <1>7, <1>12, <3>1, <3>2, <3>3, <3>4 DEF Agreed, AgreedSoFar
  <2>3. Consistent(left)
    BY <1>7, <1>8, <2>2, AllAgree
  <2>4. x \in DOMAIN left.parties /\ left.partyOf[p] = NoParty /\ after.leader = party.leader
    BY <1>6, <1>7
  <2> QED BY <1>7, <1>8, <1>12, <2>1, <2>3, <2>4 DEF v, party
<1> QED BY <1>11, <1>12

\* What becomes of party x in an operation.
GoesOn(w, v, x) ==
    LET party == w.parties[x]
    IN  IF x \notin DOMAIN v.parties
        THEN \/ party.memberList = <<>>
             \/ Len(party.memberList) = 1 /\ party.inviteList = {}
        ELSE v.partyOf[party.leader] # x => v.parties[x].leader = Head(party.memberList)

\* Other parties keep their leaders.
LEMMA OthersGoOn ==
    ASSUME NEW w, NEW v, NEW x, SameBut(w, v, x), Consistent(w),
           NEW y \in DOMAIN w.parties, y # x
    PROVE  GoesOn(w, v, y)
<1>1. /\ y \in DOMAIN v.parties /\ y \in PartyId \ {x} /\ w.parties[y].leader \in Member
      /\ Agreed(w, y)
  BY InParty DEF SameBut, Consistent
<1>2. w.partyOf[w.parties[y].leader] = y
  BY <1>1 DEF Agreed, AgreedSoFar, Knows
<1>3. v.partyOf[w.parties[y].leader] = y
  BY <1>1, <1>2 DEF SameBut
<1> QED BY <1>1, <1>3 DEF GoesOn

LEMMA LeaveKeeps ==
    ASSUME NEW w, Consistent(w), NEW p \in Member, NEW x \in DOMAIN w.parties, w.partyOf[p] = x
    PROVE  LET v == LeaveParty(w, x, p)
           IN  /\ Consistent(v) /\ SameBut(w, v, x) /\ Fewer(w, v)
               /\ v.partyOf[p] = NoParty /\ GoesOn(w, v, x)
<1> DEFINE party == w.parties[x]
           v == LeaveParty(w, x, p)
<1>0. /\ Typed(w) /\ party.leader \in Member /\ party.memberList \in Seq(Member)
      /\ Agreed(w, x) /\ x # NoParty
  BY InParty DEF Consistent
<1>1. /\ p = party.leader \/ p \in ToSet(party.memberList)
      /\ IsInjective(party.memberList) /\ party.leader \notin ToSet(party.memberList)
  BY <1>0, Roster DEF Agreed, AgreedSoFar, Knows
<1>2. CASE party.leader # p
  <2>1. v = Left(w, x, p)
    BY <1>2 DEF LeaveParty
  <2> HIDE DEF v
  <2>2. /\ Consistent(v) /\ SameBut(w, v, x) /\ Fewer(w, v) /\ v.partyOf[p] = NoParty
        /\ x \notin DOMAIN v.parties => Len(party.memberList) = 1 /\ party.inviteList = {}
        /\ x \in DOMAIN v.parties => v.parties[x].leader = party.leader
    BY <1>2, <2>1, LeftKeeps
  <2>3. x \in DOMAIN v.parties => v.partyOf[party.leader] = x
    <3>1. x \in DOMAIN v.parties => Agreed(v, x)
      BY <2>2 DEF Consistent
    <3> QED BY <2>2, <3>1 DEF Agreed, AgreedSoFar, Knows
  <2> QED BY <2>2, <2>3 DEF GoesOn, v
<1>3. CASE /\ party.leader = p
           /\ \/ party.memberList = <<>>
              \/ Len(party.memberList) = 1 /\ party.inviteList = {}
  <2>1. v = Left(w, x, p)
    BY <1>3 DEF LeaveParty
  <2> HIDE DEF v
  <2>2. /\ Consistent(v) /\ SameBut(w, v, x) /\ Fewer(w, v) /\ v.partyOf[p] = NoParty
        /\ x \notin DOMAIN v.parties
    BY <1>3, <2>1, LeftKeeps
  <2> QED BY <1>3, <2>2 DEF GoesOn, v
<1>4. CASE /\ party.leader = p
           /\ ~(\/ party.memberList = <<>>
                \/ Len(party.memberList) = 1 /\ party.inviteList = {})
  <2> DEFINE h == Head(party.memberList)
             passed == PassPartyLeadership(w, x, h)
             rest == Erase(party.memberList, h)
  <2>1. v = Left(passed, x, p)
    BY <1>4 DEF LeaveParty
  <2>2. h \in ToSet(party.memberList) /\ h \in Member
    <3>1. 1 \in DOMAIN party.memberList /\ h = party.memberList[1]
      BY <1>0, <1>4
    <3> QED BY <1>0, <3>1 DEF ToSet
  <2>3. rest \in Seq(Member) /\ Len(rest) = Len(party.memberList) - 1
    BY <1>0, <1>1, <2>2, EraseFacts
  <2> DEFINE after == Record(h, <<p>> \o rest, party.inviteList)
  <2> HIDE DEF v, h, passed, rest
  <2>4. /\ Consistent(passed) /\ SameBut(w, passed, x) /\ Fewer(w, passed)
        /\ x \in DOMAIN passed.parties /\ passed.parties[x] = after
        /\ passed.partyOf[p] = x
    <3>1. LET u == PassPartyLeadership(w, x, h)
          IN  /\ Consistent(u) /\ SameBut(w, u, x) /\ Fewer(w, u)
              /\ DOMAIN u.parties = DOMAIN w.parties
              /\ u.parties[x] = Record(h, <<party.leader>> \o rest, party.inviteList)
              /\ u.partyOf[p] = w.partyOf[p]
      BY <2>2, PassKeeps DEF rest
    <3> QED BY <1>4, <3>1 DEF passed
  <2>5. p # h /\ after.leader = h /\ after.memberList = <<p>> \o rest
        /\ after.inviteList = party.inviteList
    BY <1>1, <1>4, <2>2 DEF Record
  <2> HIDE DEF after
  <2>6. /\ Consistent(v) /\ SameBut(passed, v, x) /\ Fewer(passed, v) /\ v.partyOf[p] = NoParty
        /\ x \notin DOMAIN v.parties => Len(after.memberList) = 1 /\ after.inviteList = {}
        /\ x \in DOMAIN v.parties => v.parties[x].leader = h
    <3>1. p # passed.parties[x].leader
      BY <2>4, <2>5
    <3>2. /\ Consistent(v) /\ SameBut(passed, v, x) /\ Fewer(passed, v) /\ v.partyOf[p] = NoParty
          /\ x \notin DOMAIN v.parties => /\ Len(passed.parties[x].memberList) = 1
                                          /\ passed.parties[x].inviteList = {}
          /\ x \in DOMAIN v.parties => v.parties[x].leader = passed.parties[x].leader
      BY <2>1, <2>4, <3>1, LeftKeeps
    <3> QED BY <2>4, <2>5, <3>2
  <2>7. Len(after.memberList) = Len(party.memberList)
    BY <1>0, <2>3, <2>5
  <2>8. SameBut(w, v, x) /\ Fewer(w, v)
    BY <2>4, <2>6, SameButChain, FewerChain
  <2>9. GoesOn(w, v, x)
    BY <2>5, <2>6, <2>7 DEF GoesOn, h
  <2> QED BY <2>6, <2>8, <2>9 DEF v
<1> QED BY <1>2, <1>3, <1>4

\* invitePlayer, of a party that exists or has just been made.
LEMMA InvitePlayerKeeps ==
    ASSUME NEW w, NEW x, ConsistentBut(w, x), x \in DOMAIN w.parties, AgreedSoFar(w, x),
           NEW p \in Member, w.partyOf[p] # x
    PROVE  LET v == InvitePlayer(w, x, p)
           IN  /\ Consistent(v) /\ SameBut(w, v, x) /\ DOMAIN v.parties = DOMAIN w.parties
               /\ \A q \in Member : /\ v.partyOf[q] = w.partyOf[q]
                                    /\ q # p => v.invitedTo[q] = w.invitedTo[q]
<1> DEFINE party == w.parties[x]
           after == Record(party.leader, party.memberList, party.inviteList \cup {p})
           v == InvitePlayer(w, x, p)
<1>0. /\ Typed(w) /\ party.leader \in Member /\ party.memberList \in Seq(Member)
      /\ party.inviteList \in SUBSET Member
  BY InParty DEF ConsistentBut
<1>1. v = Updated(w, x, after, p, w.partyOf[p], w.invitedTo[p] \cup {x})
  <2> DEFINE P == w.parties  O == w.partyOf  I == w.invitedTo
  <2>1. w = [parties |-> P, partyOf |-> O, invitedTo |-> I]
    BY <1>0 DEF Typed
  <2>2. v = [w EXCEPT !.parties = [P EXCEPT ![x] = [P[x] EXCEPT !.inviteList = party.inviteList \cup {p}]],
                      !.invitedTo = [I EXCEPT ![p] = I[p] \cup {x}]]
    BY <1>0, <2>1 DEF InvitePlayer, Typed
  <2>3. P[x] = Record(party.leader, party.memberList, party.inviteList)
    BY <1>0, ThreeThings
  <2> HIDE DEF v, party, P, O, I
  <2>4. [P[x] EXCEPT !.inviteList = party.inviteList \cup {p}] = after
    BY <2>3 DEF Record
  <2>5. v = [parties |-> [P EXCEPT ![x] = after], partyOf |-> O,
             invitedTo |-> [I EXCEPT ![p] = I[p] \cup {x}]]
    BY <2>1, <2>2, <2>4
  <2>6. [O EXCEPT ![p] = O[p]] = O
    BY <1>0, ThreeThings DEF O
  <2> QED BY <2>5, <2>6 DEF Updated, P, O, I
<1>2. /\ after \in PartyObject /\ after.leader = party.leader /\ after.memberList = party.memberList
      /\ after.inviteList = party.inviteList \cup {p}
  BY <1>0, RecordType
<1> HIDE DEF after, v, party
<1>3. /\ Typed(v) /\ SameBut(w, v, x)
      /\ DOMAIN v.parties = DOMAIN w.parties /\ v.parties[x] = after
      /\ \A q \in Member : /\ v.partyOf[q] = w.partyOf[q]
                           /\ v.invitedTo[q] = IF q = p THEN w.invitedTo[p] \cup {x} ELSE w.invitedTo[q]
  BY <1>0, <1>1, <1>2, UpdatedFacts
<1>4. Agreed(v, x)
  <2>1. /\ Knows(after) = Knows(party)
        /\ Knows(party) = {q \in Member : w.partyOf[q] = x}
        /\ party.inviteList = {q \in Member : x \in w.invitedTo[q]}
        /\ Knows(party) \cap party.inviteList = {}
        /\ IsInjective(<<after.leader>> \o after.memberList)
    BY <1>2 DEF AgreedSoFar, party, Knows
  <2>2. ~IsEmpty(after)
    BY <1>2 DEF IsEmpty
  <2>3. Knows(after) \cap after.inviteList = {}
    BY <1>2, <2>1
  <2>4. after.inviteList = {q \in Member : x \in v.invitedTo[q]}
    BY <1>2, <1>3, <2>1
  <2> QED BY <1>3, <2>1, <2>2, <2>3, <2>4 DEF Agreed, AgreedSoFar
<1> QED BY <1>3, <1>4, OthersStay, AllAgree DEF v

\* joinParty
LEMMA JoinKeeps ==
    ASSUME NEW w, Consistent(w), NEW x \in DOMAIN w.parties, NEW p \in w.parties[x].inviteList,
           w.partyOf[p] = NoParty
    PROVE  LET v == JoinParty(w, x, p)
           IN  /\ Consistent(v) /\ SameBut(w, v, x)
               /\ DOMAIN v.parties = DOMAIN w.parties
               /\ v.parties[x].leader = w.parties[x].leader
               /\ \A q \in Member : /\ q # p => v.partyOf[q] = w.partyOf[q]
                                    /\ v.invitedTo[q] \subseteq w.invitedTo[q]
<1> DEFINE party == w.parties[x]
           members == Append(party.memberList, p)
           after == Record(party.leader, members, party.inviteList \ {p})
           v == JoinParty(w, x, p)
<1>0. /\ Typed(w) /\ party.leader \in Member /\ party.memberList \in Seq(Member)
      /\ party.inviteList \in SUBSET Member /\ AgreedSoFar(w, x) /\ p \in Member /\ x # NoParty
  BY InParty DEF Consistent, Agreed
<1>1. /\ IsInjective(party.memberList) /\ party.leader \notin ToSet(party.memberList)
      /\ p # party.leader /\ p \notin ToSet(party.memberList)
  BY <1>0, Roster DEF AgreedSoFar, Knows
<1>2. /\ members \in Seq(Member) /\ ToSet(members) = {p} \cup ToSet(party.memberList)
      /\ IsInjective(members) /\ members # <<>>
  BY <1>0, <1>1, Behind
<1>3. v = [w EXCEPT !.parties[x].inviteList = party.inviteList \ {p},
                    !.parties[x].memberList = members,
                    !.partyOf[p] = x,
                    !.invitedTo[p] = w.invitedTo[p] \ {x}]
  BY <1>0 DEF JoinParty, Typed, PartyObject
<1> HIDE DEF members, v
<1>4. v = Updated(w, x, after, p, x, w.invitedTo[p] \ {x})
  <2> DEFINE P == w.parties  O == w.partyOf  I == w.invitedTo
             led == [P[x] EXCEPT !.inviteList = party.inviteList \ {p}]
             Q == [P EXCEPT ![x] = led]
  <2>1. w = [parties |-> P, partyOf |-> O, invitedTo |-> I]
    BY <1>0 DEF Typed
  <2>2. v = [w EXCEPT !.parties = [Q EXCEPT ![x] = [Q[x] EXCEPT !.memberList = members]],
                      !.partyOf = [O EXCEPT ![p] = x],
                      !.invitedTo = [I EXCEPT ![p] = I[p] \ {x}]]
    BY <1>3, <2>1
  <2>3. P[x] = Record(party.leader, party.memberList, party.inviteList)
    BY <1>0, ThreeThings
  <2>4. x \in DOMAIN P /\ P \in [DOMAIN P -> PartyObject]
    BY <1>0 DEF Typed
  <2> HIDE DEF party, P, O, I
  <2>5. led = Record(party.leader, party.memberList, party.inviteList \ {p})
    BY <2>3 DEF Record
  <2> HIDE DEF led
  <2>6. [led EXCEPT !.memberList = members] = after
    BY <2>5 DEF Record
  <2> HIDE DEF after
  <2>7. Q[x] = led
    BY <2>4
  <2>8. [Q EXCEPT ![x] = after] = [P EXCEPT ![x] = after]
    BY <2>4
  <2>9. [Q EXCEPT ![x] = [Q[x] EXCEPT !.memberList = members]] = [P EXCEPT ![x] = after]
    BY <2>6, <2>7, <2>8
  <2> HIDE DEF Q
  <2>10. v = [parties |-> [P EXCEPT ![x] = after], partyOf |-> [O EXCEPT ![p] = x],
              invitedTo |-> [I EXCEPT ![p] = I[p] \ {x}]]
    BY <2>1, <2>2, <2>9
  <2> QED BY <2>10 DEF Updated, P, O, I
<1>5. /\ after \in PartyObject /\ after.leader = party.leader /\ after.memberList = members
      /\ after.inviteList = party.inviteList \ {p}
  BY <1>0, <1>2, RecordType
<1> HIDE DEF after, party
<1>6. /\ Typed(v) /\ SameBut(w, v, x)
      /\ DOMAIN v.parties = DOMAIN w.parties /\ v.parties[x] = after
      /\ \A q \in Member : /\ v.partyOf[q] = IF q = p THEN x ELSE w.partyOf[q]
                           /\ v.invitedTo[q] = IF q = p THEN w.invitedTo[p] \ {x} ELSE w.invitedTo[q]
  BY <1>0, <1>4, <1>5, UpdatedFacts
<1>7. Agreed(v, x)
  <2>1. /\ Knows(after) = Knows(party) \cup {p}
        /\ Knows(party) = {q \in Member : w.partyOf[q] = x}
        /\ party.inviteList = {q \in Member : x \in w.invitedTo[q]}
        /\ Knows(party) \cap party.inviteList = {}
    BY <1>0, <1>2, <1>5 DEF AgreedSoFar, party, Knows
  <2>2. IsInjective(<<after.leader>> \o after.memberList)
    BY <1>0, <1>1, <1>2, <1>5, InFront
  <2>3. ~IsEmpty(after)
    BY <1>2, <1>5 DEF IsEmpty
  <2>4. Knows(after) \cap after.inviteList = {}
    BY <1>5, <2>1
  <2>5. after.inviteList = {q \in Member : x \in v.invitedTo[q]}
    BY <1>5, <1>6, <2>1
  <2>6. Knows(after) = {q \in Member : v.partyOf[q] = x}
    BY <1>0, <1>6, <2>1
  <2> QED BY <1>6, <2>2, <2>3, <2>4, <2>5, <2>6 DEF Agreed, AgreedSoFar
<1>8. Consistent(v)
  BY <1>6, <1>7, OthersStay, AllAgree
<1>9. v.parties[x].leader = party.leader
  BY <1>5, <1>6
<1> QED BY <1>6, <1>8, <1>9 DEF v, party

\* There is room for a party more: every party has a leader of its own, and p leads none.
LEMMA RoomForParty ==
    ASSUME NEW w, Consistent(w), NEW p \in Member, w.partyOf[p] = NoParty
    PROVE  \E y \in PartyId : y \notin DOMAIN w.parties
<1> SUFFICES ASSUME \A y \in PartyId : y \in DOMAIN w.parties PROVE FALSE
  OBVIOUS
<1> DEFINE led == [y \in PartyId |-> w.parties[y].leader]
           rest == Member \ {p}
<1>1. ASSUME NEW y \in PartyId
      PROVE  w.parties[y].leader \in rest /\ w.partyOf[w.parties[y].leader] = y
  <2>1. /\ y \in DOMAIN w.parties /\ y # NoParty /\ w.parties[y].leader \in Member
        /\ AgreedSoFar(w, y)
    BY InParty, PartyConstants DEF Consistent, Agreed
  <2>2. w.partyOf[w.parties[y].leader] = y
    BY <2>1 DEF AgreedSoFar, Knows
  <2> QED BY <2>1, <2>2
<1>2. led \in Injection(PartyId, rest)
  <2>1. led \in [PartyId -> rest] /\ DOMAIN led = PartyId
    BY <1>1
  <2>2. ASSUME NEW y \in PartyId, NEW z \in PartyId, led[y] = led[z] PROVE y = z
    BY <1>1, <2>2
  <2> QED BY <2>1, <2>2 DEF Injection, IsInjective
<1>3. /\ IsFiniteSet(rest) /\ Cardinality(rest) = Cardinality(Member) - 1
      /\ Cardinality(Member) \in Nat /\ Cardinality(PartyId) \in Nat
  BY PartyConstants, FS_RemoveElement, FS_CardinalityType
<1>4. Cardinality(PartyId) <= Cardinality(rest)
  <2> HIDE DEF rest, led
  <2> QED BY <1>2, <1>3, FS_Injection
<1> QED BY <1>3, <1>4, PartyConstants

\* The constructor: the party is new, and has its leader only.
LEMMA NewPartyKeeps ==
    ASSUME NEW w, Consistent(w), NEW p \in Member, w.partyOf[p] = NoParty
    PROVE  LET v == NewParty(w, p)
               x == v.partyOf[p]
           IN  /\ x \in DOMAIN v.parties /\ x \notin DOMAIN w.parties
               /\ ConsistentBut(v, x) /\ AgreedSoFar(v, x) /\ SameBut(w, v, x)
               /\ \A q \in Member : /\ q # p => v.partyOf[q] = w.partyOf[q] /\ v.partyOf[q] # x
                                    /\ v.invitedTo[q] = w.invitedTo[q]
<1> DEFINE x == CHOOSE y \in PartyId : y \notin DOMAIN w.parties
           party == Record(p, <<>>, {})
           v == NewParty(w, p)
<1>0. x \in PartyId /\ x \notin DOMAIN w.parties /\ x # NoParty
  BY RoomForParty, PartyConstants
<1>1. Typed(w)
  BY DEF Consistent
<1> HIDE DEF x
<1>2. /\ v.parties = [y \in DOMAIN w.parties \cup {x} |-> IF y = x THEN party ELSE w.parties[y]]
      /\ v.partyOf = [w.partyOf EXCEPT ![p] = x]
      /\ v.invitedTo = w.invitedTo
      /\ v = [parties |-> v.parties, partyOf |-> v.partyOf, invitedTo |-> v.invitedTo]
  <2> DEFINE P == w.parties  O == w.partyOf  I == w.invitedTo
             Q == [y \in DOMAIN P \cup {x} |-> IF y = x THEN party ELSE P[y]]
  <2>1. w = [parties |-> P, partyOf |-> O, invitedTo |-> I]
    BY <1>1 DEF Typed
  <2>2. v = [w EXCEPT !.parties = Q, !.partyOf = [O EXCEPT ![p] = x]]
    BY <2>1 DEF NewParty, x, Record
  <2> HIDE DEF v, party, P, O, I, Q
  <2>3. v = [parties |-> Q, partyOf |-> [O EXCEPT ![p] = x], invitedTo |-> I]
    BY <2>1, <2>2
  <2> QED BY <2>3 DEF P, O, I, Q
<1>3. party \in PartyObject /\ party.leader = p /\ party.memberList = <<>> /\ party.inviteList = {}
  <2> DEFINE nobody == <<>>
  <2>1. nobody \in Seq(Member) /\ {} \in SUBSET Member
    OBVIOUS
  <2>2. party = Record(p, nobody, {})
    OBVIOUS
  <2> HIDE DEF nobody, party
  <2>3. /\ party \in PartyObject /\ party.leader = p /\ party.memberList = nobody
        /\ party.inviteList = {}
    BY <2>1, <2>2, RecordType
  <2> QED BY <2>3 DEF nobody
<1> HIDE DEF party, v
<1>4. /\ DOMAIN v.parties = DOMAIN w.parties \cup {x} /\ v.parties[x] = party
      /\ \A y \in DOMAIN w.parties \ {x} : v.parties[y] = w.parties[y]
      /\ v.parties \in [DOMAIN v.parties -> PartyObject]
      /\ DOMAIN v.parties \subseteq PartyId
  BY <1>0, <1>1, <1>2, <1>3 DEF Typed
<1>5. \A q \in Member : /\ v.partyOf[q] = IF q = p THEN x ELSE w.partyOf[q]
                        /\ v.invitedTo[q] = w.invitedTo[q]
                        /\ w.partyOf[q] \in DOMAIN w.parties \cup {NoParty}
                        /\ w.invitedTo[q] \subseteq DOMAIN w.parties
  BY <1>1, <1>2 DEF Typed, Consistent
<1>6. Typed(v)
  BY <1>0, <1>1, <1>2, <1>4 DEF Typed
<1>7. SameBut(w, v, x)
  <2>1. ASSUME NEW q \in Member, NEW y \in PartyId \ {x}
        PROVE  /\ v.partyOf[q] = y <=> w.partyOf[q] = y
               /\ y \in v.invitedTo[q] <=> y \in w.invitedTo[q]
    <3>1. y # NoParty
      BY PartyConstants
    <3> QED BY <1>5, <3>1
  <2> QED BY <1>4, <2>1 DEF SameBut
<1>8. ConsistentBut(v, x)
  BY <1>6, <1>7, AllAgree, OthersStay
<1>9. AgreedSoFar(v, x)
  <2>1. Knows(party) = {q \in Member : v.partyOf[q] = x}
    <3>1. Knows(party) = {p}
      BY <1>3 DEF Knows, ToSet
    <3> QED BY <1>0, <1>5, <3>1
  <2>2. party.inviteList = {q \in Member : x \in v.invitedTo[q]}
    BY <1>0, <1>3, <1>5
  <2>3. IsInjective(<<party.leader>> \o party.memberList)
    BY <1>3 DEF IsInjective
  <2>4. Knows(party) \cap party.inviteList = {}
    BY <1>3
  <2> QED BY <1>4, <2>1, <2>2, <2>3, <2>4 DEF AgreedSoFar
<1>10. v.partyOf[p] = x
  BY <1>5
<1>11. \A q \in Member : /\ q # p => v.partyOf[q] = w.partyOf[q] /\ v.partyOf[q] # x
                         /\ v.invitedTo[q] = w.invitedTo[q]
  BY <1>0, <1>5
<1> QED BY <1>0, <1>4, <1>7, <1>8, <1>9, <1>10, <1>11 DEF v

\* clearPartyInvitations: the parties that waited for nobody else had nobody but a leader.
LEMMA ClearKeeps ==
    ASSUME NEW w, Consistent(w), NEW p \in Member
    PROVE  LET v == ClearPartyInvitations(w, p)
           IN  /\ Consistent(v) /\ Fewer(w, v) /\ v.invitedTo[p] = {}
               /\ v.partyOf[p] = w.partyOf[p]
               /\ DOMAIN v.parties \subseteq DOMAIN w.parties
               /\ \A y \in DOMAIN w.parties :
                      /\ y \notin DOMAIN v.parties => w.parties[y].memberList = <<>>
                      /\ y \in DOMAIN v.parties => v.parties[y].leader = w.parties[y].leader
                      /\ w.partyOf[p] = y => y \in DOMAIN v.parties /\ v.parties[y] = w.parties[y]
<1> DEFINE inviting == {x \in w.invitedTo[p] : p \in w.parties[x].inviteList}
           forgets(x) == [w.parties[x] EXCEPT !.inviteList = @ \ {p}]
           disbanded == {x \in inviting : IsEmpty(forgets(x))}
           v == ClearPartyInvitations(w, p)
<1>0. Typed(w)
  BY DEF Consistent
<1>1. /\ v = [parties |-> v.parties, partyOf |-> v.partyOf, invitedTo |-> v.invitedTo]
      /\ v.parties = [x \in DOMAIN w.parties \ disbanded |->
                         IF x \in inviting THEN forgets(x) ELSE w.parties[x]]
      /\ v.partyOf = [q \in Member |->
                         IF \E x \in disbanded : q = w.parties[x].leader THEN NoParty
                         ELSE w.partyOf[q]]
      /\ v.invitedTo = [w.invitedTo EXCEPT ![p] = {}]
  BY DEF ClearPartyInvitations
<1> HIDE DEF v
<1>2. ASSUME NEW x \in DOMAIN w.parties
      PROVE  /\ x \in PartyId /\ x # NoParty /\ AgreedSoFar(w, x) /\ ~IsEmpty(w.parties[x])
             /\ w.parties[x].leader \in Member /\ w.partyOf[w.parties[x].leader] = x
             /\ x \in inviting <=> p \in w.parties[x].inviteList
             /\ forgets(x) \in PartyObject /\ forgets(x).leader = w.parties[x].leader
             /\ forgets(x).memberList = w.parties[x].memberList
             /\ forgets(x).inviteList = w.parties[x].inviteList \ {p}
  <2>1. x \in PartyId /\ x # NoParty /\ w.parties[x] \in PartyObject /\ w.parties[x].leader \in Member
        /\ AgreedSoFar(w, x) /\ ~IsEmpty(w.parties[x])
    BY <1>0, InParty DEF Consistent, Agreed
  <2>2. w.partyOf[w.parties[x].leader] = x
    BY <2>1 DEF AgreedSoFar, Knows
  <2>3. x \in inviting <=> p \in w.parties[x].inviteList
    BY <2>1 DEF AgreedSoFar
  <2>4. /\ forgets(x) \in PartyObject /\ forgets(x).leader = w.parties[x].leader
        /\ forgets(x).memberList = w.parties[x].memberList
        /\ forgets(x).inviteList = w.parties[x].inviteList \ {p}
    BY <2>1 DEF PartyObject
  <2> QED BY <2>1, <2>2, <2>3, <2>4
<1>3. inviting \subseteq DOMAIN w.parties /\ disbanded \subseteq DOMAIN w.parties
  BY DEF Consistent
<1>4. \A x \in disbanded : /\ w.parties[x].memberList = <<>> /\ w.parties[x].inviteList \subseteq {p}
                           /\ p # w.parties[x].leader
  <2> SUFFICES ASSUME NEW x \in disbanded
               PROVE  /\ w.parties[x].memberList = <<>> /\ w.parties[x].inviteList \subseteq {p}
                      /\ p # w.parties[x].leader
    OBVIOUS
  <2>1. x \in DOMAIN w.parties /\ IsEmpty(forgets(x)) /\ p \in w.parties[x].inviteList
    BY <1>3
  <2> HIDE DEF forgets, disbanded
  <2>2. w.parties[x].memberList = <<>> /\ w.parties[x].inviteList \ {p} = {}
    BY <1>2, <2>1 DEF IsEmpty
  <2>3. p # w.parties[x].leader
    BY <1>2, <2>1 DEF AgreedSoFar, Knows
  <2> QED BY <2>2, <2>3
<1>5. ASSUME NEW x \in DOMAIN w.parties \ disbanded
      PROVE  /\ v.parties[x] = IF x \in inviting THEN forgets(x) ELSE w.parties[x]
             /\ v.parties[x] \in PartyObject
             /\ v.parties[x].leader = w.parties[x].leader
             /\ v.parties[x].memberList = w.parties[x].memberList
             /\ v.parties[x].inviteList = w.parties[x].inviteList \ {p}
             /\ ~IsEmpty(v.parties[x])
  <2>1. v.parties[x] = IF x \in inviting THEN forgets(x) ELSE w.parties[x]
    BY <1>1
  <2>2. x \in inviting => ~IsEmpty(forgets(x))
    OBVIOUS
  <2>3. w.parties[x] \in PartyObject
    BY <1>0, InParty
  <2> HIDE DEF forgets, disbanded, inviting
  <2>4. CASE x \in inviting
    BY <1>2, <2>1, <2>2, <2>4
  <2>5. CASE x \notin inviting
    <3>1. p \notin w.parties[x].inviteList
      BY <1>2, <2>5
    <3> QED BY <1>2, <2>1, <2>3, <2>5, <3>1
  <2> QED BY <2>4, <2>5
<1>6. ASSUME NEW q \in Member
      PROVE  /\ v.partyOf[q] = IF w.partyOf[q] \in disbanded THEN NoParty ELSE w.partyOf[q]
             /\ v.invitedTo[q] = IF q = p THEN {} ELSE w.invitedTo[q]
  <2>1. (\E x \in disbanded : q = w.parties[x].leader) <=> w.partyOf[q] \in disbanded
    <3>1. ASSUME NEW x \in disbanded, q = w.parties[x].leader PROVE w.partyOf[q] \in disbanded
      BY <1>2, <1>3, <3>1
    <3>2. ASSUME w.partyOf[q] \in disbanded
          PROVE  \E x \in disbanded : q = w.parties[x].leader
      <4> DEFINE x == w.partyOf[q]
      <4>1. x \in DOMAIN w.parties /\ x \in disbanded
        BY <1>3, <3>2
      <4> HIDE DEF disbanded
      <4> HIDE DEF forgets, inviting
      <4>2. AgreedSoFar(w, x)
        BY <1>2, <4>1
      <4>3. q \in Knows(w.parties[x])
        BY <4>2 DEF AgreedSoFar
      <4>4. Knows(w.parties[x]) = {w.parties[x].leader}
        BY <1>4, <4>1 DEF Knows, ToSet
      <4> QED BY <4>1, <4>3, <4>4
    <3> QED BY <3>1, <3>2
  <2> HIDE DEF disbanded
  <2>2. w.invitedTo \in [Member -> SUBSET PartyId]
    BY <1>0 DEF Typed
  <2> QED BY <1>1, <2>1, <2>2
<1>7. DOMAIN v.parties = DOMAIN w.parties \ disbanded
  BY <1>1
<1> HIDE DEF inviting, forgets, disbanded
<1>8. Typed(v)
  <2>1. v.parties \in [DOMAIN v.parties -> PartyObject] /\ DOMAIN v.parties \subseteq PartyId
    BY <1>0, <1>1, <1>5, <1>7 DEF Typed
  <2>2. v.partyOf \in [Member -> PartyId \cup {NoParty}]
    BY <1>0, <1>1 DEF Typed
  <2>3. v.invitedTo \in [Member -> SUBSET PartyId]
    BY <1>0, <1>1 DEF Typed
  <2> QED BY <1>1, <2>1, <2>2, <2>3 DEF Typed
<1>9. ASSUME NEW q \in Member
      PROVE  /\ v.partyOf[q] \in DOMAIN v.parties \cup {NoParty}
             /\ v.invitedTo[q] \subseteq DOMAIN v.parties
  <2>1. w.partyOf[q] \in DOMAIN w.parties \cup {NoParty} /\ w.invitedTo[q] \subseteq DOMAIN w.parties
    BY DEF Consistent
  <2>2. v.partyOf[q] \in DOMAIN v.parties \cup {NoParty}
    BY <1>6, <1>7, <2>1
  <2>3. ASSUME NEW y \in v.invitedTo[q] PROVE y \in DOMAIN v.parties
    <3>1. q # p /\ y \in w.invitedTo[q] /\ y \in DOMAIN w.parties
      BY <1>6, <2>1, <2>3
    <3>2. AgreedSoFar(w, y)
      BY <1>2, <3>1
    <3>3. q \in w.parties[y].inviteList
      BY <3>1, <3>2 DEF AgreedSoFar
    <3> QED BY <1>4, <1>7, <3>1, <3>3
  <2> QED BY <2>2, <2>3
<1>10. ASSUME NEW y \in DOMAIN v.parties PROVE Agreed(v, y)
  <2>1. y \in DOMAIN w.parties \ disbanded /\ y # NoParty
    BY <1>2, <1>7
  <2>2. /\ v.parties[y].leader = w.parties[y].leader
        /\ v.parties[y].memberList = w.parties[y].memberList
        /\ v.parties[y].inviteList = w.parties[y].inviteList \ {p}
        /\ ~IsEmpty(v.parties[y])
    BY <1>5, <2>1
  <2>3. /\ Knows(w.parties[y]) = {q \in Member : w.partyOf[q] = y}
        /\ w.parties[y].inviteList = {q \in Member : y \in w.invitedTo[q]}
        /\ IsInjective(<<w.parties[y].leader>> \o w.parties[y].memberList)
        /\ Knows(w.parties[y]) \cap w.parties[y].inviteList = {}
    BY <1>2, <2>1 DEF AgreedSoFar
  <2>4. Knows(v.parties[y]) = Knows(w.parties[y])
    BY <2>2 DEF Knows
  <2>5. \A q \in Member : /\ v.partyOf[q] = y <=> w.partyOf[q] = y
                          /\ y \in v.invitedTo[q] <=> y \in w.invitedTo[q] /\ q # p
    BY <1>6, <2>1
  <2>6. Knows(v.parties[y]) = {q \in Member : v.partyOf[q] = y}
    BY <2>3, <2>4, <2>5
  <2>7. v.parties[y].inviteList = {q \in Member : y \in v.invitedTo[q]}
    BY <2>2, <2>3, <2>5
  <2>8. Knows(v.parties[y]) \cap v.parties[y].inviteList = {}
    BY <2>2, <2>3, <2>4
  <2>9. IsInjective(<<v.parties[y].leader>> \o v.parties[y].memberList)
    BY <2>2, <2>3
  <2> QED BY <2>2, <2>6, <2>7, <2>8, <2>9 DEF Agreed, AgreedSoFar
<1>11. Consistent(v)
  BY <1>8, <1>9, <1>10 DEF Consistent
<1>12. Fewer(w, v)
  BY <1>6 DEF Fewer
<1>13. v.invitedTo[p] = {}
  BY <1>6
<1>14. w.partyOf[p] \notin disbanded
  <2> SUFFICES ASSUME w.partyOf[p] \in disbanded PROVE FALSE
    OBVIOUS
  <2> DEFINE x == w.partyOf[p]
  <2>1. x \in DOMAIN w.parties /\ x \in disbanded
    BY <1>3
  <2>0. AgreedSoFar(w, x)
    BY <1>2, <2>1
  <2>2. p \in Knows(w.parties[x])
    BY <2>0 DEF AgreedSoFar
  <2>3. Knows(w.parties[x]) = {w.parties[x].leader}
    BY <1>4, <2>1 DEF Knows, ToSet
  <2> QED BY <1>4, <2>1, <2>2, <2>3
<1>15. v.partyOf[p] = w.partyOf[p]
  BY <1>6, <1>14
<1>16. ASSUME NEW y \in DOMAIN w.parties
       PROVE  /\ y \notin DOMAIN v.parties => w.parties[y].memberList = <<>>
              /\ y \in DOMAIN v.parties => v.parties[y].leader = w.parties[y].leader
              /\ w.partyOf[p] = y => y \in DOMAIN v.parties /\ v.parties[y] = w.parties[y]
  <2>1. w.partyOf[p] = y => y \notin inviting
    <3> SUFFICES ASSUME w.partyOf[p] = y PROVE y \notin inviting
      OBVIOUS
    <3>0. AgreedSoFar(w, y)
      BY <1>2
    <3>1. p \in Knows(w.parties[y])
      BY <3>0 DEF AgreedSoFar
    <3>2. p \notin w.parties[y].inviteList
      BY <3>0, <3>1 DEF AgreedSoFar
    <3> QED BY <1>2, <3>2
  <2> QED BY <1>4, <1>5, <1>7, <1>14, <2>1
<1> QED BY <1>7, <1>11, <1>12, <1>13, <1>15, <1>16 DEF v

-----------------------------------------------------------------------------
\* What PartyLinks says of the variables, of the world that they make up.
LEMMA LinksOfWorld ==
    ASSUME PartyLinks
    PROVE  Consistent(World) /\ Around(World, onlineMembers)
<1>1. World.parties = parties /\ World.partyOf = partyOf /\ World.invitedTo = invitedTo
  BY DEF World
<1>2. Typed(World)
  BY DEF World, Typed, PartyLinks, TypeOKParty, Live
<1>3. ASSUME NEW y \in DOMAIN parties PROVE Agreed(World, y)
  BY <1>1, <1>3 DEF PartyLinks, People, Agreed, AgreedSoFar, Knows, Live
<1>4. ASSUME NEW p \in Member
      PROVE  partyOf[p] \in Live \cup {NoParty} /\ invitedTo[p] \subseteq Live
  BY <1>4 DEF PartyLinks
<1>5. Consistent(World)
  BY <1>1, <1>2, <1>3, <1>4 DEF Consistent, Live
<1>6. ASSUME NEW p \in Member, partyOf[p] # NoParty \/ invitedTo[p] # {}
      PROVE  p \in onlineMembers
  <2>1. ASSUME NEW x \in Live PROVE /\ People(x) = {q \in Member : partyOf[q] = x}
                                    /\ parties[x].inviteList = {q \in Member : x \in invitedTo[q]}
                                    /\ People(x) \cup parties[x].inviteList \subseteq onlineMembers
    BY <2>1 DEF PartyLinks
  <2>2. CASE partyOf[p] # NoParty
    <3>1. partyOf[p] \in Live /\ p \in People(partyOf[p])
      BY <1>4, <2>1, <2>2
    <3> QED BY <2>1, <3>1
  <2>3. CASE invitedTo[p] # {}
    <3>1. PICK x \in invitedTo[p] : TRUE
      BY <2>3
    <3>2. x \in Live
      BY <1>4
    <3>3. p \in parties[x].inviteList
      BY <2>1, <3>1, <3>2
    <3> QED BY <2>1, <3>2, <3>3
  <2> QED BY <1>6, <2>2, <2>3
<1> QED BY <1>1, <1>5, <1>6 DEF Around

\* And back, of the world after a step.
LEMMA WorldLinks ==
    ASSUME NEW w, Consistent(w), SetWorld(w), Around(w, onlineMembers'), onlineMembers' \subseteq Member
    PROVE  PartyLinks'
<1>1. parties' = w.parties /\ partyOf' = w.partyOf /\ invitedTo' = w.invitedTo /\ Live' = DOMAIN w.parties
  BY DEF SetWorld, Live
<1>2. TypeOKParty'
  BY <1>1 DEF TypeOKParty, Consistent, Typed
<1>3. ASSUME NEW p \in Member
      PROVE  /\ partyOf'[p] # NoParty => partyOf'[p] \in Live'
             /\ invitedTo'[p] \subseteq Live'
  BY <1>1 DEF Consistent
<1>4. ASSUME NEW x \in Live'
      PROVE  /\ People(x)' = {p \in Member : partyOf'[p] = x}
             /\ parties'[x].inviteList = {p \in Member : x \in invitedTo'[p]}
             /\ People(x)' \cup parties'[x].inviteList \subseteq onlineMembers'
             /\ IsInjective(<<parties'[x].leader>> \o parties'[x].memberList)
             /\ People(x)' \cap parties'[x].inviteList = {}
             /\ ~IsEmpty(parties'[x])
  <2>1. Agreed(w, x) /\ x # NoParty
    BY <1>1, InParty DEF Consistent
  <2>2. /\ People(x)' = {p \in Member : partyOf'[p] = x}
        /\ parties'[x].inviteList = {p \in Member : x \in invitedTo'[p]}
        /\ IsInjective(<<parties'[x].leader>> \o parties'[x].memberList)
        /\ People(x)' \cap parties'[x].inviteList = {}
        /\ ~IsEmpty(parties'[x])
    BY <1>1, <2>1 DEF People, Agreed, AgreedSoFar, Knows
  <2>3. ASSUME NEW p \in Member, partyOf'[p] = x \/ x \in invitedTo'[p] PROVE p \in onlineMembers'
    BY <1>1, <2>1, <2>3 DEF Around
  <2> QED BY <2>2, <2>3
<1> QED BY <1>2, <1>3, <1>4 DEF PartyLinks

LEMMA WorldFollowed ==
    ASSUME NEW w, SetWorld(w), \A x \in Live : GoesOn(World, w, x)
    PROVE  LeaderFollowed
  BY DEF LeaderFollowed, GoesOn, World, SetWorld

LEMMA FewerAround ==
    ASSUME NEW w, NEW v, NEW on, Around(w, on), Fewer(w, v)
    PROVE  Around(v, on)
<1> SUFFICES ASSUME NEW p \in Member, v.partyOf[p] # NoParty \/ v.invitedTo[p] # {} PROVE p \in on
  BY DEF Around
<1>1. w.partyOf[p] # NoParty \/ w.invitedTo[p] # {}
  BY DEF Fewer
<1> QED BY <1>1 DEF Around

\* A party whose leader is still its leader goes on.
LEMMA SameLeader ==
    ASSUME NEW w, NEW v, Consistent(v), NEW x \in DOMAIN v.parties,
           v.parties[x].leader = w.parties[x].leader
    PROVE  GoesOn(w, v, x)
<1>1. Agreed(v, x) /\ v.parties[x].leader \in Member
  BY InParty DEF Consistent
<1>2. v.partyOf[v.parties[x].leader] = x
  BY <1>1 DEF Agreed, AgreedSoFar, Knows
<1> QED BY <1>2 DEF GoesOn

\* A handler that does something to one party.
LEMMA OnOneParty ==
    ASSUME PartyLinks, NEW v, NEW x, Consistent(v), SameBut(World, v, x), SetWorld(v),
           x \in Live => GoesOn(World, v, x),
           Around(v, onlineMembers), UNCHANGED onlineMembers
    PROVE  PartyLinks' /\ LeaderFollowed
<1>1. PartyLinks'
  <2>1. onlineMembers' \subseteq Member
    BY DEF PartyLinks, TypeOKParty
  <2> QED BY <2>1, WorldLinks
<1>2. \A y \in Live : GoesOn(World, v, y)
  <2>1. Consistent(World) /\ Live = DOMAIN World.parties
    BY LinksOfWorld DEF World, Live
  <2> QED BY <2>1, OthersGoOn
<1> QED BY <1>1, <1>2, WorldFollowed

LEMMA InviteStep == PartyLinks /\ PlayerInviteToParty => PartyLinks' /\ LeaderFollowed
<1> SUFFICES ASSUME PartyLinks, PlayerInviteToParty PROVE PartyLinks' /\ LeaderFollowed
  OBVIOUS
<1> DEFINE w == World
<1>0. /\ Consistent(w) /\ Around(w, onlineMembers) /\ onlineMembers \subseteq Member
      /\ w.parties = parties /\ w.partyOf = partyOf /\ Live = DOMAIN w.parties
  BY LinksOfWorld DEF World, Live, PartyLinks, TypeOKParty
<1>1. PICK p \in onlineMembers, q \in onlineMembers :
          /\ p # q /\ partyOf[q] = NoParty /\ UNCHANGED onlineMembers
          /\ \/ /\ partyOf[p] = NoParty
                /\ LET u == NewParty(w, p) IN SetWorld(InvitePlayer(u, u.partyOf[p], q))
             \/ Leads(p) /\ SetWorld(InvitePlayer(w, partyOf[p], q))
  BY DEF PlayerInviteToParty
<1> HIDE DEF w
<1>2. CASE /\ partyOf[p] = NoParty
           /\ LET u == NewParty(w, p) IN SetWorld(InvitePlayer(u, u.partyOf[p], q))
  <2> DEFINE u == NewParty(w, p)
             x == u.partyOf[p]
             v == InvitePlayer(u, x, q)
  <2>1. /\ x \in DOMAIN u.parties /\ x \notin DOMAIN w.parties
        /\ ConsistentBut(u, x) /\ AgreedSoFar(u, x) /\ SameBut(w, u, x)
        /\ \A r \in Member : /\ r # p => u.partyOf[r] = w.partyOf[r] /\ u.partyOf[r] # x
                             /\ u.invitedTo[r] = w.invitedTo[r]
    BY <1>0, <1>2, NewPartyKeeps
  <2>2. SetWorld(v)
    BY <1>2
  <2> HIDE DEF u, x
  <2>3. u.partyOf[q] # x /\ q \in Member
    BY <1>0, <1>1, <2>1
  <2>4. /\ Consistent(v) /\ SameBut(u, v, x) /\ DOMAIN v.parties = DOMAIN u.parties
        /\ \A r \in Member : /\ v.partyOf[r] = u.partyOf[r]
                             /\ r # q => v.invitedTo[r] = u.invitedTo[r]
    BY <2>1, <2>3, InvitePlayerKeeps
  <2> HIDE DEF v
  <2>5. SameBut(w, v, x)
    BY <2>1, <2>4, SameButChain
  <2>6. Around(v, onlineMembers)
    <3>1. ASSUME NEW r \in Member, v.partyOf[r] # NoParty \/ v.invitedTo[r] # {}, r # p, r # q
          PROVE  r \in onlineMembers
      <4>1. v.partyOf[r] = w.partyOf[r] /\ v.invitedTo[r] = w.invitedTo[r]
        BY <2>1, <2>4, <3>1
      <4> QED BY <1>0, <3>1, <4>1 DEF Around
    <3> QED BY <3>1 DEF Around
  <2>7. x \notin Live
    BY <1>0, <2>1
  <2> QED BY <1>1, <2>2, <2>4, <2>5, <2>6, <2>7, OnOneParty DEF w
<1>3. CASE Leads(p) /\ SetWorld(InvitePlayer(w, partyOf[p], q))
  <2> DEFINE x == partyOf[p]
             v == InvitePlayer(w, x, q)
  <2>1. x \in DOMAIN w.parties /\ w.partyOf[q] # x /\ q \in Member /\ p \in Member
    BY <1>0, <1>1, <1>3 DEF Leads, PartyLinks
  <2>2. ConsistentBut(w, x) /\ AgreedSoFar(w, x)
    <3>1. Agreed(w, x)
      BY <1>0, <2>1 DEF Consistent
    <3> QED BY <1>0, <3>1, AllAgree DEF Agreed
  <2>3. SetWorld(v)
    BY <1>3
  <2> HIDE DEF x
  <2>4. /\ Consistent(v) /\ SameBut(w, v, x) /\ DOMAIN v.parties = DOMAIN w.parties
        /\ \A r \in Member : /\ v.partyOf[r] = w.partyOf[r]
                             /\ r # q => v.invitedTo[r] = w.invitedTo[r]
    BY <2>1, <2>2, InvitePlayerKeeps
  <2> HIDE DEF v
  <2>5. Around(v, onlineMembers)
    <3>1. ASSUME NEW r \in Member, v.partyOf[r] # NoParty \/ v.invitedTo[r] # {}, r # q
          PROVE  r \in onlineMembers
      BY <1>0, <2>4, <3>1 DEF Around
    <3> QED BY <3>1 DEF Around
  <2>6. GoesOn(w, v, x)
    <3>1. w.parties[x].leader \in Member /\ Agreed(w, x)
      BY <1>0, <2>1, InParty DEF Consistent
    <3>2. w.partyOf[w.parties[x].leader] = x
      BY <3>1 DEF Agreed, AgreedSoFar, Knows
    <3> QED BY <2>1, <2>4, <3>1, <3>2 DEF GoesOn
  <2> QED BY <1>1, <2>3, <2>4, <2>5, <2>6, OnOneParty DEF w
<1> QED BY <1>1, <1>2, <1>3

LEMMA JoinStep == PartyLinks /\ PlayerJoinParty => PartyLinks' /\ LeaderFollowed
<1> SUFFICES ASSUME PartyLinks, PlayerJoinParty PROVE PartyLinks' /\ LeaderFollowed
  OBVIOUS
<1> DEFINE w == World
<1>0. /\ Consistent(w) /\ Around(w, onlineMembers) /\ onlineMembers \subseteq Member
      /\ w.parties = parties /\ w.partyOf = partyOf /\ Live = DOMAIN w.parties
  BY LinksOfWorld DEF World, Live, PartyLinks, TypeOKParty
<1>1. PICK p \in onlineMembers, leader \in onlineMembers :
          /\ IsInviting(leader, p) /\ partyOf[p] = NoParty
          /\ SetWorld(JoinParty(w, partyOf[leader], p))
          /\ UNCHANGED onlineMembers
  BY DEF PlayerJoinParty
<1> HIDE DEF w
<1> DEFINE x == partyOf[leader]
           v == JoinParty(w, x, p)
<1>2. /\ x \in DOMAIN w.parties /\ w.parties[x].leader = leader /\ p \in w.parties[x].inviteList
      /\ w.partyOf[p] = NoParty /\ p \in Member
  BY <1>0, <1>1 DEF IsInviting, PartyLinks
<1>3. SetWorld(v)
  BY <1>1
<1> HIDE DEF x
<1>4. /\ Consistent(v) /\ SameBut(w, v, x)
      /\ DOMAIN v.parties = DOMAIN w.parties
      /\ v.parties[x].leader = w.parties[x].leader
      /\ \A q \in Member : /\ q # p => v.partyOf[q] = w.partyOf[q]
                           /\ v.invitedTo[q] \subseteq w.invitedTo[q]
  BY <1>0, <1>2, JoinKeeps
<1> HIDE DEF v
<1>5. GoesOn(w, v, x)
  BY <1>2, <1>4, SameLeader
<1>6. Around(v, onlineMembers)
  <2>1. ASSUME NEW r \in Member, v.partyOf[r] # NoParty \/ v.invitedTo[r] # {}, r # p
        PROVE  r \in onlineMembers
    BY <1>0, <1>4, <2>1 DEF Around
  <2> QED BY <2>1 DEF Around
<1> QED BY <1>1, <1>3, <1>4, <1>5, <1>6, OnOneParty DEF w

LEMMA RevokeStep == PartyLinks /\ PlayerRevokePartyInvitation => PartyLinks' /\ LeaderFollowed
<1> SUFFICES ASSUME PartyLinks, PlayerRevokePartyInvitation PROVE PartyLinks' /\ LeaderFollowed
  OBVIOUS
<1> DEFINE w == World
<1>0. /\ Consistent(w) /\ Around(w, onlineMembers) /\ onlineMembers \subseteq Member
      /\ w.parties = parties /\ w.partyOf = partyOf /\ Live = DOMAIN w.parties
  BY LinksOfWorld DEF World, Live, PartyLinks, TypeOKParty
<1>1. PICK p \in onlineMembers, q \in onlineMembers :
          /\ IsInviting(p, q)
          /\ SetWorld(RemoveInvite(w, partyOf[p], q))
          /\ UNCHANGED onlineMembers
  BY DEF PlayerRevokePartyInvitation
<1> HIDE DEF w
<1> DEFINE x == partyOf[p]
           v == RemoveInvite(w, x, q)
<1>2. x \in DOMAIN w.parties /\ q \in w.parties[x].inviteList
  BY <1>0, <1>1 DEF IsInviting, PartyLinks
<1>3. SetWorld(v)
  BY <1>1
<1> HIDE DEF x
<1>4. /\ Consistent(v) /\ SameBut(w, v, x) /\ Fewer(w, v)
      /\ x \notin DOMAIN v.parties => w.parties[x].memberList = <<>>
      /\ x \in DOMAIN v.parties => v.parties[x].leader = w.parties[x].leader
  BY <1>0, <1>2, RemoveInvitePlayerKeeps
<1> HIDE DEF v
<1>5. GoesOn(w, v, x)
  <2>1. CASE x \in DOMAIN v.parties
    BY <1>4, <2>1, SameLeader
  <2>2. CASE x \notin DOMAIN v.parties
    BY <1>4, <2>2 DEF GoesOn
  <2> QED BY <2>1, <2>2
<1> QED BY <1>0, <1>1, <1>3, <1>4, <1>5, FewerAround, OnOneParty DEF w

LEMMA PassStep == PartyLinks /\ PlayerPassPartyLeadership => PartyLinks' /\ LeaderFollowed
<1> SUFFICES ASSUME PartyLinks, PlayerPassPartyLeadership PROVE PartyLinks' /\ LeaderFollowed
  OBVIOUS
<1> DEFINE w == World
<1>0. /\ Consistent(w) /\ Around(w, onlineMembers) /\ onlineMembers \subseteq Member
      /\ w.parties = parties /\ w.partyOf = partyOf /\ Live = DOMAIN w.parties
  BY LinksOfWorld DEF World, Live, PartyLinks, TypeOKParty
<1>1. PICK p \in onlineMembers, q \in onlineMembers :
          /\ Leads(p) /\ p # q /\ partyOf[q] = partyOf[p]
          /\ SetWorld(PassPartyLeadership(w, partyOf[p], q))
          /\ UNCHANGED onlineMembers
  BY DEF PlayerPassPartyLeadership
<1> HIDE DEF w
<1> DEFINE x == partyOf[p]
           v == PassPartyLeadership(w, x, q)
<1>2. /\ x \in DOMAIN w.parties /\ w.parties[x].leader = p /\ q # p /\ w.partyOf[q] = x
      /\ q \in Member
  BY <1>0, <1>1 DEF Leads, PartyLinks
<1>3. SetWorld(v)
  BY <1>1
<1> HIDE DEF x
<1>4. w.parties[x].leader \in Member /\ Agreed(w, x)
  BY <1>0, <1>2, InParty DEF Consistent
<1>5. q \in ToSet(w.parties[x].memberList)
  <2>1. q \in Knows(w.parties[x])
    BY <1>2, <1>4 DEF Agreed, AgreedSoFar
  <2> QED BY <1>2, <2>1 DEF Knows
<1>6. /\ Consistent(v) /\ SameBut(w, v, x) /\ Fewer(w, v) /\ DOMAIN v.parties = DOMAIN w.parties
      /\ \A r \in Member : v.partyOf[r] = w.partyOf[r]
  BY <1>0, <1>2, <1>5, PassKeeps
<1> HIDE DEF v
<1>7. GoesOn(w, v, x)
  <2>1. w.partyOf[w.parties[x].leader] = x
    BY <1>4 DEF Agreed, AgreedSoFar, Knows
  <2> QED BY <1>2, <1>4, <1>6, <2>1 DEF GoesOn
<1> QED BY <1>0, <1>1, <1>3, <1>6, <1>7, FewerAround, OnOneParty DEF w

LEMMA LeaveStep == PartyLinks /\ PlayerLeaveParty => PartyLinks' /\ LeaderFollowed
<1> SUFFICES ASSUME PartyLinks, PlayerLeaveParty PROVE PartyLinks' /\ LeaderFollowed
  OBVIOUS
<1> DEFINE w == World
<1>0. /\ Consistent(w) /\ Around(w, onlineMembers) /\ onlineMembers \subseteq Member
      /\ w.parties = parties /\ w.partyOf = partyOf /\ Live = DOMAIN w.parties
  BY LinksOfWorld DEF World, Live, PartyLinks, TypeOKParty
<1>1. PICK p \in onlineMembers :
          partyOf[p] # NoParty /\ SetWorld(LeaveParty(w, partyOf[p], p)) /\ UNCHANGED onlineMembers
  BY DEF PlayerLeaveParty
<1> HIDE DEF w
<1> DEFINE x == partyOf[p]
           v == LeaveParty(w, x, p)
<1>2. x \in DOMAIN w.parties /\ w.partyOf[p] = x /\ p \in Member
  BY <1>0, <1>1 DEF PartyLinks
<1>3. SetWorld(v)
  BY <1>1
<1> HIDE DEF x
<1>4. Consistent(v) /\ SameBut(w, v, x) /\ Fewer(w, v) /\ GoesOn(w, v, x)
  BY <1>0, <1>2, LeaveKeeps
<1> HIDE DEF v
<1> QED BY <1>0, <1>1, <1>3, <1>4, FewerAround, OnOneParty DEF w

\* A logout gives up the invitations first, which the player's own party does not notice.
LEMMA LogoutStep == PartyLinks /\ PartyLogout => PartyLinks' /\ LeaderFollowed
<1> SUFFICES ASSUME PartyLinks, PartyLogout PROVE PartyLinks' /\ LeaderFollowed
  OBVIOUS
<1> DEFINE w == World
<1>0. /\ Consistent(w) /\ Around(w, onlineMembers) /\ onlineMembers \subseteq Member
      /\ w.parties = parties /\ w.partyOf = partyOf /\ Live = DOMAIN w.parties
  BY LinksOfWorld DEF World, Live, PartyLinks, TypeOKParty
<1>1. PICK p \in onlineMembers : SetWorld(OnRemoveCreature(p)) /\ onlineMembers' = onlineMembers \ {p}
  BY DEF PartyLogout
<1> DEFINE u == ClearPartyInvitations(w, p)
           v == OnRemoveCreature(p)
           x == u.partyOf[p]
<1>2. v = IF x # NoParty THEN LeaveParty(u, x, p) ELSE u
  BY DEF OnRemoveCreature
<1> HIDE DEF w, v
<1>3. /\ Consistent(u) /\ Fewer(w, u) /\ u.invitedTo[p] = {} /\ x = w.partyOf[p]
      /\ DOMAIN u.parties \subseteq DOMAIN w.parties /\ p \in Member
      /\ \A y \in DOMAIN w.parties :
             /\ y \notin DOMAIN u.parties => w.parties[y].memberList = <<>>
             /\ y \in DOMAIN u.parties => u.parties[y].leader = w.parties[y].leader
             /\ x = y => y \in DOMAIN u.parties /\ u.parties[y] = w.parties[y]
  BY <1>0, <1>1, ClearKeeps
<1> HIDE DEF u
<1>4. \A y \in DOMAIN w.parties : GoesOn(w, u, y)
  <2> SUFFICES ASSUME NEW y \in DOMAIN w.parties PROVE GoesOn(w, u, y)
    OBVIOUS
  <2>1. CASE y \in DOMAIN u.parties
    BY <1>3, <2>1, SameLeader
  <2>2. CASE y \notin DOMAIN u.parties
    BY <1>3, <2>2 DEF GoesOn
  <2> QED BY <2>1, <2>2
<1>5. /\ Consistent(v) /\ Fewer(u, v) /\ v.partyOf[p] = NoParty
      /\ \A y \in DOMAIN w.parties : GoesOn(w, v, y)
  <2>1. CASE x = NoParty
    <3>1. v = u
      BY <1>2, <2>1
    <3> QED BY <1>3, <1>4, <2>1, <3>1 DEF Fewer
  <2>2. CASE x # NoParty
    <3>1. x \in DOMAIN w.parties /\ x \in DOMAIN u.parties /\ u.parties[x] = w.parties[x]
      BY <1>0, <1>3, <2>2 DEF Consistent
    <3>2. v = LeaveParty(u, x, p)
      BY <1>2, <2>2
    <3> HIDE DEF x
    <3>3. /\ Consistent(v) /\ SameBut(u, v, x) /\ Fewer(u, v)
          /\ v.partyOf[p] = NoParty /\ GoesOn(u, v, x)
      <4>1. u.partyOf[p] = x
        BY DEF x
      <4> QED BY <1>3, <3>1, <3>2, <4>1, LeaveKeeps
    <3>4. ASSUME NEW y \in DOMAIN w.parties PROVE GoesOn(w, v, y)
      <4>1. CASE y = x
        BY <3>1, <3>3, <4>1 DEF GoesOn
      <4>2. CASE y # x /\ y \in DOMAIN u.parties
        <5>1. y \in DOMAIN v.parties /\ v.parties[y] = u.parties[y]
          BY <3>3, <4>2 DEF SameBut
        <5>2. v.parties[y].leader = w.parties[y].leader
          BY <1>3, <4>2, <5>1
        <5> QED BY <3>3, <5>1, <5>2, SameLeader
      <4>3. CASE y # x /\ y \notin DOMAIN u.parties
        <5>1. y \notin DOMAIN v.parties
          BY <3>3, <4>3 DEF SameBut
        <5> QED BY <1>3, <4>3, <5>1 DEF GoesOn
      <4> QED BY <4>1, <4>2, <4>3
    <3> QED BY <3>3, <3>4
  <2> QED BY <2>1, <2>2
<1>6. Around(v, onlineMembers')
  <2>1. Around(v, onlineMembers)
    BY <1>0, <1>3, <1>5, FewerAround
  <2>2. v.invitedTo[p] = {}
    BY <1>3, <1>5 DEF Fewer
  <2> QED BY <1>1, <1>5, <2>1, <2>2 DEF Around
<1>7. SetWorld(v) /\ onlineMembers' \subseteq Member
  BY <1>0, <1>1 DEF v
<1>8. PartyLinks'
  BY <1>5, <1>6, <1>7, WorldLinks
<1>9. LeaderFollowed
  BY <1>0, <1>5, <1>7, WorldFollowed DEF w
<1> QED BY <1>8, <1>9

LEMMA LoginStep == PartyLinks /\ (PartyLogin \/ UNCHANGED partyVars) => PartyLinks'
<1> SUFFICES ASSUME PartyLinks, PartyLogin \/ UNCHANGED partyVars PROVE PartyLinks'
  OBVIOUS
<1>1. /\ Consistent(World) /\ Around(World, onlineMembers)
      /\ SetWorld(World) /\ onlineMembers \subseteq onlineMembers' /\ onlineMembers' \subseteq Member
  BY LinksOfWorld DEF PartyLogin, partyVars, SetWorld, World, PartyLinks, TypeOKParty
<1>2. Around(World, onlineMembers')
  BY <1>1 DEF Around
<1> QED BY <1>1, <1>2, WorldLinks

LEMMA LoginFollowed == PartyLinks /\ PartyLogin => LeaderFollowed
<1> SUFFICES ASSUME PartyLinks, PartyLogin PROVE LeaderFollowed
  OBVIOUS
<1>1. Consistent(World) /\ World.parties = parties /\ SetWorld(World)
  BY LinksOfWorld DEF PartyLogin, SetWorld, World
<1>2. \A x \in Live : GoesOn(World, World, x)
  BY <1>1, SameLeader DEF Live
<1> QED BY <1>1, <1>2, WorldFollowed

LEMMA PartyStart == PartyInit => PartyLinks
<1> SUFFICES ASSUME PartyInit PROVE PartyLinks
  OBVIOUS
<1>1. Live = {} /\ parties \in [Live -> PartyObject]
  BY DEF PartyInit, Live
<1>2. \A p \in Member : partyOf[p] = NoParty /\ invitedTo[p] = {}
  BY DEF PartyInit
<1>3. TypeOKParty
  BY <1>1 DEF PartyInit, TypeOKParty
<1> QED BY <1>1, <1>2, <1>3 DEF PartyLinks

LEMMA PartyStep == PartyLinks /\ [PartyNext]_partyVars => PartyLinks' /\ [LeaderFollowed]_partyVars
  BY InviteStep, JoinStep, RevokeStep, PassStep, LeaveStep, LogoutStep, LoginStep, LoginFollowed
     DEF PartyNext

\* The pointers of parties and players agree after every handler, and a party is
\* given up, or passed on, only as its purpose says.
THEOREM PartiesGoOn == PartySpec => PartyGoesOn
<1>1. PartyLinks /\ [PartyNext]_partyVars => PartyLinks'
  BY PartyStep
<1>2. PartyLinks /\ [PartyNext]_partyVars => [LeaderFollowed]_partyVars
  BY PartyStep
<1> QED BY <1>1, <1>2, PartyStart, PTL DEF PartySpec, PartyGoesOn

-----------------------------------------------------------------------------
(* Houses *)

\* What the lists and warnings e say of an owner whose tenancy this is.
Settled(e, holder, term, sent) ==
    /\ e.term <= term
    /\ e.term = term => /\ e.warnings <= sent
                        /\ holder = NoOne => e.guests = {} /\ e.subowners = {} /\ e.warnings = 0

\* Who sleeps somewhere has both halves of one bed.
BedsPaired(beds) ==
    \A b \in HalfBed : beds[b] # NoOne =>
        /\ beds[NextBedItem[b]] = beds[b]
        /\ \A c \in HalfBed : beds[c] = beds[b] => c \in {b, NextBedItem[b]}

Settlement ==
    \A h \in House : /\ Settled(estate[h], estate[h].owner, tenancy[h], letters[h])
                     /\ Settled(saved.estate[h], estate[h].owner, tenancy[h], letters[h])

HouseInv == /\ TypeOKHouses /\ OnlyInvited /\ SleepersKnown
            /\ BedsPaired(saved.sleeper) /\ Settlement

\* It implies what is to be shown.
LEMMA HouseInvSuffices == HouseInv => HousesSound
<1> SUFFICES ASSUME HouseInv PROVE HousesSound
  OBVIOUS
<1>1. ASSUME NEW h \in House
      PROVE  \/ Inherited(estate, h)
             \/ /\ letters[h] >= estate[h].warnings
                /\ estate[h].owner = NoOne => estate[h].guests = {} /\ estate[h].subowners = {}
  <2>1. estate[h].warnings \in Nat /\ letters[h] \in Nat
    BY DEF HouseInv, TypeOKHouses, Estate
  <2> QED BY <2>1 DEF HouseInv, Settlement, Settled, Inherited
<1> QED BY <1>1 DEF HouseInv, HousesSound, ListsOfOwner

\* A world is what the handlers change step by step (Household).
HouseWorld(w) ==
    /\ w = [estate |-> w.estate, at |-> w.at, sleeper |-> w.sleeper, bedOf |-> w.bedOf]
    /\ w.estate \in [House -> Estate] /\ w.at \in [Person -> House \cup {Street}]
    /\ w.sleeper \in Sleepers
    /\ DOMAIN w.bedOf \subseteq Person /\ w.bedOf \in [DOMAIN w.bedOf -> HalfBed]

Named(e) == {e.owner} \cup e.subowners \cup e.guests

AtHome(w, on) == \A p \in on : w.at[p] # Street => p \in Named(w.estate[w.at[p]])

BedsKnown(w) ==
    /\ \A b \in HalfBed : w.sleeper[b] # NoOne =>
          /\ w.sleeper[NextBedItem[b]] = w.sleeper[b]
          /\ w.sleeper[b] \in DOMAIN w.bedOf /\ w.bedOf[w.sleeper[b]] \in {b, NextBedItem[b]}
    /\ \A p \in DOMAIN w.bedOf : w.sleeper[w.bedOf[p]] = p

SoundWorld(w, on) == HouseWorld(w) /\ BedsKnown(w) /\ AtHome(w, on)

\* The access levels tell those on the lists from the others.
LEMMA InvitedMeans ==
    ASSUME NEW w, NEW h, NEW p
    PROVE  IsInvited(w, h, p) <=> p \in Named(w.estate[h])
<1> DEFINE e == w.estate[h]
<1>1. CASE p = e.owner
  BY <1>1 DEF IsInvited, GetHouseAccessLevel, Named
<1>2. CASE p # e.owner /\ p \in e.subowners
  BY <1>2 DEF IsInvited, GetHouseAccessLevel, Named
<1>3. CASE p \in e.guests \ (e.subowners \cup {e.owner})
  BY <1>3 DEF IsInvited, GetHouseAccessLevel, Named
<1>4. CASE p \notin Named(e)
  BY <1>4 DEF IsInvited, GetHouseAccessLevel, Named
<1> QED BY <1>1, <1>2, <1>3, <1>4 DEF Named

\* The fields of a house's papers.
LEMMA OfEstate ==
    ASSUME NEW e \in Estate
    PROVE  /\ e.owner \in Person \cup {NoOne} /\ e.guests \subseteq Person
           /\ e.subowners \subseteq Person /\ e.warnings \in Nat /\ e.term \in Nat
           /\ \A p \in Person \cup {NoOne} :
                  LET f == [e EXCEPT !.owner = p]
                  IN  /\ f \in Estate /\ f.owner = p /\ f.guests = e.guests
                      /\ f.subowners = e.subowners /\ f.warnings = e.warnings /\ f.term = e.term
           /\ LET f == [e EXCEPT !.warnings = @ + 1]
              IN  /\ f \in Estate /\ f.owner = e.owner /\ f.guests = e.guests
                  /\ f.subowners = e.subowners /\ f.warnings = e.warnings + 1 /\ f.term = e.term
  BY DEF Estate

\* A house that nobody has had yet, or that has a new owner.
LEMMA OfUnowned ==
    ASSUME NEW n \in Nat, NEW p \in Person \cup {NoOne}
    PROVE  LET f == [Unowned(n) EXCEPT !.owner = p]
           IN  /\ f \in Estate /\ f.owner = p /\ f.guests = {} /\ f.subowners = {}
               /\ f.warnings = 0 /\ f.term = n
               /\ Unowned(n) \in Estate /\ Unowned(n).owner = NoOne /\ Unowned(n).guests = {}
               /\ Unowned(n).subowners = {} /\ Unowned(n).warnings = 0 /\ Unowned(n).term = n
  BY DEF Estate, Unowned

\* wakeUp
LEMMA WokenKeeps ==
    ASSUME NEW w, HouseWorld(w), BedsKnown(w), NEW b \in HalfBed, w.sleeper[b] # NoOne
    PROVE  LET v == WokenUp(w, b)
           IN  /\ HouseWorld(v) /\ BedsKnown(v) /\ v.estate = w.estate /\ v.at = w.at
               /\ DOMAIN v.bedOf = DOMAIN w.bedOf \ {w.sleeper[b]}
<1> DEFINE p == w.sleeper[b]
           S == [c \in HalfBed |-> IF c \in {b, NextBedItem[b]} THEN NoOne ELSE w.sleeper[c]]
           B == [q \in DOMAIN w.bedOf \ {p} |-> w.bedOf[q]]
           v == WokenUp(w, b)
<1>1. v = [estate |-> w.estate, at |-> w.at, sleeper |-> S, bedOf |-> B]
  <2> DEFINE E == w.estate  A == w.at  T == w.sleeper  O == w.bedOf
  <2>1. w = [estate |-> E, at |-> A, sleeper |-> T, bedOf |-> O]
    BY DEF HouseWorld
  <2>2. v = [w EXCEPT !.sleeper = S, !.bedOf = B]
    BY DEF WokenUp
  <2> HIDE DEF v, S, B, E, A, T, O
  <2>3. v = [estate |-> E, at |-> A, sleeper |-> S, bedOf |-> B]
    BY <2>1, <2>2
  <2> QED BY <2>3 DEF E, A
<1>2. v.estate = w.estate /\ v.at = w.at /\ v.sleeper = S /\ v.bedOf = B
  BY <1>1
<1>3. w.sleeper \in Sleepers /\ DOMAIN w.bedOf \subseteq Person
      /\ w.bedOf \in [DOMAIN w.bedOf -> HalfBed]
  BY DEF HouseWorld
<1>4. S \in Sleepers /\ DOMAIN B \subseteq Person /\ B \in [DOMAIN B -> HalfBed]
      /\ DOMAIN B = DOMAIN w.bedOf \ {p}
  BY <1>3 DEF Sleepers
<1>5. HouseWorld(v)
  <2> HIDE DEF v, S, B
  <2> QED BY <1>1, <1>2, <1>4 DEF HouseWorld
<1>6. \A c \in HalfBed : S[c] = IF c \in {b, NextBedItem[b]} THEN NoOne ELSE w.sleeper[c]
  OBVIOUS
<1>7. \A q \in DOMAIN w.bedOf \ {p} : B[q] = w.bedOf[q]
  OBVIOUS
<1>8. /\ NextBedItem[b] \in HalfBed /\ NextBedItem[NextBedItem[b]] = b
      /\ \A c \in HalfBed : NextBedItem[c] \in HalfBed /\ NextBedItem[NextBedItem[c]] = c
      /\ NoOne \notin Person
  BY HouseConstants
<1>9. w.sleeper[NextBedItem[b]] = p /\ w.bedOf[p] \in {b, NextBedItem[b]} /\ p \in DOMAIN w.bedOf
  BY DEF BedsKnown
<1> HIDE DEF S, B, p, v
<1>10. \A c \in HalfBed : w.sleeper[c] = p => c \in {b, NextBedItem[b]}
  <2> SUFFICES ASSUME NEW c \in HalfBed, w.sleeper[c] = p PROVE c \in {b, NextBedItem[b]}
    OBVIOUS
  <2>1. w.bedOf[p] \in {c, NextBedItem[c]}
    BY <1>9 DEF BedsKnown, p
  <2> QED BY <1>8, <1>9, <2>1
<1>11. ASSUME NEW c \in HalfBed, S[c] # NoOne
       PROVE  /\ S[NextBedItem[c]] = S[c]
              /\ S[c] \in DOMAIN B /\ B[S[c]] \in {c, NextBedItem[c]}
  <2>1. c \notin {b, NextBedItem[b]} /\ S[c] = w.sleeper[c]
    BY <1>6, <1>11
  <2>2. NextBedItem[c] \notin {b, NextBedItem[b]} /\ NextBedItem[c] \in HalfBed
    BY <1>8, <2>1
  <2>3. /\ w.sleeper[NextBedItem[c]] = w.sleeper[c] /\ w.sleeper[c] \in DOMAIN w.bedOf
        /\ w.bedOf[w.sleeper[c]] \in {c, NextBedItem[c]}
    BY <1>11, <2>1 DEF BedsKnown
  <2>4. w.sleeper[c] # p
    BY <1>10, <2>1
  <2> QED BY <1>4, <1>6, <1>7, <2>1, <2>2, <2>3, <2>4
<1>12. ASSUME NEW q \in DOMAIN B PROVE S[B[q]] = q
  <2>1. q \in DOMAIN w.bedOf \ {p} /\ B[q] = w.bedOf[q] /\ B[q] \in HalfBed
    BY <1>4, <1>7
  <2>2. w.sleeper[w.bedOf[q]] = q
    BY <2>1 DEF BedsKnown
  <2>3. B[q] \notin {b, NextBedItem[b]}
    BY <1>9, <2>1, <2>2 DEF p
  <2> QED BY <1>6, <2>1, <2>2, <2>3
<1>13. BedsKnown(v)
  BY <1>2, <1>11, <1>12 DEF BedsKnown
<1> QED BY <1>2, <1>4, <1>5, <1>13 DEF v, p

\* The beds of some houses are emptied.
LEMMA AllWokenKeeps ==
    ASSUME NEW w, HouseWorld(w), BedsKnown(w), NEW houses
    PROVE  LET v == AllWoken(w, houses)
           IN  /\ HouseWorld(v) /\ BedsKnown(v) /\ v.estate = w.estate /\ v.at = w.at
               /\ DOMAIN v.bedOf \subseteq DOMAIN w.bedOf
<1> DEFINE here == {b \in HalfBed : HouseOf[b] \in houses}
           asleep == {w.sleeper[b] : b \in here}
           S == [b \in HalfBed |-> IF b \in here THEN NoOne ELSE w.sleeper[b]]
           B == [q \in DOMAIN w.bedOf \ asleep |-> w.bedOf[q]]
           v == AllWoken(w, houses)
<1>1. v = [estate |-> w.estate, at |-> w.at, sleeper |-> S, bedOf |-> B]
  <2> DEFINE E == w.estate  A == w.at  T == w.sleeper  O == w.bedOf
  <2>1. w = [estate |-> E, at |-> A, sleeper |-> T, bedOf |-> O]
    BY DEF HouseWorld
  <2>2. v = [w EXCEPT !.sleeper = S, !.bedOf = B]
    BY DEF AllWoken
  <2> HIDE DEF v, S, B, E, A, T, O
  <2>3. v = [estate |-> E, at |-> A, sleeper |-> S, bedOf |-> B]
    BY <2>1, <2>2
  <2> QED BY <2>3 DEF E, A
<1>2. v.estate = w.estate /\ v.at = w.at /\ v.sleeper = S /\ v.bedOf = B
  BY <1>1
<1>3. w.sleeper \in Sleepers /\ DOMAIN w.bedOf \subseteq Person
      /\ w.bedOf \in [DOMAIN w.bedOf -> HalfBed]
  BY DEF HouseWorld
<1>4. S \in Sleepers /\ DOMAIN B \subseteq Person /\ B \in [DOMAIN B -> HalfBed]
      /\ DOMAIN B = DOMAIN w.bedOf \ asleep
  BY <1>3 DEF Sleepers
<1>5. HouseWorld(v)
  <2> HIDE DEF v, S, B
  <2> QED BY <1>1, <1>2, <1>3, <1>4 DEF HouseWorld
<1>6. \A c \in HalfBed : S[c] = IF c \in here THEN NoOne ELSE w.sleeper[c]
  OBVIOUS
<1>7. \A q \in DOMAIN w.bedOf \ asleep : B[q] = w.bedOf[q]
  OBVIOUS
<1>8. \A c \in HalfBed : /\ NextBedItem[c] \in HalfBed
                         /\ c \in here <=> NextBedItem[c] \in here
  BY HouseConstants
<1>9. \A c \in here : c \in HalfBed /\ w.sleeper[c] \in asleep
  OBVIOUS
<1>10. \A q \in asleep : \E c \in here : q = w.sleeper[c]
  OBVIOUS
<1> HIDE DEF S, B, v, here, asleep
<1>11. ASSUME NEW c \in HalfBed, S[c] # NoOne
       PROVE  /\ S[NextBedItem[c]] = S[c]
              /\ S[c] \in DOMAIN B /\ B[S[c]] \in {c, NextBedItem[c]}
  <2>1. c \notin here /\ NextBedItem[c] \notin here /\ NextBedItem[c] \in HalfBed
        /\ S[c] = w.sleeper[c] /\ w.sleeper[c] # NoOne
    BY <1>6, <1>8, <1>11
  <2>2. /\ w.sleeper[NextBedItem[c]] = w.sleeper[c] /\ w.sleeper[c] \in DOMAIN w.bedOf
        /\ w.bedOf[w.sleeper[c]] \in {c, NextBedItem[c]}
    BY <2>1 DEF BedsKnown
  <2>3. w.sleeper[c] \notin asleep
    <3> SUFFICES ASSUME w.sleeper[c] \in asleep PROVE FALSE
      OBVIOUS
    <3>1. PICK d \in here : w.sleeper[c] = w.sleeper[d]
      BY <1>10
    <3>2. d \in HalfBed /\ w.bedOf[w.sleeper[d]] \in {d, NextBedItem[d]}
      BY <1>9, <2>1, <3>1 DEF BedsKnown
    <3>3. NextBedItem[d] \in here
      BY <1>8, <3>2
    <3> QED BY <2>1, <2>2, <3>1, <3>2, <3>3
  <2> QED BY <1>4, <1>6, <1>7, <2>1, <2>2, <2>3
<1>12. ASSUME NEW q \in DOMAIN B PROVE S[B[q]] = q
  <2>1. q \in DOMAIN w.bedOf \ asleep /\ B[q] = w.bedOf[q] /\ B[q] \in HalfBed
    BY <1>4, <1>7
  <2>2. w.sleeper[w.bedOf[q]] = q
    BY <2>1 DEF BedsKnown
  <2>3. B[q] \notin here
    BY <1>9, <2>1, <2>2
  <2> QED BY <1>6, <2>1, <2>2, <2>3
<1>13. BedsKnown(v)
  BY <1>2, <1>11, <1>12 DEF BedsKnown
<1> QED BY <1>2, <1>4, <1>5, <1>13 DEF v

\* A house gets new papers, and some people are put before the door.
Registered(w, h, e, who) ==
    [w EXCEPT !.estate = [w.estate EXCEPT ![h] = e],
              !.at = [p \in Person |-> IF p \in who /\ w.at[p] = h THEN Street ELSE w.at[p]]]

LEMMA RegisteredKeeps ==
    ASSUME NEW w, HouseWorld(w), NEW h \in House, NEW e \in Estate, NEW who
    PROVE  LET v == Registered(w, h, e, who)
           IN  /\ HouseWorld(v) /\ v.sleeper = w.sleeper /\ v.bedOf = w.bedOf
               /\ BedsKnown(v) <=> BedsKnown(w)
               /\ \A g \in House : v.estate[g] = IF g = h THEN e ELSE w.estate[g]
               /\ \A p \in Person : v.at[p] = IF p \in who /\ w.at[p] = h THEN Street ELSE w.at[p]
<1> DEFINE E == [w.estate EXCEPT ![h] = e]
           A == [p \in Person |-> IF p \in who /\ w.at[p] = h THEN Street ELSE w.at[p]]
           v == Registered(w, h, e, who)
<1>1. v = [estate |-> E, at |-> A, sleeper |-> w.sleeper, bedOf |-> w.bedOf]
  <2> DEFINE D == w.estate  T == w.at  S == w.sleeper  B == w.bedOf
  <2>1. w = [estate |-> D, at |-> T, sleeper |-> S, bedOf |-> B]
    BY DEF HouseWorld
  <2>2. v = [w EXCEPT !.estate = E, !.at = A]
    BY DEF Registered
  <2> HIDE DEF v, E, A, D, T, S, B
  <2>3. v = [estate |-> E, at |-> A, sleeper |-> S, bedOf |-> B]
    BY <2>1, <2>2
  <2> QED BY <2>3 DEF S, B
<1>2. v.estate = E /\ v.at = A /\ v.sleeper = w.sleeper /\ v.bedOf = w.bedOf
  BY <1>1
<1>3. w.estate \in [House -> Estate] /\ w.at \in [Person -> House \cup {Street}]
  BY DEF HouseWorld
<1>4. E \in [House -> Estate] /\ A \in [Person -> House \cup {Street}]
  BY <1>3
<1>5. \A g \in House : E[g] = IF g = h THEN e ELSE w.estate[g]
  BY <1>3
<1>6. \A p \in Person : A[p] = IF p \in who /\ w.at[p] = h THEN Street ELSE w.at[p]
  OBVIOUS
<1> HIDE DEF E, A, v
<1>7. HouseWorld(v)
  BY <1>1, <1>2, <1>4 DEF HouseWorld
<1>8. BedsKnown(v) <=> BedsKnown(w)
  BY <1>2 DEF BedsKnown
<1> QED BY <1>2, <1>5, <1>6, <1>7, <1>8 DEF v

\* An assignment to the papers of a house, and a kick, are that.
LEMMA AsRegistered ==
    ASSUME NEW w, HouseWorld(w), NEW h \in House, NEW e
    PROVE  [w EXCEPT !.estate[h] = e] = Registered(w, h, e, {})
<1> DEFINE D == w.estate  T == w.at  S == w.sleeper  B == w.bedOf
<1>1. w = [estate |-> D, at |-> T, sleeper |-> S, bedOf |-> B]
  BY DEF HouseWorld
<1>2. D \in [House -> Estate] /\ T \in [Person -> House \cup {Street}]
  BY DEF HouseWorld
<1>3. [w EXCEPT !.estate[h] = e] = [w EXCEPT !.estate = [D EXCEPT ![h] = e]]
  OBVIOUS
<1>4. [p \in Person |-> IF p \in {} /\ w.at[p] = h THEN Street ELSE w.at[p]] = T
  BY <1>2
<1>5. Registered(w, h, e, {}) = [w EXCEPT !.estate = [D EXCEPT ![h] = e], !.at = T]
  BY <1>4 DEF Registered
<1> HIDE DEF D, T, S, B
<1> QED BY <1>1, <1>3, <1>5

\* ... which moves nobody's papers.
LEMMA AsKicked ==
    ASSUME NEW w, HouseWorld(w), NEW h \in House, NEW who
    PROVE  Kicked(w, h, who) = Registered(w, h, w.estate[h], who \cap inWorld)
<1> DEFINE D == w.estate  T == w.at  S == w.sleeper  B == w.bedOf
           A == [p \in Person |-> IF p \in who \cap inWorld /\ w.at[p] = h THEN Street ELSE w.at[p]]
<1>1. w = [estate |-> D, at |-> T, sleeper |-> S, bedOf |-> B]
  BY DEF HouseWorld
<1>2. D \in [House -> Estate]
  BY DEF HouseWorld
<1>3. Kicked(w, h, who) = [w EXCEPT !.at = A]
  BY DEF Kicked
<1>4. [D EXCEPT ![h] = D[h]] = D
  BY <1>2
<1>5. Registered(w, h, w.estate[h], who \cap inWorld) = [w EXCEPT !.estate = D, !.at = A]
  BY <1>4 DEF Registered
<1> HIDE DEF A, D, T, S, B
<1> QED BY <1>1, <1>3, <1>5

\* Somebody is somewhere else.
LEMMA MovedKeeps ==
    ASSUME NEW w, HouseWorld(w), NEW a \in [Person -> House \cup {Street}]
    PROVE  LET v == [w EXCEPT !.at = a]
           IN  /\ HouseWorld(v) /\ BedsKnown(v) <=> BedsKnown(w)
               /\ v.estate = w.estate /\ v.at = a /\ v.sleeper = w.sleeper /\ v.bedOf = w.bedOf
<1> DEFINE D == w.estate  T == w.at  S == w.sleeper  B == w.bedOf
           v == [w EXCEPT !.at = a]
<1>1. w = [estate |-> D, at |-> T, sleeper |-> S, bedOf |-> B]
  BY DEF HouseWorld
<1>2. /\ D \in [House -> Estate] /\ S \in Sleepers /\ DOMAIN B \subseteq Person
      /\ B \in [DOMAIN B -> HalfBed]
  BY DEF HouseWorld
<1>3. BedsKnown(w) <=> BedsKnown([estate |-> D, at |-> a, sleeper |-> S, bedOf |-> B])
  BY DEF BedsKnown
<1> HIDE DEF D, T, S, B
<1>4. v = [estate |-> D, at |-> a, sleeper |-> S, bedOf |-> B]
  BY <1>1
<1> HIDE DEF v
<1>5. v.estate = D /\ v.at = a /\ v.sleeper = S /\ v.bedOf = B
  BY <1>4
<1>6. HouseWorld(v)
  BY <1>2, <1>4, <1>5 DEF HouseWorld
<1> QED BY <1>3, <1>4, <1>5, <1>6 DEF v, D, S, B

\* setOwner: where there was an owner all are put before the door and woken, and the
\* lists and warnings begin anew.
LEMMA SetOwnerKeeps ==
    ASSUME TypeOKHouses, NEW w, SoundWorld(w, inWorld), NEW h \in House, NEW p \in Person \cup {NoOne}
    PROVE  LET v == SetOwner(w, h, p)
           IN  /\ SoundWorld(v, inWorld) /\ DOMAIN v.bedOf \subseteq DOMAIN w.bedOf
               /\ \A g \in House :
                      v.estate[g] = IF g # h THEN w.estate[g]
                                    ELSE IF w.estate[h].owner \in {NoOne, p}
                                    THEN [w.estate[h] EXCEPT !.owner = p]
                                    ELSE [Unowned(tenancy[h] + 1) EXCEPT !.owner = p]
<1> DEFINE v == SetOwner(w, h, p)
           e == w.estate[h]
<1>0. /\ HouseWorld(w) /\ BedsKnown(w) /\ AtHome(w, inWorld) /\ e \in Estate
      /\ w.at \in [Person -> House \cup {Street}]
      /\ inWorld \subseteq Person /\ tenancy[h] + 1 \in Nat /\ NoOne \notin Person
  BY HouseConstants DEF SoundWorld, HouseWorld, TypeOKHouses
<1>1. CASE e.owner \in {NoOne, p}
  <2> DEFINE f == [e EXCEPT !.owner = p]
  <2>1. /\ f \in Estate /\ f.owner = p /\ f.guests = e.guests /\ f.subowners = e.subowners
    BY <1>0 DEF Estate
  <2>2. v = Registered(w, h, f, {})
    <3>1. v = [w EXCEPT !.estate[h] = f]
      BY <1>1 DEF SetOwner
    <3> QED BY <1>0, <3>1, AsRegistered
  <2> HIDE DEF f, v
  <2>3. /\ HouseWorld(v) /\ BedsKnown(v) /\ v.bedOf = w.bedOf
        /\ \A g \in House : v.estate[g] = IF g = h THEN f ELSE w.estate[g]
        /\ \A q \in Person : v.at[q] = w.at[q]
    BY <1>0, <2>1, <2>2, RegisteredKeeps
  <2>4. AtHome(v, inWorld)
    <3> SUFFICES ASSUME NEW q \in inWorld, v.at[q] # Street PROVE q \in Named(v.estate[v.at[q]])
      BY DEF AtHome
    <3>1. q \in Person /\ v.at[q] = w.at[q] /\ w.at[q] \in House /\ q \in Named(w.estate[w.at[q]])
      BY <1>0, <2>3 DEF AtHome
    <3>2. q \in Named(e) => q \in Named(f)
      BY <1>0, <1>1, <2>1, <3>1 DEF Named
    <3> QED BY <2>3, <3>1, <3>2
  <2> QED BY <1>1, <2>3, <2>4 DEF SoundWorld, f, v
<1>2. CASE e.owner \notin {NoOne, p}
  <2> DEFINE f == [Unowned(tenancy[h] + 1) EXCEPT !.owner = p]
             k == Kicked(w, h, Person)
             u == AllWoken(k, {h})
  <2>1. f \in Estate
    BY <1>0, OfUnowned
  <2>2. v = [u EXCEPT !.estate[h] = f]
    BY <1>2 DEF SetOwner
  <2> HIDE DEF f, k, u, v
  <2>3. /\ HouseWorld(k) /\ BedsKnown(k) /\ k.bedOf = w.bedOf
        /\ \A g \in House : k.estate[g] = w.estate[g]
        /\ \A q \in Person : k.at[q] = IF q \in inWorld /\ w.at[q] = h THEN Street ELSE w.at[q]
    <3>1. k = Registered(w, h, e, Person \cap inWorld)
      BY <1>0, AsKicked DEF k
    <3>2. /\ HouseWorld(k) /\ BedsKnown(k) /\ k.bedOf = w.bedOf
          /\ \A g \in House : k.estate[g] = IF g = h THEN e ELSE w.estate[g]
          /\ \A q \in Person : k.at[q] = IF q \in Person \cap inWorld /\ w.at[q] = h
                                         THEN Street ELSE w.at[q]
      BY <1>0, <3>1, RegisteredKeeps
    <3> QED BY <3>2
  <2>4. HouseWorld(u) /\ BedsKnown(u) /\ u.estate = k.estate /\ u.at = k.at
        /\ DOMAIN u.bedOf \subseteq DOMAIN k.bedOf
    BY <2>3, AllWokenKeeps DEF u
  <2>5. /\ HouseWorld(v) /\ BedsKnown(v) /\ v.bedOf = u.bedOf
        /\ \A g \in House : v.estate[g] = IF g = h THEN f ELSE u.estate[g]
        /\ \A q \in Person : v.at[q] = u.at[q]
    <3>1. v = Registered(u, h, f, {})
      BY <2>2, <2>4, AsRegistered
    <3> QED BY <2>1, <2>4, <3>1, RegisteredKeeps
  <2>6. AtHome(v, inWorld)
    <3> SUFFICES ASSUME NEW q \in inWorld, v.at[q] # Street PROVE q \in Named(v.estate[v.at[q]])
      BY DEF AtHome
    <3>1. q \in Person /\ v.at[q] = w.at[q] /\ w.at[q] \in House /\ w.at[q] # h
      BY <1>0, <2>3, <2>4, <2>5
    <3>2. q \in Named(w.estate[w.at[q]])
      BY <3>1 DEF AtHome, SoundWorld
    <3> QED BY <2>3, <2>4, <2>5, <3>1, <3>2
  <2> QED BY <1>2, <2>3, <2>4, <2>5, <2>6 DEF SoundWorld, f, v
<1> QED BY <1>1, <1>2

\* setAccessList: those who are not on the lists any more are put before the door.
LEMMA SetAccessKeeps ==
    ASSUME TypeOKHouses, NEW w, SoundWorld(w, inWorld), NEW h \in House,
           NEW list \in {"guests", "subowners"}, NEW text \in SUBSET Person
    PROVE  LET v == SetAccessList(w, h, list, text)
               e == w.estate[h]
           IN  /\ SoundWorld(v, inWorld) /\ v.bedOf = w.bedOf
               /\ \A g \in House : /\ v.estate[g].owner = w.estate[g].owner
                                   /\ v.estate[g].warnings = w.estate[g].warnings
                                   /\ v.estate[g].term = w.estate[g].term
                                   /\ g # h => v.estate[g] = w.estate[g]
<1> DEFINE e == w.estate[h]
           f == [e EXCEPT ![list] = text]
           u == [w EXCEPT !.estate[h][list] = text]
           strangers == {q \in Person : ~IsInvited(u, h, q)}
           v == SetAccessList(w, h, list, text)
<1>0. /\ HouseWorld(w) /\ BedsKnown(w) /\ AtHome(w, inWorld) /\ e \in Estate
      /\ w.at \in [Person -> House \cup {Street}] /\ w.estate \in [House -> Estate]
      /\ inWorld \subseteq Person
  BY DEF SoundWorld, HouseWorld, TypeOKHouses
<1>1. f \in Estate /\ f.owner = e.owner /\ f.warnings = e.warnings /\ f.term = e.term
  <2>1. CASE list = "guests"
    BY <1>0, <2>1 DEF Estate
  <2>2. CASE list = "subowners"
    BY <1>0, <2>2 DEF Estate
  <2> QED BY <2>1, <2>2
<1>2. v = Kicked(u, h, strangers)
  BY DEF SetAccessList
<1>3. u = [w EXCEPT !.estate[h] = f]
  OBVIOUS
<1> HIDE DEF f, u, strangers, v
<1>4. /\ HouseWorld(u) /\ BedsKnown(u) /\ u.bedOf = w.bedOf
      /\ \A g \in House : u.estate[g] = IF g = h THEN f ELSE w.estate[g]
      /\ \A q \in Person : u.at[q] = w.at[q]
  <2>1. u = Registered(w, h, f, {})
    BY <1>0, <1>3, AsRegistered
  <2> QED BY <1>0, <1>1, <2>1, RegisteredKeeps
<1>5. /\ HouseWorld(v) /\ BedsKnown(v) /\ v.bedOf = u.bedOf
      /\ \A g \in House : v.estate[g] = u.estate[g]
      /\ \A q \in Person : v.at[q] = IF q \in strangers \cap inWorld /\ u.at[q] = h THEN Street ELSE u.at[q]
  <2>1. v = Registered(u, h, u.estate[h], strangers \cap inWorld)
    BY <1>2, <1>4, AsKicked
  <2>2. u.estate[h] \in Estate
    BY <1>1, <1>4
  <2>3. /\ HouseWorld(v) /\ BedsKnown(v) /\ v.bedOf = u.bedOf
        /\ \A g \in House : v.estate[g] = IF g = h THEN u.estate[h] ELSE u.estate[g]
        /\ \A q \in Person : v.at[q] = IF q \in strangers \cap inWorld /\ u.at[q] = h THEN Street ELSE u.at[q]
    BY <1>4, <2>1, <2>2, RegisteredKeeps
  <2> QED BY <2>3
<1>6. AtHome(v, inWorld)
  <2> SUFFICES ASSUME NEW q \in inWorld, v.at[q] # Street PROVE q \in Named(v.estate[v.at[q]])
    BY DEF AtHome
  <2>1. q \in Person /\ v.at[q] = w.at[q] /\ w.at[q] \in House /\ q \in Named(w.estate[w.at[q]])
    BY <1>0, <1>4, <1>5 DEF AtHome
  <2>2. CASE w.at[q] = h
    <3>1. q \notin strangers
      BY <1>4, <1>5, <2>1, <2>2
    <3>2. q \in Named(u.estate[h])
      BY <2>1, <3>1, InvitedMeans DEF strangers
    <3> QED BY <1>5, <2>1, <2>2, <3>2
  <2>3. CASE w.at[q] # h
    BY <1>4, <1>5, <2>1, <2>3
  <2> QED BY <2>2, <2>3
<1> QED BY <1>1, <1>4, <1>5, <1>6 DEF SoundWorld, v

\* payHouses
LEMMA CollectedKeeps ==
    ASSUME TypeOKHouses, NEW w, HouseWorld(w), BedsKnown(w), NEW owed, NEW forfeited
    PROVE  LET v == Collected(w, owed, forfeited)
           IN  /\ HouseWorld(v) /\ BedsKnown(v)
               /\ \A h \in House :
                      v.estate[h] = IF h \in forfeited THEN Unowned(tenancy[h] + 1)
                                    ELSE IF h \in owed THEN [w.estate[h] EXCEPT !.warnings = @ + 1]
                                    ELSE w.estate[h]
<1> DEFINE u == AllWoken(w, forfeited)
           E == [h \in House |->
                    IF h \in forfeited THEN Unowned(tenancy[h] + 1)
                    ELSE IF h \in owed THEN [w.estate[h] EXCEPT !.warnings = @ + 1] ELSE w.estate[h]]
           v == Collected(w, owed, forfeited)
<1>1. HouseWorld(u) /\ BedsKnown(u)
  BY AllWokenKeeps
<1>2. v = [u EXCEPT !.estate = E]
  BY DEF Collected
<1>3. E \in [House -> Estate]
  <2>1. ASSUME NEW h \in House
        PROVE  /\ Unowned(tenancy[h] + 1) \in Estate
               /\ [w.estate[h] EXCEPT !.warnings = @ + 1] \in Estate /\ w.estate[h] \in Estate
    <3>1. tenancy[h] + 1 \in Nat /\ w.estate[h] \in Estate /\ NoOne \in Person \cup {NoOne}
      BY DEF TypeOKHouses, HouseWorld
    <3> QED BY <3>1, OfEstate, OfUnowned
  <2> QED BY <2>1
<1>4. \A h \in House : E[h] = IF h \in forfeited THEN Unowned(tenancy[h] + 1)
                              ELSE IF h \in owed THEN [w.estate[h] EXCEPT !.warnings = @ + 1]
                              ELSE w.estate[h]
  OBVIOUS
<1> DEFINE T == u.at  S == u.sleeper  B == u.bedOf
<1>5. /\ u = [estate |-> u.estate, at |-> T, sleeper |-> S, bedOf |-> B]
      /\ T \in [Person -> House \cup {Street}] /\ S \in Sleepers
      /\ DOMAIN B \subseteq Person /\ B \in [DOMAIN B -> HalfBed]
  BY <1>1 DEF HouseWorld
<1>6. BedsKnown([estate |-> E, at |-> T, sleeper |-> S, bedOf |-> B])
  BY <1>1 DEF BedsKnown
<1> HIDE DEF E, u, v, T, S, B
<1>7. v = [estate |-> E, at |-> T, sleeper |-> S, bedOf |-> B]
  BY <1>2, <1>5
<1>8. HouseWorld(v) /\ v.estate = E
  BY <1>3, <1>5, <1>7 DEF HouseWorld
<1> QED BY <1>4, <1>6, <1>7, <1>8 DEF v

-----------------------------------------------------------------------------
\* What is left of the types when the world is set apart.
TypeOKOthers ==
    /\ inWorld \subseteq Person /\ kicks \subseteq Person
    /\ sale \in [House -> [seller : Person, buyer : Person] \cup {NoSale}]
    /\ saved \in [estate : [House -> Estate], sleeper : Sleepers]
    /\ tenancy \in [House -> Nat] /\ letters \in [House -> Nat] /\ restarts \in Nat

\* What the invariant says of the world and of the rest.
LEMMA OfHouseInv ==
    ASSUME HouseInv
    PROVE  /\ SoundWorld(Household, inWorld) /\ TypeOKOthers /\ TypeOKHouses
           /\ Household.estate = estate /\ Household.at = at
           /\ Household.sleeper = sleeper /\ Household.bedOf = bedOf
           /\ SetHousehold(Household) <=> UNCHANGED <<estate, at, sleeper, bedOf>>
           /\ \A p \in DOMAIN bedOf : p \in inWorld => p \in kicks
           /\ BedsPaired(saved.sleeper) /\ Settlement
<1>1. /\ Household.estate = estate /\ Household.at = at
      /\ Household.sleeper = sleeper /\ Household.bedOf = bedOf
  BY DEF Household
<1>2. TypeOKOthers /\ TypeOKHouses /\ HouseWorld(Household)
  BY DEF HouseInv, TypeOKHouses, TypeOKOthers, HouseWorld, Household
<1>3. BedsKnown(Household) /\ \A p \in DOMAIN bedOf : p \in inWorld => p \in kicks
  BY <1>1 DEF HouseInv, SleepersKnown, BedsKnown
<1>4. AtHome(Household, inWorld)
  <2> SUFFICES ASSUME NEW p \in inWorld, at[p] # Street PROVE p \in Named(estate[at[p]])
    BY <1>1 DEF AtHome
  <2>1. IsInvited(Household, at[p], p)
    BY DEF HouseInv, OnlyInvited
  <2> QED BY <1>1, <2>1, InvitedMeans
<1>5. SetHousehold(Household) <=> UNCHANGED <<estate, at, sleeper, bedOf>>
  BY <1>1 DEF SetHousehold
<1> QED BY <1>1, <1>2, <1>3, <1>4, <1>5 DEF SoundWorld, HouseInv

\* A step is shown to keep the invariant when the world after it is sound.
LEMMA HouseAfter ==
    ASSUME NEW w, SoundWorld(w, inWorld'), SetHousehold(w), TypeOKOthers',
           \A p \in DOMAIN w.bedOf : p \in inWorld' => p \in kicks',
           BedsPaired(saved'.sleeper), Settlement'
    PROVE  HouseInv'
<1>1. estate' = w.estate /\ at' = w.at /\ sleeper' = w.sleeper /\ bedOf' = w.bedOf
  BY DEF SetHousehold
<1>2. TypeOKHouses'
  BY <1>1 DEF TypeOKHouses, TypeOKOthers, SoundWorld, HouseWorld
<1>3. SleepersKnown'
  BY <1>1 DEF SleepersKnown, SoundWorld, BedsKnown
<1>4. OnlyInvited'
  <2>1. Household' = w
    BY <1>1 DEF Household, SoundWorld, HouseWorld
  <2>2. ASSUME NEW p \in inWorld', at'[p] # Street PROVE IsInvited(w, at'[p], p)
    <3>1. p \in Named(w.estate[at'[p]])
      BY <1>1, <2>2 DEF SoundWorld, AtHome
    <3> QED BY <3>1, InvitedMeans
  <2>3. \A p \in inWorld' : at'[p] # Street => IsInvited(Household', at'[p], p)
    BY <2>1, <2>2
  <2> QED BY <2>3 DEF OnlyInvited, IsInvited, GetHouseAccessLevel
<1> QED BY <1>2, <1>3, <1>4 DEF HouseInv

\* What a house says of its owner is not changed by steps of others.
LEMMA SameSettlement ==
    ASSUME Settlement, UNCHANGED <<saved, tenancy, letters>>,
           \A h \in House : /\ estate'[h].owner = estate[h].owner
                            /\ estate'[h].warnings = estate[h].warnings
                            /\ estate'[h].term = estate[h].term
                            /\ \/ estate'[h] = estate[h]
                               \/ estate[h].owner # NoOne
                               \/ estate[h].term # tenancy[h]
    PROVE  Settlement'
<1> SUFFICES ASSUME NEW h \in House
             PROVE  /\ Settled(estate'[h], estate'[h].owner, tenancy[h], letters[h])
                    /\ Settled(saved.estate[h], estate'[h].owner, tenancy[h], letters[h])
  BY DEF Settlement, Settled
<1>1. /\ Settled(estate[h], estate[h].owner, tenancy[h], letters[h])
      /\ Settled(saved.estate[h], estate[h].owner, tenancy[h], letters[h])
  BY DEF Settlement
<1> QED BY <1>1 DEF Settled

\* Steps in which nothing happens but that people go somewhere or leave, or deal.
LEMMA QuietStep ==
    ASSUME HouseInv, UNCHANGED <<estate, sleeper, bedOf, saved, tenancy, letters, restarts>>,
           at' \in [Person -> House \cup {Street}],
           inWorld' \subseteq inWorld, kicks' \subseteq Person,
           sale' \in [House -> [seller : Person, buyer : Person] \cup {NoSale}],
           \A p \in inWorld' : /\ p \in kicks => p \in kicks'
                               /\ \/ at'[p] = at[p] \/ at'[p] = Street
                                  \/ IsInvited(Household, at'[p], p)
    PROVE  HouseInv'
<1> DEFINE w == [Household EXCEPT !.at = at']
<1>0. /\ SoundWorld(Household, inWorld) /\ TypeOKOthers /\ Settlement /\ BedsPaired(saved.sleeper)
      /\ \A p \in DOMAIN bedOf : p \in inWorld => p \in kicks
      /\ Household.estate = estate /\ Household.at = at
      /\ Household.sleeper = sleeper /\ Household.bedOf = bedOf
  BY OfHouseInv
<1>1. /\ HouseWorld(w) /\ BedsKnown(w) /\ w.estate = estate /\ w.at = at'
      /\ w.sleeper = sleeper /\ w.bedOf = bedOf
  BY <1>0, MovedKeeps DEF SoundWorld
<1> HIDE DEF w
<1>2. AtHome(w, inWorld')
  <2> SUFFICES ASSUME NEW p \in inWorld', at'[p] # Street PROVE p \in Named(estate[at'[p]])
    BY <1>1 DEF AtHome
  <2>1. CASE at'[p] = at[p]
    BY <1>0, <2>1 DEF SoundWorld, AtHome
  <2>2. CASE IsInvited(Household, at'[p], p)
    BY <1>0, <2>2, InvitedMeans
  <2> QED BY <2>1, <2>2
<1>3. TypeOKOthers'
  BY <1>0 DEF TypeOKOthers
<1>4. Settlement'
  BY <1>0, SameSettlement
<1>5. SetHousehold(w) /\ SoundWorld(w, inWorld')
  BY <1>1, <1>2 DEF SetHousehold, SoundWorld
<1>6. \A p \in DOMAIN w.bedOf : p \in inWorld' => p \in kicks'
  BY <1>0, <1>1
<1> QED BY <1>0, <1>3, <1>4, <1>5, <1>6, HouseAfter

\* Sales that end.
LEMMA SalesKeepType ==
    ASSUME TypeOKOthers, NEW moved, NEW near
    PROVE  SalesAfter(moved, near) \in [House -> [seller : Person, buyer : Person] \cup {NoSale}]
  BY DEF TypeOKOthers, SalesAfter

\* HouseTile::queryAdd
LEMMA EnterKeeps ==
    ASSUME HouseInv, NEW p \in Person, NEW h \in House, Enter(p, h)
    PROVE  HouseInv'
<1>1. TypeOKOthers /\ at \in [Person -> House \cup {Street}]
  BY OfHouseInv DEF TypeOKHouses
<1>2. sale' \in [House -> [seller : Person, buyer : Person] \cup {NoSale}]
  BY <1>1, SalesKeepType DEF Enter, SalesMayEnd
<1>3. \A q \in inWorld' : \/ at'[q] = at[q] \/ IsInvited(Household, at'[q], q)
  <2> SUFFICES ASSUME NEW q \in inWorld' PROVE at'[q] = at[q] \/ IsInvited(Household, at'[q], q)
    OBVIOUS
  <2>1. q \in Person /\ IsInvited(Household, h, p) /\ at' = [at EXCEPT ![p] = h]
    BY <1>1 DEF Enter, TypeOKOthers
  <2>2. at'[q] = IF q = p THEN h ELSE at[q]
    BY <1>1, <2>1
  <2> QED BY <2>1, <2>2
<1> QED BY <1>1, <1>2, <1>3, QuietStep DEF Enter, TypeOKOthers

\* A step out of a house.
LEMMA StepOutKeeps ==
    ASSUME HouseInv, NEW p \in Person, StepOut(p)
    PROVE  HouseInv'
<1>1. TypeOKOthers /\ at \in [Person -> House \cup {Street}]
  BY OfHouseInv DEF TypeOKHouses
<1>2. sale' \in [House -> [seller : Person, buyer : Person] \cup {NoSale}]
  BY <1>1, SalesKeepType DEF StepOut, SalesMayEnd
<1> QED BY <1>1, <1>2, QuietStep DEF StepOut, TypeOKOthers

\* A logout or kick.
LEMMA LeavesKeeps ==
    ASSUME HouseInv, NEW p \in Person, Leaves(p)
    PROVE  HouseInv'
<1>1. TypeOKOthers /\ at \in [Person -> House \cup {Street}]
  BY OfHouseInv DEF TypeOKHouses
<1>2. sale' \in [House -> [seller : Person, buyer : Person] \cup {NoSale}]
  BY <1>1 DEF Leaves, TypeOKOthers
<1> QED BY <1>1, <1>2, QuietStep DEF Leaves, TypeOKOthers

\* A sale that begins or is closed.
LEMMA DealKeeps ==
    ASSUME HouseInv,
           \/ \E p, q \in Person, h \in House : StartTrade(p, q, h)
           \/ \E h \in House : ResetTransferItem(h)
    PROVE  HouseInv'
<1>1. TypeOKOthers /\ at \in [Person -> House \cup {Street}]
  BY OfHouseInv DEF TypeOKHouses
<1>2. /\ UNCHANGED <<estate, at, inWorld, sleeper, bedOf, kicks, saved, tenancy, letters, restarts>>
      /\ sale' \in [House -> [seller : Person, buyer : Person] \cup {NoSale}]
  BY <1>1 DEF StartTrade, ResetTransferItem, TypeOKOthers
<1> QED BY <1>1, <1>2, QuietStep DEF TypeOKOthers

\* Nothing at all.
LEMMA StutterKeeps == HouseInv /\ UNCHANGED houseVars => HouseInv'
<1> SUFFICES ASSUME HouseInv, UNCHANGED houseVars PROVE HouseInv'
  OBVIOUS
<1>1. TypeOKOthers /\ at \in [Person -> House \cup {Street}]
  BY OfHouseInv DEF TypeOKHouses
<1> QED BY <1>1, QuietStep DEF houseVars, TypeOKOthers

-----------------------------------------------------------------------------
\* A login: the sleeper wakes, and who is not invited is sent to the entry.
LEMMA LogInKeeps ==
    ASSUME HouseInv, NEW p \in Person, LogIn(p)
    PROVE  HouseInv' /\ UNCHANGED estate
<1> DEFINE h == at[p]
           w == IF p \in DOMAIN bedOf THEN WokenUp(Household, bedOf[p]) ELSE Household
           spot == IF h # Street /\ ~IsInvited(w, h, p) THEN Street ELSE h
           a == [at EXCEPT ![p] = spot]
           v == [w EXCEPT !.at = a]
<1>0. /\ SoundWorld(Household, inWorld) /\ TypeOKOthers /\ Settlement /\ BedsPaired(saved.sleeper)
      /\ at \in [Person -> House \cup {Street}] /\ bedOf \in [DOMAIN bedOf -> HalfBed]
      /\ \A q \in DOMAIN bedOf : q \in inWorld => q \in kicks
      /\ Household.estate = estate /\ Household.at = at
      /\ Household.sleeper = sleeper /\ Household.bedOf = bedOf
  BY OfHouseInv DEF TypeOKHouses
<1>1. /\ HouseWorld(w) /\ BedsKnown(w) /\ w.estate = estate /\ w.at = at
      /\ DOMAIN w.bedOf = DOMAIN bedOf \ {p}
  <2>1. CASE p \in DOMAIN bedOf
    <3>1. bedOf[p] \in HalfBed /\ sleeper[bedOf[p]] = p /\ NoOne \notin Person
      BY <1>0, <2>1, HouseConstants DEF SoundWorld, BedsKnown
    <3>2. w = WokenUp(Household, bedOf[p]) /\ Household.sleeper[bedOf[p]] # NoOne
      BY <1>0, <2>1, <3>1
    <3> HIDE DEF w
    <3>3. /\ HouseWorld(w) /\ BedsKnown(w) /\ w.estate = Household.estate /\ w.at = Household.at
          /\ DOMAIN w.bedOf = DOMAIN Household.bedOf \ {Household.sleeper[bedOf[p]]}
      BY <1>0, <3>1, <3>2, WokenKeeps DEF SoundWorld
    <3> QED BY <1>0, <3>1, <3>3
  <2>2. CASE p \notin DOMAIN bedOf
    BY <1>0, <2>2 DEF SoundWorld
  <2> QED BY <2>1, <2>2
<1> HIDE DEF w
<1>2. SetHousehold(v) /\ inWorld' = inWorld \cup {p}
      /\ UNCHANGED <<sale, kicks, saved, tenancy, letters, restarts>>
  <2>1. SetHousehold([w EXCEPT !.at[p] = spot])
    BY DEF LogIn, w
  <2>2. [w EXCEPT !.at[p] = spot] = v
    BY <1>1
  <2> QED BY <2>1, <2>2 DEF LogIn
<1>3. spot \in House \cup {Street} /\ (spot # Street => spot = h /\ p \in Named(estate[h]))
  BY <1>0, <1>1, InvitedMeans
<1>4. a \in [Person -> House \cup {Street}] /\ \A q \in Person : a[q] = IF q = p THEN spot ELSE at[q]
  BY <1>0, <1>3
<1> HIDE DEF spot, a
<1>5. HouseWorld(v) /\ BedsKnown(v) /\ v.estate = estate /\ v.at = a /\ v.bedOf = w.bedOf
  BY <1>1, <1>4, MovedKeeps
<1> HIDE DEF v
<1>6. AtHome(v, inWorld')
  <2> SUFFICES ASSUME NEW q \in inWorld', a[q] # Street PROVE q \in Named(estate[a[q]])
    BY <1>5 DEF AtHome
  <2>1. CASE q = p
    BY <1>3, <1>4, <2>1 DEF h
  <2>2. CASE q # p
    BY <1>0, <1>2, <1>4, <2>2 DEF SoundWorld, AtHome, TypeOKOthers
  <2> QED BY <2>1, <2>2
<1>7. TypeOKOthers'
  BY <1>0, <1>2 DEF TypeOKOthers
<1>8. UNCHANGED estate
  BY <1>2, <1>5 DEF SetHousehold
<1>9. Settlement'
  BY <1>0, <1>2, <1>8, SameSettlement
<1>10. \A q \in DOMAIN v.bedOf : q \in inWorld' => q \in kicks'
  BY <1>0, <1>1, <1>2, <1>5
<1> QED BY <1>0, <1>2, <1>5, <1>6, <1>7, <1>8, <1>9, <1>10, HouseAfter DEF SoundWorld

\* The counters of tenancies and letters, of one house.
LEMMA TenancyOf ==
    ASSUME TypeOKOthers, NEW estates, NEW sent \in [House -> Nat], NewTenancies(estates, sent)
    PROVE  /\ tenancy' \in [House -> Nat] /\ letters' \in [House -> Nat]
           /\ \A h \in House :
                  /\ tenancy'[h] = IF estates[h].owner # estate[h].owner /\ estate[h].owner # NoOne
                                   THEN tenancy[h] + 1 ELSE tenancy[h]
                  /\ letters'[h] = IF estates[h].owner # estate[h].owner THEN 0 ELSE sent[h]
  BY DEF NewTenancies, TypeOKOthers

\* setOwner, as a step.
LEMMA HandsKeep ==
    ASSUME HouseInv, NEW h \in House, NEW p \in Person \cup {NoOne}, ChangeHands(h, p),
           UNCHANGED <<inWorld, kicks, saved, restarts>>,
           sale' \in [House -> [seller : Person, buyer : Person] \cup {NoSale}]
    PROVE  /\ HouseInv' /\ estate'[h].owner = p
           /\ \A g \in House \ {h} : estate'[g] = estate[g]
<1> DEFINE w == SetOwner(Household, h, p)
<1>0. /\ SoundWorld(Household, inWorld) /\ TypeOKHouses /\ TypeOKOthers /\ Settlement
      /\ BedsPaired(saved.sleeper)
      /\ estate \in [House -> Estate] /\ saved.estate \in [House -> Estate]
      /\ tenancy \in [House -> Nat] /\ letters \in [House -> Nat]
      /\ \A q \in DOMAIN bedOf : q \in inWorld => q \in kicks
      /\ Household.estate = estate /\ Household.bedOf = bedOf
  BY OfHouseInv DEF TypeOKHouses
<1>1. SetHousehold(w) /\ NewTenancies(w.estate, letters)
  BY DEF ChangeHands
<1> HIDE DEF w
<1>2. /\ SoundWorld(w, inWorld) /\ DOMAIN w.bedOf \subseteq DOMAIN bedOf
      /\ \A g \in House :
             w.estate[g] = IF g # h THEN estate[g]
                           ELSE IF estate[h].owner \in {NoOne, p}
                           THEN [estate[h] EXCEPT !.owner = p]
                           ELSE [Unowned(tenancy[h] + 1) EXCEPT !.owner = p]
  <2>1. /\ SoundWorld(w, inWorld) /\ DOMAIN w.bedOf \subseteq DOMAIN Household.bedOf
        /\ \A g \in House :
               w.estate[g] = IF g # h THEN Household.estate[g]
                             ELSE IF Household.estate[h].owner \in {NoOne, p}
                             THEN [Household.estate[h] EXCEPT !.owner = p]
                             ELSE [Unowned(tenancy[h] + 1) EXCEPT !.owner = p]
    <3>1. TypeOKHouses /\ SoundWorld(Household, inWorld)
      BY <1>0
    <3> QED BY ONLY <3>1, SetOwnerKeeps DEF w
  <2> QED BY <1>0, <2>1
<1>3. estate' = w.estate
  BY <1>1 DEF SetHousehold
<1>4. /\ tenancy' \in [House -> Nat] /\ letters' \in [House -> Nat]
      /\ \A g \in House :
             /\ tenancy'[g] = IF estate'[g].owner # estate[g].owner /\ estate[g].owner # NoOne
                              THEN tenancy[g] + 1 ELSE tenancy[g]
             /\ letters'[g] = IF estate'[g].owner # estate[g].owner THEN 0 ELSE letters[g]
  BY <1>0, <1>1, <1>3, TenancyOf
<1> DEFINE e == estate[h]
           f == estate'[h]
           s == saved.estate[h]
<1>5. \A g \in House \ {h} : estate'[g] = estate[g]
  BY <1>2, <1>3
<1>6. /\ e \in Estate /\ s \in Estate /\ tenancy[h] \in Nat /\ letters[h] \in Nat
      /\ s.term \in Nat /\ s.warnings \in Nat /\ e.term \in Nat /\ e.warnings \in Nat
      /\ Settled(e, e.owner, tenancy[h], letters[h]) /\ Settled(s, e.owner, tenancy[h], letters[h])
  BY <1>0 DEF Settlement, Estate
<1>7. /\ f.owner = p /\ Settled(f, f.owner, tenancy'[h], letters'[h])
      /\ Settled(s, f.owner, tenancy'[h], letters'[h])
  <2>1. CASE e.owner \in {NoOne, p}
    <3>1. f = [e EXCEPT !.owner = p]
      BY <1>2, <1>3, <2>1
    <3> HIDE DEF e, f, s
    <3>2. /\ f.owner = p /\ f.guests = e.guests /\ f.subowners = e.subowners
          /\ f.warnings = e.warnings /\ f.term = e.term
      BY <1>6, <3>1 DEF Estate
    <3>3. /\ tenancy'[h] = tenancy[h]
          /\ letters'[h] = IF f.owner # e.owner THEN 0 ELSE letters[h]
      BY <1>4, <2>1, <3>2 DEF e, f
    <3>4. CASE e.owner = p
      BY <1>6, <3>2, <3>3, <3>4 DEF Settled
    <3>5. CASE e.owner # p
      <4>1. e.owner = NoOne /\ letters'[h] = 0 /\ f.owner # NoOne
        BY <2>1, <3>2, <3>3, <3>5
      <4> QED BY <1>6, <3>2, <3>3, <4>1 DEF Settled
    <3> QED BY <3>4, <3>5
  <2>2. CASE e.owner \notin {NoOne, p}
    <3>1. f = [Unowned(tenancy[h] + 1) EXCEPT !.owner = p]
      BY <1>2, <1>3, <2>2
    <3> HIDE DEF e, f, s
    <3>2. /\ f.owner = p /\ f.guests = {} /\ f.subowners = {}
          /\ f.warnings = 0 /\ f.term = tenancy[h] + 1
      BY <3>1 DEF Unowned
    <3>3. tenancy'[h] = tenancy[h] + 1 /\ letters'[h] = 0
      BY <1>4, <2>2, <3>2 DEF e, f
    <3>4. s.term # tenancy'[h] /\ s.term <= tenancy'[h]
      BY <1>6, <3>3 DEF Settled
    <3> QED BY <3>2, <3>3, <3>4, <1>6 DEF Settled
  <2> QED BY <2>1, <2>2
<1>8. Settlement'
  <2> SUFFICES ASSUME NEW g \in House
               PROVE  /\ Settled(estate'[g], estate'[g].owner, tenancy'[g], letters'[g])
                      /\ Settled(saved.estate[g], estate'[g].owner, tenancy'[g], letters'[g])
    BY DEF Settlement, Settled
  <2>1. CASE g = h
    BY <1>7, <2>1
  <2>2. CASE g # h
    <3>1. tenancy'[g] = tenancy[g] /\ letters'[g] = letters[g] /\ estate'[g] = estate[g]
      BY <1>4, <1>5, <2>2
    <3> QED BY <1>0, <3>1 DEF Settlement
  <2> QED BY <2>1, <2>2
<1>9. TypeOKOthers'
  BY <1>0, <1>4 DEF TypeOKOthers
<1>10. \A q \in DOMAIN w.bedOf : q \in inWorld' => q \in kicks'
  BY <1>0, <1>2
<1>11. HouseInv'
  BY <1>0, <1>1, <1>2, <1>8, <1>9, <1>10, HouseAfter
<1> QED BY <1>5, <1>7, <1>11

\* setAccessList, as a step: no list of a house without an owner is written.
LEMMA HouseWindowKeeps ==
    ASSUME HouseInv, NEW p \in Person, NEW h \in House, NEW list \in DOMAIN Texts,
           NEW text \in Texts[list], PlayerUpdateHouseWindow(p, h, list, text)
    PROVE  HouseInv' /\ \A g \in House : estate'[g].owner = estate[g].owner
<1> DEFINE w == SetAccessList(Household, h, list, text)
<1>0. /\ SoundWorld(Household, inWorld) /\ TypeOKHouses /\ TypeOKOthers /\ Settlement
      /\ BedsPaired(saved.sleeper) /\ estate \in [House -> Estate]
      /\ \A q \in DOMAIN bedOf : q \in inWorld => q \in kicks
      /\ Household.estate = estate /\ Household.bedOf = bedOf
  BY OfHouseInv DEF TypeOKHouses
<1>1. /\ SetHousehold(w) /\ CanEditAccessList(h, list, p)
      /\ UNCHANGED <<inWorld, kicks, saved, tenancy, letters, restarts>>
  BY DEF PlayerUpdateHouseWindow
<1>2. list \in {"guests", "subowners"} /\ text \in SUBSET Person
  BY HouseConstants
<1> HIDE DEF w
<1>3. /\ SoundWorld(w, inWorld) /\ w.bedOf = bedOf
      /\ \A g \in House : /\ w.estate[g].owner = estate[g].owner
                          /\ w.estate[g].warnings = estate[g].warnings
                          /\ w.estate[g].term = estate[g].term
                          /\ g # h => w.estate[g] = estate[g]
  <2>1. /\ SoundWorld(w, inWorld) /\ w.bedOf = Household.bedOf
        /\ \A g \in House : /\ w.estate[g].owner = Household.estate[g].owner
                            /\ w.estate[g].warnings = Household.estate[g].warnings
                            /\ w.estate[g].term = Household.estate[g].term
                            /\ g # h => w.estate[g] = Household.estate[g]
    BY <1>0, <1>2, SetAccessKeeps DEF w
  <2> QED BY <1>0, <2>1
<1>4. estate' = w.estate
  BY <1>1 DEF SetHousehold
<1>5. estate[h].owner # NoOne \/ estate[h].term # tenancy[h]
  <2> SUFFICES ASSUME estate[h].owner = NoOne, estate[h].term = tenancy[h] PROVE FALSE
    OBVIOUS
  <2>1. estate[h].subowners = {}
    BY <1>0 DEF Settlement, Settled
  <2>2. p # estate[h].owner
    BY HouseConstants
  <2> QED BY <1>0, <1>1, <2>1, <2>2 DEF CanEditAccessList, GetHouseAccessLevel
<1>6. Settlement'
  BY <1>0, <1>1, <1>3, <1>4, <1>5, SameSettlement
<1>7. TypeOKOthers'
  <2>1. sale' \in [House -> [seller : Person, buyer : Person] \cup {NoSale}]
    BY <1>0, SalesKeepType DEF PlayerUpdateHouseWindow, SalesMayEnd
  <2> QED BY <1>0, <1>1, <2>1 DEF TypeOKOthers
<1>8. HouseInv'
  BY <1>0, <1>1, <1>3, <1>6, <1>7, HouseAfter
<1> QED BY <1>3, <1>4, <1>8

\* sleep
LEMMA SleepKeeps ==
    ASSUME HouseInv, NEW p \in Person, NEW b \in HalfBed, Sleep(p, b)
    PROVE  HouseInv' /\ UNCHANGED estate
<1> DEFINE S == [c \in HalfBed |-> IF c \in {b, NextBedItem[b]} THEN p ELSE sleeper[c]]
           B == [q \in DOMAIN bedOf \cup {p} |-> IF q = p THEN b ELSE bedOf[q]]
           w == [estate |-> estate, at |-> at, sleeper |-> S, bedOf |-> B]
<1>0. /\ SoundWorld(Household, inWorld) /\ TypeOKHouses /\ TypeOKOthers /\ Settlement
      /\ BedsPaired(saved.sleeper)
      /\ \A q \in DOMAIN bedOf : q \in inWorld => q \in kicks
      /\ Household.estate = estate /\ Household.at = at
      /\ Household.sleeper = sleeper /\ Household.bedOf = bedOf
  BY OfHouseInv
<1>1. /\ p \in inWorld \ kicks /\ sleeper[b] = NoOne /\ kicks' = kicks \cup {p}
      /\ UNCHANGED <<estate, at, inWorld, sale, saved, tenancy, letters, restarts>>
      /\ sleeper' = S /\ bedOf' = B
  BY DEF Sleep
<1>2. p \notin DOMAIN bedOf
  BY <1>0, <1>1
<1>3. /\ \A c \in HalfBed : /\ NextBedItem[c] \in HalfBed /\ NextBedItem[NextBedItem[c]] = c
      /\ NoOne \notin Person
  BY HouseConstants
<1>4. /\ \A c \in HalfBed : sleeper[c] # NoOne =>
             /\ sleeper[NextBedItem[c]] = sleeper[c]
             /\ sleeper[c] \in DOMAIN bedOf /\ bedOf[sleeper[c]] \in {c, NextBedItem[c]}
      /\ \A q \in DOMAIN bedOf : sleeper[bedOf[q]] = q
      /\ sleeper \in Sleepers /\ DOMAIN bedOf \subseteq Person /\ bedOf \in [DOMAIN bedOf -> HalfBed]
      /\ estate \in [House -> Estate] /\ at \in [Person -> House \cup {Street}]
  BY <1>0 DEF SoundWorld, BedsKnown, TypeOKHouses
<1>5. sleeper[NextBedItem[b]] = NoOne
  BY <1>1, <1>3, <1>4
<1>6. /\ S \in Sleepers /\ DOMAIN B = DOMAIN bedOf \cup {p} /\ DOMAIN B \subseteq Person
      /\ B \in [DOMAIN B -> HalfBed]
  BY <1>4 DEF Sleepers
<1>7. /\ \A c \in HalfBed : S[c] = IF c \in {b, NextBedItem[b]} THEN p ELSE sleeper[c]
      /\ \A q \in DOMAIN B : B[q] = IF q = p THEN b ELSE bedOf[q]
  OBVIOUS
<1> HIDE DEF S, B
<1>8. HouseWorld(w)
  BY <1>4, <1>6 DEF HouseWorld
<1>9. BedsKnown(w)
  <2>1. ASSUME NEW c \in HalfBed, S[c] # NoOne
        PROVE  /\ S[NextBedItem[c]] = S[c]
               /\ S[c] \in DOMAIN B /\ B[S[c]] \in {c, NextBedItem[c]}
    <3>1. CASE c \in {b, NextBedItem[b]}
      BY <1>3, <1>6, <1>7, <3>1
    <3>2. CASE c \notin {b, NextBedItem[b]}
      <4>1. NextBedItem[c] \notin {b, NextBedItem[b]} /\ S[c] = sleeper[c]
        BY <1>3, <1>7, <3>2
      <4>2. sleeper[c] \in DOMAIN bedOf /\ sleeper[c] # p
        BY <1>2, <1>4, <2>1, <4>1
      <4> QED BY <1>3, <1>4, <1>6, <1>7, <2>1, <4>1, <4>2
    <3> QED BY <3>1, <3>2
  <2>2. ASSUME NEW q \in DOMAIN B PROVE S[B[q]] = q
    <3>1. CASE q = p
      BY <1>7, <3>1
    <3>2. CASE q # p
      <4>1. q \in DOMAIN bedOf /\ B[q] = bedOf[q] /\ bedOf[q] \in HalfBed /\ sleeper[bedOf[q]] = q
        BY <1>4, <1>6, <1>7, <3>2
      <4>2. q # NoOne
        BY <1>3, <1>4, <4>1
      <4> QED BY <1>1, <1>5, <1>7, <4>1, <4>2
    <3> QED BY <3>1, <3>2
  <2> QED BY <2>1, <2>2 DEF BedsKnown
<1>10. AtHome(w, inWorld')
  BY <1>0, <1>1 DEF SoundWorld, AtHome
<1>11. TypeOKOthers'
  BY <1>0, <1>1 DEF TypeOKOthers
<1>12. Settlement'
  BY <1>0, <1>1, SameSettlement
<1>13. SetHousehold(w) /\ \A q \in DOMAIN w.bedOf : q \in inWorld' => q \in kicks'
  BY <1>0, <1>1, <1>6 DEF SetHousehold
<1>14. BedsPaired(saved'.sleeper)
  BY <1>0, <1>1
<1> HIDE DEF w
<1> QED BY <1>1, <1>8, <1>9, <1>10, <1>11, <1>12, <1>13, <1>14, HouseAfter DEF SoundWorld

\* trySleep
LEMMA TrySleepKeeps ==
    ASSUME HouseInv, NEW p \in Person, NEW b \in HalfBed, TrySleep(p, b)
    PROVE  HouseInv' /\ UNCHANGED estate
<1> DEFINE w == WokenUp(Household, b)
<1>0. /\ SoundWorld(Household, inWorld) /\ TypeOKOthers /\ Settlement /\ BedsPaired(saved.sleeper)
      /\ \A q \in DOMAIN bedOf : q \in inWorld => q \in kicks
      /\ Household.estate = estate /\ Household.at = at
      /\ Household.sleeper = sleeper /\ Household.bedOf = bedOf
  BY OfHouseInv
<1>1. /\ sleeper[b] # NoOne /\ SetHousehold(w)
      /\ UNCHANGED <<inWorld, sale, kicks, saved, tenancy, letters, restarts>>
  BY DEF TrySleep
<1> HIDE DEF w
<1>2. /\ HouseWorld(w) /\ BedsKnown(w) /\ w.estate = Household.estate /\ w.at = Household.at
      /\ DOMAIN w.bedOf = DOMAIN Household.bedOf \ {Household.sleeper[b]}
  BY <1>0, <1>1, WokenKeeps DEF SoundWorld, w
<1>3. AtHome(w, inWorld')
  BY <1>0, <1>1, <1>2 DEF SoundWorld, AtHome
<1>4. UNCHANGED estate
  BY <1>0, <1>1, <1>2 DEF SetHousehold
<1>5. TypeOKOthers'
  BY <1>0, <1>1 DEF TypeOKOthers
<1>6. Settlement'
  BY <1>0, <1>1, <1>4, SameSettlement
<1>7. \A q \in DOMAIN w.bedOf : q \in inWorld' => q \in kicks'
  BY <1>0, <1>1, <1>2
<1>8. BedsPaired(saved'.sleeper)
  BY <1>0, <1>1
<1> QED BY <1>1, <1>2, <1>3, <1>4, <1>5, <1>6, <1>7, <1>8, HouseAfter DEF SoundWorld

-----------------------------------------------------------------------------
\* What a save writes can be loaded: every sleeper has one bed, and the lists are of
\* the tenancy they say.
LEMMA SnapshotSound ==
    ASSUME HouseInv
    PROVE  /\ Snapshot \in [estate : [House -> Estate], sleeper : Sleepers]
           /\ BedsPaired(Snapshot.sleeper)
           /\ \A h \in House :
                  /\ Settled(Snapshot.estate[h], estate[h].owner, tenancy[h], letters[h])
                  /\ Snapshot.estate[h].term = estate[h].term
<1>0. /\ estate \in [House -> Estate] /\ sleeper \in Sleepers /\ Settlement
      /\ \A c \in HalfBed : sleeper[c] # NoOne =>
             /\ sleeper[NextBedItem[c]] = sleeper[c]
             /\ sleeper[c] \in DOMAIN bedOf /\ bedOf[sleeper[c]] \in {c, NextBedItem[c]}
  BY DEF HouseInv, TypeOKHouses, SleepersKnown
<1> DEFINE E == [h \in House |-> [estate[h] EXCEPT !.owner = NoOne]]
<1>1. ASSUME NEW h \in House
      PROVE  /\ E[h] \in Estate /\ E[h].term = estate[h].term
             /\ Settled(E[h], estate[h].owner, tenancy[h], letters[h])
  <2>1. /\ E[h] \in Estate /\ E[h].guests = estate[h].guests /\ E[h].subowners = estate[h].subowners
        /\ E[h].warnings = estate[h].warnings /\ E[h].term = estate[h].term
    <3>1. estate[h] \in Estate /\ E[h] = [estate[h] EXCEPT !.owner = NoOne]
      BY <1>0
    <3> HIDE DEF E
    <3> QED BY <3>1 DEF Estate
  <2>2. Settled(estate[h], estate[h].owner, tenancy[h], letters[h])
    BY <1>0 DEF Settlement
  <2> HIDE DEF E
  <2> QED BY <2>1, <2>2 DEF Settled
<1>2. Snapshot.estate = E /\ Snapshot.sleeper = sleeper /\ Snapshot = [estate |-> E, sleeper |-> sleeper]
  BY DEF Snapshot
<1>3. E \in [House -> Estate]
  BY <1>1
<1>4. BedsPaired(sleeper)
  <2> SUFFICES ASSUME NEW b \in HalfBed, sleeper[b] # NoOne,
                      NEW c \in HalfBed, sleeper[c] = sleeper[b]
               PROVE  c \in {b, NextBedItem[b]}
    BY <1>0 DEF BedsPaired
  <2>1. bedOf[sleeper[b]] \in {b, NextBedItem[b]} /\ bedOf[sleeper[b]] \in {c, NextBedItem[c]}
    BY <1>0
  <2> QED BY <2>1, HouseConstants
<1> HIDE DEF E
<1> QED BY <1>0, <1>1, <1>2, <1>3, <1>4

\* Map::save
LEMMA SaveKeeps == ASSUME HouseInv, Save PROVE HouseInv' /\ UNCHANGED estate
<1>0. /\ SoundWorld(Household, inWorld) /\ TypeOKOthers /\ Settlement
      /\ SetHousehold(Household) <=> UNCHANGED <<estate, at, sleeper, bedOf>>
      /\ \A q \in DOMAIN bedOf : q \in inWorld => q \in kicks
      /\ Household.bedOf = bedOf
  BY OfHouseInv
<1>1. /\ saved' = Snapshot
      /\ UNCHANGED <<estate, at, inWorld, sale, sleeper, bedOf, kicks, tenancy, letters, restarts>>
  BY DEF Save
<1>2. TypeOKOthers' /\ BedsPaired(saved'.sleeper)
  BY <1>0, <1>1, SnapshotSound DEF TypeOKOthers
<1>3. Settlement'
  <2> SUFFICES ASSUME NEW h \in House
               PROVE  /\ Settled(estate[h], estate[h].owner, tenancy[h], letters[h])
                      /\ Settled(Snapshot.estate[h], estate[h].owner, tenancy[h], letters[h])
    BY <1>1 DEF Settlement, Settled
  <2> QED BY <1>0, SnapshotSound DEF Settlement
<1> QED BY <1>0, <1>1, <1>2, <1>3, HouseAfter

\* loadMap
LEMMA LoadedSound ==
    ASSUME HouseInv, NEW s \in [estate : [House -> Estate], sleeper : Sleepers],
           BedsPaired(s.sleeper)
    PROVE  /\ HouseWorld(Loaded(s)) /\ BedsKnown(Loaded(s))
           /\ \A h \in House : Loaded(s).estate[h] = [s.estate[h] EXCEPT !.owner = estate[h].owner]
<1> DEFINE E == [h \in House |-> [s.estate[h] EXCEPT !.owner = estate[h].owner]]
           S == s.sleeper
           asleep == {S[b] : b \in HalfBed} \ {NoOne}
           B == [p \in asleep |-> CHOOSE b \in HalfBed : S[b] = p]
           w == Loaded(s)
<1>0. /\ estate \in [House -> Estate] /\ at \in [Person -> House \cup {Street}]
      /\ s.estate \in [House -> Estate] /\ S \in Sleepers
  BY DEF HouseInv, TypeOKHouses
<1>1. w = [estate |-> E, at |-> at, sleeper |-> S, bedOf |-> B]
  BY DEF Loaded
<1>2. E \in [House -> Estate]
  <2>1. ASSUME NEW h \in House PROVE [s.estate[h] EXCEPT !.owner = estate[h].owner] \in Estate
    BY <1>0, OfEstate
  <2> QED BY <2>1
<1>3. \A p \in asleep : B[p] \in HalfBed /\ S[B[p]] = p
  OBVIOUS
<1>4. DOMAIN B = asleep /\ asleep \subseteq Person /\ B \in [DOMAIN B -> HalfBed]
  BY <1>0, <1>3 DEF Sleepers
<1>5. \A b \in HalfBed : S[b] # NoOne => S[b] \in asleep
  OBVIOUS
<1>6. \A h \in House : E[h] = [s.estate[h] EXCEPT !.owner = estate[h].owner]
  OBVIOUS
<1> HIDE DEF E, B, asleep, w
<1>7. w.estate = E /\ w.at = at /\ w.sleeper = S /\ w.bedOf = B
  BY <1>1
<1>8. HouseWorld(w)
  BY <1>0, <1>1, <1>2, <1>4, <1>7 DEF HouseWorld
<1>9. BedsKnown(w)
  <2>1. ASSUME NEW b \in HalfBed, S[b] # NoOne
        PROVE  /\ S[NextBedItem[b]] = S[b]
               /\ S[b] \in DOMAIN B /\ B[S[b]] \in {b, NextBedItem[b]}
    <3>1. S[b] \in asleep /\ B[S[b]] \in HalfBed /\ S[B[S[b]]] = S[b]
      BY <1>3, <1>5, <2>1
    <3> QED BY <1>4, <2>1, <3>1 DEF BedsPaired
  <2> QED BY <1>3, <1>4, <1>7, <2>1 DEF BedsKnown
<1> QED BY <1>6, <1>7, <1>8, <1>9 DEF w

\* What is due after a restart: lists, beds and letters as the last save has them, and
\* who loses his house has had his letters, or it was not his warnings that were counted.
LEMMA RestartKeeps ==
    ASSUME HouseInv, NEW poor \in SUBSET House, NEW orderly \in BOOLEAN,
           NEW where \in [Person -> House \cup {Street}], Restart(poor, orderly, where)
    PROVE  /\ HouseInv'
           /\ \A h \in House : estate[h].owner # NoOne /\ estate'[h].owner # estate[h].owner =>
                  /\ restarts' # restarts
                  /\ \/ letters[h] >= RentWarnings
                     \/ Inherited(estate, h) \/ Inherited(saved.estate, h)
<1> DEFINE s == IF orderly THEN Snapshot ELSE saved
           w == Loaded(s)
           v == PayHouses(w, poor)
           u == [v EXCEPT !.at = where]
           owed == {h \in poor : w.estate[h].owner # NoOne}
           forfeited == {h \in owed : w.estate[h].warnings >= RentWarnings}
           sent == [h \in House |->
                       letters[h] + IF v.estate[h].warnings > w.estate[h].warnings THEN 1 ELSE 0]
<1>0. /\ TypeOKHouses /\ TypeOKOthers /\ Settlement /\ BedsPaired(saved.sleeper)
      /\ estate \in [House -> Estate] /\ restarts \in Nat
      /\ tenancy \in [House -> Nat] /\ letters \in [House -> Nat] /\ RentWarnings \in Nat
  BY OfHouseInv, HouseConstants DEF TypeOKHouses
<1>1. /\ restarts' = restarts + 1 /\ SetHousehold(u)
      /\ inWorld' = {} /\ kicks' = {} /\ sale' = [h \in House |-> NoSale]
      /\ saved' = s /\ NewTenancies(v.estate, sent)
  BY DEF Restart
<1>2. /\ s \in [estate : [House -> Estate], sleeper : Sleepers] /\ BedsPaired(s.sleeper)
      /\ \A h \in House :
             /\ Settled(s.estate[h], estate[h].owner, tenancy[h], letters[h])
             /\ s.estate[h].term \in {estate[h].term, saved.estate[h].term}
  <2>1. CASE orderly
    BY <2>1, SnapshotSound
  <2>2. CASE ~orderly
    BY <1>0, <2>2 DEF TypeOKOthers, Settlement
  <2> QED BY <2>1, <2>2
<1> HIDE DEF s
<1>3. /\ HouseWorld(w) /\ BedsKnown(w)
      /\ \A h \in House : w.estate[h] = [s.estate[h] EXCEPT !.owner = estate[h].owner]
  BY <1>2, LoadedSound
<1>4. v = Collected(w, owed, forfeited)
  BY DEF PayHouses
<1> HIDE DEF w, v
<1>5. /\ HouseWorld(v) /\ BedsKnown(v)
      /\ \A h \in House :
             v.estate[h] = IF h \in forfeited THEN Unowned(tenancy[h] + 1)
                           ELSE IF h \in owed THEN [w.estate[h] EXCEPT !.warnings = @ + 1]
                           ELSE w.estate[h]
  BY <1>0, <1>3, <1>4, CollectedKeeps
<1>6. HouseWorld(u) /\ BedsKnown(u) /\ u.estate = v.estate
  BY <1>5, MovedKeeps
<1> HIDE DEF u
<1>7. estate' = v.estate
  BY <1>1, <1>6 DEF SetHousehold
<1>8. sent \in [House -> Nat] /\ \A h \in House :
         sent[h] = letters[h] + IF v.estate[h].warnings > w.estate[h].warnings THEN 1 ELSE 0
  <2>1. ASSUME NEW h \in House
        PROVE  letters[h] + (IF v.estate[h].warnings > w.estate[h].warnings THEN 1 ELSE 0) \in Nat
    BY <1>0
  <2> QED BY <2>1
<1> HIDE DEF sent
<1>9. /\ tenancy' \in [House -> Nat] /\ letters' \in [House -> Nat]
      /\ \A h \in House :
             /\ tenancy'[h] = IF v.estate[h].owner # estate[h].owner /\ estate[h].owner # NoOne
                              THEN tenancy[h] + 1 ELSE tenancy[h]
             /\ letters'[h] = IF v.estate[h].owner # estate[h].owner THEN 0 ELSE sent[h]
  BY <1>0, <1>1, <1>8, TenancyOf
<1>10. ASSUME NEW h \in House
       PROVE  /\ Settled(v.estate[h], v.estate[h].owner, tenancy'[h], letters'[h])
              /\ Settled(s.estate[h], v.estate[h].owner, tenancy'[h], letters'[h])
              /\ v.estate[h].owner # estate[h].owner =>
                     s.estate[h].term # tenancy[h] \/ letters[h] >= RentWarnings
  <2> DEFINE e == s.estate[h]  f == w.estate[h]  g == v.estate[h]  holder == estate[h].owner
  <2>1. /\ e \in Estate /\ e.term \in Nat /\ e.warnings \in Nat
        /\ tenancy[h] \in Nat /\ letters[h] \in Nat /\ holder \in Person \cup {NoOne}
        /\ Settled(e, holder, tenancy[h], letters[h])
    BY <1>0, <1>2 DEF Estate
  <2>2. /\ f \in Estate /\ f.owner = holder /\ f.guests = e.guests /\ f.subowners = e.subowners
        /\ f.warnings = e.warnings /\ f.term = e.term
    <3>1. f = [e EXCEPT !.owner = holder]
      BY <1>3
    <3> HIDE DEF e, f, holder
    <3> QED BY <2>1, <3>1, OfEstate
  <2>3. /\ tenancy'[h] = IF g.owner # holder /\ holder # NoOne THEN tenancy[h] + 1 ELSE tenancy[h]
        /\ letters'[h] = IF g.owner # holder THEN 0
                         ELSE letters[h] + IF g.warnings > f.warnings THEN 1 ELSE 0
    BY <1>8, <1>9
  <2>4. CASE h \in forfeited
    <3>1. holder # NoOne /\ e.warnings >= RentWarnings
      BY <2>2, <2>4
    <3>2. g = Unowned(tenancy[h] + 1)
      BY <1>5, <2>4
    <3> HIDE DEF e, f, g, holder
    <3>3. /\ g.owner = NoOne /\ g.guests = {} /\ g.subowners = {} /\ g.warnings = 0
          /\ g.term = tenancy[h] + 1
      BY <3>2 DEF Unowned
    <3>4. tenancy'[h] = tenancy[h] + 1 /\ letters'[h] = 0
      BY <2>3, <3>1, <3>3
    <3>5. Settled(g, g.owner, tenancy'[h], letters'[h])
      BY <2>1, <3>3, <3>4 DEF Settled
    <3>6. Settled(e, g.owner, tenancy'[h], letters'[h])
      BY <2>1, <3>4 DEF Settled
    <3>7. e.term # tenancy[h] \/ letters[h] >= RentWarnings
      BY <1>0, <2>1, <3>1 DEF Settled
    <3> QED BY <3>5, <3>6, <3>7 DEF e, g
  <2>5. CASE h \in owed \ forfeited
    <3>1. holder # NoOne
      BY <2>2, <2>5
    <3>2. g = [f EXCEPT !.warnings = @ + 1]
      BY <1>5, <2>5
    <3> HIDE DEF e, f, g, holder
    <3>3. g.owner = holder /\ g.warnings = e.warnings + 1 /\ g.term = e.term
      BY <2>2, <3>2, OfEstate
    <3>4. tenancy'[h] = tenancy[h] /\ letters'[h] = letters[h] + 1
      BY <2>1, <2>2, <2>3, <3>3
    <3>5. Settled(g, g.owner, tenancy'[h], letters'[h]) /\ Settled(e, g.owner, tenancy'[h], letters'[h])
      BY <2>1, <3>1, <3>3, <3>4 DEF Settled
    <3> QED BY <3>3, <3>5 DEF e, g, holder
  <2>6. CASE h \notin owed
    <3>1. g = f
      BY <1>5, <2>6
    <3> HIDE DEF e, f, g, holder
    <3>2. tenancy'[h] = tenancy[h] /\ letters'[h] = letters[h]
      BY <2>1, <2>2, <2>3, <3>1
    <3>3. Settled(g, g.owner, tenancy'[h], letters'[h]) /\ Settled(e, g.owner, tenancy'[h], letters'[h])
      BY <2>1, <2>2, <3>1, <3>2 DEF Settled
    <3> QED BY <2>2, <3>1, <3>3 DEF e, g, holder
  <2> QED BY <2>4, <2>5, <2>6
<1>11. Settlement'
  BY <1>1, <1>7, <1>10 DEF Settlement, Settled
<1>12. TypeOKOthers'
  BY <1>0, <1>1, <1>2, <1>9 DEF TypeOKOthers
<1>13. SoundWorld(u, inWorld')
  BY <1>1, <1>6 DEF SoundWorld, AtHome
<1>14. HouseInv'
  BY <1>1, <1>2, <1>11, <1>12, <1>13, HouseAfter
<1>15. ASSUME NEW h \in House, estate'[h].owner # estate[h].owner
       PROVE  /\ restarts' # restarts
              /\ \/ letters[h] >= RentWarnings
                 \/ Inherited(estate, h) \/ Inherited(saved.estate, h)
  BY <1>0, <1>1, <1>2, <1>7, <1>10, <1>15 DEF Inherited
<1> QED BY <1>14, <1>15

-----------------------------------------------------------------------------
\* The start.
LEMMA HousesStart == HousesInit => HouseInv
<1> SUFFICES ASSUME HousesInit PROVE HouseInv
  OBVIOUS
<1>1. Unowned(0) \in Estate /\ [Unowned(0) EXCEPT !.owner = NoOne] \in Estate
  BY OfUnowned
<1>2. TypeOKHouses
  BY <1>1 DEF HousesInit, TypeOKHouses, Snapshot, Sleepers
<1>3. OnlyInvited
  BY DEF HousesInit, OnlyInvited
<1>4. SleepersKnown
  BY HouseConstants DEF HousesInit, SleepersKnown
<1>5. BedsPaired(saved.sleeper)
  BY DEF HousesInit, BedsPaired, Snapshot
<1>6. Settlement
  <2> SUFFICES ASSUME NEW h \in House
               PROVE  /\ Settled(estate[h], estate[h].owner, tenancy[h], letters[h])
                      /\ Settled(saved.estate[h], estate[h].owner, tenancy[h], letters[h])
    BY DEF Settlement
  <2>1. estate[h] = Unowned(0) /\ tenancy[h] = 0 /\ letters[h] = 0
    BY DEF HousesInit
  <2>2. saved.estate[h] = [Unowned(0) EXCEPT !.owner = NoOne]
    BY <2>1 DEF HousesInit, Snapshot
  <2> QED BY <2>1, <2>2 DEF Settled, Unowned
<1> QED BY <1>2, <1>3, <1>4, <1>5, <1>6 DEF HouseInv

\* Whatever happens, and to whom the house goes.
LEMMA HousesStep == HouseInv /\ [HousesNext]_houseVars => HouseInv' /\ NotTakenAway
<1> SUFFICES ASSUME HouseInv, [HousesNext]_houseVars PROVE HouseInv' /\ NotTakenAway
  OBVIOUS
<1>0. estate \in [House -> Estate] /\ NoOne \notin Person /\ TypeOKOthers
  BY OfHouseInv, HouseConstants DEF TypeOKHouses
<1>1. ASSUME \A h \in House : estate'[h].owner = estate[h].owner PROVE NotTakenAway
  BY <1>1 DEF NotTakenAway
<1>2. CASE UNCHANGED houseVars
  <2>1. HouseInv'
    BY <1>2, StutterKeeps
  <2> QED BY <1>1, <1>2, <2>1 DEF houseVars
<1>3. ASSUME NEW p \in Person, StepOut(p) PROVE HouseInv' /\ NotTakenAway
  BY <1>1, <1>3, StepOutKeeps DEF StepOut
<1>4. ASSUME NEW p \in Person, LogOut(p) \/ KickPlayer(p) PROVE HouseInv' /\ NotTakenAway
  BY <1>1, <1>4, LeavesKeeps DEF LogOut, KickPlayer, Leaves
<1>5. ASSUME NEW p \in Person, LogIn(p) PROVE HouseInv' /\ NotTakenAway
  BY <1>1, <1>5, LogInKeeps
<1>6. ASSUME NEW p \in Person, NEW b \in HalfBed, Sleep(p, b) PROVE HouseInv' /\ NotTakenAway
  BY <1>1, <1>6, SleepKeeps
<1>7. ASSUME NEW p \in Person, NEW b \in HalfBed, TrySleep(p, b) PROVE HouseInv' /\ NotTakenAway
  BY <1>1, <1>7, TrySleepKeeps
<1>8. ASSUME NEW p \in Person, NEW h \in House, Enter(p, h) PROVE HouseInv' /\ NotTakenAway
  BY <1>1, <1>8, EnterKeeps DEF Enter
<1>9. ASSUME NEW p \in Person, NEW h \in House, BuyHouse(p, h) PROVE HouseInv' /\ NotTakenAway
  <2>1. /\ ChangeHands(h, p) /\ UNCHANGED <<inWorld, kicks, saved, restarts>>
        /\ sale' \in [House -> [seller : Person, buyer : Person] \cup {NoSale}]
        /\ estate[h].owner = NoOne
    BY <1>0, <1>9 DEF BuyHouse, TypeOKOthers
  <2>2. HouseInv' /\ \A g \in House \ {h} : estate'[g] = estate[g]
    BY <2>1, HandsKeep
  <2> QED BY <2>1, <2>2 DEF NotTakenAway
<1>10. ASSUME NEW p \in Person, NEW h \in House, LeaveHouse(p, h) PROVE HouseInv' /\ NotTakenAway
  <2>1. /\ ChangeHands(h, NoOne) /\ UNCHANGED <<inWorld, kicks, saved, restarts>>
        /\ sale' \in [House -> [seller : Person, buyer : Person] \cup {NoSale}]
        /\ estate[h].owner = p /\ at[p] = h
    BY <1>0, <1>10, SalesKeepType DEF LeaveHouse, SalesMayEnd
  <2>2. /\ HouseInv' /\ estate'[h].owner = NoOne
        /\ \A g \in House \ {h} : estate'[g] = estate[g]
    BY <2>1, HandsKeep
  <2> QED BY <2>1, <2>2 DEF NotTakenAway, GivenUp
<1>11. ASSUME NEW h \in House, ExecuteTransfer(h) PROVE HouseInv' /\ NotTakenAway
  <2>1. /\ ChangeHands(h, sale[h].buyer) /\ UNCHANGED <<inWorld, kicks, saved, restarts>>
        /\ sale[h] # NoSale
    BY <1>11 DEF ExecuteTransfer
  <2>2. sale[h].buyer \in Person
    BY <1>0, <2>1 DEF TypeOKOthers
  <2>3. sale' \in [House -> [seller : Person, buyer : Person] \cup {NoSale}]
    BY <1>0, <1>11, SalesKeepType DEF ExecuteTransfer
  <2>4. /\ HouseInv' /\ estate'[h].owner = sale[h].buyer
        /\ \A g \in House \ {h} : estate'[g] = estate[g]
    BY <2>1, <2>2, <2>3, HandsKeep
  <2> QED BY <2>1, <2>4 DEF NotTakenAway, GivenUp
<1>12. ASSUME NEW p \in Person, NEW h \in House, NEW list \in DOMAIN Texts, NEW text \in Texts[list],
              PlayerUpdateHouseWindow(p, h, list, text)
       PROVE  HouseInv' /\ NotTakenAway
  BY <1>1, <1>12, HouseWindowKeeps
<1>13. ASSUME NEW p \in Person, NEW h \in House, NEW q \in Person, StartTrade(p, q, h)
       PROVE  HouseInv' /\ NotTakenAway
  BY <1>1, <1>13, DealKeeps DEF StartTrade
<1>14. ASSUME NEW h \in House, ResetTransferItem(h) PROVE HouseInv' /\ NotTakenAway
  BY <1>1, <1>14, DealKeeps DEF ResetTransferItem
<1>15. ASSUME Save PROVE HouseInv' /\ NotTakenAway
  BY <1>1, <1>15, SaveKeeps
<1>16. ASSUME NEW poor \in SUBSET House, NEW orderly \in BOOLEAN,
              NEW where \in [Person -> House \cup {Street}], Restart(poor, orderly, where)
       PROVE  HouseInv' /\ NotTakenAway
  BY <1>16, RestartKeeps DEF NotTakenAway, GivenUp
<1>17. CASE HousesNext
  BY <1>3, <1>4, <1>5, <1>6, <1>7, <1>8, <1>9, <1>10, <1>11, <1>12, <1>13, <1>14, <1>15, <1>16, <1>17
     DEF HousesNext
<1> QED BY <1>2, <1>17

\* HousesSound: those who are in a house are on its lists, every sleeper is known and has
\* one bed, and lists and warnings are those of the owner or inherited by a crash - for
\* any houses, people and beds, and however often the server is restarted.
THEOREM HousesStaySound == HousesSpec => []HousesSound
<1>1. HouseInv /\ [HousesNext]_houseVars => HouseInv'
  BY HousesStep
<1> QED BY <1>1, HousesStart, HouseInvSuffices, PTL DEF HousesSpec

\* HousesKept: nobody's house is taken from him but by his own act, by a sale that is
\* open, or for rent after all the letters he was due.
THEOREM HousesAreKept == HousesSpec => HousesKept
<1>1. HouseInv /\ [HousesNext]_houseVars => HouseInv'
  BY HousesStep
<1>2. HouseInv /\ [HousesNext]_houseVars => [NotTakenAway]_houseVars
  BY HousesStep
<1> QED BY <1>1, <1>2, HousesStart, PTL DEF HousesSpec, HousesKept
=============================================================================
