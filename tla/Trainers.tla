------------------------------ MODULE Trainers ------------------------------
(***************************************************************************)
(* A trainer's pokemon and the pokeballs that hold them (player.cpp,       *)
(* pokeballs.cpp, game.cpp).  A caught pokemon arrives in its ball by an   *)
(* event 3 s later; the ball in the pokeball slot calls it out and back.   *)
(* Ball and pokemon are tied by an id only: the ball has to stay in the    *)
(* slot for as long as the pokemon is out, however it comes back: called,  *)
(* fainted (noticed at the next check), or because its trainer logs out,   *)
(* dies or is lost.                                                        *)
(*                                                                         *)
(* Left out: pokemon that scripts summon, levels, the chance of a catch.   *)
(***************************************************************************)
EXTENDS FiniteSets

CONSTANTS Keeper, Caught, NoKeeper   \* players, pokemon by their guid

ASSUME TrainersConstants == NoKeeper \notin Keeper

VARIABLES
    ball,       \* where the pokeball is: <<place, player>>
    charged,    \* it has the icon of a pokemon that is inside
    master,     \* Creature::master
    out,        \* the pokemon is on the map
    fainted,    \* its health is 0
    online

trainerVars == <<ball, charged, master, out, fainted, online>>

Places == ({"coming", "slot", "bag", "inbox"} \X Keeper) \cup ({"none", "ground", "lost"} \X {NoKeeper})

TypeOKTrainers ==
    /\ ball \in [Caught -> Places]
    /\ charged \in [Caught -> BOOLEAN] /\ out \in [Caught -> BOOLEAN] /\ fainted \in [Caught -> BOOLEAN]
    /\ master \in [Caught -> Keeper \cup {NoKeeper}]
    /\ online \subseteq Keeper

HisPokemon(p) == {g \in Caught : master[g] = p}
InSlot(p) == {g \in Caught : ball[g] = <<"slot", p>>}

TrainersInit ==
    /\ ball = [g \in Caught |-> <<"none", NoKeeper>>]
    /\ charged = [g \in Caught |-> TRUE]
    /\ master = [g \in Caught |-> NoKeeper]
    /\ out = [g \in Caught |-> FALSE] /\ fainted = [g \in Caught |-> FALSE]
    /\ online = Keeper

-----------------------------------------------------------------------------
(* Catching *)

TryCatchPokemon(p, g) ==
    /\ p \in online /\ ball[g] = <<"none", NoKeeper>>
    /\ ball' = [ball EXCEPT ![g] = <<"coming", p>>]
    /\ UNCHANGED <<charged, master, out, fainted, online>>

\* sendPokemonToPlayer: nobody keeps a ball that finds no trainer or no room.
SendPokemon(g) ==
    /\ ball[g][1] = "coming"
    /\ LET p == ball[g][2]
       IN  IF p \in online
           THEN \/ ball' = [ball EXCEPT ![g] = <<"inbox", p>>]    \* he holds six already
                \/ InSlot(p) = {} /\ ball' = [ball EXCEPT ![g] = <<"slot", p>>]
                \/ ball' = [ball EXCEPT ![g] = <<"bag", p>>]
                \/ ball' = [ball EXCEPT ![g] = <<"lost", NoKeeper>>]
           ELSE ball' = [ball EXCEPT ![g] = <<"lost", NoKeeper>>]
    /\ UNCHANGED <<charged, master, out, fainted, online>>

-----------------------------------------------------------------------------
(* Calling *)

MayLeaveAlways(g) == TRUE

\* Player::queryRemove: a ball stays in its slot while a pokemon is out.
MayLeave(g) == ball[g][1] = "slot" => HisPokemon(ball[g][2]) = {}

\* Any move, trades included; transformPokeball keeps the charge.
MoveBall(g) ==
    /\ \/ ball[g][1] = "ground"
       \/ ball[g][1] \in {"slot", "bag", "inbox"} /\ ball[g][2] \in online
    /\ MayLeave(g)
    /\ \/ ball' = [ball EXCEPT ![g] = <<"ground", NoKeeper>>]
       \/ \E p \in online : \/ ball' = [ball EXCEPT ![g] = <<"bag", p>>]
                            \/ InSlot(p) = {} /\ ball' = [ball EXCEPT ![g] = <<"slot", p>>]
    /\ UNCHANGED <<charged, master, out, fainted, online>>

CalledBack(gs) == /\ out' = [g \in Caught |-> out[g] /\ g \notin gs]
            /\ master' = [g \in Caught |-> IF g \in gs THEN NoKeeper ELSE master[g]]

\* gobackPokemon: the item in the slot is taken for the ball of whatever is out.
GobackPokemon(p) ==
    /\ p \in online
    /\ \E item \in InSlot(p) :
         \/ /\ HisPokemon(p) # {}
            /\ CalledBack(HisPokemon(p))
            /\ charged' = [charged EXCEPT ![item] = TRUE]
         \/ /\ HisPokemon(p) = {} /\ ~fainted[item]
            /\ out' = [out EXCEPT ![item] = TRUE]
            /\ master' = [master EXCEPT ![item] = p]
            /\ charged' = [charged EXCEPT ![item] = FALSE]
    /\ UNCHANGED <<ball, fainted, online>>

Faints == \E g \in Caught :
    /\ out[g] /\ ~fainted[g]
    /\ fainted' = [fainted EXCEPT ![g] = TRUE]
    /\ UNCHANGED <<ball, charged, master, out, online>>

\* Creature::onDeath: the ball keeps its icon.
OnDeath == \E g \in Caught :
    /\ out[g] /\ fainted[g]
    /\ CalledBack({g})
    /\ UNCHANGED <<ball, charged, fainted, online>>

Healed == \E g \in Caught :
    /\ ~out[g] /\ fainted[g]
    /\ fainted' = [fainted EXCEPT ![g] = FALSE]
    /\ UNCHANGED <<ball, charged, master, out, online>>

-----------------------------------------------------------------------------
(* The trainer comes and goes. *)

\* ProtocolGame::logout, and dropCorpse when he dies
Logout(p) ==
    /\ p \in online
    /\ online' = online \ {p}
    /\ CalledBack(HisPokemon(p))
    /\ charged' = [g \in Caught |-> charged[g] \/ (HisPokemon(p) # {} /\ g \in InSlot(p))]
    /\ UNCHANGED <<ball, fainted>>

\* A player without a client is removed with his pokemon, and no ball is touched.
RemovePlayer(p) ==
    /\ p \in online
    /\ online' = online \ {p}
    /\ CalledBack(HisPokemon(p))
    /\ UNCHANGED <<ball, charged, fainted>>

Login(p) == /\ p \notin online
            /\ online' = online \cup {p}
            /\ UNCHANGED <<ball, charged, master, out, fainted>>

TrainersNext ==
    \/ \E p \in Keeper : GobackPokemon(p) \/ Logout(p) \/ RemovePlayer(p) \/ Login(p)
    \/ \E g \in Caught : SendPokemon(g) \/ MoveBall(g) \/ \E p \in Keeper : TryCatchPokemon(p, g)
    \/ Faints \/ OnDeath \/ Healed

TrainersSpec == TrainersInit /\ [][TrainersNext]_trainerVars

-----------------------------------------------------------------------------
(* Properties *)

\* A pokemon that is out has a trainer who is online and has no other; its own
\* ball is in his slot, and shows that it is empty.
OutOfItsBall ==
    TypeOKTrainers /\
    \A g \in Caught : out[g] =>
        /\ master[g] \in online /\ HisPokemon(master[g]) = {g}
        /\ ball[g] = <<"slot", master[g]>> /\ InSlot(master[g]) = {g}
        /\ ~charged[g]
=============================================================================
