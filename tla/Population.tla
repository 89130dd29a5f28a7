----------------------------- MODULE Population -----------------------------
(***************************************************************************)
(* The wild pokemon of one spawn (spawn.cpp) and the lists of the game     *)
(* that keep creatures alive (game.cpp, pokemon.cpp): a pokemon is         *)
(* reference-counted and is held by the map, by the list of creatures that *)
(* think, by its spawn and by the list of references to be given back.     *)
(* Creatures that idle leave the list of those that think, and only that   *)
(* list notices that a creature has lost its health.                       *)
(*                                                                         *)
(* Whether a slot is due, whether a player is near and whether a pokemon   *)
(* can be placed is arbitrary; so is the bucket a creature is checked in.  *)
(***************************************************************************)
EXTENDS Naturals, FiniteSets, FiniteSetsExt

CONSTANTS
    Slots,      \* 1 .. the number of pokemon of the spawn
    Pokemon,    \* the addresses of Pokemon objects, numbers from 1
    RateSpawn   \* rateSpawn of config.lua

ASSUME PopulationConstants ==
    /\ Slots \subseteq Pokemon /\ Pokemon \subseteq Nat \ {0} /\ IsFiniteSet(Pokemon)
    /\ RateSpawn \in Nat

VARIABLES
    pokemon,    \* the objects
    spawnedMap, \* <<spawnId, pokemon>>; 0 is the id of those that strayed
    checkSpawnEvent,    \* the spawn has a check under way
    toRelease,  \* ToReleaseCreatures: how often each is in it
    refs        \* referenceCounter

popVars == <<pokemon, spawnedMap, checkSpawnEvent, toRelease, refs>>

Object == [life : {"free", "placed", "removed"}, healthy : BOOLEAN, strayed : BOOLEAN,
           creatureCheck : BOOLEAN, listed : BOOLEAN]
NoObject == [life |-> "free", healthy |-> TRUE, strayed |-> FALSE,
             creatureCheck |-> FALSE, listed |-> FALSE]

TypeOKPopulation ==
    /\ pokemon \in [Pokemon -> Object]
    /\ spawnedMap \subseteq (Slots \cup {0}) \X Pokemon
    /\ checkSpawnEvent \in BOOLEAN
    /\ toRelease \in [Pokemon -> 0 .. 2]
    /\ refs \in [Pokemon -> 0 .. 4]

Placed(m) == pokemon[m].life = "placed"
Filled == {e[1] : e \in spawnedMap}
Holds(m) == IF \E e \in spawnedMap : e[2] = m THEN 1 ELSE 0

\* Spawn::startup: those that can be placed are; no check is begun.
PopInit ==
    \E S \in SUBSET Slots :
        /\ pokemon = [m \in Pokemon |-> IF m \in S THEN [NoObject EXCEPT !.life = "placed"] ELSE NoObject]
        /\ spawnedMap = {<<m, m>> : m \in S}
        /\ checkSpawnEvent = FALSE
        /\ toRelease = [m \in Pokemon |-> 0]
        /\ refs = [m \in Pokemon |-> IF m \in S THEN 2 ELSE 0]

-----------------------------------------------------------------------------
(* The steps the handlers are made of *)

AddCreatureCheck(p) == [p EXCEPT !.creatureCheck = TRUE, !.listed = TRUE]
RemoveCreatureCheck(p) == [p EXCEPT !.creatureCheck = p.creatureCheck /\ ~p.listed]

SetIdle(p, idle) ==
    IF p.life # "placed" \/ ~p.healthy THEN p
    ELSE IF idle THEN RemoveCreatureCheck(p) ELSE AddCreatureCheck(p)

\* How many references an object has gained by a step on the list.
Listed(p, q) == IF q.listed /\ ~p.listed THEN 1 ELSE 0

Update(m, q) == /\ pokemon' = [pokemon EXCEPT ![m] = q]
                /\ refs' = [refs EXCEPT ![m] = @ + Listed(pokemon[m], q)]
                /\ UNCHANGED <<spawnedMap, checkSpawnEvent, toRelease>>

\* Game::removeCreature: its spawn is told while it is in the map still.
Removed(p) == [SetIdle(p, TRUE) EXCEPT !.life = "removed", !.creatureCheck = @ /\ ~p.listed]

\* Game::cleanup: the references are given back, the last one deletes.
Deleted(ps, ref) == [m \in Pokemon |-> IF ref[m] = 0 THEN NoObject ELSE ps[m]]

-----------------------------------------------------------------------------
(* The handlers *)

\* Creatures come and go, conditions begin and end: updateIdleStatus.
IdleStatus ==
    \E m \in Pokemon, idle \in BOOLEAN : Placed(m) /\ Update(m, SetIdle(pokemon[m], idle))

HurtNotWoken(p) == [p EXCEPT !.healthy = FALSE]

\* Pokemon::changeHealth by more than it has: it is made to think first.
Hurt(p) == [SetIdle(p, FALSE) EXCEPT !.healthy = FALSE]

ChangeHealth ==
    \E m \in Pokemon :
        /\ Placed(m)
        /\ \/ Update(m, Hurt(pokemon[m]))
           \/ Update(m, [SetIdle(pokemon[m], FALSE) EXCEPT !.healthy = TRUE])

Stray == \E m \in Pokemon : Placed(m) /\ Update(m, [pokemon[m] EXCEPT !.strayed = ~@])

\* By a script, or because it is out of range.
RemovePokemon ==
    \E m \in Pokemon :
        /\ Placed(m)
        /\ pokemon' = [pokemon EXCEPT ![m] = Removed(@)]
        /\ toRelease' = [toRelease EXCEPT ![m] = @ + 1]
        /\ checkSpawnEvent' = (checkSpawnEvent \/ Holds(m) = 1)
        /\ UNCHANGED <<spawnedMap, refs>>

\* checkCreatures for the bucket B: those that have lost their health die
\* (onDeath), those that idle or are gone leave the list; then cleanup.
CheckCreatures(B) ==
    LET dead == {m \in B : pokemon[m].creatureCheck /\ ~pokemon[m].healthy}
        out == {m \in B : ~pokemon[m].creatureCheck}
        given == [m \in Pokemon |->
            refs[m] - toRelease[m] - (IF m \in dead \cup out THEN 1 ELSE 0)]
    IN  /\ refs' = given
        /\ pokemon' = Deleted([m \in Pokemon |->
                            IF m \in dead THEN Removed(pokemon[m])
                            ELSE IF m \in out THEN [pokemon[m] EXCEPT !.listed = FALSE]
                            ELSE pokemon[m]], given)
        /\ toRelease' = [m \in Pokemon |-> 0]
        /\ checkSpawnEvent' = (checkSpawnEvent \/ \E m \in dead : Holds(m) = 1)
        /\ UNCHANGED spawnedMap

InList == {m \in Pokemon : pokemon[m].listed}

\* Spawn::cleanup
CleanedMapKeepsRemoved ==
    {<<IF pokemon[e[2]].strayed THEN 0 ELSE e[1], e[2]>> : e \in spawnedMap}

CleanedMap ==
    {<<IF pokemon[e[2]].strayed THEN 0 ELSE e[1], e[2]>> :
        e \in {f \in spawnedMap : pokemon[f[2]].life # "removed"}}

\* The first `rate' of the slots that are due are tried, whether or not their
\* pokemon can be placed.
FirstOf(S) ==
    LET rate == IF RateSpawn = 0 THEN 1 ELSE RateSpawn
    IN  {s \in S : Cardinality({t \in S : t < s}) < rate}

Nth(S, n) == CHOOSE x \in S : Cardinality({y \in S : y < x}) = n

\* What is left of the spawn, with a new pokemon for each of the slots in put: the
\* n-th of them is at the n-th free address.
SpawnPokemon(put) ==
    LET free == {m \in Pokemon : pokemon[m].life = "free"}
        dropped == {m \in Pokemon : Holds(m) = 1 /\ pokemon[m].life = "removed"}
        new == {<<Nth(put, n), Nth(free, n)>> : n \in 0 .. Cardinality(put) - 1}
        born == {e[2] : e \in new}
        held == [m \in Pokemon |->
            IF m \in born THEN 3 ELSE refs[m] - (IF m \in dropped THEN 1 ELSE 0)]
    IN  /\ Cardinality(put) <= Cardinality(free)
        /\ spawnedMap' = CleanedMap \cup new
        /\ refs' = held
        /\ pokemon' = [m \in Pokemon |->
               IF m \in born THEN AddCreatureCheck([NoObject EXCEPT !.life = "placed"])
               ELSE Deleted(pokemon, held)[m]]

\* Spawn::checkSpawn.  Which slots are due, and where there is room, is arbitrary.
CheckSpawn ==
    /\ checkSpawnEvent
    /\ \E due \in SUBSET (Slots \ {e[1] : e \in CleanedMap}) :
           \E put \in SUBSET FirstOf(due) : SpawnPokemon(put)
    /\ checkSpawnEvent' = (Cardinality(spawnedMap') < Cardinality(Slots))
    /\ UNCHANGED toRelease

PopNext == \/ IdleStatus \/ ChangeHealth \/ Stray \/ RemovePokemon \/ CheckSpawn
           \/ \E B \in SUBSET InList : CheckCreatures(B)

PopSpec == PopInit /\ [][PopNext]_popVars

-----------------------------------------------------------------------------
(* Properties *)

\* An object lives exactly as long as something holds it: whatever dies, idles,
\* strays or is removed in whatever order, every reference is counted and no list
\* has a pokemon that was deleted.
PokemonHeld ==
    /\ TypeOKPopulation
    /\ \A m \in Pokemon :
        /\ refs[m] = Holds(m) + toRelease[m] + (IF pokemon[m].listed THEN 1 ELSE 0)
                     + (IF Placed(m) THEN 1 ELSE 0)
        /\ refs[m] = 0 <=> pokemon[m].life = "free"

\* A pokemon that has no health left is among those that are checked, so that it
\* dies, even when nobody it could see has hurt it.  A spawn never has more
\* pokemon than slots, though those that stray give their slots up (with a spawn
\* rate of at most 1 per check), and while it holds one that is gone it has a
\* check to come.
SpawnGoesOn ==
    /\ \A m \in Pokemon : Placed(m) /\ ~pokemon[m].healthy =>
           pokemon[m].listed /\ pokemon[m].creatureCheck
    /\ RateSpawn <= 1 => Cardinality(spawnedMap) <= Cardinality(Slots)
    /\ (\E e \in spawnedMap : pokemon[e[2]].life = "removed") => checkSpawnEvent
=============================================================================
