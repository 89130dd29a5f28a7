------------------------------- MODULE Targets -------------------------------
(***************************************************************************)
(* Whom the creatures see, attack and follow (pokemon.cpp, creature.cpp,   *)
(* game.cpp).  A pokemon keeps a list of the opponents and one of the      *)
(* friends it has seen appear, come or leave, and a counted reference to   *)
(* each; whom a creature attacks and follows it knows by a pointer that    *)
(* counts nothing.  A creature that is removed lives on for as long as     *)
(* something counts it.  A wild pokemon without a target is idle: it is    *)
(* not checked, and does not think, until an event wakes it.  Who has no   *)
(* health left dies when it is checked next.                               *)
(*                                                                         *)
(* The spectators of an event handle it one after the other, in the order  *)
(* of a hash set.  The pokemon of a trainer are persistent: their objects  *)
(* stay when they are called back, and are not counted here.               *)
(*                                                                         *)
(* Left out: floors, invisible creatures, conditions (they keep a pokemon  *)
(* awake), peaceful kinds of pokemon, parties, orders to a pokemon to stay *)
(* or to go somewhere, pokemon summoned by scripts, the care for those who *)
(* fainted, and the paths: whether there is one is chosen whenever it is   *)
(* asked.  A trainer sees as far as a pokemon, and a teleport succeeds.  No*)
(* two creatures are in the same list of checkCreatures.                   *)
(***************************************************************************)
EXTENDS Integers, FiniteSets, Sequences, SequencesExt

CONSTANTS
    Wild, Tame, Human,      \* pokemon of the map, pokemon of trainers, and these
    Places,                 \* the map: 1 .. Places in a row
    Haven,                  \* the places of the protection zone
    Home, Ranges,           \* of each wild pokemon: masterPos, and where it may be
    View, Viewport,         \* how far a creature sees, and how far away are spectators
    LeashLength,            \* TELEPORT_TO_PLAYER_TILES
    HashOrder,              \* the creatures in a sequence
    Chase,                  \* chaseMode of the players
    NoCreature

Counted == Wild \cup Human
Wilds == Wild \cup Tame
Creatures == Counted \cup Tame
Where == 1 .. Places

ASSUME TargetConstants ==
    /\ Wild \cap Tame = {} /\ Wild \cap Human = {} /\ Tame \cap Human = {}
    /\ Places \in Nat /\ Haven \subseteq Where /\ NoCreature \notin Creatures
    /\ Home \in [Wild -> Where \ Haven] /\ Ranges \in [Wild -> SUBSET Where]
    /\ Chase \in BOOLEAN /\ View \in Nat /\ Viewport \in Nat /\ LeashLength \in Nat
    /\ View <= Viewport /\ LeashLength <= View
    /\ IsFiniteSet(Creatures) /\ HashOrder \in Seq(Creatures)
    /\ Range(HashOrder) = Creatures /\ Len(HashOrder) = Cardinality(Creatures)

VARIABLE field  \* a record: at, here (in the game), gone (isInternalRemoved), fainted, master,
                \* attacked, followed, targets, friends, idle, checked (creatureCheck), listed
                \* (inCheckCreaturesVector), refs, released (ToReleaseCreatures), free (no
                \* object) and, auxiliary, stale and overlooked (see Noticed and InSight)

Near(w, a, b, n) == w.at[a] - w.at[b] \in -n .. n
Sees(w, a, b) == Near(w, a, b, View)
Summons(w, c) == {t \in Tame : w.master[t] = c}
IsSummon(w, p) == w.master[p] # NoCreature

\* The player a creature is or belongs to
PlayerOf(w, c) == IF c \in Human THEN c ELSE w.master[c]

\* There are two orders of the spectators: any two of them meet in both.
Orders == {HashOrder, Reverse(HashOrder)}
Turn(order, c) == CHOOSE k \in 1 .. Len(order) : order[k] = c

-----------------------------------------------------------------------------
(* References *)

Inc(w, c) == IF c \in Counted THEN [w EXCEPT !.refs[c] = @ + 1] ELSE w
Dec(w, c) == IF c \in Counted THEN [w EXCEPT !.refs[c] = @ - 1] ELSE w

AddFriend(w, p, c) ==
    IF c \in w.friends[p] THEN w ELSE Inc([w EXCEPT !.friends[p] = @ \cup {c}], c)
RemoveFriend(w, p, c) ==
    IF c \in w.friends[p] THEN Dec([w EXCEPT !.friends[p] = @ \ {c}], c) ELSE w
AddTarget(w, p, c) ==
    IF c \in w.targets[p] THEN w ELSE Inc([w EXCEPT !.targets[p] = @ \cup {c}], c)
RemoveTarget(w, p, c) ==
    IF c \in w.targets[p] THEN Dec([w EXCEPT !.targets[p] = @ \ {c}], c) ELSE w

\* The lists of p become t and f, smaller ones.
Trimmed(w, p, t, f) ==
    [w EXCEPT !.targets[p] = t, !.friends[p] = f,
              !.refs = [c \in Counted |-> w.refs[c]
                          - (IF c \in w.targets[p] \ t THEN 1 ELSE 0)
                          - (IF c \in w.friends[p] \ f THEN 1 ELSE 0)]]

\* clearTargetList and clearFriendList, which are called together
ListsCleared(w, p) == Trimmed(w, p, {}, {})

Fresh(w, c) ==
    [w EXCEPT !.free = @ \cup {c}, !.gone = @ \ {c}, !.fainted = @ \ {c}, !.stale = @ \ {c},
              !.overlooked = @ \ {c}, !.attacked[c] = NoCreature, !.followed[c] = NoCreature,
              !.at[c] = 1, !.idle[c] = TRUE]

\* ~Pokemon and ~Creature
Deleted(w, c) ==
    IF c \in Wild
    THEN Fresh(ListsCleared(w, c), c)
    ELSE Fresh([w EXCEPT !.master = [t \in Wilds |-> IF w.master[t] = c THEN NoCreature ELSE w.master[t]],
                         !.attacked = [a \in Creatures |-> IF a \in Summons(w, c) THEN NoCreature
                                                           ELSE w.attacked[a]]], c)

\* Whom c attacks and follows is there to be seen.
Sound(w, c) ==
    {w.attacked[c], w.followed[c]} \ {NoCreature} \subseteq {x \in w.here : Sees(w, c, x)}

Unused(w) == {c \in Counted \ w.free : w.refs[c] = 0}
OneDeleted(w) == IF Unused(w) = {} THEN w ELSE Deleted(w, CHOOSE c \in Unused(w) : TRUE)
Recovered(w) == [w EXCEPT !.stale = {c \in @ : c \notin w.here \/ ~Sound(w, c)}]

\* decrementReferenceCounter deletes what nothing counts any more.
Swept(w) ==
    LET swept[n \in 0 .. Cardinality(Counted)] ==
            IF n = 0 THEN w ELSE OneDeleted(swept[n - 1])
    IN  Recovered(swept[Cardinality(Counted)])

\* Game::cleanup
Cleanup(w) ==
    [w EXCEPT !.released = {},
              !.refs = [c \in Counted |-> IF c \in w.released THEN w.refs[c] - 1 ELSE w.refs[c]]]

-----------------------------------------------------------------------------
(* Idle or not *)

AddCreatureCheck(w, c) ==
    IF c \in w.listed THEN [w EXCEPT !.checked = @ \cup {c}]
    ELSE Inc([w EXCEPT !.checked = @ \cup {c}, !.listed = @ \cup {c}], c)

RemoveCreatureCheck(w, c) == [w EXCEPT !.checked = @ \ {c}]

SetIdle(w, p, idle) ==
    IF p \in w.gone \cup w.fainted THEN w
    ELSE IF idle
    THEN RemoveCreatureCheck(ListsCleared([w EXCEPT !.idle[p] = TRUE], p), p)
    ELSE AddCreatureCheck([w EXCEPT !.idle[p] = FALSE], p)

UpdateIdleStatus(w, p) == SetIdle(w, p, ~IsSummon(w, p) /\ w.targets[p] = {})

-----------------------------------------------------------------------------
(* Attack and follow *)

\* Creature::setAttackedCreature, which the summons imitate if they see it too;
\* a player who attacks nobody follows nobody.
SetAttackedCreature(w, c, x) ==
    IF x # NoCreature /\ ~Sees(w, c, x)
    THEN [w EXCEPT !.attacked[c] = NoCreature]
    ELSE LET doing == {c} \cup Summons(w, c)
         IN  [w EXCEPT !.attacked = [a \in Creatures |->
                                       IF a \notin doing THEN w.attacked[a]
                                       ELSE IF x # NoCreature /\ ~Sees(w, a, x) THEN NoCreature ELSE x],
                       !.followed[c] = IF c \in Human /\ x = NoCreature THEN NoCreature ELSE @]

\* A player who cannot follow stops the attack too.
SetFollowCreature(w, c, x) ==
    IF x = NoCreature \/ w.followed[c] = x \/ Sees(w, c, x) THEN [w EXCEPT !.followed[c] = x]
    ELSE IF c \in Human THEN SetAttackedCreature(w, c, NoCreature)
    ELSE [w EXCEPT !.followed[c] = NoCreature]

Unfollowed(w, c, x) == IF w.followed[c] = x THEN [w EXCEPT !.followed[c] = NoCreature] ELSE w
OnCreatureDisappear(w, c, x) ==
    Unfollowed(IF w.attacked[c] = x THEN SetAttackedCreature(w, c, NoCreature) ELSE w, c, x)

IsTarget(w, x) ==
    /\ x \notin w.gone /\ w.at[x] \notin Haven
    /\ x \in Tame /\ IsSummon(w, x) => w.at[w.master[x]] \notin Haven

\* The return value of setAttackedCreature is not looked at.
SelectTarget(w, p, x) ==
    IF x \in w.targets[p] /\ IsTarget(w, x)
    THEN SetFollowCreature(SetAttackedCreature(w, p, x), p, x)
    ELSE w

-----------------------------------------------------------------------------
(* What a pokemon notices *)

IsFriend(w, p, c) ==
    IF IsSummon(w, p) THEN PlayerOf(w, c) = w.master[p]
                      ELSE c \in Wilds /\ ~IsSummon(w, c)
IsOpponent(w, p, c) ==
    IF IsSummon(w, p) THEN c # w.master[p] ELSE PlayerOf(w, c) # NoCreature

Befriended(w, p, c) == IF IsFriend(w, p, c) THEN AddFriend(w, p, c) ELSE w
Targeted(w, p, c) == IF IsOpponent(w, p, c) THEN AddTarget(w, p, c) ELSE w
OnCreatureFound(w, p, c) == UpdateIdleStatus(Targeted(Befriended(w, p, c), p, c), p)

Forgotten(w, p, c) ==
    IF ~IsOpponent(w, p, c) THEN w
    ELSE IF w.targets[p] \subseteq {c} THEN UpdateIdleStatus(RemoveTarget(w, p, c), p)
    ELSE RemoveTarget(w, p, c)
OnCreatureLeave(w, p, c) ==
    Forgotten(IF IsFriend(w, p, c) THEN RemoveFriend(w, p, c) ELSE w, p, c)

Visible(w, p, l) == {c \in l : c \notin w.fainted /\ Sees(w, p, c)}
Looks(w, p, c) ==
    IF c # p /\ c \in w.here /\ Sees(w, p, c) THEN OnCreatureFound(w, p, c) ELSE w
\* In the mutant who can be seen anew is not looked for.
UpdateTargetListTrims(w, p, order) ==
    Trimmed(w, p, Visible(w, p, w.targets[p]), Visible(w, p, w.friends[p]))
UpdateTargetList(w, p, order) ==
    LET looked[n \in 0 .. Len(order)] ==
            IF n = 0
            THEN [Trimmed(w, p, Visible(w, p, w.targets[p]), Visible(w, p, w.friends[p]))
                    EXCEPT !.overlooked = @ \ {p}]
            ELSE Looks(looked[n - 1], p, order[n])
    IN  looked[Len(order)]

LookAround(w, p, order) == UpdateIdleStatus(UpdateTargetList(w, p, order), p)

-----------------------------------------------------------------------------
(* Events, for one spectator c *)

OnCreatureAppear(w, c, x, order) ==
    IF c \notin Wilds THEN w
    ELSE IF c = x THEN LookAround(w, c, order) ELSE OnCreatureFound(w, c, x)

\* A pokemon that goes keeps a master who is going too.
Departs(w, p) ==
    SetIdle(IF w.master[p] \in w.gone THEN w ELSE [w EXCEPT !.master[p] = NoCreature], p, TRUE)
SeenLeaving(w, c, x) ==
    IF c \notin Wilds THEN w ELSE IF c = x THEN Departs(w, c) ELSE OnCreatureLeave(w, c, x)
OnRemoveCreature(w, c, x) == SeenLeaving(OnCreatureDisappear(w, c, x), c, x)

\* Creature::onCreatureMove: c enters a protection zone; it loses sight of whom it
\* follows, or attacks; or one of the two comes from or goes to another zone.
ZoneChanged(w, x, from) == (from \in Haven) # (w.at[x] \in Haven)
Entered(w, c, x, from) ==
    IF c = x /\ ZoneChanged(w, x, from) /\ w.at[x] \in Haven /\ w.attacked[c] # NoCreature
    THEN OnCreatureDisappear(w, c, w.attacked[c]) ELSE w
\* In the mutant c loses whom it follows only by going away itself.
FollowKeptByOthers(w, c, x, f) ==
    IF f # NoCreature /\ x = c /\ ~Sees(w, c, f) THEN OnCreatureDisappear(w, c, f) ELSE w
FollowKept(w, c, x, f) ==
    IF f # NoCreature /\ x \in {f, c} /\ ~Sees(w, c, f) THEN OnCreatureDisappear(w, c, f) ELSE w
AttackKept(w, c, x, a, from) ==
    IF a # NoCreature /\ x \in {a, c} /\ (~Sees(w, c, a) \/ (ZoneChanged(w, x, from) /\ w.at[a] \in Haven))
    THEN OnCreatureDisappear(w, c, a) ELSE w
StillAttacks(w, c, x, from) == AttackKept(w, c, x, w.attacked[c], from)
StillFollows(w, c, x, from) == StillAttacks(FollowKept(w, c, x, w.followed[c]), c, x, from)
SightKept(w, c, x, from) == StillFollows(Entered(w, c, x, from), c, x, from)

\* Pokemon::onCreatureMove, for another one: x came or went, or walks about.
SeenMoving(w, c, x, saw) ==
    UpdateIdleStatus(IF Sees(w, c, x) = saw THEN w
                     ELSE IF saw THEN OnCreatureLeave(w, c, x) ELSE OnCreatureFound(w, c, x), c)

\* A wild one without a quarry takes x for it, and one whose quarry is away may take
\* whom it meets on the way: y stands there.
Prey(w, c, x, y) ==
    IF w.followed[c] = NoCreature THEN {x}
    ELSE {y} \cap {z \in w.here \ {w.followed[c]} : Near(w, c, z, 1) /\ ~Near(w, c, w.followed[c], 1)}
Diverted(w, c, x, y) ==
    IF IsSummon(w, c) \/ ~\E z \in Prey(w, c, x, y) : IsOpponent(w, c, z) THEN w
    ELSE SelectTarget(w, c, CHOOSE z \in Prey(w, c, x, y) : TRUE)

\* Player::onCreatureMove
FollowedBack(w, h) ==
    [w EXCEPT !.followed = [t \in Creatures |->
        IF t \notin Summons(w, h) THEN w.followed[t]
        ELSE IF Sees(w, t, h) \/ w.followed[t] = h THEN h ELSE NoCreature]]

Handled(w, c, x, from, y, order) ==
    IF c \in Human THEN IF c = x THEN FollowedBack(w, c) ELSE w
    ELSE IF c = x THEN LookAround(w, c, order)
    ELSE Diverted(SeenMoving(w, c, x, from - w.at[c] \in -View .. View), c, x, y)
OnCreatureMove(w, c, x, from, y, order) == Handled(SightKept(w, c, x, from), c, x, from, y, order)

-----------------------------------------------------------------------------
(* The game *)

Spectators(w, ps) == {c \in w.here : \E p \in ps : w.at[c] - p \in -Viewport .. Viewport}

\* The rest of Map::moveCreature for x, who is in w where it goes; met says whom each
\* wild pokemon meets.
MoveSeen(w, x, from, near, met, order) ==
    LET told[n \in 0 .. Len(order)] ==
            IF n = 0 THEN w
            ELSE IF order[n] \notin near THEN told[n - 1]
            ELSE OnCreatureMove(told[n - 1], order[n], x, from, met[order[n]], order)
    IN  told[Len(order)]

MovePokemon(w, x, to, met, order) ==
    MoveSeen([w EXCEPT !.at[x] = to], x, w.at[x], Spectators(w, {w.at[x], to}), met, order)

\* teleportToPlayer: a pokemon is brought when its leash has become too long.
Leashed(w, x, met, order) ==
    IF \A t \in Summons(w, x) : Near(w, t, x, LeashLength - 1) THEN w
    ELSE MovePokemon(w, CHOOSE t \in Summons(w, x) : TRUE, w.at[x], met, order)

\* That happens while he himself handles his move: some have done so, others will.
MovePlayer(w, x, to, met, order) ==
    LET from == w.at[x]
        near == Spectators(w, {from, to})
        before == {c \in near : Turn(order, c) < Turn(order, x)}
    IN  MoveSeen(Leashed(MoveSeen([w EXCEPT !.at[x] = to], x, from, before, met, order), x, met, order),
                 x, from, near \ before, met, order)

\* Game::placeCreature
Appearing(w, x, near, order) ==
    LET told[n \in 0 .. Len(order)] ==
            IF n = 0 THEN w
            ELSE IF order[n] \notin near THEN told[n - 1]
            ELSE OnCreatureAppear(told[n - 1], order[n], x, order)
    IN  told[Len(order)]
PlaceCreature(w, x, p, order) ==
    LET v == Inc([w EXCEPT !.at[x] = p, !.here = @ \cup {x}], x)
    IN  [AddCreatureCheck(Appearing(v, x, Spectators(v, {p}), order), x) EXCEPT !.gone = @ \ {x}]

\* Game::removeCreature, without its summons: ReleaseCreature keeps the reference of
\* the game till the next cleanup.  A pokemon that is called back keeps its quarry.
Removing(w, x, near, order) ==
    LET told[n \in 0 .. Len(order)] ==
            IF n = 0 THEN [w EXCEPT !.here = @ \ {x}]
            ELSE IF order[n] \notin near THEN told[n - 1]
            ELSE OnRemoveCreature(told[n - 1], order[n], x)
    IN  told[Len(order)]
RemoveOne(w, x, order) ==
    IF x \notin w.here THEN w
    ELSE RemoveCreatureCheck(
             [Removing(w, x, Spectators(w, {w.at[x]}), order) EXCEPT
                !.gone = @ \cup {x}, !.released = @ \cup ({x} \cap Counted),
                !.stale = @ \cup ({x} \cap Tame)], x)

RemoveCreature(w, x, order) ==
    LET v == RemoveOne(w, x, order)
        his == {t \in Summons(v, x) : t \in v.here}
    IN  IF his = {} THEN v ELSE RemoveOne(v, CHOOSE t \in his : TRUE, order)

-----------------------------------------------------------------------------
(* Actions *)

Nothing == [c \in Creatures |-> NoCreature]

FieldInit ==
    field = [at |-> [c \in Creatures |-> 1], here |-> {}, gone |-> {}, fainted |-> {},
             master |-> [p \in Wilds |-> NoCreature], attacked |-> Nothing, followed |-> Nothing,
             targets |-> [p \in Wilds |-> {}], friends |-> [p \in Wilds |-> {}],
             idle |-> [c \in Creatures |-> TRUE], checked |-> {}, listed |-> {},
             refs |-> [c \in Counted |-> 0], released |-> {}, free |-> Counted,
             stale |-> {}, overlooked |-> {}]

\* Spawn::spawnPokemon, and the login of a player
Appears(x, p, order) ==
    /\ x \in field.free /\ (x \in Wild => p = Home[x])
    /\ field' = PlaceCreature([field EXCEPT !.free = @ \ {x}], x, p, order)

\* Player::gobackPokemon, when it is in its ball
CallOut(h, t, order) ==
    /\ h \in field.here /\ t \notin field.here \cup field.fainted
    /\ Summons(field, h) = {}
    /\ field' = Swept(PlaceCreature(SetFollowCreature([field EXCEPT !.master[t] = h], t, h),
                                    t, field.at[h], order))

\* ... and when it is out
CallBack(h, order) == \E t \in Summons(field, h) :
    /\ h \in field.here /\ t \in field.here
    /\ field' = Swept(RemoveOne(field, t, order))

\* The pokemon of a player who leaves is called back first if the ball is where it should be.
Leaves(h, called, order) ==
    /\ h \in field.here
    /\ LET his == Summons(field, h) \cap field.here
           r == IF called /\ his # {} THEN RemoveOne(field, CHOOSE t \in his : TRUE, order) ELSE field
       IN  field' = Swept(RemoveCreature(r, h, order))

\* checkCreatureWalk, of a pokemon that thinks and of a player; met says whom a wild
\* pokemon finds on its way to another one when x moves.
Encounters(x) ==
    {[c \in Creatures |-> IF c \in Wild THEN m[c] ELSE NoCreature] :
       m \in {m \in [Wild -> Creatures \cup {NoCreature}] : \A p \in Wild :
               m[p] # NoCreature => /\ m[p] \in field.targets[p] \cup {x}
                                    /\ p # x /\ field.followed[p] \notin {NoCreature, m[p]}}}

Walk(x, to, order) ==
    /\ x \in field.here \ field.fainted /\ to - field.at[x] \in {-1, 1}
    /\ x \in Wilds => ~field.idle[x] /\ (to \in Haven => IsSummon(field, x))
    /\ \E met \in Encounters(x) :
         field' = Swept(Cleanup(IF x \in Human THEN MovePlayer(field, x, to, met, order)
                                ELSE MovePokemon(field, x, to, met, order)))

\* changeHealth
Hit(x, faints) ==
    /\ x \in field.here \ field.fainted
    /\ LET r == IF x \in Wilds THEN SetIdle(field, x, FALSE) ELSE field
       IN  field' = IF faints THEN [r EXCEPT !.fainted = @ \cup {x}] ELSE r

\* playerSetAttackedCreature: a pokemon that was called back is still found.
PlayerSetAttackedCreature(h, x) ==
    /\ h \in field.here /\ x \in (field.here \cup (field.gone \cap Tame)) \ {h}
    /\ IF field.at[h] \in Haven \/ field.at[x] \in Haven \/ x \in Summons(field, h)
       THEN field' = Swept(SetAttackedCreature(field, h, NoCreature))
       ELSE LET r == SetAttackedCreature(field, h, x)
            IN  field' = Swept(IF r.attacked[h] = NoCreature THEN r
                               ELSE [r EXCEPT !.followed[h] = IF Chase THEN x ELSE NoCreature,
                                              !.stale = IF x \in field.gone THEN @ \cup {h} \cup Summons(field, h)
                                                        ELSE @])

PlayerCancelAttack(h) ==
    /\ h \in field.here /\ field.attacked[h] # NoCreature
    /\ field' = Swept(SetAttackedCreature(field, h, NoCreature))

PlayerFollowCreature(h, x) ==
    /\ h \in field.here /\ x \in (field.here \cup (field.gone \cap Tame)) \ {h}
    /\ LET r == SetFollowCreature(SetAttackedCreature(field, h, NoCreature), h, x)
       IN  field' = Swept([r EXCEPT !.stale = IF x \in field.gone THEN @ \cup {h} ELSE @])

-----------------------------------------------------------------------------
(* checkCreatures *)

\* One of the candidates is selected: the first of them in this order.
SearchTarget(w, p, order) ==
    LET found == {x \in w.targets[p] \ {w.followed[p]} : IsTarget(w, x)}
    IN  IF found = {} THEN w
        ELSE SelectTarget(w, p, CHOOSE x \in found : \A y \in found : Turn(order, x) <= Turn(order, y))

\* Creature::onThink: whom it cannot see any more is given up (that an object is deleted
\* is nothing it could see: what it reads there is chosen), and a pokemon of a trainer
\* strikes a target off that it finds no path to.
GivesUp(w, c, how) ==
    LET Unseen(x) == /\ x # NoCreature /\ (c \in Wilds => x # w.master[c])
                     /\ x \in w.gone \/ (x \in w.free /\ how = "lost")
        r == IF Unseen(w.followed[c]) THEN OnCreatureDisappear(w, c, w.followed[c]) ELSE w
        s == IF Unseen(r.attacked[c]) THEN OnCreatureDisappear(r, c, r.attacked[c]) ELSE r
    IN  IF c \in Tame /\ how = "lost" /\ s.followed[c] # NoCreature
        THEN RemoveTarget(s, c, s.followed[c]) ELSE s

\* Pokemon::onThink, of one that has a master
ThinkOfMaster(w, t) ==
    LET h == w.master[t]
        a == w.attacked[t]
    IN  IF a # NoCreature
        THEN IF w.followed[t] = a THEN w ELSE SetFollowCreature(w, t, a)
        ELSE IF w.attacked[h] # NoCreature THEN SelectTarget(w, t, w.attacked[h])
        ELSE SetFollowCreature(w, t, h)

\* onThinkTarget: the pokemon before its trainer, and neither where there is peace
ThinkOfTarget(w, p) ==
    LET a == w.attacked[p]
    IN  IF a \in Human /\ Summons(w, a) # {} THEN SelectTarget(w, p, CHOOSE t \in Summons(w, a) : TRUE)
        ELSE IF a \in Tame /\ IsSummon(w, a) /\ w.at[w.master[a]] \in Haven
        THEN LET r == [RemoveTarget(w, p, a) EXCEPT !.attacked[p] = NoCreature, !.followed[p] = NoCreature]
             IN  IF r.targets[p] = {} THEN UpdateIdleStatus(r, p) ELSE r
        ELSE w

\* Pokemon::onThink, of a wild one
ThinkWild(w, p, how, order) ==
    IF how = "flees" THEN RemoveCreature(w, p, order)
    ELSE LET lost == w.targets[p] # {} /\ (w.followed[p] = NoCreature \/ how = "lost")
             r == ThinkOfTarget(IF lost THEN SearchTarget(w, p, order) ELSE w, p)
         IN  IF how = "restless" THEN SearchTarget(r, p, order) ELSE r

\* One that strayed is sent home, and idle there, whoever it sees.
Think(w, c, how, order) ==
    LET r == GivesUp(w, c, how)
    IN  IF c \in Human THEN r
        ELSE IF c \in Wild /\ r.at[c] \notin Ranges[c]
        THEN LET home == SetIdle(MovePokemon(r, c, Home[c], Nothing, order), c, TRUE)
             IN  [home EXCEPT !.overlooked = @ \cup {c}]
        ELSE LET s == UpdateIdleStatus(r, c)
             IN  IF s.idle[c] THEN s
                 ELSE IF IsSummon(s, c) THEN ThinkOfMaster(s, c) ELSE ThinkWild(s, c, how, order)

\* onDeath; a player's pokemon goes back first.
Death(w, c, order) ==
    IF c \in Human
    THEN LET r == IF Summons(w, c) = {} THEN w
                  ELSE RemoveOne(w, CHOOSE t \in Summons(w, c) : TRUE, order)
         IN  RemoveCreature([r EXCEPT !.fainted = @ \ {c}], c, order)
    ELSE LET r == ListsCleared(SetAttackedCreature(w, c, NoCreature), c)
         IN  RemoveCreature([r EXCEPT !.master[c] = NoCreature], c, order)

\* What may come of a check: no path, another target, the hour of the day.
Moods(c) == IF c \in Wild THEN {"calm", "lost", "restless", "flees"} ELSE {"calm", "lost"}

CheckCreature(c, how, order) ==
    /\ c \in field.listed
    /\ field' = Swept(Cleanup(
           IF c \notin field.checked THEN Dec([field EXCEPT !.listed = @ \ {c}], c)
           ELSE IF c \in field.fainted THEN Death(field, c, order)
           ELSE Think(field, c, how, order)))

-----------------------------------------------------------------------------
FieldNext ==
    \/ \E order \in Orders :
         \/ \E x \in Counted, p \in Where : Appears(x, p, order)
         \/ \E h \in Human : \/ \E t \in Tame : CallOut(h, t, order)
                             \/ CallBack(h, order)
                             \/ \E called \in BOOLEAN : Leaves(h, called, order)
         \/ \E x \in Creatures, to \in Where : Walk(x, to, order)
         \/ \E c \in Creatures : \E how \in Moods(c) : CheckCreature(c, how, order)
    \/ \E h \in Human : \/ \E x \in Creatures : PlayerSetAttackedCreature(h, x)
                        \/ PlayerCancelAttack(h)
                        \/ \E x \in Creatures : PlayerFollowCreature(h, x)
    \/ \E x \in Creatures, faints \in BOOLEAN : Hit(x, faints)

FieldSpec == FieldInit /\ [][FieldNext]_field

-----------------------------------------------------------------------------
(* Properties *)

TypeOKTargets ==
    /\ field.here \subseteq Creatures /\ field.free \subseteq Counted
    /\ field.targets \in [Wilds -> SUBSET Creatures] /\ field.friends \in [Wilds -> SUBSET Creatures]
    /\ field.attacked \in [Creatures -> Creatures \cup {NoCreature}]
    /\ field.followed \in [Creatures -> Creatures \cup {NoCreature}]
    /\ field.refs \in [Counted -> Nat]

\* Every reference is counted once, and nothing else is.
RefsBalanced == \A c \in Counted :
    field.refs[c] = Cardinality({p \in Wilds : c \in field.targets[p]})
                  + Cardinality({p \in Wilds : c \in field.friends[p]})
                  + (IF c \in field.here \cup field.released THEN 1 ELSE 0)
                  + (IF c \in field.listed THEN 1 ELSE 0)

\* A wild pokemon that is out of the game holds on to nobody.
LetsGo == \A p \in Wild \ field.here : field.targets[p] = {} /\ field.friends[p] = {}

\* Who must be checked is: players, who has fainted and will die of the check, and
\* who is not idle.
Attended == \A c \in field.here :
    c \in field.fainted \cup Human \/ ~field.idle[c] => c \in field.checked \cap field.listed

\* Whom a creature attacks or follows is in the game and in its sight: an event told
\* it of every other case.  Not so after it was itself called back, or took on a
\* pokemon that was (or its trainer did, whom it imitates), until it has a sound
\* quarry again (stale).
InSight == \A c \in field.here \ field.stale : Sound(field, c)

\* No creature is forgotten: the counts agree with the lists, whoever goes lets the
\* others go, who needs it is checked, and no pointer outlives what it points at.
TargetsSound == TypeOKTargets /\ RefsBalanced /\ LetsGo /\ Attended /\ InSight

\* Whatever the order of moves, deaths, calls and thoughts, a wild pokemon has every
\* player it can see for a target, and so is awake: unless it was just sent home,
\* when it goes idle without a look at who is there (overlooked).
Noticed == \A p \in (Wild \cap field.here) \ (field.fainted \cup field.overlooked) :
    \A h \in (Human \cap field.here) \ field.fainted : Sees(field, p, h) => h \in field.targets[p]
=============================================================================
