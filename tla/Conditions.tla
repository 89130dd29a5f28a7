----------------------------- MODULE Conditions -----------------------------
(***************************************************************************)
(* The conditions of one creature (condition.cpp, creature.cpp): each      *)
(* changes its speed, skills or looks when it starts and must take exactly *)
(* that back when it ends, however it was renewed in between.  While the   *)
(* creature walks, haste and the end of a paralysis are put off to an      *)
(* event, which acts on whatever conditions there are by then.             *)
(*                                                                         *)
(* Left out: conditions without such an effect (cooldowns, damage, light), *)
(* immunities, and scripts that refuse an outfit.                          *)
(***************************************************************************)
EXTENDS Integers, Sequences, SequencesExt

CONSTANTS
    ConditionType,  \* "haste", "paralyze", "attributes", "outfit", "sleep"
    ConditionId,    \* "combat", or the slot of an item
    BaseSpeed,
    Values,         \* speedDelta or skill, by type; 0 for the others
    MaxConditions, MaxDelayed   \* bounds

ASSUME ConditionConstants ==
    /\ ConditionType \subseteq {"haste", "paralyze", "attributes", "outfit", "sleep"}
    /\ BaseSpeed \in Nat /\ Values \in [ConditionType -> SUBSET Int]

Condition == {c \in [type : ConditionType, id : ConditionId, value : UNION {Values[t] : t \in ConditionType},
                     permanent : BOOLEAN, over : BOOLEAN] :
                  /\ c.value \in Values[c.type]
                  /\ (c.permanent => ~c.over /\ c.id # "combat")
                  /\ (c.type = "sleep" => c.id = "combat")}    \* only a move sends to sleep

VARIABLES
    kind,       \* "player" or "pokemon"
    body,       \* conditions, in their order; speed (varSpeed), skill (varSkills) and looks
    walking,    \* getWalkDelay() > 0
    delayed,    \* scheduled forceAddCondition and forceRemoveCondition
    slept       \* auxiliary: it has been asleep and hasted or paralysed at once

conditionVars == <<kind, body, walking, delayed, slept>>

TypeOKConditions ==
    /\ kind \in {"player", "pokemon"} /\ walking \in BOOLEAN /\ slept \in BOOLEAN
    /\ body \in [conditions : Seq(Condition), speed : Int, skill : Int,
                 looks : {"default", "outfit", "corpse"}]
    /\ delayed \in [add : SUBSET Condition, remove : SUBSET ConditionType]

-----------------------------------------------------------------------------
(* What a condition does *)

Speedy == {"haste", "paralyze"}

StartCondition(b, c) ==
    LET d == [b EXCEPT !.conditions = Append(@, c)]
    IN  CASE c.type \in Speedy     -> [d EXCEPT !.speed = @ + c.value]
          [] c.type = "attributes" -> [d EXCEPT !.skill = @ + c.value]
          [] c.type = "outfit"     -> [d EXCEPT !.looks = "outfit"]
          [] c.type = "sleep"      -> [d EXCEPT !.speed = -BaseSpeed, !.looks = "corpse"]

EndCondition(b, c) ==
    CASE c.type \in Speedy     -> [b EXCEPT !.speed = @ - c.value]
      [] c.type = "attributes" -> [b EXCEPT !.skill = @ - c.value]
      [] c.type = "outfit"     -> [b EXCEPT !.looks = "default"]
      [] c.type = "sleep"      -> [b EXCEPT !.speed = @ + BaseSpeed, !.looks = "default"]

\* The loops over the list: one after the other is erased and ended, or stays.
EndAll(b, ending) ==
    LET ended[n \in 0 .. Len(b.conditions)] ==
            IF n = 0 THEN [b EXCEPT !.conditions = <<>>]
            ELSE IF b.conditions[n] \in ending THEN EndCondition(ended[n - 1], b.conditions[n])
            ELSE [ended[n - 1] EXCEPT !.conditions = Append(@, b.conditions[n])]
    IN  ended[Len(b.conditions)]

OfType(b, type) == {c \in ToSet(b.conditions) : c.type = type}

\* addCondition of a condition that is there already: with its new value the old
\* one is taken back first.  A permanent one is not replaced by a timed one.
RenewedTwice(b, i, c) ==
    IF b.conditions[i].permanent /\ ~c.permanent
    THEN b
    ELSE [b EXCEPT !.conditions[i] = c,
                   !.speed = IF c.type \in Speedy THEN @ + c.value ELSE @,
                   !.skill = IF c.type = "attributes" THEN @ + c.value ELSE @,
                   !.looks = IF c.type = "outfit" THEN "outfit" ELSE @]

Renewed(b, i, c) ==
    IF b.conditions[i].permanent /\ ~c.permanent
    THEN b
    ELSE [b EXCEPT !.conditions[i] = c,
                   !.speed = IF c.type \in Speedy THEN @ + c.value - b.conditions[i].value ELSE @,
                   !.skill = IF c.type = "attributes" THEN @ + c.value - b.conditions[i].value ELSE @,
                   !.looks = IF c.type = "outfit" THEN "outfit" ELSE @]

Has(b, type) == \E c \in ToSet(b.conditions) : c.type = type /\ ~c.over

-----------------------------------------------------------------------------
(* Creature *)

Asleep(b) == \E c \in ToSet(b.conditions) : c.type = "sleep"

Becomes(b) ==
    /\ body' = b
    /\ slept' = (slept \/ (Asleep(b) /\ \E c \in ToSet(b.conditions) : c.type \in Speedy))
    /\ UNCHANGED kind

\* removeCondition(type): a paralysis goes when the step is over.
RemoveType(b, type, D) ==
    IF type = "paralyze" /\ walking /\ OfType(b, type) # {}
    THEN Becomes(b) /\ delayed' = [D EXCEPT !.remove = @ \cup {type}]
    ELSE Becomes(EndAll(b, OfType(b, type))) /\ delayed' = D

\* onAddCondition; Pokemon has its own, which does not
Added(b, type, D) ==
    IF kind = "player" /\ type = "paralyze" /\ Has(b, "haste") THEN RemoveType(b, "haste", D)
    ELSE IF kind = "player" /\ type = "haste" /\ Has(b, "paralyze") THEN RemoveType(b, "paralyze", D)
    ELSE Becomes(b) /\ delayed' = D

Same(b, c) == {i \in DOMAIN b.conditions : b.conditions[i].type = c.type /\ b.conditions[i].id = c.id}

Add(c, D) ==
    IF Same(body, c) # {}
    THEN \E i \in Same(body, c) :
           /\ \/ Becomes(Renewed(body, i, c))
              \/ c.type \notin Speedy /\ ~body.conditions[i].over /\ Becomes(body)   \* it lasts longer
           /\ delayed' = D
    ELSE Added(StartCondition(body, c), c.type, D)

AddCondition(c) ==
    /\ Len(body.conditions) < MaxConditions /\ Cardinality(delayed.add) < MaxDelayed
    /\ ~c.over /\ (c.type = "attributes" => kind = "player")
    /\ IF c.type = "haste" /\ walking /\ Has(body, "paralyze")
       THEN delayed' = [delayed EXCEPT !.add = @ \cup {c}] /\ UNCHANGED <<kind, body, slept>>
       ELSE Add(c, delayed)
    /\ UNCHANGED walking

ForceAddCondition == \E c \in delayed.add :
    Add(c, [delayed EXCEPT !.add = @ \ {c}]) /\ UNCHANGED walking

ForceRemoveCondition == \E type \in delayed.remove :
    /\ Becomes(EndAll(body, OfType(body, type)))
    /\ delayed' = [delayed EXCEPT !.remove = @ \ {type}]
    /\ UNCHANGED walking

\* removeCondition(type, id): what an item had given goes with it; a cure
RemoveCondition(type, id) ==
    LET hit == {c \in OfType(body, type) : c.id = id}
    IN  /\ hit # {}
        /\ IF type = "paralyze" /\ walking
           THEN delayed' = [delayed EXCEPT !.remove = @ \cup {type}] /\ UNCHANGED <<kind, body, slept>>
           ELSE Becomes(EndAll(body, hit)) /\ UNCHANGED delayed
        /\ UNCHANGED walking

\* executeConditions
ConditionEnds ==
    /\ \E c \in ToSet(body.conditions) : c.over
    /\ Becomes(EndAll(body, {c \in ToSet(body.conditions) : c.over}))
    /\ UNCHANGED <<walking, delayed>>

\* A pokemon transforms, or a script cleans: as far as the first condition that
\* is put off.
CleanConditions ==
    LET stays == {i \in DOMAIN body.conditions : walking /\ body.conditions[i].type \in {"paralyze", "sleep"}}
        first == IF stays = {} THEN Len(body.conditions) + 1 ELSE CHOOSE i \in stays : \A j \in stays : i <= j
    IN  /\ body.conditions # <<>>
        /\ Becomes(EndAll(body, {body.conditions[i] : i \in 1 .. first - 1}))
        /\ delayed' = IF stays = {} THEN delayed
                      ELSE [delayed EXCEPT !.remove = @ \cup {body.conditions[first].type}]
        /\ UNCHANGED walking

\* Player::death: what is persistent ends.
Death ==
    /\ kind = "player" /\ body.conditions # <<>>
    /\ Becomes(EndAll(body, {c \in ToSet(body.conditions) : ~c.permanent /\ c.id = "combat"}))
    /\ UNCHANGED <<walking, delayed>>

TimeIsUp == \E i \in DOMAIN body.conditions :
    /\ ~body.conditions[i].permanent /\ ~body.conditions[i].over
    /\ body' = [body EXCEPT !.conditions[i].over = TRUE]
    /\ UNCHANGED <<kind, walking, delayed, slept>>

Steps == walking' = ~walking /\ UNCHANGED <<kind, body, delayed, slept>>

ConditionsInit ==
    /\ kind \in {"player", "pokemon"}
    /\ body = [conditions |-> <<>>, speed |-> 0, skill |-> 0, looks |-> "default"]
    /\ walking = FALSE /\ delayed = [add |-> {}, remove |-> {}] /\ slept = FALSE

ConditionsNext ==
    \/ \E c \in Condition : AddCondition(c)
    \/ \E type \in ConditionType, id \in ConditionId : RemoveCondition(type, id)
    \/ ForceAddCondition \/ ForceRemoveCondition \/ ConditionEnds
    \/ CleanConditions \/ Death \/ TimeIsUp \/ Steps

ConditionsSpec == ConditionsInit /\ [][ConditionsNext]_conditionVars

-----------------------------------------------------------------------------
(* Properties *)

SpeedBy(c) == IF c.type \in Speedy THEN c.value ELSE IF c.type = "sleep" THEN -BaseSpeed ELSE 0
SkillBy(c) == IF c.type = "attributes" THEN c.value ELSE 0

SpeedOf(list) == SumFunctionOnSet([i \in DOMAIN list |-> SpeedBy(list[i])], DOMAIN list)
SkillOf(list) == SumFunctionOnSet([i \in DOMAIN list |-> SkillBy(list[i])], DOMAIN list)

\* Whatever was added, renewed, put off, cured or cut short by death: the changes
\* that remain are those of the conditions that remain.  A creature that falls
\* asleep while it is hasted or paralysed, or is so in its sleep, is excepted: the
\* sleep takes its whole speed and gives back the base speed only.
ConditionsAccounted ==
    /\ TypeOKConditions
    /\ ~slept => body.speed = SpeedOf(body.conditions)
    /\ body.skill = SkillOf(body.conditions)
    /\ body.looks # "default" => \E c \in ToSet(body.conditions) : c.type \in {"outfit", "sleep"}
=============================================================================
