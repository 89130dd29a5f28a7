------------------------------- MODULE Decay -------------------------------
(***************************************************************************)
(* Items that decay (game.cpp, item.cpp).  Game keeps them in a wheel of   *)
(* four buckets, of which checkDecay visits one every 250 ms; an entry of  *)
(* the wheel holds a reference.  Scripts and equipment turn items into     *)
(* others (setID) and start their decay at any time, whether or not the    *)
(* wheel has an entry for them.                                            *)
(*                                                                         *)
(* Time is counted in eighths of a second.  transformItem may also replace *)
(* the object by a new one, which is a removal and a creation here; that a *)
(* transformation or a removal fails is left out.                          *)
(***************************************************************************)
EXTENDS Integers, Functions

CONSTANTS
    Decaying,   \* the addresses of Item objects
    Kind,       \* item types: [time |-> decayTime, stop |-> stopTime, to |-> decayTo]
    Never, Away,    \* decayTo is -1, decayTo is 0
    Durations,  \* what items loaded from the map or the database have left
    MaxEntries  \* bound: decay is not started again for an item with so many

BUCKETS == 4    \* EVENT_DECAY_BUCKETS
INTERVAL == 2   \* EVENT_DECAYINTERVAL
ROUND == BUCKETS * INTERVAL
NoDuration == -1

\* In items.xml no type has both stopduration and duration, and what an item decays
\* into does not stop the time, and has a time of its own or does not decay (but for
\* the corpse 8273, which nothing makes).
ASSUME DecayConstants ==
    /\ {Never, Away} \cap DOMAIN Kind = {} /\ Never # Away /\ Durations \subseteq Nat
    /\ \A k \in DOMAIN Kind :
         /\ Kind[k] \in [time : Nat, stop : BOOLEAN, to : DOMAIN Kind \cup {Never, Away}]
         /\ Kind[k].stop => Kind[k].time = 0
         /\ Kind[k].time # 0 /\ Kind[k].to \in DOMAIN Kind =>
              LET next == Kind[Kind[k].to] IN ~next.stop /\ (next.time = 0 => next.to = Never)

VARIABLES
    items,      \* the objects; at[b] and queued count the entries for one
    lastBucket

decayVars == <<items, lastBucket>>

NoItemObject == [alive |-> FALSE]

TypeOKDecay ==
    /\ lastBucket \in 0 .. BUCKETS - 1
    /\ \A i \in Decaying : items[i] # NoItemObject =>
         items[i] \in [alive : {TRUE}, kind : DOMAIN Kind, duration : Nat \cup {NoDuration},
                       decaying : BOOLEAN, placed : BOOLEAN, refs : Nat, release : Nat,
                       queued : Nat, at : [0 .. BUCKETS - 1 -> Nat], left : Int]

DecayInit == /\ items = [i \in Decaying |-> NoItemObject]
             /\ lastBucket = 0

Entries(it) == it.queued + SumFunction(it.at)

-----------------------------------------------------------------------------
(* The steps, as functions of an item *)

Release(it) == [it EXCEPT !.release = @ + 1]    \* Game::ReleaseItem

\* Item::setID
SetID(it, k) ==
    LET prev == Kind[it.kind]
        next == Kind[k]
        bare == IF next.time = 0 /\ ~next.stop /\ next.to = Never
                THEN [it EXCEPT !.kind = k, !.decaying = FALSE, !.duration = NoDuration]
                ELSE [it EXCEPT !.kind = k]
    IN  IF next.time > 0 /\ (~prev.stop \/ bare.duration = NoDuration)
        THEN [bare EXCEPT !.decaying = FALSE, !.duration = next.time]
        ELSE bare

CanDecay(it) == /\ it.placed
                /\ Kind[it.kind].to # Never /\ Kind[it.kind].time # 0

InternalRemoveItem(it) == IF it.placed THEN Release([it EXCEPT !.placed = FALSE]) ELSE it

\* Game::startDecay and internalDecayItem, which call each other.  A type it
\* decays into has its own time, since no type that decays stops the time.
Queue(it) == [it EXCEPT !.refs = @ + 1, !.decaying = TRUE, !.queued = @ + 1, !.left = it.duration]

Started(it) == IF CanDecay(it) /\ ~it.decaying THEN Queue(it) ELSE it

InternalDecayItem(it) ==
    IF ~it.placed THEN it
    ELSE IF Kind[it.kind].to = Away THEN InternalRemoveItem(it)
    ELSE Started(SetID(it, Kind[it.kind].to))

StartDecay(it) ==
    IF CanDecay(it) /\ ~it.decaying /\ it.duration <= 0 THEN InternalDecayItem(it) ELSE Started(it)

\* checkDecay, for one entry in bucket b.
Visit(it, b) ==
    LET duration == IF it.duration > ROUND THEN it.duration - ROUND ELSE 0
        newBucket == (b + (duration + INTERVAL \div 2) \div 8) % BUCKETS
        out == [it EXCEPT !.at[b] = @ - 1, !.duration = duration]
    IN  IF ~CanDecay(it) THEN Release([it EXCEPT !.at[b] = @ - 1, !.decaying = FALSE])
        ELSE IF duration = 0 \/ (duration < ROUND /\ newBucket = b)
        THEN Release(InternalDecayItem(out))
        ELSE IF duration < ROUND THEN [out EXCEPT !.at[newBucket] = @ + 1]
        ELSE [it EXCEPT !.duration = duration]

CleanedNext(it, last) ==
    IF it.refs = it.release THEN NoItemObject
    ELSE [it EXCEPT !.refs = @ - it.release, !.release = 0,
                    !.at[(last + 1) % BUCKETS] = @ + it.queued, !.queued = 0]

\* Game::cleanup: what was started goes into the wheel.
Cleaned(it, last) ==
    LET bucket == IF it.duration >= ROUND THEN last
                  ELSE (last + 1 + (IF it.duration > 0 THEN it.duration \div 8 ELSE 0)) % BUCKETS
    IN  IF it.refs = it.release THEN NoItemObject
        ELSE [it EXCEPT !.refs = @ - it.release, !.release = 0,
                        !.at[bucket] = @ + it.queued, !.queued = 0]

-----------------------------------------------------------------------------
(* The handlers *)

Alive == {i \in Decaying : items[i] # NoItemObject}

CreateItem ==
    \E i \in Decaying \ Alive, k \in DOMAIN Kind :
    \E d \in Durations \cup {IF Kind[k].time > 0 THEN Kind[k].time ELSE NoDuration} :
        /\ items' = [items EXCEPT ![i] =
               [alive |-> TRUE, kind |-> k, duration |-> d, decaying |-> FALSE, placed |-> TRUE,
                refs |-> 1, release |-> 0, queued |-> 0,
                at |-> [b \in 0 .. BUCKETS - 1 |-> 0], left |-> 0]]
        /\ UNCHANGED lastBucket

TransformItem ==
    \E i \in Alive, k \in DOMAIN Kind :
        /\ items[i].placed /\ k # items[i].kind
        /\ items' = [items EXCEPT ![i] = SetID(@, k)]
        /\ UNCHANGED lastBucket

BeginDecay ==
    \E i \in Alive :
        /\ Entries(items[i]) < MaxEntries
        /\ items' = [items EXCEPT ![i] = StartDecay(@)]
        /\ UNCHANGED lastBucket

RemoveItem ==
    \E i \in Alive : /\ items' = [items EXCEPT ![i] = InternalRemoveItem(@)]
                     /\ UNCHANGED lastBucket

Cleanup == /\ items' = [i \in Decaying |-> IF i \in Alive THEN Cleaned(items[i], lastBucket) ELSE items[i]]
           /\ UNCHANGED lastBucket

Ticked(it) == IF it.decaying THEN [it EXCEPT !.left = @ - INTERVAL] ELSE it

\* The entries for one item in bucket b are visited.
Checked(it, b) ==
    LET visited[n \in 0 .. it.at[b]] ==
            IF n = 0 THEN Ticked(it) ELSE Visit(visited[n - 1], b)
    IN  visited[it.at[b]]

CheckDecay ==
    LET bucket == (lastBucket + 1) % BUCKETS
    IN  /\ items' = [i \in Decaying |->
               IF i \in Alive THEN Cleaned(Checked(items[i], bucket), bucket) ELSE items[i]]
        /\ lastBucket' = bucket

DecayNext == \/ CreateItem \/ TransformItem \/ BeginDecay \/ RemoveItem \/ Cleanup \/ CheckDecay

DecaySpec == DecayInit /\ [][DecayNext]_decayVars

-----------------------------------------------------------------------------
(* Properties *)

\* The wheel never has an item that was deleted, nor does one that was removed
\* stay alive but for its entries: also for an item that was turned into another
\* kind and begun anew, so that the wheel has it twice.  And one that is marked as
\* decaying is in the wheel; if it were not, its decay could never be started again.
DecaySound ==
    /\ TypeOKDecay
    /\ \A i \in Alive :
         LET it == items[i]
         IN  /\ it.refs = Entries(it) + it.release + (IF it.placed THEN 1 ELSE 0)
             /\ it.refs > 0
             /\ it.decaying => Entries(it) > 0

\* What has one entry decays less than two intervals late (it waits for the
\* cleanup that puts it into the wheel, and for the next visit of its bucket) and
\* less than a second early, whatever its duration is a multiple of.
OnTime ==
    \A i \in Alive :
       LET it == items[i]
       IN  /\ lastBucket' # lastBucket /\ Entries(it) = 1 /\ it.decaying /\ CanDecay(it)
           /\ (items'[i] = NoItemObject \/ ~items'[i].placed \/ items'[i].kind # it.kind)
           => it.left - INTERVAL \in 1 - 2 * INTERVAL .. ROUND - 1

DecayPunctual == []DecaySound /\ [][OnTime]_decayVars
=============================================================================
