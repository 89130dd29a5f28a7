----------------------------- MODULE Persistence -----------------------------
\* One character and its rows in the database: IOLoginData::savePlayer writes
\* them statement by statement in a transaction, loadPlayer makes a player of
\* them, for a login or for somebody who changes a character that is offline.
\* A statement may be refused, and the connection may be lost before it: mysql
\* reconnects and the statement is sent again, but the transaction is gone.
EXTENDS Integers, SequencesExt, FiniteSetsExt, TLC

CONSTANTS
    Things, Bags,     \* the items there are, and those of them that hold others
    Slots, Depots,    \* the slots (1..10) and the depots (0..99) in use
    Conditions,       \* those that are persistent
    Looks, Dex,       \* outfits and numbers of pokemon, at least 1
    Quests,           \* keys of the storage that scripts use
    OthersKeys,       \* keys that other characters have in the same table
    PacketRows,       \* rows that DBInsert puts into one statement
    MaxChanges, MaxFaults  \* changes and faults in a behaviour (bounds)

ASSUME PersistenceAssumption ==
    /\ Bags \subseteq Things /\ Slots \subseteq 1..10 /\ Depots \subseteq 0..99
    /\ Quests \cup OthersKeys \subseteq Nat
    /\ Looks \subseteq 1..499 /\ Dex \subseteq 1..999
    /\ PacketRows \in Nat \ {0} /\ MaxChanges \in Nat /\ MaxFaults \in Nat

VARIABLES
    rows,      \* the tables of the database, as committed
    tx,        \* the tables as the open transaction sees them, or NoTx
    player,    \* the Player that is online, or Offline
    save,      \* the save under way: whose, why, what is left to do; or Idle
    ground,    \* the items nobody has
    changes, faults, \* how many there were (bounded)
    kept,      \* auxiliary: what the last save that was completed was to keep
    torn       \* auxiliary: a statement went on without its transaction

dbVars == <<rows, tx, player, save, ground, changes, faults, kept, torn>>

NoTx == [open |-> FALSE]
Offline == [online |-> FALSE]
Idle == [why |-> "idle"]

Holders == ({"slot"} \X Slots) \cup ({"depot"} \X Depots) \cup ({"bag"} \X Bags)
           \cup {<<"inbox", 0>>}

OUTFITS == 1000       \* PSTRG_OUTFITS_RANGE_START and POKEDEX, without their base
POKEDEX == 2100
Shifted == 65536      \* a value is shifted by 16 bits
-------------------------------------------------------------------------------
(* The storage of a player: quest values, outfits and pokedex entries.         *)

Set(f, k, v) == (k :> v) @@ f

\* genReservedStorageRange: the lists are written over the keys of their range,
\* and a key that was written before is not taken back.
Reserved(p) ==
    [p EXCEPT !.storage =
        [k \in {OUTFITS + i : i \in DOMAIN p.outfits} |-> p.outfits[k - OUTFITS] * Shifted]
        @@ [k \in {POKEDEX + i : i \in DOMAIN p.dex} |-> p.dex[k - POKEDEX] * Shifted]
        @@ p.storage]

\* addPokedexEntry takes a uint16_t.
AddPokedexEntry(dex, value) ==
    LET number == value % Shifted IN IF number \in Range(dex) THEN dex ELSE Append(dex, number)

IsOutfit(k) == k >= OUTFITS /\ k <= OUTFITS + 500
IsDex(k) == k >= POKEDEX /\ k <= POKEDEX + 1000

\* addStorageValue at a login: an outfit leaves the map, a pokedex entry does not.
Stored(values) ==
    LET Keys(Is(_)) == SetToSortSeq({k \in DOMAIN values : Is(k)}, <)
    IN  [ outfits |-> [i \in DOMAIN Keys(IsOutfit) |-> values[Keys(IsOutfit)[i]] \div Shifted],
          dex |-> FoldSeq(LAMBDA k, dex : AddPokedexEntry(dex, values[k]), <<>>, Reverse(Keys(IsDex))),
          map |-> [k \in {j \in DOMAIN values : ~IsOutfit(j)} |-> values[k]] ]
-------------------------------------------------------------------------------
(* Items as rows.                                                              *)

\* saveItems: the items of the list, then those in their bags, numbered as they
\* come; a row names its parent by the number of a slot, a depot or a row.
RECURSIVE Numbered(_, _, _)
Numbered(held, queue, runningId) ==
    IF queue = <<>> THEN <<>>
    ELSE LET row == [Head(queue) EXCEPT !.sid = runningId + 1]
             within == IF row.item \in Bags THEN held[<<"bag", row.item>>] ELSE <<>>
         IN  <<row>> \o Numbered(held,
                 Tail(queue) \o [i \in DOMAIN within |->
                                    [pid |-> row.sid, sid |-> 0, item |-> within[i]]],
                 runningId + 1)

RunningId == 100

Listed(held, kind, pid) ==
    [i \in DOMAIN held[<<kind, pid>>] |-> [pid |-> pid, sid |-> 0, item |-> held[<<kind, pid>>][i]]]

\* The lists that savePlayer gives to saveItems.
ItemList(p, table) ==
    CASE table = "items" -> FlattenSeq([i \in 1..10 |-> IF i \in Slots THEN Listed(p.held, "slot", i) ELSE <<>>])
      [] table = "depot" -> FlattenSeq([i \in 1..100 |-> IF i - 1 \in Depots THEN Listed(p.held, "depot", i - 1) ELSE <<>>])
      [] table = "inbox" -> Listed(p.held, "inbox", 0)

SaveItems(p, table) == Numbered(p.held, ItemList(p, table), RunningId)

\* Where the row of a table belongs: a small pid is a slot or a depot, any other
\* the row of the bag.
PlaceOf(table, row, tableRows) ==
    CASE table = "items" /\ row.pid \in 1..10 -> <<"slot", row.pid>>
      [] table = "depot" /\ row.pid \in 0..99 -> <<"depot", row.pid>>
      [] table = "inbox" /\ row.pid \in 0..99 -> <<"inbox", 0>>
      [] \E r \in Range(tableRows) : r.sid = row.pid ->
            <<"bag", (CHOOSE r \in Range(tableRows) : r.sid = row.pid).item>>
      [] OTHER -> <<"nowhere", 0>>

\* loadItems and the loops of loadPlayer: the last row first, each at the front.
LoadItems(db) ==
    [h \in Holders |->
        LET Here(table) == {r \in Range(db[table]) : PlaceOf(table, r, db[table]) = h}
            InOrder(table) == SetToSortSeq(Here(table), LAMBDA r, s : r.sid > s.sid)
            Loaded(table) == FoldLeft(LAMBDA list, r : <<r.item>> \o list, <<>>, InOrder(table))
        IN  Loaded("items") \o Loaded("depot") \o Loaded("inbox")]
-------------------------------------------------------------------------------
(* Loading.                                                                    *)

Load(db) ==
    LET stored == Stored(db.storages)
    IN  [ online |-> FALSE, balance |-> db.core.balance, held |-> LoadItems(db),
          conditions |-> {}, storedConditionList |-> db.core.conditions,
          storage |-> stored.map, outfits |-> stored.outfits, dex |-> stored.dex,
          lastDepotId |-> FALSE ]

\* Rows that were torn may hold an item twice: such a character is not followed
\* further (bound).
Loadable ==
    LET all == rows.items \o rows.depot \o rows.inbox
    IN  \A i, j \in DOMAIN all : all[i].item = all[j].item => i = j

\* What a save is to keep.
Belongings(p) ==
    [balance |-> p.balance, held |-> p.held, outfits |-> Range(p.outfits), dex |-> Range(p.dex)]

NewTables == [ core |-> [balance |-> 0, conditions |-> {}],
               items |-> <<>>, depot |-> <<>>, inbox |-> <<>>, storages |-> <<>> ]

\* A character that was just made, with nothing.
PersistenceInit ==
    /\ rows = NewTables /\ tx = NoTx
    /\ player = Offline /\ save = Idle
    /\ ground = Things /\ changes = 0 /\ faults = 0
    /\ kept = Belongings(Load(NewTables)) /\ torn = FALSE
-------------------------------------------------------------------------------
(* The statements of a save.                                                   *)

\* DBInsert::addRow counts the rows since the last execute, but not the one that
\* made it execute.
Batches(list) ==
    LET Row(acc, r) ==
          IF acc.length + 1 > PacketRows
          THEN [sent |-> Append(acc.sent, acc.values), values |-> <<r>>, length |-> 0]
          ELSE [acc EXCEPT !.values = Append(@, r), !.length = @ + 1]
        all == FoldLeft(Row, [sent |-> <<>>, values |-> <<>>, length |-> 0], list)
    IN  IF all.values = <<>> THEN all.sent ELSE Append(all.sent, all.values)

Delete(table) == [do |-> "delete", table |-> table]
Inserts(table, list) ==
    LET batches == Batches(list)
    IN  [i \in DOMAIN batches |-> [do |-> "insert", table |-> table, list |-> batches[i]]]

\* Mutant of Opening: the transaction begins after the row of the player is written.
OpeningLate(core) == <<[do |-> "select"], [do |-> "update", core |-> core], [do |-> "begin"]>>

\* What a save begins with.
Opening(core) == <<[do |-> "select"], [do |-> "begin"], [do |-> "update", core |-> core]>>

\* The statements in the order of savePlayer; the depot is written only if it
\* was opened since the player was loaded.
Statements(p) ==
    LET Rewrite(table) == <<Delete(table)>> \o Inserts(table, SaveItems(p, table))
        storage == Reserved(p).storage
        keys == SetToSortSeq(DOMAIN storage, <)
    IN  Opening([balance |-> p.balance, conditions |-> p.conditions])
        \o Rewrite("items")
        \o (IF p.lastDepotId THEN Rewrite("depot") ELSE <<>>)
        \o Rewrite("inbox")
        \o <<Delete("storages")>>
        \o Inserts("storages", [i \in DOMAIN keys |-> <<keys[i], storage[keys[i]]>>])
        \o <<[do |-> "commit"]>>

\* A key of the storages is unique in the whole table, whoever has it.
Duplicate(db, s) ==
    /\ s.do = "insert" /\ s.table = "storages"
    /\ {r[1] : r \in Range(s.list)} \cap (OthersKeys \cup DOMAIN db.storages) # {}

\* What a statement makes of the tables.
Executed(db, s) ==
    CASE s.do = "update" -> [db EXCEPT !.core = s.core]
      [] s.do = "insert" /\ s.table = "storages" ->
            [db EXCEPT !.storages = [k \in {r[1] : r \in Range(s.list)} |->
                                        (CHOOSE r \in Range(s.list) : r[1] = k)[2]] @@ @]
      [] s.do = "delete" -> [db EXCEPT ![s.table] = <<>>]
      [] s.do = "insert" -> [db EXCEPT ![s.table] = @ \o s.list]
      [] OTHER -> db

Begin(why, p, tries) == [why |-> why, player |-> p, todo |-> Statements(p), tries |-> tries]

\* genReservedStorageRange runs when the old storages are deleted.
AfterStatement(p, s) == IF s = Delete("storages") THEN Reserved(p) ELSE p

Within(held) == UNION {Range(held[h]) : h \in Holders}

\* The save is over: a player who logs out is gone, one who was loaded for a
\* change too.  What the rows still have although it lies on the ground is not
\* followed as two items (bound).
Over(p) ==
    /\ save' = Idle /\ UNCHANGED changes
    /\ IF save.why \in {"logout", "offline"}
       THEN player' = Offline /\ ground' = ground \ Within(LoadItems(rows'))
       ELSE player' = p /\ UNCHANGED ground

\* A statement is carried out, in the transaction if there is one.
Execute(lost) ==
    LET s == Head(save.todo)
        open == tx.open /\ ~lost
        p == AfterStatement(save.player, s)
    IN  /\ save # Idle /\ s.do # "commit"
        /\ ~Duplicate(IF open THEN tx.tables ELSE rows, s)
        /\ save' = [save EXCEPT !.todo = Tail(@), !.player = p]
        /\ IF s.do = "begin" THEN tx' = [open |-> TRUE, tables |-> rows] /\ UNCHANGED rows
           ELSE IF open THEN tx' = [tx EXCEPT !.tables = Executed(@, s)] /\ UNCHANGED rows
           ELSE tx' = NoTx /\ rows' = Executed(rows, s)
        /\ torn' = (torn \/ (tx.open /\ ~open))
        /\ faults' = faults + (IF lost THEN 1 ELSE 0)
    /\ UNCHANGED <<player, ground, changes, kept>>

ExecuteQuery == Execute(FALSE)
ConnectionLost == tx.open /\ faults < MaxFaults /\ Execute(TRUE)

Commit ==
    /\ save # Idle /\ Head(save.todo).do = "commit"
    /\ rows' = IF tx.open THEN tx.tables ELSE rows
    /\ tx' = NoTx
    /\ IF tx.open THEN kept' = Belongings(save.player) /\ torn' = FALSE ELSE UNCHANGED <<kept, torn>>
    /\ UNCHANGED faults
    /\ Over(save.player)

\* savePlayer returns false: the destructor of the transaction rolls it back. A
\* logout tries three times; the others do not look at the result.
Failed ==
    /\ tx' = NoTx /\ faults < MaxFaults /\ faults' = faults + 1
    /\ IF save.why = "logout" /\ save.tries > 1
       THEN /\ save' = Begin("logout", save.player, save.tries - 1)
            /\ UNCHANGED <<player, ground, changes>>
       ELSE Over(save.player)

Refused ==
    /\ save # Idle /\ Head(save.todo).do # "commit"
    /\ UNCHANGED <<rows, kept, torn>>
    /\ Failed

\* commit() fails: the state says that it was done, nothing is rolled back, and
\* whether the database did it nobody knows.
CommitRefused ==
    /\ save # Idle /\ Head(save.todo).do = "commit"
    /\ \/ UNCHANGED <<rows, kept, torn>>
       \/ /\ tx.open
          /\ rows' = tx.tables /\ kept' = Belongings(save.player) /\ torn' = FALSE
    /\ Failed
-------------------------------------------------------------------------------
(* The player.                                                                 *)

\* The dispatcher does nothing else while it saves.
Free == save = Idle

\* ProtocolGame::login and onCreatureAppear: the stored conditions come to life.
Login ==
    /\ Free /\ ~player.online /\ Loadable
    /\ LET p == Load(rows)
       IN  player' = [p EXCEPT !.online = TRUE, !.conditions = p.storedConditionList,
                               !.storedConditionList = {}]
    /\ UNCHANGED <<rows, tx, save, ground, changes, faults, kept, torn>>

\* onRemoveCreature; player:save() of a script, and saveGameState.
Logout ==
    /\ Free /\ player.online
    /\ save' = Begin("logout", player, 3)
    /\ UNCHANGED <<rows, tx, player, ground, changes, faults, kept, torn>>

SaveOnline ==
    /\ Free /\ player.online
    /\ save' = Begin("online", player, 1)
    /\ UNCHANGED <<rows, tx, player, ground, changes, faults, kept, torn>>

\* A handler changes the player who is online.
Acts == Free /\ player.online /\ changes < MaxChanges

Changed(p) ==
    /\ player' = p /\ changes' = changes + 1
    /\ UNCHANGED <<rows, tx, save, faults, kept, torn>>

InDepot(h) ==
    \/ h[1] = "depot"
    \/ h[1] = "bag" /\ \E row \in Range(SaveItems(player, "depot")) : row.item = h[2]
Empty(thing, held) == thing \in Bags => held[<<"bag", thing>>] = <<>>

\* A depot is reached through its locker, whose use is remembered, a bag only
\* if the player has it; addThing puts to the front.
Take(thing, h) ==
    /\ Acts /\ thing \in ground
    /\ h[1] = "slot" => player.held[h] = <<>>
    /\ h[1] = "bag" => h[2] \in Within(player.held)
    /\ h[1] # "inbox"
    /\ Changed([player EXCEPT !.held[h] = <<thing>> \o @, !.lastDepotId = @ \/ InDepot(h)])
    /\ ground' = ground \ {thing}

Drop(thing, h) ==
    /\ Acts /\ thing \in Range(player.held[h]) /\ Empty(thing, player.held)
    /\ Changed([player EXCEPT !.held[h] = SelectSeq(@, LAMBDA t : t # thing),
                              !.lastDepotId = @ \/ InDepot(h)])
    /\ ground' = ground \cup {thing}

Earn == Acts /\ player.balance = 0 /\ Changed([player EXCEPT !.balance = 1]) /\ UNCHANGED ground
Spend == Acts /\ player.balance = 1 /\ Changed([player EXCEPT !.balance = 0]) /\ UNCHANGED ground

Suffer(c) == /\ Acts /\ c \notin player.conditions /\ Changed([player EXCEPT !.conditions = @ \cup {c}])
             /\ UNCHANGED ground

AddOutfit(look) ==
    /\ Acts /\ look \notin Range(player.outfits) /\ Len(player.outfits) <= Cardinality(Looks)
    /\ Changed([player EXCEPT !.outfits = Append(@, look)])
    /\ UNCHANGED ground

\* removeOutfit takes away the first entry of the outfit.
RemoveOutfit(look) ==
    /\ Acts /\ look \in Range(player.outfits)
    /\ Changed([player EXCEPT !.outfits = RemoveFirst(@, look)])
    /\ UNCHANGED ground

EnterPokedex(number) ==
    /\ Acts /\ number \notin Range(player.dex)
    /\ Changed([player EXCEPT !.dex = AddPokedexEntry(@, number)])
    /\ UNCHANGED ground

\* addStorageValue of a script, for a key outside the reserved ones.
SetStorageValue(key) ==
    /\ Acts /\ key \notin DOMAIN player.storage
    /\ Changed([player EXCEPT !.storage = Set(@, key, 1)])
    /\ UNCHANGED ground
-------------------------------------------------------------------------------
(* Who changes a character that is offline: loads, changes, saves, and does not *)
(* ask whether it was saved.                                                   *)

Offhand(p) ==
    /\ changes < MaxChanges /\ changes' = changes + 1
    /\ save' = Begin("offline", p, 1)
    /\ UNCHANGED <<rows, tx, player, faults, kept, torn>>

\* Mailbox::sendItem, and what else comes by the inbox: a warning of the rent,
\* the items of an offer that expired.
SendItem(thing) ==
    /\ Free /\ thing \in ground
    /\ \/ /\ ~player.online
          /\ Offhand([Load(rows) EXCEPT !.held[<<"inbox", 0>>] = <<thing>> \o @])
       \/ /\ Acts
          /\ Changed([player EXCEPT !.held[<<"inbox", 0>>] = <<thing>> \o @])
    /\ ground' = ground \ {thing}

\* Houses::payHouses takes the rent.
PayRent ==
    /\ Free /\ ~player.online /\ Loadable
    /\ LET p == Load(rows) IN p.balance = 1 /\ Offhand([p EXCEPT !.balance = 0])
    /\ UNCHANGED ground

\* increaseBankBalance, one statement without a transaction.
IncreaseBankBalance ==
    /\ Free /\ ~player.online /\ rows.core.balance = 0
    /\ rows' = [rows EXCEPT !.core.balance = 1]
    /\ kept' = [kept EXCEPT !.balance = 1]
    /\ UNCHANGED <<tx, player, save, ground, changes, faults, torn>>

\* The server is killed, and the database rolls back what was open. What is
\* neither in the database nor on the ground comes into being anew.
Crash ==
    /\ player' = Offline /\ save' = Idle /\ tx' = NoTx /\ UNCHANGED changes
    /\ faults < MaxFaults /\ faults' = faults + 1
    /\ ground' = Things \ Within(Load(rows).held)
    /\ UNCHANGED <<rows, kept, torn>>

PersistenceNext ==
    \/ Login \/ Logout \/ SaveOnline
    \/ \E thing \in Things : SendItem(thing) \/ \E h \in Holders : Take(thing, h) \/ Drop(thing, h)
    \/ Earn \/ Spend
    \/ \E c \in Conditions : Suffer(c)
    \/ \E look \in Looks : AddOutfit(look) \/ RemoveOutfit(look)
    \/ \E number \in Dex : EnterPokedex(number)
    \/ \E key \in Quests : SetStorageValue(key)
    \/ PayRent \/ IncreaseBankBalance
    \/ ExecuteQuery \/ ConnectionLost \/ Commit \/ Refused \/ CommitRefused
    \/ Crash

PersistenceSpec == PersistenceInit /\ [][PersistenceNext]_dbVars

-------------------------------------------------------------------------------
(* Properties.                                                                 *)

\* The lists of a player stay within what there is, and nothing is left to do
\* without a save.
TypeOKPersistence ==
    /\ changes \in 0..MaxChanges /\ faults \in 0..MaxFaults
    /\ torn \in BOOLEAN /\ ground \subseteq Things
    /\ player # Offline => DOMAIN player.held = Holders
    /\ save = Idle => tx = NoTx
    /\ save # Idle => save.todo # <<>> /\ Last(save.todo).do = "commit"

\* Who logs in finds what the last save that was completed was to keep: his money,
\* every item in its place and its order, bags in depots included, the outfits he
\* had (those that were taken from him come back too) - although saves were refused
\* halfway, tried again, or cut off by a crash, and others changed the rows
\* meanwhile.  The exception is a save that lost its transaction with the connection.
SavedWhole ==
    /\ TypeOKPersistence
    /\ ~torn => LET back == Belongings(Load(rows))
                IN  /\ back.balance = kept.balance /\ back.held = kept.held
                    /\ kept.outfits \subseteq back.outfits
===============================================================================
