---------------------------- MODULE Persistence -----------------------------
(***************************************************************************)
(* What the dispatcher thread writes to the database: players, houses and  *)
(* account storage, each in a transaction of the one connection            *)
(* Database::getInstance() that the network thread also reads through.     *)
(*                                                                         *)
(* A row is <<object, table>>; its content is a version number, Gone after *)
(* DELETE.  A statement is a function from the rows it writes to their     *)
(* contents.  Statements may fail, the connection may be lost and          *)
(* re-established (the transaction is then gone, the statement is retried  *)
(* and auto-commits), and the process may crash and restart.               *)
(***************************************************************************)
EXTENDS Integers, Sequences, SequencesExt, FiniteSets

CONSTANTS
    Players,        \* characters
    Accounts,       \* account ids
    PlayerTables,   \* the tables savePlayer() deletes from and inserts into
    MaxVersion,     \* bound: changes of one object
    MaxFaults       \* bound: faults of one behaviour

VARIABLES
    mem,      \* [Objects -> Nat]: version in memory, 0 for an offline player
    storage,  \* accountStorageMap: [account -> value], 0 for an emptied map
    disk,     \* [Rows -> Int]: what is committed
    view,     \* [Rows -> Int]: what the connection sees
    open,     \* a transaction is open on the connection
    lock,     \* databaseLock: "free" or the thread that holds it
    job,      \* saves the dispatcher's current task has still to do
    step,     \* where the first of them is: "idle", "begun", "run"
    todo,     \* statements of the transaction still to run
    half,     \* this save has skipped or lost some of its statements
    torn,     \* objects of which only half a save was committed
    acked,    \* [Objects -> Int]: version of the last save that returned true
    clean,    \* the network thread never read uncommitted rows
    faults

persistenceVars == <<mem, storage, disk, view, open, lock, job, step, todo, half, torn, acked, clean, faults>>
dbVars == <<disk, view, open, lock>>

Gone == -1
Houses == {"houseinfo", "houseitems"}
Objects == Players \cup Houses
TablesOf(o) == CASE o \in Players      -> {"players"} \cup Range(PlayerTables)
                 [] o = "houseinfo"  -> {"house_lists", "houses"}
                 [] o = "houseitems" -> {"tile_store"}
RowsOf(o) == {<<o, t>> : t \in TablesOf(o)}
AccountRow(a) == <<"account_storage", a>>
AccountRows == {AccountRow(a) : a \in Accounts}
Rows == (UNION {RowsOf(o) : o \in Objects}) \cup AccountRows

PersistenceAssumption ==
    /\ Players # {} /\ Players \cap (Houses \cup {"account_storage"}) = {}
    /\ PlayerTables \in Seq(Range(PlayerTables)) /\ "players" \notin Range(PlayerTables)
    /\ IsFiniteSet(Players) /\ IsFiniteSet(Accounts)
    /\ MaxVersion \in Nat \ {0} /\ MaxFaults \in Nat

-----------------------------------------------------------------------------
(* The statements of each save.                                            *)

Write(o, t, v) == [r \in {<<o, t>>} |-> v]

\* savePlayer(): UPDATE players, then DELETE and INSERT of every other table.
PlayerStatements(p, v) ==
    [i \in 1 .. 2 * Len(PlayerTables) + 1 |->
        IF i = 1 THEN Write(p, "players", v)
        ELSE Write(p, PlayerTables[i \div 2], IF i % 2 = 0 THEN Gone ELSE v)]

\* saveHouseInfo()
HouseInfoStatements(v) ==
    <<Write("houseinfo", "house_lists", Gone), Write("houseinfo", "houses", v),
      Write("houseinfo", "house_lists", v)>>

\* saveHouseItems()
HouseItemStatements(v) ==
    <<Write("houseitems", "tile_store", Gone), Write("houseitems", "tile_store", v)>>

\* The accounts saveAccountStorageValues() reaches: it walks a hash table, in
\* whatever order, and stops at an account whose values were all removed.
AccountsWritten(s) ==
    LET full == {a \in DOMAIN s : s[a] # 0}
    IN  IF full = DOMAIN s THEN {full} ELSE SUBSET full
AccountStatements(s, written) ==
    LET accounts == SetToSeq(written)
    IN  <<[r \in AccountRows |-> Gone]>>
            \o [i \in DOMAIN accounts |-> [r \in {AccountRow(accounts[i])} |-> s[accounts[i]]]]

\* The statements a save may consist of.
Statements(j) ==
    CASE j.what \in Players          -> {PlayerStatements(j.what, j.version)}
      [] j.what = "houseinfo"        -> {HouseInfoStatements(j.version)}
      [] j.what = "houseitems"       -> {HouseItemStatements(j.version)}
      [] j.what = "account_storage"  ->
            {AccountStatements(storage, w) : w \in AccountsWritten(storage)}

Save(what, version, tries, logout) ==
    [what |-> what, version |-> version, tries |-> tries, logout |-> logout]

-----------------------------------------------------------------------------
(* The connection.                                                         *)

\* A statement: inside the transaction, or committed by itself.
WrittenTo(stmt, table) == [r \in Rows |-> IF r \in DOMAIN stmt THEN stmt[r] ELSE table[r]]
Execute(stmt) ==
    /\ view' = WrittenTo(stmt, view)
    /\ disk' = IF open THEN disk ELSE WrittenTo(stmt, disk)

\* Database::rollback(): what the transaction wrote is gone.
Forgotten == view   \* fault: ~DBTransaction() does not roll back
RolledBack == disk
Rollback ==
    /\ disk' = RolledBack /\ view' = RolledBack
    /\ open' = FALSE /\ lock' = "free"

-----------------------------------------------------------------------------
(* The dispatcher's saves.                                                 *)

First == Head(job)
Ready == step = "idle" /\ job = <<>>

\* The first save is over; a failed one is tried again while tries are left.
\* Map::save() gives up the items when the house information cannot be saved.
NextSave(ok) ==
    /\ job' = IF ok THEN Tail(job)
              ELSE IF First.tries > 1 THEN <<[First EXCEPT !.tries = @ - 1]>> \o Tail(job)
              ELSE IF First.what = "houseinfo" THEN <<>>
              ELSE Tail(job)
    /\ step' = "idle" /\ todo' = <<>> /\ half' = FALSE
    /\ LET over == ok \/ First.tries = 1
       IN  mem' = IF over /\ First.logout THEN [mem EXCEPT ![First.what] = 0] ELSE mem
    /\ acked' = IF ok /\ First.what \in Objects
                THEN [acked EXCEPT ![First.what] = First.version] ELSE acked
    /\ torn' = IF half THEN torn \cup {First.what}
               ELSE IF ok THEN torn \ {First.what} ELSE torn
    /\ UNCHANGED <<storage, clean>>

\* executeQuery("BEGIN") takes the lock and releases it.
Begin ==
    /\ step = "idle" /\ job # <<>> /\ lock = "free"
    /\ open' = TRUE /\ view' = disk
    /\ step' = "begun" /\ todo' \in Statements(First)
    /\ UNCHANGED <<mem, storage, disk, lock, job, half, torn, acked, clean, faults>>

\* BEGIN fails: begin() returns false; ~DBTransaction() then rolls back what
\* never began and unlocks a mutex this thread does not hold, which the
\* recursive mutex of the build refuses.
BeginFails ==
    /\ step = "idle" /\ job # <<>> /\ lock = "free" /\ faults < MaxFaults
    /\ faults' = faults + 1
    /\ NextSave(FALSE)
    /\ UNCHANGED dbVars

\* beginTransaction() takes the lock for the transaction.
Lock ==
    /\ step = "begun" /\ lock = "free"
    /\ lock' = "dispatcher" /\ step' = "run"
    /\ UNCHANGED <<mem, storage, disk, view, open, job, todo, half, torn, acked, clean, faults>>

RunStatement ==
    /\ step = "run" /\ todo # <<>>
    /\ Execute(Head(todo))
    /\ todo' = Tail(todo)
    /\ UNCHANGED <<mem, storage, open, lock, job, step, half, torn, acked, clean, faults>>

\* A statement fails for good: the save returns false, the transaction ends.
\* The UPDATE of a house is the one statement whose result nobody looks at.
StatementFails ==
    /\ step = "run" /\ todo # <<>> /\ faults < MaxFaults
    /\ faults' = faults + 1
    /\ \/ /\ DOMAIN Head(todo) = {<<"houseinfo", "houses">>}
          /\ todo' = Tail(todo)
          /\ half' = TRUE
          /\ UNCHANGED <<mem, storage, job, step, torn, acked, clean, disk, view, open, lock>>
       \/ /\ DOMAIN Head(todo) # {<<"houseinfo", "houses">>}
          /\ Rollback
          /\ NextSave(FALSE)

\* The server went away: the transaction is rolled back, the client library
\* reconnects, and the statement is tried again outside any transaction.
ConnectionLost ==
    /\ step \in {"begun", "run"} /\ open /\ faults < MaxFaults
    /\ faults' = faults + 1
    /\ open' = FALSE /\ view' = disk /\ half' = TRUE
    /\ UNCHANGED <<mem, storage, disk, lock, job, step, todo, torn, acked, clean>>

Commit ==
    /\ step = "run" /\ todo = <<>>
    /\ disk' = view /\ open' = FALSE /\ lock' = "free"
    /\ NextSave(TRUE)
    /\ UNCHANGED <<view, faults>>

\* mysql_commit() reports an error: the server may or may not have committed.
CommitFails ==
    /\ step = "run" /\ todo = <<>> /\ faults < MaxFaults
    /\ faults' = faults + 1
    /\ \E outcome \in {disk, view} : disk' = outcome /\ view' = outcome
    /\ open' = FALSE /\ lock' = "free"
    /\ NextSave(FALSE)

-----------------------------------------------------------------------------
(* What asks for saves.                                                    *)

\* What a load makes of the rows; with none, a house keeps what the map file holds.
MainTable(o) == CASE o \in Players     -> "players"
                  [] o = "houseinfo"  -> "houses"
                  [] o = "houseitems" -> "tile_store"
Load(o) ==
    LET v == disk[<<o, MainTable(o)>>]
    IN  IF v = Gone THEN 1 ELSE v

Login(p) ==
    /\ Ready /\ mem[p] = 0
    /\ mem' = [mem EXCEPT ![p] = Load(p)]
    /\ UNCHANGED <<storage, disk, view, open, lock, job, step, todo, half, torn, acked, clean, faults>>

Change(o) ==
    /\ Ready /\ mem[o] \in 1 .. MaxVersion - 1
    /\ mem' = [mem EXCEPT ![o] = @ + 1]
    /\ UNCHANGED <<storage, disk, view, open, lock, job, step, todo, half, torn, acked, clean, faults>>

SetAccountStorageValue(a) == \E v \in 0 .. MaxVersion :
    /\ Ready /\ v # (IF a \in DOMAIN storage THEN storage[a] ELSE Gone)
    /\ storage' = [b \in DOMAIN storage \cup {a} |-> IF b = a THEN v ELSE storage[b]]
    /\ UNCHANGED <<mem, disk, view, open, lock, job, step, todo, half, torn, acked, clean, faults>>

Ask(saves) ==
    /\ Ready
    /\ job' = saves
    /\ UNCHANGED <<mem, storage, disk, view, open, lock, step, todo, half, torn, acked, clean, faults>>

\* Player::onRemoveCreature(): three tries.
Logout(p) == mem[p] > 0 /\ Ask(<<Save(p, mem[p], 3, TRUE)>>)

\* Game::saveGameState()
Online == SetToSeq({p \in Players : mem[p] > 0})
SaveGameState ==
    Ask(<<Save("account_storage", 0, 1, FALSE)>>
          \o [i \in DOMAIN Online |-> Save(Online[i], mem[Online[i]], 1, FALSE)]
          \o <<Save("houseinfo", mem["houseinfo"], 3, FALSE),
               Save("houseitems", mem["houseitems"], 3, FALSE)>>)

\* A parcel, a house or a bed reaches an offline player: loaded, changed, saved once.
SaveOffline(p) ==
    /\ mem[p] = 0 /\ Load(p) < MaxVersion
    /\ Ask(<<Save(p, Load(p) + 1, 1, FALSE)>>)

\* The network thread looks a ban up through the same connection.
IsIpBanned ==
    /\ lock = "free"
    /\ clean' = (clean /\ view = disk)
    /\ UNCHANGED <<mem, storage, disk, view, open, lock, job, step, todo, half, torn, acked, faults>>

\* The process ends anywhere and starts again.
Crash ==
    /\ faults < MaxFaults
    /\ faults' = faults + 1
    /\ view' = disk /\ open' = FALSE /\ lock' = "free"
    /\ job' = <<>> /\ step' = "idle" /\ todo' = <<>> /\ half' = FALSE
    /\ mem' = [o \in Objects |-> IF o \in Players THEN 0 ELSE Load(o)]
    /\ storage' = LET kept == {a \in Accounts : disk[AccountRow(a)] # Gone}
                  IN  [a \in kept |-> disk[AccountRow(a)]]
    /\ torn' = IF half THEN torn \cup {First.what} ELSE torn
    /\ UNCHANGED <<disk, acked, clean>>

-----------------------------------------------------------------------------

PersistenceInit ==
    /\ mem = [o \in Objects |-> IF o \in Players THEN 0 ELSE 1]
    /\ storage = [a \in Accounts |-> 1]
    /\ disk = [r \in Rows |-> 1] /\ view = disk
    /\ open = FALSE /\ lock = "free"
    /\ job = <<>> /\ step = "idle" /\ todo = <<>> /\ half = FALSE
    /\ torn = {} /\ acked = [o \in Objects |-> 1]
    /\ clean = TRUE /\ faults = 0

PersistenceNext ==
    \/ Begin \/ BeginFails \/ Lock \/ RunStatement \/ StatementFails
    \/ ConnectionLost \/ Commit \/ CommitFails
    \/ \E p \in Players : Login(p) \/ Logout(p) \/ SaveOffline(p)
    \/ \E o \in Objects : Change(o)
    \/ \E a \in Accounts : SetAccountStorageValue(a)
    \/ SaveGameState \/ IsIpBanned \/ Crash

PersistenceSpec == PersistenceInit /\ [][PersistenceNext]_persistenceVars

-----------------------------------------------------------------------------
(* Properties.                                                             *)

PersistenceTypeOK ==
    /\ mem \in [Objects -> 0 .. MaxVersion] /\ DOMAIN storage \subseteq Accounts
    /\ disk \in [Rows -> Gone .. MaxVersion] /\ view \in [Rows -> Gone .. MaxVersion]
    /\ open \in BOOLEAN /\ lock \in {"free", "dispatcher"}
    /\ step \in {"idle", "begun", "run"} /\ half \in BOOLEAN
    /\ acked \in [Objects -> 0 .. MaxVersion] /\ clean \in BOOLEAN

Whole(o) == \E v \in 1 .. MaxVersion : \A r \in RowsOf(o) : disk[r] = v
Disturbed(o) == o \in torn \/ (half /\ First.what = o)

\* Whatever statement fails and wherever the process dies, the committed rows
\* of a player or of the houses are those of one save, never a mixture, except
\* after a save whose connection was lost and re-established halfway, or whose
\* UPDATE of a house failed unnoticed.
SavesAreAtomic == \A o \in Objects : Whole(o) \/ Disturbed(o)

\* A save that returned true is on disk: no later failed save takes it away.
SavedIsKept == \A o \in Objects : Disturbed(o) \/ \A r \in RowsOf(o) : disk[r] >= acked[o]

\* The network thread, which may slip in between BEGIN and the lock of the
\* transaction, never sees uncommitted rows; a task that ends leaves no open
\* transaction and no lock behind.
ConnectionIsClean == clean /\ (Ready => ~open /\ lock = "free" /\ view = disk)

PersistenceAgrees == PersistenceTypeOK /\ SavesAreAtomic /\ SavedIsKept /\ ConnectionIsClean

=============================================================================
